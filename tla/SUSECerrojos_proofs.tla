------------------------- MODULE SUSECerrojos_proofs -------------------------
(***************************************************************************)
(* Proofs about SUSECerrojos, for any programs, ULTs and bounds.             *)
(*                                                                         *)
(* All rests on who holds a mutex being where its thread is (Duenios).  That  *)
(* is inductive only with what each thread has in its hands (Lleva), for a    *)
(* program that is a mutex is found through the ULT that is moved, and with   *)
(* the client running the ULT that the server believes it runs (DeAcuerdo).   *)
(***************************************************************************)
EXTENDS SUSECerrojos, FiniteSetTheorems, TLAPS

(***************************************************************************)
(* Places.                                                                  *)
(***************************************************************************)

Estados == {"NADA", "NEW", "READY", "EXEC", "BLOCKED", "EXIT"}
Tids == UNION {Hilos[p] : p \in Programas}

Pasan == {"pasa_new", "pasa_exec", "pasa_block", "pasa_fin"}
Agregan == {"agrega_new", "agrega_exec", "agrega_block", "agrega_fin"}
Avisan == {"post_new", "post_exec", "post_block", "post_fin"}

\* Where a thread holds each mutex.
ConMulti == {"planificadorLargo", "pasa_new", "agrega_new", "post_new", "metricas_hijos"}
ConLock == {"recibe_nombre", "signal_hilo", "pasa_block", "agrega_block", "post_block", "suelta"}
PorEncolar == {"BLOCKED", "tabla_lock", "bloquearEnSemaforo"}
ConWt == ConLock \cup PorEncolar \cup {"wait_hilo", "responde", "sem_lock", "metrica"}

Fin == {"fin", "libera", "pasa_fin", "agrega_fin", "post_fin", "exit"}
Mide == {"printefearMetricas", "metricas_wt", "metrica", "metricas_multi", "metricas_hijos"}
Lugares == {"fuera", "conecta", "recv", "agrega_hijo", "create_hilo", "planifica", "sem_wait",
            "next_hilo", "close_hilo", "fin", "libera", "exit"}
             \cup Pasan \cup Agregan \cup Avisan \cup ConMulti \cup ConWt \cup Mide

TipoHebras ==
  /\ donde \in [Hebras -> Lugares \cup {"usleep"}]
  /\ \A p \in Programas : donde[p] # "usleep"
  /\ donde[Metricas] \in Mide \cup {"usleep"}
  /\ lleva \in [Hebras -> Pares \cup {Nadie}]
  /\ duenio \in [Cerrojos -> Hebras \cup {Nadie}]

TipoHilos ==
  /\ tabla_new \in Seq(Pares) /\ sem_blocked \in Seq(Pares)
  /\ estado \in [Pares -> Estados]
  /\ tablaReady \in [Programas -> SUBSET Tids]
  /\ \A p \in Programas : tablaReady[p] \subseteq Hilos[p]
  /\ hilo_exec \in [Programas -> Tids \cup {Nadie}]
  /\ \A p \in Programas : hilo_exec[p] \in Hilos[p] \cup {Nadie}

TipoCuentas ==
  /\ cant_programas \in Int /\ sem_value \in Int
  /\ cont \in [Programas -> Nat]
  /\ retenidos \in [Programas -> Int]
  /\ actual \in [Programas -> Tids \cup {Main, Nadie}]
  /\ cede \in [Programas -> BOOLEAN]
  /\ perdido \in BOOLEAN

TipoOK == TipoHebras /\ TipoHilos /\ TipoCuentas

\* A mutex is held exactly by the thread that is in one of its places.
Duenios ==
  \A t \in Hebras :
    /\ duenio["multi"] = t <=> donde[t] \in ConMulti
    /\ duenio["wt"] = t <=> donde[t] \in ConWt
    /\ duenio["sem_lock"] = t <=> donde[t] \in ConLock
    /\ duenio["sem_new"] = t <=> donde[t] = "create_hilo"
    /\ \A p \in Programas :
         duenio[p] = t <=> donde[t] \in Agregan /\ lleva[t][1] = p

\* A thread that moves a ULT has one in its hands; its own, if it runs.
Lleva ==
  \A t \in Hebras :
    /\ donde[t] \in Pasan \cup Agregan \cup Avisan \cup {"agrega_hijo", "create_hilo"} => lleva[t] \in Pares
    /\ donde[t] \in {"agrega_hijo", "create_hilo"} => lleva[t][1] = t
    /\ donde[t] \in {"pasa_exec", "agrega_exec", "post_exec"} =>
         lleva[t] = <<t, hilo_exec[t]>>

\* The client runs the ULT that the server believes it runs, until the main
\* thread ends.
DeAcuerdoEn(p) ==
  /\ actual[p] = Nadie => donde[p] \in Mide \cup Fin
  /\ ~cede[p] /\ actual[p] # Nadie /\ donde[p] \notin {"sem_wait", "next_hilo", "responde"} =>
       hilo_exec[p] = IF actual[p] = Main THEN Nadie ELSE actual[p]
  /\ donde[p] \in (ConWt \ {"metrica", "responde"}) \cup {"close_hilo"} => hilo_exec[p] # Nadie
DeAcuerdo == \A p \in Programas : DeAcuerdoEn(p)

\* aceptarClientes is one thread.
UnoConecta ==
  \A t, u \in Hebras : donde[t] = "conecta" /\ donde[u] = "conecta" => t = u

CerrojosInv == TipoOK /\ Duenios /\ Lleva /\ DeAcuerdo /\ UnoConecta

-----------------------------------------------------------------------------
(* Types *)

\* What the assumptions on the constants give of threads and mutexes.
LEMMA Hechos ==
  /\ Metricas \in Hebras /\ Metricas \notin Programas
  /\ \A p \in Programas : p \in Hebras /\ p # Metricas /\ p \in Cerrojos
  /\ \A p \in Programas : p \notin {"multi", "wt", "sem_lock", "sem_new"}
  /\ "usleep" \notin Lugares /\ Nadie \notin Hebras \cup {"wt"} /\ Main # Nadie
BY ConstantesCerrojos DEF ConstantesCerrojos, Hebras, Cerrojos, Lugares, Pasan, Agregan, Avisan, ConMulti, ConWt, ConLock, PorEncolar, Mide

\* The two parts of a ULT.
LEMMA ParTipo ==
  ASSUME NEW x \in Pares
  PROVE  /\ x[1] \in Programas /\ x[2] \in Hilos[x[1]] /\ x[2] \in Tids
         /\ x = <<x[1], x[2]>> /\ x[1] \in Cerrojos
BY DEF Pares, Tids, Cerrojos

\* A program and one of its tids are a ULT.
LEMMA ParDe ==
  ASSUME NEW p \in Programas, NEW h \in Hilos[p]
  PROVE  <<p, h>> \in Pares /\ h \in Tids
BY DEF Pares, Tids

\* No tid is the main thread nor nobody.
LEMMA HiloDistinto ==
  ASSUME NEW p \in Programas, NEW h \in Hilos[p]
  PROVE  h # Main /\ h # Nadie
BY ConstantesCerrojos DEF ConstantesCerrojos

\* The two parts of a queue.
LEMMA ColaTipo ==
  ASSUME NEW S, NEW c \in Seq(S), c # <<>>
  PROVE  Head(c) \in S /\ Tail(c) \in Seq(S)
OBVIOUS

\* A unit given back takes its thread to one of two places, or nowhere.
LEMMA DevolverVa ==
  ASSUME donde \in [Hebras -> Lugares \cup {"usleep"}], NEW p \in Programas, NEW a, NEW b, Devolver(p, a, b)
  PROVE  \E l \in {donde[p], a, b} : Ir(p, l)
<1>1. CASE UNCHANGED donde
  BY <1>1 DEF Ir
<1>2. CASE Ir(p, a) \/ Ir(p, b)
  BY <1>2
<1>3. QED
  BY <1>1, <1>2 DEF Devolver

\* A unit given back keeps the types of what it changes.
LEMMA DevolverTipo ==
  ASSUME TipoOK, NEW p \in Programas, NEW a \in Lugares, NEW b \in Lugares, Devolver(p, a, b)
  PROVE  /\ donde' \in [Hebras -> Lugares \cup {"usleep"}]
         /\ \A q \in Programas : donde'[q] # "usleep"
         /\ donde'[Metricas] \in Mide \cup {"usleep"}
         /\ lleva' \in [Hebras -> Pares \cup {Nadie}]
         /\ sem_value' \in Int /\ sem_blocked' \in Seq(Pares)
         /\ estado' \in [Pares -> Estados] /\ perdido' \in BOOLEAN
<1>1. CASE sem_value < SemMax /\ sem_value + 1 <= 0 /\ sem_blocked # <<>>
  <2>1. Head(sem_blocked) \in Pares /\ Tail(sem_blocked) \in Seq(Pares)
    BY <1>1, ColaTipo DEF TipoOK, TipoHilos
  <2>3. "READY" \in Estados
    BY DEF Estados
  <2>2. /\ lleva' = [lleva EXCEPT ![p] = Head(sem_blocked)] /\ donde' = [donde EXCEPT ![p] = a]
        /\ sem_blocked' = Tail(sem_blocked) /\ UNCHANGED perdido
        /\ estado' = [estado EXCEPT ![Head(sem_blocked)] = "READY"]
        /\ sem_value' = sem_value + 1
    BY <1>1, ConstantesCerrojos DEF ConstantesCerrojos, Devolver, TipoOK, TipoCuentas, Ir
  <2>q. QED
    BY <2>1, <2>2, <2>3, Hechos DEF TipoOK, TipoHebras, TipoHilos, TipoCuentas
<1>2. CASE sem_value < SemMax /\ sem_value + 1 <= 0 /\ sem_blocked = <<>>
  <2>2. UNCHANGED <<sem_blocked, lleva, estado, donde>> /\ perdido' = TRUE /\ sem_value' = sem_value + 1
    BY <1>2, ConstantesCerrojos DEF ConstantesCerrojos, Devolver, TipoOK, TipoCuentas, Ir
  <2>q. QED
    BY <2>2, Hechos DEF TipoOK, TipoHebras, TipoHilos, TipoCuentas
<1>3. CASE sem_value >= SemMax \/ sem_value + 1 > 0
  <2>2. UNCHANGED <<sem_blocked, lleva, estado, perdido>> /\ donde' = [donde EXCEPT ![p] = b] /\ sem_value' \in Int
    BY <1>3, ConstantesCerrojos DEF ConstantesCerrojos, Devolver, TipoOK, TipoCuentas, Ir
  <2>q. QED
    BY <2>2, Hechos DEF TipoOK, TipoHebras, TipoHilos, TipoCuentas
<1>6. QED
  BY <1>1, <1>2, <1>3 DEF Devolver

\* A unit given back: to the first that waits, to nobody though the value
\* says that there is one, or to the value.
LEMMA DevolverCasos ==
  ASSUME TipoOK, NEW p \in Programas, NEW a, NEW b, Devolver(p, a, b)
  PROVE  /\ sem_value < SemMax /\ sem_value + 1 <= 0 /\ sem_blocked # <<>> =>
              /\ sem_value' = sem_value + 1 /\ sem_blocked' = Tail(sem_blocked)
              /\ lleva' = [lleva EXCEPT ![p] = Head(sem_blocked)]
              /\ estado' = [estado EXCEPT ![Head(sem_blocked)] = "READY"]
              /\ Ir(p, a) /\ UNCHANGED perdido
         /\ sem_value < SemMax /\ sem_value + 1 <= 0 /\ sem_blocked = <<>> =>
              /\ sem_value' = sem_value + 1 /\ perdido' = TRUE
              /\ UNCHANGED <<sem_blocked, lleva, estado, donde>>
         /\ ~ (sem_value < SemMax /\ sem_value + 1 <= 0) =>
              /\ sem_value' = IF sem_value < SemMax THEN sem_value + 1 ELSE sem_value
              /\ Ir(p, b) /\ UNCHANGED <<sem_blocked, lleva, estado, perdido>>
BY ConstantesCerrojos DEF ConstantesCerrojos, Devolver, TipoOK, TipoCuentas

\* Where the threads are.
LEMMA TipoHebrasPaso ==
  ASSUME CerrojosInv, NEW p \in Programas, Atiende(p)
  PROVE  TipoHebras'
<1> USE DEF CerrojosInv, TipoOK, TipoHebras, En, Ir, Lugares, Soltar, Tomar, Dejar
<1>1. ASSUME NEW h \in Hilos[p], PedirCrear(p, h) PROVE TipoHebras'
  BY <1>1, Hechos, ParDe DEF PedirCrear, Corre, Cerrojos
<1>2. ASSUME create_hilo(p) PROVE TipoHebras'
  BY <1>2, Hechos DEF create_hilo, Cerrojos
<1>3. ASSUME Planificar(p) PROVE TipoHebras'
  BY <1>3, Hechos DEF Planificar, Cerrojos, ConMulti
<1>4. ASSUME planificadorLargo(p) PROVE TipoHebras'
  <2>1. CASE cant_programas < Multiprog /\ tabla_new # <<>>
    <3>1. Head(tabla_new) \in Pares
      BY <2>1, Hechos, ColaTipo DEF TipoHilos
    <3>2. QED
      BY <1>4, Hechos, <2>1, <3>1 DEF planificadorLargo, Pasan
  <2>2. CASE ~ (cant_programas < Multiprog /\ tabla_new # <<>>)
    BY <1>4, Hechos, <2>2 DEF planificadorLargo, ConMulti, Cerrojos
  <2>3. QED
    BY <1>4, Hechos, <2>1, <2>2 DEF planificadorLargo
<1>5. ASSUME PostNew(p) PROVE TipoHebras'
  BY <1>5, Hechos DEF PostNew, ConMulti
<1>6. ASSUME Agrega(p) PROVE TipoHebras'
  BY <1>6, Hechos, ParTipo DEF Agrega, Paso, Cerrojos, Pasan, Agregan, Lleva
<1>7. ASSUME Agregado(p) PROVE TipoHebras'
  BY <1>7, Hechos, ParTipo DEF Agregado, Paso, Avisan, Agregan, Lleva
<1>8. ASSUME PedirSiguiente(p) PROVE TipoHebras'
  <2>1. CASE hilo_exec[p] # Nadie
    <3>1. <<p, hilo_exec[p]>> \in Pares
      BY <2>1, ParDe DEF TipoHilos
    <3>2. QED
      BY <1>8, Hechos, <2>1, <3>1 DEF PedirSiguiente, Pasan
  <2>2. CASE hilo_exec[p] = Nadie
    BY <1>8, Hechos, <2>2 DEF PedirSiguiente, Sigue
  <2>3. QED
    BY <2>1, <2>2
<1>9. ASSUME PostExec(p) PROVE TipoHebras'
  BY <1>9, Hechos DEF PostExec
<1>10. ASSUME SemWait(p) PROVE TipoHebras'
  BY <1>10, Hechos DEF SemWait
<1>11. ASSUME next_hilo(p) PROVE TipoHebras'
  <2>1. UNCHANGED donde \/ Ir(p, "recv")
    BY <1>11 DEF next_hilo
  <2>2. QED
    BY <1>11, <2>1, Hechos DEF next_hilo
<1>12. ASSUME PedirWait(p) PROVE TipoHebras'
  BY <1>12, Hechos DEF PedirWait, Corre, ConWt
<1>13. ASSUME wait_hilo(p) PROVE TipoHebras'
  BY <1>13, Hechos DEF wait_hilo, ConWt, PorEncolar
<1>14. ASSUME Bloquear(p) PROVE TipoHebras'
  BY <1>14, Hechos DEF Bloquear, ConWt, PorEncolar
<1>15. ASSUME AgregarLock(p) PROVE TipoHebras'
  BY <1>15, Hechos DEF AgregarLock, ConWt, PorEncolar
<1>16. ASSUME bloquearEnSemaforo(p) PROVE TipoHebras'
  BY <1>16, Hechos DEF bloquearEnSemaforo, ConWt
<1>17. ASSUME PedirSignal(p) PROVE TipoHebras'
  BY <1>17, Hechos DEF PedirSignal, Corre, ConWt
<1>18. ASSUME TomarLock(p) PROVE TipoHebras'
  BY <1>18, Hechos DEF TomarLock, ConWt, ConLock
<1>19. ASSUME signal_hilo(p) PROVE TipoHebras'
  <2>1. "pasa_block" \in Lugares /\ "suelta" \in Lugares
    BY DEF Lugares, Pasan, ConWt, ConLock
  <2>2. QED
    BY <1>19, Hechos, <2>1, DevolverTipo DEF signal_hilo
<1>20. ASSUME PostBlock(p) PROVE TipoHebras'
  BY <1>20, Hechos DEF PostBlock, ConWt, ConLock
<1>21. ASSUME FinSignal(p) PROVE TipoHebras'
  BY <1>21, Hechos DEF FinSignal, SoltarTodo
<1>22. ASSUME close_hilo(p) PROVE TipoHebras'
  BY <1>22, Hechos DEF close_hilo, Corre, Mide
<1>23. ASSUME CerrarMain(p) PROVE TipoHebras'
  BY <1>23, Hechos DEF CerrarMain, Corre, Mide
<1>24. ASSUME Finalizar(p) PROVE TipoHebras'
  BY <1>24, Hechos DEF Finalizar
<1>25. ASSUME Liberar(p) PROVE TipoHebras'
  <2>1. "pasa_fin" \in Lugares /\ "exit" \in Lugares
    BY DEF Lugares, Pasan, ConWt, ConLock
  <2>2. QED
    BY <1>25, Hechos, <2>1, DevolverTipo DEF Liberar
<1>26. ASSUME PostFin(p) PROVE TipoHebras'
  BY <1>26, Hechos DEF PostFin
<1>28. ASSUME Conectar(p) PROVE TipoHebras'
  BY <1>28, Hechos DEF Conectar
<1>29. ASSUME Conectado(p) PROVE TipoHebras'
  BY <1>29, Hechos DEF Conectado
<1>30. ASSUME AgregarHijo(p) PROVE TipoHebras'
  BY <1>30, Hechos DEF AgregarHijo, Cerrojos
<1>31. ASSUME Responder(p) PROVE TipoHebras'
  BY <1>31, Hechos DEF Responder, Cerrojos
<1>32. ASSUME RecibirNombre(p) PROVE TipoHebras'
  BY <1>32, Hechos DEF RecibirNombre, ConWt, ConLock
<1>33. ASSUME PedirClose(p) PROVE TipoHebras'
  BY <1>33, Hechos DEF PedirClose, Corre
<1>34. QED
  BY <1>1, <1>2, <1>3, <1>4, <1>5, <1>6, <1>7, <1>8, <1>9, <1>10, <1>11, <1>12, <1>13, <1>14,
     <1>15, <1>16, <1>17, <1>18, <1>19, <1>20, <1>21, <1>22, <1>23, <1>24, <1>25, <1>26, <1>28, <1>29,
     <1>30, <1>31, <1>32, <1>33 DEF Atiende

\* The queues, the lists and the estado of the ULTs.
LEMMA TipoHilosPaso ==
  ASSUME CerrojosInv, NEW p \in Programas, Atiende(p)
  PROVE  TipoHilos'
<1> USE DEF CerrojosInv, TipoOK, TipoHilos, En, cupos, semaforo, listos, clientes, Estados
<1>1. ASSUME NEW h \in Hilos[p], PedirCrear(p, h) PROVE TipoHilos'
  BY <1>1 DEF PedirCrear
<1>2. ASSUME create_hilo(p) PROVE TipoHilos'
  BY <1>2, Hechos DEF create_hilo, Lleva
<1>3. ASSUME Planificar(p) PROVE TipoHilos'
  BY <1>3 DEF Planificar
<1>4. ASSUME planificadorLargo(p) PROVE TipoHilos'
  <2>1. CASE cant_programas < Multiprog /\ tabla_new # <<>>
    <3>1. Head(tabla_new) \in Pares /\ Tail(tabla_new) \in Seq(Pares)
      BY <2>1, ColaTipo
    <3>2. QED
      BY <1>4, <2>1, <3>1 DEF planificadorLargo
  <2>2. CASE ~ (cant_programas < Multiprog /\ tabla_new # <<>>)
    BY <1>4, <2>2 DEF planificadorLargo
  <2>3. QED
    BY <1>4, <2>1, <2>2 DEF planificadorLargo
<1>5. ASSUME PostNew(p) PROVE TipoHilos'
  BY <1>5 DEF PostNew
<1>6. ASSUME Agrega(p) PROVE TipoHilos'
  BY <1>6 DEF Agrega
<1>7. ASSUME Agregado(p) PROVE TipoHilos'
  <2>1. lleva[p] \in Pares
    BY <1>7, Hechos DEF Agregado, Paso, Agregan, Lleva
  <2>2. /\ lleva[p][1] \in Programas /\ lleva[p][2] \in Hilos[lleva[p][1]]
        /\ lleva[p][2] \in Tids
    BY <2>1, ParTipo
  <2>3. tablaReady' = [tablaReady EXCEPT ![lleva[p][1]] = @ \cup {lleva[p][2]}]
    BY <1>7 DEF Agregado
  <2>4. (/\ tablaReady \in [Programas -> SUBSET Tids]
         /\ \A q \in Programas : tablaReady[q] \subseteq Hilos[q])'
    BY <2>2, <2>3
  <2>5. QED
    BY <1>7, <2>4 DEF Agregado
<1>8. ASSUME PedirSiguiente(p) PROVE TipoHilos'
  BY <1>8, ParDe DEF PedirSiguiente
<1>9. ASSUME PostExec(p) PROVE TipoHilos'
  BY <1>9 DEF PostExec
<1>10. ASSUME SemWait(p) PROVE TipoHilos'
  BY <1>10 DEF SemWait
<1>11. ASSUME next_hilo(p) PROVE TipoHilos'
  <2>1. CASE tablaReady[p] = {}
    BY <1>11, <2>1 DEF next_hilo
  <2>2. CASE tablaReady[p] # {}
    <3>1. PICK h \in tablaReady[p] :
            /\ tablaReady' = [tablaReady EXCEPT ![p] = @ \ {h}]
            /\ estado' = [estado EXCEPT ![<<p, h>>] = "EXEC"]
            /\ hilo_exec' = [hilo_exec EXCEPT ![p] = h]
      BY <1>11, <2>2 DEF next_hilo
    <3>2. h \in Hilos[p] /\ h \in Tids
      BY ParDe
    <3>3. QED
      BY ZenonT(40), <1>11, <3>1, <3>2 DEF next_hilo
  <2>3. QED
    BY <2>1, <2>2
<1>12. ASSUME PedirWait(p) PROVE TipoHilos'
  BY <1>12 DEF PedirWait
<1>13. ASSUME wait_hilo(p) PROVE TipoHilos'
  BY <1>13 DEF wait_hilo
<1>14. ASSUME Bloquear(p) PROVE TipoHilos'
  BY <1>14 DEF Bloquear
<1>15. ASSUME AgregarLock(p) PROVE TipoHilos'
  BY <1>15 DEF AgregarLock
<1>16. ASSUME bloquearEnSemaforo(p) PROVE TipoHilos'
  <2>1. <<p, hilo_exec[p]>> \in Pares
    BY <1>16, ParDe DEF bloquearEnSemaforo, DeAcuerdo, DeAcuerdoEn, ConWt, PorEncolar
  <2>2. QED
    BY <1>16, <2>1 DEF bloquearEnSemaforo
<1>17. ASSUME PedirSignal(p) PROVE TipoHilos'
  BY <1>17 DEF PedirSignal
<1>18. ASSUME TomarLock(p) PROVE TipoHilos'
  BY <1>18 DEF TomarLock
<1>19. ASSUME signal_hilo(p) PROVE TipoHilos'
  <2>1. "pasa_block" \in Lugares /\ "suelta" \in Lugares
    BY DEF Lugares, Pasan, ConWt, ConLock
  <2>2. QED
    BY <1>19, Hechos, <2>1, DevolverTipo DEF signal_hilo
<1>20. ASSUME PostBlock(p) PROVE TipoHilos'
  BY <1>20 DEF PostBlock
<1>21. ASSUME FinSignal(p) PROVE TipoHilos'
  BY <1>21 DEF FinSignal
<1>22. ASSUME close_hilo(p) PROVE TipoHilos'
  BY <1>22 DEF close_hilo
<1>23. ASSUME CerrarMain(p) PROVE TipoHilos'
  BY <1>23 DEF CerrarMain
<1>24. ASSUME Finalizar(p) PROVE TipoHilos'
  BY <1>24 DEF Finalizar
<1>25. ASSUME Liberar(p) PROVE TipoHilos'
  <2>1. "pasa_fin" \in Lugares /\ "exit" \in Lugares
    BY DEF Lugares, Pasan, ConWt, ConLock
  <2>2. QED
    BY <1>25, Hechos, <2>1, DevolverTipo DEF Liberar
<1>26. ASSUME PostFin(p) PROVE TipoHilos'
  BY <1>26 DEF PostFin
<1>28. ASSUME Conectar(p) PROVE TipoHilos'
  BY <1>28, Hechos DEF Conectar
<1>29. ASSUME Conectado(p) PROVE TipoHilos'
  BY <1>29, Hechos DEF Conectado
<1>30. ASSUME AgregarHijo(p) PROVE TipoHilos'
  BY <1>30, Hechos DEF AgregarHijo, Lleva
<1>31. ASSUME Responder(p) PROVE TipoHilos'
  BY <1>31, Hechos DEF Responder
<1>32. ASSUME RecibirNombre(p) PROVE TipoHilos'
  BY <1>32, Hechos DEF RecibirNombre
<1>33. ASSUME PedirClose(p) PROVE TipoHilos'
  BY <1>33, Hechos DEF PedirClose
<1>34. QED
  BY <1>1, <1>2, <1>3, <1>4, <1>5, <1>6, <1>7, <1>8, <1>9, <1>10, <1>11, <1>12, <1>13, <1>14,
     <1>15, <1>16, <1>17, <1>18, <1>19, <1>20, <1>21, <1>22, <1>23, <1>24, <1>25, <1>26, <1>28, <1>29,
     <1>30, <1>31, <1>32, <1>33 DEF Atiende

\* The counters and the clients.
LEMMA TipoCuentasPaso ==
  ASSUME CerrojosInv, NEW p \in Programas, Atiende(p)
  PROVE  TipoCuentas'
<1> USE DEF CerrojosInv, TipoOK, TipoCuentas, En, cupos, semaforo, listos, clientes
<1>1. ASSUME NEW h \in Hilos[p], PedirCrear(p, h) PROVE TipoCuentas'
  BY <1>1 DEF PedirCrear
<1>2. ASSUME create_hilo(p) PROVE TipoCuentas'
  BY <1>2 DEF create_hilo
<1>3. ASSUME Planificar(p) PROVE TipoCuentas'
  BY <1>3 DEF Planificar
<1>4. ASSUME planificadorLargo(p) PROVE TipoCuentas'
  BY <1>4 DEF planificadorLargo
<1>5. ASSUME PostNew(p) PROVE TipoCuentas'
  <2>1. lleva[p] \in Pares
    BY <1>5, Hechos DEF PostNew, Lleva, Avisan
  <2>2. QED
    BY <1>5, <2>1, ParTipo DEF PostNew, Post
<1>6. ASSUME Agrega(p) PROVE TipoCuentas'
  BY <1>6 DEF Agrega
<1>7. ASSUME Agregado(p) PROVE TipoCuentas'
  BY <1>7 DEF Agregado
<1>8. ASSUME PedirSiguiente(p) PROVE TipoCuentas'
  BY <1>8 DEF PedirSiguiente, Sigue
<1>9. ASSUME PostExec(p) PROVE TipoCuentas'
  <2>1. lleva[p] \in Pares
    BY <1>9, Hechos DEF PostExec, Lleva, Avisan
  <2>2. QED
    BY <1>9, <2>1, ParTipo DEF PostExec, Post
<1>10. ASSUME SemWait(p) PROVE TipoCuentas'
  BY <1>10 DEF SemWait
<1>11. ASSUME next_hilo(p) PROVE TipoCuentas'
  BY ZenonT(40), <1>11, ParDe DEF next_hilo, TipoHilos
<1>12. ASSUME PedirWait(p) PROVE TipoCuentas'
  BY <1>12 DEF PedirWait
<1>13. ASSUME wait_hilo(p) PROVE TipoCuentas'
  <2>1. sem_value' \in Int /\ retenidos' \in [Programas -> Int]
    BY <1>13 DEF wait_hilo
  <2>2. cede' \in [Programas -> BOOLEAN]
    BY <1>13 DEF wait_hilo
  <2>3. QED
    BY <1>13, <2>1, <2>2 DEF wait_hilo
<1>14. ASSUME Bloquear(p) PROVE TipoCuentas'
  BY <1>14 DEF Bloquear
<1>15. ASSUME AgregarLock(p) PROVE TipoCuentas'
  BY <1>15 DEF AgregarLock
<1>16. ASSUME bloquearEnSemaforo(p) PROVE TipoCuentas'
  BY <1>16 DEF bloquearEnSemaforo
<1>17. ASSUME PedirSignal(p) PROVE TipoCuentas'
  BY <1>17 DEF PedirSignal
<1>18. ASSUME TomarLock(p) PROVE TipoCuentas'
  BY <1>18 DEF TomarLock
<1>19. ASSUME signal_hilo(p) PROVE TipoCuentas'
  <2>1. "pasa_block" \in Lugares /\ "suelta" \in Lugares
    BY DEF Lugares, Pasan, ConWt, ConLock
  <2>2. QED
    BY <1>19, Hechos, <2>1, DevolverTipo DEF signal_hilo
<1>20. ASSUME PostBlock(p) PROVE TipoCuentas'
  <2>1. lleva[p] \in Pares
    BY <1>20, Hechos DEF PostBlock, Lleva, Avisan
  <2>2. QED
    BY <1>20, <2>1, ParTipo DEF PostBlock, Post
<1>21. ASSUME FinSignal(p) PROVE TipoCuentas'
  BY <1>21 DEF FinSignal
<1>22. ASSUME close_hilo(p) PROVE TipoCuentas'
  BY <1>22 DEF close_hilo
<1>23. ASSUME CerrarMain(p) PROVE TipoCuentas'
  BY <1>23 DEF CerrarMain
<1>24. ASSUME Finalizar(p) PROVE TipoCuentas'
  BY <1>24 DEF Finalizar
<1>25. ASSUME Liberar(p) PROVE TipoCuentas'
  <2>1. "pasa_fin" \in Lugares /\ "exit" \in Lugares
    BY DEF Lugares, Pasan, ConWt, ConLock
  <2>2. QED
    BY <1>25, Hechos, <2>1, DevolverTipo DEF Liberar
<1>26. ASSUME PostFin(p) PROVE TipoCuentas'
  <2>1. lleva[p] \in Pares
    BY <1>26, Hechos DEF PostFin, Lleva, Avisan
  <2>2. QED
    BY <1>26, <2>1, ParTipo DEF PostFin, Post
<1>28. ASSUME Conectar(p) PROVE TipoCuentas'
  BY <1>28 DEF Conectar
<1>29. ASSUME Conectado(p) PROVE TipoCuentas'
  BY <1>29 DEF Conectado
<1>30. ASSUME AgregarHijo(p) PROVE TipoCuentas'
  BY <1>30 DEF AgregarHijo
<1>31. ASSUME Responder(p) PROVE TipoCuentas'
  BY <1>31 DEF Responder
<1>32. ASSUME RecibirNombre(p) PROVE TipoCuentas'
  BY <1>32 DEF RecibirNombre
<1>33. ASSUME PedirClose(p) PROVE TipoCuentas'
  BY <1>33 DEF PedirClose
<1>34. QED
  BY <1>1, <1>2, <1>3, <1>4, <1>5, <1>6, <1>7, <1>8, <1>9, <1>10, <1>11, <1>12, <1>13, <1>14,
     <1>15, <1>16, <1>17, <1>18, <1>19, <1>20, <1>21, <1>22, <1>23, <1>24, <1>25, <1>26, <1>28, <1>29,
     <1>30, <1>31, <1>32, <1>33 DEF Atiende

\* Who holds each mutex.
LEMMA DueniosPaso ==
  ASSUME CerrojosInv, NEW p \in Programas, Atiende(p)
  PROVE  Duenios'
<1> USE DEF CerrojosInv, TipoOK, TipoHebras, Duenios, Cerrojos, En, Ir, Dejar, Pasan, Agregan, Avisan, ConMulti, ConLock, ConWt, PorEncolar
<1>1. ASSUME NEW h \in Hilos[p], PedirCrear(p, h) PROVE Duenios'
  BY <1>1, Hechos DEF PedirCrear, Corre, Tomar, Libre
<1>2. ASSUME create_hilo(p) PROVE Duenios'
  BY <1>2, Hechos DEF create_hilo, Soltar
<1>3. ASSUME Planificar(p) PROVE Duenios'
  BY <1>3, Hechos DEF Planificar, Tomar, Libre
<1>4. ASSUME planificadorLargo(p) PROVE Duenios'
  BY <1>4, Hechos DEF planificadorLargo, Soltar
<1>5. ASSUME PostNew(p) PROVE Duenios'
  BY <1>5, Hechos DEF PostNew
<1>6. ASSUME Agrega(p) PROVE Duenios'
  <2>1. donde[p] \in Pasan /\ lleva[p] \in Pares
    BY <1>6, Hechos DEF Agrega, Paso, Lleva
  <2>2. lleva[p][1] \in Programas
    BY <2>1, ParTipo
  <2>3. PICK a \in Agregan :
          /\ donde' = [donde EXCEPT ![p] = a]
          /\ a \in ConMulti <=> donde[p] \in ConMulti
          /\ a \in ConWt <=> donde[p] \in ConWt
          /\ a \in ConLock <=> donde[p] \in ConLock
    BY <1>6, Hechos DEF Agrega, Paso
  <2>4. /\ donde[p] \notin {"create_hilo"} /\ a # "create_hilo"
        /\ donde[p] \notin Agregan
    BY <2>1
  <2>5. /\ duenio[lleva[p][1]] = Nadie /\ duenio' = [duenio EXCEPT ![lleva[p][1]] = p] /\ UNCHANGED lleva
    BY <1>6, Hechos DEF Agrega, Tomar, Libre, Soltar
  <2>6. \A q \in Programas : q \notin {"multi", "wt", "sem_lock", "sem_new"}
    BY Hechos
  <2>7. donde \in [Hebras -> Lugares \cup {"usleep"}] /\ duenio \in [Cerrojos -> Hebras \cup {Nadie}]
    OBVIOUS
  <2>8. {"multi", "wt", "sem_lock", "sem_new"} \cup Programas = Cerrojos
    OBVIOUS
  <2>9. Duenios
    OBVIOUS
  <2>10. p \in Hebras
    BY Hechos
  <2> HIDE DEF CerrojosInv, Pasan, Agregan, Avisan, ConMulti, ConLock, ConWt, Cerrojos
  <2>11. \A t \in Hebras :
                         /\ donde'[t] \in ConMulti <=> donde[t] \in ConMulti
                         /\ donde'[t] \in ConWt <=> donde[t] \in ConWt
                         /\ donde'[t] \in ConLock <=> donde[t] \in ConLock
                         /\ donde'[t] = "create_hilo" <=> donde[t] = "create_hilo"
    BY <2>3, <2>4, <2>7, <2>10
  <2>12. /\ duenio'["multi"] = duenio["multi"] /\ duenio'["wt"] = duenio["wt"]
         /\ duenio'["sem_lock"] = duenio["sem_lock"] /\ duenio'["sem_new"] = duenio["sem_new"]
    BY <2>2, <2>5, <2>6, <2>7, <2>8
  <2>13. ASSUME NEW t \in Hebras, NEW q \in Programas
        PROVE  duenio'[q] = t <=> donde'[t] \in Agregan /\ lleva'[t][1] = q
    <3>1. duenio[q] = t <=> donde[t] \in Agregan /\ lleva[t][1] = q
      BY <2>9
    <3>2. q \in Cerrojos
      BY <2>8
    <3>3. Nadie # t
      BY Hechos
    <3>7. donde[p] \in Agregan => duenio[lleva[p][1]] = p
      BY <2>2, <2>9, <2>10
    <3> HIDE DEF Duenios
    <3>4. CASE t = p
      BY <2>2, <2>3, <2>4, <2>5, <2>7, <2>8, <2>10, <3>1, <3>2, <3>3, <3>4
    <3>5. CASE t # p
      BY <2>1, <2>2, <2>3, <2>4, <2>5, <2>7, <2>8, <2>10, <3>1, <3>2, <3>3, <3>5, <3>7
    <3>6. QED
      BY <3>4, <3>5
  <2>14. QED
    BY <2>9, <2>11, <2>12, <2>13
<1>7. ASSUME Agregado(p) PROVE Duenios'
  <2>1. donde[p] \in Agregan /\ lleva[p] \in Pares
    BY <1>7, Hechos DEF Agregado, Paso, Lleva
  <2>2. lleva[p][1] \in Programas
    BY <2>1, ParTipo
  <2>3. PICK a \in Avisan :
          /\ donde' = [donde EXCEPT ![p] = a]
          /\ a \in ConMulti <=> donde[p] \in ConMulti
          /\ a \in ConWt <=> donde[p] \in ConWt
          /\ a \in ConLock <=> donde[p] \in ConLock
    BY <1>7, Hechos DEF Agregado, Paso
  <2>4. /\ donde[p] \notin {"create_hilo"} /\ a # "create_hilo"
        /\ a \notin Agregan
    BY <2>1
  <2>5. duenio' = [duenio EXCEPT ![lleva[p][1]] = Nadie] /\ UNCHANGED lleva
    BY <1>7, Hechos DEF Agregado, Tomar, Libre, Soltar
  <2>6. \A q \in Programas : q \notin {"multi", "wt", "sem_lock", "sem_new"}
    BY Hechos
  <2>7. donde \in [Hebras -> Lugares \cup {"usleep"}] /\ duenio \in [Cerrojos -> Hebras \cup {Nadie}]
    OBVIOUS
  <2>8. {"multi", "wt", "sem_lock", "sem_new"} \cup Programas = Cerrojos
    OBVIOUS
  <2>9. Duenios
    OBVIOUS
  <2>10. p \in Hebras
    BY Hechos
  <2> HIDE DEF CerrojosInv, Pasan, Agregan, Avisan, ConMulti, ConLock, ConWt, Cerrojos
  <2>11. \A t \in Hebras :
                         /\ donde'[t] \in ConMulti <=> donde[t] \in ConMulti
                         /\ donde'[t] \in ConWt <=> donde[t] \in ConWt
                         /\ donde'[t] \in ConLock <=> donde[t] \in ConLock
                         /\ donde'[t] = "create_hilo" <=> donde[t] = "create_hilo"
    BY <2>3, <2>4, <2>7, <2>10
  <2>12. /\ duenio'["multi"] = duenio["multi"] /\ duenio'["wt"] = duenio["wt"]
         /\ duenio'["sem_lock"] = duenio["sem_lock"] /\ duenio'["sem_new"] = duenio["sem_new"]
    BY <2>2, <2>5, <2>6, <2>7, <2>8
  <2>13. ASSUME NEW t \in Hebras, NEW q \in Programas
        PROVE  duenio'[q] = t <=> donde'[t] \in Agregan /\ lleva'[t][1] = q
    <3>1. duenio[q] = t <=> donde[t] \in Agregan /\ lleva[t][1] = q
      BY <2>9
    <3>2. q \in Cerrojos
      BY <2>8
    <3>3. Nadie # t
      BY Hechos
    <3>7. donde[p] \in Agregan => duenio[lleva[p][1]] = p
      BY <2>2, <2>9, <2>10
    <3> HIDE DEF Duenios
    <3>4. CASE t = p
      BY <2>2, <2>3, <2>4, <2>5, <2>7, <2>8, <2>10, <3>1, <3>2, <3>3, <3>4
    <3>5. CASE t # p
      BY <2>1, <2>2, <2>3, <2>4, <2>5, <2>7, <2>8, <2>10, <3>1, <3>2, <3>3, <3>5, <3>7
    <3>6. QED
      BY <3>4, <3>5
  <2>14. QED
    BY <2>9, <2>11, <2>12, <2>13
<1>8. ASSUME PedirSiguiente(p) PROVE Duenios'
  BY <1>8, Hechos DEF PedirSiguiente, Sigue
<1>9. ASSUME PostExec(p) PROVE Duenios'
  BY <1>9, Hechos DEF PostExec
<1>10. ASSUME SemWait(p) PROVE Duenios'
  BY <1>10, Hechos DEF SemWait
<1>11. ASSUME next_hilo(p) PROVE Duenios'
  <2>1. CASE tablaReady[p] = {}
    BY <1>11, Hechos, <2>1 DEF next_hilo
  <2>2. CASE tablaReady[p] # {}
    <3>1. PICK h \in tablaReady[p] :
            /\ hilo_exec' = [hilo_exec EXCEPT ![p] = h]
            /\ actual' = [actual EXCEPT ![p] = h]
            /\ cede' = [cede EXCEPT ![p] = FALSE]
            /\ Ir(p, "recv")
      BY <1>11, Hechos, <2>2 DEF next_hilo
    <3>2. UNCHANGED <<lleva, duenio>> /\ donde[p] = "next_hilo"
      BY <1>11 DEF next_hilo
    <3>3. QED
      BY Hechos, <3>1, <3>2
  <2>3. QED
    BY <2>1, <2>2
<1>12. ASSUME PedirWait(p) PROVE Duenios'
  BY <1>12, Hechos DEF PedirWait, Corre, Tomar, Libre
<1>13. ASSUME wait_hilo(p) PROVE Duenios'
  BY <1>13, Hechos DEF wait_hilo, Soltar
<1>14. ASSUME Bloquear(p) PROVE Duenios'
  BY <1>14, Hechos DEF Bloquear
<1>15. ASSUME AgregarLock(p) PROVE Duenios'
  BY <1>15, Hechos DEF AgregarLock
<1>16. ASSUME bloquearEnSemaforo(p) PROVE Duenios'
  BY <1>16, Hechos DEF bloquearEnSemaforo, Soltar
<1>17. ASSUME PedirSignal(p) PROVE Duenios'
  BY <1>17, Hechos DEF PedirSignal, Corre, Tomar, Libre
<1>18. ASSUME TomarLock(p) PROVE Duenios'
  BY <1>18, Hechos DEF TomarLock, Tomar, Libre
<1>19. ASSUME signal_hilo(p) PROVE Duenios'
  BY <1>19, Hechos DEF signal_hilo, Devolver
<1>20. ASSUME PostBlock(p) PROVE Duenios'
  BY <1>20, Hechos DEF PostBlock
<1>21. ASSUME FinSignal(p) PROVE Duenios'
  BY <1>21, Hechos DEF FinSignal, SoltarTodo
<1>22. ASSUME close_hilo(p) PROVE Duenios'
  BY <1>22, Hechos DEF close_hilo, Corre
<1>23. ASSUME CerrarMain(p) PROVE Duenios'
  BY <1>23, Hechos DEF CerrarMain, Corre
<1>24. ASSUME Finalizar(p) PROVE Duenios'
  BY <1>24, Hechos DEF Finalizar
<1>25. ASSUME Liberar(p) PROVE Duenios'
  BY <1>25, Hechos DEF Liberar, Devolver
<1>26. ASSUME PostFin(p) PROVE Duenios'
  BY <1>26, Hechos DEF PostFin
<1>28. ASSUME Conectar(p) PROVE Duenios'
  BY <1>28, Hechos DEF Conectar
<1>29. ASSUME Conectado(p) PROVE Duenios'
  BY <1>29, Hechos DEF Conectado
<1>30. ASSUME AgregarHijo(p) PROVE Duenios'
  BY <1>30, Hechos DEF AgregarHijo, Tomar, Libre
<1>31. ASSUME Responder(p) PROVE Duenios'
  BY <1>31, Hechos DEF Responder, Soltar
<1>32. ASSUME RecibirNombre(p) PROVE Duenios'
  BY <1>32, Hechos DEF RecibirNombre
<1>33. ASSUME PedirClose(p) PROVE Duenios'
  BY <1>33, Hechos DEF PedirClose, Corre
<1>34. QED
  BY <1>1, <1>2, <1>3, <1>4, <1>5, <1>6, <1>7, <1>8, <1>9, <1>10, <1>11, <1>12, <1>13, <1>14,
     <1>15, <1>16, <1>17, <1>18, <1>19, <1>20, <1>21, <1>22, <1>23, <1>24, <1>25, <1>26, <1>28, <1>29,
     <1>30, <1>31, <1>32, <1>33 DEF Atiende

\* What a thread moves.
LEMMA LlevaPaso ==
  ASSUME CerrojosInv, NEW p \in Programas, Atiende(p)
  PROVE  Lleva'
<1> USE DEF CerrojosInv, TipoOK, TipoHebras, Lleva, En, Ir, Dejar, Pasan, Agregan, Avisan, clientes
<1>1. ASSUME NEW h \in Hilos[p], PedirCrear(p, h) PROVE Lleva'
  BY <1>1, Hechos, ParDe DEF PedirCrear, Corre, Tomar, Libre
<1>2. ASSUME create_hilo(p) PROVE Lleva'
  BY <1>2, Hechos DEF create_hilo
<1>3. ASSUME Planificar(p) PROVE Lleva'
  BY <1>3, Hechos DEF Planificar
<1>4. ASSUME planificadorLargo(p) PROVE Lleva'
  <2>1. CASE cant_programas < Multiprog /\ tabla_new # <<>>
    <3>1. Head(tabla_new) \in Pares
      BY <2>1, ColaTipo DEF TipoHilos
    <3>2. QED
      BY <1>4, Hechos, <2>1, <3>1 DEF planificadorLargo
  <2>2. CASE ~ (cant_programas < Multiprog /\ tabla_new # <<>>)
    BY <1>4, Hechos, <2>2 DEF planificadorLargo
  <2>3. QED
    BY <2>1, <2>2
<1>5. ASSUME PostNew(p) PROVE Lleva'
  BY <1>5, Hechos DEF PostNew
<1>6. ASSUME Agrega(p) PROVE Lleva'
  BY <1>6, Hechos DEF Agrega, Paso, Tomar, Libre
<1>7. ASSUME Agregado(p) PROVE Lleva'
  BY <1>7, Hechos DEF Agregado, Paso, Soltar
<1>8. ASSUME PedirSiguiente(p) PROVE Lleva'
  <2>1. CASE hilo_exec[p] # Nadie
    <3>1. <<p, hilo_exec[p]>> \in Pares
      BY <2>1, ParDe DEF TipoHilos
    <3>2. QED
      BY <1>8, Hechos, <2>1, <3>1 DEF PedirSiguiente
  <2>2. CASE hilo_exec[p] = Nadie
    BY <1>8, Hechos, <2>2 DEF PedirSiguiente, Sigue
  <2>3. QED
    BY <2>1, <2>2
<1>9. ASSUME PostExec(p) PROVE Lleva'
  BY <1>9, Hechos DEF PostExec
<1>10. ASSUME SemWait(p) PROVE Lleva'
  BY <1>10, Hechos DEF SemWait
<1>11. ASSUME next_hilo(p) PROVE Lleva'
  <2>1. CASE tablaReady[p] = {}
    BY <1>11, Hechos, <2>1 DEF next_hilo
  <2>2. CASE tablaReady[p] # {}
    <3>1. PICK h \in tablaReady[p] :
            /\ hilo_exec' = [hilo_exec EXCEPT ![p] = h]
            /\ actual' = [actual EXCEPT ![p] = h]
            /\ cede' = [cede EXCEPT ![p] = FALSE]
            /\ Ir(p, "recv")
      BY <1>11, Hechos, <2>2 DEF next_hilo
    <3>2. QED
      BY <1>11, Hechos, <3>1 DEF TipoHilos, next_hilo
  <2>3. QED
    BY <2>1, <2>2
<1>12. ASSUME PedirWait(p) PROVE Lleva'
  BY <1>12, Hechos DEF PedirWait
<1>13. ASSUME wait_hilo(p) PROVE Lleva'
  BY <1>13, Hechos DEF wait_hilo
<1>14. ASSUME Bloquear(p) PROVE Lleva'
  BY <1>14, Hechos DEF Bloquear
<1>15. ASSUME AgregarLock(p) PROVE Lleva'
  BY <1>15, Hechos DEF AgregarLock
<1>16. ASSUME bloquearEnSemaforo(p) PROVE Lleva'
  BY <1>16, Hechos DEF bloquearEnSemaforo
<1>17. ASSUME PedirSignal(p) PROVE Lleva'
  BY <1>17, Hechos DEF PedirSignal
<1>18. ASSUME TomarLock(p) PROVE Lleva'
  BY <1>18, Hechos DEF TomarLock
<1>19. ASSUME signal_hilo(p) PROVE Lleva'
  <2>1. Devolver(p, "pasa_block", "suelta") /\ UNCHANGED clientes
    BY <1>19 DEF signal_hilo
  <2>2. CASE sem_value < SemMax /\ sem_value + 1 <= 0 /\ sem_blocked # <<>>
    <3>1. Head(sem_blocked) \in Pares
      BY <2>2, ColaTipo DEF TipoHilos
    <3>2. lleva' = [lleva EXCEPT ![p] = Head(sem_blocked)] /\ Ir(p, "pasa_block")
      BY <2>1, <2>2, DevolverCasos
    <3>3. QED
      BY <1>19, Hechos, <2>1, <3>1, <3>2
  <2>3. CASE sem_value < SemMax /\ sem_value + 1 <= 0 /\ sem_blocked = <<>>
    <3>1. UNCHANGED <<lleva, donde>>
      BY <2>1, <2>3, DevolverCasos
    <3>2. QED
      BY <1>19, Hechos, <2>1, <3>1
  <2>4. CASE ~ (sem_value < SemMax /\ sem_value + 1 <= 0)
    <3>1. UNCHANGED lleva /\ Ir(p, "suelta")
      BY <2>1, <2>4, DevolverCasos
    <3>2. QED
      BY <1>19, Hechos, <2>1, <3>1 DEF signal_hilo
  <2>5. QED
    BY <2>2, <2>3, <2>4
<1>20. ASSUME PostBlock(p) PROVE Lleva'
  BY <1>20, Hechos DEF PostBlock
<1>21. ASSUME FinSignal(p) PROVE Lleva'
  BY <1>21, Hechos DEF FinSignal
<1>22. ASSUME close_hilo(p) PROVE Lleva'
  BY <1>22, Hechos DEF close_hilo, Corre
<1>23. ASSUME CerrarMain(p) PROVE Lleva'
  BY <1>23, Hechos DEF CerrarMain, Corre
<1>24. ASSUME Finalizar(p) PROVE Lleva'
  BY <1>24, Hechos DEF Finalizar
<1>25. ASSUME Liberar(p) PROVE Lleva'
  <2>1. Devolver(p, "pasa_fin", "exit") /\ UNCHANGED clientes
    BY <1>25 DEF Liberar
  <2>2. CASE sem_value < SemMax /\ sem_value + 1 <= 0 /\ sem_blocked # <<>>
    <3>1. Head(sem_blocked) \in Pares
      BY <2>2, ColaTipo DEF TipoHilos
    <3>2. lleva' = [lleva EXCEPT ![p] = Head(sem_blocked)] /\ Ir(p, "pasa_fin")
      BY <2>1, <2>2, DevolverCasos
    <3>3. QED
      BY <1>25, Hechos, <2>1, <3>1, <3>2
  <2>3. CASE sem_value < SemMax /\ sem_value + 1 <= 0 /\ sem_blocked = <<>>
    <3>1. UNCHANGED <<lleva, donde>>
      BY <2>1, <2>3, DevolverCasos
    <3>2. QED
      BY <1>25, Hechos, <2>1, <3>1
  <2>4. CASE ~ (sem_value < SemMax /\ sem_value + 1 <= 0)
    <3>1. UNCHANGED lleva /\ Ir(p, "exit")
      BY <2>1, <2>4, DevolverCasos
    <3>2. QED
      BY <1>25, Hechos, <2>1, <3>1 DEF Liberar
  <2>5. QED
    BY <2>2, <2>3, <2>4
<1>26. ASSUME PostFin(p) PROVE Lleva'
  BY <1>26, Hechos DEF PostFin
<1>28. ASSUME Conectar(p) PROVE Lleva'
  BY <1>28, Hechos DEF Conectar
<1>29. ASSUME Conectado(p) PROVE Lleva'
  BY <1>29, Hechos DEF Conectado
<1>30. ASSUME AgregarHijo(p) PROVE Lleva'
  BY <1>30, Hechos DEF AgregarHijo
<1>31. ASSUME Responder(p) PROVE Lleva'
  BY <1>31, Hechos DEF Responder
<1>32. ASSUME RecibirNombre(p) PROVE Lleva'
  BY <1>32, Hechos DEF RecibirNombre
<1>33. ASSUME PedirClose(p) PROVE Lleva'
  BY <1>33, Hechos DEF PedirClose, Corre
<1>34. QED
  BY <1>1, <1>2, <1>3, <1>4, <1>5, <1>6, <1>7, <1>8, <1>9, <1>10, <1>11, <1>12, <1>13, <1>14,
     <1>15, <1>16, <1>17, <1>18, <1>19, <1>20, <1>21, <1>22, <1>23, <1>24, <1>25, <1>26, <1>28, <1>29,
     <1>30, <1>31, <1>32, <1>33 DEF Atiende

\* A step of a program leaves the other threads and their clients alone.
LEMMA Otros ==
  ASSUME CerrojosInv, NEW p \in Programas, Atiende(p), NEW t \in Hebras, t # p
  PROVE  /\ donde'[t] = donde[t] /\ lleva'[t] = lleva[t]
         /\ t \in Programas => /\ hilo_exec'[t] = hilo_exec[t] /\ actual'[t] = actual[t]
                               /\ cede'[t] = cede[t] /\ retenidos'[t] = retenidos[t]
<1> USE Hechos DEF CerrojosInv, TipoOK, TipoHebras, TipoHilos, TipoCuentas, Ir, Dejar, clientes, semaforo
<1>1. ASSUME NEW h \in Hilos[p], PedirCrear(p, h) PROVE UNCHANGED <<hilo_exec, actual, cede, retenidos>> /\ donde'[t] = donde[t] /\ lleva'[t] = lleva[t]
  BY <1>1 DEF PedirCrear
<1>2. CASE create_hilo(p) \/ Planificar(p) \/ planificadorLargo(p) \/ PostNew(p)
  BY SMTT(30), <1>2 DEF create_hilo, Planificar, planificadorLargo, PostNew
<1>3. CASE Agrega(p) \/ Agregado(p)
  BY <1>3 DEF Agrega, Agregado, Paso
<1>4. CASE PostExec(p) \/ SemWait(p)
  BY <1>4 DEF PostExec, SemWait
<1>11. CASE next_hilo(p)
  <2>1. CASE tablaReady[p] = {}
    BY <1>11, <2>1 DEF next_hilo
  <2>2. CASE tablaReady[p] # {}
    <3>1. PICK h \in tablaReady[p] :
            /\ hilo_exec' = [hilo_exec EXCEPT ![p] = h]
            /\ actual' = [actual EXCEPT ![p] = h]
            /\ cede' = [cede EXCEPT ![p] = FALSE]
            /\ Ir(p, "recv")
      BY <1>11, <2>2 DEF next_hilo
    <3>2. UNCHANGED <<lleva, semaforo>>
      BY <1>11 DEF next_hilo
    <3>3. QED
      BY <3>1, <3>2
  <2>3. QED
    BY <2>1, <2>2
<1>10. CASE PedirSiguiente(p)
  <2>1. CASE hilo_exec[p] # Nadie
    BY <1>10, <2>1 DEF PedirSiguiente
  <2>2. CASE hilo_exec[p] = Nadie
    BY <1>10, <2>2 DEF PedirSiguiente, Sigue
  <2>3. QED
    BY <2>1, <2>2
<1>5. CASE PedirWait(p) \/ wait_hilo(p) \/ Bloquear(p) \/ AgregarLock(p) \/ bloquearEnSemaforo(p)
  BY SMTT(30), <1>5 DEF PedirWait, wait_hilo, Bloquear, AgregarLock, bloquearEnSemaforo
<1>6. CASE PedirSignal(p) \/ TomarLock(p) \/ PostBlock(p) \/ FinSignal(p)
  BY <1>6 DEF PedirSignal, TomarLock, PostBlock, FinSignal
<1>7. CASE signal_hilo(p) \/ Liberar(p)
  BY <1>7 DEF signal_hilo, Liberar, Devolver
<1>8. CASE close_hilo(p) \/ CerrarMain(p) \/ Finalizar(p) \/ PostFin(p)
  BY <1>8 DEF close_hilo, CerrarMain, Finalizar, PostFin
<1>12. CASE Conectar(p) \/ Conectado(p) \/ AgregarHijo(p) \/ Responder(p) \/ RecibirNombre(p) \/ PedirClose(p)
  BY SMTT(30), <1>12 DEF Conectar, Conectado, AgregarHijo, Responder, RecibirNombre, PedirClose
<1>9. QED
  BY <1>1, <1>2, <1>3, <1>4, <1>5, <1>6, <1>7, <1>8, <1>10, <1>11, <1>12 DEF Atiende

\* The client and the server agree.
LEMMA DeAcuerdoMio ==
  ASSUME CerrojosInv, NEW p \in Programas, Atiende(p)
  PROVE  DeAcuerdoEn(p)'
<1> USE DEF CerrojosInv, TipoOK, TipoHebras, TipoCuentas, TipoHilos, DeAcuerdo, DeAcuerdoEn, En, Ir, Corre, Mide, Fin, ConWt, ConLock, PorEncolar, clientes
<1>1. ASSUME NEW h \in Hilos[p], PedirCrear(p, h) PROVE DeAcuerdoEn(p)'
  BY <1>1, Hechos DEF PedirCrear
<1>2. ASSUME create_hilo(p) PROVE DeAcuerdoEn(p)'
  BY <1>2, Hechos DEF create_hilo
<1>3. ASSUME Planificar(p) PROVE DeAcuerdoEn(p)'
  BY <1>3, Hechos DEF Planificar
<1>4. ASSUME planificadorLargo(p) PROVE DeAcuerdoEn(p)'
  <2>1. PICK l \in {"pasa_new", "recv"} : Ir(p, l)
    BY <1>4 DEF planificadorLargo
  <2>2. UNCHANGED clientes /\ donde[p] = "planificadorLargo"
    BY <1>4 DEF planificadorLargo
  <2>3. QED
    BY <2>1, <2>2, Hechos
<1>5. ASSUME PostNew(p) PROVE DeAcuerdoEn(p)'
  BY <1>5, Hechos DEF PostNew
<1>6. ASSUME Agrega(p) PROVE DeAcuerdoEn(p)'
  <2>1. CASE Paso(p, "pasa_new", "agrega_new")
    BY <1>6, Hechos, <2>1 DEF Agrega, Paso
  <2>2. CASE Paso(p, "pasa_exec", "agrega_exec")
    BY <1>6, Hechos, <2>2 DEF Agrega, Paso
  <2>3. CASE Paso(p, "pasa_block", "agrega_block")
    BY <1>6, Hechos, <2>3 DEF Agrega, Paso
  <2>4. CASE Paso(p, "pasa_fin", "agrega_fin")
    BY <1>6, Hechos, <2>4 DEF Agrega, Paso
  <2>5. QED
    BY <1>6, <2>1, <2>2, <2>3, <2>4 DEF Agrega
<1>7. ASSUME Agregado(p) PROVE DeAcuerdoEn(p)'
  <2>1. CASE Paso(p, "agrega_new", "post_new")
    BY <1>7, Hechos, <2>1 DEF Agregado, Paso
  <2>2. CASE Paso(p, "agrega_exec", "post_exec")
    BY <1>7, Hechos, <2>2 DEF Agregado, Paso
  <2>3. CASE Paso(p, "agrega_block", "post_block")
    BY <1>7, Hechos, <2>3 DEF Agregado, Paso
  <2>4. CASE Paso(p, "agrega_fin", "post_fin")
    BY <1>7, Hechos, <2>4 DEF Agregado, Paso
  <2>5. QED
    BY <1>7, <2>1, <2>2, <2>3, <2>4 DEF Agregado
<1>8. ASSUME PedirSiguiente(p) PROVE DeAcuerdoEn(p)'
  <2>1. CASE hilo_exec[p] # Nadie
    BY <1>8, Hechos, <2>1 DEF PedirSiguiente
  <2>2. CASE hilo_exec[p] = Nadie /\ SinHilos(p)
    <3>1. /\ Ir(p, "recv") /\ UNCHANGED hilo_exec
          /\ actual' = [actual EXCEPT ![p] = Main] /\ cede' = [cede EXCEPT ![p] = FALSE]
      BY <1>8, <2>2 DEF PedirSiguiente, Sigue
    <3>2. donde'[p] = "recv" /\ actual'[p] = Main /\ hilo_exec'[p] = Nadie
      BY <2>2, <3>1, Hechos
    <3>3. QED
      BY <3>2, Hechos
  <2>3. CASE hilo_exec[p] = Nadie /\ ~SinHilos(p)
    <3>1. Ir(p, "sem_wait") /\ UNCHANGED <<hilo_exec, actual, cede>> /\ donde[p] = "recv"
      BY <1>8, <2>3 DEF PedirSiguiente, Sigue
    <3>2. QED
      BY <3>1, Hechos
  <2>4. QED
    BY <2>1, <2>2, <2>3
<1>9. ASSUME PostExec(p) PROVE DeAcuerdoEn(p)'
  BY <1>9, Hechos DEF PostExec
<1>10. ASSUME SemWait(p) PROVE DeAcuerdoEn(p)'
  BY <1>10, Hechos DEF SemWait
<1>11. ASSUME next_hilo(p) PROVE DeAcuerdoEn(p)'
  <2>1. CASE tablaReady[p] = {}
    BY <1>11, Hechos, <2>1 DEF next_hilo
  <2>2. CASE tablaReady[p] # {}
    <3>1. PICK h \in tablaReady[p] :
            /\ hilo_exec' = [hilo_exec EXCEPT ![p] = h]
            /\ actual' = [actual EXCEPT ![p] = h]
            /\ cede' = [cede EXCEPT ![p] = FALSE]
            /\ Ir(p, "recv")
      BY <1>11, Hechos, <2>2 DEF next_hilo
    <3>2. donde'[p] = "recv" /\ actual'[p] = h /\ hilo_exec'[p] = h
      BY <3>1, Hechos
    <3>3. h # Main /\ h # Nadie
      BY HiloDistinto
    <3>4. QED
      BY <3>2, <3>3
  <2>3. QED
    BY <2>1, <2>2
<1>12. ASSUME PedirWait(p) PROVE DeAcuerdoEn(p)'
  BY <1>12, Hechos DEF PedirWait
<1>13. ASSUME wait_hilo(p) PROVE DeAcuerdoEn(p)'
  BY ZenonT(40), <1>13, Hechos DEF wait_hilo
<1>14. ASSUME Bloquear(p) PROVE DeAcuerdoEn(p)'
  BY <1>14, Hechos DEF Bloquear
<1>15. ASSUME AgregarLock(p) PROVE DeAcuerdoEn(p)'
  BY <1>15, Hechos DEF AgregarLock
<1>16. ASSUME bloquearEnSemaforo(p) PROVE DeAcuerdoEn(p)'
  BY <1>16, Hechos DEF bloquearEnSemaforo
<1>17. ASSUME PedirSignal(p) PROVE DeAcuerdoEn(p)'
  BY <1>17, Hechos DEF PedirSignal
<1>18. ASSUME TomarLock(p) PROVE DeAcuerdoEn(p)'
  BY <1>18, Hechos DEF TomarLock
<1>19. ASSUME signal_hilo(p) PROVE DeAcuerdoEn(p)'
  <2>1. Devolver(p, "pasa_block", "suelta") /\ UNCHANGED clientes /\ donde[p] = "signal_hilo"
    BY <1>19 DEF signal_hilo
  <2>2. PICK l \in {donde[p], "pasa_block", "suelta"} : Ir(p, l)
    BY <2>1, DevolverVa
  <2>3. QED
    BY Hechos, <2>1, <2>2
<1>20. ASSUME PostBlock(p) PROVE DeAcuerdoEn(p)'
  BY <1>20, Hechos DEF PostBlock
<1>21. ASSUME FinSignal(p) PROVE DeAcuerdoEn(p)'
  BY <1>21, Hechos DEF FinSignal
<1>22. ASSUME close_hilo(p) PROVE DeAcuerdoEn(p)'
  BY <1>22, Hechos DEF close_hilo
<1>23. ASSUME CerrarMain(p) PROVE DeAcuerdoEn(p)'
  BY <1>23, Hechos DEF CerrarMain
<1>24. ASSUME Finalizar(p) PROVE DeAcuerdoEn(p)'
  <2>1. PICK l \in {"libera", "exit"} : Ir(p, l)
    BY <1>24 DEF Finalizar
  <2>2. QED
    BY <1>24, Hechos, <2>1 DEF Finalizar
<1>25. ASSUME Liberar(p) PROVE DeAcuerdoEn(p)'
  <2>1. Devolver(p, "pasa_fin", "exit") /\ UNCHANGED clientes /\ donde[p] = "libera"
    BY <1>25 DEF Liberar
  <2>2. PICK l \in {donde[p], "pasa_fin", "exit"} : Ir(p, l)
    BY <2>1, DevolverVa
  <2>3. QED
    BY Hechos, <2>1, <2>2
<1>26. ASSUME PostFin(p) PROVE DeAcuerdoEn(p)'
  BY <1>26, Hechos DEF PostFin
<1>28. ASSUME Conectar(p) PROVE DeAcuerdoEn(p)'
  BY <1>28, Hechos DEF Conectar
<1>29. ASSUME Conectado(p) PROVE DeAcuerdoEn(p)'
  BY <1>29, Hechos DEF Conectado
<1>30. ASSUME AgregarHijo(p) PROVE DeAcuerdoEn(p)'
  BY <1>30, Hechos DEF AgregarHijo
<1>31. ASSUME Responder(p) PROVE DeAcuerdoEn(p)'
  BY <1>31, Hechos DEF Responder
<1>32. ASSUME RecibirNombre(p) PROVE DeAcuerdoEn(p)'
  BY <1>32, Hechos DEF RecibirNombre
<1>33. ASSUME PedirClose(p) PROVE DeAcuerdoEn(p)'
  BY <1>33, Hechos DEF PedirClose
<1>34. QED
  BY <1>1, <1>2, <1>3, <1>4, <1>5, <1>6, <1>7, <1>8, <1>9, <1>10, <1>11, <1>12, <1>13, <1>14,
     <1>15, <1>16, <1>17, <1>18, <1>19, <1>20, <1>21, <1>22, <1>23, <1>24, <1>25, <1>26, <1>28, <1>29,
     <1>30, <1>31, <1>32, <1>33 DEF Atiende

\* A step of a program keeps clients and server of accord.
LEMMA DeAcuerdoPaso ==
  ASSUME CerrojosInv, NEW p \in Programas, Atiende(p)
  PROVE  DeAcuerdo'
<1> SUFFICES ASSUME NEW q \in Programas PROVE DeAcuerdoEn(q)'
  BY DEF DeAcuerdo
<1>1. CASE q = p
  BY <1>1, DeAcuerdoMio
<1>2. CASE q # p
  BY <1>2, Otros, Hechos DEF CerrojosInv, DeAcuerdo, DeAcuerdoEn
<1>3. QED
  BY <1>1, <1>2

\* Who connects found nobody else connecting.
LEMMA UnoConectaPaso ==
  ASSUME CerrojosInv, NEW p \in Programas, Atiende(p)
  PROVE  UnoConecta'
<1>1. donde \in [Hebras -> Lugares \cup {"usleep"}] /\ p \in Hebras
  BY Hechos DEF CerrojosInv, TipoOK, TipoHebras
<1>2. \A t \in Hebras : t # p => donde'[t] = donde[t]
  BY Otros
<1>3. CASE Conectar(p)
  <2>1. \A q \in Programas : donde[q] # "conecta"
    BY <1>3 DEF Conectar
  <2>2. donde[Metricas] # "conecta"
    BY DEF CerrojosInv, TipoOK, TipoHebras, Mide
  <2>3. QED
    BY <1>2, <2>1, <2>2 DEF UnoConecta, Hebras
<1>4. CASE donde'[p] # "conecta" \/ donde[p] = "conecta"
  BY <1>2, <1>4 DEF CerrojosInv, UnoConecta
<1>5. CASE ~Conectar(p)
  <2> USE <1>1 DEF Ir, Paso
  <2>1. ASSUME NEW h \in Hilos[p], PedirCrear(p, h) PROVE donde'[p] # "conecta"
    BY <2>1 DEF PedirCrear
  <2>2. ASSUME create_hilo(p) \/ Planificar(p) \/ planificadorLargo(p) \/ PostNew(p) \/ AgregarHijo(p) PROVE donde'[p] # "conecta"
    BY <2>2 DEF create_hilo, Planificar, planificadorLargo, PostNew, AgregarHijo
  <2>3. ASSUME Agrega(p) \/ Agregado(p) \/ Conectado(p) PROVE donde'[p] # "conecta"
    BY <2>3 DEF Agrega, Agregado, Conectado
  <2>4. ASSUME PedirSiguiente(p) \/ PostExec(p) \/ SemWait(p) PROVE donde'[p] # "conecta"
    BY <2>4 DEF PedirSiguiente, Sigue, PostExec, SemWait
  <2>5. ASSUME next_hilo(p) PROVE donde'[p] # "conecta"
    <3>1. Ir(p, "recv") \/ UNCHANGED donde
      BY <2>5 DEF next_hilo
    <3>2. QED
      BY <2>5, <3>1 DEF next_hilo, En
  <2>6. ASSUME PedirWait(p) \/ wait_hilo(p) \/ Bloquear(p) \/ AgregarLock(p) \/ bloquearEnSemaforo(p) PROVE donde'[p] # "conecta"
    BY <2>6 DEF PedirWait, wait_hilo, Bloquear, AgregarLock, bloquearEnSemaforo
  <2>7. ASSUME Responder(p) \/ PedirSignal(p) \/ TomarLock(p) \/ RecibirNombre(p) \/ PostBlock(p) \/ FinSignal(p) PROVE donde'[p] # "conecta"
    BY <2>7 DEF Responder, PedirSignal, TomarLock, RecibirNombre, PostBlock, FinSignal
  <2>8. ASSUME signal_hilo(p) \/ Liberar(p) PROVE donde'[p] # "conecta"
    <3>1. PICK l \in {donde[p], "pasa_block", "suelta", "pasa_fin", "exit"} : Ir(p, l)
      BY <2>8, DevolverVa DEF signal_hilo, Liberar
    <3>2. QED
      BY <2>8, <3>1 DEF signal_hilo, Liberar, En
  <2>9. ASSUME PedirClose(p) \/ close_hilo(p) \/ CerrarMain(p) \/ Finalizar(p) \/ PostFin(p) PROVE donde'[p] # "conecta"
    BY <2>9 DEF PedirClose, close_hilo, CerrarMain, Finalizar, PostFin
  <2>10. QED
    BY <1>4, <1>5, <2>1, <2>2, <2>3, <2>4, <2>5, <2>6, <2>7, <2>8, <2>9 DEF Atiende
<1>6. QED
  BY <1>3, <1>5

\* The metrics move their thread, wt and multi, and nothing else.
LEMMA CerrojosMetricas ==
  ASSUME CerrojosInv, NEW t \in Hebras, Despertar \/ printefearMetricas(t)
  PROVE  CerrojosInv'
<1>1. TipoHebras'
  <2> USE DEF CerrojosInv, TipoOK, TipoHebras, Lugares, ConWt, Mide, clientes, En, Ir, Tomar, Soltar, Libre, Cerrojos
  <2>1. CASE Despertar
    BY <2>1, Hechos DEF Despertar
  <2>2. CASE printefearMetricas(t) /\ donde[t] = "printefearMetricas"
    BY <2>2, Hechos DEF printefearMetricas
  <2>3. CASE printefearMetricas(t) /\ donde[t] = "metricas_wt"
    <3>1. /\ Libre("wt") /\ duenio' = [duenio EXCEPT !["wt"] = t]
          /\ Ir(t, "metrica") /\ UNCHANGED lleva
      BY <2>3 DEF printefearMetricas
    <3>2. QED
      BY <2>3, <3>1, Hechos
  <2>4. CASE printefearMetricas(t) /\ donde[t] = "metrica"
    <3>1. /\ duenio' = [duenio EXCEPT !["wt"] = Nadie]
          /\ Ir(t, "metricas_multi") /\ UNCHANGED lleva
      BY <2>4 DEF printefearMetricas
    <3>2. QED
      BY <2>4, <3>1, Hechos
  <2>5. CASE printefearMetricas(t) /\ donde[t] = "metricas_multi"
    <3>1. /\ Libre("multi") /\ duenio' = [duenio EXCEPT !["multi"] = t]
          /\ Ir(t, "metricas_hijos") /\ UNCHANGED <<lleva, clientes>>
      BY <2>5 DEF printefearMetricas
    <3>2. QED
      BY <2>5, <3>1, Hechos
  <2>7. CASE printefearMetricas(t) /\ donde[t] = "metricas_hijos"
    <3>1. PICK l \in {"usleep", "fin", "planifica"} :
            /\ Ir(t, l) /\ (l = "usleep" <=> t = Metricas)
            /\ t \in Programas /\ actual[t] = Nadie => l = "fin"
      BY <2>7, Hechos DEF printefearMetricas, Hebras
    <3>2. duenio' = [duenio EXCEPT !["multi"] = Nadie] /\ UNCHANGED <<lleva, clientes>>
      BY <2>7 DEF printefearMetricas
    <3>3. QED
      BY <2>7, <3>1, <3>2, Hechos DEF Hebras
  <2>6. QED
    BY <2>1, <2>2, <2>3, <2>4, <2>5, <2>7 DEF printefearMetricas
<1>2. Duenios'
  <2> USE DEF CerrojosInv, TipoOK, TipoHebras, Duenios, Cerrojos, Pasan, Agregan, ConMulti, ConLock, ConWt, PorEncolar, En, Ir, Tomar, Soltar, Libre, cupos, semaforo, listos, clientes
  <2>1. CASE Despertar
    BY <2>1, Hechos DEF Despertar
  <2>2. CASE printefearMetricas(t) /\ donde[t] = "printefearMetricas"
    BY <2>2, Hechos DEF printefearMetricas
  <2>3. CASE printefearMetricas(t) /\ donde[t] = "metricas_wt"
    <3>1. /\ Libre("wt") /\ duenio' = [duenio EXCEPT !["wt"] = t]
          /\ Ir(t, "metrica") /\ UNCHANGED lleva
      BY <2>3 DEF printefearMetricas
    <3>2. QED
      BY <2>3, <3>1, Hechos
  <2>4. CASE printefearMetricas(t) /\ donde[t] = "metrica"
    <3>1. /\ duenio' = [duenio EXCEPT !["wt"] = Nadie]
          /\ Ir(t, "metricas_multi") /\ UNCHANGED lleva
      BY <2>4 DEF printefearMetricas
    <3>2. QED
      BY <2>4, <3>1, Hechos
  <2>5. CASE printefearMetricas(t) /\ donde[t] = "metricas_multi"
    <3>1. /\ Libre("multi") /\ duenio' = [duenio EXCEPT !["multi"] = t]
          /\ Ir(t, "metricas_hijos") /\ UNCHANGED <<lleva, clientes>>
      BY <2>5 DEF printefearMetricas
    <3>2. QED
      BY <2>5, <3>1, Hechos
  <2>7. CASE printefearMetricas(t) /\ donde[t] = "metricas_hijos"
    <3>1. PICK l \in {"usleep", "fin", "planifica"} :
            /\ Ir(t, l) /\ (l = "usleep" <=> t = Metricas)
            /\ t \in Programas /\ actual[t] = Nadie => l = "fin"
      BY <2>7, Hechos DEF printefearMetricas, Hebras
    <3>2. duenio' = [duenio EXCEPT !["multi"] = Nadie] /\ UNCHANGED <<lleva, clientes>>
      BY <2>7 DEF printefearMetricas
    <3>3. QED
      BY <2>7, <3>1, <3>2, Hechos DEF Hebras
  <2>6. QED
    BY <2>1, <2>2, <2>3, <2>4, <2>5, <2>7 DEF printefearMetricas
<1>3. Lleva'
  <2> USE DEF CerrojosInv, TipoOK, TipoHebras, Lleva, Pasan, Agregan, Avisan, En, Ir, Tomar, Soltar, Libre, cupos, semaforo, listos, clientes
  <2>1. CASE Despertar
    BY <2>1, Hechos DEF Despertar
  <2>2. CASE printefearMetricas(t) /\ donde[t] = "printefearMetricas"
    BY <2>2, Hechos DEF printefearMetricas
  <2>3. CASE printefearMetricas(t) /\ donde[t] = "metricas_wt"
    BY <2>3, Hechos DEF printefearMetricas
  <2>4. CASE printefearMetricas(t) /\ donde[t] = "metrica"
    BY <2>4, Hechos DEF printefearMetricas
  <2>5. CASE printefearMetricas(t) /\ donde[t] = "metricas_multi"
    <3>1. /\ Libre("multi") /\ duenio' = [duenio EXCEPT !["multi"] = t]
          /\ Ir(t, "metricas_hijos") /\ UNCHANGED <<lleva, clientes>>
      BY <2>5 DEF printefearMetricas
    <3>2. QED
      BY <2>5, <3>1, Hechos
  <2>7. CASE printefearMetricas(t) /\ donde[t] = "metricas_hijos"
    <3>1. PICK l \in {"usleep", "fin", "planifica"} :
            /\ Ir(t, l) /\ (l = "usleep" <=> t = Metricas)
            /\ t \in Programas /\ actual[t] = Nadie => l = "fin"
      BY <2>7, Hechos DEF printefearMetricas, Hebras
    <3>2. duenio' = [duenio EXCEPT !["multi"] = Nadie] /\ UNCHANGED <<lleva, clientes>>
      BY <2>7 DEF printefearMetricas
    <3>3. QED
      BY <2>7, <3>1, <3>2, Hechos DEF Hebras
  <2>6. QED
    BY <2>1, <2>2, <2>3, <2>4, <2>5, <2>7 DEF printefearMetricas
<1>4. DeAcuerdo'
  <2> USE DEF CerrojosInv, TipoOK, TipoHebras, DeAcuerdo, DeAcuerdoEn, Mide, Fin, ConWt, ConLock, PorEncolar, En, Ir, Tomar, Soltar, Libre, cupos, semaforo, listos, clientes
  <2>1. CASE Despertar
    BY <2>1, Hechos DEF Despertar
  <2>2. CASE printefearMetricas(t) /\ donde[t] = "printefearMetricas"
    BY <2>2, Hechos DEF printefearMetricas
  <2>3. CASE printefearMetricas(t) /\ donde[t] = "metricas_wt"
    BY <2>3, Hechos DEF printefearMetricas
  <2>4. CASE printefearMetricas(t) /\ donde[t] = "metrica"
    BY <2>4, Hechos DEF printefearMetricas
  <2>5. CASE printefearMetricas(t) /\ donde[t] = "metricas_multi"
    <3>1. /\ Libre("multi") /\ duenio' = [duenio EXCEPT !["multi"] = t]
          /\ Ir(t, "metricas_hijos") /\ UNCHANGED <<lleva, clientes>>
      BY <2>5 DEF printefearMetricas
    <3>2. QED
      BY <2>5, <3>1, Hechos
  <2>7. CASE printefearMetricas(t) /\ donde[t] = "metricas_hijos"
    <3>1. PICK l \in {"usleep", "fin", "planifica"} :
            /\ Ir(t, l) /\ (l = "usleep" <=> t = Metricas)
            /\ t \in Programas /\ actual[t] = Nadie => l = "fin"
      BY <2>7, Hechos DEF printefearMetricas, Hebras
    <3>2. duenio' = [duenio EXCEPT !["multi"] = Nadie] /\ UNCHANGED <<lleva, clientes>>
      BY <2>7 DEF printefearMetricas
    <3>3. QED
      BY <2>7, <3>1, <3>2, Hechos DEF Hebras
  <2>6. QED
    BY <2>1, <2>2, <2>3, <2>4, <2>5, <2>7 DEF printefearMetricas
<1>5. TipoHilos' /\ TipoCuentas'
  BY DEF CerrojosInv, TipoOK, TipoHilos, TipoCuentas, Despertar, printefearMetricas, cupos, semaforo, listos, clientes
<1>6. UnoConecta'
  <2>1. PICK u \in Hebras, l \in Mide \cup {"usleep", "fin", "planifica"} : Ir(u, l)
    BY Hechos DEF Despertar, printefearMetricas, Mide
  <2>2. donde \in [Hebras -> Lugares \cup {"usleep"}]
    BY DEF CerrojosInv, TipoOK, TipoHebras
  <2>3. QED
    BY <2>1, <2>2 DEF Ir, Mide, CerrojosInv, UnoConecta
<1>7. QED
  BY <1>1, <1>2, <1>3, <1>4, <1>5, <1>6 DEF CerrojosInv, TipoOK

\* The initial states.
LEMMA CerrojosInicial == Init => CerrojosInv
<1> SUFFICES ASSUME Init PROVE CerrojosInv
  OBVIOUS
<1>1. TipoHebras
  BY Hechos DEF Init, TipoHebras, Lugares, Mide
<1>6. TipoHilos
  BY DEF Init, TipoHilos, Estados
<1>7. TipoCuentas
  <2>1. SemInit \in Int
    BY ConstantesCerrojos DEF ConstantesCerrojos
  <2>2. cont \in [Programas -> Nat] /\ retenidos \in [Programas -> Int]
    BY DEF Init
  <2>3. actual \in [Programas -> Tids \cup {Main, Nadie}] /\ cede \in [Programas -> BOOLEAN]
    BY DEF Init
  <2>4. cant_programas \in Int /\ sem_value \in Int
    BY <2>1 DEF Init
  <2>6. perdido \in BOOLEAN
    BY DEF Init
  <2>5. QED
    BY <2>2, <2>3, <2>4, <2>6 DEF TipoCuentas
<1>2. Duenios
  BY Hechos DEF Init, Duenios, ConMulti, ConWt, ConLock, PorEncolar, Agregan, Cerrojos
<1>3. Lleva
  BY Hechos DEF Init, Lleva, Pasan, Agregan, Avisan
<1>4. DeAcuerdo
  BY Hechos DEF Init, DeAcuerdo, DeAcuerdoEn, ConWt, ConLock, PorEncolar
<1>8. UnoConecta
  BY DEF Init, UnoConecta
<1>5. QED
  BY <1>1, <1>2, <1>3, <1>4, <1>6, <1>7, <1>8 DEF CerrojosInv, TipoOK

\* Every step.
LEMMA CerrojosSigue == CerrojosInv /\ [Next]_vars => CerrojosInv'
<1> SUFFICES ASSUME CerrojosInv, [Next]_vars PROVE CerrojosInv'
  OBVIOUS
<1>1. ASSUME NEW p \in Programas, Atiende(p) PROVE CerrojosInv'
  <2>1. TipoOK'
    BY <1>1, TipoHebrasPaso, TipoHilosPaso, TipoCuentasPaso DEF TipoOK
  <2>2. QED
    BY <1>1, <2>1, DueniosPaso, LlevaPaso, DeAcuerdoPaso, UnoConectaPaso DEF CerrojosInv
<1>2. ASSUME NEW t \in Hebras, Despertar \/ printefearMetricas(t) PROVE CerrojosInv'
  BY <1>2, CerrojosMetricas
<1>3. CASE UNCHANGED vars
  BY <1>3 DEF vars, CerrojosInv, TipoOK, TipoHebras, TipoHilos, TipoCuentas, Duenios, Lleva, DeAcuerdo, DeAcuerdoEn, UnoConecta
<1>4. QED
  BY <1>1, <1>2, <1>3, Hechos DEF Next

\* Whatever the order of the steps, the holder of each mutex is where the code
\* holds it, and each thread moves the ULT that its place says.
THEOREM CerrojosSiempre == Spec => []CerrojosInv
BY CerrojosInicial, CerrojosSigue, PTL DEF Spec

\* Two threads that change one list: if both hold its mutex they are one.
LEMMA ChocanVistas ==
  ASSUME CerrojosInv, NEW t \in Hebras, NEW u \in Hebras, t # u, Chocan(t, u)
  PROVE  \/ {donde[t], donde[u]} = {"create_hilo", "planificadorLargo"}
         \/ "next_hilo" \in {donde[t], donde[u]}
         \/ "libera" \in {donde[t], donde[u]}
<1> USE DEF CerrojosInv, Duenios
<1>1. CASE donde[t] \in Dentro.tabla_new /\ donde[u] \in Dentro.tabla_new
  BY <1>1 DEF Dentro, ConMulti
<1>2. CASE donde[t] \in Dentro.semaforo /\ donde[u] \in Dentro.semaforo
  BY <1>2 DEF Dentro, ConWt, ConLock, PorEncolar
<1>3. CASE /\ donde[t] \in Dentro.tablaReady /\ donde[u] \in Dentro.tablaReady
           /\ DeQuien(t) = DeQuien(u)
  <2>1. CASE donde[t] # "next_hilo" /\ donde[u] # "next_hilo"
    <3>1. donde[t] \in Agregan /\ donde[u] \in Agregan
      BY <1>3, <2>1 DEF Dentro, Agregan
    <3>2. DeQuien(t) = lleva[t][1] /\ DeQuien(u) = lleva[u][1]
      BY <2>1, <3>1 DEF DeQuien, Lleva
    <3>3. lleva[t][1] \in Programas
      BY <3>1, ParTipo DEF Lleva
    <3>4. duenio[lleva[t][1]] = t
      BY <3>1, <3>3
    <3>5. duenio[lleva[u][1]] = u /\ lleva[u][1] = lleva[t][1]
      <4>1. lleva[u][1] = lleva[t][1]
        BY <1>3, <3>2
      <4>2. QED
        BY <3>1, <3>3, <4>1
    <3>6. QED
      BY <3>4, <3>5
  <2>2. QED
    BY <2>1
<1>4. QED
  BY <1>1, <1>2, <1>3 DEF Chocan

\* A thread that adds to a list and another one inside it: only the program
\* adds to its hijos, and only one connects.
LEMMA AgrandaVista ==
  ASSUME CerrojosInv, NEW t \in Hebras, NEW u \in Hebras, t # u, Agranda(t, u)
  PROVE  \/ /\ donde[t] = "agrega_hijo"
            /\ donde[u] \in {"metricas_hijos", "pasa_new", "agrega_block", "agrega_fin"}
         \/ donde[t] = "conecta" /\ donde[u] # "conecta"
<1>1. CASE donde[t] = "agrega_hijo" /\ t \in HijosDe(u)
  <2>1. donde[u] \notin Dentro.propios
    BY <1>1 DEF HijosDe, Dentro
  <2>2. donde[u] \in Dentro.ajenos \/ donde[u] = "metricas_hijos"
    BY <1>1, <2>1 DEF HijosDe, Dentro
  <2>3. QED
    BY <1>1, <2>2 DEF Dentro
<1>2. CASE donde[t] = "conecta"
  BY <1>2 DEF CerrojosInv, UnoConecta
<1>3. QED
  BY <1>1, <1>2 DEF Agranda

LEMMA CarrerasVistas ==
  ASSUME CerrojosInv PROVE CarrerasConocidas
BY ChocanVistas, AgrandaVista DEF CarrerasConocidas

\* The rank of a mutex: whoever holds one waits only for one of a higher rank.
Rango(c) == CASE c \in {"multi", "wt"} -> 1 [] c = "sem_lock" -> 2 [] OTHER -> 3

\* What a thread waits for is a mutex.
LEMMA QuiereTipo ==
  ASSUME CerrojosInv, NEW t \in Hebras
  PROVE  Quiere(t) \in Cerrojos \cup {Nadie}
<1> USE DEF CerrojosInv
<1>1. CASE donde[t] \in Pasan
  <2>1. lleva[t][1] \in Programas
    BY <1>1, ParTipo DEF Lleva
  <2>2. Quiere(t) = lleva[t][1]
    BY <1>1 DEF Quiere, Pasan
  <2>3. QED
    BY <2>1, <2>2, Hechos
<1>2. CASE donde[t] = "BLOCKED"
  <2>1. t \in Programas
    BY <1>2 DEF TipoOK, TipoHebras, Hebras, Mide
  <2>2. QED
    BY <1>2, <2>1, Hechos DEF Quiere
<1>3. CASE donde[t] \notin Pasan \cup {"BLOCKED"}
  BY <1>3 DEF Quiere, Pasan, Cerrojos
<1>4. QED
  BY <1>1, <1>2, <1>3

\* Whoever holds a mutex waits for none, or for one of a higher rank.
LEMMA EnOrden ==
  ASSUME CerrojosInv, NEW t \in Hebras, NEW c \in Cerrojos, duenio[c] = t
  PROVE  /\ donde[t] \in Espera => \/ donde[t] = "recibe_nombre" /\ c \in {"wt", "sem_lock"}
                                   \/ donde[t] = "responde" /\ c = "wt"
         /\ Quiere(t) # "wt"
         /\ \/ Quiere(t) = Nadie
            \/ Quiere(t) \in Cerrojos /\ Rango(c) < Rango(Quiere(t))
<1> USE Hechos DEF CerrojosInv, Duenios, Espera
<1>1. CASE c = "multi"
  <2>1. donde[t] \in ConMulti
    BY <1>1
  <2>2. CASE donde[t] = "pasa_new"
    <3>1. lleva[t][1] \in Programas
      BY <2>2, ParTipo DEF Lleva, Pasan
    <3>2. Quiere(t) = lleva[t][1]
      BY <2>2 DEF Quiere
    <3>3. QED
      BY <1>1, <2>2, <3>1, <3>2, Hechos DEF Rango
  <2>3. CASE donde[t] # "pasa_new"
    BY <2>1, <2>3 DEF ConMulti, Quiere
  <2>4. QED
    BY <2>2, <2>3
<1>2. CASE c = "wt"
  <2>1. donde[t] \in ConWt /\ (donde[t] \in ConLock \/ donde[t] \in PorEncolar \/ donde[t] \in {"wait_hilo", "responde", "sem_lock", "metrica"})
    BY <1>2 DEF ConWt
  <2>2. CASE donde[t] = "pasa_block"
    <3>1. lleva[t][1] \in Programas
      BY <2>2, ParTipo DEF Lleva, Pasan
    <3>2. Quiere(t) = lleva[t][1]
      BY <2>2 DEF Quiere
    <3>3. QED
      BY <1>2, <2>2, <3>1, <3>2, Hechos DEF Rango
  <2>3. CASE donde[t] = "BLOCKED"
    <3>1. t \in Programas
      BY <2>3 DEF TipoOK, TipoHebras, Hebras, Mide
    <3>2. Quiere(t) = t
      BY <2>3 DEF Quiere
    <3>3. QED
      BY <1>2, <2>3, <3>1, <3>2, Hechos DEF Rango
  <2>4. CASE donde[t] = "tabla_lock"
    <3>2. Quiere(t) = "sem_lock"
      BY <2>4 DEF Quiere
    <3>3. QED
      BY <1>2, <2>4, <3>2 DEF Rango, Cerrojos
  <2>5. CASE donde[t] = "sem_lock"
    <3>2. Quiere(t) = "sem_lock"
      BY <1>2, <2>5 DEF Quiere
    <3>3. QED
      BY <1>2, <2>5, <3>2 DEF Rango, Cerrojos
  <2>6. CASE donde[t] \in {"recibe_nombre", "signal_hilo", "agrega_block", "post_block", "suelta", "bloquearEnSemaforo", "wait_hilo",
                           "responde", "metrica"}
    BY <1>2, <2>6 DEF Quiere
  <2>7. QED
    BY <2>1, <2>2, <2>3, <2>4, <2>5, <2>6 DEF ConLock, PorEncolar
<1>3. CASE c = "sem_lock"
  <2>1. donde[t] \in ConLock
    BY <1>3
  <2>2. CASE donde[t] = "pasa_block"
    <3>1. lleva[t][1] \in Programas
      BY <2>2, ParTipo DEF Lleva, Pasan
    <3>2. Quiere(t) = lleva[t][1]
      BY <2>2 DEF Quiere
    <3>3. QED
      BY <1>3, <2>2, <3>1, <3>2, Hechos DEF Rango
  <2>3. CASE donde[t] # "pasa_block"
    BY <1>3, <2>1, <2>3 DEF ConLock, Quiere
  <2>4. QED
    BY <2>2, <2>3
<1>4. CASE c = "sem_new"
  BY <1>4 DEF Quiere
<1>5. CASE c \in Programas
  BY <1>5 DEF Quiere, Agregan
<1>6. QED
  BY <1>1, <1>2, <1>3, <1>4, <1>5 DEF Cerrojos

\* A circle of threads would need mutexes of ever higher rank.
LEMMA SinAbrazoVisto ==
  ASSUME CerrojosInv PROVE SinAbrazo
<1>1. ASSUME NEW t \in Hebras, NEW c \in Cerrojos, duenio[c] = t
      PROVE  /\ Quiere(t) # "wt"
             /\ donde[t] \in Espera => \/ donde[t] = "recibe_nombre" /\ c \in {"wt", "sem_lock"}
                                       \/ donde[t] = "responde" /\ c = "wt"
  BY <1>1, EnOrden
<1>2. ASSUME NEW S \in (SUBSET Hebras) \ {{}},
             \A t \in S : Quiere(t) # Nadie /\ duenio[Quiere(t)] \in S
      PROVE  FALSE
  <2>1. \A t \in S : Quiere(t) \in Cerrojos
    BY <1>2, QuiereTipo
  <2>2. \A t \in S : \E u \in S : u = duenio[Quiere(t)] /\ Rango(Quiere(t)) < Rango(Quiere(u))
    <3>1. TAKE t \in S
    <3>2. duenio[Quiere(t)] \in Hebras
      BY <1>2
    <3>3. QED
      BY <1>2, <2>1, <3>2, EnOrden
  <2>3. \A c : Rango(c) \in 1..3
    BY DEF Rango
  <2>4. PICK t1 : t1 \in S
    <3>1. S # {}
      OBVIOUS
    <3>2. QED
      BY <3>1
  <2>5. PICK t2 \in S : Rango(Quiere(t1)) < Rango(Quiere(t2))
    BY <2>2, <2>4
  <2>6. PICK t3 \in S : Rango(Quiere(t2)) < Rango(Quiere(t3))
    BY <2>2
  <2>7. PICK t4 \in S : Rango(Quiere(t3)) < Rango(Quiere(t4))
    BY <2>2
  <2>8. Rango(Quiere(t1)) \in 1..3 /\ Rango(Quiere(t2)) \in 1..3 /\ Rango(Quiere(t3)) \in 1..3 /\ Rango(Quiere(t4)) \in 1..3
    BY <2>3
  <2>9. QED
    BY <2>5, <2>6, <2>7, <2>8
<1>3. QED
  BY <1>1, <1>2 DEF SinAbrazo

\* No threads wait in a circle for mutexes.  Who waits for anything else with one
\* in its hands is a SIGNAL that waits for the name of its semaphore, with wt and
\* sem_lock, or a WAIT that sends its answer, with wt; and nobody who holds a mutex
\* waits for wt, so that a silent client stops only who would enter a WAIT, a
\* SIGNAL or the metrics.
THEOREM SinAbrazoSiempre == Spec => []SinAbrazo
BY CerrojosSiempre, SinAbrazoVisto, PTL

\* Two threads change one list at once only around create_hilo, next_hilo and the
\* end of a program: everywhere else the mutexes keep them apart.  To the lists
\* that have no mutex, hijos and the tables of programs, one thread at a time adds,
\* and who can be inside them meanwhile is the metrics, or who looks for a ULT of
\* another program, or for any program while one connects.
THEOREM CarrerasSiempre == Spec => []CarrerasConocidas
BY CerrojosSiempre, CarrerasVistas, PTL

(***************************************************************************)
(* The counters, while the handlers interleave.                             *)
(*                                                                         *)
(* A counter and the list it counts change in different steps, so that       *)
(* CuentasEnOrden is not inductive.  Three strengthenings make it so.  Each   *)
(* ULT is in one queue at most, the one its estado says, or in the hands of   *)
(* one thread (ColasInv); each counter is right at every step once what its   *)
(* threads still owe is added to it (ListosJustos, ValorJusto, CuposJustos);  *)
(* and who owes it is known by the mutex it holds (CerrojosInv).              *)
(***************************************************************************)

(***************************************************************************)
(* Queues.                                                                  *)
(***************************************************************************)

EnCola(c) == {c[i] : i \in 1..Len(c)}
SinRepetir(c) == \A i, j \in 1..Len(c) : c[i] = c[j] => i = j

\* A queue has each of its ULTs once, in estado e.
ColaJusta(c, e) == SinRepetir(c) /\ \A x \in EnCola(c) : estado[x] = e

ListasJustas ==
  \A p \in Programas : \A h \in tablaReady[p] : estado[<<p, h>>] = "READY"

\* A ULT on its way to a ready list is in no list and in nobody else's hands.
EnVuelo(t) == donde[t] \in Pasan \cup Agregan
VuelosJustos ==
  \A t \in Hebras : EnVuelo(t) =>
    /\ estado[lleva[t]] = "READY"
    /\ \A p \in Programas : \A h \in tablaReady[p] : lleva[t] # <<p, h>>
    /\ \A u \in Hebras : EnVuelo(u) /\ lleva[u] = lleva[t] => u = t

\* Each ULT in a queue, in a list or on its way there is so once, and its
\* estado says where.
ColasJustas ==
  ColaJusta(tabla_new, "NEW") /\ ColaJusta(sem_blocked, "BLOCKED") /\ ListasJustas /\ VuelosJustos

\* The ULT that is created, and the ULT that runs: its estado, until the
\* program has another one.
EnManoEn(p) ==
  /\ donde[p] = "agrega_hijo" => estado[lleva[p]] = "NADA"
  /\ donde[p] = "create_hilo" => estado[lleva[p]] = "NEW" /\ lleva[p] \notin EnCola(tabla_new)
  /\ donde[p] \in {"sem_wait", "next_hilo"} => hilo_exec[p] = Nadie
  /\ hilo_exec[p] # Nadie =>
       estado[<<p, hilo_exec[p]>>] =
         IF donde[p] \in {"pasa_exec", "agrega_exec", "post_exec"} THEN "READY"
         ELSE IF donde[p] \in {"tabla_lock", "bloquearEnSemaforo"} THEN "BLOCKED" ELSE "EXEC"
  /\ donde[p] \in {"tabla_lock", "bloquearEnSemaforo"} =>
       <<p, hilo_exec[p]>> \notin EnCola(sem_blocked)
EnMano == \A p \in Programas : EnManoEn(p)

ColasInv == CerrojosInv /\ ColasJustas /\ EnMano

\* A queue without repetitions and one more element.
LEMMA ColaAgrega ==
  ASSUME NEW S, NEW c \in Seq(S), NEW x \in S, SinRepetir(c), x \notin EnCola(c)
  PROVE  SinRepetir(Append(c, x)) /\ EnCola(Append(c, x)) = EnCola(c) \cup {x}
<1>1. /\ Len(Append(c, x)) = Len(c) + 1 /\ Len(c) \in Nat
      /\ \A i \in 1..Len(c) : Append(c, x)[i] = c[i]
      /\ Append(c, x)[Len(c) + 1] = x
  OBVIOUS
<1>2. \A i \in 1..Len(c) : c[i] # x
  BY DEF EnCola
<1>3. SinRepetir(Append(c, x))
  BY <1>1, <1>2 DEF SinRepetir
<1>4. EnCola(Append(c, x)) = EnCola(c) \cup {x}
  BY <1>1 DEF EnCola
<1>5. QED
  BY <1>3, <1>4

\* A queue without repetitions and without its head.
LEMMA ColaSaca ==
  ASSUME NEW S, NEW c \in Seq(S), c # <<>>, SinRepetir(c)
  PROVE  /\ SinRepetir(Tail(c)) /\ Head(c) \in EnCola(c)
         /\ EnCola(Tail(c)) = EnCola(c) \ {Head(c)}
<1>1. /\ Len(Tail(c)) = Len(c) - 1 /\ Len(c) \in Nat \ {0} /\ Head(c) = c[1]
      /\ \A i \in 1..Len(c) - 1 : Tail(c)[i] = c[i + 1]
  OBVIOUS
<1>2. SinRepetir(Tail(c))
  BY <1>1 DEF SinRepetir
<1>3. Head(c) \in EnCola(c)
  BY <1>1 DEF EnCola
<1>4. ASSUME NEW x \in EnCola(Tail(c)) PROVE x \in EnCola(c) \ {Head(c)}
  <2>1. PICK i \in 1..Len(c) - 1 : x = c[i + 1]
    BY <1>1, <1>4 DEF EnCola
  <2>2. QED
    BY <1>1, <2>1 DEF EnCola, SinRepetir
<1>5. ASSUME NEW x \in EnCola(c) \ {Head(c)} PROVE x \in EnCola(Tail(c))
  <2>1. PICK i \in 1..Len(c) : x = c[i]
    BY <1>5 DEF EnCola
  <2>2. i # 1
    BY <1>1, <1>5, <2>1
  <2>3. i - 1 \in 1..Len(c) - 1 /\ Tail(c)[i - 1] = x
    BY <1>1, <2>1, <2>2
  <2>4. QED
    BY <1>1, <2>3 DEF EnCola
<1>6. QED
  BY <1>2, <1>3, <1>4, <1>5

-----------------------------------------------------------------------------
(* What a step does to the queues *)

Quieto(p) ==
  /\ UNCHANGED <<estado, tabla_new, sem_blocked, tablaReady>>
  /\ EnVuelo(p)' <=> EnVuelo(p)
  /\ EnVuelo(p) => lleva'[p] = lleva[p]

Cambia(x, de, a) ==
  x \in Pares /\ estado[x] = de /\ estado' = [estado EXCEPT ![x] = a]

EnTierra(p) == ~EnVuelo(p) /\ ~EnVuelo(p)'

Nace(p) ==
  /\ Cambia(lleva[p], "NADA", "NEW") /\ lleva[p][1] = p /\ EnTierra(p)
  /\ UNCHANGED <<tabla_new, sem_blocked, tablaReady>>

Entra(p) ==
  /\ lleva[p] \in Pares /\ lleva[p][1] = p /\ EnTierra(p)
  /\ estado[lleva[p]] = "NEW" /\ lleva[p] \notin EnCola(tabla_new)
  /\ tabla_new' = Append(tabla_new, lleva[p]) /\ UNCHANGED <<estado, sem_blocked, tablaReady>>

\* x leaves in the hands of p.
Sale(p, x, de) ==
  /\ Cambia(x, de, "READY") /\ ~EnVuelo(p) /\ EnVuelo(p)' /\ lleva'[p] = x
  /\ UNCHANGED tablaReady

SaleNuevo(p) ==
  /\ tabla_new # <<>> /\ Sale(p, Head(tabla_new), "NEW")
  /\ tabla_new' = Tail(tabla_new) /\ UNCHANGED sem_blocked
SaleBloqueado(p) ==
  /\ sem_blocked # <<>> /\ Sale(p, Head(sem_blocked), "BLOCKED")
  /\ sem_blocked' = Tail(sem_blocked) /\ UNCHANGED tabla_new
SaleCorriendo(p) ==
  Sale(p, <<p, hilo_exec[p]>>, "EXEC") /\ UNCHANGED <<tabla_new, sem_blocked>>

Llega(p) ==
  /\ EnVuelo(p) /\ ~EnVuelo(p)'
  /\ \E q \in Programas : \E h \in Hilos[q] :
       lleva[p] = <<q, h>> /\ tablaReady' = [tablaReady EXCEPT ![q] = @ \cup {h}]
  /\ UNCHANGED <<estado, tabla_new, sem_blocked>>

Elige(p) ==
  /\ EnTierra(p)
  /\ \E h \in tablaReady[p] :
       /\ Cambia(<<p, h>>, "READY", "EXEC") /\ tablaReady' = [tablaReady EXCEPT ![p] = @ \ {h}]
       /\ hilo_exec'[p] = h /\ donde'[p] = "recv"
  /\ UNCHANGED <<tabla_new, sem_blocked>>

Para(p) ==
  /\ EnTierra(p)
  /\ \E e \in {"BLOCKED", "EXIT"} : Cambia(<<p, hilo_exec[p]>>, "EXEC", e)
  /\ UNCHANGED <<tabla_new, sem_blocked, tablaReady>>

Encola(p) ==
  /\ EnTierra(p)
  /\ <<p, hilo_exec[p]>> \in Pares /\ <<p, hilo_exec[p]>> \notin EnCola(sem_blocked)
  /\ estado[<<p, hilo_exec[p]>>] = "BLOCKED"
  /\ sem_blocked' = Append(sem_blocked, <<p, hilo_exec[p]>>)
  /\ UNCHANGED <<estado, tabla_new, tablaReady>>

\* Every step of a program is one of those.
LEMMA Mudanzas ==
  ASSUME ColasInv, NEW p \in Programas, Atiende(p)
  PROVE  \/ Quieto(p) \/ Nace(p) \/ Entra(p) \/ SaleNuevo(p) \/ SaleBloqueado(p) \/ SaleCorriendo(p)
         \/ Llega(p) \/ Elige(p) \/ Para(p) \/ Encola(p)
<1> USE Hechos DEF ColasInv, CerrojosInv, TipoOK, TipoHebras, TipoHilos, EnVuelo, En, Ir, Pasan, Agregan, EnTierra, Cambia
<1>1. ASSUME NEW h \in Hilos[p], PedirCrear(p, h) PROVE Quieto(p)
  BY <1>1 DEF PedirCrear, Corre, Quieto, listos, semaforo, cupos
<1>2. CASE create_hilo(p)
  BY <1>2 DEF create_hilo, Entra, Lleva, EnMano, EnManoEn, listos, semaforo
<1>23. CASE AgregarHijo(p)
  BY <1>23 DEF AgregarHijo, Nace, Lleva, EnMano, EnManoEn, listos, semaforo, cupos
<1>24. CASE Conectar(p) \/ Conectado(p) \/ Responder(p) \/ RecibirNombre(p) \/ PedirClose(p)
  BY <1>24 DEF Conectar, Conectado, Responder, RecibirNombre, PedirClose, Corre, Quieto, cupos, semaforo, listos
<1>3. CASE planificadorLargo(p)
  <2>1. CASE cant_programas < Multiprog /\ tabla_new # <<>>
    <3>1. Head(tabla_new) \in Pares /\ estado[Head(tabla_new)] = "NEW"
      BY <2>1, ColaTipo, ColaSaca DEF ColasJustas, ColaJusta
    <3>2. ~ (cant_programas >= Multiprog \/ tabla_new = <<>>)
      BY <2>1, ConstantesCerrojos DEF ConstantesCerrojos, TipoCuentas
    <3>3. /\ tabla_new' = Tail(tabla_new) /\ lleva' = [lleva EXCEPT ![p] = Head(tabla_new)]
          /\ estado' = [estado EXCEPT ![Head(tabla_new)] = "READY"] /\ Ir(p, "pasa_new")
      BY <1>3, <3>2 DEF planificadorLargo
    <3>4. donde[p] = "planificadorLargo" /\ UNCHANGED <<sem_blocked, tablaReady>>
      BY <1>3 DEF planificadorLargo, listos, semaforo
    <3>5. EnVuelo(p)' /\ lleva'[p] = Head(tabla_new)
      BY <3>3
    <3>6. QED
      BY <2>1, <3>1, <3>3, <3>4, <3>5 DEF SaleNuevo, Sale
  <2>2. CASE ~ (cant_programas < Multiprog /\ tabla_new # <<>>)
    BY <1>3, <2>2 DEF planificadorLargo, Quieto, listos, semaforo
  <2>3. QED
    BY <2>1, <2>2
<1>4. CASE Planificar(p) \/ PostNew(p)
  BY <1>4 DEF Planificar, PostNew, Quieto, listos, semaforo, cupos
<1>5. CASE Agrega(p)
  BY <1>5 DEF Agrega, Paso, Quieto, listos, semaforo, cupos
<1>6. CASE Agregado(p)
  <2>1. EnVuelo(p) /\ ~EnVuelo(p)'
    BY <1>6 DEF Agregado, Paso
  <2>2. PICK q \in Programas : \E h \in Hilos[q] : lleva[p] = <<q, h>>
    BY <2>1 DEF Lleva, Pares
  <2>3. PICK h \in Hilos[q] : lleva[p] = <<q, h>>
    BY <2>2
  <2>4. lleva[p][1] = q /\ lleva[p][2] = h
    BY <2>3
  <2>5. tablaReady' = [tablaReady EXCEPT ![q] = @ \cup {h}]
    BY <1>6, <2>4 DEF Agregado
  <2>6. UNCHANGED <<estado, tabla_new, sem_blocked>>
    BY <1>6 DEF Agregado, semaforo, cupos
  <2>7. QED
    BY <2>1, <2>3, <2>5, <2>6 DEF Llega
<1>7. CASE PedirSiguiente(p)
  <2>1. CASE hilo_exec[p] # Nadie
    <3>1. <<p, hilo_exec[p]>> \in Pares /\ estado[<<p, hilo_exec[p]>>] = "EXEC"
      BY <1>7, <2>1, ParDe DEF EnMano, EnManoEn, PedirSiguiente
    <3>2. QED
      BY <1>7, <2>1, <3>1 DEF PedirSiguiente, SaleCorriendo, Sale, cupos, semaforo, listos
  <2>2. CASE hilo_exec[p] = Nadie
    BY <1>7, <2>2 DEF PedirSiguiente, Sigue, Quieto, cupos, semaforo, listos
  <2>3. QED
    BY <2>1, <2>2
<1>8. CASE PostExec(p) \/ SemWait(p)
  BY <1>8 DEF PostExec, SemWait, Quieto, cupos, semaforo
<1>9. CASE next_hilo(p)
  <2>1. CASE tablaReady[p] = {}
    BY <1>9, <2>1 DEF next_hilo, Quieto, cupos, semaforo
  <2>2. CASE tablaReady[p] # {}
    <3>1. PICK h \in tablaReady[p] :
            /\ tablaReady' = [tablaReady EXCEPT ![p] = @ \ {h}]
            /\ estado' = [estado EXCEPT ![<<p, h>>] = "EXEC"]
            /\ hilo_exec' = [hilo_exec EXCEPT ![p] = h]
            /\ Ir(p, "recv")
      BY <1>9, <2>2 DEF next_hilo
    <3>2. <<p, h>> \in Pares /\ estado[<<p, h>>] = "READY"
      BY ParDe DEF ColasJustas, ListasJustas
    <3>3. donde[p] = "next_hilo" /\ UNCHANGED <<tabla_new, sem_blocked>>
      BY <1>9 DEF next_hilo, cupos, semaforo
    <3>4. hilo_exec'[p] = h /\ donde'[p] = "recv"
      BY <3>1
    <3>5. QED
      BY <3>1, <3>2, <3>3, <3>4 DEF Elige
  <2>3. QED
    BY <2>1, <2>2
<1>10. CASE PedirWait(p) \/ AgregarLock(p)
  BY <1>10 DEF PedirWait, Corre, AgregarLock, Quieto, cupos, semaforo, listos
<1>11. CASE wait_hilo(p)
  <2>1. PICK l \in {"BLOCKED", "responde"} : Ir(p, l)
    BY <1>11 DEF wait_hilo
  <2>2. QED
    BY <1>11, <2>1 DEF wait_hilo, Quieto, cupos, listos
<1>12. CASE Bloquear(p)
  <2>1. hilo_exec[p] # Nadie
    BY <1>12 DEF Bloquear, DeAcuerdo, DeAcuerdoEn, ConWt, PorEncolar
  <2>2. <<p, hilo_exec[p]>> \in Pares /\ estado[<<p, hilo_exec[p]>>] = "EXEC"
    BY <1>12, <2>1, ParDe DEF EnMano, EnManoEn, Bloquear
  <2>3. QED
    BY <1>12, <2>2 DEF Bloquear, Para, cupos, semaforo, listos
<1>13. CASE bloquearEnSemaforo(p)
  <2>1. hilo_exec[p] # Nadie
    BY <1>13 DEF bloquearEnSemaforo, DeAcuerdo, DeAcuerdoEn, ConWt, PorEncolar
  <2>2. /\ <<p, hilo_exec[p]>> \in Pares /\ estado[<<p, hilo_exec[p]>>] = "BLOCKED"
        /\ <<p, hilo_exec[p]>> \notin EnCola(sem_blocked)
    BY <1>13, <2>1, ParDe DEF EnMano, EnManoEn, bloquearEnSemaforo
  <2>3. QED
    BY <1>13, <2>2 DEF bloquearEnSemaforo, Encola, cupos, listos
<1>14. CASE PedirSignal(p) \/ TomarLock(p)
  BY <1>14 DEF PedirSignal, Corre, TomarLock, Quieto, cupos, semaforo, listos
<1>15. ASSUME NEW a \in Pasan, NEW b \in {"suelta", "exit"}, Devolver(p, a, b), ~EnVuelo(p),
              UNCHANGED <<cupos, listos>>
       PROVE  SaleBloqueado(p) \/ Quieto(p)
  <2>1. CASE sem_value < SemMax /\ sem_value + 1 <= 0 /\ sem_blocked # <<>>
    <3>1. Head(sem_blocked) \in Pares /\ estado[Head(sem_blocked)] = "BLOCKED"
      BY <2>1, ColaTipo, ColaSaca DEF ColasJustas, ColaJusta
    <3>2. /\ sem_blocked' = Tail(sem_blocked) /\ lleva' = [lleva EXCEPT ![p] = Head(sem_blocked)]
          /\ estado' = [estado EXCEPT ![Head(sem_blocked)] = "READY"] /\ Ir(p, a)
      BY <1>15, <2>1, DevolverCasos
    <3>3. EnVuelo(p)' /\ lleva'[p] = Head(sem_blocked)
      BY <3>2
    <3>4. QED
      BY <1>15, <2>1, <3>1, <3>2, <3>3 DEF SaleBloqueado, Sale, cupos, listos
  <2>2. CASE sem_value < SemMax /\ sem_value + 1 <= 0 /\ sem_blocked = <<>>
    <3>1. UNCHANGED <<sem_blocked, lleva, estado, donde>>
      BY <1>15, <2>2, DevolverCasos
    <3>2. QED
      BY <1>15, <3>1 DEF Quieto, cupos, listos
  <2>3. CASE ~ (sem_value < SemMax /\ sem_value + 1 <= 0)
    <3>1. Ir(p, b) /\ UNCHANGED <<sem_blocked, lleva, estado>>
      BY <1>15, <2>3, DevolverCasos
    <3>2. ~EnVuelo(p)'
      BY <3>1
    <3>3. QED
      BY <1>15, <3>1, <3>2 DEF Quieto, cupos, listos
  <2>4. QED
    BY <2>1, <2>2, <2>3
<1>16. CASE signal_hilo(p)
  BY <1>15, <1>16 DEF signal_hilo
<1>17. CASE Liberar(p)
  BY <1>15, <1>17 DEF Liberar
<1>18. CASE close_hilo(p)
  <2>1. <<p, hilo_exec[p]>> \in Pares /\ estado[<<p, hilo_exec[p]>>] = "EXEC"
    BY <1>18, ParDe DEF EnMano, EnManoEn, DeAcuerdo, DeAcuerdoEn, close_hilo
  <2>2. QED
    BY <1>18, <2>1 DEF close_hilo, Para, semaforo, listos
<1>19. CASE PostBlock(p) \/ FinSignal(p)
  BY <1>19 DEF PostBlock, FinSignal, Quieto, cupos, semaforo, listos
<1>20. CASE CerrarMain(p) \/ PostFin(p)
  BY <1>20 DEF CerrarMain, Corre, PostFin, Quieto, cupos, semaforo, listos
<1>21. CASE Finalizar(p)
  <2>1. PICK l \in {"libera", "exit"} : Ir(p, l)
    BY <1>21 DEF Finalizar
  <2>2. QED
    BY <1>21, <2>1 DEF Finalizar, Quieto, cupos, semaforo, listos
<1>22. QED
  BY <1>1, <1>2, <1>3, <1>4, <1>5, <1>6, <1>7, <1>8, <1>9, <1>10, <1>11, <1>12, <1>13, <1>14,
     <1>16, <1>17, <1>18, <1>19, <1>20, <1>21, <1>23, <1>24 DEF Atiende

\* The elements of a queue.
LEMMA EnColaDe ==
  ASSUME NEW S, NEW c \in Seq(S)
  PROVE  EnCola(c) \in SUBSET S
BY DEF EnCola

\* The queue of new ULTs.
LEMMA NuevosPaso ==
  ASSUME ColasInv, NEW p \in Programas, Atiende(p)
  PROVE  ColaJusta(tabla_new, "NEW")'
<1>1. tabla_new \in Seq(Pares) /\ estado \in [Pares -> Estados] /\ ColaJusta(tabla_new, "NEW")
  BY DEF ColasInv, CerrojosInv, TipoOK, TipoHilos, ColasJustas
<1>2. EnCola(tabla_new) \in SUBSET Pares
  BY <1>1, EnColaDe
<1> USE DEF ColaJusta
<1>3. CASE Entra(p)
  <2>2. SinRepetir(tabla_new') /\ EnCola(tabla_new') = EnCola(tabla_new) \cup {lleva[p]}
    BY <1>1, <1>3, ColaAgrega DEF Entra
  <2>3. QED
    BY <1>1, <1>2, <1>3, <2>2 DEF Entra
<1>4. CASE SaleNuevo(p)
  <2>1. /\ SinRepetir(tabla_new') /\ EnCola(tabla_new') = EnCola(tabla_new) \ {Head(tabla_new)}
    BY <1>1, <1>4, ColaSaca DEF SaleNuevo
  <2>2. QED
    BY <1>1, <1>2, <1>4, <2>1 DEF SaleNuevo, Sale, Cambia
<1>5. ASSUME NEW x \in Pares, NEW d \in {"NADA", "BLOCKED", "EXEC", "READY"}, NEW a, Cambia(x, d, a), UNCHANGED tabla_new
      PROVE  ColaJusta(tabla_new, "NEW")'
  BY <1>1, <1>2, <1>5 DEF Cambia
<1>6. CASE Nace(p) \/ SaleBloqueado(p) \/ SaleCorriendo(p)
  BY <1>5, <1>6 DEF Nace, SaleBloqueado, SaleCorriendo, Sale, Cambia
<1>7. CASE Elige(p) \/ Para(p)
  BY <1>5, <1>7 DEF Elige, Para, Cambia
<1>8. CASE Quieto(p) \/ Llega(p) \/ Encola(p)
  BY <1>1, <1>8 DEF Quieto, Llega, Encola
<1>9. QED
  BY <1>3, <1>4, <1>6, <1>7, <1>8, Mudanzas

\* The queue of the semaphore.
LEMMA BloqueadosPaso ==
  ASSUME ColasInv, NEW p \in Programas, Atiende(p)
  PROVE  ColaJusta(sem_blocked, "BLOCKED")'
<1>1. sem_blocked \in Seq(Pares) /\ estado \in [Pares -> Estados] /\ ColaJusta(sem_blocked, "BLOCKED")
  BY DEF ColasInv, CerrojosInv, TipoOK, TipoHilos, ColasJustas
<1>2. EnCola(sem_blocked) \in SUBSET Pares
  BY <1>1, EnColaDe
<1> USE DEF ColaJusta
<1>3. CASE Encola(p)
  <2>4. SinRepetir(sem_blocked)
    BY <1>1
  <2>1. SinRepetir(sem_blocked') /\ EnCola(sem_blocked') = EnCola(sem_blocked) \cup {<<p, hilo_exec[p]>>}
    <3> DEFINE x == <<p, hilo_exec[p]>>
    <3>1. x \in Pares /\ x \notin EnCola(sem_blocked) /\ sem_blocked' = Append(sem_blocked, x)
      BY <1>3 DEF Encola
    <3> HIDE DEF x
    <3>2. SinRepetir(Append(sem_blocked, x)) /\ EnCola(Append(sem_blocked, x)) = EnCola(sem_blocked) \cup {x}
      BY <1>1, <2>4, <3>1, ColaAgrega
    <3>3. QED
      BY <3>1, <3>2 DEF x
  <2>2. QED
    BY <1>1, <1>2, <1>3, <2>1 DEF Encola
<1>4. CASE SaleBloqueado(p)
  <2>1. /\ SinRepetir(sem_blocked') /\ EnCola(sem_blocked') = EnCola(sem_blocked) \ {Head(sem_blocked)}
    BY <1>1, <1>4, ColaSaca DEF SaleBloqueado
  <2>2. QED
    BY <1>1, <1>2, <1>4, <2>1 DEF SaleBloqueado, Sale, Cambia
<1>5. ASSUME NEW x \in Pares, NEW d \in {"NADA", "NEW", "EXEC", "READY"}, NEW a, Cambia(x, d, a), UNCHANGED sem_blocked
      PROVE  ColaJusta(sem_blocked, "BLOCKED")'
  BY <1>1, <1>2, <1>5 DEF Cambia
<1>6. CASE Nace(p) \/ SaleNuevo(p) \/ SaleCorriendo(p)
  BY <1>5, <1>6 DEF Nace, SaleNuevo, SaleCorriendo, Sale, Cambia
<1>7. CASE Elige(p) \/ Para(p)
  BY <1>5, <1>7 DEF Elige, Para, Cambia
<1>8. CASE Quieto(p) \/ Llega(p) \/ Entra(p)
  BY <1>1, <1>8 DEF Quieto, Llega, Entra
<1>9. QED
  BY <1>3, <1>4, <1>6, <1>7, <1>8, Mudanzas

\* The ready lists.
LEMMA ListasPaso ==
  ASSUME ColasInv, NEW p \in Programas, Atiende(p)
  PROVE  ListasJustas'
<1>1. /\ tablaReady \in [Programas -> SUBSET Tids] /\ estado \in [Pares -> Estados] /\ ListasJustas
      /\ \A q \in Programas : \A h \in tablaReady[q] : <<q, h>> \in Pares
  BY ParDe DEF ColasInv, CerrojosInv, TipoOK, TipoHilos, ColasJustas
<1>2. p \in Hebras
  BY Hechos
<1> USE DEF ListasJustas
<1>3. ASSUME NEW x, NEW d \in {"NADA", "NEW", "EXEC", "BLOCKED"}, NEW a, Cambia(x, d, a), UNCHANGED tablaReady
      PROVE  ListasJustas'
  BY <1>1, <1>3 DEF Cambia
<1>4. CASE Nace(p) \/ Para(p)
  BY <1>3, <1>4 DEF Nace, Para
<1>5. CASE SaleNuevo(p) \/ SaleBloqueado(p) \/ SaleCorriendo(p)
  BY <1>3, <1>5 DEF SaleNuevo, SaleBloqueado, SaleCorriendo, Sale
<1>6. CASE Llega(p)
  <2>1. PICK q \in Programas : \E h \in Hilos[q] :
          lleva[p] = <<q, h>> /\ tablaReady' = [tablaReady EXCEPT ![q] = @ \cup {h}]
    BY <1>6 DEF Llega
  <2>2. PICK h \in Hilos[q] :
          lleva[p] = <<q, h>> /\ tablaReady' = [tablaReady EXCEPT ![q] = @ \cup {h}]
    BY <2>1
  <2>3. estado[<<q, h>>] = "READY"
    BY <1>2, <1>6, <2>2 DEF Llega, ColasInv, ColasJustas, VuelosJustos
  <2>4. QED
    BY ZenonT(40), <1>1, <1>6, <2>2, <2>3 DEF Llega
<1>7. CASE Elige(p)
  <2>1. PICK h \in tablaReady[p] :
          Cambia(<<p, h>>, "READY", "EXEC") /\ tablaReady' = [tablaReady EXCEPT ![p] = @ \ {h}]
    BY <1>7 DEF Elige
  <2>2. \A r \in Programas : tablaReady'[r] \subseteq tablaReady[r] /\ (r = p => h \notin tablaReady'[r])
    BY <1>1, <2>1
  <2>3. \A y \in Pares : y # <<p, h>> => estado'[y] = estado[y]
    BY <1>1, <2>1 DEF Cambia
  <2>4. QED
    BY <1>1, <2>2, <2>3
<1>8. CASE Quieto(p) \/ Encola(p) \/ Entra(p)
  BY <1>1, <1>8 DEF Quieto, Encola, Entra
<1>9. QED
  BY <1>4, <1>5, <1>6, <1>7, <1>8, Mudanzas

\* The ULTs on their way to a ready list.
LEMMA VuelosPaso ==
  ASSUME ColasInv, NEW p \in Programas, Atiende(p)
  PROVE  VuelosJustos'
<1>1. /\ tablaReady \in [Programas -> SUBSET Tids] /\ estado \in [Pares -> Estados]
      /\ VuelosJustos /\ ListasJustas
      /\ \A q \in Programas : \A h \in tablaReady[q] : <<q, h>> \in Pares
  BY ParDe DEF ColasInv, CerrojosInv, TipoOK, TipoHilos, ColasJustas
<1>2. p \in Hebras
  BY Hechos
<1>3. \A t \in Hebras : t # p => (EnVuelo(t)' <=> EnVuelo(t)) /\ lleva'[t] = lleva[t]
  BY Otros DEF EnVuelo, ColasInv
<1>4. \A t \in Hebras : EnVuelo(t) => lleva[t] \in Pares
  BY DEF EnVuelo, ColasInv, CerrojosInv, Lleva
<1> USE DEF VuelosJustos
<1>5. ASSUME NEW x, NEW d \in {"NADA", "NEW", "EXEC", "BLOCKED"}, NEW a, Cambia(x, d, a), UNCHANGED tablaReady,
             EnVuelo(p)' => ~EnVuelo(p) /\ lleva'[p] = x /\ a = "READY"
      PROVE  VuelosJustos'
  <2>1. ASSUME NEW t \in Hebras, EnVuelo(t)', t # p
        PROVE  /\ estado'[lleva'[t]] = "READY" /\ lleva'[t] # x /\ EnVuelo(t)
    BY <1>1, <1>3, <1>4, <1>5, <2>1 DEF Cambia
  <2>2. ASSUME EnVuelo(p)'
        PROVE  /\ estado'[lleva'[p]] = "READY"
               /\ \A q \in Programas : \A h \in tablaReady[q] : lleva'[p] # <<q, h>>
    BY <1>1, <1>5, <2>2 DEF Cambia, ListasJustas
  <2>3. QED
    BY <1>1, <1>3, <1>5, <2>1, <2>2
<1>6. CASE Nace(p) \/ Para(p)
  BY <1>5, <1>6 DEF Nace, Para, EnTierra
<1>7. CASE SaleNuevo(p) \/ SaleBloqueado(p) \/ SaleCorriendo(p)
  BY <1>5, <1>7 DEF SaleNuevo, SaleBloqueado, SaleCorriendo, Sale
<1>8. CASE Llega(p)
  <2>1. PICK q \in Programas : \E h \in Hilos[q] :
          lleva[p] = <<q, h>> /\ tablaReady' = [tablaReady EXCEPT ![q] = @ \cup {h}]
    BY <1>8 DEF Llega
  <2>2. PICK h \in Hilos[q] :
          lleva[p] = <<q, h>> /\ tablaReady' = [tablaReady EXCEPT ![q] = @ \cup {h}]
    BY <2>1
  <2>3. \A r \in Programas : \A i \in tablaReady'[r] : i \in tablaReady[r] \/ <<r, i>> = lleva[p]
    BY <1>1, <2>2
  <2>4. ~EnVuelo(p)' /\ EnVuelo(p) /\ UNCHANGED estado
    BY <1>8 DEF Llega
  <2>5. ASSUME NEW t \in Hebras, EnVuelo(t)'
        PROVE  t # p /\ EnVuelo(t) /\ lleva'[t] = lleva[t] /\ lleva[t] # lleva[p]
    BY <1>1, <1>2, <1>3, <2>4, <2>5
  <2>6. QED
    BY <1>1, <2>3, <2>4, <2>5
<1>9. CASE Elige(p)
  <2>1. PICK h \in tablaReady[p] :
          Cambia(<<p, h>>, "READY", "EXEC") /\ tablaReady' = [tablaReady EXCEPT ![p] = @ \ {h}]
    BY <1>9 DEF Elige
  <2>2. \A r \in Programas : tablaReady'[r] \subseteq tablaReady[r]
    BY <1>1, <2>1
  <2>3. ASSUME NEW t \in Hebras, EnVuelo(t)'
        PROVE  t # p /\ EnVuelo(t) /\ lleva'[t] = lleva[t] /\ lleva[t] # <<p, h>>
    BY <1>1, <1>3, <1>9, <2>3 DEF Elige, EnTierra
  <2>4. ASSUME NEW t \in Hebras, EnVuelo(t)' PROVE estado'[lleva'[t]] = "READY"
    BY <1>1, <1>4, <2>1, <2>3, <2>4 DEF Cambia
  <2>5. QED
    BY <1>1, <2>2, <2>3, <2>4
<1>10. CASE Quieto(p)
  BY <1>1, <1>3, <1>10 DEF Quieto
<1>11. CASE Encola(p) \/ Entra(p)
  BY <1>1, <1>3, <1>11 DEF Encola, Entra, EnTierra
<1>12. QED
  BY <1>6, <1>7, <1>8, <1>9, <1>10, <1>11, Mudanzas

\* What one program has in its hands is not what another one moves.
LEMMA EnManoAjeno ==
  ASSUME ColasInv, NEW p \in Programas, Atiende(p), NEW q \in Programas, q # p
  PROVE  EnManoEn(q)'
<1>1. /\ donde'[q] = donde[q] /\ lleva'[q] = lleva[q] /\ hilo_exec'[q] = hilo_exec[q]
  BY Otros, Hechos DEF ColasInv
<1>2. /\ estado \in [Pares -> Estados] /\ sem_blocked \in Seq(Pares) /\ EnManoEn(q)
      /\ ColaJusta(tabla_new, "NEW") /\ ColaJusta(sem_blocked, "BLOCKED")
      /\ tabla_new \in Seq(Pares)
  BY DEF ColasInv, CerrojosInv, TipoOK, TipoHilos, ColasJustas, EnMano
<1>3. donde[q] \in {"agrega_hijo", "create_hilo"} => lleva[q] \in Pares /\ lleva[q][1] = q
  BY Hechos DEF ColasInv, CerrojosInv, Lleva
<1>4. hilo_exec[q] # Nadie => <<q, hilo_exec[q]>> \in Pares
  BY ParDe DEF ColasInv, CerrojosInv, TipoOK, TipoHilos
<1>5. donde[q] \in {"tabla_lock", "bloquearEnSemaforo"} => hilo_exec[q] # Nadie
  BY DEF ColasInv, CerrojosInv, DeAcuerdo, DeAcuerdoEn, ConWt, PorEncolar
<1>6. ASSUME UNCHANGED <<estado, sem_blocked>>, \A y \in EnCola(tabla_new') : y \in EnCola(tabla_new) \/ y[1] = p
      PROVE  EnManoEn(q)'
  BY <1>1, <1>2, <1>3, <1>6 DEF EnManoEn
<1>7. ASSUME NEW x \in Pares, NEW e, estado' = [estado EXCEPT ![x] = e], UNCHANGED sem_blocked,
             x[1] = p \/ (estado[x] = "NEW" /\ x \in EnCola(tabla_new)),
             \A y \in EnCola(tabla_new') : y \in EnCola(tabla_new)
      PROVE  EnManoEn(q)'
  <2>1. donde[q] \in {"agrega_hijo", "create_hilo"} => lleva[q] # x
    BY <1>2, <1>3, <1>7 DEF EnManoEn
  <2>2. hilo_exec[q] # Nadie => <<q, hilo_exec[q]>> # x
    BY SMTT(30), <1>2, <1>7 DEF EnManoEn
  <2>3. \A y \in Pares : y # x => estado'[y] = estado[y]
    BY <1>2, <1>7
  <2>4. QED
    BY <1>1, <1>2, <1>3, <1>4, <1>7, <2>1, <2>2, <2>3 DEF EnManoEn
<1>8. CASE Nace(p)
  BY <1>7, <1>8 DEF Nace, Cambia
<1>15. CASE Entra(p)
  <2>1. EnCola(tabla_new') = EnCola(tabla_new) \cup {lleva[p]}
    BY <1>2, <1>15, ColaAgrega DEF Entra, ColaJusta
  <2>2. QED
    BY <1>6, <1>15, <2>1 DEF Entra
<1>9. CASE SaleNuevo(p)
  <2>1. EnCola(tabla_new') = EnCola(tabla_new) \ {Head(tabla_new)} /\ Head(tabla_new) \in EnCola(tabla_new)
    BY <1>2, <1>9, ColaSaca DEF SaleNuevo, ColaJusta
  <2>2. QED
    BY <1>7, <1>9, <2>1 DEF SaleNuevo, Sale, Cambia
<1>16. CASE SaleCorriendo(p)
  BY <1>7, <1>16 DEF SaleCorriendo, Sale, Cambia
<1>10. CASE Elige(p) \/ Para(p)
  BY <1>7, <1>10 DEF Elige, Para, Cambia
<1>11. CASE Quieto(p) \/ Llega(p)
  BY <1>6, <1>11 DEF Quieto, Llega
<1>12. CASE SaleBloqueado(p)
  <2>1. /\ EnCola(sem_blocked') = EnCola(sem_blocked) \ {Head(sem_blocked)}
        /\ Head(sem_blocked) \in EnCola(sem_blocked)
    BY <1>2, <1>12, ColaSaca DEF SaleBloqueado, ColaJusta
  <2>2. estado[Head(sem_blocked)] = "BLOCKED"
    BY <1>12 DEF SaleBloqueado, Sale, Cambia
  <2>3. donde[q] \in {"agrega_hijo", "create_hilo"} => lleva[q] # Head(sem_blocked)
    BY <1>2, <2>2 DEF EnManoEn
  <2>4. hilo_exec[q] # Nadie => <<q, hilo_exec[q]>> # Head(sem_blocked)
    BY <1>2, <2>1, <2>2 DEF EnManoEn
  <2>5. UNCHANGED tabla_new /\ \A y \in Pares : y # Head(sem_blocked) => estado'[y] = estado[y]
    BY <1>2, <1>12 DEF SaleBloqueado, Sale, Cambia
  <2>6. QED
    BY <1>1, <1>2, <1>3, <1>4, <2>1, <2>3, <2>4, <2>5 DEF EnManoEn
<1>13. CASE Encola(p)
  <2>1. EnCola(sem_blocked') = EnCola(sem_blocked) \cup {<<p, hilo_exec[p]>>}
    <3> DEFINE x == <<p, hilo_exec[p]>>
    <3>1. x \in Pares /\ x \notin EnCola(sem_blocked) /\ sem_blocked' = Append(sem_blocked, x)
      BY <1>13 DEF Encola
    <3> HIDE DEF x
    <3>2. EnCola(Append(sem_blocked, x)) = EnCola(sem_blocked) \cup {x}
      BY <1>2, <3>1, ColaAgrega DEF ColaJusta
    <3>3. QED
      BY <3>1, <3>2 DEF x
  <2>2. <<q, hilo_exec[q]>> # <<p, hilo_exec[p]>>
    OBVIOUS
  <2>3. UNCHANGED <<estado, tabla_new>>
    BY <1>13 DEF Encola
  <2>4. QED
    BY <1>1, <1>2, <2>1, <2>2, <2>3 DEF EnManoEn
<1>14. QED
  BY <1>8, <1>9, <1>10, <1>11, <1>12, <1>13, <1>15, <1>16, Mudanzas

\* What a program has in its hands, after its own steps.
LEMMA EnManoMio ==
  ASSUME ColasInv, NEW p \in Programas, Atiende(p)
  PROVE  EnManoEn(p)'
<1>1. /\ donde \in [Hebras -> Lugares \cup {"usleep"}] /\ p \in Hebras
      /\ lleva \in [Hebras -> Pares \cup {Nadie}]
      /\ hilo_exec \in [Programas -> Tids \cup {Nadie}] /\ estado \in [Pares -> Estados]
      /\ sem_blocked \in Seq(Pares)
  BY Hechos DEF ColasInv, CerrojosInv, TipoOK, TipoHebras, TipoHilos
<1>2. EnManoEn(p) /\ (hilo_exec[p] # Nadie => <<p, hilo_exec[p]>> \in Pares)
  BY ParDe DEF ColasInv, CerrojosInv, TipoOK, TipoHilos, EnMano
<1>3. /\ \A x \in EnCola(tabla_new) : estado[x] = "NEW"
      /\ \A x \in EnCola(sem_blocked) : estado[x] = "BLOCKED"
      /\ tabla_new \in Seq(Pares) /\ SinRepetir(tabla_new) /\ SinRepetir(sem_blocked)
  BY DEF ColasInv, CerrojosInv, TipoOK, TipoHilos, ColasJustas, ColaJusta
<1> USE DEF EnManoEn, En, Ir
<1>4. ASSUME NEW h \in Hilos[p], PedirCrear(p, h) PROVE EnManoEn(p)'
  BY <1>1, <1>2, <1>4 DEF PedirCrear, Corre, clientes, semaforo
<1>5. CASE AgregarHijo(p)
  <2>1. lleva[p] \in Pares /\ estado[lleva[p]] = "NADA"
    BY <1>1, <1>2, <1>5 DEF AgregarHijo, ColasInv, CerrojosInv, Lleva
  <2>2. estado'[lleva[p]] = "NEW" /\ \A y \in Pares : y # lleva[p] => estado'[y] = estado[y]
    BY <1>1, <1>5, <2>1 DEF AgregarHijo
  <2>3. donde'[p] = "create_hilo" /\ donde[p] = "agrega_hijo" /\ UNCHANGED <<hilo_exec, lleva, tabla_new>>
    BY <1>1, <1>5 DEF AgregarHijo, clientes, cupos
  <2>5. lleva[p] \notin EnCola(tabla_new)
    BY <1>3, <2>1
  <2>4. QED
    BY <1>2, <2>1, <2>2, <2>3, <2>5
<1>7. CASE create_hilo(p)
  BY <1>1, <1>2, <1>7 DEF create_hilo, clientes, semaforo
<1>8. CASE Conectar(p) \/ Conectado(p) \/ Responder(p) \/ RecibirNombre(p) \/ PedirClose(p)
  BY <1>1, <1>2, <1>8 DEF Conectar, Conectado, Responder, RecibirNombre, PedirClose, Corre, clientes, semaforo
<1>6. CASE Planificar(p) \/ PostNew(p)
  BY <1>1, <1>2, <1>6 DEF Planificar, PostNew, clientes, semaforo
<1>9. CASE planificadorLargo(p)
  <2>1. PICK l \in {"pasa_new", "recv"} : Ir(p, l)
    BY <1>9 DEF planificadorLargo
  <2>2. donde'[p] = l /\ l \in Lugares /\ donde[p] = "planificadorLargo" /\ UNCHANGED <<hilo_exec, sem_blocked>>
    BY <1>1, <1>9, <2>1 DEF planificadorLargo, clientes, semaforo, Lugares, Pasan
  <2>3. CASE UNCHANGED estado
    BY <1>1, <1>2, <2>2, <2>3
  <2>4. CASE /\ tabla_new # <<>> /\ estado' = [estado EXCEPT ![Head(tabla_new)] = "READY"]
    <3>1. Head(tabla_new) \in Pares /\ estado[Head(tabla_new)] = "NEW"
      BY <1>3, <2>4, ColaTipo, ColaSaca
    <3>2. QED
      BY <1>1, <1>2, <2>2, <2>4, <3>1
  <2>5. QED
    BY <1>9, <2>3, <2>4 DEF planificadorLargo
<1>10. CASE Agrega(p)
  BY <1>1, <1>2, <1>10 DEF Agrega, Paso, clientes, semaforo
<1>11. CASE Agregado(p)
  BY <1>1, <1>2, <1>11 DEF Agregado, Paso, clientes, semaforo
<1>12. CASE PedirSiguiente(p)
  <2>1. CASE hilo_exec[p] # Nadie
    BY <1>1, <1>2, <1>12, <2>1 DEF PedirSiguiente
  <2>2. CASE hilo_exec[p] = Nadie
    BY <1>1, <1>2, <1>12, <2>2 DEF PedirSiguiente, Sigue
  <2>3. QED
    BY <2>1, <2>2
<1>13. CASE PostExec(p) \/ SemWait(p)
  BY <1>1, <1>2, <1>13 DEF PostExec, SemWait, clientes, semaforo
<1>14. CASE next_hilo(p)
  <2>1. CASE tablaReady[p] = {}
    BY <1>1, <1>2, <1>14, <2>1 DEF next_hilo, semaforo
  <2>2. CASE tablaReady[p] # {}
    <3>1. PICK h \in tablaReady[p] :
            /\ estado' = [estado EXCEPT ![<<p, h>>] = "EXEC"]
            /\ hilo_exec' = [hilo_exec EXCEPT ![p] = h]
            /\ Ir(p, "recv")
      BY <1>14, <2>2 DEF next_hilo
    <3>2. <<p, h>> \in Pares
      BY ParDe DEF ColasInv, CerrojosInv, TipoOK, TipoHilos
    <3>3. QED
      BY <1>1, <3>1, <3>2
  <2>3. QED
    BY <2>1, <2>2
<1>15. CASE PedirWait(p) \/ AgregarLock(p)
  BY <1>1, <1>2, <1>15 DEF PedirWait, Corre, AgregarLock, clientes, semaforo
<1>16. CASE wait_hilo(p)
  <2>1. PICK l \in {"BLOCKED", "responde"} : Ir(p, l)
    BY <1>16 DEF wait_hilo
  <2>2. donde'[p] = l /\ UNCHANGED <<hilo_exec, estado, lleva, sem_blocked>> /\ donde[p] = "wait_hilo"
    BY <1>1, <1>16, <2>1 DEF wait_hilo, clientes
  <2>3. QED
    BY <1>2, <2>2
<1>17. CASE Bloquear(p)
  <2>1. hilo_exec[p] # Nadie
    BY <1>17 DEF Bloquear, ColasInv, CerrojosInv, DeAcuerdo, DeAcuerdoEn, ConWt, PorEncolar
  <2>2. <<p, hilo_exec[p]>> \notin EnCola(sem_blocked)
    BY <1>2, <1>3, <1>17, <2>1 DEF Bloquear
  <2>3. QED
    BY <1>1, <1>2, <1>17, <2>1, <2>2 DEF Bloquear, clientes, semaforo
<1>18. CASE bloquearEnSemaforo(p)
  BY <1>1, <1>2, <1>18 DEF bloquearEnSemaforo
<1>19. CASE PedirSignal(p) \/ TomarLock(p)
  BY <1>1, <1>2, <1>19 DEF PedirSignal, Corre, TomarLock, clientes, semaforo
<1>20. ASSUME NEW a, NEW b, Devolver(p, a, b), UNCHANGED hilo_exec,
              donde[p] \in {"signal_hilo", "libera"}, a \in {"pasa_block", "pasa_fin"}, b \in {"suelta", "exit"}
       PROVE  EnManoEn(p)'
  <2>1. PICK l \in {donde[p], a, b} : Ir(p, l)
    BY <1>1, <1>20, DevolverVa
  <2>2. donde'[p] = l
    BY <1>1, <2>1
  <2>3. CASE UNCHANGED estado
    BY <1>1, <1>2, <1>20, <2>2, <2>3
  <2>4. CASE /\ sem_blocked # <<>> /\ estado' = [estado EXCEPT ![Head(sem_blocked)] = "READY"]
    <3>1. Head(sem_blocked) \in Pares /\ estado[Head(sem_blocked)] = "BLOCKED"
      BY <1>1, <1>3, <2>4, ColaTipo, ColaSaca
    <3>2. QED
      BY <1>1, <1>2, <1>20, <2>2, <2>4, <3>1
  <2>5. QED
    BY <1>20, <2>3, <2>4 DEF Devolver
<1>26. CASE signal_hilo(p) \/ Liberar(p)
  BY <1>20, <1>26 DEF signal_hilo, Liberar, clientes
<1>21. CASE PostBlock(p) \/ FinSignal(p)
  BY <1>1, <1>2, <1>21 DEF PostBlock, FinSignal, clientes, semaforo
<1>22. CASE close_hilo(p)
  BY <1>1, <1>2, <1>22 DEF close_hilo
<1>23. CASE CerrarMain(p) \/ PostFin(p)
  BY <1>1, <1>2, <1>23 DEF CerrarMain, Corre, PostFin, clientes, semaforo
<1>24. CASE Finalizar(p)
  <2>1. PICK l \in {"libera", "exit"} : Ir(p, l)
    BY <1>24 DEF Finalizar
  <2>2. QED
    BY <1>1, <1>2, <1>24, <2>1 DEF Finalizar, clientes, semaforo
<1>25. QED
  BY <1>4, <1>5, <1>6, <1>7, <1>8, <1>9, <1>10, <1>11, <1>12, <1>13, <1>14, <1>15, <1>16, <1>17, <1>18, <1>19,
     <1>21, <1>22, <1>23, <1>24, <1>26 DEF Atiende

\* The metrics leave the queues alone.
LEMMA ColasMetricas ==
  ASSUME ColasInv, NEW t \in Hebras, Despertar \/ printefearMetricas(t)
  PROVE  ColasJustas' /\ EnMano'
<1>1. /\ UNCHANGED <<lleva, cupos, semaforo, listos, clientes, estado>>
      /\ \E l \in Mide \cup {"usleep", "fin", "planifica"} : \E u \in Hebras : Ir(u, l) /\ donde[u] \in Mide \cup {"usleep"}
  BY Hechos DEF Despertar, printefearMetricas, Mide, En
<1>2. PICK u \in Hebras : \E l \in Mide \cup {"usleep", "fin", "planifica"} :
        Ir(u, l) /\ donde[u] \in Mide \cup {"usleep"}
  BY <1>1
<1>3. PICK l \in Mide \cup {"usleep", "fin", "planifica"} : Ir(u, l) /\ donde[u] \in Mide \cup {"usleep"}
  BY <1>2
<1>4. /\ donde \in [Hebras -> Lugares \cup {"usleep"}] /\ ColasJustas /\ EnMano
  BY DEF ColasInv, CerrojosInv, TipoOK, TipoHebras
<1>5. \A v \in Hebras : EnVuelo(v)' <=> EnVuelo(v)
  BY <1>3, <1>4 DEF Ir, EnVuelo, Pasan, Agregan, Mide
<1>6. ColasJustas'
  BY <1>1, <1>4, <1>5 DEF ColasJustas, ColaJusta, ListasJustas, VuelosJustos, cupos, semaforo, listos
<1>7. ASSUME NEW p \in Programas PROVE EnManoEn(p)'
  <2>1. UNCHANGED <<tabla_new, hilo_exec, estado, lleva, sem_blocked>>
    BY <1>1 DEF clientes, semaforo, cupos
  <2>2. CASE p = u
    <3>1. donde'[p] = l /\ donde[p] \in Mide \cup {"usleep"}
      BY <1>3, <1>4, <2>2 DEF Ir
    <3>2. QED
      BY <1>4, <2>1, <3>1 DEF EnMano, EnManoEn, Mide
  <2>3. CASE p # u
    <3>1. donde'[p] = donde[p]
      BY <1>3, <1>4, <2>3, Hechos DEF Ir
    <3>2. QED
      BY <1>4, <2>1, <3>1 DEF EnMano, EnManoEn
  <2>4. QED
    BY <2>2, <2>3
<1>8. QED
  BY <1>6, <1>7 DEF EnMano

\* The initial states.
LEMMA ColasInicial == Init => ColasInv
<1> SUFFICES ASSUME Init PROVE ColasInv
  OBVIOUS
<1>1. ColaJusta(tabla_new, "NEW") /\ ColaJusta(sem_blocked, "BLOCKED")
  BY DEF Init, ColaJusta, EnCola, SinRepetir
<1>2. ListasJustas
  BY DEF Init, ListasJustas
<1>3. VuelosJustos
  BY DEF Init, VuelosJustos, EnVuelo, Pasan, Agregan
<1>4. EnMano
  BY Hechos DEF Init, EnMano, EnManoEn
<1>5. QED
  BY <1>1, <1>2, <1>3, <1>4, CerrojosInicial DEF ColasInv, ColasJustas

\* Every step.
LEMMA ColasSigue == ColasInv /\ [Next]_vars => ColasInv'
<1> SUFFICES ASSUME ColasInv, [Next]_vars PROVE ColasJustas' /\ EnMano'
  BY CerrojosSigue DEF ColasInv
<1>1. ASSUME NEW p \in Programas, Atiende(p) PROVE ColasJustas' /\ EnMano'
  <2>1. ColasJustas'
    BY <1>1, NuevosPaso, BloqueadosPaso, ListasPaso, VuelosPaso DEF ColasJustas
  <2>2. EnMano'
    BY <1>1, EnManoAjeno, EnManoMio DEF EnMano
  <2>3. QED
    BY <2>1, <2>2
<1>2. ASSUME NEW t \in Hebras, Despertar \/ printefearMetricas(t) PROVE ColasJustas' /\ EnMano'
  BY <1>2, ColasMetricas
<1>3. CASE UNCHANGED vars
  BY <1>3 DEF vars, ColasInv, ColasJustas, ColaJusta, ListasJustas, VuelosJustos, EnVuelo, EnMano, EnManoEn
<1>4. QED
  BY <1>1, <1>2, <1>3, Hechos DEF Next

(***************************************************************************)
(* Counters.                                                                *)
(***************************************************************************)

Uno(b) == IF b THEN 1 ELSE 0

\* The threads that have added a ULT to the list of p and not counted it yet.
Faltan(p) == {t \in Hebras : donde[t] \in Avisan /\ lleva[t][1] = p}
ListosEn(p) ==
  Cardinality(tablaReady[p]) = cont[p] + Cardinality(Faltan(p)) + Uno(donde[p] = "next_hilo")
ListosJustos == \A p \in Programas : ListosEn(p)

\* Threads and ULTs are finitely many.
LEMMA Finitos ==
  /\ IsFiniteSet(Hebras)
  /\ \A p \in Programas : IsFiniteSet(Hilos[p])
<1>1. IsFiniteSet(Programas) /\ \A p \in Programas : IsFiniteSet(Hilos[p])
  BY ConstantesCerrojos DEF ConstantesCerrojos
<1>2. IsFiniteSet(Hebras)
  BY <1>1, FS_AddElement DEF Hebras
<1>3. QED
  BY <1>1, <1>2

\* So are the threads that owe a sem_post.
LEMMA FaltanFinito ==
  ASSUME NEW p
  PROVE  /\ IsFiniteSet(Faltan(p)) /\ Cardinality(Faltan(p)) \in Nat
         /\ IsFiniteSet(Faltan(p)') /\ Cardinality(Faltan(p)') \in Nat
<1>1. Faltan(p) \in SUBSET Hebras /\ Faltan(p)' \in SUBSET Hebras
  BY DEF Faltan
<1>2. QED
  BY <1>1, Finitos, FS_Subset, FS_CardinalityType

\* And the ULTs of a ready list.
LEMMA ListosFinitos ==
  ASSUME CerrojosInv, NEW p \in Programas
  PROVE  IsFiniteSet(tablaReady[p]) /\ Cardinality(tablaReady[p]) \in Nat
<1>1. tablaReady[p] \in SUBSET Hilos[p]
  BY DEF CerrojosInv, TipoOK, TipoHilos
<1>2. QED
  BY <1>1, Finitos, FS_Subset, FS_CardinalityType

\* What a step does to the list of a program and to its counter.
Callado(p) ==
  /\ UNCHANGED <<tablaReady, cont>>
  /\ donde'[p] \in Avisan <=> donde[p] \in Avisan
  /\ donde[p] \in Avisan => lleva'[p] = lleva[p]
  /\ donde'[p] = "next_hilo" <=> donde[p] = "next_hilo"

Avisa(p) ==
  /\ donde[p] \in Avisan /\ lleva[p] \in Pares /\ donde'[p] \notin Avisan \cup {"next_hilo"}
  /\ Post(lleva[p]) /\ UNCHANGED tablaReady

\* Every step of a program does one of those to the list and the counter.
LEMMA Avisos ==
  ASSUME ColasInv, NEW p \in Programas, Atiende(p)
  PROVE  Callado(p) \/ Agregado(p) \/ Avisa(p) \/ SemWait(p) \/ next_hilo(p)
<1>1. donde \in [Hebras -> Lugares \cup {"usleep"}] /\ p \in Hebras /\ lleva \in [Hebras -> Pares \cup {Nadie}]
  BY Hechos DEF ColasInv, CerrojosInv, TipoOK, TipoHebras
<1> USE DEF En, Ir, Avisan, listos
<1>2. ASSUME NEW h \in Hilos[p], PedirCrear(p, h) PROVE Callado(p)
  BY <1>1, <1>2 DEF PedirCrear, Corre, Callado
<1>3. CASE create_hilo(p) \/ Planificar(p)
  BY <1>1, <1>3 DEF create_hilo, Planificar, Callado
<1>15. CASE Conectar(p) \/ Conectado(p) \/ AgregarHijo(p) \/ Responder(p) \/ RecibirNombre(p) \/ PedirClose(p)
  BY <1>1, <1>15 DEF Conectar, Conectado, AgregarHijo, Responder, RecibirNombre, PedirClose, Corre, Callado
<1>4. CASE planificadorLargo(p)
  <2>1. PICK l \in {"pasa_new", "recv"} : Ir(p, l)
    BY <1>4 DEF planificadorLargo
  <2>2. QED
    BY <1>1, <1>4, <2>1 DEF planificadorLargo, Callado
<1>5. CASE PostNew(p) \/ PostExec(p) \/ PostBlock(p) \/ PostFin(p)
  <2>1. lleva[p] \in Pares
    BY <1>1, <1>5 DEF PostNew, PostExec, PostBlock, PostFin, ColasInv, CerrojosInv, Lleva
  <2>2. QED
    BY <1>1, <1>5, <2>1 DEF PostNew, PostExec, PostBlock, PostFin, Avisa
<1>6. CASE Agrega(p)
  BY <1>1, <1>6 DEF Agrega, Paso, Callado
<1>7. CASE PedirSiguiente(p)
  <2>1. CASE hilo_exec[p] # Nadie
    BY <1>1, <1>7, <2>1 DEF PedirSiguiente, Callado
  <2>2. CASE hilo_exec[p] = Nadie
    BY <1>1, <1>7, <2>2 DEF PedirSiguiente, Sigue, Callado
  <2>3. QED
    BY <2>1, <2>2
<1>8. CASE PedirWait(p) \/ AgregarLock(p) \/ Bloquear(p) \/ bloquearEnSemaforo(p)
  BY <1>1, <1>8 DEF PedirWait, Corre, AgregarLock, Bloquear, bloquearEnSemaforo, Callado
<1>9. CASE wait_hilo(p)
  <2>1. PICK l \in {"BLOCKED", "responde"} : Ir(p, l)
    BY <1>9 DEF wait_hilo
  <2>2. QED
    BY <1>1, <1>9, <2>1 DEF wait_hilo, Callado
<1>10. CASE PedirSignal(p) \/ TomarLock(p) \/ FinSignal(p)
  BY <1>1, <1>10 DEF PedirSignal, Corre, TomarLock, FinSignal, Callado
<1>11. CASE signal_hilo(p) \/ Liberar(p)
  <2>1. PICK l \in {"signal_hilo", "libera", "pasa_block", "suelta", "pasa_fin", "exit"} : Ir(p, l)
    BY <1>1, <1>11, DevolverVa DEF signal_hilo, Liberar
  <2>2. donde[p] \in {"signal_hilo", "libera"} /\ UNCHANGED listos
    BY <1>11 DEF signal_hilo, Liberar
  <2>3. QED
    BY <1>1, <2>1, <2>2 DEF Callado
<1>12. CASE close_hilo(p) \/ CerrarMain(p)
  BY <1>1, <1>12 DEF close_hilo, CerrarMain, Corre, Callado
<1>13. CASE Finalizar(p)
  <2>1. PICK l \in {"libera", "exit"} : Ir(p, l)
    BY <1>13 DEF Finalizar
  <2>2. QED
    BY <1>1, <1>13, <2>1 DEF Finalizar, Callado
<1>14. QED
  BY <1>2, <1>3, <1>4, <1>5, <1>6, <1>7, <1>8, <1>9, <1>10, <1>11, <1>12, <1>13, <1>15 DEF Atiende

\* The counter of each ready list.
LEMMA ListosPaso ==
  ASSUME ColasInv, ListosJustos, NEW p \in Programas, Atiende(p), NEW q \in Programas
  PROVE  ListosEn(q)'
<1>1. /\ donde \in [Hebras -> Lugares \cup {"usleep"}] /\ p \in Hebras /\ q \in Hebras
      /\ lleva \in [Hebras -> Pares \cup {Nadie}]
      /\ tablaReady \in [Programas -> SUBSET Tids] /\ cont \in [Programas -> Nat]
  BY Hechos DEF ColasInv, CerrojosInv, TipoOK, TipoHebras, TipoHilos, TipoCuentas
<1>2. \A t \in Hebras : t # p => donde'[t] = donde[t] /\ lleva'[t] = lleva[t]
  BY Otros DEF ColasInv
<1>3. /\ ListosEn(q)
      /\ IsFiniteSet(tablaReady[q]) /\ Cardinality(tablaReady[q]) \in Nat
      /\ IsFiniteSet(Faltan(q)) /\ Cardinality(Faltan(q)) \in Nat
  BY FaltanFinito, ListosFinitos DEF ListosJustos, ColasInv
<1>4. CASE Callado(p)
  <2>1. Faltan(q)' = Faltan(q)
    BY <1>1, <1>2, <1>4 DEF Callado, Faltan
  <2>2. donde'[q] = "next_hilo" <=> donde[q] = "next_hilo"
    BY <1>1, <1>2, <1>4 DEF Callado
  <2>3. QED
    BY <1>3, <1>4, <2>1, <2>2 DEF Callado, ListosEn, Uno
<1>5. CASE Agregado(p)
  <2>1. donde[p] \in Agregan /\ donde'[p] \in Avisan /\ EnVuelo(p) /\ UNCHANGED <<lleva, cont>>
    BY <1>1, <1>5 DEF Agregado, Paso, En, Ir, Agregan, Avisan, EnVuelo
  <2>2. lleva[p] \in Pares /\ lleva[p][1] \in Programas /\ lleva[p] = <<lleva[p][1], lleva[p][2]>>
    BY <2>1, <1>1, ParTipo DEF ColasInv, CerrojosInv, Lleva
  <2>3. tablaReady' = [tablaReady EXCEPT ![lleva[p][1]] = @ \cup {lleva[p][2]}]
    BY <1>5 DEF Agregado
  <2>4. donde[p] \notin Avisan /\ donde[p] # "next_hilo" /\ donde'[p] # "next_hilo"
    BY <2>1 DEF Agregan, Avisan
  <2>5. donde'[q] = "next_hilo" <=> donde[q] = "next_hilo"
    BY <1>1, <1>2, <2>4
  <2>6. CASE lleva[p][1] = q
    <3>1. lleva[p][2] \notin tablaReady[q]
      BY <1>1, <2>1, <2>2, <2>6 DEF ColasInv, ColasJustas, VuelosJustos
    <3>2. tablaReady'[q] = tablaReady[q] \cup {lleva[p][2]}
      BY <1>1, <2>3, <2>6
    <3>3. Cardinality(tablaReady'[q]) = Cardinality(tablaReady[q]) + 1
      BY <1>3, <3>1, <3>2, FS_AddElement
    <3>4. Faltan(q)' = Faltan(q) \cup {p} /\ p \notin Faltan(q)
      BY <1>1, <1>2, <2>1, <2>4, <2>6 DEF Faltan
    <3>5. Cardinality(Faltan(q)') = Cardinality(Faltan(q)) + 1
      BY <1>3, <3>4, FS_AddElement
    <3>6. QED
      BY <1>1, <1>3, <2>1, <2>5, <3>3, <3>5 DEF ListosEn, Uno
  <2>7. CASE lleva[p][1] # q
    <3>1. tablaReady'[q] = tablaReady[q]
      BY <1>1, <2>2, <2>3, <2>7
    <3>2. Faltan(q)' = Faltan(q)
      BY <1>1, <1>2, <2>1, <2>4, <2>7 DEF Faltan
    <3>3. QED
      BY <1>3, <2>1, <2>5, <3>1, <3>2 DEF ListosEn, Uno
  <2>8. QED
    BY <2>6, <2>7
<1>6. CASE Avisa(p)
  <2>1. /\ donde[p] \in Avisan /\ donde'[p] \notin Avisan \cup {"next_hilo"} /\ donde[p] # "next_hilo"
        /\ lleva[p][1] \in Programas /\ cont' = [cont EXCEPT ![lleva[p][1]] = @ + 1] /\ UNCHANGED tablaReady
    BY <1>6, ParTipo DEF Avisa, Post, Avisan
  <2>2. donde'[q] = "next_hilo" <=> donde[q] = "next_hilo"
    BY <1>1, <1>2, <2>1
  <2>3. CASE lleva[p][1] = q
    <3>1. cont'[q] = cont[q] + 1
      BY <1>1, <2>1, <2>3
    <3>2. Faltan(q)' = Faltan(q) \ {p} /\ p \in Faltan(q)
      BY <1>1, <1>2, <2>1, <2>3 DEF Faltan
    <3>3. Cardinality(Faltan(q)') = Cardinality(Faltan(q)) - 1
      BY ZenonT(40), <1>3, <3>2, FS_RemoveElement
    <3>4. QED
      BY <1>1, <1>3, <2>1, <2>2, <3>1, <3>3 DEF ListosEn, Uno
  <2>4. CASE lleva[p][1] # q
    <3>1. cont'[q] = cont[q]
      BY <1>1, <2>1, <2>4
    <3>2. Faltan(q)' = Faltan(q)
      BY <1>1, <1>2, <2>1, <2>4 DEF Faltan
    <3>3. QED
      BY <1>3, <2>1, <2>2, <3>1, <3>2 DEF ListosEn, Uno
  <2>5. QED
    BY <2>3, <2>4
<1>7. CASE SemWait(p)
  <2>1. /\ donde[p] = "sem_wait" /\ donde'[p] = "next_hilo" /\ cont' = [cont EXCEPT ![p] = @ - 1]
        /\ UNCHANGED tablaReady
    BY <1>1, <1>7 DEF SemWait, En, Ir
  <2>2. Faltan(q)' = Faltan(q)
    BY <1>1, <1>2, <2>1 DEF Faltan, Avisan
  <2>3. CASE q = p
    BY <1>1, <1>3, <2>1, <2>2, <2>3 DEF ListosEn, Uno
  <2>4. CASE q # p
    BY <1>1, <1>2, <1>3, <2>1, <2>2, <2>4 DEF ListosEn, Uno
  <2>5. QED
    BY <2>3, <2>4
<1>8. CASE next_hilo(p)
  <2>1. CASE tablaReady[p] = {}
    <3>1. UNCHANGED <<donde, lleva, tablaReady, cont>>
      BY <1>8, <2>1 DEF next_hilo
    <3>2. QED
      BY <1>3, <3>1 DEF ListosEn, Faltan
  <2>2. CASE tablaReady[p] # {}
    <3>1. PICK h \in tablaReady[p] : tablaReady' = [tablaReady EXCEPT ![p] = @ \ {h}] /\ Ir(p, "recv")
      BY <1>8, <2>2 DEF next_hilo
    <3>2. donde[p] = "next_hilo" /\ UNCHANGED <<lleva, cont>> /\ donde'[p] = "recv"
      BY <1>1, <1>8, <3>1 DEF next_hilo, En, Ir
    <3>3. Faltan(q)' = Faltan(q)
      BY <1>1, <1>2, <3>2 DEF Faltan, Avisan
    <3>4. CASE q = p
      <4>1. Cardinality(tablaReady'[q]) = Cardinality(tablaReady[q]) - 1
        BY <1>1, <1>3, <3>1, <3>4, FS_RemoveElement
      <4>2. QED
        BY <1>1, <1>3, <3>2, <3>3, <3>4, <4>1 DEF ListosEn, Uno
    <3>5. CASE q # p
      <4>1. tablaReady'[q] = tablaReady[q] /\ donde'[q] = donde[q]
        BY <1>1, <1>2, <3>1, <3>5
      <4>2. QED
        BY <1>3, <3>2, <3>3, <4>1 DEF ListosEn
    <3>6. QED
      BY <3>4, <3>5
  <2>3. QED
    BY <2>1, <2>2
<1>9. QED
  BY <1>4, <1>5, <1>6, <1>7, <1>8, Avisos

\* The ULT of a WAIT that has lowered the value and is not queued yet.
Debe == Uno(duenio["wt"] # Nadie /\ donde[duenio["wt"]] \in PorEncolar)
ValorJusto ==
  ~perdido => Len(sem_blocked) + Debe = IF sem_value < 0 THEN -sem_value ELSE 0

\* The ULT that the planner has taken and not counted yet.
Admite == Uno(duenio["multi"] # Nadie /\ donde[duenio["multi"]] \notin {"planificadorLargo", "metricas_hijos"})
Admitidos == {x \in Pares : estado[x] \notin {"NADA", "NEW", "EXIT"}}
CuposJustos ==
  /\ cant_programas + Admite = Cardinality(Admitidos)
  /\ cant_programas + Admite <= Multiprog

ContadoresInv == ColasInv /\ ListosJustos /\ ValorJusto /\ CuposJustos /\ CaeSoloSiLibera

\* Somebody owes a ULT to the queue of the semaphore, or nobody does.
LEMMA DebeCasos ==
  ASSUME CerrojosInv
  PROVE  /\ (\E t \in Hebras : donde[t] \in PorEncolar) => Debe = 1
         /\ (\A t \in Hebras : donde[t] \notin PorEncolar) => Debe = 0
         /\ \A t \in Hebras : donde[t] \in ConWt \ PorEncolar => Debe = 0
         /\ Libre("wt") => Debe = 0
         /\ Debe \in {0, 1}
<1>1. duenio["wt"] \in Hebras \cup {Nadie} /\ Nadie \notin Hebras
  BY Hechos DEF CerrojosInv, TipoOK, TipoHebras, Cerrojos
<1>2. \A t \in Hebras : duenio["wt"] = t <=> donde[t] \in ConWt
  BY DEF CerrojosInv, Duenios
<1>3. \A l \in PorEncolar : l \in ConWt
  BY DEF ConWt
<1>4. QED
  BY <1>1, <1>2, <1>3 DEF Debe, Uno, Libre

\* The same of the next state.
LEMMA DebeCasosPrima ==
  ASSUME CerrojosInv'
  PROVE  /\ (\E t \in Hebras : donde'[t] \in PorEncolar) => Debe' = 1
         /\ (\A t \in Hebras : donde'[t] \notin PorEncolar) => Debe' = 0
         /\ \A t \in Hebras : donde'[t] \in ConWt \ PorEncolar => Debe' = 0
         /\ Debe' \in {0, 1}
<1>1. duenio'["wt"] \in Hebras \cup {Nadie} /\ Nadie \notin Hebras
  BY Hechos DEF CerrojosInv, TipoOK, TipoHebras, Cerrojos
<1>2. \A t \in Hebras : duenio'["wt"] = t <=> donde'[t] \in ConWt
  BY DEF CerrojosInv, Duenios
<1>3. \A l \in PorEncolar : l \in ConWt
  BY DEF ConWt
<1>4. QED
  BY <1>1, <1>2, <1>3 DEF Debe, Uno

\* What a unit given back does to value and queue, when they were right.
LEMMA AnteDevolver ==
  ASSUME ColasInv, ValorJusto, ~perdido, NEW t \in Hebras, NEW a, NEW b, t \in Programas, Devolver(t, a, b)
  PROVE  \/ /\ sem_value < 0 /\ sem_blocked # <<>> /\ UNCHANGED perdido
            /\ sem_value' = sem_value + 1 /\ Len(sem_blocked') = Len(sem_blocked) - 1
            /\ Ir(t, a)
         \/ /\ sem_value < 0 /\ sem_blocked = <<>> /\ perdido' = TRUE /\ Debe = 1 /\ UNCHANGED donde
         \/ /\ sem_value >= 0 /\ sem_value' >= 0 /\ UNCHANGED <<sem_blocked, perdido>> /\ Ir(t, b)
            /\ sem_value' \in Int
<1>1. sem_value \in Int /\ sem_blocked \in Seq(Pares) /\ SemMax \in Nat /\ TipoOK
  BY ConstantesCerrojos DEF ConstantesCerrojos, ColasInv, CerrojosInv, TipoOK, TipoHilos, TipoCuentas
<1>2. Debe \in {0, 1} /\ Len(sem_blocked) \in Nat
  BY <1>1, DebeCasos DEF ColasInv
<1>3. CASE sem_value < SemMax /\ sem_value + 1 <= 0 /\ sem_blocked # <<>>
  <2>1. sem_blocked' = Tail(sem_blocked) /\ sem_value' = sem_value + 1 /\ Ir(t, a) /\ UNCHANGED perdido
    BY <1>1, <1>3, DevolverCasos
  <2>2. Len(Tail(sem_blocked)) = Len(sem_blocked) - 1
    BY <1>1, <1>3
  <2>4. sem_value < 0
    BY <1>1, <1>3
  <2>5. Len(sem_blocked') = Len(sem_blocked) - 1
    BY <2>1, <2>2
  <2>3. QED
    BY <1>3, <2>1, <2>4, <2>5, Zenon
<1>4. CASE sem_value < SemMax /\ sem_value + 1 <= 0 /\ sem_blocked = <<>>
  <2>1. perdido' = TRUE /\ UNCHANGED donde
    BY <1>1, <1>4, DevolverCasos
  <2>2. Len(sem_blocked) = 0 /\ sem_value < 0
    BY <1>1, <1>4
  <2>3. Debe = 1
    BY <1>1, <1>2, <2>2 DEF ValorJusto
  <2>4. QED
    BY <1>4, <2>1, <2>2, <2>3
<1>5. CASE ~ (sem_value < SemMax /\ sem_value + 1 <= 0)
  <2>1. /\ sem_value' = IF sem_value < SemMax THEN sem_value + 1 ELSE sem_value
        /\ Ir(t, b) /\ UNCHANGED <<sem_blocked, perdido>>
    BY <1>1, <1>5, DevolverCasos
  <2>2. sem_value >= 0
    BY <1>1, <1>5
  <2>3. QED
    BY <1>1, <2>1, <2>2
<1>6. QED
  BY <1>3, <1>4, <1>5, Zenon

\* No step follows a NULL.
LEMMA Parado ==
  ASSUME NEW p \in Programas, Atiende(p)
  PROVE  Anda
BY DEF Atiende, Conectar, Conectado, AgregarHijo, Responder, RecibirNombre, PedirClose,
       PedirCrear, create_hilo, Planificar, planificadorLargo, PostNew, Agrega, Agregado, Paso,
       PedirSiguiente, PostExec, SemWait, next_hilo, PedirWait, wait_hilo, Bloquear, AgregarLock,
       bloquearEnSemaforo, PedirSignal, TomarLock, signal_hilo, PostBlock, FinSignal, close_hilo,
       CerrarMain, Finalizar, Liberar, PostFin, Corre, En

\* Value and queue of the semaphore.  A NULL needs a ULT that the value counts
\* and the queue does not, and a Liberar that does not wait for wt.
LEMMA ValorPaso ==
  ASSUME ColasInv, ColasInv', ListosJustos, ValorJusto, NEW p \in Programas, Atiende(p)
  PROVE  ValorJusto' /\ CaeSoloSiLibera'
<1>1. ~perdido /\ ~Carrera
  BY Parado DEF Anda
<1>2. /\ donde \in [Hebras -> Lugares \cup {"usleep"}] /\ p \in Hebras
      /\ sem_value \in Int /\ sem_blocked \in Seq(Pares) /\ Len(sem_blocked) \in Nat
      /\ sem_blocked' \in Seq(Pares)
  BY Hechos DEF ColasInv, CerrojosInv, TipoOK, TipoHebras, TipoHilos, TipoCuentas
<1>3. Len(sem_blocked) + Debe = IF sem_value < 0 THEN -sem_value ELSE 0
  BY <1>1 DEF ValorJusto
<1>4. \A t \in Hebras : t # p => donde'[t] = donde[t]
  BY Otros DEF ColasInv
<1>5. Debe \in {0, 1} /\ Debe' \in {0, 1}
  BY DebeCasos, DebeCasosPrima DEF ColasInv
<1> USE DEF ColasInv
<1>6. ASSUME donde'[p] \in PorEncolar <=> donde[p] \in PorEncolar
      PROVE  Debe' = Debe
  <2>1. \A t \in Hebras : donde'[t] \in PorEncolar <=> donde[t] \in PorEncolar
    BY <1>4, <1>6
  <2>2. QED
    BY <2>1, DebeCasos, DebeCasosPrima
<1>7. ASSUME UNCHANGED <<sem_value, sem_blocked, perdido>>, donde'[p] \in PorEncolar <=> donde[p] \in PorEncolar
      PROVE  ValorJusto' /\ CaeSoloSiLibera'
  <2>1. ValorJusto'
    BY <1>3, <1>6, <1>7 DEF ValorJusto
  <2>2. QED
    BY <1>1, <1>7, <2>1 DEF CaeSoloSiLibera
<1>8. CASE wait_hilo(p)
  <2>1. donde[p] = "wait_hilo" /\ sem_value' = sem_value - 1 /\ UNCHANGED <<sem_blocked, perdido>>
    BY <1>8 DEF wait_hilo, En
  <2>2. Debe = 0
    BY <1>2, <2>1, DebeCasos DEF ConWt, PorEncolar
  <2>3. CASE sem_value - 1 < 0
    <3>1. Ir(p, "BLOCKED")
      BY <1>2, <1>8, <2>3 DEF wait_hilo
    <3>2. donde'[p] \in PorEncolar
      BY <1>2, <3>1 DEF Ir, PorEncolar
    <3>3. Debe' = 1
      BY <1>2, <3>2, DebeCasosPrima
    <3>4. Len(sem_blocked') + Debe' = IF sem_value' < 0 THEN -sem_value' ELSE 0
      BY <1>2, <1>3, <2>1, <2>2, <2>3, <3>3
    <3>5. QED
      BY <1>1, <2>1, <3>4 DEF ValorJusto, CaeSoloSiLibera
  <2>4. CASE ~ (sem_value - 1 < 0)
    <3>1. Ir(p, "responde")
      BY <1>2, <1>8, <2>4 DEF wait_hilo
    <3>2. donde'[p] \notin PorEncolar /\ donde[p] \notin PorEncolar
      BY <1>2, <2>1, <3>1 DEF Ir, PorEncolar
    <3>3. Debe' = 0
      BY <1>6, <2>2, <3>2
    <3>4. Len(sem_blocked') + Debe' = IF sem_value' < 0 THEN -sem_value' ELSE 0
      BY <1>2, <1>3, <2>1, <2>2, <2>4, <3>3
    <3>5. QED
      BY <1>1, <2>1, <3>4 DEF ValorJusto, CaeSoloSiLibera
  <2>5. QED
    BY <2>3, <2>4
<1>9. CASE bloquearEnSemaforo(p)
  <2>1. /\ donde[p] = "bloquearEnSemaforo" /\ Ir(p, "responde")
        /\ sem_blocked' = Append(sem_blocked, <<p, hilo_exec[p]>>) /\ UNCHANGED <<sem_value, perdido>>
    BY <1>9 DEF bloquearEnSemaforo, En
  <2>2. Debe = 1
    BY <1>2, <2>1, DebeCasos DEF PorEncolar
  <2>3. \A t \in Hebras : t # p => donde[t] \notin PorEncolar
    BY <1>2, <2>1 DEF CerrojosInv, Duenios, ConWt, PorEncolar
  <2>4. Debe' = 0
    <3>1. donde'[p] \notin PorEncolar
      BY <1>2, <2>1 DEF Ir, PorEncolar
    <3>2. QED
      BY <1>4, <2>3, <3>1, DebeCasosPrima
  <2>5. Len(sem_blocked') = Len(sem_blocked) + 1
    BY <1>2, <2>1
  <2>6. Len(sem_blocked') + Debe' = IF sem_value' < 0 THEN -sem_value' ELSE 0
    BY <1>2, <1>3, <2>1, <2>2, <2>4, <2>5
  <2>7. QED
    BY <1>1, <2>1, <2>6 DEF ValorJusto, CaeSoloSiLibera
<1>10. CASE signal_hilo(p)
  <2>1. donde[p] = "signal_hilo" /\ Devolver(p, "pasa_block", "suelta")
    BY <1>10 DEF signal_hilo, En
  <2>2. Debe = 0
    BY <1>2, <2>1, DebeCasos DEF ConWt, ConLock, PorEncolar
  <2>3. /\ UNCHANGED perdido
        /\ Ir(p, "pasa_block") \/ Ir(p, "suelta")
        /\ \/ /\ sem_value < 0 /\ sem_value' = sem_value + 1
              /\ Len(sem_blocked') = Len(sem_blocked) - 1
           \/ sem_value >= 0 /\ sem_value' >= 0 /\ UNCHANGED sem_blocked
    BY <1>1, <1>2, <2>1, <2>2, AnteDevolver
  <2>4. donde'[p] \notin PorEncolar /\ donde[p] \notin PorEncolar
    BY <1>2, <2>1, <2>3 DEF Ir, PorEncolar
  <2>5. Debe' = 0
    BY <1>6, <2>2, <2>4
  <2>6. sem_value' \in Int
    BY DEF CerrojosInv, TipoOK, TipoCuentas
  <2>7. Len(sem_blocked') + Debe' = IF sem_value' < 0 THEN -sem_value' ELSE 0
    <3>1. CASE sem_value < 0 /\ sem_value' = sem_value + 1 /\ Len(sem_blocked') = Len(sem_blocked) - 1
      BY <1>2, <1>3, <2>2, <2>5, <3>1
    <3>2. CASE sem_value >= 0 /\ sem_value' >= 0 /\ UNCHANGED sem_blocked
      <4>1. Len(sem_blocked) = 0
        BY <1>2, <1>3, <2>2, <3>2
      <4>2. QED
        <5>1. ~ (sem_value' < 0)
          BY <2>6, <3>2
        <5>2. Len(sem_blocked') = 0
          BY <3>2, <4>1
        <5>3. QED
          BY <2>5, <5>1, <5>2
    <3>3. QED
      BY <2>3, <3>1, <3>2
  <2>8. QED
    BY <1>1, <2>3, <2>7 DEF ValorJusto, CaeSoloSiLibera
<1>11. CASE Liberar(p)
  <2>1. donde[p] = "libera" /\ Devolver(p, "pasa_fin", "exit")
    BY <1>11 DEF Liberar, En
  <2>2. sem_value' \in Int
    BY DEF CerrojosInv, TipoOK, TipoCuentas
  <2>3. CASE sem_value < 0 /\ sem_blocked = <<>> /\ perdido' = TRUE /\ Debe = 1 /\ UNCHANGED donde
    <3>1. PICK u \in Hebras : donde[u] \in PorEncolar
      BY <2>3, DebeCasos
    <3>2. u # p /\ u \in Programas
      BY <1>2, <2>1, <3>1 DEF CerrojosInv, TipoOK, TipoHebras, PorEncolar, Mide, Hebras
    <3>3. donde[u] # "bloquearEnSemaforo"
      BY <1>1, <1>2, <2>1, <3>2 DEF Carrera, Chocan, Dentro
    <3>4. QED
      BY <2>1, <2>3, <3>1, <3>2, <3>3 DEF ValorJusto, CaeSoloSiLibera, PorEncolar
  <2>4. CASE /\ UNCHANGED perdido
             /\ Ir(p, "pasa_fin") \/ Ir(p, "exit")
             /\ \/ /\ sem_value < 0 /\ sem_value' = sem_value + 1
                   /\ Len(sem_blocked') = Len(sem_blocked) - 1
                \/ sem_value >= 0 /\ sem_value' >= 0 /\ UNCHANGED sem_blocked
    <3>1. donde'[p] \notin PorEncolar /\ donde[p] \notin PorEncolar
      BY <1>2, <2>1, <2>4 DEF Ir, PorEncolar
    <3>2. Debe' = Debe
      BY <1>6, <3>1
    <3>3. Len(sem_blocked') + Debe' = IF sem_value' < 0 THEN -sem_value' ELSE 0
      BY <1>2, <1>3, <1>5, <2>2, <2>4, <3>2
    <3>4. QED
      BY <1>1, <2>4, <3>3 DEF ValorJusto, CaeSoloSiLibera
  <2>5. QED
    BY <1>1, <1>2, <2>1, <2>3, <2>4, AnteDevolver
<1>12. CASE next_hilo(p)
  <2>1. donde[p] = "next_hilo" /\ UNCHANGED <<sem_value, sem_blocked>>
    BY <1>12 DEF next_hilo, En, semaforo
  <2>2. tablaReady[p] # {}
    <3>1. Cardinality({}) = 0
      BY FS_EmptySet
    <3>2. cont[p] \in Nat /\ Cardinality(Faltan(p)) \in Nat
      BY FaltanFinito DEF CerrojosInv, TipoOK, TipoCuentas
    <3>3. Cardinality(tablaReady[p]) = cont[p] + Cardinality(Faltan(p)) + 1
      BY <2>1 DEF ListosJustos, ListosEn, Uno
    <3>4. QED
      BY <3>1, <3>2, <3>3
  <2>3. Ir(p, "recv") /\ UNCHANGED perdido
    BY <1>12, <2>2 DEF next_hilo
  <2>4. donde'[p] \notin PorEncolar /\ donde[p] \notin PorEncolar
    BY <1>2, <2>1, <2>3 DEF Ir, PorEncolar
  <2>5. QED
    BY <1>7, <2>1, <2>3, <2>4
<1>13. CASE ~ (wait_hilo(p) \/ bloquearEnSemaforo(p) \/ signal_hilo(p) \/ Liberar(p) \/ next_hilo(p))
  <2>1. UNCHANGED <<sem_value, sem_blocked, perdido>>
    BY <1>13 DEF Atiende, Conectar, Conectado, AgregarHijo, Responder, RecibirNombre, PedirClose, PedirCrear, create_hilo, Planificar, planificadorLargo, PostNew, Agrega, Agregado,
       PedirSiguiente, PostExec, SemWait, PedirWait, Bloquear, AgregarLock, PedirSignal, TomarLock, PostBlock,
       FinSignal, close_hilo, CerrarMain, Finalizar, PostFin, semaforo
  <2>2. donde'[p] \in PorEncolar <=> donde[p] \in PorEncolar
    <3>1. CASE Bloquear(p) \/ AgregarLock(p)
      BY <1>2, <3>1 DEF Bloquear, AgregarLock, En, Ir, PorEncolar
    <3>2. CASE ~ (Bloquear(p) \/ AgregarLock(p))
      <4>1. /\ donde[p] \notin PorEncolar
            /\ \E l \in (Lugares \cup {"usleep"}) \ PorEncolar : Ir(p, l)
        <5> USE <1>2 DEF En, Lugares, PorEncolar, Pasan, Agregan, Avisan, ConMulti, ConLock, Mide
        <5>1. ASSUME NEW h \in Hilos[p], PedirCrear(p, h) PROVE  donde[p] \notin PorEncolar /\ \E l \in (Lugares \cup {"usleep"}) \ PorEncolar : Ir(p, l)
          BY <5>1 DEF PedirCrear, Corre
        <5>2. CASE create_hilo(p) \/ Planificar(p) \/ planificadorLargo(p) \/ PostNew(p)
          BY <5>2 DEF create_hilo, Planificar, planificadorLargo, PostNew
        <5>3. CASE Agrega(p) \/ Agregado(p)
          BY <5>3 DEF Agrega, Agregado, Paso
        <5>4. CASE PedirSiguiente(p) \/ PostExec(p) \/ SemWait(p) \/ PedirWait(p)
          BY <5>4 DEF PedirSiguiente, Sigue, PostExec, SemWait, PedirWait, Corre, ConWt
        <5>5. CASE PedirSignal(p) \/ TomarLock(p) \/ PostBlock(p) \/ FinSignal(p)
          BY <5>5 DEF PedirSignal, Corre, TomarLock, PostBlock, FinSignal, ConWt, ConLock
        <5>6. CASE close_hilo(p) \/ CerrarMain(p) \/ Finalizar(p) \/ PostFin(p)
          BY <5>6 DEF close_hilo, Corre, CerrarMain, Finalizar, PostFin
        <5>8. CASE Conectar(p) \/ Conectado(p) \/ AgregarHijo(p) \/ Responder(p) \/ RecibirNombre(p) \/ PedirClose(p)
          BY <5>8 DEF Conectar, Conectado, AgregarHijo, Responder, RecibirNombre, PedirClose, Corre, ConWt, ConLock
        <5>7. QED
          BY <1>13, <3>2, <5>1, <5>2, <5>3, <5>4, <5>5, <5>6, <5>8 DEF Atiende
      <4>2. QED
        BY <1>2, <4>1 DEF Ir
    <3>3. QED
      BY <3>1, <3>2
  <2>3. QED
    BY <1>7, <2>1, <2>2
<1>14. QED
  BY <1>8, <1>9, <1>10, <1>11, <1>12, <1>13

\* All the ULTs are finitely many.
LEMMA ParesFinitos == IsFiniteSet(Pares)
<1> DEFINE S == {Hilos[p] : p \in Programas}
           f == [p \in Programas |-> Hilos[p]]
<1>1. IsFiniteSet(Programas) /\ \A T \in S : IsFiniteSet(T)
  BY ConstantesCerrojos DEF ConstantesCerrojos
<1>2. f \in Surjection(Programas, S)
  BY DEF Surjection
<1>3. IsFiniteSet(S)
  BY <1>1, <1>2, FS_Surjection
<1>4. IsFiniteSet(UNION S)
  <2> HIDE DEF S
  <2>1. QED
    BY <1>1, <1>3, FS_UNION
<1>5. IsFiniteSet(Programas \X Tids)
  BY <1>1, <1>4, FS_Product DEF Tids
<1>6. Pares \in SUBSET (Programas \X Tids)
  BY ParTipo
<1>7. QED
  BY <1>5, <1>6, FS_Subset

\* And those admitted.
LEMMA AdmitidosFinitos ==
  /\ IsFiniteSet(Admitidos) /\ Cardinality(Admitidos) \in Nat
  /\ IsFiniteSet(Admitidos')
<1>1. Admitidos \in SUBSET Pares /\ Admitidos' \in SUBSET Pares
  BY DEF Admitidos
<1>2. QED
  BY <1>1, ParesFinitos, FS_Subset, FS_CardinalityType

\* The places of the planner with a ULT that it has not counted.
AlCupo == {"pasa_new", "agrega_new", "post_new"}

\* The planner has a ULT that it has not counted, or it has none.
LEMMA AdmiteCasos ==
  ASSUME CerrojosInv
  PROVE  /\ (\E t \in Hebras : donde[t] \in AlCupo) => Admite = 1
         /\ (\A t \in Hebras : donde[t] \notin AlCupo) => Admite = 0
         /\ \A t \in Hebras : donde[t] = "planificadorLargo" => Admite = 0
         /\ Libre("multi") => Admite = 0
         /\ Admite \in {0, 1}
<1>1. duenio["multi"] \in Hebras \cup {Nadie} /\ Nadie \notin Hebras
  BY Hechos DEF CerrojosInv, TipoOK, TipoHebras, Cerrojos
<1>2. \A t \in Hebras : duenio["multi"] = t <=> donde[t] \in ConMulti
  BY DEF CerrojosInv, Duenios
<1>3. \A l : l \in ConMulti <=> l \in AlCupo \/ l \in {"planificadorLargo", "metricas_hijos"}
  BY DEF ConMulti, AlCupo
<1>4. "planificadorLargo" \notin AlCupo /\ "metricas_hijos" \notin AlCupo
  BY DEF AlCupo
<1>5. QED
  BY <1>1, <1>2, <1>3, <1>4 DEF Admite, Uno, Libre

\* The same of the next state.
LEMMA AdmiteCasosPrima ==
  ASSUME CerrojosInv'
  PROVE  /\ (\E t \in Hebras : donde'[t] \in AlCupo) => Admite' = 1
         /\ (\A t \in Hebras : donde'[t] \notin AlCupo) => Admite' = 0
         /\ \A t \in Hebras : donde'[t] = "planificadorLargo" => Admite' = 0
         /\ Admite' \in {0, 1}
<1>1. duenio'["multi"] \in Hebras \cup {Nadie} /\ Nadie \notin Hebras
  BY Hechos DEF CerrojosInv, TipoOK, TipoHebras, Cerrojos
<1>2. \A t \in Hebras : duenio'["multi"] = t <=> donde'[t] \in ConMulti
  BY DEF CerrojosInv, Duenios
<1>3. \A l : l \in ConMulti <=> l \in AlCupo \/ l \in {"planificadorLargo", "metricas_hijos"}
  BY DEF ConMulti, AlCupo
<1>4. "planificadorLargo" \notin AlCupo /\ "metricas_hijos" \notin AlCupo
  BY DEF AlCupo
<1>5. QED
  BY <1>1, <1>2, <1>3, <1>4 DEF Admite, Uno

\* A ULT that changes of estado without being admitted nor closed.
LEMMA AdmitidosIgual ==
  ASSUME estado \in [Pares -> Estados], NEW x \in Pares, NEW e,
         estado' = [estado EXCEPT ![x] = e],
         e \in {"NADA", "NEW", "EXIT"} <=> estado[x] \in {"NADA", "NEW", "EXIT"}
  PROVE  Admitidos' = Admitidos
BY DEF Admitidos

\* What a step does to the ULTs admitted, but for the planner and a CLOSE.
LEMMA AdmitidosPaso ==
  ASSUME ColasInv, NEW p \in Programas, Atiende(p),
         ~planificadorLargo(p), ~close_hilo(p)
  PROVE  Admitidos' = Admitidos
<1>1. /\ donde \in [Hebras -> Lugares \cup {"usleep"}] /\ p \in Hebras
      /\ estado \in [Pares -> Estados] /\ sem_blocked \in Seq(Pares)
      /\ tablaReady[p] \in SUBSET Hilos[p] /\ hilo_exec[p] \in Hilos[p] \cup {Nadie}
  BY Hechos DEF ColasInv, CerrojosInv, TipoOK, TipoHebras, TipoHilos
<1>2. EnManoEn(p) /\ Nadie \notin Hilos[p]
  BY HiloDistinto DEF ColasInv, EnMano
<1>3. CASE UNCHANGED estado
  BY <1>3 DEF Admitidos
<1>4. CASE AgregarHijo(p)
  <2>1. /\ lleva[p] \in Pares /\ estado[lleva[p]] = "NADA"
        /\ estado' = [estado EXCEPT ![lleva[p]] = "NEW"]
    BY <1>1, <1>2, <1>4 DEF AgregarHijo, En, EnManoEn, ColasInv, CerrojosInv, Lleva
  <2>2. QED
    BY <1>1, <2>1, AdmitidosIgual
<1>5. CASE PedirSiguiente(p)
  <2>1. CASE hilo_exec[p] # Nadie
    <3>1. /\ <<p, hilo_exec[p]>> \in Pares /\ estado[<<p, hilo_exec[p]>>] = "EXEC"
          /\ estado' = [estado EXCEPT ![<<p, hilo_exec[p]>>] = "READY"]
      BY <1>1, <1>2, <1>5, <2>1, ParDe DEF PedirSiguiente, En, EnManoEn
    <3>2. QED
      BY <1>1, <3>1, AdmitidosIgual
  <2>2. CASE hilo_exec[p] = Nadie
    BY <1>3, <1>5, <2>2 DEF PedirSiguiente
  <2>3. QED
    BY <2>1, <2>2
<1>6. CASE next_hilo(p)
  <2>1. CASE tablaReady[p] = {}
    BY <1>3, <1>6, <2>1 DEF next_hilo
  <2>2. CASE tablaReady[p] # {}
    <3>1. PICK h \in tablaReady[p] : estado' = [estado EXCEPT ![<<p, h>>] = "EXEC"]
      BY <1>6, <2>2 DEF next_hilo
    <3>2. <<p, h>> \in Pares /\ estado[<<p, h>>] = "READY"
      BY <1>1, ParDe DEF ColasInv, ColasJustas, ListasJustas
    <3>3. QED
      BY <1>1, <3>1, <3>2, AdmitidosIgual
  <2>3. QED
    BY <2>1, <2>2
<1>7. CASE Bloquear(p)
  <2>1. hilo_exec[p] # Nadie
    BY <1>7 DEF Bloquear, En, ColasInv, CerrojosInv, DeAcuerdo, DeAcuerdoEn, ConWt, PorEncolar
  <2>2. /\ <<p, hilo_exec[p]>> \in Pares /\ estado[<<p, hilo_exec[p]>>] = "EXEC"
        /\ estado' = [estado EXCEPT ![<<p, hilo_exec[p]>>] = "BLOCKED"]
    BY <1>1, <1>2, <1>7, <2>1, ParDe DEF Bloquear, En, EnManoEn
  <2>3. QED
    BY <1>1, <2>2, AdmitidosIgual
<1>8. CASE signal_hilo(p) \/ Liberar(p)
  <2>1. PICK a \in {"pasa_block", "pasa_fin"} : \E b \in {"suelta", "exit"} : Devolver(p, a, b)
    BY <1>8 DEF signal_hilo, Liberar
  <2>2. PICK b \in {"suelta", "exit"} : Devolver(p, a, b)
    BY <2>1
  <2>3. TipoOK
    BY DEF ColasInv, CerrojosInv
  <2>4. CASE sem_value < SemMax /\ sem_value + 1 <= 0 /\ sem_blocked # <<>>
    <3>1. Head(sem_blocked) \in Pares /\ estado[Head(sem_blocked)] = "BLOCKED"
      BY <1>1, <2>4, ColaTipo, ColaSaca DEF ColasInv, ColasJustas, ColaJusta
    <3>2. estado' = [estado EXCEPT ![Head(sem_blocked)] = "READY"]
      BY <2>2, <2>3, <2>4, DevolverCasos
    <3>3. QED
      BY <1>1, <3>1, <3>2, AdmitidosIgual
  <2>5. CASE ~ (sem_value < SemMax /\ sem_value + 1 <= 0 /\ sem_blocked # <<>>)
    <3>1. UNCHANGED estado
      BY <2>2, <2>3, <2>5, DevolverCasos
    <3>2. QED
      BY <1>3, <3>1
  <2>6. QED
    BY <2>4, <2>5
<1>9. CASE ~ (AgregarHijo(p) \/ PedirSiguiente(p) \/ next_hilo(p) \/ Bloquear(p) \/ signal_hilo(p) \/ Liberar(p))
  <2>1. UNCHANGED estado
    BY <1>9 DEF Atiende, Conectar, Conectado, Responder, RecibirNombre, PedirClose,
       PedirCrear, create_hilo, Planificar, PostNew, Agrega, Agregado, PostExec, SemWait,
       PedirWait, wait_hilo, AgregarLock, bloquearEnSemaforo, PedirSignal, TomarLock, PostBlock,
       FinSignal, CerrarMain, Finalizar, PostFin
  <2>2. QED
    BY <1>3, <2>1
<1>10. QED
  BY <1>4, <1>5, <1>6, <1>7, <1>8, <1>9

\* The count of the ULTs admitted.
LEMMA CuposPaso ==
  ASSUME ColasInv, ColasInv', CuposJustos, NEW p \in Programas, Atiende(p)
  PROVE  CuposJustos'
<1>1. /\ donde \in [Hebras -> Lugares \cup {"usleep"}] /\ p \in Hebras
      /\ estado \in [Pares -> Estados] /\ tabla_new \in Seq(Pares)
      /\ cant_programas \in Int /\ Multiprog \in Nat
      /\ IsFiniteSet(Admitidos) /\ Cardinality(Admitidos) \in Nat
  BY Hechos, AdmitidosFinitos, ConstantesCerrojos
     DEF ConstantesCerrojos, ColasInv, CerrojosInv, TipoOK, TipoHebras, TipoHilos, TipoCuentas
<1>2. \A t \in Hebras : t # p => donde'[t] = donde[t]
  BY Otros DEF ColasInv
<1>3. /\ cant_programas + Admite = Cardinality(Admitidos)
      /\ cant_programas + Admite <= Multiprog
      /\ Admite \in {0, 1} /\ Admite' \in {0, 1}
  BY AdmiteCasos, AdmiteCasosPrima DEF CuposJustos, ColasInv
<1>4. ASSUME donde'[p] \in AlCupo <=> donde[p] \in AlCupo
      PROVE  Admite' = Admite
  <2>1. \A t \in Hebras : donde'[t] \in AlCupo <=> donde[t] \in AlCupo
    BY <1>2, <1>4
  <2>2. QED
    BY <2>1, AdmiteCasos, AdmiteCasosPrima DEF ColasInv
<1>5. ASSUME UNCHANGED cant_programas, Admitidos' = Admitidos, donde'[p] \in AlCupo <=> donde[p] \in AlCupo
      PROVE  CuposJustos'
  BY <1>3, <1>4, <1>5 DEF CuposJustos
<1>6. CASE planificadorLargo(p)
  <2>1. donde[p] = "planificadorLargo" /\ UNCHANGED cant_programas
    BY <1>6 DEF planificadorLargo, En
  <2>2. Admite = 0
    BY <1>1, <2>1, AdmiteCasos DEF ColasInv
  <2>3. CASE cant_programas < Multiprog /\ tabla_new # <<>>
    <3>1. ~ (cant_programas >= Multiprog \/ tabla_new = <<>>)
      BY <1>1, <2>3
    <3>2. estado' = [estado EXCEPT ![Head(tabla_new)] = "READY"] /\ Ir(p, "pasa_new")
      BY <1>6, <3>1 DEF planificadorLargo
    <3>3. Head(tabla_new) \in Pares /\ estado[Head(tabla_new)] = "NEW"
      BY <1>1, <2>3, ColaTipo, ColaSaca DEF ColasInv, ColasJustas, ColaJusta
    <3>4. Admitidos' = Admitidos \cup {Head(tabla_new)} /\ Head(tabla_new) \notin Admitidos
      BY <1>1, <3>2, <3>3 DEF Admitidos
    <3>5. Cardinality(Admitidos') = Cardinality(Admitidos) + 1
      BY <1>1, <3>4, FS_AddElement
    <3>6. donde'[p] \in AlCupo
      BY <1>1, <3>2 DEF Ir, AlCupo
    <3>7. Admite' = 1
      BY <1>1, <3>6, AdmiteCasosPrima DEF ColasInv
    <3>8. QED
      BY <1>1, <1>3, <2>1, <2>2, <2>3, <3>5, <3>7 DEF CuposJustos
  <2>4. CASE ~ (cant_programas < Multiprog /\ tabla_new # <<>>)
    <3>1. UNCHANGED estado /\ Ir(p, "recv")
      BY <1>6, <2>4 DEF planificadorLargo
    <3>2. Admitidos' = Admitidos
      BY <3>1 DEF Admitidos
    <3>3. donde'[p] \notin AlCupo /\ donde[p] \notin AlCupo
      BY <1>1, <2>1, <3>1 DEF Ir, AlCupo
    <3>4. QED
      BY <1>5, <2>1, <3>2, <3>3
  <2>5. QED
    BY <2>3, <2>4
<1>7. CASE PostNew(p)
  <2>1. donde[p] = "post_new" /\ Ir(p, "planificadorLargo") /\ cant_programas' = cant_programas + 1 /\ UNCHANGED estado
    BY <1>7 DEF PostNew, En
  <2>2. donde'[p] = "planificadorLargo" /\ donde[p] \in AlCupo
    BY <1>1, <2>1 DEF Ir, AlCupo
  <2>3. Admite = 1 /\ Admite' = 0
    BY <1>1, <2>2, AdmiteCasos, AdmiteCasosPrima DEF ColasInv
  <2>4. Admitidos' = Admitidos
    BY <2>1 DEF Admitidos
  <2>5. QED
    BY <1>1, <1>3, <2>1, <2>3, <2>4 DEF CuposJustos
<1>8. CASE close_hilo(p)
  <2>1. /\ donde[p] = "close_hilo" /\ Ir(p, "printefearMetricas") /\ cant_programas' = cant_programas - 1
        /\ hilo_exec[p] # Nadie /\ estado' = [estado EXCEPT ![<<p, hilo_exec[p]>>] = "EXIT"]
    BY <1>8 DEF close_hilo, En, ColasInv, CerrojosInv, DeAcuerdo, DeAcuerdoEn
  <2>2. <<p, hilo_exec[p]>> \in Pares /\ estado[<<p, hilo_exec[p]>>] = "EXEC"
    <3>1. hilo_exec[p] \in Hilos[p]
      BY <2>1 DEF ColasInv, CerrojosInv, TipoOK, TipoHilos
    <3>2. QED
      BY <2>1, <3>1, ParDe DEF ColasInv, EnMano, EnManoEn
  <2>3. Admitidos' = Admitidos \ {<<p, hilo_exec[p]>>} /\ <<p, hilo_exec[p]>> \in Admitidos
    BY <1>1, <2>1, <2>2 DEF Admitidos
  <2>4. Cardinality(Admitidos') = Cardinality(Admitidos) - 1
    BY <1>1, <2>3, FS_RemoveElement
  <2>5. donde'[p] \notin AlCupo /\ donde[p] \notin AlCupo
    BY <1>1, <2>1 DEF Ir, AlCupo
  <2>6. Admite' = Admite
    BY <1>4, <2>5
  <2>7. QED
    BY <1>1, <1>3, <2>1, <2>4, <2>6 DEF CuposJustos
<1>9. CASE ~ (planificadorLargo(p) \/ PostNew(p) \/ close_hilo(p))
  <2>1. UNCHANGED cant_programas
    BY <1>9 DEF Atiende, Conectar, Conectado, AgregarHijo, Responder, RecibirNombre, PedirClose,
       PedirCrear, create_hilo, Planificar, Agrega, Agregado, PedirSiguiente, PostExec,
       SemWait, next_hilo, PedirWait, wait_hilo, Bloquear, AgregarLock, bloquearEnSemaforo, PedirSignal,
       TomarLock, signal_hilo, PostBlock, FinSignal, CerrarMain, Finalizar, Liberar, PostFin, cupos
  <2>2. donde'[p] \in AlCupo <=> donde[p] \in AlCupo
    <3>1. CASE Agrega(p) \/ Agregado(p)
      <4> USE <1>1, Hechos DEF Ir, En, Paso, AlCupo
      <4>1. CASE Agrega(p)
        BY <4>1 DEF Agrega
      <4>2. CASE Agregado(p)
        BY <4>2 DEF Agregado
      <4>3. QED
        BY <3>1, <4>1, <4>2
    <3>2. CASE ~ (Agrega(p) \/ Agregado(p))
      <4>1. donde[p] \notin AlCupo /\ \E l \in (Lugares \cup {"usleep"}) \ AlCupo : Ir(p, l)
        <5> USE <1>1 DEF En, Lugares, AlCupo, Pasan, Agregan, Avisan, ConMulti, ConWt, ConLock, PorEncolar, Mide
        <5>1. ASSUME NEW h \in Hilos[p], PedirCrear(p, h)
              PROVE  donde[p] \notin AlCupo /\ \E l \in (Lugares \cup {"usleep"}) \ AlCupo : Ir(p, l)
          BY <5>1 DEF PedirCrear, Corre
        <5>2. CASE create_hilo(p) \/ Planificar(p)
          BY <5>2 DEF create_hilo, Planificar
        <5>3. CASE PedirSiguiente(p) \/ PostExec(p) \/ SemWait(p) \/ PedirWait(p)
          BY <5>3 DEF PedirSiguiente, Sigue, PostExec, SemWait, PedirWait, Corre
        <5>4. CASE next_hilo(p)
          <6>1. Ir(p, "recv") \/ Ir(p, "next_hilo")
            BY <5>4 DEF next_hilo, Ir
          <6>2. QED
            BY <5>4, <6>1 DEF next_hilo
        <5>5. CASE wait_hilo(p) \/ Bloquear(p) \/ AgregarLock(p) \/ bloquearEnSemaforo(p)
          BY <5>5 DEF wait_hilo, Bloquear, AgregarLock, bloquearEnSemaforo
        <5>6. CASE PedirSignal(p) \/ TomarLock(p) \/ PostBlock(p) \/ FinSignal(p)
          BY <5>6 DEF PedirSignal, Corre, TomarLock, PostBlock, FinSignal
        <5>7. CASE signal_hilo(p) \/ Liberar(p)
          <6>1. PICK l \in {"signal_hilo", "libera", "pasa_block", "suelta", "pasa_fin", "exit"} : Ir(p, l)
            BY <5>7, DevolverVa DEF signal_hilo, Liberar
          <6>2. QED
            BY <5>7, <6>1 DEF signal_hilo, Liberar
        <5>8. CASE CerrarMain(p) \/ Finalizar(p) \/ PostFin(p)
          BY <5>8 DEF CerrarMain, Corre, Finalizar, PostFin
        <5>10. CASE Conectar(p) \/ Conectado(p) \/ AgregarHijo(p) \/ Responder(p) \/ RecibirNombre(p) \/ PedirClose(p)
          BY <5>10 DEF Conectar, Conectado, AgregarHijo, Responder, RecibirNombre, PedirClose, Corre
        <5>9. QED
          BY <1>9, <3>2, <5>1, <5>2, <5>3, <5>4, <5>5, <5>6, <5>7, <5>8, <5>10 DEF Atiende
      <4>2. QED
        BY <1>1, <4>1 DEF Ir
    <3>3. QED
      BY <3>1, <3>2
  <2>3. QED
    BY <1>5, <1>9, <2>1, <2>2, AdmitidosPaso
<1>10. QED
  BY <1>6, <1>7, <1>8, <1>9

\* The metrics leave the counters alone.
LEMMA ContadoresMetricas ==
  ASSUME ColasInv, ColasInv', ListosJustos, ValorJusto, CuposJustos,
         NEW t \in Hebras, Despertar \/ printefearMetricas(t)
  PROVE  ListosJustos' /\ ValorJusto' /\ CuposJustos' /\ CaeSoloSiLibera'
<1>1. /\ UNCHANGED <<lleva, cupos, semaforo, listos, clientes, estado, perdido>> /\ ~perdido
      /\ \E l \in Mide \cup {"usleep", "fin", "planifica"} : \E u \in Hebras : Ir(u, l) /\ donde[u] \in Mide \cup {"usleep"}
  BY Hechos DEF Despertar, printefearMetricas, Mide, En, Anda
<1>2. PICK u \in Hebras : \E l \in Mide \cup {"usleep", "fin", "planifica"} :
        Ir(u, l) /\ donde[u] \in Mide \cup {"usleep"}
  BY <1>1
<1>3. PICK l \in Mide \cup {"usleep", "fin", "planifica"} : Ir(u, l) /\ donde[u] \in Mide \cup {"usleep"}
  BY <1>2
<1>4. donde \in [Hebras -> Lugares \cup {"usleep"}]
  BY DEF ColasInv, CerrojosInv, TipoOK, TipoHebras
<1>5. \A v \in Hebras : /\ donde'[v] \in Avisan <=> donde[v] \in Avisan
                        /\ donde'[v] \in PorEncolar <=> donde[v] \in PorEncolar
                        /\ donde'[v] \in AlCupo <=> donde[v] \in AlCupo
                        /\ donde'[v] = "next_hilo" <=> donde[v] = "next_hilo"
  BY <1>3, <1>4 DEF Ir, Avisan, PorEncolar, AlCupo, Mide
<1>6. ListosJustos'
  <2>1. ASSUME NEW p \in Programas PROVE Faltan(p)' = Faltan(p)
    BY <1>1, <1>5 DEF Faltan
  <2>2. QED
    BY <1>1, <1>5, <2>1, Hechos DEF ListosJustos, ListosEn, Uno, listos
<1>7. ValorJusto' /\ CaeSoloSiLibera'
  <2>1. Debe' = Debe
    BY <1>5, DebeCasos, DebeCasosPrima DEF ColasInv
  <2>2. QED
    BY <1>1, <2>1 DEF ValorJusto, CaeSoloSiLibera, semaforo
<1>8. CuposJustos'
  <2>1. Admite' = Admite
    BY <1>5, AdmiteCasos, AdmiteCasosPrima DEF ColasInv
  <2>2. Admitidos' = Admitidos
    BY <1>1 DEF Admitidos
  <2>3. QED
    BY <1>1, <2>1, <2>2 DEF CuposJustos, cupos
<1>9. QED
  BY <1>6, <1>7, <1>8

\* The initial states.
LEMMA ContadoresInicial == Init => ContadoresInv
<1> SUFFICES ASSUME Init PROVE ContadoresInv
  OBVIOUS
<1>1. ColasInv /\ CerrojosInv
  BY ColasInicial DEF ColasInv
<1>2. Cardinality({}) = 0
  BY FS_EmptySet
<1>3. \A t \in Hebras : donde[t] \in {"fuera", "usleep"}
  BY DEF Init
<1>4. ListosJustos
  <2>1. ASSUME NEW p \in Programas PROVE ListosEn(p)
    <3>1. Faltan(p) = {}
      BY <1>3 DEF Faltan, Avisan
    <3>2. tablaReady[p] = {} /\ cont[p] = 0 /\ donde[p] # "next_hilo"
      BY <1>3, Hechos DEF Init
    <3>3. QED
      BY <1>2, <3>1, <3>2 DEF ListosEn, Uno
  <2>2. QED
    BY <2>1 DEF ListosJustos
<1>5. ValorJusto
  <2>1. Debe = 0
    BY <1>1, <1>3, DebeCasos DEF PorEncolar
  <2>2. SemInit \in Nat
    BY ConstantesCerrojos DEF ConstantesCerrojos
  <2>3. Len(sem_blocked) = 0 /\ ~ (sem_value < 0)
    BY <2>2 DEF Init
  <2>4. QED
    BY <2>1, <2>3 DEF ValorJusto
<1>6. CuposJustos
  <2>1. Admite = 0
    BY <1>1, <1>3, AdmiteCasos DEF AlCupo
  <2>2. Admitidos = {} /\ cant_programas = 0
    BY DEF Init, Admitidos
  <2>3. Multiprog \in Nat
    BY ConstantesCerrojos DEF ConstantesCerrojos
  <2>4. QED
    BY <1>2, <2>1, <2>2, <2>3 DEF CuposJustos
<1>7. CaeSoloSiLibera
  BY DEF Init, CaeSoloSiLibera
<1>8. QED
  BY <1>1, <1>4, <1>5, <1>6, <1>7 DEF ContadoresInv

\* Every step.
LEMMA ContadoresSigue == ContadoresInv /\ [Next]_vars => ContadoresInv'
<1> SUFFICES ASSUME ContadoresInv, [Next]_vars PROVE ContadoresInv'
  OBVIOUS
<1>1. /\ ColasInv /\ ColasInv' /\ ListosJustos /\ ValorJusto /\ CuposJustos /\ CaeSoloSiLibera
  BY ColasSigue DEF ContadoresInv
<1>2. ASSUME NEW p \in Programas, Atiende(p) PROVE ContadoresInv'
  <2>1. ListosJustos'
    BY <1>1, <1>2, ListosPaso DEF ListosJustos
  <2>2. ValorJusto' /\ CaeSoloSiLibera'
    BY <1>1, <1>2, ValorPaso
  <2>3. CuposJustos'
    BY <1>1, <1>2, CuposPaso
  <2>4. QED
    BY <1>1, <2>1, <2>2, <2>3 DEF ContadoresInv
<1>3. ASSUME NEW t \in Hebras, Despertar \/ printefearMetricas(t) PROVE ContadoresInv'
  BY <1>1, <1>3, ContadoresMetricas DEF ContadoresInv
<1>4. CASE UNCHANGED vars
  <2>1. ListosJustos'
    BY <1>1, <1>4 DEF vars, ListosJustos, ListosEn, Faltan
  <2>2. ValorJusto' /\ CuposJustos' /\ CaeSoloSiLibera'
    BY <1>1, <1>4 DEF vars, ValorJusto, Debe, CuposJustos, Admite, Admitidos, CaeSoloSiLibera
  <2>3. QED
    BY <1>1, <2>1, <2>2 DEF ContadoresInv
<1>5. QED
  BY <1>2, <1>3, <1>4, Hechos DEF Next

\* The counters of the threads are those of the properties when nobody is half
\* way: a NULL leaves somebody with wt, and a free multi owes nothing.
LEMMA CuentasVistas ==
  ASSUME ContadoresInv PROVE CuentasEnOrden
<1>1. CerrojosInv /\ ListosJustos /\ ValorJusto /\ CuposJustos /\ CaeSoloSiLibera
  BY DEF ContadoresInv, ColasInv
<1>2. ListosContados
  BY <1>1 DEF ListosJustos, ListosEn, Faltan, Avisan, Uno, ListosContados
<1>3. ValorYCola
  <2>1. SUFFICES ASSUME Libre("wt")
                 PROVE  Len(sem_blocked) = IF sem_value < 0 THEN -sem_value ELSE 0
    BY DEF ValorYCola
  <2>2. \A t \in Hebras : donde[t] \notin PorEncolar
    BY <1>1, <2>1, Hechos DEF Libre, CerrojosInv, Duenios, ConWt
  <2>3. ~perdido
    BY <1>1, <2>2, Hechos DEF CaeSoloSiLibera, PorEncolar
  <2>4. Debe = 0
    BY <1>1, <2>1, DebeCasos
  <2>5. sem_blocked \in Seq(Pares)
    BY <1>1 DEF CerrojosInv, TipoOK, TipoHilos
  <2>6. QED
    BY <1>1, <2>3, <2>4, <2>5 DEF ValorJusto
<1>4. CuposContados
  <2>1. ASSUME Libre("multi") PROVE Admite = 0
    BY <1>1, <2>1, AdmiteCasos
  <2>2. cant_programas \in Int
    BY <1>1 DEF CerrojosInv, TipoOK, TipoCuentas
  <2>3. QED
    BY <1>1, <2>1, <2>2 DEF CuposJustos, Admitidos, CuposContados
<1>5. QED
  BY <1>2, <1>3, <1>4 DEF CuentasEnOrden

\* The queues and the counters are right at every moment, each with what its
\* threads still owe it.
LEMMA ContadoresSiempre == Spec => []ContadoresInv
BY ContadoresInicial, ContadoresSigue, PTL DEF Spec

\* Whatever the order of the steps, and until two threads are inside one list,
\* the sem_t of each program counts its ready list, a negative value counts the
\* ULTs that wait, and cant_programas those admitted and not closed.
THEOREM CuentasSiempre == Spec => []CuentasEnOrden
BY ContadoresSiempre, CuentasVistas, PTL

\* The server dereferences a NULL only when a program ends while a WAIT of
\* another is between the value and the queue: next_hilo always finds a ULT.
THEOREM CaeSoloSiLiberaSiempre == Spec => []CaeSoloSiLibera
<1>1. ContadoresInv => CaeSoloSiLibera
  BY DEF ContadoresInv
<1>2. QED
  BY <1>1, ContadoresSiempre, PTL
=============================================================================
