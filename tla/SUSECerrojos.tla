----------------------------- MODULE SUSECerrojos -----------------------------
(***************************************************************************)
(* The threads of SUSE and their mutexes.  SUSE takes each request as one    *)
(* step; here a handler is cut wherever it locks, unlocks or is inside a      *)
(* list that other threads use, so that the handlers of several programs and *)
(* the thread of the metrics (SUSE.c, atenderMetricas) interleave.            *)
(*                                                                         *)
(* donde says where a thread is; the mutexes it holds there are in duenio.    *)
(* A section that takes a mutex, holds no list that matters here and lets go  *)
(* is one step, that waits for the mutex: so are those of sem_exit and        *)
(* sem_lista_semaforos, which nobody keeps.  Estimates, joins and the deaths   *)
(* of programs are in SUSE.                                                   *)
(*                                                                         *)
(* A list that two threads change at once is lost, and the model stops there: *)
(* what holds up to that point, and where that point can be, is what the       *)
(* properties say.  hijos, tabla_programas, lista_semaforos and                *)
(* lista_sem_programas have no mutex either, but they only grow, and by the     *)
(* hand of one thread: who searches one meanwhile finds what was there, so the *)
(* model goes on.                                                            *)
(***************************************************************************)
EXTENDS Integers, Sequences, FiniteSets

CONSTANTS
  Programas,     \* programs, each with its thread in the server
  Hilos,         \* by program, tids of the ULTs it creates
  Metricas,      \* the thread of the metrics
  Main,          \* the main thread of a program
  Nadie,
  Multiprog,     \* MAX_MULTIPROG
  SemInit, SemMax,   \* of the only semaphore
  MaxRetenidos   \* bound on |cantidad|

Hebras == Programas \cup {Metricas}
Pares == UNION {{p} \X Hilos[p] : p \in Programas}

\* A program stands for its own mutex, the mtx of lista_sem_programas.
Cerrojos == {"multi", "wt", "sem_lock", "sem_new"} \cup Programas

ASSUME ConstantesCerrojos ==
  /\ Metricas \notin Programas /\ Nadie \notin Hebras \cup Pares \cup Cerrojos
  /\ Programas \cap {"multi", "wt", "sem_lock", "sem_new"} = {}
  /\ IsFiniteSet(Programas) /\ Main # Nadie
  /\ \A p \in Programas : IsFiniteSet(Hilos[p]) /\ {Main, Nadie} \cap Hilos[p] = {}
  /\ Multiprog \in Nat \ {0}
  /\ SemInit \in Nat /\ SemMax \in Nat /\ MaxRetenidos \in Nat

VARIABLES
  donde,            \* per thread: where it is
  lleva,            \* per thread: the ULT that it moves
  duenio,           \* per mutex: who holds it
  tabla_new, cant_programas, sem_value, sem_blocked,
  tablaReady, cont, hilo_exec, actual, retenidos,    \* per program
  cede,             \* the next request of the program is SCHEDULE_NEXT
  estado,           \* per ULT
  perdido           \* a NULL has been dereferenced

vars == <<donde, lleva, duenio, tabla_new, cant_programas, sem_value, sem_blocked,
          tablaReady, cont, hilo_exec, actual, retenidos, cede, estado, perdido>>
cupos == <<tabla_new, cant_programas>>
semaforo == <<sem_value, sem_blocked, retenidos>>
listos == <<tablaReady, cont>>
clientes == <<hilo_exec, actual, cede>>

Init ==
  /\ donde = [t \in Hebras |-> IF t = Metricas THEN "usleep" ELSE "fuera"]
  /\ lleva = [t \in Hebras |-> Nadie]
  /\ duenio = [c \in Cerrojos |-> Nadie]
  /\ tabla_new = <<>> /\ cant_programas = 0
  /\ sem_value = SemInit /\ sem_blocked = <<>>
  /\ tablaReady = [p \in Programas |-> {}]
  /\ cont = [p \in Programas |-> 0]
  /\ hilo_exec = [p \in Programas |-> Nadie]
  /\ actual = [p \in Programas |-> Main]
  /\ retenidos = [p \in Programas |-> 0]
  /\ cede = [p \in Programas |-> FALSE]
  /\ estado = [x \in Pares |-> "NADA"]
  /\ perdido = FALSE

(***************************************************************************)
(* Where a thread is inside a list, and the mutex it then waits for.         *)
(***************************************************************************)

Dentro ==
  [tabla_new  |-> {"create_hilo", "planificadorLargo"},
   tablaReady |-> {"agrega_new", "agrega_exec", "agrega_block", "agrega_fin", "next_hilo"},
   semaforo   |-> {"wait_hilo", "bloquearEnSemaforo", "signal_hilo", "libera", "metrica"},
   propios    |-> {"agrega_hijo", "pasa_exec", "next_hilo", "BLOCKED", "close_hilo"},
   ajenos     |-> {"pasa_new", "agrega_block", "agrega_fin"},
   tablas     |-> {"conecta", "pasa_new", "pasa_exec", "pasa_block", "pasa_fin", "post_new",
                   "post_exec", "post_block", "post_fin", "sem_wait", "next_hilo", "BLOCKED",
                   "close_hilo", "metricas_hijos"}]

\* The ready list that t is inside of: its own, or that of the ULT it moves.
DeQuien(t) == IF donde[t] \in {"agrega_exec", "next_hilo"} THEN t ELSE lleva[t][1]

\* The programs whose hijos t is inside of: its own, those of the program of the
\* ULT that it moves, or all, one after the other.
HijosDe(t) ==
  CASE donde[t] \in Dentro.propios -> {t}
    [] donde[t] \in Dentro.ajenos -> {lleva[t][1]}
    [] donde[t] = "metricas_hijos" -> Programas
    [] OTHER -> {}

\* Two threads that change one list.
Chocan(t, u) ==
  \/ donde[t] \in Dentro.tabla_new /\ donde[u] \in Dentro.tabla_new
  \/ donde[t] \in Dentro.semaforo /\ donde[u] \in Dentro.semaforo
  \/ /\ donde[t] \in Dentro.tablaReady /\ donde[u] \in Dentro.tablaReady
     /\ DeQuien(t) = DeQuien(u)

\* t adds to a list that u is inside of: its hijos, or the three tables of
\* programs, that aceptarClientes fills.
Agranda(t, u) ==
  \/ donde[t] = "agrega_hijo" /\ t \in HijosDe(u)
  \/ donde[t] = "conecta" /\ donde[u] \in Dentro.tablas

Carrera == \E t, u \in Hebras : t # u /\ Chocan(t, u)

Anda == ~perdido /\ ~Carrera

Dejar(t) == lleva' = [lleva EXCEPT ![t] = Nadie]

Libre(c) == duenio[c] = Nadie
Tomar(t, c) == Libre(c) /\ duenio' = [duenio EXCEPT ![c] = t]
Soltar(c) == duenio' = [duenio EXCEPT ![c] = Nadie]
SoltarTodo(C) == duenio' = [c \in Cerrojos |-> IF c \in C THEN Nadie ELSE duenio[c]]

En(t, lugar) == donde[t] = lugar /\ Anda
Ir(t, lugar) == donde' = [donde EXCEPT ![t] = lugar]

Corre(p) == En(p, "recv") /\ ~cede[p]
SinHilos(p) == \A h \in Hilos[p] : estado[<<p, h>>] \in {"NADA", "EXIT"}

\* sem_post of the program of the ULT.
Post(x) == cont' = [cont EXCEPT ![x[1]] = @ + 1]

(***************************************************************************)
(* A program connects: aceptarClientes, one client at a time, adds it to       *)
(* tabla_programas, lista_semaforos and lista_sem_programas with no mutex, and *)
(* starts its thread.                                                        *)
(***************************************************************************)

Conectar(p) ==
  /\ En(p, "fuera")
  /\ \A q \in Programas : donde[q] # "conecta"
  /\ Ir(p, "conecta")
  /\ UNCHANGED <<lleva, duenio, cupos, semaforo, listos, clientes, estado, perdido>>

Conectado(p) ==
  /\ En(p, "conecta")
  /\ Ir(p, "recv")
  /\ UNCHANGED <<lleva, duenio, cupos, semaforo, listos, clientes, estado, perdido>>

(***************************************************************************)
(* create_hilo and planificadorLargo.  A ULT with its t_hilo in hijos, and     *)
(* counted in cant_hilos, is one whose estado is not NADA.                     *)
(***************************************************************************)

PedirCrear(p, h) ==
  /\ Corre(p) /\ estado[<<p, h>>] = "NADA"
  /\ lleva' = [lleva EXCEPT ![p] = <<p, h>>]
  /\ Ir(p, "agrega_hijo")
  /\ UNCHANGED <<duenio, cupos, semaforo, listos, clientes, estado, perdido>>

\* In hijos, with no mutex; then sem_new.
AgregarHijo(p) ==
  /\ En(p, "agrega_hijo")
  /\ estado' = [estado EXCEPT ![lleva[p]] = "NEW"]
  /\ Tomar(p, "sem_new")
  /\ Ir(p, "create_hilo")
  /\ UNCHANGED <<lleva, cupos, semaforo, listos, clientes, perdido>>

create_hilo(p) ==
  /\ En(p, "create_hilo")
  /\ tabla_new' = Append(tabla_new, lleva[p])
  /\ Soltar("sem_new")
  /\ Ir(p, "planifica")
  /\ Dejar(p)
  /\ UNCHANGED <<cant_programas, semaforo, listos, clientes, estado, perdido>>

Planificar(p) ==
  /\ En(p, "planifica")
  /\ Tomar(p, "multi")
  /\ Ir(p, "planificadorLargo")
  /\ UNCHANGED <<lleva, cupos, semaforo, listos, clientes, estado, perdido>>

\* A turn of its loop, with multi held.
planificadorLargo(p) ==
  /\ En(p, "planificadorLargo")
  /\ \/ /\ cant_programas < Multiprog /\ tabla_new # <<>>
        /\ tabla_new' = Tail(tabla_new)
        /\ lleva' = [lleva EXCEPT ![p] = Head(tabla_new)]
        /\ estado' = [estado EXCEPT ![Head(tabla_new)] = "READY"]
        /\ Ir(p, "pasa_new")
        /\ UNCHANGED duenio
     \/ /\ cant_programas >= Multiprog \/ tabla_new = <<>>
        /\ Soltar("multi")
        /\ Ir(p, "recv")
        /\ Dejar(p)
        /\ UNCHANGED <<tabla_new, estado>>
  /\ UNCHANGED <<cant_programas, semaforo, listos, clientes, perdido>>

PostNew(p) ==
  /\ En(p, "post_new")
  /\ Post(lleva[p])
  /\ cant_programas' = cant_programas + 1
  /\ Ir(p, "planificadorLargo")
  /\ UNCHANGED <<lleva, tablaReady, duenio, tabla_new, semaforo, clientes, estado, perdido>>

(***************************************************************************)
(* A ULT to a ready list: mtx of its program, list_add and, once it is let    *)
(* go, sem_post.  Four handlers do it.                                       *)
(***************************************************************************)

Paso(t, de, a) == En(t, de) /\ Ir(t, a)

\* MUTANT: nobody locks the list.
AgregaSinMtx(t) ==
  /\ \/ Paso(t, "pasa_new", "agrega_new") \/ Paso(t, "pasa_exec", "agrega_exec")
     \/ Paso(t, "pasa_block", "agrega_block") \/ Paso(t, "pasa_fin", "agrega_fin")
  /\ UNCHANGED <<duenio, lleva, cupos, semaforo, listos, clientes, estado, perdido>>

Agrega(t) ==
  /\ \/ Paso(t, "pasa_new", "agrega_new") \/ Paso(t, "pasa_exec", "agrega_exec")
     \/ Paso(t, "pasa_block", "agrega_block") \/ Paso(t, "pasa_fin", "agrega_fin")
  /\ Tomar(t, lleva[t][1])
  /\ UNCHANGED <<lleva, cupos, semaforo, listos, clientes, estado, perdido>>

Agregado(t) ==
  /\ \/ Paso(t, "agrega_new", "post_new") \/ Paso(t, "agrega_exec", "post_exec")
     \/ Paso(t, "agrega_block", "post_block") \/ Paso(t, "agrega_fin", "post_fin")
  /\ LET x == lleva[t]
     IN /\ tablaReady' = [tablaReady EXCEPT ![x[1]] = @ \cup {x[2]}]
        /\ Soltar(x[1])
  /\ UNCHANGED <<lleva, cupos, semaforo, cont, clientes, estado, perdido>>

(***************************************************************************)
(* SCHEDULE_NEXT                                                            *)
(***************************************************************************)

\* What follows once nobody runs: the main thread, or whom sem_wait lets.
Sigue(p) ==
  IF SinHilos(p)
  THEN /\ Ir(p, "recv")
       /\ actual' = [actual EXCEPT ![p] = Main]
       /\ cede' = [cede EXCEPT ![p] = FALSE]
  ELSE Ir(p, "sem_wait") /\ UNCHANGED <<actual, cede>>

PedirSiguiente(p) ==
  /\ En(p, "recv")
  /\ cede[p] \/ ~SinHilos(p)
  /\ \/ /\ hilo_exec[p] # Nadie
        /\ lleva' = [lleva EXCEPT ![p] = <<p, hilo_exec[p]>>]
        /\ estado' = [estado EXCEPT ![<<p, hilo_exec[p]>>] = "READY"]
        /\ Ir(p, "pasa_exec")
        /\ UNCHANGED <<actual, cede>>
     \/ /\ hilo_exec[p] = Nadie
        /\ Sigue(p)
        /\ UNCHANGED <<lleva, estado>>
  /\ UNCHANGED <<duenio, cupos, semaforo, listos, hilo_exec, perdido>>

PostExec(p) ==
  /\ En(p, "post_exec")
  /\ Post(lleva[p])
  /\ hilo_exec' = [hilo_exec EXCEPT ![p] = Nadie]
  /\ Ir(p, "sem_wait")
  /\ Dejar(p)
  /\ UNCHANGED <<tablaReady, duenio, cupos, semaforo, actual, cede, estado, perdido>>

SemWait(p) ==
  /\ En(p, "sem_wait")
  /\ cont[p] > 0
  /\ cont' = [cont EXCEPT ![p] = @ - 1]
  /\ Ir(p, "next_hilo")
  /\ UNCHANGED <<lleva, duenio, cupos, semaforo, tablaReady, clientes, estado, perdido>>

\* No mutex but sem_new, for a moment and around something else.
next_hilo(p) ==
  /\ En(p, "next_hilo")
  /\ \/ /\ tablaReady[p] = {}
        /\ perdido' = TRUE
        /\ UNCHANGED <<donde, tablaReady, hilo_exec, actual, cede, estado>>
     \/ \E h \in tablaReady[p] :
          /\ Libre("sem_new")
          /\ tablaReady' = [tablaReady EXCEPT ![p] = @ \ {h}]
          /\ estado' = [estado EXCEPT ![<<p, h>>] = "EXEC"]
          /\ hilo_exec' = [hilo_exec EXCEPT ![p] = h]
          /\ actual' = [actual EXCEPT ![p] = h]
          /\ cede' = [cede EXCEPT ![p] = FALSE]
          /\ Ir(p, "recv")
          /\ UNCHANGED perdido
  /\ UNCHANGED <<lleva, duenio, cupos, semaforo, cont>>

(***************************************************************************)
(* WAIT                                                                     *)
(***************************************************************************)

PedirWait(p) ==
  /\ Corre(p) /\ actual[p] # Main /\ retenidos[p] < MaxRetenidos
  /\ Tomar(p, "wt")
  /\ Ir(p, "wait_hilo")
  /\ UNCHANGED <<lleva, cupos, semaforo, listos, clientes, estado, perdido>>

wait_hilo(p) ==
  /\ En(p, "wait_hilo")
  /\ sem_value' = sem_value - 1
  /\ retenidos' = [retenidos EXCEPT ![p] = @ + 1]
  /\ \/ /\ sem_value - 1 < 0
        /\ Ir(p, "BLOCKED")
     \/ /\ sem_value - 1 >= 0
        /\ Ir(p, "responde")
  /\ UNCHANGED <<lleva, duenio, cupos, sem_blocked, listos, clientes, estado, perdido>>

\* MUTANT: wt is let go before the ULT is in the queue of the semaphore.
BloquearSuelto(p) ==
  /\ En(p, "BLOCKED")
  /\ Libre(p)
  /\ estado' = [estado EXCEPT ![<<p, hilo_exec[p]>>] = "BLOCKED"]
  /\ Soltar("wt")
  /\ Ir(p, "tabla_lock")
  /\ UNCHANGED <<lleva, cupos, semaforo, listos, clientes, perdido>>

\* Its mtx around the times and the estado of the t_hilo.
Bloquear(p) ==
  /\ En(p, "BLOCKED")
  /\ Libre(p)
  /\ estado' = [estado EXCEPT ![<<p, hilo_exec[p]>>] = "BLOCKED"]
  /\ Ir(p, "tabla_lock")
  /\ UNCHANGED <<lleva, duenio, cupos, semaforo, listos, clientes, perdido>>

\* sem_lock around the list_add to tabla_lock.
AgregarLock(p) ==
  /\ En(p, "tabla_lock")
  /\ Libre("sem_lock")
  /\ Ir(p, "bloquearEnSemaforo")
  /\ UNCHANGED <<lleva, duenio, cupos, semaforo, listos, clientes, estado, perdido>>

bloquearEnSemaforo(p) ==
  /\ En(p, "bloquearEnSemaforo")
  /\ sem_blocked' = Append(sem_blocked, <<p, hilo_exec[p]>>)
  /\ hilo_exec' = [hilo_exec EXCEPT ![p] = Nadie]
  /\ Ir(p, "responde")
  /\ UNCHANGED <<lleva, duenio, cupos, sem_value, retenidos, listos, actual, cede, estado, perdido>>

\* The answer to the client is sent with wt held.
Responder(p) ==
  /\ En(p, "responde")
  /\ cede' = [cede EXCEPT ![p] = TRUE]
  /\ Soltar("wt")
  /\ Ir(p, "recv")
  /\ UNCHANGED <<lleva, cupos, semaforo, listos, hilo_exec, actual, estado, perdido>>

(***************************************************************************)
(* SIGNAL                                                                   *)
(***************************************************************************)

\* MUTANT: sem_lock is taken first.
PedirSignalAlReves(p) ==
  /\ Corre(p) /\ actual[p] # Main /\ retenidos[p] > -MaxRetenidos
  /\ Tomar(p, "sem_lock")
  /\ Ir(p, "sem_lock")
  /\ UNCHANGED <<lleva, cupos, semaforo, listos, clientes, estado, perdido>>

PedirSignal(p) ==
  /\ Corre(p) /\ actual[p] # Main /\ retenidos[p] > -MaxRetenidos
  /\ Tomar(p, "wt")
  /\ Ir(p, "sem_lock")
  /\ UNCHANGED <<lleva, cupos, semaforo, listos, clientes, estado, perdido>>

\* The other of its two mutexes.
TomarLock(p) ==
  /\ En(p, "sem_lock")
  /\ Tomar(p, IF duenio["wt"] = p THEN "sem_lock" ELSE "wt")
  /\ Ir(p, "recibe_nombre")
  /\ UNCHANGED <<lleva, cupos, semaforo, listos, clientes, estado, perdido>>

\* With both it waits for the client to send the name of the semaphore.
RecibirNombre(p) ==
  /\ En(p, "recibe_nombre")
  /\ Ir(p, "signal_hilo")
  /\ UNCHANGED <<lleva, duenio, cupos, semaforo, listos, clientes, estado, perdido>>

\* A unit back, and who leaves the queue with it: a is where a thread goes with
\* it, b where it goes when there is nobody.
Devolver(t, a, b) ==
  \/ /\ sem_value < SemMax /\ sem_value + 1 <= 0
     /\ sem_value' = sem_value + 1
     /\ \/ /\ sem_blocked # <<>>
           /\ sem_blocked' = Tail(sem_blocked)
           /\ lleva' = [lleva EXCEPT ![t] = Head(sem_blocked)]
           /\ estado' = [estado EXCEPT ![Head(sem_blocked)] = "READY"]
           /\ Ir(t, a)
           /\ UNCHANGED perdido
        \/ /\ sem_blocked = <<>>
           /\ perdido' = TRUE
           /\ UNCHANGED <<sem_blocked, lleva, estado, donde>>
  \/ /\ sem_value >= SemMax \/ sem_value + 1 > 0
     /\ sem_value' = IF sem_value < SemMax THEN sem_value + 1 ELSE sem_value
     /\ Ir(t, b)
     /\ UNCHANGED <<sem_blocked, lleva, estado, perdido>>

signal_hilo(p) ==
  /\ En(p, "signal_hilo")
  /\ retenidos' = [retenidos EXCEPT ![p] = @ - 1]
  /\ Devolver(p, "pasa_block", "suelta")
  /\ UNCHANGED <<duenio, cupos, listos, clientes>>

PostBlock(p) ==
  /\ En(p, "post_block")
  /\ Post(lleva[p])
  /\ Ir(p, "suelta")
  /\ UNCHANGED <<lleva, tablaReady, duenio, cupos, semaforo, clientes, estado, perdido>>

FinSignal(p) ==
  /\ En(p, "suelta")
  /\ SoltarTodo({"wt", "sem_lock"})
  /\ cede' = [cede EXCEPT ![p] = TRUE]
  /\ Ir(p, "recv")
  /\ Dejar(p)
  /\ UNCHANGED <<cupos, semaforo, listos, hilo_exec, actual, estado, perdido>>

(***************************************************************************)
(* CLOSE, and the metrics that it and their own thread print                *)
(***************************************************************************)

\* The ULT that runs ends.
PedirClose(p) ==
  /\ Corre(p) /\ hilo_exec[p] # Nadie
  /\ Ir(p, "close_hilo")
  /\ UNCHANGED <<lleva, duenio, cupos, semaforo, listos, clientes, estado, perdido>>

\* Its t_hilo found, multi around cant_programas.
close_hilo(p) ==
  /\ En(p, "close_hilo")
  /\ Libre("multi")
  /\ cant_programas' = cant_programas - 1
  /\ estado' = [estado EXCEPT ![<<p, hilo_exec[p]>>] = "EXIT"]
  /\ hilo_exec' = [hilo_exec EXCEPT ![p] = Nadie]
  /\ cede' = [cede EXCEPT ![p] = TRUE]
  /\ Ir(p, "printefearMetricas")
  /\ UNCHANGED <<lleva, duenio, tabla_new, semaforo, listos, actual, perdido>>

\* The main thread ends: the program is finished.
CerrarMain(p) ==
  /\ Corre(p) /\ actual[p] = Main /\ SinHilos(p)
  /\ actual' = [actual EXCEPT ![p] = Nadie]
  /\ Ir(p, "printefearMetricas")
  /\ UNCHANGED <<lleva, duenio, cupos, semaforo, listos, hilo_exec, cede, estado, perdido>>

Despertar ==
  /\ En(Metricas, "usleep")
  /\ Ir(Metricas, "printefearMetricas")
  /\ UNCHANGED <<lleva, duenio, cupos, semaforo, listos, clientes, estado, perdido>>

\* multi for a moment, wt while it reads the semaphores, and multi again while it
\* goes over tabla_programas and the hijos of each.
printefearMetricas(t) ==
  /\ \/ En(t, "printefearMetricas") /\ Libre("multi") /\ Ir(t, "metricas_wt") /\ UNCHANGED duenio
     \/ En(t, "metricas_wt") /\ Tomar(t, "wt") /\ Ir(t, "metrica")
     \/ En(t, "metrica") /\ Soltar("wt") /\ Ir(t, "metricas_multi")
     \/ En(t, "metricas_multi") /\ Tomar(t, "multi") /\ Ir(t, "metricas_hijos")
     \/ /\ En(t, "metricas_hijos") /\ Soltar("multi")
        /\ Ir(t, IF t = Metricas THEN "usleep"
                 ELSE IF actual[t] = Nadie THEN "fin" ELSE "planifica")
  /\ UNCHANGED <<lleva, cupos, semaforo, listos, clientes, estado, perdido>>

\* The end of a program gives back what it has, with no mutex of semaphores.
Finalizar(p) ==
  /\ En(p, "fin")
  /\ IF retenidos[p] > 0 THEN Ir(p, "libera") ELSE Ir(p, "exit")
  /\ UNCHANGED <<lleva, duenio, cupos, semaforo, listos, clientes, estado, perdido>>

Liberar(p) ==
  /\ En(p, "libera")
  /\ retenidos' = [retenidos EXCEPT ![p] = 0]
  /\ Devolver(p, "pasa_fin", "exit")
  /\ UNCHANGED <<duenio, cupos, listos, clientes>>

PostFin(p) ==
  /\ En(p, "post_fin")
  /\ Post(lleva[p])
  /\ Ir(p, "exit")
  /\ Dejar(p)
  /\ UNCHANGED <<tablaReady, duenio, cupos, semaforo, clientes, estado, perdido>>

-----------------------------------------------------------------------------
Atiende(p) ==
  \/ Conectar(p) \/ Conectado(p)
  \/ \E h \in Hilos[p] : PedirCrear(p, h)
  \/ AgregarHijo(p) \/ create_hilo(p) \/ Planificar(p) \/ planificadorLargo(p) \/ PostNew(p)
  \/ Agrega(p) \/ Agregado(p)
  \/ PedirSiguiente(p) \/ PostExec(p) \/ SemWait(p) \/ next_hilo(p)
  \/ PedirWait(p) \/ wait_hilo(p) \/ Bloquear(p) \/ AgregarLock(p) \/ bloquearEnSemaforo(p)
  \/ Responder(p)
  \/ PedirSignal(p) \/ TomarLock(p) \/ RecibirNombre(p) \/ signal_hilo(p) \/ PostBlock(p)
  \/ FinSignal(p)
  \/ PedirClose(p) \/ close_hilo(p) \/ CerrarMain(p) \/ Finalizar(p) \/ Liberar(p) \/ PostFin(p)

Next == \/ \E p \in Programas : Atiende(p)
        \/ Despertar
        \/ \E t \in Hebras : printefearMetricas(t)

Spec == Init /\ [][Next]_vars

(***************************************************************************)
(* Properties.                                                              *)
(***************************************************************************)

\* The mutex that each thread waits for.
Quiere(t) ==
  CASE donde[t] \in {"planifica", "close_hilo", "printefearMetricas", "metricas_multi"} -> "multi"
    [] donde[t] \in {"pasa_new", "pasa_exec", "pasa_block", "pasa_fin"} -> lleva[t][1]
    [] donde[t] = "BLOCKED" -> t
    [] donde[t] = "tabla_lock" -> "sem_lock"
    [] donde[t] = "sem_lock" -> IF duenio["wt"] = t THEN "sem_lock" ELSE "wt"
    [] donde[t] = "metricas_wt" -> "wt"
    [] donde[t] \in {"agrega_hijo", "next_hilo"} -> "sem_new"
    [] OTHER -> Nadie

\* Where a thread waits for something that is not a mutex: a client, a sem_t or
\* the clock.
Espera == {"fuera", "conecta", "recv", "recibe_nombre", "responde", "sem_wait", "usleep", "exit"}

\* No threads wait in a circle, each for a mutex that the next one holds.  Nobody
\* waits for anything else with a mutex in its hands, but for two handlers that
\* wait for their own client: SIGNAL keeps wt and sem_lock until the name of the
\* semaphore comes, WAIT keeps wt until its answer goes.  A client that is silent
\* then stops the WAIT, the SIGNAL and the metrics of all, but who waits for wt
\* holds nothing, so that nobody else is stopped through it.
SinAbrazo ==
  /\ \A S \in (SUBSET Hebras) \ {{}} :
       \E t \in S : Quiere(t) = Nadie \/ duenio[Quiere(t)] \notin S
  /\ \A t \in Hebras, c \in Cerrojos : duenio[c] = t =>
       /\ Quiere(t) # "wt"
       /\ donde[t] \in Espera =>
            \/ donde[t] = "recibe_nombre" /\ c \in {"wt", "sem_lock"}
            \/ donde[t] = "responde" /\ c = "wt"

\* Two threads change one list at once only in three places: the planner takes
\* from tabla_new under another mutex than create_hilo adds, next_hilo takes from
\* its list under none, and so does the end of a program with the semaphores.
\* The lists that have no mutex, hijos and the three tables of programs, are added
\* to by one thread at a time, so that all that can meet is an addition and a
\* search: a program that creates a ULT with the metrics, or with a planner,
\* a SIGNAL or an end that looks for a ULT of it; and a program that connects
\* with whoever looks for a program, its mutex or its sem_t.
CarrerasConocidas ==
  \A t, u \in Hebras : t # u =>
    /\ Chocan(t, u) =>
         \/ {donde[t], donde[u]} = {"create_hilo", "planificadorLargo"}
         \/ "next_hilo" \in {donde[t], donde[u]}
         \/ "libera" \in {donde[t], donde[u]}
    /\ Agranda(t, u) =>
         \/ /\ donde[t] = "agrega_hijo"
            /\ donde[u] \in {"metricas_hijos", "pasa_new", "agrega_block", "agrega_fin"}
         \/ donde[t] = "conecta" /\ donde[u] # "conecta"

\* The sem_t of a program counts its ready list, but for the ULTs whose
\* sem_post is still to come and the one that next_hilo is about to take.
ListosContados ==
  \A p \in Programas :
    LET faltan == {t \in Hebras : /\ donde[t] \in {"post_new", "post_exec", "post_block", "post_fin"}
                                 /\ lleva[t][1] = p}
    IN Cardinality(tablaReady[p]) =
         cont[p] + Cardinality(faltan) + (IF donde[p] = "next_hilo" THEN 1 ELSE 0)

\* With wt free, a negative value is the number of ULTs that wait.
ValorYCola ==
  Libre("wt") => Len(sem_blocked) = (IF sem_value < 0 THEN -sem_value ELSE 0)

\* With multi free, cant_programas counts the ULTs admitted and not closed.
CuposContados ==
  Libre("multi") =>
    /\ cant_programas = Cardinality({x \in Pares : estado[x] \notin {"NADA", "NEW", "EXIT"}})
    /\ cant_programas <= Multiprog

\* Whatever the order of the steps, and until two threads are inside one list,
\* the counters of the scheduler are right whenever their mutex is free.
CuentasEnOrden == ListosContados /\ ValorYCola /\ CuposContados

\* next_hilo always finds a ULT, and a unit given back always finds the ULT
\* that waits for it, unless a program ends while a WAIT is between the value
\* and the queue.
CaeSoloSiLibera ==
  perdido => /\ \E p \in Programas : donde[p] = "libera"
             /\ \E p \in Programas : donde[p] \in {"BLOCKED", "tabla_lock"}
=============================================================================
