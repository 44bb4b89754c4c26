----------------------------- MODULE SUSE_proofs -----------------------------
(***************************************************************************)
(* Proofs about SUSE, for any programs, ULTs, semaphores and bounds: the    *)
(* types first; then, that every ULT is queued exactly where its estado      *)
(* says, and that the counting semaphore of a program counts its ready list; *)
(* last, the semaphores.                                                    *)
(***************************************************************************)
EXTENDS SUSESemaforos, FiniteSetTheorems, TLAPS

-----------------------------------------------------------------------------
(* Queues *)

\* A suffix of a queue: its elements, length and type.
LEMMA SubSeqPropiedades ==
  ASSUME NEW S, NEW c \in Seq(S), NEW k \in 0..Len(c)
  PROVE  /\ SubSeq(c, k + 1, Len(c)) \in Seq(S)
         /\ Len(SubSeq(c, k + 1, Len(c))) = Len(c) - k
         /\ \A i \in 1..Len(c) - k : SubSeq(c, k + 1, Len(c))[i] = c[i + k]
OBVIOUS

\* Append adds its element to the queue, and repeats none if it is new.
LEMMA AppendCola ==
  ASSUME NEW S, NEW c \in Seq(S), NEW x \in S
  PROVE  /\ Append(c, x) \in Seq(S)
         /\ EnCola(Append(c, x)) = EnCola(c) \cup {x}
         /\ SinRepetir(c) /\ x \notin EnCola(c) => SinRepetir(Append(c, x))
BY DEF EnCola, SinRepetir

\* Tail removes the head, which then is no longer queued.
LEMMA TailCola ==
  ASSUME NEW S, NEW c \in Seq(S), c # <<>>
  PROVE  /\ Head(c) \in S /\ Head(c) \in EnCola(c)
         /\ Tail(c) \in Seq(S)
         /\ Len(Tail(c)) = Len(c) - 1
         /\ SinRepetir(c) => SinRepetir(Tail(c)) /\ EnCola(Tail(c)) = EnCola(c) \ {Head(c)}
<1> DEFINE t == Tail(c)
<1>1. /\ Len(c) \in Nat \ {0} /\ Head(c) = c[1] /\ \A i \in 1..Len(c) : c[i] \in S
      /\ t \in Seq(S) /\ Len(t) = Len(c) - 1 /\ \A i \in 1..Len(c) - 1 : t[i] = c[i + 1]
  OBVIOUS
<1> HIDE DEF t
<1>2. Head(c) \in S /\ Head(c) \in EnCola(c)
  BY <1>1 DEF EnCola
<1>3. ASSUME SinRepetir(c)
      PROVE  SinRepetir(t) /\ EnCola(t) = EnCola(c) \ {Head(c)}
  <2>1. SinRepetir(t)
    BY <1>1, <1>3 DEF SinRepetir
  <2>2. \A x \in EnCola(t) : x \in EnCola(c) /\ x # Head(c)
    BY <1>1, <1>3 DEF SinRepetir, EnCola
  <2>3. ASSUME NEW x \in EnCola(c), x # Head(c)
        PROVE  x \in EnCola(t)
    <3>1. PICK i \in 1..Len(c) : x = c[i]
      BY <1>1, <2>3 DEF EnCola
    <3>2. i - 1 \in 1..Len(t) /\ t[i - 1] = x
      BY <1>1, <2>3, <3>1
    <3>3. QED
      BY <3>2 DEF EnCola
  <2>4. QED
    BY <2>1, <2>2, <2>3
<1>4. QED
  BY <1>1, <1>2, <1>3 DEF t

-----------------------------------------------------------------------------
(* Type correctness *)

\* Any set of ULTs of one program is finite, so it can be counted.
LEMMA CardinalidadHilos ==
  ASSUME NEW S \in SUBSET Hilos
  PROVE  IsFiniteSet(S) /\ Cardinality(S) \in Nat
BY FS_Subset, FS_CardinalityType, ConstantesOK DEF ConstantesOK

\* Moving ULTs to ready keeps the types of estado, tablaReady and cont.
LEMMA PasarTipo ==
  ASSUME NEW B \in SUBSET Pares, NEW est \in [Pares -> Estados],
         NEW listas \in [Programas -> SUBSET Hilos],
         NEW ctr \in [Programas -> Nat],
         PasarAReady(B, est, listas, ctr)
  PROVE  /\ estado' \in [Pares -> Estados]
         /\ tablaReady' \in [Programas -> SUBSET Hilos]
         /\ cont' \in [Programas -> Nat]
<1>1. \A q \in Programas : Cardinality({h \in Hilos : <<q, h>> \in B}) \in Nat
  BY CardinalidadHilos
<1>2. QED
  BY <1>1 DEF PasarAReady, Estados

\* The planner never admits more ULTs than there are queued.
LEMMA CupoTipo ==
  ASSUME NEW c \in Seq(Pares), NEW n \in Int
  PROVE  Cupo(c, n) \in 0..Len(c)
BY ConstantesOK DEF Cupo, ConstantesOK

\* A run of the planner keeps the types of all it writes.
LEMMA PlanificadorTipo ==
  ASSUME NEW c \in Seq(Pares), NEW n \in Int, NEW est \in [Pares -> Estados],
         NEW listas \in [Programas -> SUBSET Hilos],
         NEW ctr \in [Programas -> Nat],
         planificadorLargo(c, n, est, listas, ctr)
  PROVE  /\ tabla_new' \in Seq(Pares)
         /\ cant_programas' \in Int
         /\ estado' \in [Pares -> Estados]
         /\ tablaReady' \in [Programas -> SUBSET Hilos]
         /\ cont' \in [Programas -> Nat]
         /\ vivo' \in BOOLEAN
<1> DEFINE k == Cupo(c, n)
           B == {c[i] : i \in 1..k}
<1>1. k \in 0..Len(c)
  BY CupoTipo
<1>2. B \in SUBSET Pares
  BY <1>1
<1>3. PasarAReady(B, est, listas, ctr)
  BY DEF planificadorLargo
<1>4. tabla_new' \in Seq(Pares)
  BY <1>1, SubSeqPropiedades DEF planificadorLargo
<1>5. cant_programas' \in Int
  BY <1>1 DEF planificadorLargo
<1>6. vivo' \in BOOLEAN
  BY Zenon DEF planificadorLargo, TrasTocar
<1>7. QED
  BY <1>2, <1>3, <1>4, <1>5, <1>6, PasarTipo

\* A new estimate is one of the estimates a ULT may have.
LEMMA ReestimarTipo ==
  ASSUME TypeOK, NEW p \in Programas, NEW h, <<p, h>> \in Pares, Reestimar(p, h)
  PROVE  estimado' \in [Pares -> Estimados] /\ nodo' \in [Pares -> Estimados]
<1>1. PICK r \in Rafagas :
        LET e == Recalcular(estimado[<<p, h>>], r)
        IN /\ estimado' = [estimado EXCEPT ![<<p, h>>] = e]
           /\ nodo' = [nodo EXCEPT ![<<p, h>>] = e]
  BY DEF Reestimar
<1>2. Recalcular(estimado[<<p, h>>], r) \in Estimados
  BY ConstantesOK DEF ConstantesOK, TypeOK, TipoHilos
<1>3. QED
  BY <1>1, <1>2 DEF TypeOK, TipoHilos

\* Giving units back wakes ULTs, and keeps the types of the semaphores.
LEMMA OtorgadosTipo ==
  ASSUME TypeOK, NEW S \in SUBSET Semaforos
  PROVE  /\ Otorgados(S) \in SUBSET Pares
         /\ Devolver(S) => /\ sem_values' \in [Semaforos -> Int]
                           /\ sem_blocked' \in [Semaforos -> Seq(Pares)]
<1>1. \A s \in Semaforos : sem_blocked[s] \in Seq(Pares) /\ sem_values[s] \in Int
  BY DEF TypeOK, TipoColas
<1>2. \A s \in Semaforos : sem_blocked[s] # <<>> =>
        Head(sem_blocked[s]) \in Pares /\ Tail(sem_blocked[s]) \in Seq(Pares)
  BY <1>1, TailCola
<1>3. Otorgados(S) \in SUBSET Pares
  BY <1>2 DEF Otorgados
<1>4. ASSUME Devolver(S)
      PROVE  /\ sem_values' \in [Semaforos -> Int]
             /\ sem_blocked' \in [Semaforos -> Seq(Pares)]
  <2>1. sem_values' \in [Semaforos -> Int]
    BY <1>1, <1>4 DEF Devolver
  <2>2. sem_blocked' \in [Semaforos -> Seq(Pares)]
    BY <1>1, <1>2, <1>4 DEF Devolver
  <2>3. QED
    BY <2>1, <2>2
<1>5. QED
  BY <1>3, <1>4

\* The initial values have their types.
LEMMA TypeInicial == Init => TypeOK
BY ConstantesOK
   DEF ConstantesOK, Init, TypeOK, TipoHilos, TipoColas, TipoProgramas,
       TipoClientes, Estados, Pares

\* INIT keeps the types.
LEMMA TypeConectar ==
  ASSUME TypeOK, NEW p \in Programas, Conectar(p)
  PROVE  TypeOK'
<1> USE DEF TypeOK, Conectar, hiloVars, semVars
<1>1. TipoHilos' /\ TipoColas'
  BY DEF TipoHilos, TipoColas
<1>2. TipoProgramas'
  BY DEF TipoProgramas
<1>3. TipoClientes'
  BY DEF TipoClientes
<1>4. QED
  BY <1>1, <1>2, <1>3

\* CREATE_HILO keeps the types.
LEMMA TypeCrear ==
  ASSUME TypeOK, NEW p \in Programas, NEW h \in Hilos, Crear(p, h)
  PROVE  TypeOK'
<1> USE DEF TypeOK
<1>1. /\ Append(tabla_new, <<p, h>>) \in Seq(Pares)
      /\ [estado EXCEPT ![<<p, h>>] = "NEW"] \in [Pares -> Estados]
  BY DEF Pares, Estados, TipoColas, TipoHilos
<1>2. /\ tabla_new' \in Seq(Pares) /\ cant_programas' \in Int
      /\ estado' \in [Pares -> Estados] /\ vivo' \in BOOLEAN
      /\ tablaReady' \in [Programas -> SUBSET Hilos] /\ cont' \in [Programas -> Nat]
  BY <1>1, PlanificadorTipo DEF Crear, TipoColas, TipoProgramas
<1>3. TipoHilos'
  BY <1>2, ConstantesOK DEF Crear, TipoHilos, ConstantesOK
<1>4. TipoColas'
  BY <1>2 DEF Crear, TipoColas, semVars
<1>5. TipoProgramas'
  <2>1. /\ cant_hilos' = [cant_hilos EXCEPT ![p] = @ + 1]
        /\ UNCHANGED <<estProg, joins, retenidos, hilo_exec, atiende>>
    BY DEF Crear, semVars
  <2>2. QED
    BY <1>2, <2>1 DEF TipoProgramas
<1>6. TipoClientes'
  BY DEF Crear, TipoClientes
<1>7. QED
  BY <1>3, <1>4, <1>5, <1>6

\* The first half of SCHEDULE_NEXT keeps the types.
LEMMA TypePedirSiguiente ==
  ASSUME TypeOK, NEW p \in Programas, PedirSiguiente(p)
  PROVE  TypeOK'
<1> USE DEF TypeOK, hiloVars, semVars
<1>1. /\ TipoHilos'
      /\ tablaReady' \in [Programas -> SUBSET Hilos] /\ cont' \in [Programas -> Nat]
  <2>1. CASE hilo_exec[p] = Nadie
    BY <2>1 DEF PedirSiguiente, TipoHilos, TipoProgramas
  <2>2. CASE hilo_exec[p] # Nadie
    <3>1. {<<p, hilo_exec[p]>>} \in SUBSET Pares
      BY <2>2 DEF Pares, TipoProgramas
    <3>2. PasarAReady({<<p, hilo_exec[p]>>}, estado, tablaReady, cont)
      BY <2>2 DEF PedirSiguiente
    <3>3. Reestimar(p, hilo_exec[p])
      BY <2>2 DEF PedirSiguiente
    <3>4. estimado' \in [Pares -> Estimados] /\ nodo' \in [Pares -> Estimados]
      BY <3>1, <3>3, ReestimarTipo
    <3>5. /\ estado' \in [Pares -> Estados]
          /\ tablaReady' \in [Programas -> SUBSET Hilos] /\ cont' \in [Programas -> Nat]
      BY <3>1, <3>2, PasarTipo DEF TipoHilos, TipoProgramas
    <3>6. QED
      BY <3>4, <3>5 DEF TipoHilos
  <2>3. QED
    BY <2>1, <2>2
<1>2. TipoColas'
  BY DEF PedirSiguiente, TipoColas
<1>3. atiende' \in [Programas -> {"recv", "sem_wait"}]
  BY DEF PedirSiguiente, TipoProgramas
<1>4. TipoProgramas'
  BY <1>1, <1>3 DEF PedirSiguiente, TipoProgramas
<1>5. TipoClientes'
  BY DEF PedirSiguiente, TipoClientes
<1>6. QED
  BY <1>1, <1>2, <1>4, <1>5

\* The second half of SCHEDULE_NEXT keeps the types.
LEMMA TypeDespachar ==
  ASSUME TypeOK, NEW p \in Programas, Despachar(p)
  PROVE  TypeOK'
<1> USE DEF TypeOK, Despachar, semVars
<1>1. TipoHilos'
  BY DEF TipoHilos, Pares, Estados
<1>2. vivo' \in BOOLEAN
  BY Zenon DEF TipoColas
<1>3. TipoColas'
  BY <1>2 DEF TipoColas
<1>4. cont' \in [Programas -> Nat]
  <2>1. cont[p] > 0 /\ cont' = [cont EXCEPT ![p] = @ - 1]
    OBVIOUS
  <2>2. QED
    BY <2>1 DEF TipoProgramas
<1>5. /\ TipoClientes'
      /\ tablaReady' \in [Programas -> SUBSET Hilos]
      /\ hilo_exec' \in [Programas -> Hilos \cup {Nadie}]
      /\ atiende' \in [Programas -> {"recv", "sem_wait"}]
  <2>1. CASE tablaReady[p] = {}
    BY <2>1 DEF TipoClientes, TipoProgramas
  <2>2. CASE tablaReady[p] # {}
    <3>1. PICK h \in tablaReady[p] :
            /\ tablaReady' = [tablaReady EXCEPT ![p] = @ \ {h}]
            /\ hilo_exec' = [hilo_exec EXCEPT ![p] = h]
            /\ atiende' = [atiende EXCEPT ![p] = "recv"]
            /\ \/ UNCHANGED <<cliente, actual>>
               \/ /\ cliente' = [cliente EXCEPT ![p] = "corre"]
                  /\ actual' = [actual EXCEPT ![p] = h]
      BY <2>2
    <3>2. h \in Hilos
      BY DEF TipoProgramas
    <3>3. UNCHANGED pendiente
      OBVIOUS
    <3> HIDE DEF Despachar
    <3>4. /\ tablaReady' \in [Programas -> SUBSET Hilos]
          /\ hilo_exec' \in [Programas -> Hilos \cup {Nadie}]
          /\ atiende' \in [Programas -> {"recv", "sem_wait"}]
      BY <3>1, <3>2 DEF TipoProgramas
    <3>5. TipoClientes'
      BY <3>1, <3>2, <3>3 DEF TipoClientes
    <3>6. QED
      BY <3>4, <3>5
  <2>3. QED
    BY <2>1, <2>2
<1>6. TipoProgramas'
  BY <1>4, <1>5 DEF TipoProgramas
<1>7. QED
  BY <1>1, <1>3, <1>5, <1>6

\* JOIN keeps the types.
LEMMA TypeUnir ==
  ASSUME TypeOK, NEW p \in Programas, NEW h \in Hilos, Unir(p, h)
  PROVE  TypeOK'
<1> USE DEF TypeOK, Unir, Ceder, hiloVars, semVars
<1>1. TipoHilos' /\ TipoColas'
  BY DEF TipoHilos, TipoColas
<1>2. joins' \in [Programas -> [Hilos -> Nat]]
  <2>1. \/ UNCHANGED joins
        \/ joins' = [joins EXCEPT ![p] = [joins[p] EXCEPT ![h] = @ + 1]]
    OBVIOUS
  <2> HIDE DEF Unir
  <2>2. [joins[p] EXCEPT ![h] = @ + 1] \in [Hilos -> Nat]
    BY DEF TipoProgramas
  <2>3. QED
    BY <2>1, <2>2 DEF TipoProgramas
<1>3. estProg' \in [Programas -> {"NADA", "ACTIVO", "BLOQUEADO", "FINALIZADO"}]
  BY DEF TipoProgramas
<1>4. TipoProgramas'
  BY <1>2, <1>3 DEF TipoProgramas
<1>5. TipoClientes'
  BY DEF TipoClientes
<1>6. QED
  BY <1>1, <1>4, <1>5

\* CLOSE of a ULT keeps the types.
LEMMA TypeCerrarHilo ==
  ASSUME TypeOK, NEW p \in Programas, NEW h \in Hilos, CerrarHilo(p, h)
  PROVE  TypeOK'
<1> USE DEF TypeOK
<1>1. [estado EXCEPT ![<<p, h>>] = "EXIT"] \in [Pares -> Estados]
  BY DEF Estados, TipoHilos
<1>2. /\ tabla_new' \in Seq(Pares) /\ cant_programas' \in Int
      /\ estado' \in [Pares -> Estados] /\ vivo' \in BOOLEAN
      /\ tablaReady' \in [Programas -> SUBSET Hilos] /\ cont' \in [Programas -> Nat]
  <2>1. planificadorLargo(tabla_new, cant_programas - 1,
                          [estado EXCEPT ![<<p, h>>] = "EXIT"], tablaReady, cont)
    BY DEF CerrarHilo
  <2>2. /\ cant_programas - 1 \in Int /\ tabla_new \in Seq(Pares)
        /\ tablaReady \in [Programas -> SUBSET Hilos] /\ cont \in [Programas -> Nat]
    BY DEF TipoColas, TipoProgramas
  <2>3. QED
    BY <1>1, <2>1, <2>2, PlanificadorTipo
<1>3. TipoHilos'
  BY <1>2 DEF CerrarHilo, TipoHilos
<1>4. TipoColas'
  BY <1>2 DEF CerrarHilo, TipoColas, semVars
<1>5. cant_hilos' \in [Programas -> Int] /\ joins' \in [Programas -> [Hilos -> Nat]]
  BY DEF CerrarHilo, TipoProgramas, QuitarUno
<1>6. /\ estProg' \in [Programas -> {"NADA", "ACTIVO", "BLOQUEADO", "FINALIZADO"}]
      /\ hilo_exec' \in [Programas -> Hilos \cup {Nadie}]
  BY DEF CerrarHilo, TipoProgramas
<1>7. TipoProgramas'
  BY <1>2, <1>5, <1>6 DEF CerrarHilo, TipoProgramas, semVars
<1>8. TipoClientes'
  BY DEF CerrarHilo, TipoClientes, Ceder
<1>9. QED
  BY <1>3, <1>4, <1>7, <1>8

\* WAIT keeps the types.
LEMMA TypeEsperar ==
  ASSUME TypeOK, NEW p \in Programas, NEW s \in Semaforos, Esperar(p, s)
  PROVE  TypeOK'
<1> USE DEF TypeOK, Ceder, hiloVars
<1> DEFINE bloquea == SinUnidad(s) /\ actual[p] \in Hilos
<1>1. /\ sem_values' \in [Semaforos -> Int]
      /\ retenidos' \in [Programas -> [Semaforos -> Int]]
  BY SMTT(30) DEF Esperar, TipoColas, TipoProgramas
<1>2. /\ TipoHilos' /\ tabla_lock' \in [Pares -> Nat]
      /\ sem_blocked' \in [Semaforos -> Seq(Pares)]
      /\ hilo_exec' \in [Programas -> Hilos \cup {Nadie}]
  <2>1. CASE bloquea
    <3>1. <<p, actual[p]>> \in Pares
      BY <2>1 DEF Pares
    <3>2. Reestimar(p, actual[p])
      BY <2>1 DEF Esperar
    <3>3. estimado' \in [Pares -> Estimados] /\ nodo' \in [Pares -> Estimados]
      BY <3>1, <3>2, ReestimarTipo
    <3>4. estado' = [estado EXCEPT ![<<p, actual[p]>>] = "BLOCKED"]
      BY <2>1 DEF Esperar
    <3>5. TipoHilos'
      BY <3>3, <3>4 DEF TipoHilos, Estados
    <3>6. /\ tabla_lock' \in [Pares -> Nat]
          /\ sem_blocked' \in [Semaforos -> Seq(Pares)]
          /\ hilo_exec' \in [Programas -> Hilos \cup {Nadie}]
      <4>1. /\ tabla_lock' = [tabla_lock EXCEPT ![<<p, actual[p]>>] = @ + 1]
            /\ sem_blocked' = [sem_blocked EXCEPT ![s] = Append(@, <<p, actual[p]>>)]
            /\ hilo_exec' = [hilo_exec EXCEPT ![p] = Nadie]
        BY <2>1 DEF Esperar
      <4>2. QED
        BY SMTT(30), <3>1, <4>1 DEF TipoColas, TipoProgramas
    <3>7. QED
      BY <3>5, <3>6
  <2>2. CASE ~bloquea
    BY <2>2 DEF Esperar, TipoHilos, TipoColas, TipoProgramas
  <2>3. QED
    BY <2>1, <2>2
<1>3. TipoColas'
  BY <1>1, <1>2 DEF Esperar, TipoColas
<1>4. TipoProgramas'
  BY <1>1, <1>2 DEF Esperar, TipoProgramas
<1>5. TipoClientes'
  BY DEF Esperar, TipoClientes
<1>6. QED
  BY <1>2, <1>3, <1>4, <1>5

\* SIGNAL keeps the types.
LEMMA TypeSenalar ==
  ASSUME TypeOK, NEW p \in Programas, NEW s \in Semaforos, Senalar(p, s)
  PROVE  TypeOK'
<1> USE DEF TypeOK, Ceder
<1> DEFINE S == IF Cabe(s) THEN {s} ELSE {}
           B == Otorgados(S)
<1>1. S \in SUBSET Semaforos /\ B \in SUBSET Pares
  BY OtorgadosTipo
<1>2. Devolver(S) /\ PasarAReady(B, estado, tablaReady, cont)
  BY DEF Senalar
<1>3. /\ sem_values' \in [Semaforos -> Int] /\ sem_blocked' \in [Semaforos -> Seq(Pares)]
      /\ estado' \in [Pares -> Estados]
      /\ tablaReady' \in [Programas -> SUBSET Hilos] /\ cont' \in [Programas -> Nat]
  BY <1>1, <1>2, OtorgadosTipo, PasarTipo DEF TipoHilos, TipoProgramas
<1>4. vivo' \in BOOLEAN
  BY Zenon DEF Senalar, TrasTocar
<1>5. tabla_lock' \in [Pares -> Nat]
  BY DEF Senalar, TipoColas, QuitarUno
<1>6. TipoHilos'
  BY <1>3 DEF Senalar, TipoHilos
<1>7. TipoColas'
  BY <1>3, <1>4, <1>5 DEF Senalar, TipoColas
<1>8. TipoProgramas'
  <2>1. /\ retenidos' = [retenidos EXCEPT ![p] = [retenidos[p] EXCEPT ![s] = @ - 1]]
        /\ UNCHANGED <<estProg, cant_hilos, joins, hilo_exec, atiende>>
    BY DEF Senalar
  <2>2. [retenidos[p] EXCEPT ![s] = @ - 1] \in [Semaforos -> Int]
    BY DEF TipoProgramas
  <2>3. QED
    BY <1>3, <2>1, <2>2 DEF TipoProgramas
<1>9. TipoClientes'
  BY DEF Senalar, TipoClientes
<1>10. QED
  BY <1>6, <1>7, <1>8, <1>9

\* The end of a program keeps the types.
LEMMA TypeFinalizar ==
  ASSUME TypeOK, NEW p \in Programas, Finalizar(p)
  PROVE  TypeOK'
<1> USE DEF TypeOK
<1> DEFINE S == {s \in Semaforos : retenidos[p][s] > 0 /\ Cabe(s)}
           B == Otorgados(S)
<1>1. S \in SUBSET Semaforos /\ B \in SUBSET Pares
  BY OtorgadosTipo
<1>2. Devolver(S) /\ PasarAReady(B, estado, [tablaReady EXCEPT ![p] = {}], cont)
  BY DEF Finalizar
<1>3. [tablaReady EXCEPT ![p] = {}] \in [Programas -> SUBSET Hilos]
  BY DEF TipoProgramas
<1>4. /\ sem_values' \in [Semaforos -> Int] /\ sem_blocked' \in [Semaforos -> Seq(Pares)]
      /\ estado' \in [Pares -> Estados]
      /\ tablaReady' \in [Programas -> SUBSET Hilos] /\ cont' \in [Programas -> Nat]
  BY <1>1, <1>2, <1>3, OtorgadosTipo, PasarTipo DEF TipoHilos, TipoProgramas
<1>5. vivo' \in BOOLEAN
  BY Zenon DEF Finalizar, TrasTocar
<1>6. TipoHilos'
  BY <1>4 DEF Finalizar, TipoHilos
<1>7. TipoColas'
  BY <1>4, <1>5 DEF Finalizar, TipoColas
<1>8. TipoProgramas'
  <2>1. /\ estProg' = [estProg EXCEPT ![p] = "FINALIZADO"]
        /\ hilo_exec' = [hilo_exec EXCEPT ![p] = Nadie]
        /\ joins' = [joins EXCEPT ![p] = [h \in Hilos |-> 0]]
        /\ retenidos' = [retenidos EXCEPT ![p] = [x \in Semaforos |-> 0]]
        /\ UNCHANGED <<cant_hilos, atiende>>
    BY DEF Finalizar
  <2>2. QED
    BY <1>4, <2>1 DEF TipoProgramas
<1>9. TipoClientes'
  BY DEF Finalizar, TipoClientes
<1>10. QED
  BY <1>6, <1>7, <1>8, <1>9

\* A refused CLOSE of main keeps the types.
LEMMA TypeRetornarMainRechazado ==
  ASSUME TypeOK, NEW p \in Programas, RetornarMainRechazado(p)
  PROVE  TypeOK'
<1> USE DEF TypeOK, RetornarMainRechazado, semVars
<1>1. /\ tabla_new' \in Seq(Pares) /\ cant_programas' \in Int
      /\ estado' \in [Pares -> Estados] /\ vivo' \in BOOLEAN
      /\ tablaReady' \in [Programas -> SUBSET Hilos] /\ cont' \in [Programas -> Nat]
  BY PlanificadorTipo DEF TipoHilos, TipoColas, TipoProgramas
<1>2. TipoHilos' /\ TipoColas'
  BY <1>1 DEF TipoHilos, TipoColas
<1>3. TipoProgramas'
  BY <1>1 DEF TipoProgramas
<1>4. TipoClientes'
  BY DEF TipoClientes
<1>5. QED
  BY <1>2, <1>3, <1>4

\* The death of a process keeps the types.
LEMMA TypeMorir ==
  ASSUME TypeOK, NEW p \in Programas, Morir(p)
  PROVE  TypeOK'
BY DEF Morir, TypeOK, TipoHilos, TipoColas, TipoProgramas, TipoClientes,
       hiloVars, semVars

\* Every step keeps the types: one case per request.
LEMMA TypePaso ==
  ASSUME TypeOK, [Next]_vars
  PROVE  TypeOK'
<1>1. CASE Next
  BY <1>1, TypeConectar, TypeCrear, TypePedirSiguiente, TypeDespachar, TypeUnir,
     TypeCerrarHilo, TypeEsperar, TypeSenalar, TypeFinalizar,
     TypeRetornarMainRechazado, TypeMorir
     DEF Next, Paso, RetornarMain, Desconectar
<1>2. CASE UNCHANGED vars
  BY <1>2 DEF vars, TypeOK, TipoHilos, TipoColas, TipoProgramas, TipoClientes
<1>3. QED
  BY <1>1, <1>2

\* Every variable keeps its type, whatever the programs do or die of.
THEOREM TypeCorrecto == Spec => []TypeOK
BY TypeInicial, TypePaso, PTL DEF Spec

-----------------------------------------------------------------------------
(***************************************************************************)
(* The queues and the counters of the ready lists.  Neither is inductive     *)
(* alone.  Where a handler takes the running ULT from                        *)
(* hilo_exec while the client names it by its tid, both must be the same    *)
(* ULT (DeAcuerdo); while the server thread sleeps in sem_wait its program  *)
(* has no running ULT (Dormidos); and a program that connects finds nothing *)
(* of its own in the queues (SinConectar).                                  *)
(***************************************************************************)

SinConectar ==
  \A p \in Programas : estProg[p] = "NADA" =>
    /\ \A h \in Hilos : estado[<<p, h>>] = "NADA"
    /\ tablaReady[p] = {} /\ cont[p] = 0 /\ hilo_exec[p] = Nadie /\ actual[p] = Main

\* The client runs the ULT the server believes it runs.
DeAcuerdo ==
  \A p \in Programas : (cliente[p] = "corre" /\ Activo(p)) =>
    IF actual[p] = Main THEN hilo_exec[p] = Nadie ELSE hilo_exec[p] = actual[p]

Dormidos ==
  \A p \in Programas : atiende[p] = "sem_wait" => Activo(p) /\ hilo_exec[p] = Nadie

ColasInv ==
  TypeOK /\ UnSoloLugar /\ ContadorExacto /\ DeAcuerdo /\ SinConectar /\ Dormidos

-----------------------------------------------------------------------------
(* The shared pieces of the handlers *)

\* The ready list of program q holds its READY ULTs and its counter counts them.
ListaExacta(est, listas, ctr, q) ==
  /\ \A h \in Hilos : est[<<q, h>>] = "READY" <=> h \in listas[q]
  /\ ctr[q] = Cardinality(listas[q])

\* What PasarAReady does to one program: the ULTs it moves join the ready list
\* once each and are counted once each.
LEMMA PasarListos ==
  ASSUME NEW B \in SUBSET Pares, NEW est \in [Pares -> Estados],
         NEW listas \in [Programas -> SUBSET Hilos],
         NEW ctr \in [Programas -> Nat],
         PasarAReady(B, est, listas, ctr),
         NEW q \in Programas,
         ListaExacta(est, listas, ctr, q),
         \A x \in B : est[x] # "READY"
  PROVE  ListaExacta(estado', tablaReady', cont', q)
<1> DEFINE N == {h \in Hilos : <<q, h>> \in B}
<1>1. tablaReady'[q] = listas[q] \cup N /\ cont'[q] = ctr[q] + Cardinality(N)
  BY DEF PasarAReady
<1>2. \A h \in Hilos : estado'[<<q, h>>] = IF <<q, h>> \in B THEN "READY" ELSE est[<<q, h>>]
  BY DEF PasarAReady, Pares
<1>3. listas[q] \cap N = {}
  BY DEF ListaExacta
<1>4. /\ IsFiniteSet(listas[q]) /\ Cardinality(listas[q]) \in Nat
      /\ IsFiniteSet(N) /\ Cardinality(N) \in Nat
  BY CardinalidadHilos
<1>5. Cardinality(listas[q] \cup N) = Cardinality(listas[q]) + Cardinality(N)
  <2>1. /\ Cardinality(listas[q] \cup N)
             = Cardinality(listas[q]) + Cardinality(N) - Cardinality(listas[q] \cap N)
        /\ Cardinality({}) = 0
    BY <1>4, FS_Union, FS_EmptySet
  <2>2. Cardinality(listas[q] \cap N) = 0
    BY <1>3, <2>1, Zenon
  <2> HIDE DEF N
  <2>3. QED
    BY <1>4, <2>1, <2>2
<1>6. QED
  BY <1>1, <1>2, <1>5 DEF ListaExacta

\* The ULTs moved to ready are READY, the others keep their estado.
LEMMA PasarEstado ==
  ASSUME NEW B \in SUBSET Pares, NEW est, NEW listas, NEW ctr,
         PasarAReady(B, est, listas, ctr), NEW x \in Pares
  PROVE  estado'[x] = IF x \in B THEN "READY" ELSE est[x]
BY DEF PasarAReady

\* The planner moves to ready a prefix of tabla_new, ULTs that are NEW, and
\* leaves the others queued.
LEMMA Admitir ==
  ASSUME NEW c \in Seq(Pares), NEW n \in Int, NEW est \in [Pares -> Estados],
         NEW listas \in [Programas -> SUBSET Hilos], NEW ctr \in [Programas -> Nat],
         SinRepetir(c), \A x \in Pares : est[x] = "NEW" <=> x \in EnCola(c),
         planificadorLargo(c, n, est, listas, ctr)
  PROVE  /\ NuevosEnCola'
         /\ \E B \in SUBSET Pares : /\ \A x \in B : est[x] = "NEW"
                                    /\ PasarAReady(B, est, listas, ctr)
<1> DEFINE k == Cupo(c, n)
           B == {c[i] : i \in 1..k}
           d == SubSeq(c, k + 1, Len(c))
<1>1. k \in 0..Len(c)
  BY CupoTipo
<1>2. B \in SUBSET Pares /\ \A x \in B : est[x] = "NEW"
  BY <1>1 DEF EnCola
<1>3. PasarAReady(B, est, listas, ctr) /\ tabla_new' = d
  BY DEF planificadorLargo
<1> HIDE DEF k
<1>4. /\ Len(d) = Len(c) - k
      /\ \A i \in 1..Len(c) - k : d[i] = c[i + k]
  BY <1>1, SubSeqPropiedades
<1>5. SinRepetir(d)
  BY <1>1, <1>4 DEF SinRepetir
<1>6. EnCola(d) = EnCola(c) \ B
  <2>1. ASSUME NEW x \in EnCola(d) PROVE x \in EnCola(c) /\ x \notin B
    <3>1. PICK i \in 1..Len(d) : x = d[i]
      BY <2>1 DEF EnCola
    <3>2. i + k \in 1..Len(c) /\ x = c[i + k]
      BY SMTT(30), <1>1, <1>4, <3>1
    <3>3. QED
      BY <1>1, <3>2 DEF EnCola, SinRepetir
  <2>2. ASSUME NEW x \in EnCola(c), x \notin B PROVE x \in EnCola(d)
    <3>1. PICK i \in 1..Len(c) : x = c[i]
      BY <2>2 DEF EnCola
    <3>2. i > k
      BY <1>1, <2>2, <3>1
    <3>3. i - k \in 1..Len(d) /\ d[i - k] = x
      BY <1>1, <1>4, <3>1, <3>2
    <3>4. QED
      BY <3>3 DEF EnCola
  <2>3. QED
    BY <2>1, <2>2
<1> HIDE DEF B, d
<1>7. \A x \in Pares : estado'[x] = IF x \in B THEN "READY" ELSE est[x]
  BY SMTT(30), <1>2, <1>3, PasarEstado
<1>8. NuevosEnCola'
  <2>1. SinRepetir(tabla_new')
    BY <1>3, <1>5
  <2>2. \A x \in Pares : estado'[x] = "NEW" <=> x \in EnCola(tabla_new')
    BY <1>2, <1>3, <1>6, <1>7
  <2>3. QED
    BY <2>1, <2>2 DEF NuevosEnCola, SinRepetir, EnCola
<1>9. QED
  BY <1>2, <1>3, <1>8

\* Giving units back wakes ULTs that are BLOCKED, each from one queue.
LEMMA Despertar ==
  ASSUME TypeOK, BloqueadosEnCola, NEW S \in SUBSET Semaforos, Devolver(S)
  PROVE  /\ \A x \in Otorgados(S) : estado[x] = "BLOCKED"
         /\ \A x \in Pares : (\E s \in Semaforos : x \in EnCola(sem_blocked'[s]))
              <=> (estado[x] = "BLOCKED" /\ x \notin Otorgados(S))
         /\ \A s \in Semaforos : SinRepetir(sem_blocked'[s])
         /\ \A s, t \in Semaforos : s # t => EnCola(sem_blocked'[s]) \cap EnCola(sem_blocked'[t]) = {}
<1> DEFINE T == {s \in S : Despierta(s) /\ sem_blocked[s] # <<>>}
<1>1. \A s \in Semaforos : sem_blocked[s] \in Seq(Pares)
  BY DEF TypeOK, TipoColas
<1>2. \A s \in T : /\ Head(sem_blocked[s]) \in EnCola(sem_blocked[s])
                   /\ SinRepetir(Tail(sem_blocked[s]))
                   /\ EnCola(Tail(sem_blocked[s])) = EnCola(sem_blocked[s]) \ {Head(sem_blocked[s])}
  BY <1>1, TailCola DEF BloqueadosEnCola
<1>3. Otorgados(S) = {Head(sem_blocked[s]) : s \in T}
  BY DEF Otorgados
<1>4. \A s \in Semaforos : sem_blocked'[s] = IF s \in T THEN Tail(sem_blocked[s]) ELSE sem_blocked[s]
  BY DEF Devolver
<1>5. \A s \in Semaforos : /\ SinRepetir(sem_blocked'[s])
                           /\ EnCola(sem_blocked'[s]) \subseteq EnCola(sem_blocked[s])
  BY <1>2, <1>4 DEF BloqueadosEnCola
<1>6. \A x \in Otorgados(S) : estado[x] = "BLOCKED"
  <2>1. Otorgados(S) \in SUBSET Pares
    BY OtorgadosTipo
  <2>2. QED
    BY <1>2, <1>3, <2>1 DEF BloqueadosEnCola
<1>7. ASSUME NEW x \in Pares, NEW s \in Semaforos, x \in EnCola(sem_blocked'[s])
      PROVE  estado[x] = "BLOCKED" /\ x \notin Otorgados(S)
  <2>1. x \in EnCola(sem_blocked[s])
    BY <1>5, <1>7
  <2>2. \A t \in T : x = Head(sem_blocked[t]) => t = s
    BY <1>2, <2>1 DEF BloqueadosEnCola
  <2>3. x \notin Otorgados(S)
    BY <1>2, <1>3, <1>4, <1>7, <2>2
  <2>4. QED
    BY <2>1, <2>3 DEF BloqueadosEnCola
<1>8. ASSUME NEW x \in Pares, estado[x] = "BLOCKED", x \notin Otorgados(S)
      PROVE  \E s \in Semaforos : x \in EnCola(sem_blocked'[s])
  <2>1. PICK s \in Semaforos : x \in EnCola(sem_blocked[s])
    BY <1>8 DEF BloqueadosEnCola
  <2>2. QED
    BY <1>2, <1>3, <1>4, <1>8, <2>1
<1>9. QED
  BY <1>5, <1>6, <1>7, <1>8 DEF BloqueadosEnCola

\* tabla_new stays right when it is not touched and nobody enters or leaves NEW.
LEMMA NuevosQuietos ==
  ASSUME NuevosEnCola, UNCHANGED tabla_new,
         \A x \in Pares : estado'[x] = "NEW" <=> estado[x] = "NEW"
  PROVE  NuevosEnCola'
BY DEF NuevosEnCola, SinRepetir, EnCola

\* The same of the semaphore queues and BLOCKED.
LEMMA BloqueadosQuietos ==
  ASSUME BloqueadosEnCola, UNCHANGED sem_blocked,
         \A x \in Pares : estado'[x] = "BLOCKED" <=> estado[x] = "BLOCKED"
  PROVE  BloqueadosEnCola'
<1>1. \A s \in Semaforos : /\ SinRepetir(sem_blocked'[s]) <=> SinRepetir(sem_blocked[s])
                           /\ EnCola(sem_blocked'[s]) = EnCola(sem_blocked[s])
  OBVIOUS
<1>2. QED
  BY ZenonT(40), <1>1 DEF BloqueadosEnCola, SinRepetir, EnCola

\* A request of program p whose handler moves the ULTs of B to ready: if it
\* leaves p's own ready list and CPU in order, those of every program are.
LEMMA TrasPasar ==
  ASSUME ColasInv, NEW p \in Programas, NEW B \in SUBSET Pares,
         NEW est \in [Pares -> Estados], NEW listas \in [Programas -> SUBSET Hilos],
         NEW ctr \in [Programas -> Nat],
         PasarAReady(B, est, listas, ctr),
         \A x \in B : est[x] \notin {"NADA", "READY"},
         \A q \in Programas, h \in Hilos : (q # p /\ <<q, h>> \in B) => est[<<q, h>>] # "EXEC",
         \A q \in Programas \ {p} :
            /\ \A h \in Hilos : est[<<q, h>>] = estado[<<q, h>>]
            /\ listas[q] = tablaReady[q] /\ ctr[q] = cont[q]
            /\ hilo_exec'[q] = hilo_exec[q] /\ estProg'[q] = estProg[q]
            /\ actual'[q] = actual[q],
         estProg'[p] # "NADA",
         Activo(p)' => /\ ListaExacta(est, listas, ctr, p)
                       /\ \A h \in Hilos : (est[<<p, h>>] = "EXEC" /\ <<p, h>> \notin B)
                                             <=> hilo_exec'[p] = h
  PROVE  ListosEnCola' /\ ContadorExacto' /\ SinConectar'
<1>1. \A q \in Programas \ {p} : Activo(q)' => Activo(q)
  BY DEF Activo
<1>2. \A q \in Programas, h \in Hilos :
        estado'[<<q, h>>] = IF <<q, h>> \in B THEN "READY" ELSE est[<<q, h>>]
  BY DEF PasarAReady, Pares
<1>3. ASSUME NEW q \in Programas, Activo(q)'
      PROVE  /\ ListaExacta(est, listas, ctr, q)
             /\ \A h \in Hilos : (est[<<q, h>>] = "EXEC" /\ <<q, h>> \notin B)
                                   <=> hilo_exec'[q] = h
  <2>1. CASE q = p
    BY <1>3, <2>1
  <2>2. CASE q # p
    <3>1. /\ \A h \in Hilos : estado[<<q, h>>] = "READY" <=> h \in tablaReady[q]
          /\ \A h \in Hilos : estado[<<q, h>>] = "EXEC" <=> hilo_exec[q] = h
          /\ cont[q] = Cardinality(tablaReady[q])
      BY <1>1, <1>3, <2>2 DEF ColasInv, UnSoloLugar, ListosEnCola, ContadorExacto
    <3>2. QED
      BY <2>2, <3>1 DEF ListaExacta
  <2>3. QED
    BY <2>1, <2>2
<1>4. ASSUME NEW q \in Programas, Activo(q)'
      PROVE  /\ \A h \in Hilos : estado'[<<q, h>>] = "READY" <=> h \in tablaReady'[q]
             /\ \A h \in Hilos : estado'[<<q, h>>] = "EXEC" <=> hilo_exec'[q] = h
             /\ cont'[q] = Cardinality(tablaReady'[q])
  <2>1. ListaExacta(estado', tablaReady', cont', q)
    <3>1. ListaExacta(est, listas, ctr, q) /\ \A x \in B : est[x] # "READY"
      BY <1>3, <1>4
    <3>2. QED
      BY <3>1, PasarListos
  <2>2. \A h \in Hilos : estado'[<<q, h>>] = "EXEC" <=> hilo_exec'[q] = h
    BY <1>2, <1>3, <1>4
  <2>3. QED
    BY <2>1, <2>2 DEF ListaExacta
<1>5. ASSUME NEW q \in Programas, estProg'[q] = "NADA"
      PROVE  /\ \A h \in Hilos : estado'[<<q, h>>] = "NADA"
             /\ tablaReady'[q] = {} /\ cont'[q] = 0 /\ hilo_exec'[q] = Nadie /\ actual'[q] = Main
  <2>1. q # p /\ estProg[q] = "NADA"
    BY <1>5
  <2>2. /\ \A h \in Hilos : est[<<q, h>>] = "NADA"
        /\ listas[q] = {} /\ ctr[q] = 0 /\ hilo_exec'[q] = Nadie /\ actual'[q] = Main
    BY <2>1 DEF ColasInv, SinConectar
  <2>3. \A h \in Hilos : <<q, h>> \notin B
    BY <2>2
  <2>4. tablaReady'[q] = {} /\ cont'[q] = Cardinality(tablaReady'[q])
    <3>1. ListaExacta(est, listas, ctr, q) /\ \A x \in B : est[x] # "READY"
      BY <2>2, FS_EmptySet DEF ListaExacta
    <3>2. ListaExacta(estado', tablaReady', cont', q)
      BY <3>1, PasarListos
    <3>3. tablaReady' \in [Programas -> SUBSET Hilos]
      BY PasarTipo
    <3>4. \A h \in Hilos : estado'[<<q, h>>] = "NADA"
      BY <1>2, <2>2, <2>3
    <3>5. QED
      BY ZenonT(40), <3>2, <3>3, <3>4 DEF ListaExacta
  <2>5. QED
    BY <1>2, <2>2, <2>3, <2>4, FS_EmptySet
<1>6. QED
  BY <1>4, <1>5 DEF ListosEnCola, ContadorExacto, SinConectar

-----------------------------------------------------------------------------
(* Every request keeps the invariant *)

\* The parts of ColasInv that the planner, a signal or the end of a program
\* can disturb, beside the types.
ColasOrdenadas ==
  NuevosEnCola /\ BloqueadosEnCola /\ ListosEnCola /\ ContadorExacto /\ SinConectar

\* INIT keeps the queues right.
LEMMA ColasConectar ==
  ASSUME ColasInv, NEW p \in Programas, Conectar(p)
  PROVE  ColasOrdenadas' /\ DeAcuerdo' /\ Dormidos'
<1> USE DEF ColasInv, UnSoloLugar
<1>1. /\ estProg[p] = "NADA" /\ estProg' = [estProg EXCEPT ![p] = "ACTIVO"]
      /\ cliente' = [cliente EXCEPT ![p] = "corre"]
      /\ UNCHANGED <<estado, tabla_new, sem_blocked, tablaReady, cont, hilo_exec, atiende, actual>>
  BY DEF Conectar, hiloVars, semVars
<1>2. /\ \A h \in Hilos : estado[<<p, h>>] = "NADA"
      /\ tablaReady[p] = {} /\ cont[p] = 0 /\ hilo_exec[p] = Nadie /\ actual[p] = Main
  BY <1>1 DEF SinConectar
<1>3. NuevosEnCola' /\ BloqueadosEnCola'
  BY <1>1, NuevosQuietos, BloqueadosQuietos
<1>4. \A q \in Programas : q # p => estProg'[q] = estProg[q] /\ cliente'[q] = cliente[q]
  BY <1>1 DEF TypeOK, TipoProgramas, TipoClientes
<1>5. estProg'[p] = "ACTIVO"
  BY <1>1 DEF TypeOK, TipoProgramas
<1>6. ListosEnCola'
  <2>1. \A h \in Hilos : hilo_exec[p] # h
    BY <1>2, ConstantesOK DEF ConstantesOK
  <2>2. QED
    BY <1>1, <1>2, <1>4, <2>1 DEF ListosEnCola, Activo
<1>7. ContadorExacto'
  BY <1>1, <1>2, <1>4, FS_EmptySet DEF ContadorExacto, Activo
<1>8. SinConectar' /\ Dormidos'
  BY <1>1, <1>4, <1>5 DEF SinConectar, Dormidos, Activo
<1>9. DeAcuerdo'
  BY <1>1, <1>2, <1>4 DEF DeAcuerdo, Activo
<1>10. QED
  BY <1>3, <1>6, <1>7, <1>8, <1>9 DEF ColasOrdenadas

\* CREATE_HILO keeps the queues right.
LEMMA ColasCrear ==
  ASSUME ColasInv, NEW p \in Programas, NEW h \in Hilos, Crear(p, h)
  PROVE  ColasOrdenadas' /\ DeAcuerdo' /\ Dormidos'
<1> DEFINE c == Append(tabla_new, <<p, h>>)
           est == [estado EXCEPT ![<<p, h>>] = "NEW"]
<1>1. /\ Activo(p) /\ estado[<<p, h>>] = "NADA"
      /\ planificadorLargo(c, cant_programas, est, tablaReady, cont)
      /\ UNCHANGED <<sem_blocked, estProg, hilo_exec, atiende, cliente, actual>>
  BY DEF Crear, semVars, Corre, Escucha, Activo
<1>2. /\ <<p, h>> \in Pares /\ tabla_new \in Seq(Pares) /\ cant_programas \in Int
      /\ estado \in [Pares -> Estados] /\ est \in [Pares -> Estados]
      /\ tablaReady \in [Programas -> SUBSET Hilos] /\ cont \in [Programas -> Nat]
  BY DEF ColasInv, TypeOK, TipoHilos, TipoColas, TipoProgramas, Pares, Estados
<1>3. /\ c \in Seq(Pares) /\ SinRepetir(c)
      /\ \A x \in Pares : est[x] = "NEW" <=> x \in EnCola(c)
  <2>1. /\ SinRepetir(tabla_new) /\ <<p, h>> \notin EnCola(tabla_new)
        /\ \A x \in Pares : estado[x] = "NEW" <=> x \in EnCola(tabla_new)
    BY <1>1, <1>2 DEF ColasInv, UnSoloLugar, NuevosEnCola
  <2>2. c \in Seq(Pares) /\ SinRepetir(c) /\ EnCola(c) = EnCola(tabla_new) \cup {<<p, h>>}
    BY ZenonT(40), <1>2, <2>1, AppendCola
  <2> HIDE DEF c
  <2>3. \A x \in Pares : est[x] = IF x = <<p, h>> THEN "NEW" ELSE estado[x]
    BY <1>2
  <2>4. QED
    BY <2>1, <2>2, <2>3
<1> HIDE DEF c
<1>4. PICK B \in SUBSET Pares : /\ \A x \in B : est[x] = "NEW"
                                /\ PasarAReady(B, est, tablaReady, cont)
  BY ZenonT(40), <1>1, <1>2, <1>3, Admitir
<1>5. NuevosEnCola'
  BY <1>1, <1>2, <1>3, Admitir
<1>6. \A x \in Pares : /\ est[x] = IF x = <<p, h>> THEN "NEW" ELSE estado[x]
                       /\ estado'[x] = IF x \in B THEN "READY" ELSE est[x]
  BY <1>2, <1>4 DEF PasarAReady
<1>7. BloqueadosEnCola'
  BY <1>1, <1>4, <1>6, BloqueadosQuietos DEF ColasInv, UnSoloLugar
<1>8. ListosEnCola' /\ ContadorExacto' /\ SinConectar'
  <2>1. \A q \in Programas, g \in Hilos : <<q, g>> \in Pares
    BY DEF Pares
  <2>2. /\ ListaExacta(est, tablaReady, cont, p)
        /\ \A g \in Hilos : (est[<<p, g>>] = "EXEC" /\ <<p, g>> \notin B) <=> hilo_exec'[p] = g
    BY <1>1, <1>4, <1>6, <2>1
       DEF ListaExacta, ColasInv, UnSoloLugar, ListosEnCola, ContadorExacto
  <2>3. \A q \in Programas \ {p}, g \in Hilos : est[<<q, g>>] = estado[<<q, g>>]
    BY <1>6, <2>1
  <2>4. estProg'[p] # "NADA"
    BY <1>1 DEF Activo
  <2> HIDE DEF est
  <2>5. /\ \A x \in B : est[x] \notin {"NADA", "READY"}
        /\ \A q \in Programas, g \in Hilos : (q # p /\ <<q, g>> \in B) => est[<<q, g>>] # "EXEC"
    BY <1>4
  <2>6. \A q \in Programas \ {p} :
           /\ \A g \in Hilos : est[<<q, g>>] = estado[<<q, g>>]
           /\ tablaReady[q] = tablaReady[q] /\ cont[q] = cont[q]
           /\ hilo_exec'[q] = hilo_exec[q] /\ estProg'[q] = estProg[q] /\ actual'[q] = actual[q]
    BY <1>1, <2>3
  <2>7. QED
    BY <1>2, <1>4, <2>2, <2>4, <2>5, <2>6, TrasPasar
<1>9. DeAcuerdo' /\ Dormidos'
  BY <1>1 DEF ColasInv, DeAcuerdo, Dormidos, Activo
<1>10. QED
  BY <1>5, <1>7, <1>8, <1>9 DEF ColasOrdenadas

\* The first half of SCHEDULE_NEXT keeps the queues right.
LEMMA ColasPedirSiguiente ==
  ASSUME ColasInv, NEW p \in Programas, PedirSiguiente(p)
  PROVE  ColasOrdenadas' /\ DeAcuerdo' /\ Dormidos'
<1> DEFINE h == hilo_exec[p]
           B == IF h = Nadie THEN {} ELSE {<<p, h>>}
<1>1. /\ Activo(p) /\ hilo_exec' = [hilo_exec EXCEPT ![p] = Nadie]
      /\ UNCHANGED <<tabla_new, sem_blocked, estProg>>
      /\ h # Nadie => PasarAReady({<<p, h>>}, estado, tablaReady, cont)
      /\ h = Nadie => UNCHANGED <<estado, tablaReady, cont>>
      /\ \/ /\ cliente' = [cliente EXCEPT ![p] = "corre"]
            /\ actual' = [actual EXCEPT ![p] = Main]
            /\ atiende[p] = "recv" /\ UNCHANGED atiende
         \/ /\ cliente' = [cliente EXCEPT ![p] = "espera"]
            /\ atiende' = [atiende EXCEPT ![p] = "sem_wait"]
            /\ UNCHANGED actual
  BY DEF PedirSiguiente, semVars, hiloVars, Escucha, Activo
<1>2. /\ estado \in [Pares -> Estados] /\ hilo_exec \in [Programas -> Hilos \cup {Nadie}]
      /\ tablaReady \in [Programas -> SUBSET Hilos] /\ cont \in [Programas -> Nat]
      /\ estProg \in [Programas -> {"NADA", "ACTIVO", "BLOQUEADO", "FINALIZADO"}]
      /\ cliente \in [Programas -> {"fuera", "corre", "cede", "espera", "salio"}]
      /\ actual \in [Programas -> Hilos \cup {Main}]
      /\ atiende \in [Programas -> {"recv", "sem_wait"}]
  BY DEF ColasInv, TypeOK, TipoHilos, TipoProgramas, TipoClientes
<1>3. h # Nadie => <<p, h>> \in Pares /\ estado[<<p, h>>] = "EXEC"
  BY <1>1, <1>2 DEF ColasInv, UnSoloLugar, ListosEnCola, Pares
<1>4. \A x \in Pares : estado'[x] = IF x \in B THEN "READY" ELSE estado[x]
  BY <1>1, <1>2 DEF PasarAReady
<1>5. NuevosEnCola' /\ BloqueadosEnCola'
  <2>1. \A x \in Pares : (estado'[x] = "NEW" <=> estado[x] = "NEW")
                          /\ (estado'[x] = "BLOCKED" <=> estado[x] = "BLOCKED")
    BY <1>3, <1>4
  <2>2. QED
    BY <1>1, <2>1, NuevosQuietos, BloqueadosQuietos DEF ColasInv, UnSoloLugar
<1>6. /\ \A q \in Programas : hilo_exec'[q] = IF q = p THEN Nadie ELSE hilo_exec[q]
      /\ \A q \in Programas \ {p} : /\ cliente'[q] = cliente[q] /\ actual'[q] = actual[q]
                                    /\ atiende'[q] = atiende[q]
  BY <1>1, <1>2
<1>7. DeAcuerdo' /\ Dormidos'
  <2>1. cliente'[p] = "corre" => actual'[p] = Main
    BY <1>1, <1>2
  <2>2. QED
    BY <1>1, <1>6, <2>1 DEF ColasInv, DeAcuerdo, Dormidos, Activo
<1>8. ListosEnCola' /\ ContadorExacto' /\ SinConectar'
  <2>1. /\ ListaExacta(estado, tablaReady, cont, p)
        /\ \A g \in Hilos : estado[<<p, g>>] = "EXEC" <=> h = g
    BY <1>1 DEF ListaExacta, ColasInv, UnSoloLugar, ListosEnCola, ContadorExacto
  <2>2. CASE h = Nadie
    <3>1. UNCHANGED <<estado, tablaReady, cont, estProg, hilo_exec>>
      BY <1>1, <1>2, <2>2
    <3>2. ListosEnCola' /\ ContadorExacto'
      BY <3>1 DEF ColasInv, UnSoloLugar, ListosEnCola, ContadorExacto, Activo
    <3>3. SinConectar'
      BY <1>1, <1>6, <3>1 DEF ColasInv, SinConectar, Activo
    <3>4. QED
      BY <3>2, <3>3
  <2>3. CASE h # Nadie
    <3>1. PasarAReady(B, estado, tablaReady, cont) /\ B \in SUBSET Pares
      BY <1>1, <1>3, <2>3
    <3>2. \A g \in Hilos : (estado[<<p, g>>] = "EXEC" /\ <<p, g>> \notin B)
                             <=> hilo_exec'[p] = g
      BY <1>6, <2>1, <2>3, ConstantesOK DEF ConstantesOK
    <3>3. /\ \A x \in B : estado[x] \notin {"NADA", "READY"}
          /\ \A q \in Programas, g \in Hilos : (q # p /\ <<q, g>> \in B) => estado[<<q, g>>] # "EXEC"
      BY <1>3, <2>3
    <3>4. estProg'[p] # "NADA"
      BY <1>1 DEF Activo
    <3> HIDE DEF B
    <3>5. QED
      BY <1>1, <1>2, <1>6, <2>1, <3>1, <3>2, <3>3, <3>4, TrasPasar
  <2>4. QED
    BY <2>2, <2>3
<1>9. QED
  BY <1>5, <1>7, <1>8 DEF ColasOrdenadas

\* The second half of SCHEDULE_NEXT keeps the queues right.
LEMMA ColasDespachar ==
  ASSUME ColasInv, NEW p \in Programas, Despachar(p)
  PROVE  ColasOrdenadas' /\ DeAcuerdo' /\ Dormidos'
<1>1. Activo(p) /\ hilo_exec[p] = Nadie
  BY DEF Despachar, ColasInv, Dormidos
<1>2. /\ estado \in [Pares -> Estados] /\ hilo_exec \in [Programas -> Hilos \cup {Nadie}]
      /\ tablaReady \in [Programas -> SUBSET Hilos] /\ cont \in [Programas -> Nat]
      /\ cliente \in [Programas -> {"fuera", "corre", "cede", "espera", "salio"}]
      /\ actual \in [Programas -> Hilos \cup {Main}]
      /\ atiende \in [Programas -> {"recv", "sem_wait"}]
  BY DEF ColasInv, TypeOK, TipoHilos, TipoProgramas, TipoClientes
<1>3. tablaReady[p] # {}
  <2>1. cont[p] > 0 /\ cont[p] = Cardinality(tablaReady[p])
    BY <1>1 DEF Despachar, ColasInv, ContadorExacto
  <2>2. QED
    BY <2>1, FS_EmptySet
<1>4. PICK h \in tablaReady[p] :
        /\ tablaReady' = [tablaReady EXCEPT ![p] = @ \ {h}]
        /\ estado' = [estado EXCEPT ![<<p, h>>] = "EXEC"]
        /\ hilo_exec' = [hilo_exec EXCEPT ![p] = h]
        /\ atiende' = [atiende EXCEPT ![p] = "recv"]
        /\ \/ cliente[p] = "salio" /\ UNCHANGED <<cliente, actual>>
           \/ /\ cliente' = [cliente EXCEPT ![p] = "corre"]
              /\ actual' = [actual EXCEPT ![p] = h]
  BY <1>3 DEF Despachar
<1>5. /\ cont' = [cont EXCEPT ![p] = @ - 1]
      /\ UNCHANGED <<tabla_new, sem_blocked, estProg>>
  BY DEF Despachar, semVars
<1>6. /\ h \in Hilos /\ <<p, h>> \in Pares /\ estado[<<p, h>>] = "READY"
      /\ \A x \in Pares : estado'[x] = IF x = <<p, h>> THEN "EXEC" ELSE estado[x]
  BY <1>1, <1>2, <1>4 DEF Pares, ColasInv, UnSoloLugar, ListosEnCola
<1>7. NuevosEnCola' /\ BloqueadosEnCola'
  <2>1. \A x \in Pares : (estado'[x] = "NEW" <=> estado[x] = "NEW")
                          /\ (estado'[x] = "BLOCKED" <=> estado[x] = "BLOCKED")
    BY <1>6
  <2>2. QED
    BY <1>5, <2>1, NuevosQuietos, BloqueadosQuietos DEF ColasInv, UnSoloLugar
<1>8. \A q \in Programas \ {p} :
        /\ tablaReady'[q] = tablaReady[q] /\ cont'[q] = cont[q]
        /\ hilo_exec'[q] = hilo_exec[q] /\ cliente'[q] = cliente[q]
        /\ actual'[q] = actual[q] /\ atiende'[q] = atiende[q]
        /\ \A g \in Hilos : <<q, g>> \in Pares /\ estado'[<<q, g>>] = estado[<<q, g>>]
  BY <1>2, <1>4, <1>5, <1>6 DEF Pares
<1>9. /\ tablaReady'[p] = tablaReady[p] \ {h} /\ cont'[p] = cont[p] - 1
      /\ hilo_exec'[p] = h /\ atiende'[p] = "recv"
      /\ cliente'[p] = "corre" => actual'[p] = h
  BY <1>2, <1>4, <1>5
<1>10. ListosEnCola'
  <2>1. \A g \in Hilos : /\ estado'[<<p, g>>] = "READY" <=> g \in tablaReady'[p]
                         /\ estado'[<<p, g>>] = "EXEC" <=> hilo_exec'[p] = g
    <3>1. \A g \in Hilos : /\ <<p, g>> \in Pares
                           /\ estado[<<p, g>>] = "READY" <=> g \in tablaReady[p]
                           /\ estado[<<p, g>>] # "EXEC"
      BY <1>1, ConstantesOK DEF Pares, ColasInv, UnSoloLugar, ListosEnCola, ConstantesOK
    <3>2. QED
      BY <1>6, <1>9, <3>1
  <2>2. QED
    BY <1>5, <1>8, <2>1 DEF ColasInv, UnSoloLugar, ListosEnCola, Activo
<1>11. ContadorExacto'
  <2>1. Cardinality(tablaReady[p] \ {h}) = Cardinality(tablaReady[p]) - 1
    BY <1>2, <1>4, CardinalidadHilos, FS_RemoveElement
  <2>2. QED
    BY <1>1, <1>5, <1>8, <1>9, <2>1 DEF ColasInv, ContadorExacto, Activo
<1>12. SinConectar'
  BY <1>1, <1>5, <1>8 DEF ColasInv, SinConectar, Activo
<1>13. DeAcuerdo'
  BY <1>5, <1>6, <1>8, <1>9, ConstantesOK DEF ColasInv, DeAcuerdo, Activo, ConstantesOK
<1>14. Dormidos'
  BY <1>5, <1>8, <1>9 DEF ColasInv, Dormidos, Activo
<1>15. QED
  BY <1>7, <1>10, <1>11, <1>12, <1>13, <1>14 DEF ColasOrdenadas

\* A step that touches no queue and finishes no program.
LEMMA ColasQuietas ==
  ASSUME ColasInv,
         UNCHANGED <<estado, tabla_new, sem_blocked, tablaReady, cont, hilo_exec, actual>>,
         \A q \in Programas : estProg'[q] = estProg[q] \/ (Activo(q) /\ Activo(q)')
  PROVE  ColasOrdenadas'
<1>1. NuevosEnCola' /\ BloqueadosEnCola'
  BY NuevosQuietos, BloqueadosQuietos DEF ColasInv, UnSoloLugar
<1>2. ListosEnCola' /\ ContadorExacto'
  BY DEF ColasInv, UnSoloLugar, ListosEnCola, ContadorExacto, Activo
<1>3. SinConectar'
  BY DEF ColasInv, SinConectar, Activo
<1>4. QED
  BY <1>1, <1>2, <1>3 DEF ColasOrdenadas

\* JOIN keeps the queues right.
LEMMA ColasUnir ==
  ASSUME ColasInv, NEW p \in Programas, NEW h \in Hilos, Unir(p, h)
  PROVE  ColasOrdenadas' /\ DeAcuerdo' /\ Dormidos'
<1>1. /\ Activo(p) /\ cliente' = [cliente EXCEPT ![p] = "cede"]
      /\ estProg' = [estProg EXCEPT ![p] = "BLOQUEADO"] \/ UNCHANGED estProg
      /\ UNCHANGED <<estado, tabla_new, sem_blocked, tablaReady, cont, hilo_exec, atiende, actual>>
  BY DEF Unir, Ceder, hiloVars, semVars, Corre, Escucha, Activo
<1>2. /\ \A q \in Programas : estProg'[q] = estProg[q] \/ (Activo(q) /\ Activo(q)')
      /\ \A q \in Programas : cliente'[q] = IF q = p THEN "cede" ELSE cliente[q]
  BY <1>1 DEF ColasInv, TypeOK, TipoProgramas, TipoClientes, Activo
<1>3. DeAcuerdo' /\ Dormidos'
  BY <1>1, <1>2 DEF ColasInv, DeAcuerdo, Dormidos, Activo
<1>4. QED
  BY <1>1, <1>2, <1>3, ColasQuietas

\* The death of a process keeps the queues right.
LEMMA ColasMorir ==
  ASSUME ColasInv, NEW p \in Programas, Morir(p)
  PROVE  ColasOrdenadas' /\ DeAcuerdo' /\ Dormidos'
<1>1. /\ cliente' = [cliente EXCEPT ![p] = "salio"]
      /\ UNCHANGED <<estado, tabla_new, sem_blocked, tablaReady, cont, hilo_exec, estProg,
                     atiende, actual>>
  BY DEF Morir, hiloVars, semVars
<1>2. \A q \in Programas : cliente'[q] = IF q = p THEN "salio" ELSE cliente[q]
  BY <1>1 DEF ColasInv, TypeOK, TipoClientes
<1>3. DeAcuerdo' /\ Dormidos'
  BY <1>1, <1>2 DEF ColasInv, DeAcuerdo, Dormidos, Activo
<1>4. QED
  BY <1>1, <1>3, ColasQuietas

\* CLOSE of a ULT keeps the queues right.
LEMMA ColasCerrarHilo ==
  ASSUME ColasInv, NEW p \in Programas, NEW h \in Hilos, CerrarHilo(p, h)
  PROVE  ColasOrdenadas' /\ DeAcuerdo' /\ Dormidos'
<1> DEFINE est == [estado EXCEPT ![<<p, h>>] = "EXIT"]
<1>1. /\ Activo(p) /\ estado[<<p, h>>] = "EXEC" /\ hilo_exec' = [hilo_exec EXCEPT ![p] = Nadie]
      /\ planificadorLargo(tabla_new, cant_programas - 1, est, tablaReady, cont)
      /\ estProg' = [estProg EXCEPT ![p] = "ACTIVO"] \/ UNCHANGED estProg
      /\ cliente' = [cliente EXCEPT ![p] = "cede"]
      /\ atiende[p] = "recv"
      /\ UNCHANGED <<sem_blocked, atiende, actual>>
  BY DEF CerrarHilo, Ceder, semVars, Corre, Escucha, Activo
<1>2. /\ <<p, h>> \in Pares /\ tabla_new \in Seq(Pares) /\ cant_programas - 1 \in Int
      /\ estado \in [Pares -> Estados] /\ est \in [Pares -> Estados]
      /\ tablaReady \in [Programas -> SUBSET Hilos] /\ cont \in [Programas -> Nat]
  BY DEF ColasInv, TypeOK, TipoHilos, TipoColas, TipoProgramas, Pares, Estados
<1>3. /\ \A x \in Pares : est[x] = IF x = <<p, h>> THEN "EXIT" ELSE estado[x]
      /\ SinRepetir(tabla_new)
      /\ \A x \in Pares : est[x] = "NEW" <=> x \in EnCola(tabla_new)
  BY <1>1, <1>2 DEF ColasInv, UnSoloLugar, NuevosEnCola
<1>4. PICK B \in SUBSET Pares : /\ \A x \in B : est[x] = "NEW"
                                /\ PasarAReady(B, est, tablaReady, cont)
  BY ZenonT(40), <1>1, <1>2, <1>3, Admitir
<1>5. NuevosEnCola'
  BY <1>1, <1>2, <1>3, Admitir
<1>6. \A x \in Pares : estado'[x] = IF x \in B THEN "READY" ELSE est[x]
  BY <1>2, <1>4 DEF PasarAReady
<1>7. BloqueadosEnCola'
  BY <1>1, <1>3, <1>4, <1>6, BloqueadosQuietos DEF ColasInv, UnSoloLugar
<1>8. /\ \A q \in Programas : hilo_exec'[q] = IF q = p THEN Nadie ELSE hilo_exec[q]
      /\ \A q \in Programas : cliente'[q] = IF q = p THEN "cede" ELSE cliente[q]
      /\ \A q \in Programas : q # p => estProg'[q] = estProg[q]
      /\ Activo(p)'
  BY <1>1 DEF ColasInv, TypeOK, TipoProgramas, TipoClientes, Activo
<1>9. ListosEnCola' /\ ContadorExacto' /\ SinConectar'
  <2>1. \A q \in Programas, g \in Hilos : <<q, g>> \in Pares
    BY DEF Pares
  <2>2. /\ ListaExacta(estado, tablaReady, cont, p)
        /\ \A g \in Hilos : estado[<<p, g>>] = "EXEC" <=> hilo_exec[p] = g
    BY <1>1 DEF ListaExacta, ColasInv, UnSoloLugar, ListosEnCola, ContadorExacto
  <2>3. /\ ListaExacta(est, tablaReady, cont, p)
        /\ \A g \in Hilos : est[<<p, g>>] # "EXEC"
    BY <1>1, <1>3, <2>1, <2>2 DEF ListaExacta
  <2>4. \A g \in Hilos : (est[<<p, g>>] = "EXEC" /\ <<p, g>> \notin B) <=> hilo_exec'[p] = g
    BY <1>8, <2>3, ConstantesOK DEF ConstantesOK
  <2>5. \A q \in Programas \ {p}, g \in Hilos : est[<<q, g>>] = estado[<<q, g>>]
    BY <1>3, <2>1
  <2>6. estProg'[p] # "NADA"
    BY <1>8 DEF Activo
  <2> HIDE DEF est
  <2>7. /\ \A x \in B : est[x] \notin {"NADA", "READY"}
        /\ \A q \in Programas, g \in Hilos : (q # p /\ <<q, g>> \in B) => est[<<q, g>>] # "EXEC"
    BY <1>4
  <2>8. \A q \in Programas \ {p} :
           /\ \A g \in Hilos : est[<<q, g>>] = estado[<<q, g>>]
           /\ tablaReady[q] = tablaReady[q] /\ cont[q] = cont[q]
           /\ hilo_exec'[q] = hilo_exec[q] /\ estProg'[q] = estProg[q] /\ actual'[q] = actual[q]
    BY <1>1, <1>8, <2>5
  <2>9. QED
    BY SMTT(30), <1>2, <1>4, <2>3, <2>4, <2>6, <2>7, <2>8, TrasPasar
<1>10. DeAcuerdo' /\ Dormidos'
  BY <1>1, <1>8 DEF ColasInv, DeAcuerdo, Dormidos, Activo
<1>11. QED
  BY <1>5, <1>7, <1>9, <1>10 DEF ColasOrdenadas

\* WAIT keeps the queues right.
LEMMA ColasEsperar ==
  ASSUME ColasInv, NEW p \in Programas, NEW s \in Semaforos, Esperar(p, s)
  PROVE  ColasOrdenadas' /\ DeAcuerdo' /\ Dormidos'
<1> DEFINE h == actual[p]
<1>1. /\ Activo(p) /\ cliente[p] = "corre" /\ cliente' = [cliente EXCEPT ![p] = "cede"]
      /\ atiende[p] = "recv"
      /\ UNCHANGED <<tabla_new, estProg, tablaReady, cont, atiende, actual>>
  BY DEF Esperar, Ceder, Corre, Escucha, Activo
<1>2. \A q \in Programas : cliente'[q] = IF q = p THEN "cede" ELSE cliente[q]
  BY <1>1 DEF ColasInv, TypeOK, TipoClientes
<1>3. CASE SinUnidad(s) /\ h \in Hilos
  <2>1. /\ estado' = [estado EXCEPT ![<<p, h>>] = "BLOCKED"]
        /\ sem_blocked' = [sem_blocked EXCEPT ![s] = Append(@, <<p, h>>)]
        /\ hilo_exec' = [hilo_exec EXCEPT ![p] = Nadie]
    BY <1>3 DEF Esperar
  <2>2. /\ <<p, h>> \in Pares /\ estado \in [Pares -> Estados]
        /\ sem_blocked \in [Semaforos -> Seq(Pares)]
    BY <1>3 DEF ColasInv, TypeOK, TipoHilos, TipoColas, Pares
  <2>3. hilo_exec[p] = h /\ estado[<<p, h>>] = "EXEC"
    BY <1>1, <1>3, ConstantesOK
       DEF ColasInv, DeAcuerdo, UnSoloLugar, ListosEnCola, ConstantesOK
  <2>4. /\ \A x \in Pares : estado'[x] = IF x = <<p, h>> THEN "BLOCKED" ELSE estado[x]
        /\ \A q \in Programas : hilo_exec'[q] = IF q = p THEN Nadie ELSE hilo_exec[q]
    BY <2>1, <2>2 DEF ColasInv, TypeOK, TipoProgramas
  <2>5. NuevosEnCola'
    BY <1>1, <2>3, <2>4, NuevosQuietos DEF ColasInv, UnSoloLugar
  <2>6. BloqueadosEnCola'
    <3>1. /\ \A t \in Semaforos : SinRepetir(sem_blocked[t])
          /\ \A t, u \in Semaforos : t # u => EnCola(sem_blocked[t]) \cap EnCola(sem_blocked[u]) = {}
          /\ \A x \in Pares : estado[x] = "BLOCKED" <=> \E t \in Semaforos : x \in EnCola(sem_blocked[t])
      BY DEF ColasInv, UnSoloLugar, BloqueadosEnCola
    <3>2. \A t \in Semaforos : <<p, h>> \notin EnCola(sem_blocked[t])
      BY <2>2, <2>3, <3>1
    <3>3. \A t \in Semaforos :
            sem_blocked'[t] = IF t = s THEN Append(sem_blocked[t], <<p, h>>) ELSE sem_blocked[t]
      BY <2>1, <2>2
    <3>4. \A t \in Semaforos :
            /\ SinRepetir(sem_blocked'[t])
            /\ EnCola(sem_blocked'[t]) = IF t = s THEN EnCola(sem_blocked[t]) \cup {<<p, h>>}
                                         ELSE EnCola(sem_blocked[t])
      <4>1. /\ SinRepetir(Append(sem_blocked[s], <<p, h>>))
            /\ EnCola(Append(sem_blocked[s], <<p, h>>)) = EnCola(sem_blocked[s]) \cup {<<p, h>>}
        <5> DEFINE c == sem_blocked[s]
                   x == <<p, h>>
        <5>1. c \in Seq(Pares) /\ x \in Pares /\ SinRepetir(c) /\ x \notin EnCola(c)
          BY <2>2, <3>1, <3>2
        <5> HIDE DEF c, x
        <5>2. SinRepetir(Append(c, x)) /\ EnCola(Append(c, x)) = EnCola(c) \cup {x}
          BY <5>1, AppendCola
        <5>3. QED
          BY <5>2 DEF c, x
      <4>2. QED
        BY <3>1, <3>3, <4>1
    <3>5. \A t, u \in Semaforos : t # u => EnCola(sem_blocked'[t]) \cap EnCola(sem_blocked'[u]) = {}
      <4>1. SUFFICES ASSUME NEW t \in Semaforos, NEW u \in Semaforos, t # u
                     PROVE  EnCola(sem_blocked'[t]) \cap EnCola(sem_blocked'[u]) = {}
        OBVIOUS
      <4>2. EnCola(sem_blocked[t]) \cap EnCola(sem_blocked[u]) = {}
        BY <3>1, <4>1
      <4>3. QED
        BY <3>2, <3>4, <4>1, <4>2
    <3>6. \A x \in Pares : estado'[x] = "BLOCKED" <=> \E t \in Semaforos : x \in EnCola(sem_blocked'[t])
      <4>1. SUFFICES ASSUME NEW x \in Pares
                     PROVE  estado'[x] = "BLOCKED" <=> \E t \in Semaforos : x \in EnCola(sem_blocked'[t])
        OBVIOUS
      <4>2. CASE x = <<p, h>>
        BY <2>4, <3>4, <4>2
      <4>3. CASE x # <<p, h>>
        <5>1. \A t \in Semaforos : x \in EnCola(sem_blocked'[t]) <=> x \in EnCola(sem_blocked[t])
          BY <3>4, <4>3
        <5>2. QED
          BY <2>4, <3>1, <4>3, <5>1
      <4>4. QED
        BY <4>2, <4>3
    <3>7. QED
      BY <3>4, <3>5, <3>6 DEF BloqueadosEnCola, SinRepetir, EnCola
  <2>7. ListosEnCola'
    <3>1. \A q \in Programas, g \in Hilos : <<q, g>> \in Pares
      BY DEF Pares
    <3>2. QED
      BY <1>1, <2>3, <2>4, <3>1, ConstantesOK
         DEF ColasInv, UnSoloLugar, ListosEnCola, Activo, ConstantesOK
  <2>8. ContadorExacto'
    BY <1>1 DEF ColasInv, ContadorExacto, Activo
  <2>9. SinConectar'
    <3>1. \A q \in Programas : estProg[q] = "NADA" => q # p
      BY <1>1 DEF Activo
    <3>2. \A q \in Programas, g \in Hilos : <<q, g>> \in Pares
      BY DEF Pares
    <3>3. QED
      BY <1>1, <2>4, <3>1, <3>2 DEF ColasInv, SinConectar
  <2>10. DeAcuerdo' /\ Dormidos'
    BY <1>1, <1>2, <2>4 DEF ColasInv, DeAcuerdo, Dormidos, Activo
  <2>11. QED
    BY <2>5, <2>6, <2>7, <2>8, <2>9, <2>10 DEF ColasOrdenadas
<1>4. CASE ~(SinUnidad(s) /\ h \in Hilos)
  <2>1. UNCHANGED <<estado, sem_blocked, hilo_exec>>
    BY <1>4 DEF Esperar, hiloVars
  <2>2. ColasOrdenadas'
    BY <1>1, <2>1, ColasQuietas
  <2>3. DeAcuerdo' /\ Dormidos'
    BY <1>1, <1>2, <2>1 DEF ColasInv, DeAcuerdo, Dormidos, Activo
  <2>4. QED
    BY <2>2, <2>3
<1>5. QED
  BY <1>3, <1>4

\* Giving units back, with the ready list of p emptied or not.
LEMMA ColasDevolver ==
  ASSUME ColasInv, NEW p \in Programas, Activo(p), NEW S \in SUBSET Semaforos,
         NEW listas \in [Programas -> SUBSET Hilos],
         Devolver(S), PasarAReady(Otorgados(S), estado, listas, cont),
         \A q \in Programas \ {p} :
            /\ listas[q] = tablaReady[q]
            /\ hilo_exec'[q] = hilo_exec[q] /\ estProg'[q] = estProg[q],
         estProg'[p] # "NADA",
         Activo(p)' => listas[p] = tablaReady[p] /\ hilo_exec'[p] = hilo_exec[p],
         UNCHANGED <<tabla_new, actual>>
  PROVE  ColasOrdenadas'
<1> DEFINE B == Otorgados(S)
<1>1. /\ estado \in [Pares -> Estados] /\ cont \in [Programas -> Nat] /\ B \in SUBSET Pares
      /\ \A q \in Programas, g \in Hilos : <<q, g>> \in Pares
  BY OtorgadosTipo DEF ColasInv, TypeOK, TipoHilos, TipoProgramas, Pares
<1>2. /\ \A x \in B : estado[x] = "BLOCKED"
      /\ \A x \in Pares : (\E s \in Semaforos : x \in EnCola(sem_blocked'[s]))
           <=> (estado[x] = "BLOCKED" /\ x \notin B)
      /\ \A s \in Semaforos : SinRepetir(sem_blocked'[s])
      /\ \A s, t \in Semaforos : s # t => EnCola(sem_blocked'[s]) \cap EnCola(sem_blocked'[t]) = {}
  BY Despertar DEF ColasInv, UnSoloLugar
<1> HIDE DEF B
<1>3. \A x \in Pares : estado'[x] = IF x \in B THEN "READY" ELSE estado[x]
  BY <1>1 DEF PasarAReady, B
<1>4. NuevosEnCola'
  BY <1>2, <1>3, NuevosQuietos DEF ColasInv, UnSoloLugar
<1>5. BloqueadosEnCola'
  <2>1. \A x \in Pares : estado'[x] = "BLOCKED" <=> \E s \in Semaforos : x \in EnCola(sem_blocked'[s])
    BY <1>2, <1>3
  <2>2. QED
    BY <1>2, <2>1 DEF BloqueadosEnCola, SinRepetir, EnCola
<1>6. Activo(p)' => /\ ListaExacta(estado, listas, cont, p)
                    /\ \A h \in Hilos : (estado[<<p, h>>] = "EXEC" /\ <<p, h>> \notin B)
                                          <=> hilo_exec'[p] = h
  <2>1. /\ ListaExacta(estado, tablaReady, cont, p)
        /\ \A h \in Hilos : estado[<<p, h>>] = "EXEC" <=> hilo_exec[p] = h
    BY DEF ListaExacta, ColasInv, UnSoloLugar, ListosEnCola, ContadorExacto
  <2>2. QED
    BY <1>2, <2>1 DEF ListaExacta
<1>7. PasarAReady(B, estado, listas, cont)
  BY DEF B
<1>8. ListosEnCola' /\ ContadorExacto' /\ SinConectar'
  BY <1>1, <1>2, <1>6, <1>7, TrasPasar
<1>9. QED
  BY <1>4, <1>5, <1>8 DEF ColasOrdenadas

\* SIGNAL keeps the queues right.
LEMMA ColasSenalar ==
  ASSUME ColasInv, NEW p \in Programas, NEW s \in Semaforos, Senalar(p, s)
  PROVE  ColasOrdenadas' /\ DeAcuerdo' /\ Dormidos'
<1> DEFINE S == IF Cabe(s) THEN {s} ELSE {}
<1>1. /\ Activo(p) /\ S \in SUBSET Semaforos
      /\ Devolver(S) /\ PasarAReady(Otorgados(S), estado, tablaReady, cont)
      /\ cliente' = [cliente EXCEPT ![p] = "cede"]
      /\ UNCHANGED <<tabla_new, estProg, hilo_exec, atiende, actual>>
  BY DEF Senalar, Ceder, Corre, Escucha, Activo
<1> HIDE DEF S
<1>2. ColasOrdenadas'
  <2>1. tablaReady \in [Programas -> SUBSET Hilos] /\ estProg'[p] # "NADA"
    BY <1>1 DEF ColasInv, TypeOK, TipoProgramas, Activo
  <2>2. QED
    BY <1>1, <2>1, ColasDevolver
<1>3. \A q \in Programas : cliente'[q] = IF q = p THEN "cede" ELSE cliente[q]
  BY <1>1 DEF ColasInv, TypeOK, TipoClientes
<1>4. DeAcuerdo' /\ Dormidos'
  BY <1>1, <1>3 DEF ColasInv, DeAcuerdo, Dormidos, Activo
<1>5. QED
  BY <1>2, <1>4

\* The end of a program keeps the queues right.
LEMMA ColasFinalizar ==
  ASSUME ColasInv, NEW p \in Programas, Escucha(p), Finalizar(p)
  PROVE  ColasOrdenadas' /\ DeAcuerdo' /\ Dormidos'
<1> DEFINE S == {s \in Semaforos : retenidos[p][s] > 0 /\ Cabe(s)}
           listas == [tablaReady EXCEPT ![p] = {}]
<1>1. /\ Activo(p) /\ S \in SUBSET Semaforos /\ atiende[p] = "recv"
      /\ Devolver(S) /\ PasarAReady(Otorgados(S), estado, listas, cont)
      /\ estProg' = [estProg EXCEPT ![p] = "FINALIZADO"]
      /\ hilo_exec' = [hilo_exec EXCEPT ![p] = Nadie]
      /\ cliente' = [cliente EXCEPT ![p] = "salio"]
      /\ UNCHANGED <<tabla_new, atiende, actual>>
  BY DEF Finalizar, Escucha, Activo
<1> HIDE DEF S
<1>2. /\ listas \in [Programas -> SUBSET Hilos]
      /\ \A q \in Programas \ {p} : /\ listas[q] = tablaReady[q]
                                    /\ hilo_exec'[q] = hilo_exec[q] /\ estProg'[q] = estProg[q]
                                    /\ cliente'[q] = cliente[q]
      /\ estProg'[p] = "FINALIZADO" /\ cliente'[p] = "salio"
  BY <1>1 DEF ColasInv, TypeOK, TipoProgramas, TipoClientes
<1>3. ColasOrdenadas'
  <2>1. ~Activo(p)' /\ estProg'[p] # "NADA"
    BY <1>2 DEF Activo
  <2> HIDE DEF listas
  <2>2. QED
    BY <1>1, <1>2, <2>1, ColasDevolver
<1>4. DeAcuerdo' /\ Dormidos'
  BY <1>1, <1>2 DEF ColasInv, DeAcuerdo, Dormidos, Activo
<1>5. QED
  BY <1>3, <1>4

\* A refused CLOSE of main keeps the queues right.
LEMMA ColasRetornarMainRechazado ==
  ASSUME ColasInv, NEW p \in Programas, RetornarMainRechazado(p)
  PROVE  ColasOrdenadas' /\ DeAcuerdo' /\ Dormidos'
<1>1. /\ Activo(p) /\ cliente[p] = "corre" /\ actual[p] = Main
      /\ planificadorLargo(tabla_new, cant_programas, estado, tablaReady, cont)
      /\ hilo_exec' = [hilo_exec EXCEPT ![p] = Nadie]
      /\ cliente' = [cliente EXCEPT ![p] = "salio"]
      /\ UNCHANGED <<sem_blocked, estProg, atiende, actual>>
  BY DEF RetornarMainRechazado, semVars, Corre, Escucha, Activo
<1>2. /\ tabla_new \in Seq(Pares) /\ cant_programas \in Int
      /\ estado \in [Pares -> Estados]
      /\ tablaReady \in [Programas -> SUBSET Hilos] /\ cont \in [Programas -> Nat]
      /\ \A q \in Programas, g \in Hilos : <<q, g>> \in Pares
  BY DEF ColasInv, TypeOK, TipoHilos, TipoColas, TipoProgramas, Pares
<1>3. SinRepetir(tabla_new) /\ \A x \in Pares : estado[x] = "NEW" <=> x \in EnCola(tabla_new)
  BY DEF ColasInv, UnSoloLugar, NuevosEnCola
<1>4. PICK B \in SUBSET Pares : /\ \A x \in B : estado[x] = "NEW"
                                /\ PasarAReady(B, estado, tablaReady, cont)
  BY <1>1, <1>2, <1>3, Admitir
<1>5. NuevosEnCola'
  BY <1>1, <1>2, <1>3, Admitir
<1>6. \A x \in Pares : estado'[x] = IF x \in B THEN "READY" ELSE estado[x]
  BY <1>2, <1>4 DEF PasarAReady
<1>7. BloqueadosEnCola'
  BY <1>1, <1>4, <1>6, BloqueadosQuietos DEF ColasInv, UnSoloLugar
<1>8. UNCHANGED hilo_exec
  <2>1. hilo_exec[p] = Nadie
    BY <1>1 DEF ColasInv, DeAcuerdo
  <2>2. QED
    BY <1>1, <2>1 DEF ColasInv, TypeOK, TipoProgramas
<1>9. ListosEnCola' /\ ContadorExacto' /\ SinConectar'
  <2>1. /\ ListaExacta(estado, tablaReady, cont, p)
        /\ \A g \in Hilos : (estado[<<p, g>>] = "EXEC" /\ <<p, g>> \notin B) <=> hilo_exec'[p] = g
    BY <1>1, <1>2, <1>4, <1>8
       DEF ListaExacta, ColasInv, UnSoloLugar, ListosEnCola, ContadorExacto
  <2>2. estProg'[p] # "NADA"
    BY <1>1 DEF Activo
  <2>3. QED
    BY <1>1, <1>2, <1>4, <1>8, <2>1, <2>2, TrasPasar
<1>10. DeAcuerdo' /\ Dormidos'
  <2>1. \A q \in Programas : cliente'[q] = IF q = p THEN "salio" ELSE cliente[q]
    BY <1>1 DEF ColasInv, TypeOK, TipoClientes
  <2>2. QED
    BY <1>1, <1>8, <2>1 DEF ColasInv, DeAcuerdo, Dormidos, Activo
<1>11. QED
  BY <1>5, <1>7, <1>9, <1>10 DEF ColasOrdenadas

-----------------------------------------------------------------------------
\* Initially every queue is empty and no program is connected.
LEMMA ColasInicial == Init => ColasInv
<1> SUFFICES ASSUME Init PROVE ColasInv
  OBVIOUS
<1>1. TypeOK
  BY TypeInicial
<1>2. NuevosEnCola /\ BloqueadosEnCola
  BY DEF Init, NuevosEnCola, BloqueadosEnCola, EnCola, SinRepetir
<1>3. ListosEnCola /\ ContadorExacto /\ DeAcuerdo /\ Dormidos
  BY DEF Init, ListosEnCola, ContadorExacto, DeAcuerdo, Dormidos, Activo
<1>4. SinConectar
  BY DEF Init, SinConectar, Pares
<1>5. QED
  BY <1>1, <1>2, <1>3, <1>4 DEF ColasInv, UnSoloLugar

\* Every step keeps the queues right: one case per request.
LEMMA ColasPaso ==
  ASSUME ColasInv, [Next]_vars
  PROVE  ColasInv'
<1>1. TypeOK'
  BY TypePaso DEF ColasInv
<1>2. CASE Next
  <2>1. ColasOrdenadas' /\ DeAcuerdo' /\ Dormidos'
    <3>1. PICK p \in Programas : Paso(p)
      BY <1>2 DEF Next
    <3>2. CASE RetornarMain(p) \/ Desconectar(p)
      BY <3>2, ColasFinalizar DEF RetornarMain, Desconectar, Corre
    <3>3. QED
      BY <3>1, <3>2, ColasConectar, ColasCrear, ColasPedirSiguiente, ColasDespachar,
         ColasUnir, ColasCerrarHilo, ColasEsperar, ColasSenalar,
         ColasRetornarMainRechazado, ColasMorir DEF Paso
  <2>2. QED
    BY <1>1, <2>1 DEF ColasInv, ColasOrdenadas, UnSoloLugar
<1>3. CASE UNCHANGED vars
  <2>1. UNCHANGED <<estado, tabla_new, sem_blocked, tablaReady, cont, hilo_exec, actual,
                    estProg, atiende, cliente>>
    BY <1>3 DEF vars
  <2>2. ColasOrdenadas'
    BY <2>1, ColasQuietas
  <2>3. DeAcuerdo' /\ Dormidos'
    BY <2>1 DEF ColasInv, DeAcuerdo, Dormidos, Activo
  <2>4. QED
    BY <1>1, <2>2, <2>3 DEF ColasInv, ColasOrdenadas, UnSoloLugar
<1>4. QED
  BY <1>2, <1>3

\* The queues of SUSE agree with the estado of the ULTs, each contador counts
\* its ready list, and a server thread in sem_wait has no ULT on its CPU, in
\* every state: the inductive invariant behind the next two theorems.
THEOREM ColasCorrectas == Spec => []ColasInv
BY ColasInicial, ColasPaso, PTL DEF Spec

\* Every ULT is queued exactly where its estado says, for any number of
\* programs and ULTs and whoever dies: no handler, planner run, wakeup or end
\* of a program loses a ULT or queues it twice.
THEOREM UnLugarCadaUno == Spec => []UnSoloLugar
<1>1. ColasInv => UnSoloLugar
  BY DEF ColasInv
<1>2. QED
  BY <1>1, ColasCorrectas, PTL

\* The sem_t of a program always counts its ready list, so the sem_wait of
\* SCHEDULE_NEXT never lets next_hilo dereference an empty one.
THEOREM ContadorCuentaListos == Spec => []ContadorExacto
<1>1. ColasInv => ContadorExacto
  BY DEF ColasInv
<1>2. QED
  BY <1>1, ColasCorrectas, PTL

-----------------------------------------------------------------------------
(***************************************************************************)
(* The semaphores.  The signed value and the queue of each agree, and        *)
(* together they implement the abstract FIFO semaphores, whenever no main    *)
(* thread uses a semaphore.  (With one that does, TLC shows the first is     *)
(* false.)                                                                  *)
(*                                                                         *)
(* That the values stay at or below their maxima makes the first inductive; *)
(* that a ULT that calls wait is in no queue, which ColasInv gives, makes   *)
(* the queueing step an abstract one.                                       *)
(***************************************************************************)

TopeRespetado == \A s \in Semaforos : sem_values[s] <= SemMax[s]

SemInv == SemaforoExacto /\ TopeRespetado

\* What TypeOK says of one semaphore.
LEMMA TipoSemaforos ==
  ASSUME TypeOK
  PROVE  \A s \in Semaforos : /\ sem_values[s] \in Int /\ sem_blocked[s] \in Seq(Pares)
                              /\ SemMax[s] \in Nat \ {0} /\ Len(sem_blocked[s]) \in Nat
BY ConstantesOK DEF TypeOK, TipoColas, ConstantesOK

-----------------------------------------------------------------------------
(* What a wait, and units given back, do to the semaphores *)

\* A wait takes one unit; without one it queues a ULT that was not queued.
LEMMA EsperarUno ==
  ASSUME ColasInv, SemInv, MainConSemaforos = {},
         NEW p \in Programas, NEW s \in Semaforos, Esperar(p, s)
  PROVE  /\ sem_values' = [sem_values EXCEPT ![s] = @ - 1]
         /\ sem_values[s] > 0 => UNCHANGED sem_blocked
         /\ sem_values[s] <= 0 =>
              \E x \in Pares : /\ x \notin EnCola(sem_blocked[s])
                               /\ sem_blocked' = [sem_blocked EXCEPT ![s] = Append(@, x)]
<1>1. /\ Activo(p) /\ cliente[p] = "corre" /\ actual[p] \in Hilos
      /\ sem_values' = [sem_values EXCEPT ![s] = @ - 1]
  BY DEF Esperar, Corre, Escucha, Activo
<1>2. sem_values[s] \in Int
  BY TipoSemaforos DEF ColasInv
<1>3. CASE sem_values[s] > 0
  <2>1. UNCHANGED sem_blocked
    BY <1>2, <1>3 DEF Esperar, SinUnidad
  <2>2. QED
    BY <1>1, <1>2, <1>3, <2>1
<1>4. CASE sem_values[s] <= 0
  <2> DEFINE x == <<p, actual[p]>>
  <2>1. sem_blocked' = [sem_blocked EXCEPT ![s] = Append(@, x)]
    BY <1>1, <1>2, <1>4 DEF Esperar, SinUnidad
  <2>2. x \in Pares
    BY <1>1 DEF Pares
  <2>3. estado[x] = "EXEC"
    BY <1>1, ConstantesOK DEF ColasInv, DeAcuerdo, UnSoloLugar, ListosEnCola, ConstantesOK
  <2> HIDE DEF x
  <2>4. x \notin EnCola(sem_blocked[s])
    BY <2>2, <2>3 DEF ColasInv, UnSoloLugar, BloqueadosEnCola
  <2>5. \E y \in Pares : /\ y \notin EnCola(sem_blocked[s])
                         /\ sem_blocked' = [sem_blocked EXCEPT ![s] = Append(@, y)]
    BY <2>1, <2>2, <2>4, Zenon
  <2>6. ~(sem_values[s] > 0)
    BY <1>2, <1>4
  <2>7. QED
    BY <1>1, <2>5, <2>6
<1>5. QED
  BY <1>2, <1>3, <1>4

\* On one semaphore: nothing, a unit more, or the first waiter served.
ConUnidad(s) ==
  \/ sem_values'[s] = sem_values[s] /\ sem_blocked'[s] = sem_blocked[s]
  \/ /\ sem_values'[s] = sem_values[s] + 1 /\ sem_values[s] < SemMax[s]
     /\ \/ sem_values[s] >= 0 /\ sem_blocked[s] = <<>> /\ sem_blocked'[s] = <<>>
        \/ sem_values[s] < 0 /\ sem_blocked[s] # <<>> /\ sem_blocked'[s] = Tail(sem_blocked[s])

\* A unit back raises the value by one and, with waiters, removes their first.
LEMMA DevolverUno ==
  ASSUME TypeOK, SemInv, NEW S \in SUBSET Semaforos,
         \A s \in S : sem_values[s] < SemMax[s], Devolver(S), NEW s \in Semaforos
  PROVE  ConUnidad(s)
<1>1. /\ sem_values[s] \in Int /\ sem_blocked[s] \in Seq(Pares)
      /\ Len(sem_blocked[s]) = IF sem_values[s] < 0 THEN -sem_values[s] ELSE 0
  BY TipoSemaforos DEF SemInv, SemaforoExacto
<1>2. /\ sem_values'[s] = IF s \in S THEN sem_values[s] + 1 ELSE sem_values[s]
      /\ sem_blocked'[s] = IF s \in S /\ sem_values[s] + 1 <= 0 /\ sem_blocked[s] # <<>>
                           THEN Tail(sem_blocked[s]) ELSE sem_blocked[s]
  BY DEF Devolver, Despierta
<1>3. sem_blocked[s] = <<>> <=> sem_values[s] >= 0
  BY <1>1
<1>4. CASE s \notin S
  BY <1>2, <1>4 DEF ConUnidad
<1>5. CASE s \in S /\ sem_values[s] >= 0
  BY <1>1, <1>2, <1>3, <1>5 DEF ConUnidad
<1>6. CASE s \in S /\ sem_values[s] < 0
  BY <1>1, <1>2, <1>3, <1>6 DEF ConUnidad
<1>7. QED
  BY <1>1, <1>4, <1>5, <1>6

\* Every step is a wait, units given back, or leaves the semaphores alone.
LEMMA TresCasos ==
  ASSUME [Next]_vars
  PROVE  \/ UNCHANGED <<sem_values, sem_blocked>>
         \/ \E p \in Programas, s \in Semaforos : Esperar(p, s)
         \/ \E S \in SUBSET Semaforos :
              /\ \A s \in S : sem_values[s] < SemMax[s]
              /\ Devolver(S)
<1> DEFINE Quietos == UNCHANGED <<sem_values, sem_blocked>>
           Dados == \E S \in SUBSET Semaforos : /\ \A s \in S : sem_values[s] < SemMax[s]
                                                /\ Devolver(S)
<1>1. ASSUME NEW p \in Programas, NEW s \in Semaforos, Senalar(p, s) PROVE Dados
  <2> DEFINE S == IF Cabe(s) THEN {s} ELSE {}
  <2>1. Devolver(S) /\ S \in SUBSET Semaforos /\ \A t \in S : sem_values[t] < SemMax[t]
    BY <1>1 DEF Senalar, Cabe
  <2> HIDE DEF S
  <2>2. QED
    BY <2>1
<1>2. ASSUME NEW p \in Programas, Finalizar(p) PROVE Dados
  <2> DEFINE S == {s \in Semaforos : retenidos[p][s] > 0 /\ Cabe(s)}
  <2>1. Devolver(S) /\ S \in SUBSET Semaforos /\ \A t \in S : sem_values[t] < SemMax[t]
    BY <1>2 DEF Finalizar, Cabe
  <2> HIDE DEF S
  <2>2. QED
    BY <2>1
<1>3. ASSUME NEW p \in Programas,
             \/ Conectar(p) \/ \E h \in Hilos : Crear(p, h) \/ Unir(p, h) \/ CerrarHilo(p, h)
             \/ PedirSiguiente(p) \/ Despachar(p) \/ RetornarMainRechazado(p) \/ Morir(p)
      PROVE  Quietos
  BY <1>3 DEF Conectar, Crear, Unir, CerrarHilo, PedirSiguiente, Despachar,
     RetornarMainRechazado, Morir, semVars
<1>4. UNCHANGED vars => Quietos
  BY DEF vars
<1>5. QED
  BY <1>1, <1>2, <1>3, <1>4 DEF Next, Paso, RetornarMain, Desconectar

-----------------------------------------------------------------------------
\* Initially nobody waits and no value is above its maximum.
LEMMA SemInicial == Init => SemInv
BY ConstantesOK DEF Init, SemInv, SemaforoExacto, TopeRespetado, ConstantesOK

\* Every step keeps each value the number of its waiters.
LEMMA SemPaso ==
  ASSUME ColasInv, SemInv, MainConSemaforos = {}, [Next]_vars
  PROVE  SemInv'
<1>1. \A s \in Semaforos : /\ sem_values[s] \in Int /\ sem_blocked[s] \in Seq(Pares)
                           /\ Len(sem_blocked[s]) = IF sem_values[s] < 0 THEN -sem_values[s] ELSE 0
                           /\ sem_values[s] <= SemMax[s] /\ SemMax[s] \in Nat \ {0}
  BY TipoSemaforos DEF ColasInv, SemInv, SemaforoExacto, TopeRespetado
<1>2. CASE UNCHANGED <<sem_values, sem_blocked>>
  BY <1>1, <1>2 DEF SemInv, SemaforoExacto, TopeRespetado
<1>3. ASSUME NEW p \in Programas, NEW s \in Semaforos, Esperar(p, s) PROVE SemInv'
  <2>1. \A t \in Semaforos : sem_values'[t] = IF t = s THEN sem_values[s] - 1 ELSE sem_values[t]
    BY <1>3, EsperarUno DEF ColasInv, TypeOK, TipoColas
  <2>2. \A t \in Semaforos : Len(sem_blocked'[t]) = IF t = s /\ sem_values[s] <= 0
                                                    THEN Len(sem_blocked[t]) + 1
                                                    ELSE Len(sem_blocked[t])
    <3>1. CASE sem_values[s] > 0
      BY <1>1, <1>3, <3>1, EsperarUno
    <3>2. CASE sem_values[s] <= 0
      <4>1. PICK x \in Pares : sem_blocked' = [sem_blocked EXCEPT ![s] = Append(@, x)]
        BY <1>3, <3>2, EsperarUno
      <4>2. sem_blocked \in [Semaforos -> Seq(Pares)]
        BY DEF ColasInv, TypeOK, TipoColas
      <4>3. QED
        BY <3>2, <4>1, <4>2
    <3>3. QED
      BY <1>1, <3>1, <3>2
  <2>3. QED
    BY SMTT(30), <1>1, <2>1, <2>2 DEF SemInv, SemaforoExacto, TopeRespetado
<1>4. ASSUME NEW S \in SUBSET Semaforos, \A s \in S : sem_values[s] < SemMax[s], Devolver(S)
      PROVE  SemInv'
  <2>1. \A s \in Semaforos : ConUnidad(s)
    BY <1>4, DevolverUno DEF ColasInv
  <2>2. \A s \in Semaforos : sem_blocked[s] # <<>> => Len(Tail(sem_blocked[s])) = Len(sem_blocked[s]) - 1
    BY <1>1, TailCola
  <2>3. \A s \in Semaforos :
          /\ Len(sem_blocked'[s]) = IF sem_values'[s] < 0 THEN -sem_values'[s] ELSE 0
          /\ sem_values'[s] <= SemMax[s]
    <3>1. SUFFICES ASSUME NEW s \in Semaforos
                   PROVE  /\ Len(sem_blocked'[s]) = IF sem_values'[s] < 0 THEN -sem_values'[s] ELSE 0
                          /\ sem_values'[s] <= SemMax[s]
      OBVIOUS
    <3>2. /\ sem_values[s] \in Int /\ sem_values[s] <= SemMax[s] /\ SemMax[s] \in Nat
          /\ Len(sem_blocked[s]) = IF sem_values[s] < 0 THEN -sem_values[s] ELSE 0
          /\ sem_blocked[s] # <<>> => Len(Tail(sem_blocked[s])) = Len(sem_blocked[s]) - 1
      BY <1>1, <2>2
    <3>3. ConUnidad(s) /\ Len(<<>>) = 0
      BY <2>1
    <3>4. CASE sem_values'[s] = sem_values[s] /\ sem_blocked'[s] = sem_blocked[s]
      BY <3>2, <3>4
    <3>5. CASE /\ sem_values'[s] = sem_values[s] + 1 /\ sem_values[s] < SemMax[s]
               /\ sem_values[s] >= 0 /\ sem_blocked'[s] = <<>>
      BY <3>2, <3>3, <3>5
    <3>6. CASE /\ sem_values'[s] = sem_values[s] + 1 /\ sem_values[s] < 0
               /\ sem_blocked[s] # <<>> /\ sem_blocked'[s] = Tail(sem_blocked[s])
      <4>1. Len(sem_blocked'[s]) = Len(Tail(sem_blocked[s]))
        BY <3>6, Zenon
      <4>2. QED
        BY <3>2, <3>6, <4>1
    <3>7. QED
      BY <3>3, <3>4, <3>5, <3>6 DEF ConUnidad
  <2>4. QED
    BY <2>3 DEF SemInv, SemaforoExacto, TopeRespetado
<1>5. QED
  BY <1>2, <1>3, <1>4, TresCasos

\* The invariants of the queues and of the semaphores, together, always.
LEMMA SemSiempre ==
  ASSUME MainConSemaforos = {}
  PROVE  Spec => [](ColasInv /\ SemInv)
<1>1. Init => ColasInv /\ SemInv
  BY ColasInicial, SemInicial
<1>2. ColasInv /\ SemInv /\ [Next]_vars => (ColasInv /\ SemInv)'
  BY ColasPaso, SemPaso
<1>3. QED
  BY <1>1, <1>2, PTL DEF Spec

\* A negative value is always the number of ULTs queued: a signal that leaves
\* the value at or below zero finds a t_block to pop.
THEOREM ValorCuentaEsperas ==
  ASSUME MainConSemaforos = {}
  PROVE  Spec => []SemaforoExacto
<1>1. SemInv => SemaforoExacto
  BY DEF SemInv
<1>2. QED
  BY <1>1, SemSiempre, PTL

-----------------------------------------------------------------------------
(* Refinement *)

\* The initial state of SUSE is one of the abstract semaphores.
LEMMA AbstractoInicial == Init => Abstracto!Init
<1> SUFFICES ASSUME Init PROVE Abstracto!Init
  OBVIOUS
<1>1. \A s \in Semaforos : Positiva(SemInit[s]) = SemInit[s]
  BY ConstantesOK DEF ConstantesOK, Positiva
<1>2. [s \in Semaforos |-> Positiva(sem_values[s])] = SemInit
  BY <1>1, ConstantesOK DEF Init, ConstantesOK
<1>3. QED
  BY <1>2 DEF Init, Abstracto!Init

\* Every step of SUSE is a step of the abstract semaphores or a stutter.
LEMMA AbstractoPaso ==
  ASSUME ColasInv, SemInv, MainConSemaforos = {}, [Next]_vars
  PROVE  [Abstracto!Next]_<<[s \in Semaforos |-> Positiva(sem_values[s])], sem_blocked>>
<1> DEFINE disp == [s \in Semaforos |-> Positiva(sem_values[s])]
           UnSemaforo(s) == \/ Abstracto!Tomar(s) \/ Abstracto!Encolar(s)
                            \/ Abstracto!Liberar(s) \/ Abstracto!Despertar(s)
                            \/ Abstracto!Quieto(s)
<1>1. \A s \in Semaforos : /\ sem_values[s] \in Int /\ sem_blocked[s] \in Seq(Pares)
                           /\ SemMax[s] \in Nat \ {0}
  BY TipoSemaforos DEF ColasInv
<1>2. \A s \in Semaforos : disp[s] = Positiva(sem_values[s]) /\ disp'[s] = Positiva(sem_values'[s])
  OBVIOUS
<1>3. ASSUME NEW s \in Semaforos,
             sem_values'[s] = sem_values[s], sem_blocked'[s] = sem_blocked[s]
      PROVE  Abstracto!Quieto(s)
  BY <1>2, <1>3 DEF Abstracto!Quieto
<1>4. ASSUME NEW p \in Programas, NEW s \in Semaforos, Esperar(p, s), NEW t \in Semaforos
      PROVE  UnSemaforo(t)
  <2>1. /\ sem_values'[t] = IF t = s THEN sem_values[s] - 1 ELSE sem_values[t]
        /\ sem_blocked \in [Semaforos -> Seq(Pares)]
    BY <1>4, EsperarUno DEF ColasInv, TypeOK, TipoColas
  <2>2. CASE t # s
    <3>1. sem_blocked'[t] = sem_blocked[t]
      BY <1>1, <1>4, <2>1, <2>2, EsperarUno
    <3>2. QED
      BY <1>3, <2>1, <2>2, <3>1
  <2>3. CASE t = s /\ sem_values[s] > 0
    <3>1. sem_blocked'[s] = sem_blocked[s]
      BY <1>4, <2>3, EsperarUno
    <3>2. Abstracto!Tomar(s)
      BY <1>1, <1>2, <2>1, <2>3, <3>1 DEF Abstracto!Tomar, Positiva
    <3>3. QED
      BY <2>3, <3>2
  <2>4. CASE t = s /\ sem_values[s] <= 0
    <3>1. PICK x \in Pares : /\ x \notin EnCola(sem_blocked[s])
                             /\ sem_blocked' = [sem_blocked EXCEPT ![s] = Append(@, x)]
      BY <1>4, <2>4, EsperarUno
    <3>2. /\ sem_blocked'[s] = Append(sem_blocked[s], x)
          /\ \A i \in 1..Len(sem_blocked[s]) : sem_blocked[s][i] # x
      BY <2>1, <3>1 DEF EnCola
    <3>3. disp[s] = 0 /\ disp'[s] = 0
      BY <1>1, <1>2, <2>1, <2>4 DEF Positiva
    <3>4. Abstracto!Encolar(s)
      BY <3>2, <3>3 DEF Abstracto!Encolar
    <3>5. QED
      BY <2>4, <3>4
  <2>5. QED
    BY <1>1, <2>2, <2>3, <2>4
<1>5. ASSUME NEW S \in SUBSET Semaforos, \A s \in S : sem_values[s] < SemMax[s],
             Devolver(S), NEW t \in Semaforos
      PROVE  UnSemaforo(t)
  <2>1. CASE sem_values'[t] = sem_values[t] /\ sem_blocked'[t] = sem_blocked[t]
    BY <1>3, <2>1
  <2>2. CASE /\ sem_values'[t] = sem_values[t] + 1 /\ sem_values[t] < SemMax[t]
             /\ sem_values[t] >= 0 /\ sem_blocked[t] = <<>> /\ sem_blocked'[t] = <<>>
    <3>1. Abstracto!Liberar(t)
      BY <1>1, <1>2, <2>2 DEF Abstracto!Liberar, Positiva
    <3>2. QED
      BY <3>1
  <2>3. CASE /\ sem_values'[t] = sem_values[t] + 1 /\ sem_values[t] < 0
             /\ sem_blocked[t] # <<>> /\ sem_blocked'[t] = Tail(sem_blocked[t])
    <3>1. disp'[t] = disp[t]
      BY <1>1, <1>2, <2>3 DEF Positiva
    <3>2. Abstracto!Despertar(t)
      BY <2>3, <3>1 DEF Abstracto!Despertar
    <3>3. QED
      BY <3>2
  <2>4. QED
    BY <1>5, <2>1, <2>2, <2>3, DevolverUno DEF ColasInv, ConUnidad
<1>6. CASE UNCHANGED <<sem_values, sem_blocked>>
  BY <1>6
<1>7. CASE \A t \in Semaforos : UnSemaforo(t)
  <2>1. sem_blocked' = [s \in Semaforos |-> sem_blocked'[s]]
    BY TypePaso DEF ColasInv, TypeOK, TipoColas
  <2>2. disp' = [s \in Semaforos |-> disp'[s]]
    OBVIOUS
  <2>3. Abstracto!Next
    BY <1>7, <2>1, <2>2 DEF Abstracto!Next
  <2>4. QED
    BY <2>3
<1>8. QED
  BY <1>4, <1>5, <1>6, <1>7, TresCasos

\* SUSE's semaphores implement the abstract ones, for any programs, however
\* their waits, signals, ends and deaths interleave.
THEOREM SemaforosImplementan ==
  ASSUME MainConSemaforos = {}
  PROVE  Spec => SemaforosCorrectos
<1>1. Init => Abstracto!Init
  BY AbstractoInicial
<1>2. ColasInv /\ SemInv /\ [Next]_vars
        => [Abstracto!Next]_<<[s \in Semaforos |-> Positiva(sem_values[s])], sem_blocked>>
  BY AbstractoPaso
<1>3. QED
  BY <1>1, <1>2, SemSiempre, PTL DEF Spec, SemaforosCorrectos, Abstracto!Spec

-----------------------------------------------------------------------------
(***************************************************************************)
(* What the counters of SUSE count: slots, the ULTs of a program, main's    *)
(* turn; and that no NULL is reached while no program dies.                 *)
(*                                                                         *)
(* All rests on ColasInv: it says which estado the ULTs have that a handler *)
(* moves, and with it how the sets that are counted change.                 *)
(***************************************************************************)

Vivo(e) == e \notin {"NADA", "EXIT"}
EnMemoria(e) == e \in {"READY", "EXEC", "BLOCKED"}

\* The ULTs are finitely many, of all programs or of one.
LEMMA ParesFinitos ==
  ASSUME NEW S \in SUBSET Pares
  PROVE  IsFiniteSet(S) /\ Cardinality(S) \in Nat
<1>1. IsFiniteSet(Pares)
  BY FS_Product, ConstantesOK DEF ConstantesOK, Pares
<1>2. QED
  BY <1>1, FS_Subset, FS_CardinalityType

\* A prefix of a queue without repetitions has as many elements as its length.
LEMMA PrefijoCuenta ==
  ASSUME NEW S, NEW c \in Seq(S), SinRepetir(c), NEW k \in 0..Len(c)
  PROVE  Cardinality({c[i] : i \in 1..k}) = k
<1> DEFINE T == {c[i] : i \in 1..k}
           f == [i \in 1..k |-> c[i]]
<1>1. f \in Surjection(1..k, T)
  BY DEF Surjection
<1>2. f \in Injection(1..k, T)
  <2>1. \A i, j \in 1..k : f[i] = f[j] => i = j
    BY DEF SinRepetir
  <2>2. QED
    BY <1>1, <2>1 DEF Injection, IsInjective, Surjection
<1>3. IsFiniteSet(1..k) /\ Cardinality(1..k) = k
  BY FS_Interval
<1> HIDE DEF T, f
<1>4. Cardinality(T) = Cardinality(1..k)
  BY <1>1, <1>2, <1>3, FS_Surjection
<1>5. QED
  BY <1>3, <1>4 DEF T

\* A set and one disjoint from it.
LEMMA UnionDisjunta ==
  ASSUME NEW A, NEW B, IsFiniteSet(A), IsFiniteSet(B), A \cap B = {}
  PROVE  Cardinality(A \cup B) = Cardinality(A) + Cardinality(B)
<1>1. /\ Cardinality(A \cup B) = Cardinality(A) + Cardinality(B) - Cardinality(A \cap B)
      /\ Cardinality({}) = 0
  BY FS_Union, FS_EmptySet
<1>2. Cardinality(A \cap B) = 0
  BY <1>1, Zenon
<1>3. Cardinality(A) \in Nat /\ Cardinality(B) \in Nat
  BY FS_CardinalityType
<1>4. QED
  BY <1>1, <1>2, <1>3

\* The planner makes NEW ULTs READY and leaves the estado of the others.
\* If n was the number of those admitted it still is, it does not pass the
\* maximum, and it is the maximum if somebody is left in tabla_new.
LEMMA AdmitirCuenta ==
  ASSUME NEW c \in Seq(Pares), NEW n \in Int, NEW est \in [Pares -> Estados],
         NEW listas, NEW ctr,
         SinRepetir(c), \A x \in Pares : est[x] = "NEW" <=> x \in EnCola(c),
         planificadorLargo(c, n, est, listas, ctr)
  PROVE  /\ \A x \in Pares : estado'[x] = est[x] \/ (est[x] = "NEW" /\ estado'[x] = "READY")
         /\ n = Cardinality({x \in Pares : EnMemoria(est[x])}) =>
              cant_programas' = Cardinality({x \in Pares : EnMemoria(estado'[x])})
         /\ n <= Multiprog =>
              /\ cant_programas' <= Multiprog
              /\ tabla_new' # <<>> => cant_programas' = Multiprog
<1> DEFINE k == Cupo(c, n)
           B == {c[i] : i \in 1..k}
           A == {x \in Pares : EnMemoria(est[x])}
<1>1. k \in 0..Len(c)
  BY CupoTipo
<1>2. B \in SUBSET Pares /\ \A x \in B : est[x] = "NEW"
  BY <1>1 DEF EnCola
<1>3. /\ PasarAReady(B, est, listas, ctr)
      /\ cant_programas' = n + k
      /\ tabla_new' = SubSeq(c, k + 1, Len(c))
  BY DEF planificadorLargo
<1>4. n <= Multiprog => /\ n + k <= Multiprog
                        /\ k < Len(c) => n + k = Multiprog
  BY ConstantesOK DEF Cupo, ConstantesOK
<1> HIDE DEF k
<1>5. tabla_new' # <<>> => k < Len(c)
  BY <1>1, <1>3, SubSeqPropiedades
<1>6. Cardinality(B) = k
  BY <1>1, PrefijoCuenta
<1> HIDE DEF B
<1>7. \A x \in Pares : estado'[x] = IF x \in B THEN "READY" ELSE est[x]
  BY <1>2, <1>3, PasarEstado
<1>8. Cardinality({x \in Pares : EnMemoria(estado'[x])}) = Cardinality(A) + k
  <2>1. {x \in Pares : EnMemoria(estado'[x])} = A \cup B
    BY <1>2, <1>7 DEF EnMemoria
  <2>2. A \cap B = {}
    BY <1>2 DEF EnMemoria
  <2>3. IsFiniteSet(A) /\ IsFiniteSet(B)
    BY <1>2, ParesFinitos
  <2> HIDE DEF A
  <2>4. QED
    BY <1>6, <2>1, <2>2, <2>3, UnionDisjunta
<1>9. QED
  BY <1>1, <1>2, <1>3, <1>4, <1>5, <1>7, <1>8

-----------------------------------------------------------------------------
(* What each request does to the estado of the ULTs *)

CuposInv ==
  /\ cant_programas = Cardinality({x \in Pares : EnMemoria(estado[x])})
  /\ cant_programas <= Multiprog
  /\ AdmisionAlDia

\* A ULT keeps its estado or is admitted.
Admitido(x, e) == estado'[x] = e \/ (e = "NEW" /\ estado'[x] = "READY")

\* Between the admission of a ULT and its CLOSE.
EnCurso(x) ==
  \/ estado'[x] = estado[x]
  \/ <<estado[x], estado'[x]>> \in
       {<<"READY", "EXEC">>, <<"EXEC", "READY">>, <<"EXEC", "BLOCKED">>, <<"BLOCKED", "READY">>}

\* CREATE_HILO makes one ULT NEW, and the planner admits.
LEMMA PlanCrear ==
  ASSUME ColasInv, CuposInv, NEW p \in Programas, NEW h \in Hilos, Crear(p, h)
  PROVE  /\ CuposInv'
         /\ \A x \in Pares : IF x = <<p, h>> THEN estado[x] = "NADA" /\ Admitido(x, "NEW")
                                             ELSE Admitido(x, estado[x])
<1> DEFINE c == Append(tabla_new, <<p, h>>)
           est == [estado EXCEPT ![<<p, h>>] = "NEW"]
<1>1. /\ estado[<<p, h>>] = "NADA"
      /\ planificadorLargo(c, cant_programas, est, tablaReady, cont)
  BY DEF Crear
<1>2. /\ <<p, h>> \in Pares /\ tabla_new \in Seq(Pares) /\ cant_programas \in Int
      /\ estado \in [Pares -> Estados] /\ est \in [Pares -> Estados]
  BY DEF ColasInv, TypeOK, TipoHilos, TipoColas, Pares, Estados
<1>3. \A x \in Pares : est[x] = IF x = <<p, h>> THEN "NEW" ELSE estado[x]
  BY <1>2
<1>4. /\ c \in Seq(Pares) /\ SinRepetir(c)
      /\ \A x \in Pares : est[x] = "NEW" <=> x \in EnCola(c)
  <2>1. /\ SinRepetir(tabla_new) /\ <<p, h>> \notin EnCola(tabla_new)
        /\ \A x \in Pares : estado[x] = "NEW" <=> x \in EnCola(tabla_new)
    BY <1>1, <1>2 DEF ColasInv, UnSoloLugar, NuevosEnCola
  <2>2. c \in Seq(Pares) /\ SinRepetir(c) /\ EnCola(c) = EnCola(tabla_new) \cup {<<p, h>>}
    BY <1>2, <2>1, AppendCola
  <2> HIDE DEF c, est
  <2>3. QED
    BY <1>3, <2>1, <2>2
<1>5. {x \in Pares : EnMemoria(est[x])} = {x \in Pares : EnMemoria(estado[x])}
  BY <1>1, <1>3 DEF EnMemoria
<1> HIDE DEF c, est
<1>6. /\ \A x \in Pares : Admitido(x, est[x])
      /\ CuposInv'
  BY ZenonT(40), <1>1, <1>2, <1>4, <1>5, AdmitirCuenta DEF CuposInv, AdmisionAlDia, Admitido
<1>7. QED
  BY <1>1, <1>3, <1>6

\* CLOSE ends the running ULT, and the planner admits.
LEMMA PlanCerrarHilo ==
  ASSUME ColasInv, CuposInv, NEW p \in Programas, NEW h \in Hilos, CerrarHilo(p, h)
  PROVE  /\ CuposInv'
         /\ \A x \in Pares : IF x = <<p, h>> THEN estado[x] = "EXEC" /\ estado'[x] = "EXIT"
                                             ELSE Admitido(x, estado[x])
<1> DEFINE est == [estado EXCEPT ![<<p, h>>] = "EXIT"]
           A == {x \in Pares : EnMemoria(estado[x])}
<1>1. /\ estado[<<p, h>>] = "EXEC"
      /\ planificadorLargo(tabla_new, cant_programas - 1, est, tablaReady, cont)
  BY DEF CerrarHilo
<1>2. /\ <<p, h>> \in Pares /\ tabla_new \in Seq(Pares)
      /\ cant_programas \in Int /\ cant_programas - 1 \in Int
      /\ estado \in [Pares -> Estados] /\ est \in [Pares -> Estados]
  BY DEF ColasInv, TypeOK, TipoHilos, TipoColas, Pares, Estados
<1>3. /\ \A x \in Pares : est[x] = IF x = <<p, h>> THEN "EXIT" ELSE estado[x]
      /\ SinRepetir(tabla_new)
      /\ \A x \in Pares : est[x] = "NEW" <=> x \in EnCola(tabla_new)
  BY <1>1, <1>2 DEF ColasInv, UnSoloLugar, NuevosEnCola
<1>4. cant_programas - 1 = Cardinality({x \in Pares : EnMemoria(est[x])})
  <2>1. {x \in Pares : EnMemoria(est[x])} = A \ {<<p, h>>} /\ <<p, h>> \in A
    BY <1>1, <1>2, <1>3 DEF EnMemoria
  <2>2. IsFiniteSet(A) /\ Cardinality(A) = cant_programas
    BY ParesFinitos DEF CuposInv
  <2> HIDE DEF A
  <2>3. QED
    BY <2>1, <2>2, FS_RemoveElement
<1>5. cant_programas - 1 <= Multiprog
  BY <1>2, ConstantesOK DEF CuposInv, ConstantesOK
<1> HIDE DEF est
<1>6. /\ \A x \in Pares : Admitido(x, est[x])
      /\ CuposInv'
  BY SMTT(30), <1>1, <1>2, <1>3, <1>4, <1>5, AdmitirCuenta DEF CuposInv, AdmisionAlDia, Admitido
<1>7. estado'[<<p, h>>] = "EXIT"
  BY <1>2, <1>3, <1>6 DEF Admitido
<1>8. QED
  BY <1>1, <1>3, <1>6, <1>7

\* A refused CLOSE of main runs the planner.
LEMMA PlanRetornarMainRechazado ==
  ASSUME ColasInv, CuposInv, NEW p \in Programas, RetornarMainRechazado(p)
  PROVE  CuposInv' /\ \A x \in Pares : Admitido(x, estado[x])
<1>1. /\ tabla_new \in Seq(Pares) /\ cant_programas \in Int /\ estado \in [Pares -> Estados]
      /\ SinRepetir(tabla_new)
      /\ \A x \in Pares : estado[x] = "NEW" <=> x \in EnCola(tabla_new)
  BY DEF ColasInv, TypeOK, TipoHilos, TipoColas, UnSoloLugar, NuevosEnCola
<1>2. planificadorLargo(tabla_new, cant_programas, estado, tablaReady, cont)
  BY DEF RetornarMainRechazado
<1>3. QED
  BY <1>1, <1>2, AdmitirCuenta DEF CuposInv, AdmisionAlDia, Admitido

\* The first half of SCHEDULE_NEXT takes the running ULT off the CPU.
LEMMA MovidosPedirSiguiente ==
  ASSUME ColasInv, NEW p \in Programas, PedirSiguiente(p)
  PROVE  \A x \in Pares : EnCurso(x)
<1> DEFINE h == hilo_exec[p]
<1>1. CASE h = Nadie
  BY <1>1 DEF PedirSiguiente, hiloVars, EnCurso
<1>2. CASE h # Nadie
  <2>1. PasarAReady({<<p, h>>}, estado, tablaReady, cont) /\ Activo(p) /\ h \in Hilos
    BY <1>2 DEF PedirSiguiente, Escucha, Activo, ColasInv, TypeOK, TipoProgramas
  <2>2. {<<p, h>>} \in SUBSET Pares /\ estado[<<p, h>>] = "EXEC"
    BY <2>1 DEF ColasInv, UnSoloLugar, ListosEnCola, Pares
  <2> HIDE DEF h
  <2>3. \A x \in Pares : estado'[x] = IF x \in {<<p, h>>} THEN "READY" ELSE estado[x]
    BY <2>1, <2>2 DEF PasarAReady
  <2>4. QED
    BY <2>2, <2>3 DEF EnCurso
<1>3. QED
  BY <1>1, <1>2

\* The second half puts a READY ULT on it.
LEMMA MovidosDespachar ==
  ASSUME ColasInv, NEW p \in Programas, Despachar(p)
  PROVE  /\ \A x \in Pares : EnCurso(x)
         /\ \E h \in Hilos : /\ \A g \in tablaReady[p] : nodo[<<p, h>>] <= nodo[<<p, g>>]
                             /\ hilo_exec' = [hilo_exec EXCEPT ![p] = h]
                             /\ \/ cliente[p] = "salio" /\ UNCHANGED <<cliente, actual>>
                                \/ actual' = [actual EXCEPT ![p] = h] /\ \A q \in Programas \ {p} : cliente'[q] = cliente[q]
                             /\ UNCHANGED vivo
         /\ Activo(p)
<1>1. Activo(p)
  BY DEF Despachar, ColasInv, Dormidos
<1>2. tablaReady[p] # {}
  <2>1. cont[p] > 0 /\ cont[p] = Cardinality(tablaReady[p])
    BY <1>1 DEF Despachar, ColasInv, ContadorExacto
  <2>2. QED
    BY <2>1, FS_EmptySet
<1>3. PICK h \in tablaReady[p] :
        /\ \A g \in tablaReady[p] : nodo[<<p, h>>] <= nodo[<<p, g>>]
        /\ estado' = [estado EXCEPT ![<<p, h>>] = "EXEC"]
        /\ hilo_exec' = [hilo_exec EXCEPT ![p] = h]
        /\ \/ cliente[p] = "salio" /\ UNCHANGED <<cliente, actual>>
           \/ /\ cliente' = [cliente EXCEPT ![p] = "corre"]
              /\ actual' = [actual EXCEPT ![p] = h]
        /\ UNCHANGED vivo
  BY <1>2 DEF Despachar
<1>4. h \in Hilos /\ estado[<<p, h>>] = "READY"
  BY <1>1 DEF ColasInv, UnSoloLugar, ListosEnCola, TypeOK, TipoProgramas
<1>5. \A x \in Pares : EnCurso(x)
  BY <1>3, <1>4 DEF EnCurso, ColasInv, TypeOK, TipoHilos
<1>6. \A q \in Programas \ {p} : cliente' = [cliente EXCEPT ![p] = "corre"] => cliente'[q] = cliente[q]
  BY DEF ColasInv, TypeOK, TipoClientes
<1>7. QED
  BY <1>1, <1>3, <1>4, <1>5, <1>6

\* WAIT may block the running ULT.
LEMMA MovidosEsperar ==
  ASSUME ColasInv, NEW p \in Programas, NEW s \in Semaforos, Esperar(p, s)
  PROVE  \A x \in Pares : EnCurso(x)
<1> DEFINE h == actual[p]
<1>1. Activo(p) /\ cliente[p] = "corre"
  BY DEF Esperar, Corre, Escucha, Activo
<1>2. CASE SinUnidad(s) /\ h \in Hilos
  <2>1. estado' = [estado EXCEPT ![<<p, h>>] = "BLOCKED"] /\ estado \in [Pares -> Estados]
    BY <1>2 DEF Esperar, ColasInv, TypeOK, TipoHilos
  <2>2. estado[<<p, h>>] = "EXEC"
    BY <1>1, <1>2, ConstantesOK DEF ColasInv, DeAcuerdo, UnSoloLugar, ListosEnCola, ConstantesOK
  <2>3. QED
    BY <2>1, <2>2 DEF EnCurso
<1>3. CASE ~(SinUnidad(s) /\ h \in Hilos)
  BY <1>3 DEF Esperar, hiloVars, EnCurso
<1>4. QED
  BY <1>2, <1>3

\* Units given back make BLOCKED ULTs READY.
LEMMA MovidosDevolver ==
  ASSUME ColasInv, NEW S \in SUBSET Semaforos, NEW listas, NEW ctr,
         Devolver(S), PasarAReady(Otorgados(S), estado, listas, ctr)
  PROVE  \A x \in Pares : EnCurso(x)
<1>1. Otorgados(S) \in SUBSET Pares /\ \A x \in Otorgados(S) : estado[x] = "BLOCKED"
  BY OtorgadosTipo, Despertar DEF ColasInv, UnSoloLugar
<1>2. QED
  BY <1>1, PasarEstado DEF EnCurso

\* SIGNAL gives back one unit at most, the end of a program one of each
\* semaphore at most.
LEMMA MovidosSenalar ==
  ASSUME ColasInv, NEW p \in Programas, NEW s \in Semaforos, Senalar(p, s)
  PROVE  \A x \in Pares : EnCurso(x)
<1> DEFINE S == IF Cabe(s) THEN {s} ELSE {}
<1>1. S \in SUBSET Semaforos /\ Devolver(S) /\ PasarAReady(Otorgados(S), estado, tablaReady, cont)
  BY DEF Senalar
<1> HIDE DEF S
<1>2. QED
  BY <1>1, MovidosDevolver

\* The same for the end of a program.
LEMMA MovidosFinalizar ==
  ASSUME ColasInv, NEW p \in Programas, Finalizar(p)
  PROVE  \A x \in Pares : EnCurso(x)
<1> DEFINE S == {s \in Semaforos : retenidos[p][s] > 0 /\ Cabe(s)}
<1>1. /\ S \in SUBSET Semaforos /\ Devolver(S)
      /\ PasarAReady(Otorgados(S), estado, [tablaReady EXCEPT ![p] = {}], cont)
  BY DEF Finalizar
<1> HIDE DEF S
<1>2. QED
  BY <1>1, MovidosDevolver

\* The requests that neither create, close nor admit.
Otro(p) ==
  \/ Conectar(p) \/ PedirSiguiente(p) \/ Despachar(p)
  \/ \E h \in Hilos : Unir(p, h)
  \/ \E s \in Semaforos : Esperar(p, s) \/ Senalar(p, s)
  \/ (Escucha(p) /\ Finalizar(p)) \/ Morir(p)

\* They leave the slots alone, and every ULT in NEW, EXIT or not created.
LEMMA PlanOtro ==
  ASSUME ColasInv, CuposInv, NEW p \in Programas, Otro(p)
  PROVE  /\ CuposInv'
         /\ \A x \in Pares : EnCurso(x)
         /\ UNCHANGED cant_hilos
<1>1. UNCHANGED <<tabla_new, cant_programas, cant_hilos>>
  BY DEF Otro, Conectar, PedirSiguiente, Despachar, Unir, Esperar, Senalar, Finalizar, Morir
<1>2. \A x \in Pares : EnCurso(x)
  <2>1. Conectar(p) \/ Morir(p) \/ (\E h \in Hilos : Unir(p, h)) => UNCHANGED estado
    BY DEF Conectar, Morir, Unir, hiloVars
  <2>2. QED
    BY <2>1, MovidosPedirSiguiente, MovidosDespachar, MovidosEsperar, MovidosSenalar,
       MovidosFinalizar DEF Otro, EnCurso
<1>3. {x \in Pares : EnMemoria(estado'[x])} = {x \in Pares : EnMemoria(estado[x])}
  BY <1>2 DEF EnCurso, EnMemoria
<1>4. CuposInv'
  BY <1>1, <1>3 DEF CuposInv, AdmisionAlDia
<1>5. QED
  BY SMTT(30), <1>1, <1>2, <1>4

\* Every step is one of those, or creates, closes or admits.
LEMMA CuatroCasos ==
  ASSUME NEW p \in Programas, Paso(p)
  PROVE  \/ \E h \in Hilos : Crear(p, h)
         \/ \E h \in Hilos : CerrarHilo(p, h)
         \/ RetornarMainRechazado(p)
         \/ Otro(p)
BY DEF Paso, Otro, RetornarMain, Desconectar, Corre

-----------------------------------------------------------------------------
(* Slots *)

\* Nobody is admitted at first.
LEMMA CuposInicial == Init => CuposInv
<1> SUFFICES ASSUME Init PROVE CuposInv
  OBVIOUS
<1>1. {x \in Pares : EnMemoria(estado[x])} = {}
  BY DEF Init, EnMemoria
<1>2. cant_programas = 0 /\ tabla_new = <<>> /\ 0 <= Multiprog
  BY ConstantesOK DEF Init, ConstantesOK
<1>3. Cardinality({x \in Pares : EnMemoria(estado[x])}) = 0
  BY <1>1, FS_EmptySet, Zenon
<1>4. QED
  BY <1>2, <1>3 DEF CuposInv, AdmisionAlDia

\* Every step keeps the count of slots.
LEMMA CuposPaso ==
  ASSUME ColasInv, CuposInv, [Next]_vars
  PROVE  CuposInv'
<1>1. CASE UNCHANGED vars
  BY <1>1 DEF vars, CuposInv, AdmisionAlDia
<1>2. CASE Next
  <2>1. PICK p \in Programas : Paso(p)
    BY <1>2 DEF Next
  <2>2. QED
    BY <2>1, CuatroCasos, PlanCrear, PlanCerrarHilo, PlanRetornarMainRechazado, PlanOtro
<1>3. QED
  BY <1>1, <1>2

\* The invariants of the queues and of the slots, together, always.
LEMMA CuposSiempre == Spec => [](ColasInv /\ CuposInv)
<1>1. Init => ColasInv /\ CuposInv
  BY ColasInicial, CuposInicial
<1>2. ColasInv /\ CuposInv /\ [Next]_vars => (ColasInv /\ CuposInv)'
  BY ColasPaso, CuposPaso
<1>3. QED
  BY <1>1, <1>2, PTL DEF Spec

\* cant_programas is always the number of ULTs admitted and not closed, never
\* above MAX_MULTIPROG, whoever dies.
THEOREM CuposCuentan == Spec => []CuposExactos
<1>1. CuposInv => CuposExactos
  BY DEF CuposInv, CuposExactos, Admitidos, EnMemoria
<1>2. QED
  BY <1>1, CuposSiempre, PTL

\* Nobody is ever left in tabla_new beside a free slot: the planner runs after
\* everything that adds a ULT or frees a slot.
THEOREM SinEsperaInutil == Spec => []AdmisionAlDia
<1>1. CuposInv => AdmisionAlDia
  BY DEF CuposInv
<1>2. QED
  BY <1>1, CuposSiempre, PTL

-----------------------------------------------------------------------------
(* Transitions *)

\* Every ULT, at every step, follows the five-state diagram: EXIT is final
\* although semaphores, tabla_new or lists of dead programs may name the ULT.
THEOREM DiagramaDeEstados == Spec => TransicionesLegales
<1> DEFINE Legal == \A x \in Pares : estado'[x] # estado[x] =>
                      <<estado[x], estado'[x]>> \in
                        {<<"NADA", "NEW">>, <<"NADA", "READY">>, <<"NEW", "READY">>,
                         <<"READY", "EXEC">>, <<"EXEC", "READY">>, <<"EXEC", "BLOCKED">>,
                         <<"EXEC", "EXIT">>, <<"BLOCKED", "READY">>}
<1>1. ASSUME ColasInv, CuposInv, Next PROVE Legal
  <2>1. PICK p \in Programas : Paso(p)
    BY <1>1 DEF Next
  <2>2. ASSUME NEW h \in Hilos, Crear(p, h) PROVE Legal
    BY <1>1, <2>2, PlanCrear DEF Admitido
  <2>3. ASSUME NEW h \in Hilos, CerrarHilo(p, h) PROVE Legal
    BY <1>1, <2>3, PlanCerrarHilo DEF Admitido
  <2>4. CASE RetornarMainRechazado(p)
    BY <1>1, <2>4, PlanRetornarMainRechazado DEF Admitido
  <2>5. CASE Otro(p)
    BY <1>1, <2>5, PlanOtro DEF EnCurso
  <2>6. QED
    BY <2>1, <2>2, <2>3, <2>4, <2>5, CuatroCasos
<1>2. ColasInv /\ CuposInv /\ [Next]_vars => [Legal]_vars
  BY <1>1
<1>3. QED
  BY <1>2, CuposSiempre, PTL DEF Spec, TransicionesLegales

-----------------------------------------------------------------------------
(* The ULTs of a program, and main *)

Vivos(p) == {h \in Hilos : Vivo(estado[<<p, h>>])}

\* cant_hilos counts the ULTs of every program, those that ended included.
HilosInv ==
  /\ \A p \in Programas : cant_hilos[p] = Cardinality(Vivos(p))
  /\ JoinDeMain

\* A program whose ULTs are the same, created or ended, keeps them.
LEMMA VivosQuietos ==
  ASSUME NEW p \in Programas,
         \A h \in Hilos : Vivo(estado'[<<p, h>>]) <=> Vivo(estado[<<p, h>>])
  PROVE  Cardinality(Vivos(p))' = Cardinality(Vivos(p))
<1>1. Vivos(p)' = Vivos(p)
  BY DEF Vivos
<1>2. QED
  BY <1>1

\* cant_hilos stays the count of ULTs.
LEMMA HilosPaso ==
  ASSUME ColasInv, CuposInv, NEW p \in Programas, Paso(p),
         \A q \in Programas : cant_hilos[q] = Cardinality(Vivos(q))
  PROVE  \A q \in Programas : cant_hilos'[q] = Cardinality(Vivos(q))'
<1>0. /\ \A q \in Programas, h \in Hilos : <<q, h>> \in Pares
      /\ \A q \in Programas : IsFiniteSet(Vivos(q))
      /\ cant_hilos \in [Programas -> Int]
  BY CardinalidadHilos DEF Pares, Vivos, ColasInv, TypeOK, TipoProgramas
<1>1. ASSUME NEW h \in Hilos, Crear(p, h)
      PROVE  \A q \in Programas : cant_hilos'[q] = Cardinality(Vivos(q))'
  <2>1. cant_hilos' = [cant_hilos EXCEPT ![p] = @ + 1]
    BY <1>1 DEF Crear
  <2>2. \A x \in Pares : IF x = <<p, h>> THEN estado[x] = "NADA" /\ Admitido(x, "NEW")
                                         ELSE Admitido(x, estado[x])
    BY <1>1, PlanCrear
  <2>3. Cardinality(Vivos(p))' = Cardinality(Vivos(p)) + 1
    <3>1. Vivos(p)' = Vivos(p) \cup {h} /\ h \notin Vivos(p)
      BY <1>0, <2>2 DEF Vivos, Vivo, Admitido
    <3>2. QED
      BY <1>0, <3>1, FS_AddElement
  <2>4. \A q \in Programas \ {p} : Cardinality(Vivos(q))' = Cardinality(Vivos(q))
    BY <1>0, <2>2, VivosQuietos DEF Vivo, Admitido
  <2>5. QED
    BY <1>0, <2>1, <2>3, <2>4
<1>2. ASSUME NEW h \in Hilos, CerrarHilo(p, h)
      PROVE  \A q \in Programas : cant_hilos'[q] = Cardinality(Vivos(q))'
  <2>1. cant_hilos' = [cant_hilos EXCEPT ![p] = @ - 1]
    BY <1>2 DEF CerrarHilo
  <2>2. \A x \in Pares : IF x = <<p, h>> THEN estado[x] = "EXEC" /\ estado'[x] = "EXIT"
                                         ELSE Admitido(x, estado[x])
    BY <1>2, PlanCerrarHilo
  <2>3. Cardinality(Vivos(p))' = Cardinality(Vivos(p)) - 1
    <3>1. Vivos(p)' = Vivos(p) \ {h} /\ h \in Vivos(p)
      BY <1>0, <2>2 DEF Vivos, Vivo, Admitido
    <3>2. QED
      BY <1>0, <3>1, FS_RemoveElement
  <2>4. \A q \in Programas \ {p} : Cardinality(Vivos(q))' = Cardinality(Vivos(q))
    BY <1>0, <2>2, VivosQuietos DEF Vivo, Admitido
  <2>5. QED
    BY <1>0, <2>1, <2>3, <2>4
<1>3. CASE RetornarMainRechazado(p) \/ Otro(p)
  <2>1. UNCHANGED cant_hilos
    BY <1>3, PlanOtro DEF RetornarMainRechazado
  <2>2. \A x \in Pares : Admitido(x, estado[x]) \/ EnCurso(x)
    BY <1>3, PlanRetornarMainRechazado, PlanOtro
  <2>3. \A q \in Programas : Cardinality(Vivos(q))' = Cardinality(Vivos(q))
    BY <1>0, <2>2, VivosQuietos DEF Vivo, Admitido, EnCurso
  <2>4. QED
    BY <2>1, <2>3
<1>4. QED
  BY <1>1, <1>2, <1>3, CuatroCasos

\* Who runs after a step of p: the other programs as before, and main only if
\* it ran already, connects, or was given the CPU with no ULT left.
LEMMA TurnoDeMain ==
  ASSUME ColasInv, NEW p \in Programas, Paso(p)
  PROVE  /\ \A q \in Programas \ {p} : /\ cliente'[q] = cliente[q] /\ actual'[q] = actual[q]
                                       /\ pendiente'[q] = pendiente[q]
         /\ (cliente'[p] = "corre" /\ actual'[p] = Main /\ ~pendiente'[p]) =>
               \/ estProg[p] = "NADA" /\ UNCHANGED estado
               \/ PedirSiguiente(p) /\ SinHilos(p)
<1>1. /\ cliente \in [Programas -> {"fuera", "corre", "cede", "espera", "salio"}]
      /\ actual \in [Programas -> Hilos \cup {Main}] /\ pendiente \in [Programas -> BOOLEAN]
  BY DEF ColasInv, TypeOK, TipoClientes
<1> DEFINE R == /\ \A q \in Programas \ {p} : /\ cliente'[q] = cliente[q] /\ actual'[q] = actual[q]
                                              /\ pendiente'[q] = pendiente[q]
                /\ (cliente'[p] = "corre" /\ actual'[p] = Main /\ ~pendiente'[p]) =>
                      \/ estProg[p] = "NADA" /\ UNCHANGED estado
                      \/ PedirSiguiente(p) /\ SinHilos(p)
<1>2. CASE Conectar(p)
  BY <1>1, <1>2 DEF Conectar, hiloVars
<1>3. ASSUME NEW h \in Hilos, Crear(p, h) PROVE R
  BY <1>1, <1>3 DEF Crear
<1>4. CASE PedirSiguiente(p)
  BY <1>1, <1>4 DEF PedirSiguiente
<1>5. CASE Despachar(p)
  <2>1. PICK h \in Hilos :
          \/ cliente[p] = "salio" /\ UNCHANGED <<cliente, actual>>
          \/ actual' = [actual EXCEPT ![p] = h] /\ \A q \in Programas \ {p} : cliente'[q] = cliente[q]
    BY <1>5, MovidosDespachar
  <2>2. UNCHANGED pendiente
    BY <1>5 DEF Despachar
  <2>3. QED
    BY <1>1, <2>1, <2>2, ConstantesOK DEF ConstantesOK
<1>6. ASSUME NEW h \in Hilos, Unir(p, h) PROVE R
  BY <1>1, <1>6 DEF Unir, Ceder
<1>7. ASSUME NEW h \in Hilos, CerrarHilo(p, h) PROVE R
  BY <1>1, <1>7 DEF CerrarHilo, Ceder
<1>8. ASSUME NEW s \in Semaforos, Esperar(p, s) PROVE R
  BY <1>1, <1>8 DEF Esperar, Ceder
<1>9. ASSUME NEW s \in Semaforos, Senalar(p, s) PROVE R
  BY <1>1, <1>9 DEF Senalar, Ceder
<1>10. CASE RetornarMain(p) \/ Desconectar(p) \/ RetornarMainRechazado(p) \/ Morir(p)
  BY <1>1, <1>10 DEF RetornarMain, Desconectar, RetornarMainRechazado, Morir, Finalizar
<1>11. QED
  BY <1>2, <1>3, <1>4, <1>5, <1>6, <1>7, <1>8, <1>9, <1>10 DEF Paso

\* A ULT that ended, or was not created, stays so unless its program creates it.
LEMMA ApagadosQuietos ==
  ASSUME ColasInv, CuposInv, NEW p \in Programas, Paso(p),
         NEW q \in Programas, NEW h \in Hilos, estado[<<q, h>>] \in {"NADA", "EXIT"}
  PROVE  \/ estado'[<<q, h>>] = estado[<<q, h>>]
         \/ q = p /\ Crear(p, h)
<1>1. <<q, h>> \in Pares
  BY DEF Pares
<1>2. ASSUME NEW g \in Hilos, Crear(p, g)
      PROVE  estado'[<<q, h>>] = estado[<<q, h>>] \/ (q = p /\ Crear(p, h))
  BY <1>1, <1>2, PlanCrear DEF Admitido
<1>3. ASSUME NEW g \in Hilos, CerrarHilo(p, g) PROVE estado'[<<q, h>>] = estado[<<q, h>>]
  BY <1>1, <1>3, PlanCerrarHilo DEF Admitido
<1>4. CASE RetornarMainRechazado(p) \/ Otro(p)
  BY <1>1, <1>4, PlanRetornarMainRechazado, PlanOtro DEF Admitido, EnCurso
<1>5. QED
  BY <1>2, <1>3, <1>4, CuatroCasos

\* Main keeps its turn only while none of its ULTs is left.
LEMMA JoinPaso ==
  ASSUME ColasInv, CuposInv, HilosInv, NEW p \in Programas, Paso(p)
  PROVE  JoinDeMain'
<1>1. SUFFICES ASSUME NEW q \in Programas,
                      cliente'[q] = "corre", actual'[q] = Main, ~pendiente'[q],
                      NEW h \in Hilos
               PROVE  estado'[<<q, h>>] \in {"NADA", "EXIT"}
  BY DEF JoinDeMain
<1>2. estado[<<q, h>>] \in {"NADA", "EXIT"}
  <2>1. CASE q # p
    BY <1>1, <2>1, TurnoDeMain DEF HilosInv, JoinDeMain
  <2>2. CASE q = p /\ estProg[p] = "NADA"
    BY <2>2 DEF ColasInv, SinConectar
  <2>3. CASE q = p /\ SinHilos(p)
    <3>1. Vivos(p) = {}
      <4>1. Cardinality(Vivos(p)) = 0 /\ IsFiniteSet(Vivos(p))
        BY <2>3, CardinalidadHilos DEF HilosInv, SinHilos, Vivos
      <4>2. QED
        BY <4>1, FS_EmptySet
    <3>2. QED
      BY <2>3, <3>1 DEF Vivos, Vivo
  <2>4. QED
    BY <1>1, <2>1, <2>2, <2>3, TurnoDeMain
<1>3. CASE q = p /\ Crear(p, h)
  BY <1>1, <1>3 DEF Crear, ColasInv, TypeOK, TipoClientes
<1>4. QED
  BY <1>2, <1>3, ApagadosQuietos

\* The counts of ULTs and main's turn, together with the queues, always.
LEMMA HilosSiempre == Spec => [](ColasInv /\ CuposInv /\ HilosInv)
<1>1. Init => HilosInv
  <2> SUFFICES ASSUME Init PROVE HilosInv
    OBVIOUS
  <2>1. \A p \in Programas : Vivos(p) = {} /\ cant_hilos[p] = 0
    BY DEF Init, Vivos, Vivo, Pares
  <2>2. JoinDeMain
    BY DEF Init, JoinDeMain
  <2>3. QED
    BY <2>1, <2>2, FS_EmptySet, Zenon DEF HilosInv
<1>2. ASSUME ColasInv, CuposInv, HilosInv, [Next]_vars PROVE HilosInv'
  <2>1. CASE UNCHANGED vars
    BY <1>2, <2>1 DEF vars, HilosInv, JoinDeMain, Vivos
  <2>2. CASE Next
    <3>1. PICK p \in Programas : Paso(p)
      BY <2>2 DEF Next
    <3>2. JoinDeMain'
      BY <1>2, <3>1, JoinPaso
    <3>3. \A q \in Programas : cant_hilos'[q] = Cardinality(Vivos(q))'
      BY <1>2, <3>1, HilosPaso DEF HilosInv
    <3>4. QED
      BY <3>2, <3>3 DEF HilosInv
  <2>3. QED
    BY <1>2, <2>1, <2>2
<1>3. Init => ColasInv /\ CuposInv /\ HilosInv
  BY <1>1, ColasInicial, CuposInicial
<1>4. ColasInv /\ CuposInv /\ HilosInv /\ [Next]_vars => (ColasInv /\ CuposInv /\ HilosInv)'
  BY <1>2, ColasPaso, CuposPaso
<1>5. QED
  BY <1>3, <1>4, PTL DEF Spec

\* cant_hilos is always the number of ULTs created and not closed.
THEOREM HilosCuentan == Spec => []HilosContados
<1>1. HilosInv => HilosContados
  BY DEF HilosInv, HilosContados, Vivos, Vivo
<1>2. QED
  BY <1>1, HilosSiempre, PTL

\* After a join, main runs only when every ULT of its program has ended, for
\* any program and any interleaving: cant_hilos = 0 is enough to know it.
THEOREM MainEsperaASusHilos == Spec => []JoinDeMain
<1>1. HilosInv => JoinDeMain
  BY DEF HilosInv
<1>2. QED
  BY <1>1, HilosSiempre, PTL

-----------------------------------------------------------------------------
(* Shortest job first *)

\* The copy that next_hilo compares is never older than the estimate.
LEMMA CopiaAlDia == Spec => [](nodo = estimado)
<1>1. Init => nodo = estimado
  BY DEF Init
<1>2. ASSUME nodo = estimado, [Next]_vars PROVE nodo' = estimado'
  <2>1. ASSUME NEW p \in Programas, NEW h, Reestimar(p, h) PROVE nodo' = estimado'
    BY <1>2, <2>1 DEF Reestimar
  <2>2. ASSUME NEW p \in Programas, PedirSiguiente(p) PROVE nodo' = estimado'
    BY <1>2, <2>1, <2>2 DEF PedirSiguiente, hiloVars
  <2>3. ASSUME NEW p \in Programas, NEW s \in Semaforos, Esperar(p, s) PROVE nodo' = estimado'
    BY <1>2, <2>1, <2>3 DEF Esperar, hiloVars
  <2>4. ASSUME NEW p \in Programas, NEW h \in Hilos, Crear(p, h) PROVE nodo' = estimado'
    BY <1>2, <2>4 DEF Crear
  <2>5. ASSUME NEW p \in Programas,
               \/ Conectar(p) \/ Despachar(p) \/ \E h \in Hilos : Unir(p, h) \/ CerrarHilo(p, h)
               \/ \E s \in Semaforos : Senalar(p, s)
               \/ Finalizar(p) \/ RetornarMainRechazado(p) \/ Morir(p)
        PROVE  nodo' = estimado'
    BY <1>2, <2>5 DEF Conectar, Despachar, Unir, CerrarHilo, Senalar, Finalizar,
       RetornarMainRechazado, Morir, hiloVars
  <2>6. CASE UNCHANGED vars
    BY <1>2, <2>6 DEF vars
  <2>7. QED
    BY <1>2, <2>2, <2>3, <2>4, <2>5, <2>6 DEF Next, Paso, RetornarMain, Desconectar
<1>3. nodo = estimado /\ [Next]_vars => (nodo = estimado)'
  BY <1>2
<1>4. QED
  BY <1>1, <1>3, PTL DEF Spec

\* A step that changes the CPU of p to a ULT is the Despachar of p.
LEMMA SoloDespachar ==
  ASSUME ColasInv, NEW q \in Programas, Paso(q),
         NEW p \in Programas, hilo_exec'[p] \in Hilos, hilo_exec'[p] # hilo_exec[p]
  PROVE  p = q /\ Despachar(p)
<1>1. hilo_exec \in [Programas -> Hilos \cup {Nadie}] /\ Nadie \notin Hilos
  BY ConstantesOK DEF ColasInv, TypeOK, TipoProgramas, ConstantesOK
<1>2. CASE Despachar(q)
  <2>1. PICK h \in Hilos : hilo_exec' = [hilo_exec EXCEPT ![q] = h]
    BY <1>2, MovidosDespachar
  <2>2. QED
    BY <1>1, <1>2, <2>1
<1>3. CASE ~Despachar(q)
  <2>1. UNCHANGED hilo_exec \/ hilo_exec' = [hilo_exec EXCEPT ![q] = Nadie]
    BY <1>3 DEF Paso, Conectar, Crear, PedirSiguiente, Unir, CerrarHilo, Esperar, Senalar,
       RetornarMain, Desconectar, Finalizar, RetornarMainRechazado, Morir
  <2>2. QED
    BY <1>1, <2>1
<1>4. QED
  BY <1>2, <1>3

\* The ULT dispatched always has the least current estimate of the READY ULTs
\* of its program, although next_hilo compares copies made at queueing.
THEOREM PrimeroElMasCorto == Spec => MasCortoPrimero
<1> DEFINE Corto == \A p \in Programas, h \in Hilos :
                      (hilo_exec'[p] = h /\ hilo_exec[p] # h) =>
                         \A g \in Hilos : estado[<<p, g>>] = "READY" => estimado[<<p, h>>] <= estimado[<<p, g>>]
<1>1. ASSUME ColasInv, nodo = estimado, Next PROVE Corto
  <2>1. SUFFICES ASSUME NEW p \in Programas, NEW h \in Hilos, hilo_exec'[p] = h, hilo_exec[p] # h,
                        NEW g \in Hilos, estado[<<p, g>>] = "READY"
                 PROVE  estimado[<<p, h>>] <= estimado[<<p, g>>]
    OBVIOUS
  <2>2. Despachar(p)
    <3>1. PICK q \in Programas : Paso(q)
      BY <1>1 DEF Next
    <3>2. QED
      BY <1>1, <2>1, <3>1, SoloDespachar
  <2>3. g \in tablaReady[p]
    BY <1>1, <2>1, <2>2, MovidosDespachar DEF ColasInv, UnSoloLugar, ListosEnCola
  <2>4. PICK k \in Hilos : /\ \A j \in tablaReady[p] : nodo[<<p, k>>] <= nodo[<<p, j>>]
                           /\ hilo_exec' = [hilo_exec EXCEPT ![p] = k]
    BY <1>1, <2>2, MovidosDespachar
  <2>5. k = h
    BY <1>1, <2>1, <2>4 DEF ColasInv, TypeOK, TipoProgramas
  <2>6. QED
    BY <1>1, <2>3, <2>4, <2>5
<1>2. ColasInv /\ nodo = estimado /\ [Next]_vars => [Corto]_vars
  BY <1>1
<1>3. QED
  BY <1>2, ColasCorrectas, CopiaAlDia, PTL DEF Spec, MasCortoPrimero

-----------------------------------------------------------------------------
(* Crashes of the server *)

\* A program that ended, or whose process did, left no ULT behind.
FinLimpio ==
  \A p \in Programas : (estProg[p] = "FINALIZADO" \/ cliente[p] = "salio") =>
     \A h \in Hilos : estado[<<p, h>>] \in {"NADA", "EXIT"}

\* When nobody dies and main joins, a program that ends has no ULT left.
LEMMA TerminaSolo ==
  ASSUME ColasInv, HilosInv, FinLimpio, PuedenMorir = {}, SinJoin = {},
         NEW p \in Programas,
         RetornarMain(p) \/ RetornarMainRechazado(p) \/ Desconectar(p)
  PROVE  \A h \in Hilos : estado[<<p, h>>] \in {"NADA", "EXIT"}
BY DEF RetornarMain, RetornarMainRechazado, Desconectar, Corre, HilosInv, JoinDeMain, FinLimpio

\* FinLimpio is kept.
LEMMA FinPaso ==
  ASSUME ColasInv, CuposInv, HilosInv, FinLimpio, PuedenMorir = {}, SinJoin = {},
         NEW p \in Programas, Paso(p)
  PROVE  FinLimpio'
<1>1. SUFFICES ASSUME NEW q \in Programas, estProg'[q] = "FINALIZADO" \/ cliente'[q] = "salio",
                      NEW h \in Hilos
               PROVE  estado'[<<q, h>>] \in {"NADA", "EXIT"}
  BY DEF FinLimpio
<1>2. /\ cliente \in [Programas -> {"fuera", "corre", "cede", "espera", "salio"}]
      /\ estProg \in [Programas -> {"NADA", "ACTIVO", "BLOQUEADO", "FINALIZADO"}]
  BY DEF ColasInv, TypeOK, TipoProgramas, TipoClientes
<1>3. \/ estProg[q] = "FINALIZADO" \/ cliente[q] = "salio"
      \/ q = p /\ (RetornarMain(p) \/ RetornarMainRechazado(p) \/ Desconectar(p))
  <2> DEFINE Era == \/ estProg[q] = "FINALIZADO" \/ cliente[q] = "salio"
                    \/ q = p /\ (RetornarMain(p) \/ RetornarMainRechazado(p) \/ Desconectar(p))
  <2>1. CASE Conectar(p)
    BY <1>1, <1>2, <2>1 DEF Conectar
  <2>2. ASSUME NEW g \in Hilos, Crear(p, g) PROVE Era
    BY <1>1, <2>2 DEF Crear
  <2>3. CASE PedirSiguiente(p)
    BY <1>1, <1>2, <2>3 DEF PedirSiguiente
  <2>4. CASE Despachar(p)
    BY <1>1, <1>2, <2>4 DEF Despachar
  <2>5. ASSUME NEW g \in Hilos, Unir(p, g) PROVE Era
    BY <1>1, <1>2, <2>5 DEF Unir, Ceder
  <2>6. ASSUME NEW g \in Hilos, CerrarHilo(p, g) PROVE Era
    BY <1>1, <1>2, <2>6 DEF CerrarHilo, Ceder
  <2>7. ASSUME NEW s \in Semaforos, Esperar(p, s) \/ Senalar(p, s) PROVE Era
    BY <1>1, <1>2, <2>7 DEF Esperar, Senalar, Ceder
  <2>8. CASE RetornarMain(p) \/ RetornarMainRechazado(p) \/ Desconectar(p)
    BY <1>1, <1>2, <2>8 DEF RetornarMain, RetornarMainRechazado, Desconectar, Finalizar
  <2>9. ~Morir(p)
    BY DEF Morir
  <2>10. QED
    BY <2>1, <2>2, <2>3, <2>4, <2>5, <2>6, <2>7, <2>8, <2>9 DEF Paso
<1>4. estado[<<q, h>>] \in {"NADA", "EXIT"}
  BY <1>3, TerminaSolo DEF FinLimpio
<1>5. ~(q = p /\ Crear(p, h))
  BY <1>1, <1>2 DEF Crear, Corre, Escucha
<1>6. QED
  BY <1>4, <1>5, ApagadosQuietos

\* The planner never admits a ULT of a finished program.
LEMMA PlanificadorSinCaer ==
  ASSUME NEW c \in Seq(Pares), NEW n \in Int, NEW est, NEW listas, NEW ctr,
         \A x \in Pares : x \in EnCola(c) => x[1] \notin Finalizados,
         planificadorLargo(c, n, est, listas, ctr)
  PROVE  vivo'
<1> DEFINE k == Cupo(c, n)
           B == {c[i] : i \in 1..k}
<1>1. vivo' \in TrasTocar(B, Finalizados)
  BY DEF planificadorLargo
<1>2. k \in 0..Len(c)
  BY CupoTipo
<1> HIDE DEF k
<1>3. \A x \in B : x \in Pares /\ x \in EnCola(c)
  BY <1>2 DEF EnCola
<1> HIDE DEF B
<1>4. TrasTocar(B, Finalizados) = {TRUE}
  BY <1>3 DEF TrasTocar
<1>5. vivo' \in {TRUE}
  BY <1>1, <1>4, Zenon
<1>6. QED
  BY <1>5, Zenon

\* No unit given back finds an empty queue or wakes a ULT of a finished program.
LEMMA DevolverSinCaer ==
  ASSUME ColasInv, SemInv, FinLimpio, NEW S \in SUBSET Semaforos, NEW F \in SUBSET Programas,
         \A p \in F, h \in Hilos : estado[<<p, h>>] \in {"NADA", "EXIT"},
         vivo' \in IF PopVacio(S) THEN {FALSE} ELSE TrasTocar(Otorgados(S), F)
  PROVE  vivo'
<1>1. ~PopVacio(S)
  <2>1. \A s \in S : Despierta(s) => Len(sem_blocked[s]) > 0
    BY TipoSemaforos DEF ColasInv, SemInv, SemaforoExacto, Despierta
  <2>2. QED
    BY <2>1 DEF PopVacio
<1>2. Otorgados(S) \in SUBSET Pares /\ \A x \in Otorgados(S) : estado[x] = "BLOCKED"
  <2>1. Otorgados(S) \in SUBSET Pares
    BY OtorgadosTipo DEF ColasInv
  <2>2. \A s \in S : sem_blocked[s] # <<>> => Head(sem_blocked[s]) \in EnCola(sem_blocked[s])
    BY TipoSemaforos, TailCola DEF ColasInv
  <2>3. \A x \in Otorgados(S) : \E s \in Semaforos : x \in EnCola(sem_blocked[s])
    BY <2>2 DEF Otorgados
  <2>4. QED
    BY <2>1, <2>3 DEF ColasInv, UnSoloLugar, BloqueadosEnCola
<1>3. TrasTocar(Otorgados(S), F) = {TRUE}
  <2>1. \A x \in Otorgados(S) : x[1] \notin F
    BY <1>2 DEF Pares
  <2>2. QED
    BY <2>1 DEF TrasTocar
<1>4. vivo' \in {TRUE}
  BY <1>1, <1>3, Zenon
<1>5. QED
  BY <1>4, Zenon

\* No step takes the server down.
LEMMA VivoPaso ==
  ASSUME ColasInv, HilosInv, SemInv, FinLimpio, vivo,
         PuedenMorir = {}, SinJoin = {}, MainConSemaforos = {},
         NEW p \in Programas, Paso(p)
  PROVE  vivo'
<1>1. /\ tabla_new \in Seq(Pares) /\ cant_programas \in Int
      /\ \A x \in Pares : x \in EnCola(tabla_new) => estado[x] = "NEW"
  BY DEF ColasInv, TypeOK, TipoColas, UnSoloLugar, NuevosEnCola
<1>2. /\ Finalizados \in SUBSET Programas
      /\ \A q \in Finalizados, h \in Hilos : estado[<<q, h>>] \in {"NADA", "EXIT"}
  BY DEF FinLimpio, Finalizados
<1>3. \A x \in Pares : x \in EnCola(tabla_new) => x[1] \notin Finalizados
  BY <1>1, <1>2 DEF Pares
<1>4. ASSUME NEW h \in Hilos, Crear(p, h) PROVE vivo'
  <2> DEFINE c == Append(tabla_new, <<p, h>>)
  <2>1. <<p, h>> \in Pares /\ p \notin Finalizados
    BY <1>4 DEF Crear, Corre, Escucha, Finalizados, Pares
  <2>2. c \in Seq(Pares) /\ EnCola(c) = EnCola(tabla_new) \cup {<<p, h>>}
    BY <1>1, <2>1, AppendCola
  <2>3. planificadorLargo(c, cant_programas, [estado EXCEPT ![<<p, h>>] = "NEW"], tablaReady, cont)
    BY <1>4 DEF Crear
  <2> HIDE DEF c
  <2>4. QED
    BY <1>1, <1>3, <2>1, <2>2, <2>3, PlanificadorSinCaer
<1>5. ASSUME NEW h \in Hilos, CerrarHilo(p, h) PROVE vivo'
  <2>1. /\ planificadorLargo(tabla_new, cant_programas - 1, [estado EXCEPT ![<<p, h>>] = "EXIT"],
                             tablaReady, cont)
        /\ cant_programas - 1 \in Int
    BY <1>1, <1>5 DEF CerrarHilo
  <2>2. QED
    BY <1>1, <1>3, <2>1, PlanificadorSinCaer
<1>6. CASE RetornarMainRechazado(p)
  BY <1>1, <1>3, <1>6, PlanificadorSinCaer DEF RetornarMainRechazado
<1>7. ASSUME NEW s \in Semaforos, Senalar(p, s) PROVE vivo'
  <2> DEFINE S == IF Cabe(s) THEN {s} ELSE {}
  <2>1. /\ S \in SUBSET Semaforos
        /\ vivo' \in IF PopVacio(S) THEN {FALSE} ELSE TrasTocar(Otorgados(S), Finalizados)
    BY <1>7 DEF Senalar
  <2> HIDE DEF S
  <2>2. QED
    BY <1>2, <2>1, DevolverSinCaer
<1>8. CASE RetornarMain(p) \/ Desconectar(p)
  <2> DEFINE S == {s \in Semaforos : retenidos[p][s] > 0 /\ Cabe(s)}
             F == Finalizados \cup {p}
  <2>1. /\ S \in SUBSET Semaforos
        /\ vivo' \in IF PopVacio(S) THEN {FALSE} ELSE TrasTocar(Otorgados(S), F)
    BY <1>8 DEF RetornarMain, Desconectar, Finalizar
  <2>2. F \in SUBSET Programas /\ \A q \in F, h \in Hilos : estado[<<q, h>>] \in {"NADA", "EXIT"}
    BY <1>2, <1>8, TerminaSolo
  <2> HIDE DEF S, F
  <2>3. QED
    BY <2>1, <2>2, DevolverSinCaer
<1>9. CASE Despachar(p)
  BY <1>9, MovidosDespachar
<1>10. CASE \/ Conectar(p) \/ PedirSiguiente(p) \/ Morir(p)
            \/ \E h \in Hilos : Unir(p, h)
            \/ \E s \in Semaforos : Esperar(p, s)
  BY <1>10 DEF Conectar, PedirSiguiente, Unir, Esperar, Morir
<1>11. QED
  BY <1>4, <1>5, <1>6, <1>7, <1>8, <1>9, <1>10 DEF Paso

\* If no process dies, main joins before it returns and does not use the
\* semaphores, the server never dereferences a NULL nor writes to freed lists,
\* for any number of programs, ULTs and semaphores.
THEOREM ServidorNoCae ==
  ASSUME PuedenMorir = {}, SinJoin = {}, MainConSemaforos = {}
  PROVE  Spec => []NuncaCae
<1> DEFINE Todo == ColasInv /\ CuposInv /\ HilosInv /\ SemInv
           Sano == FinLimpio /\ vivo
<1>1. Init => Sano
  <2>1. Init => FinLimpio
    BY DEF Init, FinLimpio, Pares
  <2>2. Init => vivo
    BY Zenon DEF Init
  <2>3. QED
    BY <2>1, <2>2
<1>2. ASSUME Todo, Sano, [Next]_vars PROVE Sano'
  <2>1. CASE UNCHANGED vars
    BY <1>2, <2>1 DEF vars, FinLimpio
  <2>2. CASE Next
    <3>1. PICK p \in Programas : Paso(p)
      BY <2>2 DEF Next
    <3>2. QED
      BY <1>2, <3>1, FinPaso, VivoPaso
  <2>3. QED
    BY <1>2, <2>1, <2>2
<1>3. Todo /\ Sano /\ [Next]_vars => Sano'
  BY <1>2
<1>4. Spec => []Todo
  BY HilosSiempre, SemSiempre, PTL
<1>5. Spec => []Sano
  BY <1>1, <1>3, <1>4, PTL DEF Spec
<1>6. Sano => NuncaCae
  BY DEF NuncaCae
<1>7. QED
  BY <1>5, <1>6, PTL
=============================================================================
