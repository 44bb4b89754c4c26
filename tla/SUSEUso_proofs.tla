--------------------------- MODULE SUSEUso_proofs ---------------------------
(***************************************************************************)
(* Theorems about the threads that use the semaphores as locks: a thread    *)
(* that waits does not run before its turn, and no unit is lost or given    *)
(* twice.  Every step of SUSEUso is one of SUSE, so the invariants of SUSE   *)
(* hold of it.                                                              *)
(***************************************************************************)
EXTENDS SUSEUso, SUSE_proofs

UsoPaso(p) ==
  \/ \E s \in Semaforos : TomarLock(p, s) \/ SoltarLock(p, s)
  \/ \E h \in Hilos : CerrarSinLocks(p, h) \/ UnirEnJoin(p, h)
  \/ Fin(p)
  \/ Otros(p)

\* A step of the threads is a request of SUSE.
LEMMA UsoEsPaso ==
  ASSUME NEW p \in Programas, UsoPaso(p)
  PROVE  Paso(p)
BY DEF UsoPaso, TomarLock, SoltarLock, CerrarSinLocks, UnirEnJoin, Fin, Otros, MorirEnUso, Paso

LEMMA UsoEsNext == [UsoNext]_usoVars => [Next]_vars
<1>1. UsoNext => Next
  BY UsoEsPaso DEF UsoNext, UsoPaso, Next
<1>2. UNCHANGED usoVars => UNCHANGED vars
  BY DEF usoVars, vars
<1>3. QED
  BY <1>1, <1>2

\* What is known of SUSE holds of its use.
Base == ColasInv /\ CuposInv /\ HilosInv /\ SemInv

LEMMA BaseSiempre ==
  ASSUME MainConSemaforos = {}
  PROVE  UsoSpec => []Base
<1>1. UsoInit => Init
  BY DEF UsoInit
<1>2. UsoSpec => Spec
  BY <1>1, UsoEsNext, PTL DEF UsoSpec, Spec
<1>3. Spec => []Base
  <2>1. ColasInv /\ CuposInv /\ HilosInv /\ SemInv => Base
    BY DEF Base
  <2>2. QED
    BY <2>1, HilosSiempre, SemSiempre, PTL
<1>4. QED
  BY <1>2, <1>3, PTL

-----------------------------------------------------------------------------
(* What a request does to the semaphores *)

\* Only connected programs run.
Corriendo == \A p \in Programas : cliente[p] = "corre" => Activo(p)

LEMMA CorriendoPaso ==
  ASSUME ColasInv, Corriendo, NEW p \in Programas, Paso(p)
  PROVE  Corriendo'
<1>1. SUFFICES ASSUME NEW q \in Programas, cliente'[q] = "corre"
               PROVE  Activo(q)'
  BY DEF Corriendo
<1>2. /\ cliente \in [Programas -> {"fuera", "corre", "cede", "espera", "salio"}]
      /\ estProg \in [Programas -> {"NADA", "ACTIVO", "BLOQUEADO", "FINALIZADO"}]
  BY DEF ColasInv, TypeOK, TipoProgramas, TipoClientes
<1>3. CASE Conectar(p)
  BY <1>1, <1>2, <1>3 DEF Conectar, Corriendo, Activo
<1>4. ASSUME NEW h \in Hilos, Crear(p, h) PROVE Activo(q)'
  BY <1>1, <1>4 DEF Crear, Corriendo, Activo
<1>5. CASE PedirSiguiente(p)
  BY <1>1, <1>2, <1>5 DEF PedirSiguiente, Escucha, Corriendo, Activo
<1>6. CASE Despachar(p)
  <2>1. Activo(p) /\ UNCHANGED estProg
    BY <1>6, MovidosDespachar DEF Despachar
  <2>2. q # p => cliente'[q] = cliente[q]
    BY <1>2, <1>6, TurnoDeMain DEF Paso
  <2>3. QED
    BY <1>1, <2>1, <2>2 DEF Corriendo, Activo
<1>7. ASSUME NEW h \in Hilos, Unir(p, h) PROVE Activo(q)'
  BY <1>1, <1>2, <1>7 DEF Unir, Ceder, Corriendo, Activo
<1>8. ASSUME NEW h \in Hilos, CerrarHilo(p, h) PROVE Activo(q)'
  BY <1>1, <1>2, <1>8 DEF CerrarHilo, Ceder, Corriendo, Activo
<1>9. ASSUME NEW s \in Semaforos, Esperar(p, s) \/ Senalar(p, s) PROVE Activo(q)'
  BY <1>1, <1>2, <1>9 DEF Esperar, Senalar, Ceder, Corriendo, Activo
<1>10. CASE RetornarMain(p) \/ Desconectar(p)
  BY <1>1, <1>2, <1>10 DEF RetornarMain, Desconectar, Finalizar, Corriendo, Activo
<1>11. CASE RetornarMainRechazado(p) \/ Morir(p)
  BY <1>1, <1>2, <1>11 DEF RetornarMainRechazado, Morir, Corriendo, Activo
<1>12. QED
  BY <1>3, <1>4, <1>5, <1>6, <1>7, <1>8, <1>9, <1>10, <1>11 DEF Paso

\* The ULT that runs is in no queue.
LEMMA CorreSinCola ==
  ASSUME ColasInv, NEW p \in Programas, cliente[p] = "corre", Activo(p), actual[p] \in Hilos
  PROVE  /\ <<p, actual[p]>> \in Pares /\ estado[<<p, actual[p]>>] = "EXEC"
         /\ \A s \in Semaforos : <<p, actual[p]>> \notin EnCola(sem_blocked[s])
<1>1. <<p, actual[p]>> \in Pares
  BY DEF Pares
<1>2. estado[<<p, actual[p]>>] = "EXEC"
  BY ConstantesOK DEF ColasInv, DeAcuerdo, UnSoloLugar, ListosEnCola, ConstantesOK
<1>3. QED
  BY <1>1, <1>2 DEF ColasInv, UnSoloLugar, BloqueadosEnCola

\* WAIT takes one unit; without one it queues the ULT that runs, the last.
LEMMA EsperarQuien ==
  ASSUME ColasInv, SemInv, MainConSemaforos = {},
         NEW p \in Programas, NEW s \in Semaforos, Esperar(p, s)
  PROVE  /\ actual[p] \in Hilos /\ <<p, actual[p]>> \in Pares /\ estado[<<p, actual[p]>>] = "EXEC"
         /\ \A t \in Semaforos : <<p, actual[p]>> \notin EnCola(sem_blocked[t])
         /\ \A t \in Semaforos : sem_values'[t] = IF t = s THEN sem_values[s] - 1 ELSE sem_values[t]
         /\ \A t \in Semaforos :
              sem_blocked'[t] = IF t = s /\ sem_values[s] <= 0
                                THEN Append(sem_blocked[s], <<p, actual[p]>>) ELSE sem_blocked[t]
         /\ \A q \in Programas, t \in Semaforos :
              retenidos'[q][t] = IF q = p /\ t = s THEN retenidos[p][s] + 1 ELSE retenidos[q][t]
<1>1. /\ sem_values \in [Semaforos -> Int] /\ sem_blocked \in [Semaforos -> Seq(Pares)]
      /\ retenidos \in [Programas -> [Semaforos -> Int]]
  BY DEF ColasInv, TypeOK, TipoColas, TipoProgramas
<1>2. /\ Activo(p) /\ cliente[p] = "corre" /\ actual[p] \in Hilos
      /\ sem_values' = [sem_values EXCEPT ![s] = @ - 1]
      /\ retenidos' = [retenidos EXCEPT ![p][s] = @ + 1]
  BY DEF Esperar, Corre, Escucha, Activo
<1>3. sem_blocked' = IF sem_values[s] - 1 < 0
                     THEN [sem_blocked EXCEPT ![s] = Append(@, <<p, actual[p]>>)] ELSE sem_blocked
  BY <1>2 DEF Esperar, SinUnidad
<1>4. sem_values[s] - 1 < 0 <=> sem_values[s] <= 0
  BY <1>1
<1>5. \A t \in Semaforos :
        sem_blocked'[t] = IF t = s /\ sem_values[s] <= 0
                          THEN Append(sem_blocked[s], <<p, actual[p]>>) ELSE sem_blocked[t]
  BY <1>1, <1>3, <1>4
<1>6. \A q \in Programas, t \in Semaforos :
        retenidos'[q][t] = IF q = p /\ t = s THEN retenidos[p][s] + 1 ELSE retenidos[q][t]
  BY <1>1, <1>2
<1>7. QED
  BY <1>1, <1>2, <1>5, <1>6, CorreSinCola

\* A unit back: the value, and the queue without its first.
LEMMA DevolverQuien ==
  ASSUME ColasInv, SemInv, NEW S \in SUBSET Semaforos, Devolver(S), NEW s \in Semaforos
  PROVE  /\ s \notin S => sem_values'[s] = sem_values[s] /\ sem_blocked'[s] = sem_blocked[s]
         /\ s \in S => sem_values'[s] = sem_values[s] + 1
         /\ s \in S /\ sem_values[s] >= 0 =>
              EnCola(sem_blocked[s]) = {} /\ sem_blocked'[s] = sem_blocked[s]
         /\ s \in S /\ sem_values[s] < 0 =>
              sem_blocked[s] # <<>> /\ sem_blocked'[s] = Tail(sem_blocked[s])
<1>1. /\ sem_values[s] \in Int /\ sem_blocked[s] \in Seq(Pares)
      /\ Len(sem_blocked[s]) = IF sem_values[s] < 0 THEN -sem_values[s] ELSE 0
  BY TipoSemaforos DEF SemInv, SemaforoExacto, ColasInv
<1>2. /\ sem_values'[s] = IF s \in S THEN sem_values[s] + 1 ELSE sem_values[s]
      /\ sem_blocked'[s] = IF s \in S /\ sem_values[s] + 1 <= 0 /\ sem_blocked[s] # <<>>
                           THEN Tail(sem_blocked[s]) ELSE sem_blocked[s]
  BY DEF Devolver, Despierta
<1>3. sem_blocked[s] = <<>> <=> sem_values[s] >= 0
  BY <1>1
<1>4. sem_values[s] >= 0 => EnCola(sem_blocked[s]) = {}
  BY <1>1 DEF EnCola
<1>5. sem_values[s] < 0 => sem_values[s] + 1 <= 0
  BY <1>1
<1>6. sem_values[s] >= 0 <=> ~(sem_values[s] < 0)
  BY <1>1
<1>7. QED
  BY <1>2, <1>3, <1>4, <1>5, <1>6, Zenon

\* SIGNAL and the end of a program give at most one unit back to each semaphore.
LEMMA SenalarQuien ==
  ASSUME ColasInv, NEW p \in Programas, NEW s \in Semaforos, Senalar(p, s)
  PROVE  /\ \E S \in SUBSET Semaforos : Devolver(S) /\ S = IF Cabe(s) THEN {s} ELSE {}
         /\ \A q \in Programas, t \in Semaforos :
              retenidos'[q][t] = IF q = p /\ t = s THEN retenidos[p][s] - 1 ELSE retenidos[q][t]
<1>1. retenidos \in [Programas -> [Semaforos -> Int]]
  BY DEF ColasInv, TypeOK, TipoProgramas
<1>2. retenidos' = [retenidos EXCEPT ![p][s] = @ - 1] /\ Devolver(IF Cabe(s) THEN {s} ELSE {})
  BY DEF Senalar
<1>3. QED
  BY <1>1, <1>2

LEMMA FinalizarQuien ==
  ASSUME ColasInv, NEW p \in Programas, Finalizar(p)
  PROVE  /\ \E S \in SUBSET Semaforos :
              Devolver(S) /\ S = {s \in Semaforos : retenidos[p][s] > 0 /\ Cabe(s)}
         /\ \A q \in Programas, t \in Semaforos :
              retenidos'[q][t] = IF q = p THEN 0 ELSE retenidos[q][t]
<1>1. retenidos \in [Programas -> [Semaforos -> Int]]
  BY DEF ColasInv, TypeOK, TipoProgramas
<1>2. /\ retenidos' = [retenidos EXCEPT ![p] = [s \in Semaforos |-> 0]]
      /\ Devolver({s \in Semaforos : retenidos[p][s] > 0 /\ Cabe(s)})
  BY DEF Finalizar
<1>3. QED
  BY <1>1, <1>2

\* The other requests leave the semaphores alone.
LEMMA OtrosQuietos ==
  ASSUME NEW p \in Programas,
         Otros(p) \/ \E h \in Hilos : CerrarSinLocks(p, h) \/ UnirEnJoin(p, h)
  PROVE  UNCHANGED <<sem_values, sem_blocked, retenidos, tiene, turno>>
BY DEF Otros, CerrarSinLocks, UnirEnJoin, MorirEnUso, Conectar, Crear, PedirSiguiente, Despachar,
   Morir, CerrarHilo, Unir, semVars

-----------------------------------------------------------------------------
(* Whose turn it is *)

\* turno is the place of a ULT in the queue, or 0.
EnSuLugar(x, s) ==
  \/ turno[x][s] = 0 /\ x \notin EnCola(sem_blocked[s])
  \/ turno[x][s] \in 1..Len(sem_blocked[s]) /\ sem_blocked[s][turno[x][s]] = x
TurnoInv ==
  /\ turno \in [Todos -> [Semaforos -> Nat]]
  /\ \A p \in Programas, s \in Semaforos : turno[<<p, Main>>][s] = 0
  /\ \A x \in Pares, s \in Semaforos : EnSuLugar(x, s)

LEMMA ParesEnTodos == Pares \subseteq Todos /\ \A p \in Programas : <<p, Main>> \in Todos \ Pares
BY ConstantesOK DEF Pares, Todos, ConstantesOK

\* Who queues is the last: as many have to be served as wait, and itself.
LEMMA TurnoTomar ==
  ASSUME Base, TurnoInv, MainConSemaforos = {}, NEW p \in Programas, NEW s \in Semaforos, TomarLock(p, s)
  PROVE  TurnoInv'
<1> DEFINE x == <<p, actual[p]>>
           n == IF sem_values'[s] < 0 THEN -sem_values'[s] ELSE 0
<1>1. /\ Esperar(p, s) /\ turno' = [turno EXCEPT ![x][s] = n]
      /\ ColasInv /\ SemInv
  BY DEF TomarLock, Base
<1>2. /\ x \in Pares /\ \A t \in Semaforos : x \notin EnCola(sem_blocked[t])
      /\ sem_values'[s] = sem_values[s] - 1
      /\ \A t \in Semaforos :
           sem_blocked'[t] = IF t = s /\ sem_values[s] <= 0
                             THEN Append(sem_blocked[s], x) ELSE sem_blocked[t]
  BY <1>1, EsperarQuien
<1>3. /\ sem_values[s] \in Int /\ \A t \in Semaforos : sem_blocked[t] \in Seq(Pares)
      /\ Len(sem_blocked[s]) = IF sem_values[s] < 0 THEN -sem_values[s] ELSE 0
  BY <1>1, TipoSemaforos DEF SemInv, SemaforoExacto, ColasInv
<1> HIDE DEF x
<1>4. n \in Nat /\ n = (IF sem_values[s] <= 0 THEN Len(sem_blocked[s]) + 1 ELSE 0)
  BY <1>2, <1>3
<1> HIDE DEF n
<1>5. \A y \in Todos, t \in Semaforos :
        turno'[y][t] = IF y = x /\ t = s THEN n ELSE turno[y][t]
  BY <1>1, <1>2, <1>4, ParesEnTodos DEF TurnoInv
<1>6. turno' \in [Todos -> [Semaforos -> Nat]]
  BY <1>1, <1>2, <1>4, ParesEnTodos DEF TurnoInv
<1>7. \A q \in Programas, t \in Semaforos : turno'[<<q, Main>>][t] = 0
  BY <1>2, <1>5, ParesEnTodos DEF TurnoInv
<1>8. ASSUME NEW y \in Pares, NEW t \in Semaforos
      PROVE  EnSuLugar(y, t)'
  <2>1. EnSuLugar(y, t) /\ y \in Todos /\ sem_blocked[t] \in Seq(Pares)
    BY <1>3, ParesEnTodos DEF TurnoInv
  <2>2. CASE t # s \/ sem_values[s] > 0
    <3>1. sem_blocked'[t] = sem_blocked[t]
      BY <1>2, <1>3, <2>2
    <3>2. CASE y = x /\ t = s
      <4>1. turno'[y][t] = 0
        BY <1>3, <1>4, <1>5, <2>1, <2>2, <3>2
      <4>2. QED
        BY <1>2, <3>1, <3>2, <4>1 DEF EnSuLugar, EnCola
    <3>3. CASE ~ (y = x /\ t = s)
      BY <1>5, <2>1, <3>1, <3>3 DEF EnSuLugar, EnCola
    <3>4. QED
      BY <3>2, <3>3
  <2>3. CASE t = s /\ sem_values[s] <= 0
    <3>1. /\ sem_blocked'[t] = Append(sem_blocked[t], x) /\ n = Len(sem_blocked[t]) + 1
          /\ Len(sem_blocked'[t]) = Len(sem_blocked[t]) + 1
          /\ sem_blocked'[t][n] = x
          /\ \A i \in 1..Len(sem_blocked[t]) : sem_blocked'[t][i] = sem_blocked[t][i]
          /\ EnCola(sem_blocked'[t]) = EnCola(sem_blocked[t]) \cup {x}
      <4>1. \A c \in Seq(Pares) :
              /\ Len(Append(c, x)) = Len(c) + 1 /\ Append(c, x)[Len(c) + 1] = x
              /\ \A i \in 1..Len(c) : Append(c, x)[i] = c[i]
              /\ EnCola(Append(c, x)) = EnCola(c) \cup {x}
        BY <1>2, AppendCola
      <4>2. sem_blocked'[t] = Append(sem_blocked[t], x) /\ n = Len(sem_blocked[t]) + 1
        BY <1>2, <1>4, <2>3
      <4>3. QED
        BY <2>1, <4>1, <4>2
    <3>2. CASE y = x
      BY <1>5, <2>1, <2>3, <3>1, <3>2 DEF EnSuLugar
    <3>3. CASE y # x
      BY <1>5, <2>1, <2>3, <3>1, <3>3 DEF EnSuLugar, EnCola
    <3>4. QED
      BY <3>2, <3>3
  <2>4. QED
    BY <1>3, <2>2, <2>3
<1>9. QED
  BY <1>6, <1>7, <1>8 DEF TurnoInv

\* A unit back takes everybody that waits for it one place on, and serves the first.
LEMMA TurnoDevolver ==
  ASSUME Base, TurnoInv, NEW S \in SUBSET Semaforos, Devolver(S), TurnosCorren
  PROVE  TurnoInv'
<1>1. ColasInv /\ SemInv
  BY DEF Base
<1>2. \A t \in Semaforos : /\ sem_values[t] \in Int /\ sem_blocked[t] \in Seq(Pares)
                           /\ SinRepetir(sem_blocked[t])
  BY <1>1, TipoSemaforos DEF ColasInv, UnSoloLugar, BloqueadosEnCola
<1>3. \A t \in Semaforos : Devuelta(t) <=> t \in S
  BY <1>1, <1>2, DevolverQuien DEF Devuelta
<1>4. \A y \in Todos, t \in Semaforos :
        turno'[y][t] = IF t \in S /\ turno[y][t] > 0 THEN turno[y][t] - 1 ELSE turno[y][t]
  BY <1>3 DEF TurnosCorren
<1>5. \A y \in Todos, t \in Semaforos : turno[y][t] \in Nat
  BY DEF TurnoInv
<1>6. turno' \in [Todos -> [Semaforos -> Nat]]
  BY <1>3, <1>5 DEF TurnosCorren
<1>7. \A q \in Programas, t \in Semaforos : turno'[<<q, Main>>][t] = 0
  BY <1>4, ParesEnTodos DEF TurnoInv
<1>8. ASSUME NEW y \in Pares, NEW t \in Semaforos
      PROVE  EnSuLugar(y, t)'
  <2>1. EnSuLugar(y, t) /\ y \in Todos /\ turno[y][t] \in Nat
    BY <1>5, ParesEnTodos DEF TurnoInv
  <2>2. CASE t \notin S
    BY <1>1, <1>4, <2>1, <2>2, DevolverQuien DEF EnSuLugar
  <2>3. CASE t \in S /\ sem_values[t] >= 0
    <3>1. sem_blocked'[t] = sem_blocked[t] /\ EnCola(sem_blocked[t]) = {}
      BY <1>1, <2>3, DevolverQuien
    <3>2. turno[y][t] = 0
      BY <2>1, <3>1 DEF EnSuLugar, EnCola
    <3>3. QED
      BY <1>4, <2>1, <3>1, <3>2 DEF EnSuLugar
  <2>4. CASE t \in S /\ sem_values[t] < 0
    <3> DEFINE c == sem_blocked[t]
    <3>1. c \in Seq(Pares) /\ c # <<>> /\ sem_blocked'[t] = Tail(c) /\ SinRepetir(c)
      BY <1>1, <1>2, <2>4, DevolverQuien
    <3> HIDE DEF c
    <3>2. /\ Len(Tail(c)) = Len(c) - 1 /\ EnCola(Tail(c)) = EnCola(c) \ {Head(c)}
          /\ Len(c) \in Nat
          /\ \A i \in 1..Len(c) - 1 : Tail(c)[i] = c[i + 1]
          /\ Head(c) = c[1]
      BY <3>1, TailCola
    <3>3. \/ turno[y][t] = 0 /\ y \notin EnCola(c)
          \/ turno[y][t] \in 1..Len(c) /\ c[turno[y][t]] = y
      BY <2>1 DEF EnSuLugar, c
    <3>4. \/ turno'[y][t] = 0 /\ y \notin EnCola(Tail(c))
          \/ turno'[y][t] \in 1..Len(Tail(c)) /\ Tail(c)[turno'[y][t]] = y
      <4>1. CASE turno[y][t] = 0
        BY <1>4, <2>1, <2>4, <3>2, <3>3, <4>1
      <4>2. CASE turno[y][t] = 1
        BY <1>4, <2>1, <2>4, <3>2, <3>3, <4>2
      <4>3. CASE turno[y][t] > 1
        <5>1. turno'[y][t] = turno[y][t] - 1 /\ turno'[y][t] \in 1..Len(c) - 1
          BY <1>4, <2>1, <2>4, <3>2, <3>3, <4>3
        <5>2. Tail(c)[turno'[y][t]] = c[turno[y][t]]
          BY <2>1, <3>2, <5>1
        <5>3. QED
          BY <3>2, <3>3, <4>3, <5>1, <5>2
      <4>4. QED
        BY <2>1, <4>1, <4>2, <4>3
    <3>5. QED
      BY <3>1, <3>4 DEF EnSuLugar
  <2>5. QED
    BY <1>2, <2>2, <2>3, <2>4
<1>9. QED
  BY <1>6, <1>7, <1>8 DEF TurnoInv

LEMMA TurnoPaso ==
  ASSUME Base, TurnoInv, MainConSemaforos = {}, NEW p \in Programas, UsoPaso(p)
  PROVE  TurnoInv'
<1>1. ASSUME NEW s \in Semaforos, TomarLock(p, s) PROVE TurnoInv'
  BY <1>1, TurnoTomar
<1>2. ASSUME NEW s \in Semaforos, SoltarLock(p, s) PROVE TurnoInv'
  BY <1>2, SenalarQuien, TurnoDevolver DEF SoltarLock, Base
<1>3. CASE Fin(p)
  BY <1>3, FinalizarQuien, TurnoDevolver DEF Fin, RetornarMain, Desconectar, Base
<1>4. CASE UNCHANGED <<sem_values, sem_blocked, retenidos, tiene, turno>>
  BY <1>4 DEF TurnoInv, EnSuLugar
<1>5. QED
  BY <1>1, <1>2, <1>3, <1>4, OtrosQuietos DEF UsoPaso

\* A thread whose wait found no unit runs again only when as many units have
\* been given back as had to be served up to it, for any programs, ULTs,
\* semaphores and deaths, if no main thread uses semaphores.
THEOREM EsperaBloqueaSiempre ==
  ASSUME MainConSemaforos = {}
  PROVE  UsoSpec => []EsperaBloquea
<1> DEFINE I == Corriendo /\ TurnoInv
<1>1. UsoInit => I
  <2>1. SUFFICES ASSUME UsoInit
                 PROVE  I
    OBVIOUS
  <2>2. Corriendo
    BY <2>1 DEF UsoInit, Init, Corriendo
  <2>3. \A y \in Todos, s \in Semaforos : turno[y][s] = 0
    BY <2>1 DEF UsoInit
  <2>4. \A s \in Semaforos : EnCola(sem_blocked[s]) = {}
    BY <2>1 DEF UsoInit, Init, EnCola
  <2>5. turno \in [Todos -> [Semaforos -> Nat]]
    BY <2>1 DEF UsoInit
  <2>6. QED
    BY <2>2, <2>3, <2>4, <2>5, ParesEnTodos DEF TurnoInv, EnSuLugar
<1>2. ASSUME Base, I, [UsoNext]_usoVars
      PROVE  I'
  <2>1. CASE UNCHANGED usoVars
    BY <1>2, <2>1 DEF usoVars, vars, Corriendo, Activo, TurnoInv, EnSuLugar
  <2>2. CASE UsoNext
    <3>1. PICK p \in Programas : UsoPaso(p)
      BY <2>2 DEF UsoNext, UsoPaso
    <3>2. QED
      BY <1>2, <3>1, UsoEsPaso, CorriendoPaso, TurnoPaso DEF Base
  <2>3. QED
    BY <1>2, <2>1, <2>2
<1>3. Base /\ I => EsperaBloquea
  <2>1. SUFFICES ASSUME Base, I, NEW p \in Programas, cliente[p] = "corre", NEW s \in Semaforos
                 PROVE  turno[<<p, actual[p]>>][s] = 0
    BY DEF EsperaBloquea
  <2>2. actual[p] \in Hilos \cup {Main}
    BY <2>1 DEF Base, ColasInv, TypeOK, TipoClientes
  <2>3. CASE actual[p] = Main
    BY <2>1, <2>3 DEF TurnoInv
  <2>4. CASE actual[p] \in Hilos
    <3> DEFINE x == <<p, actual[p]>>
    <3>1. x \in Pares /\ x \notin EnCola(sem_blocked[s])
      BY <2>1, <2>4, CorreSinCola DEF Base, Corriendo
    <3> HIDE DEF x
    <3>2. turno[x][s] = 0
      BY <2>1, <3>1 DEF TurnoInv, EnSuLugar, EnCola
    <3>3. QED
      BY <3>2 DEF x
  <2>5. QED
    BY <2>2, <2>3, <2>4
<1> HIDE DEF I
<1>4. Base /\ I /\ [UsoNext]_usoVars => I'
  BY <1>2
<1>5. QED
  BY <1>1, <1>3, <1>4, BaseSiempre, PTL DEF UsoSpec

-----------------------------------------------------------------------------
(* Who may wait *)

\* The request by which a ULT comes to be BLOCKED is its own wait.
LEMMA BloqueaSolo ==
  ASSUME ColasInv, NEW p \in Programas, Paso(p), NEW x \in Pares,
         estado'[x] = "BLOCKED", estado[x] # "BLOCKED"
  PROVE  x[1] = p /\ \E s \in Semaforos : Esperar(p, s)
<1>1. estado \in [Pares -> Estados]
  BY DEF ColasInv, TypeOK, TipoHilos
<1>2. ASSUME NEW B, NEW est, NEW listas, NEW ctr, PasarAReady(B, est, listas, ctr)
      PROVE  est[x] = "BLOCKED"
  <2>1. estado' = [y \in Pares |-> IF y \in B THEN "READY" ELSE est[y]]
    BY <1>2 DEF PasarAReady
  <2>2. estado'[x] = IF x \in B THEN "READY" ELSE est[x]
    BY <2>1
  <2>3. QED
    BY <2>2
<1>3. ASSUME NEW h \in Hilos, Crear(p, h) PROVE FALSE
  <2> DEFINE est == [estado EXCEPT ![<<p, h>>] = "NEW"]
  <2>1. \E B, listas, ctr : PasarAReady(B, est, listas, ctr)
    BY <1>3, Zenon DEF Crear, planificadorLargo
  <2>2. est[x] # "BLOCKED"
    BY <1>1
  <2> HIDE DEF est
  <2>3. QED
    BY <1>2, <2>1, <2>2
<1>4. ASSUME NEW h \in Hilos, CerrarHilo(p, h) PROVE FALSE
  <2> DEFINE est == [estado EXCEPT ![<<p, h>>] = "EXIT"]
  <2>1. \E B, listas, ctr : PasarAReady(B, est, listas, ctr)
    BY <1>4, Zenon DEF CerrarHilo, planificadorLargo
  <2>2. est[x] # "BLOCKED"
    BY <1>1
  <2> HIDE DEF est
  <2>3. QED
    BY <1>2, <2>1, <2>2
<1>5. ~ PedirSiguiente(p)
  BY <1>2 DEF PedirSiguiente, hiloVars
<1>6. ~ Despachar(p)
  BY <1>1 DEF Despachar
<1>7. ~ RetornarMainRechazado(p)
  BY <1>2 DEF RetornarMainRechazado, planificadorLargo
<1>8. ASSUME NEW s \in Semaforos, Senalar(p, s) PROVE FALSE
  BY <1>2, <1>8 DEF Senalar
<1>9. ~ (RetornarMain(p) \/ Desconectar(p))
  BY <1>2 DEF RetornarMain, Desconectar, Finalizar
<1>10. ~ (Conectar(p) \/ Morir(p) \/ \E h \in Hilos : Unir(p, h))
  BY DEF Conectar, Morir, Unir, hiloVars
<1>11. PICK s \in Semaforos : Esperar(p, s)
  BY <1>3, <1>4, <1>5, <1>6, <1>7, <1>8, <1>9, <1>10 DEF Paso
<1>12. estado' = [estado EXCEPT ![<<p, actual[p]>>] = "BLOCKED"]
  BY <1>11 DEF Esperar, Reestimar, hiloVars
<1>13. x = <<p, actual[p]>>
  BY <1>1, <1>12
<1>14. QED
  BY <1>11, <1>13

\* The ULTs that wait are of programs that are connected and whose process
\* lives; one that ended, or died, had none.
SinEsperas ==
  \A p \in Programas : (estProg[p] = "FINALIZADO" \/ cliente[p] = "salio") =>
    /\ \A h \in Hilos : estado[<<p, h>>] # "BLOCKED"
    /\ estProg[p] = "FINALIZADO" \/ p \in PuedenMorir

LEMMA SinEsperasPaso ==
  ASSUME Base, SinEsperas, SinJoin = {}, MuerenEsperando = {},
         NEW p \in Programas, UsoPaso(p)
  PROVE  SinEsperas'
<1>1. SUFFICES ASSUME NEW q \in Programas, estProg'[q] = "FINALIZADO" \/ cliente'[q] = "salio"
               PROVE  /\ \A h \in Hilos : estado'[<<q, h>>] # "BLOCKED"
                      /\ estProg'[q] = "FINALIZADO" \/ q \in PuedenMorir
  BY DEF SinEsperas
<1>2. /\ cliente \in [Programas -> {"fuera", "corre", "cede", "espera", "salio"}]
      /\ estProg \in [Programas -> {"NADA", "ACTIVO", "BLOQUEADO", "FINALIZADO"}]
      /\ ColasInv
  BY DEF Base, ColasInv, TypeOK, TipoProgramas, TipoClientes
<1> DEFINE Era == \/ /\ estProg[q] = "FINALIZADO" \/ cliente[q] = "salio"
                     /\ estProg[q] = "FINALIZADO" => estProg'[q] = "FINALIZADO"
                  \/ /\ \A h \in Hilos : estado[<<q, h>>] # "BLOCKED"
                     /\ estProg'[q] = "FINALIZADO" \/ q \in PuedenMorir
                     /\ \A s \in Semaforos : ~ Esperar(q, s)
<1>3. Era
  <2>1. CASE Conectar(p)
    BY <1>1, <1>2, <2>1 DEF Conectar
  <2>2. ASSUME NEW g \in Hilos, Crear(p, g) PROVE Era
    BY <1>1, <2>2 DEF Crear
  <2>3. CASE PedirSiguiente(p)
    BY <1>1, <1>2, <2>3 DEF PedirSiguiente
  <2>4. CASE Despachar(p)
    BY <1>1, <1>2, <2>4 DEF Despachar
  <2>5. ASSUME NEW g \in Hilos, UnirEnJoin(p, g) PROVE Era
    BY <1>1, <1>2, <2>5 DEF UnirEnJoin, Unir, Ceder, Corre, Escucha
  <2>6. ASSUME NEW g \in Hilos, CerrarSinLocks(p, g) PROVE Era
    BY <1>1, <1>2, <2>6 DEF CerrarSinLocks, CerrarHilo, Ceder, Corre, Escucha
  <2>7. ASSUME NEW s \in Semaforos, TomarLock(p, s) \/ SoltarLock(p, s) PROVE Era
    BY <1>1, <1>2, <2>7 DEF TomarLock, SoltarLock, Esperar, Senalar, Ceder
  <2>8. CASE Fin(p) /\ q = p
    <3>1. estProg'[p] = "FINALIZADO"
      BY <1>2, <2>8 DEF Fin, RetornarMain, Desconectar, Finalizar
    <3>2. \A s \in Semaforos : ~ Esperar(p, s)
      BY <1>2, <3>1 DEF Esperar, Corre, Escucha
    <3>3. CASE RetornarMain(p)
      BY <2>8, <3>1, <3>2, <3>3 DEF RetornarMain, Corre, Base, HilosInv, JoinDeMain
    <3>4. CASE Desconectar(p)
      BY <2>8, <3>1, <3>2, <3>4 DEF Desconectar, SinEsperas
    <3>5. QED
      BY <2>8, <3>3, <3>4 DEF Fin
  <2>9. CASE Fin(p) /\ q # p
    BY <1>1, <1>2, <2>9 DEF Fin, RetornarMain, Desconectar, Finalizar
  <2>10. CASE MorirEnUso(p) /\ q = p
    <3>1. (\A h \in Hilos : estado[<<p, h>>] # "BLOCKED") /\ p \in PuedenMorir
      BY <2>10 DEF MorirEnUso, Morir
    <3>2. \A s \in Semaforos : ~ Esperar(p, s)
      BY <1>2, <2>10 DEF MorirEnUso, Morir, Esperar, Ceder
    <3>3. QED
      BY <2>10, <3>1, <3>2
  <2>11. CASE MorirEnUso(p) /\ q # p
    BY <1>1, <1>2, <2>11 DEF MorirEnUso, Morir
  <2>12. QED
    BY <2>1, <2>2, <2>3, <2>4, <2>5, <2>6, <2>7, <2>8, <2>9, <2>10, <2>11 DEF UsoPaso, Otros
<1>4. ASSUME NEW h \in Hilos, estado'[<<q, h>>] = "BLOCKED"
      PROVE  FALSE
  <2>1. <<q, h>> \in Pares /\ <<q, h>>[1] = q
    BY DEF Pares
  <2>2. estado[<<q, h>>] = "BLOCKED" \/ (q = p /\ \E s \in Semaforos : Esperar(q, s))
    BY <1>2, <1>4, <2>1, UsoEsPaso, BloqueaSolo
  <2>3. estado[<<q, h>>] # "BLOCKED" /\ \A s \in Semaforos : ~ Esperar(q, s)
    <3>1. CASE estProg[q] = "FINALIZADO" \/ cliente[q] = "salio"
      BY <3>1 DEF SinEsperas, Esperar, Corre, Escucha
    <3>2. QED
      BY <1>3, <3>1
  <2>4. QED
    BY <2>2, <2>3
<1>5. QED
  BY <1>3, <1>4 DEF SinEsperas

-----------------------------------------------------------------------------
(* Units *)

\* Those that have a unit of s or are in its queue: what retenidos counts.
De(s) == tiene[s] \cup EnCola(sem_blocked[s])

UnidadExacta(s) == Cardinality(tiene[s]) + (IF sem_values[s] > 0 THEN sem_values[s] ELSE 0) = SemInit[s]

\* Who has a unit has been admitted and does not wait for another one.
TenenciaJusta(s) ==
  /\ \A x \in tiene[s] : EnMemoria(estado[x])
  /\ tiene[s] \cap EnCola(sem_blocked[s]) = {}

\* A program keeps a count of the units its ULTs have and of those they wait for.
RetenidosJustos(s) ==
  \A p \in Programas : retenidos[p][s] = Cardinality({x \in De(s) : x[1] = p})

UnidadesInv ==
  /\ tiene \in [Semaforos -> SUBSET Pares]
  /\ \A s \in Semaforos : UnidadExacta(s) /\ TenenciaJusta(s) /\ RetenidosJustos(s)

LEMMA ColaDePares ==
  ASSUME ColasInv, NEW s \in Semaforos
  PROVE  /\ EnCola(sem_blocked[s]) \subseteq Pares
         /\ \A x \in EnCola(sem_blocked[s]) : estado[x] = "BLOCKED"
         /\ sem_values[s] \in Int /\ SemInit[s] \in Nat /\ SemInit[s] <= SemMax[s] /\ SemMax[s] \in Nat
<1>1. sem_blocked[s] \in Seq(Pares) /\ sem_values[s] \in Int
  BY DEF ColasInv, TypeOK, TipoColas
<1>2. EnCola(sem_blocked[s]) \subseteq Pares
  BY <1>1 DEF EnCola
<1>3. QED
  BY <1>1, <1>2, ConstantesOK DEF ColasInv, UnSoloLugar, BloqueadosEnCola, ConstantesOK

\* Adding an element to a set and removing one.
LEMMA UnoMas ==
  ASSUME NEW A \in SUBSET Pares, NEW x \in Pares, x \notin A
  PROVE  Cardinality(A \cup {x}) = Cardinality(A) + 1
BY ParesFinitos, FS_AddElement

LEMMA UnoMenos ==
  ASSUME NEW A \in SUBSET Pares, NEW x \in A
  PROVE  Cardinality(A \ {x}) = Cardinality(A) - 1
BY ParesFinitos, FS_RemoveElement

\* A unit that is taken: by the thread, or by nobody and the thread waits.
LEMMA TomaUna ==
  ASSUME Base, UnidadesInv, MainConSemaforos = {}, NEW p \in Programas, NEW s \in Semaforos, TomarLock(p, s)
  PROVE  UnidadesInv'
<1> DEFINE x == <<p, actual[p]>>
<1>1. /\ Esperar(p, s) /\ ColasInv /\ ColasInv' /\ SemInv /\ x \notin tiene[s]
      /\ tiene' = [tiene EXCEPT ![s] = IF sem_values'[s] < 0 THEN @ ELSE @ \cup {x}]
  <2>1. Paso(p)
    BY DEF TomarLock, Paso
  <2>2. ColasInv'
    BY <2>1, ColasPaso DEF Base, Next
  <2>3. QED
    BY <2>2 DEF TomarLock, Base
<1>2. /\ x \in Pares /\ estado[x] = "EXEC" /\ \A t \in Semaforos : x \notin EnCola(sem_blocked[t])
      /\ \A t \in Semaforos : sem_values'[t] = IF t = s THEN sem_values[s] - 1 ELSE sem_values[t]
      /\ \A t \in Semaforos :
           sem_blocked'[t] = IF t = s /\ sem_values[s] <= 0
                             THEN Append(sem_blocked[s], x) ELSE sem_blocked[t]
      /\ \A q \in Programas, t \in Semaforos :
           retenidos'[q][t] = IF q = p /\ t = s THEN retenidos[p][s] + 1 ELSE retenidos[q][t]
  BY <1>1, EsperarQuien
<1>3. x[1] = p
  OBVIOUS
<1> HIDE DEF x
<1>4. /\ sem_values[s] \in Int /\ SemInit[s] \in Nat
      /\ \A t \in Semaforos : sem_blocked[t] \in Seq(Pares) /\ tiene[t] \in SUBSET Pares
                              /\ EnCola(sem_blocked[t]) \subseteq Pares
  BY <1>1, ColaDePares DEF ColasInv, TypeOK, TipoColas, UnidadesInv
<1>5. /\ tiene' \in [Semaforos -> SUBSET Pares]
      /\ \A t \in Semaforos : tiene'[t] = IF t = s /\ sem_values[s] > 0 THEN tiene[s] \cup {x} ELSE tiene[t]
  <2>1. sem_values'[s] < 0 <=> ~ (sem_values[s] > 0)
    BY <1>2, <1>4
  <2>2. QED
    BY <1>1, <1>2, <2>1 DEF UnidadesInv
<1>6. \A t \in Semaforos :
        EnCola(sem_blocked'[t]) = IF t = s /\ sem_values[s] <= 0
                                  THEN EnCola(sem_blocked[s]) \cup {x} ELSE EnCola(sem_blocked[t])
  <2>1. \A c \in Seq(Pares) : EnCola(Append(c, x)) = EnCola(c) \cup {x}
    BY <1>2, AppendCola
  <2>2. QED
    BY <1>2, <1>4, <2>1
<1>7. sem_values[s] > 0 <=> ~ (sem_values[s] <= 0)
  BY <1>4
<1>8. ASSUME NEW t \in Semaforos
      PROVE  UnidadExacta(t)'
  <2>1. UnidadExacta(t)
    BY DEF UnidadesInv
  <2>2. CASE t # s
    BY <1>2, <1>5, <2>1, <2>2 DEF UnidadExacta
  <2>3. CASE t = s /\ sem_values[s] > 0
    <3>1. Cardinality(tiene'[s]) = Cardinality(tiene[s]) + 1
      BY <1>1, <1>2, <1>4, <1>5, <2>3, UnoMas
    <3>2. Cardinality(tiene[s]) \in Nat /\ sem_values'[s] = sem_values[s] - 1
      BY <1>2, <1>4, ParesFinitos
    <3>3. sem_values[s] \in Int /\ sem_values[s] > 0 /\ SemInit[s] \in Nat
      BY <1>4, <2>3
    <3>4. Cardinality(tiene[s]) + sem_values[s] = SemInit[s]
      BY <2>1, <2>3, <3>3 DEF UnidadExacta
    <3>5. QED
      BY <2>3, <3>1, <3>2, <3>3, <3>4 DEF UnidadExacta
  <2>4. CASE t = s /\ sem_values[s] <= 0
    BY <1>2, <1>4, <1>5, <1>7, <2>1, <2>4 DEF UnidadExacta
  <2>5. QED
    BY <1>7, <2>2, <2>3, <2>4
<1>9. ASSUME NEW t \in Semaforos
      PROVE  TenenciaJusta(t)'
  <2>1. TenenciaJusta(t) /\ TenenciaJusta(s)
    BY DEF UnidadesInv
  <2>2. \A y \in Pares : EnCurso(y)
    BY <1>1, MovidosEsperar
  <2>3. \A y \in tiene[t] \cup {x} : EnMemoria(estado'[y])
    BY <1>2, <1>4, <2>1, <2>2 DEF TenenciaJusta, EnCurso, EnMemoria
  <2>4. QED
    BY <1>1, <1>2, <1>5, <1>6, <1>7, <2>1, <2>3 DEF TenenciaJusta
<1>10. ASSUME NEW t \in Semaforos
       PROVE  RetenidosJustos(t)'
  <2>1. /\ RetenidosJustos(t) /\ RetenidosJustos(s)
        /\ De(t)' = IF t = s THEN De(s) \cup {x} ELSE De(t)
    BY <1>5, <1>6, <1>7 DEF UnidadesInv, De
  <2>2. De(t) \in SUBSET Pares /\ x \notin De(s)
    BY <1>1, <1>2, <1>4 DEF De
  <2>3. ASSUME NEW q \in Programas
        PROVE  retenidos'[q][t] = Cardinality({y \in De(t)' : y[1] = q})
    <3> DEFINE D == {y \in De(t) : y[1] = q}
    <3>1. D \in SUBSET Pares /\ retenidos[q][t] = Cardinality(D)
      BY <2>1, <2>2 DEF RetenidosJustos
    <3>2. CASE t = s /\ q = p
      <4>1. {y \in De(t)' : y[1] = q} = D \cup {x} /\ x \notin D
        BY <1>3, <2>1, <2>2, <3>2
      <4> HIDE DEF D
      <4>2. Cardinality(D \cup {x}) = Cardinality(D) + 1
        BY <1>2, <3>1, <4>1, UnoMas
      <4>3. retenidos'[q][t] = retenidos[q][t] + 1
        BY <1>2, <3>2
      <4>4. QED
        BY <3>1, <4>1, <4>2, <4>3
    <3>3. CASE ~ (t = s /\ q = p)
      <4>1. {y \in De(t)' : y[1] = q} = D
        BY <1>3, <2>1, <3>3
      <4>2. retenidos'[q][t] = retenidos[q][t]
        BY <1>2, <3>3
      <4>3. QED
        BY <3>1, <4>1, <4>2
    <3>4. QED
      BY <3>2, <3>3
  <2>4. QED
    BY <2>3 DEF RetenidosJustos
<1>11. QED
  BY <1>5, <1>8, <1>9, <1>10 DEF UnidadesInv

\* A unit that is given back by a holder: the first that waits has it.
LEMMA PasaUna ==
  ASSUME ColasInv, SemInv, UnidadesInv, NEW S \in SUBSET Semaforos, Devolver(S),
         NEW s \in Semaforos, NEW STATE R,
         s \in S => \E y \in tiene[s] : tiene[s] \cap R = {y},
         s \notin S => tiene[s] \cap R = {},
         EnCola(sem_blocked[s]) \cap R = {},
         \A x \in EnCola(sem_blocked[s]) : estProg'[x[1]] # "FINALIZADO",
         tiene'[s] = Pasan(s, tiene[s] \ R)
  PROVE  /\ UnidadExacta(s)' /\ De(s)' = De(s) \ R
         /\ tiene'[s] \in SUBSET De(s) /\ tiene'[s] \cap EnCola(sem_blocked'[s]) = {}
<1> DEFINE c == sem_blocked[s]
           W == {x \in Pares : /\ estProg'[x[1]] # "FINALIZADO"
                               /\ x \in EnCola(c) /\ x \notin EnCola(sem_blocked'[s])}
<1>1. /\ EnCola(c) \subseteq Pares /\ tiene[s] \in SUBSET Pares /\ c \in Seq(Pares) /\ SinRepetir(c)
      /\ tiene[s] \cap EnCola(c) = {} /\ UnidadExacta(s)
      /\ sem_values[s] \in Int /\ SemInit[s] \in Nat
  BY ColaDePares DEF UnidadesInv, TenenciaJusta, ColasInv, TypeOK, TipoColas, UnSoloLugar, BloqueadosEnCola
<1>2. tiene'[s] = (tiene[s] \ R) \cup W
  BY DEF Pasan
<1>3. W = EnCola(c) \ EnCola(sem_blocked'[s])
  BY <1>1
<1>4. EnCola(sem_blocked'[s]) \subseteq EnCola(c)
  <2>1. CASE sem_blocked'[s] = c
    BY <2>1
  <2>2. CASE c # <<>> /\ sem_blocked'[s] = Tail(c)
    BY <1>1, <2>2, TailCola
  <2>3. QED
    BY <1>1, <2>1, <2>2, DevolverQuien
<1>5. De(s)' = De(s) \ R /\ tiene'[s] \in SUBSET De(s) /\ tiene'[s] \cap EnCola(sem_blocked'[s]) = {}
  <2> HIDE DEF W, c
  <2>1. De(s) = tiene[s] \cup EnCola(c) /\ De(s)' = tiene'[s] \cup EnCola(sem_blocked'[s])
    BY DEF De, c
  <2>2. EnCola(c) \cap R = {}
    BY DEF c
  <2>3. QED
    BY <1>1, <1>2, <1>3, <1>4, <2>1, <2>2
<1> HIDE DEF W
<1>6. Cardinality(tiene[s]) \in Nat
  BY <1>1, ParesFinitos
<1>7. CASE s \notin S
  <2>1. tiene'[s] = tiene[s] /\ sem_values'[s] = sem_values[s]
    BY <1>2, <1>3, <1>7, DevolverQuien
  <2>2. QED
    BY <1>1, <1>5, <2>1 DEF UnidadExacta
<1>8. ASSUME s \in S
      PROVE  UnidadExacta(s)'
  <2>1. PICK y \in tiene[s] : tiene[s] \cap R = {y}
    BY <1>8
  <2>2. /\ tiene[s] \ R = tiene[s] \ {y} /\ tiene[s] \ {y} \in SUBSET Pares
        /\ Cardinality(tiene[s] \ {y}) = Cardinality(tiene[s]) - 1
    BY <1>1, <2>1, UnoMenos
  <2>3. sem_values'[s] = sem_values[s] + 1
    BY <1>8, DevolverQuien
  <2>4. CASE sem_values[s] >= 0
    <3>1. W = {}
      BY <1>3, <1>8, <2>4, DevolverQuien
    <3>2. tiene'[s] = tiene[s] \ {y}
      BY <1>2, <2>2, <3>1
    <3>3. Cardinality(tiene'[s]) = Cardinality(tiene[s]) - 1
      BY <2>2, <3>2
    <3>4. /\ sem_values[s] \in Int /\ SemInit[s] \in Nat
          /\ Cardinality(tiene[s]) + sem_values[s] = SemInit[s]
      BY <1>1, <1>6, <2>4 DEF UnidadExacta
    <3>5. QED
      BY <1>6, <2>3, <2>4, <3>3, <3>4 DEF UnidadExacta
  <2>5. CASE sem_values[s] < 0
    <3>1. c # <<>> /\ sem_blocked'[s] = Tail(c)
      BY <1>8, <2>5, DevolverQuien
    <3>2. EnCola(Tail(c)) = EnCola(c) \ {Head(c)} /\ Head(c) \in EnCola(c)
      BY <1>1, <3>1, TailCola
    <3>3. W = {Head(c)} /\ Head(c) \in Pares /\ Head(c) \notin tiene[s]
      BY <1>1, <1>3, <3>1, <3>2
    <3>4. tiene'[s] = (tiene[s] \ {y}) \cup {Head(c)}
      BY <1>2, <2>2, <3>3
    <3>5. Cardinality(tiene'[s]) = Cardinality(tiene[s] \ {y}) + 1
      BY <2>2, <3>3, <3>4, UnoMas
    <3>6. QED
      BY <1>1, <1>6, <2>2, <2>3, <2>5, <3>5 DEF UnidadExacta
  <2>6. QED
    BY <1>1, <2>4, <2>5
<1>9. QED
  BY <1>5, <1>7, <1>8

\* While somebody has a unit of s another one fits in it.
LEMMA CabeOtra ==
  ASSUME ColasInv, UnidadesInv, NEW s \in Semaforos, tiene[s] # {}
  PROVE  Cabe(s)
<1>1. /\ tiene[s] \in SUBSET Pares /\ UnidadExacta(s)
      /\ sem_values[s] \in Int /\ SemInit[s] \in Nat /\ SemInit[s] <= SemMax[s] /\ SemMax[s] \in Nat
  BY ColaDePares DEF UnidadesInv
<1>2. Cardinality(tiene[s]) \in Nat /\ Cardinality(tiene[s]) # 0
  BY <1>1, ParesFinitos, FS_EmptySet
<1>3. QED
  BY <1>1, <1>2 DEF UnidadExacta, Cabe

\* Who has been admitted and does not close stays admitted.
LEMMA SigueEnMemoria ==
  ASSUME Base, UnidadesInv, NEW p \in Programas, UsoPaso(p), NEW s \in Semaforos, NEW x \in De(s)
  PROVE  EnMemoria(estado'[x])
<1>1. ColasInv /\ CuposInv /\ x \in Pares /\ EnMemoria(estado[x])
  BY ColaDePares DEF Base, De, UnidadesInv, TenenciaJusta, EnMemoria
<1>2. ASSUME NEW h \in Hilos, Crear(p, h) PROVE EnMemoria(estado'[x])
  <2>1. x # <<p, h>>
    BY <1>1, <1>2 DEF Crear, EnMemoria
  <2>2. QED
    BY <1>1, <1>2, <2>1, PlanCrear DEF Admitido, EnMemoria
<1>3. ASSUME NEW h \in Hilos, CerrarSinLocks(p, h) PROVE EnMemoria(estado'[x])
  <2>1. x # <<p, h>>
    <3>1. estado[<<p, h>>] = "EXEC" /\ <<p, h>> \notin tiene[s]
      BY <1>3 DEF CerrarSinLocks, CerrarHilo
    <3>2. <<p, h>> \notin EnCola(sem_blocked[s])
      BY <1>1, <3>1, ColaDePares
    <3>3. QED
      BY <3>1, <3>2 DEF De
  <2>2. QED
    BY <1>1, <1>3, <2>1, PlanCerrarHilo DEF CerrarSinLocks, Admitido, EnMemoria
<1>4. CASE Otro(p)
  BY <1>1, <1>4, PlanOtro DEF EnCurso, EnMemoria
<1>5. Otro(p) \/ (\E h \in Hilos : Crear(p, h)) \/ (\E h \in Hilos : CerrarSinLocks(p, h))
  BY DEF UsoPaso, Otro, Otros, TomarLock, SoltarLock, UnirEnJoin, Fin, MorirEnUso,
     RetornarMain, Desconectar, Corre
<1>6. QED
  BY <1>2, <1>3, <1>4, <1>5

\* The counts of a program once R[s] no longer has, nor waits for, units of s.
LEMMA QuedanUnidades ==
  ASSUME Base, UnidadesInv, NEW p \in Programas, UsoPaso(p), NEW STATE R,
         tiene' \in [Semaforos -> SUBSET Pares],
         \A s \in Semaforos :
           /\ UnidadExacta(s)' /\ De(s)' = De(s) \ R[s]
           /\ tiene'[s] \in SUBSET De(s) /\ tiene'[s] \cap EnCola(sem_blocked'[s]) = {},
         \A q \in Programas, s \in Semaforos :
           retenidos'[q][s] = Cardinality({x \in De(s) \ R[s] : x[1] = q})
  PROVE  UnidadesInv'
<1>1. ASSUME NEW s \in Semaforos PROVE TenenciaJusta(s)'
  BY SigueEnMemoria DEF TenenciaJusta
<1>2. ASSUME NEW s \in Semaforos PROVE RetenidosJustos(s)'
  BY DEF RetenidosJustos
<1>3. QED
  BY <1>1, <1>2 DEF UnidadesInv

\* SIGNAL: the thread gives its unit to the first that waits, or leaves it.
LEMMA SueltaUna ==
  ASSUME Base, UnidadesInv, SinEsperas, Corriendo, MainConSemaforos = {},
         NEW p \in Programas, NEW s \in Semaforos, SoltarLock(p, s)
  PROVE  UnidadesInv'
<1>0. PICK x : x = <<p, actual[p]>>
  OBVIOUS
<1> DEFINE R == [t \in Semaforos |-> IF t = s THEN {x} ELSE {}]
<1>1. /\ ColasInv /\ SemInv /\ Senalar(p, s) /\ x \in tiene[s] /\ UsoPaso(p)
      /\ tiene' = [tiene EXCEPT ![s] = Pasan(s, @ \ {x})] /\ UNCHANGED estProg
  BY <1>0 DEF SoltarLock, Base, Senalar, UsoPaso
<1>2. x \in Pares /\ x[1] = p /\ \A t \in Semaforos : x \notin EnCola(sem_blocked[t])
  BY <1>0, <1>1, MainConSemaforos = {}, CorreSinCola DEF Senalar, Corre, Escucha, Activo
<1>3. Cabe(s)
  BY <1>1, CabeOtra
<1>4. PICK S \in SUBSET Semaforos : Devolver(S) /\ S = {s}
  BY <1>1, <1>3, SenalarQuien
<1>5. \A t \in Semaforos : \A y \in EnCola(sem_blocked[t]) : estProg'[y[1]] # "FINALIZADO"
  <2>1. SUFFICES ASSUME NEW t \in Semaforos, NEW y \in EnCola(sem_blocked[t])
                 PROVE  estProg[y[1]] # "FINALIZADO"
    BY <1>1
  <2>2. y \in Pares /\ estado[y] = "BLOCKED"
    BY <1>1, ColaDePares
  <2>3. y[1] \in Programas /\ y[2] \in Hilos /\ y = <<y[1], y[2]>>
    BY <2>2 DEF Pares
  <2>4. QED
    BY <2>2, <2>3 DEF SinEsperas
<1>6. ASSUME NEW t \in Semaforos
      PROVE  /\ tiene'[t] = Pasan(t, tiene[t] \ R[t]) /\ tiene'[t] \in SUBSET Pares
             /\ t \in S => \E y \in tiene[t] : tiene[t] \cap R[t] = {y}
             /\ t \notin S => tiene[t] \cap R[t] = {}
             /\ EnCola(sem_blocked[t]) \cap R[t] = {}
  <2>1. tiene \in [Semaforos -> SUBSET Pares]
    BY DEF UnidadesInv
  <2>2. CASE t = s
    BY <1>1, <1>2, <1>4, <2>1, <2>2 DEF Pasan
  <2>3. CASE t # s
    <3>1. sem_blocked'[t] = sem_blocked[t] /\ tiene'[t] = tiene[t]
      BY <1>1, <1>4, <2>1, <2>3, DevolverQuien
    <3>2. Pasan(t, tiene[t]) = tiene[t] /\ tiene[t] \ R[t] = tiene[t]
      BY <2>3, <3>1 DEF Pasan
    <3>3. QED
      BY <1>4, <2>1, <2>3, <3>1, <3>2
  <2>4. QED
    BY <2>2, <2>3
<1>7. tiene' \in [Semaforos -> SUBSET Pares]
  BY <1>1, <1>6 DEF UnidadesInv
<1> HIDE DEF R
<1>8. ASSUME NEW t \in Semaforos
      PROVE  /\ UnidadExacta(t)' /\ De(t)' = De(t) \ R[t]
             /\ tiene'[t] \in SUBSET De(t) /\ tiene'[t] \cap EnCola(sem_blocked'[t]) = {}
  <2>1. Devolver(S) /\ ColasInv /\ SemInv
    BY <1>1, <1>4
  <2>2. QED
    BY ZenonT(40), <1>5, <1>6, <2>1, PasaUna
<1>9. ASSUME NEW q \in Programas, NEW t \in Semaforos
      PROVE  retenidos'[q][t] = Cardinality({y \in De(t) \ R[t] : y[1] = q})
  <2> DEFINE D == {y \in De(t) : y[1] = q}
  <2>1. /\ De(t) \in SUBSET Pares /\ retenidos[q][t] = Cardinality(D)
        /\ retenidos'[q][t] = IF q = p /\ t = s THEN retenidos[p][s] - 1 ELSE retenidos[q][t]
    BY <1>1, ColaDePares, SenalarQuien DEF UnidadesInv, RetenidosJustos, De
  <2>2. CASE q = p /\ t = s
    <3>1. x \in D /\ D \in SUBSET Pares /\ {y \in De(t) \ R[t] : y[1] = q} = D \ {x}
      BY <1>1, <1>2, <2>1, <2>2 DEF De, R
    <3> HIDE DEF D
    <3>2. QED
      BY <2>1, <2>2, <3>1, UnoMenos
  <2>3. CASE ~ (q = p /\ t = s)
    <3>1. {y \in De(t) \ R[t] : y[1] = q} = D
      BY <1>2, <2>3 DEF R
    <3>2. QED
      BY <2>1, <2>3, <3>1
  <2>4. QED
    BY <2>2, <2>3
<1>10. QED
  <2>1. UsoPaso(p)
    BY <1>1
  <2>2. QED
    BY <1>7, <1>8, <1>9, <2>1, QuedanUnidades

\* A program that ends gives one unit back of each semaphore it has units of:
\* the ULTs it has left, if any, have one.
LEMMA TerminaConUna ==
  ASSUME Base, UnidadesInv, SinEsperas, SinJoin = {},
         PuedenMorir = {} \/ \A s \in Semaforos : SemInit[s] <= 1,
         NEW p \in Programas, RetornarMain(p) \/ Desconectar(p), NEW s \in Semaforos
  PROVE  /\ \A y \in EnCola(sem_blocked[s]) : y[1] # p
         /\ \A y, z \in tiene[s] : y[1] = p /\ z[1] = p => y = z
<1>1. ColasInv /\ UnidadExacta(s) /\ TenenciaJusta(s) /\ tiene[s] \in SUBSET Pares
  BY DEF Base, UnidadesInv
<1>2. \A y \in Pares : y[1] = p => y[2] \in Hilos /\ y = <<p, y[2]>>
  BY DEF Pares
<1>3. CASE RetornarMain(p)
  <2>1. \A h \in Hilos : estado[<<p, h>>] \in {"NADA", "EXIT"}
    BY <1>3 DEF RetornarMain, Corre, Base, HilosInv, JoinDeMain
  <2>2. \A y \in Pares : y[1] = p => ~ EnMemoria(estado[y])
    BY <1>2, <2>1 DEF EnMemoria
  <2>3. \A y \in tiene[s] \cup EnCola(sem_blocked[s]) : y \in Pares /\ EnMemoria(estado[y])
    BY <1>1, ColaDePares DEF TenenciaJusta, EnMemoria
  <2>4. QED
    BY <2>2, <2>3
<1>4. CASE Desconectar(p)
  <2>1. cliente[p] = "salio" /\ estProg[p] # "FINALIZADO"
    BY <1>4 DEF Desconectar, Escucha
  <2>2. (\A h \in Hilos : estado[<<p, h>>] # "BLOCKED") /\ p \in PuedenMorir
    BY <2>1 DEF SinEsperas
  <2>3. \A y \in EnCola(sem_blocked[s]) : y[1] # p
    BY <1>1, <1>2, <2>2, ColaDePares
  <2>4. SemInit[s] <= 1
    BY <2>2
  <2>5. ASSUME NEW y \in tiene[s], NEW z \in tiene[s], y # z
        PROVE  FALSE
    <3>1. Cardinality(tiene[s]) <= 1 /\ Cardinality(tiene[s]) \in Nat
      BY <1>1, <2>4, ParesFinitos, ColaDePares DEF UnidadExacta
    <3>2. /\ z \in tiene[s] \ {y} /\ tiene[s] \ {y} \in SUBSET Pares
          /\ Cardinality(tiene[s] \ {y}) = Cardinality(tiene[s]) - 1
      BY <1>1, <2>5, UnoMenos
    <3>3. Cardinality(tiene[s] \ {y}) \in Nat /\ Cardinality(tiene[s] \ {y}) # 0
      BY <3>2, ParesFinitos, FS_EmptySet
    <3>4. QED
      BY <3>1, <3>2, <3>3
  <2>6. QED
    BY <2>3, <2>5
<1>5. QED
  BY <1>3, <1>4

LEMMA FinDaUna ==
  ASSUME Base, UnidadesInv, SinEsperas, SinJoin = {},
         PuedenMorir = {} \/ \A s \in Semaforos : SemInit[s] <= 1,
         NEW p \in Programas, Fin(p)
  PROVE  UnidadesInv'
<1> DEFINE R == [t \in Semaforos |-> {y \in Pares : y[1] = p}]
<1>1. /\ ColasInv /\ SemInv /\ Finalizar(p) /\ UsoPaso(p)
      /\ RetornarMain(p) \/ Desconectar(p)
      /\ tiene' = [s \in Semaforos |-> Pasan(s, {x \in tiene[s] : x[1] # p})]
      /\ estProg' = [estProg EXCEPT ![p] = "FINALIZADO"]
      /\ tiene \in [Semaforos -> SUBSET Pares]
  BY DEF Fin, Base, RetornarMain, Desconectar, Finalizar, UsoPaso, UnidadesInv
<1>2. PICK S \in SUBSET Semaforos :
        Devolver(S) /\ S = {s \in Semaforos : retenidos[p][s] > 0 /\ Cabe(s)}
  BY <1>1, FinalizarQuien
<1>3. ASSUME NEW t \in Semaforos
      PROVE  /\ tiene'[t] = Pasan(t, tiene[t] \ R[t]) /\ tiene'[t] \in SUBSET Pares
             /\ EnCola(sem_blocked[t]) \cap R[t] = {}
             /\ t \in S => \E y \in tiene[t] : tiene[t] \cap R[t] = {y}
             /\ t \notin S => tiene[t] \cap R[t] = {}
  <2>1. /\ EnCola(sem_blocked[t]) \in SUBSET Pares /\ tiene[t] \in SUBSET Pares
        /\ \A y \in EnCola(sem_blocked[t]) : y[1] # p
        /\ \A y, z \in tiene[t] : y[1] = p /\ z[1] = p => y = z
        /\ RetenidosJustos(t)
    BY <1>1, ColaDePares, TerminaConUna DEF UnidadesInv
  <2>2. {x \in tiene[t] : x[1] # p} = tiene[t] \ R[t]
    BY <2>1
  <2>3. tiene'[t] = Pasan(t, tiene[t] \ R[t])
    BY <1>1, <2>2
  <2>4. tiene'[t] \in SUBSET Pares
    BY <2>1, <2>3 DEF Pasan
  <2>5. {x \in De(t) : x[1] = p} = tiene[t] \cap R[t]
    BY <2>1 DEF De
  <2>6. retenidos[p][t] = Cardinality(tiene[t] \cap R[t]) /\ tiene[t] \cap R[t] \in SUBSET Pares
    BY <2>1, <2>5 DEF RetenidosJustos
  <2>7. CASE tiene[t] \cap R[t] = {}
    <3>1. retenidos[p][t] = 0
      BY <2>6, <2>7, FS_EmptySet
    <3>2. t \notin S
      BY <1>2, <3>1
    <3>3. QED
      BY <2>1, <2>3, <2>4, <2>7, <3>2
  <2>8. CASE tiene[t] \cap R[t] # {}
    <3>1. PICK y \in tiene[t] : y \in R[t]
      BY <2>8
    <3>2. tiene[t] \cap R[t] = {y}
      BY <2>1, <3>1
    <3>3. Cardinality(tiene[t] \cap R[t]) # 0 /\ Cardinality(tiene[t] \cap R[t]) \in Nat
      BY <2>6, <2>8, ParesFinitos, FS_EmptySet
    <3>4. Cabe(t)
      BY <1>1, <3>1, CabeOtra
    <3>5. t \in S
      BY <1>2, <2>6, <3>3, <3>4
    <3>6. QED
      BY <2>1, <2>3, <2>4, <3>2, <3>5
  <2>9. QED
    BY <2>7, <2>8
<1>4. \A t \in Semaforos : \A y \in EnCola(sem_blocked[t]) : estProg'[y[1]] # "FINALIZADO"
  <2>1. SUFFICES ASSUME NEW t \in Semaforos, NEW y \in EnCola(sem_blocked[t])
                 PROVE  estProg'[y[1]] # "FINALIZADO"
    OBVIOUS
  <2>2. y \in Pares /\ estado[y] = "BLOCKED" /\ y[1] # p
    BY <1>1, ColaDePares, TerminaConUna
  <2>3. y[1] \in Programas /\ y[2] \in Hilos /\ y = <<y[1], y[2]>>
    BY <2>2 DEF Pares
  <2>4. estProg'[y[1]] = estProg[y[1]]
    BY <1>1, <2>2, <2>3 DEF ColasInv, TypeOK, TipoProgramas
  <2>5. QED
    BY <2>2, <2>3, <2>4 DEF SinEsperas
<1>5. tiene' \in [Semaforos -> SUBSET Pares]
  BY <1>1, <1>3
<1>6. ASSUME NEW q \in Programas, NEW t \in Semaforos
      PROVE  retenidos'[q][t] = Cardinality({y \in De(t) \ R[t] : y[1] = q})
  <2>1. /\ retenidos[q][t] = Cardinality({y \in De(t) : y[1] = q})
        /\ retenidos'[q][t] = IF q = p THEN 0 ELSE retenidos[q][t]
        /\ De(t) \in SUBSET Pares
    BY <1>1, ColaDePares, FinalizarQuien DEF UnidadesInv, RetenidosJustos, De
  <2>2. CASE q = p
    <3>1. {y \in De(t) \ R[t] : y[1] = q} = {}
      BY <2>1, <2>2
    <3>2. QED
      BY <2>1, <2>2, <3>1, FS_EmptySet
  <2>3. CASE q # p
    <3>1. {y \in De(t) \ R[t] : y[1] = q} = {y \in De(t) : y[1] = q}
      BY <2>1, <2>3
    <3>2. QED
      BY <2>1, <2>3, <3>1
  <2>4. QED
    BY <2>2, <2>3
<1> HIDE DEF R
<1>7. ASSUME NEW t \in Semaforos
      PROVE  /\ UnidadExacta(t)' /\ De(t)' = De(t) \ R[t]
             /\ tiene'[t] \in SUBSET De(t) /\ tiene'[t] \cap EnCola(sem_blocked'[t]) = {}
  <2>1. Devolver(S) /\ ColasInv /\ SemInv
    BY <1>1, <1>2
  <2>2. QED
    BY ZenonT(40), <1>3, <1>4, <2>1, PasaUna
<1>8. QED
  BY <1>1, <1>5, <1>6, <1>7, QuedanUnidades

LEMMA UnidadesPaso ==
  ASSUME Base, UnidadesInv, SinEsperas, Corriendo, MainConSemaforos = {}, SinJoin = {},
         PuedenMorir = {} \/ \A s \in Semaforos : SemInit[s] <= 1,
         NEW p \in Programas, UsoPaso(p)
  PROVE  UnidadesInv'
<1>1. ASSUME NEW s \in Semaforos, TomarLock(p, s) PROVE UnidadesInv'
  BY <1>1, TomaUna
<1>2. ASSUME NEW s \in Semaforos, SoltarLock(p, s) PROVE UnidadesInv'
  BY <1>2, SueltaUna
<1>3. CASE Fin(p)
  BY <1>3, FinDaUna
<1>4. CASE UNCHANGED <<sem_values, sem_blocked, retenidos, tiene, turno>>
  <2>1. \A s \in Semaforos : \A x \in tiene[s] : EnMemoria(estado'[x])
    BY SigueEnMemoria DEF De
  <2>2. QED
    BY <1>4, <2>1 DEF UnidadesInv, UnidadExacta, TenenciaJusta, RetenidosJustos, De
<1>5. QED
  BY <1>1, <1>2, <1>3, <1>4, OtrosQuietos DEF UsoPaso

\* Nobody has a unit at first.
LEMMA UnidadesInicial == UsoInit => UnidadesInv /\ SinEsperas /\ Corriendo
<1>1. SUFFICES ASSUME UsoInit
               PROVE  UnidadesInv /\ SinEsperas /\ Corriendo
  OBVIOUS
<1>2. SinEsperas /\ Corriendo
  BY <1>1 DEF UsoInit, Init, SinEsperas, Corriendo
<1>3. \A s \in Semaforos : /\ tiene[s] = {} /\ EnCola(sem_blocked[s]) = {}
                           /\ sem_values[s] = SemInit[s] /\ SemInit[s] \in Nat
                           /\ \A p \in Programas : retenidos[p][s] = 0
  BY <1>1, ConstantesOK DEF UsoInit, Init, EnCola, ConstantesOK
<1>4. tiene \in [Semaforos -> SUBSET Pares] /\ Cardinality({}) = 0
  BY <1>1, FS_EmptySet DEF UsoInit
<1>5. ASSUME NEW s \in Semaforos
      PROVE  UnidadExacta(s) /\ TenenciaJusta(s) /\ RetenidosJustos(s)
  <2>1. UnidadExacta(s)
    BY <1>3, <1>4 DEF UnidadExacta
  <2>2. De(s) = {} /\ TenenciaJusta(s)
    BY <1>3 DEF De, TenenciaJusta
  <2>3. \A p \in Programas : {x \in De(s) : x[1] = p} = {}
    BY <2>2
  <2>4. QED
    BY <1>3, <1>4, <2>1, <2>2, <2>3 DEF RetenidosJustos
<1>6. QED
  BY <1>2, <1>4, <1>5 DEF UnidadesInv

\* The inductive invariant of the units, always.
LEMMA UnidadesSiempre ==
  ASSUME MainConSemaforos = {}, SinJoin = {}, MuerenEsperando = {},
         PuedenMorir = {} \/ \A s \in Semaforos : SemInit[s] <= 1
  PROVE  UsoSpec => [](Base /\ UnidadesInv)
<1> DEFINE I == UnidadesInv /\ SinEsperas /\ Corriendo
<1>1. UsoInit => I
  BY UnidadesInicial
<1>2. ASSUME Base, I, [UsoNext]_usoVars
      PROVE  I'
  <2>1. CASE UNCHANGED usoVars
    BY <1>2, <2>1 DEF usoVars, vars, Corriendo, Activo, SinEsperas, UnidadesInv, UnidadExacta,
       TenenciaJusta, RetenidosJustos, De
  <2>2. CASE UsoNext
    <3>1. PICK p \in Programas : UsoPaso(p)
      BY <2>2 DEF UsoNext, UsoPaso
    <3>2. Corriendo'
      BY <1>2, <3>1, UsoEsPaso, CorriendoPaso DEF Base
    <3>3. SinEsperas'
      BY <1>2, <3>1, SinEsperasPaso
    <3>4. UnidadesInv'
      BY <1>2, <3>1, UnidadesPaso
    <3>5. QED
      BY <3>2, <3>3, <3>4
  <2>3. QED
    BY <1>2, <2>1, <2>2
<1>3. Base /\ I => UnidadesInv
  OBVIOUS
<1> HIDE DEF I
<1>4. Base /\ I /\ [UsoNext]_usoVars => I'
  BY <1>2
<1>5. QED
  BY <1>1, <1>3, <1>4, BaseSiempre, PTL DEF UsoSpec

\* Every unit of a semaphore is available or of one thread, for any programs
\* and ULTs, if no main thread uses the semaphores or returns without joining
\* and no program dies that waits; nor one that has two units of a semaphore,
\* since the end of a program gives one back.
THEOREM UnidadesExactasSiempre ==
  ASSUME MainConSemaforos = {}, SinJoin = {}, MuerenEsperando = {},
         PuedenMorir = {} \/ \A s \in Semaforos : SemInit[s] <= 1
  PROVE  UsoSpec => []UnidadesExactas
<1>1. UnidadesInv => UnidadesExactas
  BY DEF UnidadesInv, UnidadExacta, UnidadesExactas
<1>2. QED
  BY <1>1, UnidadesSiempre, PTL

\* Under the same conditions a semaphore never has more holders than units:
\* only the death of a program that waits lets a second thread hold a lock.
THEOREM ExclusionMutuaSinMuertes ==
  ASSUME MainConSemaforos = {}, SinJoin = {}, MuerenEsperando = {},
         PuedenMorir = {} \/ \A s \in Semaforos : SemInit[s] <= 1
  PROVE  UsoSpec => []ExclusionMutua
<1>1. ASSUME Base, UnidadesInv
      PROVE  ExclusionMutua
  <2>1. SUFFICES ASSUME NEW s \in Semaforos
                 PROVE  Cardinality(tiene[s]) <= SemInit[s]
    BY DEF ExclusionMutua
  <2>2. /\ UnidadExacta(s) /\ Cardinality(tiene[s]) \in Nat
        /\ sem_values[s] \in Int /\ SemInit[s] \in Nat
    BY <1>1, ParesFinitos, ColaDePares DEF UnidadesInv, Base
  <2>3. QED
    BY <2>2 DEF UnidadExacta
<1>2. Base /\ UnidadesInv => ExclusionMutua
  BY <1>1
<1>3. QED
  BY <1>2, UnidadesSiempre, PTL
=============================================================================
