-------------------------------- MODULE SUSE --------------------------------
(***************************************************************************)
(* SUSE, the user-level-thread scheduler (Planificador/).  The server has   *)
(* one thread per connected program, which runs atenderPrograma: it reads a *)
(* request, runs its handler, answers when the request has an answer, and   *)
(* reads again.  A program is one process linked with hilolay: its main     *)
(* thread plus the ULTs it creates, of which exactly one runs at a time;    *)
(* hilolay_yield asks the server (SCHEDULE_NEXT) whom to switch to.         *)
(*                                                                         *)
(* Each action is one request of a program together with the whole handler  *)
(* the server runs for it.  SCHEDULE_NEXT is two actions, because its       *)
(* handler sleeps in sem_wait between them.                                 *)
(***************************************************************************)
EXTENDS Integers, Sequences, FiniteSets

CONSTANTS
  Programas,         \* the programs that may connect
  Hilos,             \* tids of the ULTs a program creates (NEXT_ID = 1, 2, ...)
  Semaforos,         \* SEM_IDS
  Main,              \* MAIN_THREAD_ID: the main thread, which is no t_hilo
  Nadie,             \* the NULL t_new*
  Multiprog,         \* MAX_MULTIPROG
  SemInit, SemMax,   \* SEM_INIT, SEM_MAX
  Estimados,         \* the values estimadoActual may take
  EstimadoInicial,   \* estimadoActual of a new t_hilo
  Rafagas,           \* the bursts clock() - initExec may measure
  Recalcular(_, _),  \* (1 - ALPHA_SJF) * estimate + ALPHA_SJF * burst
  PuedenMorir,       \* programs whose process may die at any moment
  SinJoin,           \* programs whose main may return without joining
  MainConSemaforos,  \* programs whose main thread uses the semaphores too
  MaxRetenidos,      \* bound on |cantidad|, the held count of a semaphore
  MaxJoins           \* bound on the join records of one tid

ASSUME ConstantesOK ==
  /\ IsFiniteSet(Programas) /\ IsFiniteSet(Hilos) /\ IsFiniteSet(Semaforos)
  /\ Main \notin Hilos /\ Nadie \notin Hilos \cup {Main}
  /\ Multiprog \in Nat \ {0}
  /\ SemMax \in [Semaforos -> Nat \ {0}]
  /\ SemInit \in [Semaforos -> Nat]
  /\ \A s \in Semaforos : SemInit[s] <= SemMax[s]
  /\ Estimados \subseteq Int
  /\ EstimadoInicial \in Estimados
  /\ \A e \in Estimados, r \in Rafagas : Recalcular(e, r) \in Estimados
  /\ PuedenMorir \subseteq Programas
  /\ SinJoin \subseteq Programas
  /\ MainConSemaforos \subseteq Programas
  /\ MaxRetenidos \in Nat /\ MaxJoins \in Nat

Pares == Programas \X Hilos

VARIABLES
  \* per ULT: t_hilo
  estado,            \* [Pares -> state]; "NADA" before create_hilo
  estimado,          \* estimadoActual
  nodo,              \* the estimado of the t_new or t_block that queues it
  \* global queues and counters
  tabla_new,         \* FIFO of the ULTs not yet admitted
  cant_programas,    \* admitted ULTs, of every program
  sem_values,        \* semaphore values; negative counts the waiters
  sem_blocked,       \* FIFO of waiters of each semaphore
  tabla_lock,        \* how many t_block of a ULT are in tabla_lock
  \* per program: t_programa and the locals of its atenderPrograma
  estProg,           \* "NADA" before INIT, then estProg of the code
  tablaReady,        \* ready list; list_sort makes its order irrelevant
  cont,              \* the sem_t of lista_semaforos
  cant_hilos,        \* ULTs not closed
  joins,             \* the join list: how many records name each tid
  retenidos,         \* t_sem_retenidos.cantidad
  hilo_exec,         \* the running ULT, as the server thread knows it
  atiende,           \* where the server thread is: "recv" or "sem_wait"
  vivo,              \* FALSE once the server process has crashed
  \* per program: the hilolay client
  cliente,           \* "fuera", "corre", "cede", "espera" or "salio"
  actual,            \* current_ult
  pendiente          \* main has created ULTs and not joined since it resumed

hiloVars == <<estado, estimado, nodo>>
semVars  == <<sem_values, sem_blocked, tabla_lock, retenidos>>
cliVars  == <<cliente, actual, pendiente>>
vars == <<estado, estimado, nodo, tabla_new, cant_programas, sem_values,
          sem_blocked, tabla_lock, estProg, tablaReady, cont, cant_hilos,
          joins, retenidos, hilo_exec, atiende, vivo, cliente, actual,
          pendiente>>

Estados == {"NADA", "NEW", "READY", "EXEC", "BLOCKED", "EXIT"}

(***************************************************************************)
(* The server handlers' shared pieces.                                      *)
(***************************************************************************)

(* The operators in pairs are a definition and, before it, a wrong version   *)
(* of it that some property must reject.                                    *)

\* MUTANT: list_add without its sem_post.
PasarSinPost(B, est, listas, ctr) ==
  LET nuevos(q) == {h \in Hilos : <<q, h>> \in B}
  IN /\ estado' = [x \in Pares |-> IF x \in B THEN "READY" ELSE est[x]]
     /\ tablaReady' = [q \in Programas |-> listas[q] \cup nuevos(q)]
     /\ cont' = ctr

\* list_add to tablaReady, sem_post on the contador and estado = READY, for
\* every ULT of B; est, listas and ctr are the values these had before.
PasarAReady(B, est, listas, ctr) ==
  LET nuevos(q) == {h \in Hilos : <<q, h>> \in B}
  IN /\ estado' = [x \in Pares |-> IF x \in B THEN "READY" ELSE est[x]]
     /\ tablaReady' = [q \in Programas |-> listas[q] \cup nuevos(q)]
     /\ cont' = [q \in Programas |-> ctr[q] + Cardinality(nuevos(q))]

\* The tablaReady of a finished program is freed but the program stays in
\* tabla_programas: adding to it writes to freed memory, which either goes
\* unnoticed or takes the server down.
TrasTocar(B, finalizados) ==
  IF \E x \in B : x[1] \in finalizados THEN BOOLEAN ELSE {TRUE}

Finalizados == {p \in Programas : estProg[p] = "FINALIZADO"}

\* MUTANT: <= for < in the planner's loop.
CupoDeMas(cola, cant) ==
  IF cant > Multiprog THEN 0
  ELSE IF Len(cola) < Multiprog + 1 - cant THEN Len(cola) ELSE Multiprog + 1 - cant

\* MUTANT: one slot never used.
CupoDeMenos(cola, cant) ==
  IF cant + 1 >= Multiprog THEN 0
  ELSE IF Len(cola) < Multiprog - 1 - cant THEN Len(cola) ELSE Multiprog - 1 - cant

\* How many ULTs of the queue the planner admits: its while loop.
Cupo(cola, cant) ==
  IF cant >= Multiprog THEN 0
  ELSE IF Len(cola) < Multiprog - cant THEN Len(cola) ELSE Multiprog - cant

\* Long-term planner: admits in FIFO order while there is room.
planificadorLargo(cola, cant, est, listas, ctr) ==
  LET k == Cupo(cola, cant)
      B == {cola[i] : i \in 1..k}
  IN /\ tabla_new' = SubSeq(cola, k + 1, Len(cola))
     /\ cant_programas' = cant + k
     /\ PasarAReady(B, est, listas, ctr)
     /\ vivo' \in TrasTocar(B, Finalizados)

\* MUTANT: the new node is made before the estimate is.
ReestimarTarde(p, h) ==
  \E r \in Rafagas :
    /\ estimado' = [estimado EXCEPT ![<<p, h>>] = Recalcular(@, r)]
    /\ nodo' = [nodo EXCEPT ![<<p, h>>] = estimado[<<p, h>>]]

\* recalcularEstimado, and the node that queues the ULT with the new value.
Reestimar(p, h) ==
  \E r \in Rafagas :
    LET e == Recalcular(estimado[<<p, h>>], r)
    IN /\ estimado' = [estimado EXCEPT ![<<p, h>>] = e]
       /\ nodo' = [nodo EXCEPT ![<<p, h>>] = e]

\* MUTANT: the record is assumed to be there.
QuitarSiempre(n) == n - 1

\* Removal of one record, if there is one.
QuitarUno(n) == IF n > 0 THEN n - 1 ELSE 0

\* MUTANT: the CPU goes to main before the last ULT closes.
QuedaUno(p) == cant_hilos[p] <= 1

\* Main runs only when the program has no ULT left.
SinHilos(p) == cant_hilos[p] = 0

HayJoins(p) == \E h \in Hilos : joins[p][h] > 0

\* The program's server thread is in recv, waiting for its client.
Escucha(p) == vivo /\ estProg[p] \in {"ACTIVO", "BLOQUEADO"} /\ atiende[p] = "recv"

\* The code of program p is running its ULT h (or its main thread).
Corre(p, h) == Escucha(p) /\ cliente[p] = "corre" /\ actual[p] = h

Ceder(p) == cliente' = [cliente EXCEPT ![p] = "cede"]

-----------------------------------------------------------------------------
Init ==
  /\ estado = [x \in Pares |-> "NADA"]
  /\ estimado = [x \in Pares |-> EstimadoInicial]
  /\ nodo = [x \in Pares |-> EstimadoInicial]
  /\ tabla_new = <<>>
  /\ cant_programas = 0
  /\ sem_values = SemInit
  /\ sem_blocked = [s \in Semaforos |-> <<>>]
  /\ tabla_lock = [x \in Pares |-> 0]
  /\ estProg = [p \in Programas |-> "NADA"]
  /\ tablaReady = [p \in Programas |-> {}]
  /\ cont = [p \in Programas |-> 0]
  /\ cant_hilos = [p \in Programas |-> 0]
  /\ joins = [p \in Programas |-> [h \in Hilos |-> 0]]
  /\ retenidos = [p \in Programas |-> [s \in Semaforos |-> 0]]
  /\ hilo_exec = [p \in Programas |-> Nadie]
  /\ atiende = [p \in Programas |-> "recv"]
  /\ vivo = TRUE
  /\ cliente = [p \in Programas |-> "fuera"]
  /\ actual = [p \in Programas |-> Main]
  /\ pendiente = [p \in Programas |-> FALSE]

\* hilolay_init: INIT, and the CREATE_HILO of the main thread, whose tid the
\* server keeps as the program's id.
Conectar(p) ==
  /\ vivo
  /\ estProg[p] = "NADA"
  /\ estProg' = [estProg EXCEPT ![p] = "ACTIVO"]
  /\ cliente' = [cliente EXCEPT ![p] = "corre"]
  /\ UNCHANGED <<hiloVars, semVars, tabla_new, cant_programas, tablaReady,
                 cont, cant_hilos, joins, hilo_exec, atiende, vivo, actual,
                 pendiente>>

\* hilolay_create by the running thread: no answer, no yield.
Crear(p, h) ==
  /\ \E c \in Hilos \cup {Main} : Corre(p, c)
  /\ estado[<<p, h>>] = "NADA"
  /\ estimado' = [estimado EXCEPT ![<<p, h>>] = EstimadoInicial]
  /\ nodo' = [nodo EXCEPT ![<<p, h>>] = EstimadoInicial]
  /\ cant_hilos' = [cant_hilos EXCEPT ![p] = @ + 1]
  /\ planificadorLargo(Append(tabla_new, <<p, h>>), cant_programas,
                       [estado EXCEPT ![<<p, h>>] = "NEW"], tablaReady, cont)
  /\ pendiente' = [pendiente EXCEPT ![p] = TRUE]
  /\ UNCHANGED <<semVars, estProg, joins, hilo_exec, atiende, cliente, actual>>

\* hilolay_yield, first half: the running ULT goes back to ready with a new
\* estimate; a program with no ULT left gets its main thread back, any other
\* waits for a ready ULT.
PedirSiguiente(p) ==
  /\ Escucha(p)
  /\ cliente[p] \in {"corre", "cede"}
  /\ LET h == hilo_exec[p]
     IN IF h = Nadie
        THEN UNCHANGED <<hiloVars, tablaReady, cont>>
        ELSE /\ Reestimar(p, h)
             /\ PasarAReady({<<p, h>>}, estado, tablaReady, cont)
  /\ hilo_exec' = [hilo_exec EXCEPT ![p] = Nadie]
  /\ IF SinHilos(p)
     THEN /\ cliente' = [cliente EXCEPT ![p] = "corre"]
          /\ actual' = [actual EXCEPT ![p] = Main]
          /\ pendiente' = [pendiente EXCEPT ![p] = FALSE]
          /\ UNCHANGED atiende
     ELSE /\ cliente' = [cliente EXCEPT ![p] = "espera"]
          /\ atiende' = [atiende EXCEPT ![p] = "sem_wait"]
          /\ UNCHANGED <<actual, pendiente>>
  /\ UNCHANGED <<semVars, tabla_new, cant_programas, estProg, cant_hilos,
                 joins, vivo>>

\* hilolay_yield, second half: sem_wait returns, next_hilo takes a ULT of
\* least estimate and the answer switches the client to it.  An empty list
\* makes next_hilo return NULL, which the handler dereferences.
Despachar(p) ==
  /\ vivo
  /\ atiende[p] = "sem_wait"
  /\ cont[p] > 0
  /\ cont' = [cont EXCEPT ![p] = @ - 1]
  /\ IF tablaReady[p] = {}
     THEN /\ vivo' = FALSE
          /\ UNCHANGED <<estado, tablaReady, hilo_exec, atiende, cliente, actual>>
     ELSE \E h \in tablaReady[p] :
            /\ \A g \in tablaReady[p] : nodo[<<p, h>>] <= nodo[<<p, g>>]
            /\ tablaReady' = [tablaReady EXCEPT ![p] = @ \ {h}]
            /\ estado' = [estado EXCEPT ![<<p, h>>] = "EXEC"]
            /\ hilo_exec' = [hilo_exec EXCEPT ![p] = h]
            /\ atiende' = [atiende EXCEPT ![p] = "recv"]
            /\ IF cliente[p] = "salio"
               THEN UNCHANGED <<cliente, actual>>
               ELSE /\ cliente' = [cliente EXCEPT ![p] = "corre"]
                    /\ actual' = [actual EXCEPT ![p] = h]
            /\ UNCHANGED vivo
  /\ UNCHANGED <<estimado, nodo, semVars, tabla_new, cant_programas, estProg,
                 cant_hilos, joins, pendiente>>

\* hilolay_join: the server notes the tid unless it is already in tabla_exit;
\* nothing blocks the calling ULT.  Then a yield.
Unir(p, h) ==
  /\ \E c \in Hilos \cup {Main} : c # h /\ Corre(p, c)
  /\ estado[<<p, h>>] # "NADA"
  /\ joins[p][h] < MaxJoins
  /\ IF estado[<<p, h>>] = "EXIT"
     THEN UNCHANGED joins
     ELSE joins' = [joins EXCEPT ![p][h] = @ + 1]
  /\ estProg' = IF estado[<<p, h>>] # "EXIT" \/ HayJoins(p)
                THEN [estProg EXCEPT ![p] = "BLOQUEADO"] ELSE estProg
  /\ Ceder(p)
  /\ UNCHANGED <<hiloVars, semVars, tabla_new, cant_programas, tablaReady,
                 cont, cant_hilos, hilo_exec, atiende, vivo, actual, pendiente>>

\* A ULT's function returns: CLOSE(tid), the planner, and a yield.  hilolay
\* closes only the running ULT, so close_hilo takes its EXEC branch.
CerrarHilo(p, h) ==
  /\ h \in Hilos /\ Corre(p, h) /\ estado[<<p, h>>] = "EXEC"
  /\ cant_hilos' = [cant_hilos EXCEPT ![p] = @ - 1]
  /\ hilo_exec' = [hilo_exec EXCEPT ![p] = Nadie]
  /\ joins' = [joins EXCEPT ![p][h] = QuitarUno(@)]
  /\ estProg' = IF \A g \in Hilos : joins'[p][g] = 0
                THEN [estProg EXCEPT ![p] = "ACTIVO"] ELSE estProg
  /\ planificadorLargo(tabla_new, cant_programas - 1,
                       [estado EXCEPT ![<<p, h>>] = "EXIT"], tablaReady, cont)
  /\ Ceder(p)
  /\ UNCHANGED <<estimado, nodo, semVars, atiende, actual, pendiente>>

\* MUTANT: the value is tested before it is decremented.
SinUnidadAntes(s) == sem_values[s] < 0

\* wait_hilo decrements and then tests the value.
SinUnidad(s) == sem_values[s] - 1 < 0

\* hilolay_wait: the unit is taken, or the ULT queued with a new estimate.
\* The main thread is no t_hilo: a wait of its without a unit leaves the value
\* decremented and queues nobody.
Esperar(p, s) ==
  LET h == actual[p]
  IN /\ Corre(p, h)
     /\ h \in Hilos \/ p \in MainConSemaforos
     /\ retenidos[p][s] < MaxRetenidos
     /\ sem_values' = [sem_values EXCEPT ![s] = @ - 1]
     /\ retenidos' = [retenidos EXCEPT ![p][s] = @ + 1]
     /\ IF SinUnidad(s) /\ h \in Hilos
        THEN /\ Reestimar(p, h)
             /\ estado' = [estado EXCEPT ![<<p, h>>] = "BLOCKED"]
             /\ tabla_lock' = [tabla_lock EXCEPT ![<<p, h>>] = @ + 1]
             /\ sem_blocked' = [sem_blocked EXCEPT ![s] = Append(@, <<p, h>>)]
             /\ hilo_exec' = [hilo_exec EXCEPT ![p] = Nadie]
        ELSE UNCHANGED <<hiloVars, tabla_lock, sem_blocked, hilo_exec>>
     /\ Ceder(p)
     /\ UNCHANGED <<tabla_new, cant_programas, estProg, tablaReady, cont,
                    cant_hilos, joins, atiende, vivo, actual, pendiente>>

\* MUTANT: the unit above the maximum is kept.
CabeDeMas(s) == sem_values[s] <= SemMax[s]

\* Above its maximum a semaphore drops the unit given back.
Cabe(s) == sem_values[s] < SemMax[s]

\* MUTANT: < for <= once the value is incremented.
DespiertaTarde(s) == sem_values[s] + 1 < 0

\* Once incremented, a value at or below zero wakes the head of the queue.
Despierta(s) == sem_values[s] + 1 <= 0

\* MUTANT: the last to wait is woken first.
OtorgadosAlReves(S) ==
  {sem_blocked[s][Len(sem_blocked[s])] : s \in {t \in S : Despierta(t) /\ sem_blocked[t] # <<>>}}

\* The ULTs woken when each semaphore of S gets a unit back.
Otorgados(S) ==
  {Head(sem_blocked[s]) : s \in {t \in S : Despierta(t) /\ sem_blocked[t] # <<>>}}

\* The pop of an empty queue returns NULL, which the code dereferences.
PopVacio(S) == \E s \in S : Despierta(s) /\ sem_blocked[s] = <<>>

\* MUTANT: the ULT woken stays in the queue.
DevolverSinSacar(S) ==
  /\ sem_values' = [s \in Semaforos |->
                      IF s \in S THEN sem_values[s] + 1 ELSE sem_values[s]]
  /\ UNCHANGED sem_blocked

\* A unit back to each semaphore of S.
Devolver(S) ==
  /\ sem_values' = [s \in Semaforos |->
                      IF s \in S THEN sem_values[s] + 1 ELSE sem_values[s]]
  /\ sem_blocked' = [s \in Semaforos |->
                       IF s \in S /\ Despierta(s) /\ sem_blocked[s] # <<>>
                       THEN Tail(sem_blocked[s]) ELSE sem_blocked[s]]

\* hilolay_signal: above the maximum the unit is dropped; the ULT woken leaves
\* tabla_lock.  Then a yield.
Senalar(p, s) ==
  LET S == IF Cabe(s) THEN {s} ELSE {}
      B == Otorgados(S)
  IN /\ Corre(p, actual[p])
     /\ actual[p] \in Hilos \/ p \in MainConSemaforos
     /\ retenidos[p][s] > -MaxRetenidos
     /\ retenidos' = [retenidos EXCEPT ![p][s] = @ - 1]
     /\ Devolver(S)
     /\ PasarAReady(B, estado, tablaReady, cont)
     /\ tabla_lock' = [x \in Pares |->
                         IF x \in B THEN QuitarUno(tabla_lock[x]) ELSE tabla_lock[x]]
     /\ vivo' \in IF PopVacio(S) THEN {FALSE} ELSE TrasTocar(B, Finalizados)
     /\ Ceder(p)
     /\ UNCHANGED <<estimado, nodo, tabla_new, cant_programas, estProg,
                    cant_hilos, joins, hilo_exec, atiende, actual, pendiente>>

\* The end of a program: its lists are freed, and each semaphore it has a
\* positive count of gets one unit back.  The woken ULTs stay in tabla_lock,
\* cant_programas keeps the program's ULTs and the planner does not run.
Finalizar(p) ==
  LET S == {s \in Semaforos : retenidos[p][s] > 0 /\ Cabe(s)}
      B == Otorgados(S)
  IN /\ estProg' = [estProg EXCEPT ![p] = "FINALIZADO"]
     /\ hilo_exec' = [hilo_exec EXCEPT ![p] = Nadie]
     /\ joins' = [joins EXCEPT ![p] = [h \in Hilos |-> 0]]
     /\ retenidos' = [retenidos EXCEPT ![p] = [s \in Semaforos |-> 0]]
     /\ Devolver(S)
     /\ PasarAReady(B, estado, [tablaReady EXCEPT ![p] = {}], cont)
     /\ vivo' \in IF PopVacio(S) THEN {FALSE}
                  ELSE TrasTocar(B, Finalizados \cup {p})
     /\ cliente' = [cliente EXCEPT ![p] = "salio"]
     /\ UNCHANGED <<estimado, nodo, tabla_new, cant_programas, tabla_lock,
                    cant_hilos, atiende, actual, pendiente>>

\* The main thread returns (hilolay_return): CLOSE of the program's id.
RetornarMain(p) ==
  /\ Corre(p, Main)
  /\ p \in SinJoin \/ ~pendiente[p]
  /\ ~HayJoins(p)
  /\ Finalizar(p)

\* The same CLOSE, refused because the join list is not empty; the process
\* ends all the same.
RetornarMainRechazado(p) ==
  /\ Corre(p, Main)
  /\ p \in SinJoin \/ ~pendiente[p]
  /\ HayJoins(p)
  /\ planificadorLargo(tabla_new, cant_programas, estado, tablaReady, cont)
  /\ hilo_exec' = [hilo_exec EXCEPT ![p] = Nadie]
  /\ cliente' = [cliente EXCEPT ![p] = "salio"]
  /\ UNCHANGED <<estimado, nodo, semVars, estProg, cant_hilos, joins, atiende,
                 actual, pendiente>>

\* The process of a program dies: the server does not notice yet.
Morir(p) ==
  /\ vivo
  /\ p \in PuedenMorir
  /\ cliente[p] \in {"corre", "cede", "espera"}
  /\ cliente' = [cliente EXCEPT ![p] = "salio"]
  /\ UNCHANGED <<hiloVars, semVars, tabla_new, cant_programas, estProg,
                 tablaReady, cont, cant_hilos, joins, hilo_exec, atiende, vivo,
                 actual, pendiente>>

\* recv returns 0: the handler of CLOSE runs with matado.
Desconectar(p) ==
  /\ Escucha(p)
  /\ cliente[p] = "salio"
  /\ Finalizar(p)

-----------------------------------------------------------------------------
Paso(p) ==
  \/ Conectar(p)
  \/ \E h \in Hilos : Crear(p, h)
  \/ PedirSiguiente(p)
  \/ Despachar(p)
  \/ \E h \in Hilos : Unir(p, h)
  \/ \E h \in Hilos : CerrarHilo(p, h)
  \/ \E s \in Semaforos : Esperar(p, s)
  \/ \E s \in Semaforos : Senalar(p, s)
  \/ RetornarMain(p)
  \/ RetornarMainRechazado(p)
  \/ Morir(p)
  \/ Desconectar(p)

Next == \E p \in Programas : Paso(p)

Spec == Init /\ [][Next]_vars

-----------------------------------------------------------------------------
(***************************************************************************)
(* What the scheduler promises.                                             *)
(***************************************************************************)

TipoHilos ==
  /\ estado \in [Pares -> Estados]
  /\ estimado \in [Pares -> Estimados]
  /\ nodo \in [Pares -> Estimados]

TipoColas ==
  /\ tabla_new \in Seq(Pares)
  /\ cant_programas \in Int
  /\ sem_values \in [Semaforos -> Int]
  /\ sem_blocked \in [Semaforos -> Seq(Pares)]
  /\ tabla_lock \in [Pares -> Nat]
  /\ vivo \in BOOLEAN

TipoProgramas ==
  /\ estProg \in [Programas -> {"NADA", "ACTIVO", "BLOQUEADO", "FINALIZADO"}]
  /\ tablaReady \in [Programas -> SUBSET Hilos]
  /\ cont \in [Programas -> Nat]
  /\ cant_hilos \in [Programas -> Int]
  /\ joins \in [Programas -> [Hilos -> Nat]]
  /\ retenidos \in [Programas -> [Semaforos -> Int]]
  /\ hilo_exec \in [Programas -> Hilos \cup {Nadie}]
  /\ atiende \in [Programas -> {"recv", "sem_wait"}]

TipoClientes ==
  /\ cliente \in [Programas -> {"fuera", "corre", "cede", "espera", "salio"}]
  /\ actual \in [Programas -> Hilos \cup {Main}]
  /\ pendiente \in [Programas -> BOOLEAN]

\* The variables hold values of the types the code gives them.
TypeOK == TipoHilos /\ TipoColas /\ TipoProgramas /\ TipoClientes

Activo(p) == estProg[p] \in {"ACTIVO", "BLOQUEADO"}
EnCola(c) == {c[i] : i \in 1..Len(c)}
SinRepetir(c) == \A i, j \in 1..Len(c) : c[i] = c[j] => i = j

\* tabla_new holds the NEW ULTs.
NuevosEnCola ==
  /\ SinRepetir(tabla_new)
  /\ \A x \in Pares : estado[x] = "NEW" <=> x \in EnCola(tabla_new)

\* The queues of the semaphores hold the BLOCKED ULTs.
BloqueadosEnCola ==
  /\ \A s \in Semaforos : SinRepetir(sem_blocked[s])
  /\ \A s, t \in Semaforos : s # t => EnCola(sem_blocked[s]) \cap EnCola(sem_blocked[t]) = {}
  /\ \A x \in Pares : estado[x] = "BLOCKED" <=> \E s \in Semaforos : x \in EnCola(sem_blocked[s])

\* The ready list of a program holds its READY ULTs, hilo_exec its EXEC one.
\* A finished program's are freed.
ListosEnCola ==
  \A p \in Programas, h \in Hilos : Activo(p) =>
    /\ estado[<<p, h>>] = "READY" <=> h \in tablaReady[p]
    /\ estado[<<p, h>>] = "EXEC" <=> hilo_exec[p] = h

\* A ULT is queued exactly where its estado says, and once: tabla_new, the
\* ready list of its program, the CPU of its program or one semaphore.
UnSoloLugar == NuevosEnCola /\ BloqueadosEnCola /\ ListosEnCola

\* The counting semaphore of a program counts its ready list: sem_wait never
\* lets next_hilo find the list empty, and no ready ULT is left uncounted.
ContadorExacto ==
  \A p \in Programas : Activo(p) => cont[p] = Cardinality(tablaReady[p])

\* A negative semaphore value is the number of ULTs queued on it, so a signal
\* that leaves it at or below zero finds somebody to wake.
SemaforoExacto ==
  \A s \in Semaforos :
    Len(sem_blocked[s]) = IF sem_values[s] < 0 THEN -sem_values[s] ELSE 0

Admitidos == {x \in Pares : estado[x] \in {"READY", "EXEC", "BLOCKED"}}

\* cant_programas is the number of ULTs admitted and not closed, whatever the
\* order of creations, closes and deaths, and never above the maximum.
CuposExactos ==
  /\ cant_programas = Cardinality(Admitidos)
  /\ cant_programas <= Multiprog

\* No ULT waits in NEW while there is room: every close and every creation
\* runs the planner.
AdmisionAlDia == tabla_new # <<>> => cant_programas = Multiprog

\* cant_hilos counts the ULTs created and not closed; SCHEDULE_NEXT relies on
\* it to give the CPU back to main.
HilosContados ==
  \A p \in Programas : Activo(p) =>
    cant_hilos[p] = Cardinality({h \in Hilos : estado[<<p, h>>] \notin {"NADA", "EXIT"}})

\* After a join, main goes on only when every ULT of its program has closed,
\* although the server never records that main is waiting.
JoinDeMain ==
  \A p \in Programas :
    (cliente[p] = "corre" /\ actual[p] = Main /\ ~pendiente[p]) =>
       \A h \in Hilos : estado[<<p, h>>] \in {"NADA", "EXIT"}

\* The server never dereferences a NULL hilo or block nor writes to the lists
\* of a finished program.
NuncaCae == vivo

\* The five-state diagram of a ULT; EXIT is final even if a semaphore or the
\* planner still had the ULT queued.
TransicionesLegales ==
  [][\A x \in Pares : estado'[x] # estado[x] =>
       <<estado[x], estado'[x]>> \in
         {<<"NADA", "NEW">>, <<"NADA", "READY">>, <<"NEW", "READY">>,
          <<"READY", "EXEC">>, <<"EXEC", "READY">>, <<"EXEC", "BLOCKED">>,
          <<"EXEC", "EXIT">>, <<"BLOCKED", "READY">>}]_vars

\* Shortest job first: the ULT dispatched has the least current estimate of
\* the READY ULTs of its program, although next_hilo compares the copies that
\* were made when each was queued.
MasCortoPrimero ==
  [][\A p \in Programas, h \in Hilos :
       (hilo_exec'[p] = h /\ hilo_exec[p] # h) =>
          \A g \in Hilos : estado[<<p, g>>] = "READY" => estimado[<<p, h>>] <= estimado[<<p, g>>]]_vars
=============================================================================
