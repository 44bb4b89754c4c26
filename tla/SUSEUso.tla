------------------------------ MODULE SUSEUso -------------------------------
(***************************************************************************)
(* What the threads of the programs see.  They use the semaphores as locks: *)
(* a thread signals only what it waited for and a ULT closes only when it   *)
(* holds nothing.  History variables record who was given a unit, whose     *)
(* turn has not come, and who called hilolay_join and has not run since.    *)
(***************************************************************************)
EXTENDS SUSE

CONSTANT MuerenEsperando   \* programs that may die while a ULT of theirs is BLOCKED

VARIABLES
  tiene,       \* per semaphore, the threads that were given a unit
  turno,       \* per semaphore, the units to be given back before a thread's turn
  enJoin       \* the tid a thread called hilolay_join on, Nadie outside it

usoVars == <<vars, tiene, turno, enJoin>>

Todos == Programas \X (Hilos \cup {Main})

UsoInit ==
  /\ Init
  /\ tiene = [s \in Semaforos |-> {}]
  /\ turno = [x \in Todos |-> [s \in Semaforos |-> 0]]
  /\ enJoin = [x \in Todos |-> Nadie]

\* Program p resumes its thread h: SCHEDULE_NEXT was answered.
Retoma(p, h) == cliente[p] # "corre" /\ cliente'[p] = "corre" /\ actual'[p] = h

Devuelta(s) == sem_values'[s] = sem_values[s] + 1

TurnosCorren ==
  turno' = [x \in Todos |-> [s \in Semaforos |->
              IF Devuelta(s) /\ turno[x][s] > 0 THEN turno[x][s] - 1 ELSE turno[x][s]]]

\* The holders of s: those of resto and the ULTs woken in this step.
Pasan(s, resto) ==
  resto \cup {x \in Pares : /\ estProg'[x[1]] # "FINALIZADO"
                            /\ x \in EnCola(sem_blocked[s])
                            /\ x \notin EnCola(sem_blocked'[s])}

TomarLock(p, s) ==
  LET x == <<p, actual[p]>>
  IN /\ Esperar(p, s)
     /\ x \notin tiene[s]
     /\ tiene' = [tiene EXCEPT ![s] = IF sem_values'[s] < 0 THEN @ ELSE @ \cup {x}]
     /\ turno' = [turno EXCEPT ![x][s] = IF sem_values'[s] < 0 THEN -sem_values'[s] ELSE 0]
     /\ UNCHANGED enJoin

SoltarLock(p, s) ==
  LET x == <<p, actual[p]>>
  IN /\ Senalar(p, s)
     /\ x \in tiene[s]
     /\ tiene' = [tiene EXCEPT ![s] = Pasan(s, @ \ {x})]
     /\ TurnosCorren
     /\ UNCHANGED enJoin

CerrarSinLocks(p, h) ==
  /\ CerrarHilo(p, h)
  /\ \A s \in Semaforos : <<p, h>> \notin tiene[s]
  /\ UNCHANGED <<tiene, turno, enJoin>>

\* The program's end: its own threads hold nothing any more.
Fin(p) ==
  /\ RetornarMain(p) \/ Desconectar(p)
  /\ tiene' = [s \in Semaforos |-> Pasan(s, {x \in tiene[s] : x[1] # p})]
  /\ TurnosCorren
  /\ UNCHANGED enJoin

\* Nobody joins a ULT that another thread has joined, so that the CLOSE of
\* main is never refused.
UnirEnJoin(p, h) ==
  /\ joins[p][h] = 0
  /\ Unir(p, h)
  /\ enJoin' = [enJoin EXCEPT ![<<p, actual[p]>>] = h]
  /\ UNCHANGED <<tiene, turno>>

MorirEnUso(p) ==
  /\ Morir(p)
  /\ p \in MuerenEsperando \/ \A h \in Hilos : estado[<<p, h>>] # "BLOCKED"

Otros(p) ==
  /\ \/ Conectar(p)
     \/ \E h \in Hilos : Crear(p, h)
     \/ PedirSiguiente(p)
     \/ Despachar(p)
     \/ MorirEnUso(p)
  /\ enJoin' = [x \in Todos |-> IF Retoma(x[1], x[2]) THEN Nadie ELSE enJoin[x]]
  /\ UNCHANGED <<tiene, turno>>

UsoNext ==
  \E p \in Programas :
    \/ \E s \in Semaforos : TomarLock(p, s) \/ SoltarLock(p, s)
    \/ \E h \in Hilos : CerrarSinLocks(p, h) \/ UnirEnJoin(p, h)
    \/ Fin(p)
    \/ Otros(p)

UsoSpec == UsoInit /\ [][UsoNext]_usoVars

\* A unit is either available or held by one thread: none is lost and none is
\* given twice, over every interleaving of waits, signals and dispatches, and
\* when a program dies that holds a unit and waits for none.
UnidadesExactas ==
  \A s \in Semaforos :
    Cardinality(tiene[s]) + (IF sem_values[s] > 0 THEN sem_values[s] ELSE 0) = SemInit[s]

\* Never more holders than units, the promise of a semaphore used as a lock.
ExclusionMutua == \A s \in Semaforos : Cardinality(tiene[s]) <= SemInit[s]

\* hilolay.h, hilolay_wait: "It blocks the thread if no resources available":
\* a thread whose wait found no unit does not run until as many units were
\* given back as there were waiters ahead of it, plus its own.
EsperaBloquea ==
  \A p \in Programas :
    cliente[p] = "corre" => \A s \in Semaforos : turno[<<p, actual[p]>>][s] = 0

\* hilolay/README.md: suse_join "debera marcar el thread como bloqueado hasta
\* que termine".  The server only notes the tid for the program's last CLOSE,
\* and the ULT that joins goes back to ready.
JoinBloquea ==
  [][\A p \in Programas, h \in Hilos : (Retoma(p, h) /\ enJoin[<<p, h>>] # Nadie) =>
        estado[<<p, enJoin[<<p, h>>]>>] = "EXIT"]_usoVars
=============================================================================
