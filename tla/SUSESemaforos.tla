--------------------------- MODULE SUSESemaforos ----------------------------
(***************************************************************************)
(* SUSE keeps a semaphore as one signed value and a queue of t_block.       *)
(* Together they implement the abstract FIFO semaphores: the units          *)
(* available are the positive part of the value.                            *)
(***************************************************************************)
EXTENDS SUSE

Positiva(n) == IF n > 0 THEN n ELSE 0

Abstracto == INSTANCE SemaforosFIFO
  WITH Inicial <- SemInit, Maximo <- SemMax, Esperadores <- Pares,
       disponibles <- [s \in Semaforos |-> Positiva(sem_values[s])],
       espera <- sem_blocked

\* Every step of the server is, on every semaphore, a step of the abstract
\* semaphore or no step: no handler, planner run or end of a program forges a
\* unit, skips a waiter or leaves a unit beside one.
SemaforosCorrectos == Abstracto!Spec
=============================================================================
