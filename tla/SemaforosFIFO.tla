---------------------------- MODULE SemaforosFIFO ---------------------------
(***************************************************************************)
(* What SUSE's semaphores promise their callers: each has between 0 and a   *)
(* maximum of units available, and serves its waiters in the order they     *)
(* arrived.  One step may touch several semaphores: the end of a program    *)
(* gives units back to many.                                                *)
(***************************************************************************)
EXTENDS Integers, Sequences

CONSTANTS Semaforos, Inicial, Maximo, Esperadores

VARIABLES disponibles, espera

Init ==
  /\ disponibles = Inicial
  /\ espera = [s \in Semaforos |-> <<>>]

\* A wait with a unit available.
Tomar(s) ==
  /\ disponibles[s] > 0
  /\ disponibles'[s] = disponibles[s] - 1
  /\ espera'[s] = espera[s]

\* A wait without one: the caller, who is not waiting already, queues.
Encolar(s) ==
  /\ disponibles[s] = 0
  /\ disponibles'[s] = 0
  /\ \E x \in Esperadores :
       /\ \A i \in 1..Len(espera[s]) : espera[s][i] # x
       /\ espera'[s] = Append(espera[s], x)

\* A signal with nobody waiting, up to the maximum.
Liberar(s) ==
  /\ espera[s] = <<>>
  /\ disponibles[s] < Maximo[s]
  /\ disponibles'[s] = disponibles[s] + 1
  /\ espera'[s] = <<>>

\* A signal with waiters: the first of them has the unit.
Despertar(s) ==
  /\ espera[s] # <<>>
  /\ disponibles'[s] = disponibles[s]
  /\ espera'[s] = Tail(espera[s])

Quieto(s) == disponibles'[s] = disponibles[s] /\ espera'[s] = espera[s]

Next ==
  /\ disponibles' = [s \in Semaforos |-> disponibles'[s]]
  /\ espera' = [s \in Semaforos |-> espera'[s]]
  /\ \A s \in Semaforos :
       Tomar(s) \/ Encolar(s) \/ Liberar(s) \/ Despertar(s) \/ Quieto(s)

Spec == Init /\ [][Next]_<<disponibles, espera>>
=============================================================================
