---------------------------- MODULE MCMUSEMarcos ----------------------------
(* MUSEMarcos with a few frames. *)
EXTENDS MUSEMarcos

CONSTANTS p1, p2

\* A segment that may take every frame, and a page of another process.
Topes == [p \in Procesos |-> IF p = p1 THEN 4 ELSE 1]

\* A segment that memory cannot hold.
UnSegmento == [p \in Procesos |-> 4]
=============================================================================
