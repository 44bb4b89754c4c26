------------------------------ MODULE MCMUSEMapas ------------------------------
(***************************************************************************)
(* Instances of MUSEMapas for TLC.                                          *)
(***************************************************************************)
EXTENDS MUSEMapas, TLC

CONSTANTS p1, p2, a1, a2

\* a1 has one page at first, and a2 none.
LargosDeArchivos == (a1 :> 1) @@ (a2 :> 0)

Simetria == Permutations(Procesos)
=============================================================================
