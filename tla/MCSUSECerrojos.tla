--------------------------- MODULE MCSUSECerrojos ----------------------------
(* SUSECerrojos on two programs, of four ULTs and of one, and three slots: the *)
(* first program can create a ULT while another of it waits for a unit, or for *)
(* a slot, and a third one runs.                                             *)
EXTENDS SUSECerrojos, TLC

CONSTANTS p1, p2, h1, h2, h3, h4, h5

MCHilos == (p1 :> {h1, h2, h3, h4}) @@ (p2 :> {h5})

\* The ULTs of the first program are interchangeable.
Simetria == Permutations({h1, h2, h3, h4})
===============================================================================
