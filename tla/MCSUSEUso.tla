------------------------------ MODULE MCSUSEUso -------------------------------
(* SUSEUso with the constants of MCSUSE. *)
EXTENDS SUSEUso, MCSUSE
===============================================================================
