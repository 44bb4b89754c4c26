--------------------------- MODULE MCSUSESemaforos ----------------------------
(* SUSESemaforos with the constants of MCSUSE. *)
EXTENDS SUSESemaforos, MCSUSE
===============================================================================
