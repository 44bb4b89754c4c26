---------------------------- MODULE MCSACBloques ----------------------------
(* SACBloques on small disks. *)
EXTENDS SACBloques, TLC

Simetria == Permutations(Bloques) \cup Permutations(Archivos)
=============================================================================
