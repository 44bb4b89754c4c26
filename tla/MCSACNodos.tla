----------------------------- MODULE MCSACNodos -----------------------------
(* SACNodos on small disks. *)
EXTENDS SACNodosArbol, TLC

\* Blocks are interchangeable, and so are the names a node may have.
Simetria == Permutations(Bloques) \cup Permutations(Nombres \ NombresLargos)
SimetriaDos == Simetria \cup Permutations(Clientes)
=============================================================================
