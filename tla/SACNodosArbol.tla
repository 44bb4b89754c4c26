---------------------------- MODULE SACNodosArbol ---------------------------
(***************************************************************************)
(* The node table as the tree of paths that it means.                       *)
(***************************************************************************)
EXTENDS SACNodos

\* The path of each node, for trees of height at most k.
Caminar[k \in Nat] ==
  [n \in Nodos |->
     IF k = 0 \/ n = RAIZ \/ nodo[n].padre = ERROR THEN <<>>
     ELSE Append(Caminar[k - 1][nodo[n].padre], nodo[n].nombre)]

ArbolDe(caminos) ==
  [p \in {caminos[n] : n \in EnUso} |->
     LET n == CHOOSE m \in EnUso : caminos[m] = p
     IN [estado |-> nodo[n].estado, tam |-> nodo[n].tam]]

Abstracto == INSTANCE SACArbol
  WITH TamMax <- MaxPunteros, arbol <- ArbolDe(Caminar[CantNodos])

\* Each call changes the tree of files once, as it should, or not at all:
\* while one client uses the disk, a death of the server in the middle of a
\* request leaves the tree as it was before it or as it is after it.
ArbolCorrecto == Abstracto!Spec
=============================================================================
