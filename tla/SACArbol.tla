------------------------------ MODULE SACArbol ------------------------------
(***************************************************************************)
(* What SAC promises its users: a tree of files and directories that each   *)
(* call changes at once or not at all, also when the server dies half way.  *)
(* The tree is a function from the paths that exist to what is there; a     *)
(* step is a relation between the tree before it, a, and after it, d.       *)
(***************************************************************************)
EXTENDS Integers, Sequences

CONSTANTS Nombres, TamMax

VARIABLE arbol

Padre(p) == SubSeq(p, 1, Len(p) - 1)
Prefijo(p, q) == Len(p) <= Len(q) /\ SubSeq(q, 1, Len(p)) = p
EsDir(a, p) == p = <<>> \/ (p \in DOMAIN a /\ a[p].estado = "DIRECTORIO")

\* There is room for p: it does not exist and its directory does.
Cabe(a, p) == p # <<>> /\ p \notin DOMAIN a /\ EsDir(a, Padre(p))

Crear(a, d, p) ==
  /\ Cabe(a, p) /\ DOMAIN d = DOMAIN a \cup {p}
  /\ d[p].estado \in {"OCUPADO", "DIRECTORIO"} /\ d[p].tam = 0
  /\ \A q \in DOMAIN a : d[q] = a[q]

\* A file, or a directory with nothing in it.
Borrar(a, d, p) ==
  /\ p \in DOMAIN a
  /\ \A q \in DOMAIN a : Prefijo(p, q) => q = p
  /\ d = [q \in DOMAIN a \ {p} |-> a[q]]

\* Everything below p is now below r.
Mover(a, d, p, r) ==
  /\ p \in DOMAIN a /\ Cabe(a, r) /\ ~ Prefijo(p, r)
  /\ LET Nuevo(q) == IF Prefijo(p, q) THEN r \o SubSeq(q, Len(p) + 1, Len(q))
                     ELSE q
     IN /\ DOMAIN d = {Nuevo(q) : q \in DOMAIN a}
        /\ \A q \in DOMAIN a : d[Nuevo(q)] = a[q]

Redimensionar(a, d, p) ==
  /\ p \in DOMAIN a /\ a[p].estado = "OCUPADO"
  /\ \E tam \in 0..TamMax : d = [a EXCEPT ![p].tam = tam]

Cambio(a, d) ==
  \/ \E p \in DOMAIN a : Borrar(a, d, p) \/ Redimensionar(a, d, p)
  \/ \E q \in DOMAIN d : Crear(a, d, q) \/ \E p \in DOMAIN a : Mover(a, d, p, q)

Init == arbol = <<>>
Next == Cambio(arbol, arbol')
Spec == Init /\ [][Next]_arbol
=============================================================================
