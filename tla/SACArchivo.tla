----------------------------- MODULE SACArchivo -----------------------------
(***************************************************************************)
(* What SAC promises of the content of its files: each is a sequence of     *)
(* bytes of its own, and a write, once answered, is in its file and nowhere *)
(* else, also if the server dies later.  What a file has where nobody wrote *)
(* is not promised, nor how far a write went when the server died in it.    *)
(***************************************************************************)
EXTENDS Integers, Sequences

CONSTANTS Archivos

VARIABLES
  contenido,    \* the bytes of each file that exists
  escritura,    \* the write accepted and not answered: a set of at most one
  contestada    \* the last step answered a write

Menor(m, n) == IF m < n THEN m ELSE n
Mayor(m, n) == IF m < n THEN n ELSE m

\* File a is the only one that changes.
Solo(a) ==
  /\ DOMAIN contenido' = DOMAIN contenido
  /\ \A otro \in DOMAIN contenido \ {a} : contenido'[otro] = contenido[otro]

\* File a has another length and keeps the bytes that fit.
Redimensionar(a, tam) ==
  /\ Solo(a) /\ Len(contenido'[a]) = tam
  /\ \A k \in 1..Menor(tam, Len(contenido[a])) :
       contenido'[a][k] = contenido[a][k]

\* Some bytes of the write w are in its file and nothing else has changed.
Escrita(w, k) == contenido'[w.archivo][k] = w.datos[k - w.offset]
Escribir(w) ==
  /\ Solo(w.archivo) /\ Len(contenido'[w.archivo]) = Len(contenido[w.archivo])
  /\ \A k \in DOMAIN contenido[w.archivo] :
       \/ contenido'[w.archivo][k] = contenido[w.archivo][k]
       \/ k - w.offset \in DOMAIN w.datos /\ Escrita(w, k)

Init == contenido = <<>> /\ escritura = {} /\ contestada = FALSE

Crear ==
  /\ escritura = {}
  /\ \E a \in Archivos \ DOMAIN contenido :
       /\ DOMAIN contenido' = DOMAIN contenido \cup {a} /\ contenido'[a] = <<>>
       /\ \A otro \in DOMAIN contenido : contenido'[otro] = contenido[otro]
  /\ UNCHANGED escritura /\ ~ contestada'

Borrar ==
  /\ escritura = {}
  /\ \E a \in DOMAIN contenido :
       contenido' = [otro \in DOMAIN contenido \ {a} |-> contenido[otro]]
  /\ UNCHANGED escritura /\ ~ contestada'

Truncar ==
  /\ escritura = {}
  /\ \E a \in DOMAIN contenido : Redimensionar(a, Len(contenido'[a]))
  /\ UNCHANGED escritura /\ ~ contestada'

Aceptar ==
  /\ escritura = {}
  /\ \E w \in escritura' :
       /\ escritura' = {w} /\ w.archivo \in DOMAIN contenido
       /\ Redimensionar(w.archivo, Mayor(Len(contenido[w.archivo]),
                                         w.offset + Len(w.datos)))
  /\ ~ contestada'

Avanzar ==
  /\ \E w \in escritura : Escribir(w)
  /\ UNCHANGED escritura /\ ~ contestada'

Contestar ==
  /\ \E w \in escritura :
       Escribir(w) /\ \A k \in DOMAIN w.datos : Escrita(w, w.offset + k)
  /\ escritura' = {} /\ contestada'

\* The server dies, or answers something else.
Caer == escritura' = {} /\ UNCHANGED contenido /\ ~ contestada'

Next == Crear \/ Borrar \/ Truncar \/ Aceptar \/ Avanzar \/ Contestar \/ Caer
Spec == Init /\ [][Next]_<<contenido, escritura, contestada>>
=============================================================================
