--------------------------- MODULE SACNodos_proofs --------------------------
(***************************************************************************)
(* Proofs about SACNodos, for any disk, names and bounds.                   *)
(***************************************************************************)
EXTENDS SACNodos, FiniteSetTheorems, WellFoundedInduction, TLAPS

-----------------------------------------------------------------------------
(* Searches *)

\* A set of node numbers that is not empty has a least one.
LEMMA MenorEsElMenor ==
  ASSUME NEW S \in SUBSET Nat, S # {}
  PROVE  Menor(S) \in S /\ \A j \in S : Menor(S) <= j
<1> DEFINE R == {ss \in Nat \X Nat : ss[1] < ss[2]}
<1>1. OpToRel(<, Nat) = R
  BY DEF OpToRel
<1>2. IsWellFoundedOn(R, Nat)
  BY <1>1, NatLessThanWellFounded
<1>3. PICK m \in S : \A j \in S : ~ (<<j, m>> \in R)
  <2> HIDE DEF R
  <2> QED
    BY <1>2, WFMin
<1>4. \A j \in S : m <= j
  <2>1. \A x, y \in Nat : <<x, y>> \in R <=> x < y
    OBVIOUS
  <2>2. \A j \in S : ~ (j < m)
    <3> HIDE DEF R
    <3> QED
      BY <1>3, <2>1
  <2>3. QED
    BY <2>2
<1>5. QED
  BY <1>4 DEF Menor

\* The paths of a request are sequences of names, and so are their padres.
LEMMA CaminoEsSecuencia ==
  ASSUME NEW k \in Caminos \ {<<>>}
  PROVE  /\ k \in Seq(Nombres) /\ Len(k) \in Nat \ {0}
         /\ cortarPathPadre(k) \in Seq(Nombres)
         /\ Ultimo(k) \in Nombres
<1>1. PICK l \in 0..Profundidad : k \in [1..l -> Nombres]
  BY DEF Caminos
<1>2. l \in Nat
  BY ConstantesSAC DEF ConstantesSAC
<1>3. k \in Seq(Nombres) /\ Len(k) = l
  BY <1>1, <1>2
<1>4. l # 0
  BY <1>3
<1>5. QED
  BY <1>2, <1>3, <1>4 DEF cortarPathPadre, Ultimo

\* The search of a path gives a node, or ERROR.
LEMMA ExisteTipo ==
  ASSUME NEW k \in Seq(Nombres)
  PROVE  /\ existeArchivo(k) \in Nodos \cup {ERROR}
         /\ k # <<>> /\ existeArchivo(k) # ERROR =>
              existeArchivo(k) \in Resuelven(k)
         /\ k # <<>> => Resuelven(k) \in SUBSET Nodos
<1>1. 0 \in Nodos /\ Nodos \in SUBSET Nat
  BY ConstantesSAC DEF ConstantesSAC, Nodos
<1>2. CASE k = <<>>
  BY <1>1, <1>2 DEF existeArchivo, RAIZ
<1>3. CASE k # <<>>
  <2>1. Len(k) \in DOMAIN k
    BY <1>3
  <2>2. Resuelven(k) \in SUBSET Nodos
    BY <2>1 DEF Resuelven
  <2>3. Resuelven(k) # {} => Menor(Resuelven(k)) \in Resuelven(k)
    BY <1>1, <2>2, MenorEsElMenor
  <2>4. QED
    BY <1>3, <2>2, <2>3 DEF existeArchivo
<1>4. QED
  BY <1>2, <1>3

-----------------------------------------------------------------------------
(* Type correctness *)

LEMMA VacioTipo ==
  /\ NodoVacio \in Nodo /\ SegunTamanio(NodoVacio)
  /\ NodoRaiz \in Nodo /\ SegunTamanio(NodoRaiz)
  /\ RAIZ \in Nodos
<1>1. 0 \in Nodos /\ 0 \in Tamanios
  BY ConstantesSAC DEF ConstantesSAC, Nodos, Tamanios
<1>2. NodoVacio \in Nodo
  BY <1>1 DEF NodoVacio, Nodo, RAIZ
<1>3. NodoRaiz \in Nodo
  BY <1>2 DEF NodoRaiz, NodoVacio, Nodo
<1>4. \A i \in Indices : ~ (i < 0)
  BY DEF Indices
<1>5. SegunTamanio(NodoVacio)
  BY <1>4 DEF NodoVacio, SegunTamanio
<1>6. SegunTamanio(NodoRaiz)
  BY <1>4 DEF NodoRaiz, NodoVacio, SegunTamanio
<1>7. QED
  BY <1>1, <1>2, <1>3, <1>5, <1>6 DEF RAIZ

LEMMA TypeInicial == Init => TypeOK
<1> SUFFICES ASSUME Init PROVE TypeOK
  OBVIOUS
<1>1. \A n \in Nodos : nodo[n] \in Nodo /\ SegunTamanio(nodo[n])
  <2> TAKE n \in Nodos
  <2>1. nodo[n] = NodoRaiz \/ nodo[n] = NodoVacio
    BY DEF Init
  <2>2. QED
    BY <2>1, VacioTipo
<1>2. nodo \in [Nodos -> Nodo]
  BY <1>1 DEF Init
<1>3. caidas \in 0..MaxCaidas
  BY ConstantesSAC DEF ConstantesSAC, Init
<1>4. QED
  BY <1>1, <1>2, <1>3, VacioTipo DEF Init, TypeOK

\* What a request in progress must be for the state to be well formed.
LEMMA TypePersistir ==
  ASSUME TypeOK, NEW c \in Clientes, NEW bs \in SUBSET Bloques,
         NEW valor \in BOOLEAN, NEW n \in Nodos, NEW r \in Nodo,
         SegunTamanio(r), Persistir(c, bs, valor, n, r)
  PROVE  TypeOK'
BY DEF TypeOK, Persistir, SegunTamanio

LEMMA TypeResponder ==
  ASSUME TypeOK, NEW c \in Clientes, Responder(c)
  PROVE  TypeOK'
BY DEF TypeOK, Responder, pedVars, SegunTamanio

LEMMA TypeCaer ==
  ASSUME TypeOK, Caer
  PROVE  TypeOK'
<1>1. TypeOK
  OBVIOUS
<1>2. caidas' \in 0..MaxCaidas
  BY ConstantesSAC DEF ConstantesSAC, TypeOK, Caer
<1>3. imagen' \in Nodo /\ SegunTamanio(imagen)' /\ destino' \in Nodos
  BY VacioTipo DEF Caer, SegunTamanio
<1>4. interrumpido' \in BOOLEAN
  BY DEF Caer, TypeOK
<1>5. QED
  BY <1>2, <1>3, <1>4 DEF TypeOK, Caer, SegunTamanio

\* The path of a request resolves to a node or to ERROR.
LEMMA ExisteEnNodos ==
  ASSUME NEW k \in Caminos, existeArchivo(k) # ERROR
  PROVE  existeArchivo(k) \in Nodos
<1>1. CASE k = <<>>
  BY <1>1, VacioTipo DEF existeArchivo
<1>2. CASE k # <<>>
  BY <1>2, CaminoEsSecuencia, ExisteTipo
<1>3. QED
  BY <1>1, <1>2

LEMMA PadreTipo ==
  ASSUME NEW k \in Caminos \ {<<>>}
  PROVE  existeArchivo(cortarPathPadre(k)) \in Nodos \cup {ERROR}
BY CaminoEsSecuencia, ExisteTipo

\* A free node is one of the table.
LEMMA LibreTipo ==
  ASSUME NodosLibres # {}
  PROVE  Menor(NodosLibres) \in NodosLibres /\ NodosLibres \in SUBSET Nodos
<1>1. NodosLibres \in SUBSET Nodos /\ Nodos \in SUBSET Nat
  BY ConstantesSAC DEF ConstantesSAC, NodosLibres, Nodos
<1>2. QED
  BY <1>1, MenorEsElMenor

LEMMA TypeCrear ==
  ASSUME TypeOK, NEW c \in Clientes, NEW k \in Caminos \ {<<>>},
         NEW e \in {"OCUPADO", "DIRECTORIO"},
         crearNodoDirectorioArchivo(c, k, e)
  PROVE  TypeOK'
<1> DEFINE r == [NodoVacio EXCEPT !.estado = e, !.nombre = Ultimo(k),
                                  !.padre = existeArchivo(cortarPathPadre(k))]
<1>1. CASE Responder(c)
  BY <1>1, TypeResponder
<1>2. CASE NodosLibres # {} /\ Persistir(c, {}, FALSE, Menor(NodosLibres), r)
  <2>1. Menor(NodosLibres) \in Nodos
    BY <1>2, LibreTipo
  <2>2. r \in Nodo
    BY VacioTipo, PadreTipo, CaminoEsSecuencia DEF Nodo, NodoVacio
  <2>3. SegunTamanio(r)
    BY VacioTipo DEF SegunTamanio, NodoVacio
  <2>4. QED
    BY <1>2, <2>1, <2>2, <2>3, TypePersistir
<1>3. QED
  BY <1>1, <1>2 DEF crearNodoDirectorioArchivo

LEMMA TypeEliminar ==
  ASSUME TypeOK, NEW c \in Clientes, NEW k \in Caminos, NEW d \in BOOLEAN,
         eliminarDirectorioArchivo(c, k, d)
  PROVE  TypeOK'
<1>1. CASE Responder(c)
  BY <1>1, TypeResponder
<1>2. CASE /\ existeArchivo(k) # ERROR
           /\ Persistir(c, IF d THEN {} ELSE Apunta(existeArchivo(k)), FALSE,
                        existeArchivo(k), NodoVacio)
  <2>1. existeArchivo(k) \in Nodos
    BY <1>2, ExisteEnNodos
  <2>2. (IF d THEN {} ELSE Apunta(existeArchivo(k))) \in SUBSET Bloques
    BY <2>1 DEF TypeOK, Nodo, Apunta
  <2>3. QED
    BY <1>2, <2>1, <2>2, VacioTipo, TypePersistir
<1>3. QED
  BY <1>1, <1>2 DEF eliminarDirectorioArchivo

LEMMA TypeMover ==
  ASSUME TypeOK, NEW c \in Clientes, NEW k \in Caminos,
         NEW q \in Caminos \ {<<>>}, cambiarUbicacion(c, k, q)
  PROVE  TypeOK'
<1> DEFINE n == existeArchivo(k)
           r == [nodo[n] EXCEPT !.nombre = Ultimo(q),
                                !.padre = existeArchivo(cortarPathPadre(q))]
<1>1. CASE Responder(c)
  BY <1>1, TypeResponder
<1>2. CASE n # ERROR /\ Persistir(c, {}, FALSE, n, r)
  <2>1. n \in Nodos
    BY <1>2, ExisteEnNodos
  <2>2. nodo[n] \in Nodo /\ SegunTamanio(nodo[n])
    BY <2>1 DEF TypeOK
  <2>3. r \in Nodo
    BY <2>2, PadreTipo, CaminoEsSecuencia DEF Nodo
  <2>4. SegunTamanio(r)
    BY <2>2 DEF SegunTamanio, Nodo
  <2>5. QED
    BY <1>2, <2>1, <2>3, <2>4, TypePersistir
<1>3. QED
  BY <1>1, <1>2 DEF cambiarUbicacion

LEMMA TypeAgrandar ==
  ASSUME TypeOK, NEW c \in Clientes, NEW n \in Nodos, NEW t \in Nat,
         t > nodo[n].tam, Agrandar(c, n, t)
  PROVE  TypeOK'
<1> DEFINE agregados == nodo[n].tam..t - 1
           r(f) == [nodo[n] EXCEPT
                      !.tam = t,
                      !.p = [i \in Indices |-> IF i \in agregados THEN f[i]
                                               ELSE nodo[n].p[i]]]
<1>1. CASE Responder(c)
  BY <1>1, TypeResponder
<1>2. CASE /\ t <= MaxPunteros
           /\ \E f \in [agregados -> Libres] :
                Persistir(c, {f[i] : i \in agregados}, TRUE, n, r(f))
  <2>1. PICK f \in [agregados -> Libres] :
               Persistir(c, {f[i] : i \in agregados}, TRUE, n, r(f))
    BY <1>2
  <2>2. nodo[n] \in Nodo /\ SegunTamanio(nodo[n])
    BY DEF TypeOK
  <2>3. Libres \in SUBSET Bloques /\ SinBloque \notin Libres
    BY ConstantesSAC DEF ConstantesSAC, Libres
  <2>4. {f[i] : i \in agregados} \in SUBSET Bloques
    BY <2>3
  <2>5. t \in Tamanios
    BY SMTT(30), <1>2, ConstantesSAC DEF ConstantesSAC, Tamanios
  <2>6. r(f) \in Nodo
    BY <2>2, <2>3, <2>5 DEF Nodo
  <2>7. SegunTamanio(r(f))
    <3>1. nodo[n].tam \in Nat /\ Indices \in SUBSET Nat
      BY <2>2 DEF Nodo, Tamanios, Indices
    <3>2. \A i \in Indices : i < t <=> i \in agregados \/ i < nodo[n].tam
      BY <3>1
    <3>3. \A i \in Indices : r(f).p[i] = IF i \in agregados THEN f[i] ELSE nodo[n].p[i]
      BY <2>2 DEF Nodo
    <3>4. r(f).tam = t
      BY <2>2 DEF Nodo
    <3>5. QED
      BY <2>2, <2>3, <3>2, <3>3, <3>4 DEF SegunTamanio
  <2>8. QED
    BY <2>1, <2>4, <2>6, <2>7, TypePersistir
<1>3. t <= MaxPunteros <=> ~ (t > MaxPunteros)
  BY ConstantesSAC DEF ConstantesSAC
<1>4. QED
  BY <1>1, <1>2, <1>3, Zenon DEF Agrandar

LEMMA TypeAchicar ==
  ASSUME TypeOK, NEW c \in Clientes, NEW n \in Nodos, NEW t \in Nat,
         t <= nodo[n].tam, Achicar(c, n, t)
  PROVE  TypeOK'
<1> DEFINE quitados == t..nodo[n].tam - 1
           bs == {nodo[n].p[i] : i \in quitados} \ {SinBloque}
           r == [nodo[n] EXCEPT
                   !.tam = t,
                   !.p = [i \in Indices |-> IF i \in quitados THEN SinBloque
                                            ELSE nodo[n].p[i]]]
<1>1. nodo[n] \in Nodo /\ SegunTamanio(nodo[n])
  BY DEF TypeOK
<1>2. nodo[n].tam \in Nat /\ nodo[n].tam <= MaxPunteros /\ t \in Tamanios
  BY <1>1, ConstantesSAC DEF ConstantesSAC, Nodo, Tamanios
<1>3. quitados \in SUBSET Indices
  BY <1>2, ConstantesSAC DEF ConstantesSAC, Indices
<1>4. bs \in SUBSET Bloques
  BY SMTT(30), <1>1, <1>3 DEF Nodo
<1>5. r \in Nodo
  BY <1>1, <1>2 DEF Nodo
<1>6. SegunTamanio(r)
  <2>1. \A i \in Indices : i < t <=> i < nodo[n].tam /\ i \notin quitados
    BY <1>2 DEF Indices
  <2>2. \A i \in Indices : r.p[i] = IF i \in quitados THEN SinBloque ELSE nodo[n].p[i]
    BY <1>1 DEF Nodo
  <2>3. r.tam = t
    BY <1>1 DEF Nodo
  <2>4. QED
    BY <1>1, <2>1, <2>2, <2>3 DEF SegunTamanio
<1>7. QED
  BY <1>4, <1>5, <1>6, TypePersistir DEF Achicar

LEMMA TypeTruncarInexistente ==
  ASSUME TypeOK, NEW c \in Clientes, TruncarInexistente(c)
  PROVE  TypeOK'
<1>1. CASE Caer
  BY <1>1, TypeCaer
<1>2. CASE \E B \in SUBSET Libres :
             /\ bitmap' = bitmap \cup B
             /\ pedido' = [pedido EXCEPT ![c] = Ninguno]
             /\ UNCHANGED <<nodo, pedVars, caidas, interrumpido>>
  BY <1>2 DEF TypeOK, Libres, pedVars, SegunTamanio
<1>3. QED
  BY <1>1, <1>2 DEF TruncarInexistente

\* What TypeOK says of a request that is being attended.
LEMMA PedidoTipo ==
  ASSUME TypeOK, NEW c \in Clientes, pedido[c].op # "ninguna"
  PROVE  /\ pedido[c].camino \in Caminos \ {<<>>}
         /\ pedido[c].tam \in Nat
         /\ pedido[c].op = "move" => pedido[c].nuevo \in Caminos \ {<<>>}
<1>1. pedido[c] \in Pedidos
  BY DEF TypeOK, Ninguno
<1>2. QED
  BY <1>1 DEF Pedidos

LEMMA TypeAtender ==
  ASSUME TypeOK, NEW c \in Clientes, Atender(c)
  PROVE  TypeOK'
<1> DEFINE op == pedido[c].op
           k == pedido[c].camino
           n == existeArchivo(k)
           t == pedido[c].tam
<1>1. op # "ninguna"
  BY DEF Atender
<1>2. /\ k \in Caminos \ {<<>>} /\ t \in Nat
      /\ op = "move" => pedido[c].nuevo \in Caminos \ {<<>>}
      /\ n # ERROR => n \in Nodos
  BY <1>1, PedidoTipo, ExisteEnNodos
<1>3. CASE op = "mkdir" /\ crearNodoDirectorioArchivo(c, k, "DIRECTORIO")
  BY <1>2, <1>3, TypeCrear
<1>4. CASE op = "create" /\ crearNodoDirectorioArchivo(c, k, "OCUPADO")
  BY <1>2, <1>4, TypeCrear
<1>5. CASE op = "rmdir" /\ eliminarDirectorioArchivo(c, k, TRUE)
  BY <1>2, <1>5, TypeEliminar
<1>6. CASE op = "unlink" /\ eliminarDirectorioArchivo(c, k, FALSE)
  BY <1>2, <1>6, TypeEliminar
<1>7. CASE op = "move" /\ cambiarUbicacion(c, k, pedido[c].nuevo)
  BY <1>2, <1>7, TypeMover
<1>8. CASE op = "truncate" /\ cambiarTamanioArchivo(c, k, t)
  BY <1>2, <1>8, TypeTruncarInexistente, TypeAgrandar, TypeAchicar
     DEF cambiarTamanioArchivo
<1>9. CASE op = "write" /\ escribirArchivo(c, k, t)
  BY <1>2, <1>9, TypeResponder, TypeAgrandar DEF escribirArchivo
<1>10. CASE op = "utimes" /\ modificarFechas(c, k)
  <2>1. n # ERROR => nodo[n] \in Nodo /\ SegunTamanio(nodo[n])
    BY <1>2 DEF TypeOK
  <2>2. QED
    BY <1>2, <1>10, <2>1, TypeResponder, TypePersistir DEF modificarFechas
<1>11. QED
  BY <1>3, <1>4, <1>5, <1>6, <1>7, <1>8, <1>9, <1>10 DEF Atender

LEMMA TypePersistirBitmap ==
  ASSUME TypeOK, persistirBitmap
  PROVE  TypeOK'
BY DEF TypeOK, persistirBitmap, SegunTamanio

LEMMA TypePersistirNodo ==
  ASSUME TypeOK, persistirNodo
  PROVE  TypeOK'
<1>1. nodo' \in [Nodos -> Nodo] /\ \A m \in Nodos : SegunTamanio(nodo[m])'
  BY DEF TypeOK, persistirNodo, SegunTamanio
<1>2. imagen' \in Nodo /\ SegunTamanio(imagen)' /\ destino' \in Nodos
  BY VacioTipo DEF persistirNodo, SegunTamanio
<1>3. pedido' \in [Clientes -> Pedidos \cup {Ninguno}]
  BY DEF TypeOK, persistirNodo
<1>4. QED
  BY <1>1, <1>2, <1>3 DEF TypeOK, persistirNodo

LEMMA TypePedir ==
  ASSUME TypeOK, NEW c \in Clientes, Pedir(c)
  PROVE  TypeOK'
<1>1. pedido'[c] \in Pedidos /\ \A d \in Clientes \ {c} : pedido'[d] = pedido[d]
  <2>1. PICK op \in Operaciones, k \in Caminos \ {<<>>} :
          \E q \in IF op = "move" THEN Caminos \ {<<>>} ELSE {<<>>},
             t \in IF op \in {"truncate", "write"} THEN 0..MaxPunteros + 1 ELSE {0} :
            pedido' = [pedido EXCEPT ![c] = Pedido(op, k, q, t)]
    BY DEF Pedir
  <2>2. PICK q \in IF op = "move" THEN Caminos \ {<<>>} ELSE {<<>>},
             t \in IF op \in {"truncate", "write"} THEN 0..MaxPunteros + 1 ELSE {0} :
          pedido' = [pedido EXCEPT ![c] = Pedido(op, k, q, t)]
    BY <2>1
  <2>3. t \in 0..MaxPunteros + 1 /\ q \in Caminos /\ (op = "move" => q # <<>>)
    <3>1. <<>> \in Caminos
      BY ConstantesSAC DEF ConstantesSAC, Caminos
    <3>2. QED
      BY <3>1, ConstantesSAC DEF ConstantesSAC
  <2>4. Pedido(op, k, q, t) \in Pedidos
    BY <2>3 DEF Pedido, Pedidos
  <2>5. QED
    BY <2>2, <2>4 DEF TypeOK
<1>2. QED
  BY <1>1 DEF TypeOK, Pedir, pedVars, SegunTamanio

LEMMA TypePaso ==
  ASSUME TypeOK, [Next]_vars
  PROVE  TypeOK'
<1>1. CASE UNCHANGED vars
  BY <1>1 DEF TypeOK, vars, SegunTamanio
<1>2. QED
  BY <1>1, TypePedir, TypeAtender, TypePersistirBitmap, TypePersistirNodo,
     TypeCaer DEF Next

\* The node table, the bitmap and the request in progress are well formed.
THEOREM DiscoBienFormado == Spec => []TypeOK
<1>1. Init => TypeOK
  BY TypeInicial
<1>2. TypeOK /\ [Next]_vars => TypeOK'
  BY TypePaso
<1>3. QED
  BY <1>1, <1>2, PTL DEF Spec

-----------------------------------------------------------------------------
(* Blocks *)

\* The pointers of node r that are not NULL are all different.
Distintos(r) ==
  \A i, j \in Indices : r.p[i] = r.p[j] /\ r.p[i] # SinBloque => i = j

\* No block is in two nodes.
NodosDisjuntos == \A n, m \in Nodos : n # m => Apunta(n) \cap Apunta(m) = {}

\* The request in progress is clearing bits.
Liberando == atendido # Nadie /\ ~ marcar

\* What the request in progress will persist.  While it takes blocks, each of
\* them is one that no node has; while it frees them, what the node keeps is
\* not among what it frees.
ImagenSana ==
  /\ Distintos(imagen)
  /\ marcar => \A i \in Indices :
       imagen.p[i] = nodo[destino].p[i]
         \/ (imagen.p[i] \notin Apuntados /\ imagen.p[i] \in pendientes \cup bitmap)
  /\ ~ marcar =>
       /\ pendientes \subseteq Apunta(destino)
       /\ \A i \in Indices : imagen.p[i] # SinBloque =>
            /\ imagen.p[i] = nodo[destino].p[i]
            /\ imagen.p[i] \in bitmap \ pendientes

\* BloquesExclusivos and BloquesMarcados, strengthened to be inductive.
BloquesSanos ==
  ~ interrumpido =>
    /\ \A n \in Nodos : Distintos(nodo[n])
    /\ NodosDisjuntos
    /\ \A n \in Nodos : Apunta(n) \subseteq bitmap \/ (Liberando /\ n = destino)
    /\ atendido # Nadie => ImagenSana

\* The blocks of a node, one pointer at a time.
LEMMA ApuntaPunteros ==
  ASSUME TypeOK, NEW n \in Nodos
  PROVE  /\ Apunta(n) \in SUBSET Bloques
         /\ \A i \in Indices : nodo[n].p[i] # SinBloque =>
              nodo[n].p[i] \in Apunta(n) /\ nodo[n].p[i] \in Apuntados
         /\ \A b \in Apunta(n) : \E i \in Indices : b = nodo[n].p[i]
         /\ SinBloque \notin Apunta(n)
         /\ Apunta(n) \subseteq Apuntados
BY DEF TypeOK, Nodo, Apunta, Apuntados

\* A request that takes no block: it frees some of its node and keeps others.
LEMMA SanosLiberar ==
  ASSUME TypeOK, BloquesSanos, atendido = Nadie,
         NEW c \in Clientes, NEW n \in Nodos, NEW r, NEW bs \in SUBSET Apunta(n),
         \A i \in Indices : r.p[i] # SinBloque =>
           r.p[i] = nodo[n].p[i] /\ r.p[i] \notin bs,
         Persistir(c, bs, FALSE, n, r)
  PROVE  BloquesSanos'
<1> SUFFICES ASSUME ~ interrumpido
             PROVE  /\ \A m \in Nodos : Distintos(nodo[m])'
                    /\ NodosDisjuntos'
                    /\ \A m \in Nodos : (Apunta(m) \subseteq bitmap)'
                    /\ ImagenSana'
  BY DEF BloquesSanos, Persistir
<1>1. /\ \A m \in Nodos : Distintos(nodo[m]) /\ Apunta(m) \subseteq bitmap
      /\ NodosDisjuntos
  BY DEF BloquesSanos, Liberando
<1>2. nodo' = nodo /\ bitmap' = bitmap /\ destino' = n /\ imagen' = r
      /\ pendientes' = bs /\ marcar' = FALSE
  BY DEF Persistir
<1>3. Distintos(r)
  BY <1>1 DEF Distintos
<1>4. \A i \in Indices : r.p[i] # SinBloque => r.p[i] \in bitmap \ bs
  BY <1>1, ApuntaPunteros
<1>5. ImagenSana'
  BY <1>2, <1>3, <1>4 DEF ImagenSana, Distintos, Apunta
<1>6. QED
  BY SMTT(30), <1>1, <1>2, <1>5 DEF Distintos, NodosDisjuntos, Apunta

\* A request that takes blocks that no node has.
LEMMA SanosTomar ==
  ASSUME TypeOK, BloquesSanos, atendido = Nadie,
         NEW c \in Clientes, NEW n \in Nodos, NEW r, NEW bs \in SUBSET Libres,
         Distintos(r),
         \A i \in Indices : r.p[i] = nodo[n].p[i] \/ r.p[i] \in bs,
         Persistir(c, bs, TRUE, n, r)
  PROVE  BloquesSanos'
<1> SUFFICES ASSUME ~ interrumpido
             PROVE  /\ \A m \in Nodos : Distintos(nodo[m])'
                    /\ NodosDisjuntos'
                    /\ \A m \in Nodos : (Apunta(m) \subseteq bitmap)'
                    /\ ImagenSana'
  BY DEF BloquesSanos, Persistir
<1>1. /\ \A m \in Nodos : Distintos(nodo[m]) /\ Apunta(m) \subseteq bitmap
      /\ NodosDisjuntos
  BY DEF BloquesSanos, Liberando
<1>2. nodo' = nodo /\ bitmap' = bitmap /\ destino' = n /\ imagen' = r
      /\ pendientes' = bs /\ marcar' = TRUE
  BY DEF Persistir
<1>3. bs \cap Apuntados = {}
  BY <1>1 DEF Apuntados, Libres
<1>4. ImagenSana'
  BY <1>2, <1>3 DEF ImagenSana, Distintos, Apunta, Apuntados
<1>5. QED
  BY SMTT(30), <1>1, <1>2, <1>4 DEF Distintos, NodosDisjuntos, Apunta

LEMMA SanosIgual ==
  ASSUME BloquesSanos, UNCHANGED <<nodo, bitmap, pedVars, interrumpido>>
  PROVE  BloquesSanos'
BY SMTT(30) DEF BloquesSanos, pedVars, Distintos, NodosDisjuntos, Liberando,
       ImagenSana, Apunta, Apuntados

LEMMA SanosResponder ==
  ASSUME BloquesSanos, NEW c \in Clientes, Responder(c)
  PROVE  BloquesSanos'
BY SanosIgual DEF Responder

\* If the server dies and BloquesSanos still says something, it was not
\* clearing bits of a block that its node has.
LEMMA SanosCaer ==
  ASSUME TypeOK, BloquesSanos, Caer
  PROVE  BloquesSanos'
<1> SUFFICES ASSUME ~ interrumpido'
             PROVE  /\ \A n \in Nodos : Distintos(nodo[n])'
                    /\ NodosDisjuntos'
                    /\ \A n \in Nodos : (Apunta(n) \subseteq bitmap)'
                    /\ ~ (atendido # Nadie)'
  BY DEF BloquesSanos
<1>1. ~ interrumpido /\ (Liberando => Apunta(destino) \subseteq bitmap)
  BY DEF Caer, Liberando
<1>2. \A n \in Nodos : Apunta(n) \subseteq bitmap
  BY <1>1 DEF BloquesSanos
<1>3. QED
  BY SMTT(30), <1>1, <1>2 DEF BloquesSanos, Caer, Distintos, NodosDisjuntos, Apunta

LEMMA SanosCrear ==
  ASSUME TypeOK, BloquesSanos, atendido = Nadie, NEW c \in Clientes,
         NEW k \in Caminos \ {<<>>}, NEW e,
         crearNodoDirectorioArchivo(c, k, e)
  PROVE  BloquesSanos'
<1> DEFINE r == [NodoVacio EXCEPT !.estado = e, !.nombre = Ultimo(k),
                                  !.padre = existeArchivo(cortarPathPadre(k))]
<1>1. CASE Responder(c)
  BY <1>1, SanosResponder
<1>2. CASE NodosLibres # {} /\ Persistir(c, {}, FALSE, Menor(NodosLibres), r)
  <2>1. Menor(NodosLibres) \in Nodos
    BY <1>2, LibreTipo
  <2>2. \A i \in Indices : r.p[i] = SinBloque
    BY DEF NodoVacio
  <2>3. {} \in SUBSET Apunta(Menor(NodosLibres))
    OBVIOUS
  <2> HIDE DEF r
  <2>4. QED
    BY <1>2, <2>1, <2>2, <2>3, SanosLiberar
<1>3. QED
  BY <1>1, <1>2 DEF crearNodoDirectorioArchivo

LEMMA SanosEliminar ==
  ASSUME TypeOK, BloquesSanos, atendido = Nadie, NEW c \in Clientes,
         NEW k \in Caminos, NEW d \in BOOLEAN,
         eliminarDirectorioArchivo(c, k, d)
  PROVE  BloquesSanos'
<1> DEFINE n == existeArchivo(k)
           bs == IF d THEN {} ELSE Apunta(n)
<1>1. CASE Responder(c)
  BY <1>1, SanosResponder
<1>2. CASE n # ERROR /\ Persistir(c, bs, FALSE, n, NodoVacio)
  <2>1. n \in Nodos /\ bs \in SUBSET Apunta(n)
    BY <1>2, ExisteEnNodos
  <2>2. \A i \in Indices : NodoVacio.p[i] = SinBloque
    BY DEF NodoVacio
  <2>3. QED
    BY <1>2, <2>1, <2>2, SanosLiberar
<1>3. QED
  BY <1>1, <1>2 DEF eliminarDirectorioArchivo

LEMMA SanosMover ==
  ASSUME TypeOK, BloquesSanos, atendido = Nadie, NEW c \in Clientes,
         NEW k \in Caminos, NEW q, cambiarUbicacion(c, k, q)
  PROVE  BloquesSanos'
<1> DEFINE n == existeArchivo(k)
           r == [nodo[n] EXCEPT !.nombre = Ultimo(q),
                                !.padre = existeArchivo(cortarPathPadre(q))]
<1>1. CASE Responder(c)
  BY <1>1, SanosResponder
<1>2. CASE n # ERROR /\ Persistir(c, {}, FALSE, n, r)
  <2>1. n \in Nodos
    BY <1>2, ExisteEnNodos
  <2>2. \A i \in Indices : r.p[i] = nodo[n].p[i]
    BY <2>1 DEF TypeOK, Nodo
  <2>3. {} \in SUBSET Apunta(n)
    OBVIOUS
  <2> HIDE DEF n, r
  <2>4. QED
    BY <1>2, <2>1, <2>2, <2>3, SanosLiberar
<1>3. QED
  BY <1>1, <1>2 DEF cambiarUbicacion

LEMMA SanosAgrandar ==
  ASSUME TypeOK, BloquesSanos, atendido = Nadie, NEW c \in Clientes,
         NEW n \in Nodos, NEW t \in Nat, Agrandar(c, n, t)
  PROVE  BloquesSanos'
<1> DEFINE agregados == nodo[n].tam..t - 1
           bs(f) == {f[i] : i \in agregados}
           r(f) == [nodo[n] EXCEPT
                      !.tam = t,
                      !.p = [i \in Indices |-> IF i \in agregados THEN f[i]
                                               ELSE nodo[n].p[i]]]
<1>1. CASE Responder(c)
  BY <1>1, SanosResponder
<1>2. CASE \E f \in [agregados -> Libres] :
             /\ \A i, j \in agregados : f[i] = f[j] => i = j
             /\ Persistir(c, bs(f), TRUE, n, r(f))
  <2>1. PICK f \in [agregados -> Libres] :
               /\ \A i, j \in agregados : f[i] = f[j] => i = j
               /\ Persistir(c, bs(f), TRUE, n, r(f))
    BY <1>2
  <2>2. \A i \in Indices :
          r(f).p[i] = IF i \in agregados THEN f[i] ELSE nodo[n].p[i]
    BY DEF TypeOK, Nodo
  <2>3. bs(f) \in SUBSET Libres
    BY <2>1
  <2>4. \A i \in Indices : r(f).p[i] = nodo[n].p[i] \/ r(f).p[i] \in bs(f)
    BY <2>2
  <2>5. CASE interrumpido
    BY <2>1, <2>5 DEF BloquesSanos, Persistir
  <2>6. CASE ~ interrumpido
    <3>1. Distintos(nodo[n]) /\ Apunta(n) \subseteq bitmap
      BY <2>6 DEF BloquesSanos, Liberando
    <3>2. \A i \in Indices, j \in agregados : nodo[n].p[i] # f[j]
      <4> TAKE i \in Indices, j \in agregados
      <4>1. f[j] \in Libres /\ SinBloque \notin Libres
        BY ConstantesSAC DEF ConstantesSAC, Libres
      <4>2. QED
        BY <3>1, <4>1, ApuntaPunteros DEF Libres
    <3>3. Distintos(r(f))
      BY <2>1, <2>2, <3>1, <3>2 DEF Distintos
    <3>4. QED
      BY <2>1, <2>3, <2>4, <3>3, SanosTomar
  <2>7. QED
    BY SMTT(30), <2>5, <2>6
<1>3. QED
  BY <1>1, <1>2, Zenon DEF Agrandar

LEMMA SanosAchicar ==
  ASSUME TypeOK, BloquesSanos, atendido = Nadie, NEW c \in Clientes,
         NEW n \in Nodos, NEW t \in Nat, t <= nodo[n].tam, Achicar(c, n, t)
  PROVE  BloquesSanos'
<1> DEFINE quitados == t..nodo[n].tam - 1
           bs == {nodo[n].p[i] : i \in quitados} \ {SinBloque}
           r == [nodo[n] EXCEPT
                   !.tam = t,
                   !.p = [i \in Indices |-> IF i \in quitados THEN SinBloque
                                            ELSE nodo[n].p[i]]]
<1>1. Persistir(c, bs, FALSE, n, r)
  BY DEF Achicar
<1>2. CASE interrumpido
  BY <1>1, <1>2 DEF BloquesSanos, Persistir
<1>3. CASE ~ interrumpido
  <2>1. quitados \in SUBSET Indices
    <3>1. nodo[n].tam \in Nat /\ nodo[n].tam <= MaxPunteros
      BY ConstantesSAC DEF ConstantesSAC, TypeOK, Nodo, Tamanios
    <3>2. QED
      BY <3>1, ConstantesSAC DEF ConstantesSAC, Indices
  <2>2. bs \in SUBSET Apunta(n)
    BY <2>1 DEF Apunta
  <2>3. \A i \in Indices :
          r.p[i] = IF i \in quitados THEN SinBloque ELSE nodo[n].p[i]
    BY DEF TypeOK, Nodo
  <2>4. Distintos(nodo[n])
    BY <1>3 DEF BloquesSanos
  <2>5. \A i \in Indices : r.p[i] # SinBloque =>
          r.p[i] = nodo[n].p[i] /\ r.p[i] \notin bs
    BY <2>1, <2>3, <2>4 DEF Distintos
  <2> HIDE DEF bs, r
  <2>6. QED
    BY <1>1, <2>2, <2>5, SanosLiberar
<1>4. QED
  BY <1>2, <1>3

LEMMA SanosTruncarInexistente ==
  ASSUME TypeOK, BloquesSanos, atendido = Nadie, NEW c \in Clientes,
         TruncarInexistente(c)
  PROVE  BloquesSanos'
<1>1. CASE Caer
  BY <1>1, SanosCaer
<1>2. CASE \E B \in SUBSET Libres :
             /\ bitmap' = bitmap \cup B
             /\ pedido' = [pedido EXCEPT ![c] = Ninguno]
             /\ UNCHANGED <<nodo, pedVars, caidas, interrumpido>>
  <2>1. /\ nodo' = nodo /\ atendido' = Nadie /\ interrumpido' = interrumpido
        /\ bitmap \subseteq bitmap'
    BY <1>2 DEF pedVars
  <2>2. QED
    BY SMTT(30), <2>1 DEF BloquesSanos, Distintos, NodosDisjuntos, Liberando, Apunta
<1>3. QED
  BY <1>1, <1>2 DEF TruncarInexistente

LEMMA SanosAtender ==
  ASSUME TypeOK, BloquesSanos, NEW c \in Clientes, Atender(c)
  PROVE  BloquesSanos'
<1> DEFINE op == pedido[c].op
           k == pedido[c].camino
           n == existeArchivo(k)
           t == pedido[c].tam
<1>1. op # "ninguna" /\ atendido = Nadie
  BY DEF Atender
<1>2. /\ k \in Caminos \ {<<>>} /\ t \in Nat
      /\ op = "move" => pedido[c].nuevo \in Caminos \ {<<>>}
      /\ n # ERROR => n \in Nodos
  BY <1>1, PedidoTipo, ExisteEnNodos
<1>3. CASE op = "mkdir" /\ crearNodoDirectorioArchivo(c, k, "DIRECTORIO")
  BY <1>1, <1>2, <1>3, SanosCrear
<1>4. CASE op = "create" /\ crearNodoDirectorioArchivo(c, k, "OCUPADO")
  BY <1>1, <1>2, <1>4, SanosCrear
<1>5. CASE op = "rmdir" /\ eliminarDirectorioArchivo(c, k, TRUE)
  BY <1>1, <1>2, <1>5, SanosEliminar
<1>6. CASE op = "unlink" /\ eliminarDirectorioArchivo(c, k, FALSE)
  BY <1>1, <1>2, <1>6, SanosEliminar
<1>7. CASE op = "move" /\ cambiarUbicacion(c, k, pedido[c].nuevo)
  BY <1>1, <1>2, <1>7, SanosMover
<1>8. CASE op = "truncate" /\ cambiarTamanioArchivo(c, k, t)
  BY <1>1, <1>2, <1>8, SanosTruncarInexistente, SanosAgrandar, SanosAchicar
     DEF cambiarTamanioArchivo
<1>9. CASE op = "write" /\ escribirArchivo(c, k, t)
  BY <1>1, <1>2, <1>9, SanosResponder, SanosAgrandar DEF escribirArchivo
<1>10. CASE op = "utimes" /\ modificarFechas(c, k)
  <2>1. {} \in SUBSET Apunta(n)
    OBVIOUS
  <2> HIDE DEF n
  <2>2. n # ERROR /\ Persistir(c, {}, FALSE, n, nodo[n]) => BloquesSanos'
    BY <1>1, <1>2, <2>1, SanosLiberar
  <2>3. QED
    BY <1>10, <2>2, SanosResponder DEF modificarFechas, n
<1>11. QED
  BY <1>3, <1>4, <1>5, <1>6, <1>7, <1>8, <1>9, <1>10 DEF Atender

\* A bit that is cleared is of a block of the node that is being persisted,
\* so no other node has it, nor is it among what that node keeps.
LEMMA SanosPersistirBitmap ==
  ASSUME TypeOK, BloquesSanos, persistirBitmap
  PROVE  BloquesSanos'
<1> SUFFICES ASSUME ~ interrumpido PROVE BloquesSanos'
  BY DEF BloquesSanos, persistirBitmap
<1>1. PICK b \in pendientes :
        /\ bitmap' = IF marcar THEN bitmap \cup {b} ELSE bitmap \ {b}
        /\ pendientes' = pendientes \ {b}
  BY DEF persistirBitmap
<1>2. /\ nodo' = nodo /\ atendido' = atendido /\ marcar' = marcar
      /\ destino' = destino /\ imagen' = imagen /\ atendido # Nadie
  BY DEF persistirBitmap
<1>3. ImagenSana /\ destino \in Nodos
  BY <1>2 DEF BloquesSanos, TypeOK
<1>4. ImagenSana'
  BY <1>1, <1>2, <1>3 DEF ImagenSana, Distintos, Apunta, Apuntados
<1>5. \A n \in Nodos : (Apunta(n) \subseteq bitmap \/ (Liberando /\ n = destino))'
  <2> TAKE n \in Nodos
  <2>1. Apunta(n)' = Apunta(n) /\ (Liberando' <=> ~ marcar)
    BY <1>2 DEF Apunta, Liberando
  <2>2. CASE marcar
    BY <1>1, <2>1, <2>2 DEF BloquesSanos, Liberando
  <2>3. CASE ~ marcar /\ n # destino
    <3>1. b \in Apunta(destino)
      BY <1>1, <1>3, <2>3 DEF ImagenSana
    <3>2. b \notin Apunta(n)
      BY <1>3, <2>3, <3>1 DEF BloquesSanos, NodosDisjuntos
    <3>3. QED
      BY <1>1, <2>1, <2>3, <3>2 DEF BloquesSanos
  <2>4. CASE ~ marcar /\ n = destino
    BY <1>2, <2>1, <2>4
  <2>5. QED
    BY <2>2, <2>3, <2>4
<1>6. (\A n \in Nodos : Distintos(nodo[n]))' /\ NodosDisjuntos'
  BY <1>2 DEF BloquesSanos, Distintos, NodosDisjuntos, Apunta
<1>7. QED
  BY <1>4, <1>5, <1>6 DEF BloquesSanos

\* What is persisted has blocks of its own, and their bits are set.
LEMMA SanosPersistirNodo ==
  ASSUME TypeOK, BloquesSanos, persistirNodo
  PROVE  BloquesSanos'
<1> SUFFICES ASSUME ~ interrumpido PROVE BloquesSanos'
  BY DEF BloquesSanos, persistirNodo
<1> DEFINE De(r) == {r.p[i] : i \in Indices} \ {SinBloque}
<1>1. /\ atendido # Nadie /\ pendientes = {} /\ destino \in Nodos
      /\ atendido' = Nadie /\ bitmap' = bitmap
      /\ \A n \in Nodos : nodo'[n] = IF n = destino THEN imagen ELSE nodo[n]
  BY DEF persistirNodo, TypeOK
<1>2. ImagenSana
  BY <1>1 DEF BloquesSanos
<1>3. \A n \in Nodos : Distintos(nodo[n])'
  BY <1>1, <1>2 DEF BloquesSanos, ImagenSana, Distintos
<1>4. \A n \in Nodos :
        Apunta(n)' = (IF n = destino THEN De(imagen) ELSE Apunta(n))
  BY <1>1 DEF Apunta
<1>5. De(imagen) \subseteq bitmap
  <2> SUFFICES ASSUME NEW i \in Indices, imagen.p[i] # SinBloque
               PROVE  imagen.p[i] \in bitmap
    OBVIOUS
  <2>1. CASE marcar
    <3>1. Apunta(destino) \subseteq bitmap
      BY <1>1, <2>1 DEF BloquesSanos, Liberando
    <3>2. QED
      BY <1>1, <1>2, <2>1, <3>1, ApuntaPunteros DEF ImagenSana
  <2>2. CASE ~ marcar
    BY <1>2, <2>2 DEF ImagenSana
  <2>3. QED
    BY <2>1, <2>2
<1>6. \A n \in Nodos \ {destino} : De(imagen) \cap Apunta(n) = {}
  <2> SUFFICES ASSUME NEW n \in Nodos \ {destino}, NEW i \in Indices,
                      imagen.p[i] # SinBloque
               PROVE  imagen.p[i] \notin Apunta(n)
    OBVIOUS
  <2>1. imagen.p[i] = nodo[destino].p[i] \/ imagen.p[i] \notin Apuntados
    BY <1>2 DEF ImagenSana
  <2>2. imagen.p[i] = nodo[destino].p[i] => imagen.p[i] \in Apunta(destino)
    BY <1>1, ApuntaPunteros
  <2>3. Apunta(destino) \cap Apunta(n) = {} /\ Apunta(n) \subseteq Apuntados
    BY <1>1, ApuntaPunteros DEF BloquesSanos, NodosDisjuntos
  <2>4. QED
    BY <2>1, <2>2, <2>3
<1>7. NodosDisjuntos'
  <2> HIDE DEF De
  <2> SUFFICES ASSUME NEW n \in Nodos, NEW m \in Nodos, n # m
               PROVE  Apunta(n)' \cap Apunta(m)' = {}
    BY DEF NodosDisjuntos
  <2>1. Apunta(n) \cap Apunta(m) = {}
    BY DEF BloquesSanos, NodosDisjuntos
  <2>2. QED
    BY <1>1, <1>4, <1>6, <2>1
<1>8. \A n \in Nodos : (Apunta(n) \subseteq bitmap)'
  <2>1. \A n \in Nodos \ {destino} : Apunta(n) \subseteq bitmap
    BY DEF BloquesSanos
  <2> HIDE DEF De
  <2>2. QED
    BY <1>1, <1>4, <1>5, <2>1
<1>9. QED
  BY <1>1, <1>3, <1>7, <1>8 DEF BloquesSanos

LEMMA SanosPaso ==
  ASSUME TypeOK, BloquesSanos, [Next]_vars
  PROVE  BloquesSanos'
<1>1. CASE UNCHANGED vars
  BY <1>1, SanosIgual DEF vars, pedVars
<1>2. ASSUME NEW c \in Clientes, Pedir(c) PROVE BloquesSanos'
  BY <1>2, SanosIgual DEF Pedir
<1>3. QED
  BY <1>1, <1>2, SanosAtender, SanosPersistirBitmap, SanosPersistirNodo,
     SanosCaer DEF Next

LEMMA SanosInicial == Init => BloquesSanos
<1> SUFFICES ASSUME Init PROVE BloquesSanos
  OBVIOUS
<1>1. \A n \in Nodos : \A i \in Indices : nodo[n].p[i] = SinBloque
  BY DEF Init, NodoRaiz, NodoVacio
<1>2. \A n \in Nodos : Apunta(n) = {} /\ Distintos(nodo[n])
  BY <1>1 DEF Apunta, Distintos
<1>3. QED
  BY <1>2 DEF Init, BloquesSanos, NodosDisjuntos

THEOREM BloquesSanosSiempre == Spec => [](TypeOK /\ BloquesSanos)
<1>1. Init => TypeOK /\ BloquesSanos
  BY TypeInicial, SanosInicial
<1>2. TypeOK /\ BloquesSanos /\ [Next]_vars => (TypeOK /\ BloquesSanos)'
  BY TypePaso, SanosPaso
<1>3. QED
  BY <1>1, <1>2, PTL DEF Spec

\* No block is in two places of the node table, with any number of clients,
\* requests and deaths of the server, unless one died while it freed blocks.
THEOREM BloquesDeUno == Spec => []BloquesExclusivos
<1>1. TypeOK /\ BloquesSanos => BloquesExclusivos
  <2> SUFFICES ASSUME TypeOK, BloquesSanos, ~ interrumpido,
                      NEW n \in Nodos, NEW m \in Nodos,
                      NEW i \in Indices, NEW j \in Indices,
                      nodo[n].p[i] = nodo[m].p[j], nodo[n].p[i] # SinBloque
               PROVE  n = m /\ i = j
    BY DEF BloquesExclusivos
  <2>1. nodo[n].p[i] \in Apunta(n) \cap Apunta(m)
    BY ApuntaPunteros
  <2>2. n = m
    BY <2>1 DEF BloquesSanos, NodosDisjuntos
  <2>3. QED
    BY <2>2 DEF BloquesSanos, Distintos
<1>2. QED
  BY <1>1, BloquesSanosSiempre, PTL

\* Between requests, the blocks in use have their bit set, with the same
\* exception: the next file that grows takes none of them.
THEOREM BloquesEnElBitmap == Spec => []BloquesMarcados
<1>1. TypeOK /\ BloquesSanos => BloquesMarcados
  BY DEF BloquesSanos, BloquesMarcados, Liberando, Apuntados
<1>2. QED
  BY <1>1, BloquesSanosSiempre, PTL

-----------------------------------------------------------------------------
(* Blocks lost *)

\* The blocks a node would have, and a node without any unless it is a file.
De(r) == {r.p[i] : i \in Indices} \ {SinBloque}
SinArchivo(r) == r.estado # "OCUPADO" => r.tam = 0

\* The other nodes' blocks, while a request will persist one.
DeOtros == UNION {Apunta(n) : n \in Nodos \ {destino}}

\* What getattr found, of all it looks at, that matters to the blocks.
Acertado(r) ==
  /\ r.op = "rmdir" => EsDirectorio(r.camino)
  /\ r.op \in {"truncate", "write"} => EsArchivo(r.camino)

\* SinPerdidas, strengthened to be inductive for one mount.  Between requests,
\* the one that has been made is as getattr found the tree; during one, each bit
\* that will be left set is of a block some node will have.
SobraNada ==
  caidas = 0 =>
    /\ \A n \in Nodos : SinArchivo(nodo[n])
    /\ atendido = Nadie =>
         /\ bitmap \subseteq Apuntados
         /\ \A r \in Pedidos : (\E c \in Clientes : pedido[c] = r) => Acertado(r)
    /\ atendido # Nadie =>
         /\ SinArchivo(imagen)
         /\ marcar => pendientes \subseteq De(imagen)
         /\ bitmap \ (IF marcar THEN {} ELSE pendientes) \subseteq De(imagen) \cup DeOtros

LEMMA SinPunteros ==
  ASSUME NEW r, SegunTamanio(r), r.tam = 0
  PROVE  De(r) = {}
<1>1. \A i \in Indices : ~ (i < 0)
  BY DEF Indices
<1>2. QED
  BY <1>1 DEF De, SegunTamanio

\* A request that will leave no bit set in vain.
LEMMA NadaPersistir ==
  ASSUME SobraNada, atendido = Nadie, NEW c \in Clientes, NEW n \in Nodos,
         NEW r, NEW bs, NEW valor \in BOOLEAN,
         caidas = 0 => /\ SinArchivo(r)
                       /\ Apunta(n) \subseteq De(r) \cup (IF valor THEN {} ELSE bs)
                       /\ valor => bs \subseteq De(r),
         Persistir(c, bs, valor, n, r)
  PROVE  SobraNada'
<1>1. /\ nodo' = nodo /\ bitmap' = bitmap /\ destino' = n /\ imagen' = r
      /\ pendientes' = bs /\ marcar' = valor /\ caidas' = caidas
      /\ atendido' # Nadie
  BY ConstantesSAC DEF ConstantesSAC, Persistir
<1> SUFFICES ASSUME caidas = 0 PROVE SobraNada'
  BY <1>1 DEF SobraNada
<1>2. DeOtros' = UNION {Apunta(m) : m \in Nodos \ {n}}
  BY <1>1 DEF DeOtros, Apunta
<1>3. bitmap \subseteq Apunta(n) \cup DeOtros'
  BY <1>2 DEF SobraNada, Apuntados
<1>4. De(r) = De(imagen)'
  BY <1>1 DEF De
<1>5. \A m \in Nodos : SinArchivo(nodo[m])'
  BY <1>1 DEF SobraNada, SinArchivo
<1>6. bitmap' \ (IF valor THEN {} ELSE bs) \subseteq De(r) \cup DeOtros'
  BY <1>1, <1>3
<1>7. SinArchivo(imagen)'
  BY <1>1 DEF SinArchivo
<1> HIDE DEF De
<1>8. QED
  BY <1>1, <1>4, <1>5, <1>6, <1>7 DEF SobraNada

LEMMA ArbolIgual ==
  ASSUME nodo' = nodo, NEW r, Acertado(r)
  PROVE  Acertado(r)'
<1>1. ASSUME NEW k, NEW s PROVE Nombra(k, s)' <=> Nombra(k, s)
  BY DEF Nombra
<1>2. ASSUME NEW k PROVE Resuelven(k)' = Resuelven(k)
  BY <1>1 DEF Resuelven
<1>3. ASSUME NEW k PROVE existeArchivo(k)' = existeArchivo(k)
  BY <1>2 DEF existeArchivo
<1>4. ASSUME NEW k
      PROVE  /\ Existe(k)' <=> Existe(k)
             /\ EsDirectorio(k)' <=> EsDirectorio(k)
             /\ EsArchivo(k)' <=> EsArchivo(k)
  BY <1>3 DEF Existe, EsDirectorio, EsArchivo
<1>5. QED
  BY <1>4 DEF Acertado

\* The nodes, the bitmap and the request do not change.
LEMMA NadaIgual ==
  ASSUME SobraNada, UNCHANGED <<nodo, bitmap, pedVars, caidas>>,
         \A c \in Clientes : pedido'[c] = Ninguno \/ pedido'[c] = pedido[c] \/ Acertado(pedido'[c])
  PROVE  SobraNada'
<1>1. DeOtros' = DeOtros /\ De(imagen)' = De(imagen) /\ Apuntados' = Apuntados
  BY DEF DeOtros, De, Apuntados, Apunta, pedVars
<1>2. \A n \in Nodos : SinArchivo(nodo[n])' <=> SinArchivo(nodo[n])
  BY DEF SinArchivo
<1>3. SinArchivo(imagen)' <=> SinArchivo(imagen)
  BY DEF SinArchivo, pedVars
<1>4. Ninguno \notin Pedidos
  BY DEF Ninguno, Pedidos
<1>5. ASSUME caidas = 0, atendido = Nadie, NEW r \in Pedidos, NEW c \in Clientes, pedido'[c] = r
      PROVE  Acertado(r)'
  <2>1. pedido[c] = r \/ Acertado(r)
    BY <1>4, <1>5
  <2>2. Acertado(r)
    BY <1>5, <2>1 DEF SobraNada
  <2>3. QED
    BY <2>2, ArbolIgual
<1>6. QED
  BY <1>1, <1>2, <1>3, <1>5 DEF SobraNada, pedVars

LEMMA NadaResponder ==
  ASSUME TypeOK, SobraNada, NEW c \in Clientes, Responder(c)
  PROVE  SobraNada'
<1>1. \A d \in Clientes : pedido'[d] = Ninguno \/ pedido'[d] = pedido[d]
  BY DEF Responder, TypeOK
<1>2. QED
  BY <1>1, NadaIgual DEF Responder

\* After a death nothing is claimed.
LEMMA NadaCaer ==
  ASSUME TypeOK, Caer
  PROVE  SobraNada'
<1>1. caidas' # 0
  BY ConstantesSAC DEF ConstantesSAC, TypeOK, Caer
<1>2. QED
  BY <1>1 DEF SobraNada

LEMMA NadaCrear ==
  ASSUME TypeOK, SobraNada, atendido = Nadie, NEW c \in Clientes,
         NEW k \in Caminos \ {<<>>}, NEW e,
         crearNodoDirectorioArchivo(c, k, e)
  PROVE  SobraNada'
<1> DEFINE r == [NodoVacio EXCEPT !.estado = e, !.nombre = Ultimo(k),
                                  !.padre = existeArchivo(cortarPathPadre(k))]
           n == Menor(NodosLibres)
<1>1. CASE Responder(c)
  BY <1>1, NadaResponder
<1>2. CASE NodosLibres # {} /\ Persistir(c, {}, FALSE, n, r)
  <2>1. n \in Nodos /\ nodo[n].estado = "BORRADO"
    BY <1>2, LibreTipo DEF NodosLibres
  <2>2. r.tam = 0
    BY DEF NodoVacio
  <2> HIDE DEF n, r
  <2>3. caidas = 0 => Apunta(n) = {}
    BY <2>1, SinPunteros DEF SobraNada, SinArchivo, TypeOK, De, Apunta
  <2>4. QED
    BY <1>2, <2>1, <2>2, <2>3, NadaPersistir DEF SinArchivo
<1>3. QED
  BY <1>1, <1>2 DEF crearNodoDirectorioArchivo

\* A directory has no blocks.
LEMMA NadaEliminar ==
  ASSUME TypeOK, SobraNada, atendido = Nadie, NEW c \in Clientes,
         NEW k \in Caminos, NEW d \in BOOLEAN, caidas = 0 /\ d => EsDirectorio(k),
         eliminarDirectorioArchivo(c, k, d)
  PROVE  SobraNada'
<1> DEFINE n == existeArchivo(k)
           bs == IF d THEN {} ELSE Apunta(n)
<1>1. CASE Responder(c)
  BY <1>1, NadaResponder
<1>2. CASE n # ERROR /\ Persistir(c, bs, FALSE, n, NodoVacio)
  <2>1. n \in Nodos
    BY <1>2, ExisteEnNodos
  <2>2. caidas = 0 /\ d => nodo[n].estado = "DIRECTORIO"
    BY DEF EsDirectorio
  <2>3. SinArchivo(NodoVacio)
    BY DEF SinArchivo, NodoVacio
  <2> HIDE DEF n
  <2>4. caidas = 0 /\ d => Apunta(n) = {}
    BY <2>1, <2>2, SinPunteros DEF SobraNada, SinArchivo, TypeOK, De, Apunta
  <2>5. caidas = 0 => Apunta(n) \subseteq bs
    BY <2>4
  <2> HIDE DEF bs
  <2>6. QED
    BY <1>2, <2>1, <2>3, <2>5, NadaPersistir
<1>3. QED
  BY <1>1, <1>2 DEF eliminarDirectorioArchivo

\* What keeps the size and the pointers of its node loses nothing.
LEMMA NadaGuardar ==
  ASSUME TypeOK, SobraNada, atendido = Nadie, NEW c \in Clientes, NEW n \in Nodos,
         NEW r, r.p = nodo[n].p, r.tam = nodo[n].tam, r.estado = nodo[n].estado,
         Persistir(c, {}, FALSE, n, r)
  PROVE  SobraNada'
<1>1. caidas = 0 => SinArchivo(r)
  BY DEF SobraNada, SinArchivo
<1>2. Apunta(n) = De(r)
  BY DEF De, Apunta
<1>3. QED
  BY <1>1, <1>2, NadaPersistir

LEMMA NadaMover ==
  ASSUME TypeOK, SobraNada, atendido = Nadie, NEW c \in Clientes,
         NEW k \in Caminos, NEW q, cambiarUbicacion(c, k, q)
  PROVE  SobraNada'
<1> DEFINE n == existeArchivo(k)
           r == [nodo[n] EXCEPT !.nombre = Ultimo(q),
                                !.padre = existeArchivo(cortarPathPadre(q))]
<1>1. CASE Responder(c)
  BY <1>1, NadaResponder
<1>2. CASE n # ERROR /\ Persistir(c, {}, FALSE, n, r)
  <2>1. n \in Nodos
    BY <1>2, ExisteEnNodos
  <2>2. r.p = nodo[n].p /\ r.tam = nodo[n].tam /\ r.estado = nodo[n].estado
    BY <2>1 DEF TypeOK, Nodo
  <2> HIDE DEF n, r
  <2>3. QED
    BY <1>2, <2>1, <2>2, NadaGuardar
<1>3. QED
  BY <1>1, <1>2 DEF cambiarUbicacion

\* A growth keeps the pointers there are and has the blocks it takes.
LEMMA NadaAgrandar ==
  ASSUME TypeOK, SobraNada, atendido = Nadie, NEW c \in Clientes,
         NEW n \in Nodos, caidas = 0 => nodo[n].estado = "OCUPADO",
         NEW t \in Nat, Agrandar(c, n, t)
  PROVE  SobraNada'
<1> DEFINE agregados == nodo[n].tam..t - 1
           bs(f) == {f[i] : i \in agregados}
           r(f) == [nodo[n] EXCEPT
                      !.tam = t,
                      !.p = [i \in Indices |-> IF i \in agregados THEN f[i]
                                               ELSE nodo[n].p[i]]]
<1>1. CASE Responder(c)
  BY <1>1, NadaResponder
<1>2. CASE t <= MaxPunteros /\ \E f \in [agregados -> Libres] : Persistir(c, bs(f), TRUE, n, r(f))
  <2>1. PICK f \in [agregados -> Libres] : Persistir(c, bs(f), TRUE, n, r(f))
    BY <1>2
  <2>2. /\ \A i \in Indices : r(f).p[i] = IF i \in agregados THEN f[i] ELSE nodo[n].p[i]
        /\ r(f).estado = nodo[n].estado
    BY DEF TypeOK, Nodo
  <2>3. agregados \in SUBSET Indices
    BY <1>2, ConstantesSAC DEF ConstantesSAC, TypeOK, Nodo, Tamanios, Indices
  <2>4. SinBloque \notin Libres
    BY ConstantesSAC DEF ConstantesSAC, Libres
  <2>5. \A i \in Indices : i \in agregados => nodo[n].p[i] = SinBloque
    <3> SUFFICES ASSUME NEW i \in Indices, i \in agregados PROVE ~ (i < nodo[n].tam)
      BY DEF TypeOK, SegunTamanio
    <3>1. nodo[n].tam \in Int
      BY DEF TypeOK, Nodo, Tamanios
    <3>2. QED
      BY <3>1
  <2>6. bs(f) \subseteq De(r(f))
    BY <2>1, <2>2, <2>3, <2>4 DEF De
  <2>7. Apunta(n) \subseteq De(r(f))
    BY <2>2, <2>5 DEF De, Apunta
  <2>8. caidas = 0 => SinArchivo(r(f))
    BY <2>2 DEF SinArchivo
  <2> HIDE DEF r, bs
  <2>9. QED
    BY <2>1, <2>6, <2>7, <2>8, NadaPersistir
<1>3. QED
  <2>1. t <= MaxPunteros \/ t > MaxPunteros
    BY ConstantesSAC DEF ConstantesSAC
  <2>2. QED
    BY <1>1, <1>2, <2>1, Zenon DEF Agrandar

\* What is cut off a file is what is freed.
LEMMA NadaAchicar ==
  ASSUME TypeOK, SobraNada, atendido = Nadie, NEW c \in Clientes,
         NEW n \in Nodos, caidas = 0 => nodo[n].estado = "OCUPADO",
         NEW t \in Nat, t <= nodo[n].tam, Achicar(c, n, t)
  PROVE  SobraNada'
<1> DEFINE quitados == t..nodo[n].tam - 1
           bs == {nodo[n].p[i] : i \in quitados} \ {SinBloque}
           r == [nodo[n] EXCEPT
                   !.tam = t,
                   !.p = [i \in Indices |-> IF i \in quitados THEN SinBloque
                                            ELSE nodo[n].p[i]]]
<1>1. Persistir(c, bs, FALSE, n, r)
  BY DEF Achicar
<1>2. /\ \A i \in Indices : r.p[i] = IF i \in quitados THEN SinBloque ELSE nodo[n].p[i]
      /\ r.estado = nodo[n].estado
  BY DEF TypeOK, Nodo
<1>3. Apunta(n) \subseteq De(r) \cup bs
  BY <1>2 DEF De, Apunta
<1>4. caidas = 0 => SinArchivo(r)
  BY <1>2 DEF SinArchivo
<1> HIDE DEF r, bs
<1>5. QED
  BY <1>1, <1>3, <1>4, NadaPersistir

\* The request is one that FUSE let through, and the tree has not changed since.
LEMMA NadaAtender ==
  ASSUME TypeOK, SobraNada, NEW c \in Clientes, Atender(c)
  PROVE  SobraNada'
<1> DEFINE op == pedido[c].op
           k == pedido[c].camino
           n == existeArchivo(k)
           t == pedido[c].tam
<1>1. op # "ninguna" /\ atendido = Nadie
  BY DEF Atender
<1>2. /\ k \in Caminos \ {<<>>} /\ t \in Nat
      /\ n # ERROR => n \in Nodos
  BY <1>1, PedidoTipo, ExisteEnNodos
<1>3. caidas = 0 => Acertado(pedido[c])
  BY <1>1 DEF SobraNada, TypeOK, Ninguno
<1>4. /\ caidas = 0 /\ op = "rmdir" => EsDirectorio(k)
      /\ caidas = 0 /\ op \in {"truncate", "write"} => EsArchivo(k)
  BY <1>3 DEF Acertado
<1>5. caidas = 0 /\ op \in {"truncate", "write"} => n # ERROR /\ nodo[n].estado = "OCUPADO"
  BY <1>4 DEF EsArchivo, Existe
<1>6. CASE op = "mkdir" /\ crearNodoDirectorioArchivo(c, k, "DIRECTORIO")
  BY <1>1, <1>2, <1>6, NadaCrear
<1>7. CASE op = "create" /\ crearNodoDirectorioArchivo(c, k, "OCUPADO")
  BY <1>1, <1>2, <1>7, NadaCrear
<1>8. CASE op = "rmdir" /\ eliminarDirectorioArchivo(c, k, TRUE)
  BY <1>1, <1>2, <1>4, <1>8, NadaEliminar
<1>9. CASE op = "unlink" /\ eliminarDirectorioArchivo(c, k, FALSE)
  BY <1>1, <1>2, <1>9, NadaEliminar
<1>10. CASE op = "move" /\ cambiarUbicacion(c, k, pedido[c].nuevo)
  BY <1>1, <1>2, <1>10, NadaMover
<1>11. CASE op = "truncate" /\ cambiarTamanioArchivo(c, k, t)
  <2>1. CASE n = ERROR /\ TruncarInexistente(c)
    <3>1. caidas # 0
      BY <1>5, <1>11, <2>1
    <3>2. caidas' # 0
      BY <2>1, <3>1, NadaCaer, ConstantesSAC DEF TruncarInexistente, Caer, TypeOK, ConstantesSAC
    <3>3. QED
      BY <3>2 DEF SobraNada
  <2>2. CASE n # ERROR /\ t > nodo[n].tam /\ Agrandar(c, n, t)
    BY <1>1, <1>2, <1>5, <1>11, <2>2, NadaAgrandar
  <2>3. CASE n # ERROR /\ t <= nodo[n].tam /\ Achicar(c, n, t)
    BY <1>1, <1>2, <1>5, <1>11, <2>3, NadaAchicar
  <2>4. QED
    BY <1>11, <2>1, <2>2, <2>3 DEF cambiarTamanioArchivo
<1>12. CASE op = "write" /\ escribirArchivo(c, k, t)
  BY <1>1, <1>2, <1>5, <1>12, NadaResponder, NadaAgrandar DEF escribirArchivo
<1>13. CASE op = "utimes" /\ modificarFechas(c, k)
  <2> HIDE DEF n
  <2>1. n # ERROR /\ Persistir(c, {}, FALSE, n, nodo[n]) => SobraNada'
    BY <1>1, <1>2, NadaGuardar
  <2>2. QED
    BY <1>13, <2>1, NadaResponder DEF modificarFechas, n
<1>14. QED
  BY <1>6, <1>7, <1>8, <1>9, <1>10, <1>11, <1>12, <1>13 DEF Atender

\* One more bit is as it will be left.
LEMMA NadaPersistirBitmap ==
  ASSUME SobraNada, persistirBitmap
  PROVE  SobraNada'
<1>1. PICK b \in pendientes :
        /\ bitmap' = IF marcar THEN bitmap \cup {b} ELSE bitmap \ {b}
        /\ pendientes' = pendientes \ {b}
  BY DEF persistirBitmap
<1>2. /\ nodo' = nodo /\ atendido' = atendido /\ marcar' = marcar /\ caidas' = caidas
      /\ destino' = destino /\ imagen' = imagen /\ atendido # Nadie
  BY DEF persistirBitmap
<1>3. DeOtros' = DeOtros /\ De(imagen)' = De(imagen)
  BY <1>2 DEF DeOtros, De, Apunta
<1>4. /\ \A n \in Nodos : SinArchivo(nodo[n])' <=> SinArchivo(nodo[n])
      /\ SinArchivo(imagen)' <=> SinArchivo(imagen)
  BY <1>2 DEF SinArchivo
<1> SUFFICES ASSUME caidas = 0
             PROVE  /\ marcar => pendientes' \subseteq De(imagen)
                    /\ bitmap' \ (IF marcar THEN {} ELSE pendientes') \subseteq De(imagen) \cup DeOtros
  BY <1>2, <1>3, <1>4 DEF SobraNada
<1>5. /\ marcar => pendientes \subseteq De(imagen)
      /\ bitmap \ (IF marcar THEN {} ELSE pendientes) \subseteq De(imagen) \cup DeOtros
  BY <1>2 DEF SobraNada
<1> HIDE DEF De, DeOtros
<1>6. CASE marcar
  BY <1>1, <1>5, <1>6
<1>7. CASE ~ marcar
  BY <1>1, <1>5, <1>7
<1>8. QED
  BY <1>6, <1>7

\* The node has what the bits were set for; its client has its answer, and there
\* is no other client whose checks could be of another tree.
LEMMA NadaPersistirNodo ==
  ASSUME TypeOK, SobraNada, persistirNodo, \A c, d \in Clientes : c = d
  PROVE  SobraNada'
<1>1. /\ atendido \in Clientes /\ pendientes = {} /\ destino \in Nodos
      /\ atendido # Nadie /\ atendido' = Nadie /\ bitmap' = bitmap /\ caidas' = caidas
      /\ \A n \in Nodos : nodo'[n] = IF n = destino THEN imagen ELSE nodo[n]
      /\ pedido'[atendido] = Ninguno
  BY DEF persistirNodo, TypeOK
<1> SUFFICES ASSUME caidas = 0 PROVE SobraNada'
  BY <1>1 DEF SobraNada
<1>2. \A n \in Nodos : Apunta(n)' = (IF n = destino THEN De(imagen) ELSE Apunta(n))
  BY <1>1 DEF Apunta, De
<1>3. Apuntados' = De(imagen) \cup DeOtros
  BY <1>1, <1>2 DEF Apuntados, DeOtros
<1>4. bitmap \subseteq De(imagen) \cup DeOtros
  BY <1>1 DEF SobraNada
<1>5. \A n \in Nodos : SinArchivo(nodo[n])'
  BY <1>1 DEF SobraNada, SinArchivo
<1>6. \A c \in Clientes : pedido'[c] = Ninguno
  BY <1>1
<1>7. Ninguno \notin Pedidos
  BY DEF Ninguno, Pedidos
<1>8. QED
  BY <1>1, <1>3, <1>4, <1>5, <1>6, <1>7 DEF SobraNada

LEMMA NadaPedir ==
  ASSUME TypeOK, SobraNada, NEW c \in Clientes, Pedir(c)
  PROVE  SobraNada'
<1>1. PICK r : Comprueba(r) /\ pedido' = [pedido EXCEPT ![c] = r]
  BY DEF Pedir
<1>2. Acertado(r)
  BY <1>1 DEF Comprueba, Acertado
<1>3. \A d \in Clientes : pedido'[d] = pedido[d] \/ Acertado(pedido'[d])
  BY <1>1, <1>2 DEF TypeOK
<1>4. QED
  BY <1>3, NadaIgual DEF Pedir

LEMMA NadaPaso ==
  ASSUME TypeOK, SobraNada, [Next]_vars, \A c, d \in Clientes : c = d
  PROVE  SobraNada'
<1>1. CASE UNCHANGED vars
  BY <1>1, NadaIgual DEF vars, pedVars
<1>2. QED
  BY <1>1, NadaPedir, NadaAtender, NadaPersistirBitmap, NadaPersistirNodo, NadaCaer DEF Next

LEMMA NadaInicial == Init => SobraNada
<1> SUFFICES ASSUME Init PROVE SobraNada
  OBVIOUS
<1>1. \A n \in Nodos : SinArchivo(nodo[n])
  BY DEF Init, SinArchivo, NodoRaiz, NodoVacio
<1>2. \A r \in Pedidos : r # Ninguno
  BY DEF Ninguno, Pedidos
<1>3. QED
  BY <1>1, <1>2 DEF Init, SobraNada

\* With one mount, while the server does not die, every bit set between requests
\* is of a block of some file: nothing a program does makes the disk smaller.
THEOREM NadaSePierde ==
  ASSUME \A c, d \in Clientes : c = d
  PROVE  Spec => []SinPerdidas
<1>1. Init => SobraNada
  BY NadaInicial
<1>2. TypeOK /\ SobraNada /\ [Next]_vars => SobraNada'
  BY NadaPaso
<1>3. SobraNada => SinPerdidas
  BY DEF SobraNada, SinPerdidas
<1>4. QED
  BY <1>1, <1>2, <1>3, DiscoBienFormado, PTL DEF Spec
=============================================================================
