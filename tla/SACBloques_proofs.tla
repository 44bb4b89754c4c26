-------------------------- MODULE SACBloques_proofs --------------------------
(***************************************************************************)
(* Proofs about SACBloques, for any files, blocks, length of a block and    *)
(* number of pointers: the nodes and the blocks have their type and every   *)
(* block is of one file; a read answers the bytes of the file, but for the  *)
(* byte that LeeSalvoElUltimo names; and, when a write lies inside one page,*)
(* SACBloques implements SACArchivo.                                        *)
(*                                                                         *)
(* The inductive invariant is BloquesInv.  TypeOK alone is not inductive:   *)
(* that what a write leaves in dato are bytes needs the write inside its    *)
(* file and at one of its blocks (Sana).  That a write touches no other     *)
(* file needs the blocks of the nodes to differ (BloquesDeUno), and that the*)
(* last read stays right needs it to be no longer the last answer while     *)
(* blocks are written (EscrituraSana).                                      *)
(***************************************************************************)
EXTENDS SACBloques, SequenceTheorems, TLAPS

-----------------------------------------------------------------------------
(* Positions and blocks *)

\* The constants are positive numbers.
LEMMA TamBloque == TAM_BLOQUE \in Nat \ {0} /\ MaxPunteros \in Nat \ {0} /\ MaxPaginas \in Nat \ {0}
BY ConstantesBloques DEF ConstantesBloques

\* What division means, for the provers.
LEMMA DivisionDe ==
  ASSUME NEW n \in Int, NEW d \in Nat \ {0}
  PROVE  n = d * (n \div d) + (n % d)
OBVIOUS

\* A position is in a block and at a place of it.
LEMMA Division ==
  ASSUME NEW n \in Int
  PROVE  /\ n \div TAM_BLOQUE \in Int /\ n % TAM_BLOQUE \in Posiciones
         /\ n = TAM_BLOQUE * (n \div TAM_BLOQUE) + (n % TAM_BLOQUE)
<1>1. n \div TAM_BLOQUE \in Int
  BY TamBloque
<1>2. n % TAM_BLOQUE \in Posiciones
  BY TamBloque DEF Posiciones
<1>3. n = TAM_BLOQUE * (n \div TAM_BLOQUE) + (n % TAM_BLOQUE)
  BY TamBloque, DivisionDe
<1>4. QED
  BY <1>1, <1>2, <1>3

\* The block and the place of a position given by them.
LEMMA Cociente ==
  ASSUME NEW q \in Int, NEW r \in Posiciones
  PROVE  /\ (TAM_BLOQUE * q + r) \div TAM_BLOQUE = q
         /\ (TAM_BLOQUE * q + r) % TAM_BLOQUE = r
BY TamBloque DEF Posiciones

\* Products by the length of a block, in terms that stay linear.
LEMMA Orden ==
  ASSUME NEW q \in Int, NEW r \in Int
  PROVE  /\ TAM_BLOQUE * q \in Int /\ TAM_BLOQUE * (q + 1) = TAM_BLOQUE * q + TAM_BLOQUE
         /\ TAM_BLOQUE * (q - 1) = TAM_BLOQUE * q - TAM_BLOQUE
         /\ TAM_BLOQUE * (q + r) = TAM_BLOQUE * q + TAM_BLOQUE * r
         /\ TAM_BLOQUE * (q - r) = TAM_BLOQUE * q - TAM_BLOQUE * r
         /\ q < r => TAM_BLOQUE * q + TAM_BLOQUE <= TAM_BLOQUE * r
         /\ q <= r => TAM_BLOQUE * q <= TAM_BLOQUE * r
         /\ q >= 0 => TAM_BLOQUE * q >= 0
         /\ q * TAM_BLOQUE = TAM_BLOQUE * q
BY TamBloque

\* The i-th block, counted from 0, has the positions from T * i on.
LEMMA EnBloque ==
  ASSUME NEW n \in Int, NEW i \in Int
  PROVE  n \div TAM_BLOQUE = i <=> TAM_BLOQUE * i <= n /\ n < TAM_BLOQUE * i + TAM_BLOQUE
<1>1. TAM_BLOQUE \in Nat \ {0} /\ TAM_BLOQUE * i \in Int
  BY TamBloque
<1>2. ASSUME n \div TAM_BLOQUE = i
      PROVE  TAM_BLOQUE * i <= n /\ n < TAM_BLOQUE * i + TAM_BLOQUE
  <2>1. n % TAM_BLOQUE \in Posiciones /\ n = TAM_BLOQUE * i + (n % TAM_BLOQUE)
    BY <1>2, Division
  <2>2. QED
    BY <1>1, <2>1 DEF Posiciones
<1>3. ASSUME TAM_BLOQUE * i <= n, n < TAM_BLOQUE * i + TAM_BLOQUE
      PROVE  n \div TAM_BLOQUE = i
  <2>1. n - TAM_BLOQUE * i \in Posiciones
    BY <1>1, <1>3 DEF Posiciones
  <2>2. TAM_BLOQUE * i + (n - TAM_BLOQUE * i) = n
    BY <1>1
  <2>3. QED
    BY <2>1, <2>2, Cociente
<1>4. QED
  BY <1>2, <1>3

\* A later position is in no earlier block.
LEMMA OrdenDeBloques ==
  ASSUME NEW m \in Int, NEW n \in Int, m <= n
  PROVE  m \div TAM_BLOQUE <= n \div TAM_BLOQUE
<1> DEFINE q == m \div TAM_BLOQUE
           r == n \div TAM_BLOQUE
<1>1. q \in Int /\ r \in Int
  BY Division
<1>2. TAM_BLOQUE * q <= m /\ n < TAM_BLOQUE * r + TAM_BLOQUE
  BY <1>1, EnBloque
<1> HIDE DEF q, r
<1>3. r < q => TAM_BLOQUE * r + TAM_BLOQUE <= TAM_BLOQUE * q
  BY <1>1, Orden
<1>4. TAM_BLOQUE * r \in Int /\ TAM_BLOQUE * q \in Int /\ TAM_BLOQUE \in Int
  BY <1>1, TamBloque
<1>5. q <= r
  BY <1>1, <1>2, <1>3, <1>4
<1>6. QED
  BY <1>5 DEF q, r

\* The blocks of a file of tam bytes are as many as it takes to have them all.
LEMMA Cantidad ==
  ASSUME NEW tam \in Nat
  PROVE  /\ CantBloques(tam) \in Nat
         /\ tam <= TAM_BLOQUE * CantBloques(tam)
         /\ TAM_BLOQUE * CantBloques(tam) < tam + TAM_BLOQUE
<1> DEFINE q == CantBloques(tam)
<1>1. TAM_BLOQUE \in Nat \ {0} /\ tam + TAM_BLOQUE - 1 \in Int
  BY TamBloque
<1>2. q \in Int
  BY <1>1, Division DEF CantBloques
<1>3. TAM_BLOQUE * q <= tam + TAM_BLOQUE - 1 /\ tam + TAM_BLOQUE - 1 < TAM_BLOQUE * q + TAM_BLOQUE
  BY <1>1, <1>2, EnBloque DEF CantBloques
<1> HIDE DEF q
<1>4. q < 0 => TAM_BLOQUE * q + TAM_BLOQUE <= TAM_BLOQUE * 0
  BY <1>2, Orden
<1>5. TAM_BLOQUE * q \in Int /\ TAM_BLOQUE * 0 = 0
  BY <1>1, <1>2
<1>6. q >= 0
  BY <1>1, <1>2, <1>3, <1>4, <1>5
<1>7. q \in Nat /\ tam <= TAM_BLOQUE * q /\ TAM_BLOQUE * q < tam + TAM_BLOQUE
  BY <1>1, <1>2, <1>3, <1>5, <1>6
<1>8. QED
  BY <1>7 DEF q

\* m blocks are enough exactly for m * TAM_BLOQUE bytes.
LEMMA CantidadMaxima ==
  ASSUME NEW tam \in Nat, NEW m \in Nat
  PROVE  CantBloques(tam) <= m <=> tam <= TAM_BLOQUE * m
<1> DEFINE q == CantBloques(tam)
<1>1. q \in Nat /\ tam <= TAM_BLOQUE * q /\ TAM_BLOQUE * q < tam + TAM_BLOQUE
  BY Cantidad
<1> HIDE DEF q
<1>2. TAM_BLOQUE \in Nat /\ TAM_BLOQUE * q \in Int /\ TAM_BLOQUE * m \in Int
  BY <1>1, TamBloque
<1>3. q <= m => TAM_BLOQUE * q <= TAM_BLOQUE * m
  BY <1>1, Orden
<1>4. m < q => TAM_BLOQUE * m + TAM_BLOQUE <= TAM_BLOQUE * q
  BY <1>1, Orden
<1>5. q <= m <=> tam <= TAM_BLOQUE * m
  BY <1>1, <1>2, <1>3, <1>4
<1>6. QED
  BY <1>5 DEF q

\* The k-th byte of a file is in one of its blocks.
LEMMA Lugar ==
  ASSUME NEW tam \in Nat, NEW k \in 1..tam
  PROVE  1 + (k - 1) \div TAM_BLOQUE \in 1..CantBloques(tam) /\ (k - 1) % TAM_BLOQUE \in Posiciones
<1> DEFINE q == (k - 1) \div TAM_BLOQUE
           c == CantBloques(tam)
<1>1. q \in Int /\ (k - 1) % TAM_BLOQUE \in Posiciones
  BY Division
<1>2. TAM_BLOQUE * q <= k - 1 /\ k - 1 < TAM_BLOQUE * q + TAM_BLOQUE
  BY <1>1, EnBloque
<1>3. c \in Nat /\ tam <= TAM_BLOQUE * c
  BY Cantidad
<1> HIDE DEF q, c
<1>4. TAM_BLOQUE \in Nat \ {0} /\ TAM_BLOQUE * q \in Int /\ TAM_BLOQUE * c \in Int
  BY <1>1, <1>3, TamBloque
<1>5. q < 0 => TAM_BLOQUE * q + TAM_BLOQUE <= TAM_BLOQUE * 0
  BY <1>1, Orden
<1>6. c <= q => TAM_BLOQUE * c <= TAM_BLOQUE * q
  BY <1>1, <1>3, Orden
<1>7. TAM_BLOQUE * 0 = 0
  BY <1>4
<1>8. q >= 0
  BY <1>1, <1>2, <1>4, <1>5, <1>7
<1>9. q < c
  BY <1>1, <1>2, <1>3, <1>4, <1>6
<1>10. 1 + q \in 1..c
  BY <1>1, <1>3, <1>8, <1>9
<1>11. QED
  BY <1>1, <1>10 DEF q, c

-----------------------------------------------------------------------------
(* The invariant *)

\* No block is twice in the nodes.
BloquesDeUno ==
  \A a, o \in Existentes : \A i \in DOMAIN nodo[a].p : \A j \in DOMAIN nodo[o].p :
    nodo[a].p[i] = nodo[o].p[j] => a = o /\ i = j

\* The write under way lies inside its file and is at one of its blocks.
Sana(w) ==
  /\ w \in [archivo : Archivos, offset : Nat, datos : Seq(Bytes), bloque : Nat, escritos : Nat]
  /\ w.archivo \in Existentes /\ w.datos # <<>>
  /\ w.offset + Len(w.datos) <= nodo[w.archivo].tam
  /\ w.offset \div TAM_BLOQUE <= w.bloque /\ w.bloque <= UltimoBloque(w)
EscrituraSana ==
  /\ \A w, v \in escritura : w = v
  /\ \A w \in escritura : Sana(w)
  /\ escritura # {} => respuesta = SinRespuesta

BloquesInv == TypeOK /\ BloquesDeUno /\ EscrituraSana

\* A function on the first n numbers is a sequence.
LEMMA FuncionEsSecuencia ==
  ASSUME NEW S, NEW n \in Nat, NEW f \in [1..n -> S]
  PROVE  f \in Seq(S) /\ Len(f) = n /\ DOMAIN f = 1..n
<1>1. f \in Seq(S)
  BY SeqDef
<1>2. QED
  BY <1>1, LenProperties

\* What TypeOK says of one node.
LEMMA NodoTipo ==
  ASSUME TypeOK, NEW a \in Existentes
  PROVE  /\ nodo[a].tam \in Nat /\ nodo[a].tam <= TamMax
         /\ nodo[a].p \in Seq(Bloques) /\ Len(nodo[a].p) = CantBloques(nodo[a].tam)
         /\ Len(nodo[a].p) \in Nat /\ DOMAIN nodo[a].p = 1..Len(nodo[a].p)
<1>1. /\ nodo[a].tam \in 0..TamMax
      /\ nodo[a].p \in Seq(Bloques) /\ Len(nodo[a].p) = CantBloques(nodo[a].tam)
  BY DEF TypeOK
<1>2. TamMax \in Nat
  BY TamBloque DEF TamMax
<1>3. QED
  BY <1>1, <1>2, LenProperties

\* Another size for file a: the others stay, a keeps the blocks that it still
\* needs, in their order, and the rest were of nobody.
CambiaUno(a, tam) ==
  /\ DOMAIN nodo' = Existentes /\ \A o \in Existentes \ {a} : nodo'[o] = nodo[o]
  /\ nodo'[a].tam = tam /\ tam \in 0..TamMax
  /\ nodo'[a].p \in Seq(Bloques) /\ Len(nodo'[a].p) = CantBloques(tam)
  /\ \A i \in 1..Len(nodo'[a].p) : IF i <= Len(nodo[a].p) THEN nodo'[a].p[i] = nodo[a].p[i]
                                   ELSE nodo'[a].p[i] \in Libres
  /\ \A i, j \in 1..Len(nodo'[a].p) : nodo'[a].p[i] = nodo'[a].p[j] => i = j

\* cambiarTamanioArchivo, in the branches that succeed, does no more than that.
LEMMA CambiaTamanio ==
  ASSUME BloquesInv, NEW a \in Existentes, NEW tam \in Nat, cambiarTamanioArchivo(a, tam)
  PROVE  CambiaUno(a, tam)
<1> DEFINE p == nodo[a].p
           n == CantBloques(tam) - CantBloques(nodo[a].tam)
<1>1. /\ nodo[a].tam \in Nat /\ p \in Seq(Bloques) /\ Len(p) = CantBloques(nodo[a].tam)
      /\ Len(p) \in Nat /\ DOMAIN p = 1..Len(p) /\ nodo[a].tam <= TamMax
  BY NodoTipo DEF BloquesInv
<1>2. CantBloques(tam) \in Nat /\ n \in Int /\ Len(p) + n = CantBloques(tam) /\ MaxPunteros \in Nat
  <2>1. CantBloques(tam) \in Nat /\ CantBloques(nodo[a].tam) \in Nat /\ MaxPunteros \in Nat
    BY <1>1, Cantidad, TamBloque
  <2> HIDE DEF p
  <2>2. QED
    BY <1>1, <2>1
<1>3. \A i, j \in 1..Len(p) : p[i] = p[j] => i = j
  BY <1>1 DEF BloquesInv, BloquesDeUno
<1>4. Len(p) <= MaxPunteros
  BY <1>1, <1>2, CantidadMaxima DEF TamMax
<1>5. \A i \in 1..Len(p) : p[i] \in Ocupados
  BY <1>1 DEF Ocupados
<1>6. CantBloques(tam) <= MaxPunteros => tam \in 0..TamMax
  <2>1. TamMax \in Nat
    BY SMTT(30), TamBloque DEF TamMax
  <2>2. QED
    BY <1>2, <2>1, CantidadMaxima DEF TamMax
<1> HIDE DEF p, n
<1>7. CASE n > 0 /\ Entran(a, n) /\ Agregar(a, n, tam)
  <2>1. PICK f \in [1..n -> Libres] :
          /\ \A i, j \in 1..n : f[i] = f[j] => i = j
          /\ nodo' = [nodo EXCEPT ![a] = [tam |-> tam, p |-> @.p \o f]]
    BY <1>7 DEF Agregar
  <2>2. n \in Nat /\ Libres \subseteq Bloques /\ CantBloques(tam) <= MaxPunteros
    BY <1>2, <1>7 DEF Entran, Libres, p
  <2>3. f \in [1..n -> Bloques]
    BY <2>2
  <2>4. f \in Seq(Bloques) /\ Len(f) = n /\ DOMAIN f = 1..n
    BY <2>2, <2>3, FuncionEsSecuencia
  <2>5. /\ p \o f \in Seq(Bloques) /\ Len(p \o f) = Len(p) + n
        /\ \A i \in 1..Len(p) + n : (p \o f)[i] = IF i <= Len(p) THEN p[i] ELSE f[i - Len(p)]
    BY <1>1, <2>4, ConcatProperties
  <2>6. /\ DOMAIN nodo' = Existentes /\ \A o \in Existentes \ {a} : nodo'[o] = nodo[o]
        /\ nodo'[a] = [tam |-> tam, p |-> p \o f]
    BY <2>1 DEF Existentes, p
  <2>7. \A i \in 1..Len(p) + n : i > Len(p) => (p \o f)[i] = f[i - Len(p)] /\ i - Len(p) \in 1..n
    BY SMTT(30), <1>1, <2>2, <2>5
  <2>8. \A i \in 1..n : f[i] \in Libres /\ f[i] \notin Ocupados
    BY <2>1 DEF Libres
  <2>9. \A i, j \in 1..Len(p) + n : (p \o f)[i] = (p \o f)[j] => i = j
    <3>1. TAKE i, j \in 1..Len(p) + n
    <3>2. CASE i <= Len(p) /\ j <= Len(p)
      BY <1>1, <1>3, <2>2, <2>5, <3>2
    <3>3. CASE i > Len(p) /\ j > Len(p)
      <4>1. f[i - Len(p)] = f[j - Len(p)] => i - Len(p) = j - Len(p)
        BY <2>1, <2>7, <3>3
      <4>2. QED
        BY SMTT(30), <1>1, <2>2, <2>7, <3>3, <4>1
    <3>4. CASE i <= Len(p) /\ j > Len(p)
      BY <1>1, <1>5, <2>2, <2>5, <2>7, <2>8, <3>4
    <3>5. CASE i > Len(p) /\ j <= Len(p)
      BY <1>1, <1>5, <2>2, <2>5, <2>7, <2>8, <3>5
    <3>6. QED
      BY <1>1, <2>2, <3>2, <3>3, <3>4, <3>5
  <2>10. \A i \in 1..Len(p) + n : IF i <= Len(p) THEN (p \o f)[i] = p[i] ELSE (p \o f)[i] \in Libres
    BY <1>1, <2>2, <2>5, <2>7, <2>8
  <2>11. nodo'[a].tam = tam /\ nodo'[a].p = p \o f
    BY <2>6
  <2>12. QED
    BY <1>2, <1>6, <2>2, <2>5, <2>6, <2>9, <2>10, <2>11 DEF CambiaUno, p
<1>8. CASE n <= 0 /\ nodo' = [nodo EXCEPT ![a] = [tam |-> tam, p |-> SubSeq(@.p, 1, Len(@.p) + n)]]
  <2> DEFINE s == SubSeq(p, 1, Len(p) + n)
  <2>1. Len(p) + n \in 0..Len(p)
    BY <1>1, <1>2, <1>8
  <2>2. s \in Seq(Bloques) /\ Len(s) = Len(p) + n /\ \A i \in 1..Len(p) + n : s[i] = p[i]
    <3>1. \A i \in 1..Len(p) + n : p[i] \in Bloques
      BY <1>1, <2>1, ElementOfSeq
    <3>2. QED
      BY <1>1, <2>1, <3>1, SubSeqProperties
  <2>3. /\ DOMAIN nodo' = Existentes /\ \A o \in Existentes \ {a} : nodo'[o] = nodo[o]
        /\ nodo'[a] = [tam |-> tam, p |-> s]
    BY <1>8 DEF Existentes, p
  <2>5. CantBloques(tam) <= MaxPunteros
    BY <1>1, <1>2, <1>4, <2>1
  <2> HIDE DEF s
  <2>4. nodo'[a].tam = tam /\ nodo'[a].p = s
    BY <2>3
  <2>6. \A i \in 1..Len(s) : i <= Len(p) /\ s[i] = p[i] /\ i \in 1..Len(p)
    BY <1>1, <2>1, <2>2
  <2>7. \A i, j \in 1..Len(s) : s[i] = s[j] => i = j
    BY <1>3, <2>6
  <2>8. QED
    BY <1>2, <1>6, <2>2, <2>3, <2>4, <2>5, <2>6, <2>7 DEF CambiaUno, p
<1>9. QED
  BY <1>7, <1>8 DEF cambiarTamanioArchivo, n

-----------------------------------------------------------------------------
(* It is kept *)

\* What Sana says of the fields of the write.
LEMMA SanaTipo ==
  ASSUME NEW w, Sana(w), TypeOK
  PROVE  /\ w.archivo \in Existentes /\ w.offset \in Nat /\ w.datos \in Seq(Bytes)
         /\ w.bloque \in Nat /\ w.escritos \in Nat
         /\ Len(w.datos) \in Nat \ {0} /\ DOMAIN w.datos = 1..Len(w.datos)
         /\ w.offset + Len(w.datos) <= nodo[w.archivo].tam
BY EmptySeq, LenProperties DEF Sana

\* What a step writes is of the write, and in a block of its file.
LEMMA EscribeDentro ==
  ASSUME TypeOK, NEW w, Sana(w)
  PROVE  /\ w.bloque + 1 \in DOMAIN nodo[w.archivo].p
         /\ Primero(w, w.bloque) \in Posiciones /\ Cuantos(w, w.bloque) \in Nat
         /\ \A k \in Primero(w, w.bloque)..Primero(w, w.bloque) + Cuantos(w, w.bloque) - 1 :
              TAM_BLOQUE * w.bloque + k - w.offset + 1 \in 1..Len(w.datos)
<1> DEFINE o == w.offset
           m == Len(w.datos)
           b == w.bloque
           f == w.offset \div TAM_BLOQUE
           u == UltimoBloque(w)
           d == Primero(w, w.bloque)
           n == Cuantos(w, w.bloque)
           r == (w.offset + Len(w.datos)) % TAM_BLOQUE
           t == nodo[w.archivo].tam
<1>1. /\ o \in Nat /\ b \in Nat /\ m \in Nat \ {0} /\ w.archivo \in Existentes /\ t \in Nat
      /\ o + m <= t /\ o + m - 1 \in Int /\ o + m \in Int /\ o \in Int
  <2>1. o \in Nat /\ b \in Nat /\ m \in Nat \ {0} /\ w.archivo \in Existentes /\ o + m <= t
    BY SanaTipo
  <2>2. t \in Nat
    BY <2>1, NodoTipo
  <2> HIDE DEF o, m, b, t
  <2>3. QED
    BY <2>1, <2>2
<1>2. f \in Int /\ u \in Int /\ r \in Posiciones /\ f <= b /\ b <= u
  BY <1>1, Division DEF UltimoBloque, Sana
<1>3. /\ TAM_BLOQUE * f <= o /\ o < TAM_BLOQUE * f + TAM_BLOQUE
      /\ o % TAM_BLOQUE \in Posiciones /\ o = TAM_BLOQUE * f + (o % TAM_BLOQUE)
  BY <1>1, <1>2, EnBloque, Division
<1>4. TAM_BLOQUE * u <= o + m - 1 /\ o + m - 1 < TAM_BLOQUE * u + TAM_BLOQUE
  BY <1>1, <1>2, EnBloque DEF UltimoBloque
<1>5. /\ d = IF b = f THEN o % TAM_BLOQUE ELSE 0
      /\ n = IF f = u THEN m ELSE IF b < u THEN TAM_BLOQUE - d ELSE r
  BY DEF Primero, Cuantos
<1>6. b + 1 \in DOMAIN nodo[w.archivo].p
  <2>1. o + m \in 1..t
    BY <1>1
  <2>2. 1 + u \in 1..CantBloques(t)
    <3>1. 1 + ((o + m) - 1) \div TAM_BLOQUE \in 1..CantBloques(t)
      <4> HIDE DEF o, m, t
      <4>1. QED
        BY <1>1, <2>1, Lugar
    <3>2. u = (o + m - 1) \div TAM_BLOQUE
      BY DEF UltimoBloque
    <3> HIDE DEF o, m, t, u
    <3>3. QED
      BY <1>1, <1>2, <3>1, <3>2, TamBloque
  <2>3. DOMAIN nodo[w.archivo].p = 1..CantBloques(t) /\ CantBloques(t) \in Nat
    BY <1>1, NodoTipo
  <2> HIDE DEF t, b, u
  <2>4. QED
    BY <1>1, <1>2, <2>2, <2>3
<1> HIDE DEF o, m, b, f, u, d, n, r, t
<1>7. /\ TAM_BLOQUE \in Nat \ {0} /\ TAM_BLOQUE * f \in Int /\ TAM_BLOQUE * b \in Int /\ TAM_BLOQUE * u \in Int
      /\ f < b => TAM_BLOQUE * f + TAM_BLOQUE <= TAM_BLOQUE * b
      /\ b < u => TAM_BLOQUE * b + TAM_BLOQUE <= TAM_BLOQUE * u
  BY <1>1, <1>2, TamBloque, Orden
<1>8. d \in Posiciones
  BY <1>3, <1>5, <1>7 DEF Posiciones
<1>9. n \in Nat
  BY <1>1, <1>2, <1>5, <1>7, <1>8 DEF Posiciones
<1>10. r = 0 \/ TAM_BLOQUE * u + r = o + m
  <2>1. PICK q \in Int : o + m = TAM_BLOQUE * q + r
    BY <1>1, Division DEF r, o, m
  <2>2. /\ q < u => TAM_BLOQUE * q + TAM_BLOQUE <= TAM_BLOQUE * u
        /\ q > u => TAM_BLOQUE * u + TAM_BLOQUE <= TAM_BLOQUE * q
        /\ TAM_BLOQUE * q \in Int
    BY <1>2, Orden
  <2>3. r \in Int /\ 0 <= r /\ r < TAM_BLOQUE
    BY <1>2, <1>7 DEF Posiciones
  <2>4. ~ (q < u)
    BY <1>1, <1>4, <1>7, <2>1, <2>2, <2>3
  <2>5. q > u => r = 0
    BY <1>1, <1>4, <1>7, <2>1, <2>2, <2>3
  <2>6. QED
    BY <1>2, <2>1, <2>4, <2>5
<1>11. ASSUME NEW k \in d..d + n - 1
       PROVE  TAM_BLOQUE * b + k - o + 1 \in 1..m
  <2>1. k \in Int /\ d <= k /\ k < d + n /\ d \in Int /\ 0 <= d
    BY <1>7, <1>8, <1>9 DEF Posiciones
  <2>2. o <= TAM_BLOQUE * b + d /\ (b = f => o = TAM_BLOQUE * b + d)
    BY <1>1, <1>2, <1>3, <1>5, <1>7, <2>1
  <2>3. TAM_BLOQUE * b + k < o + m
    <3>1. CASE f = u
      BY <1>1, <1>2, <1>5, <1>7, <2>1, <2>2, <3>1
    <3>2. CASE f # u /\ b < u
      BY <1>1, <1>2, <1>4, <1>5, <1>7, <2>1, <3>2
    <3>3. CASE f # u /\ ~ (b < u)
      <4>1. b = u /\ n = r /\ d = 0
        BY <1>1, <1>2, <1>5, <3>3
      <4>2. QED
        <5>1. r # 0
          BY <2>1, <4>1
        <5>2. QED
          <6>1. k < r /\ r \in Int /\ TAM_BLOQUE * b = TAM_BLOQUE * u /\ TAM_BLOQUE * u + r = o + m
            BY <1>2, <1>7, <1>10, <2>1, <4>1, <5>1 DEF Posiciones
          <6>2. QED
            BY <1>1, <1>7, <2>1, <6>1
    <3>4. QED
      BY <3>1, <3>2, <3>3
  <2>4. QED
    BY <1>1, <1>7, <2>1, <2>2, <2>3
<1>12. QED
  BY <1>6, <1>8, <1>9, <1>11 DEF o, m, b, d, n

\* A change of the size of one file.
LEMMA CambiaNodos ==
  ASSUME BloquesInv, NEW a \in Existentes, NEW tam, CambiaUno(a, tam), UNCHANGED dato
  PROVE  TypeOK' /\ BloquesDeUno'
<1>1. /\ DOMAIN nodo' = Existentes /\ \A o \in Existentes \ {a} : nodo'[o] = nodo[o]
      /\ nodo'[a].tam = tam /\ tam \in 0..TamMax
      /\ nodo'[a].p \in Seq(Bloques) /\ Len(nodo'[a].p) = CantBloques(tam)
  BY DEF CambiaUno
<1>2. TypeOK'
  <2>1. ASSUME NEW o \in Existentes
        PROVE  /\ nodo'[o].tam \in 0..TamMax
               /\ nodo'[o].p \in Seq(Bloques) /\ Len(nodo'[o].p) = CantBloques(nodo'[o].tam)
    <3>1. CASE o = a
      BY <1>1, <3>1
    <3>2. CASE o # a
      BY <1>1, <3>2 DEF BloquesInv, TypeOK
    <3>3. QED
      BY <3>1, <3>2
  <2>2. QED
    BY <1>1, <2>1 DEF BloquesInv, TypeOK, Existentes
<1>3. /\ Len(nodo'[a].p) \in Nat /\ DOMAIN nodo'[a].p = 1..Len(nodo'[a].p)
      /\ Len(nodo[a].p) \in Nat /\ DOMAIN nodo[a].p = 1..Len(nodo[a].p)
  BY <1>1, NodoTipo, LenProperties DEF BloquesInv
\* A block of a is of no other file.
<1>4. ASSUME NEW o \in Existentes, o # a, NEW i \in DOMAIN nodo'[a].p, NEW j \in DOMAIN nodo[o].p
      PROVE  nodo'[a].p[i] # nodo[o].p[j]
  <2>1. CASE i <= Len(nodo[a].p)
    <3>1. i \in DOMAIN nodo[a].p /\ nodo'[a].p[i] = nodo[a].p[i]
      BY <1>3, <2>1 DEF CambiaUno
    <3>2. QED
      BY <1>4, <3>1 DEF BloquesInv, BloquesDeUno
  <2>2. CASE ~ (i <= Len(nodo[a].p))
    <3>1. nodo'[a].p[i] \in Libres
      BY <1>3, <2>2 DEF CambiaUno
    <3>2. nodo[o].p[j] \in Ocupados
      BY DEF Ocupados
    <3>3. QED
      BY <3>1, <3>2 DEF Libres
  <2>3. QED
    BY <2>1, <2>2
<1>5. ASSUME NEW o \in Existentes, NEW q \in Existentes, NEW i \in DOMAIN nodo'[o].p, NEW j \in DOMAIN nodo'[q].p,
             nodo'[o].p[i] = nodo'[q].p[j]
      PROVE  o = q /\ i = j
  <2>1. CASE o = a /\ q = a
    BY <1>3, <1>5, <2>1 DEF CambiaUno
  <2>2. CASE o = a /\ q # a
    BY <1>1, <1>4, <1>5, <2>2
  <2>3. CASE o # a /\ q = a
    BY <1>1, <1>4, <1>5, <2>3
  <2>4. CASE o # a /\ q # a
    BY <1>1, <1>5, <2>4 DEF BloquesInv, BloquesDeUno
  <2>5. QED
    BY <2>1, <2>2, <2>3, <2>4
<1>6. BloquesDeUno'
  BY <1>1, <1>5 DEF BloquesDeUno, Existentes
<1>7. QED
  BY <1>2, <1>6

\* SYS_CREATE, SYS_UNLINK and SYS_TRUNCATE keep the invariant.
LEMMA CrearPaso ==
  ASSUME BloquesInv, NEW a \in Archivos, Crear(a)
  PROVE  BloquesInv'
<1>1. /\ escritura = {} /\ escritura' = {} /\ a \notin Existentes /\ UNCHANGED dato
      /\ DOMAIN nodo' = Existentes \cup {a}
      /\ \A o \in Existentes : nodo'[o] = nodo[o]
      /\ nodo'[a] = [tam |-> 0, p |-> <<>>]
  BY DEF Crear
<1>2. CantBloques(0) = 0
  <2>1. CantBloques(0) \in Nat /\ (CantBloques(0) <= 0 <=> 0 <= TAM_BLOQUE * 0) /\ TAM_BLOQUE * 0 = 0
    BY Cantidad, CantidadMaxima, TamBloque
  <2>2. QED
    BY <2>1
<1>3. nodo'[a].tam = 0 /\ nodo'[a].p = <<>> /\ 0 \in 0..TamMax /\ <<>> \in Seq(Bloques) /\ Len(<<>>) = 0
  <2>1. TamMax \in Nat
    BY TamBloque DEF TamMax
  <2>2. QED
    BY <1>1, <2>1
<1>4. TypeOK'
  <2>1. ASSUME NEW o \in Existentes \cup {a}
        PROVE  /\ nodo'[o].tam \in 0..TamMax
               /\ nodo'[o].p \in Seq(Bloques) /\ Len(nodo'[o].p) = CantBloques(nodo'[o].tam)
    BY <1>1, <1>2, <1>3 DEF BloquesInv, TypeOK
  <2>2. QED
    BY <1>1, <2>1 DEF BloquesInv, TypeOK, Existentes
<1>5. BloquesDeUno'
  <2>1. DOMAIN nodo'[a].p = {}
    BY <1>3
  <2>2. QED
    BY <1>1, <2>1 DEF BloquesInv, BloquesDeUno, Existentes
<1>6. QED
  BY <1>1, <1>4, <1>5 DEF BloquesInv, EscrituraSana

LEMMA BorrarPaso ==
  ASSUME BloquesInv, NEW a \in Archivos, Borrar(a)
  PROVE  BloquesInv'
<1>1. /\ escritura' = {} /\ UNCHANGED dato /\ DOMAIN nodo' = Existentes \ {a}
      /\ \A o \in Existentes \ {a} : nodo'[o] = nodo[o]
  BY DEF Borrar
<1>2. TypeOK' /\ BloquesDeUno'
  BY <1>1 DEF BloquesInv, TypeOK, BloquesDeUno, Existentes
<1>3. QED
  BY <1>1, <1>2 DEF BloquesInv, EscrituraSana

LEMMA TruncarPaso ==
  ASSUME BloquesInv, NEW a \in Archivos, NEW tam \in 0..TamMax, Truncar(a, tam)
  PROVE  BloquesInv'
<1>1. tam \in Nat /\ a \in Existentes /\ cambiarTamanioArchivo(a, tam) /\ escritura' = {} /\ UNCHANGED dato
  BY TamBloque DEF TamMax, Truncar
<1>2. TypeOK' /\ BloquesDeUno'
  BY <1>1, CambiaTamanio, CambiaNodos
<1>3. QED
  BY <1>1, <1>2 DEF BloquesInv, EscrituraSana

\* What a program writes.
LEMMA DatosTipo ==
  ASSUME NEW datos \in Datos
  PROVE  datos \in Seq(Bytes) /\ Len(datos) \in Nat \ {0} /\ datos # <<>>
<1>1. MaxPaginas * TAM_BLOQUE \in Nat
  BY TamBloque
<1>2. PICK n \in 1..MaxPaginas * TAM_BLOQUE : datos \in [1..n -> Bytes]
  BY DEF Datos
<1>3. n \in Nat \ {0}
  BY <1>1
<1>4. datos \in Seq(Bytes) /\ Len(datos) = n
  BY <1>2, <1>3, FuncionEsSecuencia
<1>5. QED
  BY <1>3, <1>4

\* The nodes after a write is accepted.
LEMMA AceptaNodos ==
  ASSUME BloquesInv, NEW a \in Archivos, NEW offset \in 0..TamMax, NEW datos \in Datos,
         AceptarEscritura(a, offset, datos)
  PROVE  /\ a \in Existentes /\ UNCHANGED dato /\ offset \in Nat
         /\ \/ UNCHANGED nodo /\ offset + Len(datos) <= nodo[a].tam
            \/ CambiaUno(a, offset + Len(datos)) /\ offset + Len(datos) > nodo[a].tam
<1>1. a \in Existentes /\ UNCHANGED dato /\ offset \in Nat /\ offset + Len(datos) \in Nat /\ nodo[a].tam \in Nat
  BY TamBloque, DatosTipo, NodoTipo DEF TamMax, AceptarEscritura, BloquesInv
<1>2. CASE offset + Len(datos) > nodo[a].tam
  BY <1>1, <1>2, CambiaTamanio DEF AceptarEscritura
<1>3. CASE ~ (offset + Len(datos) > nodo[a].tam)
  <2>1. UNCHANGED nodo
    BY <1>3 DEF AceptarEscritura
  <2>2. QED
    BY <1>1, <1>3, <2>1
<1>4. QED
  BY <1>2, <1>3

\* A write whose size has been given begins inside its file.
LEMMA AceptarPaso ==
  ASSUME BloquesInv, NEW a \in Archivos, NEW offset \in 0..TamMax, NEW datos \in Datos,
         AceptarEscritura(a, offset, datos)
  PROVE  BloquesInv'
<1> DEFINE w == [archivo |-> a, offset |-> offset, datos |-> datos,
                 bloque |-> offset \div TAM_BLOQUE, escritos |-> 0]
<1>1. /\ a \in Existentes /\ UNCHANGED dato /\ offset \in Nat
      /\ datos \in Seq(Bytes) /\ datos # <<>> /\ Len(datos) \in Nat \ {0} /\ nodo[a].tam \in Nat
  BY AceptaNodos, DatosTipo, NodoTipo DEF BloquesInv
<1>3. TypeOK' /\ BloquesDeUno' /\ a \in DOMAIN nodo' /\ offset + Len(datos) <= nodo'[a].tam
  <2>1. CASE UNCHANGED nodo /\ offset + Len(datos) <= nodo[a].tam
    BY <1>1, <2>1 DEF BloquesInv, TypeOK, BloquesDeUno, Existentes
  <2>2. CASE CambiaUno(a, offset + Len(datos))
    <3>1. TypeOK' /\ BloquesDeUno'
      BY <1>1, <2>2, CambiaNodos
    <3>2. a \in DOMAIN nodo' /\ nodo'[a].tam = offset + Len(datos)
      BY <1>1, <2>2 DEF CambiaUno
    <3>3. QED
      BY <1>1, <3>1, <3>2
  <2>3. QED
    BY <2>1, <2>2, AceptaNodos
<1>4. offset \div TAM_BLOQUE \in Nat /\ offset \div TAM_BLOQUE <= (offset + Len(datos) - 1) \div TAM_BLOQUE
  <2>1. offset \in Int /\ offset + Len(datos) - 1 \in Int /\ offset <= offset + Len(datos) - 1
    BY <1>1
  <2>2. 0 \div TAM_BLOQUE = 0
    BY TamBloque, EnBloque
  <2>3. 0 \div TAM_BLOQUE <= offset \div TAM_BLOQUE /\ offset \div TAM_BLOQUE \in Int
    BY <1>1, <2>1, OrdenDeBloques, Division
  <2>4. QED
    BY <2>1, <2>2, <2>3, OrdenDeBloques
<1>5. /\ w.archivo = a /\ w.offset = offset /\ w.datos = datos /\ w.bloque = offset \div TAM_BLOQUE
      /\ w \in [archivo : Archivos, offset : Nat, datos : Seq(Bytes), bloque : Nat, escritos : Nat]
  BY <1>1, <1>4
<1>6. escritura' = {w} /\ respuesta' = SinRespuesta
  BY DEF AceptarEscritura
<1> HIDE DEF w
<1>7. UltimoBloque(w) = (offset + Len(datos) - 1) \div TAM_BLOQUE
  BY <1>5 DEF UltimoBloque
<1>8. Sana(w)'
  BY <1>1, <1>3, <1>4, <1>5, <1>7 DEF Sana, Existentes, UltimoBloque
<1>9. QED
  BY <1>3, <1>6, <1>8 DEF BloquesInv, EscrituraSana

\* The write after one more block.
LEMMA EscrituraSigue ==
  ASSUME NEW w \in [archivo : Archivos, offset : Nat, datos : Seq(Bytes), bloque : Nat, escritos : Nat],
         NEW n \in Nat
  PROVE  LET v == [w EXCEPT !.bloque = @ + 1, !.escritos = @ + n]
         IN /\ v \in [archivo : Archivos, offset : Nat, datos : Seq(Bytes), bloque : Nat, escritos : Nat]
            /\ v.archivo = w.archivo /\ v.offset = w.offset /\ v.datos = w.datos /\ v.bloque = w.bloque + 1
<1> DEFINE v == [w EXCEPT !.bloque = @ + 1, !.escritos = @ + n]
<1>1. w.bloque + 1 \in Nat /\ w.escritos + n \in Nat
  OBVIOUS
<1>2. v \in [archivo : Archivos, offset : Nat, datos : Seq(Bytes), bloque : Nat, escritos : Nat]
  BY <1>1
<1>3. v.archivo = w.archivo /\ v.offset = w.offset /\ v.datos = w.datos /\ v.bloque = w.bloque + 1
  OBVIOUS
<1>4. QED
  BY <1>2, <1>3

\* Writing one block keeps the invariant.
LEMMA EscribirPaso ==
  ASSUME BloquesInv, escribirBloqueDatos
  PROVE  BloquesInv'
<1>1. PICK w \in escritura :
        LET b == nodo[w.archivo].p[w.bloque + 1]
            desde == Primero(w, w.bloque)
            n == Cuantos(w, w.bloque)
            yaDatos == w.bloque * TAM_BLOQUE + desde - w.offset
        IN /\ dato' = [dato EXCEPT ![b] =
                         [k \in Posiciones |-> IF k \in desde..desde + n - 1
                                               THEN w.datos[yaDatos + k - desde + 1]
                                               ELSE @[k]]]
           /\ \/ /\ w.bloque < UltimoBloque(w)
                 /\ escritura' = {[w EXCEPT !.bloque = @ + 1, !.escritos = @ + n]}
                 /\ UNCHANGED respuesta
              \/ escritura' = {}
           /\ UNCHANGED nodo
  BY Zenon DEF escribirBloqueDatos
<1> DEFINE b == nodo[w.archivo].p[w.bloque + 1]
           d == Primero(w, w.bloque)
           n == Cuantos(w, w.bloque)
           y == w.bloque * TAM_BLOQUE + d - w.offset
           v == [w EXCEPT !.bloque = @ + 1, !.escritos = @ + n]
<1>2. Sana(w) /\ respuesta = SinRespuesta /\ TypeOK
  BY DEF BloquesInv, EscrituraSana
<1>3. /\ d \in Posiciones /\ n \in Nat /\ w.offset \in Nat /\ w.bloque \in Nat /\ w.datos \in Seq(Bytes)
      /\ \A k \in d..d + n - 1 : TAM_BLOQUE * w.bloque + k - w.offset + 1 \in 1..Len(w.datos)
  BY SMTT(30), <1>2, EscribeDentro, SanaTipo
<1>4. /\ dato' = [dato EXCEPT ![b] = [k \in Posiciones |-> IF k \in d..d + n - 1 THEN w.datos[y + k - d + 1] ELSE @[k]]]
      /\ UNCHANGED nodo
      /\ \/ w.bloque < UltimoBloque(w) /\ escritura' = {v} /\ UNCHANGED respuesta
         \/ escritura' = {}
  BY <1>1
<1>5. \A k \in d..d + n - 1 : w.datos[y + k - d + 1] \in Bytes
  <2>1. TAKE k \in d..d + n - 1
  <2>2. y + k - d + 1 = TAM_BLOQUE * w.bloque + k - w.offset + 1
    <3>1. d \in Int /\ k \in Int /\ TAM_BLOQUE * w.bloque \in Int /\ w.bloque * TAM_BLOQUE = TAM_BLOQUE * w.bloque
      BY SMTT(30), <1>3, TamBloque, Orden DEF Posiciones
    <3> HIDE DEF d, n
    <3>2. QED
      BY SMTT(30), <1>3, <3>1
  <2> HIDE DEF d, n, y
  <2>3. QED
    BY <1>3, <2>2, ElementOfSeq
<1> HIDE DEF b, d, n, y
<1>6. dato' \in [Bloques -> [Posiciones -> Bytes \cup {NULO}]]
  <2>1. dato \in [Bloques -> [Posiciones -> Bytes \cup {NULO}]]
    BY DEF BloquesInv, TypeOK
  <2>2. b \in Bloques => [k \in Posiciones |-> IF k \in d..d + n - 1 THEN w.datos[y + k - d + 1] ELSE dato[b][k]]
                           \in [Posiciones -> Bytes \cup {NULO}]
    BY <1>5, <2>1
  <2>3. QED
    BY <1>4, <2>1, <2>2
<1>7. TypeOK' /\ BloquesDeUno'
  BY <1>4, <1>6 DEF BloquesInv, TypeOK, BloquesDeUno, Existentes
<1>8. CASE w.bloque < UltimoBloque(w) /\ escritura' = {v} /\ UNCHANGED respuesta
  <2>1. w \in [archivo : Archivos, offset : Nat, datos : Seq(Bytes), bloque : Nat, escritos : Nat]
    BY <1>2 DEF Sana
  <2>2. /\ v \in [archivo : Archivos, offset : Nat, datos : Seq(Bytes), bloque : Nat, escritos : Nat]
        /\ v.archivo = w.archivo /\ v.offset = w.offset /\ v.datos = w.datos /\ v.bloque = w.bloque + 1
    BY <1>3, <2>1, EscrituraSigue DEF v
  <2> HIDE DEF v
  <2>3. UltimoBloque(v) = UltimoBloque(w) /\ UltimoBloque(w) \in Int /\ w.offset \div TAM_BLOQUE \in Int
    <3>1. w.offset + Len(w.datos) - 1 \in Int
      BY <1>2, SanaTipo
    <3>2. UltimoBloque(w) \in Int
      BY <3>1, Division DEF UltimoBloque
    <3>3. UltimoBloque(v) = UltimoBloque(w)
      BY <2>2 DEF UltimoBloque
    <3>4. w.offset \div TAM_BLOQUE \in Int
      BY <1>2, SanaTipo, Division
    <3>5. QED
      BY <3>2, <3>3, <3>4
  <2>4. w.offset \div TAM_BLOQUE <= w.bloque + 1 /\ w.bloque + 1 <= UltimoBloque(w)
    BY <1>2, <1>3, <1>8, <2>3 DEF Sana
  <2>5. Sana(v)
    BY <1>2, <2>2, <2>3, <2>4 DEF Sana
  <2>6. Sana(v)'
    BY <1>4, <2>5 DEF Sana, Existentes, UltimoBloque
  <2>7. QED
    BY <1>2, <1>7, <1>8, <2>6 DEF BloquesInv, EscrituraSana
<1>9. CASE escritura' = {}
  BY <1>7, <1>9 DEF BloquesInv, EscrituraSana
<1>10. QED
  BY <1>4, <1>8, <1>9, Zenon

\* The disk as it is formatted.
LEMMA BloquesInicial ==
  ASSUME Init
  PROVE  BloquesInv
<1>1. Existentes = {} /\ escritura = {}
  BY DEF Init, Existentes
<1>2. dato \in [Bloques -> [Posiciones -> Bytes \cup {NULO}]]
  BY DEF Init
<1>3. QED
  BY <1>1, <1>2 DEF BloquesInv, TypeOK, BloquesDeUno, EscrituraSana

\* Steps that leave the blocks and the nodes alone.
LEMMA MiraPaso ==
  ASSUME BloquesInv, UNCHANGED <<nodo, dato>>, escritura' = {}
  PROVE  BloquesInv'
BY DEF BloquesInv, TypeOK, BloquesDeUno, EscrituraSana, Existentes

\* Every step keeps the invariant.
LEMMA BloquesPaso ==
  ASSUME BloquesInv, [Next]_vars
  PROVE  BloquesInv'
<1>1. ASSUME NEW a \in Archivos, Crear(a) \/ Borrar(a) \/ Escribir(a)
      PROVE  BloquesInv'
  <2>1. CASE Crear(a)
    BY <2>1, CrearPaso
  <2>2. CASE Borrar(a)
    BY <2>2, BorrarPaso
  <2>3. CASE Escribir(a)
    <3>1. PICK offset \in 0..TamMax, datos \in Datos :
            AceptarEscritura(a, offset, datos) \/ RechazarEscritura(a, offset, datos)
      BY <2>3 DEF Escribir
    <3>2. CASE AceptarEscritura(a, offset, datos)
      BY <3>2, AceptarPaso
    <3>3. CASE RechazarEscritura(a, offset, datos)
      BY <3>3, MiraPaso DEF RechazarEscritura
    <3>4. QED
      BY <3>1, <3>2, <3>3
  <2>4. QED
    BY <1>1, <2>1, <2>2, <2>3
<1>2. ASSUME NEW a \in Archivos, NEW tam \in 0..TamMax, Truncar(a, tam)
      PROVE  BloquesInv'
  BY <1>2, TruncarPaso
<1>3. ASSUME NEW a \in Archivos, NEW pagina, NEW paginas, Leer(a, pagina, paginas)
      PROVE  BloquesInv'
  BY <1>3, MiraPaso DEF Leer
<1>4. CASE escribirBloqueDatos
  BY <1>4, EscribirPaso
<1>5. CASE Caer
  BY <1>5, MiraPaso DEF Caer
<1>6. CASE UNCHANGED vars
  BY <1>6 DEF vars, BloquesInv, TypeOK, BloquesDeUno, EscrituraSana, Sana, UltimoBloque, Existentes
<1>7. QED
  BY <1>1, <1>2, <1>3, <1>4, <1>5, <1>6 DEF Next

\* Whatever is created, written, truncated and deleted, and whenever the
\* server dies, no block is in two files or twice in one, every file has the
\* blocks its size needs, and the write under way is inside its file.
THEOREM BloquesSiempre == Spec => []BloquesInv
BY BloquesInicial, BloquesPaso, PTL DEF Spec

\* In particular the types hold: cambiarTamanioArchivo leaves as many pointers
\* as ceil(tam / TAM_BLOQUE) and no more than MaxPunteros.
THEOREM TypeOKSiempre == Spec => []TypeOK
<1>1. BloquesInv => TypeOK
  BY DEF BloquesInv
<1>2. QED
  BY <1>1, BloquesSiempre, PTL

-----------------------------------------------------------------------------
(* Reading *)

\* f is a sequence of n elements.
Tira(f, n) == f = [i \in 1..n |-> f[i]]

\* h is f, of m elements, and g, of n, one after the other.
Unidas(h, f, m, g, n) ==
  /\ Tira(h, m + n)
  /\ \A k \in 1..m : h[k] = f[k]
  /\ \A k \in 1..n : h[m + k] = g[k]

LEMMA Concatena ==
  ASSUME NEW m \in Nat, NEW n \in Nat, NEW f, NEW g, Tira(f, m), Tira(g, n)
  PROVE  Unidas(f \o g, f, m, g, n)
<1> DEFINE S == {f[i] : i \in 1..m} \cup {g[i] : i \in 1..n}
<1>1. f \in [1..m -> S] /\ g \in [1..n -> S]
  <2>1. \A i \in 1..m : f[i] \in S
    OBVIOUS
  <2>2. \A i \in 1..n : g[i] \in S
    OBVIOUS
  <2> HIDE DEF S
  <2>3. QED
    BY <2>1, <2>2 DEF Tira
<1> HIDE DEF S
<1>2. f \in Seq(S) /\ g \in Seq(S) /\ Len(f) = m /\ Len(g) = n
  BY <1>1, FuncionEsSecuencia
<1>3. /\ f \o g \in Seq(S) /\ Len(f \o g) = m + n
      /\ \A i \in 1..m + n : (f \o g)[i] = IF i <= m THEN f[i] ELSE g[i - m]
  BY ZenonT(40), <1>2, ConcatProperties
<1>4. DOMAIN (f \o g) = 1..m + n /\ f \o g \in [1..m + n -> S]
  BY <1>3, LenProperties
<1>5. Tira(f \o g, m + n)
  BY <1>4 DEF Tira
<1>6. \A k \in 1..m : (f \o g)[k] = f[k]
  BY <1>3
<1>7. \A k \in 1..n : (f \o g)[m + k] = g[k]
  <2>1. TAKE k \in 1..n
  <2>2. m + k \in 1..m + n /\ ~ (m + k <= m) /\ (m + k) - m = k
    OBVIOUS
  <2>3. QED
    BY <1>3, <2>2
<1>8. QED
  BY <1>5, <1>6, <1>7, Zenon DEF Unidas

\* A piece of a sequence.
LEMMA Pedazo ==
  ASSUME NEW s, NEW o \in Nat, NEW h \in Nat
  PROVE  /\ Len(SubSeq(s, o + 1, h)) = IF o < h THEN h - o ELSE 0
         /\ \A k \in 1..h - o : SubSeq(s, o + 1, h)[k] = s[o + k]
<1> DEFINE S == {s[i] : i \in o + 1..h}
<1>1. o + 1 \in Int /\ h \in Int /\ \A i \in o + 1..h : s[i] \in S
  OBVIOUS
<1> HIDE DEF S
<1>2. /\ Len(SubSeq(s, o + 1, h)) = IF o + 1 <= h THEN h - (o + 1) + 1 ELSE 0
      /\ \A k \in 1..h - (o + 1) + 1 : SubSeq(s, o + 1, h)[k] = s[(o + 1) + k - 1]
  BY <1>1, SubSeqProperties
<1>3. h - (o + 1) + 1 = h - o /\ (o + 1 <= h <=> o < h)
  OBVIOUS
<1>4. \A k \in 1..h - o : (o + 1) + k - 1 = o + k
  OBVIOUS
<1>5. QED
  BY <1>2, <1>3, <1>4

\* The k-th byte of the n that are read from offset on.
Byte(a, n) == dato[nodo[a].p[1 + n \div TAM_BLOQUE]][n % TAM_BLOQUE]

\* The initial block, those in between and the final one are the bytes of the
\* file in their order.
LEMMA LeeLosBloques ==
  ASSUME NEW a, NEW offset \in Nat, NEW tam \in Nat \ {0}, NEW k \in 1..tam
  PROVE  BytesDeBloques(a, offset, tam)[k] = Byte(a, offset + k - 1)
<1> DEFINE ini == offset \div TAM_BLOQUE
           fin == (offset + tam - 1) \div TAM_BLOQUE
           desde == offset % TAM_BLOQUE
           hasta == (offset + tam - 1) % TAM_BLOQUE
           T == TAM_BLOQUE
<1>1. /\ T \in Nat \ {0} /\ ini \in Int /\ fin \in Int /\ desde \in Posiciones /\ hasta \in Posiciones
      /\ offset = T * ini + desde /\ offset + tam - 1 = T * fin + hasta
  <2>1. offset \in Int /\ offset + tam - 1 \in Int
    OBVIOUS
  <2>2. QED
    BY <2>1, Division, TamBloque
<1>2. ini <= fin
  <2>1. offset \in Int /\ offset + tam - 1 \in Int /\ offset <= offset + tam - 1
    OBVIOUS
  <2>2. QED
    BY <2>1, OrdenDeBloques
<1>3. /\ desde \in Int /\ 0 <= desde /\ desde < T /\ hasta \in Int /\ 0 <= hasta /\ hasta < T
  BY <1>1 DEF Posiciones
<1>4. /\ T * ini \in Int /\ T * fin \in Int
      /\ T * (ini + 1) = T * ini + T
      /\ T * (fin - (ini + 1)) \in Int /\ T * (fin - (ini + 1)) = T * fin - T * (ini + 1)
      /\ (fin - (ini + 1)) * T = T * (fin - (ini + 1))
      /\ ini < fin => T * ini + T <= T * fin
  <2>1. ini + 1 \in Int /\ fin - (ini + 1) \in Int
    BY <1>1
  <2>2. QED
    BY <1>1, <2>1, Orden
<1> DEFINE A == leerBloqueDatos(nodo[a].p[ini + 1], desde, T - desde)
           B == Intermedios(a, ini + 1, fin)
           C == leerBloqueDatos(nodo[a].p[fin + 1], 0, hasta + 1)
<1>5. BytesDeBloques(a, offset, tam) = IF ini = fin THEN leerBloqueDatos(nodo[a].p[ini + 1], desde, tam)
                                       ELSE A \o B \o C
  BY DEF BytesDeBloques
<1>6. CASE ini = fin
  <2>1. BytesDeBloques(a, offset, tam)[k] = dato[nodo[a].p[ini + 1]][desde + k - 1]
    BY <1>5, <1>6 DEF leerBloqueDatos
  <2> HIDE DEF ini, fin, desde, hasta, T, A, B, C
  <2>2. offset + k - 1 = T * ini + (desde + k - 1) /\ desde + k - 1 \in 0..T - 1
    BY <1>1, <1>3, <1>4, <1>6
  <2>3. (offset + k - 1) \div TAM_BLOQUE = ini /\ (offset + k - 1) % TAM_BLOQUE = desde + k - 1
    BY <1>1, <2>2, Cociente DEF Posiciones, T
  <2>4. 1 + ini = ini + 1
    BY <1>1
  <2>5. QED
    BY SMTT(30), <2>1, <2>3, <2>4 DEF Byte
<1>7. CASE ini # fin
  <2> DEFINE n == T * (fin - (ini + 1))
  <2>1. /\ Tira(A, T - desde)
        /\ \A i \in 1..T - desde : A[i] = dato[nodo[a].p[ini + 1]][desde + i - 1]
    BY SMTT(30) DEF leerBloqueDatos, Tira
  <2>2. /\ Tira(B, n)
        /\ \A i \in 1..n : B[i] = dato[nodo[a].p[(ini + 1) + 1 + (i - 1) \div TAM_BLOQUE]][(i - 1) % TAM_BLOQUE]
    <3>1. (fin - (ini + 1)) * TAM_BLOQUE = n
      BY <1>4
    <3> HIDE DEF ini, fin, n
    <3>2. QED
      BY <3>1 DEF Intermedios, Tira
  <2>3. /\ Tira(C, hasta + 1)
        /\ \A i \in 1..hasta + 1 : C[i] = dato[nodo[a].p[fin + 1]][0 + i - 1]
    BY Zenon DEF leerBloqueDatos, Tira
  <2>4. BytesDeBloques(a, offset, tam) = A \o B \o C
    BY <1>5, <1>7, Zenon
  <2> HIDE DEF ini, fin, desde, hasta, T, A, B, C, n
  <2>5. T - desde \in Nat /\ n \in Nat /\ hasta + 1 \in Nat /\ ini < fin /\ (T - desde) + n \in Nat
    <3>1. ini < fin
      BY <1>1, <1>2, <1>7
    <3>2. n \in Int /\ n >= 0
      BY <1>1, <1>4, <3>1 DEF n
    <3>3. QED
      BY <1>1, <1>3, <3>1, <3>2
  <2>6. Unidas(A \o B, A, T - desde, B, n)
    BY <2>1, <2>2, <2>5, Concatena
  <2>7. Unidas(A \o B \o C, A \o B, (T - desde) + n, C, hasta + 1)
    <3>1. Tira(A \o B, (T - desde) + n)
      BY <2>6 DEF Unidas
    <3>2. QED
      BY <2>3, <2>5, <3>1, Concatena
  <2>8. n = T * fin - T * ini - T /\ n \in Nat /\ k \in Int /\ 1 <= k /\ k <= tam
    BY <1>1, <1>4, <2>5 DEF n
  <2>9. CASE k <= T - desde
    <3>1. k \in 1..T - desde /\ k \in 1..(T - desde) + n
      BY <1>1, <1>3, <2>5, <2>8, <2>9
    <3>2. (A \o B \o C)[k] = dato[nodo[a].p[ini + 1]][desde + k - 1]
      BY <2>1, <2>6, <2>7, <3>1 DEF Unidas
    <3>3. offset + k - 1 = T * ini + (desde + k - 1) /\ desde + k - 1 \in 0..T - 1
      BY <1>1, <1>3, <1>4, <2>8, <2>9
    <3>4. (offset + k - 1) \div TAM_BLOQUE = ini /\ (offset + k - 1) % TAM_BLOQUE = desde + k - 1
      BY <1>1, <3>3, Cociente DEF Posiciones, T
    <3>5. 1 + ini = ini + 1
      BY <1>1
    <3>6. QED
      BY <2>4, <3>2, <3>4, <3>5 DEF Byte
  <2>10. CASE T - desde < k /\ k <= (T - desde) + n
    <3> DEFINE i == k - (T - desde)
               q == (i - 1) \div TAM_BLOQUE
               r == (i - 1) % TAM_BLOQUE
    <3>1. i \in 1..n /\ k = (T - desde) + i /\ k \in 1..(T - desde) + n /\ i - 1 \in Int
      BY <1>1, <1>3, <2>5, <2>8, <2>10
    <3>2. q \in Int /\ r \in Posiciones /\ i - 1 = TAM_BLOQUE * q + r
      BY <3>1, Division
    <3>3. B[i] = dato[nodo[a].p[(ini + 1) + 1 + q]][r]
      BY <2>2, <3>1
    <3> HIDE DEF i, q, r
    <3>4. (A \o B \o C)[k] = B[i]
      BY <2>6, <2>7, <3>1 DEF Unidas
    <3>5. T * ((ini + 1) + q) = T * (ini + 1) + T * q /\ T * q \in Int /\ (ini + 1) + q \in Int
      BY <1>1, <3>2, Orden DEF T
    <3>6. i - 1 = T * q + r /\ r \in Int
      BY <3>2 DEF Posiciones, T
    <3>7. offset + k - 1 = T * ((ini + 1) + q) + r
      BY <1>1, <1>3, <1>4, <3>1, <3>5, <3>6
    <3>8. (offset + k - 1) \div TAM_BLOQUE = (ini + 1) + q /\ (offset + k - 1) % TAM_BLOQUE = r
      BY <3>2, <3>5, <3>7, Cociente DEF T
    <3>9. 1 + ((ini + 1) + q) = (ini + 1) + 1 + q
      BY <1>1, <3>2
    <3>10. QED
      BY <2>4, <3>3, <3>4, <3>8, <3>9 DEF Byte
  <2>11. CASE (T - desde) + n < k
    <3> DEFINE i == k - ((T - desde) + n)
    <3>1. k = (T - desde) + n + i /\ i \in Int /\ 1 <= i
      BY <1>1, <1>3, <2>5, <2>8, <2>11
    <3> HIDE DEF i
    <3>2. offset + k - 1 = T * fin + (i - 1)
      BY <1>1, <1>3, <1>4, <2>8, <3>1
    <3>3. i <= hasta + 1
      BY <1>1, <1>3, <1>4, <2>8, <3>1, <3>2
    <3>4. i \in 1..hasta + 1 /\ i - 1 \in 0..T - 1 /\ 0 + i - 1 = i - 1
      BY <1>1, <1>3, <3>1, <3>3
    <3>5. (A \o B \o C)[k] = dato[nodo[a].p[fin + 1]][i - 1]
      BY <2>3, <2>7, <3>1, <3>4 DEF Unidas
    <3>6. (offset + k - 1) \div TAM_BLOQUE = fin /\ (offset + k - 1) % TAM_BLOQUE = i - 1
      BY SMTT(30), <1>1, <3>2, <3>4, Cociente DEF Posiciones, T
    <3>7. 1 + fin = fin + 1
      BY <1>1
    <3>8. QED
      BY <2>4, <3>5, <3>6, <3>7 DEF Byte
  <2>12. (T - desde) + n \in Int /\ T - desde \in Int /\ k \in Int
    BY <2>5, <2>8
  <2>13. QED
    BY SMTT(30), <2>9, <2>10, <2>11, <2>12
<1>8. QED
  BY <1>6, <1>7

\* Such a sequence has n elements.
LEMMA LargoDeTira ==
  ASSUME NEW n \in Nat, NEW f, Tira(f, n)
  PROVE  Len(f) = n /\ DOMAIN f = 1..n /\ f \in Seq({f[i] : i \in 1..n})
<1> DEFINE S == {f[i] : i \in 1..n}
<1>1. \A i \in 1..n : f[i] \in S
  OBVIOUS
<1> HIDE DEF S
<1>2. f \in [1..n -> S]
  BY <1>1 DEF Tira
<1>3. f \in Seq(S) /\ Len(f) = n /\ DOMAIN f = 1..n
  BY <1>2, FuncionEsSecuencia
<1>4. QED
  BY <1>3 DEF S

\* The content of a file is as long as its size and made of its bytes.
LEMMA LargoDelContenido ==
  ASSUME NEW a, nodo[a].tam \in Nat
  PROVE  /\ Tira(Contenido(a), nodo[a].tam)
         /\ Len(Contenido(a)) = nodo[a].tam /\ DOMAIN Contenido(a) = 1..nodo[a].tam
         /\ \A k \in 1..nodo[a].tam : Contenido(a)[k] = Byte(a, k - 1)
<1>1. Tira(Contenido(a), nodo[a].tam)
  BY Zenon DEF Tira, Contenido
<1>2. \A k \in 1..nodo[a].tam : Contenido(a)[k] = Byte(a, k - 1)
  BY DEF Contenido, Byte
<1>3. QED
  BY <1>1, <1>2, LargoDeTira

\* What LeeSalvoElUltimo says of an answer.
Bien(r) ==
  /\ Len(r.bytes) = Len(Esperado(r))
  /\ \A k \in DOMAIN r.bytes :
       \/ r.bytes[k] = Esperado(r)[k]
       \/ /\ k = Len(r.bytes)
          /\ Len(r.bytes) < r.pedidos
          /\ k > TAM_BLOQUE

\* leerArchivo, asked for whole pages from the beginning of one, answers well.
LEMMA RespondeBien ==
  ASSUME TypeOK, NEW a \in Existentes, NEW pagina \in Nat, NEW paginas \in Nat \ {0},
         NEW offset, offset = pagina * TAM_BLOQUE, NEW pedidos, pedidos = paginas * TAM_BLOQUE,
         NEW r, r.archivo = a, r.offset = offset, r.pedidos = pedidos,
         r.bytes = leerArchivo(a, offset, pedidos)
  PROVE  Bien(r)
<1> DEFINE t == nodo[a].tam
           c == Contenido(a)
           sobran == offset + pedidos > t
           m == IF sobran THEN t - offset ELSE pedidos
           h == IF sobran THEN t ELSE offset + pedidos
<1>1. t \in Nat /\ offset \in Nat /\ pedidos \in Nat \ {0} /\ TAM_BLOQUE \in Nat \ {0} /\ offset = TAM_BLOQUE * pagina
  <2>1. t \in Nat /\ TAM_BLOQUE \in Nat \ {0}
    BY NodoTipo, TamBloque
  <2>2. pagina * TAM_BLOQUE \in Nat /\ paginas * TAM_BLOQUE \in Nat \ {0} /\ pagina * TAM_BLOQUE = TAM_BLOQUE * pagina
    <3>1. /\ TAM_BLOQUE * pagina \in Int /\ TAM_BLOQUE * pagina >= 0 /\ pagina * TAM_BLOQUE = TAM_BLOQUE * pagina
          /\ TAM_BLOQUE * paginas \in Int /\ paginas * TAM_BLOQUE = TAM_BLOQUE * paginas
          /\ TAM_BLOQUE * 0 = 0 /\ TAM_BLOQUE * 0 + TAM_BLOQUE <= TAM_BLOQUE * paginas
      BY <2>1, Orden
    <3>2. QED
      BY <2>1, <3>1
  <2>3. QED
    BY <2>1, <2>2
<1>2. /\ Len(c) = t /\ \A k \in 1..t : c[k] = Byte(a, k - 1)
  BY <1>1, LargoDelContenido
<1>3. Esperado(r) = SubSeq(c, offset + 1, h)
  BY <1>2 DEF Esperado
<1>4. r.bytes = IF m <= 0 THEN <<>>
                ELSE [k \in 1..m |-> IF sobran /\ k > FinLeido(offset, m) THEN NULO
                                     ELSE BytesDeBloques(a, offset, m)[k]]
  BY DEF leerArchivo
<1>5. m \in Int /\ h \in Nat /\ m = h - offset /\ offset + m = h /\ (m <= 0 <=> ~ (offset < h)) /\ h <= t
  BY <1>1
<1>6. sobran => m < pedidos
  BY <1>1
<1> HIDE DEF t, c, m, h
<1>7. /\ Len(Esperado(r)) = IF m <= 0 THEN 0 ELSE m
      /\ \A k \in 1..m : Esperado(r)[k] = c[offset + k]
  <2>1. /\ Len(SubSeq(c, offset + 1, h)) = IF offset < h THEN h - offset ELSE 0
        /\ \A k \in 1..h - offset : SubSeq(c, offset + 1, h)[k] = c[offset + k]
    BY <1>1, <1>5, Pedazo
  <2> HIDE DEF sobran
  <2>2. QED
    BY <1>3, <1>5, <2>1
<1>8. CASE m <= 0
  <2>1. r.bytes = <<>> /\ Len(r.bytes) = 0 /\ DOMAIN r.bytes = {}
    BY <1>4, <1>8
  <2>2. QED
    BY <1>7, <1>8, <2>1 DEF Bien
<1>9. CASE ~ (m <= 0)
  <2>1. m \in Nat \ {0}
    BY <1>5, <1>9
  <2>2. /\ Tira(r.bytes, m)
        /\ \A k \in 1..m : r.bytes[k] = IF sobran /\ k > FinLeido(offset, m) THEN NULO
                                        ELSE BytesDeBloques(a, offset, m)[k]
    <3>1. r.bytes = [k \in 1..m |-> IF sobran /\ k > FinLeido(offset, m) THEN NULO
                                    ELSE BytesDeBloques(a, offset, m)[k]]
      BY <1>4, <1>9, Zenon
    <3> HIDE DEF sobran
    <3>2. QED
      BY <3>1 DEF Tira
  <2>3. Len(r.bytes) = m /\ DOMAIN r.bytes = 1..m
    BY <2>1, <2>2, LargoDeTira
  <2>4. \A k \in 1..m : BytesDeBloques(a, offset, m)[k] = Esperado(r)[k]
    <3>1. TAKE k \in 1..m
    <3>2. BytesDeBloques(a, offset, m)[k] = Byte(a, offset + k - 1)
      BY <1>1, <2>1, LeeLosBloques
    <3>3. offset + k \in 1..t /\ (offset + k) - 1 = offset + k - 1
      BY <1>1, <1>5, <2>1
    <3>4. c[offset + k] = Byte(a, (offset + k) - 1)
      BY <1>2, <3>3
    <3>5. QED
      BY <1>7, <3>2, <3>3, <3>4
  \* What is filled with zeros is at most the last byte, and beyond the block
  \* that the read begins in.
  <2>5. ASSUME NEW k \in 1..m, sobran, k > FinLeido(offset, m)
        PROVE  k = m /\ m < pedidos /\ k > TAM_BLOQUE
    <3> DEFINE ini == offset \div TAM_BLOQUE
               fin == (offset + m - 1) \div TAM_BLOQUE
    <3>1. ini # fin /\ k > m - 1
      <4>1. FinLeido(offset, m) = IF ini = fin THEN m ELSE m - 1
        BY DEF FinLeido
      <4> HIDE DEF ini, fin
      <4>2. QED
        BY <2>1, <2>5, <4>1
    <3>2. ini \in Int /\ fin \in Int /\ ini = pagina /\ offset = TAM_BLOQUE * ini
      <4>1. offset \in Int /\ offset + m - 1 \in Int
        BY <1>1, <2>1
      <4>2. 0 \in Posiciones /\ TAM_BLOQUE * pagina + 0 = offset
        BY <1>1 DEF Posiciones
      <4>3. ini = pagina
        BY <4>2, Cociente
      <4>4. QED
        BY <1>1, <4>1, <4>3, Division
    <3>3. ~ (offset + m - 1 < TAM_BLOQUE * ini + TAM_BLOQUE)
      <4>1. offset + m - 1 \in Int /\ TAM_BLOQUE * ini <= offset + m - 1
        <5> HIDE DEF ini, fin
        <5>1. QED
          BY <1>1, <2>1, <3>2
      <4>2. fin = ini <=> TAM_BLOQUE * ini <= offset + m - 1 /\ offset + m - 1 < TAM_BLOQUE * ini + TAM_BLOQUE
        BY <3>2, <4>1, EnBloque
      <4> HIDE DEF ini, fin
      <4>3. QED
        BY <3>1, <4>1, <4>2
    <3> HIDE DEF ini, fin
    <3>4. m < pedidos
      BY <1>6, <2>5
    <3>5. QED
      BY <1>1, <2>1, <3>1, <3>2, <3>3, <3>4
  <2>6. ASSUME NEW k \in 1..m
        PROVE  \/ r.bytes[k] = Esperado(r)[k]
               \/ k = m /\ m < r.pedidos /\ k > TAM_BLOQUE
    <3>1. CASE sobran /\ k > FinLeido(offset, m)
      BY <2>5, <3>1
    <3>2. CASE ~ (sobran /\ k > FinLeido(offset, m))
      <4> HIDE DEF sobran
      <4>1. QED
        BY <2>2, <2>4, <3>2
    <3>3. QED
      BY <3>1, <3>2
  <2>7. QED
    BY <1>7, <1>9, <2>3, <2>6 DEF Bien
<1>10. QED
  BY <1>8, <1>9

\* The last answer stays right: nothing is written while it is the last.
LEMMA LecturaPaso ==
  ASSUME BloquesInv, LeeSalvoElUltimo, [Next]_vars
  PROVE  LeeSalvoElUltimo'
<1>1. CASE respuesta' = SinRespuesta \/ respuesta'.op # "read"
  BY <1>1 DEF LeeSalvoElUltimo, SinRespuesta
<1>2. CASE UNCHANGED <<nodo, dato, respuesta>>
  BY ZenonT(40), <1>2 DEF LeeSalvoElUltimo, Esperado, Contenido
<1>3. ASSUME NEW a \in Archivos, Crear(a) \/ Borrar(a) \/ Escribir(a)
      PROVE  LeeSalvoElUltimo'
  <2>1. CASE Crear(a) \/ Borrar(a)
    BY <1>1, <2>1 DEF Crear, Borrar
  <2>2. CASE Escribir(a)
    <3>1. respuesta' = SinRespuesta \/ respuesta' = [op |-> "EDQUOT", archivo |-> a]
      BY <2>2 DEF Escribir, AceptarEscritura, RechazarEscritura
    <3>2. QED
      BY <1>1, <3>1
  <2>3. QED
    BY <1>3, <2>1, <2>2
<1>4. ASSUME NEW a \in Archivos, NEW tam \in 0..TamMax, Truncar(a, tam)
      PROVE  LeeSalvoElUltimo'
  BY <1>1, <1>4 DEF Truncar
<1>5. ASSUME NEW a \in Archivos, NEW pagina \in 0..MaxPunteros - 1, NEW paginas \in 1..MaxPunteros, Leer(a, pagina, paginas)
      PROVE  LeeSalvoElUltimo'
  <2> DEFINE offset == pagina * TAM_BLOQUE
             pedidos == paginas * TAM_BLOQUE
             r == [op |-> "read", archivo |-> a, offset |-> offset,
                   pedidos |-> pedidos, bytes |-> leerArchivo(a, offset, pedidos)]
  <2>1. respuesta' = r /\ a \in Existentes /\ UNCHANGED <<nodo, dato>>
    BY <1>5 DEF Leer
  <2>2. pagina \in Nat /\ paginas \in Nat \ {0} /\ TypeOK
    BY TamBloque DEF BloquesInv
  <2>3. r.archivo = a /\ r.offset = offset /\ r.pedidos = pedidos /\ r.bytes = leerArchivo(a, offset, pedidos)
    OBVIOUS
  <2> HIDE DEF r, offset, pedidos
  <2>4. Bien(r)
    BY <2>1, <2>2, <2>3, RespondeBien DEF offset, pedidos
  <2>5. Esperado(respuesta)' = Esperado(r)
    BY <2>1 DEF Esperado, Contenido
  <2>6. QED
    BY <2>1, <2>4, <2>5 DEF LeeSalvoElUltimo, Bien
<1>6. CASE escribirBloqueDatos
  <2>1. respuesta = SinRespuesta
    BY <1>6 DEF escribirBloqueDatos, BloquesInv, EscrituraSana
  <2>2. respuesta' = respuesta \/ respuesta'.op = "write"
    <3>1. PICK w \in escritura : \E n :
            \/ respuesta' = respuesta
            \/ respuesta' = [op |-> "write", archivo |-> w.archivo, pedidos |-> Len(w.datos), escritos |-> n]
      BY <1>6, Zenon DEF escribirBloqueDatos
    <3>2. QED
      BY <3>1
  <2>3. QED
    BY <1>1, <2>1, <2>2
<1>7. CASE Caer
  BY <1>1, <1>7 DEF Caer
<1>8. CASE UNCHANGED vars
  BY <1>2, <1>8 DEF vars
<1>9. QED
  BY <1>3, <1>4, <1>5, <1>6, <1>7, <1>8 DEF Next

\* leerArchivo answers as many bytes as exist of those asked for, and the bytes
\* of the file, but for the last byte of a read of several blocks that passes
\* the end, which it answers as zero.
THEOREM LeeSalvoElUltimoSiempre == Spec => []LeeSalvoElUltimo
<1>1. Init => LeeSalvoElUltimo
  BY DEF Init, SinRespuesta, LeeSalvoElUltimo
<1>2. QED
  BY <1>1, LecturaPaso, BloquesSiempre, PTL DEF Spec

-----------------------------------------------------------------------------
(* What the blocks mean to the programs: SACBloques implements SACArchivo *)

\* What SACArchivo sees.
contenidos == [a \in Existentes |-> Contenido(a)]
abierta == {[archivo |-> w.archivo, offset |-> w.offset, datos |-> w.datos] : w \in escritura}
contestada == respuesta.op = "write"

Leidos ==
  /\ DOMAIN contenidos = Existentes
  /\ \A a \in Existentes :
       /\ nodo[a].tam \in Nat
       /\ contenidos[a] = Contenido(a)
       /\ Len(contenidos[a]) = nodo[a].tam /\ DOMAIN contenidos[a] = 1..nodo[a].tam
       /\ \A k \in 1..nodo[a].tam : contenidos[a][k] = Byte(a, k - 1)

\* That holds whenever the types do.
LEMMA ContenidosLeidos == TypeOK => Leidos
<1> SUFFICES ASSUME TypeOK PROVE Leidos
  OBVIOUS
<1>1. DOMAIN contenidos = Existentes
  BY DEF contenidos
<1>2. ASSUME NEW a \in Existentes
      PROVE  /\ nodo[a].tam \in Nat
             /\ contenidos[a] = Contenido(a)
             /\ Len(contenidos[a]) = nodo[a].tam /\ DOMAIN contenidos[a] = 1..nodo[a].tam
             /\ \A k \in 1..nodo[a].tam : contenidos[a][k] = Byte(a, k - 1)
  <2>1. nodo[a].tam \in Nat
    BY NodoTipo
  <2>2. contenidos[a] = Contenido(a)
    BY DEF contenidos
  <2>3. QED
    BY <2>1, <2>2, LargoDelContenido
<1>3. QED
  BY <1>1, <1>2 DEF Leidos

\* The bytes of a file that a change of size leaves are those it had.
LEMMA SigueElByte ==
  ASSUME BloquesInv, NEW a \in Existentes, NEW tam, CambiaUno(a, tam), UNCHANGED dato,
         NEW k \in 1..tam, k <= nodo[a].tam
  PROVE  Byte(a, k - 1)' = Byte(a, k - 1)
<1> DEFINE i == 1 + (k - 1) \div TAM_BLOQUE
<1>1. tam \in Nat /\ nodo[a].tam \in Nat /\ k \in 1..nodo[a].tam
  <2>1. TamMax \in Nat
    BY TamBloque DEF TamMax
  <2>2. tam \in Nat /\ nodo[a].tam \in Nat
    BY <2>1, NodoTipo DEF BloquesInv, CambiaUno
  <2>3. QED
    BY <2>2
<1>2. i \in 1..CantBloques(tam) /\ i \in 1..CantBloques(nodo[a].tam)
  BY <1>1, Lugar
<1>3. Len(nodo[a].p) = CantBloques(nodo[a].tam) /\ Len(nodo'[a].p) = CantBloques(tam)
  BY NodoTipo DEF BloquesInv, CambiaUno
<1>4. CantBloques(tam) \in Nat /\ CantBloques(nodo[a].tam) \in Nat
  BY <1>1, Cantidad
<1> HIDE DEF i
<1>5. i \in 1..Len(nodo'[a].p) /\ i <= Len(nodo[a].p)
  BY <1>2, <1>3, <1>4
<1>6. nodo'[a].p[i] = nodo[a].p[i]
  BY <1>5 DEF CambiaUno
<1>7. QED
  BY <1>6 DEF Byte, i

\* A change of size of the nodes is one of the file.
LEMMA CambiaElArchivo ==
  ASSUME BloquesInv, TypeOK', NEW a \in Existentes, NEW tam, CambiaUno(a, tam), UNCHANGED dato
  PROVE  Archivo!Redimensionar(a, tam) /\ Len(contenidos'[a]) = tam
<1>1. Leidos /\ Leidos'
  <2>1. TypeOK => Leidos
    BY ContenidosLeidos
  <2>2. TypeOK' => Leidos'
    BY ContenidosLeidos, PTL
  <2>3. QED
    BY <2>1, <2>2 DEF BloquesInv
<1>2. /\ Existentes' = Existentes /\ \A o \in Existentes \ {a} : nodo'[o] = nodo[o]
      /\ nodo'[a].tam = tam
  BY DEF CambiaUno, Existentes
<1>3. \A o \in Existentes \ {a} : contenidos'[o] = contenidos[o]
  <2>1. \A o \in Existentes : contenidos'[o] = Contenido(o)' /\ contenidos[o] = Contenido(o)
    BY <1>1, <1>2 DEF Leidos
  <2>2. \A o \in Existentes \ {a} : Contenido(o)' = Contenido(o)
    BY <1>2 DEF Contenido
  <2>3. QED
    BY <2>1, <2>2
<1>4. Len(contenidos'[a]) = tam /\ tam \in Nat /\ Len(contenidos[a]) = nodo[a].tam /\ nodo[a].tam \in Nat
  BY <1>1, <1>2 DEF Leidos
<1>5. DOMAIN contenidos' = DOMAIN contenidos
  BY <1>1, <1>2 DEF Leidos
<1>6. ASSUME NEW k \in 1..Archivo!Menor(tam, nodo[a].tam)
      PROVE  contenidos'[a][k] = contenidos[a][k]
  <2>1. k \in 1..tam /\ k \in 1..nodo[a].tam /\ k <= nodo[a].tam
    BY <1>4 DEF Archivo!Menor
  <2>2. contenidos[a][k] = Byte(a, k - 1)
    BY <1>1, <2>1 DEF Leidos
  <2>3. contenidos'[a][k] = Byte(a, k - 1)'
    BY <1>1, <1>2, <2>1 DEF Leidos
  <2>4. Byte(a, k - 1)' = Byte(a, k - 1)
    BY <2>1, SigueElByte
  <2>5. QED
    BY <2>2, <2>3, <2>4
<1>7. QED
  BY <1>3, <1>4, <1>5, <1>6 DEF Archivo!Redimensionar, Archivo!Solo, contenidos

\* The write under way is of one block.
DeUnBloque == \A w \in escritura : w.offset \div TAM_BLOQUE = UltimoBloque(w)

\* With writes of one page, a write under way stays of one block.
LEMMA DeUnBloquePaso ==
  ASSUME MaxPaginas = 1, BloquesInv, DeUnBloque, [Next]_vars
  PROVE  DeUnBloque'
<1>1. CASE escritura' = {}
  BY <1>1 DEF DeUnBloque
<1>2. CASE UNCHANGED escritura
  BY <1>2 DEF DeUnBloque, UltimoBloque
<1>3. ASSUME NEW a \in Archivos, Escribir(a)
      PROVE  DeUnBloque'
  <2>1. PICK offset \in 0..TamMax, datos \in Datos :
          /\ Paginas(offset, Len(datos)) <= MaxPaginas
          /\ AceptarEscritura(a, offset, datos) \/ RechazarEscritura(a, offset, datos)
    BY <1>3 DEF Escribir
  <2>2. CASE RechazarEscritura(a, offset, datos)
    BY <1>2, <2>2 DEF RechazarEscritura
  <2>3. CASE AceptarEscritura(a, offset, datos)
    <3> DEFINE w == [archivo |-> a, offset |-> offset, datos |-> datos,
                     bloque |-> offset \div TAM_BLOQUE, escritos |-> 0]
               ini == offset \div TAM_BLOQUE
               fin == (offset + Len(datos) - 1) \div TAM_BLOQUE
    <3>1. escritura' = {w}
      BY <2>3 DEF AceptarEscritura
    <3>2. w.offset = offset /\ w.datos = datos
      OBVIOUS
    <3>3. offset \in Int /\ offset + Len(datos) - 1 \in Int /\ offset <= offset + Len(datos) - 1
      BY TamBloque, DatosTipo DEF TamMax
    <3>4. ini \in Int /\ fin \in Int /\ ini <= fin
      BY <3>3, Division, OrdenDeBloques
    <3>5. fin - ini + 1 <= 1
      BY <2>1 DEF Paginas
    <3> HIDE DEF w
    <3>6. ini = fin
      <4> HIDE DEF ini, fin
      <4>1. QED
        BY <3>4, <3>5
    <3>7. QED
      BY <3>1, <3>2, <3>6 DEF DeUnBloque, UltimoBloque
  <2>4. QED
    BY <2>1, <2>2, <2>3
<1>4. CASE escribirBloqueDatos
  <2>1. PICK w \in escritura : \E v :
          \/ /\ w.bloque < UltimoBloque(w)
             /\ escritura' = {[w EXCEPT !.bloque = @ + 1, !.escritos = @ + v]}
          \/ escritura' = {}
    BY <1>4, Zenon DEF escribirBloqueDatos
  <2>2. w.bloque \in Int /\ UltimoBloque(w) \in Int /\ w.offset \div TAM_BLOQUE <= w.bloque
    <3>1. Sana(w) /\ TypeOK
      BY DEF BloquesInv, EscrituraSana
    <3>2. w.bloque \in Int /\ w.offset + Len(w.datos) - 1 \in Int
      BY <3>1, SanaTipo
    <3>3. QED
      BY <3>1, <3>2, Division DEF UltimoBloque, Sana
  <2>3. ~ (w.bloque < UltimoBloque(w))
    BY <2>2 DEF DeUnBloque
  <2>4. QED
    BY <1>1, <2>1, <2>3
<1>5. QED
  <2>1. CASE \E a \in Archivos : Crear(a) \/ Borrar(a)
    BY <1>2, <2>1 DEF Crear, Borrar
  <2>2. CASE \E a \in Archivos, tam \in 0..TamMax : Truncar(a, tam)
    BY <1>2, <2>2 DEF Truncar
  <2>3. CASE \E a \in Archivos, pagina \in 0..MaxPunteros - 1, paginas \in 1..MaxPunteros : Leer(a, pagina, paginas)
    BY <1>2, <2>3 DEF Leer
  <2>4. CASE Caer
    BY <1>1, <2>4 DEF Caer
  <2>5. CASE UNCHANGED vars
    BY <1>2, <2>5 DEF vars
  <2>6. QED
    BY <1>3, <1>4, <2>1, <2>2, <2>3, <2>4, <2>5, Zenon DEF Next

\* The bytes of a write of one block: all of them in their place of the file,
\* and no other changes.
LEMMA EscribeElArchivo ==
  ASSUME BloquesInv, BloquesInv', DeUnBloque, escribirBloqueDatos
  PROVE  Archivo!Contestar
<1>1. PICK w \in escritura :
        LET b == nodo[w.archivo].p[w.bloque + 1]
            desde == Primero(w, w.bloque)
            n == Cuantos(w, w.bloque)
            yaDatos == w.bloque * TAM_BLOQUE + desde - w.offset
        IN /\ dato' = [dato EXCEPT ![b] =
                         [k \in Posiciones |-> IF k \in desde..desde + n - 1
                                               THEN w.datos[yaDatos + k - desde + 1]
                                               ELSE @[k]]]
           /\ \/ w.bloque < UltimoBloque(w)
              \/ /\ escritura' = {}
                 /\ respuesta' = [op |-> "write", archivo |-> w.archivo,
                                  pedidos |-> Len(w.datos), escritos |-> w.escritos + n]
           /\ UNCHANGED nodo
  BY Zenon DEF escribirBloqueDatos
<1> DEFINE T == TAM_BLOQUE
           a == w.archivo
           o == w.offset
           j == w.bloque
           m == Len(w.datos)
           p == nodo[w.archivo].p
           t == nodo[w.archivo].tam
           d == w.offset % TAM_BLOQUE
           y == w.bloque * TAM_BLOQUE + Primero(w, w.bloque) - w.offset
<1>2. Sana(w) /\ TypeOK /\ TypeOK'
  BY DEF BloquesInv, EscrituraSana
<1>3. /\ a \in Existentes /\ o \in Nat /\ j \in Nat /\ m \in Nat \ {0} /\ o + m <= t /\ t \in Nat
      /\ DOMAIN w.datos = 1..m
      /\ j + 1 \in DOMAIN p
  <2>1. /\ a \in Existentes /\ o \in Nat /\ j \in Nat /\ m \in Nat \ {0} /\ o + m <= t
        /\ DOMAIN w.datos = 1..m
    BY <1>2, SanaTipo
  <2>2. t \in Nat /\ j + 1 \in DOMAIN p
    BY <1>2, <2>1, NodoTipo, EscribeDentro
  <2>3. QED
    BY <2>1, <2>2
\* The write begins and ends in its block.
<1>4. /\ j = o \div TAM_BLOQUE /\ j = (o + m - 1) \div TAM_BLOQUE /\ j = UltimoBloque(w)
      /\ d \in Posiciones
  <2>1. o \in Int /\ o + m - 1 \in Int
    <3> HIDE DEF o, m
    <3>1. QED
      BY <1>3
  <2>2. o \div TAM_BLOQUE \in Int /\ d \in Posiciones /\ j \in Int
    <3>1. o \div TAM_BLOQUE \in Int /\ d \in Posiciones
      BY <2>1, Division
    <3> HIDE DEF o, j, d
    <3>2. QED
      BY <1>3, <3>1
  <2>3. o \div TAM_BLOQUE <= j /\ j <= UltimoBloque(w) /\ o \div TAM_BLOQUE = UltimoBloque(w)
    BY <1>2 DEF Sana, DeUnBloque
  <2>4. UltimoBloque(w) = (o + m - 1) \div TAM_BLOQUE
    BY DEF UltimoBloque
  <2>5. j = UltimoBloque(w)
    BY <2>2, <2>3
  <2>6. QED
    BY <2>2, <2>3, <2>4, <2>5
<1>5. /\ o = T * j + d /\ T * j \in Int /\ j * TAM_BLOQUE = T * j /\ T \in Nat \ {0}
      /\ o + m - 1 < T * j + T
  <2>1. o \in Int /\ o + m - 1 \in Int /\ j \in Int
    <3> HIDE DEF o, m, j
    <3>1. QED
      BY <1>3
  <2>2. o = T * (o \div TAM_BLOQUE) + d
    BY <2>1, Division
  <2>3. o + m - 1 < T * j + T
    BY <1>4, <2>1, EnBloque
  <2>4. QED
    BY <1>4, <2>1, <2>2, <2>3, Orden, TamBloque
<1>6. Primero(w, w.bloque) = d /\ Cuantos(w, w.bloque) = m
  BY <1>4 DEF Primero, Cuantos
<1>7. y = 0 /\ d \in Int /\ 0 <= d
  <2>1. y = j * TAM_BLOQUE + d - o
    BY <1>6
  <2>2. d \in Int /\ 0 <= d
    BY SMTT(30), <1>4, <1>5 DEF Posiciones
  <2> HIDE DEF y, d, o, j, T
  <2>3. QED
    BY <1>3, <1>5, <2>1, <2>2
<1>8. /\ dato' = [dato EXCEPT ![p[j + 1]] = [k \in Posiciones |-> IF k \in d..d + m - 1
                                                                  THEN w.datos[y + k - d + 1] ELSE @[k]]]
      /\ escritura' = {} /\ respuesta'.op = "write" /\ UNCHANGED nodo
  <2>1. ~ (w.bloque < UltimoBloque(w))
    BY SMTT(30), <1>3, <1>4
  <2>2. escritura' = {} /\ respuesta'.op = "write" /\ UNCHANGED nodo
    BY <1>1, <2>1
  <2>3. dato' = [dato EXCEPT ![p[j + 1]] = [k \in Posiciones |-> IF k \in d..d + m - 1
                                                                  THEN w.datos[y + k - d + 1] ELSE @[k]]]
    BY <1>1, <1>6, Zenon
  <2>4. QED
    BY <2>2, <2>3
<1> HIDE DEF T, a, o, j, m, p, t, d, y
<1>9. Leidos /\ Leidos'
  <2>1. TypeOK => Leidos
    BY ContenidosLeidos
  <2>2. TypeOK' => Leidos'
    BY ContenidosLeidos, PTL
  <2>3. QED
    BY <1>2, <2>1, <2>2
\* What the step does to each byte of each file.
<1>10. ASSUME NEW e \in Existentes, NEW k \in 1..nodo[e].tam
       PROVE  Byte(e, k - 1)' = IF e = a /\ k - o \in 1..m THEN w.datos[k - o] ELSE Byte(e, k - 1)
  <2> DEFINE i == (k - 1) \div TAM_BLOQUE
             q == (k - 1) % TAM_BLOQUE
             b == nodo[e].p[1 + i]
  <2>1. k \in Nat \ {0} /\ k - 1 \in Int /\ nodo[e].tam \in Nat
    BY <1>9 DEF Leidos
  <2>2. 1 + i \in DOMAIN nodo[e].p /\ q \in Posiciones /\ i \in Int
    BY <1>2, <2>1, Lugar, Division, NodoTipo
  <2>3. b \in Bloques
    BY <1>2, <2>2, NodoTipo, ElementOfSeq
  <2>4. Byte(e, k - 1)' = dato'[b][q] /\ Byte(e, k - 1) = dato[b][q]
    BY <1>8 DEF Byte
  <2>5. DOMAIN dato = Bloques
    BY <1>2 DEF TypeOK
  <2>6. k - 1 = T * i + q /\ T * i \in Int
    BY <2>1, <2>2, Division, Orden DEF T
  <2>7. q \in Int /\ 0 <= q /\ q < T
    BY <1>5, <2>2 DEF Posiciones, T
  <2>8. i = j <=> T * j <= k - 1 /\ k - 1 < T * j + T
    BY <1>3, <2>1, EnBloque DEF T
  <2> HIDE DEF i, q
  <2>9. CASE e = a /\ i = j
    <3>1. b = p[j + 1]
      <4>1. 1 + i = j + 1
        BY <1>3, <2>9
      <4>2. QED
        BY <2>9, <4>1 DEF p, a
    <3>2. dato'[b][q] = IF q \in d..d + m - 1 THEN w.datos[y + q - d + 1] ELSE dato[b][q]
      BY <1>8, <2>2, <2>3, <2>5, <3>1
    <3>3. k - o = q - d + 1 /\ y + q - d + 1 = q - d + 1 /\ q - d + 1 \in Int
      <4>1. T * i = T * j
        BY <2>9
      <4>2. QED
        BY <1>3, <1>5, <1>7, <2>1, <2>6, <2>7, <4>1
    <3>4. q \in d..d + m - 1 <=> q - d + 1 \in 1..m
      BY <1>3, <1>7, <2>7
    <3> HIDE DEF b
    <3>5. QED
      BY <2>4, <2>9, <3>2, <3>3, <3>4
  <2>10. CASE ~ (e = a /\ i = j)
    <3>1. b # p[j + 1]
      <4>1. b = p[j + 1] => e = a /\ 1 + i = j + 1
        BY <1>3, <2>2 DEF BloquesInv, BloquesDeUno, p, a
      <4>2. QED
        BY <1>3, <2>2, <2>10, <4>1
    <3>2. dato'[b] = dato[b]
      BY <1>8, <2>3, <2>5, <3>1
    <3>3. ~ (e = a /\ k - o \in 1..m)
      <4>1. k - o \in 1..m => i = j
        BY <1>3, <1>5, <1>7, <2>1, <2>8
      <4>2. QED
        BY <2>10, <4>1
    <3> HIDE DEF b
    <3>4. QED
      BY <2>4, <3>2, <3>3
  <2>11. QED
    BY <2>9, <2>10
<1>11. /\ DOMAIN contenidos' = Existentes /\ DOMAIN contenidos = Existentes
       /\ \A e \in Existentes :
            /\ DOMAIN contenidos'[e] = 1..nodo[e].tam /\ DOMAIN contenidos[e] = 1..nodo[e].tam
            /\ Len(contenidos'[e]) = nodo[e].tam /\ Len(contenidos[e]) = nodo[e].tam
            /\ contenidos'[e] = Contenido(e)' /\ contenidos[e] = Contenido(e)
            /\ \A k \in 1..nodo[e].tam : contenidos'[e][k] = Byte(e, k - 1)' /\ contenidos[e][k] = Byte(e, k - 1)
  BY <1>8, <1>9 DEF Leidos, Existentes
<1>12. \A e \in Existentes \ {a} : contenidos'[e] = contenidos[e]
  <2>1. TAKE e \in Existentes \ {a}
  <2>2. \A k \in 1..nodo[e].tam : Byte(e, k - 1)' = Byte(e, k - 1)
    BY <1>10
  <2>3. /\ Contenido(e) = [k \in 1..nodo[e].tam |-> Byte(e, k - 1)]
        /\ Contenido(e)' = [k \in 1..nodo[e].tam |-> Byte(e, k - 1)']
    BY <1>8 DEF Contenido, Byte
  <2>4. Contenido(e)' = Contenido(e)
    BY <2>2, <2>3
  <2>5. QED
    BY <1>11, <2>4
<1> DEFINE x == [archivo |-> w.archivo, offset |-> w.offset, datos |-> w.datos]
<1>13. x \in abierta /\ x.archivo = a /\ x.offset = o /\ x.datos = w.datos
  BY DEF abierta, a, o
<1> HIDE DEF x
<1>14. Archivo!Escribir(x)
  <2>1. /\ DOMAIN contenidos' = DOMAIN contenidos
        /\ \A e \in DOMAIN contenidos \ {a} : contenidos'[e] = contenidos[e]
        /\ Len(contenidos'[a]) = Len(contenidos[a])
    BY <1>3, <1>11, <1>12
  <2>2. ASSUME NEW k \in DOMAIN contenidos[a]
        PROVE  \/ contenidos'[a][k] = contenidos[a][k]
               \/ k - o \in DOMAIN w.datos /\ contenidos'[a][k] = w.datos[k - o]
    <3>1. k \in 1..nodo[a].tam
      BY <1>3, <1>11
    <3>2. contenidos'[a][k] = Byte(a, k - 1)' /\ contenidos[a][k] = Byte(a, k - 1)
      BY <1>3, <1>11, <3>1
    <3>3. CASE k - o \in 1..m
      BY <1>3, <1>10, <3>1, <3>2, <3>3
    <3>4. CASE ~ (k - o \in 1..m)
      BY <1>3, <1>10, <3>1, <3>2, <3>4
    <3>5. QED
      BY <3>3, <3>4
  <2>3. QED
    BY <1>13, <2>1, <2>2 DEF Archivo!Escribir, Archivo!Solo, Archivo!Escrita, contenidos
<1>15. \A k \in DOMAIN x.datos : Archivo!Escrita(x, x.offset + k)
  <2>1. ASSUME NEW k \in 1..m
        PROVE  contenidos'[a][o + k] = w.datos[(o + k) - o]
    <3>1. o + k \in 1..nodo[a].tam /\ (o + k) - o \in 1..m
      BY <1>3 DEF t, a
    <3>2. QED
      BY <1>3, <1>10, <1>11, <3>1
  <2>2. QED
    BY <1>3, <1>13, <2>1 DEF Archivo!Escrita, contenidos
<1>16. QED
  BY <1>8, <1>13, <1>14, <1>15 DEF Archivo!Contestar, abierta

\* SYS_CREATE gives an empty file, and SYS_UNLINK takes one, also for the programs.
LEMMA CreaElArchivo ==
  ASSUME TypeOK, TypeOK', NEW a \in Archivos, Crear(a)
  PROVE  Archivo!Crear
<1>1. Leidos /\ Leidos'
  <2>1. TypeOK => Leidos
    BY ContenidosLeidos
  <2>2. TypeOK' => Leidos'
    BY ContenidosLeidos, PTL
  <2>3. QED
    BY <2>1, <2>2
<1>2. /\ escritura = {} /\ escritura' = {} /\ respuesta' = SinRespuesta /\ UNCHANGED dato
      /\ a \notin Existentes /\ Existentes' = Existentes \cup {a}
      /\ \A o \in Existentes : nodo'[o] = nodo[o]
      /\ nodo'[a] = [tam |-> 0, p |-> <<>>]
  BY DEF Crear, Existentes
<1>3. DOMAIN contenidos = Existentes /\ DOMAIN contenidos' = Existentes \cup {a}
  BY <1>1, <1>2 DEF Leidos
<1>4. contenidos'[a] = <<>>
  <2>1. contenidos'[a] = Contenido(a)'
    BY <1>1, <1>2 DEF Leidos
  <2>2. nodo'[a].tam = 0
    BY <1>2
  <2> DEFINE f == Contenido(a)'
  <2>3. Tira(f, 0)
    BY <2>2, Zenon DEF Tira, Contenido
  <2> HIDE DEF f
  <2>4. Len(f) = 0 /\ f \in Seq({f[i] : i \in 1..0})
    BY ZenonT(40), <2>3, LargoDeTira
  <2>5. f = <<>>
    BY <2>4, EmptySeq
  <2>6. QED
    BY <2>1, <2>5 DEF f
<1>5. \A o \in Existentes : contenidos'[o] = contenidos[o]
  <2>1. \A o \in Existentes : contenidos'[o] = Contenido(o)' /\ contenidos[o] = Contenido(o)
    BY <1>1, <1>2 DEF Leidos
  <2>2. \A o \in Existentes : Contenido(o)' = Contenido(o)
    BY <1>2 DEF Contenido
  <2>3. QED
    BY <2>1, <2>2
<1>6. abierta = {} /\ abierta' = {}
  BY <1>2 DEF abierta
<1>7. ~ contestada'
  BY <1>2 DEF contestada, SinRespuesta
<1>8. /\ a \in Archivos \ DOMAIN contenidos
      /\ DOMAIN contenidos' = DOMAIN contenidos \cup {a} /\ contenidos'[a] = <<>>
      /\ \A o \in DOMAIN contenidos : contenidos'[o] = contenidos[o]
  BY <1>2, <1>3, <1>4, <1>5
<1>9. QED
  BY <1>6, <1>7, <1>8, Zenon DEF Archivo!Crear, contenidos, abierta, contestada

LEMMA BorraElArchivo ==
  ASSUME NEW a \in Archivos, Borrar(a)
  PROVE  Archivo!Borrar
<1>1. /\ escritura = {} /\ escritura' = {} /\ respuesta' = SinRespuesta /\ UNCHANGED dato
      /\ a \in Existentes /\ Existentes' = Existentes \ {a}
      /\ \A o \in Existentes \ {a} : nodo'[o] = nodo[o]
  BY DEF Borrar, Existentes
<1>2. \A o \in Existentes \ {a} : Contenido(o)' = Contenido(o)
  BY <1>1 DEF Contenido
<1>3. DOMAIN contenidos = Existentes /\ \A o \in Existentes : contenidos[o] = Contenido(o)
  BY DEF contenidos
<1>4. contenidos' = [o \in DOMAIN contenidos \ {a} |-> contenidos[o]]
  <2>1. contenidos' = [o \in Existentes \ {a} |-> Contenido(o)']
    BY <1>1, Zenon DEF contenidos
  <2>2. \A o \in Existentes \ {a} : Contenido(o)' = contenidos[o]
    BY <1>2, <1>3
  <2>3. QED
    BY <1>3, <2>1, <2>2, Zenon
<1>5. abierta = {} /\ abierta' = {}
  BY <1>1 DEF abierta
<1>6. ~ contestada'
  BY <1>1 DEF contestada, SinRespuesta
<1>7. a \in DOMAIN contenidos
  BY <1>1, <1>3
<1>8. QED
  BY <1>4, <1>5, <1>6, <1>7, Zenon DEF Archivo!Borrar, contenidos, abierta, contestada

\* SYS_TRUNCATE keeps the bytes that fit, and touches no other file.
LEMMA TruncaElArchivo ==
  ASSUME BloquesInv, BloquesInv', NEW a \in Archivos, NEW tam \in 0..TamMax, Truncar(a, tam)
  PROVE  Archivo!Truncar
<1>1. /\ tam \in Nat /\ a \in Existentes /\ cambiarTamanioArchivo(a, tam) /\ UNCHANGED dato
      /\ escritura = {} /\ escritura' = {} /\ respuesta' = SinRespuesta
  BY TamBloque DEF TamMax, Truncar
<1>2. CambiaUno(a, tam)
  BY <1>1, CambiaTamanio
<1>3. TypeOK'
  BY DEF BloquesInv
<1>4. Archivo!Redimensionar(a, tam) /\ Len(contenidos'[a]) = tam
  BY <1>1, <1>2, <1>3, CambiaElArchivo
<1>5. Archivo!Redimensionar(a, Len(contenidos'[a])) /\ a \in DOMAIN contenidos
  BY <1>1, <1>4 DEF contenidos
<1>6. abierta = {} /\ abierta' = {} /\ ~ contestada'
  BY <1>1 DEF abierta, contestada, SinRespuesta
<1>7. QED
  BY <1>5, <1>6, Zenon DEF Archivo!Truncar, contenidos, abierta, contestada

\* Accepting a write makes the file long enough, and no more.
LEMMA AceptaElArchivo ==
  ASSUME BloquesInv, BloquesInv', NEW a \in Archivos, NEW offset \in 0..TamMax, NEW datos \in Datos,
         AceptarEscritura(a, offset, datos)
  PROVE  Archivo!Aceptar
<1> DEFINE w == [archivo |-> a, offset |-> offset, datos |-> datos,
                 bloque |-> offset \div TAM_BLOQUE, escritos |-> 0]
           x == [archivo |-> w.archivo, offset |-> w.offset, datos |-> w.datos]
           fin == offset + Len(datos)
<1>1. /\ a \in Existentes /\ UNCHANGED dato /\ offset \in Nat /\ fin \in Nat /\ nodo[a].tam \in Nat
      /\ \/ UNCHANGED nodo /\ fin <= nodo[a].tam
         \/ CambiaUno(a, fin) /\ fin > nodo[a].tam
  BY AceptaNodos, DatosTipo, NodoTipo DEF BloquesInv
<1>2. escritura = {} /\ escritura' = {w} /\ respuesta' = SinRespuesta
  BY DEF AceptarEscritura
<1>3. abierta = {} /\ abierta' = {x} /\ ~ contestada'
  <2> HIDE DEF w
  <2>1. QED
    BY <1>2 DEF abierta, contestada, SinRespuesta
<1>4. x.archivo = a /\ x.offset = offset /\ x.datos = datos
  OBVIOUS
<1> HIDE DEF w, x
<1>5. TypeOK /\ TypeOK'
  BY DEF BloquesInv
<1>6. Leidos
  BY <1>5, ContenidosLeidos
<1>7. Len(contenidos[a]) = nodo[a].tam /\ a \in DOMAIN contenidos
  BY <1>1, <1>6 DEF Leidos
<1>8. Archivo!Redimensionar(a, Archivo!Mayor(Len(contenidos[a]), fin))
  <2>1. CASE CambiaUno(a, fin) /\ fin > nodo[a].tam
    <3>1. Archivo!Redimensionar(a, fin)
      BY <1>1, <1>5, <2>1, CambiaElArchivo
    <3> HIDE DEF fin
    <3>2. Archivo!Mayor(Len(contenidos[a]), fin) = fin
      BY <1>1, <1>7, <2>1 DEF Archivo!Mayor
    <3>3. QED
      BY <3>1, <3>2
  <2>2. CASE UNCHANGED nodo /\ fin <= nodo[a].tam
    <3>1. contenidos' = contenidos
      BY <1>1, <2>2, Zenon DEF contenidos, Contenido, Existentes
    <3> HIDE DEF fin
    <3>2. Archivo!Mayor(Len(contenidos[a]), fin) = Len(contenidos[a])
      BY <1>1, <1>7, <2>2 DEF Archivo!Mayor
    <3>3. \A n : Archivo!Menor(n, n) = n
      BY DEF Archivo!Menor
    <3>4. QED
      BY <3>1, <3>2, <3>3, Zenon DEF Archivo!Redimensionar, Archivo!Solo, contenidos
  <2>3. QED
    BY <1>1, <2>1, <2>2
<1>9. QED
  <2>1. /\ x \in abierta' /\ abierta' = {x} /\ x.archivo \in DOMAIN contenidos
        /\ Archivo!Redimensionar(x.archivo, Archivo!Mayor(Len(contenidos[x.archivo]), x.offset + Len(x.datos)))
    <3>1. fin = x.offset + Len(x.datos)
      BY <1>4
    <3> HIDE DEF fin
    <3>2. QED
      BY <1>3, <1>4, <1>7, <1>8, <3>1
  <2>2. QED
    BY <1>3, <2>1, Zenon DEF Archivo!Aceptar, contenidos, abierta, contestada

\* The file is as it was and no write is under way.
LEMMA MiraElArchivo ==
  ASSUME UNCHANGED <<nodo, dato>>, escritura' = {}, respuesta'.op # "write"
  PROVE  Archivo!Caer
<1>1. contenidos' = contenidos
  BY Zenon DEF contenidos, Contenido, Existentes
<1>2. abierta' = {}
  BY DEF abierta
<1>3. ~ contestada'
  BY DEF contestada
<1>4. QED
  BY <1>1, <1>2, <1>3, Zenon DEF Archivo!Caer, contenidos, abierta, contestada

\* At first there are no files.
LEMMA ArchivoInicial == Init => Archivo!Init
<1> SUFFICES ASSUME Init PROVE Archivo!Init
  OBVIOUS
<1>1. Existentes = {} /\ escritura = {} /\ respuesta.op = "ninguna"
  BY DEF Init, Existentes, SinRespuesta
<1>2. contenidos = <<>>
  BY <1>1 DEF contenidos
<1>3. abierta = {} /\ contestada = FALSE
  BY <1>1 DEF abierta, contestada
<1>4. QED
  BY <1>2, <1>3 DEF Archivo!Init, contenidos, abierta, contestada

\* Every step is one of SACArchivo or leaves all it sees alone.
LEMMA ArchivoPaso ==
  ASSUME BloquesInv, BloquesInv', DeUnBloque, [Next]_vars
  PROVE  [Archivo!Next]_<<contenidos, abierta, contestada>>
<1>1. ASSUME NEW a \in Archivos, Crear(a) \/ Borrar(a) \/ Escribir(a)
      PROVE  Archivo!Next
  <2>1. CASE Crear(a)
    BY <2>1, CreaElArchivo DEF BloquesInv, Archivo!Next
  <2>2. CASE Borrar(a)
    BY <2>2, BorraElArchivo DEF Archivo!Next
  <2>3. CASE Escribir(a)
    <3>1. PICK offset \in 0..TamMax, datos \in Datos :
            AceptarEscritura(a, offset, datos) \/ RechazarEscritura(a, offset, datos)
      BY <2>3 DEF Escribir
    <3>2. CASE AceptarEscritura(a, offset, datos)
      BY <3>2, AceptaElArchivo DEF Archivo!Next
    <3>3. CASE RechazarEscritura(a, offset, datos)
      BY <3>3, MiraElArchivo DEF RechazarEscritura, Archivo!Next
    <3>4. QED
      BY <3>1, <3>2, <3>3
  <2>4. QED
    BY <1>1, <2>1, <2>2, <2>3
<1>2. ASSUME NEW a \in Archivos, NEW tam \in 0..TamMax, Truncar(a, tam)
      PROVE  Archivo!Next
  BY <1>2, TruncaElArchivo DEF Archivo!Next
<1>3. ASSUME NEW a \in Archivos, NEW pagina, NEW paginas, Leer(a, pagina, paginas)
      PROVE  Archivo!Next
  BY <1>3, MiraElArchivo DEF Leer, Archivo!Next
<1>4. CASE escribirBloqueDatos
  BY <1>4, EscribeElArchivo DEF Archivo!Next
<1>5. CASE Caer
  BY <1>5, MiraElArchivo DEF Caer, SinRespuesta, Archivo!Next
<1>6. CASE UNCHANGED vars
  <2>1. contenidos' = contenidos
    BY <1>6, Zenon DEF vars, contenidos, Contenido, Existentes
  <2>2. abierta' = abierta /\ contestada' = contestada
    BY <1>6 DEF vars, abierta, contestada
  <2>3. QED
    BY <2>1, <2>2
<1>7. QED
  BY <1>1, <1>2, <1>3, <1>4, <1>5, <1>6 DEF Next

\* When every write lies inside one page, which is what a mount without
\* big_writes sends, the blocks are files with bytes of their own: no request
\* touches a byte it does not name, and a write that has been answered is
\* whole in its file.
THEOREM ArchivosCorrectosSiempre ==
  ASSUME MaxPaginas = 1
  PROVE  Spec => ArchivosCorrectos
<1>1. Init => DeUnBloque
  BY DEF Init, DeUnBloque
<1>2. BloquesInv /\ DeUnBloque /\ [Next]_vars => DeUnBloque'
  BY DeUnBloquePaso
<1>3. BloquesInv /\ BloquesInv' /\ DeUnBloque /\ [Next]_vars
        => [Archivo!Next]_<<contenidos, abierta, contestada>>
  BY ArchivoPaso
<1>4. QED
  BY <1>1, <1>2, <1>3, ArchivoInicial, BloquesSiempre, PTL
     DEF Spec, ArchivosCorrectos, Archivo!Spec, contenidos, abierta, contestada
=============================================================================
