---------------------------- MODULE MUSEHeap_proofs ----------------------------
(***************************************************************************)
(* No byte of a heap is given twice, for any size of page, number of pages *)
(* and sizes asked for, while no size has been computed wrong; and what is *)
(* read as a header is one, unless a block goes from a page to the next one.*)
(*                                                                         *)
(* The invariant is that the headers cut the pages in tiles (Mosaico): a   *)
(* block that is given, a block of the list and the last header each begin a*)
(* tile of their own, a tile ends before the next one begins, and there is *)
(* nothing between them that is not wasted.  The proof goes from what is   *)
(* written in the pages to the tiles, then from each branch of mallocMuse and*)
(* of freeMuse to the tiles it leaves.                                     *)
(*                                                                         *)
(* The lemmas that are used often take their equations behind a name (Vale,  *)
(* Acaba, Suma, ...), which the provers keep as it is and find them by.      *)
(***************************************************************************)
EXTENDS MUSEHeap, FiniteSetTheorems, WellFoundedInduction, TLAPS

-----------------------------------------------------------------------------
(* Positions and pages.                                                     *)

\* An equation that the provers are given as it is, to find what a lemma is
\* about by it.
Vale(x, y) == x = y

\* The header of a block that is given, or that is free.
HeaderDado(e, a, s) == ConHeader(e, a, FALSE, s)
HeaderLibre(e, a, s) == ConHeader(e, a, TRUE, s)

\* What has t bytes after a header in a ends in x; the bytes begin in pos.
Acaba(a, t, x) == x = a + 5 + t
Sobre(a, pos) == pos = a + 5
Suma(x, k, y) == y = x + k
\* The position r of page n; the header of which q is the end.
EnPagina(n, r, d) == d = Inicio(n) + r
PosDe(n, q, d) == d = Inicio(n) + q - 5

Con(S, x) == S \cup {x}
Sin(S, x) == S \ {x}
ConDado(ot, pos, t) == ot \cup {[pos |-> pos, tam |-> t]}

\* What the constants are.
LEMMA Constantes == T \in Nat /\ T > 10 /\ HEADER = 5
  BY ConstantesHeap DEF HEADER

\* Where a page begins, and the next one.
LEMMA Inicios ==
  /\ Inicio(0) = 0
  /\ \A n \in Nat : Inicio(n) \in Nat
  /\ \A n \in Nat : Inicio(n + 1) = Inicio(n) + T
  BY Constantes DEF Inicio

\* The bytes of some pages, and of others after them.
LEMMA InicioSuma ==
  ASSUME NEW m \in Nat, NEW n \in Nat
  PROVE  Inicio(m + n) = Inicio(m) + Inicio(n)
  BY Constantes DEF Inicio

\* A position is in a page, and so far from its beginning.
LEMMA Partes ==
  ASSUME NEW a \in Nat
  PROVE  /\ PaginaDe(a) \in Nat /\ Resto(a) \in Nat /\ Resto(a) < T
         /\ a = Inicio(PaginaDe(a)) + Resto(a)
  BY Constantes DEF PaginaDe, Resto, Inicio

\* ... and in no other.
LEMMA Unica ==
  ASSUME NEW n \in Nat, NEW r \in Nat, r < T
  PROVE  PaginaDe(Inicio(n) + r) = n /\ Resto(Inicio(n) + r) = r /\ Inicio(n) + r \in Nat
  BY Constantes DEF PaginaDe, Resto, Inicio

\* A page begins where the one before ends.
LEMMA RestoDePagina ==
  ASSUME NEW n \in Nat
  PROVE  Resto(Inicio(n)) = 0
  BY Constantes DEF Resto, Inicio

\* A page ends where the next one begins, or before.
LEMMA Creciente ==
  ASSUME NEW m \in Nat, NEW n \in Nat
  PROVE  /\ m < n => Inicio(m) + T <= Inicio(n)
         /\ m <= n => Inicio(m) <= Inicio(n)
  <1>1. CASE m < n
    <2>1. PICK k \in Nat : n = (m + 1) + k
      <3>1. n - m - 1 \in Nat /\ n = (m + 1) + (n - m - 1)
        BY <1>1
      <3> QED BY <3>1
    <2>2. Inicio(n) = Inicio(m + 1) + Inicio(k)
      BY <2>1, InicioSuma
    <2>3. Inicio(m + 1) = Inicio(m) + T /\ Inicio(k) \in Nat /\ Inicio(m) \in Nat
      BY Inicios
    <2> QED BY <2>2, <2>3, <1>1, Constantes
  <1>2. CASE m = n
    BY <1>2, Inicios
  <1>3. CASE m > n
    BY <1>3
  <1> QED BY <1>1, <1>2, <1>3

\* What is between where a page begins and where it ends is in it.
LEMMA MismaPagina ==
  ASSUME NEW n \in Nat, NEW a \in Nat, Inicio(n) <= a, a < Inicio(n) + T
  PROVE  PaginaDe(a) = n /\ Resto(a) = a - Inicio(n)
  <1>1. a - Inicio(n) \in Nat /\ a - Inicio(n) < T /\ a = Inicio(n) + (a - Inicio(n))
    BY Inicios, Constantes
  <1> QED BY <1>1, Unica

\* What is before a page is in another one before it.
LEMMA PaginaAntes ==
  ASSUME NEW n \in Nat, NEW a \in Nat
  PROVE  (a < Inicio(n)) <=> (PaginaDe(a) < n)
  <1> DEFINE p == PaginaDe(a)
  <1>1. p \in Nat /\ Resto(a) \in Nat /\ Resto(a) < T /\ a = Inicio(p) + Resto(a)
    BY Partes
  <1> HIDE DEF p
  <1>2. Inicio(p) \in Nat /\ Inicio(n) \in Nat
    BY <1>1, Inicios
  <1>3. /\ p < n => Inicio(p) + T <= Inicio(n)
        /\ n <= p => Inicio(n) <= Inicio(p)
    BY <1>1, Creciente
  <1>4. a < Inicio(n) <=> p < n
    BY <1>1, <1>2, <1>3, Constantes
  <1> QED BY <1>4 DEF p

-----------------------------------------------------------------------------
(* What is written.                                                         *)

Hay(e, x) == x \in DOMAIN e /\ e[x] # NUMERAL
Num(e, x) == x \in DOMAIN e /\ e[x] = NUMERAL
Libre(e, x) == Hay(e, x) /\ e[x].isFree
Tam(e, a) == e[a].size
Fin(e, a) == a + HEADER + Tam(e, a)

\* Less than a header is left in the page of x: the end of the page.
Hasta(x) == IF T - Resto(x) < HEADER THEN x + (T - Resto(x)) ELSE x

\* Salto, of what e has.
SinNumeral(e, a) == {i \in 0..HEADER - 1 : ~Num(e, a + i)}
Primero(no) == IF no = {} THEN 0 ELSE CHOOSE i \in no : \A j \in no : i <= j
SaltoDe(e, a) == Primero(SinNumeral(e, a))
Tras(e, x) == Hasta(x) + SaltoDe(e, Hasta(x))

\* Where freeMuse looks for a header after something that ends in x.
Miradas(e, x) == {x, Hasta(x), Tras(e, x)}

\* Headers and '#', in the pages, and no header goes into another page.
Registro == [isFree : BOOLEAN, size : Nat]
EscritoBien(e, fin) ==
  \A x \in DOMAIN e : /\ x \in Nat /\ x < fin
                      /\ \/ e[x] = NUMERAL
                         \/ e[x] \in Registro /\ Resto(x) + HEADER <= T

\* Salto skips '#' and nothing else, and less than a header.
LEMMA PropiedadesSalto ==
  ASSUME NEW e, NEW a \in Nat
  PROVE  /\ SaltoDe(e, a) \in 0..4
         /\ \A i \in 0..4 : i < SaltoDe(e, a) => Num(e, a + i)
         /\ \/ ~Num(e, a + SaltoDe(e, a))
            \/ SaltoDe(e, a) = 0 /\ \A i \in 0..4 : Num(e, a + i)
  <1> DEFINE no == {i \in 0..4 : ~Num(e, a + i)}
  <1>1. SaltoDe(e, a) = IF no = {} THEN 0 ELSE CHOOSE i \in no : \A j \in no : i <= j
    BY Constantes DEF SaltoDe, Primero, SinNumeral, HEADER
  <1>2. CASE no = {}
    BY <1>1, <1>2
  <1>3. CASE no # {}
    <2>1. \E i \in no : \A j \in no : i <= j
      <3>1. no \subseteq 0..4
        OBVIOUS
      <3>2. CASE 0 \in no
        BY <3>1, <3>2
      <3>3. CASE 0 \notin no /\ 1 \in no
        BY <3>1, <3>3
      <3>4. CASE 0 \notin no /\ 1 \notin no /\ 2 \in no
        BY <3>1, <3>4
      <3>5. CASE 0 \notin no /\ 1 \notin no /\ 2 \notin no /\ 3 \in no
        BY <3>1, <3>5
      <3>6. CASE 0 \notin no /\ 1 \notin no /\ 2 \notin no /\ 3 \notin no
        BY <3>1, <3>6, <1>3
      <3> QED BY <3>2, <3>3, <3>4, <3>5, <3>6
    <2>2. SaltoDe(e, a) \in no /\ \A j \in no : SaltoDe(e, a) <= j
      BY <1>1, <1>3, <2>1
    <2>3. SaltoDe(e, a) \in 0..4 /\ ~Num(e, a + SaltoDe(e, a))
      BY <2>2
    <2>4. ASSUME NEW i \in 0..4, i < SaltoDe(e, a)
          PROVE  Num(e, a + i)
      <3>1. i \notin no
        BY <2>2, <2>3, <2>4
      <3> QED BY <3>1
    <2> QED BY <2>3, <2>4
  <1> QED BY <1>2, <1>3

\* What is skipped for the end of the page is less than a header.
LEMMA PropiedadesHasta ==
  ASSUME NEW x \in Nat
  PROVE  /\ Hasta(x) \in Nat /\ x <= Hasta(x) /\ Hasta(x) <= x + 4
         /\ Hasta(x) # x => Resto(Hasta(x)) = 0
         /\ \A n \in Nat : x <= Inicio(n) => Hasta(x) <= Inicio(n)
  <1> DEFINE n == PaginaDe(x)
             r == Resto(x)
  <1>1. n \in Nat /\ r \in Nat /\ r < T /\ x = Inicio(n) + r /\ Inicio(n) \in Nat
    BY Partes, Inicios
  <1>2. Inicio(n + 1) = Inicio(n) + T /\ n + 1 \in Nat
    BY <1>1, Inicios
  <1>3. Hasta(x) = IF T - r < 5 THEN Inicio(n + 1) ELSE x
    BY <1>1, <1>2, Constantes DEF Hasta
  <1>4. Resto(Inicio(n + 1) + 0) = 0
    BY <1>2, Unica, Constantes
  <1> HIDE DEF n, r
  <1>5. ASSUME NEW m \in Nat, x <= Inicio(m)
        PROVE  Hasta(x) <= Inicio(m)
    <2>1. CASE m >= n + 1
      BY <2>1, <1>1, <1>2, <1>3, <1>5, Creciente, Inicios, Constantes
    <2>2. CASE m <= n
      <3>1. Inicio(m) <= Inicio(n) /\ Inicio(m) \in Nat
        BY <2>2, <1>1, Creciente, Inicios
      <3> QED BY <3>1, <1>1, <1>3, <1>5, Constantes
    <2> QED BY <2>1, <2>2, <1>1
  <1>6. Inicio(n + 1) + 0 = Inicio(n + 1)
    BY <1>1, <1>2, Constantes
  <1> QED BY <1>1, <1>2, <1>3, <1>4, <1>5, <1>6, Constantes

\* The place looked at after x is not beyond a place that has no '#'.
LEMMA TrasAcotado ==
  ASSUME NEW e, NEW x \in Nat, NEW c \in Nat, Hasta(x) <= c, ~Num(e, c)
  PROVE  Tras(e, x) \in Nat /\ x <= Hasta(x) /\ Hasta(x) <= Tras(e, x) /\ Tras(e, x) <= c
  <1> DEFINE h == Hasta(x)
             k == SaltoDe(e, h)
  <1>1. h \in Nat /\ x <= h /\ h <= c
    BY PropiedadesHasta
  <1>2. /\ k \in 0..4 /\ \A i \in 0..4 : i < k => Num(e, h + i)
        /\ ~Num(e, h + k) \/ k = 0
    BY <1>1, PropiedadesSalto
  <1>3. Tras(e, x) = h + k
    BY DEF Tras
  <1> HIDE DEF h, k
  <1>4. h + k <= c
    <2>1. CASE c >= h + 5
      BY <2>1, <1>1, <1>2
    <2>2. CASE c < h + 5
      <3>1. c - h \in 0..4 /\ h + (c - h) = c
        BY <2>2, <1>1
      <3>2. ~(c - h < k)
        BY <3>1, <1>2
      <3> QED BY <3>1, <3>2, <1>1, <1>2
    <2> QED BY <2>1, <2>2, <1>1
  <1> QED BY <1>1, <1>2, <1>3, <1>4 DEF h

\* A header is looked for where something ends, or after.
LEMMA TrasNat ==
  ASSUME NEW e, NEW x \in Nat
  PROVE  Tras(e, x) \in Nat /\ x <= Hasta(x) /\ Hasta(x) <= Tras(e, x) /\ Hasta(x) \in Nat
  <1>1. Hasta(x) \in Nat /\ x <= Hasta(x)
    BY PropiedadesHasta
  <1>2. SaltoDe(e, Hasta(x)) \in 0..4
    BY <1>1, PropiedadesSalto
  <1> QED BY <1>1, <1>2 DEF Tras

\* A page is not left over.
LEMMA TrasEnPaginas ==
  ASSUME NEW e, NEW n \in Nat, EscritoBien(e, Inicio(n)), NEW x \in Nat, x <= Inicio(n)
  PROVE  Tras(e, x) <= Inicio(n)
  <1>1. ~Num(e, Inicio(n)) /\ Inicio(n) \in Nat
    BY Inicios DEF EscritoBien, Num
  <1>2. Hasta(x) <= Inicio(n)
    BY PropiedadesHasta
  <1> QED BY <1>1, <1>2, TrasAcotado

\* Where there is a header nothing is skipped.
LEMMA TrasHeader ==
  ASSUME NEW e, NEW x \in Nat, Hay(e, x), Resto(x) + HEADER <= T
  PROVE  Hasta(x) = x /\ Tras(e, x) = x
  <1>1. Hasta(x) = x
    BY Partes, Constantes DEF Hasta
  <1>2. ~Num(e, x)
    BY DEF Hay, Num
  <1> QED BY <1>1, <1>2, TrasAcotado, TrasNat

\* There are no headers in what is skipped.
LEMMA EnMedio ==
  ASSUME NEW e, NEW x \in Nat, NEW c \in Nat, x <= c, c <= Tras(e, x), Hay(e, c),
         Resto(c) + HEADER <= T
  PROVE  c = Tras(e, x)
  <1> DEFINE n == PaginaDe(x)
             r == Resto(x)
  <1>1. n \in Nat /\ r \in Nat /\ r < T /\ x = Inicio(n) + r /\ Inicio(n) \in Nat
    BY Partes, Inicios
  <1>2. Hasta(x) = IF T - r < 5 THEN x + (T - r) ELSE x
    BY Constantes DEF Hasta
  <1> HIDE DEF n, r
  <1>3. Hasta(x) <= c
    <2> SUFFICES ASSUME c < Hasta(x)
                 PROVE  FALSE
      BY <1>1, <1>2, Constantes
    <2>1. T - r < 5 /\ Hasta(x) = Inicio(n) + T
      BY <1>1, <1>2, Constantes
    <2>2. Inicio(n) <= c /\ c < Inicio(n) + T
      BY <2>1, <1>1
    <2>3. Resto(c) = c - Inicio(n)
      BY <2>2, <1>1, MismaPagina
    <2> QED BY <2>1, <2>3, <1>1, Constantes
  <1>4. ~Num(e, c)
    BY DEF Hay, Num
  <1>5. Tras(e, x) \in Nat /\ Tras(e, x) <= c
    BY <1>3, <1>4, TrasAcotado
  <1> QED BY <1>5

-----------------------------------------------------------------------------
(* The pages, cut in tiles: each begins with its header, given or free, has  *)
(* the bytes that its header says, and the next one is where freeMuse looks  *)
(* for it, after what was wasted and no more.                                *)

\* What comes after something that ends in z: a tile, or the end of the pages.
Continua(D, e, z, fin) ==
  \/ Hasta(z) >= fin
  \/ Hasta(z) \in D
  \/ Resto(Hasta(z)) = 0 /\ Tras(e, z) \in D

Teja(D, e, fin) ==
  /\ \A a \in D : a \in Nat /\ Hay(e, a) /\ Fin(e, a) <= fin
  /\ \A a, c \in D : a < c => Tras(e, Fin(e, a)) <= c
  /\ \A a \in D : Continua(D, e, Fin(e, a), fin)

\* A header that is written.
LEMMA HayDe ==
  ASSUME NEW e, NEW fin, EscritoBien(e, fin), NEW x, Hay(e, x)
  PROVE  /\ x \in Nat /\ x < fin /\ e[x] \in Registro /\ Resto(x) + HEADER <= T
         /\ Fin(e, x) \in Nat /\ x + 5 <= Fin(e, x) /\ Tam(e, x) \in Nat
  BY Constantes DEF EscritoBien, Hay, Fin, Tam, Registro

\* A tile ends before the next one begins.
LEMMA TejasDisjuntas ==
  ASSUME NEW D, NEW e, NEW fin, EscritoBien(e, fin), Teja(D, e, fin),
         NEW a \in D, NEW c \in D, a < c
  PROVE  Fin(e, a) <= c
  <1>1. Hay(e, a) /\ Tras(e, Fin(e, a)) <= c /\ c \in Nat
    BY DEF Teja
  <1>2. Fin(e, a) \in Nat
    BY <1>1, HayDe
  <1> QED BY <1>1, <1>2, TrasNat

\* What freeMuse takes for a header begins a tile.
LEMMA LoMiradoEsTeja ==
  ASSUME NEW D, NEW e, NEW fin \in Nat, EscritoBien(e, fin), Teja(D, e, fin), NEW a \in D,
         NEW c \in Miradas(e, Fin(e, a)), Hay(e, c)
  PROVE  c \in D /\ c = Tras(e, Fin(e, a))
  <1> DEFINE z == Fin(e, a)
  <1>1. z \in Nat /\ Continua(D, e, z, fin) /\ \A x \in D : x \in Nat /\ Hay(e, x)
    BY HayDe DEF Teja
  <1>2. c \in Nat /\ c < fin /\ Resto(c) + HEADER <= T
    BY HayDe
  <1>3. c = z \/ c = Hasta(z) \/ c = Tras(e, z)
    BY DEF Miradas
  <1> HIDE DEF z
  <1>4. /\ Hasta(z) \in Nat /\ z <= Hasta(z) /\ Hasta(z) <= Tras(e, z) /\ Tras(e, z) \in Nat
    BY <1>1, TrasNat
  <1>5. \A x : Hay(e, x) => ~Num(e, x)
    BY DEF Hay, Num
  <1>6. Hay(e, Hasta(z)) => Tras(e, z) = Hasta(z)
    <2> SUFFICES ASSUME Hay(e, Hasta(z))
                 PROVE  Tras(e, z) <= Hasta(z)
      BY <1>4
    <2>1. ~Num(e, Hasta(z)) /\ Hasta(z) <= Hasta(z)
      BY <1>4, <1>5
    <2> QED BY <2>1, <1>1, <1>4, TrasAcotado
  <1>7. c = Tras(e, z)
    <2>1. CASE c = z
      BY <2>1, <1>2, TrasHeader
    <2>2. CASE c = Hasta(z)
      BY <2>2, <1>6
    <2> QED BY <2>1, <2>2, <1>3
  <1>8. ~(Hasta(z) >= fin)
    BY <1>2, <1>4, <1>7
  <1> QED BY <1>1, <1>6, <1>7, <1>8 DEF Continua, z

\* Outside of lo..hi - 1, f has the bytes '#' of e and no header that e has not.
Igual(e, f, lo, hi) ==
  \A x \in Nat : x < lo \/ x >= hi =>
    /\ Num(f, x) <=> Num(e, x)
    /\ Hay(f, x) => Hay(e, x) /\ f[x] = e[x]

\* What Salto skips depends on the '#' alone.
LEMMA SaltoIgual ==
  ASSUME NEW e, NEW f, NEW a \in Nat, \A i \in 0..4 : Num(f, a + i) <=> Num(e, a + i)
  PROVE  SaltoDe(e, a) = SaltoDe(f, a)
  <1>1. SinNumeral(e, a) = SinNumeral(f, a)
    BY Constantes DEF SinNumeral
  <1> QED BY <1>1 DEF SaltoDe

\* What follows the bytes that change is looked for in the same places.
LEMMA TrasALaDerecha ==
  ASSUME NEW e, NEW f, NEW lo \in Nat, NEW hi \in Nat, Igual(e, f, lo, hi),
         NEW x \in Nat, hi <= x
  PROVE  Tras(e, x) = Tras(f, x)
  <1>1. Hasta(x) \in Nat /\ x <= Hasta(x)
    BY PropiedadesHasta
  <1>2. \A i \in 0..4 : Num(f, Hasta(x) + i) <=> Num(e, Hasta(x) + i)
    BY <1>1 DEF Igual
  <1> QED BY <1>1, <1>2, SaltoIgual DEF Tras

\* What comes before is too, or where they begin.
LEMMA TrasALaIzquierda ==
  ASSUME NEW e, NEW f, NEW lo \in Nat, NEW hi \in Nat, Igual(e, f, lo, hi), Hay(f, lo),
         NEW x \in Nat, Tras(e, x) <= lo
  PROVE  Tras(f, x) <= lo /\ (Tras(f, x) = lo \/ Tras(f, x) = Tras(e, x))
  <1> DEFINE h == Hasta(x)
             k == SaltoDe(e, h)
             m == SaltoDe(f, h)
  <1>1. h \in Nat /\ Tras(e, x) = h + k /\ Tras(f, x) = h + m
    BY PropiedadesHasta DEF Tras
  <1>2. /\ k \in 0..4
        /\ \A i \in 0..4 : i < k => Num(e, h + i)
        /\ ~Num(e, h + k) \/ (k = 0 /\ \A i \in 0..4 : Num(e, h + i))
    BY <1>1, PropiedadesSalto
  <1>3. /\ m \in 0..4
        /\ \A i \in 0..4 : i < m => Num(f, h + i)
        /\ ~Num(f, h + m) \/ (m = 0 /\ \A i \in 0..4 : Num(f, h + i))
    BY <1>1, PropiedadesSalto
  <1> HIDE DEF h, k, m
  <1>4. ~Num(f, lo)
    BY DEF Hay, Num
  <1>5. h + k <= lo
    BY <1>1
  <1>6. \A i \in 0..4 : h + i < lo => (Num(f, h + i) <=> Num(e, h + i))
    BY <1>1 DEF Igual
  <1>7. h + m <= lo
    <2>1. CASE lo >= h + 5
      BY <2>1, <1>1, <1>3
    <2>2. CASE lo < h + 5
      <3>1. lo - h \in 0..4 /\ h + (lo - h) = lo
        BY <2>2, <1>1, <1>2, <1>5
      <3>2. ~(lo - h < m)
        BY <3>1, <1>3, <1>4
      <3> QED BY <3>1, <3>2, <1>1, <1>3
    <2> QED BY <2>1, <2>2, <1>1
  <1>8. h + m = lo \/ m = k
    <2> SUFFICES ASSUME h + m < lo, m # k
                 PROVE  FALSE
      BY <1>7, <1>1, <1>3
    <2>1. Num(f, h + m) <=> Num(e, h + m)
      BY <1>6, <1>3
    <2>2. CASE m < k
      <3>1. m = 0 /\ \A i \in 0..4 : Num(f, h + i)
        BY <2>1, <2>2, <1>2, <1>3
      <3>2. Num(f, h + k)
        BY <3>1, <1>2
      <3>3. h + k < lo
        BY <3>2, <1>4, <1>5, <1>1, <1>2
      <3> QED BY <3>2, <3>3, <1>2, <1>6, <2>2, <1>3
    <2>3. CASE k < m
      <3>1. Num(f, h + k)
        BY <2>3, <1>2, <1>3
      <3>2. h + k < lo
        BY <2>3, <1>1, <1>2, <1>3
      <3>3. Num(e, h + k)
        BY <3>1, <3>2, <1>2, <1>6
      <3>4. Num(e, h + m) /\ k = 0
        BY <3>3, <1>2, <1>3
      <3>5. Num(f, h + m)
        BY <3>4, <2>1
      <3> QED BY <3>5, <1>3, <2>3, <1>2
    <2> QED BY <2>2, <2>3, <1>2, <1>3
  <1> QED BY <1>1, <1>7, <1>8

\* When the bytes lo..hi - 1 change, and begin a tile: the tiles before and
\* after are kept, and those in there are as they must be.
Fuera(D, e, G, f, lo, hi) ==
  /\ \A a \in D : a < lo => a \in G /\ Hay(f, a) /\ Tras(e, Fin(e, a)) <= lo
  /\ \A a \in D : a >= hi => a \in G /\ Hay(f, a)
  /\ \A a \in G : a < lo \/ a >= hi => a \in D
Dentro(G, f, top, lo, hi) ==
  \A a \in G : lo <= a /\ a < hi =>
    /\ a \in Nat /\ Hay(f, a) /\ Fin(f, a) <= top
    /\ \A c \in G : a < c => Tras(f, Fin(f, a)) <= c
    /\ Continua(G, f, Fin(f, a), top)

\* They are tiles again.
LEMMA Cambio ==
  ASSUME NEW D, NEW e, NEW fin \in Nat, EscritoBien(e, fin), Teja(D, e, fin),
         NEW G, NEW f, NEW top \in Nat, EscritoBien(f, top), fin <= top,
         NEW lo \in Nat, NEW hi \in Nat, lo < hi, lo <= fin, top = fin \/ fin <= hi,
         Igual(e, f, lo, hi),
         lo \in G, Hay(f, lo), Fuera(D, e, G, f, lo, hi), Dentro(G, f, top, lo, hi)
  PROVE  Teja(G, f, top)
  <1>0. /\ \A a \in D : a < lo => a \in G /\ Hay(f, a) /\ Tras(e, Fin(e, a)) <= lo
        /\ \A a \in D : a >= hi => a \in G /\ Hay(f, a)
        /\ \A a \in G : a < lo \/ a >= hi => a \in D
        /\ \A a \in G : lo <= a /\ a < hi =>
             /\ a \in Nat /\ Hay(f, a) /\ Fin(f, a) <= top
             /\ \A c \in G : a < c => Tras(f, Fin(f, a)) <= c
             /\ Continua(G, f, Fin(f, a), top)
    BY DEF Fuera, Dentro
  <1>1. \A a \in D : /\ a \in Nat /\ Hay(e, a) /\ Fin(e, a) <= fin
                     /\ Fin(e, a) \in Nat /\ a < Fin(e, a)
    BY HayDe DEF Teja
  <1>2. \A a \in G : a \in Nat /\ Hay(f, a)
    BY <1>0, <1>1
  <1>3. ASSUME NEW a \in D, a < lo \/ a >= hi, Hay(f, a)
        PROVE  f[a] = e[a] /\ Fin(f, a) = Fin(e, a)
    BY <1>1, <1>3 DEF Igual, Fin, Tam
  <1>4. ASSUME NEW a \in G, a < lo
        PROVE  /\ Fin(f, a) <= top /\ Tras(f, Fin(f, a)) <= lo
               /\ Continua(G, f, Fin(f, a), top)
    <2> DEFINE z == Fin(e, a)
    <2>1. a \in D /\ Hay(f, a) /\ Tras(e, z) <= lo /\ Fin(f, a) = z
      BY <1>0, <1>3, <1>4
    <2>2. z \in Nat /\ z <= fin /\ Continua(D, e, z, fin)
      BY <2>1, <1>1 DEF Teja
    <2> HIDE DEF z
    <2>3. Tras(f, z) <= lo /\ (Tras(f, z) = lo \/ Tras(f, z) = Tras(e, z))
      BY <2>1, <2>2, TrasALaIzquierda
    <2>4. Hasta(z) \in Nat /\ Hasta(z) <= Tras(e, z) /\ Tras(e, z) \in Nat
      BY <2>2, TrasNat
    <2>5. \A c \in D : c <= lo => c \in G
      BY <1>0, <1>1
    <2>6. Continua(G, f, z, top)
      <3>1. CASE Hasta(z) >= fin
        <4>1. Hasta(z) = lo
          BY <3>1, <2>1, <2>4
        <4> QED BY <4>1 DEF Continua
      <3>2. CASE Hasta(z) \in D
        <4>1. Hasta(z) <= lo
          BY <2>1, <2>4
        <4> QED BY <4>1, <3>2, <2>5 DEF Continua
      <3>3. CASE Resto(Hasta(z)) = 0 /\ Tras(e, z) \in D
        <4>1. Tras(f, z) \in G
          BY <3>3, <2>1, <2>3, <2>5
        <4> QED BY <4>1, <3>3 DEF Continua
      <3> QED BY <2>2, <3>1, <3>2, <3>3 DEF Continua
    <2> QED BY <2>1, <2>2, <2>3, <2>6
  <1>5. ASSUME NEW a \in G, a >= hi
        PROVE  /\ Fin(f, a) <= top /\ Fin(f, a) = Fin(e, a) /\ a \in D
               /\ Tras(f, Fin(f, a)) = Tras(e, Fin(e, a))
               /\ Continua(G, f, Fin(f, a), top)
    <2> DEFINE z == Fin(e, a)
    <2>1. a \in D /\ Hay(f, a) /\ Fin(f, a) = z
      BY <1>0, <1>2, <1>3, <1>5
    <2>2. /\ z \in Nat /\ z <= fin /\ hi <= z /\ hi < z /\ a \in Nat /\ Continua(D, e, z, fin)
      BY <2>1, <1>1, <1>5 DEF Teja
    <2> HIDE DEF z
    <2>3. Tras(f, z) = Tras(e, z)
      BY <2>2, TrasALaDerecha
    <2>4. z <= Hasta(z) /\ Hasta(z) \in Nat /\ Hasta(z) <= Tras(e, z) /\ Tras(e, z) \in Nat
      BY <2>2, TrasNat
    <2>5. Hasta(z) >= hi /\ Tras(e, z) >= hi /\ top = fin
      BY <2>2, <2>4
    <2>6. \A c \in D : c >= hi => c \in G
      BY <1>0
    <2>7. Continua(G, f, z, top)
      BY <2>2, <2>3, <2>5, <2>6 DEF Continua
    <2> QED BY <2>1, <2>2, <2>3, <2>7 DEF z
  <1>6. ASSUME NEW a \in G, NEW c \in G, a < c
        PROVE  Tras(f, Fin(f, a)) <= c
    <2>0. a \in Nat /\ c \in Nat /\ Fin(f, a) \in Nat
      BY <1>2, HayDe
    <2>00. Tras(f, Fin(f, a)) \in Nat
      BY <2>0, TrasNat
    <2>1. CASE a < lo /\ c >= lo
      BY <2>0, <2>00, <2>1, <1>4
    <2>2. CASE a < lo /\ c < lo
      <3>1. a \in D /\ c \in D /\ Hay(f, a)
        BY <2>2, <1>0, <1>2
      <3>2. Tras(e, Fin(e, a)) <= c
        BY <3>1, <1>6 DEF Teja
      <3>3. Fin(f, a) = Fin(e, a) /\ Fin(e, a) \in Nat /\ Tras(e, Fin(e, a)) <= lo
        BY <3>1, <2>2, <1>0, <1>1, <1>3
      <3>4. Tras(f, Fin(e, a)) = lo \/ Tras(f, Fin(e, a)) = Tras(e, Fin(e, a))
        BY <3>3, TrasALaIzquierda
      <3>5. Tras(f, Fin(e, a)) <= lo
        BY <3>3, TrasALaIzquierda
      <3>6. CASE Tras(f, Fin(e, a)) = lo
        \* then the '#' of e went up to c, and f has a header there
        <4>1. Hay(f, c) /\ Resto(c) + HEADER <= T
          BY <1>2, HayDe
        <4>2. Hasta(Fin(e, a)) <= c /\ ~Num(f, c)
          BY <4>1, <3>2, <3>3, <2>0, TrasNat DEF Hay, Num
        <4> QED BY <4>2, <3>3, <2>0, TrasAcotado
      <3> QED BY <3>2, <3>3, <3>4, <3>6
    <2>3. CASE a >= hi
      <3>1. a \in D /\ c \in D /\ Tras(f, Fin(f, a)) = Tras(e, Fin(e, a))
        BY <2>3, <2>0, <1>5, <1>6
      <3> QED BY <3>1, <1>6 DEF Teja
    <2>4. CASE lo <= a /\ a < hi
      BY <2>4, <1>0, <1>6
    <2> QED BY <2>0, <2>1, <2>2, <2>3, <2>4
  <1>7. ASSUME NEW a \in G
        PROVE  Fin(f, a) <= top /\ Continua(G, f, Fin(f, a), top)
    BY <1>0, <1>2, <1>4, <1>5
  <1> QED BY <1>2, <1>6, <1>7 DEF Teja

\* The last tile of those that changed ends where another one ended.
LEMMA Hereda ==
  ASSUME NEW D, NEW e, NEW fin \in Nat, EscritoBien(e, fin), Teja(D, e, fin),
         NEW G, NEW f, NEW lo \in Nat, NEW hi \in Nat, Igual(e, f, lo, hi),
         NEW w \in D, Fin(e, w) = hi,
         \A a \in G : a >= hi => a \in D,
         \A a \in D : a >= hi => a \in G
  PROVE  /\ \A c \in G : c >= hi => Tras(f, hi) <= c
         /\ Continua(G, f, hi, fin)
  <1>1. Hay(e, w) /\ w \in Nat /\ w < hi
    BY HayDe, Constantes DEF Teja
  <1>2. Tras(e, hi) = Tras(f, hi)
    BY TrasALaDerecha
  <1>3. ASSUME NEW c \in G, c >= hi
        PROVE  Tras(f, hi) <= c
    <2>1. c \in D /\ c \in Nat
      BY <1>3 DEF Teja
    <2> QED BY <2>1, <1>1, <1>2, <1>3 DEF Teja
  <1>4. Continua(G, f, hi, fin)
    <2>1. Continua(D, e, hi, fin)
      BY DEF Teja
    <2>2. Hasta(hi) >= hi /\ Tras(f, hi) >= hi
      BY TrasNat
    <2> QED BY <2>1, <2>2, <1>2 DEF Continua
  <1> QED BY <1>3, <1>4

-----------------------------------------------------------------------------
(* Writing.                                                                  *)

LEMMA Anchos ==
  ASSUME NEW e, NEW x \in Nat
  PROVE  /\ Hay(e, x) => Bytes(x, Ancho(e[x])) = x..x + 4
         /\ Num(e, x) => Bytes(x, Ancho(e[x])) = {x}
  BY Constantes DEF Hay, Num, Bytes, Ancho

\* f is e with something written in lo..hi - 1.
Solo(e, f, lo, hi) ==
  /\ Igual(e, f, lo, hi)
  /\ \A x \in Nat : x + 5 <= lo \/ hi <= x => (Hay(e, x) => Hay(f, x))

\* What is written in some bytes is written in more.
LEMMA SoloMas ==
  ASSUME NEW e, NEW f, NEW lo \in Nat, NEW hi \in Nat, Solo(e, f, lo, hi),
         NEW l \in Nat, NEW h \in Nat, l <= lo, hi <= h
  PROVE  Solo(e, f, l, h)
  BY DEF Solo, Igual

\* Two writes in the same bytes are one.
LEMMA SoloDos ==
  ASSUME NEW e, NEW g, NEW f, NEW lo, NEW hi, Solo(e, g, lo, hi), Solo(g, f, lo, hi)
  PROVE  Solo(e, f, lo, hi)
  BY DEF Solo, Igual

\* A header out of them is as it was.
LEMMA SoloHay ==
  ASSUME NEW e, NEW f, NEW lo, NEW hi, Solo(e, f, lo, hi), NEW x \in Nat, Hay(e, x),
         x + 5 <= lo \/ hi <= x, lo \in Nat
  PROVE  Hay(f, x) /\ f[x] = e[x]
  BY DEF Solo, Igual

\* f is e with a header written in a, or '#' from p on.
HeaderEn(e, f, top, a, libre, s) ==
  /\ EscritoBien(f, top)
  /\ Hay(f, a) /\ (Libre(f, a) <=> libre) /\ Tam(f, a) = s /\ Fin(f, a) = a + 5 + s
  /\ \A x \in Nat : x # a => (Hay(f, x) => Hay(e, x) /\ f[x] = e[x])
  /\ Solo(e, f, a, a + 5)
NumeralesEn(e, f, top, p, k) ==
  /\ EscritoBien(f, top)
  /\ \A x \in Nat : p <= x /\ x < p + k => Num(f, x) /\ ~Hay(f, x)
  /\ \A x \in Nat : Hay(f, x) => Hay(e, x) /\ f[x] = e[x]
  /\ Solo(e, f, p, p + k)

\* What ConHeader writes.
LEMMA EscribirHeader ==
  ASSUME NEW e, NEW fin \in Nat, EscritoBien(e, fin), NEW top \in Nat, fin <= top,
         NEW a \in Nat, Resto(a) + HEADER <= T, a < top, NEW libre \in BOOLEAN, NEW s \in Nat
  PROVE  HeaderEn(e, ConHeader(e, a, libre, s), top, a, libre, s)
  <1> DEFINE f == ConHeader(e, a, libre, s)
  <1>1. Bytes(a, HEADER) = a..a + 4
    BY Constantes DEF Bytes
  <1>2. Header(libre, s) # NUMERAL /\ Header(libre, s) \in Registro
    BY DEF Header, NUMERAL, Registro
  <1>3. /\ DOMAIN f = {a} \cup Salvos(e, a..a + 4)
        /\ f[a] = Header(libre, s)
        /\ \A x \in Salvos(e, a..a + 4) : x # a => f[x] = e[x]
    BY <1>1 DEF ConHeader
  <1> HIDE DEF f
  <1>4. \A x \in Salvos(e, a..a + 4) : x \in DOMAIN e /\ Bytes(x, Ancho(e[x])) \cap (a..a + 4) = {}
    BY DEF Salvos
  <1>5. EscritoBien(f, top)
    <2> SUFFICES ASSUME NEW x \in DOMAIN f
                 PROVE  /\ x \in Nat /\ x < top
                        /\ \/ f[x] = NUMERAL
                           \/ f[x] \in Registro /\ Resto(x) + HEADER <= T
      BY DEF EscritoBien
    <2>1. CASE x = a
      BY <2>1, <1>2, <1>3
    <2>2. CASE x # a
      <3>1. x \in DOMAIN e /\ f[x] = e[x]
        BY <2>2, <1>3, <1>4
      <3> QED BY <3>1 DEF EscritoBien
    <2> QED BY <2>1, <2>2
  <1>6. Hay(f, a) /\ (Libre(f, a) <=> libre) /\ Tam(f, a) = s /\ Fin(f, a) = a + 5 + s
    BY <1>2, <1>3, Constantes DEF Hay, Libre, Fin, Tam, Header
  <1>7. \A x \in Nat : x # a => (Hay(f, x) => Hay(e, x) /\ f[x] = e[x])
    BY <1>3, <1>4 DEF Hay
  <1>8. ASSUME NEW x \in Nat, x + 5 <= a \/ a + 5 <= x, Hay(e, x)
        PROVE  Hay(f, x)
    <2>1. Bytes(x, Ancho(e[x])) = x..x + 4
      BY <1>8, Anchos
    <2>2. (x..x + 4) \cap (a..a + 4) = {}
      BY <1>8
    <2>3. x \in Salvos(e, a..a + 4) /\ x # a
      BY <2>1, <2>2, <1>8 DEF Salvos, Hay
    <2> QED BY <2>3, <1>3, <1>8 DEF Hay
  <1>9. ASSUME NEW x \in Nat, x < a \/ a + 5 <= x
        PROVE  Num(f, x) <=> Num(e, x)
    <2>1. x \notin a..a + 4 /\ x # a
      BY <1>9
    <2>2. ASSUME Num(e, x)
          PROVE  Num(f, x)
      <3>1. Bytes(x, Ancho(e[x])) = {x}
        BY <2>2, Anchos
      <3>2. x \in Salvos(e, a..a + 4)
        BY <3>1, <2>1, <2>2 DEF Salvos, Num
      <3> QED BY <3>2, <2>1, <2>2, <1>3 DEF Num
    <2>3. ASSUME Num(f, x)
          PROVE  Num(e, x)
      BY <2>1, <2>3, <1>3, <1>4 DEF Num
    <2> QED BY <2>2, <2>3
  <1>10. Solo(e, f, a, a + 5)
    BY <1>7, <1>8, <1>9 DEF Igual, Solo
  <1> QED BY <1>5, <1>6, <1>7, <1>10 DEF HeaderEn, f

\* What ConNumerales writes.
LEMMA EscribirNumerales ==
  ASSUME NEW e, NEW fin \in Nat, EscritoBien(e, fin), NEW top \in Nat, fin <= top,
         NEW p \in Nat, NEW k \in Nat, p + k <= top
  PROVE  NumeralesEn(e, ConNumerales(e, Bytes(p, k)), top, p, k)
  <1> DEFINE f == ConNumerales(e, Bytes(p, k))
  <1> DEFINE B == Bytes(p, k)
  <1>1. \A x \in Int : x \in B <=> p <= x /\ x < p + k
    BY DEF Bytes
  <1>2. B \subseteq Nat
    BY DEF Bytes
  <1>3. /\ DOMAIN f = B \cup Salvos(e, B)
        /\ \A x \in B : f[x] = NUMERAL
        /\ \A x \in Salvos(e, B) : x \notin B => f[x] = e[x]
    BY DEF ConNumerales
  <1> HIDE DEF B, f
  <1>4. \A x \in Salvos(e, B) : x \in DOMAIN e /\ Bytes(x, Ancho(e[x])) \cap B = {}
    BY DEF Salvos
  <1>5. EscritoBien(f, top)
    <2> SUFFICES ASSUME NEW x \in DOMAIN f
                 PROVE  /\ x \in Nat /\ x < top
                        /\ \/ f[x] = NUMERAL
                           \/ f[x] \in Registro /\ Resto(x) + HEADER <= T
      BY DEF EscritoBien
    <2>1. CASE x \in B
      BY <2>1, <1>1, <1>2, <1>3
    <2>2. CASE x \notin B
      <3>1. x \in DOMAIN e /\ f[x] = e[x]
        BY <2>2, <1>3, <1>4
      <3> QED BY <3>1 DEF EscritoBien
    <2> QED BY <2>1, <2>2
  <1>6. \A x \in Nat : p <= x /\ x < p + k => Num(f, x) /\ ~Hay(f, x)
    BY <1>1, <1>3 DEF Num, Hay
  <1>7. \A x \in Nat : Hay(f, x) => Hay(e, x) /\ f[x] = e[x]
    BY <1>3, <1>4 DEF Hay
  <1>8. ASSUME NEW x \in Nat, x + 5 <= p \/ p + k <= x, Hay(e, x)
        PROVE  Hay(f, x)
    <2>1. Bytes(x, Ancho(e[x])) = x..x + 4
      BY <1>8, Anchos
    <2>2. (x..x + 4) \cap B = {} /\ x \notin B
      BY <1>8, <1>1
    <2>3. x \in Salvos(e, B)
      BY <2>1, <2>2, <1>8 DEF Salvos, Hay
    <2> QED BY <2>2, <2>3, <1>3, <1>8 DEF Hay
  <1>9. ASSUME NEW x \in Nat, x < p \/ p + k <= x
        PROVE  Num(f, x) <=> Num(e, x)
    <2>1. x \notin B
      BY <1>9, <1>1
    <2>2. ASSUME Num(e, x)
          PROVE  Num(f, x)
      <3>1. Bytes(x, Ancho(e[x])) = {x}
        BY <2>2, Anchos
      <3>2. x \in Salvos(e, B)
        BY <3>1, <2>1, <2>2 DEF Salvos, Num
      <3> QED BY <3>2, <2>1, <2>2, <1>3 DEF Num
    <2>3. ASSUME Num(f, x)
          PROVE  Num(e, x)
      BY <2>1, <2>3, <1>3, <1>4 DEF Num
    <2> QED BY <2>2, <2>3
  <1>10. Solo(e, f, p, p + k)
    BY <1>7, <1>8, <1>9 DEF Igual, Solo
  <1> QED BY <1>5, <1>6, <1>7, <1>10 DEF NumeralesEn, f

\* What Pisar writes.
LEMMA PisarBytes ==
  ASSUME NEW e, NEW fin \in Nat, EscritoBien(e, fin),
         NEW p \in Nat, NEW k \in Nat, NEW f, Vale(f, Pisar(e, Bytes(p, k)))
  PROVE  /\ EscritoBien(f, fin)
         /\ \A x \in Nat : Hay(f, x) => Hay(e, x) /\ f[x] = e[x]
         /\ Solo(e, f, p, p + k)
  <1> USE DEF Vale
  <1> DEFINE B == Bytes(p, k)
  <1>1. \A x \in Int : x \in B <=> p <= x /\ x < p + k
    BY DEF Bytes
  <1>3. DOMAIN f = Salvos(e, B) /\ \A x \in Salvos(e, B) : f[x] = e[x]
    BY DEF Pisar
  <1> HIDE DEF B
  <1>4. \A x \in Salvos(e, B) : x \in DOMAIN e /\ Bytes(x, Ancho(e[x])) \cap B = {}
    BY DEF Salvos
  <1>5. EscritoBien(f, fin)
    BY <1>3, <1>4 DEF EscritoBien
  <1>7. \A x \in Nat : Hay(f, x) => Hay(e, x) /\ f[x] = e[x]
    BY <1>3, <1>4 DEF Hay
  <1>8. ASSUME NEW x \in Nat, x + 5 <= p \/ p + k <= x, Hay(e, x)
        PROVE  Hay(f, x)
    <2>1. Bytes(x, Ancho(e[x])) = x..x + 4
      BY <1>8, Anchos
    <2>2. (x..x + 4) \cap B = {}
      BY <1>8, <1>1
    <2>3. x \in Salvos(e, B)
      BY <2>1, <2>2, <1>8 DEF Salvos, Hay
    <2> QED BY <2>3, <1>3, <1>8 DEF Hay
  <1>9. ASSUME NEW x \in Nat, x < p \/ p + k <= x
        PROVE  Num(f, x) <=> Num(e, x)
    <2>1. x \notin B
      BY <1>9, <1>1
    <2>2. ASSUME Num(e, x)
          PROVE  Num(f, x)
      <3>1. Bytes(x, Ancho(e[x])) = {x}
        BY <2>2, Anchos
      <3>2. x \in Salvos(e, B)
        BY <3>1, <2>1, <2>2 DEF Salvos, Num
      <3> QED BY <3>2, <2>2, <1>3 DEF Num
    <2>3. ASSUME Num(f, x)
          PROVE  Num(e, x)
      BY <2>3, <1>3, <1>4 DEF Num
    <2> QED BY <2>2, <2>3
  <1>10. Solo(e, f, p, p + k)
    BY <1>7, <1>8, <1>9 DEF Igual, Solo
  <1> QED BY <1>5, <1>7, <1>10

-----------------------------------------------------------------------------
(* What a write does to the tiles.  In each lemma: the new tiles, and that   *)
(* the headers of the others are as they were.                               *)

Mismo(e, f, x) == Hay(f, x) /\ f[x] = e[x]

\* What a tile is.
LEMMA TejaDe ==
  ASSUME NEW D, NEW e, NEW fin \in Nat, EscritoBien(e, fin), Teja(D, e, fin), NEW a \in D
  PROVE  /\ a \in Nat /\ Hay(e, a) /\ e[a] \in Registro /\ Tam(e, a) \in Nat /\ a < fin
         /\ Resto(a) + 5 <= T /\ Fin(e, a) = a + 5 + Tam(e, a) /\ Fin(e, a) <= fin
         /\ Fin(e, a) \in Nat /\ Tras(e, Fin(e, a)) \in Nat
         /\ Fin(e, a) <= Tras(e, Fin(e, a)) /\ Tras(e, Fin(e, a)) <= a + 5 + Tam(e, a) + 8
  <1>1. a \in Nat /\ Hay(e, a) /\ Fin(e, a) <= fin
    BY DEF Teja
  <1>2. /\ e[a] \in Registro /\ Tam(e, a) \in Nat /\ a < fin /\ Resto(a) + 5 <= T
        /\ Fin(e, a) \in Nat
    BY <1>1, HayDe, Constantes
  <1>3. Fin(e, a) = a + 5 + Tam(e, a)
    BY Constantes DEF Fin
  <1>4. Hasta(Fin(e, a)) \in Nat /\ Hasta(Fin(e, a)) <= Fin(e, a) + 4
    BY <1>2, PropiedadesHasta
  <1>5. SaltoDe(e, Hasta(Fin(e, a))) \in 0..4
    BY <1>4, PropiedadesSalto
  <1>6. Tras(e, Fin(e, a)) <= Fin(e, a) + 8
    BY <1>2, <1>4, <1>5 DEF Tras
  <1>7. Tras(e, Fin(e, a)) \in Nat /\ Fin(e, a) <= Tras(e, Fin(e, a))
    BY <1>2, TrasNat
  <1> QED BY <1>1, <1>2, <1>3, <1>6, <1>7

\* What is before a tile, and what is after it.
LEMMA TejasAlrededor ==
  ASSUME NEW D, NEW e, NEW fin \in Nat, EscritoBien(e, fin), Teja(D, e, fin),
         NEW a \in D, NEW x \in D, x # a
  PROVE  /\ x < a => Tras(e, Fin(e, x)) <= a /\ Fin(e, x) <= a /\ x + 5 <= a
         /\ x > a => x >= Tras(e, Fin(e, a)) /\ x >= Fin(e, a) /\ x >= a + 5
  <1>1. /\ a \in Nat /\ x \in Nat /\ a + 5 <= Fin(e, a) /\ x + 5 <= Fin(e, x)
        /\ Fin(e, a) <= Tras(e, Fin(e, a)) /\ Fin(e, x) <= Tras(e, Fin(e, x))
        /\ Fin(e, a) \in Nat /\ Fin(e, x) \in Nat
        /\ Tras(e, Fin(e, a)) \in Nat /\ Tras(e, Fin(e, x)) \in Nat
    <2>1. /\ a \in Nat /\ Tam(e, a) \in Nat /\ Fin(e, a) = a + 5 + Tam(e, a)
          /\ Fin(e, a) \in Nat /\ Tras(e, Fin(e, a)) \in Nat /\ Fin(e, a) <= Tras(e, Fin(e, a))
      BY TejaDe
    <2>2. /\ x \in Nat /\ Tam(e, x) \in Nat /\ Fin(e, x) = x + 5 + Tam(e, x)
          /\ Fin(e, x) \in Nat /\ Tras(e, Fin(e, x)) \in Nat /\ Fin(e, x) <= Tras(e, Fin(e, x))
      BY TejaDe
    <2> QED BY <2>1, <2>2
  <1>2. /\ x < a => Tras(e, Fin(e, x)) <= a
        /\ x > a => Tras(e, Fin(e, a)) <= x
    BY <1>1 DEF Teja
  <1> QED BY <1>1, <1>2

\* A tile changes, or with it what comes after it up to hi.
LEMMA CambioTeja ==
  ASSUME NEW D, NEW e, NEW fin \in Nat, EscritoBien(e, fin), Teja(D, e, fin), NEW a \in D,
         NEW G, NEW f, NEW top \in Nat, EscritoBien(f, top), fin <= top,
         NEW hi \in Nat, a < hi, top = fin \/ fin <= hi,
         Solo(e, f, a, hi), Hay(f, a), a \in G,
         \A x : x \in G \ {a} => x \in D \/ (a < x /\ x < hi),
         \A x \in D : x < a \/ x >= hi => x \in G,
         \A x \in G : a <= x /\ x < hi =>
           /\ x \in Nat /\ Hay(f, x) /\ Fin(f, x) <= top
           /\ \A c \in G : x < c => Tras(f, Fin(f, x)) <= c
           /\ Continua(G, f, Fin(f, x), top)
  PROVE  Teja(G, f, top) /\ \A x \in D : x < a \/ x >= hi => Mismo(e, f, x)
  <1>1. a \in Nat /\ a <= fin
    BY TejaDe
  <1>2. \A x \in D : x \in Nat /\ Hay(e, x)
    BY TejaDe
  <1>3. \A x \in D : x < a => Tras(e, Fin(e, x)) <= a /\ x + 5 <= a
    BY <1>1, TejasAlrededor
  <1>4. \A x \in D : x < a \/ x >= hi => Hay(f, x) /\ x \in G
    BY <1>2, <1>3 DEF Solo
  <1>5. \A x \in D : x < a => x \in G /\ Hay(f, x) /\ Tras(e, Fin(e, x)) <= a
    BY <1>3, <1>4
  <1>6. \A x \in D : x >= hi => x \in G /\ Hay(f, x)
    BY <1>4
  <1>7. \A x \in G : x < a \/ x >= hi => x \in D
    BY <1>1, <1>2
  <1>8. Teja(G, f, top)
    <2>1. Fuera(D, e, G, f, a, hi)
      BY <1>5, <1>6, <1>7 DEF Fuera
    <2>2. Dentro(G, f, top, a, hi)
      BY DEF Dentro
    <2>3. Igual(e, f, a, hi)
      BY DEF Solo
    <2> QED BY <1>1, <2>1, <2>2, <2>3, Cambio
  <1>9. \A x \in D : x < a \/ x >= hi => Mismo(e, f, x)
    BY <1>2, <1>4 DEF Mismo, Igual, Solo
  <1> QED BY <1>8, <1>9

\* The header changes and the tile does not.
LEMMA TejaEntera ==
  ASSUME NEW D, NEW e, NEW fin \in Nat, EscritoBien(e, fin), Teja(D, e, fin), NEW a \in D,
         NEW f, EscritoBien(f, fin), NEW hi \in Nat, hi = Fin(e, a), Solo(e, f, a, hi),
         Hay(f, a), Fin(f, a) = hi
  PROVE  Teja(D, f, fin) /\ \A x \in D : x # a => Mismo(e, f, x)
  <1>1. a \in Nat /\ a + 5 <= hi /\ hi <= fin
    BY TejaDe
  <1>2. \A x \in D : x \in Nat /\ (x < a \/ x >= hi \/ x = a)
    BY TejaDe, TejasAlrededor
  <1>3. /\ \A c \in D : c >= hi => Tras(f, hi) <= c
        /\ Continua(D, f, hi, fin)
    <2>1. Igual(e, f, a, hi)
      BY DEF Solo
    <2> QED BY <1>1, <2>1, Hereda
  <1>4. \A c \in D : a < c => Tras(f, hi) <= c
    BY <1>1, <1>2, <1>3
  <1>5. \A x \in D : a <= x /\ x < hi =>
          /\ x \in Nat /\ Hay(f, x) /\ Fin(f, x) <= fin
          /\ \A c \in D : x < c => Tras(f, Fin(f, x)) <= c
          /\ Continua(D, f, Fin(f, x), fin)
    <2> SUFFICES ASSUME NEW x \in D, a <= x, x < hi
                 PROVE  x = a
      BY <1>1, <1>3, <1>4
    <2> QED BY <1>1, <1>2
  <1>6. a < hi /\ fin <= fin
    BY <1>1
  <1>7. Teja(D, f, fin) /\ \A x \in D : x < a \/ x >= hi => Mismo(e, f, x)
    BY <1>5, <1>6, CambioTeja
  <1> QED BY <1>2, <1>7

\* It is divided in two.
LEMMA TejaPartida ==
  ASSUME NEW D, NEW e, NEW fin \in Nat, EscritoBien(e, fin), Teja(D, e, fin), NEW a \in D,
         NEW f, EscritoBien(f, fin), NEW hi \in Nat, hi = Fin(e, a), Solo(e, f, a, hi),
         NEW m \in Nat, a + 5 <= m, m < hi,
         Hay(f, a), Hay(f, m), Fin(f, m) = hi,
         Fin(f, a) <= fin, Tras(f, Fin(f, a)) <= m, Hasta(Fin(f, a)) = m
  PROVE  Teja(D \cup {m}, f, fin) /\ m \notin D /\ \A x \in D : x # a => Mismo(e, f, x)
  <1> DEFINE G == D \cup {m}
  <1>1. a \in Nat /\ a + 5 <= hi /\ hi <= fin
    BY TejaDe
  <1>2. \A x \in D : x \in Nat /\ (x < a \/ x >= hi \/ x = a)
    BY TejaDe, TejasAlrededor
  <1>3. m \notin D
    BY <1>1, <1>2
  <1>4. /\ \A c \in G : c >= hi => Tras(f, hi) <= c
        /\ Continua(G, f, hi, fin)
    <2>1. /\ \A c \in G : c >= hi => c \in D
          /\ \A c \in D : c >= hi => c \in G
      BY <1>1
    <2>2. Igual(e, f, a, hi)
      BY DEF Solo
    <2> HIDE DEF G
    <2> QED BY <1>1, <2>1, <2>2, Hereda
  <1>5. /\ \A c \in G : m < c => Tras(f, hi) <= c
        /\ \A c \in G : a < c => Tras(f, Fin(f, a)) <= c
    <2>1. \A c \in G : m < c => c >= hi
      BY <1>1, <1>2
    <2>2. \A c \in G : a < c => c = m \/ c >= hi
      BY <1>1, <1>2
    <2>3. Fin(f, a) \in Nat
      BY HayDe
    <2>4. Tras(f, Fin(f, a)) \in Nat
      BY <2>3, TrasNat
    <2> QED BY <1>1, <1>2, <1>4, <2>1, <2>2, <2>4
  <1>6. \A x \in G : a <= x /\ x < hi =>
          /\ x \in Nat /\ Hay(f, x) /\ Fin(f, x) <= fin
          /\ \A c \in G : x < c => Tras(f, Fin(f, x)) <= c
          /\ Continua(G, f, Fin(f, x), fin)
    <2>1. Continua(G, f, Fin(f, a), fin)
      BY DEF Continua
    <2> SUFFICES ASSUME NEW x \in G, a <= x, x < hi
                 PROVE  x = a \/ x = m
      BY <1>1, <1>4, <1>5, <2>1
    <2> QED BY <1>1, <1>2
  <1>7. /\ a < hi /\ fin <= fin /\ a \in G
        /\ \A x : x \in G \ {a} => x \in D \/ (a < x /\ x < hi)
        /\ \A x \in D : x < a \/ x >= hi => x \in G
    BY <1>1
  <1> HIDE DEF G
  <1>8. Teja(G, f, fin) /\ \A x \in D : x < a \/ x >= hi => Mismo(e, f, x)
    BY <1>6, <1>7, CambioTeja
  <1> QED BY <1>2, <1>3, <1>8 DEF G

\* It ends before, and what it leaves is skipped.
LEMMA TejaAcortada ==
  ASSUME NEW D, NEW e, NEW fin \in Nat, EscritoBien(e, fin), Teja(D, e, fin), NEW a \in D,
         NEW f, EscritoBien(f, fin), NEW hi \in Nat, hi = Fin(e, a), Solo(e, f, a, hi),
         Hay(f, a), Fin(f, a) <= hi,
         \A c \in D : c >= hi => Tras(f, Fin(f, a)) <= c,
         Continua(D, f, Fin(f, a), fin)
  PROVE  Teja(D, f, fin) /\ \A x \in D : x # a => Mismo(e, f, x)
  <1>1. a \in Nat /\ a + 5 <= hi /\ hi <= fin
    BY TejaDe
  <1>2. \A x \in D : x \in Nat /\ (x < a \/ x >= hi \/ x = a)
    BY TejaDe, TejasAlrededor
  <1>3. Fin(f, a) \in Nat
    BY HayDe
  <1>4. \A c \in D : a < c => Tras(f, Fin(f, a)) <= c
    BY <1>1, <1>2
  <1>5. \A x \in D : a <= x /\ x < hi =>
          /\ x \in Nat /\ Hay(f, x) /\ Fin(f, x) <= fin
          /\ \A c \in D : x < c => Tras(f, Fin(f, x)) <= c
          /\ Continua(D, f, Fin(f, x), fin)
    <2> SUFFICES ASSUME NEW x \in D, a <= x, x < hi
                 PROVE  x = a
      BY <1>1, <1>3, <1>4
    <2> QED BY <1>1, <1>2
  <1>6. a < hi /\ fin <= fin
    BY <1>1
  <1>7. Teja(D, f, fin) /\ \A x \in D : x < a \/ x >= hi => Mismo(e, f, x)
    BY <1>5, <1>6, CambioTeja
  <1> QED BY <1>2, <1>7

\* It takes what was skipped after it, up to the next header or to the end.
LEMMA TejaCrecida ==
  ASSUME NEW D, NEW e, NEW n \in Nat, NEW fin \in Nat, fin = Inicio(n),
         EscritoBien(e, fin), Teja(D, e, fin), NEW a \in D,
         NEW f, EscritoBien(f, fin), NEW hi \in Nat, Fin(e, a) <= hi, hi <= Tras(e, Fin(e, a)),
         Solo(e, f, a, hi), Hay(f, a), Fin(f, a) = hi,
         hi = fin \/ Hay(e, hi)
  PROVE  Teja(D, f, fin) /\ \A x \in D : x # a => Mismo(e, f, x)
  <1>1. a \in Nat /\ a + 5 <= hi /\ hi <= fin
    BY TejaDe, HayDe
  <1>2. \A x \in D : x \in Nat /\ x < fin /\ (x < a \/ x >= hi \/ x = a)
    BY TejaDe, TejasAlrededor
  <1>3. /\ Continua(D, f, hi, fin)
        /\ \A c \in D : c >= hi => Tras(f, hi) <= c
    <2>1. CASE hi = fin
      <3>1. Tras(f, hi) \in Nat /\ hi <= Hasta(hi) /\ Hasta(hi) <= Tras(f, hi) /\ Hasta(hi) \in Nat
        BY TrasNat
      <3> QED BY <2>1, <3>1, <1>2 DEF Continua
    <2>2. CASE Hay(e, hi)
      <3>1. Hay(f, hi)
        BY <2>2 DEF Igual, Solo
      <3>2. Resto(hi) + HEADER <= T
        BY <3>1, HayDe
      <3>3. Hasta(hi) = hi /\ Tras(f, hi) = hi
        BY <3>1, <3>2, TrasHeader
      <3>4. hi \in D
        <4>1. Fin(e, a) \in Nat
          BY TejaDe
        <4>2. hi \in Miradas(e, Fin(e, a))
          <5>1. hi = Tras(e, Fin(e, a))
            BY <4>1, <2>2, <3>2, EnMedio
          <5> QED BY <5>1 DEF Miradas
        <4> QED BY <4>2, <2>2, LoMiradoEsTeja
      <3> QED BY <3>3, <3>4 DEF Continua
    <2> QED BY <2>1, <2>2
  <1>4. \A c \in D : a < c => Tras(f, hi) <= c
    BY <1>1, <1>2, <1>3
  <1>5. \A x \in D : a <= x /\ x < hi =>
          /\ x \in Nat /\ Hay(f, x) /\ Fin(f, x) <= fin
          /\ \A c \in D : x < c => Tras(f, Fin(f, x)) <= c
          /\ Continua(D, f, Fin(f, x), fin)
    <2> SUFFICES ASSUME NEW x \in D, a <= x, x < hi
                 PROVE  x = a
      BY <1>1, <1>3, <1>4
    <2> QED BY <1>1, <1>2
  <1>6. a < hi /\ fin <= fin
    BY <1>1
  <1>7. Teja(D, f, fin) /\ \A x \in D : x < a \/ x >= hi => Mismo(e, f, x)
    BY <1>5, <1>6, CambioTeja
  <1> QED BY <1>2, <1>7

\* It takes the next tile.
LEMMA TejaUnida ==
  ASSUME NEW D, NEW e, NEW fin \in Nat, EscritoBien(e, fin), Teja(D, e, fin), NEW a \in D,
         NEW m \in D, m \in Miradas(e, Fin(e, a)),
         NEW f, EscritoBien(f, fin), NEW hi \in Nat, hi = Fin(e, m), Solo(e, f, a, hi),
         Hay(f, a), Fin(f, a) = hi
  PROVE  /\ Teja(D \ {m}, f, fin) /\ a < m
         /\ \A x \in D : x # a /\ x # m => Mismo(e, f, x)
         /\ \A x \in D : x > m => x >= hi
  <1> DEFINE G == D \ {m}
  <1>1. /\ a \in Nat /\ m \in Nat /\ m + 5 <= hi /\ hi <= fin
        /\ a + 5 <= Fin(e, a) /\ Fin(e, a) \in Nat
    BY TejaDe
  <1>2. Fin(e, a) <= m /\ m <= Tras(e, Fin(e, a))
    BY <1>1, TrasNat DEF Miradas
  <1>3. a < m
    BY <1>1, <1>2
  <1>4. \A x \in D : x \in Nat /\ (x < a \/ x = a \/ x = m \/ x >= hi)
    <2> SUFFICES ASSUME NEW x \in D, x # a, x # m, ~(x < a)
                 PROVE  x >= hi /\ x \in Nat
      BY TejaDe
    <2>1. x \in Nat
      BY TejaDe
    <2>2. x >= Tras(e, Fin(e, a))
      BY <1>1, <2>1, TejasAlrededor
    <2>3. x > m
      BY <1>1, <1>2, <2>1, <2>2, TrasNat
    <2> QED BY <2>1, <2>3, TejasAlrededor
  <1>5. /\ \A c \in G : c >= hi => Tras(f, hi) <= c
        /\ Continua(G, f, hi, fin)
    <2>1. /\ \A c \in G : c >= hi => c \in D
          /\ \A c \in D : c >= hi => c \in G
      BY <1>1
    <2>2. Igual(e, f, a, hi)
      BY DEF Solo
    <2> HIDE DEF G
    <2> QED BY <1>1, <2>1, <2>2, Hereda
  <1>6. \A c \in G : a < c => Tras(f, hi) <= c
    BY <1>1, <1>4, <1>5
  <1>7. \A x \in G : a <= x /\ x < hi =>
          /\ x \in Nat /\ Hay(f, x) /\ Fin(f, x) <= fin
          /\ \A c \in G : x < c => Tras(f, Fin(f, x)) <= c
          /\ Continua(G, f, Fin(f, x), fin)
    <2> SUFFICES ASSUME NEW x \in G, a <= x, x < hi
                 PROVE  x = a
      BY <1>1, <1>5, <1>6
    <2> QED BY <1>1, <1>4
  <1>8. /\ a < hi /\ fin <= fin /\ a \in G
        /\ \A x : x \in G \ {a} => x \in D \/ (a < x /\ x < hi)
        /\ \A x \in D : x < a \/ x >= hi => x \in G
    BY <1>1, <1>3
  <1>9. \A x \in D : x > m => x >= hi
    BY <1>1, <1>3, <1>4
  <1> HIDE DEF G
  <1>10. Teja(G, f, fin) /\ \A x \in D : x < a \/ x >= hi => Mismo(e, f, x)
    BY <1>7, <1>8, CambioTeja
  <1> QED BY <1>3, <1>4, <1>9, <1>10 DEF G

\* New pages: a tile is put at the end, or the last one goes on in them, and
\* what it leaves is another one or is wasted.
Remate(D, f, a, top, G) ==
  /\ \/ G = D \cup {a}
     \/ G = D \cup {a, Fin(f, a)} /\ Hay(f, Fin(f, a)) /\ Fin(f, Fin(f, a)) = top
  /\ Continua(G, f, Fin(f, a), top)

\* They are tiles, up to the end of the new pages.
LEMMA TejaAlFinal ==
  ASSUME NEW D, NEW e, NEW m \in Nat, NEW fin \in Nat, fin = Inicio(m),
         EscritoBien(e, fin), Teja(D, e, fin),
         NEW top \in Nat, fin < top,
         NEW a \in Nat, a = fin \/ (a \in D /\ Fin(e, a) = fin),
         NEW f, EscritoBien(f, top), Solo(e, f, a, top), Hay(f, a), Fin(f, a) <= top,
         NEW G, Remate(D, f, a, top, G)
  PROVE  /\ Teja(G, f, top)
         /\ \A x \in D : x # a => Mismo(e, f, x)
         /\ \A x \in D : x <= a
  <1> DEFINE p == Fin(f, a)
  <1>0. /\ G = D \cup {a} \/ (G = D \cup {a, p} /\ Hay(f, p) /\ Fin(f, p) = top)
        /\ Continua(G, f, p, top)
        /\ Igual(e, f, a, top)
        /\ \A x \in Nat : x + 5 <= a => (Hay(e, x) => Hay(f, x))
    BY DEF Remate, Solo
  <1>1. p \in Nat /\ a + 5 <= p /\ a < top
    BY HayDe
  <1>2. \A x \in D : x \in Nat /\ x < fin /\ x <= a /\ Hay(e, x)
                     /\ (x # a => x < a /\ x + 5 <= a /\ Tras(e, Fin(e, x)) <= a)
    <2>1. ASSUME NEW x \in D
          PROVE  /\ x \in Nat /\ x < fin /\ Hay(e, x) /\ Fin(e, x) \in Nat /\ Fin(e, x) <= fin
                 /\ x + 5 <= Fin(e, x)
      BY TejaDe
    <2>2. CASE a = fin
      <3>1. \A x \in D : Tras(e, Fin(e, x)) <= fin
        BY <2>1, TrasEnPaginas
      <3> QED BY <2>1, <2>2, <3>1
    <2>3. CASE a \in D /\ Fin(e, a) = fin
      <3>1. ASSUME NEW x \in D, x > a
            PROVE  FALSE
        BY <3>1, <2>1, <2>3, TejasAlrededor
      <3> QED BY <2>1, <2>3, <3>1, TejasAlrededor
    <2> QED BY <2>2, <2>3
  <1>3. \A c \in Nat : c >= top => ~Hay(f, c)
    BY DEF EscritoBien, Hay
  <1>4. Continua(G, f, top, top)
    BY TrasNat DEF Continua
  <1> HIDE DEF p
  <1>5. \A x \in D : x # a => Hay(f, x)
    BY <1>0, <1>2
  <1>6. \A x \in D : x < a => x \in G /\ Hay(f, x) /\ Tras(e, Fin(e, x)) <= a
    BY <1>0, <1>2, <1>5
  <1>7. \A x \in D : x >= top => x \in G /\ Hay(f, x)
    BY <1>1, <1>2
  <1>8. \A x \in G : x < a \/ x >= top => x \in D
    <2>1. CASE G = D \cup {a}
      BY <2>1, <1>1
    <2>2. CASE G = D \cup {a, p} /\ Hay(f, p) /\ Fin(f, p) = top
      <3>1. p < top
        BY <2>2, <1>1, <1>3
      <3> QED BY <2>2, <3>1, <1>1
    <2> QED BY <1>0, <2>1, <2>2
  <1>9. \A x \in G : a <= x /\ x < top =>
          /\ x \in Nat /\ Hay(f, x) /\ Fin(f, x) <= top
          /\ \A c \in G : x < c => Tras(f, Fin(f, x)) <= c
          /\ Continua(G, f, Fin(f, x), top)
    <2>1. CASE G = D \cup {a}
      <3>1. \A x \in G : a <= x => x = a
        BY <2>1, <1>1, <1>2
      <3>2. \A c \in G : ~(a < c)
        BY <2>1, <1>1, <1>2
      <3> QED BY <1>0, <2>1, <3>1, <3>2, <1>1 DEF p
    <2>2. CASE G = D \cup {a, p} /\ Hay(f, p) /\ Fin(f, p) = top
      <3>1. \A x \in G : a <= x => x = a \/ x = p
        BY <2>2, <1>1, <1>2
      <3>2. \A c \in G : ~(p < c) /\ (a < c => c = p)
        BY <2>2, <1>1, <1>2
      <3>3. Tras(f, p) = p
        BY <2>2, HayDe, TrasHeader
      <3>4. Fin(f, a) = p
        BY DEF p
      <3>5. top <= top /\ p <= top /\ p <= p
        BY <1>1 DEF p
      <3> QED BY <2>2, <3>1, <3>2, <3>3, <3>4, <3>5, <1>0, <1>1, <1>4
    <2> QED BY <1>0, <2>1, <2>2
  <1>10. fin <= top /\ a < top /\ a \in G /\ a <= fin
    BY <1>0, <1>1, <1>2
  <1>11. Teja(G, f, top)
    <2>1. Fuera(D, e, G, f, a, top)
      BY <1>6, <1>7, <1>8 DEF Fuera
    <2>2. Dentro(G, f, top, a, top)
      BY <1>9 DEF Dentro
    <2> QED BY <1>0, <1>10, <2>1, <2>2, Cambio
  <1>12. \A x \in D : x # a => Mismo(e, f, x)
    BY <1>0, <1>2, <1>5 DEF Mismo, Igual
  <1> QED BY <1>2, <1>11, <1>12

-----------------------------------------------------------------------------
(* The writes of mallocMuse and freeMuse.                                    *)

\* A tile is given as it is.
LEMMA DarEntera ==
  ASSUME NEW D, NEW e, NEW fin \in Nat, EscritoBien(e, fin), Teja(D, e, fin), NEW a \in D,
         NEW f, Vale(f, HeaderDado(e, a, Tam(e, a)))
  PROVE  /\ EscritoBien(f, fin) /\ Teja(D, f, fin) /\ \A x \in D : x # a => Mismo(e, f, x)
         /\ Hay(f, a) /\ ~Libre(f, a) /\ Tam(f, a) = Tam(e, a) /\ Fin(f, a) = Fin(e, a)
  <1> USE DEF Vale, Acaba, Sobre, Suma, EnPagina, PosDe, Con, Sin, ConDado, HeaderDado, HeaderLibre
  <1> DEFINE hi == Fin(e, a)
  <1>1. /\ a \in Nat /\ Resto(a) + HEADER <= T /\ a < fin /\ Tam(e, a) \in Nat
        /\ hi = a + 5 + Tam(e, a) /\ hi \in Nat /\ fin <= fin
        /\ FALSE \in BOOLEAN
    BY TejaDe, Constantes
  <1> HIDE DEF hi
  <1>2. HeaderEn(e, f, fin, a, FALSE, Tam(e, a))
    BY <1>1, EscribirHeader
  <1>3. Solo(e, f, a, hi)
    <2>1. a + 5 \in Nat /\ a <= a /\ a + 5 <= hi /\ hi \in Nat /\ a \in Nat
      BY <1>1
    <2>2. Solo(e, f, a, a + 5)
      BY <1>2 DEF HeaderEn
    <2> QED BY ONLY <2>1, <2>2, SoloMas
  <1>5. /\ EscritoBien(f, fin) /\ Hay(f, a) /\ ~Libre(f, a)
        /\ Tam(f, a) = Tam(e, a) /\ Fin(f, a) = hi
    BY <1>1, <1>2 DEF HeaderEn
  <1>6. Teja(D, f, fin) /\ \A x \in D : x # a => Mismo(e, f, x)
    <2>1. hi = Fin(e, a) /\ hi \in Nat
      BY <1>1 DEF hi
    <2> QED BY ONLY fin \in Nat, EscritoBien(e, fin), Teja(D, e, fin), a \in D, <2>1, <1>3, <1>5,
                    TejaEntera
  <1> QED BY <1>5, <1>6 DEF hi

\* A tile is given and its tail is a tile.
LEMMA DarConCola ==
  ASSUME NEW D, NEW e, NEW fin \in Nat, EscritoBien(e, fin), Teja(D, e, fin), NEW a \in D,
         NEW t \in Nat, NEW q \in Nat, NEW m \in Nat, Acaba(a, t, m), Acaba(m, q, Fin(e, a)),
         Resto(m) + 5 <= T,
         NEW f, Vale(f, HeaderLibre(HeaderDado(e, a, t), m, q))
  PROVE  /\ EscritoBien(f, fin) /\ Teja(Con(D, m), f, fin) /\ m \notin D
         /\ \A x \in D : x # a => Mismo(e, f, x)
         /\ Hay(f, a) /\ ~Libre(f, a) /\ Tam(f, a) = t
         /\ Libre(f, m) /\ Tam(f, m) = q /\ Fin(f, m) = Fin(e, a)
  <1> USE DEF Vale, Acaba, Sobre, Suma, EnPagina, PosDe, Con, Sin, ConDado, HeaderDado, HeaderLibre
  <1> DEFINE g == ConHeader(e, a, FALSE, t)
             hi == Fin(e, a)
  <1>1. /\ a \in Nat /\ Resto(a) + HEADER <= T /\ a < fin /\ hi <= fin /\ hi \in Nat
        /\ Resto(m) + HEADER <= T /\ m < fin /\ hi = m + 5 + q /\ fin <= fin /\ FALSE \in BOOLEAN
    BY TejaDe, Constantes
  <1> HIDE DEF hi
  <1>2. HeaderEn(e, g, fin, a, FALSE, t)
    BY <1>1, EscribirHeader
  <1> HIDE DEF g
  <1>3. EscritoBien(g, fin)
    BY <1>2 DEF HeaderEn
  <1>4. HeaderEn(g, f, fin, m, TRUE, q)
    BY <1>1, <1>3, EscribirHeader DEF g
  <1>5. /\ EscritoBien(f, fin) /\ Hay(f, m) /\ Libre(f, m) /\ Tam(f, m) = q /\ Fin(f, m) = hi
    BY <1>1, <1>4 DEF HeaderEn
  <1>8. /\ a \in Nat /\ hi \in Nat /\ m \in Nat /\ a + 5 \in Nat /\ m + 5 \in Nat
        /\ a + 5 <= m /\ m + 5 <= hi /\ a + 5 <= hi /\ m < hi /\ a <= m /\ m <= fin /\ a <= a
        /\ a # m
    BY <1>1
  <1>6. Hay(f, a) /\ f[a] = g[a]
    <2>1. Hay(g, a) /\ Solo(g, f, m, m + 5)
      BY <1>2, <1>4 DEF HeaderEn
    <2> QED BY ONLY <2>1, <1>8, SoloHay
  <1>7. Hay(f, a) /\ ~Libre(f, a) /\ Tam(f, a) = t /\ Fin(f, a) = m
    BY <1>1, <1>2, <1>6, Constantes DEF HeaderEn, Libre, Fin, Tam
  <1>9. Solo(e, f, a, hi)
    <2>1. Solo(e, g, a, a + 5) /\ Solo(g, f, m, m + 5)
      BY <1>2, <1>4 DEF HeaderEn
    <2>2. Solo(e, g, a, hi) /\ Solo(g, f, a, hi)
      BY ONLY <2>1, <1>8, SoloMas
    <2> QED BY ONLY <2>2, SoloDos
  <1>11. Hasta(m) = m /\ Tras(f, m) = m
    BY <1>1, <1>5, TrasHeader
  <1>12. Fin(f, a) <= fin /\ Tras(f, Fin(f, a)) <= m /\ Hasta(Fin(f, a)) = m
    <2>1. m <= fin /\ m <= m /\ Fin(f, a) = m
      BY ONLY <1>7, <1>8
    <2> QED BY ONLY <2>1, <1>11
  <1>13. Teja(D \cup {m}, f, fin) /\ m \notin D /\ \A x \in D : x # a => Mismo(e, f, x)
    <2>1. hi = Fin(e, a)
      BY DEF hi
    <2>2. Hay(f, a) /\ Hay(f, m) /\ Fin(f, m) = hi /\ EscritoBien(f, fin)
      BY <1>5, <1>7
    <2> QED BY ONLY fin \in Nat, EscritoBien(e, fin), Teja(D, e, fin), a \in D, <2>1,
                    <2>2, <1>8, <1>9, <1>12, TejaPartida
  <1> QED BY <1>5, <1>7, <1>13 DEF hi

\* What is left of the page is wasted and the tail is in the next one.
LEMMA DarYPasar ==
  ASSUME NEW D, NEW e, NEW fin \in Nat, EscritoBien(e, fin), Teja(D, e, fin), NEW a \in D,
         NEW t \in Nat, NEW q \in Nat, NEW k \in Nat, 0 < k, k <= 4, NEW p \in Nat,
         NEW m \in Nat, Acaba(a, t, p), Suma(p, k, m), Acaba(m, q, Fin(e, a)),
         Resto(m) = 0, Vale(Hasta(p), m),
         NEW f, Vale(f, HeaderLibre(ConNumerales(HeaderDado(e, a, t), Bytes(p, k)), m, q))
  PROVE  /\ EscritoBien(f, fin) /\ Teja(Con(D, m), f, fin) /\ m \notin D
         /\ \A x \in D : x # a => Mismo(e, f, x)
         /\ Hay(f, a) /\ ~Libre(f, a) /\ Tam(f, a) = t
         /\ Libre(f, m) /\ Tam(f, m) = q /\ Fin(f, m) = Fin(e, a)
  <1> USE DEF Vale, Acaba, Sobre, Suma, EnPagina, PosDe, Con, Sin, ConDado, HeaderDado, HeaderLibre
  <1> DEFINE g == ConHeader(e, a, FALSE, t)
             h == ConNumerales(g, Bytes(p, k))
             hi == Fin(e, a)
             ap == a + 5
             pk == p + k
             mp == m + 5
  <1>1. /\ a \in Nat /\ Resto(a) + HEADER <= T /\ a < fin /\ hi <= fin /\ hi \in Nat
        /\ Resto(m) + HEADER <= T /\ m < fin /\ hi = m + 5 + q /\ k \in Nat /\ p + k <= fin
        /\ fin <= fin /\ FALSE \in BOOLEAN
    BY TejaDe, Constantes
  <1> HIDE DEF hi
  <1>2. HeaderEn(e, g, fin, a, FALSE, t)
    BY <1>1, EscribirHeader
  <1>3. EscritoBien(g, fin)
    BY <1>2 DEF HeaderEn
  <1> HIDE DEF g
  <1>4. NumeralesEn(g, h, fin, p, k)
    BY <1>1, <1>3, EscribirNumerales
  <1>5. EscritoBien(h, fin)
    BY <1>4 DEF NumeralesEn
  <1>6. HeaderEn(h, f, fin, m, TRUE, q)
    BY <1>1, <1>5, EscribirHeader DEF g
  <1> HIDE DEF h
  <1>7. /\ EscritoBien(f, fin) /\ Hay(f, m) /\ Libre(f, m) /\ Tam(f, m) = q /\ Fin(f, m) = hi
    BY <1>1, <1>6 DEF HeaderEn
  <1>8. /\ a \in Nat /\ hi \in Nat /\ p \in Nat /\ m \in Nat
        /\ ap \in Nat /\ pk \in Nat /\ mp \in Nat
        /\ ap <= p /\ a + 5 <= p /\ p < pk /\ pk <= hi /\ mp <= hi /\ ap <= hi /\ m < hi
        /\ a <= p /\ a <= m /\ a <= a
        /\ a + 5 <= m /\ m <= fin /\ p <= fin /\ p # m /\ p < m /\ m <= m
    BY <1>1
  <1>9. Solo(e, g, a, ap) /\ Solo(g, h, p, pk) /\ Solo(h, f, m, mp) /\ Hay(g, a)
    BY <1>2, <1>4, <1>6 DEF HeaderEn, NumeralesEn
  <1> HIDE DEF ap, pk, mp
  <1>11. Hay(f, a) /\ f[a] = g[a]
    <2>1. Hay(h, a) /\ h[a] = g[a]
      BY ONLY <1>8, <1>9, SoloHay
    <2>2. Hay(f, a) /\ f[a] = h[a]
      BY ONLY <1>8, <1>9, <2>1, SoloHay
    <2> QED BY <2>1, <2>2
  <1>12. Hay(f, a) /\ ~Libre(f, a) /\ Tam(f, a) = t /\ Fin(f, a) = p
    BY <1>1, <1>2, <1>11, Constantes DEF HeaderEn, Libre, Fin, Tam
  <1>13. Solo(e, f, a, hi)
    <2>1. Solo(e, g, a, hi) /\ Solo(g, h, a, hi) /\ Solo(h, f, a, hi)
      BY ONLY <1>8, <1>9, SoloMas
    <2> QED BY ONLY <2>1, SoloDos
  <1>14. Tras(f, p) = m
    <2>1. ~Num(f, m) /\ Hasta(p) <= m /\ Hasta(p) = m
      BY ONLY <1>7, <1>8, Hasta(p) = m DEF Hay, Num
    <2>2. Tras(f, p) <= m /\ m <= Tras(f, p) /\ Tras(f, p) \in Nat
      BY ONLY <2>1, <1>8, TrasAcotado
    <2> QED BY ONLY <2>2, <1>8
  <1>15. Fin(f, a) <= fin /\ Tras(f, Fin(f, a)) <= m /\ Hasta(Fin(f, a)) = m
    <2>1. Fin(f, a) = p /\ p <= fin /\ m <= m
      BY ONLY <1>8, <1>12
    <2> QED BY ONLY <2>1, <1>14, Hasta(p) = m
  <1>16. Teja(D \cup {m}, f, fin) /\ m \notin D /\ \A x \in D : x # a => Mismo(e, f, x)
    <2>1. hi = Fin(e, a)
      BY DEF hi
    <2>2. Hay(f, a) /\ Hay(f, m) /\ Fin(f, m) = hi /\ EscritoBien(f, fin)
      BY <1>7, <1>12
    <2> QED BY ONLY fin \in Nat, EscritoBien(e, fin), Teja(D, e, fin), a \in D, <2>1,
                    <2>2, <1>8, <1>13, <1>15, TejaPartida
  <1> QED BY <1>7, <1>12, <1>16 DEF hi

\* What is left of the page is wasted, and the little that it had in the next
\* one.
LEMMA DarYDesperdiciar ==
  ASSUME NEW D, NEW e, NEW fin \in Nat, Resto(fin) = 0,
         EscritoBien(e, fin), Teja(D, e, fin), NEW a \in D,
         NEW t \in Nat, NEW k \in Nat, 0 < k, k <= 4, NEW j \in Nat, j <= 4,
         NEW p \in Nat, NEW m \in Nat,
         Acaba(a, t, p), Suma(p, k, m), Suma(m, j, Fin(e, a)), Resto(m) = 0, Vale(Hasta(p), m),
         NEW f,
         Vale(f, ConNumerales(ConNumerales(HeaderDado(e, a, t), Bytes(p, k)), Bytes(m, j)))
  PROVE  /\ EscritoBien(f, fin) /\ Teja(D, f, fin) /\ \A x \in D : x # a => Mismo(e, f, x)
         /\ Hay(f, a) /\ ~Libre(f, a) /\ Tam(f, a) = t
  <1> USE DEF Vale, Acaba, Sobre, Suma, EnPagina, PosDe, Con, Sin, ConDado, HeaderDado, HeaderLibre
  <1> DEFINE g == ConHeader(e, a, FALSE, t)
             h == ConNumerales(g, Bytes(p, k))
             hi == Fin(e, a)
             ap == a + 5
             pk == p + k
             mj == m + j
  <1>1. /\ a \in Nat /\ Resto(a) + HEADER <= T /\ a < fin /\ hi <= fin /\ hi \in Nat
        /\ hi = m + j /\ k \in Nat /\ j \in Nat /\ p + k <= fin /\ m + j <= fin
        /\ fin <= fin /\ FALSE \in BOOLEAN
    BY TejaDe, Constantes
  <1> HIDE DEF hi
  <1>30. j \in 0..4
    OBVIOUS
  <1>2. HeaderEn(e, g, fin, a, FALSE, t)
    BY <1>1, EscribirHeader
  <1>3. EscritoBien(g, fin)
    BY <1>2 DEF HeaderEn
  <1> HIDE DEF g
  <1>4. NumeralesEn(g, h, fin, p, k)
    BY <1>1, <1>3, EscribirNumerales
  <1>5. EscritoBien(h, fin)
    BY <1>4 DEF NumeralesEn
  <1>6. NumeralesEn(h, f, fin, m, j)
    BY <1>1, <1>5, EscribirNumerales DEF g
  <1> HIDE DEF h
  <1>7. EscritoBien(f, fin)
    BY <1>6 DEF NumeralesEn
  <1>8. /\ a \in Nat /\ hi \in Nat /\ p \in Nat /\ m \in Nat /\ ap \in Nat /\ pk \in Nat
        /\ mj \in Nat
        /\ ap <= p /\ a + 5 <= p /\ pk <= hi /\ mj <= hi /\ ap <= hi
        /\ a <= p /\ a <= m /\ a <= a /\ a + 5 <= m /\ p <= fin /\ p <= hi /\ m <= hi /\ p < m
        /\ hi <= mj /\ p < pk /\ p <= p
    BY <1>1
  <1>9. Solo(e, g, a, ap) /\ Solo(g, h, p, pk) /\ Solo(h, f, m, mj) /\ Hay(g, a)
    BY <1>2, <1>4, <1>6 DEF HeaderEn, NumeralesEn
  <1>10. \A x \in Nat : m <= x /\ x < mj => Num(f, x) /\ ~Hay(f, x)
    BY <1>6 DEF NumeralesEn
  <1>20. \A x \in Nat : x < hi \/ hi <= x
    BY <1>8
  <1>21. Hasta(hi) = hi /\ Resto(hi) = j
    <2>1. T - Resto(m) >= 5 + j
      BY <1>1, Constantes
    <2>2. m = Inicio(PaginaDe(m)) + 0 /\ PaginaDe(m) \in Nat
      BY Partes
    <2>3. PaginaDe(hi) \in Nat /\ Resto(hi) = j
      <3>1. hi = Inicio(PaginaDe(m)) + j
        BY <1>1, <2>2, Inicios
      <3> QED BY <3>1, <2>2, <1>1, Unica, Constantes
    <2> QED BY <2>3, <1>1, Constantes DEF Hasta
  <1>23. \A i \in 0..4 : i < j => Num(f, m + i)
    <2>1. \A i \in 0..4 : i < j => m + i \in Nat /\ m <= m + i /\ m + i < mj
      BY ONLY m \in Nat, <1>30
    <2> QED BY ONLY <2>1, <1>10
  <1> HIDE DEF ap, pk, mj
  <1>11. Hay(f, a) /\ f[a] = g[a]
    <2>1. Hay(h, a) /\ h[a] = g[a]
      BY ONLY <1>8, <1>9, SoloHay
    <2>2. Hay(f, a) /\ f[a] = h[a]
      BY ONLY <1>8, <1>9, <2>1, SoloHay
    <2> QED BY <2>1, <2>2
  <1>12. Hay(f, a) /\ ~Libre(f, a) /\ Tam(f, a) = t /\ Fin(f, a) = p
    BY <1>1, <1>2, <1>11, Constantes DEF HeaderEn, Libre, Fin, Tam
  <1>13. Solo(e, f, a, hi)
    <2>1. Solo(e, g, a, hi) /\ Solo(g, h, a, hi) /\ Solo(h, f, a, hi)
      BY ONLY <1>8, <1>9, SoloMas
    <2> QED BY ONLY <2>1, SoloDos
  <1>14. \A c \in D : c >= hi => Tras(f, p) <= c
    <2> SUFFICES ASSUME NEW c \in D, c >= hi
                 PROVE  Tras(f, p) <= c
      OBVIOUS
    <2>1. c \in Nat /\ Hay(e, c)
      BY ONLY fin \in Nat, EscritoBien(e, fin), Teja(D, e, fin), c \in D, TejaDe
    <2>2. Hay(f, c)
      BY ONLY <1>13, <2>1, c >= hi, <1>8 DEF Solo
    <2>3. ~Num(f, c) /\ Hasta(p) <= c
      <3>1. m <= c
        BY ONLY <2>1, <1>8, c >= hi
      <3> QED BY ONLY <3>1, <2>2, Hasta(p) = m DEF Hay, Num
    <2> QED BY ONLY <2>1, <2>3, <1>8, TrasAcotado
  <1>15. Continua(D, f, p, fin)
    <2>1. Continua(D, e, hi, fin)
      BY ONLY a \in D, Teja(D, e, fin) DEF Teja, hi
    <2>2. Hasta(p) = m /\ Tras(f, p) = m + SaltoDe(f, m)
      BY ONLY Hasta(p) = m DEF Tras
    <2>3. CASE j = 0
      <3>1. m = hi
        BY ONLY <2>3, <1>1, m \in Nat
      <3>2. Tras(f, p) = Tras(f, hi)
        BY ONLY <3>1, <2>2, <1>21 DEF Tras
      <3>3. Tras(e, hi) = Tras(f, hi)
        BY ONLY <1>13, <1>8, hi <= hi, TrasALaDerecha DEF Solo
      <3> QED BY ONLY <2>1, <2>2, <3>1, <3>2, <3>3, <1>21 DEF Continua
    <2>4. CASE j > 0
      <3>1. hi # fin
        BY ONLY Resto(fin) = 0, <2>4, <1>21
      <3>2. hi \in D
        BY ONLY <2>1, <2>4, <3>1, <1>1, <1>21, fin \in Nat DEF Continua
      <3>3. Hay(e, hi)
        BY ONLY fin \in Nat, EscritoBien(e, fin), Teja(D, e, fin), <3>2, TejaDe
      <3>4. Hay(f, hi)
        BY ONLY <3>3, <1>13, <1>8, hi <= hi DEF Solo
      <3>5. ~Num(f, m + j)
        BY ONLY <3>4, <1>1 DEF Hay, Num
      <3>6. SaltoDe(f, m) = j
        <4>1. /\ SaltoDe(f, m) \in 0..4 /\ \A i \in 0..4 : i < SaltoDe(f, m) => Num(f, m + i)
              /\ \/ ~Num(f, m + SaltoDe(f, m))
                 \/ SaltoDe(f, m) = 0 /\ \A i \in 0..4 : Num(f, m + i)
          BY ONLY m \in Nat, PropiedadesSalto
        <4> QED BY ONLY <4>1, <3>5, <1>23, <1>30
      <3>7. Tras(f, p) = hi
        BY ONLY <2>2, <3>6, <1>1
      <3> QED BY ONLY <2>2, <3>2, <3>7, Resto(m) = 0 DEF Continua
    <2> QED BY ONLY <2>3, <2>4, j \in Nat
  <1>16. Teja(D, f, fin) /\ \A x \in D : x # a => Mismo(e, f, x)
    <2>1. hi = Fin(e, a) /\ Fin(f, a) <= hi /\ Fin(f, a) = p
      BY ONLY <1>8, <1>12 DEF hi
    <2>2. /\ \A c \in D : c >= hi => Tras(f, Fin(f, a)) <= c
          /\ Continua(D, f, Fin(f, a), fin)
      BY ONLY <2>1, <1>14, <1>15
    <2>3. Hay(f, a) /\ Fin(f, a) <= hi /\ hi = Fin(e, a)
      BY ONLY <1>12, <2>1
    <2>4. hi \in Nat
      BY <1>8
    <2> QED BY ONLY fin \in Nat, EscritoBien(e, fin), Teja(D, e, fin), a \in D,
                    <2>2, <2>3, <2>4, <1>7, <1>13, TejaAcortada
  <1> QED BY <1>7, <1>12, <1>16

\* A tile is given back, with what was skipped after it.
LEMMA Devolver ==
  ASSUME NEW D, NEW e, NEW n \in Nat, NEW fin \in Nat, Vale(fin, Inicio(n)),
         EscritoBien(e, fin), Teja(D, e, fin), NEW a \in D,
         NEW s \in Nat, NEW hi \in Nat, Acaba(a, s, hi),
         Fin(e, a) <= hi, hi <= Tras(e, Fin(e, a)),
         Vale(hi, fin) \/ (Hay(e, hi) /\ ~Libre(e, hi)),
         NEW f, Vale(f, HeaderLibre(e, a, s))
  PROVE  /\ EscritoBien(f, fin) /\ Teja(D, f, fin) /\ \A x \in D : x # a => Mismo(e, f, x)
         /\ Libre(f, a) /\ Tam(f, a) = s /\ Fin(f, a) = hi
  <1> USE DEF Vale, Acaba, Sobre, Suma, EnPagina, PosDe, Con, Sin, ConDado, HeaderDado, HeaderLibre
  <1> DEFINE ap == a + 5
  <1>1. /\ a \in Nat /\ Resto(a) + HEADER <= T /\ a < fin /\ fin <= fin /\ TRUE \in BOOLEAN
    BY TejaDe, Constantes
  <1>2. HeaderEn(e, f, fin, a, TRUE, s)
    BY <1>1, EscribirHeader
  <1>3. /\ EscritoBien(f, fin) /\ Hay(f, a) /\ Libre(f, a) /\ Tam(f, a) = s /\ Fin(f, a) = hi
    BY <1>1, <1>2 DEF HeaderEn
  <1>4. Solo(e, f, a, ap)
    BY <1>2 DEF HeaderEn
  <1>5. a \in Nat /\ ap \in Nat /\ hi \in Nat /\ a <= a /\ ap <= hi
    BY <1>1
  <1> HIDE DEF ap
  <1>6. Solo(e, f, a, hi)
    BY ONLY <1>4, <1>5, SoloMas
  <1>7. Teja(D, f, fin) /\ \A x \in D : x # a => Mismo(e, f, x)
    <2>1. hi = fin \/ Hay(e, hi)
      OBVIOUS
    <2> QED BY ONLY n \in Nat, fin \in Nat, fin = Inicio(n), EscritoBien(e, fin),
                    Teja(D, e, fin), a \in D, Fin(e, a) <= hi, hi <= Tras(e, Fin(e, a)),
                    <2>1, <1>3, <1>5, <1>6, TejaCrecida
  <1> QED BY <1>3, <1>7

\* ... and with the free tile after it.
LEMMA DevolverYUnir ==
  ASSUME NEW D, NEW e, NEW fin \in Nat, EscritoBien(e, fin), Teja(D, e, fin), NEW a \in D,
         NEW m \in D, m \in Miradas(e, Fin(e, a)),
         NEW s \in Nat, Acaba(a, s, Fin(e, m)),
         NEW f, Vale(f, HeaderLibre(e, a, s))
  PROVE  /\ EscritoBien(f, fin) /\ Teja(Sin(D, m), f, fin) /\ a < m
         /\ \A x \in D : x # a /\ x # m => Mismo(e, f, x)
         /\ \A x \in D : x > a => x = m \/ x >= Fin(e, m)
         /\ Libre(f, a) /\ Tam(f, a) = s /\ Fin(f, a) = Fin(e, m)
  <1> USE DEF Vale, Acaba, Sobre, Suma, EnPagina, PosDe, Con, Sin, ConDado, HeaderDado, HeaderLibre
  <1> DEFINE ap == a + 5
             hi == Fin(e, m)
  <1>1. /\ a \in Nat /\ Resto(a) + HEADER <= T /\ a < fin /\ fin <= fin /\ TRUE \in BOOLEAN
        /\ hi \in Nat
    BY TejaDe, Constantes
  <1>2. HeaderEn(e, f, fin, a, TRUE, s)
    BY <1>1, EscribirHeader
  <1>3. /\ EscritoBien(f, fin) /\ Hay(f, a) /\ Libre(f, a) /\ Tam(f, a) = s /\ Fin(f, a) = hi
    BY <1>1, <1>2 DEF HeaderEn
  <1>4. Solo(e, f, a, ap)
    BY <1>2 DEF HeaderEn
  <1>5. a \in Nat /\ ap \in Nat /\ hi \in Nat /\ a <= a /\ ap <= hi
    BY <1>1
  <1>0. hi = Fin(e, m)
    OBVIOUS
  <1> HIDE DEF ap, hi
  <1>6. Solo(e, f, a, hi)
    BY ONLY <1>4, <1>5, SoloMas
  <1>7. /\ Teja(D \ {m}, f, fin) /\ a < m
        /\ \A x \in D : x # a /\ x # m => Mismo(e, f, x)
        /\ \A x \in D : x > m => x >= hi
    BY ONLY fin \in Nat, EscritoBien(e, fin), Teja(D, e, fin),
            a \in D, m \in D, m \in Miradas(e, Fin(e, a)), <1>0, <1>3, <1>5, <1>6, TejaUnida
  <1>8. \A x \in D : x > a => x = m \/ x >= hi
    <2> SUFFICES ASSUME NEW x \in D, x > a, x < m
                 PROVE  FALSE
      BY <1>7, TejaDe
    <2>1. x \in Nat /\ m \in Nat
      BY TejaDe
    <2>2. x >= Tras(e, Fin(e, a))
      BY <1>1, <2>1, TejasAlrededor
    <2>3. Tras(e, Fin(e, a)) \in Nat /\ Fin(e, a) \in Nat
      BY TejaDe
    <2>4. m <= Tras(e, Fin(e, a))
      BY <2>1, <2>3, TrasNat DEF Miradas
    <2> QED BY <2>1, <2>2, <2>3, <2>4
  <1> QED BY <1>3, <1>7, <1>8 DEF hi

\* The block begins where the pages end, or in the last tile.
AlFinal(D, e, a, fin) == a = fin \/ (a \in D /\ Fin(e, a) = fin)
\* The tiles, with that of the block and that of what is left of the page.
Rematado(D, a, p, r) == IF T - r >= 5 THEN D \cup {a, p} ELSE D \cup {a}

Alargado(D, e, G, f, top, a, t, p, r) ==
  /\ EscritoBien(f, top) /\ Teja(G, f, top)
  /\ \A x \in D : x # a => Mismo(e, f, x)
  /\ \A x \in D : x <= a /\ x < p
  /\ Hay(f, a) /\ ~Libre(f, a) /\ Tam(f, a) = t
  /\ T - r >= 5 => Libre(f, p) /\ Tam(f, p) = T - r - 5 /\ Fin(f, p) = top

\* A block goes on to the end of new pages, and what is left is free or is
\* wasted.
LEMMA Crear ==
  ASSUME NEW D, NEW e, NEW n \in Nat, NEW fin \in Nat, Vale(fin, Inicio(n)),
         EscritoBien(e, fin), Teja(D, e, fin),
         NEW u \in Nat, n <= u, NEW top \in Nat, EnPagina(u, T, top),
         NEW a \in Nat, Resto(a) + 5 <= T, AlFinal(D, e, a, fin),
         NEW t \in Nat, NEW r \in Nat, 0 < r, r <= T,
         NEW p \in Nat, EnPagina(u, r, p), Acaba(a, t, p),
         NEW f, Vale(f, ConFin(HeaderDado(e, a, t), u, r)),
         NEW G, Vale(G, Rematado(D, a, p, r))
  PROVE  Alargado(D, e, G, f, top, a, t, p, r)
  <1> USE DEF Vale, Acaba, Sobre, Suma, EnPagina, PosDe, Con, Sin, ConDado, HeaderDado, HeaderLibre,
             AlFinal, Rematado, Alargado
  <1> DEFINE g == ConHeader(e, a, FALSE, t)
             ap == a + 5
             k == T - r
             pk == p + k
             p5 == p + 5
             v == u + 1
  <1>1. /\ Resto(a) + HEADER <= T /\ FALSE \in BOOLEAN /\ TRUE \in BOOLEAN /\ T \in Nat
        /\ Inicio(u) \in Nat /\ top = Inicio(u) + T
    BY Constantes, Inicios
  <1>30. top = Inicio(u + 1)
    BY <1>1, Inicios
  <1>2. /\ k \in Nat /\ top = p + k /\ ap \in Nat /\ ap <= p /\ a + 5 <= p /\ a < p /\ p <= top
        /\ a < top /\ a <= a /\ a <= p /\ ap <= top
        /\ top = pk /\ pk \in Nat /\ p # a /\ a # p
    BY <1>1
  <1>3. fin <= Inicio(u) /\ fin < top
    BY <1>1, Creciente, Constantes
  <1>4. HeaderEn(e, g, top, a, FALSE, t)
    <2>1. fin <= top /\ a < top
      BY ONLY <1>2, <1>3, fin \in Nat, top \in Nat
    <2> QED BY ONLY fin \in Nat, EscritoBien(e, fin), top \in Nat, a \in Nat, t \in Nat, <1>1, <2>1,
                    EscribirHeader
  <1>5. EscritoBien(g, top)
    BY <1>4 DEF HeaderEn
  <1>6. Hay(g, a) /\ ~Libre(g, a) /\ Tam(g, a) = t /\ Fin(g, a) = p /\ Solo(e, g, a, ap)
    <2>1. Hay(g, a) /\ ~Libre(g, a) /\ Tam(g, a) = t /\ Fin(g, a) = a + 5 + t /\ Solo(e, g, a, ap)
      BY <1>4 DEF HeaderEn
    <2> QED BY <2>1
  <1>7. f = IF k >= 5 THEN ConHeader(g, p, TRUE, T - r - 5) ELSE ConNumerales(g, Bytes(p, k))
    BY Constantes DEF ConFin
  <1> HIDE DEF g
  <1>8. ASSUME EscritoBien(f, top), Solo(e, f, a, top), Hay(f, a), f[a] = g[a],
               G = D \cup {a} \/ (G = D \cup {a, p} /\ Hay(f, p) /\ Fin(f, p) = top),
               Continua(G, f, p, top),
               k >= 5 => Libre(f, p) /\ Tam(f, p) = T - r - 5 /\ Fin(f, p) = top
        PROVE  /\ EscritoBien(f, top) /\ Teja(G, f, top)
               /\ \A x \in D : x # a => Mismo(e, f, x)
               /\ \A x \in D : x <= a /\ x < p
               /\ Hay(f, a) /\ ~Libre(f, a) /\ Tam(f, a) = t
               /\ T - r >= 5 => Libre(f, p) /\ Tam(f, p) = T - r - 5 /\ Fin(f, p) = top
    <2>1. Fin(f, a) = p /\ ~Libre(f, a) /\ Tam(f, a) = t
      BY <1>8, <1>6 DEF Fin, Libre, Tam
    <2>2. Solo(e, f, a, top) /\ Fin(f, a) <= top /\ Remate(D, f, a, top, G)
      BY ONLY <1>8, <2>1, <1>2 DEF Remate
    <2>3. fin < top /\ EscritoBien(f, top) /\ Hay(f, a)
      BY ONLY <1>3, <1>8
    <2>4. /\ Teja(G, f, top)
          /\ \A x \in D : x # a => Mismo(e, f, x)
          /\ \A x \in D : x <= a
      BY ONLY n \in Nat, fin \in Nat, fin = Inicio(n), EscritoBien(e, fin), Teja(D, e, fin),
              top \in Nat, a \in Nat, a = fin \/ (a \in D /\ Fin(e, a) = fin),
              <2>2, <2>3, TejaAlFinal
    <2>5. \A x \in D : x \in Nat
      BY DEF Teja
    <2>6. \A x \in D : x <= a /\ x < p
      BY ONLY <2>4, <2>5, <1>2, a \in Nat, p \in Nat
    <2> QED BY <1>8, <2>1, <2>4, <2>6
  <1>9. CASE k >= 5
    <2>1. Resto(p) + HEADER <= T /\ p < top /\ T - r - 5 \in Nat /\ p + 5 + (T - r - 5) = top
      <3>1. r < T /\ T - r - 5 \in Nat /\ p + 5 + (T - r - 5) = top /\ p < top
        BY <1>1, <1>2, <1>9
      <3>2. Resto(p) = r
        BY <3>1, Unica
      <3> QED BY <3>1, <3>2, <1>9, Constantes
    <2>2. HeaderEn(g, f, top, p, TRUE, T - r - 5)
      <3>1. f = ConHeader(g, p, TRUE, T - r - 5)
        BY ONLY <1>7, <1>9
      <3>2. top <= top
        BY ONLY top \in Nat
      <3> QED BY ONLY <3>1, <3>2, <2>1, <1>1, <1>5, p \in Nat, top \in Nat, EscribirHeader
    <2>3. /\ EscritoBien(f, top) /\ Hay(f, p) /\ Libre(f, p) /\ Tam(f, p) = T - r - 5
          /\ Fin(f, p) = top /\ Solo(g, f, p, p5)
      BY <2>1, <2>2 DEF HeaderEn
    <2>4. p5 \in Nat /\ p5 <= top
      BY <1>2, <1>9
    <2> HIDE DEF ap, p5, k, pk
    <2>5. Solo(e, f, a, top)
      <3>1. Solo(e, g, a, top) /\ Solo(g, f, a, top)
        BY ONLY <2>3, <2>4, <1>2, <1>6, a \in Nat, p \in Nat, top \in Nat, SoloMas
      <3> QED BY ONLY <3>1, SoloDos
    <2>6. Hay(f, a) /\ f[a] = g[a]
      BY ONLY <2>3, <1>2, <1>6, a \in Nat, p \in Nat, SoloHay
    <2>7. G = D \cup {a, p}
      BY <1>9 DEF k
    <2>8. Continua(G, f, p, top)
      <3>1. Hasta(p) = p /\ Tras(f, p) = p
        BY ONLY <2>1, <2>3, p \in Nat, TrasHeader
      <3> QED BY ONLY <3>1, <2>7 DEF Continua
    <2> QED BY ONLY <1>8, <2>3, <2>5, <2>6, <2>7, <2>8 DEF k
  <1>10. CASE ~(k >= 5)
    <2>1. NumeralesEn(g, f, top, p, k)
      <3>1. f = ConNumerales(g, Bytes(p, k))
        BY ONLY <1>7, <1>10
      <3>2. top <= top /\ p + k <= top /\ k \in Nat
        BY ONLY <1>2, top \in Nat
      <3> HIDE DEF k
      <3> QED BY ONLY <3>1, <3>2, <1>5, p \in Nat, top \in Nat, EscribirNumerales
    <2>3. EscritoBien(f, top) /\ Solo(g, f, p, pk)
      BY <2>1 DEF NumeralesEn
    <2>5. Hasta(p) = top
      <3>1. CASE k = 0
        <4>1. p = top
          BY ONLY <3>1, <1>2, p \in Nat, top \in Nat
        <4>2. p <= Inicio(v) /\ v \in Nat
          BY ONLY <4>1, <1>30, top \in Nat, u \in Nat
        <4> HIDE DEF v
        <4>3. Hasta(p) \in Nat /\ p <= Hasta(p) /\ Hasta(p) <= Inicio(v)
          BY ONLY <4>2, p \in Nat, PropiedadesHasta
        <4>4. Inicio(v) = top
          BY <1>30 DEF v
        <4> QED BY ONLY <4>1, <4>3, <4>4, p \in Nat
      <3>2. CASE k > 0
        <4>1. r < T
          BY <3>2, <1>1
        <4>2. Resto(p) = r
          BY <4>1, Unica
        <4>3. T - Resto(p) < HEADER
          BY <4>2, <1>10, Constantes
        <4> QED BY <4>2, <4>3, <1>1 DEF Hasta
      <3> QED BY <3>1, <3>2, <1>2
    <2>7. pk <= top
      BY <1>2
    <2>9. G = D \cup {a}
      BY <1>10 DEF k
    <2>10. ~(k >= 5)
      BY <1>10
    <2> HIDE DEF ap, p5, k, pk
    <2>11. Solo(e, f, a, top)
      <3>1. Solo(e, g, a, top) /\ Solo(g, f, a, top)
        BY ONLY <2>3, <2>7, <1>2, <1>6, a \in Nat, p \in Nat, top \in Nat, SoloMas
      <3> QED BY ONLY <3>1, SoloDos
    <2>12. Hay(f, a) /\ f[a] = g[a]
      BY ONLY <2>3, <1>2, <1>6, a \in Nat, p \in Nat, SoloHay
    <2>13. Continua(G, f, p, top)
      BY ONLY <2>5, top \in Nat DEF Continua
    <2> QED BY ONLY <1>8, <2>3, <2>9, <2>10, <2>11, <2>12, <2>13
  <1> QED BY <1>9, <1>10

\* The bytes of a tile are written.
LEMMA Escribir ==
  ASSUME NEW D, NEW e, NEW fin \in Nat, EscritoBien(e, fin), Teja(D, e, fin), NEW a \in D,
         NEW k \in Nat, k <= Tam(e, a), NEW f, Vale(f, Pisar(e, Bytes(a + 5, k)))
  PROVE  EscritoBien(f, fin) /\ Teja(D, f, fin) /\ \A x \in D : Mismo(e, f, x)
  <1> USE DEF Vale, Acaba, Sobre, Suma, EnPagina, PosDe, Con, Sin, ConDado, HeaderDado, HeaderLibre
  <1> DEFINE hi == Fin(e, a)
             ap == a + 5
             ak == ap + k
  <1>1. a \in Nat /\ Hay(e, a) /\ hi = a + 5 + Tam(e, a) /\ hi \in Nat /\ Tam(e, a) \in Nat
    BY TejaDe
  <1>2. ap \in Nat /\ ak \in Nat /\ a <= a /\ a <= ap /\ ak <= hi /\ a + 5 <= ap
    BY <1>1
  <1>3. EscritoBien(f, fin) /\ Solo(e, f, ap, ak)
    BY <1>2, PisarBytes
  <1>4. hi = Fin(e, a)
    OBVIOUS
  <1> HIDE DEF hi, ap, ak
  <1>5. Solo(e, f, a, hi)
    BY ONLY <1>1, <1>2, <1>3, SoloMas
  <1>6. Hay(f, a) /\ f[a] = e[a]
    BY ONLY <1>1, <1>2, <1>3, SoloHay
  <1>7. Fin(f, a) = hi
    BY ONLY <1>4, <1>6 DEF Fin, Tam
  <1>8. Teja(D, f, fin) /\ \A x \in D : x # a => Mismo(e, f, x)
    <2>1. hi \in Nat /\ Hay(f, a)
      BY <1>1, <1>6
    <2> QED BY ONLY fin \in Nat, EscritoBien(e, fin), Teja(D, e, fin), a \in D, <2>1,
                    <1>3, <1>4, <1>5, <1>7, TejaEntera
  <1> QED BY <1>3, <1>6, <1>8 DEF Mismo

-----------------------------------------------------------------------------
(* The state: the tiles are those of what was given, of the list, and of the *)
(* last header of the segment.                                               *)

PaginaBien == [esFinPag : BOOLEAN, tamanio_header : Nat, ultimo_header : Nat]
PaginasBien(pg) ==
  /\ pg \in Seq(PaginaBien)
  /\ \A i \in 1..Len(pg) : pg[i].esFinPag <=> i = Len(pg)

Dado == [pos : Nat, tam : Nat \ {0}]
DadosBien(ot, D, e) ==
  \A b \in ot : /\ b \in Dado /\ b.pos - HEADER \in D
                /\ ~Libre(e, b.pos - HEADER) /\ Tam(e, b.pos - HEADER) = b.tam

Entrada == [pagina : Nat, posicion : Nat, tamanio : Nat]
De(l) == Inicio(l.pagina) + l.posicion - HEADER
EnLista(bl) == {De(bl[i]) : i \in DOMAIN bl}
EntradaBien(l, D, e) ==
  /\ l.posicion >= 5 /\ l.posicion < T + 5
  /\ De(l) \in D /\ Libre(e, De(l)) /\ Tam(e, De(l)) = l.tamanio
ListaBien(bl, D, e) ==
  /\ bl \in Seq(Entrada)
  /\ \A i \in DOMAIN bl : EntradaBien(bl[i], D, e)
  /\ \A i, j \in DOMAIN bl : De(bl[i]) = De(bl[j]) => i = j

\* The last page says where the last header of the segment is, free up to the
\* end, or where a block is that ends there; or it says nothing.
UltimoHeader(u, th, base, fin, L, D, e) ==
  \/ u = 0 /\ th = 0
  \/ /\ u >= 5
     /\ \E x \in D \ L : /\ x + 5 = base + u /\ Libre(e, x) /\ Fin(e, x) = fin
                         /\ th \in {0, Tam(e, x)}
  \/ /\ th = 0
     /\ \E x \in D : /\ x + 5 = base + u \/ x = base + u
                     /\ ~Libre(e, x) /\ Fin(e, x) >= fin - 4
UltimoBien(pg, L, D, e) ==
  Len(pg) > 0 => UltimoHeader(pg[Len(pg)].ultimo_header, pg[Len(pg)].tamanio_header,
                              Inicio(Len(pg) - 1), Inicio(Len(pg)), L, D, e)

\* A free tile that is not in the list ends where a page does: it is the last
\* header of the segment, or it was.
SueltosBien(L, D, e) == \A x \in D \ L : Libre(e, x) => Resto(Fin(e, x)) = 0

Mosaico(D, pg, e, bl, ot) ==
  /\ PaginasBien(pg)
  /\ EscritoBien(e, Inicio(Len(pg))) /\ Teja(D, e, Inicio(Len(pg)))
  /\ DadosBien(ot, D, e) /\ ListaBien(bl, D, e)
  /\ UltimoBien(pg, EnLista(bl), D, e)
  /\ SueltosBien(EnLista(bl), D, e)

-----------------------------------------------------------------------------
(* The list.                                                                 *)

LEMMA QuitarUno ==
  ASSUME NEW S, NEW s \in Seq(S), NEW i \in 1..Len(s), NEW r, r = RemoveAt(s, i)
  PROVE  /\ r \in Seq(S) /\ Len(r) = Len(s) - 1
         /\ \A j \in 1..Len(s) - 1 : r[j] = IF j < i THEN s[j] ELSE s[j + 1]
  <1> DEFINE a == SubSeq(s, 1, i - 1)
             b == SubSeq(s, i + 1, Len(s))
  <1>1. /\ a \in Seq(S) /\ Len(a) = i - 1 /\ \A j \in 1..i - 1 : a[j] = s[j]
    <2>1. \A j \in 1..i - 1 : s[j] \in S
      OBVIOUS
    <2> QED BY <2>1
  <1>2. /\ b \in Seq(S) /\ Len(b) = Len(s) - i /\ \A j \in 1..Len(s) - i : b[j] = s[j + i]
    <2>1. \A j \in i + 1..Len(s) : s[j] \in S
      OBVIOUS
    <2> QED BY <2>1
  <1>3. r = a \o b
    BY DEF RemoveAt
  <1> HIDE DEF a, b
  <1>4. r \in Seq(S) /\ Len(r) = Len(s) - 1
    <2>0. a \in Seq(S) /\ b \in Seq(S)
      BY ONLY <1>1, <1>2
    <2>1. a \o b \in Seq(S) /\ Len(a \o b) = Len(a) + Len(b)
      BY ONLY <2>0
    <2>2. Len(s) \in Nat /\ i \in Nat
      OBVIOUS
    <2>3. Len(a) = i - 1 /\ Len(b) = Len(s) - i
      BY <1>1, <1>2
    <2>4. Len(a) + Len(b) = Len(s) - 1
      BY ONLY <2>2, <2>3
    <2>5. r \in Seq(S) /\ Len(r) = Len(a) + Len(b)
      BY ONLY <2>1, <1>3, Zenon
    <2> QED BY ONLY <2>4, <2>5, Zenon
  <1>5. ASSUME NEW j \in 1..Len(s) - 1
        PROVE  r[j] = IF j < i THEN s[j] ELSE s[j + 1]
    <2>1. r[j] = IF j <= Len(a) THEN a[j] ELSE b[j - Len(a)]
      BY <1>1, <1>2, <1>3
    <2>2. CASE j < i
      BY <2>1, <2>2, <1>1
    <2>3. CASE j >= i
      <3>1. j - Len(a) = j - i + 1 /\ j - i + 1 \in 1..Len(s) - i /\ j - i + 1 + i = j + 1
        BY <2>3, <1>1
      <3> QED BY <3>1, <2>1, <2>3, <1>1, <1>2
    <2> QED BY <2>2, <2>3
  <1> QED BY <1>4, <1>5

\* An entry is known by where its block begins.
LEMMA EntradaDe ==
  ASSUME NEW l \in Entrada, l.posicion >= 5, l.posicion < T + 5,
         NEW n \in Nat, NEW q \in Nat, 5 <= q, q < T + 5
  PROVE  /\ De(l) \in Nat
         /\ (De(l) = Inicio(n) + q - 5) <=> (l.pagina = n /\ l.posicion = q)
  <1>1. /\ l.pagina \in Nat /\ l.posicion - 5 \in Nat /\ l.posicion - 5 < T
        /\ Inicio(l.pagina) \in Nat /\ Inicio(n) \in Nat
        /\ De(l) = Inicio(l.pagina) + (l.posicion - 5) /\ q - 5 \in Nat /\ q - 5 < T
    BY Inicios, Constantes DEF Entrada, De
  <1>2. PaginaDe(De(l)) = l.pagina /\ Resto(De(l)) = l.posicion - 5
    BY <1>1, Unica
  <1>3. PaginaDe(Inicio(n) + (q - 5)) = n /\ Resto(Inicio(n) + (q - 5)) = q - 5
    BY <1>1, Unica
  <1>4. Inicio(n) + q - 5 = Inicio(n) + (q - 5)
    BY <1>1
  <1>5. De(l) = Inicio(n) + q - 5 => l.pagina = n /\ l.posicion - 5 = q - 5
    BY <1>2, <1>3, <1>4
  <1>6. l.posicion - 5 = q - 5 => l.posicion = q
    <2>1. l.posicion \in Nat
      BY DEF Entrada
    <2> QED BY <2>1
  <1> QED BY <1>1, <1>4, <1>5, <1>6

\* The list is right when its blocks do not change ...
LEMMA ListaIgual ==
  ASSUME NEW bl, NEW D, NEW e, ListaBien(bl, D, e), NEW G, NEW f,
         \A x \in EnLista(bl) : x \in G /\ Mismo(e, f, x)
  PROVE  ListaBien(bl, G, f)
  BY DEF ListaBien, EntradaBien, EnLista, Mismo, Libre, Tam

\* ... when a free tile is added to it ...
LEMMA ListaAgregar ==
  ASSUME NEW bl, NEW D, NEW e, ListaBien(bl, D, e),
         NEW n \in Nat, NEW r \in Nat, r < T, NEW s \in Nat, NEW d, EnPagina(n, r, d),
         d \in D, Libre(e, d), Tam(e, d) = s, d \notin EnLista(bl),
         NEW cl, Vale(cl, agregar_bloque_libre(bl, n, r, s))
  PROVE  ListaBien(cl, D, e) /\ EnLista(cl) = Con(EnLista(bl), d)
  <1> USE DEF Vale, Acaba, Sobre, Suma, EnPagina, PosDe, Con, Sin, ConDado, HeaderDado, HeaderLibre
  <1> DEFINE l == [pagina |-> n, posicion |-> r + 5, tamanio |-> s]
  <1>1. cl = Append(bl, l) /\ l \in Entrada /\ bl \in Seq(Entrada)
    BY Constantes DEF agregar_bloque_libre, Entrada, ListaBien
  <1>2. De(l) = d /\ EntradaBien(l, D, e)
    <2>1. De(l) = d
      BY Inicios, Constantes DEF De
    <2> QED BY <2>1, Constantes DEF EntradaBien
  <1> HIDE DEF l
  <1>3. /\ cl \in Seq(Entrada) /\ Len(cl) = Len(bl) + 1 /\ cl[Len(bl) + 1] = l
        /\ \A i \in 1..Len(bl) : cl[i] = bl[i]
        /\ DOMAIN bl = 1..Len(bl) /\ DOMAIN cl = 1..Len(bl) + 1 /\ Len(bl) \in Nat
    BY <1>1
  <1>4. \A i \in DOMAIN bl : EntradaBien(bl[i], D, e) /\ De(bl[i]) # d
    BY DEF ListaBien, EnLista
  <1>5. \A i \in DOMAIN cl : EntradaBien(cl[i], D, e)
    BY <1>2, <1>3, <1>4
  <1>6. ASSUME NEW i \in DOMAIN cl, NEW j \in DOMAIN cl, De(cl[i]) = De(cl[j])
        PROVE  i = j
    <2>1. \A k, m \in DOMAIN bl : De(bl[k]) = De(bl[m]) => k = m
      BY DEF ListaBien
    <2>2. CASE i \in DOMAIN bl /\ j \in DOMAIN bl
      BY <2>1, <2>2, <1>3, <1>6
    <2>3. CASE i \in DOMAIN bl /\ j = Len(bl) + 1
      BY <2>3, <1>2, <1>3, <1>4, <1>6
    <2>4. CASE i = Len(bl) + 1 /\ j \in DOMAIN bl
      BY <2>4, <1>2, <1>3, <1>4, <1>6
    <2> QED BY <2>2, <2>3, <2>4, <1>3
  <1>7. EnLista(cl) = EnLista(bl) \cup {d}
    <2>1. \A i \in DOMAIN cl : De(cl[i]) \in EnLista(bl) \cup {d}
      BY <1>2, <1>3 DEF EnLista
    <2>2. \A i \in DOMAIN bl : De(bl[i]) \in EnLista(cl)
      BY <1>3 DEF EnLista
    <2>3. d \in EnLista(cl)
      BY <1>2, <1>3 DEF EnLista
    <2> QED BY <2>1, <2>2, <2>3 DEF EnLista
  <1> QED BY <1>3, <1>5, <1>6, <1>7 DEF ListaBien

\* ... and when an entry of it is taken.
LEMMA ListaSacar ==
  ASSUME NEW bl, NEW D, NEW e, ListaBien(bl, D, e),
         NEW n \in Nat, NEW q \in Nat, 5 <= q, q < T + 5, NEW d, PosDe(n, q, d),
         NEW cl, Vale(cl, remover_bloque_libre(bl, n, q))
  PROVE  ListaBien(cl, D, e) /\ EnLista(cl) = Sin(EnLista(bl), d)
  <1> USE DEF Vale, Acaba, Sobre, Suma, EnPagina, PosDe, Con, Sin, ConDado, HeaderDado, HeaderLibre
  <1> DEFINE si == {i \in DOMAIN bl : bl[i].pagina = n /\ bl[i].posicion = q}
  <1>1. bl \in Seq(Entrada) /\ DOMAIN bl = 1..Len(bl) /\ Len(bl) \in Nat
    BY DEF ListaBien
  <1>2. \A i \in DOMAIN bl : i \in si <=> De(bl[i]) = d
    <2> SUFFICES ASSUME NEW i \in DOMAIN bl
                 PROVE  (bl[i].pagina = n /\ bl[i].posicion = q) <=> De(bl[i]) = d
      OBVIOUS
    <2>1. bl[i] \in Entrada /\ bl[i].posicion >= 5 /\ bl[i].posicion < T + 5
      BY <1>1 DEF ListaBien, EntradaBien
    <2> QED BY <2>1, EntradaDe
  <1>3. \A i, j \in DOMAIN bl : De(bl[i]) = De(bl[j]) => i = j
    BY DEF ListaBien
  <1>4. CASE si = {}
    <2>1. cl = bl
      BY <1>4 DEF remover_bloque_libre
    <2>2. d \notin EnLista(bl)
      BY <1>2, <1>4 DEF EnLista
    <2> QED BY <2>1, <2>2
  <1>5. CASE si # {}
    <2>1. PICK i \in si : TRUE
      BY <1>5
    <2>2. si = {i} /\ i \in 1..Len(bl)
      BY <1>1, <1>2, <1>3, <2>1
    <2>3. (CHOOSE k \in si : \A j \in si : k <= j) = i
      BY <2>2
    <2>4. cl = RemoveAt(bl, i)
      BY <2>3, <1>5 DEF remover_bloque_libre
    <2>5. /\ cl \in Seq(Entrada) /\ Len(cl) = Len(bl) - 1
          /\ \A j \in 1..Len(bl) - 1 : cl[j] = IF j < i THEN bl[j] ELSE bl[j + 1]
      BY ONLY <1>1, <2>2, <2>4, QuitarUno, ZenonT(30)
    <2>6. DOMAIN cl = 1..Len(bl) - 1
      BY <2>5
    <2> DEFINE v(j) == IF j < i THEN j ELSE j + 1
    <2>7. /\ \A j \in DOMAIN cl : v(j) \in DOMAIN bl /\ v(j) # i /\ cl[j] = bl[v(j)]
          /\ \A j, k \in DOMAIN cl : v(j) = v(k) => j = k
          /\ \A j \in DOMAIN bl : j # i => \E k \in DOMAIN cl : j = v(k)
      <3>1. /\ \A j \in DOMAIN cl : v(j) \in DOMAIN bl /\ v(j) # i /\ cl[j] = bl[v(j)]
            /\ \A j, k \in DOMAIN cl : v(j) = v(k) => j = k
        BY ONLY <2>5, <2>6, <1>1, <2>2
      <3>2. ASSUME NEW j \in DOMAIN bl, j # i
            PROVE  \E k \in DOMAIN cl : j = v(k)
        <4>1. CASE j < i
          <5>1. j \in DOMAIN cl /\ v(j) = j
            BY <4>1, <2>6, <1>1, <2>2
          <5> QED BY <5>1
        <4>2. CASE j > i
          <5>1. j - 1 \in DOMAIN cl /\ v(j - 1) = j
            BY <4>2, <2>6, <1>1, <2>2
          <5> QED BY <5>1
        <4> QED BY <4>1, <4>2, <3>2, <1>1, <2>2
      <3> QED BY <3>1, <3>2
    <2> HIDE DEF v
    <2>8. De(bl[i]) = d
      BY <1>2, <2>2
    <2>9. \A j \in DOMAIN cl : EntradaBien(cl[j], D, e)
      BY <2>7 DEF ListaBien
    <2>10. \A j, k \in DOMAIN cl : De(cl[j]) = De(cl[k]) => j = k
      BY <2>7, <1>3
    <2>11. EnLista(cl) = EnLista(bl) \ {d}
      <3>1. \A j \in DOMAIN cl : De(cl[j]) \in EnLista(bl) \ {d}
        BY <2>7, <2>8, <1>3, <2>2, <1>1 DEF EnLista
      <3>2. \A j \in DOMAIN bl : De(bl[j]) # d => De(bl[j]) \in EnLista(cl)
        BY <2>7, <2>8 DEF EnLista
      <3> QED BY <3>1, <3>2 DEF EnLista
    <2> QED BY <2>5, <2>9, <2>10, <2>11 DEF ListaBien
  <1> QED BY <1>4, <1>5

-----------------------------------------------------------------------------
(* What was given, and the last header.                                      *)

LEMMA MismoLibre ==
  ASSUME NEW e, NEW f, NEW x, Hay(e, x), Mismo(e, f, x)
  PROVE  /\ Hay(f, x) /\ (Libre(f, x) <=> Libre(e, x))
         /\ Tam(f, x) = Tam(e, x) /\ Fin(f, x) = Fin(e, x)
  BY DEF Mismo, Libre, Fin, Tam

\* What was given is right when a tile that was free is given ...
LEMMA DadosOtorgar ==
  ASSUME NEW ot, NEW D, NEW e, DadosBien(ot, D, e), \A x \in D : Hay(e, x),
         NEW G, NEW f, NEW a \in Nat, NEW t \in Nat \ {0}, a \in D => Libre(e, a),
         \A x \in D : x # a => x \in G /\ Mismo(e, f, x),
         a \in G, ~Libre(f, a), Tam(f, a) = t,
         NEW pos \in Nat, Sobre(a, pos)
  PROVE  DadosBien(ConDado(ot, pos, t), G, f)
  <1> USE DEF Vale, Acaba, Sobre, Suma, EnPagina, PosDe, Con, Sin, ConDado, HeaderDado, HeaderLibre
  <1>1. ASSUME NEW b \in ot
        PROVE  /\ b \in Dado /\ b.pos - HEADER \in G
               /\ ~Libre(f, b.pos - HEADER) /\ Tam(f, b.pos - HEADER) = b.tam
    <2>1. /\ b \in Dado /\ b.pos - HEADER \in D
          /\ ~Libre(e, b.pos - HEADER) /\ Tam(e, b.pos - HEADER) = b.tam
      BY DEF DadosBien
    <2>2. b.pos - HEADER # a
      BY <2>1
    <2> QED BY <2>1, <2>2, MismoLibre
  <1>2. [pos |-> pos, tam |-> t] \in Dado /\ pos - HEADER = a
    BY Constantes DEF Dado
  <1> QED BY <1>1, <1>2 DEF DadosBien

\* Two blocks that were given begin in two places.
LEMMA DadosDistintos ==
  ASSUME NEW ot, NEW D, NEW e, DadosBien(ot, D, e), NEW b \in ot, NEW c \in ot,
         b.pos - HEADER = c.pos - HEADER
  PROVE  b = c
  <1>1. b \in Dado /\ c \in Dado /\ b.tam = c.tam
    BY DEF DadosBien
  <1>2. b.pos = c.pos
    BY <1>1, Constantes DEF Dado
  <1> QED BY <1>1, <1>2 DEF Dado

\* ... when a block is given back ...
LEMMA DadosSacar ==
  ASSUME NEW ot, NEW D, NEW e, DadosBien(ot, D, e), \A x \in D : Hay(e, x),
         NEW b \in ot, NEW G, NEW f,
         \A x \in D : x # b.pos - HEADER /\ ~Libre(e, x) => x \in G /\ Mismo(e, f, x)
  PROVE  DadosBien(Sin(ot, b), G, f)
  <1> USE DEF Vale, Acaba, Sobre, Suma, EnPagina, PosDe, Con, Sin, ConDado, HeaderDado, HeaderLibre
  <1> SUFFICES ASSUME NEW c \in ot \ {b}
               PROVE  /\ c \in Dado /\ c.pos - HEADER \in G
                      /\ ~Libre(f, c.pos - HEADER) /\ Tam(f, c.pos - HEADER) = c.tam
    BY DEF DadosBien
  <1>1. /\ c \in Dado /\ c.pos - HEADER \in D
        /\ ~Libre(e, c.pos - HEADER) /\ Tam(e, c.pos - HEADER) = c.tam
    BY DEF DadosBien
  <1>2. c.pos - HEADER # b.pos - HEADER
    BY DadosDistintos
  <1> QED BY <1>1, <1>2, MismoLibre

\* ... and when no header changes.
LEMMA DadosIgual ==
  ASSUME NEW ot, NEW D, NEW e, DadosBien(ot, D, e), \A x \in D : Hay(e, x),
         NEW f, \A x \in D : Mismo(e, f, x)
  PROVE  DadosBien(ot, D, f)
  BY MismoLibre DEF DadosBien

\* What the last page says stays true when the tiles that change are neither
\* the last header nor reach the end.
Guarda(D, X, e, L, G, f, M) ==
  \A x \in D \ X : x \in G /\ Mismo(e, f, x) /\ (x \in M => x \in L)
NoUltimas(X, e, L, u, base, fin) ==
  /\ \A x \in X : Libre(e, x) => x \in L \/ x + 5 # base + u \/ ~(u >= 5)
  /\ \A x \in X : ~Libre(e, x) => ~(Fin(e, x) >= fin - 4)

\* It is still the last header of the segment.
LEMMA UltimoQueda ==
  ASSUME NEW u, NEW th, NEW base, NEW fin, NEW L, NEW D, NEW e,
         UltimoHeader(u, th, base, fin, L, D, e), \A x \in D : Hay(e, x),
         NEW th2, th2 = th \/ th2 = 0, NEW M, NEW G, NEW f, NEW X,
         Guarda(D, X, e, L, G, f, M), NoUltimas(X, e, L, u, base, fin)
  PROVE  UltimoHeader(u, th2, base, fin, M, G, f)
  <1>1. CASE u = 0 /\ th = 0
    BY <1>1 DEF UltimoHeader
  <1>2. ASSUME NEW x \in D \ L, x + 5 = base + u, Libre(e, x), Fin(e, x) = fin,
               th \in {0, Tam(e, x)}, u >= 5
        PROVE  UltimoHeader(u, th2, base, fin, M, G, f)
    <2>1. x \notin X
      BY <1>2 DEF NoUltimas
    <2>2. x \in G \ M /\ Libre(f, x) /\ Fin(f, x) = fin /\ Tam(f, x) = Tam(e, x)
      BY <2>1, <1>2, MismoLibre DEF Guarda
    <2> QED BY <2>2, <1>2 DEF UltimoHeader
  <1>3. ASSUME th = 0, NEW x \in D, x + 5 = base + u \/ x = base + u,
               ~Libre(e, x), Fin(e, x) >= fin - 4
        PROVE  UltimoHeader(u, th2, base, fin, M, G, f)
    <2>1. x \notin X
      BY <1>3 DEF NoUltimas
    <2>2. x \in G /\ ~Libre(f, x) /\ Fin(f, x) >= fin - 4
      BY <2>1, <1>3, MismoLibre DEF Guarda
    <2> QED BY <2>2, <1>3 DEF UltimoHeader
  <1> QED BY <1>1, <1>2, <1>3 DEF UltimoHeader

\* The free tiles out of the list are those there were, or they end with a page.
LEMMA SueltosQuedan ==
  ASSUME NEW D, NEW e, NEW L, SueltosBien(L, D, e), \A x \in D : Hay(e, x),
         NEW G, NEW f, NEW M,
         \A x \in G : \/ x \in M \/ ~Libre(f, x) \/ Resto(Fin(f, x)) = 0
                      \/ x \in D /\ x \notin L /\ Mismo(e, f, x)
  PROVE  SueltosBien(M, G, f)
  BY MismoLibre DEF SueltosBien

-----------------------------------------------------------------------------
(* The property, of the tiles.                                               *)

LEMMA DeMosaico ==
  ASSUME NEW D, NEW pg, NEW e, NEW bl, NEW ot, Mosaico(D, pg, e, bl, ot)
  PROVE  /\ Len(pg) \in Nat /\ Inicio(Len(pg)) \in Nat
         /\ \A x \in D : /\ x \in Nat /\ Hay(e, x) /\ Tam(e, x) \in Nat
                         /\ Fin(e, x) = x + 5 + Tam(e, x) /\ Fin(e, x) \in Nat
                         /\ Fin(e, x) <= Inicio(Len(pg)) /\ x + 5 <= Inicio(Len(pg))
                         /\ Resto(x) + 5 <= T
         /\ \A x, y \in D : x < y => Fin(e, x) <= y
         /\ EnLista(bl) \subseteq D
         /\ \A x \in EnLista(bl) : Libre(e, x)
  <1>1. Len(pg) \in Nat /\ Inicio(Len(pg)) \in Nat
    BY Inicios DEF Mosaico, PaginasBien
  <1>2. EscritoBien(e, Inicio(Len(pg))) /\ Teja(D, e, Inicio(Len(pg)))
    BY DEF Mosaico
  <1>3. \A x \in D : /\ x \in Nat /\ Hay(e, x) /\ Tam(e, x) \in Nat
                     /\ Fin(e, x) = x + 5 + Tam(e, x) /\ Fin(e, x) \in Nat
                     /\ Fin(e, x) <= Inicio(Len(pg)) /\ Resto(x) + 5 <= T
    BY <1>1, <1>2, TejaDe
  <1>4. \A x \in D : x + 5 <= Inicio(Len(pg))
    BY <1>1, <1>3
  <1>5. \A x, y \in D : x < y => Fin(e, x) <= y
    BY <1>1, <1>2, TejasDisjuntas
  <1>6. \A x \in EnLista(bl) : x \in D /\ Libre(e, x)
    BY DEF Mosaico, ListaBien, EntradaBien, EnLista
  <1> QED BY <1>1, <1>3, <1>4, <1>5, <1>6

\* Two tiles have no byte in common.
LEMMA DosTejas ==
  ASSUME NEW D, NEW pg, NEW e, NEW bl, NEW ot, Mosaico(D, pg, e, bl, ot),
         NEW x \in D, NEW y \in D, x # y
  PROVE  (x..Fin(e, x) - 1) \cap (y..Fin(e, y) - 1) = {}
  <1>1. /\ x \in Nat /\ y \in Nat /\ Fin(e, x) \in Nat /\ Fin(e, y) \in Nat
        /\ x < y => Fin(e, x) <= y
        /\ y < x => Fin(e, y) <= x
    BY DeMosaico
  <1> QED BY <1>1

\* What the process has, the list and the last header have no byte in common.
LEMMA SinSolapeDeMosaico ==
  ASSUME NEW D, Mosaico(D, paginas, escrito, bloquesLibres, otorgados)
  PROVE  SinSolape
  <1> DEFINE fin == Inicio(Len(paginas))
             Bs(x) == x..Fin(escrito, x) - 1
  <1>1. ASSUME NEW b \in otorgados
        PROVE  /\ b \in Dado /\ b.pos - 5 \in D /\ ~Libre(escrito, b.pos - 5)
               /\ Ocupa(b) = Bs(b.pos - 5) /\ Bs(b.pos - 5) \subseteq 0..fin - 1
    <2>1. /\ b \in Dado /\ b.pos - 5 \in D
          /\ ~Libre(escrito, b.pos - 5) /\ Tam(escrito, b.pos - 5) = b.tam
      BY Constantes DEF Mosaico, DadosBien
    <2>2. /\ Fin(escrito, b.pos - 5) = (b.pos - 5) + 5 + b.tam /\ b.pos - 5 \in Nat
          /\ Fin(escrito, b.pos - 5) <= fin /\ Fin(escrito, b.pos - 5) \in Nat /\ fin \in Nat
      BY <2>1, DeMosaico
    <2>3. Ocupa(b) = (b.pos - 5)..(b.pos - 5) + (5 + b.tam) - 1
      BY Constantes DEF Ocupa, Bytes
    <2>4. (b.pos - 5) + (5 + b.tam) - 1 = Fin(escrito, b.pos - 5) - 1
      BY <2>1, <2>2 DEF Dado
    <2>5. Bs(b.pos - 5) \subseteq 0..fin - 1
      BY <2>2
    <2> QED BY <2>1, <2>3, <2>4, <2>5
  <1>2. ASSUME NEW i \in DOMAIN bloquesLibres
        PROVE  /\ De(bloquesLibres[i]) \in D /\ Libre(escrito, De(bloquesLibres[i]))
               /\ DeLista(i) = Bs(De(bloquesLibres[i]))
    <2> DEFINE l == bloquesLibres[i]
               x == De(l)
    <2>1. l \in Entrada /\ x \in D /\ Libre(escrito, x) /\ Tam(escrito, x) = l.tamanio
      BY DEF Mosaico, ListaBien, EntradaBien
    <2>2. Fin(escrito, x) = x + 5 + l.tamanio /\ x \in Nat
      BY <2>1, DeMosaico
    <2>3. DeLista(i) = x..x + (5 + l.tamanio) - 1
      BY Constantes DEF DeLista, Bytes, De
    <2>4. x + (5 + l.tamanio) - 1 = Fin(escrito, x) - 1
      BY <2>1, <2>2 DEF Entrada
    <2> QED BY <2>1, <2>3, <2>4
  <1>3. ASSUME TieneUltimo
        PROVE  \E x \in D : Libre(escrito, x) /\ DelUltimo = Bs(x)
    <2> DEFINE u == paginas[Len(paginas)].ultimo_header
               th == paginas[Len(paginas)].tamanio_header
               base == Inicio(Len(paginas) - 1)
               L == EnLista(bloquesLibres)
    <2>1. Len(paginas) \in Nat /\ Len(paginas) > 0 /\ paginas \in Seq(PaginaBien)
      BY <1>3 DEF TieneUltimo, Mosaico, PaginasBien
    <2>2. Pag(Ultima) = paginas[Len(paginas)] /\ Inicio(Ultima) = base
      <3>1. Ultima + 1 = Len(paginas)
        BY <2>1 DEF Ultima
      <3> QED BY <3>1 DEF Pag, Ultima
    <2>3. th > 0 /\ th \in Nat /\ u \in Nat /\ base \in Nat
      <3>1. paginas[Len(paginas)] \in PaginaBien
        BY <2>1
      <3>2. Len(paginas) - 1 \in Nat
        BY <2>1
      <3>3. th > 0
        BY <1>3, <2>2 DEF TieneUltimo
      <3> QED BY <3>1, <3>2, <3>3, Inicios DEF PaginaBien
    <2>4. UltimoHeader(u, th, base, fin, L, D, escrito)
      BY <2>1 DEF Mosaico, UltimoBien
    <2>5. PICK x \in D : x + 5 = base + u /\ Libre(escrito, x) /\ th \in {0, Tam(escrito, x)}
      BY <2>3, <2>4 DEF UltimoHeader
    <2>6. x \in Nat /\ Fin(escrito, x) = x + 5 + th
      <3>1. x \in Nat /\ Fin(escrito, x) = x + 5 + Tam(escrito, x)
        BY <2>5, DeMosaico
      <3>2. th = Tam(escrito, x)
        <4> HIDE DEF th
        <4> QED BY <2>3, <2>5
      <3> QED BY <3>1, <3>2
    <2>7. DelUltimo = (base + u - 5)..(base + u - 5) + (5 + th) - 1
      BY <2>2, Constantes DEF DelUltimo, Bytes
    <2> HIDE DEF u, th, base
    <2>8. base + u - 5 = x /\ x + (5 + th) - 1 = Fin(escrito, x) - 1
      BY <2>3, <2>5, <2>6
    <2> QED BY <2>5, <2>7, <2>8
  <1>4. \A b, c \in otorgados : b # c => b.pos - 5 # c.pos - 5
    BY DadosDistintos, Constantes DEF Mosaico
  <1>5. \A x, y \in D : x # y => Bs(x) \cap Bs(y) = {}
    BY DosTejas
  <1> HIDE DEF Bs, fin
  <1>6. \A b \in otorgados : Ocupa(b) \subseteq 0..fin - 1
    BY <1>1
  <1>7. \A b, c \in otorgados : b # c => Ocupa(b) \cap Ocupa(c) = {}
    BY <1>1, <1>4, <1>5
  <1>8. \A b \in otorgados, i \in DOMAIN bloquesLibres : Ocupa(b) \cap DeLista(i) = {}
    BY <1>1, <1>2, <1>5
  <1>9. TieneUltimo => \A b \in otorgados : Ocupa(b) \cap DelUltimo = {}
    BY <1>1, <1>3, <1>5
  <1> QED BY <1>6, <1>7, <1>8, <1>9 DEF SinSolape, fin

-----------------------------------------------------------------------------
(* The pages.                                                                *)

LEMMA FuncionSeq ==
  ASSUME NEW S, NEW n \in Nat, NEW f \in [1..n -> S]
  PROVE  f \in Seq(S) /\ Len(f) = n /\ DOMAIN f = 1..n
  OBVIOUS

\* The pages, one by one.
LEMMA PaginasDe ==
  ASSUME NEW pg, PaginasBien(pg)
  PROVE  /\ Len(pg) \in Nat /\ DOMAIN pg = 1..Len(pg) /\ pg \in [1..Len(pg) -> PaginaBien]
         /\ \A i \in 1..Len(pg) : /\ pg[i] \in PaginaBien /\ pg[i].esFinPag \in BOOLEAN
                                  /\ pg[i].tamanio_header \in Nat /\ pg[i].ultimo_header \in Nat
                                  /\ (pg[i].esFinPag <=> i = Len(pg))
  <1>1. /\ pg \in Seq(PaginaBien)
        /\ \A i \in 1..Len(pg) : pg[i].esFinPag <=> i = Len(pg)
    BY DEF PaginasBien
  <1>2. /\ Len(pg) \in Nat /\ DOMAIN pg = 1..Len(pg) /\ pg \in [1..Len(pg) -> PaginaBien]
        /\ \A i \in 1..Len(pg) : pg[i] \in PaginaBien
    BY <1>1
  <1>3. \A i \in 1..Len(pg) : /\ pg[i].esFinPag \in BOOLEAN
                              /\ pg[i].tamanio_header \in Nat /\ pg[i].ultimo_header \in Nat
    BY <1>2 DEF PaginaBien
  <1> QED BY <1>1, <1>2, <1>3

\* They are as many, and the last one is the same.
LEMMA PaginasCambian ==
  ASSUME NEW pg, PaginasBien(pg), NEW pf, DOMAIN pf = DOMAIN pg,
         pf = [i \in DOMAIN pg |-> pf[i]],
         \A i \in DOMAIN pg : pf[i] \in PaginaBien /\ pf[i].esFinPag = pg[i].esFinPag
  PROVE  PaginasBien(pf) /\ Len(pf) = Len(pg)
  <1>1. Len(pg) \in Nat /\ DOMAIN pg = 1..Len(pg)
    BY PaginasDe
  <1>2. pf \in [1..Len(pg) -> PaginaBien]
    BY <1>1
  <1>3. pf \in Seq(PaginaBien) /\ Len(pf) = Len(pg)
    BY <1>1, <1>2, FuncionSeq
  <1>4. \A i \in 1..Len(pf) : pf[i].esFinPag <=> i = Len(pf)
    BY <1>1, <1>3, PaginasDe
  <1> QED BY <1>3, <1>4 DEF PaginasBien

\* The fields of one page.
ConDos(pg, i, th, u) == [pg EXCEPT ![i] = Pagina(pg[i].esFinPag, th, u)]
ConTamanio(pg, i, th) == [pg EXCEPT ![i].tamanio_header = th]
ConHeaderUltimo(pg, i, u) == [pg EXCEPT ![i].ultimo_header = u]

\* Two fields of a page are changed ...
LEMMA PaginaCambia ==
  ASSUME NEW pg, PaginasBien(pg), NEW i \in 1..Len(pg), NEW th \in Nat, NEW u \in Nat,
         NEW pf, Vale(pf, ConDos(pg, i, th, u))
  PROVE  /\ PaginasBien(pf) /\ Len(pf) = Len(pg)
         /\ pf[i].tamanio_header = th /\ pf[i].ultimo_header = u
         /\ \A j \in 1..Len(pg) : j # i => pf[j] = pg[j]
  <1> USE DEF Vale, Acaba, Sobre, Suma, EnPagina, PosDe, Con, Sin, ConDado, HeaderDado, HeaderLibre
  <1> USE DEF ConDos
  <1>1. /\ DOMAIN pg = 1..Len(pg) /\ \A j \in 1..Len(pg) : pg[j] \in PaginaBien
        /\ pg[i].esFinPag \in BOOLEAN
    BY PaginasDe
  <1>2. pf[i] = Pagina(pg[i].esFinPag, th, u) /\ \A j \in 1..Len(pg) : j # i => pf[j] = pg[j]
    BY <1>1
  <1>3. /\ pf[i] \in PaginaBien /\ pf[i].esFinPag = pg[i].esFinPag
        /\ pf[i].tamanio_header = th /\ pf[i].ultimo_header = u
    BY <1>1, <1>2 DEF Pagina, PaginaBien
  <1>4. DOMAIN pf = DOMAIN pg /\ pf = [j \in DOMAIN pg |-> pf[j]]
    BY <1>1
  <1>5. \A j \in DOMAIN pg : pf[j] \in PaginaBien /\ pf[j].esFinPag = pg[j].esFinPag
    BY <1>1, <1>2, <1>3
  <1> QED BY <1>2, <1>3, <1>4, <1>5, PaginasCambian

\* ... tamanio_header alone ...
LEMMA TamanioCambia ==
  ASSUME NEW pg, PaginasBien(pg), NEW i \in 1..Len(pg), NEW th \in Nat,
         NEW pf, Vale(pf, ConTamanio(pg, i, th))
  PROVE  /\ PaginasBien(pf) /\ Len(pf) = Len(pg)
         /\ pf[i].tamanio_header = th /\ pf[i].ultimo_header = pg[i].ultimo_header
         /\ \A j \in 1..Len(pg) : j # i => pf[j] = pg[j]
  <1> USE DEF Vale, Acaba, Sobre, Suma, EnPagina, PosDe, Con, Sin, ConDado, HeaderDado, HeaderLibre
  <1> USE DEF ConTamanio
  <1>1. DOMAIN pg = 1..Len(pg) /\ \A j \in 1..Len(pg) : pg[j] \in PaginaBien
    BY PaginasDe
  <1>2. pf[i] = [pg[i] EXCEPT !.tamanio_header = th] /\ \A j \in 1..Len(pg) : j # i => pf[j] = pg[j]
    BY <1>1
  <1>3. /\ pf[i] \in PaginaBien /\ pf[i].esFinPag = pg[i].esFinPag
        /\ pf[i].tamanio_header = th /\ pf[i].ultimo_header = pg[i].ultimo_header
    BY <1>1, <1>2 DEF PaginaBien
  <1>4. DOMAIN pf = DOMAIN pg /\ pf = [j \in DOMAIN pg |-> pf[j]]
    BY <1>1
  <1>5. \A j \in DOMAIN pg : pf[j] \in PaginaBien /\ pf[j].esFinPag = pg[j].esFinPag
    BY <1>1, <1>2, <1>3
  <1> QED BY <1>2, <1>3, <1>4, <1>5, PaginasCambian

\* ... or ultimo_header alone.
LEMMA UltimoCambia ==
  ASSUME NEW pg, PaginasBien(pg), NEW i \in 1..Len(pg), NEW u \in Nat,
         NEW pf, Vale(pf, ConHeaderUltimo(pg, i, u))
  PROVE  /\ PaginasBien(pf) /\ Len(pf) = Len(pg)
         /\ pf[i].tamanio_header = pg[i].tamanio_header /\ pf[i].ultimo_header = u
         /\ \A j \in 1..Len(pg) : j # i => pf[j] = pg[j]
  <1> USE DEF Vale, Acaba, Sobre, Suma, EnPagina, PosDe, Con, Sin, ConDado, HeaderDado, HeaderLibre
  <1> USE DEF ConHeaderUltimo
  <1>1. DOMAIN pg = 1..Len(pg) /\ \A j \in 1..Len(pg) : pg[j] \in PaginaBien
    BY PaginasDe
  <1>2. pf[i] = [pg[i] EXCEPT !.ultimo_header = u] /\ \A j \in 1..Len(pg) : j # i => pf[j] = pg[j]
    BY <1>1
  <1>3. /\ pf[i] \in PaginaBien /\ pf[i].esFinPag = pg[i].esFinPag
        /\ pf[i].tamanio_header = pg[i].tamanio_header /\ pf[i].ultimo_header = u
    BY <1>1, <1>2 DEF PaginaBien
  <1>4. DOMAIN pf = DOMAIN pg /\ pf = [j \in DOMAIN pg |-> pf[j]]
    BY <1>1
  <1>5. \A j \in DOMAIN pg : pf[j] \in PaginaBien /\ pf[j].esFinPag = pg[j].esFinPag
    BY <1>1, <1>2, <1>3
  <1> QED BY <1>2, <1>3, <1>4, <1>5, PaginasCambian

\* The last page is the same, or says nothing of the size of its header.
MismaUltima(pg, pf) ==
  /\ PaginasBien(pf) /\ Len(pf) = Len(pg)
  /\ Len(pg) > 0 => /\ pf[Len(pg)].ultimo_header = pg[Len(pg)].ultimo_header
                    /\ pf[Len(pg)].tamanio_header \in {pg[Len(pg)].tamanio_header, 0}

-----------------------------------------------------------------------------
(* mallocMuse, of a free block of the list.                                  *)

LEMMA DeLaLista ==
  ASSUME NEW D, NEW pg, NEW e, NEW bl, NEW ot, Mosaico(D, pg, e, bl, ot),
         NEW i \in DOMAIN bl, NEW n, Vale(n, bl[i].pagina), NEW pos, Vale(pos, bl[i].posicion),
         NEW a, Vale(a, De(bl[i])), NEW cl, Vale(cl, remover_bloque_libre(bl, n, pos))
  PROVE  /\ n \in Nat /\ pos \in Nat /\ pos >= 5 /\ pos < T + 5 /\ bl[i].tamanio \in Nat
         /\ a \in D /\ a \in Nat /\ Libre(e, a) /\ Tam(e, a) = bl[i].tamanio /\ a \in EnLista(bl)
         /\ Inicio(n) \in Nat /\ a + 5 = Inicio(n) + pos /\ Resto(a) = pos - 5 /\ PaginaDe(a) = n
         /\ a = Inicio(n) + pos - 5 /\ a = Inicio(n) + pos - HEADER
         /\ ListaBien(cl, D, e) /\ EnLista(cl) = Sin(EnLista(bl), a)
  <1> USE DEF Vale, Acaba, Sobre, Suma, EnPagina, PosDe, Con, Sin, ConDado, HeaderDado, HeaderLibre
  <1>1. /\ bl[i] \in Entrada /\ EntradaBien(bl[i], D, e) /\ ListaBien(bl, D, e)
        /\ a \in EnLista(bl)
    BY DEF Mosaico, ListaBien, EnLista
  <1>2. /\ n \in Nat /\ pos \in Nat /\ pos >= 5 /\ pos < T + 5 /\ bl[i].tamanio \in Nat
        /\ a \in D /\ Libre(e, a) /\ Tam(e, a) = bl[i].tamanio
    BY <1>1 DEF Entrada, EntradaBien
  <1>3. a \in Nat /\ Inicio(n) \in Nat
    BY <1>2, DeMosaico, Inicios
  <1>4. a = Inicio(n) + pos - 5
    BY Constantes DEF De
  <1>5. a + 5 = Inicio(n) + pos /\ a = Inicio(n) + (pos - 5) /\ pos - 5 \in Nat /\ pos - 5 < T
    BY <1>2, <1>3, <1>4, Constantes
  <1>6. Resto(a) = pos - 5 /\ PaginaDe(a) = n
    BY <1>2, <1>5, Unica
  <1>7. ListaBien(cl, D, e) /\ EnLista(cl) = EnLista(bl) \ {a}
    <2>1. PosDe(n, pos, a)
      BY <1>4 DEF Vale
    <2> QED BY ONLY <1>1, <1>2, <2>1, cl = remover_bloque_libre(bl, n, pos), ListaSacar
  <1>8. a = Inicio(n) + pos - HEADER
    BY <1>4, Constantes
  <1> QED BY <1>1, <1>2, <1>3, <1>4, <1>5, <1>6, <1>7, <1>8

\* The tiles and the list after the block is given are those of the state.
LEMMA DadoDeLista ==
  ASSUME NEW D, NEW pg, NEW e, NEW bl, NEW ot, Mosaico(D, pg, e, bl, ot),
         NEW a \in EnLista(bl), NEW t \in Nat \ {0}, NEW pos \in Nat, Sobre(a, pos),
         NEW pf, MismaUltima(pg, pf),
         NEW f, EscritoBien(f, Inicio(Len(pg))),
         NEW G, Teja(G, f, Inicio(Len(pg))), a \in G, ~Libre(f, a), Tam(f, a) = t,
         \A x \in D : x # a => x \in G /\ Mismo(e, f, x),
         NEW cl, ListaBien(cl, G, f), \A x \in EnLista(cl) : x \in D => x \in EnLista(bl),
         \A x \in EnLista(bl) : x # a => x \in EnLista(cl),
         \A x \in G : x \in D \/ x = a \/ x \in EnLista(cl)
  PROVE  Mosaico(G, pf, f, cl, ConDado(ot, pos, t))
  <1> USE DEF Vale, Acaba, Sobre, Suma, EnPagina, PosDe, Con, Sin, ConDado, HeaderDado, HeaderLibre
  <1>1. /\ a \in D /\ a \in Nat /\ Libre(e, a) /\ \A x \in D : Hay(e, x)
    BY DeMosaico
  <1>2. PaginasBien(pf) /\ Len(pf) = Len(pg)
    BY DEF MismaUltima
  <1>3. DadosBien(ot \cup {[pos |-> pos, tam |-> t]}, G, f)
    BY <1>1, DadosOtorgar DEF Mosaico
  <1>4. UltimoBien(pf, EnLista(cl), G, f)
    <2> SUFFICES ASSUME Len(pg) > 0
                 PROVE  UltimoHeader(pf[Len(pg)].ultimo_header, pf[Len(pg)].tamanio_header,
                              Inicio(Len(pg) - 1), Inicio(Len(pg)), EnLista(cl), G, f)
      BY <1>2 DEF UltimoBien
    <2> DEFINE u == pg[Len(pg)].ultimo_header
               th == pg[Len(pg)].tamanio_header
               th2 == pf[Len(pg)].tamanio_header
               base == Inicio(Len(pg) - 1)
               fin == Inicio(Len(pg))
               L == EnLista(bl)
               M == EnLista(cl)
    <2>1. pf[Len(pg)].ultimo_header = u /\ (th2 = th \/ th2 = 0)
      BY DEF MismaUltima
    <2>2. UltimoHeader(u, th, base, fin, L, D, e)
      BY DEF Mosaico, UltimoBien
    <2>3. Guarda(D, {a}, e, L, G, f, M)
      BY DEF Guarda
    <2>4. NoUltimas({a}, e, L, u, base, fin)
      BY <1>1 DEF NoUltimas
    <2> HIDE DEF u, th, th2, base, fin, L, M
    <2>5. UltimoHeader(u, th2, base, fin, M, G, f)
      BY ONLY <2>1, <2>2, <2>3, <2>4, <1>1, UltimoQueda
    <2> QED BY <2>1, <2>5 DEF th2, base, fin, M
  <1>5. SueltosBien(EnLista(cl), G, f)
    <2>1. SueltosBien(EnLista(bl), D, e)
      BY DEF Mosaico
    <2>2. \A x \in G : \/ x \in EnLista(cl) \/ ~Libre(f, x) \/ Resto(Fin(f, x)) = 0
                       \/ x \in D /\ x \notin EnLista(bl) /\ Mismo(e, f, x)
      BY ONLY \A z \in D : z # a => z \in G /\ Mismo(e, f, z), ~Libre(f, a),
              \A z \in EnLista(bl) : z # a => z \in EnLista(cl),
              \A z \in G : z \in D \/ z = a \/ z \in EnLista(cl), Zenon
    <2> QED BY ONLY <1>1, <2>1, <2>2, SueltosQuedan
  <1> QED BY <1>2, <1>3, <1>4, <1>5 DEF Mosaico

\* It is not the last header of the segment.
LEMMA DeListaNoUltima ==
  ASSUME NEW D, NEW pg, NEW e, NEW bl, NEW ot, Mosaico(D, pg, e, bl, ot),
         NEW a \in EnLista(bl), Tam(e, a) > 0, NEW n \in Nat, Suma(n, 1, Len(pg)),
         NEW pos \in Nat, pos >= 5, PosDe(n, pos, a)
  PROVE  pg[n + 1].ultimo_header # pos
  <1> USE DEF Vale, Acaba, Sobre, Suma, EnPagina, PosDe, Con, Sin, ConDado, HeaderDado, HeaderLibre
  <1> SUFFICES ASSUME pg[n + 1].ultimo_header = pos
               PROVE  FALSE
    OBVIOUS
  <1>1. n = Len(pg) - 1 /\ Len(pg) > 0 /\ Inicio(n) \in Nat
    <2>1. Len(pg) \in Nat /\ n + 1 = Len(pg)
      BY DeMosaico
    <2>2. Inicio(n) \in Nat
      BY ONLY n \in Nat, Inicios
    <2> QED BY ONLY n \in Nat, <2>1, <2>2
  <1>2. a \in D /\ Libre(e, a) /\ a \in Nat /\ Tam(e, a) \in Nat /\ Fin(e, a) = a + 5 + Tam(e, a)
    BY DeMosaico
  <1>3. UltimoHeader(pos, pg[Len(pg)].tamanio_header, Inicio(n), Inicio(Len(pg)), EnLista(bl), D, e)
    BY <1>1 DEF Mosaico, UltimoBien
  <1>4. CASE \E x \in D \ EnLista(bl) : x + 5 = Inicio(n) + pos
    <2>1. PICK x \in D \ EnLista(bl) : x + 5 = Inicio(n) + pos
      BY <1>4
    <2>2. x \in Nat
      BY DeMosaico
    <2>3. x = a
      BY ONLY <2>1, <2>2, <1>1, <1>2, PosDe(n, pos, a), pos \in Nat DEF PosDe
    <2> QED BY <2>1, <2>3
  <1>5. CASE \E x \in D : (x + 5 = Inicio(n) + pos \/ x = Inicio(n) + pos) /\ ~Libre(e, x)
    <2>1. PICK x \in D : (x + 5 = Inicio(n) + pos \/ x = Inicio(n) + pos) /\ ~Libre(e, x)
      BY <1>5
    <2>2. x \in Nat /\ x # a
      BY <2>1, <1>2, DeMosaico
    <2>3. x = a + 5
      BY <2>1, <2>2, <1>1, <1>2, SMTT(30)
    <2>4. Fin(e, a) <= x
      BY <2>3, <1>2, DeMosaico, SMTT(30)
    <2> QED BY <2>3, <2>4, <1>2
  <1> QED BY <1>3, <1>4, <1>5 DEF UltimoHeader

\* Nothing is left of it ...
LEMMA DadoSinCola ==
  ASSUME NEW D, NEW pg, NEW e, NEW bl, NEW ot, Mosaico(D, pg, e, bl, ot),
         NEW a \in EnLista(bl), NEW t \in Nat \ {0}, NEW pos \in Nat, Sobre(a, pos),
         NEW pf, MismaUltima(pg, pf),
         NEW f, EscritoBien(f, Inicio(Len(pg))), Teja(D, f, Inicio(Len(pg))),
         ~Libre(f, a), Tam(f, a) = t, \A x \in D : x # a => Mismo(e, f, x),
         NEW cl, ListaBien(cl, D, e), EnLista(cl) = Sin(EnLista(bl), a)
  PROVE  Mosaico(D, pf, f, cl, ConDado(ot, pos, t))
  <1>1. a \in D /\ \A x \in D : x # a => x \in D /\ Mismo(e, f, x)
    BY DeMosaico
  <1>2. \A x \in EnLista(cl) : x \in EnLista(bl) /\ x # a /\ x \in D
    BY DeMosaico DEF Sin
  <1>3. ListaBien(cl, D, f)
    BY <1>1, <1>2, ListaIgual
  <1>4. /\ \A x \in EnLista(cl) : x \in D => x \in EnLista(bl)
        /\ \A x \in EnLista(bl) : x # a => x \in EnLista(cl)
    BY <1>2 DEF Sin
  <1> QED BY <1>1, <1>3, <1>4, DadoDeLista

\* ... or there is a free tile after it, in the list.
LEMMA DadoConCola ==
  ASSUME NEW D, NEW pg, NEW e, NEW bl, NEW ot, Mosaico(D, pg, e, bl, ot),
         NEW a \in EnLista(bl), NEW t \in Nat \ {0}, NEW pos \in Nat, Sobre(a, pos),
         NEW pf, MismaUltima(pg, pf), NEW m, m \notin D, NEW q \in Nat,
         NEW f, EscritoBien(f, Inicio(Len(pg))), Teja(Con(D, m), f, Inicio(Len(pg))),
         ~Libre(f, a), Tam(f, a) = t, \A x \in D : x # a => Mismo(e, f, x),
         Libre(f, m), Tam(f, m) = q,
         NEW bk, ListaBien(bk, D, e), EnLista(bk) = Sin(EnLista(bl), a),
         NEW n \in Nat, NEW r \in Nat, r < T, EnPagina(n, r, m),
         NEW cl, Vale(cl, agregar_bloque_libre(bk, n, r, q))
  PROVE  Mosaico(Con(D, m), pf, f, cl, ConDado(ot, pos, t))
  <1> DEFINE G == Con(D, m)
  <1>1. a \in D /\ a \in G /\ m \in G /\ \A x \in D : x # a => x \in G /\ Mismo(e, f, x)
    BY DeMosaico DEF Con
  <1>2. \A x \in EnLista(bk) : x \in EnLista(bl) /\ x # a /\ x \in D /\ x # m
    BY DeMosaico DEF Sin
  <1> HIDE DEF G
  <1>3. ListaBien(bk, G, f)
    BY <1>1, <1>2, ListaIgual
  <1>4. ListaBien(cl, G, f) /\ EnLista(cl) = Con(EnLista(bk), m)
    <2>1. m \notin EnLista(bk)
      BY <1>2
    <2> QED BY ONLY n \in Nat, r \in Nat, r < T, EnPagina(n, r, m), q \in Nat, <1>1, <1>3, <2>1,
                    Libre(f, m), Tam(f, m) = q, Vale(cl, agregar_bloque_libre(bk, n, r, q)),
                    ListaAgregar
  <1>5. /\ \A x \in EnLista(cl) : x \in D => x \in EnLista(bl)
        /\ \A x \in EnLista(bl) : x # a => x \in EnLista(cl)
    BY <1>2, <1>4 DEF Con, Sin
  <1>6. Teja(G, f, Inicio(Len(pg))) /\ \A x \in G : x \in D \/ x = a \/ x \in EnLista(cl)
    BY <1>4 DEF G, Con
  <1> QED BY <1>1, <1>4, <1>5, <1>6, DadoDeLista DEF G

\* actualizar_header, when there is no need of a tail ...
LEMMA TomarTodoDeLista ==
  ASSUME NEW D, Mosaico(D, paginas, escrito, bloquesLibres, otorgados), NEW t \in Nat \ {0},
         NEW i \in DOMAIN bloquesLibres, bloquesLibres[i].tamanio = t,
         NEW n, Vale(n, bloquesLibres[i].pagina), Existe(n),
         NEW pos, Vale(pos, bloquesLibres[i].posicion),
         NEW a, Vale(a, De(bloquesLibres[i])),
         NEW bl, Vale(bl, remover_bloque_libre(bloquesLibres, n, pos)),
         TomarTodo(n, pos, t, bl), Otorgar(Inicio(n) + pos, t)
  PROVE  \E G : Mosaico(G, paginas', escrito', bloquesLibres', otorgados')
  <1> DEFINE fin == Inicio(Len(paginas))
             p5 == Inicio(n) + pos
  <1>0. /\ n \in Nat /\ pos \in Nat /\ a \in D /\ a \in Nat
        /\ Tam(escrito, a) = t /\ a \in EnLista(bloquesLibres)
        /\ ListaBien(bl, D, escrito) /\ EnLista(bl) = Sin(EnLista(bloquesLibres), a)
        /\ a = Inicio(n) + pos - HEADER /\ a + 5 = Inicio(n) + pos /\ Inicio(n) \in Nat
    BY DeLaLista
  <1>1. n \in Nat /\ a \in D /\ a \in EnLista(bloquesLibres) /\ p5 \in Nat /\ Sobre(a, p5)
    BY <1>0 DEF Sobre
  <1>2. PaginasBien(paginas) /\ EscritoBien(escrito, fin) /\ Teja(D, escrito, fin) /\ fin \in Nat
    BY DeMosaico DEF Mosaico
  <1>3. Vale(escrito', HeaderDado(escrito, a, Tam(escrito, a))) /\ bloquesLibres' = bl
    BY <1>0 DEF TomarTodo, Vale, HeaderDado
  <1>4. MismaUltima(paginas, paginas')
    <2> DEFINE k == n + 1
    <2>1. k \in 1..Len(paginas) /\ Len(paginas) \in Nat /\ 0 \in Nat
      BY <1>1, <1>2, PaginasDe DEF Existe
    <2>2. CASE paginas' = paginas
      BY <2>2, <1>2 DEF MismaUltima
    <2>3. CASE Vale(paginas', ConTamanio(paginas, k, 0))
      <3> HIDE DEF k
      <3>1. /\ PaginasBien(paginas') /\ Len(paginas') = Len(paginas)
            /\ paginas'[k].tamanio_header = 0
            /\ paginas'[k].ultimo_header = paginas[k].ultimo_header
            /\ \A j \in 1..Len(paginas) : j # k => paginas'[j] = paginas[j]
        BY ONLY <2>1, <2>3, <1>2, TamanioCambia
      <3> QED BY ONLY <3>1, <2>1 DEF MismaUltima
    <2> QED BY <2>2, <2>3 DEF TomarTodo, ConTamanio, Vale
  <1>5. otorgados' = ConDado(otorgados, p5, t)
    BY DEF Otorgar, ConDado
  <1>6. fin = Inicio(Len(paginas))
    OBVIOUS
  <1> HIDE DEF fin, p5
  <1>7. /\ EscritoBien(escrito', fin) /\ Teja(D, escrito', fin)
        /\ \A x \in D : x # a => Mismo(escrito, escrito', x)
        /\ ~Libre(escrito', a) /\ Tam(escrito', a) = Tam(escrito, a)
    BY ONLY <1>1, <1>2, <1>3, DarEntera
  <1>8. Mosaico(D, paginas', escrito', bl, ConDado(otorgados, p5, t))
    <2>1. EscritoBien(escrito', Inicio(Len(paginas))) /\ Teja(D, escrito', Inicio(Len(paginas)))
      BY <1>6, <1>7
    <2>2. Tam(escrito', a) = t
      BY <1>0, <1>7
    <2>3. ListaBien(bl, D, escrito) /\ EnLista(bl) = Sin(EnLista(bloquesLibres), a)
      BY <1>0
    <2> QED BY ONLY Mosaico(D, paginas, escrito, bloquesLibres, otorgados), t \in Nat \ {0},
                    <1>1, <1>4, <1>7, <2>1, <2>2, <2>3, DadoSinCola
  <1> QED BY <1>3, <1>5, <1>8

\* ... when the tail is in the same page ...
LEMMA TomarConColaDeLista ==
  ASSUME NEW D, Mosaico(D, paginas, escrito, bloquesLibres, otorgados), NEW t \in Nat \ {0},
         NEW i \in DOMAIN bloquesLibres, NEW s, s = bloquesLibres[i].tamanio, s >= t + 5,
         NEW n, Vale(n, bloquesLibres[i].pagina), Existe(n),
         NEW pos, Vale(pos, bloquesLibres[i].posicion),
         NEW a, Vale(a, De(bloquesLibres[i])),
         NEW bl, Vale(bl, remover_bloque_libre(bloquesLibres, n, pos)),
         T - (pos + t) >= HEADER,
         TomarConCola(n, pos, s, t, bl, FALSE), Otorgar(Inicio(n) + pos, t)
  PROVE  \E G : Mosaico(G, paginas', escrito', bloquesLibres', otorgados')
  <1> DEFINE fin == Inicio(Len(paginas))
             p5 == Inicio(n) + pos
             r == pos + t
             m == Inicio(n) + r
             q == s - t - 5
             k == n + 1
             r5 == r + 5
  <1>0. /\ n \in Nat /\ pos \in Nat /\ pos >= 5 /\ s \in Nat /\ a \in D /\ a \in Nat
        /\ Tam(escrito, a) = s /\ a \in EnLista(bloquesLibres)
        /\ ListaBien(bl, D, escrito) /\ EnLista(bl) = Sin(EnLista(bloquesLibres), a)
        /\ a = Inicio(n) + pos - 5 /\ a = Inicio(n) + pos - HEADER /\ a + 5 = Inicio(n) + pos
        /\ Inicio(n) \in Nat
    BY DeLaLista
  <1>1. /\ n \in Nat /\ a \in D /\ a \in EnLista(bloquesLibres) /\ p5 \in Nat /\ Sobre(a, p5)
        /\ PosDe(n, pos, a)
        /\ ListaBien(bl, D, escrito) /\ EnLista(bl) = Sin(EnLista(bloquesLibres), a)
    BY <1>0 DEF Sobre, PosDe
  <1>2. PaginasBien(paginas) /\ EscritoBien(escrito, fin) /\ Teja(D, escrito, fin) /\ fin \in Nat
    BY DeMosaico DEF Mosaico
  <1>3. /\ r \in Nat /\ r < T /\ r5 \in Nat /\ m \in Nat /\ Resto(m) + 5 <= T /\ q \in Nat
        /\ Acaba(a, t, m) /\ Acaba(m, q, Fin(escrito, a)) /\ EnPagina(n, r, m)
    <2>1. r \in Nat /\ r < T /\ r + 5 <= T /\ q \in Nat /\ s > 0
      BY <1>0, Constantes
    <2>2. Resto(m) = r /\ m \in Nat
      BY <2>1, <1>0, Unica
    <2>3. m = a + 5 + t /\ a + 5 + s = m + 5 + q
      BY <1>0
    <2>4. Fin(escrito, a) = a + 5 + s
      <3>1. Fin(escrito, a) = a + 5 + Tam(escrito, a)
        BY <1>1, DeMosaico
      <3> QED BY <3>1, <1>0
    <2> QED BY <2>1, <2>2, <2>3, <2>4 DEF Acaba, EnPagina
  <1>4. /\ Vale(escrito', HeaderLibre(HeaderDado(escrito, a, t), m, q))
        /\ Vale(bloquesLibres', agregar_bloque_libre(bl, n, r, q))
    <2>1. s - t - HEADER = q /\ Inicio(n) + pos + t = m
      BY <1>0, Constantes
    <2> QED BY <2>1, <1>0 DEF TomarConCola, Vale, HeaderDado, HeaderLibre
  <1>5. MismaUltima(paginas, paginas')
    <2>1. k \in 1..Len(paginas) /\ Len(paginas) \in Nat
      BY <1>1, <1>2, PaginasDe DEF Existe
    <2>2. CASE paginas' = paginas
      BY <2>2, <1>2 DEF MismaUltima
    <2>3. CASE paginas[k].ultimo_header = pos /\ Vale(paginas', ConDos(paginas, k, q, r5))
      <3>1. k # Len(paginas)
        <4>1. ASSUME k = Len(paginas)
              PROVE  FALSE
          <5>1. Suma(n, 1, Len(paginas)) /\ Tam(escrito, a) > 0 /\ pos \in Nat /\ pos >= 5
            BY <4>1, <1>0 DEF Suma
          <5>2. paginas[n + 1].ultimo_header # pos
            BY ONLY Mosaico(D, paginas, escrito, bloquesLibres, otorgados), <5>1, <1>1,
                    DeListaNoUltima
          <5> QED BY <5>2, <2>3
        <4> QED BY <4>1
      <3> HIDE DEF q, k, r5
      <3>3. /\ PaginasBien(paginas') /\ Len(paginas') = Len(paginas)
            /\ \A j \in 1..Len(paginas) : j # k => paginas'[j] = paginas[j]
        BY ONLY <2>1, <2>3, <1>2, <1>3, PaginaCambia
      <3> QED BY <2>1, <3>1, <3>3 DEF MismaUltima
    <2>4. s - t - HEADER = q /\ pos + t + HEADER = r5
      BY <1>0, Constantes
    <2> QED BY <2>2, <2>3, <2>4 DEF TomarConCola, ConUltimo, Pag, ConDos, Vale
  <1>6. otorgados' = ConDado(otorgados, p5, t)
    BY DEF Otorgar, ConDado
  <1>7. fin = Inicio(Len(paginas)) /\ t \in Nat
    OBVIOUS
  <1> HIDE DEF fin, p5, m, q, r
  <1>8. /\ EscritoBien(escrito', fin) /\ Teja(Con(D, m), escrito', fin) /\ m \notin D
        /\ \A x \in D : x # a => Mismo(escrito, escrito', x)
        /\ ~Libre(escrito', a) /\ Tam(escrito', a) = t
        /\ Libre(escrito', m) /\ Tam(escrito', m) = q
    BY ONLY <1>1, <1>2, <1>3, <1>4, <1>7, DarConCola
  <1>9. Mosaico(Con(D, m), paginas', escrito', bloquesLibres', ConDado(otorgados, p5, t))
    <2>1. /\ EscritoBien(escrito', Inicio(Len(paginas)))
          /\ Teja(Con(D, m), escrito', Inicio(Len(paginas)))
      BY <1>7, <1>8
    <2> QED BY ONLY Mosaico(D, paginas, escrito, bloquesLibres, otorgados), t \in Nat \ {0},
                    <1>1, <1>3, <1>4, <1>5, <1>8, <2>1, DadoConCola
  <1> QED BY <1>6, <1>9

\* A page that is not the last one changes.
LEMMA OtraPagina ==
  ASSUME NEW pg, PaginasBien(pg), NEW k \in 1..Len(pg), k # Len(pg), NEW th \in Nat, NEW u \in Nat,
         NEW pf, Vale(pf, ConDos(pg, k, th, u))
  PROVE  MismaUltima(pg, pf)
  <1>1. Len(pg) \in Nat
    BY PaginasDe
  <1>2. /\ PaginasBien(pf) /\ Len(pf) = Len(pg)
        /\ \A j \in 1..Len(pg) : j # k => pf[j] = pg[j]
    BY PaginaCambia
  <1> QED BY <1>1, <1>2 DEF MismaUltima

\* A page changes, and the next one loses the size of its header.
LEMMA OtraYSiguiente ==
  ASSUME NEW pg, PaginasBien(pg), NEW k \in 1..Len(pg), NEW l \in 1..Len(pg), Suma(k, 1, l),
         NEW u \in Nat, NEW ph, Vale(ph, ConDos(pg, k, 0, u)),
         NEW pf, Vale(pf, ConTamanio(ph, l, 0))
  PROVE  MismaUltima(pg, pf)
  <1>1. Len(pg) \in Nat /\ k # Len(pg) /\ 0 \in Nat
    BY PaginasDe DEF Suma
  <1>2. MismaUltima(pg, ph)
    BY <1>1, OtraPagina
  <1>3. PaginasBien(ph) /\ l \in 1..Len(ph)
    BY <1>2 DEF MismaUltima
  <1>4. /\ PaginasBien(pf) /\ Len(pf) = Len(ph)
        /\ pf[l].tamanio_header = 0 /\ pf[l].ultimo_header = ph[l].ultimo_header
        /\ \A j \in 1..Len(ph) : j # l => pf[j] = ph[j]
    BY <1>1, <1>3, TamanioCambia
  <1>5. MismaUltima(ph, pf)
    <2>1. Len(ph) \in Nat
      BY <1>3, PaginasDe
    <2>2. Len(ph) > 0 => Len(ph) = l \/ pf[Len(ph)] = ph[Len(ph)]
      BY <1>4, <2>1
    <2> QED BY <1>4, <2>1, <2>2 DEF MismaUltima
  <1> QED BY <1>1, <1>2, <1>5 DEF MismaUltima

\* ... and when what is left of the page is wasted.
LEMMA TomarYDesperdiciarDeLista ==
  ASSUME NEW D, Mosaico(D, paginas, escrito, bloquesLibres, otorgados), NEW t \in Nat \ {0},
         NEW i \in DOMAIN bloquesLibres, NEW s, s = bloquesLibres[i].tamanio, s >= t + 5,
         NEW n, Vale(n, bloquesLibres[i].pagina), Existe(n),
         NEW pos, Vale(pos, bloquesLibres[i].posicion),
         NEW a, Vale(a, De(bloquesLibres[i])),
         NEW bl, Vale(bl, remover_bloque_libre(bloquesLibres, n, pos)),
         pos + t < T, T - (pos + t) < HEADER,
         TomarYDesperdiciar(n, pos, s, t, bl), Otorgar(Inicio(n) + pos, t)
  PROVE  \E G : Mosaico(G, paginas', escrito', bloquesLibres', otorgados')
  <1> DEFINE fin == Inicio(Len(paginas))
             p5 == Inicio(n) + pos
             p == Inicio(n) + (pos + t)
             k == T - (pos + t)
             n1 == n + 1
             n2 == n + 2
             m == Inicio(n1)
             sigue == s - (T - pos)
             u == pos - 5
             q == sigue - 5
             ph == ConDos(paginas, n1, 0, u)
  <1>0. /\ n \in Nat /\ pos \in Nat /\ pos >= 5 /\ s \in Nat /\ a \in D /\ a \in Nat
        /\ Tam(escrito, a) = s /\ a \in EnLista(bloquesLibres)
        /\ ListaBien(bl, D, escrito) /\ EnLista(bl) = Sin(EnLista(bloquesLibres), a)
        /\ a = Inicio(n) + pos - 5 /\ a = Inicio(n) + pos - HEADER /\ a + 5 = Inicio(n) + pos
        /\ Inicio(n) \in Nat
    BY DeLaLista
  <1>1. /\ n \in Nat /\ a \in D /\ a \in EnLista(bloquesLibres) /\ p5 \in Nat /\ Sobre(a, p5)
        /\ ListaBien(bl, D, escrito) /\ EnLista(bl) = Sin(EnLista(bloquesLibres), a)
    BY <1>0 DEF Sobre, PosDe
  <1>2. PaginasBien(paginas) /\ EscritoBien(escrito, fin) /\ Teja(D, escrito, fin) /\ fin \in Nat
    BY DeMosaico DEF Mosaico
  <1>3. /\ p \in Nat /\ k \in Nat /\ 0 < k /\ k <= 4 /\ m \in Nat /\ u \in Nat
        /\ sigue \in Nat /\ sigue > 0
        /\ n1 \in Nat /\ 0 \in Nat
        /\ Acaba(a, t, p) /\ Suma(p, k, m) /\ Suma(m, sigue, Fin(escrito, a)) /\ EnPagina(n1, 0, m)
        /\ Resto(m) = 0 /\ Vale(Hasta(p), m) /\ 0 < T
    <2>1. /\ pos + t \in Nat /\ pos + t < T /\ k \in 1..4 /\ u \in Nat /\ sigue \in Nat
          /\ sigue > 0 /\ n1 \in Nat
      BY <1>0, Constantes
    <2>2. m = Inicio(n) + T /\ m \in Nat
      BY <1>0, Inicios
    <2>3. Resto(p) = pos + t /\ p \in Nat
      BY <2>1, <1>0, Unica
    <2>4. m = p + k /\ a + 5 + s = m + sigue /\ p = a + 5 + t
      BY <1>0, <2>2, Constantes
    <2>5. Fin(escrito, a) = a + 5 + s
      <3>1. Fin(escrito, a) = a + 5 + Tam(escrito, a)
        BY <1>1, DeMosaico
      <3> QED BY <3>1, <1>0
    <2>6. Hasta(p) = m
      BY <2>1, <2>3, <2>4, Constantes DEF Hasta
    <2>7. Resto(Inicio(n1) + 0) = 0 /\ Inicio(n1) + 0 = m
      BY <2>1, <2>2, Unica, Constantes
    <2> QED BY <2>1, <2>2, <2>3, <2>4, <2>5, <2>6, <2>7, Constantes
            DEF Acaba, EnPagina, Suma, Vale
  <1>4. /\ Inicio(n) + pos - HEADER = a /\ Inicio(n) + pos + t = p /\ pos - HEADER = u
        /\ T - (pos + t) = k /\ sigue - HEADER = q /\ p5 = Inicio(n) + pos
    BY <1>0, Constantes
  <1>5. otorgados' = ConDado(otorgados, p5, t)
    BY DEF Otorgar, ConDado
  <1>6. fin = Inicio(Len(paginas))
    OBVIOUS
  <1>12. t \in Nat
    OBVIOUS
  <1>13. Resto(fin) = 0
    BY <1>2, PaginasDe, RestoDePagina
  <1>7. Existe(n1) /\ n1 \in 1..Len(paginas) /\ n2 \in 1..Len(paginas) /\ Suma(n1, 1, n2)
        /\ n1 # Len(paginas)
    <2>1. Existe(n1)
      BY <1>3 DEF TomarYDesperdiciar
    <2>2. Len(paginas) \in Nat
      BY <1>2, PaginasDe
    <2>3. n1 \in Nat /\ n1 <= Len(paginas) - 1
      BY <2>1, <1>3 DEF Existe
    <2>4. n1 = n + 1 /\ n2 = n + 2 /\ n \in Nat
      BY <1>0
    <2> HIDE DEF n1, n2
    <2> QED BY <2>1, <2>2, <2>3, <2>4 DEF Suma
  <1>8. CASE /\ sigue < HEADER
             /\ paginas' = [x \in DOMAIN ph |-> IF x = n2 /\ sigue > 0
                                           THEN [ph[x] EXCEPT !.tamanio_header = 0] ELSE ph[x]]
             /\ Vale(escrito', ConNumerales(ConNumerales(HeaderDado(escrito, a, t), Bytes(p, k)),
                                            Bytes(m, sigue)))
             /\ bloquesLibres' = bl
    <2>1. Vale(ph, ConDos(paginas, n1, 0, u))
      BY DEF Vale
    <2>2. sigue > 0 /\ sigue <= 4
      BY <1>3, <1>8, Constantes
    <2> HIDE DEF ph, n1, n2, sigue
    <2>3. Vale(paginas', ConTamanio(ph, n2, 0))
      BY <1>8, <2>2 DEF Vale, ConTamanio
    <2>4. MismaUltima(paginas, paginas')
      BY ONLY <2>1, <2>3, <1>2, <1>3, <1>7, OtraYSiguiente
    <2> HIDE DEF fin, p5, p, m, k, u
    <2>5. /\ EscritoBien(escrito', fin) /\ Teja(D, escrito', fin)
          /\ \A x \in D : x # a => Mismo(escrito, escrito', x)
          /\ ~Libre(escrito', a) /\ Tam(escrito', a) = t
      <3>1. /\ fin \in Nat /\ Resto(fin) = 0
            /\ EscritoBien(escrito, fin) /\ Teja(D, escrito, fin) /\ a \in D
        BY ONLY <1>1, <1>2, <1>13
      <3>2. /\ t \in Nat /\ k \in Nat /\ 0 < k /\ k <= 4 /\ sigue \in Nat /\ sigue <= 4
            /\ p \in Nat /\ m \in Nat /\ Acaba(a, t, p) /\ Suma(p, k, m)
            /\ Suma(m, sigue, Fin(escrito, a)) /\ Resto(m) = 0 /\ Vale(Hasta(p), m)
        BY ONLY <1>3, <1>12, <2>2
      <3>3. Vale(escrito', ConNumerales(ConNumerales(HeaderDado(escrito, a, t), Bytes(p, k)),
                                        Bytes(m, sigue)))
        BY ONLY <1>8
      <3> QED BY ONLY <3>1, <3>2, <3>3, DarYDesperdiciar
    <2>6. Mosaico(D, paginas', escrito', bl, ConDado(otorgados, p5, t))
      <3>1. EscritoBien(escrito', Inicio(Len(paginas))) /\ Teja(D, escrito', Inicio(Len(paginas)))
        BY <1>6, <2>5
      <3> QED BY ONLY Mosaico(D, paginas, escrito, bloquesLibres, otorgados), t \in Nat \ {0},
                      <1>1, <2>4, <2>5, <3>1, DadoSinCola
    <2> QED BY <1>5, <1>8, <2>6
  <1>9. CASE /\ sigue >= HEADER
             /\ Vale(paginas', ph)
             /\ Vale(escrito', HeaderLibre(ConNumerales(HeaderDado(escrito, a, t), Bytes(p, k)),
                                           m, q))
             /\ Vale(bloquesLibres', agregar_bloque_libre(bl, n1, 0, q))
    <2>1. Vale(paginas', ConDos(paginas, n1, 0, u))
      BY <1>9
    <2>2. q \in Nat /\ Acaba(m, q, Fin(escrito, a))
      BY <1>3, <1>9, Constantes DEF Acaba, Suma
    <2> HIDE DEF ph, n1, n2, sigue, q
    <2>3. MismaUltima(paginas, paginas')
      BY ONLY <2>1, <1>2, <1>3, <1>7, OtraPagina
    <2> HIDE DEF fin, p5, p, m, k, u
    <2>4. /\ EscritoBien(escrito', fin) /\ Teja(Con(D, m), escrito', fin) /\ m \notin D
          /\ \A x \in D : x # a => Mismo(escrito, escrito', x)
          /\ ~Libre(escrito', a) /\ Tam(escrito', a) = t
          /\ Libre(escrito', m) /\ Tam(escrito', m) = q
      BY ONLY <1>1, <1>2, <1>3, <1>12, <1>9, <2>2, DarYPasar
    <2>5. Mosaico(Con(D, m), paginas', escrito', bloquesLibres', ConDado(otorgados, p5, t))
      <3>1. /\ EscritoBien(escrito', Inicio(Len(paginas)))
            /\ Teja(Con(D, m), escrito', Inicio(Len(paginas)))
        BY <1>6, <2>4
      <3> QED BY ONLY Mosaico(D, paginas, escrito, bloquesLibres, otorgados), t \in Nat \ {0},
                      <1>1, <1>3, <1>9, <2>2, <2>3, <2>4, <3>1, DadoConCola
    <2> QED BY <1>5, <2>5
  <1>10. ph = ConUltimo(paginas, n, Pag(n).esFinPag, 0, u)
    BY DEF ConUltimo, ConDos, Pag
  <1>11. m = Inicio(n + 1)
    OBVIOUS
  <1> HIDE DEF ph, sigue, q, m, p, k, u
  <1> QED BY <1>4, <1>8, <1>9, <1>10, <1>11
      DEF TomarYDesperdiciar, HeaderDado, HeaderLibre, Vale, sigue

\* The first entry of the list that serves is one of it.
LEMMA Minimo ==
  ASSUME NEW S \in SUBSET Nat, S # {}
  PROVE  \E i \in S : \A j \in S : i <= j
  <1> DEFINE I == {0..i : i \in S}
  <1>1. I \subseteq FiniteSubsetsOf(Nat) /\ I # {}
    <2>1. ASSUME NEW i \in S
          PROVE  0..i \in FiniteSubsetsOf(Nat)
      BY FS_Interval DEF FiniteSubsetsOf
    <2> QED BY <2>1
  <1>2. PICK A \in I : \A B \in I : <<B, A>> \notin StrictSubsetOrdering(Nat)
    BY <1>1, FS_StrictSubsetOrderingWellFounded, WFMin
  <1>3. PICK i \in S : A = 0..i
    OBVIOUS
  <1>4. ASSUME NEW j \in S, j < i
        PROVE  FALSE
    <2>1. 0..j \in SUBSET (0..i) /\ 0..j # 0..i
      BY <1>4
    <2>2. <<0..j, 0..i>> \in StrictSubsetOrdering(Nat)
      BY <2>1 DEF StrictSubsetOrdering
    <2> QED BY <1>2, <1>3, <2>2
  <1> QED BY <1>4

\* mallocMuse takes an entry of the list, where the block fits.
LEMMA SirveEsta ==
  ASSUME NEW D, Mosaico(D, paginas, escrito, bloquesLibres, otorgados), NEW t \in Nat \ {0},
         Sirven(t) # {}
  PROVE  \E i \in DOMAIN bloquesLibres :
           /\ Vale(Sirve(t), bloquesLibres[i])
           /\ bloquesLibres[i].tamanio = t \/ bloquesLibres[i].tamanio >= t + 5
  <1>1. DOMAIN bloquesLibres \subseteq Nat
    BY DEF Mosaico, ListaBien
  <1>2. Sirven(t) \in SUBSET Nat /\ Sirven(t) \subseteq DOMAIN bloquesLibres
    BY <1>1 DEF Sirven
  <1>3. PICK i \in Sirven(t) : i = CHOOSE k \in Sirven(t) : \A j \in Sirven(t) : k <= j
    BY <1>2, Minimo
  <1>4. Sirve(t) = bloquesLibres[i]
    BY <1>3 DEF Sirve
  <1> QED BY <1>2, <1>4, Constantes DEF Vale, Sirven

\* All the branches; what goes on to other pages has computed a size wrong.
LEMMA MallocDeLista ==
  ASSUME NEW D, Mosaico(D, paginas, escrito, bloquesLibres, otorgados), NEW t \in Nat \ {0},
         mallocDeLista(t), ~torcido'
  PROVE  \E G : Mosaico(G, paginas', escrito', bloquesLibres', otorgados')
  <1> DEFINE b == Sirve(t)
  <1>1. PICK i \in DOMAIN bloquesLibres :
           /\ Vale(b, bloquesLibres[i])
           /\ bloquesLibres[i].tamanio = t \/ bloquesLibres[i].tamanio >= t + 5
    BY SirveEsta DEF mallocDeLista
  <1> DEFINE n == bloquesLibres[i].pagina
             pos == bloquesLibres[i].posicion
             s == bloquesLibres[i].tamanio
             a == De(bloquesLibres[i])
             bl == remover_bloque_libre(bloquesLibres, n, pos)
  <1>2. \/ Existe(n) /\ actualizar_header(n, pos, s, t, bl, FALSE)
        \/ Perderse
    BY <1>1 DEF mallocDeLista, Vale
  <1>3. CASE Perderse
    BY <1>3 DEF Perderse
  <1>4. Vale(n, bloquesLibres[i].pagina) /\ Vale(pos, bloquesLibres[i].posicion)
        /\ Vale(a, De(bloquesLibres[i])) /\ Vale(bl, remover_bloque_libre(bloquesLibres, n, pos))
        /\ s = bloquesLibres[i].tamanio /\ t \in Nat
    BY DEF Vale
  <1>5. s = t \/ s >= t + 5
    BY <1>1
  <1> HIDE DEF n, pos, s, a, bl
  <1>6. CASE Existe(n) /\ actualizar_header(n, pos, s, t, bl, FALSE)
    <2>0. Otorgar(Inicio(n) + pos, t) /\ Existe(n)
      BY <1>6 DEF actualizar_header
    <2>1. CASE s = t /\ TomarTodo(n, pos, t, bl)
      BY ONLY Mosaico(D, paginas, escrito, bloquesLibres, otorgados), t \in Nat \ {0},
              <1>4, <2>0, <2>1, TomarTodoDeLista
    <2>2. CASE s # t /\ pos + t < T /\ T - (pos + t) >= HEADER
               /\ TomarConCola(n, pos, s, t, bl, FALSE)
      <3>1. s >= t + 5
        BY <1>5, <2>2
      <3> QED BY ONLY Mosaico(D, paginas, escrito, bloquesLibres, otorgados), t \in Nat \ {0},
                      <1>4, <2>0, <2>2, <3>1, TomarConColaDeLista
    <2>3. CASE s # t /\ pos + t < T /\ T - (pos + t) < HEADER
               /\ TomarYDesperdiciar(n, pos, s, t, bl)
      <3>1. s >= t + 5
        BY <1>5, <2>3
      <3> QED BY ONLY Mosaico(D, paginas, escrito, bloquesLibres, otorgados), t \in Nat \ {0},
                      <1>4, <2>0, <2>3, <3>1, TomarYDesperdiciarDeLista
    <2>4. CASE s # t /\ pos + t >= T
      BY <1>6, <2>4 DEF actualizar_header
    <2> QED BY <1>6, <2>1, <2>2, <2>3, <2>4 DEF actualizar_header
  <1> QED BY <1>2, <1>3, <1>6

-----------------------------------------------------------------------------
(* mallocMuse, of the last header of the segment.                            *)

LEMMA UltimoLibre ==
  ASSUME NEW D, NEW pg, NEW e, NEW bl, NEW ot, Mosaico(D, pg, e, bl, ot),
         NEW k, Vale(k, Len(pg)), k > 0,
         NEW n, Vale(n, k - 1), NEW u, Vale(u, pg[k].ultimo_header),
         NEW th, Vale(th, pg[k].tamanio_header), th > 0
  PROVE  \E a \in D : /\ a \in Nat /\ a \notin EnLista(bl) /\ Libre(e, a) /\ Tam(e, a) = th
                      /\ a + 5 = Inicio(n) + u /\ Fin(e, a) = Inicio(k)
                      /\ n \in Nat /\ k \in 1..Len(pg) /\ u \in Nat /\ u >= 5 /\ th \in Nat
                      /\ u + th = T /\ Inicio(n) \in Nat /\ Inicio(k) = Inicio(n) + T
  <1> USE DEF Vale
  <1>1. k \in Nat /\ n \in Nat /\ k = n + 1 /\ Inicio(n) \in Nat /\ Inicio(k) = Inicio(n) + T
    <2>1. k \in Nat /\ n \in Nat /\ k = n + 1
      BY DeMosaico
    <2>2. Inicio(n) \in Nat /\ Inicio(n + 1) = Inicio(n) + T
      BY ONLY <2>1, Inicios
    <2> QED BY ONLY <2>1, <2>2
  <1>2. k \in 1..Len(pg) /\ u \in Nat /\ th \in Nat
    <2>1. PaginasBien(pg)
      BY DEF Mosaico
    <2> QED BY <1>1, <2>1, PaginasDe
  <1>3. UltimoHeader(u, th, Inicio(n), Inicio(k), EnLista(bl), D, e)
    BY DEF Mosaico, UltimoBien
  <1>4. PICK a \in D \ EnLista(bl) : /\ u >= 5 /\ a + 5 = Inicio(n) + u /\ Libre(e, a)
                                     /\ Fin(e, a) = Inicio(k) /\ Tam(e, a) = th
    BY <1>2, <1>3 DEF UltimoHeader
  <1>5. a \in Nat /\ Fin(e, a) = a + 5 + Tam(e, a)
    BY DeMosaico
  <1>6. u + th = T
    <2>1. Inicio(k) = Inicio(n) + T /\ Inicio(n) \in Nat
      BY <1>1
    <2> QED BY ONLY <2>1, <1>2, <1>4, <1>5, Constantes
  <1> QED BY <1>1, <1>2, <1>4, <1>5, <1>6

\* The tiles after the block is given are those of the state, if the last page
\* says where the last header is now.
LEMMA DadoDelUltimo ==
  ASSUME NEW D, NEW pg, NEW e, NEW bl, NEW ot, Mosaico(D, pg, e, bl, ot),
         NEW a \in Nat, a \in D => Libre(e, a) /\ a \notin EnLista(bl),
         NEW t \in Nat \ {0}, NEW pos \in Nat, Sobre(a, pos), NEW pf, PaginasBien(pf),
         NEW f, EscritoBien(f, Inicio(Len(pf))), NEW G, Teja(G, f, Inicio(Len(pf))),
         a \in G, ~Libre(f, a), Tam(f, a) = t, \A x \in D : x # a => x \in G /\ Mismo(e, f, x),
         UltimoBien(pf, EnLista(bl), G, f),
         \A x \in G : x \in D \/ x = a \/ Resto(Fin(f, x)) = 0
  PROVE  Mosaico(G, pf, f, bl, ConDado(ot, pos, t))
  <1>1. (\A x \in D : Hay(e, x)) /\ EnLista(bl) \subseteq D
    BY DeMosaico
  <1>2. DadosBien(ConDado(ot, pos, t), G, f)
    BY <1>1, DadosOtorgar DEF Mosaico
  <1>3. ListaBien(bl, G, f)
    <2>1. \A x \in EnLista(bl) : x \in G /\ Mismo(e, f, x)
      BY <1>1
    <2> QED BY <2>1, ListaIgual DEF Mosaico
  <1>4. SueltosBien(EnLista(bl), G, f)
    <2>1. SueltosBien(EnLista(bl), D, e)
      BY DEF Mosaico
    <2>2. \A x \in G : \/ x \in EnLista(bl) \/ ~Libre(f, x) \/ Resto(Fin(f, x)) = 0
                       \/ x \in D /\ x \notin EnLista(bl) /\ Mismo(e, f, x)
      BY ONLY \A z \in D : z # a => z \in G /\ Mismo(e, f, z), ~Libre(f, a),
              \A z \in G : z \in D \/ z = a \/ Resto(Fin(f, z)) = 0, Zenon
    <2> QED BY ONLY <1>1, <2>1, <2>2, SueltosQuedan
  <1> QED BY <1>2, <1>3, <1>4 DEF Mosaico

\* The same branches, of the last header: there is no need of a tail ...
LEMMA TomarTodoDelUltimo ==
  ASSUME NEW D, Mosaico(D, paginas, escrito, bloquesLibres, otorgados), NEW t \in Nat \ {0},
         NEW k, Vale(k, Len(paginas)), k > 0,
         NEW n, Vale(n, k - 1), NEW u, Vale(u, paginas[k].ultimo_header),
         NEW th, Vale(th, paginas[k].tamanio_header), th = t,
         TomarTodo(n, u, t, bloquesLibres), Otorgar(Inicio(n) + u, t)
  PROVE  \E G : Mosaico(G, paginas', escrito', bloquesLibres', otorgados')
  <1> DEFINE fin == Inicio(k)
             p5 == Inicio(n) + u
  <1>0. PICK a \in D :
          /\ a \in Nat /\ a \notin EnLista(bloquesLibres) /\ Libre(escrito, a)
          /\ Tam(escrito, a) = th
          /\ a + 5 = Inicio(n) + u /\ Fin(escrito, a) = Inicio(k)
          /\ n \in Nat /\ k \in 1..Len(paginas) /\ u \in Nat /\ u >= 5 /\ th \in Nat
          /\ u + th = T /\ Inicio(n) \in Nat /\ Inicio(k) = Inicio(n) + T
    <2>1. th > 0
      BY ONLY th = t, t \in Nat \ {0}
    <2> QED BY ONLY Mosaico(D, paginas, escrito, bloquesLibres, otorgados),
                    Vale(k, Len(paginas)), k > 0, Vale(n, k - 1),
                    Vale(u, paginas[k].ultimo_header), Vale(th, paginas[k].tamanio_header),
                    <2>1, UltimoLibre, SMTT(30)
  <1>1. /\ a \in D /\ a \in Nat /\ p5 \in Nat /\ Sobre(a, p5) /\ Libre(escrito, a)
        /\ a \notin EnLista(bloquesLibres)
    BY <1>0 DEF Sobre
  <1>2. PaginasBien(paginas) /\ EscritoBien(escrito, fin) /\ Teja(D, escrito, fin) /\ fin \in Nat
    BY DeMosaico DEF Mosaico, Vale
  <1>3. Vale(escrito', HeaderDado(escrito, a, Tam(escrito, a))) /\ bloquesLibres' = bloquesLibres
    <2>1. Inicio(n) + u - HEADER = a
      <3>1. a + 5 = Inicio(n) + u /\ a \in Nat /\ Inicio(n) \in Nat /\ u \in Nat
        BY <1>0
      <3> QED BY ONLY <3>1, Constantes
    <2> QED BY <2>1, <1>0 DEF TomarTodo, Vale, HeaderDado
  <1>4. Vale(paginas', ConTamanio(paginas, k, 0)) /\ k \in 1..Len(paginas) /\ 0 \in Nat
    <2>1. n + 1 = k /\ Pag(n).ultimo_header = u
      BY <1>0 DEF Pag, Vale
    <2> QED BY <2>1, <1>0 DEF TomarTodo, ConTamanio, Vale
  <1>5. /\ PaginasBien(paginas') /\ Len(paginas') = Len(paginas)
        /\ paginas'[k].tamanio_header = 0 /\ paginas'[k].ultimo_header = u
    BY <1>2, <1>4, TamanioCambia DEF Vale
  <1>6. otorgados' = ConDado(otorgados, p5, t)
    BY DEF Otorgar, ConDado
  <1>7. fin = Inicio(Len(paginas))
    BY DEF Vale
  <1> HIDE DEF fin, p5
  <1>8. /\ EscritoBien(escrito', fin) /\ Teja(D, escrito', fin)
        /\ \A x \in D : x # a => Mismo(escrito, escrito', x)
        /\ ~Libre(escrito', a) /\ Tam(escrito', a) = Tam(escrito, a)
        /\ Fin(escrito', a) = Fin(escrito, a)
    BY ONLY <1>1, <1>2, <1>3, DarEntera
  <1>9. /\ EscritoBien(escrito', Inicio(Len(paginas'))) /\ Teja(D, escrito', Inicio(Len(paginas')))
        /\ \A x \in D : x # a => x \in D /\ Mismo(escrito, escrito', x)
        /\ \A x \in D : x \in D \/ x = a \/ Resto(Fin(escrito', x)) = 0
        /\ Tam(escrito', a) = t
    BY <1>0, <1>5, <1>7, <1>8
  <1>10. UltimoBien(paginas', EnLista(bloquesLibres), D, escrito')
    <2>1. Fin(escrito', a) >= fin - 4
      BY <1>0, <1>2, <1>8 DEF fin
    <2>2. UltimoHeader(u, 0, Inicio(n), fin, EnLista(bloquesLibres), D, escrito')
      BY <2>1, <1>0, <1>8 DEF UltimoHeader
    <2>3. Len(paginas') = k /\ n = k - 1
      BY <1>5 DEF Vale
    <2> QED BY <2>2, <2>3, <1>5, <1>7 DEF UltimoBien, fin
  <1>11. Mosaico(D, paginas', escrito', bloquesLibres, ConDado(otorgados, p5, t))
    BY ONLY Mosaico(D, paginas, escrito, bloquesLibres, otorgados), t \in Nat \ {0},
            <1>1, <1>5, <1>8, <1>9, <1>10, DadoDelUltimo
  <1> QED BY <1>3, <1>6, <1>11

\* ... the tail is the last header now ...
LEMMA TomarConColaDelUltimo ==
  ASSUME NEW D, Mosaico(D, paginas, escrito, bloquesLibres, otorgados), NEW t \in Nat \ {0},
         NEW k, Vale(k, Len(paginas)), k > 0,
         NEW n, Vale(n, k - 1), NEW u, Vale(u, paginas[k].ultimo_header),
         NEW th, Vale(th, paginas[k].tamanio_header), th > 0,
         T - (u + t) >= HEADER,
         TomarConCola(n, u, th, t, bloquesLibres, TRUE), Otorgar(Inicio(n) + u, t)
  PROVE  \E G : Mosaico(G, paginas', escrito', bloquesLibres', otorgados')
  <1> DEFINE fin == Inicio(k)
             p5 == Inicio(n) + u
             m == Inicio(n) + (u + t)
             q == th - t - 5
             v == u + t + 5
  <1>0. PICK a \in D :
          /\ a \in Nat /\ a \notin EnLista(bloquesLibres) /\ Libre(escrito, a)
          /\ Tam(escrito, a) = th
          /\ a + 5 = Inicio(n) + u /\ Fin(escrito, a) = Inicio(k)
          /\ n \in Nat /\ k \in 1..Len(paginas) /\ u \in Nat /\ u >= 5 /\ th \in Nat
          /\ u + th = T /\ Inicio(n) \in Nat /\ Inicio(k) = Inicio(n) + T
    BY UltimoLibre, SMTT(30)
  <1>1. /\ a \in D /\ a \in Nat /\ p5 \in Nat /\ Sobre(a, p5) /\ Libre(escrito, a)
        /\ a \notin EnLista(bloquesLibres)
    BY <1>0, SMTT(30) DEF Sobre
  <1>2. PaginasBien(paginas) /\ EscritoBien(escrito, fin) /\ Teja(D, escrito, fin) /\ fin \in Nat
    BY DeMosaico DEF Mosaico, Vale
  <1>3. /\ t \in Nat /\ q \in Nat /\ m \in Nat /\ v \in Nat /\ Acaba(a, t, m)
        /\ Acaba(m, q, Fin(escrito, a)) /\ Resto(m) + 5 <= T /\ m + 5 = Inicio(n) + v /\ v >= 5
    <2>1. t \in Nat /\ q \in Nat /\ m \in Nat /\ v \in Nat /\ u + t \in Nat /\ u + t < T
          /\ u + t + 5 <= T
      <3>1. t \in Nat
        OBVIOUS
      <3>2. u \in Nat /\ th \in Nat /\ u + th = T /\ Inicio(n) \in Nat
        BY <1>0
      <3> QED BY ONLY <3>1, <3>2, T - (u + t) >= HEADER, Constantes
    <2>2. Resto(m) = u + t
      BY <2>1, <1>0, Unica
    <2>3. m = a + 5 + t /\ Fin(escrito, a) = m + 5 + q /\ m + 5 = Inicio(n) + v /\ v >= 5
      <3>1. /\ u \in Nat /\ th \in Nat /\ u + th = T /\ Inicio(n) \in Nat /\ a \in Nat /\ u >= 5
            /\ a + 5 = Inicio(n) + u
        BY <1>0
      <3>2. Fin(escrito, a) = Inicio(n) + T
        BY <1>0
      <3> QED BY ONLY <3>1, <3>2, <2>1, Constantes
    <2> QED BY <2>1, <2>2, <2>3 DEF Acaba
  <1>4. /\ Vale(escrito', HeaderLibre(HeaderDado(escrito, a, t), m, q))
        /\ bloquesLibres' = bloquesLibres
    <2>1. Inicio(n) + u - HEADER = a /\ Inicio(n) + u + t = m /\ th - t - HEADER = q
      <3>1. a + 5 = Inicio(n) + u /\ a \in Nat /\ Inicio(n) \in Nat /\ u \in Nat /\ t \in Nat
        BY <1>0
      <3> QED BY ONLY <3>1, Constantes
    <2> QED BY <2>1 DEF TomarConCola, Vale, HeaderDado, HeaderLibre
  <1>5. Vale(paginas', ConDos(paginas, k, q, v)) /\ k \in 1..Len(paginas)
    <2>1. n + 1 = k /\ th - t - HEADER = q /\ u + t + HEADER = v
      BY <1>0, Constantes DEF Vale
    <2> QED BY <2>1, <1>0 DEF TomarConCola, ConUltimo, ConDos, Vale, Pag
  <1>6. otorgados' = ConDado(otorgados, p5, t)
    BY DEF Otorgar, ConDado
  <1>7. fin = Inicio(Len(paginas))
    BY DEF Vale
  <1> HIDE DEF fin, p5, m, q, v
  <1>8. /\ PaginasBien(paginas') /\ Len(paginas') = Len(paginas)
        /\ paginas'[k].tamanio_header = q /\ paginas'[k].ultimo_header = v
    BY ONLY <1>2, <1>3, <1>5, PaginaCambia
  <1>9. /\ EscritoBien(escrito', fin) /\ Teja(Con(D, m), escrito', fin) /\ m \notin D
        /\ \A x \in D : x # a => Mismo(escrito, escrito', x)
        /\ ~Libre(escrito', a) /\ Tam(escrito', a) = t
        /\ Libre(escrito', m) /\ Tam(escrito', m) = q /\ Fin(escrito', m) = Fin(escrito, a)
    BY ONLY <1>1, <1>2, <1>3, <1>4, DarConCola
  <1> DEFINE G == Con(D, m)
  <1>10. a \in G /\ m \in G /\ \A x \in D : x # a => x \in G /\ Mismo(escrito, escrito', x)
    BY <1>9 DEF Con
  <1>11. UltimoBien(paginas', EnLista(bloquesLibres), G, escrito')
    <2>1. m \notin EnLista(bloquesLibres)
      BY <1>9, DeMosaico
    <2> HIDE DEF G
    <2>2. UltimoHeader(v, q, Inicio(n), fin, EnLista(bloquesLibres), G, escrito')
      BY <2>1, <1>0, <1>3, <1>9, <1>10 DEF UltimoHeader, fin
    <2>3. Len(paginas') = k /\ n = k - 1
      BY <1>8 DEF Vale
    <2> QED BY <2>2, <2>3, <1>8, <1>7 DEF UltimoBien, fin
  <1>12. /\ EscritoBien(escrito', Inicio(Len(paginas'))) /\ Teja(G, escrito', Inicio(Len(paginas')))
         /\ \A x \in G : x \in D \/ x = a \/ Resto(Fin(escrito', x)) = 0
    <2>1. Fin(escrito', m) = Inicio(k) /\ k \in Nat
      BY <1>0, <1>9
    <2>2. Resto(Fin(escrito', m)) = 0
      BY <2>1, RestoDePagina
    <2> QED BY <1>7, <1>8, <1>9, <2>2 DEF Con
  <1> HIDE DEF G
  <1>13. Mosaico(G, paginas', escrito', bloquesLibres, ConDado(otorgados, p5, t))
    BY ONLY Mosaico(D, paginas, escrito, bloquesLibres, otorgados), t \in Nat \ {0},
            <1>1, <1>8, <1>9, <1>10, <1>11, <1>12, DadoDelUltimo
  <1> QED BY <1>4, <1>6, <1>13

\* ... or what is left of the page is wasted.
LEMMA TomarYDesperdiciarDelUltimo ==
  ASSUME NEW D, Mosaico(D, paginas, escrito, bloquesLibres, otorgados), NEW t \in Nat \ {0},
         NEW k, Vale(k, Len(paginas)), k > 0,
         NEW n, Vale(n, k - 1), NEW u, Vale(u, paginas[k].ultimo_header),
         NEW th, Vale(th, paginas[k].tamanio_header), th > 0,
         u + t < T, T - (u + t) < HEADER,
         TomarYDesperdiciar(n, u, th, t, bloquesLibres), Otorgar(Inicio(n) + u, t)
  PROVE  \E G : Mosaico(G, paginas', escrito', bloquesLibres', otorgados')
  <1> DEFINE fin == Inicio(k)
             p5 == Inicio(n) + u
             p == Inicio(n) + (u + t)
             c == T - (u + t)
             v == u - 5
  <1>0. PICK a \in D :
          /\ a \in Nat /\ a \notin EnLista(bloquesLibres) /\ Libre(escrito, a)
          /\ Tam(escrito, a) = th
          /\ a + 5 = Inicio(n) + u /\ Fin(escrito, a) = Inicio(k)
          /\ n \in Nat /\ k \in 1..Len(paginas) /\ u \in Nat /\ u >= 5 /\ th \in Nat
          /\ u + th = T /\ Inicio(n) \in Nat /\ Inicio(k) = Inicio(n) + T
    BY UltimoLibre, SMTT(30)
  <1>1. /\ a \in D /\ a \in Nat /\ p5 \in Nat /\ Sobre(a, p5) /\ Libre(escrito, a)
        /\ a \notin EnLista(bloquesLibres)
    BY <1>0, SMTT(30) DEF Sobre
  <1>2. PaginasBien(paginas) /\ EscritoBien(escrito, fin) /\ Teja(D, escrito, fin) /\ fin \in Nat
    BY DeMosaico DEF Mosaico, Vale
  <1>20. /\ u \in Nat /\ th \in Nat /\ u + th = T /\ Inicio(n) \in Nat /\ a \in Nat /\ u >= 5
         /\ a + 5 = Inicio(n) + u /\ t \in Nat /\ t > 0
    BY <1>0
  <1>21. fin = Inicio(n) + T
    BY <1>0
  <1>3. /\ t \in Nat /\ p \in Nat /\ v \in Nat /\ c \in Nat /\ 0 < c /\ c <= 4
        /\ 0 \in Nat /\ 0 <= 4
        /\ Acaba(a, t, p) /\ Suma(p, c, fin) /\ Suma(fin, 0, Fin(escrito, a))
        /\ Resto(fin) = 0 /\ Vale(Hasta(p), fin) /\ a = Inicio(n) + v
    <2>1. /\ t \in Nat /\ p \in Nat /\ v \in Nat /\ c \in Nat /\ 0 < c /\ c <= 4
          /\ p = a + 5 + t /\ fin = p + c /\ a = Inicio(n) + v
          /\ u + t \in Nat /\ u + t < T
      BY ONLY <1>20, <1>21, u + t < T, T - (u + t) < HEADER, Constantes
    <2>2. Fin(escrito, a) = fin + 0
      BY <1>0, <1>2 DEF fin
    <2>3. Resto(fin) = 0
      <3>1. k \in Nat /\ 0 < T
        BY <1>0, Constantes
      <3>2. Resto(Inicio(k) + 0) = 0
        BY <3>1, Unica
      <3>3. Inicio(k) + 0 = fin
        BY <1>2 DEF fin
      <3> QED BY <3>2, <3>3
    <2>4. Resto(p) = u + t
      BY <2>1, <1>0, Unica
    <2>5. Hasta(p) = fin
      <3>1. T - Resto(p) < HEADER /\ p + (T - Resto(p)) = fin
        BY ONLY <2>4, <2>1, T - (u + t) < HEADER, Constantes
      <3> QED BY <3>1 DEF Hasta
    <2> QED BY <2>1, <2>2, <2>3, <2>5 DEF Acaba, Suma, Vale
  <1>4. /\ Vale(escrito', ConNumerales(ConNumerales(HeaderDado(escrito, a, t), Bytes(p, c)),
                                       Bytes(fin, 0)))
        /\ bloquesLibres' = bloquesLibres /\ Vale(paginas', ConDos(paginas, k, 0, v))
        /\ k \in 1..Len(paginas)
    <2>1. /\ Inicio(n) + u - HEADER = a /\ Inicio(n) + u + t = p /\ th - (T - u) = 0
          /\ u - HEADER = v
      BY ONLY <1>20, Constantes
    <2>2. n + 1 = k /\ Inicio(n + 1) = fin
      BY <1>0 DEF Vale
    <2>3. /\ paginas' = [i \in DOMAIN ConUltimo(paginas, n, Pag(n).esFinPag, 0, v) |->
                          ConUltimo(paginas, n, Pag(n).esFinPag, 0, v)[i]]
          /\ escrito' = ConNumerales(ConNumerales(ConHeader(escrito, a, FALSE, t), Bytes(p, c)),
                                     Bytes(fin, 0))
          /\ bloquesLibres' = bloquesLibres
      <3>1. ~(0 >= HEADER) /\ ~(0 > 0)
        BY Constantes
      <3> HIDE DEF fin, p5, p, c, v
      <3> QED BY ONLY TomarYDesperdiciar(n, u, th, t, bloquesLibres), <2>1, <2>2, <3>1
              DEF TomarYDesperdiciar, c
    <2>4. paginas' = ConUltimo(paginas, n, Pag(n).esFinPag, 0, v)
      BY <2>3 DEF ConUltimo
    <2> QED BY <2>2, <2>3, <2>4, <1>0 DEF ConUltimo, ConDos, Vale, Pag, HeaderDado
  <1>6. otorgados' = ConDado(otorgados, p5, t)
    BY DEF Otorgar, ConDado
  <1>7. fin = Inicio(Len(paginas))
    BY DEF Vale
  <1> HIDE DEF fin, p5, p, c, v
  <1>8. /\ PaginasBien(paginas') /\ Len(paginas') = Len(paginas)
        /\ paginas'[k].tamanio_header = 0 /\ paginas'[k].ultimo_header = v
    BY ONLY <1>2, <1>3, <1>4, PaginaCambia
  <1>9. /\ EscritoBien(escrito', fin) /\ Teja(D, escrito', fin)
        /\ \A x \in D : x # a => Mismo(escrito, escrito', x)
        /\ Hay(escrito', a) /\ ~Libre(escrito', a) /\ Tam(escrito', a) = t
    BY ONLY <1>1, <1>2, <1>3, <1>4, DarYDesperdiciar
  <1>10. \A x \in D : x # a => x \in D /\ Mismo(escrito, escrito', x)
    BY <1>9
  <1>11. UltimoBien(paginas', EnLista(bloquesLibres), D, escrito')
    <2>1. Fin(escrito', a) >= fin - 4
      <3>1. Fin(escrito', a) = a + 5 + t
        BY <1>9, Constantes DEF Fin
      <3>2. fin = a + 5 + t + c
        BY <1>3 DEF Acaba, Suma
      <3> QED BY ONLY <3>1, <3>2, <1>3, <1>1
    <2>2. UltimoHeader(v, 0, Inicio(n), fin, EnLista(bloquesLibres), D, escrito')
      <3>1. a \in D /\ a = Inicio(n) + v /\ ~Libre(escrito', a)
        BY <1>1, <1>3, <1>9
      <3> QED BY ONLY <3>1, <2>1 DEF UltimoHeader
    <2>3. Len(paginas') = k /\ n = k - 1
      BY <1>8 DEF Vale
    <2> QED BY <2>2, <2>3, <1>8, <1>7 DEF UltimoBien, fin
  <1>12. /\ EscritoBien(escrito', Inicio(Len(paginas'))) /\ Teja(D, escrito', Inicio(Len(paginas')))
         /\ \A x \in D : x \in D \/ x = a \/ Resto(Fin(escrito', x)) = 0
    BY <1>7, <1>8, <1>9
  <1>13. Mosaico(D, paginas', escrito', bloquesLibres, ConDado(otorgados, p5, t))
    BY ONLY Mosaico(D, paginas, escrito, bloquesLibres, otorgados), t \in Nat \ {0},
            <1>1, <1>8, <1>9, <1>10, <1>11, <1>12, DadoDelUltimo
  <1> QED BY <1>4, <1>6, <1>13

\* All the branches, of the last header.
LEMMA MallocDeUltimo ==
  ASSUME NEW D, Mosaico(D, paginas, escrito, bloquesLibres, otorgados), NEW t \in Nat \ {0},
         mallocDeUltimo(t), ~torcido'
  PROVE  \E G : Mosaico(G, paginas', escrito', bloquesLibres', otorgados')
  <1> DEFINE k == Len(paginas)
             n == k - 1
             u == paginas[k].ultimo_header
             th == paginas[k].tamanio_header
  <1>1. k \in Nat /\ k > 0 /\ n \in Nat
    <2>1. paginas \in Seq(PaginaBien) /\ paginas # <<>>
      BY DEF Mosaico, PaginasBien, mallocDeUltimo, EntraEnUltimo
    <2> QED BY <2>1
  <1>2. Ultima = n /\ n + 1 = k
    BY <1>1 DEF Ultima
  <1>3. Pag(Ultima).ultimo_header = u /\ Pag(Ultima).tamanio_header = th
    BY <1>2 DEF Pag
  <1>4. th >= t /\ actualizar_header(n, u, th, t, bloquesLibres, TRUE)
    BY <1>2, <1>3 DEF mallocDeUltimo, EntraEnUltimo
  <1>5. /\ Vale(k, Len(paginas)) /\ Vale(n, k - 1) /\ Vale(u, paginas[k].ultimo_header)
        /\ Vale(th, paginas[k].tamanio_header)
    BY DEF Vale
  <1>6. th \in Nat
    BY <1>1, PaginasDe DEF Mosaico
  <1> HIDE DEF k, n, u, th
  <1>7. th > 0
    BY <1>4, <1>6
  <1>8. Otorgar(Inicio(n) + u, t)
    BY <1>4 DEF actualizar_header
  <1>10. CASE th = t /\ TomarTodo(n, u, t, bloquesLibres)
    BY ONLY Mosaico(D, paginas, escrito, bloquesLibres, otorgados), t \in Nat \ {0},
            <1>1, <1>5, <1>8, <1>10, TomarTodoDelUltimo
  <1>11. CASE /\ u + t < T /\ T - (u + t) >= HEADER
              /\ TomarConCola(n, u, th, t, bloquesLibres, TRUE)
    BY ONLY Mosaico(D, paginas, escrito, bloquesLibres, otorgados), t \in Nat \ {0},
            <1>1, <1>5, <1>7, <1>8, <1>11, TomarConColaDelUltimo
  <1>12. CASE /\ u + t < T /\ T - (u + t) < HEADER
              /\ TomarYDesperdiciar(n, u, th, t, bloquesLibres)
    BY ONLY Mosaico(D, paginas, escrito, bloquesLibres, otorgados), t \in Nat \ {0},
            <1>1, <1>5, <1>7, <1>8, <1>12, TomarYDesperdiciarDelUltimo
  <1>13. CASE th # t /\ u + t >= T
    BY <1>4, <1>13 DEF actualizar_header
  <1> QED BY <1>4, <1>10, <1>11, <1>12, <1>13 DEF actualizar_header

-----------------------------------------------------------------------------
(* crearPaginas                                                              *)

LEMMA CuantasPaginas ==
  ASSUME NEW x \in Nat, x > 0, NEW n, n = calcular_paginas_malloc(x)
  PROVE  n \in Nat /\ n > 0 /\ n - 1 \in Nat /\ Inicio(n - 1) < x /\ x <= Inicio(n - 1) + T
  <1>1. /\ PaginaDe(x) \in Nat /\ Resto(x) \in Nat /\ Resto(x) < T
        /\ x = Inicio(PaginaDe(x)) + Resto(x)
    BY Partes
  <1>2. n = PaginaDe(x) + IF Resto(x) = 0 THEN 0 ELSE 1
    BY DEF calcular_paginas_malloc, PaginaDe, Resto
  <1> DEFINE q == PaginaDe(x)
             r == Resto(x)
  <1> HIDE DEF q, r
  <1>3. /\ q \in Nat /\ r \in Nat /\ r < T /\ x = Inicio(q) + r
        /\ n = q + (IF r = 0 THEN 0 ELSE 1) /\ Inicio(q) \in Nat
    <2>1. q \in Nat /\ r \in Nat /\ r < T /\ x = Inicio(q) + r /\ n = q + (IF r = 0 THEN 0 ELSE 1)
      BY <1>1, <1>2 DEF q, r
    <2> QED BY <2>1, Inicios
  <1>4. CASE r = 0
    <2>1. q # 0
      BY <1>3, <1>4, Inicios
    <2>2. n = q /\ q - 1 \in Nat /\ (q - 1) + 1 = q
      BY <2>1, <1>3, <1>4
    <2>3. Inicio(q - 1) \in Nat /\ Inicio((q - 1) + 1) = Inicio(q - 1) + T
      BY <2>2, Inicios
    <2>4. Inicio(q) = Inicio(q - 1) + T
      BY <2>2, <2>3
    <2>5. x = Inicio(q)
      BY ONLY <1>3, <1>4
    <2> QED BY <2>2, <2>3, <2>4, <2>5, Constantes
  <1>5. CASE r # 0
    <2>1. n = q + 1 /\ n - 1 = q
      BY ONLY <1>3, <1>5
    <2>2. Inicio(n - 1) = Inicio(q) /\ n \in Nat /\ n > 0 /\ n - 1 \in Nat
      BY ONLY <2>1, <1>3
    <2>3. Inicio(q) < x /\ x <= Inicio(q) + T
      BY ONLY <1>3, <1>5, Constantes
    <2> QED BY ONLY <2>2, <2>3
  <1> QED BY <1>4, <1>5

\* The last page is closed.
Cerrada(pg, q) == [pg EXCEPT ![Len(pg)] = q]

\* New pages come after those there were, and the last one is closed.
LEMMA PaginasNuevas ==
  ASSUME NEW k \in Nat, NEW s \in Seq(PaginaBien), Len(s) = k, \A i \in 1..k : ~s[i].esFinPag,
         NEW n \in Nat, n > 0, NEW v \in Seq(PaginaBien), Len(v) = n,
         \A i \in 1..n : ~v[i].esFinPag,
         NEW q \in PaginaBien, q.esFinPag, NEW pf, Vale(pf, Cerrada(s \o v, q))
  PROVE  /\ PaginasBien(pf) /\ Len(pf) = k + n /\ pf[k + n] = q
         /\ Len(s \o v) = k + n /\ (s \o v)[k + n] = v[n]
  <1> DEFINE pg == s \o v
             l == k + n
  <1>1. /\ pg \in Seq(PaginaBien) /\ Len(pg) = l /\ l \in Nat /\ l \in 1..l
        /\ \A i \in 1..l : pg[i] = IF i <= k THEN s[i] ELSE v[i - k]
    <2>1. /\ pg \in Seq(PaginaBien) /\ Len(pg) = Len(s) + Len(v)
          /\ \A i \in 1..Len(s) + Len(v) : pg[i] = IF i <= Len(s) THEN s[i] ELSE v[i - Len(s)]
      BY ONLY s \in Seq(PaginaBien), v \in Seq(PaginaBien)
    <2>2. Len(s) = k /\ Len(v) = n /\ l \in Nat /\ l \in 1..l
      OBVIOUS
    <2> QED BY ONLY <2>1, <2>2
  <1>2. pg[l] = v[n]
    <2>1. ~(l <= k) /\ l - k = n
      OBVIOUS
    <2> QED BY <1>1, <2>1
  <1>3. \A i \in 1..l : pg[i] \in PaginaBien /\ ~pg[i].esFinPag
    <2> SUFFICES ASSUME NEW i \in 1..l
                 PROVE  pg[i] \in PaginaBien /\ ~pg[i].esFinPag
      OBVIOUS
    <2>1. CASE i <= k
      BY <1>1, <2>1
    <2>2. CASE i > k
      <3>1. i - k \in 1..n /\ pg[i] = v[i - k]
        BY <1>1, <2>2
      <3> QED BY <3>1, <1>1
    <2> QED BY <2>1, <2>2
  <1> HIDE DEF pg
  <1>4. /\ DOMAIN pf = 1..l /\ pf = [i \in 1..l |-> pf[i]] /\ pf[l] = q
        /\ \A i \in 1..l : i # l => pf[i] = pg[i]
    <2>1. pf = [pg EXCEPT ![l] = q]
      BY <1>1 DEF Vale, Cerrada, pg
    <2>2. DOMAIN pg = 1..l
      BY ONLY <1>1
    <2> QED BY ONLY <2>1, <2>2, <1>1
  <1>5. \A i \in 1..l : pf[i] \in PaginaBien /\ (pf[i].esFinPag <=> i = l)
    BY <1>3, <1>4
  <1>6. pf \in [1..l -> PaginaBien]
    BY <1>4, <1>5
  <1>7. pf \in Seq(PaginaBien) /\ Len(pf) = l
    BY ONLY <1>1, <1>6, FuncionSeq
  <1> QED BY <1>1, <1>2, <1>4, <1>5, <1>7 DEF PaginasBien, pg

\* The block begins where the pages end or in the last header, and goes on to
\* the end of the new pages.
LEMMA CrearMosaico ==
  ASSUME NEW D, NEW pg, NEW e, NEW bl, NEW ot, Mosaico(D, pg, e, bl, ot),
         NEW n, Vale(n, Len(pg)), NEW fin, Vale(fin, Inicio(n)),
         NEW u \in Nat, n <= u, NEW a \in Nat, Resto(a) + 5 <= T,
         \/ a = fin
         \/ a \in D /\ Fin(e, a) = fin /\ Libre(e, a) /\ a \notin EnLista(bl),
         NEW t \in Nat \ {0}, NEW pos \in Nat, Sobre(a, pos),
         NEW r \in Nat, 0 < r, r <= T, NEW p \in Nat, EnPagina(u, r, p), Acaba(a, t, p),
         NEW f, Vale(f, ConFin(HeaderDado(e, a, t), u, r)),
         NEW pf, PaginasBien(pf), Suma(u, 1, Len(pf)), Vale(pf[Len(pf)], FinDePagina(r, 0))
  PROVE  \E G : Mosaico(G, pf, f, bl, ConDado(ot, pos, t))
  <1> DEFINE top == Inicio(u) + T
             G == Rematado(D, a, p, r)
             l == Len(pf)
  <1>1. /\ n \in Nat /\ fin \in Nat /\ t \in Nat /\ EscritoBien(e, fin) /\ Teja(D, e, fin)
        /\ Inicio(u) \in Nat
    BY DeMosaico, Inicios DEF Mosaico, Vale
  <1>2. top \in Nat /\ EnPagina(u, T, top) /\ Inicio(l) = top
    <2>1. l = u + 1
      BY DEF Suma
    <2>2. Inicio(u + 1) = Inicio(u) + T
      BY Inicios
    <2> QED BY <1>1, <2>1, <2>2, Constantes, SMTT(30) DEF EnPagina
  <1>3. Vale(G, Rematado(D, a, p, r))
    BY DEF Vale
  <1>4. AlFinal(D, e, a, fin)
    BY DEF AlFinal
  <1>5. a \in D => Libre(e, a) /\ a \notin EnLista(bl)
    <2>1. \A x \in D : x \in Nat /\ x + 5 <= fin
      BY DeMosaico DEF Vale
    <2> QED BY <2>1, <1>1
  <1> HIDE DEF top, G
  <1>60. Alargado(D, e, G, f, top, a, t, p, r)
    BY ONLY <1>1, <1>2, <1>3, <1>4, Vale(fin, Inicio(n)), u \in Nat, n <= u, a \in Nat,
            Resto(a) + 5 <= T, r \in Nat, 0 < r, r <= T, p \in Nat, EnPagina(u, r, p),
            Acaba(a, t, p), Vale(f, ConFin(HeaderDado(e, a, t), u, r)), Crear
  <1>6. /\ EscritoBien(f, top) /\ Teja(G, f, top)
        /\ \A x \in D : x # a => Mismo(e, f, x)
        /\ \A x \in D : x <= a /\ x < p
        /\ Hay(f, a) /\ ~Libre(f, a) /\ Tam(f, a) = t
        /\ T - r >= 5 => Libre(f, p) /\ Tam(f, p) = T - r - 5 /\ Fin(f, p) = top
    BY ONLY <1>60 DEF Alargado
  <1>7. a \in G /\ \A x \in D : x # a => x \in G /\ Mismo(e, f, x)
    BY <1>6 DEF G, Rematado
  <1>8. UltimoBien(pf, EnLista(bl), G, f)
    <2>1. l - 1 = u /\ l \in Nat
      BY DEF Suma
    <2>2. CASE T - r >= 5
      <3>1. pf[l] = Pagina(TRUE, T - r - 5, r + 5)
        BY <2>2, Constantes DEF FinDePagina, Vale
      <3>2. pf[l].ultimo_header = r + 5 /\ pf[l].tamanio_header = T - r - 5
        BY <3>1 DEF Pagina
      <3>3. p \in G \ EnLista(bl)
        <4>1. p \notin D
          BY <1>6
        <4>2. EnLista(bl) \subseteq D
          BY DeMosaico
        <4> QED BY <4>1, <4>2, <2>2 DEF G, Rematado
      <3>4. p + 5 = Inicio(u) + (r + 5) /\ r + 5 >= 5
        BY <1>1, SMTT(30) DEF EnPagina
      <3>5. UltimoHeader(r + 5, T - r - 5, Inicio(u), top, EnLista(bl), G, f)
        BY <3>3, <3>4, <1>6, <2>2 DEF UltimoHeader
      <3> QED BY <3>2, <3>5, <2>1, <1>2 DEF UltimoBien
    <2>3. CASE ~(T - r >= 5)
      <3>1. pf[l] = Pagina(TRUE, 0, 0)
        BY <2>3, Constantes DEF FinDePagina, Vale
      <3> QED BY <3>1 DEF Pagina, UltimoBien, UltimoHeader
    <2> QED BY <2>2, <2>3
  <1>9. /\ EscritoBien(f, Inicio(Len(pf))) /\ Teja(G, f, Inicio(Len(pf)))
        /\ \A x \in G : x \in D \/ x = a \/ Resto(Fin(f, x)) = 0
    <2>1. Inicio(l) = top /\ l \in Nat
      <3>1. l = u + 1
        BY DEF Suma
      <3> QED BY <3>1, <1>2
    <2>2. Resto(top) = 0
      BY <2>1, RestoDePagina
    <2>3. \A x \in G : x \in D \/ x = a \/ (T - r >= 5 /\ x = p)
      BY DEF G, Rematado
    <2> QED BY <1>2, <1>6, <2>2, <2>3
  <1>10. Mosaico(G, pf, f, bl, ConDado(ot, pos, t))
    BY ONLY Mosaico(D, pg, e, bl, ot), a \in Nat, <1>5, t \in Nat \ {0}, pos \in Nat,
            Sobre(a, pos), PaginasBien(pf), <1>6, <1>7, <1>8, <1>9, DadoDelUltimo
  <1> QED BY <1>10

\* A page that is made.
LEMMA PaginaEs ==
  ASSUME NEW fin \in BOOLEAN, NEW th \in Nat, NEW u \in Nat
  PROVE  /\ Pagina(fin, th, u) \in PaginaBien /\ Pagina(fin, th, u).esFinPag = fin
         /\ Pagina(fin, th, u).ultimo_header = u
  BY DEF Pagina, PaginaBien

\* The pages there were, when others come after them.
LEMMA PaginasAntes ==
  ASSUME NEW pg, PaginasBien(pg), NEW s, DOMAIN s = DOMAIN pg, s = [i \in DOMAIN pg |-> s[i]],
         \A i \in DOMAIN pg : i # Len(pg) => s[i] = pg[i],
         \A i \in DOMAIN pg : i = Len(pg) => s[i] \in PaginaBien /\ ~s[i].esFinPag
  PROVE  /\ s \in Seq(PaginaBien) /\ Len(s) = Len(pg) /\ \A i \in 1..Len(s) : ~s[i].esFinPag
  <1> DEFINE k == Len(pg)
  <1>1. /\ k \in Nat /\ DOMAIN pg = 1..k
        /\ \A i \in 1..k : pg[i] \in PaginaBien /\ (pg[i].esFinPag <=> i = k)
    BY PaginasDe
  <1>2. \A i \in 1..k : s[i] \in PaginaBien /\ ~s[i].esFinPag
    BY <1>1
  <1> HIDE DEF k
  <1>3. s \in [1..k -> PaginaBien]
    BY <1>1, <1>2
  <1>4. s \in Seq(PaginaBien) /\ Len(s) = k
    BY ONLY <1>1, <1>3, FuncionSeq
  <1> QED BY <1>2, <1>4 DEF k

\* The new ones.
LEMMA PaginasQueVienen ==
  ASSUME NEW n \in Nat, n > 0, NEW v,
         v = Nuevas(n) \/ (v = [Nuevas(n) EXCEPT ![1].ultimo_header = HEADER] /\ n # 1)
  PROVE  /\ v \in Seq(PaginaBien) /\ Len(v) = n /\ \A i \in 1..n : ~v[i].esFinPag
         /\ v[n].ultimo_header = 0
  <1> DEFINE q == Pagina(FALSE, 0, 0)
  <1>1. q \in PaginaBien /\ ~q.esFinPag /\ q.ultimo_header = 0
    BY DEF Pagina, PaginaBien
  <1>2. Nuevas(n) = [i \in 1..n |-> q]
    BY DEF Nuevas
  <1>0. n \in 1..n /\ 1 \in 1..n
    OBVIOUS
  <1>3. CASE v = Nuevas(n)
    <2> HIDE DEF q
    <2>1. v \in [1..n -> PaginaBien] /\ \A i \in 1..n : v[i] = q
      BY <1>1, <1>2, <1>3
    <2>2. v \in Seq(PaginaBien) /\ Len(v) = n
      BY <2>1, FuncionSeq
    <2> QED BY <2>1, <2>2, <1>0, <1>1
  <1>4. CASE v = [Nuevas(n) EXCEPT ![1].ultimo_header = HEADER] /\ n # 1
    <2> DEFINE w == [q EXCEPT !.ultimo_header = HEADER]
    <2>1. w \in PaginaBien /\ ~w.esFinPag
      BY Constantes DEF Pagina, PaginaBien
    <2>2. v = [[i \in 1..n |-> q] EXCEPT ![1] = w]
      BY ONLY <1>0, <1>2, <1>4
    <2> HIDE DEF q, w
    <2>3. v \in [1..n -> PaginaBien] /\ \A i \in 1..n : v[i] = q \/ v[i] = w
      BY <2>1, <2>2, <1>1
    <2>4. v[n] = q
      BY <2>2, <1>0, <1>4
    <2>5. v \in Seq(PaginaBien) /\ Len(v) = n
      BY <2>3, FuncionSeq
    <2> QED BY <2>1, <2>3, <2>4, <2>5, <1>1
  <1> QED BY <1>3, <1>4

\* The one that is closed.
LEMMA FinDePaginaBien ==
  ASSUME NEW r \in Nat, r <= T
  PROVE  FinDePagina(r, 0) \in PaginaBien /\ FinDePagina(r, 0).esFinPag
  <1>1. CASE T - r >= HEADER
    <2>1. T - r - HEADER \in Nat /\ r + HEADER \in Nat
      BY <1>1, Constantes
    <2> QED BY <2>1, <1>1 DEF FinDePagina, Pagina, PaginaBien
  <1>2. CASE ~(T - r >= HEADER)
    BY <1>2 DEF FinDePagina, Pagina, PaginaBien
  <1> QED BY <1>1, <1>2

\* crearPaginas, with the block in a new page ...
LEMMA CrearAlFinalBien ==
  ASSUME NEW D, Mosaico(D, paginas, escrito, bloquesLibres, otorgados), NEW t \in Nat \ {0},
         NEW n, n = calcular_paginas_malloc(t + HEADER), CrearAlFinal(n, t),
         bloquesLibres' = bloquesLibres
  PROVE  \E G : Mosaico(G, paginas', escrito', bloquesLibres', otorgados')
  <1> DEFINE k == Len(paginas)
             a == Inicio(k)
             p5 == a + 5
             u == k + n - 1
             r == t + 5 - Inicio(n - 1)
             p == Inicio(u) + r
             s == [i \in DOMAIN paginas |-> IF i = Len(paginas)
                                            THEN [paginas[i] EXCEPT !.esFinPag = FALSE]
                                            ELSE paginas[i]]
             v == IF t + HEADER > T THEN [Nuevas(n) EXCEPT ![1].ultimo_header = HEADER]
                                    ELSE Nuevas(n)
             q == FinDePagina(r, 0)
  <1>1. k \in Nat /\ a \in Nat /\ PaginasBien(paginas)
    BY DeMosaico DEF Mosaico
  <1>2. t \in Nat /\ t > 0 /\ t + 5 \in Nat /\ t + 5 > 0 /\ n = calcular_paginas_malloc(t + 5)
    BY Constantes
  <1>3. n \in Nat /\ n > 0 /\ n - 1 \in Nat /\ Inicio(n - 1) < t + 5 /\ t + 5 <= Inicio(n - 1) + T
    BY ONLY <1>2, CuantasPaginas
  <1>4. Inicio(n - 1) \in Nat
    BY <1>3, Inicios
  <1>5. r \in Nat /\ 0 < r /\ r <= T
    BY ONLY <1>2, <1>3, <1>4, Constantes
  <1>6. u \in Nat /\ k <= u /\ u = k + (n - 1) /\ u + 1 = k + n
    BY ONLY <1>1, <1>3
  <1>7. Inicio(u) = a + Inicio(n - 1) /\ Inicio(u) \in Nat
    BY ONLY <1>1, <1>3, <1>6, InicioSuma, Inicios
  <1>8. p = a + 5 + t /\ p \in Nat /\ p5 \in Nat /\ Resto(a) = 0 /\ p5 = a + HEADER
    <2>1. p = a + 5 + t /\ p \in Nat /\ p5 \in Nat /\ p5 = a + HEADER
      <3> DEFINE j == Inicio(n - 1)
                 w == Inicio(u)
                 y == t + 5 - j
      <3>1. a \in Nat /\ t \in Nat /\ j \in Nat /\ w = a + j /\ y = t + 5 - j /\ y \in Nat
        BY <1>1, <1>2, <1>4, <1>5, <1>7
      <3> HIDE DEF j, w, y, a
      <3>2. w + y = a + 5 + t /\ w + y \in Nat /\ a + 5 \in Nat /\ a + 5 = a + HEADER
        BY ONLY <3>1, Constantes
      <3> QED BY <3>2 DEF j, w, y
    <2>2. Resto(a + 0) = 0 /\ a + 0 = a
      BY <1>1, Unica, Constantes
    <2> QED BY <2>1, <2>2
  <1>9. s \in Seq(PaginaBien) /\ Len(s) = k /\ \A i \in 1..Len(s) : ~s[i].esFinPag
    <2>1. DOMAIN s = DOMAIN paginas /\ s = [i \in DOMAIN paginas |-> s[i]]
          /\ \A i \in DOMAIN paginas : i # Len(paginas) => s[i] = paginas[i]
      OBVIOUS
    <2>2. ASSUME NEW i \in DOMAIN paginas, i = Len(paginas)
          PROVE  s[i] \in PaginaBien /\ ~s[i].esFinPag
      <3>1. paginas[i] \in PaginaBien
        BY <1>1, PaginasDe
      <3>2. s[i] = [paginas[i] EXCEPT !.esFinPag = FALSE]
        BY <2>2
      <3> QED BY ONLY <3>1, <3>2 DEF PaginaBien
    <2> HIDE DEF s
    <2> QED BY <1>1, <2>1, <2>2, PaginasAntes
  <1>10. /\ v \in Seq(PaginaBien) /\ Len(v) = n /\ \A i \in 1..n : ~v[i].esFinPag
         /\ v[n].ultimo_header = 0
    <2>1. v = Nuevas(n) \/ (v = [Nuevas(n) EXCEPT ![1].ultimo_header = HEADER] /\ n # 1)
      <3>1. CASE t + HEADER > T
        <4>1. n # 1
          <5>1. n = 1 => Inicio(n - 1) = 0
            BY Inicios
          <5> QED BY ONLY <5>1, <3>1, <1>2, <1>3, Constantes
        <4> QED BY <3>1, <4>1
      <3>2. CASE ~(t + HEADER > T)
        BY <3>2
      <3> QED BY <3>1, <3>2
    <2> HIDE DEF v
    <2> QED BY ONLY <2>1, <1>3, PaginasQueVienen
  <1>11. q \in PaginaBien /\ q.esFinPag
    BY <1>5, FinDePaginaBien
  <1>12. CerrarPagina(s \o v, ConHeader(escrito, a, FALSE, t), r)
         /\ otorgados' = ConDado(otorgados, p5, t)
    <2>1. (a + HEADER) - HEADER = a /\ t + HEADER - Inicio(n - 1) = r /\ p5 = a + HEADER
      BY <1>1, <1>8, Constantes
    <2> HIDE DEF r, p5
    <2>2. /\ CerrarPagina(s \o v, ConHeader(escrito, (a + HEADER) - HEADER, FALSE, t),
                          t + HEADER - Inicio(n - 1))
          /\ Otorgar(a + HEADER, t)
      BY ONLY CrearAlFinal(n, t), Zenon DEF CrearAlFinal
    <2>3. otorgados' = ConDado(otorgados, p5, t)
      BY ONLY <2>1, <2>2 DEF Otorgar, ConDado
    <2> HIDE DEF a, s, v
    <2> QED BY ONLY <2>1, <2>2, <2>3
  <1> HIDE DEF s, v, q, r, p, u, p5
  <1>13. /\ PaginasBien(Cerrada(s \o v, q)) /\ Len(Cerrada(s \o v, q)) = k + n
         /\ Cerrada(s \o v, q)[k + n] = q /\ Len(s \o v) = k + n /\ (s \o v)[k + n] = v[n]
    <2> DEFINE pf == Cerrada(s \o v, q)
    <2>1. Vale(pf, Cerrada(s \o v, q)) /\ \A i \in 1..k : ~s[i].esFinPag
      BY <1>9 DEF Vale
    <2>2. k \in Nat /\ s \in Seq(PaginaBien) /\ Len(s) = k
      BY <1>1, <1>9
    <2>3. n \in Nat /\ n > 0
      BY <1>3
    <2> HIDE DEF pf, k
    <2>4. PaginasBien(pf) /\ Len(pf) = k + n /\ pf[k + n] = q /\ Len(s \o v) = k + n
          /\ (s \o v)[k + n] = v[n]
      BY ONLY <2>1, <2>2, <2>3, <1>10, <1>11, PaginasNuevas
    <2> QED BY <2>4 DEF pf
  <1>14. /\ paginas' = Cerrada(s \o v, q)
         /\ Vale(escrito', ConFin(HeaderDado(escrito, a, t), u, r))
    <2>1. Len(s \o v) - 1 = u
      BY ONLY <1>13, <1>6, <1>1, <1>3
    <2>2. FinDePagina(r, (s \o v)[Len(s \o v)].ultimo_header) = q
      BY <1>10, <1>13 DEF q
    <2> QED BY ONLY <2>1, <2>2, <1>12 DEF CerrarPagina, Cerrada, Vale, HeaderDado
  <1>15. /\ PaginasBien(paginas') /\ Suma(u, 1, Len(paginas'))
         /\ Vale(paginas'[Len(paginas')], FinDePagina(r, 0))
    BY <1>6, <1>13, <1>14 DEF Suma, Vale, q
  <1>16. /\ Vale(k, Len(paginas)) /\ Vale(a, Inicio(k)) /\ Resto(a) + 5 <= T
         /\ Sobre(a, p5) /\ EnPagina(u, r, p) /\ Acaba(a, t, p)
    BY <1>8, Constantes DEF Vale, Sobre, EnPagina, Acaba, p5, p
  <1>17. a = a
    OBVIOUS
  <1>20. p \in Nat /\ p5 \in Nat
    BY <1>8
  <1>21. u \in Nat /\ k <= u
    BY <1>6
  <1>22. Vale(escrito', ConFin(HeaderDado(escrito, a, t), u, r))
    BY <1>14
  <1> HIDE DEF k, a
  <1>18. \E G : Mosaico(G, paginas', escrito', bloquesLibres, ConDado(otorgados, p5, t))
    BY ONLY Mosaico(D, paginas, escrito, bloquesLibres, otorgados), t \in Nat \ {0},
            <1>1, <1>5, <1>15, <1>16, <1>17, <1>20, <1>21, <1>22, CrearMosaico
  <1> QED BY <1>12, <1>18

\* ... or in the last free header.
LEMMA CrearDesdeUltimoBien ==
  ASSUME NEW D, Mosaico(D, paginas, escrito, bloquesLibres, otorgados), NEW t \in Nat \ {0},
         NEW k, Vale(k, Len(paginas)), k > 0,
         NEW m, Vale(m, k - 1), m = Ultima, NEW y, Vale(y, paginas[k].ultimo_header),
         NEW th, Vale(th, paginas[k].tamanio_header), th > 0, th < t,
         NEW n, n = calcular_paginas_malloc(t - th), CrearDesdeUltimo(n, t),
         bloquesLibres' = bloquesLibres
  PROVE  \E G : Mosaico(G, paginas', escrito', bloquesLibres', otorgados')
  <1> DEFINE p5 == Inicio(m) + y
             u == k + n - 1
             r == t - (T - y) - Inicio(n - 1)
             p == Inicio(u) + r
             s == ConUltimo(paginas, m, FALSE, 0, y)
             v == Nuevas(n)
             q == FinDePagina(r, 0)
             fin == Inicio(k)
  <1>1. PICK a \in D :
          /\ a \in Nat /\ a \notin EnLista(bloquesLibres) /\ Libre(escrito, a)
          /\ Tam(escrito, a) = th
          /\ a + 5 = Inicio(m) + y /\ Fin(escrito, a) = Inicio(k)
          /\ m \in Nat /\ k \in 1..Len(paginas) /\ y \in Nat /\ y >= 5 /\ th \in Nat
          /\ y + th = T /\ Inicio(m) \in Nat /\ Inicio(k) = Inicio(m) + T
    BY UltimoLibre, SMTT(30)
  <1>2. /\ PaginasBien(paginas) /\ k \in Nat /\ k = m + 1 /\ Pag(m).ultimo_header = y
        /\ Resto(a) + 5 <= T
    <2>1. PaginasBien(paginas) /\ Resto(a) + 5 <= T
      BY DeMosaico DEF Mosaico
    <2>2. m = k - 1 /\ y = paginas[k].ultimo_header
      BY DEF Vale
    <2>3. k \in Nat /\ k = m + 1
      BY <1>1, <2>2
    <2>4. paginas[m + 1] = paginas[k]
      BY ONLY <2>3
    <2> QED BY ONLY <2>1, <2>2, <2>3, <2>4 DEF Pag
  <1>20. /\ t \in Nat /\ y \in Nat /\ th \in Nat /\ y + th = T /\ th < t /\ a \in Nat
         /\ Inicio(m) \in Nat /\ a + 5 = Inicio(m) + y
    BY <1>1
  <1>21. fin = Inicio(m) + T
    BY <1>1
  <1>22. t - th \in Nat /\ t - th > 0 /\ T - y = th /\ fin \in Nat /\ t - (T - y) = t - th
    BY ONLY <1>20, <1>21, Constantes
  <1>3. /\ n \in Nat /\ n > 0 /\ n - 1 \in Nat /\ Inicio(n - 1) < t - th
        /\ t - th <= Inicio(n - 1) + T
    BY ONLY <1>22, n = calcular_paginas_malloc(t - th), CuantasPaginas
  <1>4. Inicio(n - 1) \in Nat
    BY ONLY <1>3, Inicios
  <1>5. r \in Nat /\ 0 < r /\ r <= T
    BY ONLY <1>20, <1>22, <1>3, <1>4, Constantes
  <1>6. u \in Nat /\ k <= u /\ u = k + (n - 1) /\ u + 1 = k + n
    BY ONLY <1>2, <1>3
  <1>7. Inicio(u) = fin + Inicio(n - 1) /\ Inicio(u) \in Nat
    BY ONLY <1>2, <1>3, <1>6, InicioSuma, Inicios
  <1>8. p = a + 5 + t /\ p \in Nat /\ p5 \in Nat /\ p5 = a + 5 /\ p5 - HEADER = a
    <2> DEFINE j == Inicio(n - 1)
               w == Inicio(u)
               i == Inicio(m)
    <2>1. /\ w = fin + j /\ r = t - th - j /\ j \in Nat /\ i \in Nat /\ a + 5 = i + y
          /\ fin = i + T
      BY <1>1, <1>4, <1>7, <1>20, <1>21, <1>22
    <2>2. /\ t \in Nat /\ y \in Nat /\ th \in Nat /\ y + th = T /\ a \in Nat
      BY <1>20
    <2> HIDE DEF j, w, i, r, fin
    <2>3. w + r = a + 5 + t /\ w + r \in Nat /\ i + y \in Nat /\ i + y = a + 5
          /\ (i + y) - HEADER = a
      BY ONLY <2>1, <2>2, Constantes
    <2> QED BY <2>3 DEF w, i
  <1>9. s \in Seq(PaginaBien) /\ Len(s) = k /\ \A i \in 1..Len(s) : ~s[i].esFinPag
    <2> DEFINE z == Pagina(FALSE, 0, y)
    <2>1. z \in PaginaBien /\ ~z.esFinPag
      BY <1>1 DEF Pagina, PaginaBien
    <2> HIDE DEF z
    <2>2. DOMAIN paginas = 1..Len(paginas) /\ m + 1 = Len(paginas) /\ k = Len(paginas)
      BY <1>2, PaginasDe DEF Vale
    <2>3. s = [paginas EXCEPT ![Len(paginas)] = z]
      BY <2>2 DEF ConUltimo, z
    <2>4. /\ DOMAIN s = DOMAIN paginas /\ s = [i \in DOMAIN paginas |-> s[i]]
          /\ \A i \in DOMAIN paginas : i # Len(paginas) => s[i] = paginas[i]
          /\ \A i \in DOMAIN paginas : i = Len(paginas) => s[i] \in PaginaBien /\ ~s[i].esFinPag
      BY <2>1, <2>3
    <2> HIDE DEF s
    <2>5. s \in Seq(PaginaBien) /\ Len(s) = Len(paginas) /\ \A i \in 1..Len(s) : ~s[i].esFinPag
      BY <1>2, <2>4, PaginasAntes
    <2> QED BY <2>2, <2>5
  <1>10. /\ v \in Seq(PaginaBien) /\ Len(v) = n /\ \A i \in 1..n : ~v[i].esFinPag
         /\ v[n].ultimo_header = 0
    BY <1>3, PaginasQueVienen
  <1>11. q \in PaginaBien /\ q.esFinPag
    BY <1>5, FinDePaginaBien
  <1>12. CerrarPagina(s \o v, ConHeader(escrito, a, FALSE, t), r)
         /\ otorgados' = ConDado(otorgados, p5, t)
    <2>1. CerrarPagina(s \o v, ConHeader(escrito, p5 - HEADER, FALSE, t), r) /\ Otorgar(p5, t)
      <3>1. Ultima = m /\ Pag(Ultima).ultimo_header = y
        BY <1>2
      <3> QED BY <3>1 DEF CrearDesdeUltimo
    <2> HIDE DEF s, v, r, p5
    <2> QED BY <2>1, <1>8 DEF Otorgar, ConDado
  <1> HIDE DEF s, v, q, r, p, u, p5
  <1>13. /\ PaginasBien(Cerrada(s \o v, q)) /\ Len(Cerrada(s \o v, q)) = k + n
         /\ Cerrada(s \o v, q)[k + n] = q /\ Len(s \o v) = k + n /\ (s \o v)[k + n] = v[n]
    <2> DEFINE pf == Cerrada(s \o v, q)
    <2>1. Vale(pf, Cerrada(s \o v, q)) /\ \A i \in 1..k : ~s[i].esFinPag
      BY <1>9 DEF Vale
    <2>2. k \in Nat /\ s \in Seq(PaginaBien) /\ Len(s) = k
      BY <1>2, <1>9
    <2>3. n \in Nat /\ n > 0
      BY <1>3
    <2> HIDE DEF pf
    <2>4. PaginasBien(pf) /\ Len(pf) = k + n /\ pf[k + n] = q /\ Len(s \o v) = k + n
          /\ (s \o v)[k + n] = v[n]
      BY ONLY <2>1, <2>2, <2>3, <1>10, <1>11, PaginasNuevas
    <2> QED BY <2>4 DEF pf
  <1>14. /\ paginas' = Cerrada(s \o v, q)
         /\ Vale(escrito', ConFin(HeaderDado(escrito, a, t), u, r))
    <2>1. Len(s \o v) - 1 = u
      BY ONLY <1>13, <1>6, <1>2, <1>3
    <2>2. FinDePagina(r, (s \o v)[Len(s \o v)].ultimo_header) = q
      BY <1>10, <1>13 DEF q
    <2> QED BY ONLY <2>1, <2>2, <1>12 DEF CerrarPagina, Cerrada, Vale, HeaderDado
  <1>15. /\ PaginasBien(paginas') /\ Suma(u, 1, Len(paginas'))
         /\ Vale(paginas'[Len(paginas')], FinDePagina(r, 0))
    BY <1>6, <1>13, <1>14 DEF Suma, Vale, q
  <1>16. /\ Vale(k, Len(paginas)) /\ Vale(fin, Inicio(k)) /\ Resto(a) + 5 <= T
         /\ Sobre(a, p5) /\ EnPagina(u, r, p) /\ Acaba(a, t, p)
    BY <1>2, <1>8 DEF Vale, Sobre, EnPagina, Acaba, p
  <1>17. a \in D /\ Fin(escrito, a) = fin /\ Libre(escrito, a) /\ a \notin EnLista(bloquesLibres)
         /\ a \in Nat
    BY <1>1
  <1>23. p \in Nat /\ p5 \in Nat
    BY <1>8
  <1>24. u \in Nat /\ k <= u
    BY <1>6
  <1>25. Vale(escrito', ConFin(HeaderDado(escrito, a, t), u, r))
    BY <1>14
  <1> HIDE DEF fin
  <1>18. \E G : Mosaico(G, paginas', escrito', bloquesLibres, ConDado(otorgados, p5, t))
    BY ONLY Mosaico(D, paginas, escrito, bloquesLibres, otorgados), t \in Nat \ {0},
            <1>5, <1>15, <1>16, <1>17, <1>23, <1>24, <1>25, CrearMosaico
  <1> QED BY <1>12, <1>18

\* Both; CrearEnUltimo needs a last header that does not reach the end.
LEMMA MallocConPaginas ==
  ASSUME NEW D, Mosaico(D, paginas, escrito, bloquesLibres, otorgados), NEW t \in Nat \ {0},
         mallocConPaginas(t)
  PROVE  \E G : Mosaico(G, paginas', escrito', bloquesLibres', otorgados')
  <1> DEFINE k == Len(paginas)
             m == k - 1
             y == paginas[k].ultimo_header
             th == paginas[k].tamanio_header
  <1>1. bloquesLibres' = bloquesLibres /\ ~EntraEnUltimo(t)
    BY DEF mallocConPaginas
  <1>2. k \in Nat /\ (paginas # <<>> => k > 0) /\ Ultima = m /\ k = m + 1 /\ PaginasBien(paginas)
    <2>1. paginas \in Seq(PaginaBien) /\ PaginasBien(paginas)
      BY DEF Mosaico, PaginasBien
    <2> QED BY <2>1 DEF Ultima
  <1>3. Pag(Ultima).ultimo_header = y /\ Pag(Ultima).tamanio_header = th
    BY <1>2 DEF Pag
  <1>4. CASE paginas # <<>> /\ th # 0
    <2>1. /\ Faltan(t) = calcular_paginas_malloc(t - th) /\ ~(th >= t)
          /\ CrearDesdeUltimo(Faltan(t), t) \/ CrearEnUltimo(t)
      BY <1>1, <1>3, <1>4 DEF mallocConPaginas, Faltan, EntraEnUltimo
    <2>2. th \in Nat /\ k > 0
      BY <1>2, <1>4, PaginasDe
    <2>3. /\ Vale(k, Len(paginas)) /\ Vale(m, k - 1) /\ Vale(y, paginas[k].ultimo_header)
          /\ Vale(th, paginas[k].tamanio_header) /\ m = Ultima /\ y = Pag(Ultima).ultimo_header
      BY <1>2, <1>3 DEF Vale
    <2> HIDE DEF k, m, y, th
    <2>4. th > 0 /\ th < t /\ k > 0
      BY <2>1, <2>2, <1>4
    <2>5. y + th = T /\ y \in Nat /\ th \in Nat
      BY ONLY Mosaico(D, paginas, escrito, bloquesLibres, otorgados), <2>3, <2>4, UltimoLibre, SMTT(30)
    <2>6. ~CrearEnUltimo(t)
      <3>1. ~(T - y >= t)
        BY <2>4, <2>5, Constantes
      <3> QED BY <2>3, <3>1 DEF CrearEnUltimo
    <2>7. CrearDesdeUltimo(Faltan(t), t) /\ Faltan(t) = calcular_paginas_malloc(t - th)
      BY <2>1, <2>6
    <2> QED BY ONLY Mosaico(D, paginas, escrito, bloquesLibres, otorgados), t \in Nat \ {0},
                    <2>3, <2>4, <2>7, <1>1, CrearDesdeUltimoBien
  <1>5. CASE ~(paginas # <<>> /\ th # 0)
    <2>1. Faltan(t) = calcular_paginas_malloc(t + HEADER) /\ CrearAlFinal(Faltan(t), t)
      BY <1>3, <1>5 DEF mallocConPaginas, Faltan
    <2> QED BY <2>1, <1>1, CrearAlFinalBien
  <1> QED BY <1>4, <1>5

-----------------------------------------------------------------------------
(* When nothing is left.                                                     *)

LEMMA MosaicoVacio == Mosaico({}, <<>>, <<>>, <<>>, {})
  <1>1. PaginasBien(<<>>)
    BY DEF PaginasBien
  <1>2. EscritoBien(<<>>, Inicio(Len(<<>>))) /\ Teja({}, <<>>, Inicio(Len(<<>>)))
    BY DEF EscritoBien, Teja
  <1>3. DadosBien({}, {}, <<>>)
    BY DEF DadosBien
  <1>4. ListaBien(<<>>, {}, <<>>)
    BY DEF ListaBien
  <1>5. UltimoBien(<<>>, EnLista(<<>>), {}, <<>>)
    BY DEF UltimoBien
  <1>6. SueltosBien(EnLista(<<>>), {}, <<>>)
    BY DEF SueltosBien
  <1> QED BY <1>1, <1>2, <1>3, <1>4, <1>5, <1>6 DEF Mosaico

-----------------------------------------------------------------------------
(* freeMuse: what it gives back, and what it finds after it.                 *)

LEMMA DeDado ==
  ASSUME NEW D, NEW pg, NEW e, NEW bl, NEW ot, Mosaico(D, pg, e, bl, ot), NEW b \in ot,
         NEW a, Vale(a, Cabeza(b))
  PROVE  /\ a \in D /\ a \in Nat /\ Hay(e, a) /\ ~Libre(e, a) /\ a \notin EnLista(bl)
         /\ Tam(e, a) \in Nat /\ Tam(e, a) = b.tam /\ Tam(e, a) > 0
         /\ b.pos \in Nat /\ b.pos = a + 5 /\ Resto(a) + 5 <= T
         /\ Fin(e, a) = a + 5 + Tam(e, a) /\ Fin(e, a) \in Nat /\ Fin(e, a) <= Inicio(Len(pg))
  <1>1. /\ b \in Dado /\ a \in D /\ ~Libre(e, a) /\ Tam(e, a) = b.tam /\ a = b.pos - HEADER
    BY DEF Mosaico, DadosBien, Cabeza, Vale
  <1>2. /\ a \in Nat /\ Hay(e, a) /\ Resto(a) + 5 <= T /\ a \notin EnLista(bl)
        /\ Fin(e, a) = a + 5 + Tam(e, a) /\ Fin(e, a) \in Nat /\ Fin(e, a) <= Inicio(Len(pg))
    BY <1>1, DeMosaico
  <1>3. b.pos \in Nat /\ b.tam \in Nat /\ b.tam > 0
    BY <1>1 DEF Dado
  <1>4. b.pos = a + 5
    BY <1>1, <1>2, <1>3, Constantes
  <1> QED BY <1>1, <1>2, <1>3, <1>4

\* What was wasted after it in its page is given back too.
LEMMA Detrases ==
  ASSUME NEW a \in Nat, NEW y \in Nat, y > 0, Resto(a) + 5 <= T, NEW x, Acaba(a, y, x),
         NEW w, Suma(x, Desperdicio(Resto(a), y), w), NEW n, Vale(n, PaginaDe(a))
  PROVE  /\ Desperdicio(Resto(a), y) \in Nat /\ w \in Nat
         /\ \/ /\ LlegaAlFinal(Resto(a), y) /\ w = Hasta(x) /\ w = Inicio(n + 1)
               /\ x <= w /\ w <= x + 4
            \/ ~LlegaAlFinal(Resto(a), y) /\ w = x /\ w # Inicio(n + 1)
  <1> USE DEF Acaba, Suma, Vale
  <1> DEFINE d == Resto(a)
             i == Inicio(n)
  <1>1. /\ n \in Nat /\ d \in Nat /\ d < T /\ a = i + d /\ i \in Nat /\ Inicio(n + 1) = i + T
        /\ Inicio(n + 1) \in Nat /\ n + 1 \in Nat
    <2>1. n \in Nat /\ d \in Nat /\ d < T /\ a = i + d
      BY Partes
    <2>2. i \in Nat /\ Inicio(n + 1) = i + T
      BY <2>1, Inicios
    <2> QED BY <2>1, <2>2, Constantes
  <1>2. /\ T - (d + HEADER + y) = T - (d + 5 + y) /\ 0..HEADER - 1 = 0..4
        /\ x \in Nat /\ x = i + (d + 5 + y)
    BY <1>1, Constantes
  <1> DEFINE c == T - (d + 5 + y)
  <1>3. /\ LlegaAlFinal(d, y) <=> c \in 0..4
        /\ Desperdicio(d, y) = IF c \in 0..4 THEN c ELSE 0
    BY <1>2 DEF LlegaAlFinal, Desperdicio
  <1>4. CASE c \in 0..4
    <2>1. w = x + c /\ w = Inicio(n + 1) /\ Desperdicio(d, y) \in Nat
      <3>1. w = x + c /\ c \in Nat /\ Desperdicio(d, y) = c
        BY <1>3, <1>4
      <3> HIDE DEF d, i
      <3>2. x + c = i + T
        BY ONLY <1>1, <1>2, Constantes
      <3> QED BY <3>1, <3>2, <1>1
    <2>2. w = Hasta(x)
      <3>1. CASE c = 0
        <4>1. x = Inicio(n + 1)
          BY <2>1, <3>1, <1>2
        <4>2. Resto(Inicio(n + 1) + 0) = 0 /\ Inicio(n + 1) + 0 = Inicio(n + 1)
          BY <1>1, Unica, Constantes
        <4>3. Resto(x) = 0
          BY <4>1, <4>2
        <4>4. Hasta(x) = x
          BY <4>3, Constantes DEF Hasta
        <4> QED BY <4>4, <4>1, <2>1
      <3>2. CASE c > 0
        <4>1. d + 5 + y \in Nat /\ d + 5 + y < T
          BY ONLY <1>1, <3>2, y \in Nat, Constantes
        <4>2. Resto(x) = d + 5 + y
          <5> DEFINE z == d + 5 + y
          <5>1. z \in Nat /\ z < T /\ n \in Nat /\ x = Inicio(n) + z
            BY <4>1, <1>1, <1>2
          <5> HIDE DEF z
          <5>2. Resto(x) = z
            BY ONLY <5>1, Unica
          <5> QED BY <5>2 DEF z
        <4>3. T - Resto(x) < HEADER /\ T - Resto(x) = c
          BY ONLY <4>2, <1>4, Constantes
        <4> QED BY <4>3, <2>1, <1>3, <1>4 DEF Hasta
      <3> QED BY <3>1, <3>2, <1>4
    <2>3. x <= w /\ w <= x + 4 /\ w \in Nat
      BY <2>1, <1>2, <1>4
    <2> QED BY <2>1, <2>2, <2>3, <1>3, <1>4
  <1>5. CASE c \notin 0..4
    <2>1. w = x /\ Desperdicio(d, y) = 0
      BY <1>2, <1>3, <1>5
    <2>2. x # Inicio(n + 1)
      <3>1. x = Inicio(n + 1) => d + 5 + y = T
        BY ONLY <1>1, <1>2, y \in Nat, Constantes
      <3>2. d + 5 + y = T => c = 0
        BY ONLY <1>1, y \in Nat, Constantes
      <3> QED BY <3>1, <3>2, <1>5
    <2> QED BY <2>1, <2>2, <1>2, <1>3, <1>5
  <1> QED BY <1>4, <1>5

\* What Salto reads is what was written.
LEMMA SaltoEs ==
  ASSUME NEW x
  PROVE  Salto(x) = SaltoDe(escrito, x)
  <1>1. {i \in 0..HEADER - 1 : ~hayHashtag(x + i)} = SinNumeral(escrito, x)
    BY DEF hayHashtag, Num, SinNumeral
  <1>2. Salto(x) = Primero({i \in 0..HEADER - 1 : ~hayHashtag(x + i)})
    BY DEF Salto, Primero
  <1> QED BY <1>1, <1>2 DEF SaltoDe

\* Where it looks for the next header, and how much it gives back.
Busca(e, z, w, x, s0, s, a, n, top) ==
  /\ s0 \in Nat /\ w \in Nat /\ Acaba(a, s0, w)
  /\ s \in Nat /\ x \in Nat /\ Acaba(a, s, x)
  /\ z <= w /\ w <= x /\ x <= Tras(e, z) /\ w <= top
  /\ x \in Miradas(e, z)
  /\ IF LlegaAlFinal(Resto(a), Tam(e, a)) THEN w = Inicio(n + 1) ELSE w = z /\ x = z
  /\ w < top \/ (x = w /\ s = s0)

\* Its two parts, what it gives back and what it finds.
LEMMA Despues ==
  ASSUME NEW D, Mosaico(D, paginas, escrito, bloquesLibres, otorgados), NEW b \in otorgados,
         NEW a, Vale(a, Cabeza(b)), NEW z, Vale(z, Fin(escrito, a)),
         NEW w, Vale(w, Detras(b)), NEW x, Vale(x, Siguiente(b)),
         NEW s0, Vale(s0, Devuelto(b)), NEW s, Vale(s, Devuelto(b) + SaltoTras(b)),
         NEW n, Vale(n, PaginaDe(a))
  PROVE  /\ Existe(PaginaDe(w)) <=> w < Inicio(Len(paginas))
         /\ Busca(escrito, z, w, x, s0, s, a, n, Inicio(Len(paginas)))
  <1> DEFINE y == Tam(escrito, a)
             fin == Inicio(Len(paginas))
             k == SaltoTras(b)
  <1>1. /\ a \in Nat /\ y \in Nat /\ y > 0 /\ b.pos = a + 5 /\ Resto(a) + 5 <= T
        /\ z = a + 5 + y /\ z \in Nat /\ z <= fin
    <2>1. /\ a \in Nat /\ y \in Nat /\ y > 0 /\ b.pos = a + 5 /\ Resto(a) + 5 <= T
          /\ Fin(escrito, a) = a + 5 + y /\ Fin(escrito, a) \in Nat /\ Fin(escrito, a) <= fin
      BY DeDado
    <2> QED BY <2>1 DEF Vale
  <1>2. s0 = y + Desperdicio(Resto(a), y) /\ w = b.pos + s0 /\ x = w + k /\ s = s0 + k
        /\ n = PaginaDe(a)
    BY DEF Devuelto, Detras, Siguiente, Vale, Tam
  <1>3. fin \in Nat /\ Len(paginas) \in Nat
    BY DeMosaico
  <1> HIDE DEF y, fin, k
  <1>4. w = z + Desperdicio(Resto(a), y)
    <2>1. Desperdicio(Resto(a), y) \in Nat
      BY <1>1, Partes, Constantes DEF Desperdicio
    <2> QED BY ONLY <2>1, <1>1, <1>2
  <1>5. /\ Desperdicio(Resto(a), y) \in Nat /\ w \in Nat
        /\ \/ /\ LlegaAlFinal(Resto(a), y) /\ w = Hasta(z) /\ w = Inicio(n + 1)
              /\ z <= w /\ w <= z + 4
           \/ ~LlegaAlFinal(Resto(a), y) /\ w = z /\ w # Inicio(n + 1)
    <2>1. /\ a \in Nat /\ y \in Nat /\ y > 0 /\ Resto(a) + 5 <= T /\ Acaba(a, y, z)
          /\ Vale(n, PaginaDe(a)) /\ Suma(z, Desperdicio(Resto(a), y), w)
      BY <1>1, <1>2, <1>4 DEF Acaba, Suma, Vale
    <2> QED BY ONLY <2>1, Detrases
  <1>6. s0 \in Nat /\ Acaba(a, s0, w) /\ z <= w
    BY ONLY <1>1, <1>2, <1>5 DEF Acaba
  <1>7. w <= fin
    <2>1. Hasta(z) <= fin
      BY <1>1, <1>3, PropiedadesHasta DEF fin
    <2> QED BY <2>1, <1>5, <1>1
  <1>8. Existe(PaginaDe(w)) <=> w < fin
    <2>1. PaginaDe(w) \in Nat
      BY <1>5, Partes
    <2>2. (w < Inicio(Len(paginas))) <=> (PaginaDe(w) < Len(paginas))
      BY <1>5, <1>3, PaginaAntes
    <2> QED BY <2>1, <2>2, <1>3 DEF Existe, fin
  <1>9. Resto(a) + HEADER + s0 = T => w = Inicio(n + 1)
    <2>1. n \in Nat /\ Resto(a) \in Nat /\ a = Inicio(n) + Resto(a)
      BY <1>1, <1>2, Partes
    <2>2. Inicio(n) \in Nat /\ Inicio(n + 1) = Inicio(n) + T
      BY <2>1, Inicios
    <2> DEFINE i == Inicio(n)
               j == Inicio(n + 1)
               d == Resto(a)
    <2>3. a = i + d /\ i \in Nat /\ d \in Nat /\ j = i + T /\ w = a + 5 + s0
      BY <2>1, <2>2, <1>6 DEF Acaba
    <2> HIDE DEF i, j, d
    <2>4. d + HEADER + s0 = T => w = j
      BY ONLY <2>3, <1>6, Constantes
    <2> QED BY <2>4 DEF d, j
  <1>10. k = IF Resto(a) + HEADER + s0 = T /\ w < fin THEN SaltoDe(escrito, w) ELSE 0
    <2>1. k = IF Resto(a) + HEADER + s0 = T /\ Existe(PaginaDe(w)) THEN Salto(w) ELSE 0
      BY DEF SaltoTras, Vale, k
    <2> QED BY <2>1, <1>8, SaltoEs
  <1>11. /\ k \in Nat /\ x <= Tras(escrito, z) /\ w <= x /\ x \in Miradas(escrito, z)
         /\ LlegaAlFinal(Resto(a), y) \/ x = z
         /\ w < fin \/ k = 0
    <2>1. /\ Tras(escrito, z) \in Nat /\ Hasta(z) \in Nat
          /\ z <= Hasta(z) /\ Hasta(z) <= Tras(escrito, z)
      BY <1>1, TrasNat
    <2>2. CASE k = 0
      <3>1. x = w
        BY <2>2, <1>2, <1>5
      <3>2. w = z \/ w = Hasta(z)
        BY <1>5
      <3> QED BY <3>1, <3>2, <2>1, <2>2, <1>5 DEF Miradas
    <2>3. CASE k # 0
      <3>1. Resto(a) + HEADER + s0 = T /\ w < fin /\ k = SaltoDe(escrito, w)
        BY <2>3, <1>10
      <3>2. LlegaAlFinal(Resto(a), y) /\ w = Hasta(z)
        BY <3>1, <1>9, <1>5
      <3>3. x = Tras(escrito, z)
        BY <3>1, <3>2, <1>2 DEF Tras
      <3>4. k \in Nat
        BY <3>1, <1>5, PropiedadesSalto
      <3> QED BY <3>1, <3>2, <3>3, <3>4, <2>1 DEF Miradas
    <2> QED BY <2>2, <2>3
  <1>12. s \in Nat /\ x \in Nat /\ Acaba(a, s, x)
    BY ONLY <1>1, <1>2, <1>5, <1>6, <1>11 DEF Acaba
  <1>13. w < fin \/ (x = w /\ s = s0)
    BY ONLY <1>2, <1>5, <1>6, <1>11
  <1> QED BY <1>5, <1>6, <1>7, <1>8, <1>11, <1>12, <1>13 DEF Busca, y, fin

-----------------------------------------------------------------------------
(* freeMuse: the tiles after it are those of the state.                      *)

LEMMA Liberado ==
  ASSUME NEW D, NEW pg, NEW e, NEW bl, NEW ot, Mosaico(D, pg, e, bl, ot), NEW b \in ot,
         NEW a, Vale(a, Cabeza(b)), NEW pf, PaginasBien(pf),
         NEW f, EscritoBien(f, Inicio(Len(pf))), NEW G, Teja(G, f, Inicio(Len(pf))),
         \A x \in D : x # a /\ ~Libre(e, x) => x \in G /\ Mismo(e, f, x),
         NEW cl, ListaBien(cl, G, f), UltimoBien(pf, EnLista(cl), G, f),
         \A x \in G : \/ x \in EnLista(cl) \/ Resto(Fin(f, x)) = 0
                      \/ x \in D /\ x \notin EnLista(bl) /\ Mismo(e, f, x)
  PROVE  Mosaico(G, pf, f, cl, Sin(ot, b))
  <1>1. DadosBien(ot, D, e) /\ \A x \in D : Hay(e, x)
    BY DeMosaico DEF Mosaico
  <1>2. \A x \in D : x # b.pos - HEADER /\ ~Libre(e, x) => x \in G /\ Mismo(e, f, x)
    BY DEF Vale, Cabeza
  <1>3. DadosBien(Sin(ot, b), G, f)
    BY <1>1, <1>2, DadosSacar
  <1>4. SueltosBien(EnLista(cl), G, f)
    <2>1. SueltosBien(EnLista(bl), D, e)
      BY DEF Mosaico
    <2> QED BY ONLY <1>1, <2>1, SueltosQuedan,
                    \A x \in G : \/ x \in EnLista(cl) \/ Resto(Fin(f, x)) = 0
                                 \/ x \in D /\ x \notin EnLista(bl) /\ Mismo(e, f, x)
  <1> QED BY <1>3, <1>4 DEF Mosaico

\* When all the other tiles are free, nothing else was given.
LEMMA NadieMas ==
  ASSUME NEW D, NEW pg, NEW e, NEW bl, NEW ot, Mosaico(D, pg, e, bl, ot), NEW b \in ot,
         NEW a, Vale(a, Cabeza(b)), \A x \in D : x # a => Libre(e, x)
  PROVE  Sin(ot, b) = {}
  <1> SUFFICES ASSUME NEW c \in Sin(ot, b) PROVE FALSE
    OBVIOUS
  <1>1. DadosBien(ot, D, e)
    BY DEF Mosaico
  <1>2. c \in ot /\ c # b
    BY DEF Sin
  <1>3. c.pos - HEADER \in D /\ ~Libre(e, c.pos - HEADER)
    BY <1>1, <1>2 DEF DadosBien
  <1>4. c.pos - HEADER = b.pos - HEADER
    BY <1>3 DEF Vale, Cabeza
  <1> QED BY ONLY <1>1, <1>2, <1>4, b \in ot, DadosDistintos

\* The page of the block, which says that its last header is its own.
LEMMA Propias ==
  ASSUME NEW D, Mosaico(D, paginas, escrito, bloquesLibres, otorgados), NEW b \in otorgados,
         NEW a, Vale(a, Cabeza(b)), NEW n, Vale(n, PaginaDe(a)), NEW pg, Vale(pg, ConPropio(b))
  PROVE  /\ PaginasBien(paginas) /\ PaginasBien(pg) /\ Len(pg) = Len(paginas)
         /\ Len(paginas) \in Nat /\ n \in Nat /\ n + 1 \in 1..Len(paginas)
         /\ IF LlegaAlFinal(Resto(a), Tam(escrito, a))
            THEN /\ pg[n + 1].ultimo_header = Resto(a) + 5
                 /\ \A j \in 1..Len(paginas) : j # n + 1 => pg[j] = paginas[j]
            ELSE pg = paginas
  <1>1. /\ a \in Nat /\ a < Inicio(Len(paginas)) /\ Resto(a) \in Nat /\ PaginaDe(a) \in Nat
        /\ Len(paginas) \in Nat
    <2>1. a \in D
      BY DeDado
    <2>2. a \in Nat /\ a + 5 <= Inicio(Len(paginas)) /\ Inicio(Len(paginas)) \in Nat
          /\ Len(paginas) \in Nat
      BY <2>1, DeMosaico
    <2> QED BY <2>2, Partes
  <1>2. n \in Nat /\ n + 1 \in 1..Len(paginas)
    <2>1. PaginaDe(a) < Len(paginas)
      BY <1>1, PaginaAntes
    <2> QED BY <2>1, <1>1 DEF Vale
  <1>3. PaginasBien(paginas)
    BY DEF Mosaico
  <1>4. CASE ~LlegaAlFinal(Resto(a), Tam(escrito, a))
    <2>1. pg = paginas
      BY <1>4 DEF ConPropio, Vale, Tam
    <2> QED BY <2>1, <1>1, <1>2, <1>3, <1>4
  <1>5. CASE LlegaAlFinal(Resto(a), Tam(escrito, a))
    <2>1. Vale(pg, ConHeaderUltimo(paginas, n + 1, Resto(a) + 5))
      BY <1>5, Constantes DEF ConPropio, Vale, Tam, ConHeaderUltimo
    <2>2. Resto(a) + 5 \in Nat
      BY <1>1
    <2> DEFINE u == Resto(a) + 5
               i == n + 1
    <2>3. u \in Nat /\ i \in 1..Len(paginas) /\ Vale(pg, ConHeaderUltimo(paginas, i, u))
      BY <2>1, <2>2, <1>2
    <2> HIDE DEF u, i
    <2>4. /\ PaginasBien(pg) /\ Len(pg) = Len(paginas) /\ pg[i].ultimo_header = u
          /\ \A j \in 1..Len(paginas) : j # i => pg[j] = paginas[j]
      BY ONLY <2>3, <1>3, UltimoCambia
    <2> QED BY <2>4, <1>1, <1>2, <1>3, <1>5 DEF u, i
  <1> QED BY <1>4, <1>5

\* The last header of the segment reaches the end.
LEMMA UltimoLlega ==
  ASSUME NEW D, Mosaico(D, paginas, escrito, bloquesLibres, otorgados), NEW b \in otorgados,
         NEW a, Vale(a, Cabeza(b)), NEW n, Vale(n, PaginaDe(a)), NEW pg, Vale(pg, ConPropio(b)),
         EsUltimo(pg, a)
  PROVE  LlegaAlFinal(Resto(a), Tam(escrito, a)) /\ n + 1 = Len(paginas)
  <1> DEFINE d == Resto(a)
             y == Tam(escrito, a)
             k == Len(paginas)
             fin == Inicio(k)
             i == Inicio(n)
             u == paginas[k].ultimo_header
             th == paginas[k].tamanio_header
  <1>1. /\ PaginasBien(paginas) /\ PaginasBien(pg) /\ Len(pg) = k
        /\ k \in Nat /\ n \in Nat /\ n + 1 \in 1..k
        /\ IF LlegaAlFinal(d, y)
           THEN /\ pg[n + 1].ultimo_header = d + 5
                /\ \A j \in 1..k : j # n + 1 => pg[j] = paginas[j]
           ELSE pg = paginas
    BY Propias
  <1>2. /\ a \in Nat /\ y \in Nat /\ y > 0 /\ a \in D /\ ~Libre(escrito, a) /\ d + 5 <= T
        /\ Fin(escrito, a) = a + 5 + y
    BY DeDado
  <1>3. pg[n + 1].esFinPag /\ pg[n + 1].ultimo_header = d + 5
    BY Constantes DEF EsUltimo, Vale
  <1>4. n + 1 = k
    BY <1>1, <1>3 DEF PaginasBien
  <1>5. d \in Nat /\ a = i + d /\ i \in Nat /\ fin = i + T
    <2>1. Resto(a) \in Nat /\ a = Inicio(PaginaDe(a)) + Resto(a)
      BY <1>2, Partes
    <2>2. Inicio(n) \in Nat /\ Inicio(n + 1) = Inicio(n) + T
      BY <1>1, Inicios
    <2> QED BY <2>1, <2>2, <1>4 DEF Vale
  <1>6. ASSUME ~LlegaAlFinal(d, y) PROVE FALSE
    <2>1. u = d + 5
      BY <1>1, <1>3, <1>4, <1>6
    <2>2. UltimoHeader(u, th, i, fin, EnLista(bloquesLibres), D, escrito)
      <3>1. k - 1 = n /\ k > 0
        BY <1>1, <1>4
      <3>2. UltimoBien(paginas, EnLista(bloquesLibres), D, escrito)
        BY DEF Mosaico
      <3> QED BY <3>1, <3>2 DEF UltimoBien
    <2>3. \A x \in D : /\ x \in Nat /\ Fin(escrito, x) = x + 5 + Tam(escrito, x)
                       /\ Tam(escrito, x) \in Nat
      BY DeMosaico
    <2>4. \A x \in D : a < x => Fin(escrito, a) <= x
      BY <1>2, DeMosaico
    <2> HIDE DEF d, y, fin, i, u, th, k
    <2>5. PICK x \in D : \/ x + 5 = i + u /\ Libre(escrito, x)
                         \/ /\ x + 5 = i + u \/ x = i + u
                            /\ Fin(escrito, x) >= fin - 4
      BY ONLY <2>1, <2>2, <1>5 DEF UltimoHeader
    <2>6. x \in Nat
      BY <2>3
    <2>7. CASE x + 5 = i + u
      <3>1. x = a
        BY ONLY <2>1, <2>6, <2>7, <1>2, <1>5
      <3>2. Fin(escrito, a) >= fin - 4
        BY <3>1, <2>5, <1>2, <2>1, <2>6, <1>5
      <3>3. d + 5 + y >= T - 4
        BY ONLY <3>2, <1>2, <1>5, Constantes
      <3>4. Fin(escrito, a) <= Inicio(k)
        BY <1>2, DeMosaico DEF k
      <3>5. T - (d + 5 + y) \in 0..4
        BY <3>3, <3>4, <1>2, <1>5, Constantes DEF fin
      <3> QED BY <3>5, <1>6, Constantes DEF LlegaAlFinal
    <2>8. CASE x = i + u
      <3>1. a < x
        BY ONLY <2>1, <2>8, <1>2, <1>5
      <3>2. Fin(escrito, a) <= x
        BY <3>1, <2>4
      <3> QED BY ONLY <3>2, <2>1, <2>8, <1>2, <1>5
    <2> QED BY ONLY <2>5, <2>7, <2>8
  <1> QED BY <1>4, <1>6

\* It is the last header: the segment goes, or its page says its size.
LEMMA LiberarUltimoBien ==
  ASSUME NEW D, Mosaico(D, paginas, escrito, bloquesLibres, otorgados), NEW b \in otorgados,
         NEW a, Vale(a, Cabeza(b)), NEW pg, Vale(pg, ConPropio(b)), EsUltimo(pg, a),
         NEW s0, Vale(s0, Devuelto(b)), LiberarUltimo(pg, a, s0),
         Vale(otorgados', Sin(otorgados, b))
  PROVE  \E G : Mosaico(G, paginas', escrito', bloquesLibres', otorgados')
  <1> DEFINE n == PaginaDe(a)
             d == Resto(a)
             y == Tam(escrito, a)
             k == Len(paginas)
             fin == Inicio(k)
             z == Fin(escrito, a)
             w == Detras(b)
             L == EnLista(bloquesLibres)
  <1>1. LlegaAlFinal(d, y) /\ n + 1 = k
    BY UltimoLlega DEF Vale
  <1>2. /\ a \in Nat /\ a \in D /\ ~Libre(escrito, a) /\ a \notin L
        /\ z \in Nat /\ z <= fin
    BY DeDado
  <1>3. s0 \in Nat /\ Acaba(a, s0, w) /\ z <= w /\ w <= Tras(escrito, z) /\ w = fin
    <2>1. Busca(escrito, z, w, Siguiente(b), s0, Devuelto(b) + SaltoTras(b), a, n, fin)
      BY Despues DEF Vale
    <2>2. /\ s0 \in Nat /\ Acaba(a, s0, w) /\ z <= w /\ w <= Siguiente(b)
          /\ Siguiente(b) <= Tras(escrito, z) /\ w = Inicio(n + 1)
          /\ w \in Nat /\ Siguiente(b) \in Nat
      BY <2>1, <1>1 DEF Busca
    <2>3. Tras(escrito, z) \in Nat
      BY <1>2, TrasNat
    <2> QED BY <2>2, <2>3, <1>1
  <1>4. /\ EscritoBien(escrito, fin) /\ Teja(D, escrito, fin) /\ k \in Nat /\ fin \in Nat
        /\ ListaBien(bloquesLibres, D, escrito)
        /\ \A x \in D : x \in Nat /\ Hay(escrito, x) /\ x + 5 <= fin
    BY DeMosaico DEF Mosaico
  <1>5. CASE a = 0 /\ vaciarSegmento
    <2>1. \A x \in D : x = a
      <3> SUFFICES ASSUME NEW x \in D, x # a PROVE FALSE
        OBVIOUS
      <3>1. x > a /\ x \in Nat
        BY <1>4, <1>5
      <3>2. x >= Tras(escrito, z)
        BY <3>1, <1>2, <1>4, TejasAlrededor
      <3>3. x + 5 <= fin /\ Tras(escrito, z) \in Nat
        BY <1>2, <1>4, TrasNat
      <3> QED BY <3>1, <3>2, <3>3, <1>3, <1>4
    <2>2. Sin(otorgados, b) = {}
      BY <2>1, NadieMas
    <2>3. otorgados' = {} /\ paginas' = <<>> /\ escrito' = <<>> /\ bloquesLibres' = <<>>
      BY <2>2, <1>5 DEF Vale, vaciarSegmento
    <2> QED BY <2>3, MosaicoVacio
  <1>6. CASE /\ a # 0
             /\ LiberarHeader(a, s0)
             /\ paginas' = [pg EXCEPT ![PaginaDe(a) + 1].tamanio_header = s0]
             /\ UNCHANGED <<bloquesLibres, paginas_usadas>>
    <2>1. /\ PaginasBien(pg) /\ Len(pg) = k /\ k \in 1..k
          /\ pg[k].ultimo_header = d + 5 /\ n \in Nat
      <3>1. /\ PaginasBien(pg) /\ Len(pg) = k /\ n + 1 \in 1..k /\ n \in Nat
            /\ pg[n + 1].ultimo_header = d + 5
        BY <1>1, Propias DEF Vale
      <3> QED BY <3>1, <1>1
    <2>2. Vale(paginas', ConTamanio(pg, k, s0))
      BY <1>6, <1>1 DEF Vale, ConTamanio
    <2>3. /\ PaginasBien(paginas') /\ Len(paginas') = k
          /\ paginas'[k].tamanio_header = s0 /\ paginas'[k].ultimo_header = d + 5
      <3> HIDE DEF k, d
      <3>1. /\ PaginasBien(paginas') /\ Len(paginas') = k /\ paginas'[k].tamanio_header = s0
            /\ paginas'[k].ultimo_header = pg[k].ultimo_header
        BY ONLY <2>1, <2>2, <1>3, TamanioCambia
      <3> QED BY <3>1, <2>1
    <2>4. Vale(escrito', HeaderLibre(escrito, a, s0)) /\ bloquesLibres' = bloquesLibres
      BY <1>6 DEF LiberarHeader, Vale, HeaderLibre
    <2> DEFINE f == escrito'
    <2>5. /\ EscritoBien(f, fin) /\ Teja(D, f, fin) /\ \A x \in D : x # a => Mismo(escrito, f, x)
          /\ Libre(f, a) /\ Tam(f, a) = s0 /\ Fin(f, a) = fin
      <3>1. Vale(fin, Inicio(k)) /\ fin \in Nat /\ k \in Nat
        BY <1>4 DEF Vale
      <3>2. Acaba(a, s0, fin) /\ z <= fin /\ fin <= Tras(escrito, z)
        BY <1>3
      <3>3. Vale(fin, fin)
        BY DEF Vale
      <3>4. Vale(f, HeaderLibre(escrito, a, s0)) /\ a \in D /\ s0 \in Nat
        BY <2>4, <1>2, <1>3
      <3>5. EscritoBien(escrito, fin) /\ Teja(D, escrito, fin)
        BY <1>4
      <3> HIDE DEF fin, k, f
      <3> QED BY ONLY <3>1, <3>2, <3>3, <3>4, <3>5, Devolver DEF z
    <2>6. ListaBien(bloquesLibres, D, f)
      <3>1. \A x \in L : x \in D /\ Mismo(escrito, f, x)
        BY <1>2, <2>5, DeMosaico
      <3> QED BY <3>1, <1>4, ListaIgual
    <2>7. UltimoBien(paginas', L, D, f)
      <3>1. a + 5 = Inicio(k - 1) + (d + 5) /\ d + 5 >= 5
        <4>1. Resto(a) \in Nat /\ a = Inicio(PaginaDe(a)) + Resto(a) /\ PaginaDe(a) \in Nat
          BY <1>2, Partes
        <4>2. Inicio(n) \in Nat /\ n \in Nat
          BY <4>1, Inicios
        <4>3. k - 1 = n
          BY <1>1, <4>2
        <4> QED BY <4>1, <4>2, <4>3
      <3>2. UltimoHeader(d + 5, s0, Inicio(k - 1), fin, L, D, f)
        <4>1. a \in D \ L /\ s0 \in {0, Tam(f, a)}
          BY <1>2, <2>5
        <4> QED BY <4>1, <3>1, <2>5 DEF UltimoHeader
      <3> QED BY <3>2, <2>3 DEF UltimoBien
    <2>8. Mosaico(D, paginas', f, bloquesLibres, Sin(otorgados, b))
      <3>1. EscritoBien(f, Inicio(Len(paginas'))) /\ Teja(D, f, Inicio(Len(paginas')))
        BY <2>3, <2>5
      <3>2. \A x \in D : x # a /\ ~Libre(escrito, x) => x \in D /\ Mismo(escrito, f, x)
        BY <2>5
      <3>3. Resto(Fin(f, a)) = 0
        BY <1>4, <2>5, RestoDePagina
      <3>4. \A x \in D : \/ x \in L \/ Resto(Fin(f, x)) = 0
                         \/ x \in D /\ x \notin L /\ Mismo(escrito, f, x)
        BY <2>5, <3>3
      <3> HIDE DEF f
      <3> QED BY <3>1, <3>2, <3>4, <2>3, <2>6, <2>7, Liberado
    <2> QED BY <2>8, <2>4 DEF Vale
  <1> QED BY <1>5, <1>6 DEF LiberarUltimo

\* A header does not go out of the pages.
LEMMA HeaderCabe ==
  ASSUME NEW e, NEW k \in Nat, NEW fin, Vale(fin, Inicio(k)), EscritoBien(e, fin), NEW x, Hay(e, x)
  PROVE  x \in Nat /\ x + 5 <= fin /\ Fin(e, x) \in Nat /\ x + 5 <= Fin(e, x) /\ Tam(e, x) \in Nat
         /\ Fin(e, x) = x + 5 + Tam(e, x) /\ Resto(x) + 5 <= T
  <1>1. /\ x \in Nat /\ x < fin /\ Resto(x) + 5 <= T /\ Fin(e, x) \in Nat /\ x + 5 <= Fin(e, x)
        /\ Tam(e, x) \in Nat
    BY HayDe, Constantes
  <1>2. PaginaDe(x) \in Nat /\ Resto(x) \in Nat /\ x = Inicio(PaginaDe(x)) + Resto(x)
    BY <1>1, Partes
  <1>3. Inicio(PaginaDe(x)) + T <= fin
    <2>1. PaginaDe(x) < k
      BY <1>1, <1>2, PaginaAntes DEF Vale
    <2> QED BY <2>1, <1>2, Creciente DEF Vale
  <1>4. fin \in Nat /\ Inicio(PaginaDe(x)) \in Nat
    BY <1>2, Inicios DEF Vale
  <1>5. Fin(e, x) = x + 5 + Tam(e, x)
    BY Constantes DEF Fin
  <1>6. x + 5 <= fin
    <2> DEFINE i == Inicio(PaginaDe(x))
               r == Resto(x)
    <2>1. i \in Nat /\ r \in Nat /\ x = i + r /\ i + T <= fin /\ r + 5 <= T
      BY <1>1, <1>2, <1>3, <1>4
    <2> HIDE DEF i, r
    <2> QED BY ONLY <2>1, <1>4, Constantes
  <1> QED BY <1>1, <1>5, <1>6

\* What the last page says is still so.
LEMMA UltimoSigue ==
  ASSUME NEW D, NEW pg, NEW e, NEW bl, NEW ot, Mosaico(D, pg, e, bl, ot),
         NEW pf, MismaUltima(pg, pf), NEW M, NEW G, NEW f, NEW X,
         Guarda(D, X, e, EnLista(bl), G, f, M),
         Len(pg) > 0 => NoUltimas(X, e, EnLista(bl), pg[Len(pg)].ultimo_header,
                                  Inicio(Len(pg) - 1), Inicio(Len(pg)))
  PROVE  UltimoBien(pf, M, G, f)
  <1> SUFFICES ASSUME Len(pf) > 0
               PROVE  UltimoHeader(pf[Len(pf)].ultimo_header, pf[Len(pf)].tamanio_header,
                                   Inicio(Len(pf) - 1), Inicio(Len(pf)), M, G, f)
    BY DEF UltimoBien
  <1> DEFINE u == pg[Len(pg)].ultimo_header
             th == pg[Len(pg)].tamanio_header
             th2 == pf[Len(pf)].tamanio_header
             base == Inicio(Len(pg) - 1)
             fin == Inicio(Len(pg))
             L == EnLista(bl)
  <1>1. /\ Len(pf) = Len(pg) /\ pf[Len(pf)].ultimo_header = u
        /\ Len(pg) > 0
    BY DEF MismaUltima
  <1>2. Len(pf) = Len(pg) /\ pf[Len(pf)].ultimo_header = u
    BY DEF MismaUltima
  <1>3. UltimoHeader(u, th, base, fin, L, D, e)
    BY <1>1, <1>2 DEF Mosaico, UltimoBien
  <1>4. \A x \in D : Hay(e, x)
    BY DeMosaico
  <1>5. Guarda(D, X, e, L, G, f, M) /\ NoUltimas(X, e, L, u, base, fin)
    BY <1>1, <1>2
  <1>6. th2 = th \/ th2 = 0
    BY DEF MismaUltima
  <1> HIDE DEF u, th, th2, base, fin, L
  <1>7. UltimoHeader(u, th2, base, fin, M, G, f)
    BY ONLY <1>3, <1>4, <1>5, <1>6, UltimoQueda
  <1> QED BY <1>7, <1>2 DEF u, th2, base, fin

\* When there is a page after it, the last page says what it said.
LEMMA UltimaNoEsPropia ==
  ASSUME NEW D, Mosaico(D, paginas, escrito, bloquesLibres, otorgados), NEW b \in otorgados,
         NEW a, Vale(a, Cabeza(b)), NEW pg, Vale(pg, ConPropio(b)), Existe(PaginaDe(Detras(b)))
  PROVE  /\ MismaUltima(paginas, pg) /\ PaginasBien(pg) /\ Len(pg) = Len(paginas)
         /\ Len(paginas) > 0 /\ pg[Len(paginas)] = paginas[Len(paginas)]
  <1> DEFINE n == PaginaDe(a)
             k == Len(paginas)
             z == Fin(escrito, a)
             w == Detras(b)
             fin == Inicio(k)
  <1>1. /\ PaginasBien(pg) /\ Len(pg) = k /\ k \in Nat /\ n \in Nat /\ n + 1 \in 1..k
        /\ LlegaAlFinal(Resto(a), Tam(escrito, a)) =>
             \A j \in 1..k : j # n + 1 => pg[j] = paginas[j]
        /\ ~LlegaAlFinal(Resto(a), Tam(escrito, a)) => pg = paginas
    BY Propias DEF Vale
  <1>2. /\ w < fin
        /\ LlegaAlFinal(Resto(a), Tam(escrito, a)) => w = Inicio(n + 1)
    <2>1. /\ Existe(PaginaDe(w)) <=> w < fin
          /\ Busca(escrito, z, w, Siguiente(b), Devuelto(b), Devuelto(b) + SaltoTras(b), a, n, fin)
      BY Despues DEF Vale
    <2> QED BY <2>1 DEF Busca
  <1>3. pg[k] = paginas[k]
    <2>1. CASE LlegaAlFinal(Resto(a), Tam(escrito, a))
      <3>1. n + 1 # k
        <4>1. Inicio(k) \in Nat
          BY <1>1, Inicios
        <4> QED BY <4>1, <1>2, <2>1
      <3>2. k \in 1..k
        BY <1>1
      <3> QED BY <3>1, <3>2, <1>1, <2>1
    <2>2. CASE ~LlegaAlFinal(Resto(a), Tam(escrito, a))
      BY <2>2, <1>1
    <2> QED BY <2>1, <2>2
  <1>4. k > 0
    BY <1>1
  <1> QED BY <1>1, <1>3, <1>4 DEF MismaUltima

\* The next header is not free: it goes to the list.
LEMMA LiberarSoloBien ==
  ASSUME NEW D, Mosaico(D, paginas, escrito, bloquesLibres, otorgados), NEW b \in otorgados,
         NEW a, Vale(a, Cabeza(b)), NEW pg, Vale(pg, ConPropio(b)), Existe(PaginaDe(Detras(b))),
         NEW x, Vale(x, Siguiente(b)), HayHeader(x), ~escrito[x].isFree,
         NEW s, Vale(s, Devuelto(b) + SaltoTras(b)), LiberarSolo(pg, a, s),
         Vale(otorgados', Sin(otorgados, b))
  PROVE  \E G : Mosaico(G, paginas', escrito', bloquesLibres', otorgados')
  <1> DEFINE n == PaginaDe(a)
             d == Resto(a)
             k == Len(paginas)
             fin == Inicio(k)
             z == Fin(escrito, a)
             L == EnLista(bloquesLibres)
             f == escrito'
  <1>1. /\ a \in Nat /\ a \in D /\ ~Libre(escrito, a) /\ a \notin L
        /\ z \in Nat /\ z <= fin
    BY DeDado
  <1>2. s \in Nat /\ Acaba(a, s, x) /\ x \in Nat /\ z <= x /\ x <= Tras(escrito, z)
    <2>1. Busca(escrito, z, Detras(b), x, Devuelto(b), s, a, n, fin)
      BY Despues DEF Vale
    <2>2. /\ s \in Nat /\ Acaba(a, s, x) /\ x \in Nat /\ z <= Detras(b) /\ Detras(b) <= x
          /\ x <= Tras(escrito, z) /\ Detras(b) \in Nat
      BY <2>1 DEF Busca
    <2> QED BY <2>2, <1>1
  <1>3. /\ EscritoBien(escrito, fin) /\ Teja(D, escrito, fin) /\ k \in Nat /\ fin \in Nat
        /\ ListaBien(bloquesLibres, D, escrito) /\ Vale(fin, Inicio(k))
    BY DeMosaico DEF Mosaico, Vale
  <1>4. Hay(escrito, x) /\ ~Libre(escrito, x)
    BY DEF HayHeader, Hay, Libre
  <1>5. /\ MismaUltima(paginas, pg) /\ PaginasBien(pg) /\ Len(pg) = k
    BY UltimaNoEsPropia
  <1>6. /\ Vale(f, HeaderLibre(escrito, a, s)) /\ paginas' = pg
        /\ Vale(bloquesLibres', agregar_bloque_libre(bloquesLibres, n, d, s))
    BY DEF LiberarSolo, LiberarHeader, Vale, HeaderLibre
  <1>7. /\ EscritoBien(f, fin) /\ Teja(D, f, fin) /\ \A y \in D : y # a => Mismo(escrito, f, y)
        /\ Libre(f, a) /\ Tam(f, a) = s /\ Fin(f, a) = x
    <2>1. /\ EscritoBien(escrito, fin) /\ Teja(D, escrito, fin) /\ k \in Nat /\ fin \in Nat
          /\ Vale(fin, Inicio(k)) /\ a \in D /\ Vale(f, HeaderLibre(escrito, a, s))
      BY <1>1, <1>3, <1>6
    <2>2. Vale(x, fin) \/ (Hay(escrito, x) /\ ~Libre(escrito, x))
      BY <1>4
    <2> HIDE DEF fin, k, f
    <2> QED BY ONLY <2>1, <1>2, <2>2, Devolver DEF z
  <1>8. ListaBien(bloquesLibres', D, f) /\ EnLista(bloquesLibres') = Con(L, a)
    <2>1. ListaBien(bloquesLibres, D, f)
      <3>1. \A y \in L : y \in D /\ Mismo(escrito, f, y)
        BY <1>1, <1>7, DeMosaico
      <3> QED BY <3>1, <1>3, ListaIgual
    <2>2. n \in Nat /\ d \in Nat /\ d < T /\ EnPagina(n, d, a)
      BY <1>1, Partes DEF EnPagina
    <2>3. a \in D /\ Libre(f, a) /\ Tam(f, a) = s /\ a \notin L
      BY <1>1, <1>7
    <2> HIDE DEF n, d, f
    <2> QED BY ONLY <2>1, <2>2, <2>3, <1>2, <1>6, ListaAgregar DEF L
  <1>9. UltimoBien(pg, Con(L, a), D, f)
    <2>1. Guarda(D, {a}, escrito, L, D, f, Con(L, a))
      BY <1>7 DEF Guarda, Con
    <2>2. NoUltimas({a}, escrito, L, paginas[k].ultimo_header, Inicio(k - 1), fin)
      <3>1. x + 5 <= fin
        BY <1>3, <1>4, HeaderCabe
      <3>2. ~(z >= fin - 4)
        BY <3>1, <1>1, <1>2, <1>3
      <3> QED BY <3>2, <1>1 DEF NoUltimas
    <2> HIDE DEF f
    <2> QED BY ONLY <2>1, <2>2, <1>5, UltimoSigue,
                    Mosaico(D, paginas, escrito, bloquesLibres, otorgados) DEF L, k, fin
  <1>10. Mosaico(D, pg, f, bloquesLibres', Sin(otorgados, b))
    <2>1. EscritoBien(f, Inicio(Len(pg))) /\ Teja(D, f, Inicio(Len(pg)))
      BY <1>5, <1>7
    <2>2. \A y \in D : y # a /\ ~Libre(escrito, y) => y \in D /\ Mismo(escrito, f, y)
      BY <1>7
    <2>3. UltimoBien(pg, EnLista(bloquesLibres'), D, f)
      BY <1>8, <1>9
    <2>4. \A y \in D : \/ y \in EnLista(bloquesLibres') \/ Resto(Fin(f, y)) = 0
                       \/ y \in D /\ y \notin L /\ Mismo(escrito, f, y)
      BY <1>7, <1>8 DEF Con
    <2> HIDE DEF f
    <2> QED BY <2>1, <2>2, <2>3, <2>4, <1>5, <1>8, Liberado
  <1> QED BY <1>10, <1>6 DEF Vale

\* The next header is free: it begins a tile, the next one.
LEMMA SigueTeja ==
  ASSUME NEW D, Mosaico(D, paginas, escrito, bloquesLibres, otorgados), NEW b \in otorgados,
         NEW a, Vale(a, Cabeza(b)), NEW x, Vale(x, Siguiente(b)), HayHeader(x), escrito[x].isFree,
         NEW s, Vale(s, Devuelto(b) + SaltoTras(b)),
         NEW f, Vale(f, HeaderLibre(escrito, a, s + HEADER + escrito[x].size)),
         NEW fin, Vale(fin, Inicio(Len(paginas)))
  PROVE  /\ x \in D /\ x \in Nat /\ Libre(escrito, x) /\ a < x /\ a \in Nat /\ a \in D
         /\ s + HEADER + escrito[x].size \in Nat
         /\ Resto(x) \in Nat /\ Resto(x) + 5 <= T
         /\ \A y \in D : y > a => y = x \/ y >= Fin(escrito, x)
         /\ x + 5 <= fin /\ x + 5 <= Fin(escrito, x) /\ Fin(escrito, x) <= fin
         /\ EscritoBien(f, fin) /\ Teja(Sin(D, x), f, fin)
         /\ \A y \in D : y # a /\ y # x => Mismo(escrito, f, y)
         /\ Libre(f, a) /\ Tam(f, a) = s + HEADER + escrito[x].size
         /\ Fin(f, a) = Fin(escrito, x)
  <1> DEFINE n == PaginaDe(a)
             k == Len(paginas)
             z == Fin(escrito, a)
             st == s + HEADER + escrito[x].size
  <1>1. /\ a \in Nat /\ a \in D /\ ~Libre(escrito, a) /\ z \in Nat
    BY DeDado
  <1>2. s \in Nat /\ Acaba(a, s, x) /\ x \in Nat /\ x \in Miradas(escrito, z)
    <2>1. Busca(escrito, z, Detras(b), x, Devuelto(b), s, a, n, Inicio(k))
      BY Despues DEF Vale
    <2> QED BY <2>1 DEF Busca
  <1>3. /\ EscritoBien(escrito, fin) /\ Teja(D, escrito, fin) /\ k \in Nat /\ fin \in Nat
    BY DeMosaico DEF Mosaico, Vale
  <1>4. Hay(escrito, x) /\ Libre(escrito, x)
    BY DEF HayHeader, Hay, Libre
  <1>5. x \in D
    BY <1>1, <1>2, <1>3, <1>4, LoMiradoEsTeja
  <1>6. /\ x + 5 <= Inicio(k) /\ Fin(escrito, x) \in Nat /\ x + 5 <= Fin(escrito, x)
        /\ Tam(escrito, x) \in Nat /\ Fin(escrito, x) = x + 5 + Tam(escrito, x)
        /\ Resto(x) + 5 <= T
    <2>1. Vale(Inicio(k), Inicio(k)) /\ EscritoBien(escrito, Inicio(k))
      BY <1>3 DEF Vale
    <2> QED BY ONLY <2>1, <1>3, <1>4, HeaderCabe
  <1>7. Fin(escrito, x) <= fin
    BY <1>3, <1>5 DEF Teja
  <1>8. st \in Nat /\ Acaba(a, st, Fin(escrito, x))
    <2> DEFINE y == Tam(escrito, x)
    <2>1. st = s + HEADER + y /\ y \in Nat /\ Fin(escrito, x) = x + 5 + y
      BY <1>6 DEF Tam
    <2> HIDE DEF st, y
    <2> QED BY ONLY <2>1, <1>1, <1>2, Constantes DEF Acaba
  <1>9. Vale(f, HeaderLibre(escrito, a, st))
    OBVIOUS
  <1>10. Resto(x) \in Nat
    BY <1>2, Partes
  <1>11. x + 5 <= fin
    BY <1>6 DEF Vale
  <1> HIDE DEF st
  <1>12. /\ EscritoBien(f, fin) /\ Teja(Sin(D, x), f, fin) /\ a < x
         /\ \A y \in D : y # a /\ y # x => Mismo(escrito, f, y)
         /\ \A y \in D : y > a => y = x \/ y >= Fin(escrito, x)
         /\ Libre(f, a) /\ Tam(f, a) = st /\ Fin(f, a) = Fin(escrito, x)
    BY ONLY <1>1, <1>2, <1>3, <1>5, <1>8, <1>9, DevolverYUnir DEF z
  <1> QED BY <1>1, <1>2, <1>4, <1>5, <1>6, <1>7, <1>8, <1>10, <1>11, <1>12 DEF st

\* The next one is the last one, and they are one.
LEMMA JuntarConUltimoBien ==
  ASSUME NEW D, Mosaico(D, paginas, escrito, bloquesLibres, otorgados), NEW b \in otorgados,
         NEW a, Vale(a, Cabeza(b)), NEW pg, Vale(pg, ConPropio(b)), ~EsUltimo(pg, a),
         NEW x, Vale(x, Siguiente(b)), SigueUltimo(b), ~Tuerce(b),
         NEW s, Vale(s, Devuelto(b) + SaltoTras(b)), JuntarConUltimo(pg, a, s, x),
         Vale(otorgados', Sin(otorgados, b))
  PROVE  \E G : Mosaico(G, paginas', escrito', bloquesLibres', otorgados')
  <1> DEFINE n == PaginaDe(a)
             d == Resto(a)
             k == Len(paginas)
             fin == Inicio(k)
             L == EnLista(bloquesLibres)
             st == s + HEADER + escrito[x].size
             h == HeaderLibre(escrito, a, st)
  <1>1. HayHeader(x) /\ escrito[x].isFree /\ EsUltimo(pg, x) /\ Existe(PaginaDe(Detras(b)))
    BY DEF SigueUltimo, Vale
  <1>2. /\ x \in D /\ x \in Nat /\ Libre(escrito, x) /\ a < x /\ a \in Nat /\ a \in D
        /\ st \in Nat /\ Resto(x) \in Nat /\ Resto(x) + 5 <= T
        /\ \A y \in D : y > a => y = x \/ y >= Fin(escrito, x)
        /\ x + 5 <= fin /\ x + 5 <= Fin(escrito, x) /\ Fin(escrito, x) <= fin
        /\ EscritoBien(h, fin) /\ Teja(Sin(D, x), h, fin)
        /\ \A y \in D : y # a /\ y # x => Mismo(escrito, h, y)
        /\ Libre(h, a) /\ Tam(h, a) = st /\ Fin(h, a) = Fin(escrito, x)
    <2>1. /\ Vale(fin, Inicio(Len(paginas)))
          /\ Vale(h, HeaderLibre(escrito, a, s + HEADER + escrito[x].size))
      BY DEF Vale
    <2> HIDE DEF fin, h
    <2> QED BY <2>1, <1>1, SigueTeja DEF st
  <1>3. /\ k \in Nat /\ fin \in Nat /\ ListaBien(bloquesLibres, D, escrito)
        /\ a \notin L /\ Fin(escrito, x) \in Nat
        /\ \A y \in D : y \in Nat /\ y + 5 <= fin
    BY DeMosaico, DeDado, <1>2, SMTT(30) DEF Mosaico
  <1>4. Fin(escrito, x) = fin /\ (a = 0 \/ PaginaDe(x) = n)
    <2>1. ~EsUltimo(ConPropio(b), Cabeza(b))
      BY DEF Vale
    <2>2. /\ ~(Cabeza(b) # 0 /\ PaginaDe(x) # PaginaDe(Cabeza(b)))
          /\ ~(x + HEADER + escrito[x].size < Inicio(Len(paginas)))
      BY <2>1 DEF Tuerce, Vale
    <2>3. ~(Fin(escrito, x) < fin)
      BY <2>2 DEF Fin, Tam
    <2> QED BY <2>2, <2>3, <1>2, <1>3 DEF Vale
  <1>5. CASE a = 0 /\ vaciarSegmento
    <2>1. \A y \in D : y # a => y = x
      <3> SUFFICES ASSUME NEW y \in D, y # a, y # x PROVE FALSE
        OBVIOUS
      <3>1. y \in Nat /\ y + 5 <= fin /\ y > a
        BY <1>3, <1>5
      <3>2. y >= fin
        BY <3>1, <1>2, <1>4
      <3> QED BY <3>1, <3>2, <1>3
    <2>2. Sin(otorgados, b) = {}
      <3>1. \A y \in D : y # a => Libre(escrito, y)
        BY <2>1, <1>2
      <3> QED BY <3>1, NadieMas
    <2>3. otorgados' = {} /\ paginas' = <<>> /\ escrito' = <<>> /\ bloquesLibres' = <<>>
      BY <2>2, <1>5 DEF Vale, vaciarSegmento
    <2> QED BY <2>3, MosaicoVacio
  <1>6. CASE /\ a # 0 /\ n = PaginaDe(x)
             /\ LiberarHeader(a, st)
             /\ paginas' = ConUltimo(pg, n, TRUE, st, d + HEADER)
             /\ bloquesLibres' = remover_bloque_libre(bloquesLibres, n, Resto(x) + HEADER)
    <2> DEFINE f == escrito'
               G == Sin(D, x)
    <2>0. /\ n \in Nat /\ d \in Nat /\ Inicio(n) \in Nat
          /\ a = Inicio(n) + d /\ x = Inicio(n) + Resto(x)
      BY <1>2, <1>6, Partes, Inicios
    <2>1. f = h
      BY <1>6 DEF LiberarHeader, HeaderLibre
    <2>2. /\ PaginasBien(pg) /\ Len(pg) = k /\ n + 1 = k /\ k \in 1..k /\ pg[k].esFinPag
      <3>1. /\ PaginasBien(pg) /\ Len(pg) = k
        BY <1>1, UltimaNoEsPropia
      <3>2. n + 1 \in 1..k
        BY Propias DEF Vale
      <3>3. pg[n + 1].esFinPag
        BY <1>1, <1>6 DEF EsUltimo
      <3>4. n + 1 = k
        BY <3>1, <3>2, <3>3 DEF PaginasBien
      <3> QED BY <3>1, <3>2, <3>3, <3>4
    <2>3. /\ PaginasBien(paginas') /\ Len(paginas') = k
          /\ paginas'[k].tamanio_header = st /\ paginas'[k].ultimo_header = d + 5
      <3> DEFINE u == d + 5
      <3>1. Vale(paginas', ConDos(pg, k, st, u))
        <4>1. paginas' = [pg EXCEPT ![n + 1] = Pagina(TRUE, st, d + 5)]
          BY <1>6, Constantes DEF ConUltimo
        <4>2. pg[k].esFinPag = TRUE
          BY <2>2, PaginasDe
        <4> QED BY <4>1, <4>2, <2>2 DEF Vale, ConDos
      <3>2. u \in Nat
        BY <2>0
      <3> HIDE DEF k, st, u
      <3>3. /\ PaginasBien(paginas') /\ Len(paginas') = k /\ paginas'[k].tamanio_header = st
            /\ paginas'[k].ultimo_header = u
        BY ONLY <2>2, <3>1, <3>2, <1>2, PaginaCambia
      <3> QED BY <3>3 DEF u
    <2>4. ListaBien(bloquesLibres', D, escrito) /\ EnLista(bloquesLibres') = Sin(L, x)
      <3> DEFINE q == Resto(x) + 5
      <3>1. q \in Nat /\ 5 <= q /\ q < T + 5 /\ n \in Nat /\ PosDe(n, q, x)
        BY <1>2, <2>0, Constantes, SMTT(30) DEF PosDe
      <3>2. Vale(bloquesLibres', remover_bloque_libre(bloquesLibres, n, q))
        BY <1>6, Constantes DEF Vale
      <3> HIDE DEF q, n
      <3> QED BY ONLY <3>1, <3>2, <1>3, ListaSacar DEF L
    <2>5. ListaBien(bloquesLibres', G, f)
      <3>1. \A y \in EnLista(bloquesLibres') : y \in G /\ Mismo(escrito, f, y)
        <4>1. \A y \in L : y \in D
          BY DeMosaico
        <4> QED BY <4>1, <2>1, <2>4, <1>2, <1>3 DEF Sin
      <3> QED BY <3>1, <2>4, ListaIgual
    <2>6. UltimoBien(paginas', EnLista(bloquesLibres'), G, f)
      <3>1. a \in G /\ a \notin Sin(L, x)
        BY <1>2, <1>3 DEF Sin
      <3>2. a + 5 = Inicio(k - 1) + (d + 5) /\ d + 5 >= 5
        <4>1. k - 1 = n
          BY <2>0, <2>2
        <4> QED BY <4>1, <2>0
      <3>3. Libre(f, a) /\ Fin(f, a) = fin /\ st \in {0, Tam(f, a)}
        BY <1>2, <1>4, <2>1
      <3>4. UltimoHeader(d + 5, st, Inicio(k - 1), fin, Sin(L, x), G, f)
        BY <3>1, <3>2, <3>3 DEF UltimoHeader
      <3> QED BY <3>4, <2>3, <2>4 DEF UltimoBien
    <2>7. Mosaico(G, paginas', f, bloquesLibres', Sin(otorgados, b))
      <3>1. EscritoBien(f, Inicio(Len(paginas'))) /\ Teja(G, f, Inicio(Len(paginas')))
        BY <2>1, <2>3, <1>2
      <3>2. \A y \in D : y # a /\ ~Libre(escrito, y) => y \in G /\ Mismo(escrito, f, y)
        BY <1>2, <2>1 DEF Sin
      <3>3. Resto(Fin(f, a)) = 0
        BY <1>2, <1>3, <1>4, <2>1, RestoDePagina
      <3>4. \A y \in G : \/ y \in EnLista(bloquesLibres') \/ Resto(Fin(f, y)) = 0
                         \/ y \in D /\ y \notin L /\ Mismo(escrito, f, y)
        BY <1>2, <2>1, <2>4, <3>3 DEF Sin
      <3> HIDE DEF f, G
      <3> QED BY <3>1, <3>2, <3>4, <2>3, <2>5, <2>6, Liberado
    <2> QED BY <2>7 DEF Vale
  <1>7. CASE a # 0 /\ PaginaDe(x) = n + 1
    <2>1. n \in Nat
      BY <1>2, Partes
    <2> QED BY <2>1, <1>4, <1>7
  <1> QED BY <1>5, <1>6, <1>7 DEF JuntarConUltimo

\* The next header is not the one that the last page says.
LEMMA SigueNoUltima ==
  ASSUME NEW D, Mosaico(D, paginas, escrito, bloquesLibres, otorgados), NEW b \in otorgados,
         NEW a, Vale(a, Cabeza(b)), NEW pg, Vale(pg, ConPropio(b)), Existe(PaginaDe(Detras(b))),
         NEW x \in Nat, NEW k, Vale(k, Len(paginas)), NEW fin, Vale(fin, Inicio(k)), x < fin,
         ~EsUltimo(pg, x), NEW u, Vale(u, paginas[k].ultimo_header), u >= 5
  PROVE  x + 5 # Inicio(k - 1) + u
  <1>1. /\ PaginasBien(pg) /\ Len(pg) = k /\ k > 0 /\ pg[k] = paginas[k]
    BY UltimaNoEsPropia DEF Vale
  <1>2. k \in Nat /\ k - 1 \in Nat /\ u \in Nat /\ pg[k].esFinPag /\ pg[k].ultimo_header = u
    <2>1. k \in Nat /\ k \in 1..k
      BY <1>1, PaginasDe
    <2> QED BY <2>1, <1>1, PaginasDe DEF Vale
  <1> DEFINE m == k - 1
             i == Inicio(m)
  <1>3. i \in Nat /\ fin = i + T /\ m + 1 = k
    <2>1. m \in Nat /\ m + 1 = k /\ fin = Inicio(k)
      BY <1>2 DEF Vale
    <2> HIDE DEF m
    <2>2. Inicio(m) \in Nat /\ Inicio(m + 1) = Inicio(m) + T
      BY ONLY <2>1, Inicios
    <2> QED BY <2>1, <2>2
  <1> SUFFICES ASSUME x + 5 = i + u PROVE FALSE
    OBVIOUS
  <1>4. i <= x /\ x < i + T /\ m \in Nat
    BY <1>2, <1>3
  <1>5. PaginaDe(x) = m /\ Resto(x) = x - i
    <2>1. Inicio(m) <= x /\ x < Inicio(m) + T /\ m \in Nat
      BY <1>4
    <2> HIDE DEF m
    <2> QED BY ONLY <2>1, x \in Nat, MismaPagina DEF i
  <1>6. Resto(x) + HEADER = u /\ PaginaDe(x) + 1 = k
    BY <1>2, <1>3, <1>5, Constantes, SMTT(30)
  <1> QED BY <1>6, <1>2 DEF EsUltimo

\* The next one is free: the list has both as one.
LEMMA JuntarConSiguienteBien ==
  ASSUME NEW D, Mosaico(D, paginas, escrito, bloquesLibres, otorgados), NEW b \in otorgados,
         NEW a, Vale(a, Cabeza(b)), NEW pg, Vale(pg, ConPropio(b)), Existe(PaginaDe(Detras(b))),
         NEW x, Vale(x, Siguiente(b)), HayHeader(x), escrito[x].isFree, ~EsUltimo(pg, x),
         NEW s, Vale(s, Devuelto(b) + SaltoTras(b)), JuntarConSiguiente(pg, a, s, x),
         Vale(otorgados', Sin(otorgados, b))
  PROVE  \E G : Mosaico(G, paginas', escrito', bloquesLibres', otorgados')
  <1> DEFINE n == PaginaDe(a)
             n2 == PaginaDe(x)
             d == Resto(a)
             k == Len(paginas)
             fin == Inicio(k)
             L == EnLista(bloquesLibres)
             st == s + HEADER + escrito[x].size
             f == escrito'
             G == Sin(D, x)
             bk == remover_bloque_libre(bloquesLibres, n2, Resto(x) + HEADER)
  <1>1. Vale(f, HeaderLibre(escrito, a, st))
    BY DEF JuntarConSiguiente, LiberarHeader, HeaderLibre, Vale
  <1>2. /\ x \in D /\ x \in Nat /\ Libre(escrito, x) /\ a < x /\ a \in Nat /\ a \in D
        /\ st \in Nat /\ Resto(x) \in Nat /\ Resto(x) + 5 <= T
        /\ x + 5 <= fin /\ x + 5 <= Fin(escrito, x) /\ Fin(escrito, x) <= fin
        /\ EscritoBien(f, fin) /\ Teja(G, f, fin)
        /\ \A y \in D : y # a /\ y # x => Mismo(escrito, f, y)
        /\ Libre(f, a) /\ Tam(f, a) = st
    <2>1. /\ Vale(fin, Inicio(Len(paginas)))
          /\ Vale(f, HeaderLibre(escrito, a, s + HEADER + escrito[x].size))
      BY <1>1 DEF Vale
    <2> HIDE DEF fin, f
    <2> QED BY <2>1, SigueTeja DEF st
  <1>3. /\ k \in Nat /\ fin \in Nat /\ ListaBien(bloquesLibres, D, escrito)
        /\ a \notin L /\ ~Libre(escrito, a) /\ Fin(escrito, a) \in Nat
        /\ Fin(escrito, a) <= x /\ L \subseteq D
        /\ Fin(escrito, x) = x + 5 + Tam(escrito, x) /\ Tam(escrito, x) \in Nat
        /\ Fin(escrito, x) \in Nat
    <2>1. a \notin L /\ ~Libre(escrito, a)
      BY DeDado
    <2> QED BY <2>1, DeMosaico, <1>2 DEF Mosaico
  <1>4. /\ MismaUltima(paginas, pg) /\ PaginasBien(pg) /\ Len(pg) = k
        /\ k > 0 /\ pg[k] = paginas[k]
    BY UltimaNoEsPropia
  <1>5. /\ n \in Nat /\ d \in Nat /\ d < T /\ a = Inicio(n) + d
        /\ n2 \in Nat /\ x = Inicio(n2) + Resto(x)
    BY <1>2, Partes
  <1>6. PaginasBien(paginas') /\ Len(paginas') = k /\ MismaUltima(paginas, paginas')
    <2>1. CASE ~(escrito[x].size + Resto(x) = T)
      <3>1. paginas' = pg
        BY <2>1 DEF JuntarConSiguiente
      <3> QED BY <3>1, <1>4
    <2>2. CASE escrito[x].size + Resto(x) = T
      <3>1. Vale(paginas', ConHeaderUltimo(pg, n2 + 1, 0))
        BY <2>2 DEF JuntarConSiguiente, Vale, ConHeaderUltimo
      <3>2. n2 + 1 \in 1..k /\ n2 + 1 # k
        <4>1. Inicio(n2) \in Nat /\ Inicio(n2 + 1) = Inicio(n2) + T
          BY <1>5, Inicios
        <4>2. Tam(escrito, x) + Resto(x) = T
          BY <2>2 DEF Tam
        <4> DEFINE i == Inicio(n2)
                   j == Inicio(n2 + 1)
                   r == Resto(x)
                   y == Tam(escrito, x)
                   v == Fin(escrito, x)
        <4>3. /\ x = i + r /\ i \in Nat /\ r \in Nat /\ y \in Nat /\ y + r = T /\ j = i + T
              /\ v = x + 5 + y /\ v <= fin /\ v \in Nat
          BY <4>1, <4>2, <1>2, <1>3, <1>5
        <4> HIDE DEF i, j, r, y, v, fin
        <4>4. j + 5 <= fin /\ j \in Nat
          BY ONLY <4>3, <1>3, Constantes
        <4>5. n2 + 1 # k
          <5>1. n2 + 1 = k => j = fin
            BY DEF j, fin
          <5> QED BY ONLY <5>1, <4>4, <1>3
        <4>6. n2 < k
          <5>1. x < fin
            BY <1>2, <1>3
          <5> QED BY <5>1, <1>2, <1>3, PaginaAntes DEF fin
        <4> QED BY <4>5, <4>6, <1>3, <1>5
      <3> DEFINE i == n2 + 1
                 o == 0
      <3>3. i \in 1..k /\ o \in Nat /\ Vale(paginas', ConHeaderUltimo(pg, i, o))
        BY <3>1, <3>2
      <3> HIDE DEF i, o, k
      <3>4. /\ PaginasBien(paginas') /\ Len(paginas') = k
            /\ \A j \in 1..k : j # i => paginas'[j] = pg[j]
        BY ONLY <3>3, <1>4, UltimoCambia
      <3>5. paginas'[k] = paginas[k]
        <4>1. k # i /\ k \in 1..k
          BY <3>2, <1>3, <1>4 DEF i
        <4> QED BY <4>1, <3>4, <1>4
      <3> QED BY <3>4, <3>5 DEF MismaUltima, k
    <2> QED BY <2>1, <2>2
  <1>7. ListaBien(bk, D, escrito) /\ EnLista(bk) = Sin(L, x)
    <2> DEFINE q == Resto(x) + 5
    <2>1. q \in Nat /\ 5 <= q /\ q < T + 5 /\ n2 \in Nat /\ PosDe(n2, q, x)
      BY <1>2, <1>5, Constantes, SMTT(30) DEF PosDe
    <2>2. Vale(bk, remover_bloque_libre(bloquesLibres, n2, q))
      BY Constantes DEF Vale
    <2> HIDE DEF q, n2, bk
    <2> QED BY ONLY <2>1, <2>2, <1>3, ListaSacar DEF L
  <1>8. ListaBien(bloquesLibres', G, f) /\ EnLista(bloquesLibres') = Con(Sin(L, x), a)
    <2>1. ListaBien(bk, G, f)
      <3>1. \A y \in EnLista(bk) : y \in G /\ Mismo(escrito, f, y)
        BY <1>2, <1>3, <1>7 DEF Sin
      <3> HIDE DEF G, f, bk
      <3> QED BY <3>1, <1>7, ListaIgual
    <2>2. a \in G /\ a \notin EnLista(bk) /\ EnPagina(n, d, a)
      BY <1>2, <1>3, <1>5, <1>7 DEF Sin, EnPagina
    <2>3. Vale(bloquesLibres', agregar_bloque_libre(bk, n, d, st))
      BY DEF JuntarConSiguiente, Vale
    <2> HIDE DEF G, f, bk, n, d, st
    <2>4. ListaBien(bloquesLibres', G, f) /\ EnLista(bloquesLibres') = Con(EnLista(bk), a)
      BY ONLY <2>1, <2>2, <2>3, <1>2, <1>5, ListaAgregar
    <2> QED BY <2>4, <1>7
  <1>9. UltimoBien(paginas', EnLista(bloquesLibres'), G, f)
    <2> DEFINE M == EnLista(bloquesLibres')
    <2>1. Guarda(D, {a, x}, escrito, L, G, f, M)
      BY <1>2, <1>8 DEF Guarda, Con, Sin
    <2>2. NoUltimas({a, x}, escrito, L, paginas[k].ultimo_header, Inicio(k - 1), fin)
      <3>1. ~(Fin(escrito, a) >= fin - 4)
        BY <1>2, <1>3
      <3>2. \/ x + 5 # Inicio(k - 1) + paginas[k].ultimo_header
            \/ ~(paginas[k].ultimo_header >= 5)
        <4> DEFINE u == paginas[k].ultimo_header
        <4>1. /\ Vale(k, Len(paginas)) /\ Vale(fin, Inicio(k)) /\ x < fin
              /\ Vale(u, paginas[k].ultimo_header)
          BY <1>2, <1>3 DEF Vale
        <4> HIDE DEF k, fin, u
        <4>2. x + 5 # Inicio(k - 1) + u \/ ~(u >= 5)
          BY <4>1, <1>2, SigueNoUltima
        <4> QED BY <4>2 DEF u
      <3> QED BY <3>1, <3>2, <1>2, <1>3 DEF NoUltimas
    <2> HIDE DEF f, G, M
    <2>3. UltimoBien(paginas', M, G, f)
      BY ONLY <2>1, <2>2, <1>6, Mosaico(D, paginas, escrito, bloquesLibres, otorgados), UltimoSigue
         DEF L, k, fin
    <2> QED BY <2>3 DEF M
  <1>10. Mosaico(G, paginas', f, bloquesLibres', Sin(otorgados, b))
    <2>1. EscritoBien(f, Inicio(Len(paginas'))) /\ Teja(G, f, Inicio(Len(paginas')))
      BY <1>2, <1>6
    <2>2. \A y \in D : y # a /\ ~Libre(escrito, y) => y \in G /\ Mismo(escrito, f, y)
      BY <1>2 DEF Sin
    <2>3. \A y \in G : \/ y \in EnLista(bloquesLibres') \/ Resto(Fin(f, y)) = 0
                       \/ y \in D /\ y \notin L /\ Mismo(escrito, f, y)
      BY <1>2, <1>8 DEF Sin, Con
    <2> HIDE DEF f, G
    <2> QED BY <2>1, <2>2, <2>3, <1>6, <1>8, <1>9, Liberado
  <1> QED BY <1>10 DEF Vale

\* All the branches of freeMuse.
LEMMA FreeMuse ==
  ASSUME NEW D, Mosaico(D, paginas, escrito, bloquesLibres, otorgados), NEW b \in otorgados,
         freeMuse(b), ~torcido'
  PROVE  \E G : Mosaico(G, paginas', escrito', bloquesLibres', otorgados')
  <1> DEFINE a == Cabeza(b)
             x == Siguiente(b)
             pg == ConPropio(b)
             s0 == Devuelto(b)
             s == Devuelto(b) + SaltoTras(b)
             hay == Existe(PaginaDe(Detras(b)))
  <1>1. Vale(a, Cabeza(b)) /\ Vale(pg, ConPropio(b)) /\ Vale(x, Siguiente(b))
        /\ Vale(s, Devuelto(b) + SaltoTras(b)) /\ Vale(s0, Devuelto(b))
    BY DEF Vale
  <1>2. CASE Perderse
    <2>1. /\ paginas' = paginas /\ escrito' = escrito /\ bloquesLibres' = bloquesLibres
          /\ otorgados' = otorgados
      BY <1>2 DEF Perderse
    <2> QED BY <2>1
  <1>3. CASE ~Perderse
    <2>1. /\ Vale(otorgados', Sin(otorgados, b)) /\ ~Tuerce(b)
          /\ \/ EsUltimo(pg, a) /\ LiberarUltimo(pg, a, s0)
             \/ ~EsUltimo(pg, a) /\ ~hay /\ LiberarSinLista(pg, a, s0)
             \/ /\ ~EsUltimo(pg, a) /\ hay /\ HayHeader(x)
                /\ \/ ~escrito[x].isFree /\ LiberarSolo(pg, a, s)
                   \/ SigueUltimo(b) /\ JuntarConUltimo(pg, a, s, x)
                   \/ /\ escrito[x].isFree /\ ~EsUltimo(pg, x)
                      /\ JuntarConSiguiente(pg, a, s, x)
      BY <1>3 DEF freeMuse, Vale, Sin
    <2> HIDE DEF a, x, pg, s0, s
    <2>2. CASE EsUltimo(pg, a) /\ LiberarUltimo(pg, a, s0)
      BY <2>1, <2>2, <1>1, LiberarUltimoBien
    <2>3. ASSUME ~EsUltimo(pg, a), ~hay PROVE FALSE
      BY <2>1, <2>3 DEF Tuerce, a, pg
    <2>4. CASE hay /\ HayHeader(x) /\ ~escrito[x].isFree /\ LiberarSolo(pg, a, s)
      BY <2>1, <2>4, <1>1, LiberarSoloBien
    <2>5. CASE ~EsUltimo(pg, a) /\ SigueUltimo(b) /\ JuntarConUltimo(pg, a, s, x)
      BY <2>1, <2>5, <1>1, JuntarConUltimoBien
    <2>6. CASE /\ hay /\ HayHeader(x) /\ escrito[x].isFree /\ ~EsUltimo(pg, x)
               /\ JuntarConSiguiente(pg, a, s, x)
      BY <2>1, <2>6, <1>1, JuntarConSiguienteBien
    <2> QED BY <2>1, <2>2, <2>3, <2>4, <2>5, <2>6
  <1> QED BY <1>2, <1>3

-----------------------------------------------------------------------------
(* copiarMuse: the bytes of a block are those of its tile.                   *)

LEMMA CopiarMuse ==
  ASSUME NEW D, Mosaico(D, paginas, escrito, bloquesLibres, otorgados), NEW b \in otorgados,
         copiarMuse(b)
  PROVE  \E G : Mosaico(G, paginas', escrito', bloquesLibres', otorgados')
  <1> DEFINE a == Cabeza(b)
             f == escrito'
             fin == Inicio(Len(paginas))
             k == IF escrito[a].size < b.tam THEN escrito[a].size ELSE b.tam
             L == EnLista(bloquesLibres)
  <1>1. CASE Perderse
    <2>1. /\ paginas' = paginas /\ escrito' = escrito /\ bloquesLibres' = bloquesLibres
          /\ otorgados' = otorgados
      BY <1>1 DEF Perderse
    <2> QED BY <2>1
  <1>2. CASE ~Perderse
    <2>1. /\ f = Pisar(escrito, Bytes(b.pos, k))
          /\ paginas' = paginas /\ bloquesLibres' = bloquesLibres /\ otorgados' = otorgados
      BY <1>2 DEF copiarMuse, Cabeza
    <2>2. /\ a \in D /\ Tam(escrito, a) \in Nat /\ Tam(escrito, a) = b.tam /\ b.pos = a + 5
      BY DeDado DEF Vale
    <2>3. k = Tam(escrito, a)
      BY <2>2 DEF Tam
    <2>4. Vale(f, Pisar(escrito, Bytes(a + 5, k))) /\ k \in Nat /\ k <= Tam(escrito, a)
      BY <2>1, <2>2, <2>3 DEF Vale
    <2>5. /\ EscritoBien(escrito, fin) /\ Teja(D, escrito, fin) /\ fin \in Nat
          /\ ListaBien(bloquesLibres, D, escrito) /\ DadosBien(otorgados, D, escrito)
          /\ PaginasBien(paginas) /\ L \subseteq D /\ \A x \in D : Hay(escrito, x)
      BY DeMosaico DEF Mosaico
    <2>6. EscritoBien(f, fin) /\ Teja(D, f, fin) /\ \A x \in D : Mismo(escrito, f, x)
      <3> HIDE DEF k, a, f, fin
      <3> QED BY ONLY <2>2, <2>4, <2>5, Escribir
    <2>7. DadosBien(otorgados, D, f)
      BY <2>5, <2>6, DadosIgual
    <2>8. ListaBien(bloquesLibres, D, f)
      <3>1. \A x \in L : x \in D /\ Mismo(escrito, f, x)
        BY <2>5, <2>6
      <3> QED BY <3>1, <2>5, ListaIgual
    <2>9. UltimoBien(paginas, L, D, f)
      <3>1. MismaUltima(paginas, paginas)
        BY <2>5 DEF MismaUltima
      <3>2. Guarda(D, {}, escrito, L, D, f, L)
        BY <2>6 DEF Guarda
      <3>3. Len(paginas) > 0 => NoUltimas({}, escrito, L, paginas[Len(paginas)].ultimo_header,
                                          Inicio(Len(paginas) - 1), Inicio(Len(paginas)))
        BY DEF NoUltimas
      <3> HIDE DEF f
      <3> QED BY ONLY <3>1, <3>2, <3>3, Mosaico(D, paginas, escrito, bloquesLibres, otorgados),
                      UltimoSigue DEF L
    <2>10. SueltosBien(L, D, f)
      <3>1. SueltosBien(L, D, escrito)
        BY DEF Mosaico
      <3>2. \A x \in D : \/ x \in L \/ ~Libre(f, x) \/ Resto(Fin(f, x)) = 0
                         \/ x \in D /\ x \notin L /\ Mismo(escrito, f, x)
        BY <2>6
      <3> HIDE DEF f, L
      <3> QED BY ONLY <3>1, <3>2, <2>5, SueltosQuedan
    <2>11. Mosaico(D, paginas, f, bloquesLibres, otorgados)
      BY <2>5, <2>6, <2>7, <2>8, <2>9, <2>10 DEF Mosaico
    <2> QED BY <2>11, <2>1
  <1> QED BY <1>1, <1>2

-----------------------------------------------------------------------------
(* The invariant.                                                            *)

\* While no size has been computed wrong, the pages are tiles.
Enlosado == ~torcido => \E D : Mosaico(D, paginas, escrito, bloquesLibres, otorgados)

\* It holds at first.
LEMMA EnlosadoInit == Init => Enlosado
  BY MosaicoVacio DEF Init, Enlosado

\* It holds when the segment goes.
LEMMA EnlosadoVacio ==
  ASSUME vaciarSegmento, otorgados' = {}
  PROVE  Enlosado'
  BY MosaicoVacio DEF vaciarSegmento, Enlosado

\* Every step keeps it.
LEMMA EnlosadoNext ==
  ASSUME Enlosado, [Next]_vars
  PROVE  Enlosado'
  <1> SUFFICES ASSUME ~torcido'
               PROVE  \E G : Mosaico(G, paginas', escrito', bloquesLibres', otorgados')
    BY DEF Enlosado
  <1>1. ASSUME ~torcido PROVE \E D : Mosaico(D, paginas, escrito, bloquesLibres, otorgados)
    BY <1>1 DEF Enlosado
  <1>2. ASSUME NEW t \in Tamanios, mallocDeLista(t)
        PROVE  \E G : Mosaico(G, paginas', escrito', bloquesLibres', otorgados')
    <2>1. ~torcido
      BY <1>2 DEF mallocDeLista, actualizar_header, Perderse
    <2>2. t \in Nat \ {0}
      BY ConstantesHeap
    <2> QED BY <2>1, <2>2, <1>1, <1>2, MallocDeLista
  <1>3. ASSUME NEW t \in Tamanios, mallocDeUltimo(t)
        PROVE  \E G : Mosaico(G, paginas', escrito', bloquesLibres', otorgados')
    <2>1. ~torcido
      BY <1>3 DEF mallocDeUltimo, actualizar_header
    <2>2. t \in Nat \ {0}
      BY ConstantesHeap
    <2> QED BY <2>1, <2>2, <1>1, <1>3, MallocDeUltimo
  <1>4. ASSUME NEW t \in Tamanios, mallocConPaginas(t)
        PROVE  \E G : Mosaico(G, paginas', escrito', bloquesLibres', otorgados')
    <2>1. ~torcido
      BY <1>4 DEF mallocConPaginas
    <2>2. t \in Nat \ {0}
      BY ConstantesHeap
    <2> QED BY <2>1, <2>2, <1>1, <1>4, MallocConPaginas
  <1>5. ASSUME liberarTodo
        PROVE  \E G : Mosaico(G, paginas', escrito', bloquesLibres', otorgados')
    BY <1>5, EnlosadoVacio DEF liberarTodo, Enlosado
  <1>6. ASSUME NEW t \in Tamanios, mallocRechazado(t)
        PROVE  \E G : Mosaico(G, paginas', escrito', bloquesLibres', otorgados')
    BY <1>5, <1>6 DEF mallocRechazado
  <1>7. ASSUME NEW b \in otorgados, freeMuse(b)
        PROVE  \E G : Mosaico(G, paginas', escrito', bloquesLibres', otorgados')
    <2>1. ~torcido
      BY <1>7 DEF freeMuse, Perderse
    <2> QED BY <2>1, <1>1, <1>7, FreeMuse
  <1>8. ASSUME NEW b \in otorgados, copiarMuse(b)
        PROVE  \E G : Mosaico(G, paginas', escrito', bloquesLibres', otorgados')
    <2>1. ~torcido
      BY <1>8 DEF copiarMuse, Perderse
    <2> QED BY <2>1, <1>1, <1>8, CopiarMuse
  <1>9. CASE UNCHANGED vars
    BY <1>9, <1>1 DEF vars
  <1> QED BY <1>2, <1>3, <1>4, <1>5, <1>6, <1>7, <1>8, <1>9 DEF Next

\* It always holds.
LEMMA EnlosadoSiempre == Spec => []Enlosado
  BY EnlosadoInit, EnlosadoNext, PTL DEF Spec

\* While no size has been computed wrong, no byte is given twice, to two blocks
\* or to a block and to what mallocMuse may still give, and what was given is in
\* the pages of the segment: for every size of page, number of pages and sizes
\* that the process asks for.
THEOREM NadaSolapa == Spec => []SinSolape
  <1>1. Enlosado => SinSolape
    <2>1. CASE torcido
      BY <2>1 DEF SinSolape
    <2>2. CASE ~torcido /\ Enlosado
      BY <2>2, SinSolapeDeMosaico DEF Enlosado
    <2> QED BY <2>1, <2>2
  <1> QED BY <1>1, EnlosadoSiempre, PTL

-----------------------------------------------------------------------------
(* What is read as a header is one, unless a block goes from a page to the   *)
(* next one.                                                                 *)

Cruza == \/ \E b \in otorgados : CruzaPagina(b)
         \/ \E i \in DOMAIN bloquesLibres : CruzaPaginaLibre(i)

\* mallocMuse: a page that is not there is one that the free block would reach.
LEMMA PierdeMalloc ==
  ASSUME NEW D, Mosaico(D, paginas, escrito, bloquesLibres, otorgados), NEW t \in Nat \ {0},
         Sirven(t) # {}, NEW b, Vale(b, Sirve(t)),
         ~Existe(b.pagina) \/ (b.tamanio # t /\ TomarSinPagina(b.pagina, b.posicion, b.tamanio, t))
  PROVE  Cruza
  <1>1. PICK i \in DOMAIN bloquesLibres :
           /\ Vale(b, bloquesLibres[i])
           /\ bloquesLibres[i].tamanio = t \/ bloquesLibres[i].tamanio >= t + 5
    BY SirveEsta DEF Vale
  <1> DEFINE l == bloquesLibres[i]
             n == l.pagina
             pos == l.posicion
             s == l.tamanio
             a == De(l)
  <1>2. /\ n \in Nat /\ pos \in Nat /\ s \in Nat /\ a \in D /\ a \in Nat /\ PaginaDe(a) = n
    BY DeLaLista DEF Vale
  <1>3. Existe(n)
    <2>1. Len(paginas) \in Nat /\ Inicio(Len(paginas)) \in Nat /\ a < Inicio(Len(paginas))
      BY <1>2, DeMosaico
    <2>2. PaginaDe(a) < Len(paginas)
      BY <2>1, <1>2, PaginaAntes
    <2> QED BY <2>1, <2>2, <1>2 DEF Existe
  <1>4. s # t /\ TomarSinPagina(n, pos, s, t)
    BY <1>1, <1>3 DEF Vale
  <1>5. s >= t + 5
    BY <1>1, <1>4
  <1>6. pos + s > T
    <2>1. \/ pos + t < T /\ s > T - pos
          \/ pos + t >= T
      BY <1>4 DEF TomarSinPagina
    <2> HIDE DEF pos, s
    <2> QED BY ONLY <2>1, <1>2, <1>5, t \in Nat \ {0}, Constantes
  <1>7. CruzaPaginaLibre(i)
    BY <1>6 DEF CruzaPaginaLibre
  <1> QED BY <1>7 DEF Cruza

\* freeMuse: what is after a block that is in one page.
LEMMA Encuentra ==
  ASSUME NEW D, Mosaico(D, paginas, escrito, bloquesLibres, otorgados), NEW b \in otorgados,
         ~CruzaPagina(b), NEW a, Vale(a, Cabeza(b)), NEW n, Vale(n, PaginaDe(a)),
         NEW w, Vale(w, Detras(b)), NEW x, Vale(x, Siguiente(b)), Existe(PaginaDe(w))
  PROVE  /\ Hay(escrito, x)
         /\ \/ PaginaDe(w) = n + 1
            \/ PaginaDe(w) = n /\ w = x
  <1> DEFINE d == Resto(a)
             y == Tam(escrito, a)
             z == Fin(escrito, a)
             fin == Inicio(Len(paginas))
             i == Inicio(n)
             s0 == Devuelto(b)
  <1>1. /\ a \in D /\ a \in Nat /\ y \in Nat /\ y > 0 /\ y = b.tam /\ b.pos \in Nat
        /\ b.pos = a + 5 /\ d + 5 <= T /\ z = a + 5 + y /\ z \in Nat
    BY DeDado
  <1>2. n \in Nat /\ d \in Nat /\ a = i + d /\ i \in Nat /\ Inicio(n + 1) = i + T
    <2>1. n \in Nat /\ Resto(a) \in Nat /\ a = Inicio(n) + Resto(a)
      BY <1>1, Partes DEF Vale
    <2> QED BY <2>1, Inicios
  <1>3. d + 5 + y <= T
    <2>1. a + 5 + y - 1 \in Nat /\ b.pos + b.tam - 1 = a + 5 + y - 1
      BY <1>1
    <2>2. PaginaDe(a + 5 + y - 1) = n
      BY <2>1 DEF CruzaPagina, Vale, Cabeza
    <2> DEFINE m == a + 5 + y - 1
    <2>3. m = i + Resto(m) /\ Resto(m) < T /\ Resto(m) \in Nat
      BY <2>1, <2>2, Partes
    <2>4. i + d + 5 + y - 1 < i + T
      BY <2>3, <1>2, Constantes
    <2> HIDE DEF d, y, i
    <2> QED BY ONLY <2>4, <1>1, <1>2, Constantes
  <1>4. /\ w < fin /\ w \in Nat /\ s0 \in Nat /\ w = a + 5 + s0 /\ x = w + SaltoTras(b)
        /\ IF LlegaAlFinal(d, y) THEN w = Inicio(n + 1) ELSE w = z /\ x = z
    <2>1. /\ Existe(PaginaDe(w)) <=> w < fin
          /\ Busca(escrito, z, w, x, s0, Devuelto(b) + SaltoTras(b), a, n, fin)
      BY Despues DEF Vale
    <2> QED BY <2>1 DEF Busca, Acaba, Siguiente, Vale
  <1>5. Continua(D, escrito, z, fin)
    BY <1>1 DEF Mosaico, Teja
  <1>6. fin \in Nat /\ \A c \in D : Hay(escrito, c)
    BY DeMosaico
  <1>7. CASE LlegaAlFinal(d, y)
    <2>1. w = Inicio(n + 1) /\ PaginaDe(w) = n + 1
      <3>1. n + 1 \in Nat /\ 0 < T
        BY <1>2, Constantes
      <3>2. PaginaDe(Inicio(n + 1) + 0) = n + 1
        BY <3>1, Unica
      <3>3. w = Inicio(n + 1) /\ Inicio(n + 1) + 0 = w
        BY <1>4, <1>7
      <3> QED BY <3>2, <3>3
    <2>2. w = Hasta(z)
      <3>1. /\ a \in Nat /\ y \in Nat /\ y > 0 /\ Resto(a) + 5 <= T /\ Acaba(a, y, z)
            /\ Vale(n, PaginaDe(a))
        BY <1>1 DEF Acaba
      <3> DEFINE v == z + Desperdicio(Resto(a), y)
      <3>2. Suma(z, Desperdicio(Resto(a), y), v)
        BY DEF Suma
      <3> HIDE DEF v, y, z
      <3>3. \/ LlegaAlFinal(Resto(a), y) /\ v = Hasta(z) /\ v = Inicio(n + 1)
            \/ ~LlegaAlFinal(Resto(a), y)
        BY ONLY <3>1, <3>2, Detrases
      <3> QED BY <3>3, <2>1, <1>7
    <2>3. x = w + SaltoDe(escrito, w)
      <3>1. d + HEADER + s0 = T
        BY ONLY <2>1, <1>2, <1>4, Constantes
      <3>2. SaltoTras(b) = Salto(w)
        BY <3>1 DEF SaltoTras, Vale
      <3> QED BY <3>2, <1>4, SaltoEs
    <2>4. CASE Hasta(z) \in D
      <3>1. Hay(escrito, w)
        BY <2>2, <2>4, <1>6
      <3>2. SaltoDe(escrito, w) = 0
        <4>1. ~Num(escrito, w + 0)
          BY <3>1, <1>4 DEF Hay, Num
        <4>2. SaltoDe(escrito, w) \in 0..4 /\ \A j \in 0..4 : j < SaltoDe(escrito, w) => Num(escrito, w + j)
          BY <1>4, PropiedadesSalto
        <4> QED BY <4>1, <4>2
      <3> QED BY <3>1, <3>2, <2>1, <2>3, <1>4
    <2>5. CASE Tras(escrito, z) \in D
      <3>1. x = Tras(escrito, z)
        BY <2>2, <2>3 DEF Tras
      <3> QED BY <3>1, <2>1, <2>5, <1>6
    <2> QED BY <2>2, <2>4, <2>5, <1>4, <1>5, <1>6 DEF Continua
  <1>8. CASE ~LlegaAlFinal(d, y)
    <2>1. w = z /\ x = z
      BY <1>4, <1>8
    <2> DEFINE r == d + 5 + y
    <2>2. r \in Nat /\ r + 5 <= T /\ r >= 5
      <3>1. T - (d + HEADER + y) \notin 0..HEADER - 1
        BY <1>8 DEF LlegaAlFinal
      <3> HIDE DEF d, y
      <3> QED BY ONLY <3>1, <1>1, <1>2, <1>3, Constantes
    <2>3. z = i + r
      BY <1>1, <1>2
    <2> HIDE DEF r
    <2>4. Resto(z) = r /\ PaginaDe(z) = n
      <3>1. r < T
        BY <2>2, Constantes
      <3> QED BY <3>1, <2>2, <2>3, <1>2, Unica
    <2>5. Hasta(z) = z /\ Resto(Hasta(z)) # 0
      BY <2>2, <2>4, Constantes DEF Hasta
    <2>6. z \in D
      BY <2>1, <2>5, <1>4, <1>5, <1>6 DEF Continua
    <2> QED BY <2>1, <2>4, <2>6, <1>6
  <1> QED BY <1>7, <1>8

\* ... and a free block that has as many bytes as its page after it.
LEMMA PierdeFree ==
  ASSUME NEW D, Mosaico(D, paginas, escrito, bloquesLibres, otorgados), NEW b \in otorgados,
         NEW a, Vale(a, Cabeza(b)), NEW x, Vale(x, Siguiente(b)), Existe(PaginaDe(Detras(b))),
         \/ ~HayHeader(x)
         \/ PaginaDe(Detras(b)) > PaginaDe(a) + 1
         \/ /\ escrito[x].isFree /\ escrito[x].size + Resto(x) = T
            /\ PaginaDe(Detras(b)) = PaginaDe(a)
  PROVE  Cruza
  <1> SUFFICES ASSUME ~CruzaPagina(b) PROVE Cruza
    BY DEF Cruza
  <1> DEFINE n == PaginaDe(a)
             w == Detras(b)
             z == Fin(escrito, a)
             L == EnLista(bloquesLibres)
  <1>1. a \in D /\ a \in Nat /\ n \in Nat
    BY DeDado, Partes
  <1>2. Hay(escrito, x) /\ (PaginaDe(w) = n + 1 \/ (PaginaDe(w) = n /\ w = x))
    BY Encuentra DEF Vale
  <1>3. HayHeader(x) /\ ~(PaginaDe(w) > n + 1)
    BY <1>1, <1>2 DEF Hay, HayHeader
  <1>4. escrito[x].isFree /\ escrito[x].size + Resto(x) = T
    BY <1>3
  <1>5. x \in D
    <2>1. x \in Miradas(escrito, z)
      <3>1. Busca(escrito, z, w, x, Devuelto(b), Devuelto(b) + SaltoTras(b), a, n,
                  Inicio(Len(paginas)))
        BY Despues DEF Vale
      <3> QED BY <3>1 DEF Busca
    <2>2. /\ EscritoBien(escrito, Inicio(Len(paginas))) /\ Teja(D, escrito, Inicio(Len(paginas)))
          /\ Inicio(Len(paginas)) \in Nat
      BY DeMosaico DEF Mosaico
    <2> QED BY <2>1, <2>2, <1>1, <1>2, LoMiradoEsTeja
  <1> DEFINE y == Tam(escrito, x)
             r == Resto(x)
             m == PaginaDe(x)
  <1>6. /\ Libre(escrito, x) /\ y + r = T /\ y \in Nat /\ x \in Nat /\ Fin(escrito, x) = x + 5 + y
    BY <1>2, <1>4, <1>5, DeMosaico DEF Libre, Tam
  <1>7. m \in Nat /\ r \in Nat /\ r < T /\ x = Inicio(m) + r
    BY <1>6, Partes
  <1>8. Resto(Fin(escrito, x)) = 5
    <2>1. Inicio(m) \in Nat /\ Inicio(m + 1) = Inicio(m) + T /\ m + 1 \in Nat
      BY <1>7, Inicios
    <2>2. Fin(escrito, x) = Inicio(m + 1) + 5
      <3> DEFINE i == Inicio(m)
                 j == Inicio(m + 1)
      <3>1. i \in Nat /\ j = i + T /\ x = i + r
        BY <2>1, <1>7
      <3> HIDE DEF i, j, y, r, m
      <3>2. x + 5 + y = j + 5
        BY ONLY <3>1, <1>6, <1>7, Constantes
      <3> QED BY <3>2, <1>6 DEF j
    <2>3. 5 \in Nat /\ 5 < T
      BY Constantes
    <2> QED BY <2>1, <2>2, <2>3, Unica
  <1>9. x \in L
    <2>1. SueltosBien(L, D, escrito)
      BY DEF Mosaico
    <2> QED BY <2>1, <1>5, <1>6, <1>8 DEF SueltosBien
  <1>10. PICK i \in DOMAIN bloquesLibres : De(bloquesLibres[i]) = x
    BY <1>9 DEF EnLista
  <1>11. CruzaPaginaLibre(i)
    <2> DEFINE q == bloquesLibres[i].posicion
               t == bloquesLibres[i].tamanio
    <2>1. /\ q \in Nat /\ t \in Nat /\ Tam(escrito, x) = t /\ Resto(x) = q - 5
      BY <1>10, DeLaLista DEF Vale
    <2>2. q + t > T
      BY <2>1, <1>6, Constantes
    <2> QED BY <2>2 DEF CruzaPaginaLibre
  <1> QED BY <1>11 DEF Cruza

\* The step that loses itself.
LEMMA PierdeNext ==
  ASSUME Enlosado, ~torcido, ~perdido, Next, perdido'
  PROVE  Cruza /\ otorgados' = otorgados /\ bloquesLibres' = bloquesLibres
  <1>1. PICK D : Mosaico(D, paginas, escrito, bloquesLibres, otorgados)
    BY DEF Enlosado
  <1>2. ASSUME NEW t \in Tamanios, mallocDeLista(t)
        PROVE  Cruza /\ Perderse
    <2> DEFINE b == Sirve(t)
    <2>1. /\ Sirven(t) # {} /\ Perderse
          /\ \/ ~Existe(b.pagina)
             \/ b.tamanio # t /\ TomarSinPagina(b.pagina, b.posicion, b.tamanio, t)
      BY <1>2 DEF mallocDeLista, actualizar_header
    <2>2. t \in Nat \ {0} /\ Vale(b, Sirve(t))
      BY ConstantesHeap DEF Vale
    <2> HIDE DEF b
    <2> QED BY <2>1, <2>2, <1>1, PierdeMalloc
  <1>3. ASSUME NEW b \in otorgados
        PROVE  Ocupado(b)
    <2>1. Hay(escrito, Cabeza(b)) /\ ~Libre(escrito, Cabeza(b))
      BY <1>1, DeDado DEF Vale
    <2> QED BY <2>1 DEF Ocupado, HayHeader, Hay, Libre, Cabeza
  <1>4. ASSUME NEW b \in otorgados, freeMuse(b)
        PROVE  Cruza /\ Perderse
    <2> DEFINE a == Cabeza(b)
               x == Siguiente(b)
    <2>1. /\ Perderse /\ Existe(PaginaDe(Detras(b)))
          /\ \/ ~HayHeader(x)
             \/ PaginaDe(Detras(b)) > PaginaDe(a) + 1
             \/ /\ escrito[x].isFree /\ escrito[x].size + Resto(x) = T
                /\ PaginaDe(Detras(b)) = PaginaDe(a)
      BY <1>3, <1>4 DEF freeMuse
    <2>2. Vale(a, Cabeza(b)) /\ Vale(x, Siguiente(b))
      BY DEF Vale
    <2> HIDE DEF a, x
    <2> QED BY <2>1, <2>2, <1>1, PierdeFree
  <1>5. ~(\E b \in otorgados : copiarMuse(b))
    BY <1>3 DEF copiarMuse
  <1>6. ~(\E t \in Tamanios : mallocDeUltimo(t) \/ mallocConPaginas(t) \/ mallocRechazado(t))
    BY DEF mallocDeUltimo, mallocConPaginas, mallocRechazado, actualizar_header, liberarTodo
  <1>7. ~liberarTodo
    BY DEF liberarTodo
  <1> QED BY <1>2, <1>4, <1>5, <1>6, <1>7 DEF Next, Perderse

\* Nothing is done after it.
LEMMA PerdidoNext ==
  ASSUME perdido
  PROVE  ~Next
  BY DEF Next, mallocDeLista, mallocDeUltimo, mallocConPaginas, mallocRechazado, liberarTodo,
         freeMuse, copiarMuse, Anda

\* While no size has been computed wrong, mallocMuse and freeMuse read headers
\* where there are headers and pages that there are, unless a block, given or
\* free, goes from a page to the next one: for every size of page, number of
\* pages and sizes that the process asks for.
THEOREM NadieSePierde == Spec => []NoSePierde
  <1>1. Init => NoSePierde
    BY DEF Init, NoSePierde
  <1>2. ASSUME Enlosado, NoSePierde, [Next]_vars
        PROVE  NoSePierde'
    <2> SUFFICES ASSUME perdido', ~torcido'
                 PROVE  Cruza'
      BY DEF NoSePierde, Cruza
    <2>1. CASE UNCHANGED vars
      BY <2>1, <1>2 DEF vars, NoSePierde, Cruza, CruzaPagina, CruzaPaginaLibre
    <2>2. CASE Next
      <3>1. ~perdido
        BY <2>2, PerdidoNext
      <3>2. ~torcido
        BY <2>2 DEF Next, mallocDeLista, mallocDeUltimo, mallocConPaginas, mallocRechazado,
                    liberarTodo, freeMuse, copiarMuse, actualizar_header, Perderse
      <3>3. Cruza /\ otorgados' = otorgados /\ bloquesLibres' = bloquesLibres
        BY <3>1, <3>2, <2>2, <1>2, PierdeNext
      <3> QED BY <3>3 DEF Cruza, CruzaPagina, CruzaPaginaLibre
    <2> QED BY <2>1, <2>2, <1>2
  <1> QED BY <1>1, <1>2, EnlosadoSiempre, PTL DEF Spec
=============================================================================
