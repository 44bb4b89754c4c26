------------------------------- MODULE MUSEHeap -------------------------------
(***************************************************************************)
(* The heap of a process in MUSE (Memoria/MUSE.c): mallocMuse, freeMuse,    *)
(* actualizar_header, crearPaginas, the list bloquesLibres and the fields   *)
(* of each page that say where its last header is.                          *)
(*                                                                         *)
(* The process has one segment, of base 0, that grows a page at a time and  *)
(* goes when its first block is freed and nothing else is left in it.  A     *)
(* block is a header of HEADER bytes and its size in bytes after it, over    *)
(* one page or several.  Of what the pages have, the model keeps the headers *)
(* that were written and that nothing has been written over, by position,    *)
(* and the bytes '#' of what is wasted.  The frames of the pages are those    *)
(* of MUSEMarcos.  The thread of the process serves one request at a time,    *)
(* and each is one step.                                                     *)
(***************************************************************************)
EXTENDS Integers, Sequences, FiniteSets, SequencesExt

CONSTANTS
  T,           \* tamanio_pagina
  Totales,     \* paginas_totales
  Tamanios,    \* what the process asks for
  Sigue        \* whether it goes on when a size has been computed wrong

HEADER == 5

ASSUME ConstantesHeap ==
  /\ T \in Nat /\ T > 2 * HEADER /\ Totales \in Nat
  /\ Tamanios \subseteq Nat \ {0} /\ Sigue \in BOOLEAN

VARIABLES
  paginas,         \* of the segment: esFinPag, tamanio_header, ultimo_header
  escrito,         \* by position, the headers and the '#' that are written
  bloquesLibres,   \* pagina, posicion (after its header) and tamanio
  paginas_usadas,
  otorgados,       \* history: what the process has, position and size asked for
  torcido,         \* history: a branch has computed a size wrong
  perdido          \* something that is no header was read as one, or a NULL

vars == <<paginas, escrito, bloquesLibres, paginas_usadas, otorgados, torcido, perdido>>

Init ==
  /\ paginas = <<>> /\ escrito = <<>> /\ bloquesLibres = <<>>
  /\ paginas_usadas = 0 /\ otorgados = {} /\ perdido = FALSE /\ torcido = FALSE

\* A uint32_t: what is subtracted below zero comes back at the top (of a word
\* that is narrower here, wider than any address).
PALABRA == 65536
U32(x) == x % PALABRA

Resto(n) == n % T
PaginaDe(pos) == pos \div T
Inicio(n) == n * T      \* of page n, or the bytes of n pages

calcular_paginas_malloc(tam) == tam \div T + (IF tam % T = 0 THEN 0 ELSE 1)

Bytes(a, n) == a..a + n - 1

(***************************************************************************)
(* Writing in the pages.                                                    *)
(***************************************************************************)

Header(isFree, size) == [isFree |-> isFree, size |-> size]
NUMERAL == Header(TRUE, -1)

Ancho(x) == IF x = NUMERAL THEN 1 ELSE HEADER

\* e with the bytes of B written over.
Salvos(e, B) == {x \in DOMAIN e : Bytes(x, Ancho(e[x])) \cap B = {}}
Pisar(e, B) == [x \in Salvos(e, B) |-> e[x]]

ConHeader(e, a, isFree, size) ==
  [x \in {a} \cup Salvos(e, Bytes(a, HEADER)) |->
     IF x = a THEN Header(isFree, size) ELSE e[x]]

\* desperdicio writes them; what it does to the page is where it is called.
ConNumerales(e, B) == [x \in B \cup Salvos(e, B) |-> IF x \in B THEN NUMERAL ELSE e[x]]

HayHeader(a) == a \in DOMAIN escrito /\ escrito[a] # NUMERAL
hayHashtag(a) == a \in DOMAIN escrito /\ escrito[a] = NUMERAL

Pagina(fin, tam, ult) ==
  [esFinPag |-> fin, tamanio_header |-> tam, ultimo_header |-> ult]

Existe(n) == n \in 0..Len(paginas) - 1
Pag(n) == paginas[n + 1]
Ultima == Len(paginas) - 1

ConUltimo(pg, n, fin, tam, ult) == [pg EXCEPT ![n + 1] = Pagina(fin, tam, ult)]

\* agregar_bloque_libre is given the position of the header.
agregar_bloque_libre(bl, pag, d, tam) ==
  Append(bl, [pagina |-> pag, posicion |-> d + HEADER, tamanio |-> tam])

\* MUTANT: the block that was given stays in the list.
SinRemover(bl, pag, pos) == bl

\* remover_bloque_libre: the first with that page and position.
remover_bloque_libre(bl, pag, pos) ==
  LET si == {i \in DOMAIN bl : bl[i].pagina = pag /\ bl[i].posicion = pos}
  IN IF si = {} THEN bl ELSE RemoveAt(bl, CHOOSE i \in si : \A j \in si : i <= j)

Perderse ==
  /\ perdido' = TRUE
  /\ UNCHANGED <<paginas, escrito, bloquesLibres, paginas_usadas, otorgados, torcido>>

Anda == ~perdido /\ (Sigue \/ ~torcido)

Otorgar(pos, t) == otorgados' = otorgados \cup {[pos |-> pos, tam |-> t]}

\* MUTANT: the pages go and paginas_usadas still counts them.
VaciarSinContar ==
  /\ paginas' = <<>> /\ escrito' = <<>> /\ bloquesLibres' = <<>>
  /\ UNCHANGED paginas_usadas

\* vaciarSegmento: the pages are given back and the segment goes.
vaciarSegmento ==
  /\ paginas' = <<>> /\ escrito' = <<>> /\ bloquesLibres' = <<>>
  /\ paginas_usadas' = paginas_usadas - Len(paginas)

(***************************************************************************)
(* crearPaginas: n pages more, for a block of t bytes.                      *)
(***************************************************************************)

\* A page that ends the segment, of which r bytes are taken: the rest is a free
\* header, the last of the segment, or is wasted.
FinDePagina(r, ultimo) ==
  IF T - r >= HEADER THEN Pagina(TRUE, T - r - HEADER, r + HEADER)
                     ELSE Pagina(TRUE, 0, ultimo)

ConFin(e, n, r) ==
  IF T - r >= HEADER THEN ConHeader(e, Inicio(n) + r, TRUE, T - r - HEADER)
                     ELSE ConNumerales(e, Bytes(Inicio(n) + r, T - r))

\* The last page of pg is closed after the r bytes that the block takes.
CerrarPagina(pg, e, r) ==
  /\ paginas' = [pg EXCEPT ![Len(pg)] = FinDePagina(r, pg[Len(pg)].ultimo_header)]
  /\ escrito' = ConFin(e, Len(pg) - 1, r)

Nuevas(n) == [i \in 1..n |-> Pagina(FALSE, 0, 0)]

\* The block begins in a new page.
CrearAlFinal(n, t) ==
  LET pos == Inicio(Len(paginas)) + HEADER
      antes == [i \in DOMAIN paginas |-> IF i = Len(paginas)
                                         THEN [paginas[i] EXCEPT !.esFinPag = FALSE]
                                         ELSE paginas[i]]
      pg == antes \o (IF t + HEADER > T
                      THEN [Nuevas(n) EXCEPT ![1].ultimo_header = HEADER] ELSE Nuevas(n))
  IN /\ CerrarPagina(pg, ConHeader(escrito, pos - HEADER, FALSE, t),
                     t + HEADER - Inicio(n - 1))
     /\ Otorgar(pos, t)

\* ... or in the last free header, which is too small for it.
CrearDesdeUltimo(n, t) ==
  LET ult == Pag(Ultima).ultimo_header
      pos == Inicio(Ultima) + ult
      pg == ConUltimo(paginas, Ultima, FALSE, 0, ult) \o Nuevas(n)
  IN /\ T - ult < t
     /\ CerrarPagina(pg, ConHeader(escrito, pos - HEADER, FALSE, t),
                     t - (T - ult) - Inicio(n - 1))
     /\ Otorgar(pos, t)

\* ... or there too, when the page has more room after that header than the
\* header says: the new page, which is one, is closed as if the block were at
\* its beginning, and both are marked as the end.
CrearEnUltimo(t) ==
  LET ult == Pag(Ultima).ultimo_header
      pos == Inicio(Ultima) + ult
      pg == [paginas EXCEPT ![Len(paginas)] = FinDePagina(ult + t, ult)] \o Nuevas(1)
  IN /\ T - ult >= t
     /\ CerrarPagina(pg, ConFin(ConHeader(escrito, pos - HEADER, FALSE, t),
                                Ultima, ult + t), t)
     /\ Otorgar(pos, t)

(***************************************************************************)
(* actualizar_header: t bytes are taken of a free block of tamAnterior at   *)
(* position pos of page n.  bl is bloquesLibres without it, and fin says    *)
(* whether it is the last header of the segment.                            *)
(***************************************************************************)

\* There is no need of a tail.
TomarTodo(n, pos, t, bl) ==
  /\ paginas' = IF Pag(n).ultimo_header = pos
                THEN [paginas EXCEPT ![n + 1].tamanio_header = 0] ELSE paginas
  /\ escrito' = ConHeader(escrito, Inicio(n) + pos - HEADER, FALSE, t)
  /\ bloquesLibres' = bl

\* The tail is in the same page, where a header fits.
TomarConCola(n, pos, tamAnterior, t, bl, fin) ==
  LET queda == tamAnterior - t - HEADER
      e == ConHeader(escrito, Inicio(n) + pos - HEADER, FALSE, t)
  IN /\ escrito' = ConHeader(e, Inicio(n) + pos + t, TRUE, queda)
     /\ paginas' = IF fin \/ Pag(n).ultimo_header = pos
                   THEN ConUltimo(paginas, n, Pag(n).esFinPag, queda, pos + t + HEADER)
                   ELSE paginas
     /\ bloquesLibres' = IF fin THEN bl ELSE agregar_bloque_libre(bl, n, pos + t, queda)

\* A header does not fit in what is left of the page, which is wasted; what the
\* block has in the next page is wasted too, or becomes a free header.
TomarYDesperdiciar(n, pos, tamAnterior, t, bl) ==
  LET sigue == tamAnterior - (T - pos)
      sig == Inicio(n + 1)
      e == ConNumerales(ConHeader(escrito, Inicio(n) + pos - HEADER, FALSE, t),
                        Bytes(Inicio(n) + pos + t, T - (pos + t)))
      pg == ConUltimo(paginas, n, Pag(n).esFinPag, 0, pos - HEADER)
  IN \/ /\ sigue < HEADER /\ (sigue > 0 => Existe(n + 1))
        /\ paginas' = [i \in DOMAIN pg |-> IF i = n + 2 /\ sigue > 0
                                           THEN [pg[i] EXCEPT !.tamanio_header = 0]
                                           ELSE pg[i]]
        /\ escrito' = ConNumerales(e, Bytes(sig, sigue))
        /\ bloquesLibres' = bl
     \/ /\ sigue >= HEADER /\ Existe(n + 1)
        /\ paginas' = pg
        /\ escrito' = ConHeader(e, sig, TRUE, sigue - HEADER)
        /\ bloquesLibres' = agregar_bloque_libre(bl, n + 1, 0, sigue - HEADER)

\* The tail is in another page, which is looked for from the first of the
\* segment.
TomarHastaOtra(n, pos, tamAnterior, t, bl) ==
  LET r0 == t - (T - pos)
      c == r0 \div T + 1
      r == r0 % T
      sobrante == T - r
      libre == U32(tamAnterior - t - sobrante)
      h == ConHeader(escrito, Inicio(n) + pos - HEADER, FALSE, t)
      e == ConNumerales(h, Bytes(Inicio(c) + r, sobrante))
      pg == [paginas EXCEPT ![c + 1].tamanio_header = 0]
  IN /\ Existe(c)
     /\ \/ /\ sobrante >= HEADER
           /\ escrito' = ConHeader(h, Inicio(c) + r, TRUE, U32(libre - HEADER))
           /\ paginas' = IF Pag(c).ultimo_header < r + HEADER
                         THEN ConUltimo(paginas, c, Pag(c).esFinPag, U32(libre - HEADER),
                                        r + HEADER)
                         ELSE paginas
           /\ bloquesLibres' = agregar_bloque_libre(bl, c, r, U32(libre - HEADER))
        \/ /\ sobrante < HEADER /\ libre < HEADER /\ (libre > 0 => Existe(c + 1))
           /\ paginas' = [i \in DOMAIN pg |-> IF i = c + 2 /\ libre > 0
                                              THEN [pg[i] EXCEPT !.tamanio_header = 0]
                                              ELSE pg[i]]
           /\ escrito' = ConNumerales(e, Bytes(Inicio(c + 1), libre))
           /\ bloquesLibres' = bl
        \/ /\ sobrante < HEADER /\ libre >= HEADER /\ Existe(c + 1)
           /\ paginas' = pg
           /\ escrito' = ConHeader(e, Inicio(c + 1), TRUE, libre - HEADER)
           /\ bloquesLibres' = agregar_bloque_libre(bl, c + 1, 0, libre - HEADER)

\* A page it looks for is not there.
TomarSinPagina(n, pos, tamAnterior, t) ==
  LET c == (t - (T - pos)) \div T + 1
      r == (t - (T - pos)) % T
  IN \/ pos + t < T /\ T - (pos + t) < HEADER /\ tamAnterior > T - pos /\ ~Existe(n + 1)
     \/ pos + t >= T /\ ~Existe(c)
     \/ /\ pos + t >= T /\ T - r < HEADER /\ ~Existe(c + 1)
        /\ U32(tamAnterior - t - (T - r)) > 0

actualizar_header(n, pos, tamAnterior, t, bl, fin) ==
  /\ \/ /\ tamAnterior = t
        /\ TomarTodo(n, pos, t, bl)
     \/ /\ tamAnterior # t /\ pos + t < T /\ T - (pos + t) >= HEADER
        /\ TomarConCola(n, pos, tamAnterior, t, bl, fin)
     \/ /\ tamAnterior # t /\ pos + t < T /\ T - (pos + t) < HEADER
        /\ TomarYDesperdiciar(n, pos, tamAnterior, t, bl)
     \/ /\ tamAnterior # t /\ pos + t >= T
        /\ TomarHastaOtra(n, pos, tamAnterior, t, bl)
  /\ Otorgar(Inicio(n) + pos, t)
  /\ torcido' = (torcido \/ (tamAnterior # t /\ pos + t >= T))
  /\ UNCHANGED <<paginas_usadas, perdido>>

(***************************************************************************)
(* mallocMuse                                                               *)
(***************************************************************************)

\* The free blocks of the list where t fits, exactly or with a header after.
Sirven(t) ==
  {i \in DOMAIN bloquesLibres :
     bloquesLibres[i].tamanio >= t + HEADER \/ bloquesLibres[i].tamanio = t}
Sirve(t) == bloquesLibres[CHOOSE i \in Sirven(t) : \A j \in Sirven(t) : i <= j]

EntraEnUltimo(t) == paginas # <<>> /\ Pag(Ultima).tamanio_header >= t

mallocDeLista(t) ==
  LET b == Sirve(t)
      bl == remover_bloque_libre(bloquesLibres, b.pagina, b.posicion)
  IN /\ Anda /\ Sirven(t) # {}
     /\ \/ /\ Existe(b.pagina)
           /\ actualizar_header(b.pagina, b.posicion, b.tamanio, t, bl, FALSE)
        \/ ~Existe(b.pagina) /\ Perderse
        \/ /\ b.tamanio # t /\ TomarSinPagina(b.pagina, b.posicion, b.tamanio, t)
           /\ Perderse

mallocDeUltimo(t) ==
  /\ Anda /\ Sirven(t) = {} /\ EntraEnUltimo(t)
  /\ actualizar_header(Ultima, Pag(Ultima).ultimo_header, Pag(Ultima).tamanio_header,
                       t, bloquesLibres, TRUE)

\* The pages that are missing: for a new segment, after what the last free
\* header has, or for a header of its own.
Faltan(t) ==
  calcular_paginas_malloc(
    IF paginas # <<>> /\ Pag(Ultima).tamanio_header # 0
    THEN t - Pag(Ultima).tamanio_header ELSE t + HEADER)
Caben(t) == paginas_usadas + Faltan(t) <= Totales

mallocConPaginas(t) ==
  /\ Anda /\ Sirven(t) = {} /\ ~EntraEnUltimo(t) /\ Caben(t)
  /\ IF paginas # <<>> /\ Pag(Ultima).tamanio_header # 0
     THEN CrearDesdeUltimo(Faltan(t), t) \/ CrearEnUltimo(t)
     ELSE CrearAlFinal(Faltan(t), t)
  /\ paginas_usadas' = paginas_usadas + Faltan(t)
  /\ UNCHANGED <<bloquesLibres, torcido, perdido>>

\* liberarTodo, at the end of the process.
liberarTodo ==
  /\ Anda
  /\ vaciarSegmento
  /\ otorgados' = {}
  /\ UNCHANGED <<torcido, perdido>>

\* muse_alloc raises SIGSEGV when the answer is that there is no room.
mallocRechazado(t) ==
  /\ Sirven(t) = {} /\ ~EntraEnUltimo(t) /\ ~Caben(t)
  /\ liberarTodo

(***************************************************************************)
(* freeMuse                                                                 *)
(***************************************************************************)

\* When less than a header is left in the page, the block takes it.
Desperdicio(d, size) ==
  LET queda == T - (d + HEADER + size) IN IF queda \in 0..HEADER - 1 THEN queda ELSE 0
LlegaAlFinal(d, size) == T - (d + HEADER + size) \in 0..HEADER - 1

\* MUTANT: the next header is looked for where the next page begins.
SinSalto(a) == 0

\* The bytes '#' at a that are skipped when a header may come after them: none
\* when a header would not fit before it finds one.
Salto(a) ==
  LET no == {i \in 0..HEADER - 1 : ~hayHashtag(a + i)}
  IN IF no = {} THEN 0 ELSE CHOOSE i \in no : \A j \in no : i <= j

\* The header at a is free and has s bytes.
LiberarHeader(a, s) == escrito' = ConHeader(escrito, a, TRUE, s)

\* It was the last one of the last page.
LiberarUltimo(pg, a, s) ==
  \/ a = 0 /\ vaciarSegmento
  \/ /\ a # 0
     /\ LiberarHeader(a, s)
     /\ paginas' = [pg EXCEPT ![PaginaDe(a) + 1].tamanio_header = s]
     /\ UNCHANGED <<bloquesLibres, paginas_usadas>>

\* The next header, in a2, is free and the last one: they are one.
JuntarConUltimo(pg, a, s, a2) ==
  LET n == PaginaDe(a)
      n2 == PaginaDe(a2)
  IN \/ a = 0 /\ vaciarSegmento
     \/ /\ a # 0 /\ n = n2
        /\ LiberarHeader(a, s + HEADER + escrito[a2].size)
        /\ paginas' = ConUltimo(pg, n, TRUE, s + HEADER + escrito[a2].size,
                                Resto(a) + HEADER)
        /\ bloquesLibres' = remover_bloque_libre(bloquesLibres, n, Resto(a2) + HEADER)
        /\ UNCHANGED paginas_usadas
     \/ /\ a # 0 /\ n2 = n + 1     \* the pages after that of a are given back
        /\ LET queda == U32(s - (T - (Resto(a) + HEADER)))
           IN /\ escrito' = Pisar(ConHeader(escrito, a, TRUE, queda),
                                  Bytes(Inicio(n2), T))
              /\ paginas' = ConUltimo(SubSeq(pg, 1, n + 1), n, TRUE, queda,
                                      Resto(a) + HEADER)
        /\ bloquesLibres' = remover_bloque_libre(bloquesLibres, n, Resto(a) + HEADER)
        /\ paginas_usadas' = paginas_usadas - 1

\* The next header is free and is not the last one.
JuntarConSiguiente(pg, a, s, a2) ==
  LET n2 == PaginaDe(a2)
      bl == remover_bloque_libre(bloquesLibres, n2, Resto(a2) + HEADER)
      todo == s + HEADER + escrito[a2].size
  IN /\ LiberarHeader(a, todo)
     /\ paginas' = IF escrito[a2].size + Resto(a2) = T
                   THEN [pg EXCEPT ![n2 + 1].ultimo_header = 0] ELSE pg
     /\ bloquesLibres' = agregar_bloque_libre(bl, PaginaDe(a), Resto(a), todo)
     /\ UNCHANGED paginas_usadas

\* The next header is not free.
LiberarSolo(pg, a, s) ==
  /\ LiberarHeader(a, s)
  /\ paginas' = pg
  /\ bloquesLibres' = agregar_bloque_libre(bloquesLibres, PaginaDe(a), Resto(a), s)
  /\ UNCHANGED paginas_usadas

\* There is no page after it: it is free and in no list.
LiberarSinLista(pg, a, s) ==
  /\ LiberarHeader(a, s)
  /\ paginas' = pg
  /\ UNCHANGED <<bloquesLibres, paginas_usadas>>

EsUltimo(pg, a) == /\ pg[PaginaDe(a) + 1].esFinPag
                   /\ pg[PaginaDe(a) + 1].ultimo_header = Resto(a) + HEADER

Ocupado(b) == HayHeader(b.pos - HEADER) /\ ~escrito[b.pos - HEADER].isFree
CruzaPagina(b) == PaginaDe(b.pos - HEADER) # PaginaDe(b.pos + b.tam - 1)

Cabeza(b) == b.pos - HEADER

\* What it gives back: its bytes and what was wasted after it in its page.
Devuelto(b) ==
  escrito[Cabeza(b)].size + Desperdicio(Resto(Cabeza(b)), escrito[Cabeza(b)].size)
Detras(b) == b.pos + Devuelto(b)

\* The last header of its page is its own when it reaches the end of it.
ConPropio(b) ==
  IF LlegaAlFinal(Resto(Cabeza(b)), escrito[Cabeza(b)].size)
  THEN [paginas EXCEPT ![PaginaDe(Cabeza(b)) + 1].ultimo_header =
          Resto(Cabeza(b)) + HEADER]
  ELSE paginas

SaltoTras(b) ==
  IF Resto(Cabeza(b)) + HEADER + Devuelto(b) = T /\ Existe(PaginaDe(Detras(b)))
  THEN Salto(Detras(b)) ELSE 0
Siguiente(b) == Detras(b) + SaltoTras(b)

\* The next header is free and its page takes it for the last of the segment.
SigueUltimo(b) == /\ Existe(PaginaDe(Detras(b))) /\ HayHeader(Siguiente(b))
                  /\ escrito[Siguiente(b)].isFree /\ EsUltimo(ConPropio(b), Siguiente(b))

\* History: what it does here is not what it means to.  No page follows, and
\* the header is in no list; the block takes a last header of another page, or
\* one that does not reach the end, to which ultimo_header was left when what
\* came after it was wasted.
Tuerce(b) ==
  /\ ~EsUltimo(ConPropio(b), Cabeza(b))
  /\ \/ ~Existe(PaginaDe(Detras(b)))
     \/ /\ SigueUltimo(b)
        /\ \/ Cabeza(b) # 0 /\ PaginaDe(Siguiente(b)) # PaginaDe(Cabeza(b))
           \/ Siguiente(b) + HEADER + escrito[Siguiente(b)].size < Inicio(Len(paginas))

freeMuse(b) ==
  LET a == Cabeza(b)
      a2 == Siguiente(b)
      pg == ConPropio(b)
      s == Devuelto(b) + SaltoTras(b)
      hay == Existe(PaginaDe(Detras(b)))
  IN /\ Anda /\ b \in otorgados
     /\ \/ /\ Ocupado(b) /\ UNCHANGED perdido
           /\ otorgados' = otorgados \ {b}
           /\ torcido' = (torcido \/ Tuerce(b))
           /\ \/ /\ EsUltimo(pg, a)
                 /\ LiberarUltimo(pg, a, Devuelto(b))
              \/ /\ ~EsUltimo(pg, a) /\ ~hay
                 /\ LiberarSinLista(pg, a, Devuelto(b))
              \/ /\ ~EsUltimo(pg, a) /\ hay /\ HayHeader(a2)
                 /\ \/ ~escrito[a2].isFree /\ LiberarSolo(pg, a, s)
                    \/ SigueUltimo(b) /\ JuntarConUltimo(pg, a, s, a2)
                    \/ /\ escrito[a2].isFree /\ ~EsUltimo(pg, a2)
                       /\ \/ escrito[a2].size + Resto(a2) # T
                          \/ PaginaDe(Detras(b)) # PaginaDe(a)
                       /\ JuntarConSiguiente(pg, a, s, a2)
        \/ /\ \/ ~Ocupado(b)
              \/ /\ ~EsUltimo(pg, a) /\ hay
                 /\ \/ ~HayHeader(a2)
                    \/ SigueUltimo(b) /\ a # 0 /\ PaginaDe(Detras(b)) > PaginaDe(a) + 1
                    \/ /\ escrito[a2].isFree /\ ~EsUltimo(pg, a2)
                       /\ escrito[a2].size + Resto(a2) = T
                       /\ PaginaDe(Detras(b)) = PaginaDe(a)
           /\ Perderse

\* copiarMuse: the process writes all of what it was given.
copiarMuse(b) ==
  LET a == b.pos - HEADER
  IN /\ Anda /\ b \in otorgados
     /\ \/ /\ Ocupado(b)
           /\ escrito' = Pisar(escrito, Bytes(b.pos, IF escrito[a].size < b.tam
                                                     THEN escrito[a].size ELSE b.tam))
           /\ UNCHANGED <<paginas, bloquesLibres, paginas_usadas, otorgados, torcido,
                          perdido>>
        \/ ~Ocupado(b) /\ Perderse

Next ==
  \/ \E t \in Tamanios : \/ mallocDeLista(t) \/ mallocDeUltimo(t)
                         \/ mallocConPaginas(t) \/ mallocRechazado(t)
  \/ \E b \in otorgados : freeMuse(b) \/ copiarMuse(b)
  \/ liberarTodo

Spec == Init /\ [][Next]_vars

(***************************************************************************)
(* Properties.                                                              *)
(***************************************************************************)

Paginas == [esFinPag : BOOLEAN, tamanio_header : 0..PALABRA - 1, ultimo_header : 0..T]
Libres == [pagina : Nat, posicion : HEADER..T, tamanio : 0..PALABRA - 1]

\* Every page says where a header of its own is, the last one alone is marked
\* as the end, and the pages are those that paginas_usadas counts.
TypeOK ==
  /\ paginas \in Seq(Paginas)
  /\ \A n \in 0..Len(paginas) - 1 : Pag(n).esFinPag => n = Ultima
  /\ \A a \in DOMAIN escrito : a \in 0..Inicio(Len(paginas)) - 1
  /\ \A a \in DOMAIN escrito : HayHeader(a) => escrito[a].size \in 0..PALABRA - 1
  /\ bloquesLibres \in Seq(Libres)
  /\ paginas_usadas = Len(paginas) /\ paginas_usadas <= Totales
  /\ \A b \in otorgados : b.pos \in Nat /\ b.tam \in Tamanios
  /\ torcido \in BOOLEAN /\ perdido \in BOOLEAN

Ocupa(b) == Bytes(b.pos - HEADER, HEADER + b.tam)
DeLista(i) == Bytes(Inicio(bloquesLibres[i].pagina) + bloquesLibres[i].posicion - HEADER,
                    HEADER + bloquesLibres[i].tamanio)
TieneUltimo == paginas # <<>> /\ Pag(Ultima).esFinPag /\ Pag(Ultima).tamanio_header > 0
DelUltimo == Bytes(Inicio(Ultima) + Pag(Ultima).ultimo_header - HEADER,
                   HEADER + Pag(Ultima).tamanio_header)

\* While no size has been computed wrong, no byte is given twice: not to two
\* blocks, and not to a block and to what mallocMuse may still give, the free
\* blocks of the list and the last header of the segment; and what was given is
\* in the pages that the segment has.
SinSolape ==
  ~torcido =>
    /\ \A b \in otorgados : Ocupa(b) \subseteq 0..Inicio(Len(paginas)) - 1
    /\ \A b, c \in otorgados : b # c => Ocupa(b) \cap Ocupa(c) = {}
    /\ \A b \in otorgados, i \in DOMAIN bloquesLibres : Ocupa(b) \cap DeLista(i) = {}
    /\ TieneUltimo => \A b \in otorgados : Ocupa(b) \cap DelUltimo = {}

\* ... and freeMuse and mallocMuse read headers where there are headers, unless
\* a block, given or free, goes from a page to the next one.
CruzaPaginaLibre(i) == bloquesLibres[i].posicion + bloquesLibres[i].tamanio > T
NoSePierde ==
  perdido /\ ~torcido => \/ \E b \in otorgados : CruzaPagina(b)
                         \/ \E i \in DOMAIN bloquesLibres : CruzaPaginaLibre(i)

\* Each block that muse_alloc answers is the caller's alone, whatever was freed
\* before it: "Reserva una porcion de memoria contigua de tamanio tam"
\* (libmuse.h).
OtorgadosDisjuntos == \A b, c \in otorgados : b # c => Ocupa(b) \cap Ocupa(c) = {}
=============================================================================
