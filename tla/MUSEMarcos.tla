----------------------------- MODULE MUSEMarcos -----------------------------
(***************************************************************************)
(* The pages of MUSE (Memoria/MUSE.c): its frames, its swap space, the      *)
(* clock that chooses victims, and the requests that create pages, bring    *)
(* them to memory, write and read them, and give them back.                 *)
(*                                                                         *)
(* Each process has a thread of the server (atenderConexiones) and makes    *)
(* one request at a time.  A step is an iteration of crearPaginas, a call   *)
(* of buscar_segmento_pagina with the swap it may need, the access to the   *)
(* page it found, or one of the updates a page is given back by.  Steps of  *)
(* different threads interleave if Solapan; the frame mutexes cover one     *)
(* access each, so that no mutex is held between two steps.                 *)
(*                                                                         *)
(* A process has at most one segment, and it grows at its end: the blocks   *)
(* inside a segment, free, and mapped files are left out.  What a page      *)
(* holds is who copied to it last, and which of his copies it was.  What is *)
(* left in a frame, or in a clock entry, that no page has is not told apart *)
(* from nothing: it is overwritten before it is looked for.                 *)
(***************************************************************************)
EXTENDS Integers, FiniteSets

CONSTANTS
  Procesos,        \* the processes that use MUSE
  CantidadPaginas, \* cantidad_paginas: the frames of memory
  PaginasSwap,     \* paginas_swap: the frames of the swap file
  Nadie,           \* the id -1 of a clock entry without page
  Tamanios,        \* new pages a muse_alloc may need; 0: it fits in the tail
  Versiones,       \* what a process copies to a page
  MaxPaginas,      \* bound on the pages of each process
  MaxTramo,        \* bound on the pages of one copy
  Solapan          \* whether requests of different processes overlap

ASSUME ConstantesMUSE ==
  /\ CantidadPaginas \in Nat \ {0} /\ PaginasSwap \in Nat
  /\ Nadie \notin Procesos /\ IsFiniteSet(Procesos) /\ Procesos # {}
  /\ Tamanios \subseteq Nat
  /\ Versiones \subseteq Nat \ {0}
  /\ MaxPaginas \in [Procesos -> Nat \ {0}]
  /\ MaxTramo \in Nat \ {0}
  /\ Solapan \in BOOLEAN

VARIABLES
  \* shared by the threads
  bitmap_marcos,   \* frames whose bit is '1'
  bitmap_swap,     \* frames of swap whose bit is '1'
  clock,           \* tabla_clock: the page in each frame, with its bits
  punteros,        \* entries with the pointer bit p
  memoria,         \* the content of each frame ...
  espacio,         \* ... and of each frame of swap
  paginas_usadas,
  procesos,        \* tabla_procesos
  \* the thread of each process
  paginas,         \* its page table, by page number
  listado,         \* whether its segment is in proceso->segmentos
  cola,            \* whether its last page ends in a free header (tamanio_header)
  pedido,          \* the request in progress
  caido,           \* a NULL was dereferenced: the server is gone
  \* history
  escrito,         \* what each process copied last to each page
  vaciadas         \* pages that lost their content when the segment grew

marVars == <<bitmap_marcos, bitmap_swap, clock, punteros, memoria, espacio>>
tabVars == <<paginas_usadas, procesos, paginas, listado, cola, caido>>
hisVars == <<escrito, vaciadas>>
vars == <<bitmap_marcos, bitmap_swap, clock, punteros, memoria, espacio,
          paginas_usadas, procesos, paginas, listado, cola, pedido, caido,
          escrito, vaciadas>>

Marcos == 0..CantidadPaginas - 1
MarcosSwap == 0..PaginasSwap - 1
PaginasTotales == CantidadPaginas + PaginasSwap
Numeros == UNION {0..MaxPaginas[p] - 1 : p \in Procesos}

\* What a page holds: nothing of interest, or a copy.
SinDatos == [id |-> Nadie, pag |-> 0, v |-> 0]
Contenido ==
  {SinDatos} \cup [id : Procesos, pag : Numeros, v : Versiones]
Copia(p, n) == [id |-> p, pag |-> n, v |-> escrito[p][n]]

Clock == [id : Procesos \cup {Nadie}, pag : Numeros, u : 0..1, m : 0..1]
Entrada(p, n) == [id |-> p, pag |-> n, u |-> 1, m |-> 0]
ClockVacio == [id |-> Nadie, pag |-> 0, u |-> 0, m |-> 0]

\* A page is in the frame marco of memory (p = 1) or of swap (p = 0).
Pagina == [p : 0..1, marco : Nat]

\* i is the iteration, or the page, or the frame the request is at; primera
\* tells that a copy is at its first page.
Ninguno == [op |-> "ninguno", paso |-> "", i |-> 0, hasta |-> 0, v |-> 0,
            primera |-> FALSE, cola |-> FALSE]

Menor(S) == CHOOSE i \in S : \A j \in S : i <= j
list_size(p) == Cardinality(DOMAIN paginas[p])
MarcosLibres == Marcos \ bitmap_marcos
Con(f, n, x) == [k \in DOMAIN f \cup {n} |-> IF k = n THEN x ELSE f[k]]

TypeOK ==
  /\ bitmap_marcos \subseteq Marcos /\ bitmap_swap \subseteq MarcosSwap
  /\ clock \in [Marcos -> Clock]
  /\ punteros \subseteq Marcos /\ punteros # {}
  /\ memoria \in [Marcos -> Contenido]
  /\ espacio \in [MarcosSwap -> Contenido]
  /\ paginas_usadas \in 0..PaginasTotales
  /\ procesos \subseteq Procesos
  /\ DOMAIN paginas = Procesos
  /\ \A p \in Procesos :
       /\ DOMAIN paginas[p] \subseteq Numeros
       /\ \A n \in DOMAIN paginas[p] :
            /\ paginas[p][n] \in Pagina
            /\ paginas[p][n].marco \in
                 IF paginas[p][n].p = 1 THEN Marcos ELSE MarcosSwap
  /\ listado \in [Procesos -> BOOLEAN] /\ cola \in [Procesos -> BOOLEAN]
  /\ pedido \in [Procesos ->
       [op : {"ninguno", "reservar", "ajustar", "copiar", "obtener", "cerrar"},
        paso : {"", "crear", "buscar", "usar", "quitar", "bit", "clock"},
        i : Nat, hasta : Nat, v : {0, 1} \cup Versiones,
        primera : BOOLEAN, cola : BOOLEAN]]
  /\ caido \in BOOLEAN
  /\ escrito \in [Procesos -> [Numeros -> {0} \cup Versiones]]
  /\ vaciadas \subseteq Procesos \X Numeros

\* inicializarMemoria and inicializarSwap.  The pointer bit of the first
\* entry is set and that of the others is not initialized.
Init ==
  /\ bitmap_marcos = {} /\ bitmap_swap = {}
  /\ clock = [f \in Marcos |-> ClockVacio]
  /\ punteros \in {S \in SUBSET Marcos : 0 \in S}
  /\ memoria = [f \in Marcos |-> SinDatos]
  /\ espacio = [s \in MarcosSwap |-> SinDatos]
  /\ paginas_usadas = 0 /\ procesos = {}
  /\ paginas = [p \in Procesos |-> [n \in {} |-> 0]]
  /\ listado = [p \in Procesos |-> FALSE]
  /\ cola = [p \in Procesos |-> FALSE]
  /\ pedido = [p \in Procesos |-> Ninguno]
  /\ caido = FALSE
  /\ escrito = [p \in Procesos |-> [n \in Numeros |-> 0]]
  /\ vaciadas = {}

(***************************************************************************)
(* swap.                                                                    *)
(***************************************************************************)

\* Turns of the clock, from the pointer i.
Distancia(i, f) == (f - i) % CantidadPaginas
Primero(i, S) ==
  CHOOSE f \in S : \A g \in S : Distancia(i, f) <= Distancia(i, g)
Con_um(u, m) == {f \in Marcos : clock[f].u = u /\ clock[f].m = m}

\* The first with u = m = 0; else the first with u = 0 and m = 1, clearing u
\* on the way; else, with every u cleared, the same two searches again.
Victima(i) ==
  CASE Con_um(0, 0) # {} -> Primero(i, Con_um(0, 0))
    [] Con_um(0, 0) = {} /\ Con_um(0, 1) # {} -> Primero(i, Con_um(0, 1))
    [] OTHER -> IF Con_um(1, 0) # {} THEN Primero(i, Con_um(1, 0)) ELSE i

Limpia(i, f) ==
  /\ Con_um(0, 0) = {}
  /\ Con_um(0, 1) # {} => Distancia(i, f) < Distancia(i, Victima(i))

\* The page of an entry, looked for in tabla_procesos and proceso->segmentos.
Encontrable(c) ==
  /\ c.id \in procesos /\ listado[c.id]
  /\ c.pag \in DOMAIN paginas[c.id]

\* MUTANT: a page that comes back while there is a free frame keeps its swap.
DevolverSwap(s) == bitmap_swap

\* The page came back: its frame of swap is free.
LiberarSwap(s) == bitmap_swap \ {s}

\* There is a free frame: the page n of p comes from the frame s of swap.
TraerALibre(p, n, s) ==
  /\ MarcosLibres # {}
  /\ LET f == Menor(MarcosLibres) IN
       /\ bitmap_marcos' = bitmap_marcos \cup {f}
       /\ clock' = [clock EXCEPT ![f] = Entrada(p, n)]
       /\ memoria' = [memoria EXCEPT ![f] = espacio[s]]
       /\ paginas' = [paginas EXCEPT ![p] = Con(@, n, [p |-> 1, marco |-> f])]
  /\ bitmap_swap' = LiberarSwap(s)
  /\ espacio' = [espacio EXCEPT ![s] = SinDatos]
  /\ UNCHANGED <<punteros>>

\* MUTANT: what comes back is taken from the frame the victim went to.
Traido(s, d) == [espacio EXCEPT ![d] = memoria[Victima(Menor(punteros))]][s]

\* What was in swap is set aside before the victim takes its place.
Auxiliar(s, d) == espacio[s]

\* There is none: the victim goes to swap, to the first frame free once that
\* of the page that comes back is.  A new page is filled with zeros.
TraerPorVictima(p, n, s, nueva) ==
  LET i == Menor(punteros)
      f == Victima(i)
      d == Menor(MarcosSwap \ (bitmap_swap \ {s}))
  IN  /\ MarcosLibres = {}
      /\ Encontrable(clock[f])
      /\ punteros' = (punteros \ {i}) \cup {(f + 1) % CantidadPaginas}
      /\ clock' = [g \in Marcos |->
                     IF g = f THEN Entrada(p, n)
                     ELSE [clock[g] EXCEPT !.u = IF Limpia(i, g) THEN 0 ELSE @]]
      /\ bitmap_swap' = (bitmap_swap \ {s}) \cup {d}
      /\ espacio' = [espacio EXCEPT ![s] = SinDatos, ![d] = memoria[f]]
      /\ memoria' = [memoria EXCEPT ![f] =
                       IF nueva THEN SinDatos ELSE Auxiliar(s, d)]
      /\ paginas' = [[paginas EXCEPT ![clock[f].id][clock[f].pag] = [p |-> 0, marco |-> d]]
                       EXCEPT ![p] = Con(@, n, [p |-> 1, marco |-> f])]
      /\ UNCHANGED bitmap_marcos

\* The page of the victim is not found.
SinVictima ==
  MarcosLibres = {} /\ ~Encontrable(clock[Victima(Menor(punteros))])

Traer(p, n, s, nueva) ==
  TraerALibre(p, n, s) \/ TraerPorVictima(p, n, s, nueva)

(***************************************************************************)
(* The requests.                                                            *)
(***************************************************************************)

\* What the thread of p does next.
Paso(p, paso) == ~caido /\ pedido[p].paso = paso

\* SALUDO: the process enters tabla_procesos.
Saludar(p) ==
  /\ ~caido /\ p \notin procesos
  /\ procesos' = procesos \cup {p}
  /\ listado' = [listado EXCEPT ![p] = FALSE]
  /\ UNCHANGED <<marVars, paginas_usadas, paginas, cola, pedido, caido, hisVars>>

\* A process waits for the answer to a request before it makes another.
Puede(p) ==
  /\ ~caido /\ p \in procesos
  /\ IF Solapan THEN pedido[p] = Ninguno ELSE \A q \in Procesos : pedido[q] = Ninguno

Pedir(p, r) ==
  /\ pedido' = [pedido EXCEPT ![p] = r]
  /\ UNCHANGED <<marVars, procesos, paginas, cola, caido>>

\* MUTANT: a muse_alloc that does not fit is not refused.
CabeSiempre(k) == TRUE

\* The pages of memory and swap must be enough, counting those granted.
Cabe(k) == paginas_usadas + k <= PaginasTotales

\* muse_alloc of k new pages, with a free header after it or not: mallocMuse
\* extends the last segment or makes one.  The tail there was, which is not
\* enough, is the beginning of what is granted.
Reservar(p, k, c) ==
  /\ Puede(p) /\ k > 0
  /\ Cabe(k)
  /\ list_size(p) + k <= MaxPaginas[p]
  /\ paginas_usadas' = paginas_usadas + k
  /\ Pedir(p, [Ninguno EXCEPT !.op = "reservar", !.paso = "crear",
                 !.i = 1,
                 !.hasta = IF cola[p] THEN k + 1 ELSE k, !.cola = c])
  /\ UNCHANGED <<listado, hisVars>>

\* muse_alloc of what fits in the tail: actualizar_header writes its header
\* and that of what is left.
ReservarEnCola(p, c) ==
  /\ Puede(p) /\ cola[p]
  /\ Pedir(p, [Ninguno EXCEPT !.op = "ajustar", !.paso = "buscar",
                 !.i = list_size(p) - 1, !.hasta = list_size(p) - 1,
                 !.cola = c])
  /\ UNCHANGED <<paginas_usadas, listado, hisVars>>

\* muse_cpy on the pages desde..hasta; muse_get, one page at a time, since a
\* read of several is a read of each.
Acceder(p, op, desde, hasta, v) ==
  /\ Puede(p) /\ hasta \in desde..desde + MaxTramo - 1
  /\ {desde, hasta} \subseteq DOMAIN paginas[p]
  /\ Pedir(p, [Ninguno EXCEPT !.op = op, !.paso = "buscar", !.i = desde,
                 !.hasta = hasta, !.v = v, !.primera = (op = "copiar")])
  /\ UNCHANGED <<paginas_usadas, listado, hisVars>>

\* muse_close, or the end of the process: liberarTodo takes the segment out
\* of the list before it gives its pages back.
Cerrar(p) ==
  /\ Puede(p)
  /\ pedido' = [pedido EXCEPT ![p] =
                  [Ninguno EXCEPT !.op = "cerrar", !.paso = "quitar"]]
  /\ listado' = [listado EXCEPT ![p] = FALSE]
  /\ cola' = [cola EXCEPT ![p] = FALSE]
  /\ UNCHANGED <<marVars, paginas_usadas, procesos, paginas, caido, hisVars>>

(***************************************************************************)
(* crearPaginas.                                                            *)
(***************************************************************************)

\* The next iteration; after the last the new segment enters the list.
SigueReserva(p) ==
  LET r == pedido[p] IN
  IF r.i = r.hasta
  THEN /\ pedido' = [pedido EXCEPT ![p] = Ninguno]
       /\ listado' = [listado EXCEPT ![p] = TRUE]
       /\ cola' = [cola EXCEPT ![p] = r.cola]
  ELSE /\ pedido' = [pedido EXCEPT ![p].i = r.i + 1]
       /\ cola' = [cola EXCEPT ![p] = FALSE]
       /\ UNCHANGED listado

Creando(p) == Paso(p, "crear")
Reusa(p) == pedido[p].i = 1 /\ cola[p]

\* The first iteration begins in the tail of the last page, which comes back
\* as a new one: with no free frame its content is lost.
ReusarUltima(p) ==
  LET n == list_size(p) - 1 IN
  /\ Creando(p) /\ Reusa(p)
  /\ \/ /\ paginas[p][n].p = 1
        /\ UNCHANGED <<marVars, paginas, hisVars>>
     \/ /\ paginas[p][n].p = 0
        /\ Traer(p, n, paginas[p][n].marco, TRUE)
        /\ vaciadas' = IF MarcosLibres = {} /\ escrito[p][n] # 0 THEN vaciadas \cup {<<p, n>>}
                       ELSE vaciadas
        /\ UNCHANGED escrito
  /\ SigueReserva(p)
  /\ UNCHANGED <<paginas_usadas, procesos, caido>>

\* A new page takes a free frame; else one of swap, from which the first and
\* the last, that hold headers, are brought at once.
PaginaNueva(p) ==
  LET n == list_size(p)
      f == Menor(MarcosLibres)
      s == Menor(MarcosSwap \ bitmap_swap)
      conHeader == pedido[p].i \in {1, pedido[p].hasta}
  IN  /\ Creando(p) /\ ~Reusa(p)
      /\ \/ /\ MarcosLibres # {}
            /\ bitmap_marcos' = bitmap_marcos \cup {f}
            /\ clock' = [clock EXCEPT ![f] = Entrada(p, n)]
            /\ paginas' = [paginas EXCEPT
                             ![p] = Con(@, n, [p |-> 1, marco |-> f])]
            /\ UNCHANGED <<bitmap_swap, punteros, memoria, espacio>>
         \/ /\ MarcosLibres = {} /\ MarcosSwap # bitmap_swap
            /\ ~conHeader
            /\ bitmap_swap' = bitmap_swap \cup {s}
            /\ paginas' = [paginas EXCEPT
                             ![p] = Con(@, n, [p |-> 0, marco |-> s])]
            /\ UNCHANGED <<bitmap_marcos, clock, punteros, memoria, espacio>>
         \/ /\ MarcosLibres = {} /\ MarcosSwap # bitmap_swap
            /\ conHeader
            /\ TraerPorVictima(p, n, s, TRUE)
      /\ SigueReserva(p)
      /\ UNCHANGED <<paginas_usadas, procesos, caido, hisVars>>

(***************************************************************************)
(* Access to a page.                                                        *)
(***************************************************************************)

Buscando(p) == Paso(p, "buscar")
Actual(p) == paginas[p][pedido[p].i]

\* buscar_segmento_pagina: the page is present, or swap brings it.
Buscar(p) ==
  /\ Buscando(p)
  /\ \/ /\ Actual(p).p = 1
        /\ clock' = [clock EXCEPT ![Actual(p).marco].u = 1]
        /\ UNCHANGED <<bitmap_marcos, bitmap_swap, punteros, memoria, espacio,
                       paginas>>
     \/ /\ Actual(p).p = 0
        /\ Traer(p, pedido[p].i, Actual(p).marco, FALSE)
  /\ pedido' = [pedido EXCEPT ![p].paso = "usar"]
  /\ UNCHANGED <<paginas_usadas, procesos, listado, cola, caido, hisVars>>

Usando(p) == Paso(p, "usar")

\* The next page, or the answer.
SigueAcceso(p) ==
  LET r == pedido[p] IN
  pedido' = [pedido EXCEPT ![p] =
               IF r.i = r.hasta THEN Ninguno
               ELSE [r EXCEPT !.i = @ + 1, !.paso = "buscar", !.primera = FALSE]]

\* copiarMuse writes in the frame the page has now; m is set for the first.
Escribir(p) ==
  LET r == pedido[p]
      f == Actual(p).marco
  IN  /\ Usando(p) /\ r.op = "copiar" /\ f \in Marcos
      /\ memoria' = [memoria EXCEPT ![f] = [id |-> p, pag |-> r.i, v |-> r.v]]
      /\ clock' = IF r.primera THEN [clock EXCEPT ![f].m = 1] ELSE clock
      /\ escrito' = [escrito EXCEPT ![p][r.i] = r.v]
      /\ vaciadas' = vaciadas \ {<<p, r.i>>}
      /\ SigueAcceso(p)
      /\ UNCHANGED <<bitmap_marcos, bitmap_swap, punteros, espacio, tabVars>>

\* getMuse reads it.
Leer(p) ==
  /\ Usando(p) /\ pedido[p].op = "obtener" /\ Actual(p).marco \in Marcos
  /\ SigueAcceso(p)
  /\ UNCHANGED <<marVars, tabVars, hisVars>>

\* actualizar_header writes headers: nothing that has been copied.
EscribirHeader(p) ==
  /\ Usando(p) /\ pedido[p].op = "ajustar" /\ Actual(p).marco \in Marcos
  /\ cola' = [cola EXCEPT ![p] = pedido[p].cola]
  /\ SigueAcceso(p)
  /\ UNCHANGED <<marVars, paginas_usadas, procesos, paginas, listado, caido,
                 hisVars>>

\* swap is called for a page with header, or for one that is not present.
PideSwap(p) ==
  \/ Creando(p) /\ IF Reusa(p) THEN paginas[p][list_size(p) - 1].p = 0
                     ELSE pedido[p].i \in {1, pedido[p].hasta}
  \/ Buscando(p) /\ Actual(p).p = 0

\* The page of the victim is not found and its NULL is used; or both bitmaps
\* are full, and -1 is taken for a frame; or the frame of swap of a page that
\* is not in memory is taken for one of memory, beyond lista_marcos_memoria.
Falla(p) ==
  \/ PideSwap(p) /\ SinVictima
  \/ Creando(p) /\ ~Reusa(p) /\ MarcosLibres = {} /\ MarcosSwap = bitmap_swap
  \/ Usando(p) /\ Actual(p).marco \notin Marcos

Caer(p) ==
  /\ Falla(p)
  /\ caido' = TRUE
  /\ UNCHANGED <<marVars, paginas_usadas, procesos, paginas, listado, cola,
                 pedido, hisVars>>

(***************************************************************************)
(* liberarTodo and modificar_clock_bitmap.                                  *)
(***************************************************************************)

\* The pages counted out with the page x.
Devueltas(x) == 1

\* The first page of the table is counted out and removed.
QuitarPagina(p) ==
  LET n == Menor(DOMAIN paginas[p]) IN
  /\ Paso(p, "quitar") /\ DOMAIN paginas[p] # {}
  /\ paginas_usadas' = paginas_usadas - Devueltas(paginas[p][n])
  /\ paginas' = [paginas EXCEPT ![p] = [k \in DOMAIN @ \ {n} |-> @[k]]]
  /\ pedido' = [pedido EXCEPT ![p].paso = "bit",
                              ![p].i = paginas[p][n].marco,
                              ![p].v = paginas[p][n].p]
  /\ escrito' = [escrito EXCEPT ![p][n] = 0]
  /\ vaciadas' = vaciadas \ {<<p, n>>}
  /\ UNCHANGED <<marVars, procesos, listado, cola, caido>>

LiberarBit(p) ==
  LET r == pedido[p] IN
  /\ Paso(p, "bit")
  /\ \/ /\ r.v = 1
        /\ bitmap_marcos' = bitmap_marcos \ {r.i}
        /\ pedido' = [pedido EXCEPT ![p].paso = "clock"]
        /\ memoria' = [memoria EXCEPT ![r.i] = SinDatos]
        /\ UNCHANGED <<bitmap_swap, espacio>>
     \/ /\ r.v = 0
        /\ espacio' = [espacio EXCEPT ![r.i] = SinDatos]
        /\ UNCHANGED memoria
        /\ bitmap_swap' = bitmap_swap \ {r.i}
        /\ pedido' = [pedido EXCEPT ![p] =
                        [Ninguno EXCEPT !.op = "cerrar", !.paso = "quitar"]]
        /\ UNCHANGED bitmap_marcos
  /\ UNCHANGED <<clock, punteros, tabVars, hisVars>>

\* MUTANT: only the bits are cleared.
SinBits(c) == [c EXCEPT !.u = 0, !.m = 0]

SinPagina(c) == ClockVacio

\* remover_clocky.
RemoverClock(p) ==
  /\ Paso(p, "clock")
  /\ clock' = [clock EXCEPT ![pedido[p].i] = SinPagina(@)]
  /\ pedido' = [pedido EXCEPT ![p] =
                  [Ninguno EXCEPT !.op = "cerrar", !.paso = "quitar"]]
  /\ UNCHANGED <<bitmap_marcos, bitmap_swap, punteros, memoria, espacio,
                 tabVars, hisVars>>

\* The process leaves tabla_procesos and its thread ends.
Salir(p) ==
  /\ Paso(p, "quitar") /\ DOMAIN paginas[p] = {}
  /\ procesos' = procesos \ {p}
  /\ pedido' = [pedido EXCEPT ![p] = Ninguno]
  /\ UNCHANGED <<marVars, paginas_usadas, paginas, listado, cola, caido,
                 hisVars>>

(***************************************************************************)
(* The server.                                                              *)
(***************************************************************************)

Pide(p) ==
  \/ Saludar(p)
  \/ \E k \in Tamanios, c \in BOOLEAN : Reservar(p, k, c)
  \/ 0 \in Tamanios /\ \E c \in BOOLEAN : ReservarEnCola(p, c)
  \/ \E n \in DOMAIN paginas[p] : Acceder(p, "obtener", n, n, 0)
  \/ \E a, b \in DOMAIN paginas[p], v \in Versiones :
       Acceder(p, "copiar", a, b, v)
  \/ Cerrar(p)

Atiende(p) ==
  \/ ReusarUltima(p)
  \/ PaginaNueva(p)
  \/ Buscar(p)
  \/ Escribir(p)
  \/ Leer(p)
  \/ EscribirHeader(p)
  \/ Caer(p)
  \/ QuitarPagina(p)
  \/ LiberarBit(p)
  \/ RemoverClock(p)
  \/ Salir(p)

Next == \E p \in Procesos : Pide(p) \/ Atiende(p)

Spec == Init /\ [][Next]_vars

(***************************************************************************)
(* Properties.                                                              *)
(***************************************************************************)

Paginas == UNION {{<<p, n>> : n \in DOMAIN paginas[p]} : p \in Procesos}
En(w) == paginas[w[1]][w[2]]

\* Processes that have given back a page, but not yet its bit.
Devolviendo == {p \in Procesos : pedido[p].paso = "bit"}

\* The frames of memory (e = 1) or of swap (e = 0) that are of a page.
Usados(e) ==
  {En(w).marco : w \in {v \in Paginas : En(v).p = e}}
    \cup {pedido[p].i : p \in {q \in Devolviendo : pedido[q].v = e}}

\* The pages granted to requests in progress and not made yet.
Faltan(p) ==
  IF pedido[p].paso = "crear"
  THEN pedido[p].hasta - pedido[p].i + (IF Reusa(p) THEN 0 ELSE 1) ELSE 0
Prometidas == UNION {{<<p, i>> : i \in 1..Faltan(p)} : p \in Procesos}

\* A frame, of memory or of swap, is of one page at most, and its bit in
\* bitmap_marcos or bitmap_swap tells whether it is of one: swap exchanges
\* frames between two pages that may be of different processes, and a page
\* lost or a frame kept would never be noticed by the process that lost it.
\* paginas_usadas, kept apart from the bitmaps, counts the pages there are and
\* those granted to requests in progress.
MarcosJustos ==
  /\ bitmap_marcos = Usados(1) /\ bitmap_swap = Usados(0)
  /\ Cardinality(bitmap_marcos) + Cardinality(bitmap_swap)
       = Cardinality(Paginas) + Cardinality(Devolviendo)
  /\ paginas_usadas = Cardinality(Paginas) + Cardinality(Prometidas)

\* So a granted page always finds a frame, and buscar_marco_libre never gives -1
\* for both bitmaps, if no other request is giving back a page.
MarcosDeUno ==
  /\ MarcosJustos
  /\ \A p \in Procesos :
       Creando(p) /\ ~Reusa(p) /\ MarcosLibres = {} => MarcosSwap # bitmap_swap

\* The clock names the page in each frame in use: it is all swap has to find
\* the page of its victim, in tables that other requests change.
ClockAlDia ==
  /\ \A w \in Paginas :
       En(w).p = 1 => /\ clock[En(w).marco].id = w[1]
                      /\ clock[En(w).marco].pag = w[2]
  /\ \A f \in Marcos \ bitmap_marcos :
       clock[f].id = Nadie
         \/ \E p \in Procesos : pedido[p].paso = "clock" /\ pedido[p].i = f

Guardado(p, n) ==
  LET x == paginas[p][n] IN IF x.p = 1 THEN memoria[x.marco] ELSE espacio[x.marco]

\* What a process copied to a page is in the frame its table says, in memory
\* or in swap, however often the page has been a victim and whoever else has
\* used the frames; but for the pages that muse_alloc zeroes when it extends
\* the segment.
ContenidoIntacto ==
  \A w \in Paginas \ vaciadas :
    escrito[w[1]][w[2]] # 0 => Guardado(w[1], w[2]) = Copia(w[1], w[2])

\* The server dies only when swap chooses a page of the segment being made,
\* which is in no list yet: a first muse_alloc that memory cannot hold.
CaeSoloSiNoEntra ==
  caido =>
    LET c == clock[Victima(Menor(punteros))] IN
    c.id \in procesos /\ ~listado[c.id] /\ pedido[c.id].op = "reservar"

\* muse_get gives what muse_cpy left there.
LeeLoCopiado ==
  \A p \in Procesos :
    (/\ Usando(p) /\ pedido[p].op = "obtener"
     /\ Actual(p).marco \in Marcos /\ escrito[p][pedido[p].i] # 0)
      => memoria[Actual(p).marco] = Copia(p, pedido[p].i)
=============================================================================
