------------------------------ MODULE MUSEMapas ------------------------------
(***************************************************************************)
(* The mapped files of MUSE (Memoria/MUSE.c): mappearMuse, syncMuse and     *)
(* unmapMuse, the end of a process that has a file mapped, and the accesses *)
(* to its pages.                                                            *)
(*                                                                         *)
(* The pages of a file mapped MAP_SHARED are one list, that every process   *)
(* that maps it points to; they are found by swap as pages of a process of  *)
(* MUSE's own, the first of tabla_procesos (fantasma).  The thread of each  *)
(* process holds sem_mapeo from the beginning to the end of a MAPEAR, SINCRO *)
(* or DESMAP; liberarTodo, at the end of a process, unmaps without it.      *)
(*                                                                         *)
(* A process maps one file at a time and has no other segment, as the test  *)
(* programs do; so its segment and that of the fantasma have the number 0,  *)
(* and all processes map a file with the same length, as the code assumes   *)
(* (MUSE.c:1748).  An access is one step: MUSEMarcos has the interleavings   *)
(* inside it and the order in which the clock takes victims; here any page  *)
(* may be the victim.  A page holds one value.                              *)
(***************************************************************************)
EXTENDS Integers, Sequences, FiniteSets

CONSTANTS
  Procesos,         \* the processes that use MUSE
  Archivos,         \* the files they map
  NoAbren,          \* those that open() refuses
  Paginas,          \* length of a mapping, in pages
  LargoInicial,     \* pages each file has at first
  CantidadPaginas,  \* cantidad_paginas: the frames of memory
  PaginasSwap,      \* paginas_swap: the frames of the swap file
  Valores,          \* what a process writes in a page
  Nadie,            \* no process: sem_mapeo is free, a clock entry has no page
  Fantasma,         \* the process of the pages of shared files
  MaxPerdidas       \* bound on the pages that refused files have cost

CERO == 0           \* a page of '\0'
SinMapa == [archivo |-> Nadie, flag |-> ""]

ASSUME ConstantesMapas ==
  /\ NoAbren \subseteq Archivos /\ Archivos \cap Procesos = {}
  /\ Paginas \in Nat \ {0} /\ LargoInicial \in [Archivos -> 0..Paginas]
  /\ CantidadPaginas \in Nat \ {0} /\ PaginasSwap \in Nat
  /\ Valores \subseteq Nat \ {0} /\ Valores # {}
  /\ {Nadie, Fantasma} \cap Procesos = {} /\ Nadie # Fantasma
  /\ MaxPerdidas \in Nat

VARIABLES
  \* shared by the threads
  bitmap_marcos, bitmap_swap,   \* the frames whose bit is '1'
  clock,            \* tabla_clock: whose page is in each frame
  memoria, espacio, \* what each frame of memory, and of swap, has
  paginas_usadas,
  paginas,          \* lists of pages: of a shared file, of a private mapping
  tabla_archivos,   \* the files that are in the table
  mapeado,          \* for each of them, archivo->proceso
  fantasma,         \* fantasma->segmentos: their files, in order
  sem_mapeo,        \* the process whose thread has it
  caido,            \* a NULL was dereferenced: the server is gone
  \* of each process
  segmento,         \* the file it has mapped, and how
  pedido,           \* its request
  \* outside
  disco,            \* the pages of each file
  \* history
  esperado,         \* what a page was given last, by whoever maps its file
  cerrados,         \* files whose pages have been given back
  abandonados,      \* files that were mapped and, at some moment, by nobody
  perdidas          \* pages counted for files that open() refused

marVars == <<bitmap_marcos, bitmap_swap, clock, memoria, espacio>>
tabVars == <<tabla_archivos, mapeado, fantasma>>
hisVars == <<esperado, cerrados, abandonados, perdidas>>
vars == <<bitmap_marcos, bitmap_swap, clock, memoria, espacio, paginas_usadas,
          paginas, tabla_archivos, mapeado, fantasma, sem_mapeo, caido,
          segmento, pedido, disco, esperado, cerrados, abandonados, perdidas>>

Marcos == 0..CantidadPaginas - 1
MarcosSwap == 0..PaginasSwap - 1
Numeros == 0..Paginas - 1
Listas == Archivos \cup Procesos
Contenidos == Valores \cup {CERO}
CUALQUIERA == -1    \* esperado: nothing was read nor written there
PaginasTotales == CantidadPaginas + PaginasSwap

Ninguno == [op |-> "ninguno", archivo |-> Nadie, flag |-> "", i |-> 0]
ClockVacio == [id |-> Nadie, pag |-> 0]

Menor(S) == CHOOSE i \in S : \A j \in S : i <= j
\* The element of S that has i before it.
Enesimo(S, i) == CHOOSE x \in S : Cardinality({y \in S : y < x}) = i
SinLista == [n \in {} |-> 0]

Init ==
  /\ bitmap_marcos = {} /\ bitmap_swap = {}
  /\ clock = [f \in Marcos |-> ClockVacio]
  /\ memoria = [f \in Marcos |-> CERO] /\ espacio = [s \in MarcosSwap |-> CERO]
  /\ paginas_usadas = 0 /\ paginas = [l \in Listas |-> SinLista]
  /\ tabla_archivos = {} /\ mapeado = [a \in Archivos |-> {}] /\ fantasma = <<>>
  /\ sem_mapeo = Nadie /\ caido = FALSE
  /\ segmento = [p \in Procesos |-> SinMapa]
  /\ pedido = [p \in Procesos |-> Ninguno]
  /\ disco = [a \in Archivos |-> [i \in 1..LargoInicial[a] |-> CERO]]
  /\ esperado = [l \in Listas |-> [n \in Numeros |-> CUALQUIERA]]
  /\ cerrados = {} /\ abandonados = {} /\ perdidas = 0

(***************************************************************************)
(* Finding pages.                                                           *)
(***************************************************************************)

\* MUTANT: the clock has a shared page for the process that used it.
DuenioPropio(s, p) == p

\* The list of pages of the segment of p, and whom the clock has them for.
ListaDe(s, p) == IF s.flag = "SHARED" THEN s.archivo ELSE p
DuenioDe(s, p) == IF s.flag = "SHARED" THEN Fantasma ELSE p

\* Where swap looks for the page of a clock entry: a segment number 0 of its
\* process, that of the fantasma being the first in its list.
ListasDelClock(c) ==
  IF c.id = Fantasma THEN {fantasma[1] : i \in DOMAIN fantasma \cap {1}}
  ELSE {ListaDe(segmento[p], p) : p \in {q \in {c.id} \cap Procesos : segmento[q] # SinMapa}}
Victimas(f) == {l \in ListasDelClock(clock[f]) : clock[f].pag \in DOMAIN paginas[l]}

\* agregar_pag_clock finds the segment of a shared page by its path.
EnElFantasma(s) ==
  s.flag = "SHARED" => s.archivo \in {fantasma[i] : i \in DOMAIN fantasma}

\* MUTANT: the bits are not looked at.
CualquierSwap == MarcosSwap

LibresMarcos == Marcos \ bitmap_marcos
LibresSwap == MarcosSwap \ bitmap_swap

\* swap brings the page n of list l, in the frame s of swap, to f.
TraerALibre(l, n, duenio) ==
  LET s == paginas[l][n].marco
      f == Menor(LibresMarcos)
  IN /\ LibresMarcos # {}
     /\ bitmap_marcos' = bitmap_marcos \cup {f} /\ bitmap_swap' = bitmap_swap \ {s}
     /\ clock' = [clock EXCEPT ![f] = [id |-> duenio, pag |-> n]]
     /\ memoria' = [memoria EXCEPT ![f] = espacio[s]]
     /\ paginas' = [paginas EXCEPT ![l][n] = [p |-> 1, marco |-> f]]
     /\ UNCHANGED espacio

TraerPorVictima(l, n, duenio, f) ==
  LET s == paginas[l][n].marco
      d == Menor(MarcosSwap \ (bitmap_swap \ {s}))
  IN /\ LibresMarcos = {}
     /\ \E v \in Victimas(f) :
          paginas' = [paginas EXCEPT ![v][clock[f].pag] = [p |-> 0, marco |-> d],
                                     ![l][n] = [p |-> 1, marco |-> f]]
     /\ bitmap_swap' = (bitmap_swap \ {s}) \cup {d}
     /\ clock' = [clock EXCEPT ![f] = [id |-> duenio, pag |-> n]]
     /\ espacio' = [espacio EXCEPT ![d] = memoria[f]]
     /\ memoria' = [memoria EXCEPT ![f] = espacio[s]]
     /\ UNCHANGED bitmap_marcos

\* buscar_segmento_pagina: the page n of the segment of p ends in a frame.
BuscarPagina(p, n) ==
  LET s == segmento[p]
      l == ListaDe(s, p)
  IN /\ n \in DOMAIN paginas[l]
     /\ \/ paginas[l][n].p = 1 /\ UNCHANGED <<marVars, paginas>>
        \/ /\ paginas[l][n].p = 0 /\ EnElFantasma(s)
           /\ \/ TraerALibre(l, n, DuenioDe(s, p))
              \/ \E f \in Marcos : TraerPorVictima(l, n, DuenioDe(s, p), f)

\* ... or a NULL is dereferenced: there is no such page, or its file is in no
\* segment of the fantasma, or swap does not find the page of its victim.
FallaPagina(p, n) ==
  LET s == segmento[p]
      l == ListaDe(s, p)
  IN \/ n \notin DOMAIN paginas[l]
     \/ /\ n \in DOMAIN paginas[l] /\ paginas[l][n].p = 0
        /\ ~ EnElFantasma(s) \/ (LibresMarcos = {} /\ \E f \in Marcos : Victimas(f) = {})

Caer ==
  /\ caido' = TRUE
  /\ UNCHANGED <<marVars, paginas_usadas, paginas, tabVars, sem_mapeo, segmento,
                 pedido, disco, hisVars>>

(***************************************************************************)
(* libMuse: a process waits for the answer to each call.                    *)
(***************************************************************************)

Pedir(p, r) ==
  /\ ~caido /\ pedido[p] = Ninguno
  /\ pedido' = [pedido EXCEPT ![p] = r]
  /\ UNCHANGED <<marVars, paginas_usadas, paginas, tabVars, sem_mapeo, caido,
                 segmento, disco, hisVars>>

muse_map(p, a, flag) ==
  /\ segmento[p] = SinMapa
  /\ Pedir(p, [Ninguno EXCEPT !.op = "MAPEAR", !.archivo = a, !.flag = flag])

\* The first n pages.
muse_sync(p, n) ==
  /\ segmento[p] # SinMapa
  /\ Pedir(p, [Ninguno EXCEPT !.op = "SINCRO", !.i = n])

muse_unmap(p) ==
  /\ segmento[p] # SinMapa
  /\ Pedir(p, [Ninguno EXCEPT !.op = "DESMAP"])

\* muse_close, or the end of the process, that has not unmapped its file.
muse_close(p) ==
  /\ segmento[p] # SinMapa
  /\ Pedir(p, [Ninguno EXCEPT !.op = "CERRAR"])

(***************************************************************************)
(* MAPEAR: mappearMuse, which finds no empty segment.                       *)
(***************************************************************************)

TieneElSem(p, op) == ~caido /\ pedido[p].op = op /\ sem_mapeo = Nadie

Contestar(p) == pedido' = [pedido EXCEPT ![p] = Ninguno]

\* MUTANT: the table of files is not looked at.
NuevasSinTabla(r) == TRUE

\* A file that is in the table needs no pages, unless it is mapped privately.
Nuevas(r) == r.flag = "PRIVATE" \/ r.archivo \notin tabla_archivos
NoCaben(r) == Nuevas(r) /\ paginas_usadas + Paginas > PaginasTotales

Rechazar(p) ==
  /\ TieneElSem(p, "MAPEAR") /\ NoCaben(pedido[p])
  /\ Contestar(p)
  /\ UNCHANGED <<marVars, paginas_usadas, paginas, tabVars, sem_mapeo, caido,
                 segmento, disco, hisVars>>

\* open() fails when the pages have been counted; the path that is freed then
\* has been set only for a private mapping.
NoAbre(p) ==
  /\ TieneElSem(p, "MAPEAR") /\ ~ NoCaben(pedido[p]) /\ Nuevas(pedido[p])
  /\ pedido[p].archivo \in NoAbren /\ perdidas + Paginas <= MaxPerdidas
  /\ paginas_usadas' = paginas_usadas + Paginas
  /\ perdidas' = perdidas + Paginas
  /\ caido' \in IF pedido[p].flag = "SHARED" THEN BOOLEAN ELSE {FALSE}
  /\ Contestar(p)
  /\ UNCHANGED <<marVars, paginas, tabVars, sem_mapeo, segmento, disco,
                 esperado, cerrados, abandonados>>

\* The process maps what others have.
Compartir(p) ==
  LET a == pedido[p].archivo
  IN /\ TieneElSem(p, "MAPEAR") /\ ~ Nuevas(pedido[p])
     /\ segmento' = [segmento EXCEPT ![p] = [archivo |-> a, flag |-> "SHARED"]]
     /\ mapeado' = [mapeado EXCEPT ![a] = @ \cup {p}]
     /\ Contestar(p)
     /\ UNCHANGED <<marVars, paginas_usadas, paginas, tabla_archivos, fantasma,
                    sem_mapeo, caido, disco, hisVars>>

\* MUTANT: p is never reset.
PaginaPresente(i) == [p |-> 1, marco |-> Enesimo(LibresSwap \cup Marcos, i)]

\* The i-th new page: swap while it has room, then memory.
PaginaNueva(i) ==
  IF i < Cardinality(LibresSwap)
  THEN [p |-> 0, marco |-> Enesimo(LibresSwap, i)]
  ELSE [p |-> 1, marco |-> Enesimo(LibresMarcos, i - Cardinality(LibresSwap))]

\* What it is given to hold: what the file has, zeros beyond its end, and in
\* the first page of an empty file nothing, so it keeps what its frame had.
LeeDelArchivo(a, i) ==
  CASE i < Len(disco[a]) -> disco[a][i + 1]
    [] i >= Len(disco[a]) /\ i > 0 -> CERO
    [] OTHER -> CUALQUIERA

crearPaginasmapeadas(p) ==
  LET r == pedido[p]
      a == r.archivo
      l == ListaDe(r, p)
      nuevas == [i \in Numeros |-> PaginaNueva(i)]
      Trae(e, f) == {i \in Numeros : nuevas[i] = [p |-> e, marco |-> f]
                                      /\ LeeDelArchivo(a, i) # CUALQUIERA}
      Hay(e) == {nuevas[i].marco : i \in {k \in Numeros : nuevas[k].p = e}}
      De(e, f) == CHOOSE i \in Numeros : nuevas[i] = [p |-> e, marco |-> f]
      Queda(e, f, x) == IF Trae(e, f) = {} THEN x ELSE LeeDelArchivo(a, De(e, f))
  IN /\ TieneElSem(p, "MAPEAR") /\ ~ NoCaben(r) /\ Nuevas(r) /\ a \notin NoAbren
     /\ paginas_usadas' = paginas_usadas + Paginas
     /\ paginas' = [paginas EXCEPT ![l] = nuevas]
     /\ bitmap_marcos' = bitmap_marcos \cup Hay(1)
     /\ bitmap_swap' = bitmap_swap \cup Hay(0)
     /\ clock' = [f \in Marcos |-> IF f \in Hay(1)
                                   THEN [id |-> DuenioDe(r, p), pag |-> De(1, f)]
                                   ELSE clock[f]]
     /\ memoria' = [f \in Marcos |-> Queda(1, f, memoria[f])]
     /\ espacio' = [s \in MarcosSwap |-> Queda(0, s, espacio[s])]
     /\ segmento' = [segmento EXCEPT ![p] = [archivo |-> a, flag |-> r.flag]]
     /\ esperado' = [esperado EXCEPT ![l] = [i \in Numeros |-> LeeDelArchivo(a, i)]]
     /\ IF r.flag = "SHARED"
        THEN /\ tabla_archivos' = tabla_archivos \cup {a}
             /\ mapeado' = [mapeado EXCEPT ![a] = {p}]
             /\ fantasma' = Append(fantasma, a)
        ELSE UNCHANGED tabVars
     /\ Contestar(p)
     /\ UNCHANGED <<sem_mapeo, caido, disco, cerrados, abandonados, perdidas>>

(***************************************************************************)
(* SINCRO: the file is emptied and the pages are written to it.             *)
(***************************************************************************)

fopenSync(p) ==
  /\ TieneElSem(p, "SINCRO")
  /\ sem_mapeo' = p
  /\ disco' = [disco EXCEPT ![segmento[p].archivo] = <<>>]
  /\ UNCHANGED <<marVars, paginas_usadas, paginas, tabVars, caido, segmento,
                 pedido, hisVars>>

syncMuse(p) ==
  LET a == segmento[p].archivo
      n == Len(disco[a])
      x == paginas'[ListaDe(segmento[p], p)][n]
  IN /\ ~caido /\ sem_mapeo = p /\ pedido[p].op = "SINCRO"
     /\ \/ /\ BuscarPagina(p, n)
           /\ disco' = [disco EXCEPT ![a] = Append(@, memoria'[x.marco])]
           /\ IF n + 1 = pedido[p].i
              THEN Contestar(p) /\ sem_mapeo' = Nadie
              ELSE UNCHANGED <<pedido, sem_mapeo>>
           /\ UNCHANGED <<paginas_usadas, tabVars, caido, segmento, hisVars>>
        \/ FallaPagina(p, n) /\ Caer

(***************************************************************************)
(* OBTENER and COPIAR of one page.                                          *)
(***************************************************************************)

getMuse(p, n) ==
  /\ ~caido /\ pedido[p] = Ninguno /\ segmento[p] # SinMapa
  /\ \/ /\ BuscarPagina(p, n)
        /\ UNCHANGED <<paginas_usadas, tabVars, sem_mapeo, caido, segmento,
                       pedido, disco, hisVars>>
     \/ FallaPagina(p, n) /\ Caer

copiarMuse(p, n, v) ==
  LET l == ListaDe(segmento[p], p)
  IN /\ ~caido /\ pedido[p] = Ninguno /\ segmento[p] # SinMapa
     /\ \/ /\ n \in DOMAIN paginas[l] /\ paginas[l][n].p = 1
           /\ memoria' = [memoria EXCEPT ![paginas[l][n].marco] = v]
           /\ esperado' = [esperado EXCEPT ![l][n] = v]
           /\ UNCHANGED <<bitmap_marcos, bitmap_swap, clock, espacio, paginas,
                          paginas_usadas, tabVars, sem_mapeo, caido, segmento,
                          pedido, disco, cerrados, abandonados, perdidas>>
        \/ FallaPagina(p, n) /\ Caer

(***************************************************************************)
(* DESMAP, and CERRAR, which unmaps without sem_mapeo.                      *)
(***************************************************************************)

\* remover_clocky and the bits of the frames, for the pages of l that go.
Devolver(l, van) ==
  LET marcos(e) == {paginas[l][n].marco : n \in {m \in van : paginas[l][m].p = e}}
  IN /\ paginas_usadas' = paginas_usadas - Cardinality(van)
     /\ bitmap_marcos' = bitmap_marcos \ marcos(1)
     /\ bitmap_swap' = bitmap_swap \ marcos(0)
     /\ clock' = [f \in Marcos |-> IF f \in marcos(1) THEN ClockVacio ELSE clock[f]]
     /\ paginas' = [paginas EXCEPT ![l] = [n \in DOMAIN @ \ van |-> @[n]]]
     /\ UNCHANGED <<memoria, espacio>>

\* The thread may unmap: a DESMAP waits for sem_mapeo, a CERRAR does not.
PuedeDesligar(p) ==
  /\ ~caido
  /\ \/ pedido[p].op = "DESMAP" /\ sem_mapeo = Nadie
     \/ pedido[p].op = "CERRAR"

DesligarPrivado(p) ==
  /\ PuedeDesligar(p) /\ segmento[p].flag = "PRIVATE"
  /\ Devolver(p, DOMAIN paginas[p])
  /\ esperado' = [esperado EXCEPT ![p] = [n \in Numeros |-> CUALQUIERA]]
  /\ segmento' = [segmento EXCEPT ![p] = SinMapa]
  /\ Contestar(p)
  /\ UNCHANGED <<tabVars, sem_mapeo, caido, disco, cerrados, abandonados, perdidas>>

\* MUTANT: whoever unmaps gives the pages back.
NoQuedan(a) == FALSE

QuedanUsuarios(a) == mapeado[a] # {}

\* The process leaves a shared file; its thread goes on with sem_mapeo when it
\* is a DESMAP, and without it when the process has ended.
Desligar(p) ==
  LET a == segmento[p].archivo
  IN /\ PuedeDesligar(p) /\ segmento[p].flag = "SHARED"
     /\ mapeado' = [mapeado EXCEPT ![a] = @ \ {p}]
     /\ segmento' = [segmento EXCEPT ![p] = SinMapa]
     /\ pedido' = [pedido EXCEPT ![p] = [Ninguno EXCEPT !.op = "REVISAR", !.archivo = a]]
     /\ sem_mapeo' = IF pedido[p].op = "DESMAP" THEN p ELSE sem_mapeo
     /\ abandonados' = IF mapeado'[a] = {} THEN abandonados \cup {a} ELSE abandonados
     /\ UNCHANGED <<marVars, paginas_usadas, paginas, tabla_archivos, fantasma,
                    caido, disco, esperado, cerrados, perdidas>>

DejarElSem(p) == sem_mapeo' = IF sem_mapeo = p THEN Nadie ELSE sem_mapeo

\* It asks whether somebody has the file still: if not, it gives the pages back.
RevisarUsuarios(p) ==
  /\ ~caido /\ pedido[p].op = "REVISAR"
  /\ IF QuedanUsuarios(pedido[p].archivo)
     THEN Contestar(p) /\ DejarElSem(p)
     ELSE /\ pedido' = [pedido EXCEPT ![p] = [Ninguno EXCEPT !.op = "ELIMINAR"]]
          /\ UNCHANGED sem_mapeo
  /\ UNCHANGED <<marVars, paginas_usadas, paginas, tabVars, caido, segmento,
                 disco, hisVars>>

\* The loop that removes by a growing index skips every second page.
Saltea(l) ==
  {n \in DOMAIN paginas[l] : Cardinality({m \in DOMAIN paginas[l] : m < n}) % 2 = 0}

\* The first segment 0 of the fantasma goes, with its pages; the file is left
\* in tabla_archivos.
EliminarFantasma(p) ==
  /\ ~caido /\ pedido[p].op = "ELIMINAR"
  /\ \/ /\ fantasma # <<>>
        /\ fantasma' = Tail(fantasma)
        /\ Devolver(Head(fantasma), Saltea(Head(fantasma)))
        /\ cerrados' = cerrados \cup {Head(fantasma)}
        /\ DejarElSem(p)
        /\ Contestar(p)
        /\ UNCHANGED <<tabla_archivos, mapeado, caido, segmento, disco, esperado,
                       abandonados, perdidas>>
     \/ fantasma = <<>> /\ Caer

Next ==
  \E p \in Procesos :
    \/ \E a \in Archivos, flag \in {"PRIVATE", "SHARED"} : muse_map(p, a, flag)
    \/ \E n \in 1..Paginas : muse_sync(p, n)
    \/ muse_unmap(p)
    \/ muse_close(p)
    \/ Rechazar(p)
    \/ NoAbre(p)
    \/ Compartir(p)
    \/ crearPaginasmapeadas(p)
    \/ fopenSync(p)
    \/ syncMuse(p)
    \/ \E n \in Numeros : getMuse(p, n)
    \/ \E n \in Numeros, v \in Valores : copiarMuse(p, n, v)
    \/ DesligarPrivado(p)
    \/ Desligar(p)
    \/ RevisarUsuarios(p)
    \/ EliminarFantasma(p)

Spec == Init /\ [][Next]_vars

(***************************************************************************)
(* Properties.                                                              *)
(***************************************************************************)

\* Every variable has its type.
TypeOK ==
  /\ bitmap_marcos \subseteq Marcos /\ bitmap_swap \subseteq MarcosSwap
  /\ clock \in [Marcos -> [id : Procesos \cup {Nadie, Fantasma}, pag : Numeros]]
  /\ memoria \in [Marcos -> Contenidos] /\ espacio \in [MarcosSwap -> Contenidos]
  /\ paginas_usadas \in 0..PaginasTotales + MaxPerdidas
  /\ \A l \in Listas : /\ DOMAIN paginas[l] \subseteq Numeros
                       /\ \A n \in DOMAIN paginas[l] :
                            LET x == paginas[l][n]
                            IN \/ x.p = 1 /\ x.marco \in Marcos
                               \/ x.p = 0 /\ x.marco \in MarcosSwap
  /\ tabla_archivos \subseteq Archivos
  /\ mapeado \in [Archivos -> SUBSET Procesos]
  /\ \A i \in DOMAIN fantasma : fantasma[i] \in tabla_archivos
  /\ sem_mapeo \in Procesos \cup {Nadie} /\ caido \in BOOLEAN
  /\ \A p \in Procesos :
       /\ segmento[p] \in {SinMapa} \cup [archivo : Archivos, flag : {"PRIVATE", "SHARED"}]
       /\ pedido[p].op \in {"ninguno", "MAPEAR", "SINCRO", "DESMAP", "CERRAR", "REVISAR", "ELIMINAR"}
  /\ \A a \in Archivos : Len(disco[a]) <= Paginas

TodasLasPaginas == {x \in Listas \X Numeros : x[2] \in DOMAIN paginas[x[1]]}
Marco(x) == paginas[x[1]][x[2]]
Contenido(x) ==
  IF Marco(x).p = 1 THEN memoria[Marco(x).marco] ELSE espacio[Marco(x).marco]

\* A frame, of memory or of swap, has its bit set exactly when it is the frame of
\* a page, and it is so of one page: of one list, whoever maps it.  And
\* paginas_usadas, against which each mapping is admitted, counts the pages that
\* exist, once for all the processes that share them, and those that refused
\* files have cost.
MarcosDeUno ==
  /\ \A x, y \in TodasLasPaginas : Marco(x) = Marco(y) => x = y
  /\ {Marco(x) : x \in TodasLasPaginas} =
       [p : {1}, marco : bitmap_marcos] \cup [p : {0}, marco : bitmap_swap]
  /\ paginas_usadas = Cardinality(TodasLasPaginas) + perdidas

\* Until its last process unmaps it, a shared page has what was written in it
\* last, by whichever of the processes that share the file, and a private one
\* what its process wrote, whatever the others do and through swap; a page
\* nobody wrote has what the file had.
ContenidoIntacto ==
  \A x \in TodasLasPaginas :
    x[1] \notin cerrados /\ esperado[x[1]][x[2]] # CUALQUIERA
      => Contenido(x) = esperado[x[1]][x[2]]

\* As long as a shared file has been in use without a break since it was mapped
\* first, whoever has it mapped has all the pages muse_map gave it ("Devuelve un
\* puntero a una posicion mappeada de paginas por una cantidad `length` de bytes
\* el archivo del `path` dado"), whichever of the others unmap it or end, and
\* with or without sem_mapeo; and the file is none of those that ContenidoIntacto
\* and CaeSoloTrasCerrar except.
UsoSinPausa ==
  \A a \in Archivos : mapeado[a] # {} /\ a \notin abandonados
                       => DOMAIN paginas[a] = Numeros /\ a \notin cerrados

\* Whoever has a file mapped has its pages.  Not so once nobody has had it: it
\* stays in tabla_archivos, and what is left of its list is given to whoever maps
\* it again.
MapeadoTienePaginas ==
  \A a \in Archivos : mapeado[a] # {} => DOMAIN paginas[a] = Numeros

\* The pages of a file are given back when no process has it mapped ("Solo se
\* debera cerrar el archivo mappeado una vez que todos los hilos hayan liberado la
\* misma cantidad de muse_unmap que muse_map").  Not so at the end of a process:
\* without sem_mapeo, another maps the file before its pages go.
CierraSinUsuarios ==
  [][\A a \in cerrados' \ cerrados : mapeado[a] = {}]_vars

\* The server falls only once the pages of a file have been given back, or a
\* shared file could not be opened.
CaeSoloTrasCerrar == caido => cerrados # {} \/ perdidas > 0
=============================================================================
