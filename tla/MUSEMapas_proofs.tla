-------------------------- MODULE MUSEMapas_proofs --------------------------
(***************************************************************************)
(* Theorems about MUSEMapas: until a second file is mapped MAP_SHARED, no    *)
(* frame is of two pages, every page has what was written in it, and the    *)
(* server falls only for the two reasons that are known.                    *)
(***************************************************************************)
EXTENDS MUSEMapas, FiniteSetTheorems, TLAPS

-----------------------------------------------------------------------------
(* Numbered choices *)

\* A finite set of numbers has an element with i before it, for each i below
\* its cardinality.
LEMMA EnesimoEsta ==
  ASSUME NEW S \in SUBSET Nat, IsFiniteSet(S), NEW i \in 0..Cardinality(S) - 1
  PROVE  Enesimo(S, i) \in S /\ Cardinality({y \in S : y < Enesimo(S, i)}) = i
<1> DEFINE Antes(x) == {y \in S : y < x}
           T == 0..Cardinality(S) - 1
           g == [x \in S |-> Cardinality(Antes(x))]
<1>1. Cardinality(S) \in Nat
  BY FS_CardinalityType
<1>2. ASSUME NEW x \in S
      PROVE  IsFiniteSet(Antes(x)) /\ Cardinality(Antes(x)) \in T
  <2>1. Antes(x) \in SUBSET (S \ {x})
    OBVIOUS
  <2>2. IsFiniteSet(S \ {x}) /\ Cardinality(S \ {x}) = Cardinality(S) - 1
    BY FS_RemoveElement
  <2> HIDE DEF Antes
  <2>3. IsFiniteSet(Antes(x)) /\ Cardinality(Antes(x)) <= Cardinality(S) - 1
    BY <2>1, <2>2, FS_Subset
  <2>4. Cardinality(Antes(x)) \in Nat
    BY <2>3, FS_CardinalityType
  <2>5. QED
    BY <1>1, <2>3, <2>4
<1>3. ASSUME NEW x \in S, NEW z \in S, x < z
      PROVE  Cardinality(Antes(x)) # Cardinality(Antes(z))
  <2>1. Antes(x) \in SUBSET Antes(z) /\ x \in Antes(z) /\ x \notin Antes(x)
    <3>1. x \in Nat /\ z \in Nat /\ ~ (x < x)
      OBVIOUS
    <3>2. ASSUME NEW y \in S, y < x
          PROVE  y < z
      <4>1. y \in Nat
        OBVIOUS
      <4>2. QED
        BY <1>3, <3>1, <3>2, <4>1
    <3>3. QED
      BY <1>3, <3>1, <3>2
  <2> HIDE DEF Antes
  <2>2. QED
    BY <1>2, <2>1, FS_Subset
<1>4. g \in Injection(S, T)
  <2> HIDE DEF Antes, T
  <2>1. g \in [S -> T]
    BY <1>2
  <2>2. ASSUME NEW x \in S, NEW z \in S, g[x] = g[z]
        PROVE  x = z
    <3>1. x \in Nat /\ z \in Nat
      OBVIOUS
    <3>2. ~ (x < z) /\ ~ (z < x)
      BY <1>3, <2>2
    <3>3. QED
      BY <3>1, <3>2
  <2>3. QED
    BY <2>1, <2>2 DEF Injection, IsInjective
<1>5. IsFiniteSet(T) /\ Cardinality(T) = Cardinality(S)
  <2>1. Cardinality(S) - 1 \in Int
    BY <1>1
  <2>2. IsFiniteSet(T) /\ Cardinality(T) = IF 0 > Cardinality(S) - 1 THEN 0 ELSE Cardinality(S) - 1 - 0 + 1
    BY <2>1, FS_Interval
  <2>3. QED
    BY <1>1, <2>2
<1>6. PICK x \in S : Cardinality(Antes(x)) = i
  <2>1. g \in Surjection(S, T)
    BY <1>4, <1>5, FS_Injection
  <2> HIDE DEF Antes
  <2>2. QED
    BY <2>1 DEF Surjection, T
<1>7. QED
  BY <1>6 DEF Enesimo

\* Two of them are not the same.
LEMMA EnesimoUno ==
  ASSUME NEW S \in SUBSET Nat, IsFiniteSet(S),
         NEW i \in 0..Cardinality(S) - 1, NEW j \in 0..Cardinality(S) - 1,
         Enesimo(S, i) = Enesimo(S, j)
  PROVE  i = j
<1> DEFINE n(e) == Cardinality({y \in S : y < e})
<1>1. n(Enesimo(S, i)) = i /\ n(Enesimo(S, j)) = j
  BY EnesimoEsta
<1> HIDE DEF n
<1>2. QED
  BY <1>1

\* A finite set of numbers that is not empty has a least one.
LEMMA MenorEsta ==
  ASSUME NEW S \in SUBSET Nat, IsFiniteSet(S), S # {}
  PROVE  Menor(S) \in S
<1> DEFINE x == Enesimo(S, 0)
           Antes == {y \in S : y < x}
<1>1. Cardinality(S) \in Nat /\ Cardinality(S) # 0
  BY FS_CardinalityType, FS_EmptySet
<1>2. x \in S /\ Cardinality(Antes) = 0
  BY <1>1, EnesimoEsta
<1>3. Antes = {}
  <2>1. IsFiniteSet(Antes)
    BY FS_Subset
  <2> HIDE DEF Antes
  <2>2. QED
    BY <1>2, <2>1, FS_EmptySet
<1> HIDE DEF x
<1>4. \A y \in S : x <= y
  BY <1>2, <1>3
<1>5. QED
  BY <1>2, <1>4 DEF Menor

-----------------------------------------------------------------------------
(* The memory: frames, their bits and the clock *)

Registro == [p : {1}, marco : Marcos] \cup [p : {0}, marco : MarcosSwap]
ListaDePaginas == UNION {[D -> Registro] : D \in SUBSET Numeros}

\* What the variables of the memory are.
FormaMemoria ==
  /\ bitmap_marcos \subseteq Marcos /\ bitmap_swap \subseteq MarcosSwap
  /\ clock \in [Marcos -> [id : Procesos \cup {Nadie, Fantasma}, pag : Numeros]]
  /\ memoria \in [Marcos -> Contenidos] /\ espacio \in [MarcosSwap -> Contenidos]
  /\ paginas \in [Listas -> ListaDePaginas]

\* The frame of a page has its bit, and is of no other page; and a frame with
\* its bit is of a page.
Enmarcada ==
  \A x \in TodasLasPaginas :
    /\ Marco(x) \in Registro
    /\ Marco(x).p = 1 => Marco(x).marco \in bitmap_marcos
    /\ Marco(x).p = 0 => Marco(x).marco \in bitmap_swap
MarcoDeUna ==
  \A x, y \in TodasLasPaginas :
    Marco(x).p = Marco(y).p /\ Marco(x).marco = Marco(y).marco => x = y
ConPagina ==
  /\ \A f \in bitmap_marcos : \E x \in TodasLasPaginas : Marco(x).p = 1 /\ Marco(x).marco = f
  /\ \A s \in bitmap_swap : \E x \in TodasLasPaginas : Marco(x).p = 0 /\ Marco(x).marco = s

\* Whom the clock has the pages of a list for, and that it has every page that
\* is in memory.
DuenioDeLista(l) == IF l \in Procesos THEN l ELSE Fantasma
ClockJusto ==
  \A x \in TodasLasPaginas : Marco(x).p = 1 =>
    clock[Marco(x).marco] = [id |-> DuenioDeLista(x[1]), pag |-> x[2]]

MemoriaInv == FormaMemoria /\ Enmarcada /\ MarcoDeUna /\ ConPagina /\ ClockJusto

\* The numbers of frames and pages.
LEMMA Numerados ==
  /\ CantidadPaginas \in Nat \ {0} /\ PaginasSwap \in Nat /\ Paginas \in Nat \ {0}
  /\ Marcos \in SUBSET Nat /\ MarcosSwap \in SUBSET Nat /\ Numeros \in SUBSET Nat
  /\ IsFiniteSet(Marcos) /\ IsFiniteSet(MarcosSwap) /\ IsFiniteSet(Numeros)
  /\ Cardinality(Marcos) = CantidadPaginas /\ Cardinality(MarcosSwap) = PaginasSwap
  /\ Cardinality(Numeros) = Paginas
  /\ Procesos \cap Archivos = {} /\ Fantasma \notin Procesos
<1>1. /\ CantidadPaginas \in Nat \ {0} /\ PaginasSwap \in Nat /\ Paginas \in Nat \ {0}
      /\ Procesos \cap Archivos = {} /\ Fantasma \notin Procesos
  BY ConstantesMapas DEF ConstantesMapas
<1>2. ASSUME NEW n \in Nat
      PROVE  0..n - 1 \in SUBSET Nat /\ IsFiniteSet(0..n - 1) /\ Cardinality(0..n - 1) = n
  <2>1. n - 1 \in Int
    OBVIOUS
  <2>2. IsFiniteSet(0..n - 1) /\ Cardinality(0..n - 1) = IF 0 > n - 1 THEN 0 ELSE n - 1 - 0 + 1
    BY <2>1, FS_Interval
  <2>3. QED
    BY <2>2
<1>3. QED
  BY <1>1, <1>2 DEF Marcos, MarcosSwap, Numeros

\* A page is a number in a list.
LEMMA UnaPagina ==
  /\ \A l \in Listas, n \in Numeros :
       <<l, n>> \in TodasLasPaginas <=> n \in DOMAIN paginas[l]
  /\ \A x \in TodasLasPaginas :
       x[1] \in Listas /\ x[2] \in Numeros /\ x = <<x[1], x[2]>> /\ x[2] \in DOMAIN paginas[x[1]]
BY DEF TodasLasPaginas

\* What the lists are.
LEMMA UnaLista ==
  ASSUME FormaMemoria, NEW l \in Listas
  PROVE  /\ DOMAIN paginas[l] \subseteq Numeros
         /\ paginas[l] \in [DOMAIN paginas[l] -> Registro]
         /\ \A n \in DOMAIN paginas[l] : paginas[l][n] \in Registro
<1>1. PICK D \in SUBSET Numeros : paginas[l] \in [D -> Registro]
  BY DEF FormaMemoria, ListaDePaginas
<1>2. QED
  BY <1>1

\* Two records with the same fields are the same.
LEMMA Registros ==
  /\ \A r \in Registro : /\ r = [p |-> r.p, marco |-> r.marco]
                         /\ (r.p = 1 /\ r.marco \in Marcos) \/ (r.p = 0 /\ r.marco \in MarcosSwap)
  /\ \A f \in Marcos : [p |-> 1, marco |-> f] \in Registro
  /\ \A s \in MarcosSwap : [p |-> 0, marco |-> s] \in Registro
<1>1. ASSUME NEW r \in [p : {1}, marco : Marcos]
      PROVE  r = [p |-> r.p, marco |-> r.marco] /\ r.p = 1 /\ r.marco \in Marcos
  OBVIOUS
<1>2. ASSUME NEW r \in [p : {0}, marco : MarcosSwap]
      PROVE  r = [p |-> r.p, marco |-> r.marco] /\ r.p = 0 /\ r.marco \in MarcosSwap
  OBVIOUS
<1>3. /\ \A f \in Marcos : [p |-> 1, marco |-> f] \in Registro
      /\ \A s \in MarcosSwap : [p |-> 0, marco |-> s] \in Registro
  BY DEF Registro
<1>4. \A r \in Registro : r \in [p : {1}, marco : Marcos] \/ r \in [p : {0}, marco : MarcosSwap]
  BY Zenon DEF Registro
<1>5. QED
  BY <1>1, <1>2, <1>3, <1>4, Zenon

LEMMA MarcosVistos ==
  ASSUME FormaMemoria
  PROVE  Enmarcada /\ MarcoDeUna /\ ConPagina <=>
           /\ \A x, y \in TodasLasPaginas : Marco(x) = Marco(y) => x = y
           /\ {Marco(x) : x \in TodasLasPaginas} =
                [p : {1}, marco : bitmap_marcos] \cup [p : {0}, marco : bitmap_swap]
<1> DEFINE De == [p : {1}, marco : bitmap_marcos] \cup [p : {0}, marco : bitmap_swap]
<1>1. ASSUME NEW x \in TodasLasPaginas
      PROVE  Marco(x) \in Registro
  BY UnaPagina, UnaLista DEF Marco
<1>2. \A x, y \in TodasLasPaginas :
        Marco(x) = Marco(y) <=> Marco(x).p = Marco(y).p /\ Marco(x).marco = Marco(y).marco
  BY <1>1, Registros
<1>3. \A r \in Registro : r \in De <=> /\ r.p = 1 => r.marco \in bitmap_marcos
                                       /\ r.p = 0 => r.marco \in bitmap_swap
  BY DEF FormaMemoria, Registro
<1>4. ASSUME NEW r \in De
      PROVE  /\ r = [p |-> r.p, marco |-> r.marco]
             /\ (r.p = 1 /\ r.marco \in bitmap_marcos) \/ (r.p = 0 /\ r.marco \in bitmap_swap)
  <2>1. CASE r \in [p : {1}, marco : bitmap_marcos]
    BY <2>1
  <2>2. CASE r \in [p : {0}, marco : bitmap_swap]
    BY <2>2
  <2>3. QED
    BY <2>1, <2>2, Zenon
<1>5. /\ \A f \in bitmap_marcos : [p |-> 1, marco |-> f] \in De
      /\ \A s \in bitmap_swap : [p |-> 0, marco |-> s] \in De
  OBVIOUS
<1>6. Enmarcada <=> \A x \in TodasLasPaginas : Marco(x) \in De
  BY <1>1, <1>3 DEF Enmarcada
<1>7. ConPagina <=> \A r \in De : \E x \in TodasLasPaginas : r = Marco(x)
  <2> HIDE DEF De
  <2>1. ASSUME ConPagina, NEW r \in De
        PROVE  \E x \in TodasLasPaginas : r = Marco(x)
    BY <1>1, <1>4, <2>1, Registros DEF ConPagina
  <2>2. ASSUME \A r \in De : \E x \in TodasLasPaginas : r = Marco(x)
        PROVE  ConPagina
    <3>1. ASSUME NEW f \in bitmap_marcos
          PROVE  \E x \in TodasLasPaginas : Marco(x).p = 1 /\ Marco(x).marco = f
      <4>1. PICK x \in TodasLasPaginas : [p |-> 1, marco |-> f] = Marco(x)
        BY <1>5, <2>2
      <4>2. QED
        BY <4>1
    <3>2. ASSUME NEW s \in bitmap_swap
          PROVE  \E x \in TodasLasPaginas : Marco(x).p = 0 /\ Marco(x).marco = s
      <4>1. PICK x \in TodasLasPaginas : [p |-> 0, marco |-> s] = Marco(x)
        BY <1>5, <2>2
      <4>2. QED
        BY <4>1
    <3>3. QED
      BY <3>1, <3>2 DEF ConPagina
  <2>3. QED
    BY <2>1, <2>2
<1> HIDE DEF De
<1>8. {Marco(x) : x \in TodasLasPaginas} = De <=>
        /\ \A x \in TodasLasPaginas : Marco(x) \in De
        /\ \A r \in De : \E x \in TodasLasPaginas : r = Marco(x)
  OBVIOUS
<1>9. MarcoDeUna <=> \A x, y \in TodasLasPaginas : Marco(x) = Marco(y) => x = y
  BY <1>2 DEF MarcoDeUna
<1>10. QED
  BY <1>6, <1>7, <1>8, <1>9 DEF De

-----------------------------------------------------------------------------
(* Tables and requests *)

Pedido == [op : {"ninguno", "MAPEAR", "SINCRO", "DESMAP", "CERRAR", "REVISAR", "ELIMINAR"},
           archivo : Archivos \cup {Nadie}, flag : {"", "PRIVATE", "SHARED"}, i : 0..Paginas]
Segmento == {SinMapa} \cup [archivo : Archivos, flag : {"PRIVATE", "SHARED"}]

\* What the other variables are.
FormaTablas ==
  /\ tabla_archivos \subseteq Archivos \ NoAbren /\ cerrados \subseteq tabla_archivos
  /\ mapeado \in [Archivos -> SUBSET Procesos]
  /\ fantasma \in Seq(tabla_archivos)
  /\ sem_mapeo \in Procesos \cup {Nadie} /\ caido \in BOOLEAN
  /\ segmento \in [Procesos -> Segmento] /\ pedido \in [Procesos -> Pedido]
FormaDatos ==
  /\ disco \in [Archivos -> Seq(Contenidos)] /\ \A a \in Archivos : Len(disco[a]) <= Paginas
  /\ esperado \in [Listas -> [Numeros -> Contenidos \cup {CUALQUIERA}]]
FormaCuentas ==
  paginas_usadas \in Nat /\ paginas_usadas <= PaginasTotales /\ perdidas \in 0..MaxPerdidas

\* A private mapping has its pages as long as it lasts; a shared file, from the
\* first time it is mapped, all of them until they have been given back.
ListasDeProcesos ==
  \A p \in Procesos :
    /\ DOMAIN paginas[p] = IF segmento[p].flag = "PRIVATE" THEN Numeros ELSE {}
    /\ segmento[p].flag = "SHARED" => segmento[p].archivo \in tabla_archivos
ListasDeArchivos ==
  /\ \A a \in Archivos \ tabla_archivos : DOMAIN paginas[a] = {}
  /\ \A a \in tabla_archivos \ cerrados : DOMAIN paginas[a] = Numeros /\ fantasma # <<>>

\* What a request has been checked for before its thread attends it.
PedidoJusto(p) ==
  /\ pedido[p].op = "MAPEAR" =>
       /\ segmento[p] = SinMapa
       /\ pedido[p].archivo \in Archivos /\ pedido[p].flag \in {"PRIVATE", "SHARED"}
  /\ pedido[p].op \in {"SINCRO", "DESMAP", "CERRAR"} => segmento[p] # SinMapa
  /\ pedido[p].op = "SINCRO" => pedido[p].i \in 1..Paginas
  /\ pedido[p].op = "SINCRO" /\ sem_mapeo = p =>
       Len(disco[segmento[p].archivo]) < pedido[p].i
  /\ pedido[p].op = "REVISAR" => pedido[p].archivo \in tabla_archivos
  /\ pedido[p].op = "ELIMINAR" => tabla_archivos # {}
  /\ sem_mapeo = p => pedido[p].op \in {"SINCRO", "REVISAR", "ELIMINAR"}
PedidosJustos == \A p \in Procesos : PedidoJusto(p)

TablasInv == FormaTablas /\ FormaDatos /\ FormaCuentas
             /\ ListasDeProcesos /\ ListasDeArchivos /\ PedidosJustos

\* Only one file has been mapped MAP_SHARED.
UnSoloCompartido == \A a, b \in tabla_archivos : a = b

\* A process that has nothing mapped.
LEMMA SinBandera == SinMapa.flag = ""
BY DEF SinMapa

\* The segment of a process: a file with its flag, or nothing.
LEMMA UnSegmento ==
  ASSUME FormaTablas, NEW p \in Procesos
  PROVE  /\ segmento[p] = SinMapa <=> segmento[p].flag = ""
         /\ segmento[p] # SinMapa => /\ segmento[p].archivo \in Archivos
                                     /\ segmento[p].flag \in {"PRIVATE", "SHARED"}
<1>1. segmento[p] \in Segmento
  BY DEF FormaTablas
<1>2. SinMapa.flag = ""
  BY SinBandera
<1>3. CASE segmento[p] = SinMapa
  BY <1>2, <1>3
<1>4. CASE segmento[p] \in [archivo : Archivos, flag : {"PRIVATE", "SHARED"}]
  <2>1. segmento[p].archivo \in Archivos /\ segmento[p].flag \in {"PRIVATE", "SHARED"}
    BY <1>4
  <2>2. segmento[p].flag # ""
    BY <2>1
  <2>3. QED
    BY <1>2, <2>1, <2>2, Zenon
<1>5. QED
  BY <1>1, <1>3, <1>4, Zenon DEF Segmento

\* The list of a segment, and for whom the clock has it.
LEMMA ListaDeSegmento ==
  ASSUME FormaTablas, NEW p \in Procesos, segmento[p] # SinMapa
  PROVE  LET l == ListaDe(segmento[p], p)
         IN /\ l \in Listas /\ DuenioDe(segmento[p], p) = DuenioDeLista(l)
            /\ DuenioDeLista(l) \in Procesos \cup {Nadie, Fantasma}
<1>1. /\ segmento[p].archivo \in Archivos
      /\ segmento[p].flag \in {"PRIVATE", "SHARED"}
  BY UnSegmento
<1>2. QED
  BY <1>1, Numerados DEF ListaDe, DuenioDe, DuenioDeLista, Listas

-----------------------------------------------------------------------------
(* Bringing a page *)

\* Lists keep their pages, and pages what they have.
Conserva ==
  /\ \A l \in Listas : DOMAIN paginas'[l] = DOMAIN paginas[l]
  /\ \A x \in TodasLasPaginas : Contenido(x)' = Contenido(x)

\* Lists that keep their pages make the same pages.
LEMMA MismasPaginas ==
  ASSUME \A l \in Listas : DOMAIN paginas'[l] = DOMAIN paginas[l]
  PROVE  TodasLasPaginas' = TodasLasPaginas
BY DEF TodasLasPaginas

\* One page changes its frame.
LEMMA CambiaMarco ==
  ASSUME FormaMemoria, NEW l \in Listas, NEW n \in DOMAIN paginas[l], NEW r \in Registro,
         paginas' = [paginas EXCEPT ![l][n] = r]
  PROVE  /\ paginas' \in [Listas -> ListaDePaginas]
         /\ \A k \in Listas : DOMAIN paginas'[k] = DOMAIN paginas[k]
         /\ \A x \in TodasLasPaginas : Marco(x)' = IF x = <<l, n>> THEN r ELSE Marco(x)
<1>1. paginas \in [Listas -> ListaDePaginas]
  BY DEF FormaMemoria
<1>2. \A k \in Listas : paginas'[k] = IF k = l THEN [paginas[l] EXCEPT ![n] = r] ELSE paginas[k]
  BY <1>1
<1>3. [paginas[l] EXCEPT ![n] = r] \in ListaDePaginas
  <2>1. PICK D \in SUBSET Numeros : paginas[l] \in [D -> Registro]
    BY <1>1 DEF ListaDePaginas
  <2>2. [paginas[l] EXCEPT ![n] = r] \in [D -> Registro]
    BY <2>1
  <2>3. QED
    BY <2>2 DEF ListaDePaginas
<1>4. paginas' \in [Listas -> ListaDePaginas]
  <2>1. \A k \in Listas : paginas[k] \in ListaDePaginas
    BY <1>1
  <2>2. DOMAIN paginas' = Listas /\ paginas' = [k \in Listas |-> paginas'[k]]
    BY <1>1
  <2>3. \A k \in Listas : paginas'[k] \in ListaDePaginas
    BY <1>2, <1>3, <2>1
  <2>4. QED
    BY <2>2, <2>3, Zenon
<1>5. \A k \in Listas : DOMAIN paginas'[k] = DOMAIN paginas[k]
  BY <1>2
<1>6. \A x \in TodasLasPaginas : Marco(x)' = IF x = <<l, n>> THEN r ELSE Marco(x)
  <2>1. TAKE x \in TodasLasPaginas
  <2>2. x[1] \in Listas /\ x[2] \in DOMAIN paginas[x[1]] /\ x = <<x[1], x[2]>>
    BY UnaPagina
  <2>3. x = <<l, n>> <=> x[1] = l /\ x[2] = n
    BY <2>2
  <2>4. paginas'[x[1]][x[2]] = IF x[1] = l /\ x[2] = n THEN r ELSE paginas[x[1]][x[2]]
    BY <1>2, <2>2
  <2>5. QED
    BY <2>3, <2>4 DEF Marco
<1>7. QED
  BY <1>4, <1>5, <1>6

\* swap with a free frame of memory.
LEMMA TraeALibre ==
  ASSUME MemoriaInv, NEW l \in Listas, NEW n \in DOMAIN paginas[l], paginas[l][n].p = 0,
         DuenioDeLista(l) \in Procesos \cup {Nadie, Fantasma},
         TraerALibre(l, n, DuenioDeLista(l))
  PROVE  MemoriaInv' /\ Conserva /\ paginas'[l][n].p = 1
<1> DEFINE s == paginas[l][n].marco
           f == Menor(LibresMarcos)
           d == DuenioDeLista(l)
           r == [p |-> 1, marco |-> f]
           y == <<l, n>>
<1>1. FormaMemoria /\ Enmarcada /\ MarcoDeUna /\ ConPagina /\ ClockJusto
  BY DEF MemoriaInv
<1>2. f \in Marcos /\ f \notin bitmap_marcos
  <2>1. LibresMarcos # {} /\ LibresMarcos \in SUBSET Nat /\ IsFiniteSet(LibresMarcos)
    BY Numerados, FS_Subset DEF TraerALibre, LibresMarcos
  <2>2. QED
    BY <2>1, MenorEsta DEF LibresMarcos
<1>3. /\ bitmap_marcos' = bitmap_marcos \cup {f} /\ bitmap_swap' = bitmap_swap \ {s}
      /\ clock' = [clock EXCEPT ![f] = [id |-> d, pag |-> n]]
      /\ memoria' = [memoria EXCEPT ![f] = espacio[s]]
      /\ paginas' = [paginas EXCEPT ![l][n] = r]
      /\ UNCHANGED espacio
  BY DEF TraerALibre
<1>4. y \in TodasLasPaginas /\ Marco(y) = paginas[l][n] /\ n \in Numeros
  BY <1>1, UnaPagina, UnaLista DEF Marco
<1>5. s \in MarcosSwap /\ r \in Registro /\ r.p = 1 /\ r.marco = f
  BY <1>1, <1>2, <1>4, Registros DEF Enmarcada, FormaMemoria
<1>6. Marco(y).p = 0 /\ Marco(y).marco = s
  BY <1>4
<1> HIDE DEF s, f, d, r, y
<1>7. /\ paginas' \in [Listas -> ListaDePaginas]
      /\ \A k \in Listas : DOMAIN paginas'[k] = DOMAIN paginas[k]
      /\ \A x \in TodasLasPaginas : Marco(x)' = IF x = y THEN r ELSE Marco(x)
  BY ZenonT(40), <1>1, <1>3, <1>5, CambiaMarco DEF y
<1>8. TodasLasPaginas' = TodasLasPaginas
  BY <1>7, MismasPaginas
<1>9. FormaMemoria'
  <2>1. clock' \in [Marcos -> [id : Procesos \cup {Nadie, Fantasma}, pag : Numeros]]
    <3>1. [id |-> d, pag |-> n] \in [id : Procesos \cup {Nadie, Fantasma}, pag : Numeros]
      BY <1>4 DEF d
    <3>2. QED
      BY <1>1, <1>3, <3>1 DEF FormaMemoria
  <2>2. memoria' \in [Marcos -> Contenidos]
    BY <1>1, <1>2, <1>3, <1>5 DEF FormaMemoria
  <2>3. QED
    BY <1>1, <1>2, <1>3, <1>7, <2>1, <2>2 DEF FormaMemoria
<1>10. Enmarcada'
  <2>1. ASSUME NEW x \in TodasLasPaginas
        PROVE  /\ Marco(x)' \in Registro
               /\ Marco(x)'.p = 1 => Marco(x)'.marco \in bitmap_marcos'
               /\ Marco(x)'.p = 0 => Marco(x)'.marco \in bitmap_swap'
    <3>1. CASE x = y
      BY <1>3, <1>5, <1>7, <3>1
    <3>2. CASE x # y
      <4>1. Marco(x)' = Marco(x)
        BY <1>7, <3>2
      <4>2. Marco(x).p = 0 => Marco(x).marco # s
        BY <1>1, <1>4, <1>6, <3>2 DEF MarcoDeUna
      <4>3. QED
        BY <1>1, <1>3, <4>1, <4>2 DEF Enmarcada
    <3>3. QED
      BY <3>1, <3>2
  <2>2. QED
    BY <1>8, <2>1 DEF Enmarcada
<1>11. ASSUME NEW x \in TodasLasPaginas, x # y
       PROVE  Marco(x)' = Marco(x) /\ (Marco(x).p = 1 => Marco(x).marco # f)
  BY <1>1, <1>2, <1>7, <1>11 DEF Enmarcada
<1>12. MarcoDeUna'
  <2>1. ASSUME NEW x \in TodasLasPaginas, NEW z \in TodasLasPaginas,
               Marco(x)'.p = Marco(z)'.p, Marco(x)'.marco = Marco(z)'.marco
        PROVE  x = z
    <3>1. CASE x # y /\ z # y
      BY <1>1, <1>11, <2>1, <3>1 DEF MarcoDeUna
    <3>2. CASE x = y /\ z # y
      BY <1>5, <1>7, <1>11, <2>1, <3>2
    <3>3. CASE x # y /\ z = y
      BY <1>5, <1>7, <1>11, <2>1, <3>3
    <3>4. QED
      BY <3>1, <3>2, <3>3
  <2>2. QED
    BY <1>8, <2>1 DEF MarcoDeUna
<1>13. ConPagina'
  <2>1. ASSUME NEW g \in bitmap_marcos'
        PROVE  \E x \in TodasLasPaginas : Marco(x)'.p = 1 /\ Marco(x)'.marco = g
    <3>1. CASE g = f
      BY <1>4, <1>5, <1>7, <3>1
    <3>2. CASE g # f
      <4>1. PICK x \in TodasLasPaginas : Marco(x).p = 1 /\ Marco(x).marco = g
        BY <1>1, <1>3, <2>1, <3>2 DEF ConPagina
      <4>2. x # y
        BY <1>6, <4>1
      <4>3. QED
        BY <1>11, <4>1, <4>2
    <3>3. QED
      BY <3>1, <3>2
  <2>2. ASSUME NEW g \in bitmap_swap'
        PROVE  \E x \in TodasLasPaginas : Marco(x)'.p = 0 /\ Marco(x)'.marco = g
    <3>1. PICK x \in TodasLasPaginas : Marco(x).p = 0 /\ Marco(x).marco = g
      BY <1>1, <1>3, <2>2 DEF ConPagina
    <3>2. x # y
      BY <1>3, <1>6, <2>2, <3>1
    <3>3. QED
      BY <1>11, <3>1, <3>2
  <2>3. QED
    BY <1>8, <2>1, <2>2 DEF ConPagina
<1>14. ClockJusto'
  <2>1. ASSUME NEW x \in TodasLasPaginas, Marco(x)'.p = 1
        PROVE  clock'[Marco(x)'.marco] = [id |-> DuenioDeLista(x[1]), pag |-> x[2]]
    <3>1. CASE x = y
      <4>1. x[1] = l /\ x[2] = n
        BY <3>1 DEF y
      <4>2. clock'[f] = [id |-> d, pag |-> n]
        BY <1>1, <1>2, <1>3 DEF FormaMemoria
      <4>3. QED
        BY <1>5, <1>7, <3>1, <4>1, <4>2 DEF d
    <3>2. CASE x # y
      <4>1. Marco(x)' = Marco(x) /\ Marco(x).marco # f
        BY <1>11, <2>1, <3>2
      <4>2. clock'[Marco(x).marco] = clock[Marco(x).marco]
        BY <1>3, <4>1
      <4>3. QED
        BY <1>1, <2>1, <4>1, <4>2 DEF ClockJusto
    <3>3. QED
      BY <3>1, <3>2
  <2>2. QED
    BY <1>8, <2>1 DEF ClockJusto, DuenioDeLista
<1>15. \A x \in TodasLasPaginas : Contenido(x)' = Contenido(x)
  <2>1. TAKE x \in TodasLasPaginas
  <2>2. CASE x = y
    <3>1. Contenido(x) = espacio[s]
      BY <1>6, <2>2 DEF Contenido
    <3>2. Contenido(x)' = memoria'[f]
      BY <1>5, <1>7, <2>2 DEF Contenido
    <3>3. memoria'[f] = espacio[s]
      BY <1>1, <1>2, <1>3 DEF FormaMemoria
    <3>4. QED
      BY <3>1, <3>2, <3>3
  <2>3. CASE x # y
    <3>1. Marco(x)' = Marco(x) /\ (Marco(x).p = 1 => Marco(x).marco # f)
      BY <1>11, <2>3
    <3>2. Marco(x).p = 1 => memoria'[Marco(x).marco] = memoria[Marco(x).marco]
      BY <1>3, <3>1
    <3>3. QED
      BY <1>3, <3>1, <3>2 DEF Contenido
  <2>4. QED
    BY <2>2, <2>3
<1>16. paginas'[l][n].p = 1
  <2>1. Marco(y)' = paginas'[l][n]
    BY DEF Marco, y
  <2>2. QED
    BY <1>4, <1>5, <1>7, <2>1
<1>17. QED
  BY <1>7, <1>9, <1>10, <1>12, <1>13, <1>14, <1>15, <1>16 DEF MemoriaInv, Conserva

\* The page that the clock has in a frame: swap looks for it in the list that
\* has it, and in no other.
LEMMA UnaVictima ==
  ASSUME MemoriaInv, TablasInv, UnSoloCompartido, NEW f \in bitmap_marcos
  PROVE  /\ clock[f].pag \in Numeros
         /\ \A v \in Victimas(f) :
              v \in Listas /\ clock[f].pag \in DOMAIN paginas[v]
              /\ paginas[v][clock[f].pag] = [p |-> 1, marco |-> f]
         /\ cerrados = {} => Victimas(f) # {}
<1>1. FormaMemoria /\ Enmarcada /\ ConPagina /\ ClockJusto /\ FormaTablas /\ ListasDeProcesos /\ ListasDeArchivos
  BY DEF MemoriaInv, TablasInv
<1>2. PICK y \in TodasLasPaginas : Marco(y).p = 1 /\ Marco(y).marco = f
  BY <1>1 DEF ConPagina
<1>3. clock[f].id = DuenioDeLista(y[1]) /\ clock[f].pag = y[2]
  <2>1. clock[f] = [id |-> DuenioDeLista(y[1]), pag |-> y[2]]
    BY <1>1, <1>2 DEF ClockJusto
  <2>2. QED
    BY <2>1
<1>4. y[1] \in Listas /\ y[2] \in Numeros /\ y[2] \in DOMAIN paginas[y[1]]
  BY UnaPagina
<1>5. paginas[y[1]][y[2]] = [p |-> 1, marco |-> f]
  <2>1. Marco(y) \in Registro /\ Marco(y) = paginas[y[1]][y[2]]
    BY <1>1 DEF Enmarcada, Marco
  <2>2. QED
    BY <1>2, <2>1, Registros
<1>6. ListasDelClock(clock[f]) \subseteq {y[1]} /\ (cerrados = {} => y[1] \in ListasDelClock(clock[f]))
  <2>1. CASE y[1] \in Procesos
    <3>1. segmento[y[1]].flag = "PRIVATE"
      BY <1>1, <1>4, <2>1 DEF ListasDeProcesos
    <3>2. ListaDe(segmento[y[1]], y[1]) = y[1] /\ segmento[y[1]] # SinMapa
      BY <3>1, SinBandera DEF ListaDe
    <3>3. clock[f].id = y[1] /\ clock[f].id # Fantasma
      BY <1>3, <2>1, Numerados DEF DuenioDeLista
    <3>4. {q \in {clock[f].id} \cap Procesos : segmento[q] # SinMapa} = {y[1]}
      BY <2>1, <3>2, <3>3
    <3>5. ListasDelClock(clock[f]) = {ListaDe(segmento[p], p) : p \in {y[1]}}
      BY <3>3, <3>4, Zenon DEF ListasDelClock
    <3>6. QED
      BY <3>2, <3>5
  <2>2. CASE y[1] \notin Procesos
    <3>1. y[1] \in tabla_archivos
      BY <1>1, <1>4, <2>2 DEF ListasDeArchivos, Listas
    <3>2. clock[f].id = Fantasma
      BY <1>3, <2>2 DEF DuenioDeLista
    <3>3. ListasDelClock(clock[f]) = {fantasma[1] : i \in DOMAIN fantasma \cap {1}}
      BY <3>2, Zenon DEF ListasDelClock
    <3>4. \A i \in DOMAIN fantasma : fantasma[i] = y[1]
      <4>1. \A i \in DOMAIN fantasma : fantasma[i] \in tabla_archivos
        BY <1>1 DEF FormaTablas
      <4>2. QED
        BY <3>1, <4>1, Zenon DEF UnSoloCompartido
    <3>5. cerrados = {} => 1 \in DOMAIN fantasma
      BY <1>1, <3>1 DEF ListasDeArchivos, FormaTablas
    <3>6. QED
      BY <3>3, <3>4, <3>5
  <2>3. QED
    BY <2>1, <2>2
<1>7. QED
  BY <1>3, <1>4, <1>5, <1>6 DEF Victimas

\* Two pages change their frames.
DosCambios(l, n, r, v, c, q) == paginas' = [paginas EXCEPT ![v][c] = q, ![l][n] = r]
LEMMA CambianDos ==
  ASSUME FormaMemoria, NEW l \in Listas, NEW n \in DOMAIN paginas[l], NEW r \in Registro,
         NEW v \in Listas, NEW c \in DOMAIN paginas[v], NEW q \in Registro, <<v, c>> # <<l, n>>,
         DosCambios(l, n, r, v, c, q)
  PROVE  /\ paginas' \in [Listas -> ListaDePaginas]
         /\ \A k \in Listas : DOMAIN paginas'[k] = DOMAIN paginas[k]
         /\ \A x \in TodasLasPaginas :
              Marco(x)' = IF x = <<l, n>> THEN r ELSE IF x = <<v, c>> THEN q ELSE Marco(x)
<1>1. paginas \in [Listas -> ListaDePaginas]
  BY DEF FormaMemoria
<1> DEFINE fv == [paginas[v] EXCEPT ![c] = q]
           fl == [(IF l = v THEN fv ELSE paginas[l]) EXCEPT ![n] = r]
<1>2. \A k \in Listas : paginas'[k] = IF k = l THEN fl ELSE IF k = v THEN fv ELSE paginas[k]
  BY <1>1 DEF DosCambios
<1>3. fv \in ListaDePaginas /\ fl \in ListaDePaginas /\ DOMAIN fv = DOMAIN paginas[v] /\ DOMAIN fl = DOMAIN paginas[l]
  <2>1. PICK D \in SUBSET Numeros : paginas[v] \in [D -> Registro]
    BY <1>1 DEF ListaDePaginas
  <2>2. fv \in [D -> Registro] /\ DOMAIN fv = DOMAIN paginas[v]
    BY <2>1
  <2>3. PICK E \in SUBSET Numeros : paginas[l] \in [E -> Registro]
    BY <1>1 DEF ListaDePaginas
  <2> HIDE DEF fv
  <2>4. (IF l = v THEN fv ELSE paginas[l]) \in [E -> Registro] /\ DOMAIN paginas[l] = E
    BY <2>1, <2>2, <2>3
  <2>5. fl \in [E -> Registro] /\ DOMAIN fl = DOMAIN paginas[l]
    BY <2>4
  <2> HIDE DEF fl
  <2>6. QED
    BY <2>2, <2>5 DEF ListaDePaginas
<1>4. \A x \in TodasLasPaginas :
        Marco(x)' = IF x = <<l, n>> THEN r ELSE IF x = <<v, c>> THEN q ELSE Marco(x)
  <2>1. TAKE x \in TodasLasPaginas
  <2>2. x[1] \in Listas /\ x[2] \in DOMAIN paginas[x[1]] /\ x = <<x[1], x[2]>>
    BY UnaPagina
  <2>3. (x = <<l, n>> <=> x[1] = l /\ x[2] = n) /\ (x = <<v, c>> <=> x[1] = v /\ x[2] = c)
    BY <2>2
  <2>4. /\ fv[c] = q /\ \A m \in DOMAIN paginas[v] \ {c} : fv[m] = paginas[v][m]
        /\ fl[n] = r /\ \A m \in DOMAIN paginas[l] \ {n} : fl[m] = IF l = v THEN fv[m] ELSE paginas[l][m]
    BY <1>3
  <2> HIDE DEF fv, fl
  <2>5. paginas'[x[1]][x[2]] = IF x[1] = l /\ x[2] = n THEN r
                               ELSE IF x[1] = v /\ x[2] = c THEN q ELSE paginas[x[1]][x[2]]
    <3>1. CASE x[1] = l
      <4>1. paginas'[x[1]] = fl /\ x[2] \in DOMAIN paginas[l]
        BY <1>2, <2>2, <3>1
      <4>2. CASE x[2] = n
        BY <2>4, <3>1, <4>1, <4>2
      <4>3. CASE x[2] # n
        <5>1. fl[x[2]] = IF l = v THEN fv[x[2]] ELSE paginas[l][x[2]]
          BY <2>4, <4>1, <4>3
        <5>2. l = v => fv[x[2]] = IF x[2] = c THEN q ELSE paginas[v][x[2]]
          BY <2>4, <4>1
        <5>3. QED
          BY <3>1, <4>1, <4>3, <5>1, <5>2
      <4>4. QED
        BY <4>2, <4>3
    <3>2. CASE x[1] # l /\ x[1] = v
      <4>1. paginas'[x[1]] = fv /\ x[2] \in DOMAIN paginas[v]
        BY <1>2, <2>2, <3>2
      <4>2. fv[x[2]] = IF x[2] = c THEN q ELSE paginas[v][x[2]]
        BY <2>4, <4>1
      <4>3. QED
        BY <3>2, <4>1, <4>2
    <3>3. CASE x[1] # l /\ x[1] # v
      <4>1. paginas'[x[1]] = paginas[x[1]]
        BY <1>2, <2>2, <3>3
      <4>2. QED
        BY <3>3, <4>1
    <3>4. QED
      BY <3>1, <3>2, <3>3
  <2>6. QED
    BY <2>3, <2>5 DEF Marco
<1> HIDE DEF fv, fl
<1>5. paginas' \in [Listas -> ListaDePaginas]
  <2>1. \A k \in Listas : paginas[k] \in ListaDePaginas
    BY <1>1
  <2>2. DOMAIN paginas' = Listas /\ paginas' = [k \in Listas |-> paginas'[k]]
    BY <1>1 DEF DosCambios
  <2>3. \A k \in Listas : paginas'[k] \in ListaDePaginas
    BY <1>2, <1>3, <2>1
  <2>4. QED
    BY <2>2, <2>3, Zenon
<1>6. \A k \in Listas : DOMAIN paginas'[k] = DOMAIN paginas[k]
  BY <1>2, <1>3
<1>7. QED
  BY <1>4, <1>5, <1>6

\* swap with a victim: the page of another frame goes to swap.
LEMMA TraePorVictima ==
  ASSUME MemoriaInv, TablasInv, UnSoloCompartido,
         NEW l \in Listas, NEW n \in DOMAIN paginas[l], paginas[l][n].p = 0,
         DuenioDeLista(l) \in Procesos \cup {Nadie, Fantasma},
         NEW f \in Marcos, TraerPorVictima(l, n, DuenioDeLista(l), f)
  PROVE  MemoriaInv' /\ Conserva /\ paginas'[l][n].p = 1
<1> DEFINE s == paginas[l][n].marco
           S == MarcosSwap \ (bitmap_swap \ {s})
           e == Menor(S)
           d == DuenioDeLista(l)
           r == [p |-> 1, marco |-> f]
           q == [p |-> 0, marco |-> e]
           y == <<l, n>>
<1>1. FormaMemoria /\ Enmarcada /\ MarcoDeUna /\ ConPagina /\ ClockJusto
  BY DEF MemoriaInv
<1>2. y \in TodasLasPaginas /\ Marco(y) = paginas[l][n] /\ n \in Numeros
  BY <1>1, UnaPagina, UnaLista DEF Marco
<1>3. s \in bitmap_swap /\ s \in MarcosSwap
  BY <1>1, <1>2 DEF Enmarcada, FormaMemoria
<1>4. e \in MarcosSwap /\ (e = s \/ e \notin bitmap_swap)
  <2>1. S # {} /\ S \in SUBSET Nat /\ IsFiniteSet(S)
    BY <1>3, Numerados, FS_Subset
  <2> HIDE DEF S
  <2>2. e \in S
    BY <2>1, MenorEsta
  <2> HIDE DEF e
  <2>3. QED
    BY <2>2 DEF S
<1>5. f \in bitmap_marcos
  BY DEF TraerPorVictima, LibresMarcos
<1>60. PICK c : c = clock[f].pag
  OBVIOUS
<1>6. PICK v \in Victimas(f) : paginas' = [paginas EXCEPT ![v][c] = q, ![l][n] = r]
  BY <1>60, Zenon DEF TraerPorVictima
<1>7. v \in Listas /\ c \in DOMAIN paginas[v] /\ paginas[v][c] = r /\ c \in Numeros
  BY <1>5, <1>6, <1>60, UnaVictima
<1> DEFINE z == <<v, c>>
<1>8. z \in TodasLasPaginas /\ Marco(z) = r
  BY <1>7, UnaPagina DEF Marco
<1>9. /\ bitmap_swap' = (bitmap_swap \ {s}) \cup {e}
      /\ clock' = [clock EXCEPT ![f] = [id |-> d, pag |-> n]]
      /\ espacio' = [espacio EXCEPT ![e] = memoria[f]]
      /\ memoria' = [memoria EXCEPT ![f] = espacio[s]]
      /\ UNCHANGED bitmap_marcos
  BY DEF TraerPorVictima
<1>10. /\ r \in Registro /\ r.p = 1 /\ r.marco = f
       /\ q \in Registro /\ q.p = 0 /\ q.marco = e
       /\ Marco(y).p = 0 /\ Marco(y).marco = s
  BY <1>2, <1>4, Registros
<1> HIDE DEF s, S, e, d, r, q
<1>11. z # y
  BY <1>8, <1>10
<1>12. /\ paginas' \in [Listas -> ListaDePaginas]
       /\ \A k \in Listas : DOMAIN paginas'[k] = DOMAIN paginas[k]
       /\ \A x \in TodasLasPaginas : Marco(x)' = IF x = y THEN r ELSE IF x = z THEN q ELSE Marco(x)
  <2>1. <<v, c>> # <<l, n>>
    BY <1>11 DEF y, z
  <2>2. /\ paginas' \in [Listas -> ListaDePaginas]
        /\ \A k \in Listas : DOMAIN paginas'[k] = DOMAIN paginas[k]
        /\ \A x \in TodasLasPaginas :
             Marco(x)' = IF x = <<l, n>> THEN r ELSE IF x = <<v, c>> THEN q ELSE Marco(x)
    <3>1. DosCambios(l, n, r, v, c, q)
      BY <1>6, Zenon DEF DosCambios
    <3>2. QED
      BY <1>1, <1>7, <1>10, <2>1, <3>1, CambianDos
  <2>3. QED
    BY <2>2, Zenon DEF y, z
<1> HIDE DEF y, z
<1>13. TodasLasPaginas' = TodasLasPaginas
  BY <1>12, MismasPaginas
<1>14. FormaMemoria'
  <2>1. clock' \in [Marcos -> [id : Procesos \cup {Nadie, Fantasma}, pag : Numeros]]
    <3>1. [id |-> d, pag |-> n] \in [id : Procesos \cup {Nadie, Fantasma}, pag : Numeros]
      BY <1>2 DEF d
    <3>2. QED
      BY <1>1, <1>9, <3>1 DEF FormaMemoria
  <2>2. memoria' \in [Marcos -> Contenidos]
    BY <1>1, <1>3, <1>9 DEF FormaMemoria
  <2>3. espacio' \in [MarcosSwap -> Contenidos]
    BY <1>1, <1>9 DEF FormaMemoria
  <2>4. QED
    BY <1>1, <1>4, <1>9, <1>12, <2>1, <2>2, <2>3 DEF FormaMemoria
<1>15. ASSUME NEW x \in TodasLasPaginas, x # y, x # z
       PROVE  /\ Marco(x)' = Marco(x) /\ Marco(x) \in Registro
              /\ Marco(x).p = 1 => Marco(x).marco # f
              /\ Marco(x).p = 0 => Marco(x).marco # e /\ Marco(x).marco # s
  <2>1. Marco(x)' = Marco(x) /\ Marco(x) \in Registro
    BY <1>1, <1>12, <1>15 DEF Enmarcada
  <2>2. Marco(x).p = 1 => Marco(x).marco # f
    BY <1>1, <1>8, <1>10, <1>15 DEF MarcoDeUna
  <2>3. Marco(x).p = 0 => Marco(x).marco # s /\ Marco(x).marco \in bitmap_swap
    BY <1>1, <1>2, <1>10, <1>15 DEF MarcoDeUna, Enmarcada
  <2>4. QED
    BY <1>4, <2>1, <2>2, <2>3
<1>16. Marco(y)' = r /\ Marco(z)' = q
  BY <1>2, <1>8, <1>11, <1>12
<1>17. Enmarcada'
  <2>1. ASSUME NEW x \in TodasLasPaginas
        PROVE  /\ Marco(x)' \in Registro
               /\ Marco(x)'.p = 1 => Marco(x)'.marco \in bitmap_marcos'
               /\ Marco(x)'.p = 0 => Marco(x)'.marco \in bitmap_swap'
    <3>1. CASE x = y
      BY <1>5, <1>9, <1>10, <1>16, <3>1
    <3>2. CASE x = z
      BY <1>9, <1>10, <1>16, <3>2
    <3>3. CASE x # y /\ x # z
      BY <1>1, <1>9, <1>15, <3>3 DEF Enmarcada
    <3>4. QED
      BY <3>1, <3>2, <3>3
  <2>2. QED
    BY <1>13, <2>1 DEF Enmarcada
<1>18. MarcoDeUna'
  <2>1. ASSUME NEW x \in TodasLasPaginas, NEW w \in TodasLasPaginas,
               Marco(x)'.p = Marco(w)'.p, Marco(x)'.marco = Marco(w)'.marco
        PROVE  x = w
    <3>1. CASE x \notin {y, z} /\ w \notin {y, z}
      BY <1>1, <1>15, <2>1, <3>1 DEF MarcoDeUna
    <3>2. CASE x \in {y, z} /\ w \notin {y, z}
      BY <1>10, <1>15, <1>16, <2>1, <3>2
    <3>3. CASE x \notin {y, z} /\ w \in {y, z}
      BY <1>10, <1>15, <1>16, <2>1, <3>3
    <3>4. CASE x \in {y, z} /\ w \in {y, z}
      BY <1>10, <1>16, <2>1, <3>4
    <3>5. QED
      BY <3>1, <3>2, <3>3, <3>4
  <2>2. QED
    BY <1>13, <2>1 DEF MarcoDeUna
<1>19. ConPagina'
  <2>1. ASSUME NEW g \in bitmap_marcos'
        PROVE  \E x \in TodasLasPaginas : Marco(x)'.p = 1 /\ Marco(x)'.marco = g
    <3>1. CASE g = f
      BY <1>2, <1>10, <1>16, <3>1
    <3>2. CASE g # f
      <4>1. PICK x \in TodasLasPaginas : Marco(x).p = 1 /\ Marco(x).marco = g
        BY <1>1, <1>9, <2>1 DEF ConPagina
      <4>2. x # y /\ x # z
        BY <1>8, <1>10, <3>2, <4>1
      <4>3. QED
        BY <1>15, <4>1, <4>2
    <3>3. QED
      BY <3>1, <3>2
  <2>2. ASSUME NEW g \in bitmap_swap'
        PROVE  \E x \in TodasLasPaginas : Marco(x)'.p = 0 /\ Marco(x)'.marco = g
    <3>1. CASE g = e
      BY <1>8, <1>10, <1>16, <3>1
    <3>2. CASE g # e
      <4>1. PICK x \in TodasLasPaginas : Marco(x).p = 0 /\ Marco(x).marco = g
        BY <1>1, <1>9, <2>2, <3>2 DEF ConPagina
      <4>2. x # y /\ x # z
        BY <1>8, <1>9, <1>10, <2>2, <3>2, <4>1
      <4>3. QED
        BY <1>15, <4>1, <4>2
    <3>3. QED
      BY <3>1, <3>2
  <2>3. QED
    BY <1>13, <2>1, <2>2 DEF ConPagina
<1>20. ClockJusto'
  <2>1. ASSUME NEW x \in TodasLasPaginas, Marco(x)'.p = 1
        PROVE  clock'[Marco(x)'.marco] = [id |-> DuenioDeLista(x[1]), pag |-> x[2]]
    <3>1. CASE x = y
      <4>1. x[1] = l /\ x[2] = n
        BY <3>1 DEF y
      <4>2. clock'[f] = [id |-> d, pag |-> n]
        BY <1>1, <1>9 DEF FormaMemoria
      <4>3. QED
        BY <1>10, <1>16, <3>1, <4>1, <4>2 DEF d
    <3>2. CASE x # y
      <4>1. x # z
        BY <1>10, <1>16, <2>1
      <4>2. Marco(x)' = Marco(x) /\ Marco(x).marco # f
        BY <1>15, <2>1, <3>2, <4>1
      <4>3. clock'[Marco(x).marco] = clock[Marco(x).marco]
        BY <1>9, <4>2
      <4>4. QED
        BY <1>1, <2>1, <4>2, <4>3 DEF ClockJusto
    <3>3. QED
      BY <3>1, <3>2
  <2>2. QED
    BY <1>13, <2>1 DEF ClockJusto, DuenioDeLista
<1>21. \A x \in TodasLasPaginas : Contenido(x)' = Contenido(x)
  <2>1. TAKE x \in TodasLasPaginas
  <2>2. CASE x = y
    <3>1. Contenido(x) = espacio[s] /\ Contenido(x)' = memoria'[f]
      BY <1>10, <1>16, <2>2 DEF Contenido
    <3>2. memoria'[f] = espacio[s]
      BY <1>1, <1>9 DEF FormaMemoria
    <3>3. QED
      BY <3>1, <3>2
  <2>3. CASE x = z
    <3>1. Contenido(x) = memoria[f] /\ Contenido(x)' = espacio'[e]
      BY <1>8, <1>10, <1>16, <2>3 DEF Contenido
    <3>2. espacio'[e] = memoria[f]
      BY <1>1, <1>4, <1>9 DEF FormaMemoria
    <3>3. QED
      BY <3>1, <3>2
  <2>4. CASE x # y /\ x # z
    <3>1. /\ Marco(x)' = Marco(x) /\ (Marco(x).p = 1 \/ Marco(x).p = 0)
          /\ Marco(x).p = 1 => Marco(x).marco # f
          /\ Marco(x).p = 0 => Marco(x).marco # e
      BY <1>15, <2>4, Registros
    <3>2. /\ Marco(x).p = 1 => memoria'[Marco(x).marco] = memoria[Marco(x).marco]
          /\ Marco(x).p = 0 => espacio'[Marco(x).marco] = espacio[Marco(x).marco]
      BY <1>9, <3>1
    <3>3. QED
      BY <3>1, <3>2 DEF Contenido
  <2>5. QED
    BY <2>2, <2>3, <2>4
<1>22. paginas'[l][n].p = 1
  <2>1. Marco(y)' = paginas'[l][n]
    BY DEF Marco, y
  <2>2. QED
    BY <1>10, <1>16, <2>1
<1>23. QED
  BY <1>12, <1>14, <1>17, <1>18, <1>19, <1>20, <1>21, <1>22 DEF MemoriaInv, Conserva

\* A step that does not touch the memory.
LEMMA MemoriaQuieta ==
  ASSUME MemoriaInv, UNCHANGED <<marVars, paginas>>
  PROVE  MemoriaInv' /\ Conserva
<1>1. UNCHANGED <<bitmap_marcos, bitmap_swap, clock, memoria, espacio, paginas>>
  BY SMTT(30) DEF marVars
<1>2. TodasLasPaginas' = TodasLasPaginas
  BY <1>1 DEF TodasLasPaginas
<1>3. FormaMemoria'
  BY <1>1 DEF MemoriaInv, FormaMemoria
<1>4. Enmarcada' /\ ConPagina'
  BY <1>1, <1>2 DEF MemoriaInv, Enmarcada, ConPagina, Marco
<1>5. MarcoDeUna' /\ ClockJusto'
  BY <1>1, <1>2 DEF MemoriaInv, MarcoDeUna, ClockJusto, Marco
<1>6. Conserva
  BY <1>1 DEF Conserva, Contenido, Marco
<1>7. QED
  BY <1>3, <1>4, <1>5, <1>6 DEF MemoriaInv

\* buscar_segmento_pagina: whatever it moves, every page keeps what it has.
LEMMA BuscaYConserva ==
  ASSUME MemoriaInv, TablasInv, UnSoloCompartido, NEW p \in Procesos, segmento[p] # SinMapa,
         NEW n, BuscarPagina(p, n)
  PROVE  LET l == ListaDe(segmento[p], p)
         IN MemoriaInv' /\ Conserva /\ l \in Listas /\ n \in DOMAIN paginas[l] /\ paginas'[l][n].p = 1
<1> DEFINE l == ListaDe(segmento[p], p)
<1>1. /\ l \in Listas /\ DuenioDe(segmento[p], p) = DuenioDeLista(l)
      /\ DuenioDeLista(l) \in Procesos \cup {Nadie, Fantasma}
  BY ListaDeSegmento DEF TablasInv
<1>2. /\ n \in DOMAIN paginas[l]
      /\ \/ paginas[l][n].p = 1 /\ UNCHANGED <<marVars, paginas>>
         \/ /\ paginas[l][n].p = 0
            /\ \/ TraerALibre(l, n, DuenioDe(segmento[p], p))
               \/ \E f \in Marcos : TraerPorVictima(l, n, DuenioDe(segmento[p], p), f)
  BY Zenon DEF BuscarPagina
<1> HIDE DEF l
<1>3. CASE paginas[l][n].p = 1 /\ UNCHANGED <<marVars, paginas>>
  <2>1. paginas' = paginas /\ MemoriaInv' /\ Conserva
    BY <1>3, MemoriaQuieta
  <2>2. QED
    BY <1>1, <1>2, <1>3, <2>1 DEF l
<1>4. CASE paginas[l][n].p = 0 /\ TraerALibre(l, n, DuenioDeLista(l))
  BY <1>1, <1>2, <1>4, TraeALibre DEF l
<1>5. CASE paginas[l][n].p = 0 /\ \E f \in Marcos : TraerPorVictima(l, n, DuenioDeLista(l), f)
  BY <1>1, <1>2, <1>5, TraePorVictima DEF l
<1>6. QED
  BY <1>1, <1>2, <1>3, <1>4, <1>5

-----------------------------------------------------------------------------
(* Counting pages *)

\* There are as many pages as bits set.
LEMMA CuantasPaginas ==
  ASSUME MemoriaInv
  PROVE  /\ IsFiniteSet(TodasLasPaginas) /\ IsFiniteSet(bitmap_marcos) /\ IsFiniteSet(bitmap_swap)
         /\ Cardinality(TodasLasPaginas) = Cardinality(bitmap_marcos) + Cardinality(bitmap_swap)
<1> DEFINE De(e) == {x \in TodasLasPaginas : Marco(x).p = e}
           g(e) == [x \in De(e) |-> Marco(x).marco]
<1>1. FormaMemoria /\ Enmarcada /\ MarcoDeUna /\ ConPagina
  BY DEF MemoriaInv
<1>2. IsFiniteSet(bitmap_marcos) /\ IsFiniteSet(bitmap_swap)
  BY <1>1, Numerados, FS_Subset DEF FormaMemoria
<1>3. ASSUME NEW e, NEW B, IsFiniteSet(B),
             \A x \in De(e) : Marco(x).marco \in B,
             \A b \in B : \E x \in De(e) : Marco(x).marco = b
      PROVE  IsFiniteSet(De(e)) /\ Cardinality(De(e)) = Cardinality(B)
  <2>1. g(e) \in [De(e) -> B]
    BY <1>3
  <2>2. \A x, y \in De(e) : g(e)[x] = g(e)[y] => x = y
    BY <1>1 DEF MarcoDeUna
  <2>3. \A b \in B : \E x \in De(e) : g(e)[x] = b
    BY <1>3
  <2> HIDE DEF g, De
  <2>4. g(e) \in Injection(De(e), B)
    BY <2>1, <2>2 DEF Injection, IsInjective
  <2>5. g(e) \in Surjection(De(e), B)
    BY <2>1, <2>3 DEF Surjection
  <2>6. QED
    BY <1>3, <2>4, <2>5, FS_Injection
<1>4. IsFiniteSet(De(1)) /\ Cardinality(De(1)) = Cardinality(bitmap_marcos)
  <2>1. \A x \in De(1) : Marco(x).marco \in bitmap_marcos
    BY <1>1 DEF Enmarcada
  <2>2. \A b \in bitmap_marcos : \E x \in De(1) : Marco(x).marco = b
    BY <1>1 DEF ConPagina
  <2> HIDE DEF De
  <2>3. QED
    BY <1>2, <1>3, <2>1, <2>2
<1>5. IsFiniteSet(De(0)) /\ Cardinality(De(0)) = Cardinality(bitmap_swap)
  <2>1. \A x \in De(0) : Marco(x).marco \in bitmap_swap
    BY <1>1 DEF Enmarcada
  <2>2. \A b \in bitmap_swap : \E x \in De(0) : Marco(x).marco = b
    BY <1>1 DEF ConPagina
  <2> HIDE DEF De
  <2>3. QED
    BY <1>2, <1>3, <2>1, <2>2
<1>6. TodasLasPaginas = De(1) \cup De(0) /\ De(1) \cap De(0) = {}
  BY <1>1, Registros DEF Enmarcada
<1> HIDE DEF De
<1>7. IsFiniteSet(TodasLasPaginas) /\ Cardinality(TodasLasPaginas) = Cardinality(De(1)) + Cardinality(De(0)) - Cardinality(De(1) \cap De(0))
  BY <1>4, <1>5, <1>6, FS_Union
<1>8. Cardinality(De(1) \cap De(0)) = 0 /\ Cardinality(De(1)) \in Nat /\ Cardinality(De(0)) \in Nat
  BY <1>4, <1>5, <1>6, FS_EmptySet, FS_CardinalityType
<1>9. QED
  BY <1>2, <1>4, <1>5, <1>7, <1>8

\* The pages of some numbers of one list.
De(l, van) == {<<l, n>> : n \in van}
LEMMA TantasComoNumeros ==
  ASSUME NEW l, NEW van \in SUBSET Numeros
  PROVE  IsFiniteSet(De(l, van)) /\ IsFiniteSet(van) /\ Cardinality(De(l, van)) = Cardinality(van)
         /\ Cardinality(van) \in Nat
<1> DEFINE g == [n \in van |-> <<l, n>>]
<1>1. IsFiniteSet(van) /\ Cardinality(van) \in Nat
  BY Numerados, FS_Subset, FS_CardinalityType
<1>2. g \in Bijection(van, De(l, van))
  <2>1. g \in [van -> De(l, van)]
    BY DEF De
  <2>2. \A x, y \in van : g[x] = g[y] => x = y
    OBVIOUS
  <2>3. \A b \in De(l, van) : \E x \in van : g[x] = b
    BY DEF De
  <2> HIDE DEF g
  <2>4. QED
    BY <2>1, <2>2, <2>3 DEF Bijection, Injection, Surjection, IsInjective
<1>3. ExistsBijection(van, De(l, van))
  BY <1>2 DEF ExistsBijection
<1>4. QED
  BY <1>1, <1>3, FS_Bijection

\* What has been counted fits: a mapping that is admitted has frames for all its
\* pages.
LEMMA Caben ==
  ASSUME MemoriaInv, FormaCuentas, paginas_usadas = Cardinality(TodasLasPaginas) + perdidas,
         paginas_usadas + Paginas <= PaginasTotales
  PROVE  /\ IsFiniteSet(LibresMarcos) /\ IsFiniteSet(LibresSwap)
         /\ LibresMarcos \in SUBSET Nat /\ LibresSwap \in SUBSET Nat
         /\ Cardinality(LibresMarcos) \in Nat /\ Cardinality(LibresSwap) \in Nat
         /\ Paginas <= Cardinality(LibresMarcos) + Cardinality(LibresSwap)
<1>1. ASSUME NEW M \in SUBSET Nat, IsFiniteSet(M), NEW B \in SUBSET M
      PROVE  /\ IsFiniteSet(M \ B) /\ Cardinality(M \ B) = Cardinality(M) - Cardinality(B)
             /\ Cardinality(M \ B) \in Nat /\ Cardinality(B) \in Nat
  <2>1. M \cap B = B /\ IsFiniteSet(B)
    BY <1>1, FS_Subset
  <2>2. QED
    BY ZenonT(40), <1>1, <2>1, FS_Difference, FS_CardinalityType
<1>2. bitmap_marcos \in SUBSET Marcos /\ bitmap_swap \in SUBSET MarcosSwap
  BY DEF MemoriaInv, FormaMemoria
<1>3. /\ IsFiniteSet(LibresMarcos) /\ Cardinality(LibresMarcos) = CantidadPaginas - Cardinality(bitmap_marcos)
      /\ Cardinality(LibresMarcos) \in Nat /\ Cardinality(bitmap_marcos) \in Nat
  BY <1>1, <1>2, Numerados DEF LibresMarcos
<1>4. /\ IsFiniteSet(LibresSwap) /\ Cardinality(LibresSwap) = PaginasSwap - Cardinality(bitmap_swap)
      /\ Cardinality(LibresSwap) \in Nat /\ Cardinality(bitmap_swap) \in Nat
  BY <1>1, <1>2, Numerados DEF LibresSwap
<1>5. LibresMarcos \in SUBSET Nat /\ LibresSwap \in SUBSET Nat
  BY Numerados DEF LibresMarcos, LibresSwap
<1>6. Cardinality(TodasLasPaginas) = Cardinality(bitmap_marcos) + Cardinality(bitmap_swap)
  BY CuantasPaginas
<1>7. perdidas \in Nat /\ PaginasTotales = CantidadPaginas + PaginasSwap
  BY ConstantesMapas DEF ConstantesMapas, FormaCuentas, PaginasTotales
<1>8. QED
  BY <1>3, <1>4, <1>5, <1>6, <1>7, Numerados

-----------------------------------------------------------------------------
(* Giving pages back *)

\* remover_clocky and the bits: the pages that stay are as they were.
LEMMA Devuelve ==
  ASSUME MemoriaInv, NEW l \in Listas, NEW van \in SUBSET DOMAIN paginas[l], Devolver(l, van),
         paginas_usadas = Cardinality(TodasLasPaginas) + perdidas, perdidas \in Nat
  PROVE  /\ MemoriaInv' /\ TodasLasPaginas' = TodasLasPaginas \ De(l, van)
         /\ \A x \in TodasLasPaginas' : Contenido(x)' = Contenido(x)
         /\ DOMAIN paginas'[l] = DOMAIN paginas[l] \ van
         /\ \A k \in Listas \ {l} : paginas'[k] = paginas[k]
         /\ paginas_usadas' = Cardinality(TodasLasPaginas') + perdidas
         /\ paginas_usadas' \in Nat /\ paginas_usadas' <= paginas_usadas
<1> DEFINE marcos(e) == {paginas[l][n].marco : n \in {m \in van : paginas[l][m].p = e}}
           queda == [n \in DOMAIN paginas[l] \ van |-> paginas[l][n]]
<1>1. FormaMemoria /\ Enmarcada /\ MarcoDeUna /\ ConPagina /\ ClockJusto
  BY DEF MemoriaInv
<1>2. /\ paginas_usadas' = paginas_usadas - Cardinality(van)
      /\ bitmap_marcos' = bitmap_marcos \ marcos(1)
      /\ bitmap_swap' = bitmap_swap \ marcos(0)
      /\ clock' = [f \in Marcos |-> IF f \in marcos(1) THEN ClockVacio ELSE clock[f]]
      /\ paginas' = [paginas EXCEPT ![l] = queda]
      /\ UNCHANGED <<memoria, espacio>>
  BY DEF Devolver
<1>3. paginas \in [Listas -> ListaDePaginas]
  BY <1>1 DEF FormaMemoria
<1>4. paginas'[l] = queda /\ (\A k \in Listas \ {l} : paginas'[k] = paginas[k])
  BY <1>2, <1>3
<1>5. queda \in ListaDePaginas /\ DOMAIN queda = DOMAIN paginas[l] \ van
  <2>1. PICK D \in SUBSET Numeros : paginas[l] \in [D -> Registro]
    BY <1>3 DEF ListaDePaginas
  <2>2. queda \in [D \ van -> Registro] /\ D \ van \in SUBSET Numeros
    BY <2>1
  <2> HIDE DEF queda
  <2>3. QED
    BY <2>1, <2>2 DEF ListaDePaginas
<1>6. \A n \in DOMAIN paginas[l] \ van : queda[n] = paginas[l][n]
  OBVIOUS
<1>7. \A n \in van, e \in {0, 1} : paginas[l][n].p = e => paginas[l][n].marco \in marcos(e)
  OBVIOUS
<1>8. ASSUME NEW e, NEW b \in marcos(e)
      PROVE  \E n \in van : paginas[l][n].p = e /\ paginas[l][n].marco = b
  BY <1>8
<1> HIDE DEF marcos, queda
<1>9. TodasLasPaginas' = TodasLasPaginas \ De(l, van)
  <2>1. \A x \in Listas \X Numeros : x \in De(l, van) <=> x[1] = l /\ x[2] \in van
    BY DEF De
  <2>2. \A k \in Listas : k = l \/ paginas'[k] = paginas[k]
    BY <1>4
  <2>3. DOMAIN paginas'[l] = DOMAIN paginas[l] \ van
    BY <1>4, <1>5
  <2>4. \A x \in Listas \X Numeros : x[2] \in DOMAIN paginas'[x[1]] <=>
          x[2] \in DOMAIN paginas[x[1]] /\ ~ (x[1] = l /\ x[2] \in van)
    BY <2>2, <2>3
  <2>5. QED
    BY <2>1, <2>4 DEF TodasLasPaginas
<1>10. ASSUME NEW x \in TodasLasPaginas'
       PROVE  /\ x \in TodasLasPaginas /\ Marco(x)' = Marco(x)
              /\ \A n \in van : <<l, n>> \in TodasLasPaginas /\ x # <<l, n>> /\ Marco(<<l, n>>) = paginas[l][n]
  <2>1. x \in TodasLasPaginas /\ \A n \in van : x # <<l, n>>
    BY <1>9 DEF De
  <2>2. x[1] \in Listas /\ x[2] \in DOMAIN paginas[x[1]] /\ x = <<x[1], x[2]>>
    BY <2>1, UnaPagina
  <2>3. paginas'[x[1]][x[2]] = paginas[x[1]][x[2]]
    <3>1. CASE x[1] = l
      BY <1>4, <1>6, <2>1, <2>2, <3>1
    <3>2. CASE x[1] # l
      BY <1>4, <2>2, <3>2
    <3>3. QED
      BY <3>1, <3>2
  <2>4. \A n \in van : <<l, n>> \in TodasLasPaginas /\ Marco(<<l, n>>) = paginas[l][n]
    BY <1>1, UnaLista, UnaPagina DEF Marco
  <2>5. QED
    BY <2>1, <2>3, <2>4 DEF Marco
\* The frames of the pages that stay are not given back.
<1>11. ASSUME NEW x \in TodasLasPaginas'
       PROVE  Marco(x).marco \notin marcos(Marco(x).p)
  <2>1. SUFFICES ASSUME Marco(x).marco \in marcos(Marco(x).p)
                 PROVE  FALSE
    OBVIOUS
  <2>2. PICK n \in van : paginas[l][n].p = Marco(x).p /\ paginas[l][n].marco = Marco(x).marco
    BY <1>8, <2>1
  <2>3. /\ x \in TodasLasPaginas /\ <<l, n>> \in TodasLasPaginas /\ x # <<l, n>>
        /\ Marco(<<l, n>>) = paginas[l][n]
    BY <1>10, <1>11
  <2>4. QED
    BY <1>1, <2>2, <2>3 DEF MarcoDeUna
<1>12. FormaMemoria'
  <2>1. ClockVacio \in [id : Procesos \cup {Nadie, Fantasma}, pag : Numeros]
    BY Numerados DEF ClockVacio, Numeros
  <2>2. clock' \in [Marcos -> [id : Procesos \cup {Nadie, Fantasma}, pag : Numeros]]
    BY <1>1, <1>2, <2>1 DEF FormaMemoria
  <2>3. paginas' \in [Listas -> ListaDePaginas]
    <3>1. DOMAIN paginas' = Listas /\ paginas' = [k \in Listas |-> paginas'[k]]
      BY <1>2, <1>3
    <3>2. \A k \in Listas : paginas'[k] \in ListaDePaginas
      BY <1>3, <1>4, <1>5
    <3>3. QED
      BY <3>1, <3>2, Zenon
  <2>4. QED
    BY <1>1, <1>2, <2>2, <2>3 DEF FormaMemoria
<1>13. Enmarcada'
  <2>1. ASSUME NEW x \in TodasLasPaginas'
        PROVE  /\ Marco(x)' \in Registro
               /\ Marco(x)'.p = 1 => Marco(x)'.marco \in bitmap_marcos'
               /\ Marco(x)'.p = 0 => Marco(x)'.marco \in bitmap_swap'
    BY <1>1, <1>2, <1>10, <1>11 DEF Enmarcada
  <2>2. QED
    BY <2>1 DEF Enmarcada
<1>14. MarcoDeUna'
  BY <1>1, <1>10 DEF MarcoDeUna
<1>15. ASSUME NEW x \in TodasLasPaginas, Marco(x).marco \notin marcos(Marco(x).p)
       PROVE  x \in TodasLasPaginas'
  <2>1. ASSUME NEW n \in van, x = <<l, n>>
        PROVE  FALSE
    <3>1. Marco(x) = paginas[l][n]
      BY <2>1 DEF Marco
    <3>2. Marco(x).p \in {0, 1}
      BY <1>1, Registros DEF Enmarcada
    <3>3. QED
      BY <1>7, <1>15, <3>1, <3>2
  <2>2. QED
    BY <1>9, <2>1 DEF De
<1>16. ConPagina'
  <2>1. ASSUME NEW g \in bitmap_marcos'
        PROVE  \E x \in TodasLasPaginas' : Marco(x)'.p = 1 /\ Marco(x)'.marco = g
    <3>1. PICK x \in TodasLasPaginas : Marco(x).p = 1 /\ Marco(x).marco = g
      BY <1>1, <1>2, <2>1 DEF ConPagina
    <3>2. x \in TodasLasPaginas'
      BY <1>2, <1>15, <2>1, <3>1
    <3>3. QED
      BY <1>10, <3>1, <3>2
  <2>2. ASSUME NEW g \in bitmap_swap'
        PROVE  \E x \in TodasLasPaginas' : Marco(x)'.p = 0 /\ Marco(x)'.marco = g
    <3>1. PICK x \in TodasLasPaginas : Marco(x).p = 0 /\ Marco(x).marco = g
      BY <1>1, <1>2, <2>2 DEF ConPagina
    <3>2. x \in TodasLasPaginas'
      BY <1>2, <1>15, <2>2, <3>1
    <3>3. QED
      BY <1>10, <3>1, <3>2
  <2>3. QED
    BY <2>1, <2>2 DEF ConPagina
<1>17. ClockJusto'
  <2>1. ASSUME NEW x \in TodasLasPaginas', Marco(x)'.p = 1
        PROVE  clock'[Marco(x)'.marco] = [id |-> DuenioDeLista(x[1]), pag |-> x[2]]
    <3>1. /\ x \in TodasLasPaginas /\ Marco(x)' = Marco(x) /\ Marco(x).p = 1
          /\ Marco(x).marco \in Marcos /\ Marco(x).marco \notin marcos(1)
      BY <1>1, <1>10, <1>11, <2>1 DEF Enmarcada, FormaMemoria
    <3>2. clock'[Marco(x).marco] = clock[Marco(x).marco]
      BY <1>2, <3>1
    <3>3. QED
      BY <1>1, <3>1, <3>2 DEF ClockJusto
  <2>2. QED
    BY <2>1 DEF ClockJusto, DuenioDeLista
<1>18. \A x \in TodasLasPaginas' : Contenido(x)' = Contenido(x)
  BY <1>2, <1>10 DEF Contenido
<1>19. /\ Cardinality(TodasLasPaginas') = Cardinality(TodasLasPaginas) - Cardinality(van)
       /\ Cardinality(TodasLasPaginas') \in Nat /\ Cardinality(van) \in Nat /\ Cardinality(TodasLasPaginas) \in Nat
  <2>1. van \in SUBSET Numeros
    BY <1>1, UnaLista
  <2>2. IsFiniteSet(TodasLasPaginas) /\ De(l, van) \in SUBSET TodasLasPaginas
    BY <1>1, <2>1, CuantasPaginas, UnaPagina DEF De
  <2>3. TodasLasPaginas \cap De(l, van) = De(l, van)
    BY <2>2
  <2>4. Cardinality(TodasLasPaginas') = Cardinality(TodasLasPaginas) - Cardinality(De(l, van))
        /\ IsFiniteSet(TodasLasPaginas')
    <3>1. /\ IsFiniteSet(TodasLasPaginas \ De(l, van))
          /\ Cardinality(TodasLasPaginas \ De(l, van))
               = Cardinality(TodasLasPaginas) - Cardinality(TodasLasPaginas \cap De(l, van))
      BY <2>2, FS_Difference
    <3>2. QED
      BY <1>9, <2>3, <3>1
  <2>5. QED
    BY <2>1, <2>2, <2>4, TantasComoNumeros, FS_CardinalityType
<1>20. /\ paginas_usadas' = Cardinality(TodasLasPaginas') + perdidas
       /\ paginas_usadas' \in Nat /\ paginas_usadas' <= paginas_usadas
  BY <1>2, <1>19
<1>21. QED
  BY <1>4, <1>5, <1>9, <1>12, <1>13, <1>14, <1>16, <1>17, <1>18, <1>20 DEF MemoriaInv

-----------------------------------------------------------------------------
(* New pages *)

\* Each new page has a frame that was free, and no other new page has it.
LEMMA UnaPaginaNueva ==
  ASSUME MemoriaInv, IsFiniteSet(LibresMarcos), IsFiniteSet(LibresSwap),
         LibresMarcos \in SUBSET Nat, LibresSwap \in SUBSET Nat,
         Cardinality(LibresMarcos) \in Nat, Cardinality(LibresSwap) \in Nat,
         Paginas <= Cardinality(LibresMarcos) + Cardinality(LibresSwap)
  PROVE  /\ \A i \in Numeros :
              \/ PaginaNueva(i).p = 1 /\ PaginaNueva(i).marco \in LibresMarcos
              \/ PaginaNueva(i).p = 0 /\ PaginaNueva(i).marco \in LibresSwap
         /\ \A i \in Numeros : PaginaNueva(i) \in Registro
         /\ \A i, j \in Numeros :
              PaginaNueva(i).p = PaginaNueva(j).p /\ PaginaNueva(i).marco = PaginaNueva(j).marco => i = j
<1> DEFINE b == Cardinality(LibresSwap)
           m == Cardinality(LibresMarcos)
<1>1. ASSUME NEW i \in Numeros
      PROVE  \/ /\ i \in 0..b - 1 /\ PaginaNueva(i).p = 0
                /\ PaginaNueva(i).marco = Enesimo(LibresSwap, i)
                /\ PaginaNueva(i) = [p |-> 0, marco |-> Enesimo(LibresSwap, i)]
             \/ /\ ~ (i < b) /\ i - b \in 0..m - 1 /\ PaginaNueva(i).p = 1
                /\ PaginaNueva(i).marco = Enesimo(LibresMarcos, i - b)
                /\ PaginaNueva(i) = [p |-> 1, marco |-> Enesimo(LibresMarcos, i - b)]
  <2>1. i \in Nat /\ i < Paginas /\ Paginas \in Nat
    BY Numerados DEF Numeros
  <2>2. CASE i < b
    <3>1. PaginaNueva(i) = [p |-> 0, marco |-> Enesimo(LibresSwap, i)]
      BY <2>2 DEF PaginaNueva
    <3>2. i \in 0..b - 1
      BY <2>1, <2>2
    <3>3. QED
      BY <3>1, <3>2
  <2>3. CASE ~ (i < b)
    <3>1. PaginaNueva(i) = [p |-> 1, marco |-> Enesimo(LibresMarcos, i - b)]
      BY <2>3 DEF PaginaNueva
    <3>2. i - b \in 0..m - 1
      BY <2>1, <2>3
    <3>3. QED
      BY <2>3, <3>1, <3>2
  <2>4. QED
    BY <2>2, <2>3
<1>2. /\ \A i \in 0..b - 1 : Enesimo(LibresSwap, i) \in LibresSwap
      /\ \A i \in 0..m - 1 : Enesimo(LibresMarcos, i) \in LibresMarcos
  BY EnesimoEsta
<1>3. /\ \A i, j \in 0..b - 1 : Enesimo(LibresSwap, i) = Enesimo(LibresSwap, j) => i = j
      /\ \A i, j \in 0..m - 1 : Enesimo(LibresMarcos, i) = Enesimo(LibresMarcos, j) => i = j
  BY EnesimoUno
<1>4. b \in Nat /\ \A i \in Numeros : i \in Nat
  BY Numerados
<1> HIDE DEF b, m
<1>5. ASSUME NEW i \in Numeros
      PROVE  /\ \/ PaginaNueva(i).p = 1 /\ PaginaNueva(i).marco \in LibresMarcos
                \/ PaginaNueva(i).p = 0 /\ PaginaNueva(i).marco \in LibresSwap
             /\ PaginaNueva(i) \in Registro
  <2>1. LibresMarcos \subseteq Marcos /\ LibresSwap \subseteq MarcosSwap
    BY DEF LibresMarcos, LibresSwap
  <2>2. QED
    BY <1>1, <1>2, <2>1, Registros
<1>6. ASSUME NEW i \in Numeros, NEW j \in Numeros,
             PaginaNueva(i).p = PaginaNueva(j).p, PaginaNueva(i).marco = PaginaNueva(j).marco
      PROVE  i = j
  <2>1. CASE PaginaNueva(i).p = 0
    <3>1. i \in 0..b - 1 /\ PaginaNueva(i).marco = Enesimo(LibresSwap, i)
      BY <1>1, <2>1
    <3>2. j \in 0..b - 1 /\ PaginaNueva(j).marco = Enesimo(LibresSwap, j)
      <4>1. PaginaNueva(j).p = 0
        BY <1>6, <2>1
      <4>2. QED
        BY <1>1, <4>1
    <3>3. QED
      BY <1>3, <1>6, <3>1, <3>2
  <2>2. CASE PaginaNueva(i).p # 0
    <3>1. i - b \in 0..m - 1 /\ PaginaNueva(i).marco = Enesimo(LibresMarcos, i - b)
      BY <1>1, <2>2
    <3>2. j - b \in 0..m - 1 /\ PaginaNueva(j).marco = Enesimo(LibresMarcos, j - b)
      BY <1>1, <1>6, <2>2
    <3>3. i - b = j - b
      BY <1>3, <1>6, <3>1, <3>2
    <3>4. QED
      BY <1>4, <3>3
  <2>3. QED
    BY <2>1, <2>2
<1>7. QED
  BY <1>5, <1>6

\* What a page is given to hold.
LEMMA LoLeido ==
  ASSUME FormaDatos, NEW a \in Archivos, NEW i \in Numeros
  PROVE  LeeDelArchivo(a, i) \in Contenidos \cup {CUALQUIERA}
<1>1. disco[a] \in Seq(Contenidos) /\ i \in Nat
  BY Numerados DEF FormaDatos
<1>2. i < Len(disco[a]) => disco[a][i + 1] \in Contenidos
  <2>1. Len(disco[a]) \in Nat /\ \A k \in 1..Len(disco[a]) : disco[a][k] \in Contenidos
    BY <1>1
  <2>2. QED
    BY <1>1, <2>1
<1>3. QED
  BY <1>2 DEF LeeDelArchivo, Contenidos
LEMMA CualquieraNoEsContenido == CUALQUIERA \notin Contenidos
BY ConstantesMapas DEF ConstantesMapas, CUALQUIERA, Contenidos, CERO

\* crearPaginasmapeadas: a list that had no pages has all of them, in frames
\* that were free, and with what the file has; no other page is touched.
Creadas(l, a) ==
  /\ TodasLasPaginas' = TodasLasPaginas \cup De(l, Numeros)
  /\ DOMAIN paginas'[l] = Numeros
  /\ \A k \in Listas \ {l} : paginas'[k] = paginas[k]
  /\ \A x \in TodasLasPaginas : x[1] # l /\ Contenido(x)' = Contenido(x)
  /\ \A i \in Numeros :
       LeeDelArchivo(a, i) # CUALQUIERA => Contenido(<<l, i>>)' = LeeDelArchivo(a, i)
  /\ paginas_usadas' = Cardinality(TodasLasPaginas') + perdidas
  /\ paginas_usadas' \in Nat /\ paginas_usadas' <= PaginasTotales
LEMMA Crea ==
  ASSUME MemoriaInv, TablasInv, paginas_usadas = Cardinality(TodasLasPaginas) + perdidas,
         NEW p \in Procesos, crearPaginasmapeadas(p)
  PROVE  MemoriaInv' /\ \E l \in Listas, a \in Archivos :
                          l = ListaDe(pedido[p], p) /\ a = pedido[p].archivo /\ Creadas(l, a)
<1>1. FormaMemoria /\ Enmarcada /\ MarcoDeUna /\ ConPagina /\ ClockJusto
  BY DEF MemoriaInv
<1>2. FormaTablas /\ FormaDatos /\ FormaCuentas /\ ListasDeProcesos /\ ListasDeArchivos /\ PedidosJustos
  BY DEF TablasInv
<1> DEFINE r == pedido[p]
<1>3. /\ r.op = "MAPEAR" /\ ~ NoCaben(r) /\ Nuevas(r)
      /\ segmento[p] = SinMapa /\ r.archivo \in Archivos /\ r.flag \in {"PRIVATE", "SHARED"}
  BY <1>2 DEF crearPaginasmapeadas, TieneElSem, PedidosJustos, PedidoJusto
<1>4. PICK a \in Archivos, l \in Listas :
        a = r.archivo /\ l = ListaDe(r, p) /\ DuenioDe(r, p) = DuenioDeLista(l)
        /\ DuenioDeLista(l) \in Procesos \cup {Nadie, Fantasma}
  BY <1>3, Numerados DEF ListaDe, DuenioDe, DuenioDeLista, Listas
<1> DEFINE nuevas == [i \in Numeros |-> PaginaNueva(i)]
           Trae(e, f) == {i \in Numeros : nuevas[i] = [p |-> e, marco |-> f]
                                           /\ LeeDelArchivo(r.archivo, i) # CUALQUIERA}
           Hay(e) == {nuevas[i].marco : i \in {k \in Numeros : nuevas[k].p = e}}
           Cual(e, f) == CHOOSE i \in Numeros : nuevas[i] = [p |-> e, marco |-> f]
           Queda(e, f, x) == IF Trae(e, f) = {} THEN x ELSE LeeDelArchivo(r.archivo, Cual(e, f))
           d == DuenioDeLista(l)
<1>5. DOMAIN paginas[l] = {}
  <2>1. CASE r.flag = "SHARED"
    BY <1>2, <1>3, <1>4, <2>1 DEF Nuevas, ListaDe, ListasDeArchivos
  <2>2. CASE r.flag # "SHARED"
    BY <1>2, <1>3, <1>4, <2>2, SinBandera DEF ListaDe, ListasDeProcesos
  <2>3. QED
    BY <2>1, <2>2
<1>6. /\ paginas_usadas' = paginas_usadas + Paginas
      /\ paginas' = [paginas EXCEPT ![l] = nuevas]
      /\ bitmap_marcos' = bitmap_marcos \cup Hay(1)
      /\ bitmap_swap' = bitmap_swap \cup Hay(0)
      /\ clock' = [f \in Marcos |-> IF f \in Hay(1) THEN [id |-> d, pag |-> Cual(1, f)] ELSE clock[f]]
      /\ memoria' = [f \in Marcos |-> Queda(1, f, memoria[f])]
      /\ espacio' = [s \in MarcosSwap |-> Queda(0, s, espacio[s])]
      /\ UNCHANGED perdidas
  <2>1. /\ paginas_usadas' = paginas_usadas + Paginas
        /\ paginas' = [paginas EXCEPT ![ListaDe(r, p)] = nuevas]
        /\ bitmap_marcos' = bitmap_marcos \cup Hay(1)
        /\ bitmap_swap' = bitmap_swap \cup Hay(0)
        /\ clock' = [f \in Marcos |-> IF f \in Hay(1) THEN [id |-> DuenioDe(r, p), pag |-> Cual(1, f)]
                                      ELSE clock[f]]
        /\ memoria' = [f \in Marcos |-> Queda(1, f, memoria[f])]
        /\ espacio' = [s \in MarcosSwap |-> Queda(0, s, espacio[s])]
        /\ UNCHANGED <<sem_mapeo, caido, disco, cerrados, abandonados, perdidas>>
    BY Zenon DEF crearPaginasmapeadas
  <2> HIDE DEF nuevas, Hay, Queda, Cual
  <2>2. UNCHANGED perdidas
    BY <2>1
  <2>3. QED
    BY <1>4, <2>1, <2>2, Zenon
<1>7. paginas_usadas + Paginas <= PaginasTotales
  <2>1. paginas_usadas + Paginas \in Int /\ PaginasTotales \in Int
    BY <1>2, Numerados DEF FormaCuentas, PaginasTotales
  <2>2. QED
    BY <1>3, <2>1 DEF NoCaben
<1>8. /\ \A i \in Numeros :
           \/ PaginaNueva(i).p = 1 /\ PaginaNueva(i).marco \in LibresMarcos
           \/ PaginaNueva(i).p = 0 /\ PaginaNueva(i).marco \in LibresSwap
      /\ \A i \in Numeros : PaginaNueva(i) \in Registro
      /\ \A i, j \in Numeros :
           PaginaNueva(i).p = PaginaNueva(j).p /\ PaginaNueva(i).marco = PaginaNueva(j).marco => i = j
  BY <1>2, <1>7, Caben, UnaPaginaNueva
<1>9. \A i \in Numeros : nuevas[i] = PaginaNueva(i)
  OBVIOUS
<1>10. nuevas \in [Numeros -> Registro] /\ DOMAIN nuevas = Numeros
  BY <1>8
<1>11. \A i \in Numeros : /\ nuevas[i] = [p |-> nuevas[i].p, marco |-> nuevas[i].marco]
                          /\ nuevas[i].p = 1 \/ nuevas[i].p = 0
  BY <1>8, <1>9, Registros
<1>12. \A e, f : \A i \in Numeros : nuevas[i] = [p |-> e, marco |-> f] <=> nuevas[i].p = e /\ nuevas[i].marco = f
  BY <1>11
<1>13. \A e, f : \A i \in Numeros : nuevas[i].p = e /\ nuevas[i].marco = f => Cual(e, f) = i
  BY <1>8, <1>9, <1>12
<1>14. /\ \A e : \A i \in Numeros : nuevas[i].p = e => nuevas[i].marco \in Hay(e)
       /\ \A e : \A b \in Hay(e) : \E i \in Numeros : nuevas[i].p = e /\ nuevas[i].marco = b
  OBVIOUS
<1>15. \A e, f : \A i \in Trae(e, f) : /\ i \in Numeros /\ nuevas[i].p = e /\ nuevas[i].marco = f
                                         /\ LeeDelArchivo(a, i) # CUALQUIERA
  BY <1>4, <1>12
<1>15a. \A i \in Numeros : LeeDelArchivo(a, i) # CUALQUIERA => i \in Trae(nuevas[i].p, nuevas[i].marco)
  BY ZenonT(40), <1>4, <1>12
<1> HIDE DEF nuevas, Trae, Hay, Cual, d
<1>16. Hay(1) \subseteq Marcos \ bitmap_marcos /\ Hay(0) \subseteq MarcosSwap \ bitmap_swap
  <2>1. ASSUME NEW b \in Hay(1) PROVE b \in LibresMarcos
    <3>1. PICK i \in Numeros : nuevas[i].p = 1 /\ nuevas[i].marco = b
      BY <1>14
    <3>2. QED
      BY <1>8, <1>9, <3>1
  <2>2. ASSUME NEW b \in Hay(0) PROVE b \in LibresSwap
    <3>1. PICK i \in Numeros : nuevas[i].p = 0 /\ nuevas[i].marco = b
      BY <1>14
    <3>2. QED
      BY <1>8, <1>9, <3>1
  <2>3. QED
    BY <2>1, <2>2 DEF LibresMarcos, LibresSwap
\* What each frame holds.
<1>17. \A e, f, x : f \notin Hay(e) => Queda(e, f, x) = x
  BY <1>14, <1>15
<1>18. \A x : \A i \in Numeros : LeeDelArchivo(a, i) # CUALQUIERA
         => Queda(nuevas[i].p, nuevas[i].marco, x) = LeeDelArchivo(a, i)
  BY <1>4, <1>13, <1>15a
<1>19. \A e, f : \A x \in Contenidos : Queda(e, f, x) \in Contenidos
  <2>1. TAKE e, f
  <2>2. TAKE x \in Contenidos
  <2>3. CASE Trae(e, f) = {}
    BY <2>3
  <2>4. CASE Trae(e, f) # {}
    <3>1. PICK i \in Numeros : /\ nuevas[i].p = e /\ nuevas[i].marco = f
                               /\ LeeDelArchivo(a, i) # CUALQUIERA
      BY <1>15, <2>4
    <3>2. Queda(e, f, x) = LeeDelArchivo(a, i)
      BY <1>18, <3>1
    <3>3. QED
      BY <1>2, <3>1, <3>2, LoLeido
  <2>5. QED
    BY <2>3, <2>4
<1> HIDE DEF Queda
\* The lists.
<1>20. /\ paginas'[l] = nuevas /\ (\A k \in Listas \ {l} : paginas'[k] = paginas[k])
       /\ paginas' \in [Listas -> ListaDePaginas]
  <2>1. paginas \in [Listas -> ListaDePaginas] /\ nuevas \in ListaDePaginas
    BY <1>1, <1>10 DEF FormaMemoria, ListaDePaginas
  <2>2. QED
    BY <1>6, <2>1
<1>21. TodasLasPaginas' = TodasLasPaginas \cup De(l, Numeros)
  <2>1. \A x \in Listas \X Numeros : x \in De(l, Numeros) <=> x[1] = l
    BY DEF De
  <2>2. \A k \in Listas : k = l \/ paginas'[k] = paginas[k]
    BY <1>20
  <2>3. \A x \in Listas \X Numeros : x[2] \in DOMAIN paginas'[x[1]] <=>
          x[2] \in DOMAIN paginas[x[1]] \/ x[1] = l
    BY <1>5, <1>10, <1>20, <2>2
  <2>4. De(l, Numeros) \subseteq Listas \X Numeros
    BY DEF De
  <2>5. QED
    BY <2>1, <2>3, <2>4 DEF TodasLasPaginas
<1>22. ASSUME NEW x \in TodasLasPaginas
       PROVE  x[1] # l /\ Marco(x)' = Marco(x)
  BY <1>5, <1>20, UnaPagina DEF Marco
<1>23. ASSUME NEW i \in Numeros
       PROVE  Marco(<<l, i>>)' = nuevas[i]
  BY <1>20 DEF Marco
<1>24. ASSUME NEW x \in TodasLasPaginas'
       PROVE  \/ x \in TodasLasPaginas /\ Marco(x)' = Marco(x)
              \/ \E i \in Numeros : x = <<l, i>> /\ Marco(x)' = nuevas[i]
  BY <1>21, <1>22, <1>23 DEF De
<1>25. FormaMemoria'
  <2>1. \A f \in Hay(1) : Cual(1, f) \in Numeros
    BY <1>13, <1>14
  <2>2. clock' \in [Marcos -> [id : Procesos \cup {Nadie, Fantasma}, pag : Numeros]]
    <3>1. \A f \in Hay(1) : [id |-> d, pag |-> Cual(1, f)] \in [id : Procesos \cup {Nadie, Fantasma}, pag : Numeros]
      BY <1>4, <2>1 DEF d
    <3>2. QED
      BY <1>1, <1>6, <3>1 DEF FormaMemoria
  <2>3. memoria' \in [Marcos -> Contenidos] /\ espacio' \in [MarcosSwap -> Contenidos]
    BY <1>1, <1>6, <1>19 DEF FormaMemoria
  <2>4. bitmap_marcos' \subseteq Marcos /\ bitmap_swap' \subseteq MarcosSwap
    BY <1>1, <1>6, <1>16 DEF FormaMemoria
  <2>5. QED
    BY <1>20, <2>2, <2>3, <2>4 DEF FormaMemoria
<1>26. Enmarcada'
  <2>1. ASSUME NEW x \in TodasLasPaginas'
        PROVE  /\ Marco(x)' \in Registro
               /\ Marco(x)'.p = 1 => Marco(x)'.marco \in bitmap_marcos'
               /\ Marco(x)'.p = 0 => Marco(x)'.marco \in bitmap_swap'
    <3>1. CASE x \in TodasLasPaginas /\ Marco(x)' = Marco(x)
      BY <1>1, <1>6, <3>1 DEF Enmarcada
    <3>2. ASSUME NEW i \in Numeros, Marco(x)' = nuevas[i]
          PROVE  /\ Marco(x)' \in Registro
                 /\ Marco(x)'.p = 1 => Marco(x)'.marco \in bitmap_marcos'
                 /\ Marco(x)'.p = 0 => Marco(x)'.marco \in bitmap_swap'
      BY <1>6, <1>10, <1>14, <3>2
    <3>3. QED
      BY <1>24, <3>1, <3>2
  <2>2. QED
    BY <2>1 DEF Enmarcada
<1>27. ASSUME NEW x \in TodasLasPaginas, NEW i \in Numeros
       PROVE  ~ (Marco(x).p = nuevas[i].p /\ Marco(x).marco = nuevas[i].marco)
  BY <1>1, <1>8, <1>9 DEF Enmarcada, LibresMarcos, LibresSwap
<1>28. MarcoDeUna'
  <2>1. ASSUME NEW x \in TodasLasPaginas', NEW y \in TodasLasPaginas',
               Marco(x)'.p = Marco(y)'.p, Marco(x)'.marco = Marco(y)'.marco
        PROVE  x = y
    <3>1. CASE x \in TodasLasPaginas /\ Marco(x)' = Marco(x)
      <4>1. y \in TodasLasPaginas /\ Marco(y)' = Marco(y)
        BY <1>24, <1>27, <2>1, <3>1
      <4>2. QED
        BY <1>1, <2>1, <3>1, <4>1 DEF MarcoDeUna
    <3>2. ASSUME NEW i \in Numeros, x = <<l, i>>, Marco(x)' = nuevas[i]
          PROVE  x = y
      <4>1. PICK j \in Numeros : y = <<l, j>> /\ Marco(y)' = nuevas[j]
        BY <1>24, <1>27, <2>1, <3>2
      <4>2. i = j
        BY <1>8, <1>9, <2>1, <3>2, <4>1
      <4>3. QED
        BY <3>2, <4>1, <4>2
    <3>3. QED
      BY <1>24, <3>1, <3>2
  <2>2. QED
    BY <2>1 DEF MarcoDeUna
<1>29. ConPagina'
  <2>1. ASSUME NEW e, NEW g, \/ \E x \in TodasLasPaginas : Marco(x).p = e /\ Marco(x).marco = g
                             \/ g \in Hay(e)
        PROVE  \E x \in TodasLasPaginas' : Marco(x)'.p = e /\ Marco(x)'.marco = g
    <3>1. CASE \E x \in TodasLasPaginas : Marco(x).p = e /\ Marco(x).marco = g
      BY <1>21, <1>22, <3>1
    <3>2. CASE g \in Hay(e)
      <4>1. PICK i \in Numeros : nuevas[i].p = e /\ nuevas[i].marco = g
        BY <1>14, <3>2
      <4>2. <<l, i>> \in TodasLasPaginas'
        BY <1>21 DEF De
      <4>3. QED
        BY <1>23, <4>1, <4>2
    <3>3. QED
      BY <2>1, <3>1, <3>2
  <2>2. ASSUME NEW g \in bitmap_marcos'
        PROVE  \E x \in TodasLasPaginas' : Marco(x)'.p = 1 /\ Marco(x)'.marco = g
    BY <1>1, <1>6, <2>1 DEF ConPagina
  <2>3. ASSUME NEW g \in bitmap_swap'
        PROVE  \E x \in TodasLasPaginas' : Marco(x)'.p = 0 /\ Marco(x)'.marco = g
    BY <1>1, <1>6, <2>1 DEF ConPagina
  <2>4. QED
    BY <2>2, <2>3 DEF ConPagina
<1>30. ClockJusto'
  <2>1. ASSUME NEW x \in TodasLasPaginas', Marco(x)'.p = 1
        PROVE  clock'[Marco(x)'.marco] = [id |-> DuenioDeLista(x[1]), pag |-> x[2]]
    <3>1. CASE x \in TodasLasPaginas /\ Marco(x)' = Marco(x)
      <4>1. Marco(x).marco \in Marcos /\ Marco(x).marco \notin Hay(1)
        BY <1>1, <1>16, <2>1, <3>1 DEF Enmarcada, FormaMemoria
      <4>2. clock'[Marco(x).marco] = clock[Marco(x).marco]
        BY <1>6, <4>1
      <4>3. QED
        BY <1>1, <2>1, <3>1, <4>2 DEF ClockJusto
    <3>2. ASSUME NEW i \in Numeros, x = <<l, i>>, Marco(x)' = nuevas[i]
          PROVE  clock'[Marco(x)'.marco] = [id |-> DuenioDeLista(x[1]), pag |-> x[2]]
      <4>1. nuevas[i].marco \in Hay(1) /\ nuevas[i].marco \in Marcos /\ Cual(1, nuevas[i].marco) = i
        BY <1>13, <1>14, <1>16, <2>1, <3>2
      <4>2. clock'[nuevas[i].marco] = [id |-> d, pag |-> i]
        BY <1>6, <4>1
      <4>3. x[1] = l /\ x[2] = i
        BY <3>2
      <4>4. QED
        BY <3>2, <4>2, <4>3 DEF d
    <3>3. QED
      BY <1>24, <3>1, <3>2
  <2>2. QED
    BY <2>1 DEF ClockJusto, DuenioDeLista
<1>31. \A x \in TodasLasPaginas : x[1] # l /\ Contenido(x)' = Contenido(x)
  <2>1. TAKE x \in TodasLasPaginas
  <2>2. /\ x[1] # l /\ Marco(x)' = Marco(x)
        /\ \/ Marco(x).p = 1 /\ Marco(x).marco \in Marcos /\ Marco(x).marco \notin Hay(1)
           \/ Marco(x).p = 0 /\ Marco(x).marco \in MarcosSwap /\ Marco(x).marco \notin Hay(0)
    BY <1>1, <1>16, <1>22, Registros DEF Enmarcada
  <2>3. /\ Marco(x).p = 1 => memoria'[Marco(x).marco] = memoria[Marco(x).marco]
        /\ Marco(x).p = 0 => espacio'[Marco(x).marco] = espacio[Marco(x).marco]
    BY <1>6, <1>17, <2>2
  <2>4. QED
    BY <2>2, <2>3 DEF Contenido
<1>32. \A i \in Numeros :
         LeeDelArchivo(a, i) # CUALQUIERA => Contenido(<<l, i>>)' = LeeDelArchivo(a, i)
  <2>1. SUFFICES ASSUME NEW i \in Numeros, LeeDelArchivo(a, i) # CUALQUIERA
                 PROVE  Contenido(<<l, i>>)' = LeeDelArchivo(a, i)
    OBVIOUS
  <2>2. \/ nuevas[i].p = 1 /\ nuevas[i].marco \in Marcos
        \/ nuevas[i].p = 0 /\ nuevas[i].marco \in MarcosSwap
    BY <1>10, Registros
  <2>3. /\ nuevas[i].p = 1 => memoria'[nuevas[i].marco] = LeeDelArchivo(a, i)
        /\ nuevas[i].p = 0 => espacio'[nuevas[i].marco] = LeeDelArchivo(a, i)
    BY SMTT(30), <1>6, <1>18, <2>1, <2>2
  <2>4. QED
    BY <1>23, <2>2, <2>3 DEF Contenido
<1>33. /\ paginas_usadas' = Cardinality(TodasLasPaginas') + perdidas
       /\ paginas_usadas' \in Nat /\ paginas_usadas' <= PaginasTotales
  <2>1. TodasLasPaginas \cap De(l, Numeros) = {}
    BY <1>22 DEF De
  <2>2. /\ IsFiniteSet(TodasLasPaginas) /\ Cardinality(TodasLasPaginas) \in Nat
        /\ IsFiniteSet(De(l, Numeros)) /\ Cardinality(De(l, Numeros)) = Paginas
    BY CuantasPaginas, TantasComoNumeros, Numerados, FS_CardinalityType
  <2>3. Cardinality(TodasLasPaginas \cup De(l, Numeros)) = Cardinality(TodasLasPaginas) + Paginas - 0
    BY <2>1, <2>2, FS_Union, FS_EmptySet
  <2>4. QED
    BY <1>2, <1>6, <1>7, <1>21, <2>2, <2>3, Numerados DEF FormaCuentas
<1>34. Creadas(l, a)
  BY <1>10, <1>20, <1>21, <1>31, <1>32, <1>33 DEF Creadas
<1>35. MemoriaInv'
  BY <1>25, <1>26, <1>28, <1>29, <1>30 DEF MemoriaInv
<1>36. QED
  BY <1>4, <1>34, <1>35

-----------------------------------------------------------------------------
(* The invariant *)

\* Every page that exists, and those that refused files have cost, is counted.
Contadas == paginas_usadas = Cardinality(TodasLasPaginas) + perdidas

MapasInv == MemoriaInv /\ TablasInv /\ Contadas /\ ContenidoIntacto /\ CaeSoloTrasCerrar

LEMMA AlPrincipio ==
  ASSUME Init
  PROVE  MapasInv
<1>1. \A l \in Listas : paginas[l] = SinLista /\ DOMAIN paginas[l] = {}
  BY DEF Init, SinLista
<1>2. TodasLasPaginas = {}
  BY <1>1 DEF TodasLasPaginas
<1>3. FormaMemoria
  <2>1. SinLista \in [{} -> Registro]
    BY DEF SinLista
  <2>2. SinLista \in ListaDePaginas
    BY <2>1 DEF ListaDePaginas
  <2>3. ClockVacio \in [id : Procesos \cup {Nadie, Fantasma}, pag : Numeros]
    BY Numerados DEF ClockVacio, Numeros
  <2>4. CERO \in Contenidos
    BY DEF Contenidos
  <2>5. QED
    BY <2>2, <2>3, <2>4 DEF Init, FormaMemoria
<1>4. MemoriaInv
  BY <1>2, <1>3 DEF Init, MemoriaInv, Enmarcada, MarcoDeUna, ConPagina, ClockJusto
<1>5. FormaTablas
  <2>1. Ninguno \in Pedido
    BY Numerados DEF Ninguno, Pedido
  <2>2. SinMapa \in Segmento
    BY DEF Segmento
  <2>3. segmento \in [Procesos -> Segmento] /\ pedido \in [Procesos -> Pedido]
    BY <2>1, <2>2 DEF Init
  <2>4. fantasma \in Seq(tabla_archivos) /\ mapeado \in [Archivos -> SUBSET Procesos]
    BY DEF Init
  <2>5. QED
    BY <2>3, <2>4 DEF Init, FormaTablas
<1>6. FormaDatos
  <2>1. ASSUME NEW a \in Archivos
        PROVE  disco[a] \in Seq(Contenidos) /\ Len(disco[a]) <= Paginas
    <3>1. LargoInicial[a] \in 0..Paginas /\ disco[a] = [i \in 1..LargoInicial[a] |-> CERO]
      BY ConstantesMapas DEF ConstantesMapas, Init
    <3>2. LargoInicial[a] \in Nat /\ LargoInicial[a] <= Paginas
      BY <3>1, Numerados
    <3>3. CERO \in Contenidos
      BY DEF Contenidos
    <3>4. QED
      BY <3>1, <3>2, <3>3
  <2>2. DOMAIN disco = Archivos /\ disco = [a \in Archivos |-> disco[a]]
    BY DEF Init
  <2>3. esperado \in [Listas -> [Numeros -> Contenidos \cup {CUALQUIERA}]]
    BY DEF Init
  <2>4. disco \in [Archivos -> Seq(Contenidos)]
    BY <2>1, <2>2, Zenon
  <2>5. QED
    BY <2>1, <2>3, <2>4 DEF FormaDatos
<1>7. FormaCuentas
  BY ConstantesMapas DEF ConstantesMapas, Init, FormaCuentas, PaginasTotales
<1>8. ListasDeProcesos /\ ListasDeArchivos /\ PedidosJustos
  <2>1. \A p \in Procesos : segmento[p].flag = "" /\ pedido[p].op = "ninguno"
    BY SinBandera DEF Init, Ninguno
  <2>2. \A p \in Procesos : sem_mapeo # p
    BY ConstantesMapas DEF ConstantesMapas, Init
  <2>3. \A p \in Procesos : PedidoJusto(p)
    BY <2>1, <2>2 DEF PedidoJusto
  <2>4. QED
    BY <1>1, <2>1, <2>3 DEF Init, ListasDeProcesos, ListasDeArchivos, PedidosJustos, Listas
<1>9. Contadas
  BY <1>2, FS_EmptySet DEF Init, Contadas
<1>10. ContenidoIntacto /\ CaeSoloTrasCerrar
  BY <1>2 DEF Init, ContenidoIntacto, CaeSoloTrasCerrar
<1>11. QED
  BY <1>4, <1>5, <1>6, <1>7, <1>8, <1>9, <1>10 DEF MapasInv, TablasInv

-----------------------------------------------------------------------------
(* What a step leaves as it was *)

\* A step that only moves pages: they have what they must.
LEMMA SigueElContenido ==
  ASSUME MapasInv, Conserva, UNCHANGED <<esperado, cerrados>>
  PROVE  ContenidoIntacto' /\ TodasLasPaginas' = TodasLasPaginas
<1>1. TodasLasPaginas' = TodasLasPaginas
  BY MismasPaginas DEF Conserva
<1>2. QED
  BY <1>1 DEF MapasInv, ContenidoIntacto, Conserva

\* ... and are in the lists of the same segments and files.
LEMMA SiguenLasListas ==
  ASSUME TablasInv, Conserva, UNCHANGED <<tabla_archivos, fantasma, segmento, cerrados>>
  PROVE  ListasDeProcesos' /\ ListasDeArchivos'
<1>1. \A l \in Listas : DOMAIN paginas'[l] = DOMAIN paginas[l]
  BY DEF Conserva
<1>2. ListasDeProcesos /\ ListasDeArchivos
  BY DEF TablasInv
<1>3. ListasDeProcesos'
  <2>1. ASSUME NEW p \in Procesos
        PROVE  DOMAIN paginas'[p] = DOMAIN paginas[p] /\ segmento'[p] = segmento[p]
    BY <1>1 DEF Listas
  <2>2. QED
    BY <1>2, <2>1 DEF ListasDeProcesos
<1>4. ListasDeArchivos'
  <2>1. \A a \in Archivos : DOMAIN paginas'[a] = DOMAIN paginas[a]
    BY <1>1 DEF Listas
  <2>2. tabla_archivos' = tabla_archivos /\ cerrados' = cerrados /\ fantasma' = fantasma
    OBVIOUS
  <2>3. tabla_archivos \subseteq Archivos
    BY DEF TablasInv, FormaTablas
  <2>4. QED
    BY <1>2, <2>1, <2>2, <2>3 DEF ListasDeArchivos
<1>5. QED
  BY <1>3, <1>4

\* A request that is set or answered.
CambiaElPedido(p, r) == pedido' = [pedido EXCEPT ![p] = r]
LEMMA UnPedido ==
  ASSUME FormaTablas, NEW p \in Procesos, NEW r \in Pedido, CambiaElPedido(p, r)
  PROVE  /\ pedido' \in [Procesos -> Pedido] /\ pedido'[p] = r
         /\ \A q \in Procesos \ {p} : pedido'[q] = pedido[q]
BY DEF CambiaElPedido, FormaTablas

LEMMA SinPedido == Ninguno \in Pedido /\ Ninguno.op = "ninguno"
BY Numerados DEF Ninguno, Pedido

\* The requests of the other processes.
LEMMA OtrosPedidos ==
  ASSUME PedidosJustos, NEW p \in Procesos,
         \A q \in Procesos \ {p} : /\ pedido'[q] = pedido[q] /\ segmento'[q] = segmento[q]
                                   /\ sem_mapeo' = q => sem_mapeo = q /\ disco' = disco,
         tabla_archivos \subseteq tabla_archivos', PedidoJusto(p)'
  PROVE  PedidosJustos'
<1>1. ASSUME NEW q \in Procesos \ {p}
      PROVE  PedidoJusto(q)'
  <2>1. PedidoJusto(q)
    BY DEF PedidosJustos
  <2>2. QED
    BY <2>1 DEF PedidoJusto
<1>2. QED
  BY <1>1 DEF PedidosJustos

\* A step after which every page has what it had, and no table has changed but
\* the requests and sem_mapeo.
LEMMA SigueTodo ==
  ASSUME MapasInv, MemoriaInv', Conserva, NEW p \in Procesos, NEW r \in Pedido,
         CambiaElPedido(p, r), PedidoJusto(p)',
         sem_mapeo' \in {sem_mapeo, Nadie},
         UNCHANGED <<paginas_usadas, tabVars, caido, segmento, disco, hisVars>>
  PROVE  MapasInv'
<1>1. TablasInv /\ Contadas /\ CaeSoloTrasCerrar /\ FormaTablas /\ FormaDatos /\ FormaCuentas /\ PedidosJustos
  BY DEF MapasInv, TablasInv
<1>2. UNCHANGED <<paginas_usadas, tabla_archivos, mapeado, fantasma, caido, segmento, disco,
                  esperado, cerrados, abandonados, perdidas>>
  BY DEF tabVars, hisVars
<1>3. ContenidoIntacto' /\ TodasLasPaginas' = TodasLasPaginas
  BY <1>2, SigueElContenido
<1>4. ListasDeProcesos' /\ ListasDeArchivos'
  BY <1>1, <1>2, SiguenLasListas
<1>5. /\ pedido' \in [Procesos -> Pedido]
      /\ \A q \in Procesos \ {p} : pedido'[q] = pedido[q]
  BY <1>1, UnPedido
<1>6. Nadie \notin Procesos
  BY ConstantesMapas DEF ConstantesMapas
<1>7. FormaTablas'
  BY <1>1, <1>2, <1>5 DEF FormaTablas
<1>8. PedidosJustos'
  BY <1>1, <1>2, <1>5, <1>6, OtrosPedidos
<1>9. FormaDatos' /\ FormaCuentas'
  BY <1>1, <1>2 DEF FormaDatos, FormaCuentas
<1>10. Contadas' /\ CaeSoloTrasCerrar'
  BY <1>1, <1>2, <1>3 DEF Contadas, CaeSoloTrasCerrar
<1>11. QED
  BY <1>3, <1>4, <1>7, <1>8, <1>9, <1>10 DEF MapasInv, TablasInv

-----------------------------------------------------------------------------
(* Requests *)

\* A process that has no request does not have sem_mapeo.
LEMMA SinPedidoNoLoTiene ==
  ASSUME MapasInv, NEW p \in Procesos, pedido[p].op \notin {"SINCRO", "REVISAR", "ELIMINAR"}
  PROVE  sem_mapeo # p
BY DEF MapasInv, TablasInv, PedidosJustos, PedidoJusto

\* libMuse sends a request that it has checked.
LEMMA PideP ==
  ASSUME MapasInv, NEW p \in Procesos, NEW r \in Pedido, Pedir(p, r),
         r.op = "MAPEAR" => /\ segmento[p] = SinMapa /\ r.archivo \in Archivos
                            /\ r.flag \in {"PRIVATE", "SHARED"},
         r.op \in {"SINCRO", "DESMAP", "CERRAR"} => segmento[p] # SinMapa,
         r.op = "SINCRO" => r.i \in 1..Paginas,
         r.op \notin {"REVISAR", "ELIMINAR"}
  PROVE  MapasInv'
<1>1. CambiaElPedido(p, r) /\ UNCHANGED <<marVars, paginas_usadas, paginas, tabVars, sem_mapeo, caido,
                                          segmento, disco, hisVars>>
  BY DEF Pedir, CambiaElPedido
<1>2. MemoriaInv' /\ Conserva
  BY <1>1, MemoriaQuieta DEF MapasInv
<1>3. pedido'[p] = r
  BY <1>1, UnPedido DEF MapasInv, TablasInv
<1>4. PedidoJusto(p)'
  <2>1. sem_mapeo' # p /\ segmento' = segmento
    BY <1>1, SinPedido, SinPedidoNoLoTiene DEF Pedir
  <2>2. QED
    BY <1>3, <2>1 DEF PedidoJusto
<1>5. QED
  BY <1>1, <1>2, <1>4, SigueTodo

LEMMA muse_mapP ==
  ASSUME MapasInv, NEW p \in Procesos, NEW a \in Archivos, NEW flag \in {"PRIVATE", "SHARED"},
         muse_map(p, a, flag)
  PROVE  MapasInv'
<1> DEFINE r == [Ninguno EXCEPT !.op = "MAPEAR", !.archivo = a, !.flag = flag]
<1>1. r \in Pedido
  BY SinPedido DEF Ninguno, Pedido
<1>2. r.op = "MAPEAR" /\ r.archivo = a /\ r.flag = flag
  BY DEF Ninguno
<1>3. segmento[p] = SinMapa /\ Pedir(p, r)
  BY DEF muse_map
<1> HIDE DEF r
<1>4. QED
  BY <1>1, <1>2, <1>3, PideP

LEMMA muse_syncP ==
  ASSUME MapasInv, NEW p \in Procesos, NEW n \in 1..Paginas, muse_sync(p, n)
  PROVE  MapasInv'
<1> DEFINE r == [Ninguno EXCEPT !.op = "SINCRO", !.i = n]
<1>1. r \in Pedido
  <2>1. n \in 0..Paginas
    BY Numerados
  <2>2. QED
    BY <2>1, SinPedido DEF Ninguno, Pedido
<1>2. r.op = "SINCRO" /\ r.i = n
  BY DEF Ninguno
<1>3. segmento[p] # SinMapa /\ Pedir(p, r)
  BY DEF muse_sync
<1> HIDE DEF r
<1>4. QED
  BY <1>1, <1>2, <1>3, PideP

LEMMA muse_unmapP ==
  ASSUME MapasInv, NEW p \in Procesos, muse_unmap(p)
  PROVE  MapasInv'
<1> DEFINE r == [Ninguno EXCEPT !.op = "DESMAP"]
<1>1. r \in Pedido
  BY SinPedido DEF Ninguno, Pedido
<1>2. r.op = "DESMAP"
  BY DEF Ninguno
<1>3. segmento[p] # SinMapa /\ Pedir(p, r)
  BY DEF muse_unmap
<1> HIDE DEF r
<1>4. QED
  BY <1>1, <1>2, <1>3, PideP

LEMMA muse_closeP ==
  ASSUME MapasInv, NEW p \in Procesos, muse_close(p)
  PROVE  MapasInv'
<1> DEFINE r == [Ninguno EXCEPT !.op = "CERRAR"]
<1>1. r \in Pedido
  BY SinPedido DEF Ninguno, Pedido
<1>2. r.op = "CERRAR"
  BY DEF Ninguno
<1>3. segmento[p] # SinMapa /\ Pedir(p, r)
  BY DEF muse_close
<1> HIDE DEF r
<1>4. QED
  BY <1>1, <1>2, <1>3, PideP

\* mappearMuse has no room.
LEMMA RechazarP ==
  ASSUME MapasInv, NEW p \in Procesos, Rechazar(p)
  PROVE  MapasInv'
<1>1. /\ CambiaElPedido(p, Ninguno) /\ sem_mapeo = Nadie
      /\ UNCHANGED <<marVars, paginas_usadas, paginas, tabVars, sem_mapeo, caido, segmento, disco, hisVars>>
  BY DEF Rechazar, Contestar, CambiaElPedido, TieneElSem
<1>2. MemoriaInv' /\ Conserva
  BY <1>1, MemoriaQuieta DEF MapasInv
<1>3. pedido'[p] = Ninguno /\ sem_mapeo' # p
  BY <1>1, SinPedido, UnPedido, ConstantesMapas DEF MapasInv, TablasInv, ConstantesMapas
<1>4. PedidoJusto(p)'
  BY <1>3, SinPedido DEF PedidoJusto
<1>5. QED
  BY <1>1, <1>2, <1>4, SinPedido, SigueTodo

\* open() fails: the pages stay counted.
LEMMA NoAbreP ==
  ASSUME MapasInv, NEW p \in Procesos, NoAbre(p)
  PROVE  MapasInv'
<1>1. /\ CambiaElPedido(p, Ninguno) /\ sem_mapeo = Nadie
      /\ ~ NoCaben(pedido[p]) /\ Nuevas(pedido[p])
      /\ perdidas + Paginas <= MaxPerdidas
      /\ paginas_usadas' = paginas_usadas + Paginas /\ perdidas' = perdidas + Paginas
      /\ caido' \in BOOLEAN
      /\ UNCHANGED <<marVars, paginas, tabVars, sem_mapeo, segmento, disco, esperado, cerrados, abandonados>>
  BY DEF NoAbre, Contestar, CambiaElPedido, TieneElSem
<1>2. TablasInv /\ FormaTablas /\ FormaDatos /\ FormaCuentas /\ PedidosJustos /\ Contadas
  BY DEF MapasInv, TablasInv
<1>3. UNCHANGED <<tabla_archivos, mapeado, fantasma, sem_mapeo, segmento, disco, esperado, cerrados, abandonados>>
  BY <1>1 DEF tabVars
<1>4. MemoriaInv' /\ Conserva
  BY <1>1, MemoriaQuieta DEF MapasInv
<1>5. ContenidoIntacto' /\ TodasLasPaginas' = TodasLasPaginas
  BY <1>3, <1>4, SigueElContenido
<1>6. ListasDeProcesos' /\ ListasDeArchivos'
  BY <1>2, <1>3, <1>4, SiguenLasListas
<1>7. /\ pedido' \in [Procesos -> Pedido] /\ pedido'[p] = Ninguno
      /\ \A q \in Procesos \ {p} : pedido'[q] = pedido[q]
  BY <1>1, <1>2, SinPedido, UnPedido
<1>8. Nadie \notin Procesos /\ MaxPerdidas \in Nat
  BY ConstantesMapas DEF ConstantesMapas
<1>9. FormaTablas' /\ FormaDatos'
  BY <1>1, <1>2, <1>3, <1>7 DEF FormaTablas, FormaDatos
<1>10. PedidoJusto(p)'
  BY <1>1, <1>3, <1>7, <1>8, SinPedido DEF PedidoJusto
<1>11. PedidosJustos'
  BY <1>2, <1>3, <1>7, <1>8, <1>10, OtrosPedidos
<1>12. paginas_usadas + Paginas <= PaginasTotales
  <2>1. paginas_usadas + Paginas \in Int /\ PaginasTotales \in Int
    BY <1>2, Numerados DEF FormaCuentas, PaginasTotales
  <2>2. QED
    BY <1>1, <2>1 DEF NoCaben
<1>13. FormaCuentas' /\ perdidas' > 0
  BY <1>1, <1>2, <1>8, <1>12, Numerados DEF FormaCuentas
<1>14. Contadas' /\ CaeSoloTrasCerrar'
  <2>1. Cardinality(TodasLasPaginas) \in Nat
    BY CuantasPaginas, FS_CardinalityType DEF MapasInv
  <2>2. QED
    BY <1>1, <1>2, <1>5, <1>13, <2>1, Numerados DEF Contadas, CaeSoloTrasCerrar, FormaCuentas
<1>15. QED
  BY <1>4, <1>5, <1>6, <1>9, <1>11, <1>13, <1>14 DEF MapasInv, TablasInv

-----------------------------------------------------------------------------
(* Accesses *)

\* The server falls.
LEMMA CaeP ==
  ASSUME MapasInv, Caer, cerrados # {} \/ perdidas > 0
  PROVE  MapasInv'
<1>1. /\ caido' = TRUE
      /\ UNCHANGED <<bitmap_marcos, bitmap_swap, clock, memoria, espacio, paginas_usadas, paginas,
                     tabla_archivos, mapeado, fantasma, sem_mapeo, segmento, pedido, disco,
                     esperado, cerrados, abandonados, perdidas>>
  BY DEF Caer, marVars, tabVars, hisVars
<1>2. MemoriaInv' /\ Conserva
  <2>1. UNCHANGED <<marVars, paginas>>
    BY <1>1 DEF marVars
  <2>2. QED
    BY <2>1, MemoriaQuieta DEF MapasInv
<1>3. ContenidoIntacto' /\ TodasLasPaginas' = TodasLasPaginas
  BY <1>1, <1>2, SigueElContenido
<1>4. TablasInv
  BY DEF MapasInv
<1>5. ListasDeProcesos' /\ ListasDeArchivos'
  BY <1>1, <1>2, <1>4, SiguenLasListas
<1>6. FormaTablas'
  BY <1>1, <1>4 DEF TablasInv, FormaTablas
<1>7. FormaDatos' /\ FormaCuentas'
  BY <1>1, <1>4 DEF TablasInv, FormaDatos, FormaCuentas
<1>8. PedidosJustos'
  BY <1>1, <1>4 DEF TablasInv, PedidosJustos, PedidoJusto
<1>9. Contadas'
  BY <1>1, <1>3 DEF MapasInv, Contadas
<1>10. CaeSoloTrasCerrar'
  BY <1>1 DEF CaeSoloTrasCerrar
<1>11. QED
  BY <1>2, <1>3, <1>5, <1>6, <1>7, <1>8, <1>9, <1>10 DEF MapasInv, TablasInv

\* A page of a segment is found, unless pages have been given back.
LEMMA FallaTrasCerrar ==
  ASSUME MapasInv, UnSoloCompartido, NEW p \in Procesos, segmento[p] # SinMapa,
         NEW n \in Numeros, FallaPagina(p, n)
  PROVE  cerrados # {}
<1> DEFINE l == ListaDe(segmento[p], p)
<1>1. SUFFICES ASSUME cerrados = {}
               PROVE  FALSE
  OBVIOUS
<1>2. MemoriaInv /\ TablasInv /\ FormaTablas /\ ListasDeProcesos /\ ListasDeArchivos
  BY DEF MapasInv, TablasInv
<1>3. segmento[p].flag \in {"PRIVATE", "SHARED"}
  BY <1>2, UnSegmento
<1>4. DOMAIN paginas[l] = Numeros /\ EnElFantasma(segmento[p])
  <2>1. CASE segmento[p].flag = "PRIVATE"
    BY <1>2, <2>1 DEF ListasDeProcesos, ListaDe, EnElFantasma
  <2>2. CASE segmento[p].flag = "SHARED"
    <3>1. /\ l = segmento[p].archivo /\ l \in tabla_archivos
          /\ DOMAIN paginas[l] = Numeros /\ fantasma # <<>>
      BY <1>1, <1>2, <2>2 DEF ListasDeProcesos, ListasDeArchivos, ListaDe
    <3>2. 1 \in DOMAIN fantasma /\ fantasma[1] \in tabla_archivos
      BY <1>2, <3>1 DEF FormaTablas
    <3>3. fantasma[1] = segmento[p].archivo
      BY <3>1, <3>2 DEF UnSoloCompartido
    <3>4. QED
      BY <3>1, <3>2, <3>3 DEF EnElFantasma
  <2>3. QED
    BY <1>3, <2>1, <2>2
<1>5. LibresMarcos = {} /\ \E f \in Marcos : Victimas(f) = {}
  BY <1>4 DEF FallaPagina
<1>6. PICK f \in Marcos : Victimas(f) = {}
  BY <1>5
<1>7. f \in bitmap_marcos
  BY <1>5, <1>6 DEF LibresMarcos
<1>8. Victimas(f) # {}
  BY <1>1, <1>2, <1>7, UnaVictima
<1>9. QED
  BY <1>6, <1>8

LEMMA getMuseP ==
  ASSUME MapasInv, UnSoloCompartido, NEW p \in Procesos, NEW n \in Numeros, getMuse(p, n)
  PROVE  MapasInv'
<1>1. pedido[p] = Ninguno /\ segmento[p] # SinMapa
  BY DEF getMuse
<1>2. CASE BuscarPagina(p, n) /\ UNCHANGED <<paginas_usadas, tabVars, sem_mapeo, caido, segmento,
                                             pedido, disco, hisVars>>
  <2>1. MemoriaInv' /\ Conserva
    BY <1>1, <1>2, BuscaYConserva DEF MapasInv
  <2>2. CambiaElPedido(p, pedido[p]) /\ pedido[p] \in Pedido
    BY <1>1, <1>2, SinPedido DEF CambiaElPedido, MapasInv, TablasInv, FormaTablas
  <2>3. PedidoJusto(p)'
    <3>1. sem_mapeo # p
      BY <1>1, SinPedido, SinPedidoNoLoTiene
    <3>2. QED
      BY <1>1, <1>2, <3>1, SinPedido DEF PedidoJusto
  <2>4. QED
    BY <1>2, <2>1, <2>2, <2>3, SigueTodo
<1>3. CASE FallaPagina(p, n) /\ Caer
  BY <1>1, <1>3, FallaTrasCerrar, CaeP
<1>4. QED
  BY <1>2, <1>3 DEF getMuse

LEMMA copiarMuseP ==
  ASSUME MapasInv, UnSoloCompartido, NEW p \in Procesos, NEW n \in Numeros, NEW v \in Valores,
         copiarMuse(p, n, v)
  PROVE  MapasInv'
<1>1. segmento[p] # SinMapa
  BY DEF copiarMuse
<1>2. /\ MemoriaInv /\ FormaMemoria /\ Enmarcada /\ MarcoDeUna /\ ConPagina /\ ClockJusto
      /\ TablasInv /\ FormaTablas /\ FormaDatos
  BY DEF MapasInv, MemoriaInv, TablasInv
<1>3. PICK l \in Listas : l = ListaDe(segmento[p], p)
  BY <1>1, <1>2, ListaDeSegmento
<1>4. CASE /\ n \in DOMAIN paginas[l] /\ paginas[l][n].p = 1
           /\ memoria' = [memoria EXCEPT ![paginas[l][n].marco] = v]
           /\ esperado' = [esperado EXCEPT ![l][n] = v]
           /\ UNCHANGED <<bitmap_marcos, bitmap_swap, clock, espacio, paginas, paginas_usadas,
                          tabVars, sem_mapeo, caido, segmento, pedido, disco, cerrados, abandonados, perdidas>>
  <2> DEFINE y == <<l, n>>
             f == paginas[l][n].marco
  <2>1. /\ UNCHANGED <<bitmap_marcos, bitmap_swap, clock, espacio, paginas, paginas_usadas,
                       tabla_archivos, mapeado, fantasma, sem_mapeo, caido, segmento, pedido, disco,
                       cerrados, abandonados, perdidas>>
        /\ memoria' = [memoria EXCEPT ![f] = v] /\ esperado' = [esperado EXCEPT ![l][n] = v]
    BY <1>4 DEF tabVars
  <2>2. y \in TodasLasPaginas /\ Marco(y).p = 1 /\ Marco(y).marco = f /\ f \in Marcos
    BY <1>2, <1>4, UnaPagina, UnaLista, Registros DEF Marco
  <2>3. TodasLasPaginas' = TodasLasPaginas /\ \A x : Marco(x)' = Marco(x)
    BY <2>1 DEF TodasLasPaginas, Marco
  <2> HIDE DEF f
  <2>4. memoria'[f] = v /\ (\A g \in Marcos : g # f => memoria'[g] = memoria[g])
        /\ memoria' \in [Marcos -> Contenidos]
    BY <1>2, <2>1, <2>2 DEF FormaMemoria, Contenidos
  <2>5. /\ esperado'[l][n] = v
        /\ \A k \in Listas, m \in Numeros : ~ (k = l /\ m = n) => esperado'[k][m] = esperado[k][m]
        /\ esperado' \in [Listas -> [Numeros -> Contenidos \cup {CUALQUIERA}]]
    <3>1. v \in Contenidos \cup {CUALQUIERA}
      BY DEF Contenidos
    <3>2. esperado \in [Listas -> [Numeros -> Contenidos \cup {CUALQUIERA}]]
      BY <1>2 DEF FormaDatos
    <3>3. QED
      BY <2>1, <3>1, <3>2
  <2>6. MemoriaInv'
    <3>1. FormaMemoria'
      BY <1>2, <2>1, <2>4 DEF FormaMemoria
    <3>2. Enmarcada' /\ MarcoDeUna' /\ ConPagina' /\ ClockJusto'
      BY <1>2, <2>1, <2>3 DEF Enmarcada, MarcoDeUna, ConPagina, ClockJusto
    <3>3. QED
      BY <3>1, <3>2 DEF MemoriaInv
  <2>7. TablasInv'
    <3>1. FormaTablas' /\ FormaDatos' /\ FormaCuentas'
      BY <1>2, <2>1, <2>5 DEF TablasInv, FormaTablas, FormaDatos, FormaCuentas
    <3>2. ListasDeProcesos' /\ ListasDeArchivos' /\ PedidosJustos'
      BY <1>2, <2>1 DEF TablasInv, ListasDeProcesos, ListasDeArchivos, PedidosJustos, PedidoJusto
    <3>3. QED
      BY <3>1, <3>2 DEF TablasInv
  <2>8. ASSUME NEW x \in TodasLasPaginas, x[1] \notin cerrados, esperado'[x[1]][x[2]] # CUALQUIERA
        PROVE  Contenido(x)' = esperado'[x[1]][x[2]]
    <3>1. x[1] \in Listas /\ x[2] \in Numeros /\ x = <<x[1], x[2]>>
      BY UnaPagina
    <3>2. CASE x = y
      BY <2>2, <2>3, <2>4, <2>5, <3>2 DEF Contenido
    <3>3. CASE x # y
      <4>1. esperado'[x[1]][x[2]] = esperado[x[1]][x[2]]
        BY <2>5, <3>1, <3>3
      <4>2. Marco(x).p = 1 => Marco(x).marco \in Marcos /\ Marco(x).marco # f
        BY <1>2, <2>2, <3>3, Registros DEF MarcoDeUna, Enmarcada
      <4>3. Contenido(x)' = Contenido(x)
        BY <2>1, <2>3, <2>4, <4>2 DEF Contenido
      <4>4. QED
        BY <2>8, <4>1, <4>3 DEF MapasInv, ContenidoIntacto
    <3>4. QED
      BY <3>2, <3>3
  <2>9. ContenidoIntacto'
    BY <2>1, <2>3, <2>8 DEF ContenidoIntacto
  <2>10. Contadas' /\ CaeSoloTrasCerrar'
    BY <2>1, <2>3 DEF MapasInv, Contadas, CaeSoloTrasCerrar
  <2>11. QED
    BY <2>6, <2>7, <2>9, <2>10 DEF MapasInv
<1>5. CASE FallaPagina(p, n) /\ Caer
  BY <1>1, <1>5, FallaTrasCerrar, CaeP
<1>6. QED
  BY <1>3, <1>4, <1>5 DEF copiarMuse

\* SINCRO empties the file.
LEMMA fopenSyncP ==
  ASSUME MapasInv, NEW p \in Procesos, fopenSync(p)
  PROVE  MapasInv'
<1>1. TablasInv /\ FormaTablas /\ FormaDatos /\ PedidosJustos /\ PedidoJusto(p)
  BY DEF MapasInv, TablasInv, PedidosJustos
<1>2. /\ pedido[p].op = "SINCRO" /\ sem_mapeo = Nadie /\ sem_mapeo' = p
      /\ disco' = [disco EXCEPT ![segmento[p].archivo] = <<>>]
      /\ UNCHANGED <<bitmap_marcos, bitmap_swap, clock, memoria, espacio, paginas_usadas, paginas,
                     tabla_archivos, mapeado, fantasma, caido, segmento, pedido,
                     esperado, cerrados, abandonados, perdidas>>
  BY DEF fopenSync, TieneElSem, marVars, tabVars, hisVars
<1>3. PICK a \in Archivos : a = segmento[p].archivo
  BY <1>1, <1>2, UnSegmento DEF PedidoJusto
<1>4. /\ disco'[a] = <<>> /\ disco' \in [Archivos -> Seq(Contenidos)]
      /\ \A b \in Archivos : Len(disco'[b]) <= Paginas
  <2>1. disco' = [disco EXCEPT ![a] = <<>>] /\ <<>> \in Seq(Contenidos) /\ Len(<<>>) = 0
    BY <1>2, <1>3
  <2>2. disco \in [Archivos -> Seq(Contenidos)] /\ \A b \in Archivos : Len(disco[b]) <= Paginas
    BY <1>1 DEF FormaDatos
  <2>3. QED
    BY <2>1, <2>2, Numerados
<1>5. MemoriaInv' /\ Conserva
  <2>1. UNCHANGED <<marVars, paginas>>
    BY <1>2 DEF marVars
  <2>2. QED
    BY <2>1, MemoriaQuieta DEF MapasInv
<1>6. ContenidoIntacto' /\ TodasLasPaginas' = TodasLasPaginas
  BY <1>2, <1>5, SigueElContenido
<1>7. ListasDeProcesos' /\ ListasDeArchivos'
  BY <1>1, <1>2, <1>5, SiguenLasListas
<1>8. FormaTablas'
  BY <1>1, <1>2 DEF FormaTablas
<1>9. FormaDatos' /\ FormaCuentas'
  BY <1>1, <1>2, <1>4 DEF TablasInv, FormaDatos, FormaCuentas
<1>10. PedidoJusto(p)'
  <2>1. pedido[p].i \in 1..Paginas
    BY <1>1, <1>2 DEF PedidoJusto
  <2>2. Len(disco'[segmento[p].archivo]) < pedido[p].i
    BY <1>3, <1>4, <2>1, Numerados
  <2>3. QED
    BY <1>1, <1>2, <2>2 DEF PedidoJusto
<1>11. PedidosJustos'
  BY <1>1, <1>2, <1>10, OtrosPedidos
<1>12. Contadas' /\ CaeSoloTrasCerrar'
  BY <1>2, <1>6 DEF MapasInv, Contadas, CaeSoloTrasCerrar
<1>13. QED
  BY <1>5, <1>6, <1>7, <1>8, <1>9, <1>11, <1>12 DEF MapasInv, TablasInv

\* ... and writes the pages to it, one by one.
LEMMA syncMuseP ==
  ASSUME MapasInv, UnSoloCompartido, NEW p \in Procesos, syncMuse(p)
  PROVE  MapasInv'
<1>1. TablasInv /\ FormaTablas /\ FormaDatos /\ PedidosJustos /\ PedidoJusto(p)
  BY DEF MapasInv, TablasInv, PedidosJustos
<1>2. sem_mapeo = p /\ pedido[p].op = "SINCRO"
  BY DEF syncMuse
<1>3. segmento[p] # SinMapa /\ Len(disco[segmento[p].archivo]) < pedido[p].i /\ pedido[p].i \in 1..Paginas
  BY <1>1, <1>2 DEF PedidoJusto
<1>4. PICK a \in Archivos, n \in Nat :
        a = segmento[p].archivo /\ n = Len(disco[a]) /\ disco[a] \in Seq(Contenidos)
  <2>1. segmento[p].archivo \in Archivos
    BY <1>1, <1>3, UnSegmento
  <2>2. disco[segmento[p].archivo] \in Seq(Contenidos)
    BY <1>1, <2>1 DEF FormaDatos
  <2>3. Len(disco[segmento[p].archivo]) \in Nat
    BY <2>2
  <2>4. QED
    BY <2>1, <2>2, <2>3
<1>5. n < pedido[p].i /\ n \in Numeros
  BY <1>3, <1>4, Numerados DEF Numeros
<1>6. PICK l \in Listas : l = ListaDe(segmento[p], p)
  BY <1>1, <1>3, ListaDeSegmento
<1>7. CASE /\ BuscarPagina(p, n)
           /\ disco' = [disco EXCEPT ![a] = Append(@, memoria'[paginas'[l][n].marco])]
           /\ IF n + 1 = pedido[p].i
              THEN Contestar(p) /\ sem_mapeo' = Nadie
              ELSE UNCHANGED <<pedido, sem_mapeo>>
           /\ UNCHANGED <<paginas_usadas, tabVars, caido, segmento, hisVars>>
  <2>1. UNCHANGED <<paginas_usadas, tabla_archivos, mapeado, fantasma, caido, segmento, esperado,
                    cerrados, abandonados, perdidas>>
    BY <1>7 DEF tabVars, hisVars
  <2>2. MemoriaInv' /\ Conserva /\ n \in DOMAIN paginas[l] /\ paginas'[l][n].p = 1
    BY <1>3, <1>6, <1>7, BuscaYConserva DEF MapasInv
  <2>3. PICK c \in Contenidos : c = memoria'[paginas'[l][n].marco]
    <3>1. n \in DOMAIN paginas'[l] /\ FormaMemoria'
      BY <2>2 DEF Conserva, MemoriaInv
    <3>2. paginas'[l] \in ListaDePaginas /\ memoria' \in [Marcos -> Contenidos]
      BY <3>1 DEF FormaMemoria
    <3>3. paginas'[l][n] \in Registro
      BY <3>1, <3>2 DEF ListaDePaginas
    <3>4. paginas'[l][n].marco \in Marcos
      BY <2>2, <3>3, Registros
    <3>5. QED
      BY <3>2, <3>4
  <2>4. disco' = [disco EXCEPT ![a] = Append(disco[a], c)]
    BY <1>7, <2>3
  <2>5. /\ disco' \in [Archivos -> Seq(Contenidos)] /\ Len(disco'[a]) = n + 1
        /\ \A b \in Archivos : Len(disco'[b]) <= Paginas
    <3>1. Append(disco[a], c) \in Seq(Contenidos) /\ Len(Append(disco[a], c)) = n + 1
      BY <1>4
    <3>2. disco \in [Archivos -> Seq(Contenidos)] /\ \A b \in Archivos : Len(disco[b]) <= Paginas
      BY <1>1 DEF FormaDatos
    <3>3. n + 1 <= Paginas
      BY <1>3, <1>5, Numerados
    <3>4. DOMAIN disco' = Archivos /\ \A b \in Archivos : disco'[b] = IF b = a THEN Append(disco[a], c) ELSE disco[b]
      BY <2>4, <3>2
    <3>5. disco' \in [Archivos -> Seq(Contenidos)]
      BY <2>4, <3>1, <3>2
    <3>6. QED
      BY <3>1, <3>2, <3>3, <3>4, <3>5
  <2>6. ContenidoIntacto' /\ TodasLasPaginas' = TodasLasPaginas
    BY <2>1, <2>2, SigueElContenido
  <2>7. ListasDeProcesos' /\ ListasDeArchivos'
    BY <1>1, <2>1, <2>2, SiguenLasListas
  <2>8. \/ pedido' = [pedido EXCEPT ![p] = Ninguno] /\ sem_mapeo' = Nadie
        \/ n + 1 # pedido[p].i /\ UNCHANGED <<pedido, sem_mapeo>>
    BY <1>7 DEF Contestar
  <2>9. /\ pedido' \in [Procesos -> Pedido] /\ sem_mapeo' \in {p, Nadie}
        /\ \A q \in Procesos \ {p} : pedido'[q] = pedido[q]
    BY <1>1, <1>2, <2>8, SinPedido DEF FormaTablas
  <2>10. Nadie \notin Procesos
    BY ConstantesMapas DEF ConstantesMapas
  <2>11. PedidoJusto(p)'
    <3>1. CASE pedido' = [pedido EXCEPT ![p] = Ninguno] /\ sem_mapeo' = Nadie
      <4>1. pedido'[p] = Ninguno
        BY <1>1, <3>1 DEF FormaTablas
      <4>2. QED
        BY <2>10, <3>1, <4>1, SinPedido DEF PedidoJusto
    <3>2. CASE n + 1 # pedido[p].i /\ UNCHANGED <<pedido, sem_mapeo>>
      <4>1. n + 1 < pedido[p].i
        BY <1>3, <1>5, <3>2, Numerados
      <4>2. Len(disco'[segmento[p].archivo]) < pedido[p].i
        BY <1>4, <2>5, <4>1
      <4>3. QED
        BY <1>1, <1>2, <2>1, <3>2, <4>2 DEF PedidoJusto
    <3>3. QED
      BY <2>8, <3>1, <3>2
  <2>12. PedidosJustos'
    BY <1>1, <2>1, <2>9, <2>10, <2>11, OtrosPedidos
  <2>13. FormaTablas'
    BY <1>1, <2>1, <2>9 DEF FormaTablas
  <2>14. FormaDatos' /\ FormaCuentas'
    BY <1>1, <2>1, <2>5 DEF TablasInv, FormaDatos, FormaCuentas
  <2>15. Contadas' /\ CaeSoloTrasCerrar'
    BY <2>1, <2>6 DEF MapasInv, Contadas, CaeSoloTrasCerrar
  <2>16. QED
    BY <2>2, <2>6, <2>7, <2>12, <2>13, <2>14, <2>15 DEF MapasInv, TablasInv
<1>8. CASE FallaPagina(p, n) /\ Caer
  BY <1>3, <1>5, <1>8, FallaTrasCerrar, CaeP
<1>9. QED
  BY <1>4, <1>6, <1>7, <1>8 DEF syncMuse

-----------------------------------------------------------------------------
(* Mapping *)

\* A file that is in the table is mapped by one more process.
LEMMA CompartirP ==
  ASSUME MapasInv, NEW p \in Procesos, Compartir(p)
  PROVE  MapasInv'
<1>1. TablasInv /\ FormaTablas /\ PedidosJustos /\ PedidoJusto(p) /\ ListasDeProcesos /\ ListasDeArchivos
  BY DEF MapasInv, TablasInv, PedidosJustos
<1>2. PICK a \in Archivos : a = pedido[p].archivo
  BY <1>1 DEF Compartir, TieneElSem, PedidoJusto
<1>3. /\ pedido[p].op = "MAPEAR" /\ sem_mapeo = Nadie /\ ~ Nuevas(pedido[p])
      /\ segmento' = [segmento EXCEPT ![p] = [archivo |-> a, flag |-> "SHARED"]]
      /\ mapeado' = [mapeado EXCEPT ![a] = @ \cup {p}]
      /\ CambiaElPedido(p, Ninguno)
      /\ UNCHANGED <<bitmap_marcos, bitmap_swap, clock, memoria, espacio, paginas_usadas, paginas,
                     tabla_archivos, fantasma, sem_mapeo, caido, disco, esperado, cerrados, abandonados, perdidas>>
  BY <1>2 DEF Compartir, TieneElSem, Contestar, CambiaElPedido, marVars, hisVars
<1>4. a \in tabla_archivos /\ segmento[p] = SinMapa
  BY <1>1, <1>2, <1>3 DEF Nuevas, PedidoJusto
<1>5. /\ segmento'[p].archivo = a /\ segmento'[p].flag = "SHARED"
      /\ \A q \in Procesos \ {p} : segmento'[q] = segmento[q]
      /\ segmento' \in [Procesos -> Segmento]
  <2>1. PICK s : s = [archivo |-> a, flag |-> "SHARED"]
    OBVIOUS
  <2>2. s \in Segmento /\ s.archivo = a /\ s.flag = "SHARED"
    BY <2>1 DEF Segmento
  <2>3. segmento' = [segmento EXCEPT ![p] = s]
    BY <1>3, <2>1
  <2>4. QED
    BY <1>1, <2>2, <2>3 DEF FormaTablas
<1>6. /\ pedido' \in [Procesos -> Pedido] /\ pedido'[p] = Ninguno
      /\ \A q \in Procesos \ {p} : pedido'[q] = pedido[q]
  BY <1>1, <1>3, SinPedido, UnPedido
<1>7. MemoriaInv' /\ Conserva
  <2>1. UNCHANGED <<marVars, paginas>>
    BY <1>3 DEF marVars
  <2>2. QED
    BY <2>1, MemoriaQuieta DEF MapasInv
<1>8. ContenidoIntacto' /\ TodasLasPaginas' = TodasLasPaginas
  BY <1>3, <1>7, SigueElContenido
<1>9. FormaTablas'
  BY <1>1, <1>3, <1>5, <1>6 DEF FormaTablas
<1>10. FormaDatos' /\ FormaCuentas'
  BY <1>1, <1>3 DEF TablasInv, FormaDatos, FormaCuentas
<1>11. ListasDeProcesos'
  <2>1. DOMAIN paginas[p] = {}
    BY <1>1, <1>4, SinBandera DEF ListasDeProcesos
  <2>2. QED
    BY <1>1, <1>3, <1>4, <1>5, <2>1 DEF ListasDeProcesos
<1>12. ListasDeArchivos'
  BY <1>1, <1>3 DEF ListasDeArchivos
<1>13. Nadie \notin Procesos
  BY ConstantesMapas DEF ConstantesMapas
<1>14. PedidoJusto(p)'
  BY <1>3, <1>6, <1>13, SinPedido DEF PedidoJusto
<1>15. PedidosJustos'
  BY <1>1, <1>3, <1>5, <1>6, <1>14, OtrosPedidos
<1>16. Contadas' /\ CaeSoloTrasCerrar'
  BY <1>3, <1>8 DEF MapasInv, Contadas, CaeSoloTrasCerrar
<1>17. QED
  BY <1>7, <1>8, <1>9, <1>10, <1>11, <1>12, <1>15, <1>16 DEF MapasInv, TablasInv

\* crearPaginasmapeadas: what it does to the tables.
LEMMA TablasAlCrear ==
  ASSUME MapasInv, NEW p \in Procesos, crearPaginasmapeadas(p)
  PROVE  /\ pedido[p].op = "MAPEAR" /\ sem_mapeo = Nadie /\ Nuevas(pedido[p])
         /\ pedido[p].archivo \notin NoAbren
         /\ segmento' = [segmento EXCEPT ![p] = [archivo |-> pedido[p].archivo, flag |-> pedido[p].flag]]
         /\ esperado' = [esperado EXCEPT ![ListaDe(pedido[p], p)] =
                           [i \in Numeros |-> LeeDelArchivo(pedido[p].archivo, i)]]
         /\ \/ /\ pedido[p].flag = "SHARED"
               /\ tabla_archivos' = tabla_archivos \cup {pedido[p].archivo}
               /\ mapeado' = [mapeado EXCEPT ![pedido[p].archivo] = {p}]
               /\ fantasma' = Append(fantasma, pedido[p].archivo)
            \/ /\ pedido[p].flag # "SHARED"
               /\ UNCHANGED <<tabla_archivos, mapeado, fantasma>>
         /\ CambiaElPedido(p, Ninguno)
         /\ UNCHANGED <<sem_mapeo, caido, disco, cerrados, abandonados, perdidas>>
<1>1. /\ TieneElSem(p, "MAPEAR") /\ Nuevas(pedido[p]) /\ pedido[p].archivo \notin NoAbren
      /\ segmento' = [segmento EXCEPT ![p] = [archivo |-> pedido[p].archivo, flag |-> pedido[p].flag]]
      /\ esperado' = [esperado EXCEPT ![ListaDe(pedido[p], p)] =
                        [i \in Numeros |-> LeeDelArchivo(pedido[p].archivo, i)]]
      /\ IF pedido[p].flag = "SHARED"
         THEN /\ tabla_archivos' = tabla_archivos \cup {pedido[p].archivo}
              /\ mapeado' = [mapeado EXCEPT ![pedido[p].archivo] = {p}]
              /\ fantasma' = Append(fantasma, pedido[p].archivo)
         ELSE UNCHANGED tabVars
      /\ Contestar(p)
      /\ UNCHANGED <<sem_mapeo, caido, disco, cerrados, abandonados, perdidas>>
  BY Zenon DEF crearPaginasmapeadas
<1>2. pedido[p].op = "MAPEAR" /\ sem_mapeo = Nadie
  BY <1>1 DEF TieneElSem
<1>3. CambiaElPedido(p, Ninguno)
  BY <1>1 DEF Contestar, CambiaElPedido
<1>4. \/ /\ pedido[p].flag = "SHARED"
         /\ tabla_archivos' = tabla_archivos \cup {pedido[p].archivo}
         /\ mapeado' = [mapeado EXCEPT ![pedido[p].archivo] = {p}]
         /\ fantasma' = Append(fantasma, pedido[p].archivo)
      \/ /\ pedido[p].flag # "SHARED"
         /\ UNCHANGED <<tabla_archivos, mapeado, fantasma>>
  BY <1>1, Zenon DEF tabVars
<1>5. QED
  BY <1>1, <1>2, <1>3, <1>4, Zenon

LEMMA crearPaginasmapeadasP ==
  ASSUME MapasInv, NEW p \in Procesos, crearPaginasmapeadas(p)
  PROVE  MapasInv'
<1>1. /\ MemoriaInv /\ TablasInv /\ FormaTablas /\ FormaDatos /\ FormaCuentas /\ PedidosJustos
      /\ PedidoJusto(p) /\ ListasDeProcesos /\ ListasDeArchivos
      /\ paginas_usadas = Cardinality(TodasLasPaginas) + perdidas
  BY DEF MapasInv, TablasInv, PedidosJustos, Contadas
<1>2. PICK l \in Listas, a \in Archivos :
        MemoriaInv' /\ l = ListaDe(pedido[p], p) /\ a = pedido[p].archivo /\ Creadas(l, a)
  BY <1>1, Crea
<1>3. PICK flag \in {"PRIVATE", "SHARED"} : flag = pedido[p].flag
  BY <1>1, TablasAlCrear DEF PedidoJusto
<1>4. /\ sem_mapeo = Nadie /\ (flag = "PRIVATE" \/ a \notin tabla_archivos) /\ a \notin NoAbren
      /\ segmento[p] = SinMapa
      /\ segmento' = [segmento EXCEPT ![p] = [archivo |-> a, flag |-> flag]]
      /\ esperado' = [esperado EXCEPT ![l] = [i \in Numeros |-> LeeDelArchivo(a, i)]]
      /\ \/ /\ flag = "SHARED" /\ tabla_archivos' = tabla_archivos \cup {a}
            /\ mapeado' = [mapeado EXCEPT ![a] = {p}] /\ fantasma' = Append(fantasma, a)
         \/ /\ flag # "SHARED" /\ UNCHANGED <<tabla_archivos, mapeado, fantasma>>
      /\ CambiaElPedido(p, Ninguno)
      /\ UNCHANGED <<sem_mapeo, caido, disco, cerrados, abandonados, perdidas>>
  <2>1. segmento[p] = SinMapa
    BY <1>1, TablasAlCrear DEF PedidoJusto
  <2>2. flag = "PRIVATE" \/ a \notin tabla_archivos
    BY <1>2, <1>3, TablasAlCrear DEF Nuevas
  <2>3. QED
    BY <1>2, <1>3, <2>1, <2>2, TablasAlCrear, Zenon
<1>5. l = IF flag = "SHARED" THEN a ELSE p
  BY <1>2, <1>3 DEF ListaDe
<1>6. /\ segmento'[p].archivo = a /\ segmento'[p].flag = flag
      /\ \A q \in Procesos \ {p} : segmento'[q] = segmento[q]
      /\ segmento' \in [Procesos -> Segmento]
  <2>1. PICK s : s = [archivo |-> a, flag |-> flag]
    OBVIOUS
  <2>2. s \in Segmento /\ s.archivo = a /\ s.flag = flag
    BY <2>1 DEF Segmento
  <2>3. segmento' = [segmento EXCEPT ![p] = s]
    BY <1>4, <2>1
  <2>4. QED
    BY <1>1, <2>2, <2>3 DEF FormaTablas
<1>7. /\ pedido' \in [Procesos -> Pedido] /\ pedido'[p] = Ninguno
      /\ \A q \in Procesos \ {p} : pedido'[q] = pedido[q]
  BY <1>1, <1>4, SinPedido, UnPedido
<1>8. /\ \A i \in Numeros : esperado'[l][i] = LeeDelArchivo(a, i)
      /\ \A k \in Listas \ {l} : esperado'[k] = esperado[k]
      /\ esperado' \in [Listas -> [Numeros -> Contenidos \cup {CUALQUIERA}]]
  <2>1. PICK e : e = [i \in Numeros |-> LeeDelArchivo(a, i)]
    OBVIOUS
  <2>2. e \in [Numeros -> Contenidos \cup {CUALQUIERA}] /\ \A i \in Numeros : e[i] = LeeDelArchivo(a, i)
    BY <1>1, <2>1, LoLeido
  <2>3. esperado' = [esperado EXCEPT ![l] = e] /\ esperado \in [Listas -> [Numeros -> Contenidos \cup {CUALQUIERA}]]
    BY <1>1, <1>4, <2>1 DEF FormaDatos
  <2>4. QED
    BY <2>2, <2>3
<1>9. /\ TodasLasPaginas' = TodasLasPaginas \cup De(l, Numeros)
      /\ DOMAIN paginas'[l] = Numeros /\ (\A k \in Listas \ {l} : paginas'[k] = paginas[k])
      /\ \A x \in TodasLasPaginas : x[1] # l /\ Contenido(x)' = Contenido(x)
      /\ \A i \in Numeros : LeeDelArchivo(a, i) # CUALQUIERA => Contenido(<<l, i>>)' = LeeDelArchivo(a, i)
      /\ paginas_usadas' = Cardinality(TodasLasPaginas') + perdidas
      /\ paginas_usadas' \in Nat /\ paginas_usadas' <= PaginasTotales
  BY <1>2, Zenon DEF Creadas
<1>10. FormaTablas'
  <2>1. CASE flag = "SHARED"
    <3>1. /\ tabla_archivos' \subseteq Archivos \ NoAbren /\ cerrados' \subseteq tabla_archivos'
          /\ mapeado' \in [Archivos -> SUBSET Procesos]
      <4>1. tabla_archivos' = tabla_archivos \cup {a} /\ mapeado' = [mapeado EXCEPT ![a] = {p}]
        BY <1>4, <2>1
      <4>2. /\ tabla_archivos \subseteq Archivos \ NoAbren /\ cerrados \subseteq tabla_archivos
            /\ mapeado \in [Archivos -> SUBSET Procesos]
        BY <1>1 DEF FormaTablas
      <4>3. mapeado' \in [Archivos -> SUBSET Procesos]
        BY <4>1, <4>2
      <4>4. QED
        BY <1>4, <4>1, <4>2, <4>3
    <3>2. fantasma \in Seq(tabla_archivos') /\ a \in tabla_archivos' /\ fantasma' = Append(fantasma, a)
      BY <1>1, <1>4, <2>1 DEF FormaTablas
    <3>3. fantasma' \in Seq(tabla_archivos')
      BY <3>2
    <3>4. QED
      BY <1>1, <1>4, <1>6, <1>7, <3>1, <3>3 DEF FormaTablas
  <2>2. CASE flag # "SHARED"
    BY <1>1, <1>4, <1>6, <1>7, <2>2 DEF FormaTablas
  <2>3. QED
    BY <2>1, <2>2
<1>11. FormaDatos' /\ FormaCuentas'
  BY <1>1, <1>4, <1>8, <1>9 DEF FormaDatos, FormaCuentas
<1>12. a \in tabla_archivos' \/ flag = "PRIVATE"
  BY <1>4
<1>13. ListasDeProcesos'
  <2>1. ASSUME NEW q \in Procesos \ {p}
        PROVE  paginas'[q] = paginas[q] /\ segmento'[q] = segmento[q] /\ tabla_archivos \subseteq tabla_archivos'
    <3>1. q # l
      BY <1>5, Numerados
    <3>2. QED
      BY <1>4, <1>6, <1>9, <3>1 DEF Listas
  <2>2. DOMAIN paginas'[p] = IF flag = "PRIVATE" THEN Numeros ELSE {}
    <3>1. CASE flag = "PRIVATE"
      BY <1>5, <1>9, <3>1
    <3>2. CASE flag = "SHARED"
      <4>1. p # l /\ paginas'[p] = paginas[p]
        BY <1>5, <1>9, <3>2, Numerados DEF Listas
      <4>2. DOMAIN paginas[p] = {}
        BY <1>1, <1>4, SinBandera DEF ListasDeProcesos
      <4>3. QED
        BY <3>2, <4>1, <4>2
    <3>3. QED
      BY <3>1, <3>2
  <2>3. QED
    BY <1>1, <1>6, <1>12, <2>1, <2>2 DEF ListasDeProcesos
<1>14. ListasDeArchivos'
  <2>1. ASSUME NEW b \in Archivos, b # l
        PROVE  paginas'[b] = paginas[b]
    BY <1>9, <2>1 DEF Listas
  <2>2. CASE flag = "SHARED"
    <3>1. fantasma' # <<>>
      BY <1>1, <1>4, <2>2 DEF FormaTablas
    <3>2. l = a /\ tabla_archivos' = tabla_archivos \cup {a} /\ cerrados' = cerrados
      BY <1>4, <1>5, <2>2
    <3>3. ASSUME NEW b \in Archivos \ tabla_archivos'
          PROVE  DOMAIN paginas'[b] = {}
      BY <1>1, <2>1, <3>2, <3>3 DEF ListasDeArchivos
    <3>4. ASSUME NEW b \in tabla_archivos' \ cerrados'
          PROVE  DOMAIN paginas'[b] = Numeros
      <4>1. CASE b = a
        BY <1>9, <3>2, <4>1
      <4>2. CASE b # a
        <5>1. b \in tabla_archivos \ cerrados /\ b \in Archivos
          BY <1>1, <3>2, <3>4, <4>2 DEF FormaTablas
        <5>2. QED
          BY <1>1, <2>1, <3>2, <4>2, <5>1 DEF ListasDeArchivos
      <4>3. QED
        BY <4>1, <4>2
    <3>5. QED
      BY <3>1, <3>3, <3>4 DEF ListasDeArchivos
  <2>3. CASE flag # "SHARED"
    <3>1. \A b \in Archivos : paginas'[b] = paginas[b]
      BY <1>5, <2>1, <2>3, Numerados
    <3>2. QED
      BY <1>1, <1>4, <2>3, <3>1 DEF ListasDeArchivos, FormaTablas
  <2>4. QED
    BY <2>2, <2>3
<1>15. Nadie \notin Procesos
  BY ConstantesMapas DEF ConstantesMapas
<1>16. PedidoJusto(p)'
  BY <1>4, <1>7, <1>15, SinPedido DEF PedidoJusto
<1>17. PedidosJustos'
  BY <1>1, <1>4, <1>6, <1>7, <1>16, OtrosPedidos
<1>18. ContenidoIntacto'
  <2>1. ASSUME NEW x \in TodasLasPaginas', x[1] \notin cerrados', esperado'[x[1]][x[2]] # CUALQUIERA
        PROVE  Contenido(x)' = esperado'[x[1]][x[2]]
    <3>1. CASE x \in TodasLasPaginas
      <4>1. x[1] \in Listas \ {l} /\ Contenido(x)' = Contenido(x)
        BY <1>9, <3>1, UnaPagina
      <4>2. esperado'[x[1]] = esperado[x[1]] /\ cerrados' = cerrados
        BY <1>4, <1>8, <4>1
      <4>3. QED
        BY <2>1, <3>1, <4>1, <4>2 DEF MapasInv, ContenidoIntacto
    <3>2. CASE x \in De(l, Numeros)
      <4>1. PICK i \in Numeros : x = <<l, i>>
        BY <3>2 DEF De
      <4>2. x[1] = l /\ x[2] = i /\ esperado'[l][i] = LeeDelArchivo(a, i)
        BY <1>8, <4>1
      <4>3. Contenido(<<l, i>>)' = LeeDelArchivo(a, i)
        BY <1>9, <2>1, <4>2
      <4>4. QED
        BY <4>1, <4>2, <4>3
    <3>3. QED
      BY <1>9, <3>1, <3>2
  <2>2. QED
    BY <2>1 DEF ContenidoIntacto
<1>19. Contadas' /\ CaeSoloTrasCerrar'
  BY <1>4, <1>9 DEF MapasInv, Contadas, CaeSoloTrasCerrar
<1>20. QED
  BY <1>2, <1>10, <1>11, <1>13, <1>14, <1>17, <1>18, <1>19 DEF MapasInv, TablasInv

-----------------------------------------------------------------------------
(* Unmapping *)

\* A segment is emptied.
SinSegmento(p) == segmento' = [segmento EXCEPT ![p] = SinMapa]
LEMMA UnSegmentoMenos ==
  ASSUME FormaTablas, NEW p \in Procesos, SinSegmento(p)
  PROVE  /\ segmento' \in [Procesos -> Segmento] /\ segmento'[p] = SinMapa
         /\ \A q \in Procesos \ {p} : segmento'[q] = segmento[q]
<1>1. SinMapa \in Segmento
  BY DEF Segmento
<1>2. QED
  BY <1>1 DEF FormaTablas, SinSegmento

LEMMA DesligarPrivadoP ==
  ASSUME MapasInv, NEW p \in Procesos, DesligarPrivado(p)
  PROVE  MapasInv'
<1>1. /\ MemoriaInv /\ TablasInv /\ FormaTablas /\ FormaDatos /\ FormaCuentas /\ PedidosJustos
      /\ ListasDeProcesos /\ ListasDeArchivos
      /\ paginas_usadas = Cardinality(TodasLasPaginas) + perdidas
  BY DEF MapasInv, TablasInv, Contadas
<1>2. /\ PuedeDesligar(p) /\ segmento[p].flag = "PRIVATE" /\ Devolver(p, DOMAIN paginas[p])
      /\ esperado' = [esperado EXCEPT ![p] = [n \in Numeros |-> CUALQUIERA]]
      /\ SinSegmento(p) /\ CambiaElPedido(p, Ninguno)
      /\ UNCHANGED <<tabla_archivos, mapeado, fantasma, sem_mapeo, caido, disco, cerrados, abandonados, perdidas>>
  BY DEF DesligarPrivado, Contestar, CambiaElPedido, SinSegmento, tabVars
<1>3. p \in Listas /\ perdidas \in Nat /\ DOMAIN paginas[p] \in SUBSET DOMAIN paginas[p]
  BY <1>1, ConstantesMapas DEF ConstantesMapas, Listas, FormaCuentas
<1>4. PICK van : van = DOMAIN paginas[p]
  OBVIOUS
<1>5. /\ MemoriaInv' /\ TodasLasPaginas' = TodasLasPaginas \ De(p, van)
      /\ \A x \in TodasLasPaginas' : Contenido(x)' = Contenido(x)
      /\ DOMAIN paginas'[p] = {}
      /\ \A k \in Listas \ {p} : paginas'[k] = paginas[k]
      /\ paginas_usadas' = Cardinality(TodasLasPaginas') + perdidas
      /\ paginas_usadas' \in Nat /\ paginas_usadas' <= paginas_usadas
  <2>1. /\ MemoriaInv' /\ TodasLasPaginas' = TodasLasPaginas \ De(p, van)
        /\ \A x \in TodasLasPaginas' : Contenido(x)' = Contenido(x)
        /\ DOMAIN paginas'[p] = DOMAIN paginas[p] \ van
        /\ \A k \in Listas \ {p} : paginas'[k] = paginas[k]
        /\ paginas_usadas' = Cardinality(TodasLasPaginas') + perdidas
        /\ paginas_usadas' \in Nat /\ paginas_usadas' <= paginas_usadas
    BY <1>1, <1>2, <1>3, <1>4, Devuelve
  <2>2. DOMAIN paginas[p] \ van = {}
    BY <1>4
  <2>3. QED
    BY <2>1, <2>2
<1>6. /\ segmento' \in [Procesos -> Segmento] /\ segmento'[p] = SinMapa
      /\ \A q \in Procesos \ {p} : segmento'[q] = segmento[q]
  BY <1>1, <1>2, UnSegmentoMenos
<1>7. /\ pedido' \in [Procesos -> Pedido] /\ pedido'[p] = Ninguno
      /\ \A q \in Procesos \ {p} : pedido'[q] = pedido[q]
  BY <1>1, <1>2, SinPedido, UnPedido
<1>8. /\ \A k \in Listas \ {p} : esperado'[k] = esperado[k]
      /\ esperado' \in [Listas -> [Numeros -> Contenidos \cup {CUALQUIERA}]]
  <2>1. PICK e : e = [n \in Numeros |-> CUALQUIERA]
    OBVIOUS
  <2>2. e \in [Numeros -> Contenidos \cup {CUALQUIERA}]
    BY <2>1
  <2>3. esperado' = [esperado EXCEPT ![p] = e]
    BY <1>2, <2>1
  <2>4. QED
    BY <1>1, <2>2, <2>3 DEF FormaDatos
<1>9. FormaTablas'
  BY <1>1, <1>2, <1>6, <1>7 DEF FormaTablas
<1>10. FormaDatos' /\ FormaCuentas'
  <2>1. paginas_usadas' <= PaginasTotales
    BY <1>1, <1>5, Numerados DEF FormaCuentas, PaginasTotales
  <2>2. QED
    BY <1>1, <1>2, <1>5, <1>8, <2>1 DEF FormaDatos, FormaCuentas
<1>11. ListasDeProcesos'
  <2>1. \A q \in Procesos \ {p} : paginas'[q] = paginas[q]
    BY <1>5 DEF Listas
  <2>2. QED
    BY <1>1, <1>2, <1>5, <1>6, <2>1, SinBandera DEF ListasDeProcesos
<1>12. ListasDeArchivos'
  <2>1. \A b \in Archivos : paginas'[b] = paginas[b]
    BY <1>5, Numerados DEF Listas
  <2>2. QED
    BY <1>1, <1>2, <2>1 DEF ListasDeArchivos, FormaTablas
<1>13. sem_mapeo # p
  BY <1>2, SinPedidoNoLoTiene, ConstantesMapas DEF ConstantesMapas, PuedeDesligar
<1>14. PedidoJusto(p)'
  BY <1>2, <1>7, <1>13, SinPedido DEF PedidoJusto
<1>15. PedidosJustos'
  BY <1>1, <1>2, <1>6, <1>7, <1>14, OtrosPedidos
<1>16. ContenidoIntacto'
  <2>1. ASSUME NEW x \in TodasLasPaginas', x[1] \notin cerrados', esperado'[x[1]][x[2]] # CUALQUIERA
        PROVE  Contenido(x)' = esperado'[x[1]][x[2]]
    <3>1. x \in TodasLasPaginas /\ x[1] \in Listas /\ x[2] \in DOMAIN paginas[x[1]] /\ x = <<x[1], x[2]>>
      BY <1>5, UnaPagina
    <3>2. x[1] # p
      BY <1>4, <1>5, <3>1 DEF De
    <3>3. esperado'[x[1]] = esperado[x[1]]
      BY <1>8, <3>1, <3>2
    <3>4. QED
      BY <1>2, <1>5, <2>1, <3>1, <3>3 DEF MapasInv, ContenidoIntacto
  <2>2. QED
    BY <2>1 DEF ContenidoIntacto
<1>17. Contadas' /\ CaeSoloTrasCerrar'
  BY <1>2, <1>5 DEF MapasInv, Contadas, CaeSoloTrasCerrar
<1>18. QED
  BY <1>5, <1>9, <1>10, <1>11, <1>12, <1>15, <1>16, <1>17 DEF MapasInv, TablasInv

\* A process leaves a shared file: what it does to the tables.
LEMMA TablasAlDesligar ==
  ASSUME NEW p \in Procesos, Desligar(p)
  PROVE  /\ PuedeDesligar(p) /\ segmento[p].flag = "SHARED"
         /\ mapeado' = [mapeado EXCEPT ![segmento[p].archivo] = @ \ {p}]
         /\ SinSegmento(p)
         /\ CambiaElPedido(p, [Ninguno EXCEPT !.op = "REVISAR", !.archivo = segmento[p].archivo])
         /\ sem_mapeo' \in {sem_mapeo, p}
         /\ abandonados' = IF mapeado'[segmento[p].archivo] = {}
                           THEN abandonados \cup {segmento[p].archivo} ELSE abandonados
         /\ UNCHANGED <<bitmap_marcos, bitmap_swap, clock, memoria, espacio, paginas_usadas, paginas,
                        tabla_archivos, fantasma, caido, disco, esperado, cerrados, perdidas>>
<1>1. /\ PuedeDesligar(p) /\ segmento[p].flag = "SHARED"
      /\ mapeado' = [mapeado EXCEPT ![segmento[p].archivo] = @ \ {p}]
      /\ segmento' = [segmento EXCEPT ![p] = SinMapa]
      /\ pedido' = [pedido EXCEPT ![p] = [Ninguno EXCEPT !.op = "REVISAR", !.archivo = segmento[p].archivo]]
      /\ sem_mapeo' = IF pedido[p].op = "DESMAP" THEN p ELSE sem_mapeo
      /\ abandonados' = IF mapeado'[segmento[p].archivo] = {}
                        THEN abandonados \cup {segmento[p].archivo} ELSE abandonados
      /\ UNCHANGED <<marVars, paginas_usadas, paginas, tabla_archivos, fantasma, caido, disco,
                     esperado, cerrados, perdidas>>
  BY Zenon DEF Desligar
<1>2. UNCHANGED <<bitmap_marcos, bitmap_swap, clock, memoria, espacio, paginas_usadas, paginas,
                  tabla_archivos, fantasma, caido, disco, esperado, cerrados, perdidas>>
  BY <1>1 DEF marVars
<1>3. sem_mapeo' \in {sem_mapeo, p}
  BY <1>1, Zenon
<1>4. QED
  BY <1>1, <1>2, <1>3, Zenon DEF SinSegmento, CambiaElPedido

\* The request of a thread that goes on to ask who has the file.
LEMMA PedidoDeRevisar ==
  ASSUME NEW a \in Archivos
  PROVE  LET r == [Ninguno EXCEPT !.op = "REVISAR", !.archivo = a]
         IN r \in Pedido /\ r.op = "REVISAR" /\ r.archivo = a
<1>1. [Ninguno EXCEPT !.op = "REVISAR", !.archivo = a] \in Pedido
  BY SinPedido DEF Ninguno, Pedido
<1>2. /\ [Ninguno EXCEPT !.op = "REVISAR", !.archivo = a].op = "REVISAR"
      /\ [Ninguno EXCEPT !.op = "REVISAR", !.archivo = a].archivo = a
  BY DEF Ninguno
<1>3. QED
  BY <1>1, <1>2

LEMMA PedidoDeEliminar ==
  LET r == [Ninguno EXCEPT !.op = "ELIMINAR"]
  IN r \in Pedido /\ r.op = "ELIMINAR"
<1>1. [Ninguno EXCEPT !.op = "ELIMINAR"] \in Pedido
  BY SinPedido DEF Ninguno, Pedido
<1>2. [Ninguno EXCEPT !.op = "ELIMINAR"].op = "ELIMINAR"
  BY DEF Ninguno
<1>3. QED
  BY <1>1, <1>2

LEMMA DesligarP ==
  ASSUME MapasInv, NEW p \in Procesos, Desligar(p)
  PROVE  MapasInv'
<1>1. /\ MemoriaInv /\ TablasInv /\ FormaTablas /\ FormaDatos /\ FormaCuentas /\ PedidosJustos
      /\ ListasDeProcesos /\ ListasDeArchivos
  BY DEF MapasInv, TablasInv
<1>2. PICK a \in tabla_archivos : a = segmento[p].archivo
  BY <1>1, TablasAlDesligar DEF ListasDeProcesos
<1>3. /\ segmento[p].flag = "SHARED" /\ mapeado' = [mapeado EXCEPT ![a] = @ \ {p}]
      /\ UNCHANGED <<bitmap_marcos, bitmap_swap, clock, memoria, espacio, paginas_usadas, paginas,
                     tabla_archivos, fantasma, caido, disco, esperado, cerrados, perdidas>>
  BY <1>2, TablasAlDesligar
<1>4. /\ segmento' \in [Procesos -> Segmento] /\ segmento'[p] = SinMapa
      /\ \A q \in Procesos \ {p} : segmento'[q] = segmento[q]
  BY <1>1, TablasAlDesligar, UnSegmentoMenos
<1>5. Nadie \notin Procesos
  BY ConstantesMapas DEF ConstantesMapas
<1>6. PICK r \in Pedido :
        CambiaElPedido(p, r) /\ sem_mapeo' \in {sem_mapeo, p} /\ r.op = "REVISAR" /\ r.archivo = a
  <2>1. a \in Archivos
    BY <1>1 DEF FormaTablas
  <2>2. QED
    BY <1>2, <2>1, PedidoDeRevisar, TablasAlDesligar
<1>7. /\ pedido' \in [Procesos -> Pedido] /\ pedido'[p] = r
      /\ \A q \in Procesos \ {p} : pedido'[q] = pedido[q]
  BY <1>1, <1>6, UnPedido
<1>8. MemoriaInv' /\ Conserva
  <2>1. UNCHANGED <<marVars, paginas>>
    BY <1>3 DEF marVars
  <2>2. QED
    BY <1>1, <2>1, MemoriaQuieta
<1>9. ContenidoIntacto' /\ TodasLasPaginas' = TodasLasPaginas
  BY <1>3, <1>8, SigueElContenido
<1>10. FormaTablas'
  <2>1. mapeado' \in [Archivos -> SUBSET Procesos]
    BY <1>1, <1>2, <1>3 DEF FormaTablas
  <2>2. sem_mapeo' \in Procesos \cup {Nadie}
    BY <1>1, <1>6 DEF FormaTablas
  <2>3. QED
    BY <1>1, <1>3, <1>4, <1>7, <2>1, <2>2 DEF FormaTablas
<1>11. FormaDatos' /\ FormaCuentas'
  BY <1>1, <1>3 DEF FormaDatos, FormaCuentas
<1>12. ListasDeProcesos'
  <2>1. DOMAIN paginas[p] = {}
    BY <1>1, <1>3 DEF ListasDeProcesos
  <2>2. QED
    BY <1>1, <1>3, <1>4, <2>1, SinBandera DEF ListasDeProcesos
<1>13. ListasDeArchivos'
  BY <1>1, <1>3 DEF ListasDeArchivos
<1>14. PedidoJusto(p)'
  BY <1>2, <1>3, <1>6, <1>7 DEF PedidoJusto
<1>15. PedidosJustos'
  BY <1>1, <1>3, <1>4, <1>6, <1>7, <1>14, OtrosPedidos
<1>16. Contadas' /\ CaeSoloTrasCerrar'
  BY <1>3, <1>9 DEF MapasInv, Contadas, CaeSoloTrasCerrar
<1>17. QED
  BY <1>8, <1>9, <1>10, <1>11, <1>12, <1>13, <1>15, <1>16 DEF MapasInv, TablasInv

\* It asks whether somebody has the file: what it does to the tables.
LEMMA TablasAlRevisar ==
  ASSUME NEW p \in Procesos, RevisarUsuarios(p)
  PROVE  /\ pedido[p].op = "REVISAR"
         /\ \/ CambiaElPedido(p, Ninguno) /\ sem_mapeo' = (IF sem_mapeo = p THEN Nadie ELSE sem_mapeo)
            \/ /\ mapeado[pedido[p].archivo] = {} /\ sem_mapeo' = sem_mapeo
               /\ CambiaElPedido(p, [Ninguno EXCEPT !.op = "ELIMINAR"])
         /\ UNCHANGED <<marVars, paginas_usadas, paginas, tabVars, caido, segmento, disco, hisVars>>
<1>1. /\ pedido[p].op = "REVISAR"
      /\ IF QuedanUsuarios(pedido[p].archivo)
         THEN Contestar(p) /\ DejarElSem(p)
         ELSE /\ pedido' = [pedido EXCEPT ![p] = [Ninguno EXCEPT !.op = "ELIMINAR"]]
              /\ UNCHANGED sem_mapeo
      /\ UNCHANGED <<marVars, paginas_usadas, paginas, tabVars, caido, segmento, disco, hisVars>>
  BY Zenon DEF RevisarUsuarios
<1>2. CASE QuedanUsuarios(pedido[p].archivo)
  BY <1>1, <1>2, Zenon DEF Contestar, DejarElSem, CambiaElPedido
<1>3. CASE ~ QuedanUsuarios(pedido[p].archivo)
  BY <1>1, <1>3, Zenon DEF QuedanUsuarios, CambiaElPedido
<1>4. QED
  BY <1>2, <1>3

LEMMA RevisarUsuariosP ==
  ASSUME MapasInv, NEW p \in Procesos, RevisarUsuarios(p)
  PROVE  MapasInv'
<1>1. pedido[p].op = "REVISAR" /\ PedidosJustos /\ FormaTablas /\ Nadie \notin Procesos
  BY TablasAlRevisar, ConstantesMapas DEF MapasInv, TablasInv, ConstantesMapas
<1>2. UNCHANGED <<marVars, paginas_usadas, paginas, tabVars, caido, segmento, disco, hisVars>>
  BY TablasAlRevisar
<1>3. MemoriaInv' /\ Conserva
  BY <1>2, MemoriaQuieta DEF MapasInv
<1>4. tabla_archivos # {}
  BY <1>1 DEF PedidosJustos, PedidoJusto
<1>5. CASE CambiaElPedido(p, Ninguno) /\ sem_mapeo' = (IF sem_mapeo = p THEN Nadie ELSE sem_mapeo)
  <2>1. pedido'[p] = Ninguno
    BY <1>1, <1>5, SinPedido, UnPedido
  <2>2. sem_mapeo' # p /\ sem_mapeo' \in {sem_mapeo, Nadie}
    BY <1>1, <1>5
  <2>3. PedidoJusto(p)'
    BY <2>1, <2>2, SinPedido DEF PedidoJusto
  <2>4. QED
    BY <1>2, <1>3, <1>5, <2>2, <2>3, SinPedido, SigueTodo
<1>6. CASE CambiaElPedido(p, [Ninguno EXCEPT !.op = "ELIMINAR"]) /\ sem_mapeo' = sem_mapeo
  <2>1. PICK r \in Pedido : CambiaElPedido(p, r) /\ r.op = "ELIMINAR"
    BY <1>6, PedidoDeEliminar
  <2>2. pedido'[p] = r
    BY <1>1, <2>1, UnPedido
  <2>3. tabla_archivos' = tabla_archivos
    BY <1>2 DEF tabVars
  <2>4. PedidoJusto(p)'
    BY <1>4, <2>1, <2>2, <2>3 DEF PedidoJusto
  <2>5. QED
    BY <1>2, <1>3, <1>6, <2>1, <2>4, SigueTodo
<1>7. QED
  BY <1>5, <1>6, TablasAlRevisar

\* The pages of the only shared file are given back, every second one.
LEMMA EliminarFantasmaP ==
  ASSUME MapasInv, UnSoloCompartido, NEW p \in Procesos, EliminarFantasma(p)
  PROVE  MapasInv'
<1>1. /\ MemoriaInv /\ TablasInv /\ FormaTablas /\ FormaDatos /\ FormaCuentas /\ PedidosJustos
      /\ ListasDeProcesos /\ ListasDeArchivos
      /\ paginas_usadas = Cardinality(TodasLasPaginas) + perdidas
  BY DEF MapasInv, TablasInv, Contadas
<1>2. CASE fantasma = <<>> /\ Caer
  <2>1. pedido[p].op = "ELIMINAR"
    BY DEF EliminarFantasma
  <2>2. tabla_archivos # {}
    BY <1>1, <2>1 DEF PedidosJustos, PedidoJusto
  <2>3. cerrados # {}
    BY <1>1, <1>2, <2>2 DEF ListasDeArchivos
  <2>4. QED
    BY <1>2, <2>3, CaeP
<1>3. CASE fantasma # <<>>
  <2>1. PICK a \in tabla_archivos : a = Head(fantasma) /\ Tail(fantasma) \in Seq(tabla_archivos)
    BY <1>1, <1>3 DEF FormaTablas
  <2>1a. PICK van : van = Saltea(Head(fantasma))
    OBVIOUS
  <2>2. /\ fantasma' = Tail(fantasma) /\ Devolver(a, van) /\ cerrados' = cerrados \cup {a}
        /\ sem_mapeo' = (IF sem_mapeo = p THEN Nadie ELSE sem_mapeo)
        /\ CambiaElPedido(p, Ninguno)
        /\ UNCHANGED <<tabla_archivos, mapeado, caido, segmento, disco, esperado, abandonados, perdidas>>
    BY <1>3, <2>1, <2>1a, Zenon DEF EliminarFantasma, Contestar, CambiaElPedido, DejarElSem
  <2>3. a \in Listas /\ perdidas \in Nat /\ van \in SUBSET DOMAIN paginas[a]
    BY <1>1, <2>1, <2>1a, ConstantesMapas DEF ConstantesMapas, Listas, FormaCuentas, FormaTablas, Saltea
  <2>4. /\ MemoriaInv' /\ TodasLasPaginas' = TodasLasPaginas \ De(a, van)
        /\ \A x \in TodasLasPaginas' : Contenido(x)' = Contenido(x)
        /\ \A k \in Listas \ {a} : paginas'[k] = paginas[k]
        /\ paginas_usadas' = Cardinality(TodasLasPaginas') + perdidas
        /\ paginas_usadas' \in Nat /\ paginas_usadas' <= paginas_usadas
    BY <1>1, <2>2, <2>3, Devuelve
  <2>5. /\ pedido' \in [Procesos -> Pedido] /\ pedido'[p] = Ninguno
        /\ \A q \in Procesos \ {p} : pedido'[q] = pedido[q]
    BY <1>1, <2>2, SinPedido, UnPedido
  <2>6. Nadie \notin Procesos
    BY ConstantesMapas DEF ConstantesMapas
  <2>7. sem_mapeo' \in {sem_mapeo, Nadie} /\ sem_mapeo' # p
    BY <2>2, <2>6
  <2>8. FormaTablas'
    BY <1>1, <2>1, <2>1a, <2>2, <2>5, <2>7 DEF FormaTablas
  <2>9. FormaDatos' /\ FormaCuentas'
    <3>1. paginas_usadas' <= PaginasTotales
      BY <1>1, <2>4, Numerados DEF FormaCuentas, PaginasTotales
    <3>2. QED
      BY <1>1, <2>2, <2>4, <3>1 DEF FormaDatos, FormaCuentas
  <2>10. ListasDeProcesos'
    <3>1. \A q \in Procesos : paginas'[q] = paginas[q]
      BY <1>1, <2>1, <2>1a, <2>4, Numerados DEF Listas, FormaTablas
    <3>2. QED
      BY <1>1, <2>2, <3>1 DEF ListasDeProcesos
  <2>11. ListasDeArchivos'
    <3>1. \A b \in Archivos \ tabla_archivos : paginas'[b] = paginas[b]
      BY <2>1, <2>1a, <2>4 DEF Listas
    <3>2. tabla_archivos' \ cerrados' = {}
      BY <2>1, <2>1a, <2>2 DEF UnSoloCompartido
    <3>3. QED
      BY <1>1, <2>2, <3>1, <3>2 DEF ListasDeArchivos
  <2>12. PedidoJusto(p)'
    BY <2>5, <2>7, SinPedido DEF PedidoJusto
  <2>13. PedidosJustos'
    BY <1>1, <2>2, <2>5, <2>6, <2>7, <2>12, OtrosPedidos
  <2>14. ContenidoIntacto'
    BY <2>2, <2>4 DEF MapasInv, ContenidoIntacto
  <2>15. Contadas' /\ CaeSoloTrasCerrar'
    BY <2>2, <2>4 DEF MapasInv, Contadas, CaeSoloTrasCerrar
  <2>16. QED
    BY <2>4, <2>8, <2>9, <2>10, <2>11, <2>13, <2>14, <2>15 DEF MapasInv, TablasInv
<1>4. QED
  BY <1>2, <1>3, Zenon DEF EliminarFantasma

-----------------------------------------------------------------------------
(* Every step *)

\* Only crearPaginasmapeadas changes the table of files.
LEMMA LaTablaCambia ==
  ASSUME [Next]_vars
  PROVE  UNCHANGED tabla_archivos \/ \E p \in Procesos : crearPaginasmapeadas(p)
<1>1. CASE UNCHANGED vars
  BY <1>1 DEF vars
<1>2. ASSUME NEW p \in Procesos, NEW r, Pedir(p, r)
      PROVE  UNCHANGED tabla_archivos
  BY <1>2 DEF Pedir, tabVars
<1>3. ASSUME Caer
      PROVE  UNCHANGED tabla_archivos
  BY <1>3 DEF Caer, tabVars
<1>4. ASSUME NEW p \in Procesos,
             Rechazar(p) \/ NoAbre(p) \/ Compartir(p) \/ fopenSync(p)
      PROVE  UNCHANGED tabla_archivos
  BY <1>4 DEF Rechazar, NoAbre, Compartir, fopenSync, tabVars
<1>5. ASSUME NEW p \in Procesos, syncMuse(p)
      PROVE  UNCHANGED tabla_archivos
  BY <1>3, <1>5 DEF syncMuse, tabVars
<1>6. ASSUME NEW p \in Procesos, NEW n \in Numeros, getMuse(p, n)
      PROVE  UNCHANGED tabla_archivos
  BY <1>3, <1>6 DEF getMuse, tabVars
<1>7. ASSUME NEW p \in Procesos, NEW n \in Numeros, NEW v \in Valores, copiarMuse(p, n, v)
      PROVE  UNCHANGED tabla_archivos
  BY <1>3, <1>7 DEF copiarMuse, tabVars
<1>8. ASSUME NEW p \in Procesos, DesligarPrivado(p) \/ Desligar(p) \/ RevisarUsuarios(p)
      PROVE  UNCHANGED tabla_archivos
  BY <1>8 DEF DesligarPrivado, Desligar, RevisarUsuarios, tabVars
<1>9. ASSUME NEW p \in Procesos, EliminarFantasma(p)
       PROVE  UNCHANGED tabla_archivos
  BY <1>3, <1>9 DEF EliminarFantasma
<1>10. CASE Next
  <2>1. PICK p \in Procesos :
          \/ \E a \in Archivos, flag \in {"PRIVATE", "SHARED"} : muse_map(p, a, flag)
          \/ \E n \in 1..Paginas : muse_sync(p, n)
          \/ muse_unmap(p)
          \/ muse_close(p)
          \/ Rechazar(p)
          \/ NoAbre(p)
          \/ Compartir(p)
          \/ crearPaginasmapeadas(p)
          \/ fopenSync(p)
          \/ syncMuse(p)
          \/ \E n \in Numeros : getMuse(p, n)
          \/ \E n \in Numeros, v \in Valores : copiarMuse(p, n, v)
          \/ DesligarPrivado(p)
          \/ Desligar(p)
          \/ RevisarUsuarios(p)
          \/ EliminarFantasma(p)
    BY <1>10, Zenon DEF Next
  <2>2. ASSUME \/ \E a \in Archivos, flag \in {"PRIVATE", "SHARED"} : muse_map(p, a, flag)
               \/ \E n \in 1..Paginas : muse_sync(p, n)
               \/ muse_unmap(p)
               \/ muse_close(p)
        PROVE  UNCHANGED tabla_archivos
    BY <1>2, <2>2, Zenon DEF muse_map, muse_sync, muse_unmap, muse_close
  <2>3. QED
    BY <1>4, <1>5, <1>6, <1>7, <1>8, <1>9, <2>1, <2>2
<1>11. QED
  BY <1>1, <1>10

\* No file leaves the table: while it has one, it has never had another.
LEMMA LaTablaCrece ==
  ASSUME [Next]_vars
  PROVE  tabla_archivos \subseteq tabla_archivos'
<1>1. ASSUME NEW p \in Procesos, crearPaginasmapeadas(p)
      PROVE  tabla_archivos \subseteq tabla_archivos'
  <2>1. IF pedido[p].flag = "SHARED"
        THEN /\ tabla_archivos' = tabla_archivos \cup {pedido[p].archivo}
             /\ mapeado' = [mapeado EXCEPT ![pedido[p].archivo] = {p}]
             /\ fantasma' = Append(fantasma, pedido[p].archivo)
        ELSE UNCHANGED tabVars
    BY <1>1, Zenon DEF crearPaginasmapeadas
  <2>2. QED
    BY <2>1 DEF tabVars
<1>2. QED
  BY <1>1, LaTablaCambia

LEMMA MapasPaso ==
  ASSUME MapasInv, UnSoloCompartido', [Next]_vars
  PROVE  MapasInv'
<1>1. UnSoloCompartido
  BY LaTablaCrece DEF UnSoloCompartido
<1>2. CASE UNCHANGED vars
  <2>1. UNCHANGED <<bitmap_marcos, bitmap_swap, clock, memoria, espacio, paginas_usadas, paginas,
                    tabla_archivos, mapeado, fantasma, sem_mapeo, caido, segmento, pedido, disco,
                    esperado, cerrados, abandonados, perdidas>>
    BY <1>2 DEF vars
  <2>2. MemoriaInv' /\ Conserva
    <3>1. UNCHANGED <<marVars, paginas>>
      BY <2>1 DEF marVars
    <3>2. QED
      BY <3>1, MemoriaQuieta DEF MapasInv
  <2>3. ContenidoIntacto' /\ TodasLasPaginas' = TodasLasPaginas
    BY <2>1, <2>2, SigueElContenido
  <2>4. TablasInv'
    <3>1. FormaTablas' /\ FormaDatos' /\ FormaCuentas'
      BY <2>1 DEF MapasInv, TablasInv, FormaTablas, FormaDatos, FormaCuentas
    <3>2. ListasDeProcesos' /\ ListasDeArchivos' /\ PedidosJustos'
      BY <2>1 DEF MapasInv, TablasInv, ListasDeProcesos, ListasDeArchivos, PedidosJustos, PedidoJusto
    <3>3. QED
      BY <3>1, <3>2 DEF TablasInv
  <2>5. Contadas' /\ CaeSoloTrasCerrar'
    BY <2>1, <2>3 DEF MapasInv, Contadas, CaeSoloTrasCerrar
  <2>6. QED
    BY <2>2, <2>3, <2>4, <2>5 DEF MapasInv
<1>3. CASE Next
  <2>1. PICK p \in Procesos :
          \/ \E a \in Archivos, flag \in {"PRIVATE", "SHARED"} : muse_map(p, a, flag)
          \/ \E n \in 1..Paginas : muse_sync(p, n)
          \/ muse_unmap(p)
          \/ muse_close(p)
          \/ Rechazar(p)
          \/ NoAbre(p)
          \/ Compartir(p)
          \/ crearPaginasmapeadas(p)
          \/ fopenSync(p)
          \/ syncMuse(p)
          \/ \E n \in Numeros : getMuse(p, n)
          \/ \E n \in Numeros, v \in Valores : copiarMuse(p, n, v)
          \/ DesligarPrivado(p)
          \/ Desligar(p)
          \/ RevisarUsuarios(p)
          \/ EliminarFantasma(p)
    BY <1>3, Zenon DEF Next
  <2>2. CASE \E a \in Archivos, flag \in {"PRIVATE", "SHARED"} : muse_map(p, a, flag)
    BY <2>2, muse_mapP
  <2>3. CASE \E n \in 1..Paginas : muse_sync(p, n)
    BY <2>3, muse_syncP
  <2>4. CASE muse_unmap(p)
    BY <2>4, muse_unmapP
  <2>5. CASE muse_close(p)
    BY <2>5, muse_closeP
  <2>6. CASE Rechazar(p)
    BY <2>6, RechazarP
  <2>7. CASE NoAbre(p)
    BY <2>7, NoAbreP
  <2>8. CASE Compartir(p)
    BY <2>8, CompartirP
  <2>9. CASE crearPaginasmapeadas(p)
    BY <2>9, crearPaginasmapeadasP
  <2>10. CASE fopenSync(p)
    BY <2>10, fopenSyncP
  <2>11. CASE syncMuse(p)
    BY <1>1, <2>11, syncMuseP
  <2>12. CASE \E n \in Numeros : getMuse(p, n)
    BY <1>1, <2>12, getMuseP
  <2>13. CASE \E n \in Numeros, v \in Valores : copiarMuse(p, n, v)
    BY <1>1, <2>13, copiarMuseP
  <2>14. CASE DesligarPrivado(p)
    BY <2>14, DesligarPrivadoP
  <2>15. CASE Desligar(p)
    BY <2>15, DesligarP
  <2>16. CASE RevisarUsuarios(p)
    BY <2>16, RevisarUsuariosP
  <2>17. CASE EliminarFantasma(p)
    BY <1>1, <2>17, EliminarFantasmaP
  <2>18. QED
    BY <2>1, <2>2, <2>3, <2>4, <2>5, <2>6, <2>7, <2>8, <2>9, <2>10, <2>11, <2>12, <2>13,
       <2>14, <2>15, <2>16, <2>17
<1>4. QED
  BY <1>2, <1>3

LEMMA MapasSiempre == Spec => [](UnSoloCompartido => MapasInv)
<1>1. Init => MapasInv
  BY AlPrincipio
<1>2. (UnSoloCompartido => MapasInv) /\ [Next]_vars => (UnSoloCompartido => MapasInv)'
  <2>1. [Next]_vars /\ UnSoloCompartido' => UnSoloCompartido
    BY LaTablaCrece DEF UnSoloCompartido
  <2>2. QED
    BY <2>1, MapasPaso
<1>3. QED
  BY <1>1, <1>2, PTL DEF Spec

\* While only one file has been mapped MAP_SHARED, every variable has its type.
THEOREM TypeOKConUnArchivo == Spec => [](UnSoloCompartido => TypeOK)
<1>1. MapasInv => TypeOK
  <2>1. SUFFICES ASSUME MapasInv
                 PROVE  TypeOK
    OBVIOUS
  <2>2. FormaMemoria /\ FormaTablas /\ FormaDatos /\ FormaCuentas
    BY <2>1 DEF MapasInv, MemoriaInv, TablasInv
  <2>3. paginas_usadas \in 0..PaginasTotales + MaxPerdidas
    BY <2>2, Numerados, ConstantesMapas DEF FormaCuentas, PaginasTotales, ConstantesMapas
  <2>4. \A l \in Listas : /\ DOMAIN paginas[l] \subseteq Numeros
                          /\ \A n \in DOMAIN paginas[l] :
                               LET x == paginas[l][n]
                               IN \/ x.p = 1 /\ x.marco \in Marcos
                                  \/ x.p = 0 /\ x.marco \in MarcosSwap
    BY <2>2, UnaLista, Registros
  <2>5. \A i \in DOMAIN fantasma : fantasma[i] \in tabla_archivos
    BY <2>2 DEF FormaTablas
  <2>6. ASSUME NEW p \in Procesos
        PROVE  /\ segmento[p] \in {SinMapa} \cup [archivo : Archivos, flag : {"PRIVATE", "SHARED"}]
               /\ pedido[p].op \in {"ninguno", "MAPEAR", "SINCRO", "DESMAP", "CERRAR", "REVISAR", "ELIMINAR"}
    <3>1. segmento[p] \in Segmento /\ pedido[p] \in Pedido
      BY <2>2 DEF FormaTablas
    <3>2. pedido[p].op \in {"ninguno", "MAPEAR", "SINCRO", "DESMAP", "CERRAR", "REVISAR", "ELIMINAR"}
      BY <3>1 DEF Pedido
    <3>3. QED
      BY <3>1, <3>2, Zenon DEF Segmento
  <2>7. QED
    BY <2>2, <2>3, <2>4, <2>5, <2>6 DEF TypeOK, FormaMemoria, FormaTablas, FormaDatos
<1>2. QED
  BY <1>1, MapasSiempre, PTL

\* While only one file has been mapped MAP_SHARED, a frame has its bit set
\* exactly when it is of one page, and paginas_usadas counts each page once,
\* however many processes share it, and those of the files that open() refused.
THEOREM MarcosDeUnoConUnArchivo == Spec => [](UnSoloCompartido => MarcosDeUno)
<1>1. MapasInv => MarcosDeUno
  BY MarcosVistos DEF MapasInv, MemoriaInv, Contadas, MarcosDeUno
<1>2. QED
  BY <1>1, MapasSiempre, PTL

\* While only one file has been mapped MAP_SHARED, each page has what was
\* written in it last, by whoever shares it and wherever swap has taken it.
THEOREM ContenidoIntactoConUnArchivo == Spec => [](UnSoloCompartido => ContenidoIntacto)
<1>1. MapasInv => ContenidoIntacto
  BY DEF MapasInv
<1>2. QED
  BY <1>1, MapasSiempre, PTL

\* While only one file has been mapped MAP_SHARED, no access, SINCRO or DESMAP
\* brings the server down before pages of the file are given back or a file is
\* refused by open().
THEOREM CaeSoloTrasCerrarConUnArchivo == Spec => [](UnSoloCompartido => CaeSoloTrasCerrar)
<1>1. MapasInv => CaeSoloTrasCerrar
  BY DEF MapasInv
<1>2. QED
  BY <1>1, MapasSiempre, PTL

-----------------------------------------------------------------------------
(* Giving the pages of a file back *)

\* What is known of the files that somebody has mapped, and of those that nobody
\* has: those that are being closed, or have been, have been without users.
AbandonoInv ==
  /\ \A a \in Archivos : mapeado[a] # {} => a \in tabla_archivos
  /\ \A a \in tabla_archivos : mapeado[a] = {} => a \in abandonados
  /\ \A p \in Procesos : pedido[p].op = "ELIMINAR" => tabla_archivos \subseteq abandonados
  /\ cerrados \subseteq abandonados

\* The only file of the table is the only one while anybody is closing it.
LEMMA LaTablaSigue ==
  ASSUME MapasInv, UnSoloCompartido', [Next]_vars, NEW p \in Procesos, pedido[p].op = "ELIMINAR"
  PROVE  tabla_archivos' = tabla_archivos
<1>1. tabla_archivos # {}
  BY DEF MapasInv, TablasInv, PedidosJustos, PedidoJusto
<1>2. QED
  BY <1>1, LaTablaCrece DEF UnSoloCompartido

\* A step that changes no user of a file and closes none, and after which no
\* thread closes one that was not closing it.
LEMMA SigueAbandono ==
  ASSUME AbandonoInv, UNCHANGED <<tabla_archivos, mapeado, cerrados, abandonados>>,
         \A q \in Procesos : pedido'[q].op = "ELIMINAR" => pedido[q].op = "ELIMINAR"
  PROVE  AbandonoInv'
BY DEF AbandonoInv

\* So is one that sets or answers the request of p.
LEMMA SigueAbandonoDe ==
  ASSUME MapasInv, AbandonoInv, UNCHANGED <<tabla_archivos, mapeado, cerrados, abandonados>>,
         NEW p \in Procesos, NEW r \in Pedido, CambiaElPedido(p, r), r.op # "ELIMINAR"
  PROVE  AbandonoInv'
<1>1. pedido'[p] = r /\ \A q \in Procesos \ {p} : pedido'[q] = pedido[q]
  BY UnPedido DEF MapasInv, TablasInv
<1>2. QED
  BY <1>1, SigueAbandono

LEMMA CaeA ==
  ASSUME AbandonoInv, Caer
  PROVE  AbandonoInv'
BY SigueAbandono DEF Caer, tabVars, hisVars

\* libMuse asks for something.
LEMMA PideA ==
  ASSUME MapasInv, AbandonoInv, NEW p \in Procesos,
         \/ \E a \in Archivos, flag \in {"PRIVATE", "SHARED"} : muse_map(p, a, flag)
         \/ \E n \in 1..Paginas : muse_sync(p, n)
         \/ muse_unmap(p)
         \/ muse_close(p)
  PROVE  AbandonoInv'
<1>1. ASSUME NEW r, Pedir(p, r), r.op # "ELIMINAR"
      PROVE  AbandonoInv'
  <2>1. /\ pedido' = [pedido EXCEPT ![p] = r]
        /\ UNCHANGED <<tabla_archivos, mapeado, cerrados, abandonados>>
    BY <1>1 DEF Pedir, tabVars, hisVars
  <2>2. pedido'[p] = r /\ \A q \in Procesos \ {p} : pedido'[q] = pedido[q]
    BY <2>1 DEF MapasInv, TablasInv, FormaTablas
  <2>3. QED
    BY <1>1, <2>1, <2>2, SigueAbandono
<1>2. ASSUME NEW a \in Archivos, NEW flag \in {"PRIVATE", "SHARED"}, muse_map(p, a, flag)
      PROVE  AbandonoInv'
  <2>1. PICK r : r = [Ninguno EXCEPT !.op = "MAPEAR", !.archivo = a, !.flag = flag]
    OBVIOUS
  <2>2. r.op = "MAPEAR"
    BY <2>1 DEF Ninguno
  <2>3. QED
    BY <1>1, <1>2, <2>1, <2>2, Zenon DEF muse_map
<1>3. ASSUME NEW n \in 1..Paginas, muse_sync(p, n)
      PROVE  AbandonoInv'
  <2>1. PICK r : r = [Ninguno EXCEPT !.op = "SINCRO", !.i = n]
    OBVIOUS
  <2>2. r.op = "SINCRO"
    BY <2>1 DEF Ninguno
  <2>3. QED
    BY <1>1, <1>3, <2>1, <2>2, Zenon DEF muse_sync
<1>4. ASSUME muse_unmap(p)
      PROVE  AbandonoInv'
  <2>1. PICK r : r = [Ninguno EXCEPT !.op = "DESMAP"]
    OBVIOUS
  <2>2. r.op = "DESMAP"
    BY <2>1 DEF Ninguno
  <2>3. QED
    BY <1>1, <1>4, <2>1, <2>2, Zenon DEF muse_unmap
<1>5. ASSUME muse_close(p)
      PROVE  AbandonoInv'
  <2>1. PICK r : r = [Ninguno EXCEPT !.op = "CERRAR"]
    OBVIOUS
  <2>2. r.op = "CERRAR"
    BY <2>1 DEF Ninguno
  <2>3. QED
    BY <1>1, <1>5, <2>1, <2>2, Zenon DEF muse_close
<1>6. QED
  BY <1>2, <1>3, <1>4, <1>5

\* One more process has a file of the table.
LEMMA CompartirA ==
  ASSUME MapasInv, AbandonoInv, NEW p \in Procesos, Compartir(p)
  PROVE  AbandonoInv'
<1>1. FormaTablas /\ PedidoJusto(p)
  BY DEF MapasInv, TablasInv, PedidosJustos
<1>2. PICK a \in Archivos : a = pedido[p].archivo
  BY <1>1 DEF Compartir, TieneElSem, PedidoJusto
<1>3. /\ ~ Nuevas(pedido[p]) /\ mapeado' = [mapeado EXCEPT ![a] = @ \cup {p}]
      /\ CambiaElPedido(p, Ninguno)
      /\ UNCHANGED <<tabla_archivos, cerrados, abandonados>>
  BY <1>2 DEF Compartir, Contestar, CambiaElPedido, hisVars
<1>4. a \in tabla_archivos
  BY <1>2, <1>3 DEF Nuevas
<1>5. pedido'[p] = Ninguno /\ \A q \in Procesos \ {p} : pedido'[q] = pedido[q]
  BY <1>1, <1>3, SinPedido, UnPedido
<1>6. \A b \in Archivos : mapeado'[b] = IF b = a THEN mapeado[a] \cup {p} ELSE mapeado[b]
  BY <1>1, <1>3 DEF FormaTablas
<1>7. \A q \in Procesos : pedido'[q].op = "ELIMINAR" => pedido[q].op = "ELIMINAR"
  BY <1>5, SinPedido
<1>8. \A b \in tabla_archivos : b \in Archivos
  BY <1>1 DEF FormaTablas
<1>9. QED
  BY <1>3, <1>4, <1>6, <1>7, <1>8 DEF AbandonoInv

\* A file that was not in the table has its first user.
LEMMA crearPaginasmapeadasA ==
  ASSUME MapasInv, AbandonoInv, UnSoloCompartido', [Next]_vars,
         NEW p \in Procesos, crearPaginasmapeadas(p)
  PROVE  AbandonoInv'
<1>1. FormaTablas /\ PedidoJusto(p)
  BY DEF MapasInv, TablasInv, PedidosJustos
<1>2. /\ CambiaElPedido(p, Ninguno) /\ UNCHANGED <<cerrados, abandonados>>
      /\ pedido[p].op = "MAPEAR"
  BY TablasAlCrear
<1>3. PICK a \in Archivos : a = pedido[p].archivo
  BY <1>1, <1>2 DEF PedidoJusto
<1>4. CASE UNCHANGED <<tabla_archivos, mapeado>>
  BY <1>2, <1>4, SinPedido, SigueAbandonoDe
<1>5. CASE tabla_archivos' = tabla_archivos \cup {a} /\ mapeado' = [mapeado EXCEPT ![a] = {p}]
  <2>1. pedido'[p] = Ninguno /\ \A q \in Procesos \ {p} : pedido'[q] = pedido[q]
    BY <1>1, <1>2, SinPedido, UnPedido
  <2>2. \A b \in Archivos : mapeado'[b] = IF b = a THEN {p} ELSE mapeado[b]
    BY <1>1, <1>5 DEF FormaTablas
  <2>3. \A q \in Procesos : pedido'[q].op = "ELIMINAR" => tabla_archivos' \subseteq abandonados'
    <3>1. SUFFICES ASSUME NEW q \in Procesos, pedido'[q].op = "ELIMINAR"
                   PROVE  tabla_archivos' \subseteq abandonados'
      OBVIOUS
    <3>2. pedido[q].op = "ELIMINAR"
      BY <2>1, <3>1, SinPedido
    <3>3. QED
      BY <1>2, <3>2, LaTablaSigue DEF AbandonoInv
  <2>4. \A b \in tabla_archivos : b \in Archivos
    BY <1>1 DEF FormaTablas
  <2>5. \A b \in Archivos : mapeado'[b] # {} => b \in tabla_archivos'
    BY <1>5, <2>2 DEF AbandonoInv
  <2>6. \A b \in tabla_archivos' : mapeado'[b] = {} => b \in abandonados'
    BY <1>2, <1>5, <2>2, <2>4 DEF AbandonoInv
  <2>7. cerrados' \subseteq abandonados'
    BY <1>2 DEF AbandonoInv
  <2>8. QED
    BY <2>3, <2>5, <2>6, <2>7 DEF AbandonoInv
<1>6. QED
  BY <1>3, <1>4, <1>5, TablasAlCrear

\* A process leaves a file: without it, the file may have nobody.
LEMMA DesligarA ==
  ASSUME MapasInv, AbandonoInv, NEW p \in Procesos, Desligar(p)
  PROVE  AbandonoInv'
<1>1. FormaTablas /\ ListasDeProcesos
  BY DEF MapasInv, TablasInv
<1>2. PICK a \in tabla_archivos : a = segmento[p].archivo
  BY <1>1, TablasAlDesligar DEF ListasDeProcesos
<1>3. /\ mapeado' = [mapeado EXCEPT ![a] = @ \ {p}]
      /\ CambiaElPedido(p, [Ninguno EXCEPT !.op = "REVISAR", !.archivo = a])
      /\ abandonados' = IF mapeado'[a] = {} THEN abandonados \cup {a} ELSE abandonados
      /\ UNCHANGED <<tabla_archivos, cerrados>>
  BY <1>2, TablasAlDesligar
<1>4. \A b \in tabla_archivos : b \in Archivos
  BY <1>1 DEF FormaTablas
<1>5. PICK r \in Pedido : CambiaElPedido(p, r) /\ r.op = "REVISAR"
  BY <1>2, <1>3, <1>4, PedidoDeRevisar
<1>6. pedido'[p] = r /\ \A q \in Procesos \ {p} : pedido'[q] = pedido[q]
  BY <1>1, <1>5, UnPedido
<1>7. \A q \in Procesos : pedido'[q].op = "ELIMINAR" => pedido[q].op = "ELIMINAR"
  BY <1>5, <1>6
<1>8. \A b \in Archivos : mapeado'[b] = IF b = a THEN mapeado[a] \ {p} ELSE mapeado[b]
  BY <1>1, <1>3 DEF FormaTablas
<1>9. abandonados \subseteq abandonados' /\ (mapeado'[a] = {} => a \in abandonados')
  BY <1>3
<1>10. \A b \in tabla_archivos : mapeado'[b] = {} => b \in abandonados'
  BY <1>4, <1>8, <1>9 DEF AbandonoInv
<1>11. \A b \in Archivos : mapeado'[b] # {} => b \in tabla_archivos
  BY <1>2, <1>8 DEF AbandonoInv
<1>12. QED
  BY <1>3, <1>7, <1>9, <1>10, <1>11 DEF AbandonoInv

\* Nobody has the file any more: the thread goes on to close it.
LEMMA RevisarUsuariosA ==
  ASSUME MapasInv, AbandonoInv, UnSoloCompartido, NEW p \in Procesos, RevisarUsuarios(p)
  PROVE  AbandonoInv'
<1>1. FormaTablas /\ PedidoJusto(p)
  BY DEF MapasInv, TablasInv, PedidosJustos
<1>2. pedido[p].op = "REVISAR" /\ UNCHANGED <<tabla_archivos, mapeado, cerrados, abandonados>>
  BY TablasAlRevisar DEF tabVars, hisVars
<1>3. CASE CambiaElPedido(p, Ninguno)
  BY <1>2, <1>3, SinPedido, SigueAbandonoDe
<1>4. CASE /\ mapeado[pedido[p].archivo] = {}
           /\ CambiaElPedido(p, [Ninguno EXCEPT !.op = "ELIMINAR"])
  <2>1. pedido[p].archivo \in tabla_archivos
    BY <1>1, <1>2 DEF PedidoJusto
  <2>2. tabla_archivos \subseteq abandonados
    BY <1>4, <2>1 DEF AbandonoInv, UnSoloCompartido
  <2>3. QED
    BY <1>2, <2>2 DEF AbandonoInv
<1>5. QED
  BY <1>3, <1>4, TablasAlRevisar

\* The file is closed.
LEMMA EliminarFantasmaA ==
  ASSUME MapasInv, AbandonoInv, NEW p \in Procesos, EliminarFantasma(p)
  PROVE  AbandonoInv'
<1>1. pedido[p].op = "ELIMINAR"
  BY DEF EliminarFantasma
<1>2. CASE fantasma = <<>> /\ Caer
  BY <1>2, CaeA
<1>3. CASE /\ fantasma # <<>> /\ CambiaElPedido(p, Ninguno)
           /\ cerrados' = cerrados \cup {Head(fantasma)}
           /\ UNCHANGED <<tabla_archivos, mapeado, abandonados>>
  <2>1. Head(fantasma) \in abandonados
    BY <1>1, <1>3 DEF MapasInv, TablasInv, FormaTablas, AbandonoInv
  <2>2. pedido'[p] = Ninguno /\ \A q \in Procesos \ {p} : pedido'[q] = pedido[q]
    BY <1>3, SinPedido, UnPedido DEF MapasInv, TablasInv
  <2>3. \A q \in Procesos : pedido'[q].op = "ELIMINAR" => pedido[q].op = "ELIMINAR"
    BY <2>2, SinPedido
  <2>4. QED
    BY <1>3, <2>1, <2>3 DEF AbandonoInv
<1>4. QED
  BY <1>2, <1>3, Zenon DEF EliminarFantasma, Contestar, CambiaElPedido

LEMMA AbandonoPaso ==
  ASSUME MapasInv, AbandonoInv, UnSoloCompartido', [Next]_vars
  PROVE  AbandonoInv'
<1>1. UnSoloCompartido
  BY LaTablaCrece DEF UnSoloCompartido
<1>2. CASE UNCHANGED vars
  BY <1>2, SigueAbandono DEF vars
<1>3. ASSUME NEW p \in Procesos, Rechazar(p) \/ NoAbre(p) \/ DesligarPrivado(p)
      PROVE  AbandonoInv'
  <2>1. CambiaElPedido(p, Ninguno) /\ UNCHANGED <<tabla_archivos, mapeado, cerrados, abandonados>>
    BY <1>3 DEF Rechazar, NoAbre, DesligarPrivado, Contestar, CambiaElPedido, tabVars, hisVars
  <2>2. QED
    BY <2>1, SinPedido, SigueAbandonoDe
<1>4. ASSUME NEW p \in Procesos, fopenSync(p)
      PROVE  AbandonoInv'
  <2>1. UNCHANGED <<tabla_archivos, mapeado, cerrados, abandonados, pedido>>
    BY <1>4 DEF fopenSync, tabVars, hisVars
  <2>2. QED
    BY <2>1, SigueAbandono
<1>5. ASSUME NEW p \in Procesos, syncMuse(p)
      PROVE  AbandonoInv'
  <2>1. \/ Caer
        \/ /\ CambiaElPedido(p, Ninguno) \/ UNCHANGED pedido
           /\ UNCHANGED <<tabla_archivos, mapeado, cerrados, abandonados>>
    BY <1>5 DEF syncMuse, Contestar, CambiaElPedido, tabVars, hisVars
  <2>2. QED
    BY <2>1, CaeA, SinPedido, SigueAbandono, SigueAbandonoDe
<1>6. ASSUME NEW p \in Procesos, NEW n \in Numeros, getMuse(p, n)
      PROVE  AbandonoInv'
  <2>1. Caer \/ UNCHANGED <<tabla_archivos, mapeado, cerrados, abandonados, pedido>>
    BY <1>6 DEF getMuse, tabVars, hisVars
  <2>2. QED
    BY <2>1, CaeA, SigueAbandono
<1>7. ASSUME NEW p \in Procesos, NEW n \in Numeros, NEW v \in Valores, copiarMuse(p, n, v)
      PROVE  AbandonoInv'
  <2>1. Caer \/ UNCHANGED <<tabla_archivos, mapeado, cerrados, abandonados, pedido>>
    BY <1>7 DEF copiarMuse, tabVars
  <2>2. QED
    BY <2>1, CaeA, SigueAbandono
<1>8. CASE Next
  <2>1. PICK p \in Procesos :
          \/ \E a \in Archivos, flag \in {"PRIVATE", "SHARED"} : muse_map(p, a, flag)
          \/ \E n \in 1..Paginas : muse_sync(p, n)
          \/ muse_unmap(p)
          \/ muse_close(p)
          \/ Rechazar(p)
          \/ NoAbre(p)
          \/ Compartir(p)
          \/ crearPaginasmapeadas(p)
          \/ fopenSync(p)
          \/ syncMuse(p)
          \/ \E n \in Numeros : getMuse(p, n)
          \/ \E n \in Numeros, v \in Valores : copiarMuse(p, n, v)
          \/ DesligarPrivado(p)
          \/ Desligar(p)
          \/ RevisarUsuarios(p)
          \/ EliminarFantasma(p)
    BY <1>8, Zenon DEF Next
  <2>2. QED
    BY <1>1, <1>3, <1>4, <1>5, <1>6, <1>7, <2>1, PideA, CompartirA, crearPaginasmapeadasA,
       DesligarA, RevisarUsuariosA, EliminarFantasmaA
<1>9. QED
  BY <1>2, <1>8

\* While only one file has been mapped MAP_SHARED, whoever has it mapped has all
\* its pages, and they have not been given back, as long as it has been in use
\* without a break: however the others unmap it or end, with sem_mapeo or without.
THEOREM UsoSinPausaConUnArchivo == Spec => [](UnSoloCompartido => UsoSinPausa)
<1> DEFINE I == UnSoloCompartido => MapasInv /\ AbandonoInv
<1>1. Init => I
  <2>1. SUFFICES ASSUME Init
                 PROVE  I
    OBVIOUS
  <2>2. AbandonoInv
    BY <2>1, SinPedido DEF Init, AbandonoInv
  <2>3. QED
    BY <2>1, <2>2, AlPrincipio
<1>2. I /\ [Next]_vars => I'
  <2>1. [Next]_vars /\ UnSoloCompartido' => UnSoloCompartido
    BY LaTablaCrece DEF UnSoloCompartido
  <2>2. QED
    BY <2>1, MapasPaso, AbandonoPaso
<1>3. I => (UnSoloCompartido => UsoSinPausa)
  BY DEF AbandonoInv, MapasInv, TablasInv, ListasDeArchivos, UsoSinPausa
<1> HIDE DEF I
<1>4. QED
  BY <1>1, <1>2, <1>3, PTL DEF Spec
=============================================================================
