------------------------- MODULE MUSEMarcos_proofs -------------------------
(***************************************************************************)
(* Theorems about MUSEMarcos.  Whatever the requests and however they       *)
(* interleave, no frame is of two pages and the bitmaps tell which are in   *)
(* use.  With one request at a time, swap always finds the page of its      *)
(* victim unless it is of the segment being made, and every page has what   *)
(* was copied to it.                                                        *)
(***************************************************************************)
EXTENDS MUSEMarcos, FiniteSetTheorems, WellFoundedInduction, TLAPS

-----------------------------------------------------------------------------
(* Least elements *)

\* A set of numbers that is not empty has a least one: the intervals that end
\* in its elements are finite, and one of them includes no other.
LEMMA Minimo ==
  ASSUME NEW S \in SUBSET Nat, S # {}
  PROVE  \E i \in S : \A j \in S : i <= j
<1> DEFINE T == {0..i : i \in S}
<1>1. T \subseteq FiniteSubsetsOf(Nat) /\ T # {}
  <2>1. ASSUME NEW i \in S
        PROVE  0..i \in FiniteSubsetsOf(Nat)
    BY FS_Interval DEF FiniteSubsetsOf
  <2>2. QED
    BY <2>1
<1>2. PICK A \in T : \A B \in T : <<B, A>> \notin StrictSubsetOrdering(Nat)
  BY <1>1, FS_StrictSubsetOrderingWellFounded, WFMin
<1>3. PICK i \in S : A = 0..i
  OBVIOUS
<1>4. ASSUME NEW j \in S, j < i
      PROVE  FALSE
  <2>1. 0..j \in SUBSET (0..i) /\ 0..j # 0..i
    BY <1>4
  <2>2. <<0..j, 0..i>> \in StrictSubsetOrdering(Nat)
    BY <2>1 DEF StrictSubsetOrdering
  <2>3. QED
    BY <1>2, <1>3, <2>2
<1>5. QED
  BY <1>4

LEMMA MenorEsta ==
  ASSUME NEW S \in SUBSET Nat, S # {}
  PROVE  Menor(S) \in S
BY Minimo DEF Menor

\* The first of some frames in the order of the clock is one of them.
LEMMA PrimeroEsta ==
  ASSUME NEW i \in Marcos, NEW S \in SUBSET Marcos, S # {}
  PROVE  Primero(i, S) \in S
<1> DEFINE D == {Distancia(i, f) : f \in S}
<1>1. \A f \in Marcos : Distancia(i, f) \in Nat
  BY ConstantesMUSE DEF Distancia, Marcos
<1>2. D \in SUBSET Nat /\ D # {}
  BY <1>1
<1>3. PICK d \in D : \A e \in D : d <= e
  BY <1>2, Minimo
<1>4. \E f \in S : \A g \in S : Distancia(i, f) <= Distancia(i, g)
  BY <1>3
<1>5. QED
  BY <1>4 DEF Primero

\* The victim is a frame, whatever the clock.
LEMMA VictimaEsta ==
  ASSUME NEW i \in Marcos
  PROVE  Victima(i) \in Marcos
<1>1. ASSUME NEW u, NEW m, Con_um(u, m) # {}
      PROVE  Primero(i, Con_um(u, m)) \in Marcos
  <2>1. Con_um(u, m) \in SUBSET Marcos
    BY DEF Con_um
  <2>2. QED
    BY <1>1, <2>1, PrimeroEsta
<1> HIDE DEF Con_um
<1>2. /\ Con_um(0, 0) # {} => Primero(i, Con_um(0, 0)) \in Marcos
      /\ Con_um(0, 1) # {} => Primero(i, Con_um(0, 1)) \in Marcos
      /\ Con_um(1, 0) # {} => Primero(i, Con_um(1, 0)) \in Marcos
  BY <1>1
<1>3. QED
  BY <1>2 DEF Victima

LEMMA Siguiente ==
  ASSUME NEW f \in Marcos
  PROVE  (f + 1) % CantidadPaginas \in Marcos
BY ConstantesMUSE DEF Marcos

-----------------------------------------------------------------------------
(* Things in places of their own *)

\* Each of the things of C is in a place of O of its own, and none is left.
UnoAUno(L, C, O) ==
  /\ \A x \in C : L[x] \in O
  /\ \A x, y \in C : L[x] = L[y] => x = y
  /\ \A r \in O : \E x \in C : L[x] = r

LEMMA UnoMenos ==
  ASSUME NEW L, NEW C, NEW O, UnoAUno(L, C, O), NEW x \in C
  PROVE  UnoAUno(L, C \ {x}, O \ {L[x]})
BY DEF UnoAUno

LEMMA UnoMas ==
  ASSUME NEW L, NEW C, NEW O, UnoAUno(L, C, O), NEW M, NEW x, NEW r,
         r \notin O, M[x] = r, \A y \in C : M[y] = L[y]
  PROVE  UnoAUno(M, C \cup {x}, O \cup {r})
BY DEF UnoAUno

LEMMA UnoIgual ==
  ASSUME NEW L, NEW C, NEW O, UnoAUno(L, C, O), NEW M, \A y \in C : M[y] = L[y]
  PROVE  UnoAUno(M, C, O)
BY DEF UnoAUno

\* There are as many things as places.
LEMMA UnoCuenta ==
  ASSUME NEW L, NEW C, NEW O, UnoAUno(L, C, O), IsFiniteSet(C)
  PROVE  IsFiniteSet(O) /\ Cardinality(O) = Cardinality(C)
<1> DEFINE g == [x \in C |-> L[x]]
<1>1. g \in Bijection(C, O)
  BY DEF UnoAUno, Bijection, Injection, Surjection, IsInjective
<1>2. QED
  BY <1>1, FS_Bijection DEF ExistsBijection

-----------------------------------------------------------------------------
(* What has a frame *)

Registro == [p : {1}, marco : Marcos] \cup [p : {0}, marco : MarcosSwap]
EnMemoria(f) == [p |-> 1, marco |-> f]
EnSwap(s) == [p |-> 0, marco |-> s]
ListaDePaginas == UNION {[D -> Registro] : D \in SUBSET Numeros}

\* What has a frame: the pages, and for each thread that has counted one out
\* and not cleared its bit, the frame it keeps.
Resto == -1
Cosas == Paginas \cup {<<p, Resto>> : p \in Devolviendo}
Lugar(x) ==
  IF x[2] = Resto THEN [p |-> pedido[x[1]].v, marco |-> pedido[x[1]].i] ELSE En(x)
Lugares == [x \in Cosas |-> Lugar(x)]

\* The frames whose bit is set.
Sitios(A, B) == [p : {1}, marco : A] \cup [p : {0}, marco : B]
Ocupados == Sitios(bitmap_marcos, bitmap_swap)

LugaresJustos == UnoAUno(Lugares, Cosas, Ocupados)

\* The clock entry of a frame in use names what is in it, or nothing; what is
\* being given back is named as a page that is no more.
Nombra(c, x) ==
  c.id = x[1] /\ IF x[2] = Resto THEN c.pag \notin DOMAIN paginas[x[1]] ELSE c.pag = x[2]
ClockJusto ==
  \A x \in Cosas : Lugar(x).p = 1 =>
    LET c == clock[Lugar(x).marco] IN c.id = Nadie \/ Nombra(c, x)

FormaMarcos ==
  /\ bitmap_marcos \subseteq Marcos /\ bitmap_swap \subseteq MarcosSwap
  /\ clock \in [Marcos -> Clock]
  /\ punteros \subseteq Marcos /\ punteros # {}
  /\ memoria \in [Marcos -> Contenido] /\ espacio \in [MarcosSwap -> Contenido]
  /\ paginas \in [Procesos -> ListaDePaginas]

Pedido ==
  [op : {"ninguno", "reservar", "ajustar", "copiar", "obtener", "cerrar"},
   paso : {"", "crear", "buscar", "usar", "quitar", "bit", "clock"},
   i : Nat, hasta : Nat, v : {0, 1} \cup Versiones, primera : BOOLEAN, cola : BOOLEAN]
FormaPedidos == pedido \in [Procesos -> Pedido]

\* The memory, with the frames of the requests that give them back.
MemoriaInv == FormaMarcos /\ LugaresJustos /\ ClockJusto

-----------------------------------------------------------------------------

LEMMA Conjuntos ==
  /\ Numeros \subseteq Nat /\ Resto \notin Numeros /\ 0 \in Numeros
  /\ Marcos \subseteq Nat /\ MarcosSwap \subseteq Nat /\ 0 \in Marcos
  /\ IsFiniteSet(Numeros) /\ IsFiniteSet(Marcos) /\ IsFiniteSet(MarcosSwap)
  /\ Cardinality(Marcos) = CantidadPaginas /\ Cardinality(MarcosSwap) = PaginasSwap
<1>1. \A p \in Procesos : MaxPaginas[p] \in Nat \ {0}
  BY ConstantesMUSE
<1>2. Numeros \subseteq Nat /\ Resto \notin Numeros /\ 0 \in Numeros
  BY <1>1, ConstantesMUSE DEF Numeros, Resto
<1>3. IsFiniteSet(Numeros)
  <2> DEFINE g == [p \in Procesos |-> 0..MaxPaginas[p] - 1]
             T == {0..MaxPaginas[p] - 1 : p \in Procesos}
  <2>1. g \in Surjection(Procesos, T)
    BY DEF Surjection
  <2>2. IsFiniteSet(T)
    BY <2>1, FS_Surjection, ConstantesMUSE
  <2>3. ASSUME NEW U \in T
        PROVE  IsFiniteSet(U)
    <3>1. PICK p \in Procesos : U = 0..MaxPaginas[p] - 1
      OBVIOUS
    <3>2. PICK k \in Int : k = MaxPaginas[p] - 1
      BY <1>1
    <3>3. IsFiniteSet(0..k)
      BY FS_Interval
    <3>4. QED
      BY <3>1, <3>2, <3>3
  <2>4. QED
    BY <2>2, <2>3, FS_UNION DEF Numeros
<1>4. \A n \in Nat : IsFiniteSet(0..n - 1) /\ Cardinality(0..n - 1) = n
  <2>1. TAKE n \in Nat
  <2>2. n - 1 \in Int
    OBVIOUS
  <2>3. IsFiniteSet(0..n - 1) /\ Cardinality(0..n - 1) = IF 0 > n - 1 THEN 0 ELSE n - 1 - 0 + 1
    BY <2>2, FS_Interval
  <2>4. QED
    BY <2>3
<1>5. QED
  BY <1>2, <1>3, <1>4, ConstantesMUSE DEF Marcos, MarcosSwap

\* A page is a number in a table.
LEMMA UnaPagina ==
  /\ \A p \in Procesos : \A n : <<p, n>> \in Paginas <=> n \in DOMAIN paginas[p]
  /\ \A x \in Paginas :
       x[1] \in Procesos /\ x = <<x[1], x[2]>> /\ x[2] \in DOMAIN paginas[x[1]]
BY DEF Paginas

\* What the tables are.
LEMMA UnaLista ==
  ASSUME NEW l \in ListaDePaginas
  PROVE  /\ DOMAIN l \subseteq Numeros /\ l \in [DOMAIN l -> Registro]
         /\ \A n \in DOMAIN l : l[n] \in Registro
<1>1. PICK D \in SUBSET Numeros : l \in [D -> Registro]
  BY DEF ListaDePaginas
<1>2. QED
  BY <1>1

LEMMA UnaTabla ==
  ASSUME FormaMarcos, NEW p \in Procesos
  PROVE  /\ paginas[p] \in ListaDePaginas /\ DOMAIN paginas[p] \subseteq Numeros
         /\ \A n \in DOMAIN paginas[p] : paginas[p][n] \in Registro
BY UnaLista DEF FormaMarcos

LEMMA ConLista ==
  ASSUME NEW l \in ListaDePaginas, NEW n \in Numeros, NEW r \in Registro
  PROVE  /\ Con(l, n, r) \in ListaDePaginas
         /\ DOMAIN Con(l, n, r) = DOMAIN l \cup {n} /\ Con(l, n, r)[n] = r
         /\ \A k \in DOMAIN l \ {n} : Con(l, n, r)[k] = l[k]
<1>1. PICK D \in SUBSET Numeros : l \in [D -> Registro]
  BY DEF ListaDePaginas
<1>2. Con(l, n, r) \in [D \cup {n} -> Registro] /\ D \cup {n} \in SUBSET Numeros
  BY <1>1 DEF Con
<1>3. Con(l, n, r) \in ListaDePaginas
  BY <1>2 DEF ListaDePaginas
<1>4. QED
  BY <1>1, <1>3 DEF Con

LEMMA SinLista ==
  ASSUME NEW l \in ListaDePaginas, NEW n
  PROVE  LET m == [k \in DOMAIN l \ {n} |-> l[k]] IN
         /\ m \in ListaDePaginas
         /\ DOMAIN m = DOMAIN l \ {n}
         /\ \A k \in DOMAIN l \ {n} : m[k] = l[k]
<1>1. PICK D \in SUBSET Numeros : l \in [D -> Registro]
  BY DEF ListaDePaginas
<1> DEFINE m == [k \in DOMAIN l \ {n} |-> l[k]]
<1>2. m \in [D \ {n} -> Registro] /\ D \ {n} \in SUBSET Numeros
  BY <1>1
<1>3. m \in ListaDePaginas
  BY <1>2 DEF ListaDePaginas
<1>4. QED
  BY <1>1, <1>3

\* Two records with the same fields are the same.
LEMMA Registros ==
  /\ \A r \in Registro : \/ r = EnMemoria(r.marco) /\ r.p = 1 /\ r.marco \in Marcos
                         \/ r = EnSwap(r.marco) /\ r.p = 0 /\ r.marco \in MarcosSwap
  /\ \A f \in Marcos : EnMemoria(f) \in Registro
  /\ \A s \in MarcosSwap : EnSwap(s) \in Registro
  /\ \A f : EnMemoria(f).p = 1 /\ EnMemoria(f).marco = f
  /\ \A s : EnSwap(s).p = 0 /\ EnSwap(s).marco = s
  /\ \A f, s : EnMemoria(f) # EnSwap(s)
<1>1. ASSUME NEW r \in [p : {1}, marco : Marcos]
      PROVE  r = EnMemoria(r.marco) /\ r.p = 1 /\ r.marco \in Marcos
  BY DEF EnMemoria
<1>2. ASSUME NEW r \in [p : {0}, marco : MarcosSwap]
      PROVE  r = EnSwap(r.marco) /\ r.p = 0 /\ r.marco \in MarcosSwap
  BY DEF EnSwap
<1>3. /\ \A f \in Marcos : EnMemoria(f) \in Registro
      /\ \A s \in MarcosSwap : EnSwap(s) \in Registro
  BY DEF Registro, EnMemoria, EnSwap
<1>4. \A r \in Registro : r \in [p : {1}, marco : Marcos] \/ r \in [p : {0}, marco : MarcosSwap]
  BY Zenon DEF Registro
<1>5. /\ \A f : EnMemoria(f).p = 1 /\ EnMemoria(f).marco = f
      /\ \A s : EnSwap(s).p = 0 /\ EnSwap(s).marco = s
  BY DEF EnMemoria, EnSwap
<1>6. \A f, s : EnMemoria(f) # EnSwap(s)
  <2>1. TAKE f, s
  <2>2. EnMemoria(f).p = 1 /\ EnSwap(s).p = 0
    BY <1>5
  <2>3. QED
    BY <2>2
<1>7. QED
  BY <1>1, <1>2, <1>3, <1>4, <1>5, <1>6, Zenon

\* The places of some frames of memory and some of swap.
LEMMA LosSitios ==
  ASSUME NEW A, NEW B
  PROVE  /\ \A f : EnMemoria(f) \in Sitios(A, B) <=> f \in A
         /\ \A s : EnSwap(s) \in Sitios(A, B) <=> s \in B
         /\ \A r \in Sitios(A, B) : \/ r = EnMemoria(r.marco) /\ r.p = 1 /\ r.marco \in A
                                    \/ r = EnSwap(r.marco) /\ r.p = 0 /\ r.marco \in B
<1>1. ASSUME NEW r \in [p : {1}, marco : A]
      PROVE  r = EnMemoria(r.marco) /\ r.p = 1 /\ r.marco \in A
  BY DEF EnMemoria
<1>2. ASSUME NEW r \in [p : {0}, marco : B]
      PROVE  r = EnSwap(r.marco) /\ r.p = 0 /\ r.marco \in B
  BY DEF EnSwap
<1>3. \A r \in Sitios(A, B) : r \in [p : {1}, marco : A] \/ r \in [p : {0}, marco : B]
  BY Zenon DEF Sitios
<1>4. \A r \in Sitios(A, B) : \/ r = EnMemoria(r.marco) /\ r.p = 1 /\ r.marco \in A
                              \/ r = EnSwap(r.marco) /\ r.p = 0 /\ r.marco \in B
  BY <1>1, <1>2, <1>3, Zenon
<1>5. /\ \A f \in A : EnMemoria(f) \in Sitios(A, B)
      /\ \A s \in B : EnSwap(s) \in Sitios(A, B)
  BY DEF Sitios, EnMemoria, EnSwap
<1>6. ASSUME NEW f, EnMemoria(f) \in Sitios(A, B)
      PROVE  f \in A
  <2>1. EnMemoria(f).p = 1 /\ EnMemoria(f).marco = f
    BY Registros
  <2>2. QED
    BY <1>4, <1>6, <2>1
<1>7. ASSUME NEW s, EnSwap(s) \in Sitios(A, B)
      PROVE  s \in B
  <2>1. EnSwap(s).p = 0 /\ EnSwap(s).marco = s
    BY Registros
  <2>2. QED
    BY <1>4, <1>7, <2>1
<1>8. QED
  BY <1>4, <1>5, <1>6, <1>7

\* The places in use, by what their bits say.
LEMMA Ocupado ==
  /\ \A f : EnMemoria(f) \in Ocupados <=> f \in bitmap_marcos
  /\ \A s : EnSwap(s) \in Ocupados <=> s \in bitmap_swap
  /\ \A r \in Ocupados : \/ r = EnMemoria(r.marco) /\ r.p = 1 /\ r.marco \in bitmap_marcos
                         \/ r = EnSwap(r.marco) /\ r.p = 0 /\ r.marco \in bitmap_swap
BY LosSitios DEF Ocupados

\* What a thing is, and where.
LEMMA UnaCosa ==
  ASSUME FormaMarcos, FormaPedidos
  PROVE  /\ Paginas \subseteq Cosas
         /\ \A x \in Cosas : /\ x[1] \in Procesos /\ x = <<x[1], x[2]>>
                             /\ Lugares[x] = Lugar(x)
                             /\ x[2] = Resto => x[1] \in Devolviendo
                             /\ x[2] # Resto => x \in Paginas
         /\ \A p \in Devolviendo : /\ <<p, Resto>> \in Cosas /\ p \in Procesos
                                   /\ Lugar(<<p, Resto>>) = [p |-> pedido[p].v, marco |-> pedido[p].i]
         /\ \A x \in Paginas : x[2] # Resto /\ Lugar(x) = En(x) /\ En(x) \in Registro
         /\ \A p \in Procesos : <<p, Resto>> \in Cosas => p \in Devolviendo
<1>1. \A x \in Paginas : x[2] \in Numeros /\ En(x) \in Registro
  BY UnaPagina, UnaTabla DEF En
<1>2. \A x \in Paginas : x[2] # Resto
  BY <1>1, Conjuntos
<1>3. \A x \in Cosas : x \in Paginas \/ \E p \in Devolviendo : x = <<p, Resto>>
  BY DEF Cosas
<1>4. Devolviendo \subseteq Procesos
  BY DEF Devolviendo
<1>5. \A x \in Cosas : Lugares[x] = Lugar(x)
  BY DEF Lugares
<1>6. \A x \in Paginas : Lugar(x) = En(x)
  BY <1>2 DEF Lugar
<1>7. Paginas \subseteq Cosas /\ \A p \in Devolviendo : <<p, Resto>> \in Cosas
  BY DEF Cosas
<1>8. \A p \in Devolviendo : Lugar(<<p, Resto>>) = [p |-> pedido[p].v, marco |-> pedido[p].i]
  BY DEF Lugar
<1>9. \A x \in Cosas : /\ x[1] \in Procesos /\ x = <<x[1], x[2]>>
                       /\ x[2] = Resto => x[1] \in Devolviendo
                       /\ x[2] # Resto => x \in Paginas
  BY <1>2, <1>3, <1>4, UnaPagina
<1>10. QED
  BY <1>1, <1>2, <1>4, <1>5, <1>6, <1>7, <1>8, <1>9

-----------------------------------------------------------------------------
(* What the steps do to the memory *)

\* The threads that are giving a frame back go on with it.
Fichas == Devolviendo' = Devolviendo /\ \A q \in Devolviendo : pedido'[q] = pedido[q]

\* The page n of p comes from the frame s of swap, or is new.
Viene(p, n, s) ==
  IF n \in DOMAIN paginas[p] THEN paginas[p][n] = EnSwap(s) ELSE s \notin bitmap_swap

\* The pages other than w keep what they hold.
Conserva(w) ==
  \A x \in Paginas \ {w} : Guardado(x[1], x[2])' = Guardado(x[1], x[2])

\* A table with a page in another frame, or with a new one.
Puesta(T, p, n, r) == [T EXCEPT ![p] = Con(@, n, r)]

LEMMA ConTabla ==
  ASSUME NEW T \in [Procesos -> ListaDePaginas], NEW p \in Procesos, NEW n \in Numeros,
         NEW r \in Registro, NEW U, U = Puesta(T, p, n, r)
  PROVE  /\ U \in [Procesos -> ListaDePaginas] /\ DOMAIN U[p] = DOMAIN T[p] \cup {n}
         /\ U[p][n] = r /\ \A k \in DOMAIN T[p] \ {n} : U[p][k] = T[p][k]
         /\ \A q \in Procesos \ {p} : U[q] = T[q]
<1>1. T[p] \in ListaDePaginas
  OBVIOUS
<1>2. /\ Con(T[p], n, r) \in ListaDePaginas
      /\ DOMAIN Con(T[p], n, r) = DOMAIN T[p] \cup {n} /\ Con(T[p], n, r)[n] = r
      /\ \A k \in DOMAIN T[p] \ {n} : Con(T[p], n, r)[k] = T[p][k]
  BY <1>1, ConLista, ZenonT(60)
<1>3. U[p] = Con(T[p], n, r) /\ \A q \in Procesos \ {p} : U[q] = T[q]
  BY DEF Puesta
<1>4. U \in [Procesos -> ListaDePaginas]
  BY <1>2 DEF Puesta
<1>5. QED
  BY <1>2, <1>3, <1>4

\* What has a frame once a page has one.
LEMMA ConCosas ==
  ASSUME FormaMarcos, FormaPedidos, FormaPedidos', Fichas,
         paginas' \in [Procesos -> ListaDePaginas],
         NEW p \in Procesos, NEW n \in Numeros,
         DOMAIN paginas'[p] = DOMAIN paginas[p] \cup {n},
         \A q \in Procesos \ {p} : DOMAIN paginas'[q] = DOMAIN paginas[q]
  PROVE  /\ Paginas' = Paginas \cup {<<p, n>>} /\ Cosas' = Cosas \cup {<<p, n>>}
         /\ \A x \in Cosas' : Lugares'[x] = Lugar(x)'
         /\ \A x \in Paginas' : Lugar(x)' = paginas'[x[1]][x[2]] /\ x[2] # Resto
         /\ \A q \in Devolviendo : Lugar(<<q, Resto>>)' = Lugar(<<q, Resto>>)
         /\ (<<p, n>> \in Cosas <=> n \in DOMAIN paginas[p]) /\ n # Resto
<1>1. Paginas' = Paginas \cup {<<p, n>>}
  <2>1. \A q \in Procesos : \A k : k \in DOMAIN paginas'[q] <=> k \in DOMAIN paginas[q] \/ (q = p /\ k = n)
    OBVIOUS
  <2>2. QED
    BY <2>1 DEF Paginas
<1>2. Cosas' = Cosas \cup {<<p, n>>}
  BY <1>1 DEF Cosas, Fichas
<1>3. \A x \in Cosas' : Lugares'[x] = Lugar(x)'
  BY DEF Lugares
<1>4. ASSUME NEW x \in Paginas'
      PROVE  Lugar(x)' = paginas'[x[1]][x[2]] /\ x[2] # Resto
  <2>1. x[2] \in Numeros
    BY <1>1, <1>4, UnaPagina, UnaTabla
  <2>2. QED
    BY <2>1, Conjuntos DEF Lugar, En, Resto
<1>5. \A q \in Devolviendo : Lugar(<<q, Resto>>)' = Lugar(<<q, Resto>>)
  BY DEF Lugar, Fichas, Resto
<1>6. n # Resto
  BY Conjuntos
<1>7. <<p, n>> \in Cosas <=> n \in DOMAIN paginas[p]
  BY <1>6, UnaCosa, UnaPagina
<1>8. QED
  BY <1>1, <1>2, <1>3, <1>4, <1>5, <1>6, <1>7

\* The others are in their places.
LEMMA SinElla ==
  ASSUME MemoriaInv, FormaPedidos, NEW p \in Procesos, NEW n \in Numeros, NEW s, Viene(p, n, s)
  PROVE  UnoAUno(Lugares, Cosas \ {<<p, n>>}, Ocupados \ {EnSwap(s)})
<1>1. UnoAUno(Lugares, Cosas, Ocupados) /\ FormaMarcos
  BY DEF MemoriaInv, LugaresJustos
<1>2. <<p, n>> \in Cosas <=> n \in DOMAIN paginas[p]
  BY <1>1, UnaCosa, UnaPagina, Conjuntos
<1>3. CASE n \in DOMAIN paginas[p]
  <2>1. Lugares[<<p, n>>] = EnSwap(s)
    BY <1>1, <1>3, UnaCosa, UnaPagina DEF Viene, En
  <2>2. QED
    BY <1>1, <1>2, <1>3, <2>1, UnoMenos
<1>4. CASE n \notin DOMAIN paginas[p]
  <2>1. Cosas \ {<<p, n>>} = Cosas /\ Ocupados \ {EnSwap(s)} = Ocupados
    BY <1>2, <1>4, Ocupado DEF Viene
  <2>2. QED
    BY <1>1, <2>1
<1>5. QED
  BY <1>3, <1>4

\* The memory does not change, but for what it holds and the bits of the clock.
LEMMA Quieta ==
  ASSUME MemoriaInv, FormaPedidos, FormaPedidos', Fichas,
         UNCHANGED <<bitmap_marcos, bitmap_swap, punteros, paginas>>,
         memoria' \in [Marcos -> Contenido], espacio' \in [MarcosSwap -> Contenido],
         clock' \in [Marcos -> Clock],
         \A f \in Marcos : \/ clock'[f].id = Nadie
                           \/ clock'[f].id = clock[f].id /\ clock'[f].pag = clock[f].pag
  PROVE  MemoriaInv'
<1>1. FormaMarcos'
  BY DEF MemoriaInv, FormaMarcos
<1>2. Paginas' = Paginas
  BY DEF Paginas
<1>3. Cosas' = Cosas
  BY <1>2 DEF Cosas, Fichas
<1>4. Ocupados' = Ocupados
  BY DEF Ocupados
<1>5. ASSUME NEW x \in Cosas
      PROVE  Lugares'[x] = Lugares[x] /\ Lugar(x)' = Lugar(x)
  <2>1. Lugares'[x] = Lugar(x)' /\ Lugares[x] = Lugar(x)
    BY <1>3 DEF Lugares
  <2>2. x[2] = Resto => x[1] \in Devolviendo
    BY UnaCosa DEF MemoriaInv
  <2>3. Lugar(x)' = Lugar(x)
    BY <2>2 DEF Lugar, En, Fichas, Resto
  <2>4. QED
    BY <2>1, <2>3
<1>6. LugaresJustos'
  <2>1. UnoAUno(Lugares, Cosas, Ocupados)
    BY DEF MemoriaInv, LugaresJustos
  <2>2. UnoAUno(Lugares', Cosas, Ocupados)
    BY <1>5, <2>1, UnoIgual
  <2>3. QED
    BY <1>3, <1>4, <2>2 DEF LugaresJustos
<1>7. ClockJusto'
  <2>1. SUFFICES ASSUME NEW x \in Cosas, Lugar(x).p = 1
                 PROVE  LET c == clock'[Lugar(x).marco] IN
                        c.id = Nadie \/ (/\ c.id = x[1]
                                         /\ IF x[2] = Resto THEN c.pag \notin DOMAIN paginas[x[1]]
                                                           ELSE c.pag = x[2])
    BY <1>3, <1>5 DEF ClockJusto, Nombra
  <2>2. Lugar(x).marco \in Marcos
    <3>1. Lugar(x) \in Ocupados
      BY UnaCosa DEF MemoriaInv, LugaresJustos, UnoAUno
    <3>2. QED
      BY <2>1, <3>1, Ocupado DEF MemoriaInv, FormaMarcos
  <2>3. LET c == clock[Lugar(x).marco] IN c.id = Nadie \/ Nombra(c, x)
    BY <2>1 DEF MemoriaInv, ClockJusto
  <2>4. QED
    BY <2>2, <2>3 DEF Nombra
<1>8. QED
  BY <1>1, <1>6, <1>7 DEF MemoriaInv

\* The clock names exactly the page in each frame.
ClockExacto ==
  \A w \in Paginas :
    En(w).p = 1 => clock[En(w).marco].id = w[1] /\ clock[En(w).marco].pag = w[2]

LEMMA EntradaEsClock ==
  ASSUME NEW p \in Procesos, NEW n \in Numeros
  PROVE  Entrada(p, n) \in Clock /\ Entrada(p, n).id = p /\ Entrada(p, n).pag = n
BY DEF Entrada, Clock

LEMMA MismoLugar ==
  ASSUME Fichas, NEW x, x[2] = Resto => x[1] \in Devolviendo,
         x[2] # Resto => paginas'[x[1]][x[2]] = paginas[x[1]][x[2]]
  PROVE  Lugar(x)' = Lugar(x)
BY DEF Fichas, Lugar, En, Resto

LEMMA OcupadosSon ==
  ASSUME NEW O, \A r \in O : r = EnMemoria(r.marco) \/ r = EnSwap(r.marco),
         \A f : EnMemoria(f) \in O <=> f \in bitmap_marcos',
         \A s : EnSwap(s) \in O <=> s \in bitmap_swap'
  PROVE  Ocupados' = O
<1>1. /\ \A f : EnMemoria(f) \in Ocupados' <=> f \in bitmap_marcos'
      /\ \A s : EnSwap(s) \in Ocupados' <=> s \in bitmap_swap'
      /\ \A r \in Ocupados' : r = EnMemoria(r.marco) \/ r = EnSwap(r.marco)
  BY LosSitios DEF Ocupados
<1>2. ASSUME NEW r \in O
      PROVE  r \in Ocupados'
  BY <1>1
<1>3. ASSUME NEW r \in Ocupados'
      PROVE  r \in O
  BY <1>1
<1>4. QED
  BY <1>2, <1>3

\* A thing that has a place has it where its bit says.
LEMMA EnSuLugar ==
  ASSUME MemoriaInv, FormaPedidos, NEW x \in Cosas
  PROVE  \/ /\ Lugar(x) = EnMemoria(Lugar(x).marco) /\ Lugar(x).p = 1
            /\ Lugar(x).marco \in bitmap_marcos /\ Lugar(x).marco \in Marcos
         \/ /\ Lugar(x) = EnSwap(Lugar(x).marco) /\ Lugar(x).p = 0
            /\ Lugar(x).marco \in bitmap_swap /\ Lugar(x).marco \in MarcosSwap
<1>1. FormaMarcos /\ Lugar(x) \in Ocupados
  BY UnaCosa DEF MemoriaInv, LugaresJustos, UnoAUno
<1>2. QED
  BY <1>1, Ocupado DEF FormaMarcos

\* The clock names what is in each frame after the page w gets its own.
LEMMA ClockPone ==
  ASSUME MemoriaInv, FormaPedidos, Fichas, NEW p \in Procesos \ Devolviendo, NEW n \in Numeros,
         Cosas' = Cosas \cup {<<p, n>>}, Paginas' = Paginas \cup {<<p, n>>},
         \A q \in Procesos \ {p} : DOMAIN paginas'[q] = DOMAIN paginas[q],
         \A x \in Paginas' : Lugar(x)' = paginas'[x[1]][x[2]],
         Lugar(<<p, n>>)'.p = 1 =>
           /\ clock'[Lugar(<<p, n>>)'.marco].id = p
           /\ clock'[Lugar(<<p, n>>)'.marco].pag = n,
         \A x \in Cosas \ {<<p, n>>} :
           Lugar(x)'.p = 1 =>
             /\ Lugar(x)' = Lugar(x)
             /\ clock'[Lugar(x).marco].id = clock[Lugar(x).marco].id
             /\ clock'[Lugar(x).marco].pag = clock[Lugar(x).marco].pag
  PROVE  ClockJusto' /\ (ClockExacto => ClockExacto')
<1> DEFINE w == <<p, n>>
<1>1. n # Resto /\ w[1] = p /\ w[2] = n
  BY Conjuntos
<1>2. \A x \in Cosas : x[1] \in Procesos /\ (x[2] = Resto => x[1] \in Devolviendo)
  BY UnaCosa DEF MemoriaInv
<1>3. ClockJusto'
  <2> DEFINE Dice(c, x) == c.id = Nadie
                \/ (c.id = x[1] /\ IF x[2] = Resto THEN c.pag \notin DOMAIN paginas'[x[1]]
                                                   ELSE c.pag = x[2])
  <2>1. SUFFICES ASSUME NEW x \in Cosas \cup {w}, Lugar(x)'.p = 1
                 PROVE  Dice(clock'[Lugar(x)'.marco], x)
    BY DEF ClockJusto, Nombra
  <2>2. CASE x = w
    BY <1>1, <2>1, <2>2
  <2>3. CASE x \in Cosas \ {w}
    <3>1. /\ Lugar(x)' = Lugar(x) /\ Lugar(x).p = 1
          /\ clock'[Lugar(x).marco].id = clock[Lugar(x).marco].id
          /\ clock'[Lugar(x).marco].pag = clock[Lugar(x).marco].pag
      BY <2>1, <2>3
    <3>2. clock[Lugar(x).marco].id = Nadie \/ Nombra(clock[Lugar(x).marco], x)
      BY <2>3, <3>1 DEF MemoriaInv, ClockJusto
    <3>3. x[2] = Resto => DOMAIN paginas'[x[1]] = DOMAIN paginas[x[1]]
      BY <1>2, <2>3
    <3>4. QED
      BY <3>1, <3>2, <3>3 DEF Nombra
  <2>4. QED
    BY <2>2, <2>3
<1>4. ASSUME ClockExacto
      PROVE  ClockExacto'
  <2>1. SUFFICES ASSUME NEW x \in Paginas \cup {w}, Lugar(x)'.p = 1
                 PROVE  clock'[Lugar(x)'.marco].id = x[1] /\ clock'[Lugar(x)'.marco].pag = x[2]
    BY DEF ClockExacto, En
  <2>2. CASE x = w
    BY <1>1, <2>1, <2>2
  <2>3. CASE x \in Paginas \ {w}
    <3>1. x \in Cosas \ {w} /\ Lugar(x) = En(x)
      BY <2>3, UnaCosa DEF MemoriaInv
    <3>2. QED
      BY <1>4, <2>1, <2>3, <3>1 DEF ClockExacto
  <2>4. QED
    BY <2>2, <2>3
<1>5. QED
  BY <1>3, <1>4

\* A page comes to a free frame, from swap or because it is new.
LEMMA PoneLibre ==
  ASSUME MemoriaInv, FormaPedidos, FormaPedidos', Fichas,
         NEW p \in Procesos \ Devolviendo, NEW n \in Numeros, NEW s, Viene(p, n, s),
         NEW f \in Marcos \ bitmap_marcos,
         bitmap_marcos' = bitmap_marcos \cup {f}, bitmap_swap' = bitmap_swap \ {s},
         clock' = [clock EXCEPT ![f] = Entrada(p, n)], punteros' = punteros,
         memoria' \in [Marcos -> Contenido], espacio' \in [MarcosSwap -> Contenido],
         \A g \in Marcos \ {f} : memoria'[g] = memoria[g],
         \A e \in MarcosSwap \ {s} : espacio'[e] = espacio[e],
         paginas' = [paginas EXCEPT ![p] = Con(@, n, EnMemoria(f))]
  PROVE  /\ MemoriaInv' /\ Conserva(<<p, n>>) /\ (ClockExacto => ClockExacto')
         /\ Guardado(p, n)' = memoria'[f]
         /\ DOMAIN paginas'[p] = DOMAIN paginas[p] \cup {n} /\ paginas'[p][n] = EnMemoria(f)
         /\ \A q \in Procesos \ {p} : DOMAIN paginas'[q] = DOMAIN paginas[q]
<1> DEFINE w == <<p, n>>
           O == (Ocupados \ {EnSwap(s)}) \cup {EnMemoria(f)}
<1>1. /\ FormaMarcos /\ EnMemoria(f) \in Registro
      /\ EnMemoria(f).p = 1 /\ EnMemoria(f).marco = f
  BY Registros DEF MemoriaInv
<1>2. /\ paginas' \in [Procesos -> ListaDePaginas] /\ DOMAIN paginas'[p] = DOMAIN paginas[p] \cup {n}
      /\ paginas'[p][n] = EnMemoria(f)
      /\ \A k \in DOMAIN paginas[p] \ {n} : paginas'[p][k] = paginas[p][k]
      /\ \A q \in Procesos \ {p} : paginas'[q] = paginas[q]
  <2>1. paginas \in [Procesos -> ListaDePaginas]
    BY <1>1 DEF FormaMarcos
  <2>2. paginas' = Puesta(paginas, p, n, EnMemoria(f))
    BY DEF Puesta
  <2>3. QED
    BY <1>1, <2>1, <2>2, ConTabla
<1>3. /\ Paginas' = Paginas \cup {w} /\ Cosas' = Cosas \cup {w}
      /\ \A x \in Cosas' : Lugares'[x] = Lugar(x)'
      /\ \A x \in Paginas' : Lugar(x)' = paginas'[x[1]][x[2]] /\ x[2] # Resto
      /\ (w \in Cosas <=> n \in DOMAIN paginas[p]) /\ n # Resto
  BY <1>1, <1>2, ConCosas
<1>4. Lugar(w)' = EnMemoria(f)
  BY <1>2, <1>3
<1>5. ASSUME NEW x \in Cosas \ {w}
      PROVE  Lugar(x)' = Lugar(x) /\ Lugares[x] = Lugar(x) /\ Lugares'[x] = Lugar(x)
  <2>1. /\ x[1] \in Procesos /\ x = <<x[1], x[2]>> /\ Lugares[x] = Lugar(x)
        /\ x[2] = Resto => x[1] \in Devolviendo
        /\ x[2] # Resto => x \in Paginas
    BY <1>1, UnaCosa
  <2>2. x[2] # Resto => paginas'[x[1]][x[2]] = paginas[x[1]][x[2]]
    <3>1. x[2] # Resto => x[2] \in DOMAIN paginas[x[1]] /\ (x[1] # p \/ x[2] # n)
      BY <2>1, UnaPagina
    <3>2. QED
      BY <1>2, <2>1, <3>1
  <2>3. QED
    BY <1>3, <2>1, <2>2, MismoLugar
<1>6. UnoAUno(Lugares, Cosas \ {w}, Ocupados \ {EnSwap(s)})
  BY SinElla
<1>7. UnoAUno(Lugares', Cosas', O)
  <2>1. EnMemoria(f) \notin Ocupados \ {EnSwap(s)}
    BY Ocupado
  <2>2. Lugares'[w] = EnMemoria(f)
    BY <1>3, <1>4
  <2>3. UnoAUno(Lugares', (Cosas \ {w}) \cup {w}, O)
    BY <1>5, <1>6, <2>1, <2>2, UnoMas
  <2>4. (Cosas \ {w}) \cup {w} = Cosas'
    BY <1>3
  <2>5. QED
    BY <2>3, <2>4
<1>8. LugaresJustos'
  <2>1. /\ \A r \in O : r = EnMemoria(r.marco) \/ r = EnSwap(r.marco)
        /\ \A g : EnMemoria(g) \in O <=> g \in bitmap_marcos'
        /\ \A e : EnSwap(e) \in O <=> e \in bitmap_swap'
    BY <1>1, Ocupado, Registros
  <2> HIDE DEF O
  <2>2. QED
    BY <1>7, <2>1, OcupadosSon DEF LugaresJustos
<1>9. \A x \in Cosas \ {w} :
        \/ Lugar(x).p = 1 /\ Lugar(x).marco \in Marcos \ {f}
        \/ Lugar(x).p = 0 /\ Lugar(x).marco \in MarcosSwap \ {s}
  <2>1. \A x \in Cosas \ {w} : Lugar(x) # EnSwap(s)
    BY <1>5, <1>6 DEF UnoAUno
  <2>2. QED
    BY <2>1, EnSuLugar
<1>10. ClockJusto' /\ (ClockExacto => ClockExacto')
  <2>1. /\ clock'[f].id = p /\ clock'[f].pag = n
        /\ \A g \in Marcos \ {f} : clock'[g] = clock[g]
    BY <1>1, EntradaEsClock DEF FormaMarcos
  <2>2. \A q \in Procesos \ {p} : DOMAIN paginas'[q] = DOMAIN paginas[q]
    BY <1>2
  <2>3. \A x \in Paginas' : Lugar(x)' = paginas'[x[1]][x[2]]
    BY <1>3
  <2>4. /\ clock'[Lugar(w)'.marco].id = p
        /\ clock'[Lugar(w)'.marco].pag = n
    BY <1>1, <1>4, <2>1
  <2>5. \A x \in Cosas \ {w} :
          Lugar(x)'.p = 1 =>
            /\ Lugar(x)' = Lugar(x)
            /\ clock'[Lugar(x).marco].id = clock[Lugar(x).marco].id
            /\ clock'[Lugar(x).marco].pag = clock[Lugar(x).marco].pag
    BY <1>5, <1>9, <2>1
  <2>6. QED
    BY <1>3, <2>2, <2>3, <2>4, <2>5, ClockPone
<1>11. Conserva(w) /\ Guardado(p, n)' = memoria'[f]
  <2>1. \A x \in Paginas \ {w} : x \in Cosas \ {w} /\ Lugar(x) = paginas[x[1]][x[2]] /\ Lugar(x)' = paginas'[x[1]][x[2]]
    BY <1>1, <1>3, UnaCosa DEF En
  <2>2. QED
    BY <1>1, <1>2, <1>5, <1>9, <2>1 DEF Conserva, Guardado
<1>12. FormaMarcos'
  BY <1>1, <1>2, EntradaEsClock DEF FormaMarcos
<1>13. QED
  BY <1>2, <1>8, <1>10, <1>11, <1>12 DEF MemoriaInv

\* A new page takes a free frame of swap.
LEMMA PoneEnSwap ==
  ASSUME MemoriaInv, FormaPedidos, FormaPedidos', Fichas,
         NEW p \in Procesos \ Devolviendo, NEW n \in Numeros \ DOMAIN paginas[p],
         NEW s \in MarcosSwap \ bitmap_swap,
         bitmap_swap' = bitmap_swap \cup {s},
         UNCHANGED <<bitmap_marcos, clock, punteros, memoria, espacio>>,
         paginas' = [paginas EXCEPT ![p] = Con(@, n, EnSwap(s))]
  PROVE  /\ MemoriaInv' /\ Conserva(<<p, n>>) /\ (ClockExacto => ClockExacto')
         /\ DOMAIN paginas'[p] = DOMAIN paginas[p] \cup {n}
         /\ \A q \in Procesos \ {p} : DOMAIN paginas'[q] = DOMAIN paginas[q]
<1> DEFINE w == <<p, n>>
           O == Ocupados \cup {EnSwap(s)}
<1>1. /\ FormaMarcos /\ EnSwap(s) \in Registro
      /\ EnSwap(s).p = 0 /\ EnSwap(s).marco = s
  BY Registros DEF MemoriaInv
<1>2. /\ paginas' \in [Procesos -> ListaDePaginas] /\ DOMAIN paginas'[p] = DOMAIN paginas[p] \cup {n}
      /\ paginas'[p][n] = EnSwap(s)
      /\ \A k \in DOMAIN paginas[p] \ {n} : paginas'[p][k] = paginas[p][k]
      /\ \A q \in Procesos \ {p} : paginas'[q] = paginas[q]
  <2>1. paginas \in [Procesos -> ListaDePaginas]
    BY <1>1 DEF FormaMarcos
  <2>2. paginas' = Puesta(paginas, p, n, EnSwap(s))
    BY DEF Puesta
  <2>3. QED
    BY <1>1, <2>1, <2>2, ConTabla
<1>3. /\ Paginas' = Paginas \cup {w} /\ Cosas' = Cosas \cup {w}
      /\ \A x \in Cosas' : Lugares'[x] = Lugar(x)'
      /\ \A x \in Paginas' : Lugar(x)' = paginas'[x[1]][x[2]] /\ x[2] # Resto
      /\ (w \in Cosas <=> n \in DOMAIN paginas[p]) /\ n # Resto
  BY <1>1, <1>2, ConCosas
<1>4. Lugar(w)' = EnSwap(s) /\ w \notin Cosas
  BY <1>2, <1>3
<1>5. ASSUME NEW x \in Cosas
      PROVE  Lugar(x)' = Lugar(x) /\ Lugares[x] = Lugar(x) /\ Lugares'[x] = Lugar(x)
  <2>1. /\ x[1] \in Procesos /\ x = <<x[1], x[2]>> /\ Lugares[x] = Lugar(x)
        /\ x[2] = Resto => x[1] \in Devolviendo
        /\ x[2] # Resto => x \in Paginas
    BY <1>1, UnaCosa
  <2>2. x[2] # Resto => paginas'[x[1]][x[2]] = paginas[x[1]][x[2]]
    <3>1. x[2] # Resto => x[2] \in DOMAIN paginas[x[1]] /\ (x[1] # p \/ x[2] # n)
      BY <2>1, UnaPagina
    <3>2. QED
      BY <1>2, <2>1, <3>1
  <2>3. QED
    BY <1>3, <2>1, <2>2, MismoLugar
<1>6. UnoAUno(Lugares, Cosas, Ocupados)
  BY DEF MemoriaInv, LugaresJustos
<1>7. UnoAUno(Lugares', Cosas', O)
  <2>1. EnSwap(s) \notin Ocupados
    BY Ocupado
  <2>2. Lugares'[w] = EnSwap(s)
    BY <1>3, <1>4
  <2>3. QED
    BY <1>3, <1>5, <1>6, <2>1, <2>2, UnoMas
<1>8. LugaresJustos'
  <2>1. /\ \A r \in O : r = EnMemoria(r.marco) \/ r = EnSwap(r.marco)
        /\ \A g : EnMemoria(g) \in O <=> g \in bitmap_marcos'
        /\ \A e : EnSwap(e) \in O <=> e \in bitmap_swap'
    BY <1>1, Ocupado, Registros
  <2> HIDE DEF O
  <2>2. QED
    BY <1>7, <2>1, OcupadosSon DEF LugaresJustos
<1>9. ClockJusto' /\ (ClockExacto => ClockExacto')
  <2>1. \A q \in Procesos \ {p} : DOMAIN paginas'[q] = DOMAIN paginas[q]
    BY <1>2
  <2>2. \A x \in Paginas' : Lugar(x)' = paginas'[x[1]][x[2]]
    BY <1>3
  <2>3. Lugar(w)'.p # 1
    BY <1>1, <1>4
  <2>4. \A x \in Cosas \ {w} :
          Lugar(x)'.p = 1 =>
            /\ Lugar(x)' = Lugar(x)
            /\ clock'[Lugar(x).marco].id = clock[Lugar(x).marco].id
            /\ clock'[Lugar(x).marco].pag = clock[Lugar(x).marco].pag
    BY <1>5
  <2>5. QED
    BY <1>3, <2>1, <2>2, <2>3, <2>4, ClockPone
<1>10. Conserva(w)
  <2>1. \A x \in Paginas \ {w} : x \in Cosas /\ Lugar(x) = paginas[x[1]][x[2]] /\ Lugar(x)' = paginas'[x[1]][x[2]]
    BY <1>1, <1>3, UnaCosa DEF En
  <2>2. QED
    BY <1>5, <2>1 DEF Conserva, Guardado
<1>11. FormaMarcos'
  BY <1>1, <1>2 DEF FormaMarcos
<1>12. QED
  BY <1>2, <1>8, <1>9, <1>10, <1>11 DEF MemoriaInv

\* The page an entry of the clock names, when it is found.
LaDe(c) == <<c.id, c.pag>>

\* With no free frame, the page that swap finds by the clock is the one that is
\* in the frame of the victim.
LEMMA LaVictima ==
  ASSUME MemoriaInv, FormaPedidos, procesos \subseteq Procesos,
         NEW f \in bitmap_marcos, Encontrable(clock[f])
  PROVE  /\ clock[f].id \in Procesos /\ clock[f].pag \in DOMAIN paginas[clock[f].id]
         /\ LaDe(clock[f]) \in Paginas /\ En(LaDe(clock[f])) = EnMemoria(f)
<1>1. FormaMarcos /\ EnMemoria(f) \in Ocupados /\ EnMemoria(f).p = 1 /\ EnMemoria(f).marco = f
  BY Ocupado, Registros DEF MemoriaInv
<1>2. clock[f].id \in Procesos /\ clock[f].pag \in DOMAIN paginas[clock[f].id] /\ clock[f].id # Nadie
  BY ConstantesMUSE DEF Encontrable
<1>3. PICK x \in Cosas : Lugares[x] = EnMemoria(f)
  BY <1>1 DEF MemoriaInv, LugaresJustos, UnoAUno
<1>4. /\ Lugar(x) = EnMemoria(f) /\ x = <<x[1], x[2]>>
      /\ x[2] # Resto => x \in Paginas
      /\ x \in Paginas => Lugar(x) = En(x)
  BY <1>1, <1>3, UnaCosa
<1>5. Nombra(clock[f], x)
  BY <1>1, <1>2, <1>4 DEF MemoriaInv, ClockJusto
<1>6. x[2] # Resto
  BY <1>2, <1>5 DEF Nombra
<1>7. x = LaDe(clock[f])
  BY <1>4, <1>5, <1>6 DEF Nombra, LaDe
<1>8. QED
  BY <1>2, <1>4, <1>6, <1>7

\* A table with two pages in other frames, or the second one new.
DosPuestas(T, U, p, n, r, q, m, x) ==
  /\ U \in [Procesos -> ListaDePaginas]
  /\ DOMAIN U[p] = DOMAIN T[p] \cup {n} /\ U[p][n] = r
  /\ \A o \in Procesos \ {p} : DOMAIN U[o] = DOMAIN T[o]
  /\ U[q][m] = x
  /\ \A o \in Procesos : \A k \in DOMAIN T[o] :
       (o # p \/ k # n) /\ (o # q \/ k # m) => U[o][k] = T[o][k]

LEMMA ConDosTabla ==
  ASSUME NEW T \in [Procesos -> ListaDePaginas], NEW p \in Procesos, NEW n \in Numeros,
         NEW q \in Procesos, NEW m \in DOMAIN T[q], q # p \/ m # n,
         NEW r \in Registro, NEW x \in Registro,
         NEW U, U = Puesta(Puesta(T, q, m, x), p, n, r)
  PROVE  DosPuestas(T, U, p, n, r, q, m, x)
<1> DEFINE V == Puesta(T, q, m, x)
<1>1. m \in Numeros
  BY UnaLista
<1>2. /\ V \in [Procesos -> ListaDePaginas] /\ DOMAIN V[q] = DOMAIN T[q] \cup {m}
      /\ V[q][m] = x /\ \A k \in DOMAIN T[q] \ {m} : V[q][k] = T[q][k]
      /\ \A o \in Procesos \ {q} : V[o] = T[o]
  BY <1>1, ConTabla
<1> HIDE DEF V
<1>3. /\ U \in [Procesos -> ListaDePaginas] /\ DOMAIN U[p] = DOMAIN V[p] \cup {n}
      /\ U[p][n] = r /\ \A k \in DOMAIN V[p] \ {n} : U[p][k] = V[p][k]
      /\ \A o \in Procesos \ {p} : U[o] = V[o]
  <2>1. U = Puesta(V, p, n, r)
    BY DEF V
  <2>2. QED
    BY <1>2, <2>1, ConTabla
<1>4. \A o \in Procesos : DOMAIN V[o] = DOMAIN T[o]
  BY <1>2
<1>5. U[q][m] = x
  BY <1>2, <1>3, <1>4
<1>6. ASSUME NEW o \in Procesos, NEW k \in DOMAIN T[o], o # p \/ k # n, o # q \/ k # m
      PROVE  U[o][k] = T[o][k]
  <2>1. V[o][k] = T[o][k]
    BY <1>2, <1>6
  <2>2. k \in DOMAIN V[o]
    BY <1>4
  <2>3. U[o][k] = V[o][k]
    BY <1>3, <1>6, <2>2
  <2>4. QED
    BY <2>1, <2>3
<1>7. (\A o \in Procesos \ {p} : DOMAIN U[o] = DOMAIN T[o]) /\ DOMAIN U[p] = DOMAIN T[p] \cup {n}
  BY <1>3, <1>4
<1>8. QED
  BY <1>3, <1>5, <1>6, <1>7 DEF DosPuestas

\* What TraerPorVictima does to the tables: the page of the victim changes its
\* frame, then the page that comes.
LEMMA TablasDeVictima ==
  ASSUME paginas \in [Procesos -> ListaDePaginas], NEW p \in Procesos, NEW n \in Numeros,
         NEW q \in Procesos, NEW m \in DOMAIN paginas[q], q # p \/ m # n,
         NEW f \in Marcos, NEW d \in MarcosSwap,
         paginas' = [[paginas EXCEPT ![q][m] = EnSwap(d)] EXCEPT ![p] = Con(@, n, EnMemoria(f))]
  PROVE  DosPuestas(paginas, paginas', p, n, EnMemoria(f), q, m, EnSwap(d))
<1> DEFINE T == Puesta(paginas, q, m, EnSwap(d))
<1>1. EnSwap(d) \in Registro /\ EnMemoria(f) \in Registro
  BY Registros
<1>2. paginas[q] \in [DOMAIN paginas[q] -> Registro]
  BY UnaLista
<1>3. Con(paginas[q], m, EnSwap(d)) = [paginas[q] EXCEPT ![m] = EnSwap(d)]
  BY <1>2 DEF Con
<1>4. T = [paginas EXCEPT ![q][m] = EnSwap(d)]
  BY <1>3 DEF Puesta
<1>5. paginas' = Puesta(T, p, n, EnMemoria(f))
  <2> HIDE DEF T
  <2>1. QED
    BY <1>4 DEF Puesta
<1>6. paginas' = Puesta(Puesta(paginas, q, m, EnSwap(d)), p, n, EnMemoria(f))
  BY <1>5
<1>7. QED
  BY <1>1, <1>6, ConDosTabla

\* The places after a victim goes to the frame d of swap.
LEMMA SitiosDeVictima ==
  ASSUME NEW f \in bitmap_marcos, NEW s, NEW d, bitmap_marcos' = bitmap_marcos,
         bitmap_swap' = (bitmap_swap \ {s}) \cup {d}
  PROVE  Ocupados' = ((((Ocupados \ {EnSwap(s)}) \ {EnMemoria(f)}) \cup {EnSwap(d)})
                        \cup {EnMemoria(f)})
<1> DEFINE O == ((((Ocupados \ {EnSwap(s)}) \ {EnMemoria(f)}) \cup {EnSwap(d)})
                   \cup {EnMemoria(f)})
<1>1. /\ \A r \in O : r = EnMemoria(r.marco) \/ r = EnSwap(r.marco)
      /\ \A g : EnMemoria(g) \in O <=> g \in bitmap_marcos'
      /\ \A e : EnSwap(e) \in O <=> e \in bitmap_swap'
  <2>1. \A g, h : (EnMemoria(g) = EnMemoria(h) => g = h) /\ (EnSwap(g) = EnSwap(h) => g = h)
    <3>1. TAKE g, h
    <3>2. /\ EnMemoria(g).marco = g /\ EnMemoria(h).marco = h
          /\ EnSwap(g).marco = g /\ EnSwap(h).marco = h
      BY Registros
    <3>3. QED
      BY <3>2
  <2>2. \A g, e : EnMemoria(g) # EnSwap(e)
    BY Registros
  <2>3. /\ EnMemoria(f).marco = f /\ EnSwap(d).marco = d
        /\ \A r \in Ocupados : r = EnMemoria(r.marco) \/ r = EnSwap(r.marco)
    BY Ocupado, Registros
  <2>4. \A r \in O : r = EnMemoria(r.marco) \/ r = EnSwap(r.marco)
    BY <2>3
  <2>5. \A g : EnMemoria(g) \in O <=> g \in bitmap_marcos'
    BY <2>1, <2>2, Ocupado
  <2>6. \A e : EnSwap(e) \in O <=> e \in bitmap_swap'
    BY <2>1, <2>2, Ocupado
  <2>7. QED
    BY <2>4, <2>5, <2>6
<1> HIDE DEF O
<1>2. Ocupados' = O
  BY <1>1, OcupadosSon
<1>3. QED
  BY <1>2 DEF O

\* With no free frame, a page takes the frame of the victim, which goes to swap.
LEMMA PoneConVictima ==
  ASSUME MemoriaInv, FormaPedidos, FormaPedidos', Fichas, procesos \subseteq Procesos,
         NEW p \in Procesos \ Devolviendo, NEW n \in Numeros, NEW s \in MarcosSwap,
         Viene(p, n, s), NEW nueva, TraerPorVictima(p, n, s, nueva)
  PROVE  /\ MemoriaInv' /\ Conserva(<<p, n>>) /\ (ClockExacto => ClockExacto')
         /\ nueva = FALSE => Guardado(p, n)' = espacio[s]
         /\ DOMAIN paginas'[p] = DOMAIN paginas[p] \cup {n}
         /\ paginas'[p][n].p = 1
         /\ \A q \in Procesos \ {p} : DOMAIN paginas'[q] = DOMAIN paginas[q]
<1>0. PICK i, f, d, q, m :
      /\ i = Menor(punteros) /\ f = Victima(i) /\ q = clock[f].id /\ m = clock[f].pag
      /\ d = Menor(MarcosSwap \ (bitmap_swap \ {s}))
  OBVIOUS
<1> DEFINE w == <<p, n>>
           y == <<q, m>>
<1>1. /\ FormaMarcos /\ UnoAUno(Lugares, Cosas, Ocupados)
      /\ p \in Procesos /\ p \notin Devolviendo
  BY DEF MemoriaInv, LugaresJustos
<1>2. /\ bitmap_marcos = Marcos /\ Encontrable(clock[f])
      /\ punteros' = (punteros \ {i}) \cup {(f + 1) % CantidadPaginas}
      /\ clock' = [g \in Marcos |->
                     IF g = f THEN Entrada(p, n)
                     ELSE [clock[g] EXCEPT !.u = IF Limpia(i, g) THEN 0 ELSE @]]
      /\ bitmap_swap' = (bitmap_swap \ {s}) \cup {d}
      /\ espacio' = [espacio EXCEPT ![s] = SinDatos, ![d] = memoria[f]]
      /\ memoria' = [memoria EXCEPT ![f] = IF nueva THEN SinDatos ELSE espacio[s]]
      /\ paginas' = [[paginas EXCEPT ![q][m] = EnSwap(d)] EXCEPT ![p] = Con(@, n, EnMemoria(f))]
      /\ bitmap_marcos' = bitmap_marcos
  BY <1>0, <1>1 DEF TraerPorVictima, MarcosLibres, FormaMarcos, Auxiliar, EnSwap, EnMemoria
<1>3. i \in Marcos /\ f \in Marcos
  <2>1. punteros \in SUBSET Nat /\ punteros # {} /\ punteros \subseteq Marcos
    BY <1>1, Conjuntos DEF FormaMarcos
  <2>2. i \in Marcos
    BY <1>0, <2>1, MenorEsta
  <2>3. QED
    BY <1>0, <2>2, VictimaEsta
<1>4. d \in MarcosSwap /\ d \notin bitmap_swap \ {s}
  <2> DEFINE S == MarcosSwap \ (bitmap_swap \ {s})
  <2>1. S \in SUBSET Nat /\ S # {}
    BY Conjuntos
  <2>2. Menor(S) \in S
    BY <2>1, MenorEsta
  <2>3. QED
    BY <1>0, <2>2
<1>5. /\ q \in Procesos /\ m \in DOMAIN paginas[q] /\ y \in Paginas /\ En(y) = EnMemoria(f)
      /\ f \in bitmap_marcos
  BY <1>0, <1>2, <1>3, LaVictima DEF LaDe
<1>6. y # w /\ (q # p \/ m # n)
  <2>1. CASE n \in DOMAIN paginas[p]
    <3>1. En(w) = EnSwap(s)
      BY <2>1 DEF Viene, En
    <3>2. En(y) # En(w)
      BY <1>5, <3>1, Registros
    <3>3. QED
      BY <3>2
  <2>2. CASE n \notin DOMAIN paginas[p]
    BY <1>5, <2>2
  <2>3. QED
    BY <2>1, <2>2
<1>7. DosPuestas(paginas, paginas', p, n, EnMemoria(f), q, m, EnSwap(d))
  <2>1. paginas \in [Procesos -> ListaDePaginas]
    BY <1>1 DEF FormaMarcos
  <2>2. paginas' = [[paginas EXCEPT ![q][m] = EnSwap(d)] EXCEPT ![p] = Con(@, n, EnMemoria(f))]
    BY <1>2
  <2>3. /\ p \in Procesos /\ q \in Procesos /\ m \in DOMAIN paginas[q]
        /\ f \in Marcos /\ d \in MarcosSwap
    BY <1>1, <1>3, <1>4, <1>5
  <2>4. QED
    BY <1>6, <2>1, <2>2, <2>3, TablasDeVictima
<1>8. /\ paginas' \in [Procesos -> ListaDePaginas]
      /\ DOMAIN paginas'[p] = DOMAIN paginas[p] \cup {n} /\ paginas'[p][n] = EnMemoria(f)
      /\ \A o \in Procesos \ {p} : DOMAIN paginas'[o] = DOMAIN paginas[o]
      /\ paginas'[q][m] = EnSwap(d)
      /\ \A o \in Procesos : \A k \in DOMAIN paginas[o] :
           (o # p \/ k # n) /\ (o # q \/ k # m) => paginas'[o][k] = paginas[o][k]
  BY <1>7 DEF DosPuestas
<1>9. /\ Paginas' = Paginas \cup {w} /\ Cosas' = Cosas \cup {w}
      /\ \A x \in Cosas' : Lugares'[x] = Lugar(x)'
      /\ \A x \in Paginas' : Lugar(x)' = paginas'[x[1]][x[2]] /\ x[2] # Resto
      /\ (w \in Cosas <=> n \in DOMAIN paginas[p]) /\ n # Resto
  BY <1>1, <1>8, ConCosas
<1>10. /\ Lugar(w)' = EnMemoria(f) /\ Lugar(y)' = EnSwap(d)
       /\ Lugares'[w] = EnMemoria(f) /\ Lugares'[y] = EnSwap(d)
       /\ y \in Cosas \ {w} /\ Lugar(y) = EnMemoria(f) /\ Lugares[y] = EnMemoria(f)
  <2>1. y \in Cosas \ {w} /\ Lugar(y) = EnMemoria(f) /\ Lugares[y] = EnMemoria(f)
    BY <1>1, <1>5, <1>6, UnaCosa
  <2>2. Lugar(w)' = EnMemoria(f) /\ Lugar(y)' = EnSwap(d)
    BY <1>5, <1>8, <1>9
  <2>3. QED
    BY <1>9, <2>1, <2>2
<1>11. ASSUME NEW x \in (Cosas \ {w}) \ {y}
       PROVE  Lugar(x)' = Lugar(x) /\ Lugares[x] = Lugar(x) /\ Lugares'[x] = Lugar(x)
  <2>1. /\ x[1] \in Procesos /\ x = <<x[1], x[2]>> /\ Lugares[x] = Lugar(x)
        /\ x[2] = Resto => x[1] \in Devolviendo
        /\ x[2] # Resto => x \in Paginas
    BY <1>1, UnaCosa
  <2>2. x[2] # Resto => paginas'[x[1]][x[2]] = paginas[x[1]][x[2]]
    <3>1. x[2] # Resto => /\ x[2] \in DOMAIN paginas[x[1]]
                          /\ (x[1] # p \/ x[2] # n) /\ (x[1] # q \/ x[2] # m)
      BY <2>1, UnaPagina
    <3>2. QED
      BY <1>8, <2>1, <3>1
  <2>3. QED
    BY <1>9, <2>1, <2>2, MismoLugar
<1>12. UnoAUno(Lugares, Cosas \ {w}, Ocupados \ {EnSwap(s)})
  BY <1>1, SinElla
<1>13. UnoAUno(Lugares, (Cosas \ {w}) \ {y}, (Ocupados \ {EnSwap(s)}) \ {EnMemoria(f)})
  BY <1>10, <1>12, UnoMenos
<1>14. LugaresJustos'
  <2> DEFINE O == (Ocupados \ {EnSwap(s)}) \ {EnMemoria(f)}
             C == (Cosas \ {w}) \ {y}
  <2>1. UnoAUno(Lugares, C, O)
    BY <1>13
  <2>2. EnSwap(d) \notin O /\ EnMemoria(f) \notin O \cup {EnSwap(d)}
    <3>1. EnSwap(d) \in Ocupados => d = s
      BY <1>4, Ocupado
    <3>2. EnMemoria(f) # EnSwap(d)
      BY Registros
    <3>3. QED
      BY <3>1, <3>2
  <2>3. \A x \in C : Lugares'[x] = Lugares[x]
    BY <1>11
  <2>4. (C \cup {y}) \cup {w} = Cosas'
    BY <1>9, <1>10
  <2> DEFINE M == Lugares'
  <2>12. M[y] = EnSwap(d) /\ M[w] = EnMemoria(f) /\ \A x \in C : M[x] = Lugares[x]
    BY <1>10, <2>3
  <2> HIDE DEF O, C, M
  <2>5. UnoAUno(M, C \cup {y}, O \cup {EnSwap(d)})
    BY <2>1, <2>2, <2>12, UnoMas
  <2>6. \A x \in C \cup {y} : M[x] = M[x]
    OBVIOUS
  <2>7. UnoAUno(M, (C \cup {y}) \cup {w}, (O \cup {EnSwap(d)}) \cup {EnMemoria(f)})
    BY <2>2, <2>5, <2>6, <2>12, UnoMas
  <2>8. Ocupados' = (O \cup {EnSwap(d)}) \cup {EnMemoria(f)}
    <3>1. bitmap_marcos' = bitmap_marcos /\ bitmap_swap' = (bitmap_swap \ {s}) \cup {d}
      BY <1>2
    <3>2. QED
      BY <1>5, <3>1, SitiosDeVictima DEF O
  <2>9. QED
    BY <2>4, <2>7, <2>8 DEF LugaresJustos, M
<1>15. \A x \in (Cosas \ {w}) \ {y} :
         \/ Lugar(x).p = 1 /\ Lugar(x).marco \in Marcos \ {f}
         \/ Lugar(x).p = 0 /\ Lugar(x).marco \in MarcosSwap \ {s, d}
  <2>1. \A x \in (Cosas \ {w}) \ {y} : Lugar(x) # EnSwap(s) /\ Lugar(x) # EnMemoria(f)
    BY <1>11, <1>13 DEF UnoAUno
  <2>2. QED
    BY <1>4, <2>1, EnSuLugar
<1>16. /\ clock'[f].id = p /\ clock'[f].pag = n
       /\ \A g \in Marcos \ {f} : clock'[g].id = clock[g].id /\ clock'[g].pag = clock[g].pag
       /\ clock' \in [Marcos -> Clock]
  <2>1. clock \in [Marcos -> Clock]
    BY <1>1 DEF FormaMarcos
  <2>2. ASSUME NEW g \in Marcos \ {f}
        PROVE  clock'[g].id = clock[g].id /\ clock'[g].pag = clock[g].pag /\ clock'[g] \in Clock
    <3>1. clock[g] \in Clock
      BY <2>1
    <3>2. clock'[g] = [clock[g] EXCEPT !.u = IF Limpia(i, g) THEN 0 ELSE @]
      BY <1>2
    <3>3. QED
      BY <3>1, <3>2 DEF Clock
  <2>3. clock'[f] = Entrada(p, n)
    BY <1>2, <1>3
  <2>4. \A g \in Marcos : clock'[g] \in Clock
    BY <1>1, <2>2, <2>3, EntradaEsClock
  <2>5. DOMAIN clock' = Marcos /\ clock' = [g \in Marcos |-> clock'[g]]
    BY <1>2
  <2>6. QED
    BY <1>1, <2>2, <2>3, <2>4, <2>5, EntradaEsClock
<1>17. ClockJusto' /\ (ClockExacto => ClockExacto')
  <2>1. \A o \in Procesos \ {p} : DOMAIN paginas'[o] = DOMAIN paginas[o]
    BY <1>8
  <2>2. \A x \in Paginas' : Lugar(x)' = paginas'[x[1]][x[2]]
    BY <1>9
  <2>3. /\ clock'[Lugar(w)'.marco].id = p
        /\ clock'[Lugar(w)'.marco].pag = n
    <3>1. Lugar(w)'.marco = f
      BY <1>10, Registros
    <3>2. QED
      BY <1>16, <3>1
  <2>4. \A x \in Cosas \ {w} :
          Lugar(x)'.p = 1 =>
            /\ Lugar(x)' = Lugar(x)
            /\ clock'[Lugar(x).marco].id = clock[Lugar(x).marco].id
            /\ clock'[Lugar(x).marco].pag = clock[Lugar(x).marco].pag
    <3>1. Lugar(y)'.p # 1
      BY <1>10, Registros
    <3>2. QED
      BY <1>11, <1>15, <1>16, <3>1
  <2>5. QED
    BY <1>9, <2>1, <2>2, <2>3, <2>4, ClockPone
<1>18. /\ memoria' \in [Marcos -> Contenido] /\ espacio' \in [MarcosSwap -> Contenido]
       /\ memoria'[f] = IF nueva THEN SinDatos ELSE espacio[s]
       /\ espacio'[d] = memoria[f]
       /\ \A g \in Marcos \ {f} : memoria'[g] = memoria[g]
       /\ \A e \in MarcosSwap \ {s, d} : espacio'[e] = espacio[e]
  <2>1. SinDatos \in Contenido
    BY DEF Contenido
  <2>2. memoria \in [Marcos -> Contenido] /\ espacio \in [MarcosSwap -> Contenido]
    BY <1>1 DEF FormaMarcos
  <2> HIDE DEF Contenido, SinDatos
  <2>3. QED
    BY <1>2, <1>3, <1>4, <2>1, <2>2
<1>19. Conserva(w) /\ (nueva = FALSE => Guardado(p, n)' = espacio[s])
  <2>1. \A x \in Paginas \ {w} : x \in Cosas \ {w} /\ Lugar(x) = paginas[x[1]][x[2]] /\ Lugar(x)' = paginas'[x[1]][x[2]]
    BY <1>1, <1>9, UnaCosa DEF En
  <2>2. /\ EnMemoria(f).p = 1 /\ EnMemoria(f).marco = f
        /\ EnSwap(d).p = 0 /\ EnSwap(d).marco = d
    BY Registros
  <2>3. nueva = FALSE => Guardado(p, n)' = espacio[s]
    BY <1>8, <1>18, <2>2 DEF Guardado
  <2>4. Guardado(q, m)' = Guardado(q, m)
    BY <1>8, <1>5, <1>18, <2>2 DEF Guardado, En
  <2>5. ASSUME NEW x \in (Paginas \ {w}) \ {y}
        PROVE  Guardado(x[1], x[2])' = Guardado(x[1], x[2])
    <3>1. /\ paginas'[x[1]][x[2]] = paginas[x[1]][x[2]] /\ Lugar(x) = paginas[x[1]][x[2]]
          /\ x \in (Cosas \ {w}) \ {y}
      BY <1>11, <2>1
    <3>2. \/ Lugar(x).p = 1 /\ Lugar(x).marco \in Marcos \ {f}
          \/ Lugar(x).p = 0 /\ Lugar(x).marco \in MarcosSwap \ {s, d}
      BY <1>15, <3>1
    <3>3. CASE Lugar(x).p = 1 /\ Lugar(x).marco \in Marcos \ {f}
      BY <1>18, <3>1, <3>3 DEF Guardado
    <3>4. CASE Lugar(x).p = 0 /\ Lugar(x).marco \in MarcosSwap \ {s, d}
      BY <1>18, <3>1, <3>4 DEF Guardado
    <3>5. QED
      BY <3>2, <3>3, <3>4
  <2>6. QED
    BY <2>3, <2>4, <2>5 DEF Conserva
<1>20. FormaMarcos'
  <2>1. punteros' \subseteq Marcos /\ punteros' # {}
    BY <1>1, <1>2, <1>3, Siguiente DEF FormaMarcos
  <2>2. bitmap_marcos' \subseteq Marcos /\ bitmap_swap' \subseteq MarcosSwap
    BY <1>1, <1>2, <1>4 DEF FormaMarcos
  <2>3. QED
    BY <1>8, <1>16, <1>18, <2>1, <2>2 DEF FormaMarcos
<1>21. QED
  BY <1>8, <1>14, <1>17, <1>19, <1>20, Registros DEF MemoriaInv

\* A page is counted out: its frame is now of the thread that gives it back.
LEMMA SacaPagina ==
  ASSUME MemoriaInv, FormaPedidos, FormaPedidos', NEW p \in Procesos \ Devolviendo,
         NEW n \in DOMAIN paginas[p],
         paginas' = [paginas EXCEPT ![p] = [k \in DOMAIN @ \ {n} |-> @[k]]],
         pedido'[p].paso = "bit", pedido'[p].i = paginas[p][n].marco,
         pedido'[p].v = paginas[p][n].p,
         \A q \in Procesos \ {p} : pedido'[q] = pedido[q],
         UNCHANGED marVars
  PROVE  /\ MemoriaInv' /\ (ClockExacto => ClockExacto')
         /\ Paginas' = Paginas \ {<<p, n>>} /\ <<p, n>> \in Paginas
         /\ \A x \in Paginas' : Guardado(x[1], x[2])' = Guardado(x[1], x[2])
         /\ DOMAIN paginas'[p] = DOMAIN paginas[p] \ {n}
         /\ \A q \in Procesos \ {p} : DOMAIN paginas'[q] = DOMAIN paginas[q]
<1> DEFINE w == <<p, n>>
           t == <<p, Resto>>
<1>1. /\ FormaMarcos /\ UnoAUno(Lugares, Cosas, Ocupados)
      /\ p \in Procesos /\ p \notin Devolviendo /\ n \in Numeros /\ n # Resto
  BY UnaTabla, Conjuntos DEF MemoriaInv, LugaresJustos
<1>2. /\ UNCHANGED <<bitmap_marcos, bitmap_swap, clock, punteros, memoria, espacio>>
      /\ Ocupados' = Ocupados
  BY DEF marVars, Ocupados
<1>3. /\ paginas' \in [Procesos -> ListaDePaginas] /\ DOMAIN paginas'[p] = DOMAIN paginas[p] \ {n}
      /\ \A k \in DOMAIN paginas[p] \ {n} : paginas'[p][k] = paginas[p][k]
      /\ \A q \in Procesos \ {p} : paginas'[q] = paginas[q]
  <2> DEFINE l == [k \in DOMAIN paginas[p] \ {n} |-> paginas[p][k]]
  <2>1. paginas \in [Procesos -> ListaDePaginas] /\ paginas[p] \in ListaDePaginas
    BY <1>1, UnaTabla DEF FormaMarcos
  <2>2. /\ l \in ListaDePaginas /\ DOMAIN l = DOMAIN paginas[p] \ {n}
        /\ \A k \in DOMAIN paginas[p] \ {n} : l[k] = paginas[p][k]
    BY <2>1, SinLista
  <2>3. paginas' = [paginas EXCEPT ![p] = l]
    OBVIOUS
  <2> HIDE DEF l
  <2>4. QED
    BY <1>1, <2>1, <2>2, <2>3
<1>4. Devolviendo' = Devolviendo \cup {p}
  BY <1>1 DEF Devolviendo
<1>5. Paginas' = Paginas \ {w} /\ w \in Paginas
  <2>1. \A q \in Procesos : \A k : k \in DOMAIN paginas'[q] <=> k \in DOMAIN paginas[q] /\ ~ (q = p /\ k = n)
    BY <1>3
  <2>2. QED
    BY <1>1, <2>1 DEF Paginas
<1>6. /\ w \in Cosas /\ t \notin Cosas /\ Cosas' = (Cosas \ {w}) \cup {t}
      /\ Lugares[w] = En(w) /\ Lugar(w) = En(w) /\ En(w) \in Registro /\ En(w) = paginas[p][n]
  <2>1. /\ w \in Cosas /\ t \notin Cosas /\ Lugares[w] = En(w) /\ Lugar(w) = En(w)
        /\ En(w) \in Registro /\ En(w) = paginas[p][n]
    BY <1>1, <1>5, UnaCosa DEF En
  <2>2. w \notin {<<q, Resto>> : q \in Devolviendo}
    BY <1>1
  <2>3. QED
    BY <1>4, <1>5, <2>1, <2>2 DEF Cosas
<1>7. Lugar(t)' = En(w) /\ Lugares'[t] = En(w)
  <2>1. Lugar(t)' = [p |-> pedido'[p].v, marco |-> pedido'[p].i]
    BY DEF Lugar, Resto
  <2>2. [p |-> pedido'[p].v, marco |-> pedido'[p].i] = En(w)
    BY <1>6, Registros DEF EnMemoria, EnSwap
  <2>3. Lugares'[t] = Lugar(t)'
    BY <1>6 DEF Lugares
  <2>4. QED
    BY <2>1, <2>2, <2>3
<1>8. ASSUME NEW x \in Cosas \ {w}
      PROVE  /\ Lugar(x)' = Lugar(x) /\ Lugares'[x] = Lugares[x]
             /\ x[2] = Resto => DOMAIN paginas'[x[1]] = DOMAIN paginas[x[1]]
  <2>1. /\ x[1] \in Procesos /\ x = <<x[1], x[2]>> /\ Lugares[x] = Lugar(x)
        /\ x[2] = Resto => x[1] \in Devolviendo
        /\ x[2] # Resto => x \in Paginas
    BY <1>1, UnaCosa
  <2>2. x[2] # Resto => x[2] \in DOMAIN paginas[x[1]] /\ (x[1] # p \/ x[2] # n)
    BY <2>1, UnaPagina
  <2>3. x[2] # Resto => paginas'[x[1]][x[2]] = paginas[x[1]][x[2]]
    BY <1>3, <2>1, <2>2
  <2>4. x[2] = Resto => x[1] # p /\ pedido'[x[1]] = pedido[x[1]]
    BY <1>1, <2>1
  <2>5. Lugar(x)' = Lugar(x)
    BY <2>3, <2>4 DEF Lugar, En, Resto
  <2>6. Lugares'[x] = Lugar(x)'
    BY <1>6 DEF Lugares
  <2>7. QED
    BY <1>3, <2>1, <2>4, <2>5, <2>6
<1>9. LugaresJustos'
  <2> DEFINE M == Lugares'
             C == Cosas \ {w}
             O == Ocupados \ {Lugares[w]}
  <2>1. UnoAUno(Lugares, C, O)
    BY <1>1, <1>6, UnoMenos
  <2>2. M[t] = Lugares[w] /\ \A x \in C : M[x] = Lugares[x]
    BY <1>6, <1>7, <1>8
  <2>3. Lugares[w] \notin O
    OBVIOUS
  <2>4. Ocupados' = O \cup {Lugares[w]}
    BY <1>1, <1>2, <1>6 DEF UnoAUno
  <2>5. Cosas' = C \cup {t}
    BY <1>6
  <2> HIDE DEF M, C, O
  <2>6. UnoAUno(M, C \cup {t}, O \cup {Lugares[w]})
    BY <2>1, <2>2, <2>3, UnoMas, ZenonT(60)
  <2>7. QED
    BY <2>4, <2>5, <2>6 DEF LugaresJustos, M
<1>10. ClockJusto'
  <2> DEFINE Dice(c, x) == c.id = Nadie
                \/ (c.id = x[1] /\ IF x[2] = Resto THEN c.pag \notin DOMAIN paginas'[x[1]]
                                                   ELSE c.pag = x[2])
  <2>1. SUFFICES ASSUME NEW x \in (Cosas \ {w}) \cup {t}, Lugar(x)'.p = 1
                 PROVE  Dice(clock[Lugar(x)'.marco], x)
    BY <1>2, <1>6 DEF ClockJusto, Nombra
  <2>2. CASE x = t
    <3>1. clock[En(w).marco].id = Nadie \/ Nombra(clock[En(w).marco], w)
      BY <1>6, <1>7, <2>1, <2>2 DEF MemoriaInv, ClockJusto
    <3>2. Lugar(x)' = En(w)
      BY <1>7, <2>2
    <3>3. QED
      BY <1>1, <1>3, <2>2, <3>1, <3>2 DEF Nombra
  <2>3. CASE x \in Cosas \ {w}
    <3>1. Lugar(x)' = Lugar(x) /\ Lugar(x).p = 1
      BY <1>8, <2>1, <2>3
    <3>2. clock[Lugar(x).marco].id = Nadie \/ Nombra(clock[Lugar(x).marco], x)
      BY <2>3, <3>1 DEF MemoriaInv, ClockJusto
    <3>3. QED
      BY <1>8, <2>3, <3>1, <3>2 DEF Nombra
  <2>4. QED
    BY <2>2, <2>3
<1>11. FormaMarcos'
  BY <1>1, <1>2, <1>3 DEF FormaMarcos
<1>12. ASSUME NEW x \in Paginas'
       PROVE  En(x)' = En(x) /\ x \in Paginas /\ paginas'[x[1]][x[2]] = paginas[x[1]][x[2]]
  <2>1. x \in Paginas /\ x # w
    BY <1>5
  <2>2. x[1] \in Procesos /\ x[2] \in DOMAIN paginas[x[1]] /\ (x[1] # p \/ x[2] # n)
    BY <2>1, UnaPagina
  <2>3. paginas'[x[1]][x[2]] = paginas[x[1]][x[2]]
    BY <1>3, <2>2
  <2>4. QED
    BY <2>1, <2>3 DEF En
<1>13. ClockExacto => ClockExacto'
  BY <1>2, <1>12 DEF ClockExacto
<1>14. ASSUME NEW x \in Paginas'
       PROVE  Guardado(x[1], x[2])' = Guardado(x[1], x[2])
  <2>1. paginas'[x[1]][x[2]] = paginas[x[1]][x[2]]
    BY <1>12
  <2>2. QED
    BY <1>2, <2>1 DEF Guardado
<1>15. QED
  BY <1>3, <1>5, <1>9, <1>10, <1>11, <1>13, <1>14 DEF MemoriaInv

\* The bit of what was counted out is cleared.
LEMMA SueltaMarco ==
  ASSUME MemoriaInv, FormaPedidos, FormaPedidos', NEW p \in Devolviendo,
         pedido'[p].paso # "bit", \A q \in Procesos \ {p} : pedido'[q] = pedido[q],
         UNCHANGED <<clock, punteros, paginas>>,
         \/ /\ pedido[p].v = 1
            /\ bitmap_marcos' = bitmap_marcos \ {pedido[p].i}
            /\ memoria' = [memoria EXCEPT ![pedido[p].i] = SinDatos]
            /\ UNCHANGED <<bitmap_swap, espacio>>
         \/ /\ pedido[p].v = 0
            /\ espacio' = [espacio EXCEPT ![pedido[p].i] = SinDatos]
            /\ bitmap_swap' = bitmap_swap \ {pedido[p].i}
            /\ UNCHANGED <<bitmap_marcos, memoria>>
  PROVE  /\ MemoriaInv' /\ (ClockExacto => ClockExacto')
         /\ \A x \in Paginas : Guardado(x[1], x[2])' = Guardado(x[1], x[2])
         /\ pedido[p].v = 1 => pedido[p].i \in bitmap_marcos
<1>0. PICK i, v : i = pedido[p].i /\ v = pedido[p].v
  OBVIOUS
<1> DEFINE t == <<p, Resto>>
           r == [p |-> v, marco |-> i]
<1>1. /\ FormaMarcos /\ UnoAUno(Lugares, Cosas, Ocupados) /\ p \in Procesos
      /\ t \in Cosas /\ Lugar(t) = r /\ Lugares[t] = r /\ r \in Ocupados
  <2>1. FormaMarcos /\ UnoAUno(Lugares, Cosas, Ocupados)
    BY DEF MemoriaInv, LugaresJustos
  <2>2. p \in Procesos /\ t \in Cosas /\ Lugar(t) = r /\ Lugares[t] = r
    BY <1>0, <2>1, UnaCosa
  <2>3. QED
    BY <2>1, <2>2 DEF UnoAUno
<1>2. r.p = v /\ r.marco = i
  OBVIOUS
<1> HIDE DEF r
<1>3. \/ /\ r = EnMemoria(i) /\ v = 1 /\ i \in bitmap_marcos /\ i \in Marcos
         /\ bitmap_marcos' = bitmap_marcos \ {i} /\ bitmap_swap' = bitmap_swap
         /\ memoria' = [memoria EXCEPT ![i] = SinDatos] /\ espacio' = espacio
      \/ /\ r = EnSwap(i) /\ v = 0 /\ i \in bitmap_swap /\ i \in MarcosSwap
         /\ bitmap_marcos' = bitmap_marcos /\ bitmap_swap' = bitmap_swap \ {i}
         /\ memoria' = memoria /\ espacio' = [espacio EXCEPT ![i] = SinDatos]
  <2>1. \/ r = EnMemoria(i) /\ v = 1 /\ i \in bitmap_marcos
        \/ r = EnSwap(i) /\ v = 0 /\ i \in bitmap_swap
    BY <1>1, <1>2, Ocupado
  <2>2. QED
    BY <1>0, <1>1, <2>1 DEF FormaMarcos
<1>4. Paginas' = Paginas /\ Devolviendo' = Devolviendo \ {p}
  BY <1>1 DEF Paginas, Devolviendo
<1>5. Cosas' = Cosas \ {t} /\ Paginas \subseteq Cosas'
  <2>1. t \notin Paginas
    BY <1>1, UnaCosa DEF Resto
  <2>2. {<<q, Resto>> : q \in Devolviendo'} = {<<q, Resto>> : q \in Devolviendo} \ {t}
    BY <1>4
  <2>3. Cosas' = Cosas \ {t}
    BY <1>4, <2>1, <2>2 DEF Cosas
  <2>4. QED
    BY <1>1, <2>1, <2>3, UnaCosa
<1>6. Ocupados' = Ocupados \ {r}
  <2> DEFINE O == Ocupados \ {r}
  <2>1. \A x \in O : x = EnMemoria(x.marco) \/ x = EnSwap(x.marco)
    BY Ocupado
  <2>2. \A g, h : /\ EnMemoria(g) = EnMemoria(h) => g = h
                  /\ EnSwap(g) = EnSwap(h) => g = h
                  /\ EnMemoria(g) # EnSwap(h)
    <3>1. TAKE g, h
    <3>2. /\ EnMemoria(g).marco = g /\ EnMemoria(h).marco = h
          /\ EnSwap(g).marco = g /\ EnSwap(h).marco = h /\ EnMemoria(g) # EnSwap(h)
      BY Registros
    <3>3. QED
      BY <3>2
  <2>3. \A g : EnMemoria(g) \in O <=> g \in bitmap_marcos'
    BY <1>3, <2>2, Ocupado
  <2>4. \A e : EnSwap(e) \in O <=> e \in bitmap_swap'
    BY <1>3, <2>2, Ocupado
  <2> HIDE DEF O
  <2>5. Ocupados' = O
    BY <2>1, <2>3, <2>4, OcupadosSon
  <2>6. QED
    BY <2>5 DEF O
<1>7. ASSUME NEW x \in Cosas \ {t}
      PROVE  Lugar(x)' = Lugar(x) /\ Lugares'[x] = Lugares[x] /\ Lugar(x) # r
  <2>1. Lugares[x] = Lugar(x) /\ (x[2] = Resto => x[1] \in Procesos \ {p})
    BY <1>1, UnaCosa
  <2>2. Lugar(x)' = Lugar(x)
    BY <2>1 DEF Lugar, En, Resto
  <2>3. Lugares'[x] = Lugar(x)'
    BY <1>5 DEF Lugares
  <2>4. Lugar(x) # r
    BY <1>1, <2>1 DEF UnoAUno
  <2>5. QED
    BY <2>1, <2>2, <2>3, <2>4
<1>8. LugaresJustos'
  <2> DEFINE M == Lugares'
  <2>1. UnoAUno(Lugares, Cosas \ {t}, Ocupados \ {r})
    BY <1>1, UnoMenos
  <2>2. \A x \in Cosas \ {t} : M[x] = Lugares[x]
    BY <1>7
  <2> HIDE DEF M
  <2>3. UnoAUno(M, Cosas \ {t}, Ocupados \ {r})
    BY <2>1, <2>2, UnoIgual
  <2>4. QED
    BY <1>5, <1>6, <2>3 DEF M, LugaresJustos
<1>9. ClockJusto'
  BY <1>5, <1>7 DEF MemoriaInv, ClockJusto, Nombra
<1>10. FormaMarcos'
  <2>1. SinDatos \in Contenido
    BY DEF Contenido
  <2> HIDE DEF SinDatos, Contenido
  <2>2. QED
    BY <1>1, <1>3, <2>1 DEF FormaMarcos
<1>11. ClockExacto => ClockExacto'
  BY <1>4 DEF ClockExacto, En
<1>12. ASSUME NEW x \in Paginas
       PROVE  Guardado(x[1], x[2])' = Guardado(x[1], x[2])
  <2>1. x \in Cosas \ {t} /\ Lugar(x) = paginas[x[1]][x[2]]
    BY <1>1, <1>5, <1>12, UnaCosa DEF En
  <2>2. Lugar(x) # r
    BY <1>7, <2>1
  <2>3. CASE Lugar(x) = EnMemoria(Lugar(x).marco) /\ Lugar(x).p = 1 /\ Lugar(x).marco \in Marcos
    <3>1. memoria'[Lugar(x).marco] = memoria[Lugar(x).marco]
      BY <1>1, <1>3, <2>2, <2>3 DEF FormaMarcos
    <3>2. QED
      BY <2>1, <2>3, <3>1 DEF Guardado
  <2>4. CASE Lugar(x) = EnSwap(Lugar(x).marco) /\ Lugar(x).p = 0 /\ Lugar(x).marco \in MarcosSwap
    <3>1. espacio'[Lugar(x).marco] = espacio[Lugar(x).marco]
      BY <1>1, <1>3, <2>2, <2>4 DEF FormaMarcos
    <3>2. QED
      BY <2>1, <2>4, <3>1 DEF Guardado
  <2>5. QED
    BY <2>1, <2>3, <2>4, EnSuLugar
<1>13. QED
  BY <1>0, <1>3, <1>8, <1>9, <1>10, <1>11, <1>12 DEF MemoriaInv

\* A page that is in swap is brought.
LEMMA TraePagina ==
  ASSUME MemoriaInv, FormaPedidos, FormaPedidos', Fichas, procesos \subseteq Procesos,
         NEW p \in Procesos \ Devolviendo, NEW n \in DOMAIN paginas[p], NEW s,
         paginas[p][n].p = 0, s = paginas[p][n].marco, NEW nueva, Traer(p, n, s, nueva)
  PROVE  /\ MemoriaInv' /\ Conserva(<<p, n>>) /\ (ClockExacto => ClockExacto')
         /\ MarcosLibres # {} \/ nueva = FALSE => Guardado(p, n)' = Guardado(p, n)
         /\ \A q \in Procesos : DOMAIN paginas'[q] = DOMAIN paginas[q]
         /\ paginas'[p][n].p = 1
         /\ \A g \in Marcos \ bitmap_marcos' : g \notin bitmap_marcos /\ clock'[g] = clock[g]
<1>1. /\ FormaMarcos /\ p \in Procesos /\ n \in Numeros /\ s \in MarcosSwap
      /\ paginas[p][n] = EnSwap(s) /\ Viene(p, n, s)
  <2>1. FormaMarcos
    BY DEF MemoriaInv
  <2>2. paginas[p][n] = EnSwap(s) /\ s \in MarcosSwap /\ n \in Numeros
    BY <2>1, UnaTabla, Registros
  <2>3. QED
    BY <2>1, <2>2 DEF Viene
<1>2. Guardado(p, n) = espacio[s]
  BY DEF Guardado
<1>3. CASE TraerALibre(p, n, s)
  <2>0. PICK f : f = Menor(MarcosLibres)
    OBVIOUS
  <2>1. f \in Marcos \ bitmap_marcos /\ MarcosLibres # {}
    <3>1. MarcosLibres \in SUBSET Nat /\ MarcosLibres # {}
      BY <1>3, Conjuntos DEF TraerALibre, MarcosLibres
    <3>2. f \in MarcosLibres
      BY <2>0, <3>1, MenorEsta
    <3>3. QED
      BY <3>1, <3>2 DEF MarcosLibres
  <2>2. /\ bitmap_marcos' = bitmap_marcos \cup {f} /\ bitmap_swap' = bitmap_swap \ {s}
        /\ clock' = [clock EXCEPT ![f] = Entrada(p, n)] /\ punteros' = punteros
        /\ memoria' = [memoria EXCEPT ![f] = espacio[s]]
        /\ espacio' = [espacio EXCEPT ![s] = SinDatos]
        /\ paginas' = [paginas EXCEPT ![p] = Con(@, n, EnMemoria(f))]
    BY <1>3, <2>0 DEF TraerALibre, LiberarSwap, EnMemoria
  <2>3. /\ memoria' \in [Marcos -> Contenido] /\ espacio' \in [MarcosSwap -> Contenido]
        /\ memoria'[f] = espacio[s]
        /\ \A g \in Marcos \ {f} : memoria'[g] = memoria[g]
        /\ \A e \in MarcosSwap \ {s} : espacio'[e] = espacio[e]
    <3>1. SinDatos \in Contenido
      BY DEF Contenido
    <3> HIDE DEF SinDatos, Contenido
    <3>2. QED
      BY <1>1, <2>1, <2>2, <3>1 DEF FormaMarcos
  <2>4. /\ MemoriaInv' /\ Conserva(<<p, n>>) /\ (ClockExacto => ClockExacto')
        /\ Guardado(p, n)' = memoria'[f]
        /\ DOMAIN paginas'[p] = DOMAIN paginas[p] \cup {n} /\ paginas'[p][n] = EnMemoria(f)
        /\ \A q \in Procesos \ {p} : DOMAIN paginas'[q] = DOMAIN paginas[q]
    BY <1>1, <2>1, <2>2, <2>3, PoneLibre
  <2>5. \A g \in Marcos \ bitmap_marcos' : g \notin bitmap_marcos /\ clock'[g] = clock[g]
    BY <2>2
  <2>6. Guardado(p, n)' = Guardado(p, n)
    BY <1>2, <2>3, <2>4
  <2>7. \A q \in Procesos : DOMAIN paginas'[q] = DOMAIN paginas[q]
    BY <2>4
  <2>8. paginas'[p][n].p = 1
    BY <2>4, Registros
  <2>9. QED
    BY <2>4, <2>5, <2>6, <2>7, <2>8
<1>4. CASE TraerPorVictima(p, n, s, nueva)
  <2>1. MarcosLibres = {} /\ bitmap_marcos' = bitmap_marcos
    BY <1>4 DEF TraerPorVictima
  <2>2. \A g \in Marcos \ bitmap_marcos' : g \notin bitmap_marcos /\ clock'[g] = clock[g]
    BY <2>1 DEF MarcosLibres
  <2>3. /\ MemoriaInv' /\ Conserva(<<p, n>>) /\ (ClockExacto => ClockExacto')
        /\ nueva = FALSE => Guardado(p, n)' = espacio[s]
        /\ DOMAIN paginas'[p] = DOMAIN paginas[p] \cup {n}
        /\ paginas'[p][n].p = 1
        /\ \A q \in Procesos \ {p} : DOMAIN paginas'[q] = DOMAIN paginas[q]
    BY <1>1, <1>4, PoneConVictima
  <2>4. QED
    BY <1>2, <2>1, <2>2, <2>3
<1>5. QED
  BY <1>3, <1>4 DEF Traer

-----------------------------------------------------------------------------
(* The requests *)

FormaTablas ==
  /\ FormaPedidos
  /\ paginas_usadas \in 0..PaginasTotales /\ procesos \subseteq Procesos
  /\ listado \in [Procesos -> BOOLEAN] /\ cola \in [Procesos -> BOOLEAN]
  /\ caido \in BOOLEAN
  /\ escrito \in [Procesos -> [Numeros -> {0} \cup Versiones]]
  /\ vaciadas \subseteq Procesos \X Numeros

\* What the request in progress of p relies on.
PedidoJusto(p) ==
  LET r == pedido[p] IN
  /\ r = Ninguno \/ r.op # "ninguno"
  /\ r.op = "ninguno" <=> r.paso = ""
  /\ r.op = "reservar" <=> r.paso = "crear"
  /\ r.op = "cerrar" <=> r.paso \in {"quitar", "bit", "clock"}
  /\ r.paso = "crear" => r.i \in 1..r.hasta /\ list_size(p) + Faltan(p) <= MaxPaginas[p]
  /\ r.paso \in {"buscar", "usar"} => r.i <= r.hasta /\ r.i..r.hasta \subseteq DOMAIN paginas[p]
  /\ r.op = "copiar" => r.v \in Versiones
  /\ r.paso = "bit" => r.v \in {0, 1}
  /\ r.paso = "clock" => r.i \in Marcos

\* Its table is numbered from 0, unless it is being given back, and is of a
\* segment in the list, unless it is being made or given back.
TablaJusta(p) ==
  /\ pedido[p].op # "cerrar" => DOMAIN paginas[p] = 0..list_size(p) - 1
  /\ pedido[p].op = "cerrar" => ~ cola[p]
  /\ cola[p] => DOMAIN paginas[p] # {}
  /\ DOMAIN paginas[p] # {} \/ pedido[p] # Ninguno => p \in procesos
  /\ DOMAIN paginas[p] # {} => listado[p] \/ pedido[p].op \in {"reservar", "cerrar"}

PedidosJustos == \A p \in Procesos : PedidoJusto(p) /\ TablaJusta(p)

\* paginas_usadas counts the pages there are and those granted.
Contadas ==
  /\ IsFiniteSet(Paginas) /\ IsFiniteSet(Prometidas)
  /\ paginas_usadas = Cardinality(Paginas) + Cardinality(Prometidas)

MarcosInv == MemoriaInv /\ FormaTablas /\ PedidosJustos /\ Contadas

\* A step of the thread of p leaves alone the requests and the tables of others,
\* but for the frames of their pages.
SoloEl(p) ==
  \A q \in Procesos \ {p} :
    /\ pedido'[q] = pedido[q] /\ listado'[q] = listado[q] /\ cola'[q] = cola[q]
    /\ DOMAIN paginas'[q] = DOMAIN paginas[q]
    /\ q \in procesos => q \in procesos'

LEMMA OtrosJustos ==
  ASSUME PedidosJustos, NEW p \in Procesos, SoloEl(p), PedidoJusto(p)', TablaJusta(p)'
  PROVE  PedidosJustos'
<1>1. ASSUME NEW q \in Procesos \ {p}
      PROVE  PedidoJusto(q)' /\ TablaJusta(q)'
  <2>1. PedidoJusto(q) /\ TablaJusta(q)
    BY DEF PedidosJustos
  <2>2. /\ pedido'[q] = pedido[q] /\ listado'[q] = listado[q] /\ cola'[q] = cola[q]
        /\ DOMAIN paginas'[q] = DOMAIN paginas[q]
        /\ q \in procesos => q \in procesos'
    BY DEF SoloEl
  <2>3. list_size(q)' = list_size(q) /\ Faltan(q)' = Faltan(q)
    BY <2>2 DEF list_size, Faltan, Reusa
  <2>4. PedidoJusto(q)'
    BY <2>1, <2>2, <2>3 DEF PedidoJusto
  <2>5. TablaJusta(q)'
    BY <2>1, <2>2, <2>3 DEF TablaJusta
  <2>6. QED
    BY <2>4, <2>5
<1>2. QED
  BY <1>1 DEF PedidosJustos

\* The pages granted to the others are the same.
LEMMA OtrosFaltan ==
  ASSUME NEW p \in Procesos, SoloEl(p)
  PROVE  \A q \in Procesos \ {p} : Faltan(q)' = Faltan(q)
BY DEF SoloEl, Faltan, Reusa

\* No thread begins or ends giving a frame back.
LEMMA MismasFichas ==
  ASSUME NEW p \in Procesos, SoloEl(p), pedido[p].paso # "bit", pedido'[p].paso # "bit"
  PROVE  Fichas /\ p \notin Devolviendo
BY DEF SoloEl, Fichas, Devolviendo

-----------------------------------------------------------------------------
(* The count *)

LEMMA UnaPromesa ==
  /\ \A q \in Procesos : \A i : <<q, i>> \in Prometidas <=> i \in 1..Faltan(q)
  /\ \A x \in Prometidas : x[1] \in Procesos /\ x = <<x[1], x[2]>> /\ x[2] \in 1..Faltan(x[1])
BY DEF Prometidas

\* Neither the pages nor those granted change.
LEMMA CuentaIgual ==
  ASSUME Contadas, NEW p \in Procesos, SoloEl(p), Faltan(p)' = Faltan(p),
         DOMAIN paginas'[p] = DOMAIN paginas[p], paginas_usadas' = paginas_usadas
  PROVE  Contadas' /\ Paginas' = Paginas
<1>1. Paginas' = Paginas
  BY DEF Paginas, SoloEl
<1>2. \A q \in Procesos : Faltan(q)' = Faltan(q)
  BY OtrosFaltan
<1>3. Prometidas' = Prometidas
  BY <1>2 DEF Prometidas
<1>4. QED
  BY <1>1, <1>3 DEF Contadas

\* One of those granted is made.
LEMMA CuentaCrea ==
  ASSUME Contadas, NEW p \in Procesos, SoloEl(p), NEW n, n \notin DOMAIN paginas[p],
         DOMAIN paginas'[p] = DOMAIN paginas[p] \cup {n},
         Faltan(p) \in Nat \ {0}, Faltan(p)' = Faltan(p) - 1, paginas_usadas' = paginas_usadas
  PROVE  Contadas' /\ Paginas' = Paginas \cup {<<p, n>>}
<1>0. PICK k \in Nat \ {0} : k = Faltan(p)
  OBVIOUS
<1>1. Paginas' = Paginas \cup {<<p, n>>} /\ <<p, n>> \notin Paginas
  <2>1. \A q \in Procesos : \A i : i \in DOMAIN paginas'[q] <=> i \in DOMAIN paginas[q] \/ (q = p /\ i = n)
    BY DEF SoloEl
  <2>2. QED
    BY <2>1 DEF Paginas
<1>2. Prometidas' = Prometidas \ {<<p, k>>} /\ <<p, k>> \in Prometidas
  <2>1. \A i : i \in 1..k - 1 <=> i \in 1..k /\ i # k
    BY <1>0
  <2>2. \A q \in Procesos : \A i : i \in 1..Faltan(q)' <=> i \in 1..Faltan(q) /\ ~ (q = p /\ i = k)
    BY <1>0, <2>1, OtrosFaltan
  <2>3. k \in 1..Faltan(p)
    BY <1>0
  <2>4. QED
    BY <2>2, <2>3 DEF Prometidas
<1>3. /\ IsFiniteSet(Paginas') /\ IsFiniteSet(Prometidas')
      /\ Cardinality(Paginas') = Cardinality(Paginas) + 1
      /\ Cardinality(Prometidas') = Cardinality(Prometidas) - 1
  BY <1>1, <1>2, FS_AddElement, FS_RemoveElement DEF Contadas
<1>4. Cardinality(Paginas) \in Nat /\ Cardinality(Prometidas) \in Nat
  BY FS_CardinalityType DEF Contadas
<1>5. QED
  BY <1>1, <1>3, <1>4 DEF Contadas

\* Some more are granted.
LEMMA CuentaReserva ==
  ASSUME Contadas, NEW p \in Procesos, SoloEl(p), NEW k \in Nat,
         DOMAIN paginas'[p] = DOMAIN paginas[p],
         Faltan(p) = 0, Faltan(p)' = k, paginas_usadas' = paginas_usadas + k
  PROVE  Contadas'
<1> DEFINE N == {p} \X (1..k)
<1>1. Paginas' = Paginas
  BY DEF Paginas, SoloEl
<1>2. Prometidas' = Prometidas \cup N /\ Prometidas \cap N = {}
  <2>1. \A q \in Procesos : \A i : i \in 1..Faltan(q)' <=> i \in 1..Faltan(q) \/ (q = p /\ i \in 1..k)
    BY OtrosFaltan
  <2>2. Prometidas' = Prometidas \cup N
    BY <2>1 DEF Prometidas
  <2>3. \A i : <<p, i>> \notin Prometidas
    BY UnaPromesa
  <2>4. QED
    BY <2>2, <2>3
<1>3. IsFiniteSet(N) /\ Cardinality(N) = k
  <2>1. IsFiniteSet({p}) /\ Cardinality({p}) = 1
    BY FS_Singleton
  <2>2. IsFiniteSet(1..k) /\ Cardinality(1..k) = k
    <3>1. IsFiniteSet(1..k) /\ Cardinality(1..k) = IF 1 > k THEN 0 ELSE k - 1 + 1
      BY FS_Interval
    <3>2. QED
      BY <3>1
  <2>3. IsFiniteSet(N) /\ Cardinality(N) = 1 * k
    BY <2>1, <2>2, FS_Product
  <2>4. QED
    BY <2>3
<1> HIDE DEF N
<1>4. /\ IsFiniteSet(Prometidas')
      /\ Cardinality(Prometidas') = Cardinality(Prometidas) + k
  <2>1. /\ IsFiniteSet(Prometidas \cup N)
        /\ Cardinality(Prometidas \cup N) =
             Cardinality(Prometidas) + Cardinality(N) - Cardinality(Prometidas \cap N)
    BY <1>3, FS_Union DEF Contadas
  <2>2. Cardinality(Prometidas \cap N) = 0 /\ Cardinality(Prometidas) \in Nat
    BY <1>2, FS_EmptySet, FS_CardinalityType DEF Contadas
  <2>3. QED
    BY <1>2, <1>3, <2>1, <2>2
<1>5. Cardinality(Paginas) \in Nat /\ Cardinality(Prometidas) \in Nat
  BY FS_CardinalityType DEF Contadas
<1>6. QED
  BY <1>1, <1>4, <1>5 DEF Contadas

\* A page is counted out.
LEMMA CuentaQuita ==
  ASSUME Contadas, NEW p \in Procesos, SoloEl(p), NEW n,
         Faltan(p)' = Faltan(p), Paginas' = Paginas \ {<<p, n>>}, <<p, n>> \in Paginas,
         paginas_usadas' = paginas_usadas - 1
  PROVE  Contadas' /\ paginas_usadas' \in Nat
<1>1. Prometidas' = Prometidas
  <2>1. \A q \in Procesos : Faltan(q)' = Faltan(q)
    BY OtrosFaltan
  <2>2. QED
    BY <2>1 DEF Prometidas
<1>2. IsFiniteSet(Paginas') /\ Cardinality(Paginas') = Cardinality(Paginas) - 1
  BY FS_RemoveElement, SMTT(30) DEF Contadas
<1>3. Cardinality(Paginas) \in Nat /\ Cardinality(Prometidas) \in Nat /\ Cardinality(Paginas') \in Nat
  BY <1>2, FS_CardinalityType DEF Contadas
<1>4. QED
  BY <1>1, <1>2, <1>3 DEF Contadas

-----------------------------------------------------------------------------
(* One lemma for each action: it keeps the invariant *)

LEMMA UnPedido ==
  ASSUME NEW r \in Pedido
  PROVE  /\ r.op \in {"ninguno", "reservar", "ajustar", "copiar", "obtener", "cerrar"}
         /\ r.paso \in {"", "crear", "buscar", "usar", "quitar", "bit", "clock"}
         /\ r.i \in Nat /\ r.hasta \in Nat /\ r.v \in {0, 1} \cup Versiones
         /\ r.primera \in BOOLEAN /\ r.cola \in BOOLEAN
         /\ \A paso \in {"", "crear", "buscar", "usar", "quitar", "bit", "clock"} :
              /\ [r EXCEPT !.paso = paso] \in Pedido
              /\ \A i \in Nat : [r EXCEPT !.paso = paso, !.i = i] \in Pedido
BY DEF Pedido

LEMMA SinPedido ==
  /\ Ninguno \in Pedido /\ Ninguno.op = "ninguno" /\ Ninguno.paso = "" /\ Ninguno.cola = FALSE
BY DEF Ninguno, Pedido

LEMMA CambiaPedido ==
  ASSUME FormaPedidos, NEW p \in Procesos, NEW r \in Pedido, pedido' = [pedido EXCEPT ![p] = r]
  PROVE  FormaPedidos' /\ pedido'[p] = r /\ \A q \in Procesos \ {p} : pedido'[q] = pedido[q]
BY DEF FormaPedidos

\* What is left out of the count of a table.
LEMMA TamanioDeTabla ==
  ASSUME FormaMarcos, NEW p \in Procesos
  PROVE  /\ IsFiniteSet(DOMAIN paginas[p]) /\ list_size(p) \in Nat
         /\ DOMAIN paginas[p] # {} <=> list_size(p) # 0
<1>1. IsFiniteSet(DOMAIN paginas[p])
  BY UnaTabla, Conjuntos, FS_Subset
<1>2. QED
  BY <1>1, FS_CardinalityType, FS_EmptySet DEF list_size

-----------------------------------------------------------------------------
(* What holds besides while requests do not overlap *)

UnoSolo ==
  \A p, q \in Procesos : pedido[p] # Ninguno /\ pedido[q] # Ninguno => p = q

\* No request but that of p is in progress.
Solos(p) == \A q \in Procesos \ {p} : pedido[q] = Ninguno

\* A free frame is named by no entry, until the next one is, and the entry that
\* is going to be cleared is that of a free frame.
ClockLimpio ==
  /\ \A f \in Marcos \ bitmap_marcos :
       clock[f].id = Nadie \/ \E p \in Procesos : pedido[p].paso = "clock" /\ pedido[p].i = f
  /\ \A p \in Procesos : pedido[p].paso = "clock" => pedido[p].i \notin bitmap_marcos

\* The page that is going to be used is in memory.
Presente == \A p \in Procesos : pedido[p].paso = "usar" => Actual(p).p = 1

\* Nothing has been copied to a page that is not.
SinCopia ==
  \A p \in Procesos : \A n \in Numeros \ DOMAIN paginas[p] : escrito[p][n] = 0

SoloInv ==
  UnoSolo /\ ClockExacto /\ ClockLimpio /\ Presente /\ SinCopia /\ ContenidoIntacto

\* The pages are the same, and those that keep what they hold are not emptied.
LEMMA CopiasIgual ==
  ASSUME SinCopia, ContenidoIntacto, FormaMarcos, escrito' = escrito, vaciadas \subseteq vaciadas',
         \A q \in Procesos : DOMAIN paginas'[q] = DOMAIN paginas[q],
         \A x \in Paginas \ vaciadas' :
           escrito[x[1]][x[2]] # 0 => Guardado(x[1], x[2])' = Guardado(x[1], x[2])
  PROVE  SinCopia' /\ ContenidoIntacto'
<1>1. Paginas' = Paginas
  BY DEF Paginas
<1>2. ContenidoIntacto'
  BY <1>1 DEF ContenidoIntacto, Copia
<1>3. SinCopia'
  BY DEF SinCopia
<1>4. QED
  BY <1>2, <1>3

\* There is one more, to which nothing has been copied.
LEMMA CopiasNueva ==
  ASSUME SinCopia, ContenidoIntacto, FormaMarcos, NEW p \in Procesos,
         NEW n \in Numeros \ DOMAIN paginas[p],
         UNCHANGED <<escrito, vaciadas>>, Paginas' = Paginas \cup {<<p, n>>},
         DOMAIN paginas'[p] = DOMAIN paginas[p] \cup {n},
         \A q \in Procesos \ {p} : DOMAIN paginas'[q] = DOMAIN paginas[q],
         Conserva(<<p, n>>)
  PROVE  SinCopia' /\ ContenidoIntacto'
<1>1. escrito'[p][n] = 0
  BY DEF SinCopia
<1>2. <<p, n>> \notin Paginas
  BY UnaPagina
<1>3. ContenidoIntacto'
  BY <1>1, <1>2 DEF ContenidoIntacto, Copia, Conserva
<1>4. SinCopia'
  BY DEF SinCopia
<1>5. QED
  BY <1>3, <1>4

\* A step of the only request, that leaves free frames as they are.
LEMMA SoloSigue ==
  ASSUME SoloInv, NEW p \in Procesos, Solos(p), SoloEl(p),
         ClockExacto', SinCopia' /\ ContenidoIntacto',
         pedido[p].paso # "clock", pedido'[p].paso # "clock",
         pedido'[p].paso = "usar" => Actual(p)'.p = 1,
         \A g \in Marcos \ bitmap_marcos' : g \notin bitmap_marcos /\ clock'[g].id = clock[g].id
  PROVE  SoloInv'
<1>1. \A q \in Procesos \ {p} : pedido'[q] = Ninguno /\ pedido[q].paso = "" /\ pedido'[q].paso = ""
  BY SinPedido DEF Solos, SoloEl
<1>2. UnoSolo'
  BY <1>1 DEF UnoSolo
<1>3. Presente'
  BY <1>1 DEF Presente
<1>4. ClockLimpio'
  <2>1. \A q \in Procesos : pedido[q].paso # "clock" /\ pedido'[q].paso # "clock"
    BY <1>1
  <2>2. \A f \in Marcos \ bitmap_marcos : clock[f].id = Nadie
    BY <2>1 DEF SoloInv, ClockLimpio
  <2>3. QED
    BY <2>1, <2>2 DEF ClockLimpio
<1>5. QED
  BY <1>2, <1>3, <1>4 DEF SoloInv

\* Neither the memory nor what has been copied changes.
LEMMA SoloQuieto ==
  ASSUME SoloInv, MemoriaInv, NEW p \in Procesos, Solos(p), SoloEl(p),
         UNCHANGED <<bitmap_marcos, bitmap_swap, clock, punteros, memoria, espacio>>,
         UNCHANGED <<paginas, escrito, vaciadas>>,
         pedido[p].paso # "clock", pedido'[p].paso # "clock", pedido'[p].paso # "usar"
  PROVE  SoloInv'
<1>1. Paginas' = Paginas
  BY DEF Paginas
<1>2. ClockExacto'
  BY <1>1 DEF SoloInv, ClockExacto, En
<1>3. \A x \in Paginas : Guardado(x[1], x[2])' = Guardado(x[1], x[2])
  BY DEF Guardado
<1>4. SinCopia' /\ ContenidoIntacto'
  BY <1>3, CopiasIgual DEF SoloInv, MemoriaInv
<1>5. QED
  BY <1>2, <1>4, SoloSigue

-----------------------------------------------------------------------------
(* One lemma for each action: it keeps the invariants *)

LEMMA SaludarP ==
  ASSUME MarcosInv, NEW p \in Procesos, Saludar(p)
  PROVE  MarcosInv' /\ (SoloInv => SoloInv')
<1>1. /\ procesos' = procesos \cup {p} /\ p \notin procesos
      /\ listado' = [listado EXCEPT ![p] = FALSE]
      /\ UNCHANGED <<bitmap_marcos, bitmap_swap, clock, punteros, memoria, espacio>>
      /\ UNCHANGED <<paginas_usadas, paginas, cola, pedido, caido, escrito, vaciadas>>
  BY DEF Saludar, marVars, hisVars
<1>2. /\ MemoriaInv /\ FormaTablas /\ PedidosJustos /\ Contadas
      /\ FormaPedidos /\ PedidoJusto(p) /\ TablaJusta(p)
  BY DEF MarcosInv, FormaTablas, PedidosJustos
<1>3. SoloEl(p)
  BY <1>1, <1>2 DEF SoloEl, FormaTablas
<1>4. Fichas /\ FormaPedidos' /\ Faltan(p)' = Faltan(p) /\ list_size(p)' = list_size(p)
  BY <1>1, <1>2 DEF Fichas, Devolviendo, FormaPedidos, Faltan, Reusa, list_size
<1>5. MemoriaInv'
  BY <1>1, <1>2, <1>4, Quieta DEF MemoriaInv, FormaMarcos
<1>6. DOMAIN paginas[p] = {} /\ pedido[p] = Ninguno
  BY <1>1, <1>2 DEF TablaJusta
<1>7. PedidoJusto(p)'
  BY <1>1, <1>2, <1>4 DEF PedidoJusto
<1>8. TablaJusta(p)'
  BY <1>1, <1>2, <1>4, <1>6 DEF TablaJusta
<1>9. PedidosJustos'
  BY <1>2, <1>3, <1>7, <1>8, OtrosJustos
<1>10. Contadas' /\ Paginas' = Paginas
  BY <1>1, <1>2, <1>3, <1>4, CuentaIgual
<1>11. FormaTablas'
  BY <1>1, <1>2, <1>4 DEF FormaTablas
<1>12. ASSUME SoloInv
       PROVE  SoloInv'
  <2>1. UnoSolo' /\ Presente' /\ SinCopia' /\ ClockLimpio'
    BY <1>1, <1>12 DEF SoloInv, UnoSolo, Presente, Actual, SinCopia, ClockLimpio
  <2>2. ClockExacto'
    BY <1>1, <1>10, <1>12 DEF SoloInv, ClockExacto, En
  <2>3. ContenidoIntacto'
    BY <1>1, <1>10, <1>12 DEF SoloInv, ContenidoIntacto, Guardado, Copia
  <2>4. QED
    BY <2>1, <2>2, <2>3 DEF SoloInv
<1>13. QED
  BY <1>5, <1>9, <1>10, <1>11, <1>12 DEF MarcosInv
\* A request begins.
LEMMA Pedida ==
  ASSUME MarcosInv, NEW p \in Procesos, pedido[p] = Ninguno, NEW r \in Pedido,
         pedido' = [pedido EXCEPT ![p] = r], r.paso \notin {"usar", "bit", "clock"},
         UNCHANGED <<bitmap_marcos, bitmap_swap, clock, punteros, memoria, espacio>>,
         UNCHANGED <<procesos, paginas, caido, escrito, vaciadas>>,
         listado' \in [Procesos -> BOOLEAN], cola' \in [Procesos -> BOOLEAN],
         \A q \in Procesos \ {p} : listado'[q] = listado[q] /\ cola'[q] = cola[q]
  PROVE  /\ FormaPedidos' /\ pedido'[p] = r /\ SoloEl(p) /\ MemoriaInv'
         /\ (SoloInv /\ Solos(p) => SoloInv') /\ list_size(p)' = list_size(p)
         /\ Faltan(p) = 0 /\ p \notin Devolviendo
<1>1. MemoriaInv /\ FormaPedidos /\ pedido[p].paso = ""
  BY SinPedido DEF MarcosInv, FormaTablas
<1>2. FormaPedidos' /\ pedido'[p] = r /\ \A q \in Procesos \ {p} : pedido'[q] = pedido[q]
  BY <1>1, CambiaPedido
<1>3. SoloEl(p)
  BY <1>2 DEF SoloEl
<1>4. Fichas /\ p \notin Devolviendo
  BY <1>1, <1>2, <1>3, MismasFichas
<1>5. MemoriaInv'
  BY <1>1, <1>2, <1>4, Quieta DEF MemoriaInv, FormaMarcos
<1>6. SoloInv /\ Solos(p) => SoloInv'
  BY <1>1, <1>2, <1>3, SoloQuieto
<1>7. list_size(p)' = list_size(p) /\ Faltan(p) = 0
  BY <1>1 DEF list_size, Faltan
<1>8. QED
  BY <1>2, <1>3, <1>4, <1>5, <1>6, <1>7

LEMMA ReservarP ==
  ASSUME MarcosInv, NEW p \in Procesos, NEW k \in Tamanios, NEW c \in BOOLEAN, Reservar(p, k, c)
  PROVE  MarcosInv' /\ (SoloInv /\ Solos(p) => SoloInv')
<1>0. PICK r : r = [Ninguno EXCEPT !.op = "reservar", !.paso = "crear", !.i = 1,
                      !.hasta = IF cola[p] THEN k + 1 ELSE k, !.cola = c]
  OBVIOUS
<1>1. /\ Puede(p) /\ k > 0 /\ Cabe(k) /\ list_size(p) + k <= MaxPaginas[p]
      /\ paginas_usadas' = paginas_usadas + k /\ pedido' = [pedido EXCEPT ![p] = r]
      /\ UNCHANGED <<bitmap_marcos, bitmap_swap, clock, punteros, memoria, espacio>>
      /\ UNCHANGED <<procesos, paginas, cola, caido, listado, escrito, vaciadas>>
  BY <1>0 DEF Reservar, Pedir, marVars, hisVars
<1>2. /\ MemoriaInv /\ FormaTablas /\ PedidosJustos /\ Contadas /\ TablaJusta(p)
      /\ k \in Nat \ {0}
  BY <1>1, ConstantesMUSE DEF MarcosInv, PedidosJustos
<1>3. pedido[p] = Ninguno /\ p \in procesos
  BY <1>1 DEF Puede
<1>4. /\ r.op = "reservar" /\ r.paso = "crear" /\ r.i = 1
      /\ r.hasta = (IF cola[p] THEN k + 1 ELSE k) /\ r.hasta \in Nat \ {0}
      /\ r \in Pedido
  <2>0. PICK h \in Nat \ {0} : h = IF cola[p] THEN k + 1 ELSE k
    BY <1>2
  <2>1. r = [Ninguno EXCEPT !.op = "reservar", !.paso = "crear", !.i = 1, !.hasta = h, !.cola = c]
    BY <1>0, <2>0
  <2>2. r.op = "reservar" /\ r.paso = "crear" /\ r.i = 1 /\ r.hasta = h /\ r \in Pedido
    BY <2>1 DEF Ninguno, Pedido
  <2>3. QED
    BY <2>0, <2>2
<1>5. /\ FormaPedidos' /\ pedido'[p] = r /\ SoloEl(p) /\ MemoriaInv'
      /\ (SoloInv /\ Solos(p) => SoloInv') /\ list_size(p)' = list_size(p) /\ Faltan(p) = 0
  <2>1. listado \in [Procesos -> BOOLEAN] /\ cola \in [Procesos -> BOOLEAN]
    BY <1>2 DEF FormaTablas
  <2>2. QED
    BY <1>1, <1>3, <1>4, <2>1, Pedida
<1>6. Faltan(p)' = k
  BY <1>1, <1>2, <1>4, <1>5 DEF Faltan, Reusa
<1>7. Contadas'
  BY <1>1, <1>2, <1>5, <1>6, CuentaReserva
<1>8. PedidoJusto(p)'
  <2>1. list_size(p)' + Faltan(p)' <= MaxPaginas[p] /\ r.i \in 1..r.hasta
    BY <1>1, <1>4, <1>5, <1>6
  <2>2. QED
    BY <1>4, <1>5, <2>1, SinPedido DEF PedidoJusto
<1>9. TablaJusta(p)'
  BY <1>1, <1>2, <1>3, <1>4, <1>5, SinPedido DEF TablaJusta
<1>10. PedidosJustos'
  BY <1>2, <1>5, <1>8, <1>9, OtrosJustos
<1>11. FormaTablas'
  <2>1. paginas_usadas' \in 0..PaginasTotales
    BY <1>1, <1>2, ConstantesMUSE DEF Cabe, FormaTablas, PaginasTotales
  <2>2. QED
    BY <1>1, <1>2, <1>5, <2>1 DEF FormaTablas
<1>12. QED
  BY <1>5, <1>7, <1>10, <1>11 DEF MarcosInv

\* What grants no page and leaves the table leaves the count.
LEMMA SinReserva ==
  ASSUME MarcosInv, NEW p \in Procesos, pedido[p] = Ninguno, NEW r \in Pedido,
         pedido' = [pedido EXCEPT ![p] = r], r.paso \in {"buscar", "quitar"},
         UNCHANGED <<bitmap_marcos, bitmap_swap, clock, punteros, memoria, espacio>>,
         UNCHANGED <<procesos, paginas, caido, escrito, vaciadas, paginas_usadas>>,
         listado' \in [Procesos -> BOOLEAN], cola' \in [Procesos -> BOOLEAN],
         \A q \in Procesos \ {p} : listado'[q] = listado[q] /\ cola'[q] = cola[q],
         PedidoJusto(p)' /\ TablaJusta(p)'
  PROVE  MarcosInv' /\ (SoloInv /\ Solos(p) => SoloInv')
<1>1. /\ FormaPedidos' /\ pedido'[p] = r /\ SoloEl(p) /\ MemoriaInv'
      /\ (SoloInv /\ Solos(p) => SoloInv') /\ Faltan(p) = 0
  BY Pedida
<1>2. FormaTablas /\ PedidosJustos /\ Contadas
  BY DEF MarcosInv
<1>3. Faltan(p)' = Faltan(p)
  BY <1>1 DEF Faltan
<1>4. Contadas'
  BY <1>1, <1>2, <1>3, CuentaIgual
<1>5. PedidosJustos'
  BY <1>1, <1>2, OtrosJustos
<1>6. FormaTablas'
  BY <1>1, <1>2 DEF FormaTablas
<1>7. QED
  BY <1>1, <1>4, <1>5, <1>6 DEF MarcosInv

LEMMA ReservarEnColaP ==
  ASSUME MarcosInv, NEW p \in Procesos, NEW c \in BOOLEAN, ReservarEnCola(p, c)
  PROVE  MarcosInv' /\ (SoloInv /\ Solos(p) => SoloInv')
<1>0. PICK r : r = [Ninguno EXCEPT !.op = "ajustar", !.paso = "buscar",
                      !.i = list_size(p) - 1, !.hasta = list_size(p) - 1, !.cola = c]
  OBVIOUS
<1>1. /\ Puede(p) /\ cola[p] /\ pedido' = [pedido EXCEPT ![p] = r]
      /\ UNCHANGED <<bitmap_marcos, bitmap_swap, clock, punteros, memoria, espacio>>
      /\ UNCHANGED <<procesos, paginas, cola, caido, listado, escrito, vaciadas, paginas_usadas>>
  BY <1>0 DEF ReservarEnCola, Pedir, marVars, hisVars
<1>2. /\ FormaMarcos /\ FormaTablas /\ TablaJusta(p) /\ FormaPedidos
      /\ listado' \in [Procesos -> BOOLEAN] /\ cola' \in [Procesos -> BOOLEAN]
  BY <1>1 DEF MarcosInv, PedidosJustos, MemoriaInv, FormaTablas
<1>3. pedido[p] = Ninguno /\ p \in procesos
  BY <1>1 DEF Puede
<1>4. /\ list_size(p) - 1 \in Nat /\ DOMAIN paginas[p] = 0..list_size(p) - 1
      /\ list_size(p) - 1 \in DOMAIN paginas[p]
  <2>1. DOMAIN paginas[p] # {} /\ DOMAIN paginas[p] = 0..list_size(p) - 1
    BY <1>1, <1>2, <1>3, SinPedido DEF TablaJusta
  <2>2. list_size(p) \in Nat /\ list_size(p) # 0
    BY <1>2, <2>1, TamanioDeTabla
  <2>3. QED
    BY <2>1, <2>2
<1>5. /\ r.op = "ajustar" /\ r.paso = "buscar" /\ r.i = list_size(p) - 1 /\ r.hasta = r.i
      /\ r \in Pedido
  BY <1>0, <1>4 DEF Ninguno, Pedido
<1>6. pedido'[p] = r /\ list_size(p)' = list_size(p)
  BY <1>1, <1>2, <1>5, CambiaPedido DEF list_size
<1>7. PedidoJusto(p)'
  <2>1. r.i..r.hasta \subseteq DOMAIN paginas[p] /\ r.i <= r.hasta
    BY <1>4, <1>5
  <2>2. QED
    BY <1>1, <1>5, <1>6, <2>1, SinPedido DEF PedidoJusto
<1>8. TablaJusta(p)'
  BY <1>1, <1>2, <1>3, <1>5, <1>6, SinPedido DEF TablaJusta
<1>9. QED
  BY <1>1, <1>2, <1>3, <1>5, <1>7, <1>8, SinReserva

LEMMA AccederP ==
  ASSUME MarcosInv, NEW p \in Procesos, NEW op \in {"copiar", "obtener"},
         NEW desde \in DOMAIN paginas[p], NEW hasta \in DOMAIN paginas[p],
         NEW v \in {0, 1} \cup Versiones, op = "copiar" => v \in Versiones,
         Acceder(p, op, desde, hasta, v)
  PROVE  MarcosInv' /\ (SoloInv /\ Solos(p) => SoloInv')
<1>0. PICK r : r = [Ninguno EXCEPT !.op = op, !.paso = "buscar", !.i = desde,
                      !.hasta = hasta, !.v = v, !.primera = (op = "copiar")]
  OBVIOUS
<1>1. /\ Puede(p) /\ hasta \in desde..desde + MaxTramo - 1 /\ pedido' = [pedido EXCEPT ![p] = r]
      /\ UNCHANGED <<bitmap_marcos, bitmap_swap, clock, punteros, memoria, espacio>>
      /\ UNCHANGED <<procesos, paginas, cola, caido, listado, escrito, vaciadas, paginas_usadas>>
  BY <1>0 DEF Acceder, Pedir, marVars, hisVars
<1>2. /\ FormaMarcos /\ FormaTablas /\ TablaJusta(p) /\ FormaPedidos
      /\ listado' \in [Procesos -> BOOLEAN] /\ cola' \in [Procesos -> BOOLEAN]
  BY <1>1 DEF MarcosInv, PedidosJustos, MemoriaInv, FormaTablas
<1>3. pedido[p] = Ninguno /\ p \in procesos
  BY <1>1 DEF Puede
<1>4. /\ DOMAIN paginas[p] = 0..list_size(p) - 1 /\ list_size(p) \in Nat
      /\ desde \in Nat /\ hasta \in Nat /\ desde <= hasta
      /\ desde..hasta \subseteq DOMAIN paginas[p]
  <2>1. DOMAIN paginas[p] = 0..list_size(p) - 1 /\ list_size(p) \in Nat
    BY <1>2, <1>3, SinPedido, TamanioDeTabla DEF TablaJusta
  <2>2. QED
    BY <1>1, <2>1
<1>5. /\ r.op = op /\ r.paso = "buscar" /\ r.i = desde /\ r.hasta = hasta /\ r.v = v
      /\ r \in Pedido
  BY <1>0, <1>4 DEF Ninguno, Pedido
<1>6. pedido'[p] = r /\ list_size(p)' = list_size(p)
  BY <1>1, <1>2, <1>5, CambiaPedido DEF list_size
<1>7. PedidoJusto(p)'
  BY <1>1, <1>4, <1>5, <1>6, SinPedido DEF PedidoJusto
<1>8. TablaJusta(p)'
  BY <1>1, <1>2, <1>3, <1>5, <1>6, SinPedido DEF TablaJusta
<1>9. QED
  BY <1>1, <1>2, <1>3, <1>5, <1>7, <1>8, SinReserva

LEMMA CerrarP ==
  ASSUME MarcosInv, NEW p \in Procesos, Cerrar(p)
  PROVE  MarcosInv' /\ (SoloInv /\ Solos(p) => SoloInv')
<1>0. PICK r : r = [Ninguno EXCEPT !.op = "cerrar", !.paso = "quitar"]
  OBVIOUS
<1>1. /\ Puede(p) /\ pedido' = [pedido EXCEPT ![p] = r]
      /\ listado' = [listado EXCEPT ![p] = FALSE] /\ cola' = [cola EXCEPT ![p] = FALSE]
      /\ UNCHANGED <<bitmap_marcos, bitmap_swap, clock, punteros, memoria, espacio>>
      /\ UNCHANGED <<procesos, paginas, caido, escrito, vaciadas, paginas_usadas>>
  BY <1>0 DEF Cerrar, Pedir, marVars, hisVars
<1>2. /\ FormaTablas /\ TablaJusta(p) /\ FormaPedidos
      /\ listado' \in [Procesos -> BOOLEAN] /\ cola' \in [Procesos -> BOOLEAN] /\ ~ cola'[p]
      /\ \A q \in Procesos \ {p} : listado'[q] = listado[q] /\ cola'[q] = cola[q]
  BY <1>1 DEF MarcosInv, PedidosJustos, FormaTablas
<1>3. pedido[p] = Ninguno /\ p \in procesos
  BY <1>1 DEF Puede
<1>4. r.op = "cerrar" /\ r.paso = "quitar" /\ r \in Pedido
  BY <1>0 DEF Ninguno, Pedido
<1>5. pedido'[p] = r
  BY <1>1, <1>2, <1>4, CambiaPedido
<1>6. PedidoJusto(p)'
  BY <1>4, <1>5, SinPedido DEF PedidoJusto
<1>7. TablaJusta(p)'
  BY <1>1, <1>2, <1>3, <1>4, <1>5 DEF TablaJusta
<1>8. QED
  BY <1>1, <1>2, <1>3, <1>4, <1>6, <1>7, SinReserva
-----------------------------------------------------------------------------
\* The iteration of crearPaginas that is going to be made.
LEMMA Creacion ==
  ASSUME MarcosInv, NEW p \in Procesos, Creando(p)
  PROVE  /\ pedido[p].op = "reservar" /\ pedido[p].paso = "crear" /\ pedido[p] # Ninguno
         /\ pedido[p].i \in Nat \ {0} /\ pedido[p].hasta \in Nat /\ pedido[p].i <= pedido[p].hasta
         /\ DOMAIN paginas[p] = 0..list_size(p) - 1 /\ list_size(p) \in Nat
         /\ Faltan(p) = pedido[p].hasta - pedido[p].i + (IF Reusa(p) THEN 0 ELSE 1)
         /\ Reusa(p) => list_size(p) - 1 \in DOMAIN paginas[p]
         /\ ~ Reusa(p) => list_size(p) \in Numeros \ DOMAIN paginas[p] /\ Faltan(p) \in Nat \ {0}
         /\ p \in procesos /\ p \notin Devolviendo
<1>1. /\ FormaMarcos /\ FormaPedidos /\ PedidoJusto(p) /\ TablaJusta(p)
      /\ pedido[p].paso = "crear" /\ pedido[p] \in Pedido
  BY DEF MarcosInv, MemoriaInv, FormaTablas, PedidosJustos, Creando, Paso, FormaPedidos
<1>2. /\ pedido[p].op = "reservar" /\ pedido[p].i \in 1..pedido[p].hasta
      /\ list_size(p) + Faltan(p) <= MaxPaginas[p]
  BY <1>1 DEF PedidoJusto
<1>3. pedido[p] # Ninguno
  BY <1>1, SinPedido
<1>4. /\ list_size(p) \in Nat /\ (DOMAIN paginas[p] # {} <=> list_size(p) # 0)
      /\ DOMAIN paginas[p] = 0..list_size(p) - 1
      /\ cola[p] => DOMAIN paginas[p] # {}
      /\ p \in procesos
  BY <1>1, <1>2, <1>3, TamanioDeTabla, SMTT(30) DEF TablaJusta
<1>5. pedido[p].hasta \in Nat /\ pedido[p].i \in Nat
  BY <1>1, UnPedido
<1>6. Faltan(p) = pedido[p].hasta - pedido[p].i + (IF Reusa(p) THEN 0 ELSE 1)
  BY <1>1 DEF Faltan
<1>7. Reusa(p) => list_size(p) - 1 \in DOMAIN paginas[p]
  BY <1>4 DEF Reusa
<1>8. ASSUME ~ Reusa(p)
      PROVE  list_size(p) \in Numeros \ DOMAIN paginas[p] /\ Faltan(p) \in Nat \ {0}
  <2>1. Faltan(p) \in Nat \ {0}
    BY <1>2, <1>5, <1>6, <1>8
  <2>2. MaxPaginas[p] \in Nat
    BY ConstantesMUSE
  <2>3. list_size(p) \in 0..MaxPaginas[p] - 1
    BY <1>2, <1>4, <2>1, <2>2
  <2>4. QED
    BY <1>4, <2>1, <2>3 DEF Numeros
<1>9. p \notin Devolviendo
  BY <1>1 DEF Devolviendo
<1>10. QED
  BY <1>1, <1>2, <1>3, <1>4, <1>5, <1>6, <1>7, <1>8, <1>9

\* Whatever it does to the memory, no thread begins or ends giving a frame back.
LEMMA FichasReserva ==
  ASSUME MarcosInv, NEW p \in Procesos, Creando(p), SigueReserva(p)
  PROVE  FormaPedidos' /\ Fichas
<1>0. PICK r : r = pedido[p]
  OBVIOUS
<1>1. /\ r.paso = "crear" /\ r.i \in Nat /\ p \notin Devolviendo
      /\ FormaPedidos /\ r \in Pedido
  BY <1>0, Creacion DEF MarcosInv, FormaTablas, FormaPedidos
<1>2. PICK t \in Pedido : t.paso \in {"", "crear"} /\ pedido' = [pedido EXCEPT ![p] = t]
  <2>1. CASE r.i = r.hasta
    <3>1. pedido' = [pedido EXCEPT ![p] = Ninguno]
      BY <1>0, <2>1 DEF SigueReserva
    <3>2. QED
      BY <3>1, SinPedido
  <2>2. CASE r.i # r.hasta
    <3>0. PICK j \in Nat : j = r.i + 1
      BY <1>1
    <3>1. PICK t : t = [r EXCEPT !.i = j]
      OBVIOUS
    <3>2. t \in Pedido /\ t.paso = r.paso
      BY <1>1, <3>1 DEF Pedido
    <3>3. pedido' = [pedido EXCEPT ![p] = t]
      BY <1>0, <1>1, <2>2, <3>0, <3>1 DEF SigueReserva, FormaPedidos
    <3>4. QED
      BY <1>1, <3>2, <3>3
  <2>3. QED
    BY <2>1, <2>2
<1>3. FormaPedidos' /\ pedido'[p] = t /\ \A q \in Procesos \ {p} : pedido'[q] = pedido[q]
  BY <1>1, <1>2, CambiaPedido
<1>4. pedido'[p].paso # "bit" /\ pedido[p].paso # "bit"
  BY <1>0, <1>1, <1>2, <1>3
<1>5. Fichas
  BY <1>3, <1>4 DEF Fichas, Devolviendo
<1>6. QED
  BY <1>3, <1>5

\* It is made, and the request goes on with the next.
LEMMA AvanzaReserva ==
  ASSUME MarcosInv, NEW p \in Procesos, Creando(p), SigueReserva(p), procesos' = procesos,
         DOMAIN paginas'[p] = DOMAIN paginas[p] \cup {IF Reusa(p) THEN list_size(p) - 1
                                                                ELSE list_size(p)},
         \A q \in Procesos \ {p} : DOMAIN paginas'[q] = DOMAIN paginas[q]
  PROVE  /\ FormaPedidos' /\ SoloEl(p) /\ Fichas /\ PedidoJusto(p)' /\ TablaJusta(p)'
         /\ listado' \in [Procesos -> BOOLEAN] /\ cola' \in [Procesos -> BOOLEAN]
         /\ Faltan(p)' = Faltan(p) - (IF Reusa(p) THEN 0 ELSE 1)
         /\ pedido'[p].paso \in {"", "crear"}
<1>0. PICK r : r = pedido[p]
  OBVIOUS
<1>1. /\ r.op = "reservar" /\ r.paso = "crear" /\ r.i \in Nat \ {0} /\ r.hasta \in Nat
      /\ r.i <= r.hasta /\ p \in procesos /\ p \notin Devolviendo
      /\ DOMAIN paginas[p] = 0..list_size(p) - 1 /\ list_size(p) \in Nat
      /\ Faltan(p) = r.hasta - r.i + (IF Reusa(p) THEN 0 ELSE 1)
      /\ Reusa(p) => list_size(p) - 1 \in DOMAIN paginas[p]
  BY <1>0, Creacion, SMTT(30)
<1>2. /\ FormaPedidos /\ listado \in [Procesos -> BOOLEAN] /\ cola \in [Procesos -> BOOLEAN]
      /\ PedidoJusto(p) /\ r \in Pedido /\ r.cola \in BOOLEAN
  BY <1>0, UnPedido DEF MarcosInv, FormaTablas, FormaPedidos, PedidosJustos
<1>3. /\ DOMAIN paginas'[p] = 0..list_size(p)' - 1 /\ DOMAIN paginas'[p] # {}
      /\ list_size(p)' = list_size(p) + (IF Reusa(p) THEN 0 ELSE 1)
  <2>0. PICK L \in Nat : L = list_size(p) + (IF Reusa(p) THEN 0 ELSE 1)
    BY <1>1
  <2>1. DOMAIN paginas'[p] = 0..L - 1 /\ L # 0
    <3>1. CASE Reusa(p)
      BY <1>1, <2>0, <3>1
    <3>2. CASE ~ Reusa(p)
      BY <1>1, <2>0, <3>2
    <3>3. QED
      BY <3>1, <3>2
  <2>2. L - 1 \in Int /\ 0 \in Int
    BY <2>0
  <2>3. Cardinality(0..L - 1) = IF 0 > L - 1 THEN 0 ELSE (L - 1) - 0 + 1
    BY <2>2, FS_Interval
  <2>4. list_size(p)' = L
    <3>1. Cardinality(0..L - 1) = L
      BY <2>0, <2>1, <2>3
    <3>2. list_size(p)' = Cardinality(DOMAIN paginas'[p])
      BY DEF list_size
    <3>3. QED
      BY <2>1, <3>1, <3>2, Zenon
  <2>5. QED
    BY <2>0, <2>1, <2>4
<1>4. list_size(p) + Faltan(p) <= MaxPaginas[p]
  BY <1>0, <1>1, <1>2 DEF PedidoJusto
<1>5. CASE r.i = r.hasta
  <2>1. /\ pedido' = [pedido EXCEPT ![p] = Ninguno] /\ listado' = [listado EXCEPT ![p] = TRUE]
        /\ cola' = [cola EXCEPT ![p] = r.cola]
    BY <1>0, <1>5 DEF SigueReserva
  <2>2. /\ FormaPedidos' /\ pedido'[p] = Ninguno
        /\ \A q \in Procesos \ {p} : pedido'[q] = pedido[q]
    BY <1>2, <2>1, SinPedido, CambiaPedido
  <2>3. /\ listado' \in [Procesos -> BOOLEAN] /\ cola' \in [Procesos -> BOOLEAN] /\ listado'[p]
        /\ \A q \in Procesos \ {p} : listado'[q] = listado[q] /\ cola'[q] = cola[q]
    BY <1>2, <2>1
  <2>4. SoloEl(p)
    BY <2>2, <2>3 DEF SoloEl
  <2>5. Fichas
    BY <1>0, <1>1, <2>2, <2>4, SinPedido, MismasFichas
  <2>6. Faltan(p)' = Faltan(p) - (IF Reusa(p) THEN 0 ELSE 1)
    <3>1. Faltan(p)' = 0
      BY <2>2, SinPedido DEF Faltan
    <3>2. QED
      BY <1>1, <1>5, <3>1
  <2>7. PedidoJusto(p)'
    BY <2>2, SinPedido DEF PedidoJusto
  <2>8. TablaJusta(p)'
    BY <1>1, <1>3, <2>2, <2>3, SinPedido DEF TablaJusta
  <2>9. QED
    BY <2>2, <2>3, <2>4, <2>5, <2>6, <2>7, <2>8, SinPedido
<1>6. CASE r.i # r.hasta
  <2>0. PICK t : t = [r EXCEPT !.i = r.i + 1]
    OBVIOUS
  <2>1. /\ pedido' = [pedido EXCEPT ![p].i = r.i + 1] /\ listado' = listado
        /\ cola' = [cola EXCEPT ![p] = FALSE]
    BY <1>0, <1>6 DEF SigueReserva
  <2>2. /\ t \in Pedido /\ t.op = "reservar" /\ t.paso = "crear" /\ t.i = r.i + 1
        /\ t.hasta = r.hasta
    <3>0. PICK j \in Nat : j = r.i + 1
      BY <1>1
    <3>1. t = [r EXCEPT !.i = j]
      BY <2>0, <3>0
    <3>2. t \in Pedido /\ t.op = r.op /\ t.paso = r.paso /\ t.i = j /\ t.hasta = r.hasta
      BY <1>2, <3>1 DEF Pedido
    <3>3. QED
      BY <1>1, <3>0, <3>2
  <2>3. pedido' = [pedido EXCEPT ![p] = t]
    BY <1>0, <1>2, <2>0, <2>1 DEF FormaPedidos
  <2>4. /\ FormaPedidos' /\ pedido'[p] = t /\ \A q \in Procesos \ {p} : pedido'[q] = pedido[q]
    BY <1>2, <2>2, <2>3, CambiaPedido
  <2>5. /\ listado' \in [Procesos -> BOOLEAN] /\ cola' \in [Procesos -> BOOLEAN] /\ ~ cola'[p]
        /\ \A q \in Procesos \ {p} : listado'[q] = listado[q] /\ cola'[q] = cola[q]
    BY <1>2, <2>1
  <2>6. SoloEl(p)
    BY <2>4, <2>5 DEF SoloEl
  <2>7. Fichas
    BY <1>0, <1>1, <2>2, <2>4, <2>6, MismasFichas
  <2>8. Faltan(p)' = Faltan(p) - (IF Reusa(p) THEN 0 ELSE 1)
    <3>1. Faltan(p)' = r.hasta - (r.i + 1) + 1
      BY <2>2, <2>4, <2>5 DEF Faltan, Reusa
    <3>2. QED
      BY <1>1, <3>1
  <2>9. PedidoJusto(p)'
    <3>1. list_size(p)' + Faltan(p)' = list_size(p) + Faltan(p)
      BY <1>1, <1>3, <2>8
    <3>2. t.i \in 1..t.hasta /\ list_size(p)' + Faltan(p)' <= MaxPaginas[p]
      BY <1>1, <1>4, <1>6, <2>2, <3>1
    <3>3. QED
      BY <2>2, <2>4, <3>2 DEF PedidoJusto
  <2>10. TablaJusta(p)'
    BY <1>1, <1>3, <2>2, <2>4, <2>5 DEF TablaJusta
  <2>11. QED
    BY <2>2, <2>4, <2>5, <2>6, <2>7, <2>8, <2>9, <2>10
<1>7. QED
  BY <1>5, <1>6
LEMMA ReusarUltimaP ==
  ASSUME MarcosInv, NEW p \in Procesos, ReusarUltima(p)
  PROVE  MarcosInv' /\ (SoloInv /\ Solos(p) => SoloInv')
<1>0. PICK n : n = list_size(p) - 1
  OBVIOUS
<1>1. /\ Creando(p) /\ Reusa(p) /\ SigueReserva(p)
      /\ UNCHANGED <<paginas_usadas, procesos, caido, escrito>>
  BY DEF ReusarUltima, hisVars
<1>2. /\ MemoriaInv /\ FormaMarcos /\ FormaTablas /\ FormaPedidos /\ PedidosJustos /\ Contadas
      /\ procesos \subseteq Procesos
  BY DEF MarcosInv, FormaTablas, MemoriaInv
<1>3. /\ pedido[p].paso = "crear" /\ p \notin Devolviendo
      /\ n \in DOMAIN paginas[p] /\ n \in Numeros
  BY <1>0, <1>1, <1>2, Creacion, UnaTabla
<1>4. ASSUME \A q \in Procesos : DOMAIN paginas'[q] = DOMAIN paginas[q]
      PROVE  /\ FormaPedidos' /\ SoloEl(p) /\ Fichas /\ PedidosJustos' /\ Contadas'
             /\ listado' \in [Procesos -> BOOLEAN] /\ cola' \in [Procesos -> BOOLEAN]
             /\ pedido'[p].paso \in {"", "crear"}
  <2>1. DOMAIN paginas'[p] = DOMAIN paginas[p] \cup {IF Reusa(p) THEN list_size(p) - 1
                                                             ELSE list_size(p)}
    BY <1>0, <1>1, <1>3, <1>4
  <2>2. /\ FormaPedidos' /\ SoloEl(p) /\ Fichas /\ PedidoJusto(p)' /\ TablaJusta(p)'
        /\ listado' \in [Procesos -> BOOLEAN] /\ cola' \in [Procesos -> BOOLEAN]
        /\ Faltan(p)' = Faltan(p) - (IF Reusa(p) THEN 0 ELSE 1)
        /\ pedido'[p].paso \in {"", "crear"}
    BY <1>1, <1>4, <2>1, AvanzaReserva
  <2>3. Faltan(p)' = Faltan(p)
    <3>1. Faltan(p) \in Int
      BY <1>1, Creacion
    <3>2. Faltan(p)' = Faltan(p) - 0
      BY <1>1, <2>2, Zenon
    <3>3. QED
      BY <3>1, <3>2
  <2>4. Contadas'
    BY <1>1, <1>2, <1>4, <2>2, <2>3, CuentaIgual
  <2>5. PedidosJustos'
    BY <1>2, <2>2, OtrosJustos
  <2>6. QED
    BY <2>2, <2>4, <2>5
<1>5. CASE /\ paginas[p][n].p = 1
           /\ UNCHANGED <<marVars, paginas, hisVars>>
  <2>1. /\ UNCHANGED <<bitmap_marcos, bitmap_swap, clock, punteros, memoria, espacio>>
        /\ UNCHANGED <<paginas, escrito, vaciadas>>
    BY <1>5 DEF marVars, hisVars
  <2>2. /\ FormaPedidos' /\ SoloEl(p) /\ Fichas /\ PedidosJustos' /\ Contadas'
        /\ listado' \in [Procesos -> BOOLEAN] /\ cola' \in [Procesos -> BOOLEAN]
        /\ pedido'[p].paso \in {"", "crear"}
    BY <1>4, <2>1
  <2>3. MemoriaInv'
    BY <1>2, <2>1, <2>2, Quieta DEF FormaMarcos
  <2>4. FormaTablas'
    BY <1>1, <1>2, <2>1, <2>2 DEF FormaTablas
  <2>5. SoloInv /\ Solos(p) => SoloInv'
    BY <1>2, <1>3, <2>1, <2>2, SoloQuieto
  <2>6. QED
    BY <2>2, <2>3, <2>4, <2>5 DEF MarcosInv
<1>6. CASE /\ paginas[p][n].p = 0
           /\ Traer(p, n, paginas[p][n].marco, TRUE)
           /\ vaciadas' = IF MarcosLibres = {} /\ escrito[p][n] # 0 THEN vaciadas \cup {<<p, n>>}
                          ELSE vaciadas
  <2>1. FormaPedidos' /\ Fichas
    BY <1>1, FichasReserva
  <2>2. /\ MemoriaInv' /\ Conserva(<<p, n>>) /\ (ClockExacto => ClockExacto')
        /\ MarcosLibres # {} => Guardado(p, n)' = Guardado(p, n)
        /\ \A g \in Marcos \ bitmap_marcos' : g \notin bitmap_marcos /\ clock'[g] = clock[g]
        /\ \A q \in Procesos : DOMAIN paginas'[q] = DOMAIN paginas[q]
    BY <1>2, <1>3, <1>6, <2>1, TraePagina
  <2>3. /\ FormaPedidos' /\ SoloEl(p) /\ Fichas /\ PedidosJustos' /\ Contadas'
        /\ listado' \in [Procesos -> BOOLEAN] /\ cola' \in [Procesos -> BOOLEAN]
        /\ pedido'[p].paso \in {"", "crear"}
    BY <1>4, <2>2
  <2>4. vaciadas \subseteq vaciadas' /\ vaciadas' \subseteq Procesos \X Numeros
    BY <1>2, <1>3, <1>6 DEF FormaTablas
  <2>5. FormaTablas'
    BY <1>1, <1>2, <2>3, <2>4 DEF FormaTablas
  <2>6. ASSUME SoloInv, Solos(p)
        PROVE  SoloInv'
    <3>1. \A x \in Paginas \ vaciadas' :
            escrito[x[1]][x[2]] # 0 => Guardado(x[1], x[2])' = Guardado(x[1], x[2])
      <4>1. <<p, n>> \notin vaciadas' /\ escrito[p][n] # 0 => MarcosLibres # {}
        BY <1>6
      <4>2. QED
        BY <2>2, <4>1 DEF Conserva
    <3>2. SinCopia' /\ ContenidoIntacto'
      BY <1>1, <1>2, <2>2, <2>4, <2>6, <3>1, CopiasIgual DEF SoloInv
    <3>3. ClockExacto'
      BY <2>2, <2>6 DEF SoloInv
    <3>4. \A g \in Marcos \ bitmap_marcos' : g \notin bitmap_marcos /\ clock'[g].id = clock[g].id
      BY <2>2
    <3>5. QED
      BY <1>3, <2>3, <2>6, <3>2, <3>3, <3>4, SoloSigue
  <2>7. QED
    BY <2>3, <2>2, <2>5, <2>6 DEF MarcosInv
<1>7. QED
  BY <1>0, <1>5, <1>6 DEF ReusarUltima
LEMMA PaginaNuevaP ==
  ASSUME MarcosInv, NEW p \in Procesos, PaginaNueva(p)
  PROVE  MarcosInv' /\ (SoloInv /\ Solos(p) => SoloInv')
<1>0. PICK n, f, s : /\ n = list_size(p) /\ f = Menor(MarcosLibres)
                     /\ s = Menor(MarcosSwap \ bitmap_swap)
  OBVIOUS
<1>1. /\ Creando(p) /\ ~ Reusa(p) /\ SigueReserva(p)
      /\ UNCHANGED <<paginas_usadas, procesos, caido, escrito, vaciadas>>
  BY DEF PaginaNueva, hisVars
<1>2. /\ MemoriaInv /\ FormaMarcos /\ FormaTablas /\ FormaPedidos /\ PedidosJustos /\ Contadas
      /\ procesos \subseteq Procesos
  BY DEF MarcosInv, FormaTablas, MemoriaInv
<1>3. /\ pedido[p].paso = "crear" /\ p \notin Devolviendo
      /\ n \in Numeros /\ n \notin DOMAIN paginas[p] /\ Faltan(p) \in Nat \ {0}
  BY <1>0, <1>1, Creacion
<1>4. FormaPedidos' /\ Fichas
  BY <1>1, FichasReserva
<1>5. ASSUME MemoriaInv', Conserva(<<p, n>>), ClockExacto => ClockExacto',
             DOMAIN paginas'[p] = DOMAIN paginas[p] \cup {n},
             \A q \in Procesos \ {p} : DOMAIN paginas'[q] = DOMAIN paginas[q],
             \A g \in Marcos \ bitmap_marcos' :
               g \notin bitmap_marcos /\ clock'[g].id = clock[g].id
      PROVE  MarcosInv' /\ (SoloInv /\ Solos(p) => SoloInv')
  <2>1. DOMAIN paginas'[p] = DOMAIN paginas[p] \cup {IF Reusa(p) THEN list_size(p) - 1
                                                             ELSE list_size(p)}
    BY <1>0, <1>1, <1>5
  <2>2. /\ SoloEl(p) /\ PedidoJusto(p)' /\ TablaJusta(p)'
        /\ listado' \in [Procesos -> BOOLEAN] /\ cola' \in [Procesos -> BOOLEAN]
        /\ Faltan(p)' = Faltan(p) - (IF Reusa(p) THEN 0 ELSE 1)
        /\ pedido'[p].paso \in {"", "crear"}
    BY <1>1, <1>5, <2>1, AvanzaReserva
  <2>3. Faltan(p)' = Faltan(p) - 1
    BY <1>1, <2>2, Zenon
  <2>4. Contadas' /\ Paginas' = Paginas \cup {<<p, n>>}
    BY <1>1, <1>2, <1>3, <1>5, <2>2, <2>3, CuentaCrea
  <2>5. PedidosJustos'
    BY <1>2, <2>2, OtrosJustos
  <2>6. FormaTablas'
    BY <1>1, <1>2, <1>4, <2>2 DEF FormaTablas
  <2>7. ASSUME SoloInv, Solos(p)
        PROVE  SoloInv'
    <3>1. SinCopia' /\ ContenidoIntacto'
      BY <1>1, <1>2, <1>3, <1>5, <2>4, <2>7, CopiasNueva DEF SoloInv
    <3>2. ClockExacto'
      BY <1>5, <2>7 DEF SoloInv
    <3>3. QED
      BY <1>3, <1>5, <2>2, <2>7, <3>1, <3>2, SoloSigue
  <2>8. QED
    BY <1>5, <2>4, <2>5, <2>6, <2>7 DEF MarcosInv
<1>6. CASE /\ MarcosLibres # {}
           /\ bitmap_marcos' = bitmap_marcos \cup {f}
           /\ clock' = [clock EXCEPT ![f] = Entrada(p, n)]
           /\ paginas' = [paginas EXCEPT ![p] = Con(@, n, [p |-> 1, marco |-> f])]
           /\ UNCHANGED <<bitmap_swap, punteros, memoria, espacio>>
  <2>1. f \in Marcos \ bitmap_marcos
    BY <1>0, <1>6, Conjuntos, MenorEsta DEF MarcosLibres
  <2>2. PICK o : o = PaginasSwap
    OBVIOUS
  <2>3. o \notin bitmap_swap /\ Viene(p, n, o) /\ bitmap_swap' = bitmap_swap \ {o}
    <3>1. o \notin MarcosSwap
      BY <2>2, ConstantesMUSE DEF MarcosSwap
    <3>2. QED
      BY <1>2, <1>3, <1>6, <3>1 DEF FormaMarcos, Viene
  <2>4. /\ paginas' = [paginas EXCEPT ![p] = Con(@, n, EnMemoria(f))]
        /\ memoria' \in [Marcos -> Contenido] /\ espacio' \in [MarcosSwap -> Contenido]
    BY <1>2, <1>6 DEF EnMemoria, FormaMarcos
  <2>5. /\ MemoriaInv' /\ Conserva(<<p, n>>) /\ (ClockExacto => ClockExacto')
        /\ Guardado(p, n)' = memoria'[f]
        /\ DOMAIN paginas'[p] = DOMAIN paginas[p] \cup {n} /\ paginas'[p][n] = EnMemoria(f)
        /\ \A q \in Procesos \ {p} : DOMAIN paginas'[q] = DOMAIN paginas[q]
    <3>1. /\ \A g \in Marcos \ {f} : memoria'[g] = memoria[g]
          /\ \A e \in MarcosSwap \ {o} : espacio'[e] = espacio[e]
          /\ punteros' = punteros /\ p \in Procesos \ Devolviendo
      BY <1>3, <1>6
    <3>2. /\ bitmap_marcos' = bitmap_marcos \cup {f}
          /\ clock' = [clock EXCEPT ![f] = Entrada(p, n)]
      BY <1>6
    <3>3. QED
      BY <1>2, <1>3, <1>4, <2>1, <2>3, <2>4, <3>1, <3>2, PoneLibre
  <2>6. \A g \in Marcos \ bitmap_marcos' : g \notin bitmap_marcos /\ clock'[g].id = clock[g].id
    BY <1>6
  <2>7. QED
    BY <1>5, <2>5, <2>6
<1>7. ASSUME MarcosLibres = {}, MarcosSwap # bitmap_swap
      PROVE  s \in MarcosSwap \ bitmap_swap
  <2>1. MarcosSwap \ bitmap_swap # {} /\ MarcosSwap \ bitmap_swap \in SUBSET Nat
    BY <1>2, <1>7, Conjuntos DEF FormaMarcos
  <2>2. QED
    BY <1>0, <2>1, MenorEsta
<1>8. CASE /\ MarcosLibres = {} /\ MarcosSwap # bitmap_swap
           /\ bitmap_swap' = bitmap_swap \cup {s}
           /\ paginas' = [paginas EXCEPT ![p] = Con(@, n, [p |-> 0, marco |-> s])]
           /\ UNCHANGED <<bitmap_marcos, clock, punteros, memoria, espacio>>
  <2>1. paginas' = [paginas EXCEPT ![p] = Con(@, n, EnSwap(s))]
    BY <1>8 DEF EnSwap
  <2>2. /\ MemoriaInv' /\ Conserva(<<p, n>>) /\ (ClockExacto => ClockExacto')
        /\ DOMAIN paginas'[p] = DOMAIN paginas[p] \cup {n}
        /\ \A q \in Procesos \ {p} : DOMAIN paginas'[q] = DOMAIN paginas[q]
    BY <1>2, <1>3, <1>4, <1>7, <1>8, <2>1, PoneEnSwap
  <2>3. QED
    BY <1>5, <1>8, <2>2
<1>9. CASE /\ MarcosLibres = {} /\ MarcosSwap # bitmap_swap
           /\ TraerPorVictima(p, n, s, TRUE)
  <2>1. s \in MarcosSwap /\ Viene(p, n, s)
    BY <1>3, <1>7, <1>9 DEF Viene
  <2>2. /\ MemoriaInv' /\ Conserva(<<p, n>>) /\ (ClockExacto => ClockExacto')
        /\ DOMAIN paginas'[p] = DOMAIN paginas[p] \cup {n}
        /\ \A q \in Procesos \ {p} : DOMAIN paginas'[q] = DOMAIN paginas[q]
    BY <1>2, <1>3, <1>4, <1>9, <2>1, PoneConVictima
  <2>3. bitmap_marcos' = bitmap_marcos /\ Marcos \ bitmap_marcos = {}
    BY <1>9 DEF TraerPorVictima, MarcosLibres
  <2>4. QED
    BY <1>5, <2>2, <2>3
<1>10. QED
  BY <1>0, <1>6, <1>8, <1>9 DEF PaginaNueva
-----------------------------------------------------------------------------
\* The access that is going to be made.
LEMMA Acceso ==
  ASSUME MarcosInv, NEW p \in Procesos, pedido[p].paso \in {"buscar", "usar"}
  PROVE  /\ pedido[p].op \in {"ajustar", "copiar", "obtener"} /\ pedido[p] # Ninguno
         /\ pedido[p] \in Pedido /\ pedido[p].i \in Nat /\ pedido[p].hasta \in Nat
         /\ pedido[p].op = "copiar" => pedido[p].v \in Versiones
         /\ pedido[p].i <= pedido[p].hasta /\ pedido[p].i..pedido[p].hasta \subseteq DOMAIN paginas[p]
         /\ pedido[p].i \in DOMAIN paginas[p] /\ pedido[p].i \in Numeros
         /\ Actual(p) \in Registro /\ Actual(p) = paginas[p][pedido[p].i]
         /\ p \in procesos /\ p \notin Devolviendo
<1>0. PICK r : r = pedido[p]
  OBVIOUS
<1>1. FormaMarcos /\ FormaPedidos /\ PedidoJusto(p) /\ TablaJusta(p) /\ r \in Pedido
  BY <1>0, SMTT(30) DEF MarcosInv, MemoriaInv, FormaTablas, PedidosJustos, FormaPedidos
<1>2. /\ r.op \in {"ajustar", "copiar", "obtener"} /\ (r.op = "copiar" => r.v \in Versiones)
      /\ r.i <= r.hasta /\ r.i..r.hasta \subseteq DOMAIN paginas[p]
  BY <1>0, <1>1, UnPedido, ZenonT(60) DEF PedidoJusto
<1>3. r.i \in Nat /\ r.hasta \in Nat /\ r # Ninguno /\ p \notin Devolviendo
  BY <1>0, <1>1, <1>2, UnPedido, SinPedido DEF Devolviendo
<1>4. r.i \in DOMAIN paginas[p]
  BY <1>2, <1>3
<1>5. r.i \in Numeros /\ paginas[p][r.i] \in Registro
  BY <1>1, <1>4, UnaTabla
<1>6. p \in procesos
  BY <1>0, <1>1, <1>3 DEF TablaJusta
<1>7. QED
  BY <1>0, <1>1, <1>2, <1>3, <1>4, <1>5, <1>6 DEF Actual

\* What follows a step of it: the page is found, or it is used and the request
\* goes on with the next.
Continua(p, t) ==
  /\ t \in Pedido /\ pedido' = [pedido EXCEPT ![p] = t]
  /\ \/ t = Ninguno
     \/ /\ t.op = pedido[p].op /\ t.v = pedido[p].v /\ t.paso \in {"buscar", "usar"}
        /\ t.i <= t.hasta /\ t.i..t.hasta \subseteq DOMAIN paginas[p]

LEMMA PaginaEncontrada ==
  ASSUME MarcosInv, NEW p \in Procesos, pedido[p].paso = "buscar",
         pedido' = [pedido EXCEPT ![p].paso = "usar"]
  PROVE  \E t : Continua(p, t) /\ t.paso = "usar" /\ t.i = pedido[p].i
<1>0. PICK r, t : r = pedido[p] /\ t = [r EXCEPT !.paso = "usar"]
  OBVIOUS
<1>1. /\ r \in Pedido /\ r.i <= r.hasta /\ r.i..r.hasta \subseteq DOMAIN paginas[p]
      /\ FormaPedidos
  BY <1>0, Acceso DEF MarcosInv, FormaTablas
<1>2. /\ t \in Pedido /\ t.op = r.op /\ t.v = r.v /\ t.paso = "usar" /\ t.i = r.i
      /\ t.hasta = r.hasta
  BY <1>0, <1>1 DEF Pedido
<1>3. pedido' = [pedido EXCEPT ![p] = t]
  BY <1>0, <1>1 DEF FormaPedidos
<1>4. QED
  BY <1>0, <1>1, <1>2, <1>3, ZenonT(60) DEF Continua

LEMMA PaginaUsada ==
  ASSUME MarcosInv, NEW p \in Procesos, pedido[p].paso = "usar", SigueAcceso(p)
  PROVE  \E t : Continua(p, t) /\ t.paso \in {"", "buscar"}
<1>0. PICK r : r = pedido[p]
  OBVIOUS
<1>1. /\ r \in Pedido /\ r.i <= r.hasta /\ r.i..r.hasta \subseteq DOMAIN paginas[p]
      /\ r.i \in Nat /\ r.hasta \in Nat /\ FormaPedidos
  BY <1>0, Acceso DEF MarcosInv, FormaTablas
<1>2. CASE r.i = r.hasta
  <2>1. pedido' = [pedido EXCEPT ![p] = Ninguno]
    BY <1>0, <1>2 DEF SigueAcceso
  <2>2. QED
    BY <2>1, SinPedido DEF Continua
<1>3. CASE r.i # r.hasta
  <2>1. PICK j \in Nat : j = r.i + 1
    BY <1>1
  <2>2. PICK t : t = [r EXCEPT !.i = j, !.paso = "buscar", !.primera = FALSE]
    OBVIOUS
  <2>3. /\ t \in Pedido /\ t.op = r.op /\ t.v = r.v /\ t.paso = "buscar" /\ t.i = j
        /\ t.hasta = r.hasta
    BY <1>1, <2>2 DEF Pedido
  <2>4. pedido' = [pedido EXCEPT ![p] = t]
    BY <1>0, <1>1, <1>3, <2>1, <2>2 DEF SigueAcceso, FormaPedidos
  <2>5. t.i <= t.hasta /\ t.i..t.hasta \subseteq DOMAIN paginas[p]
    BY <1>1, <1>3, <2>1, <2>3
  <2>6. QED
    BY <1>0, <2>3, <2>4, <2>5 DEF Continua
<1>4. QED
  BY <1>2, <1>3

LEMMA FichasAcceso ==
  ASSUME MarcosInv, NEW p \in Procesos, pedido[p].paso \in {"buscar", "usar"}, NEW t, Continua(p, t)
  PROVE  /\ FormaPedidos' /\ Fichas /\ pedido'[p] = t
         /\ t.paso \in {"", "buscar", "usar"}
         /\ \A q \in Procesos \ {p} : pedido'[q] = pedido[q]
<1>1. FormaPedidos /\ t \in Pedido /\ pedido' = [pedido EXCEPT ![p] = t]
  BY DEF MarcosInv, FormaTablas, Continua
<1>2. FormaPedidos' /\ pedido'[p] = t /\ \A q \in Procesos \ {p} : pedido'[q] = pedido[q]
  BY <1>1, CambiaPedido
<1>3. t.paso \in {"", "buscar", "usar"}
  BY SinPedido DEF Continua
<1>4. Fichas
  BY <1>2, <1>3 DEF Fichas, Devolviendo
<1>5. QED
  BY <1>2, <1>3, <1>4

\* The tables go on as they were.
LEMMA AvanzaAcceso ==
  ASSUME MarcosInv, NEW p \in Procesos, pedido[p].paso \in {"buscar", "usar"}, NEW t, Continua(p, t),
         \A q \in Procesos : DOMAIN paginas'[q] = DOMAIN paginas[q],
         UNCHANGED <<paginas_usadas, procesos, listado, caido>>, cola' \in [Procesos -> BOOLEAN],
         \A q \in Procesos \ {p} : cola'[q] = cola[q],
         escrito' \in [Procesos -> [Numeros -> {0} \cup Versiones]],
         vaciadas' \subseteq Procesos \X Numeros
  PROVE  SoloEl(p) /\ PedidosJustos' /\ Contadas' /\ FormaTablas'
<1>0. PICK r : r = pedido[p]
  OBVIOUS
<1>1. /\ FormaPedidos' /\ pedido'[p] = t /\ t.paso \in {"", "buscar", "usar"}
      /\ \A q \in Procesos \ {p} : pedido'[q] = pedido[q]
  BY FichasAcceso
<1>2. /\ r.op \in {"ajustar", "copiar", "obtener"} /\ r # Ninguno
      /\ r.op = "copiar" => r.v \in Versiones
      /\ r.i \in DOMAIN paginas[p] /\ p \in procesos
  BY <1>0, Acceso
<1>3. FormaTablas /\ PedidosJustos /\ Contadas /\ TablaJusta(p)
  BY DEF MarcosInv, PedidosJustos
<1>4. SoloEl(p)
  BY <1>1 DEF SoloEl
<1>5. PedidoJusto(p)'
  <2>1. CASE t = Ninguno
    BY <1>1, <2>1, SinPedido DEF PedidoJusto
  <2>2. CASE /\ t.op = r.op /\ t.v = r.v /\ t.paso \in {"buscar", "usar"}
             /\ t.i <= t.hasta /\ t.i..t.hasta \subseteq DOMAIN paginas[p]
    BY <1>1, <1>2, <2>2 DEF PedidoJusto
  <2>3. QED
    BY <1>0, <2>1, <2>2 DEF Continua
<1>6. TablaJusta(p)'
  <2>1. DOMAIN paginas[p] = 0..list_size(p) - 1 /\ list_size(p)' = list_size(p) /\ listado[p]
    BY <1>0, <1>2, <1>3 DEF TablaJusta, list_size
  <2>2. t.op # "cerrar"
    BY <1>0, <1>2, SinPedido DEF Continua
  <2>3. QED
    BY <1>1, <1>2, <2>1, <2>2 DEF TablaJusta
<1>7. PedidosJustos'
  BY <1>3, <1>4, <1>5, <1>6, OtrosJustos
<1>8. Contadas'
  <2>1. Faltan(p)' = Faltan(p)
    BY <1>1 DEF Faltan
  <2>2. QED
    BY <1>3, <1>4, <2>1, CuentaIgual
<1>9. FormaTablas'
  BY <1>1, <1>3 DEF FormaTablas
<1>10. QED
  BY <1>4, <1>7, <1>8, <1>9
LEMMA BuscarP ==
  ASSUME MarcosInv, NEW p \in Procesos, Buscar(p)
  PROVE  MarcosInv' /\ (SoloInv /\ Solos(p) => SoloInv')
<1>0. PICK n : n = pedido[p].i
  OBVIOUS
<1>1. /\ pedido[p].paso = "buscar" /\ pedido' = [pedido EXCEPT ![p].paso = "usar"]
      /\ UNCHANGED <<paginas_usadas, procesos, listado, cola, caido, escrito, vaciadas>>
  BY DEF Buscar, Buscando, Paso, hisVars
<1>2. /\ MemoriaInv /\ FormaMarcos /\ FormaTablas /\ FormaPedidos /\ procesos \subseteq Procesos
      /\ cola' \in [Procesos -> BOOLEAN] /\ vaciadas' \subseteq Procesos \X Numeros
      /\ escrito' \in [Procesos -> [Numeros -> {0} \cup Versiones]]
  BY <1>1 DEF MarcosInv, FormaTablas, MemoriaInv
<1>3. /\ n \in DOMAIN paginas[p] /\ n \in Numeros /\ p \notin Devolviendo
      /\ Actual(p) = paginas[p][n] /\ Actual(p) \in Registro
  BY <1>0, <1>1, Acceso
<1>4. PICK t : Continua(p, t) /\ t.paso = "usar" /\ t.i = n
  BY <1>0, <1>1, PaginaEncontrada
<1>5. /\ FormaPedidos' /\ Fichas /\ pedido'[p] = t
      /\ \A q \in Procesos \ {p} : pedido'[q] = pedido[q]
  BY <1>1, <1>4, FichasAcceso
<1>6. ASSUME \A q \in Procesos : DOMAIN paginas'[q] = DOMAIN paginas[q]
      PROVE  SoloEl(p) /\ PedidosJustos' /\ Contadas' /\ FormaTablas'
  BY <1>1, <1>2, <1>4, <1>6, AvanzaAcceso
<1>7. CASE /\ Actual(p).p = 1
           /\ clock' = [clock EXCEPT ![Actual(p).marco].u = 1]
           /\ UNCHANGED <<bitmap_marcos, bitmap_swap, punteros, memoria, espacio, paginas>>
  <2>0. PICK f : f = Actual(p).marco
    OBVIOUS
  <2>1. SoloEl(p) /\ PedidosJustos' /\ Contadas' /\ FormaTablas'
    BY <1>6, <1>7
  <2>2. f \in Marcos
    BY <1>3, <1>7, <2>0, Registros
  <2>3. /\ clock' \in [Marcos -> Clock]
        /\ \A g \in Marcos : clock'[g].id = clock[g].id /\ clock'[g].pag = clock[g].pag
    <3>1. clock \in [Marcos -> Clock] /\ clock' = [clock EXCEPT ![f].u = 1]
      BY <1>2, <1>7, <2>0 DEF FormaMarcos
    <3>2. \A c \in Clock : /\ [c EXCEPT !.u = 1] \in Clock
                           /\ [c EXCEPT !.u = 1].id = c.id /\ [c EXCEPT !.u = 1].pag = c.pag
      BY DEF Clock
    <3>3. clock' = [clock EXCEPT ![f] = [clock[f] EXCEPT !.u = 1]]
      BY <3>1
    <3>4. QED
      BY <2>2, <3>1, <3>2, <3>3
  <2>4. MemoriaInv'
    BY <1>2, <1>5, <1>7, <2>3, Quieta DEF FormaMarcos
  <2>5. ASSUME SoloInv, Solos(p)
        PROVE  SoloInv'
    <3>1. ClockExacto'
      <4>1. ClockExacto /\ Paginas' = Paginas
        BY <1>7, <2>5 DEF SoloInv, Paginas
      <4>2. \A w \in Paginas : En(w)' = En(w) /\ (En(w).p = 1 => En(w).marco \in Marcos)
        <5>1. \A w \in Paginas : En(w) \in Registro
          BY <1>2, UnaCosa
        <5>2. QED
          BY <1>7, <5>1, Registros DEF En
      <4>3. QED
        BY <2>3, <4>1, <4>2 DEF ClockExacto
    <3>2. SinCopia' /\ ContenidoIntacto'
      <4>1. \A x \in Paginas : Guardado(x[1], x[2])' = Guardado(x[1], x[2])
        <5>1. UNCHANGED <<paginas, memoria, espacio>>
          BY <1>7
        <5>2. QED
          BY <5>1 DEF Guardado
      <4>2. QED
        BY <1>1, <1>2, <1>7, <2>5, <4>1, CopiasIgual DEF SoloInv
    <3>3. Actual(p)'.p = 1
      BY <1>0, <1>4, <1>5, <1>7 DEF Actual
    <3>4. \A g \in Marcos \ bitmap_marcos' : g \notin bitmap_marcos /\ clock'[g].id = clock[g].id
      BY <1>7, <2>3
    <3>5. QED
      BY <1>1, <1>4, <1>5, <2>1, <2>5, <3>1, <3>2, <3>3, <3>4, SoloSigue
  <2>6. QED
    BY <2>1, <2>4, <2>5 DEF MarcosInv
<1>8. CASE Actual(p).p = 0 /\ Traer(p, n, Actual(p).marco, FALSE)
  <2>1. /\ MemoriaInv' /\ Conserva(<<p, n>>) /\ (ClockExacto => ClockExacto')
        /\ Guardado(p, n)' = Guardado(p, n)
        /\ \A q \in Procesos : DOMAIN paginas'[q] = DOMAIN paginas[q]
        /\ paginas'[p][n].p = 1
        /\ \A g \in Marcos \ bitmap_marcos' : g \notin bitmap_marcos /\ clock'[g] = clock[g]
    <3>1. PICK s : s = paginas[p][n].marco
      OBVIOUS
    <3>2. paginas[p][n].p = 0 /\ Traer(p, n, s, FALSE)
      BY <1>3, <1>8, <3>1
    <3>3. QED
      BY <1>2, <1>3, <1>5, <3>1, <3>2, TraePagina
  <2>2. SoloEl(p) /\ PedidosJustos' /\ Contadas' /\ FormaTablas'
    BY <1>6, <2>1
  <2>3. ASSUME SoloInv, Solos(p)
        PROVE  SoloInv'
    <3>1. \A x \in Paginas : Guardado(x[1], x[2])' = Guardado(x[1], x[2])
      BY <2>1 DEF Conserva
    <3>2. SinCopia' /\ ContenidoIntacto'
      BY <1>1, <1>2, <2>1, <2>3, <3>1, CopiasIgual DEF SoloInv
    <3>3. Actual(p)'.p = 1 /\ ClockExacto'
      BY <1>4, <1>5, <2>1, <2>3 DEF Actual, SoloInv
    <3>4. \A g \in Marcos \ bitmap_marcos' : g \notin bitmap_marcos /\ clock'[g].id = clock[g].id
      BY <2>1
    <3>5. QED
      BY <1>1, <1>4, <1>5, <2>2, <2>3, <3>2, <3>3, <3>4, SoloSigue
  <2>4. QED
    BY <2>1, <2>2, <2>3 DEF MarcosInv
<1>9. QED
  BY <1>0, <1>7, <1>8 DEF Buscar

LEMMA LeerP ==
  ASSUME MarcosInv, NEW p \in Procesos, Leer(p)
  PROVE  MarcosInv' /\ (SoloInv /\ Solos(p) => SoloInv')
<1>1. /\ pedido[p].paso = "usar" /\ SigueAcceso(p)
      /\ UNCHANGED <<bitmap_marcos, bitmap_swap, clock, punteros, memoria, espacio>>
      /\ UNCHANGED <<paginas, escrito, vaciadas>>
      /\ UNCHANGED <<paginas_usadas, procesos, listado, caido>> /\ cola' = cola
  BY DEF Leer, Usando, Paso, marVars, tabVars, hisVars
<1>2. PICK t : Continua(p, t) /\ t.paso \in {"", "buscar"}
  BY <1>1, PaginaUsada
<1>3. FormaPedidos' /\ Fichas /\ pedido'[p] = t
  BY <1>1, <1>2, FichasAcceso
<1>4. /\ MemoriaInv /\ FormaMarcos /\ FormaPedidos /\ cola' \in [Procesos -> BOOLEAN]
      /\ escrito' \in [Procesos -> [Numeros -> {0} \cup Versiones]]
      /\ vaciadas' \subseteq Procesos \X Numeros
  BY <1>1 DEF MarcosInv, FormaTablas, MemoriaInv
<1>5. SoloEl(p) /\ PedidosJustos' /\ Contadas' /\ FormaTablas'
  BY <1>1, <1>2, <1>4, AvanzaAcceso
<1>6. MemoriaInv'
  BY <1>1, <1>3, <1>4, Quieta DEF FormaMarcos
<1>7. SoloInv /\ Solos(p) => SoloInv'
  BY <1>1, <1>2, <1>3, <1>4, <1>5, SoloQuieto
<1>8. QED
  BY <1>5, <1>6, <1>7 DEF MarcosInv

LEMMA EscribirHeaderP ==
  ASSUME MarcosInv, NEW p \in Procesos, EscribirHeader(p)
  PROVE  MarcosInv' /\ (SoloInv /\ Solos(p) => SoloInv')
<1>1. /\ pedido[p].paso = "usar" /\ SigueAcceso(p)
      /\ UNCHANGED <<bitmap_marcos, bitmap_swap, clock, punteros, memoria, espacio>>
      /\ UNCHANGED <<paginas, escrito, vaciadas>>
      /\ UNCHANGED <<paginas_usadas, procesos, listado, caido>>
      /\ cola' = [cola EXCEPT ![p] = pedido[p].cola]
  BY DEF EscribirHeader, Usando, Paso, marVars, hisVars
<1>2. PICK t : Continua(p, t) /\ t.paso \in {"", "buscar"}
  BY <1>1, PaginaUsada
<1>3. FormaPedidos' /\ Fichas /\ pedido'[p] = t
  BY <1>1, <1>2, FichasAcceso
<1>4. /\ MemoriaInv /\ FormaMarcos /\ FormaPedidos
      /\ escrito' \in [Procesos -> [Numeros -> {0} \cup Versiones]]
      /\ vaciadas' \subseteq Procesos \X Numeros
  BY <1>1 DEF MarcosInv, FormaTablas, MemoriaInv
<1>5. cola' \in [Procesos -> BOOLEAN] /\ \A q \in Procesos \ {p} : cola'[q] = cola[q]
  <2>1. pedido[p].cola \in BOOLEAN /\ cola \in [Procesos -> BOOLEAN]
    BY <1>1, Acceso, UnPedido DEF MarcosInv, FormaTablas
  <2>2. PICK b \in BOOLEAN : b = pedido[p].cola
    BY <2>1
  <2>3. cola' = [cola EXCEPT ![p] = b]
    BY <1>1, <2>2
  <2>4. QED
    BY <2>1, <2>3, SMTT(30)
<1>6. SoloEl(p) /\ PedidosJustos' /\ Contadas' /\ FormaTablas'
  BY <1>1, <1>2, <1>4, <1>5, AvanzaAcceso
<1>7. MemoriaInv'
  BY <1>1, <1>3, <1>4, Quieta DEF FormaMarcos
<1>8. SoloInv /\ Solos(p) => SoloInv'
  BY <1>1, <1>2, <1>3, <1>4, <1>6, SoloQuieto
<1>9. QED
  BY <1>6, <1>7, <1>8 DEF MarcosInv
LEMMA EscribirP ==
  ASSUME MarcosInv, NEW p \in Procesos, Escribir(p)
  PROVE  MarcosInv' /\ (SoloInv /\ Solos(p) => SoloInv')
<1>0. PICK n, f, v : n = pedido[p].i /\ f = Actual(p).marco /\ v = pedido[p].v
  OBVIOUS
<1> DEFINE w == <<p, n>>
           x == [id |-> p, pag |-> n, v |-> v]
<1>1. /\ pedido[p].paso = "usar" /\ pedido[p].op = "copiar" /\ f \in Marcos /\ SigueAcceso(p)
      /\ memoria' = [memoria EXCEPT ![f] = x]
      /\ clock' = IF pedido[p].primera THEN [clock EXCEPT ![f].m = 1] ELSE clock
      /\ escrito' = [escrito EXCEPT ![p][n] = v] /\ vaciadas' = vaciadas \ {w}
      /\ UNCHANGED <<bitmap_marcos, bitmap_swap, punteros, espacio, paginas>>
      /\ UNCHANGED <<paginas_usadas, procesos, listado, caido>> /\ cola' = cola
  BY <1>0 DEF Escribir, Usando, Paso, tabVars
<1>2. PICK t : Continua(p, t) /\ t.paso \in {"", "buscar"}
  BY <1>1, PaginaUsada
<1>3. FormaPedidos' /\ Fichas /\ pedido'[p] = t
  BY <1>1, <1>2, FichasAcceso
<1>4. /\ n \in DOMAIN paginas[p] /\ n \in Numeros /\ v \in Versiones
      /\ Actual(p) = paginas[p][n] /\ Actual(p) \in Registro
  BY <1>0, <1>1, Acceso
<1>5. /\ MemoriaInv /\ FormaMarcos /\ FormaPedidos /\ cola' \in [Procesos -> BOOLEAN]
      /\ escrito \in [Procesos -> [Numeros -> {0} \cup Versiones]]
      /\ vaciadas' \subseteq Procesos \X Numeros
  BY <1>1 DEF MarcosInv, FormaTablas, MemoriaInv
<1>6. /\ escrito' \in [Procesos -> [Numeros -> {0} \cup Versiones]] /\ escrito'[p][n] = v
      /\ \A q \in Procesos : \A k \in Numeros : <<q, k>> # w => escrito'[q][k] = escrito[q][k]
  <2>1. escrito' = [escrito EXCEPT ![p][n] = v]
    BY <1>1
  <2>2. QED
    BY <1>4, <1>5, <2>1
<1>7. SoloEl(p) /\ PedidosJustos' /\ Contadas' /\ FormaTablas'
  BY <1>1, <1>2, <1>5, <1>6, AvanzaAcceso
<1>8. /\ memoria' \in [Marcos -> Contenido] /\ memoria'[f] = x
      /\ \A g \in Marcos \ {f} : memoria'[g] = memoria[g]
  <2>1. x \in Contenido
    BY <1>4 DEF Contenido
  <2> HIDE DEF x
  <2>2. memoria \in [Marcos -> Contenido] /\ memoria' = [memoria EXCEPT ![f] = x]
    BY <1>1, <1>5 DEF FormaMarcos
  <2>3. QED
    BY <1>1, <2>1, <2>2
<1>9. /\ clock' \in [Marcos -> Clock]
      /\ \A g \in Marcos : clock'[g].id = clock[g].id /\ clock'[g].pag = clock[g].pag
  <2>1. clock \in [Marcos -> Clock]
    BY <1>5 DEF FormaMarcos
  <2>2. \A c \in Clock : /\ [c EXCEPT !.m = 1] \in Clock
                         /\ [c EXCEPT !.m = 1].id = c.id /\ [c EXCEPT !.m = 1].pag = c.pag
    BY DEF Clock
  <2>3. clock' = clock \/ clock' = [clock EXCEPT ![f] = [clock[f] EXCEPT !.m = 1]]
    BY <1>1, <2>1
  <2>4. CASE clock' = [clock EXCEPT ![f] = [clock[f] EXCEPT !.m = 1]]
    BY <1>1, <2>1, <2>2, <2>4
  <2>5. QED
    BY <2>1, <2>3, <2>4
<1>10. MemoriaInv'
  <2>1. UNCHANGED <<bitmap_marcos, bitmap_swap, punteros, paginas>> /\ espacio' \in [MarcosSwap -> Contenido]
    BY <1>1, <1>5 DEF FormaMarcos
  <2>2. QED
    BY <1>3, <1>5, <1>8, <1>9, <2>1, Quieta
<1>11. ASSUME SoloInv, Solos(p)
       PROVE  SoloInv'
  <2>1. UNCHANGED <<bitmap_marcos, espacio, paginas>> /\ Paginas' = Paginas
    BY <1>1 DEF Paginas
  <2>2. paginas[p][n] = EnMemoria(f) /\ w \in Paginas
    <3>1. Actual(p).p = 1
      BY <1>1, <1>11 DEF SoloInv, Presente
    <3>2. QED
      BY <1>0, <1>4, <3>1, Registros, UnaPagina
  <2>3. ASSUME NEW y \in Paginas
        PROVE  /\ y # w => Guardado(y[1], y[2])' = Guardado(y[1], y[2])
               /\ En(y)' = En(y) /\ (En(y).p = 1 => En(y).marco \in Marcos)
    <3>1. En(y) \in Registro /\ En(y) = paginas[y[1]][y[2]] /\ En(y)' = En(y)
      BY <1>5, <2>1, UnaCosa DEF En
    <3>2. y # w => En(y) # EnMemoria(f)
      <4>1. Lugares[y] = En(y) /\ Lugares[w] = EnMemoria(f) /\ y \in Cosas /\ w \in Cosas
        BY <1>5, <2>2, UnaCosa DEF En
      <4>2. UnoAUno(Lugares, Cosas, Ocupados)
        BY <1>5 DEF MemoriaInv, LugaresJustos
      <4>3. QED
        BY <4>1, <4>2 DEF UnoAUno
    <3>3. y # w /\ En(y).p = 1 => En(y).marco \in Marcos \ {f}
      BY <3>1, <3>2, Registros
    <3>4. QED
      BY <1>8, <2>1, <3>1, <3>3, Registros DEF Guardado
  <2>4. ClockExacto'
    <3>1. ClockExacto
      BY <1>11 DEF SoloInv
    <3>2. QED
      BY <1>9, <2>1, <2>3, <3>1 DEF ClockExacto
  <2>5. ContenidoIntacto'
    <3>1. SUFFICES ASSUME NEW y \in Paginas, y \notin vaciadas', escrito'[y[1]][y[2]] # 0
                   PROVE  Guardado(y[1], y[2])' = [id |-> y[1], pag |-> y[2], v |-> escrito'[y[1]][y[2]]]
      BY <2>1 DEF ContenidoIntacto, Copia
    <3>2. CASE y = w
      <4>1. Guardado(p, n)' = memoria'[f]
        BY <2>1, <2>2, Registros DEF Guardado
      <4>2. QED
        BY <1>6, <1>8, <3>2, <4>1
    <3>3. CASE y # w
      <4>1. y[1] \in Procesos /\ y[2] \in Numeros /\ y = <<y[1], y[2]>>
        BY <1>5, UnaPagina, UnaTabla
      <4>2. escrito'[y[1]][y[2]] = escrito[y[1]][y[2]] /\ y \notin vaciadas
        BY <1>1, <1>6, <3>1, <3>3, <4>1
      <4>3. Guardado(y[1], y[2]) = Copia(y[1], y[2])
        BY <1>11, <3>1, <4>2 DEF SoloInv, ContenidoIntacto
      <4>4. QED
        BY <2>3, <3>3, <4>2, <4>3 DEF Copia
    <3>4. QED
      BY <3>2, <3>3
  <2>6. SinCopia'
    BY <1>4, <1>6, <1>11, <2>1 DEF SoloInv, SinCopia
  <2>7. \A g \in Marcos \ bitmap_marcos' : g \notin bitmap_marcos /\ clock'[g].id = clock[g].id
    BY <1>9, <2>1
  <2>8. pedido[p].paso # "clock" /\ pedido'[p].paso # "clock" /\ pedido'[p].paso # "usar"
    BY <1>1, <1>2, <1>3
  <2>9. QED
    BY <1>7, <1>11, <2>4, <2>5, <2>6, <2>7, <2>8, SoloSigue
<1>12. QED
  BY <1>7, <1>10, <1>11 DEF MarcosInv
\* Nothing changes, but for the server that dies.
LEMMA NadaCambia ==
  ASSUME MarcosInv, NEW p \in Procesos, caido' \in BOOLEAN,
         UNCHANGED <<marVars, paginas_usadas, procesos, paginas, listado, cola, pedido, hisVars>>
  PROVE  MarcosInv' /\ (SoloInv => SoloInv')
<1>1. /\ caido' \in BOOLEAN
      /\ UNCHANGED <<bitmap_marcos, bitmap_swap, clock, punteros, memoria, espacio>>
      /\ UNCHANGED <<paginas_usadas, procesos, paginas, listado, cola, pedido, escrito, vaciadas>>
  BY DEF marVars, hisVars
<1>2. /\ MemoriaInv /\ FormaTablas /\ PedidosJustos /\ Contadas /\ FormaPedidos
      /\ PedidoJusto(p) /\ TablaJusta(p)
  BY DEF MarcosInv, FormaTablas, PedidosJustos
<1>3. SoloEl(p)
  BY <1>1 DEF SoloEl
<1>4. Fichas /\ FormaPedidos' /\ Faltan(p)' = Faltan(p) /\ list_size(p)' = list_size(p)
  BY <1>1, <1>2 DEF Fichas, Devolviendo, FormaPedidos, Faltan, Reusa, list_size
<1>5. MemoriaInv'
  BY <1>1, <1>2, <1>4, Quieta DEF MemoriaInv, FormaMarcos
<1>6. PedidosJustos'
  <2>1. PedidoJusto(p)'
    BY <1>1, <1>2, <1>4 DEF PedidoJusto
  <2>2. TablaJusta(p)'
    BY <1>1, <1>2, <1>4 DEF TablaJusta
  <2>3. QED
    BY <1>2, <1>3, <2>1, <2>2, OtrosJustos
<1>7. Contadas' /\ Paginas' = Paginas
  BY <1>1, <1>2, <1>3, <1>4, CuentaIgual
<1>8. FormaTablas'
  BY <1>1, <1>2, <1>4 DEF FormaTablas
<1>9. ASSUME SoloInv
      PROVE  SoloInv'
  <2>1. UnoSolo' /\ Presente' /\ SinCopia' /\ ClockLimpio'
    BY <1>1, <1>9 DEF SoloInv, UnoSolo, Presente, Actual, SinCopia, ClockLimpio
  <2>2. ClockExacto'
    BY <1>1, <1>7, <1>9 DEF SoloInv, ClockExacto, En
  <2>3. ContenidoIntacto'
    BY <1>1, <1>7, <1>9 DEF SoloInv, ContenidoIntacto, Guardado, Copia
  <2>4. QED
    BY <2>1, <2>2, <2>3 DEF SoloInv
<1>10. QED
  BY <1>5, <1>6, <1>7, <1>8, <1>9 DEF MarcosInv

LEMMA CaerP ==
  ASSUME MarcosInv, NEW p \in Procesos, Caer(p)
  PROVE  MarcosInv' /\ (SoloInv => SoloInv')
BY NadaCambia DEF Caer

-----------------------------------------------------------------------------
\* The request that gives the pages back.
LEMMA Cierre ==
  ASSUME MarcosInv, NEW p \in Procesos, pedido[p].paso \in {"quitar", "bit", "clock"}
  PROVE  /\ pedido[p].op = "cerrar" /\ pedido[p] # Ninguno /\ pedido[p] \in Pedido /\ ~ cola[p]
         /\ p \in procesos /\ Faltan(p) = 0
         /\ pedido[p].paso = "bit" => pedido[p].v \in {0, 1} /\ p \in Devolviendo
         /\ pedido[p].paso # "bit" => p \notin Devolviendo
         /\ pedido[p].paso = "clock" => pedido[p].i \in Marcos
<1>1. FormaPedidos /\ PedidoJusto(p) /\ TablaJusta(p) /\ pedido[p] \in Pedido
  BY DEF MarcosInv, FormaTablas, PedidosJustos, FormaPedidos
<1>2. /\ pedido[p].op = "cerrar"
      /\ pedido[p].paso = "bit" => pedido[p].v \in {0, 1}
      /\ pedido[p].paso = "clock" => pedido[p].i \in Marcos
  BY <1>1 DEF PedidoJusto
<1>3. pedido[p] # Ninguno
  BY <1>2, SinPedido
<1>4. ~ cola[p] /\ p \in procesos
  BY <1>1, <1>2, <1>3 DEF TablaJusta
<1>5. Faltan(p) = 0 /\ (p \in Devolviendo <=> pedido[p].paso = "bit")
  BY DEF Faltan, Devolviendo
<1>6. QED
  BY <1>1, <1>2, <1>3, <1>4, <1>5

\* The next of its updates.
LEMMA AvanzaCierre ==
  ASSUME MarcosInv, NEW p \in Procesos, pedido[p].paso \in {"quitar", "bit", "clock"},
         NEW t \in Pedido, pedido' = [pedido EXCEPT ![p] = t],
         t.op = "cerrar", t.paso \in {"quitar", "bit", "clock"},
         t.paso = "bit" => t.v \in {0, 1}, t.paso = "clock" => t.i \in Marcos,
         UNCHANGED <<procesos, listado, cola>>,
         \A q \in Procesos \ {p} : DOMAIN paginas'[q] = DOMAIN paginas[q]
  PROVE  /\ FormaPedidos' /\ pedido'[p] = t /\ \A q \in Procesos \ {p} : pedido'[q] = pedido[q]
         /\ SoloEl(p) /\ PedidosJustos' /\ Faltan(p)' = Faltan(p)
<1>1. FormaPedidos /\ PedidosJustos
  BY DEF MarcosInv, FormaTablas
<1>2. FormaPedidos' /\ pedido'[p] = t /\ \A q \in Procesos \ {p} : pedido'[q] = pedido[q]
  BY <1>1, CambiaPedido
<1>3. SoloEl(p)
  BY <1>2 DEF SoloEl
<1>4. PedidoJusto(p)'
  BY <1>2 DEF PedidoJusto
<1>5. TablaJusta(p)'
  <2>1. ~ cola'[p] /\ p \in procesos'
    BY Cierre
  <2>2. QED
    BY <1>2, <2>1 DEF TablaJusta
<1>6. PedidosJustos'
  BY <1>1, <1>3, <1>4, <1>5, OtrosJustos
<1>7. Faltan(p)' = Faltan(p)
  BY <1>2 DEF Faltan
<1>8. QED
  BY <1>2, <1>3, <1>6, <1>7

LEMMA OtraPagina ==
  LET t == [Ninguno EXCEPT !.op = "cerrar", !.paso = "quitar"] IN
  t \in Pedido /\ t.op = "cerrar" /\ t.paso = "quitar"
BY DEF Ninguno, Pedido

LEMMA QuitarPaginaP ==
  ASSUME MarcosInv, NEW p \in Procesos, QuitarPagina(p)
  PROVE  MarcosInv' /\ (SoloInv /\ Solos(p) => SoloInv')
<1>0. PICK n, r, f, e, t : /\ n = Menor(DOMAIN paginas[p]) /\ r = pedido[p]
                           /\ f = paginas[p][n].marco /\ e = paginas[p][n].p
                           /\ t = [r EXCEPT !.paso = "bit", !.i = f, !.v = e]
  OBVIOUS
<1>1. /\ r.paso = "quitar" /\ DOMAIN paginas[p] # {}
      /\ paginas_usadas' = paginas_usadas - 1
      /\ paginas' = [paginas EXCEPT ![p] = [k \in DOMAIN @ \ {n} |-> @[k]]]
      /\ pedido' = [pedido EXCEPT ![p].paso = "bit", ![p].i = f, ![p].v = e]
      /\ escrito' = [escrito EXCEPT ![p][n] = 0] /\ vaciadas' = vaciadas \ {<<p, n>>}
      /\ UNCHANGED <<procesos, listado, cola, caido>> /\ UNCHANGED marVars
  BY <1>0 DEF QuitarPagina, Paso, Devueltas
<1>2. /\ MemoriaInv /\ FormaMarcos /\ FormaTablas /\ FormaPedidos /\ Contadas
      /\ paginas_usadas \in 0..PaginasTotales
      /\ escrito \in [Procesos -> [Numeros -> {0} \cup Versiones]]
      /\ vaciadas' \subseteq Procesos \X Numeros
  BY <1>1 DEF MarcosInv, FormaTablas, MemoriaInv
<1>3. n \in DOMAIN paginas[p] /\ n \in Numeros /\ f \in Nat /\ e \in {0, 1}
  <2>1. DOMAIN paginas[p] \in SUBSET Nat /\ DOMAIN paginas[p] # {}
    BY <1>1, <1>2, UnaTabla, Conjuntos
  <2>2. n \in DOMAIN paginas[p] /\ n \in Numeros /\ paginas[p][n] \in Registro
    BY <1>0, <1>2, <2>1, MenorEsta, UnaTabla
  <2>3. QED
    BY <1>0, <2>2, Registros, Conjuntos
<1>4. /\ r.op = "cerrar" /\ r \in Pedido /\ p \notin Devolviendo
  BY <1>0, <1>1, Cierre
<1>5. t \in Pedido /\ t.op = "cerrar" /\ t.paso = "bit" /\ t.i = f /\ t.v = e
  BY <1>0, <1>3, <1>4 DEF Pedido
<1>6. pedido' = [pedido EXCEPT ![p] = t]
  BY <1>0, <1>1, <1>2 DEF FormaPedidos
<1>7. FormaPedidos' /\ pedido'[p] = t /\ \A q \in Procesos \ {p} : pedido'[q] = pedido[q]
  BY <1>2, <1>5, <1>6, CambiaPedido
<1>8. /\ MemoriaInv' /\ (ClockExacto => ClockExacto')
      /\ Paginas' = Paginas \ {<<p, n>>} /\ <<p, n>> \in Paginas
      /\ \A x \in Paginas' : Guardado(x[1], x[2])' = Guardado(x[1], x[2])
      /\ DOMAIN paginas'[p] = DOMAIN paginas[p] \ {n}
      /\ \A q \in Procesos \ {p} : DOMAIN paginas'[q] = DOMAIN paginas[q]
  <2>1. /\ pedido'[p].paso = "bit" /\ pedido'[p].i = paginas[p][n].marco
        /\ pedido'[p].v = paginas[p][n].p
    BY <1>0, <1>5, <1>7
  <2>2. /\ paginas' = [paginas EXCEPT ![p] = [k \in DOMAIN @ \ {n} |-> @[k]]]
        /\ UNCHANGED marVars
    BY <1>1
  <2>3. QED
    BY <1>2, <1>3, <1>4, <1>7, <2>1, <2>2, SacaPagina
<1>9. SoloEl(p) /\ PedidosJustos' /\ Faltan(p)' = Faltan(p)
  <2>1. UNCHANGED <<procesos, listado, cola>> /\ pedido[p].paso = "quitar"
    BY <1>0, <1>1
  <2>2. QED
    BY <1>3, <1>5, <1>6, <1>8, <2>1, AvanzaCierre
<1>10. Contadas' /\ paginas_usadas' \in Nat
  BY <1>1, <1>2, <1>8, <1>9, CuentaQuita
<1>11. /\ escrito' \in [Procesos -> [Numeros -> {0} \cup Versiones]] /\ escrito'[p][n] = 0
       /\ \A q \in Procesos : \A k \in Numeros : <<q, k>> # <<p, n>> => escrito'[q][k] = escrito[q][k]
  <2>1. escrito' = [escrito EXCEPT ![p][n] = 0]
    BY <1>1
  <2>2. QED
    BY <1>2, <1>3, <2>1
<1>12. FormaTablas'
  <2>1. paginas_usadas' \in 0..PaginasTotales
    BY <1>1, <1>2, <1>10, ConstantesMUSE DEF PaginasTotales
  <2>2. QED
    BY <1>1, <1>2, <1>7, <1>11, <2>1 DEF FormaTablas
<1>13. ASSUME SoloInv, Solos(p)
       PROVE  SoloInv'
  <2>1. SinCopia'
    <3>1. SUFFICES ASSUME NEW q \in Procesos, NEW k \in Numeros, k \notin DOMAIN paginas'[q]
                   PROVE  escrito'[q][k] = 0
      BY DEF SinCopia
    <3>2. <<q, k>> = <<p, n>> \/ k \notin DOMAIN paginas[q]
      BY <1>8, <3>1
    <3>3. QED
      BY <1>11, <1>13, <3>2 DEF SoloInv, SinCopia
  <2>2. ContenidoIntacto'
    <3>1. SUFFICES ASSUME NEW y \in Paginas', y \notin vaciadas', escrito'[y[1]][y[2]] # 0
                   PROVE  Guardado(y[1], y[2])' = [id |-> y[1], pag |-> y[2], v |-> escrito'[y[1]][y[2]]]
      BY DEF ContenidoIntacto, Copia
    <3>2. y[1] \in Procesos /\ y[2] \in Numeros /\ y = <<y[1], y[2]>> /\ y # <<p, n>> /\ y \in Paginas
      BY <1>2, <1>8, UnaPagina, UnaTabla
    <3>3. escrito'[y[1]][y[2]] = escrito[y[1]][y[2]] /\ y \notin vaciadas
      BY <1>1, <1>11, <3>1, <3>2
    <3>4. Guardado(y[1], y[2]) = Copia(y[1], y[2])
      BY <1>13, <3>1, <3>2, <3>3 DEF SoloInv, ContenidoIntacto
    <3>5. QED
      BY <1>8, <3>3, <3>4 DEF Copia
  <2>3. ClockExacto' /\ pedido[p].paso # "clock" /\ pedido'[p].paso # "clock" /\ pedido'[p].paso # "usar"
    BY <1>0, <1>1, <1>5, <1>7, <1>8, <1>13 DEF SoloInv
  <2>4. \A g \in Marcos \ bitmap_marcos' : g \notin bitmap_marcos /\ clock'[g].id = clock[g].id
    BY <1>1 DEF marVars
  <2>5. QED
    BY <1>9, <1>13, <2>1, <2>2, <2>3, <2>4, SoloSigue
<1>14. QED
  BY <1>8, <1>9, <1>10, <1>12, <1>13 DEF MarcosInv
LEMMA LiberarBitP ==
  ASSUME MarcosInv, NEW p \in Procesos, LiberarBit(p)
  PROVE  MarcosInv' /\ (SoloInv /\ Solos(p) => SoloInv')
<1>0. PICK r : r = pedido[p]
  OBVIOUS
<1>1. /\ r.paso = "bit" /\ UNCHANGED <<clock, punteros>>
      /\ UNCHANGED <<paginas_usadas, procesos, paginas, listado, cola, caido, escrito, vaciadas>>
      /\ \/ /\ r.v = 1
            /\ bitmap_marcos' = bitmap_marcos \ {r.i}
            /\ pedido' = [pedido EXCEPT ![p].paso = "clock"]
            /\ memoria' = [memoria EXCEPT ![r.i] = SinDatos]
            /\ UNCHANGED <<bitmap_swap, espacio>>
         \/ /\ r.v = 0
            /\ espacio' = [espacio EXCEPT ![r.i] = SinDatos]
            /\ bitmap_swap' = bitmap_swap \ {r.i}
            /\ pedido' = [pedido EXCEPT ![p] = [Ninguno EXCEPT !.op = "cerrar", !.paso = "quitar"]]
            /\ UNCHANGED <<bitmap_marcos, memoria>>
  BY <1>0 DEF LiberarBit, Paso, tabVars, hisVars
<1>2. /\ MemoriaInv /\ FormaMarcos /\ FormaTablas /\ FormaPedidos /\ PedidosJustos /\ Contadas
  BY DEF MarcosInv, FormaTablas, MemoriaInv
<1>3. r.op = "cerrar" /\ r \in Pedido /\ p \in Devolviendo /\ pedido[p].paso = "bit"
  BY <1>0, <1>1, Cierre
<1>4. \/ /\ pedido[p].v = 1
         /\ bitmap_marcos' = bitmap_marcos \ {pedido[p].i}
         /\ memoria' = [memoria EXCEPT ![pedido[p].i] = SinDatos]
         /\ UNCHANGED <<bitmap_swap, espacio>>
      \/ /\ pedido[p].v = 0
         /\ espacio' = [espacio EXCEPT ![pedido[p].i] = SinDatos]
         /\ bitmap_swap' = bitmap_swap \ {pedido[p].i}
         /\ UNCHANGED <<bitmap_marcos, memoria>>
  BY <1>0, <1>1
<1>5. PICK t \in Pedido :
        /\ pedido' = [pedido EXCEPT ![p] = t] /\ t.op = "cerrar"
        /\ \/ r.v = 1 /\ t.paso = "clock" /\ t.i = r.i
           \/ r.v = 0 /\ t.paso = "quitar"
  <2>1. CASE r.v = 1
    <3>1. PICK t : t = [r EXCEPT !.paso = "clock"]
      OBVIOUS
    <3>2. t \in Pedido /\ t.op = r.op /\ t.paso = "clock" /\ t.i = r.i
      BY <1>3, <3>1 DEF Pedido
    <3>3. pedido' = [pedido EXCEPT ![p] = t]
      BY <1>0, <1>1, <1>2, <2>1, <3>1 DEF FormaPedidos
    <3>4. QED
      BY <1>3, <2>1, <3>2, <3>3
  <2>2. CASE r.v = 0
    <3>1. PICK t : t = [Ninguno EXCEPT !.op = "cerrar", !.paso = "quitar"]
      OBVIOUS
    <3>2. t \in Pedido /\ t.op = "cerrar" /\ t.paso = "quitar"
      BY <3>1, OtraPagina
    <3>3. pedido' = [pedido EXCEPT ![p] = t]
      BY <1>1, <2>2, <3>1
    <3>4. QED
      BY <2>2, <3>2, <3>3
  <2>3. QED
    BY <1>1, <2>1, <2>2
<1>6. FormaPedidos' /\ pedido'[p] = t /\ \A q \in Procesos \ {p} : pedido'[q] = pedido[q]
  BY <1>2, <1>5, CambiaPedido
<1>7. /\ MemoriaInv' /\ (ClockExacto => ClockExacto')
      /\ \A x \in Paginas : Guardado(x[1], x[2])' = Guardado(x[1], x[2])
      /\ r.v = 1 => r.i \in bitmap_marcos
  <2>1. pedido'[p].paso # "bit" /\ UNCHANGED <<clock, punteros, paginas>>
    BY <1>1, <1>5, <1>6
  <2>2. QED
    BY <1>0, <1>2, <1>3, <1>4, <1>6, <2>1, SueltaMarco
<1>8. /\ SoloEl(p) /\ PedidosJustos' /\ Faltan(p)' = Faltan(p)
  <2>1. t.paso = "clock" => t.i \in Marcos
    BY <1>2, <1>5, <1>7 DEF FormaMarcos
  <2>2. UNCHANGED <<procesos, listado, cola>> /\ UNCHANGED paginas
    BY <1>1
  <2>3. QED
    BY <1>3, <1>5, <2>1, <2>2, AvanzaCierre
<1>9. Contadas' /\ Paginas' = Paginas
  BY <1>1, <1>2, <1>8, CuentaIgual
<1>10. FormaTablas'
  BY <1>1, <1>2, <1>6 DEF FormaTablas
<1>11. ASSUME SoloInv, Solos(p)
       PROVE  SoloInv'
  <2>1. ClockExacto'
    BY <1>7, <1>11 DEF SoloInv
  <2>2. SinCopia' /\ ContenidoIntacto'
    <3>1. \A q \in Procesos : DOMAIN paginas'[q] = DOMAIN paginas[q]
      BY <1>1
    <3>2. escrito' = escrito /\ vaciadas \subseteq vaciadas'
      BY <1>1
    <3>3. QED
      BY <1>2, <1>7, <1>11, <3>1, <3>2, CopiasIgual DEF SoloInv
  <2>3. \A q \in Procesos \ {p} : /\ pedido[q] = Ninguno /\ pedido'[q] = Ninguno
                                  /\ pedido'[q].paso = "" /\ pedido[q].paso = ""
    BY <1>6, <1>11, SinPedido DEF Solos
  <2>4. UnoSolo' /\ Presente'
    <3>1. UnoSolo'
      BY <2>3 DEF UnoSolo
    <3>2. \A q \in Procesos : pedido'[q].paso # "usar"
      BY <1>5, <1>6, <2>3
    <3>3. QED
      BY <3>1, <3>2 DEF Presente
  <2>5. \A f \in Marcos \ bitmap_marcos : clock[f].id = Nadie
    BY <1>3, <1>11, <2>3 DEF SoloInv, ClockLimpio
  <2>6. ClockLimpio'
    <3>1. CASE r.v = 1
      <4>1. bitmap_marcos' = bitmap_marcos \ {r.i} /\ clock' = clock
        BY <1>1, <3>1
      <4>2. pedido'[p].paso = "clock" /\ pedido'[p].i = r.i
        BY <1>5, <1>6, <3>1
      <4>3. \A f \in Marcos \ bitmap_marcos' : clock'[f].id = Nadie \/ f = r.i
        BY <2>5, <4>1
      <4>4. \A q \in Procesos : pedido'[q].paso = "clock" => pedido'[q].i \notin bitmap_marcos'
        BY <2>3, <4>1, <4>2
      <4>5. QED
        BY <4>2, <4>3, <4>4 DEF ClockLimpio
    <3>2. CASE r.v = 0
      <4>1. bitmap_marcos' = bitmap_marcos /\ clock' = clock
        BY <1>1, <3>2
      <4>2. \A q \in Procesos : pedido'[q].paso # "clock"
        <5>1. t.paso = "quitar"
          BY <1>5, <3>2
        <5>2. QED
          BY <1>6, <2>3, <5>1
      <4>3. QED
        BY <2>5, <4>1, <4>2 DEF ClockLimpio
    <3>3. QED
      BY <1>5, <3>1, <3>2
  <2>7. QED
    BY <2>1, <2>2, <2>4, <2>6 DEF SoloInv
<1>12. QED
  BY <1>7, <1>8, <1>9, <1>10, <1>11 DEF MarcosInv

LEMMA RemoverClockP ==
  ASSUME MarcosInv, NEW p \in Procesos, RemoverClock(p)
  PROVE  MarcosInv' /\ (SoloInv /\ Solos(p) => SoloInv')
<1>0. PICK f, t : f = pedido[p].i /\ t = [Ninguno EXCEPT !.op = "cerrar", !.paso = "quitar"]
  OBVIOUS
<1>1. /\ pedido[p].paso = "clock" /\ clock' = [clock EXCEPT ![f] = ClockVacio]
      /\ pedido' = [pedido EXCEPT ![p] = t]
      /\ UNCHANGED <<bitmap_marcos, bitmap_swap, punteros, memoria, espacio>>
      /\ UNCHANGED <<paginas_usadas, procesos, paginas, listado, cola, caido, escrito, vaciadas>>
  BY <1>0 DEF RemoverClock, Paso, SinPagina, tabVars, hisVars
<1>2. /\ MemoriaInv /\ FormaMarcos /\ FormaTablas /\ FormaPedidos /\ PedidosJustos /\ Contadas
  BY DEF MarcosInv, FormaTablas, MemoriaInv
<1>3. f \in Marcos /\ p \notin Devolviendo
  BY <1>0, <1>1, Cierre
<1>4. t \in Pedido /\ t.op = "cerrar" /\ t.paso = "quitar"
  BY <1>0, OtraPagina
<1>5. /\ FormaPedidos' /\ pedido'[p] = t /\ \A q \in Procesos \ {p} : pedido'[q] = pedido[q]
      /\ SoloEl(p) /\ PedidosJustos' /\ Faltan(p)' = Faltan(p)
  <2>1. UNCHANGED <<procesos, listado, cola>> /\ UNCHANGED paginas
    BY <1>1
  <2>2. QED
    BY <1>1, <1>4, <2>1, AvanzaCierre
<1>6. Fichas
  BY <1>1, <1>4, <1>5, MismasFichas
<1>7. /\ clock' \in [Marcos -> Clock] /\ clock'[f].id = Nadie
      /\ \A g \in Marcos \ {f} : clock'[g] = clock[g]
  <2>1. ClockVacio \in Clock /\ ClockVacio.id = Nadie
    BY Conjuntos DEF ClockVacio, Clock
  <2>2. clock \in [Marcos -> Clock] /\ clock' = [clock EXCEPT ![f] = ClockVacio]
    BY <1>1, <1>2 DEF FormaMarcos
  <2> HIDE DEF ClockVacio
  <2>3. QED
    BY <1>3, <2>1, <2>2
<1>8. MemoriaInv'
  <2>1. /\ UNCHANGED <<bitmap_marcos, bitmap_swap, punteros, paginas>>
        /\ memoria' \in [Marcos -> Contenido] /\ espacio' \in [MarcosSwap -> Contenido]
    BY <1>1, <1>2 DEF FormaMarcos
  <2>2. \A g \in Marcos : \/ clock'[g].id = Nadie
                          \/ clock'[g].id = clock[g].id /\ clock'[g].pag = clock[g].pag
    BY <1>7
  <2>3. QED
    BY <1>2, <1>5, <1>6, <1>7, <2>1, <2>2, Quieta
<1>9. Contadas' /\ Paginas' = Paginas
  BY <1>1, <1>2, <1>5, CuentaIgual
<1>10. FormaTablas'
  BY <1>1, <1>2, <1>5 DEF FormaTablas
<1>11. ASSUME SoloInv, Solos(p)
       PROVE  SoloInv'
  <2>1. f \notin bitmap_marcos
    BY <1>0, <1>1, <1>11 DEF SoloInv, ClockLimpio
  <2>2. ClockExacto'
    <3>1. SUFFICES ASSUME NEW w \in Paginas, En(w).p = 1
                   PROVE  clock'[En(w).marco].id = w[1] /\ clock'[En(w).marco].pag = w[2]
      BY <1>1, <1>9 DEF ClockExacto, En
    <3>2. En(w).marco \in Marcos \ {f}
      <4>1. w \in Cosas /\ Lugar(w) = En(w)
        BY <1>2, UnaCosa
      <4>2. En(w).marco \in bitmap_marcos
        BY <1>2, <3>1, <4>1, EnSuLugar
      <4>3. QED
        BY <1>2, <2>1, <4>2 DEF FormaMarcos
    <3>3. QED
      BY <1>7, <1>11, <3>1, <3>2 DEF SoloInv, ClockExacto
  <2>3. SinCopia' /\ ContenidoIntacto'
    <3>1. \A x \in Paginas : Guardado(x[1], x[2])' = Guardado(x[1], x[2])
      <4>1. UNCHANGED <<paginas, memoria, espacio>>
        BY <1>1
      <4>2. QED
        BY <4>1 DEF Guardado
    <3>2. QED
      BY <1>1, <1>2, <1>11, <3>1, CopiasIgual DEF SoloInv
  <2>4. \A q \in Procesos \ {p} : /\ pedido[q] = Ninguno /\ pedido'[q] = Ninguno
                                  /\ pedido'[q].paso = "" /\ pedido[q].paso = ""
    BY <1>5, <1>11, SinPedido DEF Solos
  <2>5. \A q \in Procesos : pedido'[q].paso \notin {"usar", "clock"}
    BY <1>4, <1>5, <2>4
  <2>6. UnoSolo' /\ Presente'
    BY <2>4, <2>5 DEF UnoSolo, Presente
  <2>7. ClockLimpio'
    <3>1. \A g \in Marcos \ bitmap_marcos : clock[g].id = Nadie \/ g = f
      BY <1>0, <1>11, <2>4 DEF SoloInv, ClockLimpio
    <3>2. \A g \in Marcos \ bitmap_marcos' : clock'[g].id = Nadie
      BY <1>1, <1>7, <3>1
    <3>3. QED
      BY <2>5, <3>2 DEF ClockLimpio
  <2>8. QED
    BY <2>2, <2>3, <2>6, <2>7 DEF SoloInv
<1>12. QED
  BY <1>5, <1>8, <1>9, <1>10, <1>11 DEF MarcosInv

LEMMA SalirP ==
  ASSUME MarcosInv, NEW p \in Procesos, Salir(p)
  PROVE  MarcosInv' /\ (SoloInv /\ Solos(p) => SoloInv')
<1>1. /\ pedido[p].paso = "quitar" /\ DOMAIN paginas[p] = {} /\ procesos' = procesos \ {p}
      /\ pedido' = [pedido EXCEPT ![p] = Ninguno]
      /\ UNCHANGED <<bitmap_marcos, bitmap_swap, clock, punteros, memoria, espacio>>
      /\ UNCHANGED <<paginas_usadas, paginas, listado, cola, caido, escrito, vaciadas>>
  BY DEF Salir, Paso, marVars, hisVars
<1>2. /\ MemoriaInv /\ FormaMarcos /\ FormaTablas /\ FormaPedidos /\ PedidosJustos /\ Contadas
  BY DEF MarcosInv, FormaTablas, MemoriaInv
<1>3. ~ cola[p] /\ p \notin Devolviendo /\ Faltan(p) = 0
  BY <1>1, Cierre
<1>4. FormaPedidos' /\ pedido'[p] = Ninguno /\ \A q \in Procesos \ {p} : pedido'[q] = pedido[q]
  BY <1>1, <1>2, SinPedido, CambiaPedido
<1>5. SoloEl(p)
  BY <1>1, <1>4 DEF SoloEl
<1>6. Fichas
  BY <1>1, <1>4, <1>5, SinPedido, MismasFichas
<1>7. MemoriaInv'
  BY <1>1, <1>2, <1>4, <1>6, Quieta DEF FormaMarcos
<1>8. PedidoJusto(p)'
  BY <1>4, SinPedido DEF PedidoJusto
<1>9. TablaJusta(p)'
  <2>1. list_size(p)' = 0
    BY <1>1, FS_EmptySet DEF list_size
  <2>2. QED
    BY <1>1, <1>3, <1>4, <2>1 DEF TablaJusta
<1>10. PedidosJustos'
  BY <1>2, <1>5, <1>8, <1>9, OtrosJustos
<1>11. Contadas'
  <2>1. Faltan(p)' = Faltan(p)
    BY <1>3, <1>4, SinPedido DEF Faltan
  <2>2. QED
    BY <1>1, <1>2, <1>5, <2>1, CuentaIgual
<1>12. FormaTablas'
  BY <1>1, <1>2, <1>4 DEF FormaTablas
<1>13. SoloInv /\ Solos(p) => SoloInv'
  <2>1. /\ pedido[p].paso # "clock" /\ pedido'[p].paso # "clock" /\ pedido'[p].paso # "usar"
    BY <1>1, <1>4, SinPedido
  <2>2. QED
    BY <1>1, <1>2, <1>5, <2>1, SoloQuieto
<1>14. QED
  BY <1>7, <1>10, <1>11, <1>12, <1>13 DEF MarcosInv
-----------------------------------------------------------------------------
(* All of them *)

LEMMA AlEmpezar ==
  ASSUME Init
  PROVE  MarcosInv /\ SoloInv /\ caido = FALSE
<1>1. /\ bitmap_marcos = {} /\ bitmap_swap = {} /\ clock = [f \in Marcos |-> ClockVacio]
      /\ punteros \subseteq Marcos /\ punteros # {}
      /\ memoria = [f \in Marcos |-> SinDatos] /\ espacio = [s \in MarcosSwap |-> SinDatos]
      /\ paginas_usadas = 0 /\ procesos = {} /\ paginas = [p \in Procesos |-> [n \in {} |-> 0]]
      /\ listado = [p \in Procesos |-> FALSE] /\ cola = [p \in Procesos |-> FALSE]
      /\ pedido = [p \in Procesos |-> Ninguno] /\ caido = FALSE /\ vaciadas = {}
      /\ escrito = [p \in Procesos |-> [n \in Numeros |-> 0]]
  BY DEF Init
<1>2. \A p \in Procesos : DOMAIN paginas[p] = {} /\ pedido[p] = Ninguno /\ pedido[p].paso = ""
  BY <1>1, SinPedido
<1>3. Paginas = {} /\ Devolviendo = {}
  BY <1>2 DEF Paginas, Devolviendo
<1>4. Cosas = {} /\ Ocupados = {}
  <2>1. Cosas = {}
    BY <1>3 DEF Cosas
  <2>2. \A r \in Ocupados : FALSE
    BY <1>1, Ocupado
  <2>3. QED
    BY <2>1, <2>2
<1>5. FormaMarcos
  <2>1. ClockVacio \in Clock /\ SinDatos \in Contenido
    BY Conjuntos DEF ClockVacio, Clock, Contenido
  <2>2. [n \in {} |-> 0] \in ListaDePaginas
    <3>1. [n \in {} |-> 0] \in [{} -> Registro] /\ {} \in SUBSET Numeros
      OBVIOUS
    <3>2. QED
      BY <3>1 DEF ListaDePaginas
  <2> HIDE DEF ClockVacio, SinDatos, Clock, Contenido, ListaDePaginas
  <2>3. QED
    BY <1>1, <2>1, <2>2 DEF FormaMarcos
<1>6. MemoriaInv
  BY <1>4, <1>5 DEF MemoriaInv, LugaresJustos, ClockJusto, UnoAUno
<1>7. FormaTablas
  <2>1. FormaPedidos
    BY <1>1, SinPedido DEF FormaPedidos
  <2>2. paginas_usadas \in 0..PaginasTotales
    BY <1>1, ConstantesMUSE DEF PaginasTotales
  <2>3. QED
    BY <1>1, <2>1, <2>2 DEF FormaTablas
<1>8. PedidosJustos
  <2>1. SUFFICES ASSUME NEW p \in Procesos
                 PROVE  PedidoJusto(p) /\ TablaJusta(p)
    BY DEF PedidosJustos
  <2>2. pedido[p] = Ninguno /\ DOMAIN paginas[p] = {} /\ ~ cola[p]
    BY <1>1
  <2>3. list_size(p) = 0
    BY <2>2, FS_EmptySet DEF list_size
  <2>4. PedidoJusto(p)
    BY <2>2, SinPedido DEF PedidoJusto
  <2>5. TablaJusta(p)
    <3>1. DOMAIN paginas[p] = 0..list_size(p) - 1
      BY <2>2, <2>3
    <3>2. pedido[p].op = "ninguno"
      BY <2>2, SinPedido
    <3>3. QED
      BY <2>2, <3>1, <3>2 DEF TablaJusta
  <2>6. QED
    BY <2>4, <2>5
<1>9. Contadas
  <2>1. \A p \in Procesos : Faltan(p) = 0
    BY <1>2 DEF Faltan
  <2>2. Prometidas = {}
    BY <2>1 DEF Prometidas
  <2>3. QED
    BY <1>1, <1>3, <2>2, FS_EmptySet DEF Contadas
<1>10. SoloInv
  <2>1. UnoSolo /\ Presente
    BY <1>2 DEF UnoSolo, Presente
  <2>2. ClockExacto /\ ContenidoIntacto
    BY <1>3 DEF ClockExacto, ContenidoIntacto
  <2>3. ClockLimpio
    BY <1>1, <1>2 DEF ClockLimpio, ClockVacio
  <2>4. SinCopia
    BY <1>1 DEF SinCopia
  <2>5. QED
    BY <2>1, <2>2, <2>3, <2>4 DEF SoloInv
<1>11. QED
  BY <1>1, <1>6, <1>7, <1>8, <1>9, <1>10 DEF MarcosInv

\* Whose request it is when they do not overlap.
LEMMA Solo ==
  ASSUME NEW p \in Procesos
  PROVE  /\ Puede(p) /\ Solapan = FALSE => Solos(p)
         /\ UnoSolo /\ pedido[p].paso # "" => Solos(p)
<1>1. Puede(p) /\ Solapan = FALSE => Solos(p)
  BY DEF Puede, Solos
<1>2. UnoSolo /\ pedido[p].paso # "" => Solos(p)
  BY SinPedido DEF UnoSolo, Solos
<1>3. QED
  BY <1>1, <1>2

LEMMA PideP ==
  ASSUME MarcosInv, NEW p \in Procesos, Pide(p)
  PROVE  MarcosInv' /\ (SoloInv /\ Solapan = FALSE => SoloInv')
<1>1. CASE Saludar(p)
  BY <1>1, SaludarP
<1>2. ASSUME NEW k \in Tamanios, NEW c \in BOOLEAN, Reservar(p, k, c)
      PROVE  MarcosInv' /\ (SoloInv /\ Solapan = FALSE => SoloInv')
  BY <1>2, ReservarP, Solo DEF Reservar
<1>3. ASSUME NEW c \in BOOLEAN, ReservarEnCola(p, c)
      PROVE  MarcosInv' /\ (SoloInv /\ Solapan = FALSE => SoloInv')
  BY <1>3, ReservarEnColaP, Solo DEF ReservarEnCola
<1>4. ASSUME NEW a \in DOMAIN paginas[p], NEW b \in DOMAIN paginas[p],
             NEW op \in {"copiar", "obtener"}, NEW v \in {0, 1} \cup Versiones,
             op = "copiar" => v \in Versiones, Acceder(p, op, a, b, v)
      PROVE  MarcosInv' /\ (SoloInv /\ Solapan = FALSE => SoloInv')
  <2>1. Puede(p)
    BY <1>4 DEF Acceder
  <2>2. MarcosInv' /\ (SoloInv /\ Solos(p) => SoloInv')
    BY <1>4, AccederP
  <2>3. QED
    BY <2>1, <2>2, Solo
<1>5. CASE Cerrar(p)
  BY <1>5, CerrarP, Solo DEF Cerrar
<1>6. CASE \E n \in DOMAIN paginas[p] : Acceder(p, "obtener", n, n, 0)
  BY <1>4, <1>6
<1>7. CASE \E a, b \in DOMAIN paginas[p], v \in Versiones : Acceder(p, "copiar", a, b, v)
  BY <1>4, <1>7
<1>8. QED
  BY <1>1, <1>2, <1>3, <1>5, <1>6, <1>7 DEF Pide

LEMMA AtiendeP ==
  ASSUME MarcosInv, NEW p \in Procesos, Atiende(p)
  PROVE  MarcosInv' /\ (SoloInv => SoloInv')
<1>1. CASE Caer(p)
  BY <1>1, CaerP
<1>2. CASE /\ pedido[p].paso # ""
           /\ MarcosInv' /\ (SoloInv /\ Solos(p) => SoloInv')
  BY <1>2, Solo DEF SoloInv
<1>3. CASE ReusarUltima(p) \/ PaginaNueva(p)
  <2>1. pedido[p].paso # ""
    BY <1>3 DEF ReusarUltima, PaginaNueva, Creando, Paso
  <2>2. QED
    BY <1>2, <1>3, <2>1, ReusarUltimaP, PaginaNuevaP
<1>4. CASE Buscar(p) \/ Escribir(p) \/ Leer(p) \/ EscribirHeader(p)
  <2>1. pedido[p].paso # ""
    BY <1>4 DEF Buscar, Escribir, Leer, EscribirHeader, Buscando, Usando, Paso
  <2>2. QED
    BY <1>2, <1>4, <2>1, BuscarP, EscribirP, LeerP, EscribirHeaderP
<1>5. CASE QuitarPagina(p) \/ LiberarBit(p) \/ RemoverClock(p) \/ Salir(p)
  <2>1. pedido[p].paso # ""
    BY <1>5 DEF QuitarPagina, LiberarBit, RemoverClock, Salir, Paso
  <2>2. QED
    BY <1>2, <1>5, <2>1, QuitarPaginaP, LiberarBitP, RemoverClockP, SalirP
<1>6. QED
  BY <1>1, <1>3, <1>4, <1>5 DEF Atiende

LEMMA PasoP ==
  ASSUME MarcosInv, [Next]_vars
  PROVE  MarcosInv' /\ (SoloInv /\ Solapan = FALSE => SoloInv')
<1>1. CASE Next
  BY <1>1, PideP, AtiendeP DEF Next
<1>2. CASE UNCHANGED vars
  <2>1. PICK p : p \in Procesos
    BY ConstantesMUSE
  <2>2. UNCHANGED <<marVars, paginas_usadas, procesos, paginas, listado, cola, pedido, hisVars>>
    BY <1>2 DEF vars, marVars, hisVars
  <2>3. caido' \in BOOLEAN
    BY <1>2 DEF vars, MarcosInv, FormaTablas
  <2>4. QED
    BY <2>1, <2>2, <2>3, NadaCambia
<1>3. QED
  BY <1>1, <1>2

LEMMA MarcosSiempre == Spec => []MarcosInv
<1>1. Init => MarcosInv
  BY AlEmpezar
<1>2. MarcosInv /\ [Next]_vars => MarcosInv'
  BY PasoP
<1>3. QED
  BY <1>1, <1>2, PTL DEF Spec

LEMMA SoloSiempre ==
  ASSUME Solapan = FALSE
  PROVE  Spec => []SoloInv
<1>1. Init => SoloInv
  BY AlEmpezar
<1>2. MarcosInv /\ SoloInv /\ [Next]_vars => SoloInv'
  BY PasoP
<1>3. QED
  BY <1>1, <1>2, MarcosSiempre, PTL DEF Spec
-----------------------------------------------------------------------------
(* What the runs check *)

LEMMA TipoDeMarcosInv ==
  ASSUME MarcosInv
  PROVE  TypeOK
<1>1. FormaMarcos /\ FormaTablas /\ FormaPedidos
  BY DEF MarcosInv, MemoriaInv, FormaTablas
<1>2. DOMAIN paginas = Procesos
  BY <1>1 DEF FormaMarcos
<1>3. ASSUME NEW p \in Procesos
      PROVE  /\ DOMAIN paginas[p] \subseteq Numeros
             /\ \A n \in DOMAIN paginas[p] :
                  /\ paginas[p][n] \in Pagina
                  /\ paginas[p][n].marco \in
                       IF paginas[p][n].p = 1 THEN Marcos ELSE MarcosSwap
  <2>1. \A r \in Registro : /\ r \in Pagina
                            /\ r.marco \in IF r.p = 1 THEN Marcos ELSE MarcosSwap
    <3>1. SUFFICES ASSUME NEW r \in Registro
                   PROVE  r \in Pagina /\ r.marco \in IF r.p = 1 THEN Marcos ELSE MarcosSwap
      OBVIOUS
    <3>2. CASE r = EnMemoria(r.marco) /\ r.p = 1 /\ r.marco \in Marcos
      BY <3>2, Conjuntos DEF EnMemoria, Pagina
    <3>3. CASE r = EnSwap(r.marco) /\ r.p = 0 /\ r.marco \in MarcosSwap
      BY <3>3, Conjuntos DEF EnSwap, Pagina
    <3>4. QED
      BY <3>2, <3>3, Registros
  <2>2. QED
    BY <1>1, <2>1, UnaTabla
<1>4. QED
  BY <1>1, <1>2, <1>3 DEF TypeOK, FormaMarcos, FormaTablas, FormaPedidos, Pedido

LEMMA LugarDeResto ==
  ASSUME NEW p \in Devolviendo
  PROVE  /\ <<p, Resto>> \in Cosas
         /\ Lugar(<<p, Resto>>).p = pedido[p].v /\ Lugar(<<p, Resto>>).marco = pedido[p].i
<1>1. <<p, Resto>> \in Cosas
  BY DEF Cosas
<1>2. Lugar(<<p, Resto>>) = [p |-> pedido[p].v, marco |-> pedido[p].i]
  BY DEF Lugar
<1>3. QED
  BY <1>1, <1>2

\* The bits that are set are those of the frames in use.
LEMMA JustosDeMarcosInv ==
  ASSUME MarcosInv
  PROVE  MarcosJustos
<1>1. /\ MemoriaInv /\ FormaMarcos /\ FormaPedidos /\ Contadas
      /\ UnoAUno(Lugares, Cosas, Ocupados)
  BY DEF MarcosInv, MemoriaInv, FormaTablas, LugaresJustos
<1>2. ASSUME NEW x \in Cosas
      PROVE  /\ Lugar(x).p = 1 => Lugar(x).marco \in Usados(1)
             /\ Lugar(x).p = 0 => Lugar(x).marco \in Usados(0)
  <2>1. CASE x \in Paginas
    BY <1>1, <2>1, UnaCosa DEF Usados
  <2>2. CASE x \notin Paginas
    <3>1. PICK p \in Devolviendo : x = <<p, Resto>>
      BY <2>2 DEF Cosas
    <3>2. Lugar(x).p = pedido[p].v /\ Lugar(x).marco = pedido[p].i
      BY <3>1, LugarDeResto
    <3>3. QED
      BY <3>2 DEF Usados
  <2>3. QED
    BY <2>1, <2>2
<1>3. ASSUME NEW e \in {0, 1}, NEW f \in Usados(e)
      PROVE  \E x \in Cosas : Lugar(x).p = e /\ Lugar(x).marco = f
  <2>1. CASE \E w \in Paginas : En(w).p = e /\ En(w).marco = f
    BY <1>1, <2>1, UnaCosa
  <2>2. CASE \E p \in Devolviendo : pedido[p].v = e /\ pedido[p].i = f
    <3>1. PICK p \in Devolviendo : pedido[p].v = e /\ pedido[p].i = f
      BY <2>2
    <3>2. /\ <<p, Resto>> \in Cosas
          /\ Lugar(<<p, Resto>>).p = pedido[p].v /\ Lugar(<<p, Resto>>).marco = pedido[p].i
      BY LugarDeResto
    <3>3. QED
      BY <3>1, <3>2
  <2>3. QED
    BY <1>3, <2>1, <2>2 DEF Usados
<1>4. ASSUME NEW r \in Ocupados
      PROVE  \E x \in Cosas : Lugar(x) = r
  BY <1>1, UnaCosa DEF UnoAUno
<1>5. bitmap_marcos = Usados(1)
  <2>1. ASSUME NEW f \in bitmap_marcos
        PROVE  f \in Usados(1)
    <3>1. PICK x \in Cosas : Lugar(x) = EnMemoria(f)
      BY <1>4, Ocupado
    <3>2. QED
      BY <1>2, <3>1, Registros
  <2>2. ASSUME NEW f \in Usados(1)
        PROVE  f \in bitmap_marcos
    BY <1>1, <1>3, EnSuLugar
  <2>3. QED
    BY <2>1, <2>2
<1>6. bitmap_swap = Usados(0)
  <2>1. ASSUME NEW s \in bitmap_swap
        PROVE  s \in Usados(0)
    <3>1. PICK x \in Cosas : Lugar(x) = EnSwap(s)
      BY <1>4, Ocupado
    <3>2. QED
      BY <1>2, <3>1, Registros
  <2>2. ASSUME NEW s \in Usados(0)
        PROVE  s \in bitmap_swap
    BY <1>1, <1>3, EnSuLugar
  <2>3. QED
    BY <2>1, <2>2
<1>7. /\ IsFiniteSet(Ocupados) /\ IsFiniteSet(Cosas) /\ Cardinality(Ocupados) = Cardinality(Cosas)
      /\ Cardinality(Cosas) = Cardinality(Paginas) + Cardinality(Devolviendo)
  <2> DEFINE D == {<<p, Resto>> : p \in Devolviendo}
             g == [p \in Devolviendo |-> <<p, Resto>>]
  <2>1. IsFiniteSet(Devolviendo)
    BY ConstantesMUSE, FS_Subset DEF Devolviendo
  <2>2. g \in Bijection(Devolviendo, D)
    BY DEF Bijection, Injection, Surjection, IsInjective
  <2>3. IsFiniteSet(D) /\ Cardinality(D) = Cardinality(Devolviendo)
    BY <2>1, <2>2, FS_Bijection DEF ExistsBijection
  <2>4. Paginas \cap D = {} /\ Cosas = Paginas \cup D
    <3>1. \A x \in Paginas : x[2] # Resto
      BY <1>1, UnaCosa
    <3>2. QED
      BY <3>1 DEF Cosas
  <2> HIDE DEF D, g
  <2>5. IsFiniteSet(Paginas)
    BY <1>1 DEF Contadas
  <2>6. /\ IsFiniteSet(Cosas)
        /\ Cardinality(Cosas) = Cardinality(Paginas) + Cardinality(Devolviendo) - 0
    BY <2>3, <2>4, <2>5, FS_Union, FS_EmptySet
  <2>7. Cardinality(Paginas) \in Nat /\ Cardinality(Devolviendo) \in Nat
    BY <2>1, <2>5, FS_CardinalityType
  <2>8. IsFiniteSet(Ocupados) /\ Cardinality(Ocupados) = Cardinality(Cosas)
    BY <1>1, <2>6, UnoCuenta
  <2>9. QED
    BY <2>6, <2>7, <2>8
<1>8. Cardinality(bitmap_marcos) + Cardinality(bitmap_swap) = Cardinality(Ocupados)
  <2> DEFINE A == [p : {1}, marco : bitmap_marcos]
             B == [p : {0}, marco : bitmap_swap]
             g == [f \in bitmap_marcos |-> EnMemoria(f)]
             h == [s \in bitmap_swap |-> EnSwap(s)]
  <2>1. IsFiniteSet(bitmap_marcos) /\ IsFiniteSet(bitmap_swap)
    BY <1>1, Conjuntos, FS_Subset DEF FormaMarcos
  <2>2. g \in Bijection(bitmap_marcos, A) /\ h \in Bijection(bitmap_swap, B)
    BY DEF Bijection, Injection, Surjection, IsInjective, EnMemoria, EnSwap
  <2>3. /\ IsFiniteSet(A) /\ Cardinality(A) = Cardinality(bitmap_marcos)
        /\ IsFiniteSet(B) /\ Cardinality(B) = Cardinality(bitmap_swap)
    BY <2>1, <2>2, FS_Bijection DEF ExistsBijection
  <2>4. A \cap B = {} /\ Ocupados = A \cup B
    BY DEF Ocupados, Sitios
  <2> HIDE DEF A, B, g, h
  <2>5. Cardinality(Ocupados) = Cardinality(bitmap_marcos) + Cardinality(bitmap_swap) - 0
    BY <2>3, <2>4, FS_Union, FS_EmptySet
  <2>6. Cardinality(bitmap_marcos) \in Nat /\ Cardinality(bitmap_swap) \in Nat
    BY <2>1, FS_CardinalityType
  <2>7. QED
    BY <2>5, <2>6
<1>9. QED
  BY <1>1, <1>5, <1>6, <1>7, <1>8 DEF MarcosJustos, Contadas
\* While no other request is giving back a page, one that is granted finds a
\* frame: the pages there are, and it, are no more than the frames.
LEMMA HayMarco ==
  ASSUME MarcosInv, NEW p \in Procesos, Solos(p), Creando(p), ~ Reusa(p), MarcosLibres = {}
  PROVE  MarcosSwap # bitmap_swap
<1>1. SUFFICES ASSUME MarcosSwap = bitmap_swap
               PROVE  FALSE
  OBVIOUS
<1>2. /\ FormaMarcos /\ Contadas /\ MarcosJustos /\ paginas_usadas \in 0..PaginasTotales
  BY JustosDeMarcosInv DEF MarcosInv, MemoriaInv, FormaTablas
<1>3. Devolviendo = {}
  <2>1. \A q \in Procesos : pedido[q].paso # "bit"
    BY SinPedido DEF Solos, Creando, Paso
  <2>2. QED
    BY <2>1 DEF Devolviendo
<1>4. bitmap_marcos = Marcos
  BY <1>2 DEF MarcosLibres, FormaMarcos
<1>5. Cardinality(bitmap_marcos) + Cardinality(bitmap_swap) = PaginasTotales
  BY <1>1, <1>4, Conjuntos DEF PaginasTotales
<1>6. Cardinality(Paginas) = PaginasTotales
  <2>1. Cardinality(Paginas) \in Nat /\ Cardinality(Devolviendo) = 0
    BY <1>2, <1>3, FS_CardinalityType, FS_EmptySet DEF Contadas
  <2>2. Cardinality(bitmap_marcos) + Cardinality(bitmap_swap)
          = Cardinality(Paginas) + Cardinality(Devolviendo)
    BY <1>2 DEF MarcosJustos
  <2>3. QED
    BY <1>5, <2>1, <2>2
<1>7. Cardinality(Prometidas) \in Nat \ {0}
  <2>1. Faltan(p) \in Nat \ {0}
    BY Creacion
  <2>2. <<p, 1>> \in Prometidas
    BY <2>1, UnaPromesa
  <2>3. QED
    BY <1>2, <2>2, FS_CardinalityType, FS_EmptySet DEF Contadas
<1>8. PaginasTotales \in Nat /\ paginas_usadas = Cardinality(Paginas) + Cardinality(Prometidas)
  BY <1>2, ConstantesMUSE DEF PaginasTotales, Contadas
<1>9. QED
  BY <1>2, <1>6, <1>7, <1>8

LEMMA UnoDeSolo ==
  ASSUME MarcosInv, SoloInv
  PROVE  MarcosDeUno
<1>1. MarcosJustos
  BY JustosDeMarcosInv
<1>2. ASSUME NEW p \in Procesos, Creando(p) /\ ~ Reusa(p) /\ MarcosLibres = {}
      PROVE  MarcosSwap # bitmap_swap
  <2>1. Solos(p)
    BY <1>2, Solo DEF SoloInv, Creando, Paso
  <2>2. QED
    BY <1>2, <2>1, HayMarco
<1>3. QED
  BY <1>1, <1>2 DEF MarcosDeUno

\* The page of a frame in use is found, unless its segment is in no list yet.
LEMMA ElDelMarco ==
  ASSUME MarcosInv, SoloInv, NEW p \in Procesos, Solos(p), pedido[p].paso \in {"crear", "buscar"},
         NEW f \in bitmap_marcos, ~ Encontrable(clock[f])
  PROVE  clock[f].id = p /\ p \in procesos /\ ~ listado[p] /\ pedido[p].op = "reservar"
<1>1. MemoriaInv /\ FormaMarcos /\ FormaPedidos /\ PedidosJustos
  BY DEF MarcosInv, MemoriaInv, FormaTablas
<1>2. \A q \in Procesos \ {p} : pedido[q].paso = "" /\ pedido[q].op = "ninguno"
  BY SinPedido DEF Solos
<1>3. Devolviendo = {}
  BY <1>2 DEF Devolviendo
<1>4. PICK w \in Paginas : En(w) = EnMemoria(f)
  <2>1. EnMemoria(f) \in Ocupados
    BY Ocupado
  <2>2. PICK w \in Cosas : Lugares[w] = EnMemoria(f)
    BY <1>1, <2>1 DEF MemoriaInv, LugaresJustos, UnoAUno
  <2>3. QED
    BY <1>1, <1>3, <2>2, UnaCosa
<1>5. w[1] \in Procesos /\ w[2] \in DOMAIN paginas[w[1]]
  BY UnaPagina
<1>6. clock[f].id = w[1] /\ clock[f].pag = w[2]
  BY <1>4, Registros DEF SoloInv, ClockExacto
<1>7. TablaJusta(w[1]) /\ PedidoJusto(p)
  BY <1>1, <1>5 DEF PedidosJustos
<1>8. w[1] \in procesos
  BY <1>5, <1>7 DEF TablaJusta
<1>9. ~ listado[w[1]]
  BY <1>5, <1>6, <1>8 DEF Encontrable
<1>10. pedido[w[1]].op \in {"reservar", "cerrar"}
  BY <1>5, <1>7, <1>9 DEF TablaJusta
<1>11. w[1] = p
  BY <1>2, <1>5, <1>10
<1>12. pedido[p].op = "reservar"
  BY <1>7, <1>10, <1>11 DEF PedidoJusto
<1>13. QED
  BY <1>6, <1>8, <1>9, <1>11, <1>12

LEMMA CaePorque ==
  ASSUME MarcosInv, SoloInv, NEW p \in Procesos, Caer(p)
  PROVE  CaeSoloSiNoEntra'
<1>0. PICK f : f = Victima(Menor(punteros))
  OBVIOUS
<1>1. /\ FormaMarcos
      /\ UNCHANGED <<bitmap_marcos, bitmap_swap, clock, punteros, memoria, espacio>>
      /\ UNCHANGED <<procesos, listado, pedido>>
  BY DEF Caer, marVars, MarcosInv, MemoriaInv
<1>2. CASE PideSwap(p) /\ SinVictima
  <2>1. pedido[p].paso \in {"crear", "buscar"}
    BY <1>2 DEF PideSwap, Creando, Buscando, Paso
  <2>2. Solos(p)
    BY <2>1, Solo DEF SoloInv
  <2>3. f \in bitmap_marcos /\ ~ Encontrable(clock[f])
    <3>1. MarcosLibres = {} /\ ~ Encontrable(clock[f])
      BY <1>0, <1>2 DEF SinVictima
    <3>2. Menor(punteros) \in Marcos
      <4>1. punteros \subseteq Marcos /\ punteros # {}
        BY <1>1 DEF FormaMarcos
      <4>2. QED
        BY <4>1, Conjuntos, MenorEsta
    <3>3. f \in Marcos
      BY <1>0, <3>2, VictimaEsta
    <3>4. QED
      BY <3>1, <3>3 DEF MarcosLibres
  <2>4. clock[f].id = p /\ p \in procesos /\ ~ listado[p] /\ pedido[p].op = "reservar"
    BY <2>1, <2>2, <2>3, ElDelMarco
  <2>5. Victima(Menor(punteros))' = f
    BY <1>0, <1>1 DEF Victima, Con_um, Primero, Distancia, Menor
  <2>6. QED
    BY <1>1, <2>4, <2>5 DEF CaeSoloSiNoEntra
<1>3. CASE Creando(p) /\ ~ Reusa(p) /\ MarcosLibres = {} /\ MarcosSwap = bitmap_swap
  <2>1. Solos(p)
    BY <1>3, Solo DEF SoloInv, Creando, Paso
  <2>2. QED
    BY <1>3, <2>1, HayMarco
<1>4. CASE Usando(p) /\ Actual(p).marco \notin Marcos
  <2>1. Actual(p).p = 1 /\ Actual(p) \in Registro
    BY <1>4, Acceso DEF SoloInv, Presente, Usando, Paso
  <2>2. QED
    BY <1>4, <2>1, Registros
<1>5. QED
  BY <1>2, <1>3, <1>4 DEF Caer, Falla

\* A server that is gone makes no step.
LEMMA Quietos ==
  ASSUME [Next]_vars
  PROVE  \/ UNCHANGED vars
         \/ ~ caido /\ caido' = caido
         \/ \E p \in Procesos : Caer(p)
<1>1. ASSUME NEW p \in Procesos, Pide(p)
      PROVE  ~ caido /\ caido' = caido
  <2>1. CASE Saludar(p) \/ Cerrar(p)
    BY <2>1 DEF Saludar, Cerrar, Puede
  <2>2. CASE \E k \in Tamanios, c \in BOOLEAN : Reservar(p, k, c)
    BY <2>2 DEF Reservar, Puede, Pedir
  <2>3. CASE \E c \in BOOLEAN : ReservarEnCola(p, c)
    BY <2>3 DEF ReservarEnCola, Puede, Pedir
  <2>4. ASSUME NEW op, NEW a, NEW b, NEW v, Acceder(p, op, a, b, v)
        PROVE  ~ caido /\ caido' = caido
    BY <2>4 DEF Acceder, Puede, Pedir
  <2>5. QED
    BY <1>1, <2>1, <2>2, <2>3, <2>4 DEF Pide
<1>2. ASSUME NEW p \in Procesos, Atiende(p), ~ Caer(p)
      PROVE  ~ caido /\ caido' = caido
  <2>1. CASE ReusarUltima(p) \/ PaginaNueva(p)
    BY <2>1 DEF ReusarUltima, PaginaNueva, Creando, Paso
  <2>2. CASE Buscar(p) \/ Escribir(p) \/ Leer(p) \/ EscribirHeader(p)
    BY <2>2 DEF Buscar, Escribir, Leer, EscribirHeader, Buscando, Usando, Paso, tabVars
  <2>3. CASE QuitarPagina(p) \/ LiberarBit(p) \/ RemoverClock(p) \/ Salir(p)
    BY <2>3 DEF QuitarPagina, LiberarBit, RemoverClock, Salir, Paso, tabVars
  <2>4. QED
    BY <1>2, <2>1, <2>2, <2>3 DEF Atiende
<1>3. QED
  BY <1>1, <1>2 DEF Next

-----------------------------------------------------------------------------
(* The theorems *)

\* Every variable keeps its type: a page that is in a table says a frame of
\* memory or of swap there is, and a request says pages there are.
THEOREM TipoMarcos == Spec => []TypeOK
<1>1. MarcosInv => TypeOK
  BY TipoDeMarcosInv
<1>2. QED
  BY <1>1, MarcosSiempre, PTL

\* However the requests overlap, a frame of memory or of swap is of one page at
\* most, its bit tells whether it is of one, and paginas_usadas is the pages
\* there are and those granted: swap exchanges the frames of two pages, and the
\* thread that closes a segment updates the three one after the other.
THEOREM FramesMatch == Spec => []MarcosJustos
<1>1. MarcosInv => MarcosJustos
  BY JustosDeMarcosInv
<1>2. QED
  BY <1>1, MarcosSiempre, PTL

\* While they do not, a page that muse_alloc has granted always finds a frame:
\* buscar_marco_libre never gives -1 for both bitmaps.
THEOREM FrameForEachPage ==
  ASSUME Solapan = FALSE
  PROVE  Spec => []MarcosDeUno
<1>1. MarcosInv /\ SoloInv => MarcosDeUno
  BY UnoDeSolo
<1>2. QED
  BY <1>1, MarcosSiempre, SoloSiempre, PTL

\* While they do not, the clock names the page in each frame, which is all swap
\* has to find the page of its victim, and no page in a frame that is free.
THEOREM ClockUpToDate ==
  ASSUME Solapan = FALSE
  PROVE  Spec => []ClockAlDia
<1>1. SoloInv => ClockAlDia
  BY DEF SoloInv, ClockAlDia, ClockExacto, ClockLimpio
<1>2. QED
  BY <1>1, SoloSiempre, PTL

\* While they do not, what a process copied to a page is in the frame its table
\* says, however often the page has been a victim.
THEOREM ContentIntact ==
  ASSUME Solapan = FALSE
  PROVE  Spec => []ContenidoIntacto
<1>1. SoloInv => ContenidoIntacto
  BY DEF SoloInv
<1>2. QED
  BY <1>1, SoloSiempre, PTL

\* While they do not, the server dies only of a first muse_alloc that memory
\* cannot hold: swap chooses a page of the segment that is being made.
THEOREM DiesOnlyMaking ==
  ASSUME Solapan = FALSE
  PROVE  Spec => []CaeSoloSiNoEntra
<1>1. Init => CaeSoloSiNoEntra
  BY AlEmpezar DEF CaeSoloSiNoEntra
<1>2. MarcosInv /\ SoloInv /\ CaeSoloSiNoEntra /\ [Next]_vars => CaeSoloSiNoEntra'
  <2>1. SUFFICES ASSUME MarcosInv, SoloInv, CaeSoloSiNoEntra, [Next]_vars
                 PROVE  CaeSoloSiNoEntra'
    OBVIOUS
  <2>2. CASE UNCHANGED vars
    <3>1. UNCHANGED <<caido, clock, punteros, procesos, listado, pedido>>
      BY <2>2 DEF vars
    <3>2. Victima(Menor(punteros))' = Victima(Menor(punteros))
      BY <3>1 DEF Victima, Con_um, Primero, Distancia, Menor
    <3>3. QED
      BY <2>1, <3>1, <3>2 DEF CaeSoloSiNoEntra
  <2>3. CASE ~ caido /\ caido' = caido
    BY <2>3 DEF CaeSoloSiNoEntra
  <2>4. CASE \E p \in Procesos : Caer(p)
    BY <2>1, <2>4, CaePorque
  <2>5. QED
    BY <2>1, <2>2, <2>3, <2>4, Quietos
<1>3. QED
  BY <1>1, <1>2, MarcosSiempre, SoloSiempre, PTL DEF Spec
=============================================================================
