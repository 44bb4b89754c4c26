----------------------------- MODULE SACBloques -----------------------------
(***************************************************************************)
(* The content of the files of SAC: leerArchivo and escribirArchivo, over   *)
(* the blocks that cambiarTamanioArchivo gives and takes.                    *)
(*                                                                         *)
(* Here a file is its node, whatever its path: SACNodos has the directories *)
(* and the writes of bits and nodes one by one, so that here a change of    *)
(* size is one step.  A write to a block is an fopen, fwrite and fclose of  *)
(* its own, and the server may die between two; requests exclude each other *)
(* by m_acceso_fs.                                                          *)
(*                                                                         *)
(* The kernel asks for whole pages when it reads, and a page is as long as  *)
(* a block; what it writes with one request lies inside one page, because   *)
(* SACCli mounts without big_writes (MaxPaginas = 1).                       *)
(***************************************************************************)
EXTENDS Integers, Sequences, FiniteSets

CONSTANTS
  Archivos,        \* the files programs use
  Bloques,         \* the data blocks
  TAM_BLOQUE,
  MaxPunteros,     \* TAM_MAX_PUNT_IND
  Bytes,           \* what a program writes
  MaxPaginas       \* pages that one write may touch

NULO == 0          \* '\0', also what the disk has at first

ASSUME ConstantesBloques ==
  /\ TAM_BLOQUE \in Nat \ {0} /\ MaxPunteros \in Nat \ {0}
  /\ IsFiniteSet(Bloques)
  /\ MaxPaginas \in Nat \ {0}

VARIABLES
  nodo,            \* tam_archivo and p_indirectos of each file that exists
  dato,            \* the bytes of each block
  escritura,       \* the write under way: a set of at most one
  respuesta        \* the last answer, and to what

vars == <<nodo, dato, escritura, respuesta>>

Posiciones == 0..TAM_BLOQUE - 1
TamMax == TAM_BLOQUE * MaxPunteros
Existentes == DOMAIN nodo
SinRespuesta == [op |-> "ninguna"]

\* ceil(tam / TAM_BLOQUE)
CantBloques(tam) == (tam + TAM_BLOQUE - 1) \div TAM_BLOQUE

\* MUTANT: the bits are not looked at.
CualquierBloque == Bloques

\* The blocks whose bit is clear: those of no file.
Ocupados == UNION {{nodo[a].p[i] : i \in DOMAIN nodo[a].p} : a \in Existentes}
Libres == Bloques \ Ocupados

Init ==
  /\ nodo = <<>>
  /\ dato = [b \in Bloques |-> [k \in Posiciones |-> NULO]]
  /\ escritura = {} /\ respuesta = SinRespuesta

(***************************************************************************)
(* Sizes.                                                                   *)
(***************************************************************************)

\* MUTANT: one block is taken, however many the file needs.
AgregarUno(a, n, tam) ==
  \E b \in Libres : nodo' = [nodo EXCEPT ![a] = [tam |-> tam, p |-> Append(@.p, b)]]

\* File a has n blocks more: the node keeps those it had and first-fit adds
\* free ones, which nobody clears.
Agregar(a, n, tam) ==
  \E f \in [1..n -> Libres] :
    /\ \A i, j \in 1..n : f[i] = f[j] => i = j
    /\ nodo' = [nodo EXCEPT ![a] = [tam |-> tam, p |-> @.p \o f]]

Entran(a, n) ==
  n <= Cardinality(Libres) /\ Len(nodo[a].p) + n <= MaxPunteros

\* The three branches of cambiarTamanioArchivo that succeed: blocks added,
\* taken from the end, or only another size.
cambiarTamanioArchivo(a, tam) ==
  LET adicionales == CantBloques(tam) - CantBloques(nodo[a].tam)
  IN \/ /\ adicionales > 0 /\ Entran(a, adicionales)
        /\ Agregar(a, adicionales, tam)
     \/ /\ adicionales <= 0
        /\ nodo' = [nodo EXCEPT ![a] =
                      [tam |-> tam, p |-> SubSeq(@.p, 1, Len(@.p) + adicionales)]]

\* ... and the one that does not.
SinLugar(a, tam) ==
  LET adicionales == CantBloques(tam) - CantBloques(nodo[a].tam)
  IN adicionales > 0 /\ ~ Entran(a, adicionales)

\* SYS_CREATE, SYS_UNLINK and SYS_TRUNCATE.
Crear(a) ==
  /\ escritura = {} /\ a \notin Existentes
  /\ nodo' = [o \in Existentes \cup {a} |->
                IF o = a THEN [tam |-> 0, p |-> <<>>] ELSE nodo[o]]
  /\ respuesta' = SinRespuesta
  /\ UNCHANGED <<dato, escritura>>

Borrar(a) ==
  /\ escritura = {} /\ a \in Existentes
  /\ nodo' = [o \in Existentes \ {a} |-> nodo[o]]
  /\ respuesta' = SinRespuesta
  /\ UNCHANGED <<dato, escritura>>

Truncar(a, tam) ==
  /\ escritura = {} /\ a \in Existentes
  /\ cambiarTamanioArchivo(a, tam)
  /\ respuesta' = SinRespuesta
  /\ UNCHANGED <<dato, escritura>>

(***************************************************************************)
(* SYS_READ.                                                                *)
(***************************************************************************)

leerBloqueDatos(b, offset, n) == [k \in 1..n |-> dato[b][offset + k - 1]]

\* The blocks of file a from the i-th to before the j-th, one after another.
Intermedios(a, i, j) ==
  [k \in 1..(j - i) * TAM_BLOQUE |->
     dato[nodo[a].p[i + 1 + (k - 1) \div TAM_BLOQUE]][(k - 1) % TAM_BLOQUE]]

\* The first "tam" bytes of the file from "offset" on: initial block, blocks
\* in between and final block.  The blocks of a node are numbered from 0.
BytesDeBloques(a, offset, tam) ==
  LET iInicial == offset \div TAM_BLOQUE
      iFinal == (offset + tam - 1) \div TAM_BLOQUE
      desde == offset % TAM_BLOQUE
      finLectura == (offset + tam - 1) % TAM_BLOQUE
  IN IF iInicial = iFinal
     THEN leerBloqueDatos(nodo[a].p[iInicial + 1], desde, tam)
     ELSE leerBloqueDatos(nodo[a].p[iInicial + 1], desde, TAM_BLOQUE - desde)
          \o Intermedios(a, iInicial + 1, iFinal)
          \o leerBloqueDatos(nodo[a].p[iFinal + 1], 0, finLectura + 1)

\* MUTANT: buf advances one byte less after a single block too.
FinSinUno(offset, tam) == tam - 1

\* Where the filling with '\0' of what was asked beyond the end begins: after
\* a final block of its own, buf has advanced one byte less than was read.
FinLeido(offset, tam) ==
  IF offset \div TAM_BLOQUE = (offset + tam - 1) \div TAM_BLOQUE
  THEN tam ELSE tam - 1

\* The bytes answered, as many as the result says.
leerArchivo(a, offset, pedidos) ==
  LET sobran == offset + pedidos > nodo[a].tam
      tam == IF sobran THEN nodo[a].tam - offset ELSE pedidos
  IN IF tam <= 0 THEN <<>>
     ELSE [k \in 1..tam |-> IF sobran /\ k > FinLeido(offset, tam) THEN NULO
                            ELSE BytesDeBloques(a, offset, tam)[k]]

Leer(a, pagina, paginas) ==
  /\ escritura = {} /\ a \in Existentes
  /\ LET offset == pagina * TAM_BLOQUE
         pedidos == paginas * TAM_BLOQUE
     IN respuesta' = [op |-> "read", archivo |-> a, offset |-> offset,
                      pedidos |-> pedidos, bytes |-> leerArchivo(a, offset, pedidos)]
  /\ UNCHANGED <<nodo, dato, escritura>>

(***************************************************************************)
(* SYS_WRITE.                                                               *)
(***************************************************************************)

\* The bytes of a write that fall in the i-th block, first and number.
Primero(w, i) == IF i = w.offset \div TAM_BLOQUE THEN w.offset % TAM_BLOQUE ELSE 0
UltimoBloque(w) == (w.offset + Len(w.datos) - 1) \div TAM_BLOQUE
Cuantos(w, i) ==
  LET iInicial == w.offset \div TAM_BLOQUE
  IN IF iInicial = UltimoBloque(w) THEN Len(w.datos)
     ELSE IF i < UltimoBloque(w) THEN TAM_BLOQUE - Primero(w, i)
     ELSE (w.offset + Len(w.datos)) % TAM_BLOQUE

\* The size first; nothing else is done when it does not fit.
AceptarEscritura(a, offset, datos) ==
  /\ escritura = {} /\ a \in Existentes
  /\ IF offset + Len(datos) > nodo[a].tam
     THEN cambiarTamanioArchivo(a, offset + Len(datos)) ELSE UNCHANGED nodo
  /\ escritura' = {[archivo |-> a, offset |-> offset, datos |-> datos,
                    bloque |-> offset \div TAM_BLOQUE, escritos |-> 0]}
  /\ respuesta' = SinRespuesta
  /\ UNCHANGED dato

RechazarEscritura(a, offset, datos) ==
  /\ escritura = {} /\ a \in Existentes
  /\ SinLugar(a, offset + Len(datos))
  /\ respuesta' = [op |-> "EDQUOT", archivo |-> a]
  /\ UNCHANGED <<nodo, dato, escritura>>

\* One block, and the answer after the last.
escribirBloqueDatos ==
  \E w \in escritura :
    LET b == nodo[w.archivo].p[w.bloque + 1]
        desde == Primero(w, w.bloque)
        n == Cuantos(w, w.bloque)
        yaDatos == w.bloque * TAM_BLOQUE + desde - w.offset
    IN /\ dato' = [dato EXCEPT ![b] =
                     [k \in Posiciones |-> IF k \in desde..desde + n - 1
                                           THEN w.datos[yaDatos + k - desde + 1]
                                           ELSE @[k]]]
       /\ IF w.bloque < UltimoBloque(w)
          THEN /\ escritura' = {[w EXCEPT !.bloque = @ + 1, !.escritos = @ + n]}
               /\ UNCHANGED respuesta
          ELSE /\ escritura' = {}
               /\ respuesta' = [op |-> "write", archivo |-> w.archivo,
                                pedidos |-> Len(w.datos), escritos |-> w.escritos + n]
       /\ UNCHANGED nodo

\* The server dies and is started again: a write under way stays as it is.
Caer ==
  /\ escritura' = {} /\ respuesta' = SinRespuesta
  /\ UNCHANGED <<nodo, dato>>

Datos == UNION {[1..n -> Bytes] : n \in 1..MaxPaginas * TAM_BLOQUE}

\* Pages that a write of n bytes at offset touches.
Paginas(offset, n) ==
  (offset + n - 1) \div TAM_BLOQUE - offset \div TAM_BLOQUE + 1

Escribir(a) ==
  \E offset \in 0..TamMax, datos \in Datos :
    /\ Paginas(offset, Len(datos)) <= MaxPaginas
    /\ \/ AceptarEscritura(a, offset, datos)
       \/ RechazarEscritura(a, offset, datos)

Next ==
  \/ \E a \in Archivos :
       \/ Crear(a) \/ Borrar(a) \/ Escribir(a)
       \/ \E tam \in 0..TamMax : Truncar(a, tam)
       \/ \E pagina \in 0..MaxPunteros - 1, paginas \in 1..MaxPunteros :
            Leer(a, pagina, paginas)
  \/ escribirBloqueDatos
  \/ Caer

Spec == Init /\ [][Next]_vars

(***************************************************************************)
(* Properties.                                                              *)
(***************************************************************************)

TypeOK ==
  /\ Existentes \subseteq Archivos
  /\ \A a \in Existentes :
       /\ nodo[a].tam \in 0..TamMax
       /\ nodo[a].p \in Seq(Bloques) /\ Len(nodo[a].p) = CantBloques(nodo[a].tam)
  /\ dato \in [Bloques -> [Posiciones -> Bytes \cup {NULO}]]

\* The file that the blocks of a node mean.
Contenido(a) ==
  [k \in 1..nodo[a].tam |->
     dato[nodo[a].p[1 + (k - 1) \div TAM_BLOQUE]][(k - 1) % TAM_BLOQUE]]

Archivo == INSTANCE SACArchivo
  WITH contenido <- [a \in Existentes |-> Contenido(a)],
       escritura <- {[archivo |-> w.archivo, offset |-> w.offset,
                      datos |-> w.datos] : w \in escritura},
       contestada <- respuesta.op = "write"

\* Whatever is written, truncated and deleted, and whenever the server dies,
\* the blocks are files with bytes of their own: no request touches a byte of
\* another file or one it does not name, and a write that has been answered is
\* in its file.
ArchivosCorrectos == Archivo!Spec

Esperado(r) ==
  LET c == Contenido(r.archivo)
      hasta == IF r.offset + r.pedidos > Len(c) THEN Len(c) ELSE r.offset + r.pedidos
  IN SubSeq(c, r.offset + 1, hasta)

\* A read answers the bytes of the file that were asked for and exist.
LeeElArchivo ==
  respuesta.op = "read" => respuesta.bytes = Esperado(respuesta)

\* A read of several blocks that passes the end answers the last byte of the
\* file as zero; every other byte, and the number of them, is right.
LeeSalvoElUltimo ==
  respuesta.op = "read" =>
    /\ Len(respuesta.bytes) = Len(Esperado(respuesta))
    /\ \A k \in DOMAIN respuesta.bytes :
         \/ respuesta.bytes[k] = Esperado(respuesta)[k]
         \/ /\ k = Len(respuesta.bytes)
            /\ Len(respuesta.bytes) < respuesta.pedidos
            /\ k > TAM_BLOQUE

\* A write is answered with the number of bytes asked for, as its user sees it.
EscribeTodo ==
  respuesta.op = "write" => respuesta.escritos = respuesta.pedidos
=============================================================================
