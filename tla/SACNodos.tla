------------------------------ MODULE SACNodos ------------------------------
(***************************************************************************)
(* The SAC server's metadata (FileSystem/SACServer/): the node table and    *)
(* the bitmap of a disk file, and the requests that change them.            *)
(*                                                                         *)
(* A request runs under m_acceso_fs, but each change reaches the disk by an *)
(* fopen, fwrite and fclose of its own: persistirBitmap for one bit,        *)
(* persistirNodo for one node.  The process may die between any two, and is *)
(* then started again without formatting.  Every request reads first and    *)
(* then writes bits, all in the same direction, and at most one node; so a  *)
(* request in progress is the writes it has left.                           *)
(*                                                                         *)
(* Sizes are in blocks; first-fit is any free block; dates and the content  *)
(* of blocks are left out.                                                  *)
(***************************************************************************)
EXTENDS Integers, Sequences, FiniteSets

CONSTANTS
  CantNodos,       \* TAM_TABLA_NODOS
  Bloques,         \* the data blocks
  SinBloque,       \* NULL in p_indirectos
  MaxPunteros,     \* TAM_MAX_PUNT_IND
  Nombres,         \* names a program uses for its files
  NombresLargos,   \* those longer than TAM_MAX_NOMBRE_ARCHIVO
  SinNombre,       \* the name of a free node, and of the root
  Clientes,        \* mounted SACCli, each with one request at a time (-s)
  Nadie,           \* m_acceso_fs is free
  Operaciones,     \* the requests the clients make
  Profundidad,     \* bound on the length of the paths they name
  MaxCaidas        \* bound on the deaths of the server

RAIZ == 0
ERROR == -1

ASSUME ConstantesSAC ==
  /\ CantNodos \in Nat /\ CantNodos >= 2
  /\ MaxPunteros \in Nat \ {0}
  /\ IsFiniteSet(Bloques) /\ SinBloque \notin Bloques
  /\ SinNombre \notin Nombres /\ NombresLargos \subseteq Nombres
  /\ Nadie \notin Clientes
  /\ Profundidad \in Nat /\ MaxCaidas \in Nat

VARIABLES
  \* on the disk
  nodo,            \* the node table: [0..CantNodos-1 -> t_nodo]
  bitmap,          \* the data blocks whose bit is set
  \* the server process
  atendido,        \* the client whose request holds m_acceso_fs
  pendientes,      \* blocks whose bit that request has still to write ...
  marcar,          \* ... and whether it sets or clears them
  destino,         \* the node it persists at its end ...
  imagen,          \* ... and what it persists
  \* the clients
  pedido,          \* the request each has made, checked by its FUSE
  \* history
  caidas,          \* deaths of the server
  interrumpido     \* one left a node pointing to blocks already freed

pedVars == <<atendido, pendientes, marcar, destino, imagen>>
vars == <<nodo, bitmap, atendido, pendientes, marcar, destino, imagen,
          pedido, caidas, interrumpido>>

Nodos == 0..CantNodos - 1
Indices == 0..MaxPunteros - 1
Tamanios == 0..MaxPunteros
Caminos == UNION {[1..k -> Nombres] : k \in 0..Profundidad}
Nodo == [estado : {"BORRADO", "OCUPADO", "DIRECTORIO"},
         nombre : Nombres \cup {SinNombre},
         padre : Nodos \cup {ERROR},
         tam : Tamanios,
         p : [Indices -> Bloques \cup {SinBloque}]]

Ninguno == [op |-> "ninguna", camino |-> <<>>, nuevo |-> <<>>, tam |-> 0]
Pedidos == {r \in [op : Operaciones, camino : Caminos \ {<<>>},
                  nuevo : Caminos, tam : 0..MaxPunteros + 1] :
              r.op = "move" => r.nuevo # <<>>}

NodoVacio == [estado |-> "BORRADO", nombre |-> SinNombre, padre |-> RAIZ,
              tam |-> 0, p |-> [i \in Indices |-> SinBloque]]
NodoRaiz == [NodoVacio EXCEPT !.estado = "DIRECTORIO"]

Ultimo(camino) == camino[Len(camino)]
cortarPathPadre(camino) == SubSeq(camino, 1, Len(camino) - 1)
Prefijo(p, q) == Len(p) <= Len(q) /\ SubSeq(q, 1, Len(p)) = p
Menor(S) == CHOOSE i \in S : \A j \in S : i <= j

(***************************************************************************)
(* What the requests read.                                                  *)
(***************************************************************************)

\* MUTANT: the search of the padre looks at the names alone.
NombraSinPadre(camino, s) ==
  \A k \in DOMAIN camino :
    nodo[s[k]].estado # "BORRADO" /\ nodo[s[k]].nombre = camino[k]

\* The nodes s are named like the path, each one in the directory before it.
\* The name of the root is in no path, so a chain goes through it only at its
\* beginning.
Nombra(camino, s) ==
  \A k \in DOMAIN camino :
    /\ nodo[s[k]].estado # "BORRADO"
    /\ nodo[s[k]].nombre = camino[k]
    /\ nodo[s[k]].padre = IF k = 1 THEN RAIZ ELSE s[k - 1]

Resuelven(camino) ==
  {s[Len(camino)] : s \in {t \in [DOMAIN camino -> Nodos] : Nombra(camino, t)}}

\* The number of the first node the path names.
existeArchivo(camino) ==
  IF camino = <<>> THEN RAIZ
  ELSE IF Resuelven(camino) = {} THEN ERROR
  ELSE Menor(Resuelven(camino))

Existe(camino) == existeArchivo(camino) # ERROR
EsDirectorio(camino) ==
  Existe(camino) /\ nodo[existeArchivo(camino)].estado = "DIRECTORIO"
EsArchivo(camino) ==
  Existe(camino) /\ nodo[existeArchivo(camino)].estado = "OCUPADO"

\* buscarNodoLibre stops before the last node.
NodosLibres == {i \in 0..CantNodos - 2 : nodo[i].estado = "BORRADO"}

\* MUTANT: rmdir takes every directory for an empty one.
SinHijos(n) == {}

\* obtenerArchivosDeDirectorio: the nodes whose bloque_padre is n.
Hijos(n) == {i \in Nodos : nodo[i].padre = n}

\* MUTANT: the bits are not looked at.
CualquierBloque == Bloques

\* The blocks whose bit is clear.
Libres == Bloques \ bitmap

Apunta(n) == {nodo[n].p[i] : i \in Indices} \ {SinBloque}
Apuntados == UNION {Apunta(n) : n \in Nodos}

(***************************************************************************)
(* The server.                                                              *)
(***************************************************************************)

Init ==
  /\ nodo = [n \in Nodos |-> IF n = RAIZ THEN NodoRaiz ELSE NodoVacio]
  /\ bitmap = {}
  /\ atendido = Nadie /\ pendientes = {} /\ marcar = FALSE
  /\ destino = RAIZ /\ imagen = NodoVacio
  /\ pedido = [c \in Clientes |-> Ninguno]
  /\ caidas = 0 /\ interrumpido = FALSE

\* The request will set or clear the bits of bs and then write r in node n.
Persistir(c, bs, valor, n, r) ==
  /\ atendido' = c
  /\ pendientes' = bs /\ marcar' = valor
  /\ destino' = n /\ imagen' = r
  /\ UNCHANGED <<nodo, bitmap, pedido, caidas, interrumpido>>

\* The request ends without having written anything.
Responder(c) ==
  /\ pedido' = [pedido EXCEPT ![c] = Ninguno]
  /\ UNCHANGED <<nodo, bitmap, pedVars, caidas, interrumpido>>

\* SYS_MKDIR and SYS_CREATE.  Whether the path exists is not looked at, nor
\* whether its padre was found.
crearNodoDirectorioArchivo(c, camino, estado) ==
  \/ /\ NodosLibres = {} \/ Ultimo(camino) \in NombresLargos
     /\ Responder(c)
  \/ /\ NodosLibres # {} /\ Ultimo(camino) \notin NombresLargos
     /\ Persistir(c, {}, FALSE, Menor(NodosLibres),
                  [NodoVacio EXCEPT
                     !.estado = estado, !.nombre = Ultimo(camino),
                     !.padre = existeArchivo(cortarPathPadre(camino))])

\* MUTANT: the blocks of a deleted file are not freed.
EliminarSinLiberar(c, camino, esDirectorio) ==
  LET n == existeArchivo(camino)
  IN IF n = ERROR \/ (esDirectorio /\ Hijos(n) # {})
     THEN Responder(c)
     ELSE Persistir(c, {}, FALSE, n, NodoVacio)

\* SYS_RMDIR and SYS_UNLINK: the bits first, then the node.
eliminarDirectorioArchivo(c, camino, esDirectorio) ==
  LET n == existeArchivo(camino)
  IN IF n = ERROR \/ (esDirectorio /\ Hijos(n) # {})
     THEN Responder(c)
     ELSE Persistir(c, IF esDirectorio THEN {} ELSE Apunta(n), FALSE,
                    n, NodoVacio)

\* MUTANT: the new path is not looked at.
MoverSinMirar(c, camino, nuevo) ==
  LET n == existeArchivo(camino)
      padreNuevo == existeArchivo(cortarPathPadre(nuevo))
  IN IF \/ n = ERROR \/ padreNuevo = ERROR
        \/ Ultimo(nuevo) \in NombresLargos
     THEN Responder(c)
     ELSE Persistir(c, {}, FALSE, n, [nodo[n] EXCEPT !.nombre = Ultimo(nuevo),
                                                     !.padre = padreNuevo])

\* SYS_MOVE: a node keeps its number, so what is inside it moves with it.
cambiarUbicacion(c, camino, nuevo) ==
  LET n == existeArchivo(camino)
      padreNuevo == existeArchivo(cortarPathPadre(nuevo))
  IN IF \/ n = ERROR \/ Existe(nuevo) \/ padreNuevo = ERROR
        \/ Ultimo(nuevo) \in NombresLargos
     THEN Responder(c)
     ELSE Persistir(c, {}, FALSE, n, [nodo[n] EXCEPT !.nombre = Ultimo(nuevo),
                                                     !.padre = padreNuevo])

\* The server process dies: its writes so far stay, its connections end.  A
\* release that was clearing bits leaves the node that points to them.
Caer ==
  /\ caidas < MaxCaidas
  /\ caidas' = caidas + 1
  /\ interrumpido' = (interrumpido \/ (atendido # Nadie /\ ~marcar
                                         /\ ~ Apunta(destino) \subseteq bitmap))
  /\ pedido' = [c \in Clientes |-> Ninguno]
  /\ atendido' = Nadie /\ pendientes' = {} /\ marcar' = FALSE
  /\ destino' = RAIZ /\ imagen' = NodoVacio
  /\ UNCHANGED <<nodo, bitmap>>

\* More blocks: hayBloquesLibres and quedaEspacioEnArchivo, or nothing changes.
Agrandar(c, n, tamanio) ==
  LET actual == nodo[n].tam
      agregados == actual..tamanio - 1
  IN IF tamanio - actual > Cardinality(Libres) \/ tamanio > MaxPunteros
     THEN Responder(c)
     ELSE \E f \in [agregados -> Libres] :
            /\ \A i, j \in agregados : f[i] = f[j] => i = j
            /\ Persistir(c, {f[i] : i \in agregados}, TRUE, n,
                 [nodo[n] EXCEPT
                    !.tam = tamanio,
                    !.p = [i \in Indices |-> IF i \in agregados THEN f[i]
                                             ELSE nodo[n].p[i]]])

\* MUTANT: the pointers to the freed blocks are not set to NULL.
AchicarSinNulos(c, n, tamanio) ==
  LET quitados == tamanio..nodo[n].tam - 1
  IN Persistir(c, {nodo[n].p[i] : i \in quitados} \ {SinBloque}, FALSE, n,
               [nodo[n] EXCEPT !.tam = tamanio])

\* Fewer blocks, or as many.
Achicar(c, n, tamanio) ==
  LET quitados == tamanio..nodo[n].tam - 1
  IN Persistir(c, {nodo[n].p[i] : i \in quitados} \ {SinBloque}, FALSE, n,
               [nodo[n] EXCEPT
                  !.tam = tamanio,
                  !.p = [i \in Indices |-> IF i \in quitados THEN SinBloque
                                           ELSE nodo[n].p[i]]])

\* SYS_TRUNCATE of a path that does not exist: obtenerNodo(-1) takes the last
\* block of the bitmap for a node.  Its tam_archivo may be ones, and the loop
\* that frees blocks leaves the array and the process dies; or zeros, and the
\* blocks it takes are never given back.
TruncarInexistente(c) ==
  \/ Caer
  \/ \E B \in SUBSET Libres :
       /\ bitmap' = bitmap \cup B
       /\ pedido' = [pedido EXCEPT ![c] = Ninguno]
       /\ UNCHANGED <<nodo, pedVars, caidas, interrumpido>>

cambiarTamanioArchivo(c, camino, tamanio) ==
  LET n == existeArchivo(camino)
  IN \/ n = ERROR /\ TruncarInexistente(c)
     \/ n # ERROR /\ tamanio > nodo[n].tam /\ Agrandar(c, n, tamanio)
     \/ n # ERROR /\ tamanio <= nodo[n].tam /\ Achicar(c, n, tamanio)

\* SYS_WRITE up to block "tamanio": the file only grows.
escribirArchivo(c, camino, tamanio) ==
  LET n == existeArchivo(camino)
  IN \/ (n = ERROR \/ tamanio <= nodo[n].tam) /\ Responder(c)
     \/ n # ERROR /\ tamanio > nodo[n].tam /\ Agrandar(c, n, tamanio)

\* SYS_UTIMES persists the node, whose dates are not modelled.
modificarFechas(c, camino) ==
  LET n == existeArchivo(camino)
  IN IF n = ERROR THEN Responder(c)
     ELSE Persistir(c, {}, FALSE, n, nodo[n])

\* The thread of the client takes m_acceso_fs and runs its request.
Atender(c) ==
  LET r == pedido[c]
  IN /\ atendido = Nadie
     /\ \/ /\ r.op = "mkdir"
           /\ crearNodoDirectorioArchivo(c, r.camino, "DIRECTORIO")
        \/ /\ r.op = "create"
           /\ crearNodoDirectorioArchivo(c, r.camino, "OCUPADO")
        \/ r.op = "rmdir" /\ eliminarDirectorioArchivo(c, r.camino, TRUE)
        \/ r.op = "unlink" /\ eliminarDirectorioArchivo(c, r.camino, FALSE)
        \/ r.op = "move" /\ cambiarUbicacion(c, r.camino, r.nuevo)
        \/ r.op = "truncate" /\ cambiarTamanioArchivo(c, r.camino, r.tam)
        \/ r.op = "write" /\ escribirArchivo(c, r.camino, r.tam)
        \/ r.op = "utimes" /\ modificarFechas(c, r.camino)

\* ocuparBloqueLibreBitmap or desocuparBloqueBitmap, as far as the disk.
persistirBitmap ==
  /\ atendido # Nadie
  /\ \E b \in pendientes :
       /\ bitmap' = IF marcar THEN bitmap \cup {b} ELSE bitmap \ {b}
       /\ pendientes' = pendientes \ {b}
  /\ UNCHANGED <<nodo, atendido, marcar, destino, imagen, pedido, caidas,
                 interrumpido>>

\* The last write of the request; then the mutex is released and the client
\* has its answer.
persistirNodo ==
  /\ atendido # Nadie /\ pendientes = {}
  /\ nodo' = [nodo EXCEPT ![destino] = imagen]
  /\ pedido' = [pedido EXCEPT ![atendido] = Ninguno]
  /\ atendido' = Nadie /\ marcar' = FALSE
  /\ destino' = RAIZ /\ imagen' = NodoVacio
  /\ UNCHANGED <<bitmap, pendientes, caidas, interrumpido>>

(***************************************************************************)
(* The clients.  Before a request the kernel resolves its paths with        *)
(* getattr, which takes m_acceso_fs, and answers by itself the calls that    *)
(* make no sense.  The request comes later, and other clients' in between.  *)
(***************************************************************************)

Pedido(op, camino, nuevo, tam) ==
  [op |-> op, camino |-> camino, nuevo |-> nuevo, tam |-> tam]

Comprueba(r) ==
  CASE r.op \in {"mkdir", "create"} ->
         ~ Existe(r.camino) /\ EsDirectorio(cortarPathPadre(r.camino))
    [] r.op = "rmdir" -> EsDirectorio(r.camino)
    [] r.op \in {"unlink", "truncate", "write"} -> EsArchivo(r.camino)
    [] r.op = "utimes" -> Existe(r.camino)
    [] r.op = "move" ->
         /\ Existe(r.camino) /\ EsDirectorio(cortarPathPadre(r.nuevo))
         /\ ~ Prefijo(r.camino, r.nuevo)

Pedir(c) ==
  /\ pedido[c] = Ninguno /\ atendido = Nadie
  /\ \E op \in Operaciones, camino \in Caminos \ {<<>>} :
     \E nuevo \in IF op = "move" THEN Caminos \ {<<>>} ELSE {<<>>},
        tam \in IF op \in {"truncate", "write"} THEN 0..MaxPunteros + 1 ELSE {0} :
       /\ Comprueba(Pedido(op, camino, nuevo, tam))
       /\ pedido' = [pedido EXCEPT ![c] = Pedido(op, camino, nuevo, tam)]
  /\ UNCHANGED <<nodo, bitmap, pedVars, caidas, interrumpido>>

Next ==
  \/ \E c \in Clientes : Pedir(c) \/ Atender(c)
  \/ persistirBitmap \/ persistirNodo
  \/ Caer

Spec == Init /\ [][Next]_vars

(***************************************************************************)
(* Properties.                                                              *)
(***************************************************************************)

\* The pointers of a node are its first "tam" ones.
SegunTamanio(r) == \A i \in Indices : r.p[i] # SinBloque <=> i < r.tam

\* The disk and the request in progress are well formed; the size of a file
\* says which pointers it has, also in what is about to be persisted.
TypeOK ==
  /\ nodo \in [Nodos -> Nodo]
  /\ \A n \in Nodos : SegunTamanio(nodo[n])
  /\ bitmap \subseteq Bloques
  /\ atendido \in Clientes \cup {Nadie}
  /\ pendientes \subseteq Bloques
  /\ marcar \in BOOLEAN
  /\ destino \in Nodos
  /\ imagen \in Nodo /\ SegunTamanio(imagen)
  /\ pedido \in [Clientes -> Pedidos \cup {Ninguno}]
  /\ caidas \in 0..MaxCaidas
  /\ interrumpido \in BOOLEAN

\* A block is in one place of one file, however requests and deaths of the
\* server alternate, unless one died while it freed blocks: those it had freed
\* are still in their file and are given to the next one that grows.
BloquesExclusivos ==
  ~ interrumpido =>
    \A n, m \in Nodos : \A i, j \in Indices :
      (nodo[n].p[i] = nodo[m].p[j] /\ nodo[n].p[i] # SinBloque)
        => n = m /\ i = j

\* Between requests, the bitmap has every block in use, so no file can lose its
\* blocks to another, with the exception BloquesExclusivos has.
BloquesMarcados ==
  atendido = Nadie /\ ~ interrumpido => Apuntados \subseteq bitmap

\* While the server does not die, and no request comes late, the bitmap has no
\* other block: nothing that a program does makes the disk smaller.
SinPerdidas ==
  atendido = Nadie /\ caidas = 0 => bitmap \subseteq Apuntados

EnUso == {n \in Nodos \ {RAIZ} : nodo[n].estado # "BORRADO"}

\* Two files of one directory never have one name, so a path names one file.
\* The server does not look when it creates one: it relies on FUSE.
NombresUnicos ==
  \A n, m \in EnUso :
    nodo[n].padre = nodo[m].padre /\ nodo[n].nombre = nodo[m].nombre => n = m

\* Nodes at most k directories below the root.
Bajo[k \in Nat] ==
  IF k = 0 THEN {RAIZ}
  ELSE Bajo[k - 1] \cup
       {n \in EnUso : /\ nodo[n].padre \in Bajo[k - 1]
                      /\ nodo[nodo[n].padre].estado = "DIRECTORIO"}

\* Nodes from which at most k steps up leave the nodes in use.
Acaba[k \in Nat] ==
  IF k = 0 THEN Nodos \ EnUso
  ELSE Acaba[k - 1] \cup
       {n \in EnUso : nodo[n].padre = ERROR \/ nodo[n].padre \in Acaba[k - 1]}

\* No directory is below itself, not even when clients rename and delete
\* between the check and the request of others: the server resolves both paths
\* of a rename at once, so no rename cuts a part of the tree off for ever.
SinCiclos == EnUso \subseteq Acaba[CantNodos]

\* The nodes in use are a tree of directories that hangs from the root: no
\* rename closes a cycle and no file stays in a directory that was deleted,
\* where the next one to take that node would find it.
ArbolSano == EnUso \subseteq Bajo[CantNodos]
=============================================================================
