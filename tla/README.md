# LINUSE: specifications, model checking and proofs

LINUSE is a set of small servers in C that give ordinary Linux programs three
services: SUSE schedules their user-level threads (ULTs), MUSE gives them a
paged heap and mapped files, and SAC gives them a file system over FUSE. This
directory holds TLA+ modules that model those servers, TLC runs that check them
on small instances, and TLAPS proofs of their main properties for every
instance.

The scheduler is modelled at two grains, whole handlers and the sections between
two mutexes, and proved at both. Of SAC, the nodes and directories are
modelled, checked and partly proved, with crashes and several mounts, and the
contents of the blocks are modelled and checked. Of MUSE, the frames with swap
and the clock, the heap and the mapped files are modelled and checked.

## 1. The system

### Components, state and operations

| Component | Where | State | Operations |
|---|---|---|---|
| **SUSE**, the scheduler | `src/Planificador/` (`SUSE.c` starts and listens, `planificacionSUSE.c` has the handlers) | per ULT a `t_hilo` (estado, estimadoActual); `tabla_new`, `cant_programas`, `sem_values`, `sem_blocked`, `tabla_lock`; per program its `tablaReady`, a `sem_t` that counts it, `joins`, `cant_hilos`, `sem_retenidos`, `estProg` | INIT, CREATE_HILO, SCHEDULE_NEXT, JOIN, WAIT, SIGNAL, CLOSE, the end of a connection |
| **hilolay**, the client library of ULTs | `src/hilolay/`, `src/linuse-tests-programs/hilolay_alumnos.c` | `current_ult`, the TCB table | init, create, yield, join, wait, signal, return, the wrapper that closes a ULT |
| **MUSE**, paged memory | `src/Memoria/MUSE.c` | frames, swap file and its bitmap, the clock list, per process its segments and pages, the table of mapped files | alloc, free, get, copy, map, sync, unmap, close; swap and the clock inside them |
| **libMuse** | `src/libMuse/libmuse.c` | a socket | one message and one answer per call |
| **SAC server**, the file system | `src/FileSystem/SACServer/` | on disk: header, bitmap, 1024 nodes, data blocks | create, delete, read, write, truncate, rename, list, attributes, format |
| **SAC client** | `src/FileSystem/SACCli/` | a socket | the FUSE callbacks |
| Test programs | `src/linuse-tests-programs/` | their scripts | ULTs that wait, signal and yield |
| Metrics of SUSE | `planificacionSUSE.c` (`printefearMetricas`), a thread in `SUSE.c` | none of its own | read under the mutexes of the scheduler, at each CLOSE and every few seconds |
| Libraries, drafts | `src/libs/`, `DESCARTADOS/` | none of interest | I/O, logs |

### How they interact

A program linked with hilolay opens one TCP connection to SUSE, and SUSE starts
one thread for it, which runs `atenderPrograma`: read a request, run its
handler, answer if the request has an answer, read again. Exactly one thread of
the program runs at a time (its main thread or one ULT); every blocking call of
hilolay ends in `hilolay_yield`, which sends SCHEDULE_NEXT and switches to the
ULT named by the answer. The server threads of different programs share the
queue of new ULTs, the count of admitted ULTs and the semaphores: a signal of
one program makes ready a ULT of another, whose server thread may be asleep in
`sem_wait` until then.

MUSE has the same shape, one thread per process, over shared frames and swap.
SAC has one thread per client and one mutex around most operations on the disk.

### What is hard

- *Concurrency*: the queues and counters of SUSE change in handlers run by many
  threads; each must count exactly what another relies on (`sem_t` and ready
  list, semaphore value and waiters, `cant_programas` and admitted ULTs,
  `cant_hilos` and the turn of main). In MUSE, a victim page is chosen under one
  mutex and moved under others.
- *Failure*: a program may die at any moment, running, asleep in a yield or with
  ULTs queued on a semaphore; the server then gives its units back. A death of
  the SAC server leaves whatever was last written. With several mounts, what the
  kernel checked before a request may no longer hold when the request comes.
- *Ordering and boundaries*: decrement-then-test of semaphore values, maxima,
  the admission loop, 5-byte headers in the heap of MUSE, block boundaries in
  SAC.

`PROJECT.json` lists these hazards with the line where each bites and the
properties that cover it, and says which have none yet.

### What makes each component correct

- *SUSE*: a ULT is in one queue, the one of its estado; counters count; no
  admission above MAX_MULTIPROG and no needless wait in NEW; semaphores neither
  lose, forge nor double a unit and are FIFO; shortest job first; main resumes
  from its joins only when its ULTs have ended; programs that can end do.
- *MUSE*: a frame belongs to one page; a present page is in its frame and an
  absent one in its swap slot; the last value written is the one read; heap
  headers tile a segment; a mapped file is shared while somebody maps it.
- *SAC*: a block belongs to at most one file and is marked; names are unique in
  a directory; directories form a tree; what is read is what was written; a
  crash loses space at most.

## 2. The modules

| Module | Models | Kind |
|---|---|---|
| `SUSE` | the server's handlers and the hilolay client | the component: state, actions, properties |
| `SemaforosFIFO` | what a semaphore promises its callers | abstract specification |
| `SUSESemaforos` | `SUSE` mapped onto `SemaforosFIFO` | refinement |
| `SUSEUso` | threads that use the semaphores as locks | environment with history variables |
| `SUSEGuiones` | programs that follow a script | environment with fairness |
| `MCSUSE`, `MCSUSESemaforos`, `MCSUSEUso`, `MCSUSEGuiones` | values for the constants | model checking |
| `SACNodos` | the node table and bitmap of SAC, the requests as the writes they make, the mounts | the component: state, actions, properties |
| `SACArbol` | a tree of files that each call changes at once or not at all | abstract specification |
| `SACNodosArbol` | `SACNodos` mapped onto `SACArbol` | refinement |
| `MCSACNodos` | symmetries | model checking |
| `SACNodos_proofs` | theorems about `SACNodos` | proofs |
| `MUSEMarcos` | the frames, the swap file and the clock of MUSE, and the requests that use them | the component: state, actions, properties |
| `MCMUSEMarcos` | bounds on pages | model checking |
| `MUSEMarcos_proofs` | theorems about `MUSEMarcos` | proofs |
| `SUSECerrojos` | the handlers of SUSE cut at their mutexes, and the thread of the metrics | the component again, at a finer grain |
| `SACBloques` | the bytes of the blocks: read, write, change of size | the component: state, actions, properties |
| `SACArchivo` | files of bytes, each its own | abstract specification; `SACBloques` refines it |
| `MUSEHeap` | the headers of a heap segment, `bloquesLibres` | the component: state, actions, properties |
| `MUSEMapas` | mapped files, shared or private, and the access to their pages | the component: state, actions, properties |
| `MCSUSECerrojos`, `MCSACBloques`, `MCMUSEHeap`, `MCMUSEMapas` | values for the constants, symmetries | model checking |
| `SUSE_proofs`, `SUSEUso_proofs` | theorems about `SUSE` and `SUSESemaforos`, then about `SUSEUso`; the second extends the first | proofs |
| `SUSECerrojos_proofs` | theorems about `SUSECerrojos`: the mutexes, then the counters | proofs |
| `SACBloques_proofs` | theorems about `SACBloques`, with its refinement | proofs |
| `MUSEHeap_proofs` | theorems about `MUSEHeap` | proofs |
| `MUSEMapas_proofs` | theorems about `MUSEMapas` | proofs |

### State of SUSE

The variables of `SUSE` have the names of the C variables. Where they differ:

- `nodo` is the copy of the estimate in the `t_new` or `t_block` that queues a
  ULT, which is what `next_hilo` compares; `estimado` is the one in the `t_hilo`.
- `tablaReady[p]` is a set: `list_sort` before every removal makes the order of
  arrival irrelevant, and `Despachar` picks any ULT of least estimate (the sort
  of the library does not promise an order among equals).
- `tabla_exit` is the set of ULTs whose `estado` is EXIT.
- `tabla_lock` is only searched and trimmed: it is the number of entries per ULT.
- `cont[p]` is the `sem_t` of the program, `joins[p][h]` the number of records
  of tid `h` in its join list, `retenidos[p][s]` the `cantidad` it keeps.
- `atiende[p]` says where its server thread is, `cliente[p]` and `actual[p]`
  what its process is doing and which thread of it runs, `pendiente[p]` that
  main has created ULTs and not joined since.
- `vivo` is FALSE once the server has crashed.

### Actions of SUSE

One request of a program and the whole handler the server runs for it are one
action. That is sound for what is observed: requests without an answer travel in
order on one connection, the program acts again only on an answer, and the
handler's effects on other programs are seen through the shared variables.
SCHEDULE_NEXT is two actions, `PedirSiguiente` and `Despachar`, because the
handler sleeps in `sem_wait` between them and everything else may happen
meanwhile. What this does not show is the interleaving *inside* two handlers,
that is, which mutex protects which list: that is `SUSECerrojos`.

| Action | Code |
|---|---|
| `Conectar` | `hilolay_init`; `aceptarClientes` and the CREATE_HILO of the main thread |
| `Crear` | `hilolay_create`; `create_hilo`, then the long-term planner |
| `PedirSiguiente` | `hilolay_yield`; SCHEDULE_NEXT up to `sem_wait` or to the answer for main |
| `Despachar` | SCHEDULE_NEXT from `sem_wait` on; `next_hilo` |
| `Unir` | `hilolay_join`; `join_hilo` |
| `CerrarHilo` | the end of a ULT's function; `close_hilo`, then the planner |
| `Esperar`, `Senalar` | `hilolay_wait`, `hilolay_signal`; `wait_hilo`, `signal_hilo` |
| `RetornarMain`, `RetornarMainRechazado` | the end of main; `close_hilo` for the program, accepted or refused because of its joins |
| `Morir`, `Desconectar` | the process dies; the server notices (`recv` returns 0) and closes the program as killed |

A call of hilolay that yields leaves `cliente[p] = "cede"`: the yield is a
second request, and other programs run between the two.

Two kinds of undefined behaviour are in the model. A NULL that the code
dereferences (`next_hilo` of an empty list, the pop of an empty semaphore queue)
takes the server down: `vivo` becomes FALSE. A write to the list of a program
that has ended, which is freed memory, may go unnoticed or take the server down:
`TrasTocar` is the choice between both. Nothing happens once `vivo` is FALSE.

Also as in the code: a blocked ULT keeps its slot of MAX_MULTIPROG; the planner
runs after a creation and after a CLOSE, but not after a program has been
finished, and the slots of a dead program are never given back; a signal at the
maximum is dropped; `MAIN_THREAD_ID` is no `t_hilo`, so a wait of main without
units decrements the value and queues nobody; the end of a program gives back at
most one unit of each semaphore; a program's end does not close its socket, so a
program's id (its descriptor) is not used again.

Definitions whose comment starts with `MUTANT` are wrong versions of the
definition that follows them. Nothing uses them: each run is repeated with one
put in place of the right one, to see that a property rejects it.

### Environments of SUSE

`SUSE` alone lets a running thread make any call, wait without ever signalling
and signal what it never waited for. `SUSEUso` restricts it to threads that use
the semaphores as locks, and records with history variables who was given a
unit (`tiene`), how many units must be given back before the turn of a thread
that waited (`turno`) and who is inside `hilolay_join` (`enJoin`). `SUSEGuiones`
makes programs follow scripts, and adds fairness.

### SUSECerrojos

The same handlers, cut wherever they lock or unlock, or are inside a list that
other threads use. `donde[t]` is the place of a thread, named after the function
or the mutex, `lleva[t]` the ULT it is moving and `duenio` the owner of each of
`multi` (the mutex of the planner), `wt` (WAIT and SIGNAL), `sem_lock` and
`sem_new`, and of the one of each program. Its threads are one per program and
the one of the metrics, which also run inside every CLOSE. A section that
takes a mutex, touches nothing that is modelled and lets go is one step.

The places include those where a handler waits for its client with mutexes in
its hands, `recibe_nombre` (SIGNAL receives the name of the semaphore with `wt`
and `sem_lock`, `planificacionSUSE.c:212`) and `responde` (WAIT sends its answer
with `wt`, `:201`), and those inside lists that have no mutex: `agrega_hijo`
(`hijos`, `:358`), `conecta` (`tabla_programas`, `lista_semaforos` and
`lista_sem_programas`, `SUSE.c:345`-360), and the searches of them, gathered in
`Dentro`. A program is `fuera` until it connects.

| Action | Code |
|---|---|
| `Conectar`, `Conectado` | `aceptarClientes`, one thread for all clients: the new program enters the tables, and its thread starts |
| `PedirCrear`, `AgregarHijo`, `create_hilo` | `create_hilo`: up to `hijos`, in it, and in the list of new ULTs |
| `Planificar`, `planificadorLargo`, `PostNew` | the long-term planner, under `multi` |
| `Agrega`, `Agregado` | adding to a ready list under the program's mutex, then its `sem_post`, for the planner, a yield, a signal and the end of a program alike |
| `PedirSiguiente`, `PostExec`, `SemWait`, `next_hilo` | SCHEDULE_NEXT |
| `PedirWait`, `wait_hilo`, `Bloquear`, `AgregarLock`, `bloquearEnSemaforo`, `Responder` | `wait_hilo`, the blocking of a ULT and the answer |
| `PedirSignal`, `TomarLock`, `RecibirNombre`, `signal_hilo`, `PostBlock`, `FinSignal` | the two mutexes, the name from the client, `signal_hilo` |
| `PedirClose`, `close_hilo`, `CerrarMain`, `Finalizar`, `Liberar`, `PostFin` | CLOSE of a ULT and of a program, with the units given back |
| `Despertar`, `printefearMetricas` | the thread of the metrics, and what it and a CLOSE lock to read |

Two threads that change one list at once are a data race (`Carrera`): nothing
can be said of what it leaves, so the model stops in such a state, as it does
after a NULL (`perdido`). The properties are about every state up to there, and
one of them says where "there" can be. `hijos` and the tables of programs are
different: they only grow, and each by the hand of one thread, so that what
meets is an addition and a search (`Agranda`). That too is a data race, and
`CarrerasConocidas` says where it happens; the model goes on, with a search that
finds what was there before. With one semaphore and no joins the model holds
what the mutexes are about; estimates, joins and deaths are in `SUSE`. The other
waits of a thread for its client come with no mutex held: that of
`aceptarClientes` for the first message of a new client (`SUSE.c:322`) delays
the clients behind it and nobody else.

### SAC: state

`nodo` and `bitmap` are the disk: the node table and the bits of the data
blocks. A node's `tam` counts blocks, so `p` has its first `tam` pointers.
`atendido` is the mount whose request holds `m_acceso_fs`; `pendientes`,
`marcar`, `destino` and `imagen` are what that request has still to write.
`pedido[c]` is the request a mount has sent. `caidas` and `interrumpido` are
history: how often the server died, and whether it died between clearing the bit
of a block and writing the node that no longer has it.

### SAC: actions

Every handler has the same shape: under the mutex it reads what it needs, writes
the bitmap once per block, always in the same direction, and persists at most
one node, last. Nothing else changes what it read, so a handler is one
`Atender(c)`, which decides by the code's conditions what will be written, and
then the writes: `persistirBitmap` once per block, `persistirNodo` at the end.
`Caer` may happen between any two.

| Action | Code |
|---|---|
| `Pedir` | a FUSE callback sends its request, after `Comprueba`: the kernel has resolved the paths with `fuse_getattr` and answered by itself what makes no sense |
| `Atender` | the cases of `atenderCliente`, up to the first write; one operator per handler, under its name |
| `persistirBitmap` | `ocuparBloqueLibreBitmap`, `desocuparBloqueBitmap` as far as the disk |
| `persistirNodo` | the write of a node, the release of the mutex, the answer |
| `Caer` | the server process dies and is started again on the same disk, without formatting |

- A death is that of the process: what `fclose` has given to the kernel stays. A
  loss of power, where the kernel's order of writes matters, is not modelled.
- A node is one 4096-byte write: stdio gathers the fields and `fclose` flushes
  them. That needs the 32-bit build, the one the repository's binaries have;
  with a 64-bit `struct timespec` a node would not fit its block.
- First-fit of blocks is any free block, and the bits are written in any order:
  no property depends on it. The node chosen is the first free one, as
  `buscarNodoLibre` does, and the last of the table is never chosen.
- A mount runs with `-s` (one thread, as in `main` of SACCLI.c), so it has one
  request at a time.
- Also as in the code: creation does not look whether the path exists, nor
  whether its directory was found; `rmdir` counts the nodes that name the
  directory as padre whatever their estado; a truncate of a path that is gone
  works on the last block of the bitmap, by which the server dies or loses
  blocks.

Definitions whose comment starts with `MUTANT` are used here as in SUSE.

### SACBloques

`nodo` has the size in bytes and the pointers of each file, `dato` the bytes of
each block, `escritura` the write under way, `respuesta` what the last request
answered. A file is its node, whatever its path, and a change of size is one
step, as `SACNodos` has the writes of bits and nodes one by one.

| Action | Code |
|---|---|
| `Crear`, `Borrar` | a node with no blocks; its blocks are free again |
| `Truncar` | `cambiarTamanioArchivo`: blocks added (`Agregar`, one at a time, until there are none left: `SinLugar`) or taken |
| `Leer` | `leerArchivo`: first block, blocks in between, last block, and the filling with zeros of what was asked beyond the end |
| `AceptarEscritura`, `RechazarEscritura` | the start of `escribirArchivo`: the file grows first, or the write is refused |
| `escribirBloqueDatos` | one block of the write: its own `fopen`, `fwrite` and `fclose` |
| `Caer` | the server dies, also between two blocks, and is started again |

- A read asks for whole pages, which are as long as a block; a write is inside
  one page (`MaxPaginas = 1`), since SACCLI mounts without `big_writes`.
- As in the code, a block is not cleared when it is taken: where a file grows
  without being written it has the bytes of whoever had the block before.
  `SACArchivo` therefore promises nothing of such bytes.

### MUSE: frames, state

`bitmap_marcos`, `bitmap_swap`, `clock` (`tabla_clock`), `paginas_usadas` and
`procesos` are the globals of MUSE.c; `paginas[p]` is the page table of the one
segment of a process, with the frame of each page and its bit `p`, and
`listado[p]` whether the segment is in `proceso->segmentos`, where swap looks
for its victim. `cola[p]` tells whether the last page ends in a free header, the
only thing of the heap that decides what a growth does. `pedido[p]` is the
request the thread of `p` attends and where it is.

What a page holds is abstracted to who copied to it last and which copy it was;
`memoria` and `espacio` are the contents of the frames. What is left in a frame
or in a clock entry that belongs to no page is not told apart from nothing: the
code overwrites it before it looks at it. `escrito` and `vaciadas` are history:
what each process copied last to each page, and the pages a growth has zeroed.

### MUSE: frames, actions

| Action | Code |
|---|---|
| `Saludar` | the SALUDO: the process enters `tabla_procesos` |
| `Reservar`, `ReservarEnCola` | a `muse_alloc` that needs new pages, up to `crearPaginas`; one that fits in the tail |
| `ReusarUltima`, `PaginaNueva` | one iteration of `crearPaginas`: the page the tail was in, or one more page |
| `Acceder`, `Buscar` | `muse_cpy` and `muse_get`; `buscar_segmento_pagina` for each page, with the `swap` it may need |
| `Escribir`, `Leer`, `EscribirHeader` | the access to the page found: `copiarMuse`, `getMuse`, `actualizar_header` |
| `Cerrar`, `QuitarPagina`, `LiberarBit`, `RemoverClock`, `Salir` | `liberarTodo`, one update at a time: the segment leaves the list, a page leaves the table, its bit and its clock entry are given back, the process leaves |
| `Caer` | a NULL or an index out of range is used: the server dies |

- A call of `swap` is one step. The threads of different processes interleave
  between steps if `Solapan`; with `Solapan = FALSE` one request ends before the
  next begins.
- `Victima` is the search at the start of `swap`: the passes over `u` and `m`, with the bits they
  clear. The pointer bits of all the entries but the first are not initialised
  by the code, so `Init` allows any.
- A page in swap that comes back leaves its frame before the victim takes one,
  and the copy of its content is taken before that.
- `Caer` covers: the victim's page not found because its segment is not listed
  yet, both bitmaps full, and a frame of swap used as one of memory.

### MUSEHeap

`paginas` has, of each page of the segment, `esFinPag`, `tamanio_header` and
`ultimo_header`, the fields that say where its last header is. `escrito` gives
by position the headers that were written and that nothing has overwritten, and
the bytes `#` of what is wasted; so a read of a header finds one, or something
else. `bloquesLibres` is the list of the code; `otorgados` is history: what the
process was given and has not freed.

| Action | Code |
|---|---|
| `mallocDeLista` | `mallocMuse` with a block of `bloquesLibres` that fits; `actualizar_header` in its four cases: `TomarTodo`, `TomarConCola`, `TomarYDesperdiciar`, `TomarHastaOtra`, and `TomarSinPagina` when the page they need is not there |
| `mallocDeUltimo` | ... with the last free header of the segment |
| `mallocConPaginas` | ... with new pages: `crearPaginas`, at the end (`CrearAlFinal`), from the last header to the end of the new pages (`CrearDesdeUltimo`), or, when that header says less than its page has, inside that page and with a new one besides (`CrearEnUltimo`, `MUSE.c:2160`) |
| `mallocRechazado` | `muse_alloc` raises SIGSEGV: the process ends |
| `freeMuse` | `muse_free`: what follows the block is looked at, and joined if it is free; the segment goes if it is all free |
| `copiarMuse` | the process fills what it was given |
| `liberarTodo` | the end of the process |

Each is a whole request: one thread serves the process and its heap is nobody
else's. Sizes are unsigned, so a subtraction below zero wraps around (`U32`, in a
word that is narrower than 32 bits and wider than any address).

Two things end what can be said. `perdido`: something that is no header was read
as one, or a NULL. `torcido`: a branch computed a size that is not that of its
block: `actualizar_header` or `freeMuse` on a block that crosses into another
page, where `head1->size -= ...` (`MUSE.c:1095`) is written for `=`; a `free`
whose next page does not exist, which leaves the block in no list; and a `free`
that joins its block to a "last header" that is not the last (`Tuerce`). This
one comes from `actualizar_header`, too: where it wastes the end of a page it
calls `desperdicio(sobrante, puntero, pag, posicion)` with a `posicion` from
which 5 was subtracted (`MUSE.c:1382`), so `ultimo_header` is where the block's
own header *begins*. If what is before it is a free block without bytes, which
ends just there, its header is found at `ultimo_header` by the comparison of
`MUSE.c:1059`, and a later `free` takes it for the end of the segment: what comes
after is given again. With `Sigue` the process goes on after any of these, which
is what `pisa` needs; without it, the properties are about all that comes before.

As in the code, and visible in the model: a block that exactly fills the segment
is freed into no list; a tail too small for a header and for the page it is in
is wasted for as long as the segment lasts; the loop that gives back the pages
of a joined tail removes by a growing index, so that it is right for one page
only; a refused `muse_alloc` that had begun to create pages leaves `esFinPag` clear, which does
not matter because the client then dies.

### MUSEMapas

`paginas` is indexed by the list a page is in: that of a shared file, which every
process that maps it points to, or that of a private mapping. `fantasma` is the
list of segments of MUSE's own process, where swap finds shared pages;
`tabla_archivos` and `mapeado` are the table of mapped files and who has each.
`disco` is the contents of the files, in pages. `esperado`, `cerrados`,
`abandonados` and `perdidas` are history: what a page must have, the files whose
pages were given back, those that at some moment nobody had mapped any more, the
pages that files that did not open have cost.

| Action | Code |
|---|---|
| `muse_map`, `muse_sync`, `muse_unmap`, `muse_close` | a process sends a request |
| `Rechazar`, `NoAbre`, `Compartir`, `crearPaginasmapeadas` | `mappearMuse`, under `sem_mapeo`: no room, `open` fails, the file is in the table already, new pages read from the file |
| `fopenSync`, `syncMuse` | `syncMuse`: the file is emptied, then each page is brought and written to it |
| `getMuse`, `copiarMuse` | one page read, or written, with the swap that brings it |
| `DesligarPrivado` | `unmapMuse` of a private file, from a DESMAP with `sem_mapeo`, or from the end of the process without it |
| `Desligar`, `RevisarUsuarios`, `EliminarFantasma` | `unmapMuse` of a shared file, likewise: the process leaves it (`MUSE.c:1588`-1626), asks whether somebody has it (1628), and if nobody does gives its pages back (1637-1656); a DESMAP keeps `sem_mapeo` from the first to the last (`DejarElSem`), the end of a process does all three without it |

- Any page in memory may be the victim of a swap; which one, is the matter of
  `MUSEMarcos`.
- A MAPEAR is one step, under `sem_mapeo`; what the end of a process may come
  in the middle of is the three steps above, its own or those of another end.
- `Caer` is a victim or a page that is not found: a NULL is dereferenced.
- That `vaciarSegmento` frees the entries of the free list twice
  (`MUSE.c:687`-694) is not in the model, which has no heap.
- As in the code: a file stays in `tabla_archivos` after its pages have gone,
  and whoever maps it again gets what is left of its list; the loop that gives
  the pages back removes by a growing index and skips every second one
  (`MUSE.c:1649`); the pages are counted before `open` and not given back when
  it fails; the first page of an empty file is not cleared; what goes is the
  first segment 0 of the fantasma, whichever file is its own.
- One mapping per process, at base 0 and of the same length in all: a mapping
  elsewhere is found by its distance to base 0 and crashes, and a second
  segment of the fantasma gets the number of the first.

## 3. What TLC checks

Twelve runs: five of SUSE, two of SAC and five of MUSE. `Estimados`, `Rafagas` and
`Recalcular` stand for the doubles of the SJF average: the halves are cut to
integers (`ALPHA_SJF = 0.5`), which keeps what the properties see, an order that
changes with each burst.

| Run | Instance | Properties |
|---|---|---|
| `planificacion` | 2 programs × 2 ULTs, 1 semaphore of one unit, 3 slots, up to 2 join records per tid; one program may die at any moment or return without joining | `TypeOK`, `CuposExactos`, `AdmisionAlDia`, `JoinDeMain`, `UnSoloLugar`, `ContadorExacto`, `SemaforoExacto`, `TransicionesLegales`, `SemaforosCorrectos` |
| `uso` | threads that use the semaphore as a lock; one program may die, also while it holds it | `UnidadesExactas`, `EsperaBloquea` |
| `guiones` | three pairs of the test programs, six semaphores, more signals than one of them holds, a program that dies of a fault, weak fairness | `NuncaCae`, `TerminanSiNoSobra`, `MasCortoPrimero` |
| `cerrojos` | 2 programs of 4 and 1 ULTs, the metrics, 3 slots, a semaphore of one unit | `SinAbrazo`, `CarrerasConocidas`, `CuentasEnOrden`, `CaeSoloSiLibera` |
| `muere_esperando` | as `uso`, and the program may also die while it waits | `ExclusionMutua` is **violated** |
| `disco` | one mount, all requests; 5 nodes, 2 blocks, files of up to 2 blocks, 3 names of which one is too long, paths of up to 2 names, one death | `TypeOK`, `BloquesExclusivos`, `BloquesMarcados`, `SinPerdidas`, `ArbolSano`, `ArbolCorrecto` |
| `bloques` | 2 files, 3 blocks of 2 bytes, files of up to 3 blocks, any number of deaths | `TypeOK`, `LeeSalvoElUltimo`, `ArchivosCorrectos` |
| `marcos` | two processes, one request at a time; 2 frames, 2 of swap, segments of up to 4 and 1 pages, growths of 0, 1 or 2 pages | `TypeOK`, `MarcosDeUno`, `ClockAlDia`, `ContenidoIntacto`, `CaeSoloSiNoEntra` |
| `solapan` | two processes whose requests overlap, 1 frame and 1 of swap | `LeeLoCopiado` is **violated** |
| `mapas` | two processes that unmap their file or end with it, private or shared; a file of one page and one that does not open, mappings of 2 pages, 1 frame and 3 of swap | `TypeOK`, `MarcosDeUno`, `ContenidoIntacto`, `CaeSoloTrasCerrar`, `UsoSinPausa` |
| `monton` | pages of 12 bytes, 3 of them, blocks of 1, 4 and 19 bytes | `TypeOK`, `SinSolape`, `NoSePierde` |
| `pisa` | pages of 16 bytes, 2 of them, blocks of 1 and 4 bytes, going on after a wrong size | `OtorgadosDisjuntos` is **violated** |

What each shows:

- **`planificacion`**. The counts that handlers rely on are exact:
  `cant_programas` is the number of admitted ULTs and never passes the maximum;
  nobody waits in NEW beside a free slot; main has its turn back from its joins
  only when its ULTs have ended, although `join_hilo` blocks nobody and the
  server keeps no record that main waits. Deaths at any point, asleep or queued,
  leave every ULT in the queue of its estado, once; the `sem_t` of a running
  program equals its ready list, so `sem_wait` neither lets `next_hilo` find it
  empty nor leaves a ready ULT asleep; a negative value counts the waiters. ULTs
  follow the five-state diagram. `SemaforosCorrectos` is the refinement: every
  step of the server is, on each semaphore, a take, a queueing at the tail, a
  release, the waking of the head, or nothing.
- **`uso`**. Units available plus units held is constant: none is lost, none
  given twice, also when a program dies that holds one. A thread that had to
  wait runs again only when as many units came back as its turn required.
- **`guiones`**. The scripts of *caballeros_de_SisOp_Solo* with
  *caballeros_de_SisOp_Afinador*, of *estres_compartido* with
  *revolucion_compartida*, and of two programs like *audiencia*, with the
  semaphores of `configs/SUSE.config`. The ULT dispatched has the least current
  estimate although `next_hilo` compares copies, and no NULL is reached. All
  end, but for the guitarists of the first pair when the tuner, which waits for
  nobody, gets ahead of them by more than the maximum of `afinado`: its signals
  are then dropped (`planificacionSUSE.c:596`) and that many waits are never
  answered, there with 420 tunings and a maximum of 10, here with 4 and 2.
  `TerminanSiNoSobra` says that this is the only way not to end: who is left
  is a ULT blocked on a semaphore that dropped a unit for each of its waiters,
  and all the other ULTs have ended. The loops of this pair are shortened, and
  those of the second are whole; *revolucion_compartida* goes as far as its
  `muse_get` beyond the file, which raises SIGSEGV (`libmuse.c:279`-284), and
  *estres_compartido* ends all the same.
- **`cerrojos`**. The mutexes are never taken in a circle. Two handlers wait for
  their own client with a mutex held: SIGNAL keeps `wt` and `sem_lock` until the
  name of the semaphore comes, WAIT keeps `wt` until its answer is sent. A client
  that is silent there stops every WAIT, SIGNAL and metric of the server; but
  nobody wants `wt` with another mutex in its hands, so it stops nothing else: the
  planner, `next_hilo` and the creations of others go on. No other wait for a
  client, for a `sem_t` or for the clock is made with a mutex held. Two threads
  change one list at once in three places only: `create_hilo` adds to `tabla_new` under `sem_new` while the
  planner takes from it under `multi`; `next_hilo` sorts and takes from its ready
  list under no mutex, while others add to it; the end of a program gives its
  units back without `wt`. The lists without a mutex are added to while they are
  searched: `hijos` of a program that creates a ULT, by the metrics and by a
  planner, a SIGNAL or the end of a program that makes ready a ULT of it; the
  three tables of programs, while a client connects, by whoever looks in them.
  Until one of the first three happens, `sem_t` and ready list,
  value and queue, `cant_programas` and slots agree whenever their mutex is
  free, and `next_hilo` finds a ULT. The one way to a NULL is a program that
  ends while another is, in `wait_hilo`, between the value it has made negative
  and the queue it has yet to enter: the release finds the negative value and
  pops an empty queue.
- **`disco`**. With one mount, whose checks cannot go stale, the disk stays
  right through every sequence of calls and a death at any point: no block is in
  two files, used blocks are marked, no call leaks blocks, the directories are a
  tree. A death may leak marked blocks and, in the one window
  that `interrumpido` marks, leaves a file with blocks that are free: the
  properties on blocks say nothing from then on, and `ArbolCorrecto` still
  holds, since it is about names and sizes. `ArbolCorrecto` is the refinement:
  every step is a creation, a deletion, a rename of a whole subtree or a change
  of size of `SACArbol`, or nothing.
- **`bloques`**. Through any growths, cuts, deletions and writes at any offset,
  the blocks of the nodes mean separate files of bytes: no request touches a
  byte of another file or outside what it names, a write that was answered is in
  its file whole, and one cut by a death has changed nothing else. A read
  answers exactly the bytes there are, but for one: when it spans several blocks
  and passes the end of the file, the filling with zeros starts one byte early
  (`FinLeido`) and the last byte of the file is read as zero.
- **`marcos`**. Through every sequence of growths, copies, reads, evictions and
  closes, two pages never have a frame in common, no frame is lost, the clock
  names the page of every frame in use, and what was copied to a page is in the
  frame its table names, but for the pages that a growth zeroes. The count of
  pages granted, which `MarcosDeUno` ties to the pages there are and will be,
  keeps `crearPaginas` from finding both bitmaps full. All of it is also proved,
  for any number of pages and frames. The server
  dies in one situation only: a first `muse_alloc` that needs more than memory
  holds makes the clock choose a page of the segment being made, which is in no
  list.

- **`mapas`**. What one process writes in a page of a shared file, all that map
  it read, through swap and through a sync that runs while others write; a
  private mapping is its process's alone; a frame is of one page however many
  processes have it, and is counted once; and as long as
  a shared file has been in use without a break, whoever has it has all its
  pages, however the others unmap it or end. That is not so of a process that
  maps a file while the last one to have had it is ending (below,
  `MCMUSEMapas_termina.cfg`). The server falls in one situation only: after the
  pages of a file were given back once, when its leftover list is used, or after
  a file that did not open.
- **`monton`**. While every size has been computed right, no byte is given
  twice, neither to two blocks nor to a block and what `mallocMuse` may still
  give; what was given is inside the pages of the segment, which are the ones
  `paginas_usadas` counts; and headers are read where headers are, but for
  blocks that go from a page to the next. The first is also proved, for any
  sizes.

The three violations are disagreements between the code and its own documents:

- **`muere_esperando`**. `retenidos` is raised by every wait, those that block
  included. A program that dies while its ULT waits for a lock is therefore
  credited with a unit it never got, and giving it back lets a second thread
  hold the lock. The comment at `planificacionSUSE.c:103` says that the end
  takes what the program has reserved.
- **`solapan`**. A page found present by one thread may be the victim of another
  before it is read, and the frame is then the other's. The mutex of the frame
  covers the read, not the search before it.
- **`pisa`**. A free block that crosses into the next page is taken for a smaller
  one: `actualizar_header` subtracts from its size what it should assign, the
  unsigned size wraps around, and the next `muse_alloc` is given bytes of a block
  in use. `libmuse.h` says that `muse_alloc` reserves memory for the caller.

More configurations are kept beside these, for questions of their own; each is
run with `tlc -config <cfg> <module>`:

| Configuration | What TLC answers |
|---|---|
| `MCSUSEUso_dos_unidades.cfg` | `UnidadesExactas` is violated by a program of two ULTs that dies while each holds a unit of one semaphore: `planificacionSUSE.c:105` raises the value once if `cantidad` is above zero, whatever it is, and the other unit is lost to everybody, although the comment at `:103` says that the end takes what the program has reserved |
| `MCSUSEUso_join_hilo.cfg` | `JoinBloquea` is violated: `join_hilo` adds the tid to the program's list and blocks nobody, so a ULT that joins another goes on at its next turn, while `hilolay/README.md:36` says that it must stay blocked |
| `MCSACNodos_dos_clientes.cfg` | two mounts whose checks go stale: `BloquesExclusivos`, `BloquesMarcados` and `SinCiclos` hold (the first two are proved for any mounts) |
| `MCSACNodos_crean.cfg` | `NombresUnicos` is violated: creation relies on the getattr before it (the comment at `SACServer.c:279`), but they are separate requests, and two mounts that create one path make two nodes |
| `MCSACBloques_dos_paginas.cfg` | `ArchivosCorrectos` is violated by a write of two blocks that fills the second: `(offset + tamanio) % TAM_BLOQUE` is 0, so of the last block nothing is written. No mount sends such a write; `EscribeTodo` fails with it, too |
| `MCMUSEMarcos_extiende.cfg` | `LeeLoCopiado` is violated: a `muse_alloc` that extends a segment brings its last page from swap as if it were new, and with no free frame fills it with zeros |
| `MCMUSEMarcos_llenos.cfg` | `MarcosDeUno` is violated when requests overlap: `liberarTodo` counts a page out (`MUSE.c:2538`) before it clears its bit (`:2541`), so a `muse_alloc` of another process is granted a page while both bitmaps are full. Its part `MarcosJustos` holds, and is proved |
| `MCMUSEMapas_remapea.cfg` | `MapeadoTienePaginas` is violated: a file unmapped by all and mapped again has the pages left of its list, which is not what `libmuse.h:120` promises |
| `MCMUSEMapas_termina.cfg` | `CierraSinUsuarios` is violated: `liberarTodo` unmaps at the end of a process without `sem_mapeo` (`MUSE.c:2548`), so another process may map the file between the check that nobody has it (`:1628`) and the return of its pages, which are then taken from under it. *revolucion_compartida* ends so, with *estres_compartido* mapping the same file; the note at `libmuse.h:148` says that the file is closed only when all have unmapped it |
| `MCMUSEMapas_dos_archivos.cfg` | `MarcosDeUno` is violated once two files are mapped MAP_SHARED: `MUSE.c:1784` numbers the segment of the file in the list of shared files after the last segment of the process that maps it, both files are number 0 there, and `swap`, which looks for its victim by number, marks absent a page of the other file |

With other values: `mapas` passes with three processes, in some 6.7 million
states; `LeeElArchivo` fails in
`bloques` by the last byte described above; `EscribeTodo` holds in `bloques` and
fails with `MaxPaginas = 2`.

### Bounds, and why they are enough

- *Two programs of two ULTs* are the least with a ULT ready while another runs,
  a waiter ahead of another in one queue, waiters of the same program and of
  different ones, and a death with ULTs elsewhere.
- *Three slots* for four ULTs: one is left in NEW, and a close admits it.
- *One semaphore of one unit* is taken, queued on once and twice, signalled at
  its maximum and released by a death. `guiones` has six, with initial values 0
  and 1 and maxima of 1 and 2.
- *Two notes of two guitarists* (`guiones`): four tunings and a
  maximum of two, so that none, one or two of them are dropped, as the guitarists
  wait before the tuner or after it.
  `PuedenMorir = {p2}` lets the scripts have their fault and nothing else die.
- *`MaxRetenidos`* bounds the count a program keeps per semaphore in both
  directions (1 or 2; out of reach in `guiones`). It limits how many waits a
  program makes beyond its signals, so 1 still lets two programs queue behind a
  holder; `uso`, where the holder's credit and that of the waiters of the same
  program add up, has 2.
- *`MaxJoins`* bounds the records of one tid; with 2, `planificacion` has the
  double join whose leftover makes the CLOSE of main be refused.
- *`cerrojos`*: four ULTs in the first program, so that it may have two admitted, one
  in NEW and one to create: its thread then adds to `hijos` while the planner of
  the other program, that has closed its own, searches them, which does not happen
  with three. All the other meetings that `CarrerasConocidas` names happen, too.
  Three slots for five, so that a CLOSE admits one; the
  second program, with one ULT, signals, waits and ends.
- *Five nodes*, of which the root and the last one are never given, leave three:
  a directory, a file in it and another beside it, and a full table. *Two
  blocks* let a file grow, shrink by one or by both, find the disk full, and
  hand a block to another file.
- *Three blocks of two bytes*: a read has a first block, one in between and a
  last one; two files compete for the blocks; offsets fall at the start, inside
  and at the end of a block; a block taken again has bytes of its former owner.
- *Paths of two names* are the shortest that tell a directory from what is in
  it; renames make trees of three levels. *One death* is enough for each window,
  since `Caer` leaves no trace but the disk.
- *Two frames and two of swap* (`marcos`) are the least with a choice for the
  clock and with a page in swap beside the one that moves; five pages asked of
  four frames make `muse_alloc` refuse. A growth of two pages has a middle page,
  which goes to swap without passing by memory. *`MaxTramo`* bounds the pages of
  a copy: the first sets `m` and the others do not. *`Versiones`* has one value:
  a page has been copied to, or not. `solapan` needs one frame and one of swap.
- *One frame and three of swap* for pages of two mappings of two (`mapas`): every
  access to another page is a swap, and a mapping does not fit when a file that
  did not open has cost its pages (`MaxPerdidas`). A file shorter than its mapping has a page to be read and one to be zeroed.
  Both processes may end with the file mapped, in any way, and map it again.
- *Blocks of 1, 4 and 19 bytes in pages of 12* (`monton`): two small blocks
  share a page with or without room for another header, the large one crosses
  one or two boundaries, and three pages make `muse_alloc` refuse. `PALABRA`
  (2^16) stands for 2^32: both are above any address, which is all that
  matters of a wrapped size.
- *Symmetry* over ULTs, names and blocks, and over programs or mounts where they
  have the same rights, is used in runs of safety properties only.
- Deadlock is not checked: all the threads of the programs may be waiting, or
  all the programs may have ended, and then the system rightly stops; for the
  mutexes of SUSE `SinAbrazo` says what deadlock-freedom is. `SUSECerrojos` stops
  at a race. In `SACNodos` a client may ask for nothing, and MUSE stops if it
  dies or a heap is lost. `bloques` checks it: SAC can always go on.
- *`Solapan = FALSE` in `marcos`*: with overlapping requests the properties on
  contents do not hold, which is what `solapan` shows. `TypeOK` and
  `MarcosJustos` do, and are proved without it, as long as a call of `swap` is
  one step (section 5).

### Fairness

`GuionSpec` assumes weak fairness of `GuionPaso(p)` for each program: the kernel
schedules its process and the server thread that attends it, TCP delivers, and
the mutexes and the `sem_t` of that thread are granted. Weak fairness suffices:
once `Despachar(p)` is enabled only the thread of `p` itself can disable it. No
fairness is assumed among the ULTs of a program, among programs in the order in
which they run, or among ULTs of equal estimate: the scheduler gives none.

## 4. What is proved

The proofs about SUSE hold for any programs, ULTs and semaphores, any maximum
and initial values, any deaths and refused closes, and no bound on the queues,
from the assumption `ConstantesOK` of `SUSE` (finite sets, a positive maximum, initial
values between 0 and the maximum, estimates closed under `Recalcular`).

| Theorem | States |
|---|---|
| `TypeCorrecto` | `Spec => []TypeOK` |
| `UnLugarCadaUno` | `Spec => []UnSoloLugar` |
| `ContadorCuentaListos` | `Spec => []ContadorExacto` |
| `ValorCuentaEsperas` | `Spec => []SemaforoExacto`, if no main thread uses semaphores |
| `SemaforosImplementan` | `Spec => SemaforosCorrectos`, the refinement, under the same condition |
| `CuposCuentan` | `Spec => []CuposExactos` |
| `SinEsperaInutil` | `Spec => []AdmisionAlDia` |
| `DiagramaDeEstados` | `Spec => TransicionesLegales` |
| `HilosCuentan` | `Spec => []HilosContados` |
| `MainEsperaASusHilos` | `Spec => []JoinDeMain` |
| `PrimeroElMasCorto` | `Spec => MasCortoPrimero` |
| `ServidorNoCae` | `Spec => []NuncaCae`, if nobody dies, main joins before it returns, and no main thread uses semaphores |
| `EsperaBloqueaSiempre` | `UsoSpec => []EsperaBloquea`, if no main thread uses semaphores |
| `UnidadesExactasSiempre` | `UsoSpec => []UnidadesExactas`, if moreover main joins before it returns, no program dies while it waits, and none dies at all or no semaphore has more than one unit |
| `ExclusionMutuaSinMuertes` | `UsoSpec => []ExclusionMutua`, under the same conditions |

**The queues** (`SUSE_proofs`). `UnSoloLugar` and `ContadorExacto` are not
inductive. A WAIT and a CLOSE act on the tid the client names and clear
`hilo_exec`, so both must be the same ULT: `DeAcuerdo`, the client runs what the
server believes it runs. `Despachar` puts a ULT on the CPU of a program, which
must be free since the request: `Dormidos`, while the server thread sleeps in
`sem_wait` there is no running ULT. And a program that connects must find none
of its own in the queues: `SinConectar`. The inductive invariant is

    ColasInv == TypeOK /\ UnSoloLugar /\ ContadorExacto
                       /\ DeAcuerdo /\ SinConectar /\ Dormidos

It holds initially (`ColasInicial`), and every action preserves it, one lemma
per action (`ColasCrear`, `ColasEsperar`, ...). What the planner, a signal and
the end of a program have in common is in `Admitir` (a prefix of `tabla_new`
becomes ready), `Despertar` (heads of the semaphore queues do) and `TrasPasar`
(what becoming ready does to the ready lists and their counters). The invariant
also covers a server that has written to freed lists and survived: nothing is
claimed of the lists of a finished program.

**The semaphores** (`SUSE_proofs`). `SemInv` is `SemaforoExacto` and
`TopeRespetado`, a value is never above its maximum. `TresCasos` shows that a
step leaves the semaphores alone, is a wait on one (`EsperarUno`) or gives a
unit to some (`DevolverUno`); each case preserves `SemInv` and maps to a step of
`SemaforosFIFO`. That the caller is not queued already, which the abstract
`Encolar` demands, comes from `ColasInv`: it is EXEC, so it is BLOCKED nowhere.
The condition on main is needed: main's wait without units makes the value
negative with nobody queued. `MainConSemaforos` is the constant that allows it.

**The counters and the turn of main** (the last part of `SUSE_proofs`). Every step is of one
of four kinds (`CuatroCasos`): it creates a ULT, closes one, only runs the
planner, or moves ULTs between READY, EXEC and BLOCKED (`PlanCrear`,
`PlanCerrarHilo`, `PlanRetornarMainRechazado`, `PlanOtro`). That gives the
state diagram at once, and with the cardinality of a prefix of a queue without
repetitions (`PrefijoCuenta`, `AdmitirCuenta`) the count of slots:

    CuposInv == cant_programas counts the ULTs READY, EXEC or BLOCKED, is at
                most Multiprog, and is Multiprog if tabla_new is not empty
    HilosInv == cant_hilos[p] counts the ULTs of p created and not closed, and JoinDeMain

`JoinDeMain` needs the count because SCHEDULE_NEXT gives main the CPU by
`cant_hilos = 0` alone (`TurnoDeMain`), and then that no other program can
revive a closed ULT (`ApagadosQuietos`). `MasCortoPrimero` rests on
`CopiaAlDia`: every handler that makes a node does so after it has a new
estimate. `NuncaCae` adds `FinLimpio`, a program whose process ended has no ULT
left, so nothing is written to its freed lists; it uses all the invariants
above, and the three conditions: a death, a main that does not join or a main
that waits each break it.

**The semaphores as locks** (`SUSEUso_proofs`). A step of `SUSEUso` is one of
`SUSE` (`UsoEsNext`), so all the invariants above hold of it. `EsperaBloquea` is
not inductive: it must be known why a thread that waits is not dispatched, and
that its turn moves as the queue does. `TurnoInv` says that the turn of a thread is
its place in the queue of the semaphore, and 0 if it is in none; a wait puts it
at the end (`TurnoTomar`), a unit given back moves all one place (`TurnoDevolver`),
and who runs is EXEC (`Corriendo`), so in no queue. `UnidadesExactas` needs
the count a program keeps:

    UnidadesInv == every unit is available or of one thread      (UnidadExacta)
                   /\ holders are threads, none of them in a queue
                   /\ retenidos counts the holders and the queued of the program

`retenidos` is what the end of a program consults, and it counts waiters. Hence
the conditions. A program that ended must have had no ULT waiting
(`SinEsperas`): `MuerenEsperando = {}` says it of deaths, and of a main that
returns `JoinDeMain` gives it if all join (`SinJoin = {}`). And the end gives back
one unit (`FinDaUna`), so a program that dies must hold at most one. Without the
first `muere_esperando` refutes `ExclusionMutua`, without the last
`MCSUSEUso_dos_unidades.cfg` refutes `UnidadesExactas`.

The theorems about `SUSECerrojos` hold for any finite sets of programs and ULTs, any
degree of multiprogramming and any values of the semaphore, from `ConstantesCerrojos`:

| Theorem | States |
|---|---|
| `SinAbrazoSiempre` | `Spec => []SinAbrazo` |
| `CarrerasSiempre` | `Spec => []CarrerasConocidas` |
| `CuentasSiempre` | `Spec => []CuentasEnOrden` |
| `CaeSoloSiLiberaSiempre` | `Spec => []CaeSoloSiLibera` |

**The mutexes** (`SUSECerrojos_proofs`). The inductive invariant is

    CerrojosInv == TipoOK /\ Duenios /\ Lleva /\ DeAcuerdo /\ UnoConecta

`Duenios` says of each mutex that its owner is the thread that is at one of the
places where the code holds it, and nobody else is there; `Lleva` that a thread
has a ULT in its hands wherever the code moves one (the mutex of a ready list is
that of the program of this ULT, so `Duenios` needs it), and `DeAcuerdo` that a
SCHEDULE_NEXT, a WAIT or a CLOSE has the ULT the server believes is running.
`UnoConecta` says that `aceptarClientes` is one thread. `SinAbrazo` follows from
it alone: a thread that asks for a mutex holds only mutexes before it in one
order; `Duenios` gives the places where each mutex is held, so the two at which a
thread waits for its client, and that nobody there wants `wt`. So does
`CarrerasConocidas`: two threads that hold the mutex of one list are the same
thread, which leaves the places without one (`ChocanVistas`); and an addition to
`hijos` is to those of its own program, which leaves the searches of others
(`AgrandaVista`).

**The counters between two steps** (the second part of `SUSECerrojos_proofs`). A counter and its
list change under different mutexes, or one after the other, so `CuentasEnOrden`
counts what each thread still owes. To add it up one needs that the lists have
no ULT twice, that a ULT is in the list of its state or in the hands of one
thread, and of no other (`ColasJustas`, `EnMano`):

    ContadoresInv == CerrojosInv /\ ColasJustas /\ EnMano
                     /\ ListosJustos  (sem_t of a program, its ready list, the sem_post owed)
                     /\ ValorJusto    (sem_value, the queue, a WAIT between the two)
                     /\ CuposJustos   (cant_programas, the ULTs admitted, the one being so)
                     /\ CaeSoloSiLibera

`CaeSoloSiLibera` uses `ListosJustos`: a thread that `sem_wait` let through finds
a ULT in its list. All of it is claimed up to the first race or NULL, where the
model stops.

The proofs about SAC hold for any table of nodes, blocks, names, mounts and
number of deaths, from the assumption `ConstantesSAC`:

| Theorem | States |
|---|---|
| `DiscoBienFormado` | `Spec => []TypeOK` |
| `BloquesDeUno` | `Spec => []BloquesExclusivos` |
| `BloquesEnElBitmap` | `Spec => []BloquesMarcados` |
| `NadaSePierde` | `Spec => []SinPerdidas`, with one mount |

**The blocks** (`SACNodos_proofs`). `BloquesExclusivos` is not inductive: what
makes the next `persistirNodo` safe is in the request that has begun. The
inductive invariant adds it:

    BloquesSanos == unless interrumpido,
      no node has a block twice, no two nodes have one in common,
      every block of a node has its bit set (but for the node being released),
      ImagenSana, while a request is attended:
        - what it takes, no node has, and its bit is set or about to be;
        - what it frees belongs to the node it will persist, which keeps
          nothing of it

`SanosLiberar` and `SanosTomar` show it of the requests that free and that take
blocks; each handler is an instance of one of them (`SanosCrear`,
`SanosEliminar`, `SanosMover`, `SanosAgrandar`, `SanosAchicar`, ...).
`SanosPersistirBitmap` needs that the block it clears is of the node being
released, so that no other node loses its mark; `SanosCaer` is where
`interrumpido` comes from: any other moment to die is harmless.

`SinPerdidas` is the other direction: a bit that is set is of a block of some
node. Between requests it says what it says; during one, `SobraNada` says that
each bit the request will leave set is of a block that a node has or will have.
That a deletion frees all the blocks of its node, and a change of size those it
takes out, needs that the request is still right when it is attended: the node
it deletes as a directory is one and has no blocks, and the one it cuts is the
file that getattr found (`Acertado`). With one mount nobody changes the tree
between the two; with two the check goes stale, and the theorem has the
hypothesis.

The theorems about `SACBloques` hold for any files, blocks, bytes, block size and
number of pointers, from `ConstantesBloques`:

| Theorem | States |
|---|---|
| `TypeOKSiempre` | `Spec => []TypeOK` |
| `LeeSalvoElUltimoSiempre` | `Spec => []LeeSalvoElUltimo` |
| `ArchivosCorrectosSiempre` | `Spec => ArchivosCorrectos`, the refinement, if `MaxPaginas = 1` |

**The bytes** (`SACBloques_proofs`). `TypeOK` is not inductive: a write under
way, which is several steps, must be inside its file, or its next block would
be past the pointers (`EscrituraSana`); and a block taken must be of nobody, or
a write would change two files (`BloquesDeUno`). `BloquesInv` is the three of
them. The arithmetic is in `Division`, `Cociente`, `EnBloque` and `Orden`: where
a byte of a file is, and that the quotient and the remainder of its position
determine it. `LeeLosBloques` puts the pieces that `leerArchivo` joins
together: byte k of the answer is byte `offset + k` of the file.

The abstract file is the bytes of its blocks, in order, up to its size. A
change of size keeps them (`CambiaElArchivo`), and a block of a write changes
those of one file from the offset on and no others (`EscribeElArchivo`), because
no block is in two files. The refinement needs that a write has one block:
`MaxPaginas = 1`, what a mount without `big_writes` sends, which `DeUnBloque`
carries along. It is false otherwise, as `MCSACBloques_dos_paginas.cfg` shows.

The theorems about `MUSEMarcos` hold for any processes, pages, frames of memory
and of swap, sizes and contents, from `ConstantesMUSE` (the memory has a frame,
there is a process, and the bounds on pages are positive; swap may have no frame).

| Theorem | States |
|---|---|
| `TipoMarcos` | `Spec => []TypeOK` |
| `FramesMatch` | `Spec => []MarcosJustos`, the first part of `MarcosDeUno` |
| `FrameForEachPage` | `Spec => []MarcosDeUno`, if requests do not overlap |
| `ClockUpToDate` | `Spec => []ClockAlDia`, likewise |
| `ContentIntact` | `Spec => []ContenidoIntacto`, likewise |
| `DiesOnlyMaking` | `Spec => []CaeSoloSiNoEntra`, likewise |

**The frames** (`MUSEMarcos_proofs`). What no step can break, however the requests
interleave, is stated by places. The pages, and for each process that is giving
one back the page in its hands (`Cosas`), each have a place, a frame of memory or of
swap (`Lugar`); the bits set are exactly these places, and no two things share
one (`UnoAUno`). Each operation on the memory is one of a few changes of places: a
page gets a free one (`UnoMas`), leaves its own (`UnoMenos`), or one goes to the
place of another, that goes elsewhere. The inductive invariant is

    MarcosInv == MemoriaInv  (the shapes; places one to one with the bits set;
                              the clock names a page for each frame in use, if any)
                 /\ FormaTablas /\ PedidosJustos
                             (what each request in progress relies on: a table has
                              the pages 0..n-1, or those liberarTodo has left; a copy
                              is inside it; a growth has as much left as was granted)
                 /\ Contadas (paginas_usadas = pages + those granted and not made)

`FramesMatch` follows by counting: things in places of their own are as many as
the places. While requests do not overlap more is true, and none of it is
inductive without the rest:

    SoloInv == UnoSolo      (one request in progress)
               /\ ClockExacto /\ ClockLimpio  (the clock names the page of every frame
                             in use, and none for a free one, up to `RemoverClock`)
               /\ Presente  (the page found by Buscar is in memory when it is used)
               /\ SinCopia /\ ContenidoIntacto

`Presente` is what an overlapping request breaks, and `solapan` shows it.
`FrameForEachPage` counts again: with one request nobody is between counting a
page out and clearing its bit, so the granted pages that are not made yet are at
most the free places (`HayMarco`). `DiesOnlyMaking` goes through the places where a
NULL or an index can be wrong (`CaePorque`): the search of a victim starts from a
clock entry that names a real page of a connected process (`ElDelMarco`), so it can
only fail if its segment is not listed, and then the request in progress is making
it. The hypothesis `Solapan = FALSE` is not a convenience: without it TLC refutes
each of the last four.

The theorems about `MUSEMapas` hold for any processes, files, pages per file,
frames of memory and of swap and values, from `ConstantesMapas`.
`UnSoloCompartido` says that `tabla_archivos` has at most one file: no second
one has been mapped MAP_SHARED.

| Theorem | States |
|---|---|
| `TypeOKConUnArchivo` | `Spec => [](UnSoloCompartido => TypeOK)` |
| `MarcosDeUnoConUnArchivo` | `Spec => [](UnSoloCompartido => MarcosDeUno)` |
| `ContenidoIntactoConUnArchivo` | `Spec => [](UnSoloCompartido => ContenidoIntacto)` |
| `CaeSoloTrasCerrarConUnArchivo` | `Spec => [](UnSoloCompartido => CaeSoloTrasCerrar)` |
| `UsoSinPausaConUnArchivo` | `Spec => [](UnSoloCompartido => UsoSinPausa)` |

**Mapped files** (`MUSEMapas_proofs`). The condition is what the code needs, as
`MCMUSEMapas_dos_archivos.cfg` shows; any number of files mapped MAP_PRIVATE and
of files that do not open are covered. It can be used backwards, because no file
ever leaves `tabla_archivos` (`LaTablaCrece`): a state with one file is reached
through states with at most one. The inductive invariant is

    MapasInv == MemoriaInv  (every page of a list has a frame whose bit is set and that no
                             other page has, every bit set is of a page, and the
                             clock names the page that is in each frame)
                /\ TablasInv  (the types; a private mapping has its pages while it
                             lasts, a shared file all of its pages until they
                             are given back; what a request was checked for still holds)
                /\ Contadas   (paginas_usadas counts the pages and those lost)
                /\ ContenidoIntacto /\ CaeSoloTrasCerrar

`MarcosDeUno` alone is not inductive: `swap` leaves a frame to a page by taking
it from the one that the clock names, so the clock must name the page that is
there, and that page must be the only one swap can find (`UnaVictima`; with two
shared files it finds two). A mapping that was admitted gets a frame for each of
its pages (`Caben`) because there are as many pages as bits set
(`CuantasPaginas`) and the pages it adds fit in what `paginas_usadas` leaves; the
frames are then chosen in order, each once (`EnesimoEsta`, `EnesimoUno`).
`ContenidoIntacto` follows the page: to a free frame (`TraeALibre`), in the
place of a victim (`TraePorVictima`), or where it was when other pages are given
back (`Devuelve`). A page that is not found belongs to a file whose pages were
given back (`FallaTrasCerrar`).

`UsoSinPausa` adds `AbandonoInv`: a file of the table that nobody has mapped was
left by all at some moment, and so was every file that is being given back or has
been. The end of a process checks and gives back without `sem_mapeo`, so another
may have mapped the file meanwhile; but then it mapped one that had been left,
and the property says nothing of it. With one file in the table what
`EliminarFantasma` takes is that one, and it was left; with two it may be the other's,
hence the same condition.

The theorems about `MUSEHeap` hold for any size of page, number of pages and
sizes asked for, and whether or not the process goes on after a wrong size, from
`ConstantesHeap` (a page has room for two headers and a byte, and nobody asks
for 0 bytes).

| Theorem | States |
|---|---|
| `NadaSolapa` | `Spec => []SinSolape` |
| `NadieSePierde` | `Spec => []NoSePierde` |

**The heap** (`MUSEHeap_proofs`). `SinSolape` speaks of blocks and not of what is
between them, so it is far from inductive. The inductive invariant is

    Enlosado == ~torcido => \E D : Mosaico(D, paginas, escrito, bloquesLibres, otorgados)

    Mosaico(D, ...) == PaginasBien   (only the last page is marked as the end)
      /\ EscritoBien  (headers and '#', inside the pages; no header crosses two)
      /\ Teja(D)      (the headers in D cut the pages in tiles, see below)
      /\ DadosBien    (each block given is a tile, in use, of the size asked for)
      /\ ListaBien    (each entry of bloquesLibres is a free tile, and each once)
      /\ UltimoBien   (the last page says nothing, or where a free tile that is in
                      no list and reaches the end is, or where a block in use is
                      that reaches it)
      /\ SueltosBien  (a free tile that is in no list ends where a page ends)

The heart is `Teja`: a tile has the bytes that its header says; the next one is
where `freeMuse` looks for it or after, that is, after the end of the page if a
header does not fit, and after the `#` (`Tras`); and what comes after a tile is
another one, right there, or the end of the pages (`Continua`). The last part is
what a proof needs that a test cannot see: data of a block may look like
anything, but nothing that was once a header is left between two tiles, where a
`free` would read it (`LoMiradoEsTeja`). D is not a function
of the state, as a header that was absorbed is still written, so it is
quantified.

The first half of the module says what a write does to the tiles: one is given
whole (`DarEntera`), with its tail (`DarConCola`), with a tail in the next page
(`DarYPasar`) or with none (`DarYDesperdiciar`); given back alone (`Devolver`) or
with the next one (`DevolverYUnir`); new pages come (`Crear`); its bytes are
filled (`Escribir`). The second half has a lemma for each branch of `mallocMuse`,
`crearPaginas` and `freeMuse`, which adds what the branch does to the list and to
the fields of the pages. `UltimoBien` has three cases because `ultimo_header` is
not kept exactly: after a tail is wasted it is 5 bytes early, which is the
disjunct `x = base + u`. A proof attempt without it failed where the code does
(`Tuerce`), and TLC then found the runs in which the same bytes are given twice.

`NoSePierde` follows from the tiles: `perdido` is set in the last step of a run,
so it is enough to look at that step from a state where `Enlosado` holds.
`mallocMuse` looks for a page that is not there only for a free block that would
reach it, which goes from a page to the next one (`PierdeMalloc`). For a block
in one page, `freeMuse` finds a header right after it (`Encuentra`, from
`Continua`), in the same page or the next one; the one header it cannot merge,
whose size and position add up to a page, ends 5 bytes into the next page, so by
`SueltosBien` it is in the list, and is a block that goes from a page to the next
one (`PierdeFree`).

**Only model-checked**: `TerminanSiNoSobra`, which is liveness under fairness and out of the prover's reach;
`ArbolSano` and `ArbolCorrecto`, which are stated with functions recursive over
the table; `TypeOK` of `MUSEHeap`, which bounds the sizes of a run.

## 5. What is not modelled

- In SUSE: semaphore names the server does not know; a connection reset
  (`recv` = -1), where the code reads an uninitialised variable; the branches of
  `close_hilo` for a NEW, READY or BLOCKED ULT, which hilolay never asks for (it
  closes the ULT that runs); the limit of MAX_ULTS creations; what the metrics
  log.
- What a data race between two handlers of SUSE leaves in a list: the model says
  where it can happen and stops.
- In SAC: READDIR, which reads the table without the mutex; dates; the numbers
  that callbacks return to the kernel; the width of names; a loss of power.
- In MUSE: a heap segment after a mapped one, and several mappings of a process,
  which only matters to the search of a segment by its base; a mapping at a
  base other than 0, which crashes; a heap whose pages are out of memory, which is
  `MUSEMarcos`; `compactar`, which nothing calls; the interleaving inside `swap`
  and between it and the mutexes of the frames, among it `getMuse` asking for the
  mutex of a frame it may hold; VER and the metrics, which print.
- libMuse keeps no state but its socket: each of its calls is the request of an
  action. The configuration and message libraries are blocking I/O with no state.
- `DESCARTADOS/`, the samples, and the copies of libraries beside the tests.

## 6. Plan

The modules planned are written. What is left:

- `swap` at the level of `sem_clock`, `sem_swap` and the mutex of each frame.
