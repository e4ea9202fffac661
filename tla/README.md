# Servomotor in TLA+

Servomotor is an operating system in five kinds of process, written in C: a **Kernel**
that schedules AnSISOP programs, the **CPU** processes that interpret them, the
**Consola** processes that start them, **Memoria** (frames, pages and a cache) and a
**FileSystem** (blocks and a bitmap). They talk over TCP sockets with one-letter orders.
The modules of this directory model the parts where its behaviour is decided (the
scheduler of the Kernel, its file layer and its heap, Memoria, the FileSystem, and the CPU
with the PCB it exchanges with the Kernel), check them with TLC and prove part of them with
TLAPS.

## The system

| part | state | operations | talks to |
|---|---|---|---|
| Short-term scheduler, `planificarCortoPlazo` (a thread) | `colaListos`, `listaCPU`, `colaEjecucion`, `sem_CPU`, `sem_procesoListo` | take a ready process, take an idle CPU, send, register; or give the process back | CPU ('P', quantum, PCB) |
| Long-term scheduler, `administrarNuevosProcesos` and `administrarFinProcesos` (two threads) | `colaNuevos`, `listaCodigosProgramas`, `listaEspera`, `colaTerminados`, `gradoMultiProgramacion` | admit a new process, terminate one that has ended | Memoria, Consola |
| Main thread, `selectorConexiones` | everything above, `listaProcesosInterrumpidos` | one handler per message of CPUs and consoles | CPU, Consola, FileSystem, Memoria |
| AnSISOP semaphores | `colaSemaforos`: value and waiting pids | wait, signal | through the main thread |
| Kills, `buscarProcesoYTerminarlo` | reads and edits every list | search list by list, then `terminarProceso` | run by the operator's thread, the main thread and an abort thread per closed console |
| Operator interface, `interfazHandler` (a thread) | `flagPlanificacion`, `sem_planificacion`, `config_gradoMultiProgramacion` | kill, pause, resume, change of the degree, listings | all of the above |
| Heap, `heap.h` | `listaAdmHeap`, metadata in Memoria | reserve, release, compact | Memoria |
| File layer, `capaFilesystem.h` | a table per process, a global table | open, close, read, write, delete, move | FileSystem |
| Accounting, `contabilidad.h` | `listaContable` | counters per pid | |
| Memoria | frame table, cache with LRU | start, read, write, grow, finish | a thread per connection |
| FileSystem | bitmap, metadata file per file | validate, create, delete, read, write | Kernel |
| CPU | `pcb_actual`, `interrupcion`, `procesoFinalizado`, `cpuFinalizada` | instruction loop, primitives, hand the PCB back | Kernel, Memoria |
| Consola | program threads | start, finish, print | Kernel |

What is hard in it: the six threads of the Kernel share eight lists, guarded by a mutex
each that a thread drops between one list and the next, and five counting semaphores that
are posted before or after the list they stand for; kills race with all of it; CPUs answer
while the dispatcher is still noting what it sent; CPUs close in the middle; Memoria
serves its connections concurrently without locks.

What makes each part correct:

- *scheduler*: a process is in one place; tokens agree with lists; the degree is counted
  exactly; a process moves only along its life cycle; ready processes run and ended ones
  are terminated;
- *semaphores*: the value and the waiting list tell the same; who signals finds the process;
- *heap*: blocks tile a page and never overlap; what the list says is free is free; the
  accounts tell what was not released;
- *file layer*: the open count is the number of descriptors; a descriptor keeps naming its file;
- *Memoria*: a frame has one owner; what is read is what was written last;
- *FileSystem*: a block belongs to one file, and the bitmap says so;
- *CPU*: every process it starts is given back once, in a message that the Kernel expects; the
  process runs its program, wherever it runs; its variables do not overlap.

## Modules

| module | content |
|---|---|
| `Planificacion` | the scheduler: state, one action per operation, `Spec`, fairness, `SpecJusta` |
| `Propiedades` | its type invariant, invariants, liveness, and the mapping to the life cycle |
| `CicloDeVida` | abstract specification: what a program is promised, from arrival to its end |
| `Propiedades_proofs` | theorems on `Planificacion` checked by TLAPS: types, the tokens of the ready list, where each process is, the degree, `colaEjecucion`, the life cycle |
| `PropiedadesTokens_proofs` | ... the other tokens, the semaphores of the programs, the NULLs |
| `MCPlanificacion` | constants for TLC; the `.cfg` files choose among them |
| `Archivos` | the file layer: the global table, the table of each process, the requests of the main thread and the ends of processes |
| `PropiedadesArchivos`, `MCArchivos` | its invariants and action property; its constants for TLC |
| `Memoria` | the frame table, the frames, the cache, a thread per connection, the flush |
| `MemoriaDePaginas` | abstract specification: pages per process, granted all or none, read as last written |
| `PropiedadesMemoria`, `MCMemoria` | invariants of `Memoria` and its mapping to pages; its constants for TLC |
| `PropiedadesMemoria_proofs` | theorems on `Memoria` checked by TLAPS |
| `Heap` | the heap of the Kernel: `listaAdmHeap`, the pages with their metadata, the accounts; the main thread and the thread that ends processes |
| `Asignador` | abstract specification: disjoint reservations that stay until they are released |
| `PropiedadesHeap`, `MCHeap` | invariants of `Heap` and its mapping to `Asignador`; its constants for TLC |
| `PropiedadesHeap_proofs` | theorems on `Heap` checked by TLAPS |
| `SistemaArchivos` | the FileSystem process: blocks, bitmap, metadata, streams left open, stop and start |
| `Almacen` | abstract specification: files of bytes that other files do not touch |
| `PropiedadesSistema`, `MCSistema` | invariants of `SistemaArchivos` and its mapping to `Almacen`; its constants for TLC |
| `PropiedadesArchivos_proofs` | theorems on `Archivos` and on `SistemaArchivos` checked by TLAPS, in two separate parts |
| `Pcb` | the PCB, the size of its buffer, and its way through a message |
| `CPU` | the CPU process, with the Kernel as its environment; extends `Pcb` |
| `ProgramaAnsisop` | abstract specification: what the run of a program means |
| `PropiedadesCPU`, `MCCPU` | invariants of `CPU`, what a program has to be, and the mapping to `ProgramaAnsisop`; the programs that TLC runs |
| `PropiedadesCPU_proofs` | theorems on `CPU` and `Pcb` checked by TLAPS |
| `PropiedadesPrograma_proofs` | ... that `CPU` implements `ProgramaAnsisop` |
| `LemasListas` | lemmas on sequences, minima and sums over finite sets that the proof modules cite |

### State of `Planificacion` and the code

- `cola.nuevos`, `.listos`, `.espera` are the sequences of pids in `colaNuevos`,
  `colaListos`, `listaEspera`. Order matters in these. `.ejecucion`, `.bloqueados`,
  `.terminados` are bags of pids: only membership matters there, and one pid may be in
  `colaEjecucion` twice. Pid 0 (`Nadie`) is the NULL that `list_remove_by_condition` gives.
- `sem` holds the values of `sem_admitirNuevoProceso`, `sem_administrarFinProceso`,
  `sem_procesoListo`, `sem_CPU`, `sem_planificacion`; `mutex` the mutexes that somebody
  keeps across several steps (`mutexNuevoProceso`, `mutexColaListos`, `mutexListaEspera`).
- `cpu` is `listaCPU`; `remoto` is what each CPU process is at, and the pid of the PCB it has.
- `semaforo` is `colaSemaforos`; `adm` has `listaCodigosProgramas`, the pids with a table
  of files, and `listaProcesosInterrumpidos`; `grado` the degree and its maximum.
- A CPU that has a PCB in its socket is in phase "recibe" until it has read it and lowered
  `procesoFinalizado`: a signal there finds it idle and closes it, or finds it busy
  (`AlCerrar`). A PCB that a CPU had not read when it closed stays with it: that process is lost.
- `principal`, `corto`, `largo`, `fin`, `mata`, `usuario` say what each thread is in the
  middle of. A change of the degree is two steps, `PedirGrado`, that takes
  `mutexNuevoProceso`, and `ModificarGrado`, when the user has typed it. The handlers of the main thread are straight lists of operations, so they are
  data (`Guion`) and each operation is one action, used by every handler that does it.
- `fallo` says why the Kernel died where the code follows a NULL or uninitialised pointer.
  A new `t_cpu` comes from `malloc` with the pid unset, so its pid is any of `Basura`; a
  kill that finds no CPU for a running process reads its socket from an uninitialised
  block, so it picks any CPU or dies.

### What one step is

A step is one access of a thread to a structure that others use: a critical section, a
`sem_wait`, or an unguarded access. Two merges keep the state space small:

- the `sem_post`s that follow an operation are in its step. Nobody reads the value of a
  semaphore, and a post only enables others, so a post that comes earlier lets happen what
  it would let happen later;
- the first operation of a handler is in the step that reads the message, since what
  precedes it in the handler is local to the main thread; and `terminarProceso` is one step:
  its parts (file table, `colaTerminados`, degree, post) are read by different threads, and
  the only one that reads the degree is woken by the post at its end.

The accesses the code makes without a mutex (`listaProcesosInterrumpidos`, the look of the
dispatcher at `listaCPU`, `list_size` of `colaNuevos`) are steps of their own, as if a
single list operation were atomic; a torn list is outside the model. A mutex held for one
step does not appear in the model.

A CPU sends an order and waits for the answer, so the step in which it sends is the one in
which the main thread reads; quanta end and programs choose their system calls at will.

### State and steps of `Archivos`

`tablaGlobal` is `tablaArchivosGlobal`, `tablas[p]` the `tablaProceso` of p; an entry of the
second names one of the first by position, and most of what can go wrong is about those
positions: helpers look at an entry by removing it and adding it at the end, and the
removal of a global entry moves the ones behind it. Positions count from 1 here, from 0 in
the code. The field `archivo` is history: no step reads it.

A request of the main thread (`pedido`) is a chain of calls of helpers of the tables, and
one call is one step: an opening is *search or add, count, register*. Between two of them
another thread may be ending a process, and `destruirTablaArchivosYActualizarTablaGlobal`
walks the same tables without a mutex, one round per step (`DestruirEntrada`). With
`FinInterrumpe = FALSE` the ends wait until the main thread is free, which separates what the code does alone
from what the race does. As in the scheduler, one helper is atomic: two threads inside the
same list are outside the model.

The FileSystem is the set of the files that exist, and it may refuse for lack of blocks.
What it answers to a deletion is one byte, 1 or 0xFF, read into an `int` without a value, so the
Kernel takes it for a success or not, as it comes. Whatever it took it for, the CPU takes it for
the same: the Kernel answers -1 if the `int` was negative and else the `int`, which is above 0.
`fallo` is "sinEntrada" where the code follows the NULL of a `list_get` or `list_remove`
past the end of the global table, "entradaNula" where a write goes on without a descriptor.

### State and steps of `Memoria`

`tabla` is the array of `struct_adm_memoria` at the start of `bloque_Memoria`, `bloque` the
frames behind it, `cache` the entries of `bloque_Cache`. `uso` keeps of `bloqueBitUsoCache`
what is ever compared, the order: the entry used last has the highest rank, so the counter
`contadorBitDeUso` needs no bound. A page has one value, so offsets and sizes are left out.

`hilo[c]` is what the thread of connection `c` is in the middle of: `Libre`, a request with
the entry and the value it holds, or an answer. A pass over the cache or the table is one
step; the three fields of a cache entry are written in three, because another thread may
be writing or reading the same one. The search of a page and the copy of its frame are one
step: a process asks one thing at a time, and nobody else touches its entries of
the table or its frames. Who asks for a process is its CPU, or the Kernel while that CPU waits for a system
call or after the process left it (`Ocupado`), except for the operator of the Kernel, who
reads any page at any moment (`Consultar`, when `"consultar" \in Operador`).
`proceso` is what the clients do with a process: `estrena` is the moment between a page of
heap being granted and the Kernel writing its first metadata, before anybody else knows of
the page. `DeAUna` makes connections take turns. `fallo` says when an index is -1 where the
code writes: `sinFrame` before the table, `sinEntrada` before the cache. A read at -1 gives
`Basura`, and so does a page nobody wrote.

`MemoriaDePaginas` has no frames, table or cache: a sequence of pages per process, a
capacity, and requests with an answer. `PaginasDe(p)` reads the pages through
`buscarFrameDePaginaDeProceso`, so the mapping checks the search too; pages of a request
under way do not count until the last one is there, and a write counts from the moment
it reaches the frame. Of a page that does not exist nothing is promised.

### State and steps of `Heap`

`lista` is `listaAdmHeap` with `sizeDisponible` as `libre`; `paginas[p]` the pages of heap of
p, each a function from offsets to the metadata that starts there (`SinMeta` elsewhere), so
that reading an offset without metadata is seen (`fallo = "sinBloque"`). Pages count from 0 as
in the code, after those of code and stack, which are left out. `contable` is what
`contabilidad.h` keeps of the heap.

`principal` is the main thread inside a request: a round over the list is `MirarLista` (the
size is read) and `TomarEntrada` (the entry is read), a round of `compactarPaginaHeap`
(`Compactar`) or of `paginaHeapBloqueSuficiente` (`BuscarBloque`) is one step, and each access
to an entry of the list (`SumarLibre`) another. `mutexListaAdminHeap` is taken before the
loop and let go of in every round, so only the first round is protected and the others read the
list as it comes, which is what `mutex` keeps. `fin` is the thread that ends processes:
`LiberarRecursos` frees the pages under `mutexMemoria` (not while the main thread has it,
`ConMutexMemoria`), then the entries go one round at a time, and the removal skips the
entry behind the one it takes, as the code does. `fallo` is "entradaNula" where `list_get`
is past the end.

A process that runs asks one thing at a time; a kill of a process whose request is being attended is
noted for its CPU, so it ends later. One whose request finds no frame is "rechazado" until it
ends. The answer to a reservation in a page that was there
is an `int` without a value (`heap.h:66`): if the CPU takes it for an error it sends its PCB,
where the Kernel, which served the request, waits for an order. `fallo` is then
"desincronizado" and the model goes no further.

### State and steps of `SistemaArchivos`

`archivos` are the metadata files, `bitmap` the mapping, `bloques` the block files, which keep
what they had when a block changes owner. One thread serves the Kernel, so a request is one
step. `sinCerrar` are the streams that `guardarDatosArchivoFunction` opens and never closes
for the blocks behind that of the cursor (`funcionesFS.h:457`): what is in them reaches the
blocks when the process ends, the last opened first (`Volcados`), or never, if it falls before.
`MaxSinCerrar` bounds them. `falloFS` says that a list of blocks was read past its end, or
that a length came out negative.

`Almacen` has files of bytes without blocks. Positions in doubt, of which nothing is
promised, are those of a block with an open stream or that its own file has twice; what
the specification says is that a request puts in doubt only positions of its own
file past the block of its cursor, and that everything else stays: deletions, other files, late streams
and restarts included. A reading is right if its cursor is in the first block.

### State and steps of `CPU` and `Pcb`

`cpu` has the globals that steer the loop (`cantidadInstruccionesAEjecutarPorKernel`,
`interrupcion`, `procesoFinalizado`, `cpuFinalizada`), `pcb` is `pcb_actual`, `canal` the order
'P' with its PCB on the way, `memoria` the values that the process has in its pages, by
position: a write takes the place of any value whose four bytes it meets, and a read where no
value starts gives `Basura`. `kernel` is the environment: the list where it has the process, whether it
waits for an order or for a raw PCB from that CPU, and whether a kill was noted.

A step is an instruction, the check after it, or a signal. An instruction is read through
`Lecturas`, the parts that `obtener_instruccion` asks Memoria for, and is what the bytes it got
say; then it is the primitives that the parser calls, composed in its order (`Resultados`): the parser
is external. Each primitive takes and gives a record with what it may change. Requests
to the Kernel are refused or not (`rechazo`), and the CPU reads that in the answer
(`Negativa`): the same, but for an `alocar` that was granted, whose answer may be a value
that nobody set (`heap.h:66`). What `alocar` and `abrir` give is then assigned to a variable, refused or
not. If CPU and Kernel disagree, the PCB that goes to a Kernel that waits for an order, or the
order to one that waits for a PCB, ends the history (`lista = "desincronizado"`).

A PCB arrives in two steps, as in `recibirPCB`: the order with its PCB, and then
`procesoFinalizado = 0` with the start of the loop. In between a signal finds the CPU idle,
and closes it with the process.

`Pcb` has the message as a sequence of fields with the bytes each takes:
`serializarPcb` is the order of the fields, `deserializarPcb` reads them by
position as `recibirYDeserializarPcb` does, `calcularPcbSerializadoSize` is the formula that the
sender uses for its buffer. Every PCB in `CPU` goes through them both ways.

`ProgramaAnsisop` has a program counter and frames with values by name: no pages, no
quantum, no CPU. `MarcosDe` reads the values through the stack and the memory, so a variable
over another, a wrong return or a PCB that changed on its way is a step that the program
does not have.

### Abstract specification of the scheduler

`CicloDeVida` knows nothing of threads, lists and semaphores: each program has a state,
programs are admitted in the order they came and while fewer than the degree are admitted,
at most one runs per CPU, a running program becomes ready, blocked or leaves. `Ciclo` in
`Propiedades` instantiates it with the state read from where the PCB is (`EstadoDe`), and
`ImplementaCiclo == Ciclo!Spec` is checked as a property.

## Runs

The first four use `MCPlanificacion`, those of files `MCArchivos`, those of Memoria
`MCMemoria`, the last three `MCHeap`, `MCSistema` and `MCCPU`; each takes less than four minutes with two workers.

| run | instance | shows |
|---|---|---|
| `Base` | 2 CPUs, 2 programs, degree 2, one semaphore at 0, no kills; deadlock checked | the inductive invariants of the proofs (`IInvQuieta`); `sem_CPU`, `sem_administrarFinProceso`, `sem_admitirNuevoProceso` agree with what they count; semaphore value, list and `colaBloqueados` agree; a running process is registered; the only way to die is the admitter finding no code |
| `Muertes` | 1 CPU, 2 programs, semaphore, the operator kills program 1 at any moment, the pid of a new CPU is garbage | no kill loses or doubles a process, the dispatcher always finds its process; a list of a semaphore is no longer than its value says |
| `MuertesRepetidas` | 1 CPU that may close at any moment, 1 program that Memoria may refuse, two threads that kill it, one operator change: pause, resume, extra post | the first that finds it ends it; the program is in one place, or lost in the socket of a closed CPU, which happens only while it is sent to it; the degree is exact up to the step where the Kernel falls; after a resume who waits has a token; refinement of the life cycle |
| `Vida` | 1 CPU, 2 programs, degree 1 that the operator may raise to 2, or leave half typed, fairness | refinement of the life cycle with two programs and a degree that changes; a ready process runs, one that has to end is terminated, a new one is admitted once nobody is typing |
| `ArchivosCuenta` | 2 processes, 2 files created and deleted, 2 descriptors each, ends in the middle of requests | the openings counted are the descriptors there are; the inductive invariant of the proofs; indices and counts that are right are made wrong by four kinds of step only |
| `ArchivosFieles` | 2 processes with two descriptors each, to read or to write, nobody interrupts a request | while the tables agree, a file that another process has open is not deleted |
| `ArchivosBorra` | 2 descriptors each, nobody interrupts (expects a violation) | a process deletes a file it does not have open, against the comment at `capaFilesystem.h:174` |
| `MemoriaSinCache` | 2 processes, 2 pages, 3 frames and the table, cache off as in `config_Memoria`; a CPU, the Kernel and its operator at once | the inductive invariant of the proofs (frames given once and numbered without gaps, a granted request finds its frames); refinement of `MemoriaDePaginas` |
| `MemoriaConCache` | 2 processes, 2 frames, a cache of 2 entries with one per process, one connection, the operator empties the cache between any two steps | refinement with replacement, updates, ends and flushes; an entry found to update is still there, but for a flush |
| `Heap` | 2 programs, pages of 6 with metadata of 1, sizes 1 and 5, two frames | pages tile, only metadata is read as metadata; the free bytes of the list and the accounts are exact; after a compaction no two free blocks lie together but at the very end; refinement of `Asignador` |
| `SistemaArchivos` | 2 files, 3 blocks of 2 bytes, cursors 0, 1 and 3, writes of 1, 2 and 4 bytes, one stream left open | bitmap and blocks agree and no block is in two files; refinement of `Almacen` |
| `CPU` | one process that runs any of eight programs, FIFO or a quantum of 2, pages of 18, a stack of 2 pages | the inductive invariant of the proofs; a process that a CPU started is given back; the Kernel gets the message it waits for, but after two instructions; variables do not overlap; the buffer of a PCB has its size; refinement of `ProgramaAnsisop` |

Bounds. `MaxPid` = 2 is the least at which two processes compete for a CPU, a place of the
degree, a semaphore or a token, and a kill races with somebody else's dispatch. Two CPUs
are the least at which the dispatcher chooses. `MaxValor` bounds the
value a program signals up to; `MaxRegistros` the leftover entries of a pid in
`colaEjecucion`, which the code lets grow for ever (hazard at `planificacion.h:432`);
`MaxCambios` the operator's changes. Each program may block, be signalled, end its quantum
or fail at every step, so the interesting histories fit. Permutations of the CPUs are a
symmetry where no liveness is checked. A CPU closes in `MuertesRepetidas` only, and kills are
in the two runs named for them: `BloqueadosEnSemaforo`, checked without kills, says nothing of a kill
between `colaBloqueados` and the list of a semaphore.

For the files, two paths are the least at which a removal moves somebody else's index, and two
processes the least at which an entry is shared. `MaxAbiertos` bounds the descriptors of a
process, `MaxEntradas` the entries of the global table (a file can be there twice, after
a deletion), `MaxOpen` what an entry counts. Deadlock is not checked in these runs: when
all processes have ended nothing is left to do. They have no liveness properties: the
requests have no loops and wait for nobody.

For Memoria, two processes and two pages each make the hash of one fall on frames of the
other and wrap, one frame of table is the least at which the search may start inside it,
two entries of cache are the least with a choice of victim, and with fewer frames than
pages requests are refused. Two contents tell a stale page from a fresh one; where there
is one, `Basura` is the second. Processes end and there is no request left, so deadlock
is not checked; requests have no loops, so there are no liveness properties.

With requests in turns it makes no difference which connection asks, so `MemoriaConCache`
has one, that of the Kernel; with a share of one entry and two pages a process meets its
share at once. That no process passes its share, also with connections that fill the cache at
the same time, is proved (`CupoRespetado`) for all constants, and no run checks it.

For the heap, in a page of 6 with metadata of 1 two blocks of size 1 fit with
a free rest, whose release in either order leaves blocks to join at the start and at the
end; the size 5 is refused; two pages for two programs make one do without. Programs are
interchangeable (symmetry). For the FileSystem, two paths are the least at which a block passes
from a file to another, three blocks the least at which a file grows and the other
exists, a write of 4 bytes takes two new blocks; no step depends on the answer to the one before, so `Vista` leaves
`respuesta` out of what tells states apart (TLC checks the refinement on every step, new
state or not). For the CPU, the programs of `MCCPU` have calls within calls, two calls of a
function, recursion with and without end, loops, names that are not there (of a variable, a reservation
and a file), a label that is not there, and instructions that lie across pages of 18 bytes;
a quantum of 2 moves the process in the middle of calls. In these three runs the system stops when the processes have
ended or `fallo` is set, so deadlock is not checked, and there are no loops that wait.

Deadlock is not checked in the runs with kills, pauses and closing CPUs, because the
system really stops there: a kill of a ready process waits for `sem_procesoListo` with
`mutexColaListos` locked (`Kernel.c:427`) while the dispatcher that already took the token
waits for the mutex; the operator may wait for `sem_planificacion` for good because a
scheduler took its token (`planificacion.h:354`); with no CPU left nothing can run.

Fairness (`Justicia`): the threads of the Kernel are weakly fair, they are never starved by
the operating system; a message of a CPU is read although others keep coming, since
`select` goes over all sockets in each round, so those handlers are strongly fair; and a
CPU that checks for interruptions again and again must at some time end its quantum, be
expropriated or hand the process over, since a quantum is a number of instructions. No fairness
is assumed of programs that signal or end, nor of the operator or the consoles. In particular an
operator who was asked for a degree may never type it, with `mutexNuevoProceso` locked
(`interfazHandler.h:376`): nobody is admitted then, and `NuevoAdmitido` speaks of runs in which the
operator is done.

## Limits the model shows

These are behaviours of the code that the properties state around:

- with kills, the value of a semaphore is not adjusted when a waiting process is taken from
  its list (`planificacion.h:231`), so `ValorCuentaBloqueados` is checked without kills and
  `ValorAcotaBloqueados`, the inequality that remains, with them;
- a kill between `colaBloqueados` and the list of the semaphore leaves a pid behind; the
  later signal puts NULL into `colaListos` (`BloqueadosEnSemaforo` is checked without kills);
- during a pause the tokens of the ends and admissions are spent for nothing, so
  `EsperaAtendida` and `AdmisionPendiente` are checked without pauses;
- a degree raised by two or more gives one token (`interfazHandler.h:374`);
- when a CPU closes, `sem_CPU` keeps its token, so `TokensCPU` is checked without closing; a process
  sent to a CPU that is closing, or that a signal closes before it has read the PCB, is lost with
  it, which `UnSoloLugar` counts as lost and `SePierdeAlEnviar` names as the only way.

In the file layer:

- `aumentarOpenEnTablaGlobal` (`capaFilesystem.h:522`) moves the entry of a file that is
  opened again to the end of the global table, and no index follows it: those the
  descriptors have, and the one the opening is given, are of the order before. Two
  files open and the first opened again is enough, with a third process or a second
  descriptor: a descriptor then leads to another file, which the process reads, writes and
  deletes (`ArchivosBorra`);
- a file deleted and created again, an end in the middle of a request, and the walk of an
  end that removed an entry with others left, are the other steps that make tables disagree.
  `SinOtroDesacuerdo` says that there are no more: from tables that agree (`Acuerdo`: each index leads to the one
  entry of its file, and each entry counts its descriptors) any other step of any
  request or end leaves tables that agree, with several files per process.
  `BorraSoloElUnico`, which needs the indices right when it deletes, is about tables that agree;
- `AperturasContadas` counts the sum over all entries, because after such a move a close is
  taken from the wrong entry;
- descriptor numbers are the length of the table plus 3, so they repeat after a close: the
  first entry with the number is the one used;
- a file deleted and created again gets a second entry while the first stays with its count,
  and the counting goes to the first, the index to the second;
- a write without a descriptor reports the error and goes on with the NULL;
- the walk that ends a process keeps its index when a global entry goes, so the same
  descriptor may be looked at twice and another never: with two descriptors in
  the order a read leaves them, the Kernel may ask for a global entry that is not there;
- with `FinInterrumpe`, the index kept by a request may be stale when it is used, and an
  opening may be counted in the entry that took its place.

In Memoria:

- with the cache on and two connections at once, both may choose the same victim and write
  its fields in turns (`Memoria.c:1127`): an entry ends with the pid and page of one and
  the content of the other, and `ImplementaPaginas` is false. It is checked with the cache off, as
  the repository configures it, and with requests that take turns. The frame table
  does not suffer from it, which is what `IInvMemoria` and the theorems say;
- a flush or a new victim between the search of an entry and its update
  (`Memoria.c:1142`) makes -1 an index, so `EntradaSigue` is checked with turns;
- a reading of the Kernel's operator between a write to a frame and the update of
  the cache may leave the old page in the cache, and two readings of a process at once may
  pass its share: `CupoDeCache` needs `"consultar" \notin Operador`;
- a page that does not exist is put in the cache, and its next reading answers as if it did;
- the order `U`, which no client sends, frees a frame and leaves its number without a value;
- ranks of use are strict: two threads that read the same value of `contadorBitDeUso`
  before either adds one would tie, which the model leaves out.

In the heap:

- `verificarEspacioLibreHeap` reads the list without its mutex from the second round on, so
  `list_get` may give NULL while the entries of an ended process go (`fallo = "entradaNula"`);
- the removal skips the entry behind each one it takes (`heap.h:335`), so entries of an ended
  process stay, where the comment at `heap.h:324` says that all go: pids are not used again,
  so no request finds them, and `LibreExacto` is about processes that live;
- a free block without room at the very end of a page is never joined with the one before;
- the result sent for a block in a page that was there has no value: if it is negative the
  CPU takes the request for refused and sends its PCB to a Kernel that waits for an order
  (`fallo = "desincronizado"`);
- a request that no page could be had for is counted as a reservation (`Kernel.c:525`), so the
  warning at the end of that program tells of one block more than it has (`planificacion.h:294`);
  `CuentaExacta` says so.

In the FileSystem:

- a write that needs two blocks or more gets the last one found as often (`funcionesFS.h:416`),
  and the file keeps only the last piece; a write that fills its block exactly takes one more;
- what is written to the later blocks a file already has waits in a stream until the process ends,
  and then may fall on a block that is another file's by then;
- a new block keeps what it had, so a new file starts with old bytes;
- a reading with the cursor at the end of the first block reads elsewhere, further on the
  process falls (`funcionesFS.h:263`); reading or writing past the blocks of the file falls too;
- the size in the metadata grows with every write, overwriting included; nothing reads it.

In the CPU:

- FIFO counts instructions against those of the code, a jump adds those behind its label, and
  the count starts anew with each dispatch: a program with calls backwards may reach it,
  and the CPU then waits for another process with this one in its hands (`AgotarCuenta`; `UnSoloPcb` allows exactly that);
- `alocar` or `abrir` to a name that is not there, when the Kernel refuses, sets a second interruption
  over the refusal, and the CPU sends an order where the Kernel waits for a PCB; an `alocar` that was granted
  and whose answer has no value may do the opposite. `KernelAtendido` names the two
  instructions, and says that the process does not go on after them;
- a signal between the order of a PCB and `procesoFinalizado = 0` closes the CPU with the
  process, which is lost (`UnSoloPcb` allows exactly that);
- the argument of a call that finds the stack full is written at position 0, over the code, and
  the process ends with its stack overflow; `return` in the main function does the same and is not modelled;
- a wrong access gives the exit code of a stack overflow;
- an instruction of more than two pages, or that cannot be read, passes NULL to the
  parser (`ManejoInstrucciones.h:17`); `TextoBienFormado` assumes that no instruction is that long;
- values keep four characters: those outside -999..9999 lose digits, and are not modelled.

## Proofs

`Propiedades_proofs` proves, for every value of the constants that satisfies `ConstantesOK`
(any number of programs, CPUs and semaphores, any set of kills, pauses, changes, closing
CPUs and refusals):

| theorem | states |
|---|---|
| `Invariante` | `Spec => []IInv` |
| `Tipos` | `Spec => []TypeOK`: in particular only `colaListos` ever holds the NULL of a process that was not found |
| `TokensDeListos` | `Spec => []TokensListos`: `sem_procesoListo` counts `colaListos` up to the operations in progress |
| `NuncaSinListos` | `Spec => []ListosParaElToken`: `list_remove(colaListos, 0)` never meets an empty list |

The argument. `TokensListos` is not inductive alone. A kill that waits for its token has
taken a process out of the list already; that it is *one* kill follows from `DuenioDeListos`,
the kill at `sem_wait` is the holder of `mutexColaListos`. Types are not inductive alone
either: that what is appended to a list is a pid needs that whoever has a process in its
hands has one, and that the main thread is at an operation its handler has (`ConProceso`).
`IInv` is the conjunction; there is a lemma per action (`Paso...`) and one per frame they
share (`OperacionIInv`, `CortoIInv`, `LargoIInv`, `FinIInv`, `MataIInv`); `Inductivo` joins
them. `NuncaSinListos` is the consequence: behind `sem_wait` and with the mutex free the sum
leaves at least one process (`HayListo`). The lemmas on `RemoveAt` and `RemoveFirst` are
proved from the definitions of the community modules, in `LemasListas`.

The second part of the module goes on from `IInv` to where the processes are, under the same
`ConstantesOK`:

| theorem | states |
|---|---|
| `Lugar` | `Spec => []IInvLugar` |
| `CadaProcesoEnUnLugar` | `Spec => []UnSoloLugar`: every PCB is in one list, one CPU or the hands of one thread, once, and the only process in none is one in the socket of a closed CPU |
| `SoloSePierdeAlEnviar` | `Spec => SePierdeAlEnviar`: a process is lost in that way only while the dispatcher sends it, or before its CPU has read it |
| `GradoDeMultiprogramacion` | `Spec => []GradoExacto`: the degree counts the processes with a table of files |
| `EjecucionEnCola` | `Spec => []EjecucionRegistrada`: a CPU has only processes that are in `colaEjecucion`, once the dispatcher noted them |
| `PlanificacionImplementaCiclo` | `Spec => ImplementaCiclo`: the scheduler implements `CicloDeVida` |

`UnSoloLugar` follows from `UnaCopia`, a sum over every list, CPU and thread with the closed CPUs
among them, since who is in a closed CPU is in no other place. `UnaCopia` is not inductive for three reasons,
the three other parts of `IInvLugar`. The dispatcher that sends a PCB to a CPU would
overwrite one, unless whom `listaCPU` calls idle has none: the handlers mark a CPU
idle after they took its process, and `GestionarCierreCpu` drops what a closed CPU had
(`CpuOciosaVacia`). A kill that the main thread runs for a console would be counted with the
handler in whose middle it was, if there were one (`MataEnSuRutina`). And a process that is
terminated must not be one that waits for admission (`TablasDeAdmitidos`), which is also what
`GradoExacto` needs: each of the three threads that lower the degree takes a table away,
and only the admitter adds one. `SumaDeCopias` splits the sum into its parts, and
the lemmas per action say which two parts change.

The refinement of `CicloDeVida` is proved from that sum. Since a process is in one place, its
place is a function of it (`Sitio`, `SitioUnico`), and its abstract state is a function of its
place (`EstadoPorSitio`, `DeSitio`). Every step of the code moves at most one process, from one
place to the next of the 19 moves in `Recorre` (`AvanzaSiempre`: one lemma per thread), and leaves
the others where they were (`SoloEl`). What is left is that each move is a step of the cycle or
none of its business (`MoverEsCiclo`, `AdmitirEsCiclo`, `TerminarEsCiclo`): most are a comparison
of places, four need more. A program arrives with the pid after the last. The admission
takes the *oldest* program, because `colaNuevos` grows by its end and kills only take from it
(`NuevosEnOrden`); and there is room *when the table is made*, a step after the degree was
looked at, because the change of the degree needs `mutexNuevoProceso`, which the admission
holds, and everything else only lowers what is in use (`LugarParaAdmitir`, from `DuenioDeNuevos`). A CPU
is given when one has no process, so fewer run than there are CPUs (`CabeOtro`). The three
invariants are `IInvCiclo`, inductive relative to `IInv`.

`PropiedadesTokens_proofs` proves the counts of the other semaphores. Where a hypothesis
on the environment is named, it is an `ASSUME` of the theorem, and a run shows or the section
above says how the code breaks the count without it:

| theorem | hypothesis | states |
|---|---|---|
| `ReanudarDespiertaATodos` | none | `ReanudarDespierta`: while the planning is on, who waits for `sem_planificacion` has a token |
| `ColaDeSemaforoAcotada` | none | `ValorAcotaBloqueados`: a list of a semaphore is no longer than its value says |
| `EsperaSinPausas` | no pauses | `EsperaAtendida`: a process in `listaEspera` has a token that brings it to its end |
| `AdmisionSinPausas` | no pauses, no change of the degree, no refusals of Memoria | `AdmisionPendiente`: a new process with room in the degree has a token, or one under way |
| `TokensDeCPU` | no CPU closes | `TokensCPU`: `sem_CPU` counts the idle CPUs |
| `ValorDeSemaforo` | no kills, no initial value below 0 | `ValorCuentaBloqueados`: the value is minus the length of the list |
| `BloqueadoEsperaUnSemaforo` | no kills | `BloqueadosEnSemaforo`: the lists of the semaphores and `colaBloqueados` have the same processes |
| `SoloPuedeFaltarElCodigo` | no kills, closing CPUs, refusals | `SoloFaltaCodigo`: no thread follows a NULL but the admitter without the code |
| `CalmaDelPlanificador` | all of the above | `IInvQuieta`: the parts that the others rest on, together |

A pause spends the tokens of ends and admissions for nothing; a raised degree
posts once whatever the difference; a refused program ends without a table of files, and the
Kernel falls; a closing CPU leaves its token behind; a kill takes a process from the list of
a semaphore without touching the value. With the hypotheses the counts survive everything
else: the other theorems of the table keep kills, or pauses, or closing CPUs where they do
not name them.

The arguments. *`EsperaAtendida`*: the round over `listaEspera` skips every second process, so
one round may leave half of them. What covers them is that every process that enters posts a
token, a round that began with a process takes at least one, and who waits at the mutex will
(`EsperaContada`: the length of the list is at most the tokens and the round to come).
*`AdmisionPendiente`*: a token that finds the degree taken is spent, so tokens may be
fewer than processes; what is kept is that they are enough for the processes *or* for the
free places (`AdmisionContada`), and the end of a process adds one place and one token.
`AdmitirCubierto` has the disjunction as one comparison of integers, which the provers take.
*`TokensCPU`* needs that no CPU counts as idle twice, from `CpuOciosaVacia`.
*`ValorAcotaBloqueados`* counts the process on its way to the list (`ValorCubreBloqueo`).
*`BloqueadosEnSemaforo`* needs that a process is in one semaphore, in one place of it
(`EsperasEnOrden`), which comes from `UnaCopia`: who waits cannot run, so cannot wait again.
*`SoloFaltaCodigo`* is the sum of them: a token of `sem_CPU` finds an idle CPU by `TokensCPU`, the
dispatcher has a process by `TokensListos` and no NULL got into `colaListos`
(`SinNulosAlEnviar`) because a signal finds its process by `BloqueadosEnSemaforo`; who is
terminated was admitted and has its table (`ConDestino`).

Of the tables of the Kernel, `PropiedadesArchivos_proofs` proves, for any processes, paths, flags and bounds that satisfy
`ArchivosAssumption`, with `FinInterrumpe` or without:

| theorem | states |
|---|---|
| `InvarianteArchivos` | `Spec => []IInvArchivos`: the types, `RecorridoEnTabla` and `PedidoDeVivo` |
| `RecorridoSeguro` | `Spec => []RecorridoEnTabla`: the walk that ends a process never asks for an entry past the end of its table |
| `AperturasSinPerdidas` | if `Pids` is finite, `Spec => []AperturasContadas`: what the global table counts is the number of descriptors |

The walk counts its rounds against the size of the table and moves its index by at most one
per round. That this is enough needs that nobody shortens the table meanwhile, though the
main thread takes entries from tables without a mutex: who asks is alive, and is not ended
in the middle of its request (`PedidoDeVivo`). `CorridosTipo`, the lemma on the updating of the
indices, gives that they stay at least 1 and the tables as long as they were.

`AperturasContadas` is one sum over the entries of the global table against one over the
processes, with what is under way: an opening that was counted and not registered, a walk that
owes one opening for each round it has still to go. Which entry an index leads to does not
matter for it: every opening adds 1 somewhere, every close takes 1 from an entry that is there,
and an entry that goes has come to 0. So the count stays right through the moves that put the indices wrong
(`SinOtroDesacuerdo` names them).

A sum is a fold over a finite set, and the steps need that it can be taken in any order.
`LemasListas` proves it without induction over data: `SubconjuntoMinimo` gives a smallest
subset where a fact fails, which a set without one element contradicts. `SumaQuita`,
`SumaCambia`, `SumaMas` and `SumaMismos` are what the modules cite.

`PropiedadesMemoria_proofs` proves, for any processes, connections, numbers of frames and
entries, with requests at once or in turns, that satisfy `MemoriaAssumption`:

| theorem | states |
|---|---|
| `InvarianteMemoria` | `Spec => []IInvMemoria` |
| `TablaSiempreFiel` | `Spec => []TablaFiel`: no frame has two owners, pages are numbered from 0 without gaps |
| `PedidoConFrames` | `Spec => []SiempreHayFrame`: a granted request finds a frame in each round |
| `CupoRespetado` | if the operator of the Kernel reads no pages, `Spec => []CupoDeCache` |
| `EntradaPorActualizar` | if requests come in turns (`DeAUna`), `Spec => []EntradaSigue`: the entry a write found is there when it is updated, but for a flush of the operator |
| `MemoriaImplementaPaginas` | if `CacheXProc = 0`, as `config_Memoria` ships it, `Spec => ImplementaPaginas`: without cache, Memoria implements `MemoriaDePaginas` |

The table. Frames are counted once for a request and taken one by one, so what is left of
the request has to be covered by what is free (`FramesParaElPedido`): only the connection
of the Kernel takes frames, the others can only leave more free. A new page gets as number how many its process
has, which is new because the numbers in use are exactly those below (`DaFrame`).
The cache. A thread that counted has room (`elegir`), and one that chose an entry has room
apart from that entry (`ponerPid`), because no other thread works for its process
(`UnoPorProceso`); whatever others take or erase meanwhile only takes entries away from it.
`CambiaHilo` carries the steps that change one thread only, `CambiaTabla` those of the
table, `MenosEnCache` those that erase.

`EntradaSigue` is about a search that lets go of the cache before the update. In turns, one
connection at most is in a request (`UnaSola`), and while it is on its way to the update the entry it
found is in the cache or the operator emptied it (`EntradaHallada`). Requests at once do take
entries from each other; the theorem does not speak of them.

The refinement without cache rests on one more invariant, `IInvSinCache`: a share of 0 entries
keeps the cache empty, so every access goes to the frames; nobody asks for a page of a process
while it is being given pages; a write that found no frame is one whose page does not exist. Then:

- *A page that exists is found.* The search starts at the hash and looks at every frame up to where
  it started. Pages are numbered without gaps and each has one frame, so a page below
  the number of pages of its process is in some frame (`HayPagina`, by counting), and the
  search finds that frame wherever it starts (`SeEncuentra`).
- *A refusal is right.* The frames of all the processes and the free ones add up to all but
  those of the table itself (`FramesRepartidos`, `OcupadasSon`, over `SumaDeClases` of `LemasListas`), so
  the free ones are what the abstract memory has left.
- *A grant is one step.* Its rounds take a frame each; the abstract memory gives all the
  pages at the last (`SeVeRonda`). Nobody else asks, and nobody reads the new pages before.
- Every other step is one step of `MemoriaDePaginas` or none (`PasoDePaginas` puts the lemmas `SeVe...`
  and `NoSeVe` together).

Of the FileSystem, `PropiedadesArchivos_proofs` proves, for any files, bytes, cursors, requests, and any number and
size of blocks that satisfy the assumption of `SistemaArchivos`:

| theorem | states |
|---|---|
| `InvarianteSistema` | `Spec => []IInvSistema`: `TiposSistema`, `BitmapFiel`, `UnDuenio`, `RepetidosJuntos` |
| `SistemaImplementaAlmacen` | `Spec => ImplementaAlmacen`: the FileSystem implements `Almacen`, files of bytes |

A write that lengthens a file lists the last free block that the search found as many times
as it wants blocks. That block was free, so in no file by `BitmapFiel`, and it goes to the end
of one list: it meets no other file (`UnDuenio`) and repeats only with itself
(`RepetidosJuntos`). `ListaAlargada` and `NuevaLista` are these facts, also for requests that
find fewer blocks than they want. That a deletion frees exactly what the other files do not
have needs `UnDuenio`. Most of the work is in the types: that a piece of a request, a block
written in its middle and the streams flushed at the end stay within the size of a block
(`TrozoEnBloque`, `EscritoEnBloque`, `VolcadosEnBloques`).

The refinement needs no more than `IInvSistema`. A position is one byte of one block
(`UnLugar`, `Antes`), so what happens to a file is what happens to its blocks:

- *Other files* (`ArchivoIntacto`). A request writes blocks of its own file or one that was free, and
  opens streams of blocks of its own file: by `UnDuenio` and `BitmapFiel` none is of another.
  A stop writes only blocks with a stream, whose positions were in doubt
  (`VolcadoSinStreams`).
- *A read* from the first block: its two pieces are the positions that follow one another
  (`LeidoEnSuLugar`).
- *A write* (`EscrituraAbstracta`). In the block of the cursor it leaves its bytes in
  their places and the others as they were (`EscritoEnElDelCursor`). Every later
  block of the file with a byte to write has a stream, so it is in doubt (`StreamsPosteriores`);
  a block of before the cursor with a stream is one that was twice in the file and in doubt already.
  The new blocks are enough (`BuscaSuficientes`), in doubt if they are more than one,
  and one alone gets exactly the bytes past the others (`NuevoEnSuLugar`).

`PropiedadesHeap_proofs` proves, for any processes, sizes of page, of metadata and of request,
and any number of frames that satisfy `HeapAssumption`:

| theorem | states |
|---|---|
| `InvarianteHeap` | `Spec => []IInvHeap` |
| `SiempreMetadatas` | `Spec => []SoloMetadatas`: where the Kernel reads metadata there is metadata |
| `HeapImplementaAsignador` | `Spec => ImplementaAsignador`: the heap implements `Asignador` |
| `CompactacionCompleta` | `Spec => []Compactada`: a page that is searched has no two free blocks together but at its very end |
| `CuentasDeLosQueViven` | `Spec => []CuentaExacta`: the accounts of a program that has not ended are its used blocks and their bytes, with the refused request on top if one ended it |
| `ListaAdmExacta` | `Spec => []LibreExacto`: a page has one entry in `listaAdmHeap`, which says how much of it is free |

The blocks of a page tile it (`PaginasTeseladas`), and splits and joins keep it so
(`PartirTesela`, `JuntarTesela`), provided what they work on is metadata. For the join that is
the question: the loop of a compaction is decided by the size of the block of the round
before, 0 in the first, and reads the next block. On a page that is one block it would read
past the end. No page is one block when a compaction begins (`PaginasPartidas`): a request cuts
the page it got, a search cuts the page that its compaction left whole, since the block is
always enough (`~Demasiado` in `LugarEnPagina`), and a later round has the size of the block it
is at. So `HayOtro`: while the loop goes on there is a next block. The end of another process
takes pages and entries meanwhile, but never of the process that the main thread works for
(`TiposHeap`, `LiberarRecursosConserva`).

The refinement follows from it step by step (`PasoDelAsignador`). What is reserved is the set
of used blocks. A join and a new page take none and give none (`MismasReservas`), so they
stutter; a split adds one block, that lies apart from the others because the page is still
tiled (`ReservasAparte`); a release takes the block of its pointer and no other; the end of
a process takes all of its own. That the size is one a program asked for is `TamPedido`.

`Compactada` speaks of the search; what a round of the compaction keeps is that no two free
blocks lie together *behind* the one it is at (`CompactadaHasta`), and the loop ends
when one more block has no room after it.

The sums. `CuentaExacta`: a split adds a block and its bytes to the account and to the page, a
release takes both, a join moves bytes between free blocks only (`PartirBloqueUsados`,
`LiberarBloqueUsados`, `CompactarUsados`). `LibreExacto` needs more (`IInvEntradas`).
That a page has *one* entry (`EntradasUnicas`) has to survive a new page: its number must be in no
entry yet, which follows from `EntradasAdmitidas`, the entries of a process have numbers below
what is counted, until the page is counted in the same step; and the page must be all free
when its entry says so, though Memoria gave it a step earlier (`NuevaPagina`). What a join
adds to the free bytes of a page is a metadata (`LibreAlJuntar`), what a split takes is the block
and a metadata (`LibreAlPartir`), what a release gives is the block (`LibreAlLiberar`); each is
in progress until `SumarLibre` writes it in the entry. `DestruirEntrada` moves the
entries behind the one it takes, and takes those of one process only, that ends. The mutex that
`verificarEspacioLibreHeap` lets go of too early does not matter for these sums, since who
changes an entry looks for it from the start of the list.

`PropiedadesCPU_proofs` proves, for any programs that satisfy `ProgramasBienFormados`, and any
quantums, sizes of page and of stack, arguments and answers to `alocar` that satisfy `CPUAssumption`:

| theorem | states |
|---|---|
| `CPUAlcanzaElFinal` | `Spec => []IInvCuenta`: `IInvPcb`, `CuentaAlcanza`, `UnSoloPcb` |
| `CPUDevuelveElPcb` | `Spec => []UnSoloPcb`: a CPU that waits, or that a signal closed since it started the process, has given the PCB back, recursion under FIFO aside |
| `KernelNuncaDesincronizado` | `Spec => []KernelAtendido`: orders and raw PCBs come when the Kernel waits for them, but after an `alocar`, or an `abrir` to a missing name, that ends the process |
| `PilaSinSolapar` | `Spec => []SinSolapar`: no value of the stack lies over another |
| `BufferExacto` | `Spec => []TamanioExacto`: the buffer of a PCB has the size of what is written in it |
| `PcbLlegaEntero` | `Spec => [](deserializarPcb(serializarPcb(PcbActual)) = PcbActual)` |

What is assumed of a program (`ProgramasBienFormados`) is what a compiled AnSISOP text has and nothing
in the code of the CPU looks for: labels and index are of the text and no two instructions have the
same place in it; "begin" starts with its variables; a routine is left by END, a return or a
call, so what follows any other instruction is of the same routine; a jump stays in its
routine; "begin" is not called and does not return; no instruction is longer than two pages. A name
or a label that is not there is allowed anywhere, and recursion too. TLC evaluates it for the programs of `MCCPU`.

*The message* (`PcbViaja`). Where each field lies is known by its position (`CamposDePcb`): the
fields of an index are two by instruction, the nodes of the stack start where the previous ones end, and
the reader's function of those starts is the writer's, by induction over the nodes with the
sets of positions below a bound instead of a predicate (the library's rule for predicates is out of
reach). Sizes add up in the same induction.

*The stack* (`SinSolapar`). That no two values overlap would not survive a step: a new one goes
behind the last of the last node that has any, so the property orders the values over all
the nodes (`EnOrden`), which a push extends (`ApilarEnOrden`) and a return cuts (`QuitarEnOrden`).

*The interruptions* (`KernelAtendido`). An instruction that the Kernel refused must end with that
interruption (`Ejecutada`). `wait` and the other requests do nothing after it. After a refused `alocar` or `abrir` the CPU still
assigns, and if the name is not in the frame that puts `EXCEPCION_MEMORIA` over the refusal; an `alocar`
may also end with a refusal that the Kernel does not know of. After either the CPU holds an
interruption that ends the process, so no other instruction runs before the PCB goes
(`Terminado`), and everything that the theorems say of the stack is of a process that is not over.
That every frame is in its routine (`PilaEnRutinas`) is kept through calls, whose frame
waits at the call, and returns, that go back behind it.

*The count of FIFO* (`UnSoloPcb`). The CPU leaves its loop when it has counted as many instructions as
the code has, plus, for each jump and call, those behind the label; what a return goes back to is added
nowhere. That this is enough without recursion is `CuentaAlcanza`: what is counted plus
what is left does not pass the limit, where what is left is, for every frame, the instructions
from where it is to the end of its routine (`Resto`, `Faltan`). Without a call backwards the
frames lie in routines one behind the other (`EnAscenso`), so their rests are disjoint pieces of the
code and a dispatch, that counts from 0, has enough (`FaltaLoQueHay`); a step forward lowers the
rest by one (`CuentaAvanza`), a jump adds to the limit all that it can add to the rest
(`CuentaSalta`), a call adds a frame whose rest is part of what the call adds to the limit
(`CuentaLlama`), a return drops one (`CuentaVuelve`).

`PropiedadesPrograma_proofs` proves, under the same assumptions and `ValoresAssumption`:

| theorem | states |
|---|---|
| `CPUFielAlPrograma` | `Spec => []IInvCPU`: `IInvCuenta` and `PilaFiel` |
| `CPUImplementaPrograma` | `Spec => ImplementaPrograma`: the CPU implements `ProgramaAnsisop` |

Two parts of `ProgramasBienFormados` are needed here only. A routine declares a name once, and no jump
goes back over a declaration (`NombresUnaVez`): the CPU looks for nothing of the kind and
would push a second variable of that name, which no search finds, so a frame would not be
a function of names. And values come from `Valores`, with the addresses and `Basura` among them
(`ValoresAssumption`, `ValoresConocidos`), so that what is written is a value of the program.

A frame of the program is names with values, and where the program returns to; a node of
the PCB is names with addresses, the values are in `memoria`. `MarcosDe` reads one through the other, and the
proof has to show that it reads as the program would. That needs more than `SinSolapar`
(`PilaFiel`):

- a name is in its node once, and was declared at an earlier line of its routine (`Declarados`): so a
  declaration adds names that are new, and a search has one answer (`DireccionUnica`, `Hallado`);
- where a call writes its result is the address of a name of the frame that waits (`Destinos`), so the
  frame of the program knows which (`DestinoDelMarco`);
- the values fill the pages of the stack one after the other, in the order of the nodes (`EnFila`):
  so the place after the last value is as many places in as there are values
  (`NumeroDelSiguiente`), and the stack is full for the CPU exactly when the values are
  as many as `Capacidad`, however many nodes are empty and wherever a page ends.

Each instruction is then a step of the program (`InstruccionCorresponde`): a write in the place of one name
leaves the other names as they were, in all frames (`MarcosEscritos`); a call pushes a node and
defines its argument (`LlamadaCorresponde`), or runs out of stack half way, with the exit code of
the program; a return drops the last frame and writes into the one before
(`MarcosVuelven`); a line of variables is as many definitions as it has names, by induction on how many
fit (`VariablesHasta`). The values that a return leaves in the pages are of no name, and a later
definition finds them in its place (`MemoriaAlDefinir`): a new variable of the program has
any value. What the Kernel and
the CPU do between instructions, with the PCB on its way included, keeps the frames and
the counter (`MoverSigue`), so it stutters; the ends are where the program ends or is ended
(`ProgramaAlTerminar`).

Only model-checked: the liveness properties (the prover has no rule for fairness); of the files,
`SinOtroDesacuerdo` and `BorraSoloElUnico`; the refinement of `MemoriaDePaginas` with cache, which the run shows
for its instance. All safety invariants of the scheduler, of the
heap, of Memoria, of the FileSystem and of the CPU that the runs check are proved. `TypeOK`, `TokensListos`, `RecorridoEnTabla`, `TablaFiel`, `SiempreHayFrame` and
`SoloMetadatas` are parts of the inductive invariants that the runs check; so is everything
in `IInvQuieta`.

## Not modelled

The text of messages, configuration, logs, listings and the screen: they carry no decision.
Shared variables and printing are one read, write or message of the main thread. The double release of a block,
which the code does not look for. The commented-out medium-term planner and the second
copies of the FileSystem's functions never run. The listener of Memoria's connections and the
threads of the Consola are in the plan.

## Plan

1. `Semaforos`: the abstract AnSISOP semaphore, implemented by `semaforosAnsisop.h`.
2. `OrdenDeCandados`, the lock order of listings and heap requests; the listener of Memoria; `Consola`.
3. Theorems: the refinement of `MemoriaDePaginas` with cache and turns.
