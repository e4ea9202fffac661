------------------------------- MODULE Archivos -------------------------------
(***************************************************************************)
(* The file layer of the Kernel (capaFilesystem.h): a global table of open *)
(* files, a table of descriptors per process that points into it by        *)
(* position, and the requests the main thread serves one at a time. Other  *)
(* threads end processes meanwhile and walk the same tables, without a     *)
(* mutex (destruirTablaArchivosYActualizarTablaGlobal).                    *)
(*                                                                         *)
(* A step is one call of a helper of the tables. The calls to the          *)
(* FileSystem are synchronous and only the main thread makes them, so they *)
(* belong to the step they are next to. Positions count from 1.            *)
(***************************************************************************)
EXTENDS Integers, Sequences, SequencesExt, FiniteSets

CONSTANTS
  Pids,             \* processes with their files
  Rutas,            \* paths
  Banderas,         \* flags a program may open with, sets of "c", "r", "w"
  Existentes,       \* the files there are at the start
  Posiciones,       \* where a program may put a cursor
  MaxAbiertos,      \* bound: descriptors a program keeps at a time
  MaxEntradas,      \* bound: entries of the global table
  MaxOpen,          \* bound: openings an entry counts
  FinInterrumpe     \* whether a process may end in the middle of a request

ASSUME ArchivosAssumption ==
  /\ Banderas \subseteq SUBSET {"c", "r", "w"}
  /\ Existentes \subseteq Rutas
  /\ Posiciones \subseteq Nat
  /\ MaxAbiertos \in Nat /\ MaxEntradas \in Nat /\ MaxOpen \in Nat
  /\ FinInterrumpe \in BOOLEAN

VARIABLES
  tablaGlobal,   \* tablaArchivosGlobal, a sequence of [ruta, open]
  tablas,        \* tablaProceso of each pid; archivo is history: the path the
                 \* entry was opened with, which no step reads
  estado,        \* of each process: before its table, alive, being ended, ended
  fin,           \* i and cont of the walk that ends each process
  pedido,        \* the request the main thread is in the middle of
  existentes,    \* the files the FileSystem has
  fallo          \* why the Kernel fell over a NULL

vars == <<tablaGlobal, tablas, estado, fin, pedido, existentes, fallo>>

Descriptores == 3..(2 + MaxAbiertos)
Libre == [paso |-> "libre"]
Anda == fallo = "ninguno"

\* Positions of a descriptor in the table of its process and of a path in the
\* global table; the searches stop at the first or keep the last of them.
ConFd(p, fd) == {k \in DOMAIN tablas[p] : tablas[p][k].fd = fd}
DeRuta(r) == {i \in DOMAIN tablaGlobal : tablaGlobal[i].ruta = r}
Primera(S) == CHOOSE i \in S : \A j \in S : i <= j
Ultima(S) == CHOOSE i \in S : \A j \in S : j <= i
Lugar(p, fd) == Primera(ConFd(p, fd))

\* The helpers look at an entry by removing it and adding it at the end.
AlFinal(s, i) == Append(RemoveAt(s, i), s[i])
Visto(p, i) == [tablas EXCEPT ![p] = AlFinal(@, i)]

Init ==
  /\ tablaGlobal = <<>>
  /\ tablas = [p \in Pids |-> <<>>]
  /\ estado = [p \in Pids |-> "nuevo"]
  /\ fin = [p \in Pids |-> [i |-> 1, cont |-> 0]]
  /\ pedido = Libre
  /\ existentes = Existentes
  /\ fallo = "ninguno"

Caer(motivo) == fallo' = motivo

\* The error paths take the process from its CPU and leave it to be ended.
Excepcion(p) == estado' = [estado EXCEPT ![p] = "terminando"]

\* A process that is executing may ask when the main thread is free.
Pide(p) == Anda /\ pedido = Libre /\ estado[p] = "vivo"

-----------------------------------------------------------------------------
(* Global table                                                            *)

\* Behind the removed position g every index moves up by one (mutants first: no
\* update of the tables, and one that takes the removed position too).
SinCorrer(g) == tablas
CorridosDesde(g) ==
  [p \in Pids |-> [k \in DOMAIN tablas[p] |->
     [tablas[p][k] EXCEPT !.indice = IF @ >= g THEN @ - 1 ELSE @]]]

Corridos(g) ==
  [p \in Pids |-> [k \in DOMAIN tablas[p] |->
     [tablas[p][k] EXCEPT !.indice = IF @ > g THEN @ - 1 ELSE @]]]

EsUltimoPronto(g) == tablaGlobal[g].open <= 2
EsUltimo(g) == tablaGlobal[g].open = 1

Disminuir(g) ==
  \/ /\ g \notin DOMAIN tablaGlobal
     /\ Caer("sinEntrada")
     /\ UNCHANGED <<tablaGlobal, tablas>>
  \/ /\ g \in DOMAIN tablaGlobal /\ ~EsUltimo(g)
     /\ tablaGlobal' = [tablaGlobal EXCEPT ![g].open = @ - 1]
     /\ UNCHANGED <<tablas, fallo>>
  \/ /\ g \in DOMAIN tablaGlobal /\ EsUltimo(g)
     /\ tablaGlobal' = RemoveAt(tablaGlobal, g)
     /\ tablas' = IF Len(tablaGlobal) > 1 THEN Corridos(g) ELSE tablas
     /\ UNCHANGED fallo

-----------------------------------------------------------------------------
(* Opening                                                                 *)

PasoAbrir(paso, p, r, flags) ==
  pedido' = [paso |-> paso, pid |-> p, ruta |-> r, flags |-> flags, indice |-> 0]

PedirAbrir(p, r, flags) ==
  /\ Pide(p) /\ Len(tablas[p]) < MaxAbiertos
  /\ \/ /\ r \notin existentes
        /\ \/ Excepcion(p) /\ UNCHANGED <<pedido, existentes>> \* no "c", or no block left
           \/ /\ "c" \in flags
              /\ existentes' = existentes \cup {r}
              /\ PasoAbrir("agregar", p, r, flags)
              /\ UNCHANGED estado
     \/ /\ r \in existentes
        /\ PasoAbrir(IF DeRuta(r) = {} THEN "agregar" ELSE "buscar", p, r, flags)
        /\ UNCHANGED <<estado, existentes>>
  /\ UNCHANGED <<tablaGlobal, tablas, fin, fallo>>

Agregar ==
  /\ Anda /\ pedido.paso = "agregar"
  /\ Len(tablaGlobal) < MaxEntradas
  /\ tablaGlobal' = Append(tablaGlobal, [ruta |-> pedido.ruta, open |-> 0])
  /\ pedido' = [pedido EXCEPT !.paso = "aumentar", !.indice = Len(tablaGlobal) + 1]
  /\ UNCHANGED <<tablas, estado, fin, existentes, fallo>>

\* The search keeps the last match, and the first position when there is none.
BuscarIndice ==
  /\ Anda /\ pedido.paso = "buscar"
  /\ pedido' = [pedido EXCEPT !.paso = "aumentar",
       !.indice = IF DeRuta(pedido.ruta) = {} THEN 1 ELSE Ultima(DeRuta(pedido.ruta))]
  /\ UNCHANGED <<tablaGlobal, tablas, estado, fin, existentes, fallo>>

\* The entry is counted and goes to the end of the table.
Contada(i) == AlFinal([tablaGlobal EXCEPT ![i].open = @ + 1], i)

AumentarOpen ==
  /\ Anda /\ pedido.paso = "aumentar"
  /\ \/ /\ DeRuta(pedido.ruta) = {}
        /\ Caer("sinEntrada")
        /\ UNCHANGED <<tablaGlobal, pedido>>
     \/ /\ DeRuta(pedido.ruta) # {}
        /\ tablaGlobal[Primera(DeRuta(pedido.ruta))].open < MaxOpen
        /\ tablaGlobal' = Contada(Primera(DeRuta(pedido.ruta)))
        /\ pedido' = [pedido EXCEPT !.paso = "registrar"]
        /\ UNCHANGED fallo
  /\ UNCHANGED <<tablas, estado, fin, existentes>>

NuevoFd(p) == Len(tablas[p]) + 3

ActualizarTabla ==
  /\ Anda /\ pedido.paso = "registrar"
  /\ tablas' = [tablas EXCEPT ![pedido.pid] =
       Append(@, [fd |-> NuevoFd(pedido.pid), flags |-> pedido.flags,
                  indice |-> pedido.indice, puntero |-> 0, archivo |-> pedido.ruta])]
  /\ pedido' = Libre
  /\ UNCHANGED <<tablaGlobal, estado, fin, existentes, fallo>>

-----------------------------------------------------------------------------
(* Closing and deleting                                                    *)

\* The path is history, as in the entries.
PasoIndice(paso, p, e) ==
  pedido' = [paso |-> paso, pid |-> p, ruta |-> e.archivo, indice |-> e.indice]

\* The descriptor is not open: the process is ended.
NoAbierto(p, fd) ==
  /\ ConFd(p, fd) = {}
  /\ Excepcion(p)
  /\ UNCHANGED <<tablas, pedido>>

Cerrar(p, fd) ==
  /\ Pide(p)
  /\ \/ NoAbierto(p, fd)
     \/ /\ ConFd(p, fd) # {}
        /\ PasoIndice("disminuir", p, tablas[p][Lugar(p, fd)])
        /\ tablas' = [tablas EXCEPT ![p] = RemoveAt(@, Lugar(p, fd))]
        /\ UNCHANGED estado
  /\ UNCHANGED <<tablaGlobal, fin, existentes, fallo>>

CerrarGlobal ==
  /\ Anda /\ pedido.paso = "disminuir"
  /\ Disminuir(pedido.indice)
  /\ pedido' = Libre
  /\ UNCHANGED <<estado, fin, existentes>>

PedirBorrar(p, fd) ==
  /\ Pide(p)
  /\ \/ NoAbierto(p, fd)
     \/ /\ ConFd(p, fd) # {}
        /\ PasoIndice("verificar", p, tablas[p][Lugar(p, fd)])
        /\ tablas' = Visto(p, Lugar(p, fd))
        /\ UNCHANGED estado
  /\ UNCHANGED <<tablaGlobal, fin, existentes, fallo>>

\* A file that somebody else has open is neither deleted nor closed.
EnUsoPorDos(g) == tablaGlobal[g].open > 2
EnUso(g) == tablaGlobal[g].open > 1

VerificarBorrable ==
  /\ Anda /\ pedido.paso = "verificar"
  /\ \/ /\ pedido.indice \notin DOMAIN tablaGlobal
        /\ Caer("sinEntrada")
        /\ UNCHANGED <<pedido, estado>>
     \/ /\ pedido.indice \in DOMAIN tablaGlobal
        /\ IF EnUso(pedido.indice)
           THEN Excepcion(pedido.pid) /\ pedido' = Libre
           ELSE pedido' = [pedido EXCEPT !.paso = "borrar"] /\ UNCHANGED estado
        /\ UNCHANGED fallo
  /\ UNCHANGED <<tablaGlobal, tablas, fin, existentes>>

\* One byte of the answer is read into an int that has no value: whether it is
\* negative says nothing of what the FileSystem did. The tables stay as they are.
Borrar ==
  /\ Anda /\ pedido.paso = "borrar"
  /\ \/ /\ pedido.indice \notin DOMAIN tablaGlobal
        /\ Caer("sinEntrada")
        /\ UNCHANGED <<pedido, estado, existentes>>
     \/ /\ pedido.indice \in DOMAIN tablaGlobal
        /\ existentes' = existentes \ {tablaGlobal[pedido.indice].ruta}
        /\ pedido' = Libre
        /\ Excepcion(pedido.pid) \/ UNCHANGED estado
        /\ UNCHANGED fallo
  /\ UNCHANGED <<tablaGlobal, tablas, fin>>

-----------------------------------------------------------------------------
(* Reading, writing, moving the cursor                                     *)

\* Looks at the entry, checks the permission and asks the FileSystem for the path
\* at its index. A file that is gone is refused, and so may a write be for blocks.
Acceder(p, i, permiso, siempre) ==
  /\ tablas' = Visto(p, i)
  /\ LET e == tablas[p][i] IN
     \/ permiso \notin e.flags /\ Excepcion(p) /\ UNCHANGED fallo
     \/ /\ permiso \in e.flags /\ e.indice \notin DOMAIN tablaGlobal
        /\ Caer("sinEntrada") /\ UNCHANGED estado
     \/ /\ permiso \in e.flags /\ e.indice \in DOMAIN tablaGlobal
        /\ \/ tablaGlobal[e.indice].ruta \in existentes /\ UNCHANGED estado
           \/ (tablaGlobal[e.indice].ruta \notin existentes \/ ~siempre) /\ Excepcion(p)
        /\ UNCHANGED fallo

Leer(p, fd) ==
  /\ Pide(p)
  /\ \/ NoAbierto(p, fd) /\ UNCHANGED fallo
     \/ ConFd(p, fd) # {} /\ Acceder(p, Lugar(p, fd), "r", TRUE)
  /\ UNCHANGED <<tablaGlobal, fin, pedido, existentes>>

\* Without an open descriptor the error is reported and the code goes on with it.
Escribir(p, fd) ==
  /\ Pide(p)
  /\ \/ NoAbierto(p, fd) /\ Caer("entradaNula")
     \/ ConFd(p, fd) # {} /\ Acceder(p, Lugar(p, fd), "w", FALSE)
  /\ UNCHANGED <<tablaGlobal, fin, pedido, existentes>>

Movido(p, i, posicion) ==
  [tablas EXCEPT ![p] = AlFinal([tablas[p] EXCEPT ![i].puntero = posicion], i)]

MoverCursor(p, fd, posicion) ==
  /\ Pide(p)
  /\ \/ NoAbierto(p, fd)
     \/ /\ ConFd(p, fd) # {}
        /\ tablas' = Movido(p, Lugar(p, fd), posicion)
        /\ UNCHANGED estado
  /\ UNCHANGED <<tablaGlobal, fin, pedido, existentes, fallo>>

-----------------------------------------------------------------------------
(* Beginning and end of a process                                          *)

InicializarTabla(p) ==
  /\ Anda /\ estado[p] = "nuevo"
  /\ estado' = [estado EXCEPT ![p] = "vivo"]
  /\ UNCHANGED <<tablaGlobal, tablas, fin, pedido, existentes, fallo>>

Turno == FinInterrumpe \/ pedido = Libre
EnPedido(p) == pedido # Libre /\ pedido.pid = p

\* It ends by itself or is killed; a kill waits until it left its CPU, so never
\* in the middle of a request of its own.
Salir(p) ==
  /\ Anda /\ Turno /\ estado[p] = "vivo" /\ ~EnPedido(p)
  /\ Excepcion(p)
  /\ UNCHANGED <<tablaGlobal, tablas, fin, pedido, existentes, fallo>>

\* One round: the walk moves on only when the global entry stayed.
Avance(f, g) == [i |-> IF EsUltimo(g) THEN f.i ELSE f.i + 1, cont |-> f.cont + 1]

DestruirEntrada(p) ==
  /\ Anda /\ Turno /\ estado[p] = "terminando" /\ fin[p].cont < Len(tablas[p])
  /\ LET g == tablas[p][fin[p].i].indice IN
     /\ Disminuir(g)
     /\ fin' = IF g \in DOMAIN tablaGlobal
               THEN [fin EXCEPT ![p] = Avance(@, g)] ELSE fin
  /\ UNCHANGED <<estado, pedido, existentes>>

DestruirTabla(p) ==
  /\ Anda /\ Turno /\ estado[p] = "terminando" /\ fin[p].cont >= Len(tablas[p])
  /\ estado' = [estado EXCEPT ![p] = "terminado"]
  /\ tablas' = [tablas EXCEPT ![p] = <<>>]
  /\ UNCHANGED <<tablaGlobal, fin, pedido, existentes, fallo>>

-----------------------------------------------------------------------------
Pedido ==
  \/ \E p \in Pids, r \in Rutas, flags \in Banderas : PedirAbrir(p, r, flags)
  \/ \E p \in Pids, fd \in Descriptores :
       \/ Cerrar(p, fd)
       \/ PedirBorrar(p, fd)
       \/ Leer(p, fd)
       \/ Escribir(p, fd)
       \/ \E posicion \in Posiciones : MoverCursor(p, fd, posicion)

Sigue == Agregar \/ BuscarIndice \/ AumentarOpen \/ ActualizarTabla \/ CerrarGlobal
         \/ VerificarBorrable \/ Borrar

Vida == \E p \in Pids :
  InicializarTabla(p) \/ Salir(p) \/ DestruirEntrada(p) \/ DestruirTabla(p)

Next == Pedido \/ Sigue \/ Vida

Spec == Init /\ [][Next]_vars
=============================================================================
