-------------------------- MODULE PropiedadesMemoria --------------------------
(***************************************************************************)
(* What the frame table and the cache must keep, and the mapping to a      *)
(* memory of pages.                                                        *)
(***************************************************************************)
EXTENDS Memoria, Sequences

TipoEntrada == [pid : Int, pagina : Int, contenido : Contenidos]
Pasos == {"leerCache", "contar", "elegir", "ponerPid", "ponerPagina", "ponerContenido",
          "usar", "leerFrame", "verCache", "actualizar"}
ConEntrada == {"leerCache", "ponerPid", "ponerPagina", "ponerContenido", "usar"}
TipoPaso ==
  [paso : Pasos, orden : {"leer", "escribir"}, sigue : {"leerFrame", "responde"},
   pid : Pids, pagina : Paginas, entrada : Entradas \cup {-1}, valor : Contenidos,
   res : BOOLEAN]
TipoRespuesta ==
  [paso : {"responde"}, orden : {"leer", "escribir", "pedir"}, pid : Pids, pagina : Nat,
   res : BOOLEAN, valor : Contenidos]
TipoAsignar == [paso : {"asignar"}, pid : Pids, cant : Nat, hechas : Nat]
TipoBorrar == [paso : {"borrarCache"}, pid : Pids]
TipoHilo == {Libre} \cup TipoPaso \cup TipoRespuesta \cup TipoAsignar \cup TipoBorrar

\* Every variable keeps its type; in particular a thread that writes in an entry
\* of the cache has one.
TiposMemoria ==
  /\ tabla \in [Frames -> [frame : Int, pid : Int, num_pag : Int]]
  /\ bloque \in [Frames -> Contenidos]
  /\ cache \in [Entradas -> TipoEntrada]
  /\ uso \in [Entradas -> {-1} \cup Nat]
  /\ proceso \in [Pids -> {"nuevo", "rechazado", "activo", "estrena", "terminado"}]
  /\ hilo \in [Conexiones -> TipoHilo]
  /\ \A c \in Conexiones : hilo[c].paso \in ConEntrada => hilo[c].entrada \in Entradas
  /\ vaciando \in BOOLEAN
  /\ fallo \in {"ninguno", "sinFrame", "sinEntrada"}

\* The table names its own frames, keeps those it takes, and the frames of a
\* process are its pages from 0, one frame per page: no frame is taken twice and no
\* number is given twice or skipped, whoever allocates and ends in between.
TablaFiel ==
  /\ \A f \in Frames :
       /\ tabla[f].frame = f
       /\ IF f < MarcosAdm THEN tabla[f].pid = -9 ELSE tabla[f].pid \in Pids \cup {-1}
  /\ \A p \in Pids :
       /\ \A f \in DelProceso(p) : tabla[f].num_pag \in 0..(Cardinality(DelProceso(p)) - 1)
       /\ \A f, g \in DelProceso(p) : f # g => tabla[f].num_pag # tabla[g].num_pag

\* The rounds of a request find the frames that were counted before the first.
FramesParaElPedido ==
  hilo[Nucleo].paso = "asignar" =>
    /\ hilo[Nucleo].hechas < hilo[Nucleo].cant
    /\ hilo[Nucleo].cant - hilo[Nucleo].hechas <= Cardinality(Libres)

\* A request for pages never writes before the table.
SiempreHayFrame == fallo # "sinFrame"

\* No process has more entries of the cache than its share, although the entries
\* are counted in one pass and taken in another.
CupoDeCache == \A p \in Pids : Cardinality(EntradasDe(p)) <= CacheXProc

\* Whoever counted still has room when it takes its entry.
CupoReservado ==
  \A c \in Conexiones :
    /\ hilo[c].paso = "elegir" => HayCupo(hilo[c].pid)
    /\ hilo[c].paso = "ponerPid" =>
         Cardinality(EntradasDe(hilo[c].pid) \ {hilo[c].entrada}) < CacheXProc

\* Two connections are never busy with one process.
UnoPorProceso ==
  \A c, d \in Conexiones : c # d /\ hilo[c] # Libre /\ hilo[d] # Libre => hilo[c].pid # hilo[d].pid

\* An entry that was found to update is still there when it is updated, unless
\* the operator emptied the whole cache in between.
EntradaSigue == fallo = "sinEntrada" => \A e \in Entradas : cache[e].pid = -1

\* What is kept together. The share of the cache needs that a process asks one
\* thing at a time, which a reading of the operator breaks.
IInvMemoria ==
  /\ TiposMemoria
  /\ TablaFiel
  /\ FramesParaElPedido
  /\ SiempreHayFrame
  /\ "consultar" \notin Operador => UnoPorProceso /\ CupoDeCache /\ CupoReservado

-----------------------------------------------------------------------------
(* Mapping to MemoriaDePaginas                                             *)

\* The pages being given to p are its own when all are there.
EnCurso(p) ==
  IF hilo[Nucleo].paso = "asignar" /\ hilo[Nucleo].pid = p THEN hilo[Nucleo].hechas ELSE 0

PaginasDe(p) ==
  [n \in 1..(Cardinality(DelProceso(p)) - EnCurso(p)) |-> Copia(p, n - 1)]

\* A thread has nothing to tell until the page was written or the answer is known.
PedidoDe(h) ==
  IF h.paso = "responde"
  THEN [estado |-> "responde", orden |-> h.orden, pid |-> h.pid, pagina |-> h.pagina,
        res |-> h.res, valor |-> h.valor]
  ELSE IF h.paso \in Pasos /\ h.orden = "escribir" /\ h.res
  THEN [estado |-> "escrito", pid |-> h.pid, pagina |-> h.pagina]
  ELSE [estado |-> "quieto"]

Memo == INSTANCE MemoriaDePaginas WITH
  Capacidad <- Marcos - MarcosAdm,
  MaxPedido <- MaxPaginas,
  paginas <- [p \in Pids |-> PaginasDe(p)],
  pedido <- [c \in Conexiones |-> PedidoDe(hilo[c])]

\* Memoria implements a memory of pages: the cache, the search by hash and the
\* allocation page by page are invisible to who asks.
ImplementaPaginas == Memo!SpecPaginas
=============================================================================
