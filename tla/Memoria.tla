------------------------------- MODULE Memoria -------------------------------
(***************************************************************************)
(* The process Memoria (Memoria.c): a table with an entry per frame, the   *)
(* frames, and a cache of pages with an order of use. A thread per         *)
(* connection attends the orders of the Kernel and of each CPU; no         *)
(* structure has a mutex. The operator empties the cache.                  *)
(*                                                                         *)
(* A step is one pass over a structure or one write of a field that        *)
(* threads share. Of the frames and the entries of the frame table a       *)
(* process sees its own, so a search of a page and the copy of its content *)
(* are one step. The content of a page is one value.                       *)
(***************************************************************************)
EXTENDS Integers, FiniteSets

CONSTANTS
  Pids,             \* processes, numbers from 1
  Cpus,             \* connections of CPUs
  Marcos,           \* marcos: entries of the table and frames
  MarcosAdm,        \* sizeStructsAdmMemoria: frames the table itself takes
  EntradasCache,    \* entradas_cache
  CacheXProc,       \* cache_x_proc
  Valores,          \* what programs write
  MaxPaginas,       \* bound: pages a program asks for or refers to
  DeAUna,           \* whether connections ask in turns
  Operador          \* what the operators do: "vaciar" here, "consultar" in the Kernel

ASSUME MemoriaAssumption ==
  /\ Pids \subseteq Nat \ {0} /\ IsFiniteSet(Pids)
  /\ Marcos \in Nat /\ MarcosAdm \in 0..Marcos
  /\ EntradasCache \in Nat \ {0} /\ CacheXProc \in Nat
  /\ MaxPaginas \in Nat
  /\ "nucleo" \notin Cpus /\ "basura" \notin Valores
  /\ DeAUna \in BOOLEAN /\ Operador \subseteq {"vaciar", "consultar"}

VARIABLES
  tabla,       \* the struct_adm_memoria of each frame
  bloque,      \* bloque_Memoria: the content of each frame
  cache,       \* bloque_Cache: pid, page and content of each entry
  uso,         \* bloqueBitUsoCache: -1, or how recently used among the used ones
  proceso,     \* what the clients are doing with each process
  hilo,        \* what the thread of each connection is in the middle of
  vaciando,    \* whether the operator is between the two passes of a flush
  fallo        \* why the process fell

vars == <<tabla, bloque, cache, uso, proceso, hilo, vaciando, fallo>>

Nucleo == "nucleo"
Conexiones == Cpus \cup {Nucleo}
Basura == "basura"                \* what nobody wrote
Contenidos == Valores \cup {Basura}
Frames == 0..(Marcos - 1)
Entradas == 0..(EntradasCache - 1)
Paginas == 0..(MaxPaginas - 1)
Libre == [paso |-> "libre"]
Anda == fallo = "ninguno"

Primera(S) == CHOOSE i \in S : \A j \in S : i <= j

\* Positions that a search of the cache, or of the table, would stop at.
EnCache(p, n) == {e \in Entradas : cache[e].pid = p /\ cache[e].pagina = n}
DePagina(p, n) == {f \in Frames : tabla[f].pid = p /\ tabla[f].num_pag = n}
Libres == {f \in Frames : tabla[f].pid = -1}
DelProceso(p) == {f \in Frames : tabla[f].pid = p}
EntradasDe(p) == {e \in Entradas : cache[e].pid = p}

Init ==
  /\ tabla = [f \in Frames |-> [frame |-> f,
                pid |-> IF f < MarcosAdm THEN -9 ELSE -1,
                num_pag |-> IF f < MarcosAdm THEN f ELSE -1]]
  /\ bloque = [f \in Frames |-> Basura]
  /\ cache = [e \in Entradas |-> [pid |-> -1, pagina |-> -1, contenido |-> Basura]]
  /\ uso = [e \in Entradas |-> -1]
  /\ proceso = [p \in Pids |-> "nuevo"]
  /\ hilo = [c \in Conexiones |-> Libre]
  /\ vaciando = FALSE
  /\ fallo = "ninguno"

Sigue(h, paso) == hilo' = [hilo EXCEPT ![h].paso = paso]
Responde(h, orden, p, n, res, valor) ==
  hilo' = [hilo EXCEPT ![h] = [paso |-> "responde", orden |-> orden, pid |-> p, pagina |-> n,
             res |-> res, valor |-> valor]]
RespondeDe(h, res, valor) == Responde(h, hilo[h].orden, hilo[h].pid, hilo[h].pagina, res, valor)
En(h, paso) == Anda /\ hilo[h].paso = paso

\* A process asks one thing at a time: its CPU, or the Kernel while the CPU waits
\* or once the process left it.
Ocupado(p) == \E c \in Conexiones : hilo[c] # Libre /\ hilo[c].pid = p
Pide(h) == Anda /\ hilo[h] = Libre /\ (DeAUna => \A c \in Conexiones : hilo[c] = Libre)

-----------------------------------------------------------------------------
(* Pages and frames                                                        *)

funcionHash(p, n) == (MarcosAdm + (p - 1) + n) % Marcos

\* The search begins at the hash and goes on from the first frame that is not of
\* the table (mutant first: it ends at the last frame).
FrameSinVuelta(p, n) ==
  LET s == {f \in DePagina(p, n) : f >= funcionHash(p, n)} IN
    IF s = {} THEN -1 ELSE tabla[Primera(s)].frame

buscarFrameDePaginaDeProceso(p, n) ==
  LET todos == {f \in DePagina(p, n) : f >= MarcosAdm \/ f >= funcionHash(p, n)}
      s == {f \in todos : f >= funcionHash(p, n)}
  IN IF todos = {} THEN -1
     ELSE IF s = {} THEN tabla[Primera(todos)].frame ELSE tabla[Primera(s)].frame

\* What is copied from a page; with frame -1 it is what lies before the block.
Copia(p, n) ==
  LET f == buscarFrameDePaginaDeProceso(p, n) IN IF f \in Frames THEN bloque[f] ELSE Basura

Alcanza(cant) == Cardinality(Libres) >= cant

\* 'A' of a new process and 'G' of one that runs, both of the Kernel.
PedirPaginas(p, cant) ==
  /\ Pide(Nucleo) /\ ~Ocupado(p)
  /\ proceso[p] \in {"nuevo", "activo"}
  /\ Cardinality(DelProceso(p)) + cant <= MaxPaginas
  /\ proceso[p] = "activo" => cant = 1
  /\ IF Alcanza(cant)
     THEN /\ hilo' = [hilo EXCEPT ![Nucleo] =
                        [paso |-> "asignar", pid |-> p, cant |-> cant, hechas |-> 0]]
          /\ UNCHANGED proceso
     ELSE /\ Responde(Nucleo, "pedir", p, cant, FALSE, Basura)
          /\ proceso' = [proceso EXCEPT ![p] = "rechazado"]
  /\ UNCHANGED <<tabla, bloque, cache, uso, vaciando, fallo>>

\* (mutant first: pages are numbered by the request)
NumeroEnPedido(p, hechas) == hechas
Numero(p, hechas) == Cardinality(DelProceso(p))

\* One round: the first free frame gets the next page. Without a free frame the
\* entry would be written before the table.
AsignarPagina ==
  /\ En(Nucleo, "asignar")
  /\ LET h == hilo[Nucleo] IN
     \/ /\ Libres = {}
        /\ fallo' = "sinFrame"
        /\ UNCHANGED <<tabla, proceso, hilo>>
     \/ /\ Libres # {}
        /\ LET f == tabla[Primera(Libres)].frame IN
             tabla' = [tabla EXCEPT ![f] =
               [frame |-> f, pid |-> h.pid, num_pag |-> Numero(h.pid, h.hechas)]]
        /\ IF h.hechas + 1 = h.cant
           THEN /\ Responde(Nucleo, "pedir", h.pid, h.cant, TRUE, Basura)
                /\ proceso' = [proceso EXCEPT ![h.pid] =
                                 IF @ = "nuevo" THEN "activo" ELSE "estrena"]
           ELSE /\ hilo' = [hilo EXCEPT ![Nucleo].hechas = @ + 1]
                /\ UNCHANGED proceso
        /\ UNCHANGED fallo
  /\ UNCHANGED <<bloque, cache, uso, vaciando>>

\* 'F', which has no answer: first the table and then the cache.
Finalizar(p) ==
  /\ Pide(Nucleo) /\ ~Ocupado(p)
  /\ proceso[p] \in {"nuevo", "rechazado", "activo"}
  /\ tabla' = [f \in Frames |->
       IF f >= MarcosAdm /\ tabla[f].pid = p
       THEN [tabla[f] EXCEPT !.pid = -1, !.num_pag = -1] ELSE tabla[f]]
  /\ hilo' = [hilo EXCEPT ![Nucleo] = [paso |-> "borrarCache", pid |-> p]]
  /\ proceso' = [proceso EXCEPT ![p] = "terminado"]
  /\ UNCHANGED <<bloque, cache, uso, vaciando, fallo>>

BorrarEnCache ==
  /\ En(Nucleo, "borrarCache")
  /\ cache' = [e \in Entradas |->
       IF cache[e].pid = hilo[Nucleo].pid
       THEN [cache[e] EXCEPT !.pid = -1, !.pagina = -1] ELSE cache[e]]
  /\ hilo' = [hilo EXCEPT ![Nucleo] = Libre]
  /\ UNCHANGED <<tabla, bloque, uso, proceso, vaciando, fallo>>

-----------------------------------------------------------------------------
(* Reading: 'S'                                                            *)

\* A thread in the middle of a reading or a writing. sigue is where it goes on
\* once it used the cache, entrada is -1 while it has none.
PasoDe(h, orden, paso, sigue, p, n, entrada, res) ==
  hilo' = [hilo EXCEPT ![h] = [paso |-> paso, orden |-> orden, sigue |-> sigue, pid |-> p,
             pagina |-> n, entrada |-> entrada, valor |-> Basura, res |-> res]]

\* The search in the cache.
Buscar(h, p, n) ==
  /\ IF EnCache(p, n) # {}
     THEN PasoDe(h, "leer", "leerCache", "responde", p, n, Primera(EnCache(p, n)), TRUE)
     ELSE PasoDe(h, "leer", "contar", "leerFrame", p, n, -1, TRUE)
  /\ UNCHANGED <<tabla, bloque, cache, uso, proceso, vaciando, fallo>>

Solicitar(h, p, n) ==
  Pide(h) /\ ~Ocupado(p) /\ proceso[p] = "activo" /\ Buscar(h, p, n)

\* The operator of the Kernel reads any page while its process goes on.
Consultar(p, n) == "consultar" \in Operador /\ Pide(Nucleo) /\ Buscar(Nucleo, p, n)

LeerCache(h) ==
  /\ En(h, "leerCache")
  /\ hilo' = [hilo EXCEPT ![h].paso = "usar", ![h].valor = cache[hilo[h].entrada].contenido]
  /\ UNCHANGED <<tabla, bloque, cache, uso, proceso, vaciando, fallo>>

HayCupo(p) == Cardinality(EntradasDe(p)) < CacheXProc

Contar(h) ==
  /\ En(h, "contar")
  /\ Sigue(h, IF HayCupo(hilo[h].pid) THEN "elegir" ELSE "leerFrame")
  /\ UNCHANGED <<tabla, bloque, cache, uso, proceso, vaciando, fallo>>

\* The first entry never used, or the one used longest ago.
Victima ==
  IF \E e \in Entradas : uso[e] = -1 THEN Primera({e \in Entradas : uso[e] = -1})
  ELSE CHOOSE e \in Entradas : \A o \in Entradas : uso[e] <= uso[o]

Elegir(h) ==
  /\ En(h, "elegir")
  /\ hilo' = [hilo EXCEPT ![h].paso = "ponerPid", ![h].entrada = Victima,
                          ![h].valor = Copia(hilo[h].pid, hilo[h].pagina)]
  /\ UNCHANGED <<tabla, bloque, cache, uso, proceso, vaciando, fallo>>

\* The fields of an entry are written one by one.
PonerPid(h) ==
  /\ En(h, "ponerPid")
  /\ cache' = [cache EXCEPT ![hilo[h].entrada].pid = hilo[h].pid]
  /\ Sigue(h, "ponerPagina")
  /\ UNCHANGED <<tabla, bloque, uso, proceso, vaciando, fallo>>

PonerPagina(h) ==
  /\ En(h, "ponerPagina")
  /\ cache' = [cache EXCEPT ![hilo[h].entrada].pagina = hilo[h].pagina]
  /\ Sigue(h, "ponerContenido")
  /\ UNCHANGED <<tabla, bloque, uso, proceso, vaciando, fallo>>

PonerContenido(h) ==
  /\ En(h, "ponerContenido")
  /\ cache' = [cache EXCEPT ![hilo[h].entrada].contenido = hilo[h].valor]
  /\ Sigue(h, "usar")
  /\ UNCHANGED <<tabla, bloque, uso, proceso, vaciando, fallo>>

\* contadorBitDeUso only orders the uses: entry e becomes the most recent one.
Reciente(e) ==
  [x \in Entradas |->
     IF x = e THEN Cardinality({y \in Entradas \ {e} : uso[y] # -1}) + 1
     ELSE IF uso[e] # -1 /\ uso[x] > uso[e] THEN uso[x] - 1 ELSE uso[x]]

Usar(h) ==
  /\ En(h, "usar")
  /\ uso' = Reciente(hilo[h].entrada)
  /\ IF hilo[h].sigue = "leerFrame" THEN Sigue(h, "leerFrame")
     ELSE RespondeDe(h, hilo[h].res, hilo[h].valor)
  /\ UNCHANGED <<tabla, bloque, cache, proceso, vaciando, fallo>>

\* Without the page the answer is -1 and a buffer nobody filled.
LeerFrame(h) ==
  /\ En(h, "leerFrame")
  /\ LET p == hilo[h].pid
         n == hilo[h].pagina
     IN RespondeDe(h, buscarFrameDePaginaDeProceso(p, n) # -1, Copia(p, n))
  /\ UNCHANGED <<tabla, bloque, cache, uso, proceso, vaciando, fallo>>

-----------------------------------------------------------------------------
(* Writing: 'C'                                                            *)

\* A page of heap is written by the Kernel before anybody else knows of it.
Estrena(h, p, n) ==
  proceso[p] = "estrena" /\ h = Nucleo /\ n = Cardinality(DelProceso(p)) - 1

Almacenar(h, p, n, v) ==
  /\ Pide(h) /\ ~Ocupado(p)
  /\ proceso[p] = "activo" \/ Estrena(h, p, n)
  /\ LET f == buscarFrameDePaginaDeProceso(p, n) IN
       /\ bloque' = IF f >= 0 THEN [bloque EXCEPT ![f] = v] ELSE bloque
       /\ PasoDe(h, "escribir", "verCache", "responde", p, n, -1, f >= 0)
  /\ proceso' = [proceso EXCEPT ![p] = "activo"]
  /\ UNCHANGED <<tabla, cache, uso, vaciando, fallo>>

\* (mutants first: the entry is left as it was; no look before the update)
NoActualiza(p, n) == TRUE
SinMirar(p, n) == FALSE
Ausente(p, n) == EnCache(p, n) = {}

VerCache(h) ==
  /\ En(h, "verCache")
  /\ IF Ausente(hilo[h].pid, hilo[h].pagina)
     THEN RespondeDe(h, hilo[h].res, Basura)
     ELSE Sigue(h, "actualizar")
  /\ UNCHANGED <<tabla, bloque, cache, uso, proceso, vaciando, fallo>>

\* The entry is searched for again; if it went, what is written lies before the
\* cache.
Actualizar(h) ==
  /\ En(h, "actualizar")
  /\ LET p == hilo[h].pid
         n == hilo[h].pagina
     IN \/ /\ EnCache(p, n) = {}
           /\ fallo' = "sinEntrada"
           /\ UNCHANGED hilo
        \/ /\ EnCache(p, n) # {}
           /\ hilo' = [hilo EXCEPT ![h].paso = "ponerPid", ![h].valor = Copia(p, n),
                                   ![h].entrada = Primera(EnCache(p, n))]
           /\ UNCHANGED fallo
  /\ UNCHANGED <<tabla, bloque, cache, uso, proceso, vaciando>>

Responder(h) ==
  /\ En(h, "responde")
  /\ hilo' = [hilo EXCEPT ![h] = Libre]
  /\ UNCHANGED <<tabla, bloque, cache, uso, proceso, vaciando, fallo>>

-----------------------------------------------------------------------------
(* The operator: vaciarCache, in two passes                                *)

VaciarEntradas ==
  /\ Anda /\ "vaciar" \in Operador /\ ~vaciando
  /\ cache' = [e \in Entradas |-> [cache[e] EXCEPT !.pid = -1, !.pagina = -1]]
  /\ vaciando' = TRUE
  /\ UNCHANGED <<tabla, bloque, uso, proceso, hilo, fallo>>

VaciarUsos ==
  /\ Anda /\ vaciando
  /\ uso' = [e \in Entradas |-> -1]
  /\ vaciando' = FALSE
  /\ UNCHANGED <<tabla, bloque, cache, proceso, hilo, fallo>>

-----------------------------------------------------------------------------
Marco ==
  \/ \E p \in Pids : Finalizar(p) \/ \E cant \in 1..MaxPaginas : PedirPaginas(p, cant)
  \/ AsignarPagina
  \/ BorrarEnCache

Lectura ==
  \/ \E p \in Pids, n \in Paginas : Consultar(p, n) \/ \E h \in Conexiones : Solicitar(h, p, n)
  \/ \E h \in Conexiones :
       LeerCache(h) \/ Contar(h) \/ Elegir(h) \/ LeerFrame(h) \/ Usar(h) \/ Responder(h)

Escritura ==
  \/ \E h \in Conexiones, p \in Pids, n \in Paginas, v \in Valores : Almacenar(h, p, n, v)
  \/ \E h \in Conexiones :
       VerCache(h) \/ Actualizar(h) \/ PonerPid(h) \/ PonerPagina(h) \/ PonerContenido(h)

Next == Marco \/ Lectura \/ Escritura \/ VaciarEntradas \/ VaciarUsos

Spec == Init /\ [][Next]_vars
=============================================================================
