----------------------- MODULE PropiedadesMemoria_proofs -----------------------
(***************************************************************************)
(* Proofs about Memoria, for every value of its constants.                 *)
(***************************************************************************)
EXTENDS PropiedadesMemoria, LemasListas, FiniteSetTheorems

USE MemoriaAssumption

-----------------------------------------------------------------------------
(* Finite sets and searches                                                *)

\* Positions are finitely many, so what is counted is a natural.
LEMMA Finitos ==
  /\ IsFiniteSet(Frames) /\ IsFiniteSet(Entradas)
  /\ \A S \in SUBSET Frames : IsFiniteSet(S) /\ Cardinality(S) \in Nat
  /\ \A S \in SUBSET Entradas : IsFiniteSet(S) /\ Cardinality(S) \in Nat
<1>1. IsFiniteSet(Frames) /\ IsFiniteSet(Entradas)
  BY FS_Interval DEF Frames, Entradas
<1> QED
  BY <1>1, FS_Subset, FS_CardinalityType

LEMMA PrimeraEsta ==
  ASSUME NEW S \in SUBSET Nat, S # {}
  PROVE  Primera(S) \in S
BY MinimoDeNaturales DEF Primera

\* A search of a page gives one of its frames, or -1.
LEMMA FrameHallado ==
  ASSUME TablaFiel, NEW p, NEW n
  PROVE  buscarFrameDePaginaDeProceso(p, n) \in DePagina(p, n) \cup {-1}
<1> DEFINE todos == {f \in DePagina(p, n) : f >= MarcosAdm \/ f >= funcionHash(p, n)}
           s == {f \in todos : f >= funcionHash(p, n)}
<1>1. todos \in SUBSET Nat /\ s \in SUBSET Nat /\ todos \subseteq DePagina(p, n)
  BY DEF DePagina, Frames
<1>2. todos # {} => Primera(todos) \in DePagina(p, n)
  BY <1>1, PrimeraEsta
<1>3. s # {} => Primera(s) \in DePagina(p, n)
  BY <1>1, PrimeraEsta
<1>4. \A f \in DePagina(p, n) : tabla[f].frame = f
  BY DEF TablaFiel, DePagina
<1>5. buscarFrameDePaginaDeProceso(p, n) =
        IF todos = {} THEN -1
        ELSE IF s = {} THEN tabla[Primera(todos)].frame ELSE tabla[Primera(s)].frame
  BY DEF buscarFrameDePaginaDeProceso
<1> HIDE DEF todos, s
<1> QED
  BY <1>2, <1>3, <1>4, <1>5

LEMMA CopiaTipo ==
  ASSUME TiposMemoria, NEW p, NEW n
  PROVE  Copia(p, n) \in Contenidos
BY DEF TiposMemoria, Copia, Contenidos

\* The entry to replace is an entry.
LEMMA VictimaEsta ==
  ASSUME TiposMemoria
  PROVE  Victima \in Entradas
<1>1. Entradas \subseteq Nat /\ 0 \in Entradas
  BY DEF Entradas
<1>2. CASE \E e \in Entradas : uso[e] = -1
  <2> DEFINE S == {e \in Entradas : uso[e] = -1}
  <2>1. S \in SUBSET Nat /\ S # {} /\ S \subseteq Entradas
    BY <1>1, <1>2
  <2> QED
    BY <1>2, <2>1, PrimeraEsta DEF Victima
<1>3. CASE ~ \E e \in Entradas : uso[e] = -1
  <2> DEFINE U == {uso[e] : e \in Entradas}
  <2>1. U \in SUBSET Nat /\ U # {}
    BY <1>1, <1>3 DEF TiposMemoria
  <2>2. PICK k \in U : \A j \in U : k <= j
    BY <2>1, MinimoDeNaturales
  <2>3. \E e \in Entradas : \A o \in Entradas : uso[e] <= uso[o]
    BY <2>2
  <2> QED
    BY <1>3, <2>3 DEF Victima
<1> QED
  BY <1>2, <1>3

-----------------------------------------------------------------------------
(* What a thread is in the middle of                                       *)

\* What the name of the step tells of the record of a thread.
LEMMA EnPaso ==
  ASSUME NEW r \in TipoHilo
  PROVE  /\ r.paso \in Pasos => r \in TipoPaso
         /\ r.paso = "asignar" => r \in TipoAsignar
         /\ r.paso = "borrarCache" => r \in TipoBorrar
         /\ r # Libre => r.paso # "libre" /\ r.pid \in Pids
BY DEF TipoHilo, TipoPaso, TipoRespuesta, TipoAsignar, TipoBorrar, Libre, Pasos

\* The share of the cache that r counts on.
CupoDe(r) ==
  /\ r.paso = "elegir" => HayCupo(r.pid)
  /\ r.paso = "ponerPid" => Cardinality(EntradasDe(r.pid) \ {r.entrada}) < CacheXProc

\* A step that changes the record of one thread, and neither the frame table nor
\* whose the entries of the cache are.
LEMMA CambiaHilo ==
  ASSUME IInvMemoria, NEW h \in Conexiones, NEW r \in TipoHilo,
         hilo' = [hilo EXCEPT ![h] = r],
         UNCHANGED tabla,
         \A e \in Entradas : cache'[e].pid = cache[e].pid,
         cache' \in [Entradas -> TipoEntrada],
         bloque' \in [Frames -> Contenidos],
         uso' \in [Entradas -> {-1} \cup Nat],
         proceso' \in [Pids -> {"nuevo", "rechazado", "activo", "estrena", "terminado"}],
         vaciando' \in BOOLEAN,
         fallo' \in {"ninguno", "sinEntrada"},
         r.paso \in ConEntrada => r.entrada \in Entradas,
         r.paso = "asignar" => r.hechas < r.cant /\ r.cant - r.hechas <= Cardinality(Libres),
         "consultar" \notin Operador =>
           /\ r # Libre => \A c \in Conexiones \ {h} : hilo[c] # Libre => hilo[c].pid # r.pid
           /\ CupoDe(r)
  PROVE  IInvMemoria'
<1>1. /\ \A c \in Conexiones : hilo'[c] = IF c = h THEN r ELSE hilo[c]
      /\ hilo' \in [Conexiones -> TipoHilo]
  BY DEF IInvMemoria, TiposMemoria
<1>2. TiposMemoria'
  BY <1>1 DEF IInvMemoria, TiposMemoria
<1>3. /\ Libres' = Libres
      /\ \A p \in Pids : DelProceso(p)' = DelProceso(p) /\ EntradasDe(p)' = EntradasDe(p)
  BY DEF Libres, DelProceso, EntradasDe
<1>4. TablaFiel'
  BY <1>3 DEF IInvMemoria, TablaFiel
<1>5. FramesParaElPedido'
  BY <1>1, <1>3 DEF IInvMemoria, FramesParaElPedido, Conexiones
<1>6. SiempreHayFrame'
  BY DEF SiempreHayFrame
<1>7. ASSUME "consultar" \notin Operador
      PROVE  UnoPorProceso' /\ CupoDeCache' /\ CupoReservado'
  <2>1. UnoPorProceso'
    BY <1>1, <1>7 DEF IInvMemoria, UnoPorProceso
  <2>2. CupoDeCache'
    BY <1>3, <1>7 DEF IInvMemoria, CupoDeCache
  <2>3. ASSUME NEW c \in Conexiones PROVE CupoDe(hilo[c])
    BY <1>7, <2>3 DEF IInvMemoria, CupoReservado, CupoDe
  <2>4. ASSUME NEW c \in Conexiones, NEW q, q = hilo'[c],
               q.paso \in {"elegir", "ponerPid"}
        PROVE  q.pid \in Pids /\ CupoDe(q)
    <3>1. q \in TipoHilo /\ q # Libre
      BY <1>1, <2>4 DEF Libre
    <3> QED
      BY <1>1, <1>7, <2>3, <2>4, <3>1, EnPaso
  <2>5. CupoReservado'
    BY <1>3, <2>4 DEF CupoReservado, CupoDe, HayCupo
  <2> QED
    BY <2>1, <2>2, <2>5
<1> QED
  BY <1>2, <1>4, <1>5, <1>6, <1>7 DEF IInvMemoria

\* The same for a thread that was busy with the process before.
LEMMA SigueHilo ==
  ASSUME IInvMemoria, NEW h \in Conexiones, NEW r \in TipoHilo,
         hilo[h] # Libre, r.pid = hilo[h].pid, r.paso # "asignar",
         hilo' = [hilo EXCEPT ![h] = r],
         UNCHANGED <<tabla, bloque, proceso, vaciando, fallo>>,
         fallo = "ninguno",
         \A e \in Entradas : cache'[e].pid = cache[e].pid,
         cache' \in [Entradas -> TipoEntrada],
         uso' \in [Entradas -> {-1} \cup Nat],
         r.paso \in ConEntrada => r.entrada \in Entradas,
         "consultar" \notin Operador => CupoDe(r)
  PROVE  IInvMemoria'
<1>1. "consultar" \notin Operador =>
        \A c \in Conexiones \ {h} : hilo[c] # Libre => hilo[c].pid # r.pid
  BY DEF IInvMemoria, UnoPorProceso
<1>2. /\ bloque' \in [Frames -> Contenidos]
      /\ proceso' \in [Pids -> {"nuevo", "rechazado", "activo", "estrena", "terminado"}]
      /\ vaciando' \in BOOLEAN
  BY DEF IInvMemoria, TiposMemoria
<1> QED
  BY <1>1, <1>2, CambiaHilo

-----------------------------------------------------------------------------
(* Reading and writing                                                     *)

\* A thread that takes a request of a process that nobody else asks for.
LEMMA EmpiezaPaso ==
  ASSUME IInvMemoria, NEW h \in Conexiones, NEW orden \in {"leer", "escribir"},
         NEW paso \in Pasos \ {"elegir", "ponerPid"}, NEW sigue \in {"leerFrame", "responde"},
         NEW p \in Pids, NEW n \in Paginas, NEW entrada \in Entradas \cup {-1},
         NEW res \in BOOLEAN,
         paso \in ConEntrada => entrada \in Entradas,
         Pide(h), "consultar" \notin Operador => ~Ocupado(p),
         PasoDe(h, orden, paso, sigue, p, n, entrada, res),
         UNCHANGED <<tabla, cache, uso, vaciando, fallo>>,
         bloque' \in [Frames -> Contenidos],
         proceso' \in [Pids -> {"nuevo", "rechazado", "activo", "estrena", "terminado"}]
  PROVE  IInvMemoria'
<1> DEFINE r == [paso |-> paso, orden |-> orden, sigue |-> sigue, pid |-> p,
                 pagina |-> n, entrada |-> entrada, valor |-> Basura, res |-> res]
<1>1. /\ r \in TipoHilo /\ r.paso = paso /\ r.pid = p /\ r.entrada = entrada
      /\ hilo' = [hilo EXCEPT ![h] = r]
  BY DEF PasoDe, TipoHilo, TipoPaso, Contenidos
<1>2. r.paso # "asignar" /\ CupoDe(r)
  BY <1>1 DEF CupoDe, Pasos
<1>3. "consultar" \notin Operador =>
        \A c \in Conexiones \ {h} : hilo[c] # Libre => hilo[c].pid # p
  BY DEF Ocupado
<1> HIDE DEF r
<1>4. /\ \A e \in Entradas : cache'[e].pid = cache[e].pid
      /\ cache' \in [Entradas -> TipoEntrada]
      /\ uso' \in [Entradas -> {-1} \cup Nat]
      /\ vaciando' \in BOOLEAN
      /\ fallo' = "ninguno"
  BY DEF IInvMemoria, TiposMemoria, Pide, Anda
<1> QED
  BY <1>1, <1>2, <1>3, <1>4, CambiaHilo

\* A thread that has its answer.
LEMMA PasoRespondeDe ==
  ASSUME IInvMemoria, NEW h \in Conexiones, NEW res \in BOOLEAN, NEW valor \in Contenidos,
         Anda, hilo[h] \in TipoPaso,
         RespondeDe(h, res, valor),
         UNCHANGED <<tabla, bloque, cache, proceso, vaciando, fallo>>,
         uso' \in [Entradas -> {-1} \cup Nat]
  PROVE  IInvMemoria'
<1> DEFINE r == [paso |-> "responde", orden |-> hilo[h].orden, pid |-> hilo[h].pid,
                 pagina |-> hilo[h].pagina, res |-> res, valor |-> valor]
<1>1. /\ r \in TipoHilo /\ r.paso = "responde" /\ r.pid = hilo[h].pid
      /\ hilo' = [hilo EXCEPT ![h] = r]
      /\ hilo[h] # Libre
  BY DEF RespondeDe, Responde, TipoHilo, TipoPaso, TipoRespuesta, Paginas, Libre, Pasos
<1>2. r.paso \notin ConEntrada /\ CupoDe(r)
  BY <1>1 DEF CupoDe, ConEntrada
<1> HIDE DEF r
<1>3. cache' \in [Entradas -> TipoEntrada] /\ fallo = "ninguno"
  BY DEF IInvMemoria, TiposMemoria, Anda
<1> QED
  BY <1>1, <1>2, <1>3, SigueHilo

\* A thread that goes on to another step with what it has.
LEMMA PasoSigue ==
  ASSUME IInvMemoria, NEW h \in Conexiones, NEW paso \in Pasos,
         Anda, hilo[h] \in TipoPaso,
         Sigue(h, paso),
         UNCHANGED <<tabla, bloque, proceso, vaciando, fallo>>,
         \A e \in Entradas : cache'[e].pid = cache[e].pid,
         cache' \in [Entradas -> TipoEntrada],
         uso' \in [Entradas -> {-1} \cup Nat],
         paso \in ConEntrada => hilo[h].entrada \in Entradas,
         paso # "ponerPid",
         paso = "elegir" => HayCupo(hilo[h].pid)
  PROVE  IInvMemoria'
<1> DEFINE r == [hilo[h] EXCEPT !.paso = paso]
<1>1. /\ r \in TipoPaso /\ r.paso = paso /\ r.pid = hilo[h].pid /\ r.entrada = hilo[h].entrada
      /\ hilo[h] # Libre
  BY DEF TipoPaso, Libre, Pasos
<1>2. hilo' = [hilo EXCEPT ![h] = r]
  BY DEF Sigue
<1>3. r \in TipoHilo /\ r.paso # "asignar" /\ CupoDe(r)
  BY <1>1 DEF TipoHilo, CupoDe, Pasos
<1>4. fallo = "ninguno"
  BY DEF Anda
<1> HIDE DEF r
<1> QED
  BY <1>1, <1>2, <1>3, <1>4, SigueHilo

\* What En tells.
LEMMA EnHilo ==
  ASSUME IInvMemoria, NEW h \in Conexiones, NEW paso, En(h, paso)
  PROVE  /\ Anda /\ (hilo[h] # Libre \/ paso = "libre")
         /\ hilo[h].paso = paso
         /\ paso \in Pasos => hilo[h] \in TipoPaso /\ hilo[h].pid \in Pids
         /\ paso \in ConEntrada => hilo[h].entrada \in Entradas
BY EnPaso DEF En, IInvMemoria, TiposMemoria, TipoPaso, Libre

LEMMA PasoBuscar ==
  ASSUME IInvMemoria, NEW h \in Conexiones, NEW p \in Pids, NEW n \in Paginas,
         Pide(h), "consultar" \notin Operador => ~Ocupado(p), Buscar(h, p, n)
  PROVE  IInvMemoria'
<1>1. EnCache(p, n) # {} => Primera(EnCache(p, n)) \in Entradas
  <2>1. EnCache(p, n) \in SUBSET Nat /\ EnCache(p, n) \subseteq Entradas
    BY DEF EnCache, Entradas
  <2> QED
    BY <2>1, PrimeraEsta
<1>2. /\ UNCHANGED <<tabla, cache, uso, vaciando, fallo>>
      /\ bloque' \in [Frames -> Contenidos]
      /\ proceso' \in [Pids -> {"nuevo", "rechazado", "activo", "estrena", "terminado"}]
  BY DEF Buscar, IInvMemoria, TiposMemoria
<1>3. CASE EnCache(p, n) # {}
  <2>1. PasoDe(h, "leer", "leerCache", "responde", p, n, Primera(EnCache(p, n)), TRUE)
    BY <1>3 DEF Buscar
  <2> QED
    BY <1>1, <1>2, <1>3, <2>1, EmpiezaPaso DEF Pasos
<1>4. CASE EnCache(p, n) = {}
  <2>1. PasoDe(h, "leer", "contar", "leerFrame", p, n, -1, TRUE)
    BY <1>4 DEF Buscar
  <2> QED
    BY <1>2, <2>1, EmpiezaPaso DEF Pasos, ConEntrada
<1> QED
  BY <1>3, <1>4

LEMMA PasoLeerCache ==
  ASSUME IInvMemoria, NEW h \in Conexiones, LeerCache(h)
  PROVE  IInvMemoria'
<1>1. /\ Anda /\ hilo[h] # Libre /\ hilo[h].paso = "leerCache"
      /\ hilo[h] \in TipoPaso /\ hilo[h].entrada \in Entradas
  BY EnHilo DEF LeerCache, Pasos, ConEntrada
<1> DEFINE r == [hilo[h] EXCEPT !.paso = "usar", !.valor = cache[hilo[h].entrada].contenido]
<1>2. cache[hilo[h].entrada].contenido \in Contenidos
  BY <1>1 DEF IInvMemoria, TiposMemoria, TipoEntrada
<1>3. /\ r \in TipoPaso /\ r.paso = "usar" /\ r.pid = hilo[h].pid
      /\ r.entrada = hilo[h].entrada
  BY <1>1, <1>2 DEF TipoPaso, Pasos
<1>4. /\ hilo' = [hilo EXCEPT ![h] = r]
      /\ UNCHANGED <<tabla, bloque, cache, uso, proceso, vaciando, fallo>>
  BY DEF LeerCache
<1>5. /\ cache' \in [Entradas -> TipoEntrada] /\ uso' \in [Entradas -> {-1} \cup Nat]
      /\ fallo = "ninguno"
  BY <1>1, <1>4 DEF IInvMemoria, TiposMemoria, Anda
<1> HIDE DEF r
<1>6. r \in TipoHilo /\ r.paso # "asignar" /\ CupoDe(r)
  BY <1>3 DEF TipoHilo, CupoDe
<1> QED
  BY <1>1, <1>3, <1>4, <1>5, <1>6, SigueHilo

LEMMA PasoContar ==
  ASSUME IInvMemoria, NEW h \in Conexiones, Contar(h)
  PROVE  IInvMemoria'
<1>1. Anda /\ hilo[h] \in TipoPaso
  BY EnHilo DEF Contar, Pasos
<1>2. UNCHANGED <<tabla, bloque, cache, uso, proceso, vaciando, fallo>>
  BY DEF Contar
<1>3. /\ \A e \in Entradas : cache'[e].pid = cache[e].pid
      /\ cache' \in [Entradas -> TipoEntrada] /\ uso' \in [Entradas -> {-1} \cup Nat]
  BY <1>2 DEF IInvMemoria, TiposMemoria
<1>4. CASE HayCupo(hilo[h].pid)
  <2>1. Sigue(h, "elegir")
    BY <1>4 DEF Contar
  <2> QED
    BY <1>1, <1>2, <1>3, <1>4, <2>1, PasoSigue DEF Pasos, ConEntrada
<1>5. CASE ~HayCupo(hilo[h].pid)
  <2>1. Sigue(h, "leerFrame")
    BY <1>5 DEF Contar
  <2> QED
    BY <1>1, <1>2, <1>3, <2>1, PasoSigue DEF Pasos, ConEntrada
<1> QED
  BY <1>4, <1>5

\* Whoever had room has it still after choosing an entry.
LEMMA PasoElegir ==
  ASSUME IInvMemoria, NEW h \in Conexiones, Elegir(h)
  PROVE  IInvMemoria'
<1>1. /\ Anda /\ hilo[h] # Libre /\ hilo[h].paso = "elegir"
      /\ hilo[h] \in TipoPaso /\ hilo[h].pid \in Pids
  BY EnHilo DEF Elegir, Pasos
<1> DEFINE v == Copia(hilo[h].pid, hilo[h].pagina)
           r == [hilo[h] EXCEPT !.paso = "ponerPid", !.entrada = Victima, !.valor = v]
<1>2. v \in Contenidos /\ Victima \in Entradas
  BY CopiaTipo, VictimaEsta DEF IInvMemoria
<1> HIDE DEF v
<1>3. /\ r \in TipoPaso /\ r.paso = "ponerPid" /\ r.pid = hilo[h].pid
      /\ r.entrada = Victima
  BY <1>1, <1>2 DEF TipoPaso, Pasos
<1>4. /\ hilo' = [hilo EXCEPT ![h] = r]
      /\ UNCHANGED <<tabla, bloque, cache, uso, proceso, vaciando, fallo>>
  BY DEF Elegir, v
<1> HIDE DEF r
<1>5. ASSUME "consultar" \notin Operador
      PROVE  Cardinality(EntradasDe(r.pid) \ {Victima}) < CacheXProc
  <2>1. HayCupo(hilo[h].pid)
    BY <1>1, <1>5 DEF IInvMemoria, CupoReservado
  <2>2. EntradasDe(r.pid) \in SUBSET Entradas
    BY DEF EntradasDe
  <2>3. IsFiniteSet(EntradasDe(r.pid)) /\ Cardinality(EntradasDe(r.pid)) \in Nat
    BY <2>2, Finitos
  <2>4. /\ Cardinality(EntradasDe(r.pid) \ {Victima}) <= Cardinality(EntradasDe(r.pid))
        /\ Cardinality(EntradasDe(r.pid) \ {Victima}) \in Nat
    BY <2>2, <2>3, Finitos, FS_Subset
  <2> QED
    BY <1>3, <2>1, <2>3, <2>4 DEF HayCupo
<1>6. /\ cache' \in [Entradas -> TipoEntrada] /\ uso' \in [Entradas -> {-1} \cup Nat]
      /\ fallo = "ninguno" /\ r \in TipoHilo
  BY <1>1, <1>3, <1>4 DEF IInvMemoria, TiposMemoria, Anda, TipoHilo
<1> QED
  BY <1>1, <1>2, <1>3, <1>4, <1>5, <1>6, SigueHilo DEF CupoDe

\* An entry that gets the page or the content of its process stays of it.
LEMMA PasoPonerPagina ==
  ASSUME IInvMemoria, NEW h \in Conexiones, PonerPagina(h)
  PROVE  IInvMemoria'
<1>1. /\ Anda /\ hilo[h] \in TipoPaso /\ hilo[h].entrada \in Entradas
  BY EnHilo DEF PonerPagina, Pasos, ConEntrada
<1>2. /\ cache' = [cache EXCEPT ![hilo[h].entrada].pagina = hilo[h].pagina]
      /\ Sigue(h, "ponerContenido") /\ UNCHANGED <<tabla, bloque, uso, proceso, vaciando, fallo>>
  BY DEF PonerPagina
<1>3. /\ \A e \in Entradas : cache'[e].pid = cache[e].pid
      /\ cache' \in [Entradas -> TipoEntrada] /\ uso' \in [Entradas -> {-1} \cup Nat]
  BY <1>1, <1>2 DEF IInvMemoria, TiposMemoria, TipoEntrada, TipoPaso, Paginas
<1> QED
  BY <1>1, <1>2, <1>3, PasoSigue DEF Pasos

LEMMA PasoPonerContenido ==
  ASSUME IInvMemoria, NEW h \in Conexiones, PonerContenido(h)
  PROVE  IInvMemoria'
<1>1. /\ Anda /\ hilo[h] \in TipoPaso /\ hilo[h].entrada \in Entradas
  BY EnHilo DEF PonerContenido, Pasos, ConEntrada
<1>2. /\ cache' = [cache EXCEPT ![hilo[h].entrada].contenido = hilo[h].valor]
      /\ Sigue(h, "usar") /\ UNCHANGED <<tabla, bloque, uso, proceso, vaciando, fallo>>
  BY DEF PonerContenido
<1>3. /\ \A e \in Entradas : cache'[e].pid = cache[e].pid
      /\ cache' \in [Entradas -> TipoEntrada] /\ uso' \in [Entradas -> {-1} \cup Nat]
  BY <1>1, <1>2 DEF IInvMemoria, TiposMemoria, TipoEntrada, TipoPaso
<1> QED
  BY <1>1, <1>2, <1>3, PasoSigue DEF Pasos

LEMMA RecienteTipo ==
  ASSUME TiposMemoria, NEW e \in Entradas
  PROVE  Reciente(e) \in [Entradas -> {-1} \cup Nat]
<1> DEFINE S == {y \in Entradas \ {e} : uso[y] # -1}
<1>1. Cardinality(S) \in Nat
  <2>1. S \in SUBSET Entradas
    OBVIOUS
  <2> QED
    BY <2>1, Finitos
<1> HIDE DEF S
<1>2. \A x \in Entradas : uso[x] \in {-1} \cup Nat
  BY DEF TiposMemoria
<1>3. Reciente(e) = [x \in Entradas |-> IF x = e THEN Cardinality(S) + 1
                       ELSE IF uso[e] # -1 /\ uso[x] > uso[e] THEN uso[x] - 1 ELSE uso[x]]
  BY DEF Reciente, S
<1> QED
  BY <1>1, <1>2, <1>3

LEMMA PasoUsar ==
  ASSUME IInvMemoria, NEW h \in Conexiones, Usar(h)
  PROVE  IInvMemoria'
<1>1. /\ Anda /\ hilo[h] \in TipoPaso /\ hilo[h].entrada \in Entradas
  BY EnHilo DEF Usar, Pasos, ConEntrada
<1>2. /\ UNCHANGED <<tabla, bloque, cache, proceso, vaciando, fallo>>
      /\ uso' = Reciente(hilo[h].entrada)
  BY DEF Usar
<1>3. /\ \A e \in Entradas : cache'[e].pid = cache[e].pid
      /\ cache' \in [Entradas -> TipoEntrada] /\ uso' \in [Entradas -> {-1} \cup Nat]
  BY <1>1, <1>2, RecienteTipo DEF IInvMemoria, TiposMemoria
<1>4. CASE hilo[h].sigue = "leerFrame"
  <2>1. Sigue(h, "leerFrame")
    BY <1>4 DEF Usar
  <2> QED
    BY <1>1, <1>2, <1>3, <2>1, PasoSigue DEF Pasos, ConEntrada
<1>5. CASE hilo[h].sigue # "leerFrame"
  <2>1. RespondeDe(h, hilo[h].res, hilo[h].valor)
    BY <1>5 DEF Usar
  <2>2. hilo[h].res \in BOOLEAN /\ hilo[h].valor \in Contenidos
    BY <1>1 DEF TipoPaso
  <2> QED
    BY <1>1, <1>2, <1>3, <2>1, <2>2, PasoRespondeDe
<1> QED
  BY <1>4, <1>5

LEMMA PasoLeerFrame ==
  ASSUME IInvMemoria, NEW h \in Conexiones, LeerFrame(h)
  PROVE  IInvMemoria'
<1>1. Anda /\ hilo[h] \in TipoPaso
  BY EnHilo DEF LeerFrame, Pasos
<1>2. /\ UNCHANGED <<tabla, bloque, cache, uso, proceso, vaciando, fallo>>
      /\ RespondeDe(h, buscarFrameDePaginaDeProceso(hilo[h].pid, hilo[h].pagina) # -1,
                    Copia(hilo[h].pid, hilo[h].pagina))
  BY DEF LeerFrame
<1>3. Copia(hilo[h].pid, hilo[h].pagina) \in Contenidos
  BY CopiaTipo DEF IInvMemoria
<1>4. uso' \in [Entradas -> {-1} \cup Nat]
  BY <1>2 DEF IInvMemoria, TiposMemoria
<1> QED
  BY <1>1, <1>2, <1>3, <1>4, PasoRespondeDe

LEMMA PasoResponder ==
  ASSUME IInvMemoria, NEW h \in Conexiones, Responder(h)
  PROVE  IInvMemoria'
<1>1. /\ Libre \in TipoHilo /\ Libre.paso = "libre" /\ CupoDe(Libre)
      /\ Libre.paso \notin ConEntrada
  BY DEF TipoHilo, Libre, CupoDe, ConEntrada
<1>2. /\ hilo' = [hilo EXCEPT ![h] = Libre]
      /\ UNCHANGED <<tabla, bloque, cache, uso, proceso, vaciando, fallo>> /\ Anda
  BY DEF Responder, En
<1>3. /\ cache' \in [Entradas -> TipoEntrada] /\ uso' \in [Entradas -> {-1} \cup Nat]
      /\ bloque' \in [Frames -> Contenidos] /\ vaciando' \in BOOLEAN /\ fallo' = "ninguno"
      /\ proceso' \in [Pids -> {"nuevo", "rechazado", "activo", "estrena", "terminado"}]
  BY <1>2 DEF IInvMemoria, TiposMemoria, Anda
<1> QED
  BY <1>1, <1>2, <1>3, CambiaHilo

LEMMA PasoAlmacenar ==
  ASSUME IInvMemoria, NEW h \in Conexiones, NEW p \in Pids, NEW n \in Paginas,
         NEW v \in Valores, Almacenar(h, p, n, v)
  PROVE  IInvMemoria'
<1> DEFINE f == buscarFrameDePaginaDeProceso(p, n)
<1>1. f \in Frames \cup {-1}
  BY FrameHallado DEF IInvMemoria, DePagina
<1> HIDE DEF f
<1>2. /\ Pide(h) /\ ~Ocupado(p)
      /\ bloque' = IF f >= 0 THEN [bloque EXCEPT ![f] = v] ELSE bloque
      /\ PasoDe(h, "escribir", "verCache", "responde", p, n, -1, f >= 0)
      /\ proceso' = [proceso EXCEPT ![p] = "activo"]
      /\ UNCHANGED <<tabla, cache, uso, vaciando, fallo>>
  BY DEF Almacenar, f
<1>3. bloque' \in [Frames -> Contenidos]
  BY <1>1, <1>2 DEF IInvMemoria, TiposMemoria, Contenidos
<1>4. proceso' \in [Pids -> {"nuevo", "rechazado", "activo", "estrena", "terminado"}]
  BY <1>2 DEF IInvMemoria, TiposMemoria
<1>5. UNCHANGED <<tabla, cache, uso, vaciando, fallo>> /\ Pide(h) /\ ~Ocupado(p)
  BY <1>2
<1>6. CASE f >= 0
  <2>1. (f >= 0) = TRUE
    BY <1>6
  <2>2. PasoDe(h, "escribir", "verCache", "responde", p, n, -1, TRUE)
    BY <1>2, <2>1, Zenon
  <2> QED
    BY <1>3, <1>4, <1>5, <2>2, EmpiezaPaso DEF Pasos, ConEntrada
<1>7. CASE ~(f >= 0)
  <2>1. (f >= 0) = FALSE
    BY <1>7
  <2>2. PasoDe(h, "escribir", "verCache", "responde", p, n, -1, FALSE)
    BY <1>2, <2>1, Zenon
  <2> QED
    BY <1>3, <1>4, <1>5, <2>2, EmpiezaPaso DEF Pasos, ConEntrada
<1> QED
  BY <1>6, <1>7

LEMMA PasoVerCache ==
  ASSUME IInvMemoria, NEW h \in Conexiones, VerCache(h)
  PROVE  IInvMemoria'
<1>1. Anda /\ hilo[h] \in TipoPaso
  BY EnHilo DEF VerCache, Pasos
<1>2. UNCHANGED <<tabla, bloque, cache, uso, proceso, vaciando, fallo>>
  BY DEF VerCache
<1>3. /\ \A e \in Entradas : cache'[e].pid = cache[e].pid
      /\ cache' \in [Entradas -> TipoEntrada] /\ uso' \in [Entradas -> {-1} \cup Nat]
  BY <1>2 DEF IInvMemoria, TiposMemoria
<1>4. CASE Ausente(hilo[h].pid, hilo[h].pagina)
  <2>1. RespondeDe(h, hilo[h].res, Basura) /\ hilo[h].res \in BOOLEAN
    BY <1>1, <1>4 DEF VerCache, TipoPaso
  <2> QED
    BY <1>1, <1>2, <1>3, <2>1, PasoRespondeDe DEF Contenidos
<1>5. CASE ~Ausente(hilo[h].pid, hilo[h].pagina)
  <2>1. Sigue(h, "actualizar")
    BY <1>5 DEF VerCache
  <2> QED
    BY <1>1, <1>2, <1>3, <2>1, PasoSigue DEF Pasos, ConEntrada
<1> QED
  BY <1>4, <1>5

\* An entry to update is one of its process already, so it takes no room.
LEMMA PasoActualizar ==
  ASSUME IInvMemoria, NEW h \in Conexiones, Actualizar(h)
  PROVE  IInvMemoria'
<1> DEFINE p == hilo[h].pid
           n == hilo[h].pagina
<1>1. /\ Anda /\ hilo[h] # Libre /\ hilo[h].paso = "actualizar"
      /\ hilo[h] \in TipoPaso /\ p \in Pids
  BY EnHilo DEF Actualizar, Pasos
<1>2. UNCHANGED <<tabla, bloque, cache, uso, proceso, vaciando>>
  BY DEF Actualizar
<1>3. /\ cache' \in [Entradas -> TipoEntrada] /\ uso' \in [Entradas -> {-1} \cup Nat]
      /\ bloque' \in [Frames -> Contenidos] /\ vaciando' \in BOOLEAN
      /\ proceso' \in [Pids -> {"nuevo", "rechazado", "activo", "estrena", "terminado"}]
      /\ \A e \in Entradas : cache'[e].pid = cache[e].pid
  BY <1>2 DEF IInvMemoria, TiposMemoria
<1>4. CASE EnCache(p, n) = {}
  <2>1. hilo' = hilo /\ fallo' = "sinEntrada"
    BY <1>4 DEF Actualizar
  <2>2. TiposMemoria'
    BY <1>2, <2>1 DEF IInvMemoria, TiposMemoria
  <2>3. TablaFiel' /\ FramesParaElPedido' /\ SiempreHayFrame'
    BY <1>2, <2>1 DEF IInvMemoria, TablaFiel, FramesParaElPedido, SiempreHayFrame,
                      DelProceso, Libres
  <2>4. "consultar" \notin Operador => UnoPorProceso' /\ CupoDeCache' /\ CupoReservado'
    BY <1>2, <2>1 DEF IInvMemoria, UnoPorProceso, CupoDeCache, CupoReservado, HayCupo,
                      EntradasDe
  <2> QED
    BY <2>2, <2>3, <2>4 DEF IInvMemoria
<1>5. CASE EnCache(p, n) # {}
  <2> DEFINE e == Primera(EnCache(p, n))
             v == Copia(p, n)
             r == [hilo[h] EXCEPT !.paso = "ponerPid", !.valor = v, !.entrada = e]
  <2>1. EnCache(p, n) \in SUBSET Nat /\ EnCache(p, n) \subseteq EntradasDe(p)
        /\ EntradasDe(p) \in SUBSET Entradas
    BY DEF EnCache, Entradas, EntradasDe
  <2>2. e \in EntradasDe(p) /\ e \in Entradas /\ v \in Contenidos
    BY <1>5, <2>1, PrimeraEsta, CopiaTipo DEF IInvMemoria
  <2>3. hilo' = [hilo EXCEPT ![h] = r] /\ fallo' = fallo
    BY <1>5 DEF Actualizar
  <2> HIDE DEF e, v
  <2>4. r \in TipoPaso /\ r.paso = "ponerPid" /\ r.pid = p /\ r.entrada = e
    BY <1>1, <2>2 DEF TipoPaso, Pasos
  <2> HIDE DEF r, p
  <2>5. ASSUME "consultar" \notin Operador
        PROVE  Cardinality(EntradasDe(p) \ {e}) < CacheXProc
    <3>1. Cardinality(EntradasDe(p)) <= CacheXProc /\ Cardinality(EntradasDe(p)) \in Nat
      BY <1>1, <2>1, <2>5, Finitos DEF IInvMemoria, CupoDeCache
    <3>2. Cardinality(EntradasDe(p) \ {e}) = Cardinality(EntradasDe(p)) - 1
      BY <2>1, <2>2, Finitos, FS_RemoveElement
    <3> QED
      BY <3>1, <3>2
  <2>6. r \in TipoHilo /\ fallo = "ninguno" /\ r.pid = hilo[h].pid
    BY <1>1, <2>4 DEF TipoHilo, Anda, p
  <2> QED
    BY <1>1, <1>2, <1>3, <2>2, <2>3, <2>4, <2>5, <2>6, SigueHilo DEF CupoDe
<1> QED
  BY <1>4, <1>5

\* The entry leaves the process it was of, if any, and takes the place its new
\* process had room for.
LEMMA PasoPonerPid ==
  ASSUME IInvMemoria, NEW h \in Conexiones, PonerPid(h)
  PROVE  IInvMemoria'
<1>1. /\ hilo[h] # Libre /\ hilo[h].paso = "ponerPid" /\ hilo[h] \in TipoPaso
      /\ hilo[h].pid \in Pids /\ hilo[h].entrada \in Entradas
  BY EnHilo DEF PonerPid, Pasos, ConEntrada
<1> PICK p \in Pids, e \in Entradas : hilo[h].pid = p /\ hilo[h].entrada = e
  BY <1>1
<1> DEFINE r == [hilo[h] EXCEPT !.paso = "ponerPagina"]
<1>2. /\ cache' = [cache EXCEPT ![e].pid = p]
      /\ hilo' = [hilo EXCEPT ![h] = r]
      /\ UNCHANGED <<tabla, bloque, uso, proceso, vaciando, fallo>>
  BY DEF PonerPid, Sigue
<1>3. r \in TipoPaso /\ r.paso = "ponerPagina" /\ r.pid = p /\ r.entrada = e
  BY <1>1 DEF TipoPaso, Pasos
<1> HIDE DEF r
<1>4. \A c \in Conexiones : hilo'[c] = IF c = h THEN r ELSE hilo[c]
  BY <1>2 DEF IInvMemoria, TiposMemoria
<1>5. TiposMemoria'
  <2>1. cache' \in [Entradas -> TipoEntrada]
    BY <1>1, <1>2 DEF IInvMemoria, TiposMemoria, TipoEntrada
  <2>2. hilo' \in [Conexiones -> TipoHilo]
    BY <1>2, <1>3 DEF IInvMemoria, TiposMemoria, TipoHilo
  <2>3. \A c \in Conexiones : hilo'[c].paso \in ConEntrada => hilo'[c].entrada \in Entradas
    BY <1>1, <1>3, <1>4 DEF IInvMemoria, TiposMemoria
  <2> QED
    BY <1>2, <2>1, <2>2, <2>3 DEF IInvMemoria, TiposMemoria
<1>6. TablaFiel' /\ SiempreHayFrame'
  BY <1>2 DEF IInvMemoria, TablaFiel, SiempreHayFrame, DelProceso
<1>7. FramesParaElPedido'
  BY <1>2, <1>3, <1>4 DEF IInvMemoria, FramesParaElPedido, Libres, Conexiones
<1>8. ASSUME "consultar" \notin Operador
      PROVE  UnoPorProceso' /\ CupoDeCache' /\ CupoReservado'
  <2>1. UnoPorProceso'
    BY <1>1, <1>3, <1>4, <1>8 DEF IInvMemoria, UnoPorProceso
  <2>2. /\ EntradasDe(p)' = (EntradasDe(p) \ {e}) \cup {e}
        /\ \A q \in Pids \ {p} : EntradasDe(q)' = EntradasDe(q) \ {e}
    BY <1>1, <1>2 DEF IInvMemoria, TiposMemoria, TipoEntrada, EntradasDe
  <2>3. /\ \A q \in Pids : EntradasDe(q) \in SUBSET Entradas
        /\ \A q \in Pids : EntradasDe(q) \ {e} \in SUBSET Entradas
    BY DEF EntradasDe
  <2>4. Cardinality(EntradasDe(p) \ {e}) < CacheXProc
    BY <1>1, <1>8 DEF IInvMemoria, CupoReservado
  <2>5. Cardinality(EntradasDe(p)') <= CacheXProc
    <3> DEFINE S == EntradasDe(p) \ {e}
    <3>1. S \in SUBSET Entradas /\ e \notin S /\ EntradasDe(p)' = S \cup {e}
      BY <1>1, <2>2, <2>3
    <3>2. IsFiniteSet(S) /\ Cardinality(S) \in Nat /\ Cardinality(S) < CacheXProc
      BY <2>4, <3>1, Finitos
    <3> HIDE DEF S
    <3>3. Cardinality(S \cup {e}) = Cardinality(S) + 1
      BY <3>1, <3>2, FS_AddElement
    <3> QED
      BY ONLY <3>1, <3>2, <3>3, MemoriaAssumption DEF MemoriaAssumption
  <2>6. \A q \in Pids \ {p} : Cardinality(EntradasDe(q) \ {e}) <= Cardinality(EntradasDe(q))
    BY <2>3, Finitos, FS_RemoveElement
  <2>7. CupoDeCache'
    <3>1. ASSUME NEW q \in Pids \ {p} PROVE Cardinality(EntradasDe(q)') <= CacheXProc
      BY <1>8, <2>2, <2>3, <2>6, Finitos DEF IInvMemoria, CupoDeCache
    <3> QED
      BY <2>5, <3>1 DEF CupoDeCache
  <2>8. ASSUME NEW c \in Conexiones, hilo'[c].paso \in {"elegir", "ponerPid"}
        PROVE  /\ c # h /\ hilo'[c] = hilo[c] /\ hilo[c].pid \in Pids \ {p}
    <3>1. c # h /\ hilo'[c] = hilo[c]
      BY <1>3, <1>4, <2>8
    <3>2. hilo[c] # Libre /\ hilo[c] \in TipoHilo
      BY <2>8, <3>1 DEF IInvMemoria, TiposMemoria, Libre
    <3>3. hilo[c].pid # p
      BY <1>1, <1>8, <3>1, <3>2 DEF IInvMemoria, UnoPorProceso
    <3> QED
      BY <3>1, <3>2, <3>3, EnPaso
  <2>9. ASSUME NEW c \in Conexiones, NEW q \in Pids, hilo'[c].paso = "elegir", hilo'[c].pid = q
        PROVE  Cardinality(EntradasDe(q)') < CacheXProc
    <3>1. hilo[c].paso = "elegir" /\ hilo[c].pid = q /\ q # p
      BY <2>8, <2>9
    <3>2. Cardinality(EntradasDe(q)) < CacheXProc
      BY <1>8, <3>1 DEF IInvMemoria, CupoReservado, HayCupo
    <3> QED
      BY <2>2, <2>3, <2>6, <3>1, <3>2, Finitos
  <2>10. ASSUME NEW c \in Conexiones, NEW q \in Pids, NEW d,
                hilo'[c].paso = "ponerPid", hilo'[c].pid = q, hilo'[c].entrada = d
         PROVE  Cardinality(EntradasDe(q)' \ {d}) < CacheXProc
    <3> DEFINE S == EntradasDe(q) \ {d}
    <3>1. hilo[c].paso = "ponerPid" /\ hilo[c].pid = q /\ hilo[c].entrada = d /\ q # p
      BY <2>8, <2>10
    <3>2. Cardinality(S) < CacheXProc
      BY <1>8, <3>1 DEF IInvMemoria, CupoReservado
    <3>3. /\ EntradasDe(q)' \ {d} = S \ {e}
          /\ S \in SUBSET Entradas /\ S \ {e} \in SUBSET Entradas
      BY <2>2, <2>3, <3>1
    <3> HIDE DEF S
    <3>4. Cardinality(S \ {e}) <= Cardinality(S)
      BY <3>3, Finitos, FS_RemoveElement
    <3> QED
      BY <3>2, <3>3, <3>4, Finitos
  <2>11. CupoReservado'
    BY <2>8, <2>9, <2>10 DEF CupoReservado, HayCupo
  <2> QED
    BY <2>1, <2>7, <2>11
<1> QED
  BY <1>5, <1>6, <1>7, <1>8 DEF IInvMemoria

-----------------------------------------------------------------------------
(* Entries erased                                                          *)

\* Erasing entries breaks no share.
LEMMA MenosEnCache ==
  ASSUME IInvMemoria, "consultar" \notin Operador,
         \A q \in Pids : EntradasDe(q)' \subseteq EntradasDe(q),
         \A c \in Conexiones : hilo'[c] = hilo[c] \/ hilo'[c] = Libre
  PROVE  CupoDeCache' /\ CupoReservado'
<1>1. \A q \in Pids : EntradasDe(q) \in SUBSET Entradas
  BY DEF EntradasDe
<1>2. ASSUME NEW q \in Pids, NEW S, NEW T, S = EntradasDe(q), T \subseteq S
      PROVE  Cardinality(T) \in Nat /\ Cardinality(S) \in Nat /\ Cardinality(T) <= Cardinality(S)
  BY <1>1, <1>2, Finitos, FS_Subset
<1>3. CupoDeCache'
  <2>1. ASSUME NEW q \in Pids PROVE Cardinality(EntradasDe(q)') <= CacheXProc
    <3>1. EntradasDe(q)' \subseteq EntradasDe(q)
      OBVIOUS
    <3>2. /\ Cardinality(EntradasDe(q)') \in Nat /\ Cardinality(EntradasDe(q)) \in Nat
          /\ Cardinality(EntradasDe(q)') <= Cardinality(EntradasDe(q))
      BY <1>2, <3>1
    <3>3. Cardinality(EntradasDe(q)) <= CacheXProc
      BY DEF IInvMemoria, CupoDeCache
    <3>4. CacheXProc \in Nat
      BY MemoriaAssumption DEF MemoriaAssumption
    <3> QED
      BY <3>2, <3>3, <3>4
  <2> QED
    BY <2>1 DEF CupoDeCache
<1>4. ASSUME NEW c \in Conexiones, hilo'[c].paso \in {"elegir", "ponerPid"}
      PROVE  hilo'[c] = hilo[c] /\ hilo[c].pid \in Pids
  <2>1. hilo'[c] = hilo[c] /\ hilo[c] # Libre
    BY <1>4 DEF Libre
  <2> QED
    BY <2>1, EnPaso DEF IInvMemoria, TiposMemoria
<1>5. ASSUME NEW c \in Conexiones, NEW q \in Pids, hilo'[c].paso = "elegir", hilo'[c].pid = q
      PROVE  Cardinality(EntradasDe(q)') < CacheXProc
  <2>1. Cardinality(EntradasDe(q)) < CacheXProc
    BY <1>4, <1>5 DEF IInvMemoria, CupoReservado, HayCupo
  <2> QED
    BY <1>2, <2>1
<1>6. ASSUME NEW c \in Conexiones, NEW q \in Pids, NEW d,
             hilo'[c].paso = "ponerPid", hilo'[c].pid = q, hilo'[c].entrada = d
      PROVE  Cardinality(EntradasDe(q)' \ {d}) < CacheXProc
  <2> DEFINE S == EntradasDe(q) \ {d}
             T == EntradasDe(q)' \ {d}
  <2>1. Cardinality(S) < CacheXProc
    BY <1>4, <1>6 DEF IInvMemoria, CupoReservado
  <2>2. S \in SUBSET Entradas /\ T \in SUBSET S
    BY <1>1
  <2> HIDE DEF S, T
  <2>3. Cardinality(T) <= Cardinality(S) /\ Cardinality(T) \in Nat /\ Cardinality(S) \in Nat
    BY <2>2, Finitos, FS_Subset
  <2>4. Cardinality(T) < CacheXProc
    BY <2>1, <2>3
  <2> QED
    BY <2>4 DEF T
<1>7. CupoReservado'
  BY <1>4, <1>5, <1>6 DEF CupoReservado, HayCupo
<1> QED
  BY <1>3, <1>7

LEMMA BorradaTipo ==
  ASSUME NEW t \in TipoEntrada
  PROVE  /\ [t EXCEPT !.pid = -1, !.pagina = -1] \in TipoEntrada
         /\ [t EXCEPT !.pid = -1, !.pagina = -1].pid = -1
<1>1. PICK i \in Int : i = -1
  OBVIOUS
<1>2. [t EXCEPT !.pid = i, !.pagina = i] \in TipoEntrada
  BY DEF TipoEntrada
<1>3. [t EXCEPT !.pid = i, !.pagina = i].pid = i
  BY DEF TipoEntrada
<1> QED
  BY <1>1, <1>2, <1>3

LEMMA PasoBorrarEnCache ==
  ASSUME IInvMemoria, BorrarEnCache
  PROVE  IInvMemoria'
<1>1. /\ hilo' = [hilo EXCEPT ![Nucleo] = Libre]
      /\ cache' = [e \in Entradas |->
           IF cache[e].pid = hilo[Nucleo].pid
           THEN [cache[e] EXCEPT !.pid = -1, !.pagina = -1] ELSE cache[e]]
      /\ UNCHANGED <<tabla, bloque, uso, proceso, vaciando, fallo>>
  BY DEF BorrarEnCache
<1>2. /\ Libre \in TipoHilo /\ Libre.paso = "libre" /\ Nucleo \in Conexiones
      /\ \A c \in Conexiones : hilo'[c] = IF c = Nucleo THEN Libre ELSE hilo[c]
  BY <1>1 DEF IInvMemoria, TiposMemoria, TipoHilo, Libre, Conexiones
<1>3. TiposMemoria'
  <2>1. cache' \in [Entradas -> TipoEntrada]
    BY <1>1, BorradaTipo DEF IInvMemoria, TiposMemoria
  <2>2. hilo' \in [Conexiones -> TipoHilo]
    BY <1>1, <1>2 DEF IInvMemoria, TiposMemoria
  <2>3. \A c \in Conexiones : hilo'[c].paso \in ConEntrada => hilo'[c].entrada \in Entradas
    BY <1>2 DEF IInvMemoria, TiposMemoria, ConEntrada
  <2>4. UNCHANGED <<tabla, bloque, uso, proceso, vaciando, fallo>>
    BY <1>1
  <2> QED
    BY <2>1, <2>2, <2>3, <2>4 DEF IInvMemoria, TiposMemoria
<1>4. TablaFiel' /\ FramesParaElPedido' /\ SiempreHayFrame'
  <2>1. UNCHANGED <<tabla, fallo>> /\ hilo'[Nucleo].paso # "asignar"
    BY <1>1, <1>2
  <2> QED
    BY <2>1 DEF IInvMemoria, TablaFiel, FramesParaElPedido, SiempreHayFrame, DelProceso
<1>5. ASSUME "consultar" \notin Operador
      PROVE  UnoPorProceso' /\ CupoDeCache' /\ CupoReservado'
  <2>1. UnoPorProceso'
    BY <1>2, <1>5 DEF IInvMemoria, UnoPorProceso
  <2>2. \A q \in Pids : EntradasDe(q)' \subseteq EntradasDe(q)
    <3>1. \A e \in Entradas : cache'[e].pid \in {cache[e].pid, -1}
      BY <1>1, ZenonT(30) DEF IInvMemoria, TiposMemoria, TipoEntrada
    <3> QED
      BY <3>1 DEF EntradasDe
  <2> QED
    BY <1>2, <1>5, <2>1, <2>2, MenosEnCache
<1> QED
  BY <1>3, <1>4, <1>5 DEF IInvMemoria

LEMMA PasoVaciarEntradas ==
  ASSUME IInvMemoria, VaciarEntradas
  PROVE  IInvMemoria'
<1>1. /\ cache' = [e \in Entradas |-> [cache[e] EXCEPT !.pid = -1, !.pagina = -1]]
      /\ vaciando' = TRUE
      /\ UNCHANGED <<tabla, bloque, uso, proceso, hilo, fallo>>
  BY DEF VaciarEntradas
<1>2. TiposMemoria'
  <2>1. cache' \in [Entradas -> TipoEntrada]
    BY <1>1, BorradaTipo DEF IInvMemoria, TiposMemoria
  <2>2. vaciando' \in BOOLEAN /\ UNCHANGED <<tabla, bloque, uso, proceso, hilo, fallo>>
    BY <1>1
  <2> QED
    BY <2>1, <2>2 DEF IInvMemoria, TiposMemoria
<1>3. TablaFiel' /\ FramesParaElPedido' /\ SiempreHayFrame'
  <2>1. UNCHANGED <<tabla, hilo, fallo>>
    BY <1>1
  <2> QED
    BY <2>1 DEF IInvMemoria, TablaFiel, FramesParaElPedido, SiempreHayFrame, DelProceso, Libres
<1>4. ASSUME "consultar" \notin Operador
      PROVE  UnoPorProceso' /\ CupoDeCache' /\ CupoReservado'
  <2>1. UnoPorProceso'
    BY <1>1, <1>4 DEF IInvMemoria, UnoPorProceso
  <2>2. \A q \in Pids : EntradasDe(q)' \subseteq EntradasDe(q)
    <3>1. \A e \in Entradas : cache'[e].pid = -1
      BY <1>1, ZenonT(30) DEF IInvMemoria, TiposMemoria, TipoEntrada
    <3> QED
      BY <3>1 DEF EntradasDe
  <2> QED
    BY <1>1, <1>4, <2>1, <2>2, MenosEnCache
<1> QED
  BY <1>2, <1>3, <1>4 DEF IInvMemoria

LEMMA PasoVaciarUsos ==
  ASSUME IInvMemoria, VaciarUsos
  PROVE  IInvMemoria'
<1>1. /\ uso' = [e \in Entradas |-> -1] /\ vaciando' = FALSE
      /\ UNCHANGED <<tabla, bloque, cache, proceso, hilo, fallo>>
  BY DEF VaciarUsos
<1>2. TiposMemoria'
  BY <1>1 DEF IInvMemoria, TiposMemoria
<1>3. TablaFiel' /\ FramesParaElPedido' /\ SiempreHayFrame'
  BY <1>1 DEF IInvMemoria, TablaFiel, FramesParaElPedido, SiempreHayFrame, DelProceso, Libres
<1>4. "consultar" \notin Operador => UnoPorProceso' /\ CupoDeCache' /\ CupoReservado'
  BY <1>1 DEF IInvMemoria, UnoPorProceso, CupoDeCache, CupoReservado, HayCupo, EntradasDe
<1> QED
  BY <1>2, <1>3, <1>4 DEF IInvMemoria

-----------------------------------------------------------------------------
(* Frames given and given back                                             *)

LEMMA PasoPedirPaginas ==
  ASSUME IInvMemoria, NEW p \in Pids, NEW cant \in 1..MaxPaginas, PedirPaginas(p, cant)
  PROVE  IInvMemoria'
<1>1. /\ Pide(Nucleo) /\ ~Ocupado(p) /\ Nucleo \in Conexiones
      /\ UNCHANGED <<tabla, bloque, cache, uso, vaciando, fallo>>
  BY DEF PedirPaginas, Conexiones
<1>2. /\ \A e \in Entradas : cache'[e].pid = cache[e].pid
      /\ cache' \in [Entradas -> TipoEntrada] /\ uso' \in [Entradas -> {-1} \cup Nat]
      /\ bloque' \in [Frames -> Contenidos] /\ vaciando' \in BOOLEAN /\ fallo' = "ninguno"
  BY <1>1 DEF IInvMemoria, TiposMemoria, Pide, Anda
<1>3. \A c \in Conexiones : hilo[c] # Libre => hilo[c].pid # p
  BY <1>1 DEF Ocupado
<1>4. CASE Alcanza(cant)
  <2> DEFINE r == [paso |-> "asignar", pid |-> p, cant |-> cant, hechas |-> 0]
  <2>1. /\ r \in TipoHilo /\ r.paso = "asignar" /\ r.pid = p /\ r.hechas = 0 /\ r.cant = cant
        /\ hilo' = [hilo EXCEPT ![Nucleo] = r] /\ proceso' = proceso
    BY <1>4 DEF PedirPaginas, TipoHilo, TipoAsignar
  <2>2. r.hechas < r.cant /\ r.cant - r.hechas <= Cardinality(Libres)
    <3>1. Cardinality(Libres) \in Nat /\ Cardinality(Libres) >= cant
      BY <1>4, Finitos DEF Alcanza, Libres
    <3> QED
      BY <2>1, <3>1
  <2>3. CupoDe(r) /\ r.paso \notin ConEntrada
    BY <2>1 DEF CupoDe, ConEntrada
  <2>4. proceso' \in [Pids -> {"nuevo", "rechazado", "activo", "estrena", "terminado"}]
    BY <2>1 DEF IInvMemoria, TiposMemoria
  <2> HIDE DEF r
  <2> QED
    BY <1>1, <1>2, <1>3, <2>1, <2>2, <2>3, <2>4, CambiaHilo
<1>5. CASE ~Alcanza(cant)
  <2> DEFINE r == [paso |-> "responde", orden |-> "pedir", pid |-> p, pagina |-> cant,
                   res |-> FALSE, valor |-> Basura]
  <2>1. /\ r \in TipoHilo /\ r.paso = "responde" /\ r.pid = p
        /\ hilo' = [hilo EXCEPT ![Nucleo] = r]
        /\ proceso' = [proceso EXCEPT ![p] = "rechazado"]
    BY <1>5 DEF PedirPaginas, Responde, TipoHilo, TipoRespuesta, Contenidos
  <2>3. CupoDe(r) /\ r.paso \notin ConEntrada
    BY <2>1 DEF CupoDe, ConEntrada
  <2>4. proceso' \in [Pids -> {"nuevo", "rechazado", "activo", "estrena", "terminado"}]
    BY <2>1 DEF IInvMemoria, TiposMemoria
  <2> HIDE DEF r
  <2> QED
    BY <1>1, <1>2, <1>3, <2>1, <2>3, <2>4, CambiaHilo
<1> QED
  BY <1>4, <1>5

\* What a change of the frame table has to keep, when the rest stays and one
\* thread goes on with its process.
LEMMA CambiaTabla ==
  ASSUME IInvMemoria, NEW h \in Conexiones, NEW r \in TipoHilo,
         hilo' = [hilo EXCEPT ![h] = r],
         UNCHANGED <<bloque, cache, uso, vaciando, fallo>>,
         tabla' \in [Frames -> [frame : Int, pid : Int, num_pag : Int]],
         TablaFiel', FramesParaElPedido',
         proceso' \in [Pids -> {"nuevo", "rechazado", "activo", "estrena", "terminado"}],
         r.paso \notin Pasos,
         "consultar" \notin Operador =>
           \A c \in Conexiones \ {h} : hilo[c] # Libre => hilo[c].pid # r.pid
  PROVE  IInvMemoria'
<1>1. /\ \A c \in Conexiones : hilo'[c] = IF c = h THEN r ELSE hilo[c]
      /\ hilo' \in [Conexiones -> TipoHilo]
      /\ r.paso \notin ConEntrada /\ r.paso \notin {"elegir", "ponerPid"}
  BY DEF IInvMemoria, TiposMemoria, Pasos, ConEntrada
<1>2. TiposMemoria'
  BY <1>1 DEF IInvMemoria, TiposMemoria
<1>3. "consultar" \notin Operador /\ UnoPorProceso => UnoPorProceso'
  BY <1>1 DEF UnoPorProceso
<1>4. CupoDeCache => CupoDeCache'
  BY DEF CupoDeCache, EntradasDe
<1>5. CupoReservado => CupoReservado'
  BY <1>1, ZenonT(30) DEF CupoReservado, HayCupo, EntradasDe
<1>6. SiempreHayFrame'
  BY DEF IInvMemoria, SiempreHayFrame
<1> QED
  BY <1>2, <1>3, <1>4, <1>5, <1>6 DEF IInvMemoria

\* The round that gives the first free frame the number after the last page.
LEMMA DaFrame ==
  ASSUME TiposMemoria, TablaFiel, NEW p \in Pids, NEW g \in Libres,
         tabla' = [tabla EXCEPT ![g] =
                     [frame |-> g, pid |-> p, num_pag |-> Cardinality(DelProceso(p))]]
  PROVE  /\ TablaFiel'
         /\ tabla' \in [Frames -> [frame : Int, pid : Int, num_pag : Int]]
         /\ Libres' = Libres \ {g}
<1>1. /\ g \in Frames /\ tabla[g].pid = -1 /\ tabla[g].frame = g /\ ~(g < MarcosAdm)
      /\ -1 \notin Pids /\ p \in Int
  BY DEF Libres, TablaFiel, Frames
<1>2. Cardinality(DelProceso(p)) \in Nat /\ DelProceso(p) \in SUBSET Frames
  BY Finitos DEF DelProceso
<1> DEFINE N == Cardinality(DelProceso(p))
           nueva == [frame |-> g, pid |-> p, num_pag |-> N]
<1>3. nueva \in [frame : Int, pid : Int, num_pag : Int]
  BY <1>1, <1>2 DEF Frames
<1>4. \A f \in Frames : tabla'[f] = IF f = g THEN nueva ELSE tabla[f]
  BY DEF TiposMemoria
<1>5. /\ nueva.frame = g /\ nueva.pid = p /\ nueva.num_pag = N
  OBVIOUS
<1>6. tabla' \in [Frames -> [frame : Int, pid : Int, num_pag : Int]]
  BY <1>3 DEF TiposMemoria
<1> HIDE DEF nueva
<1>7. Libres' = Libres \ {g}
  BY <1>1, <1>4, <1>5 DEF Libres
<1>8. /\ DelProceso(p)' = DelProceso(p) \cup {g} /\ g \notin DelProceso(p)
      /\ \A q \in Pids \ {p} : DelProceso(q)' = DelProceso(q) /\ g \notin DelProceso(q)
  <2>1. \A q \in Pids : g \notin DelProceso(q)
    BY <1>1 DEF DelProceso
  <2>2. ASSUME NEW q \in Pids, NEW f \in Frames
        PROVE  tabla'[f].pid = q <=> (tabla[f].pid = q \/ (q = p /\ f = g))
    BY <1>1, <1>4, <1>5
  <2>3. \A q \in Pids : DelProceso(q)' = {f \in Frames : tabla'[f].pid = q}
    BY DEF DelProceso
  <2>4. DelProceso(p)' = DelProceso(p) \cup {g}
    BY <1>1, <2>2, <2>3 DEF DelProceso
  <2>5. ASSUME NEW q \in Pids \ {p} PROVE DelProceso(q)' = DelProceso(q)
    BY <2>2, <2>3 DEF DelProceso
  <2> QED
    BY <2>1, <2>4, <2>5
<1>9. Cardinality(DelProceso(p)') = N + 1
  BY <1>2, <1>8, Finitos, FS_AddElement
<1>10. \A f \in Frames :
         /\ tabla'[f].frame = f
         /\ IF f < MarcosAdm THEN tabla'[f].pid = -9 ELSE tabla'[f].pid \in Pids \cup {-1}
  BY <1>1, <1>4, <1>5 DEF TablaFiel
<1>11. ASSUME NEW q \in Pids, q # p
       PROVE  /\ \A f \in DelProceso(q)' :
                    tabla'[f].num_pag \in 0..(Cardinality(DelProceso(q)') - 1)
              /\ \A f, k \in DelProceso(q)' : f # k => tabla'[f].num_pag # tabla'[k].num_pag
  <2>1. DelProceso(q)' = DelProceso(q) /\ DelProceso(q) \subseteq Frames \ {g}
    BY <1>8, <1>11 DEF DelProceso
  <2>2. \A f \in DelProceso(q) : tabla'[f] = tabla[f]
    BY <1>4, <2>1
  <2> QED
    BY <2>1, <2>2 DEF TablaFiel
<1>12. /\ \A f \in DelProceso(p)' :
            tabla'[f].num_pag \in 0..(Cardinality(DelProceso(p)') - 1)
       /\ \A f, k \in DelProceso(p)' : f # k => tabla'[f].num_pag # tabla'[k].num_pag
  <2>1. \A f \in DelProceso(p) : tabla'[f] = tabla[f]
    BY <1>2, <1>4, <1>8
  <2>2. \A f \in DelProceso(p) : tabla[f].num_pag \in 0..(N - 1)
    BY DEF TablaFiel
  <2>3. \A f, k \in DelProceso(p) : f # k => tabla[f].num_pag # tabla[k].num_pag
    BY DEF TablaFiel
  <2>4. tabla'[g].num_pag = N
    BY <1>1, <1>4, <1>5
  <2>5. N \in Nat /\ 0..(Cardinality(DelProceso(p)') - 1) = 0..N
    BY <1>2, <1>9
  <2> HIDE DEF N
  <2>6. \A f \in DelProceso(p)' : tabla'[f].num_pag \in 0..N
    BY <1>8, <2>1, <2>2, <2>4, <2>5
  <2>7. \A f, k \in DelProceso(p)' : f # k => tabla'[f].num_pag # tabla'[k].num_pag
    BY <1>8, <2>1, <2>2, <2>3, <2>4, <2>5
  <2> QED
    BY <2>5, <2>6, <2>7
<1>13. TablaFiel'
  BY <1>10, <1>11, <1>12 DEF TablaFiel
<1> QED
  BY <1>6, <1>7, <1>13

\* A round of a request: the frame that was counted is there.
LEMMA PasoAsignarPagina ==
  ASSUME IInvMemoria, AsignarPagina
  PROVE  IInvMemoria'
<1>1. /\ hilo[Nucleo].paso = "asignar" /\ hilo[Nucleo] \in TipoAsignar
      /\ hilo[Nucleo] # Libre /\ Nucleo \in Conexiones
      /\ UNCHANGED <<bloque, cache, uso, vaciando>>
  BY EnPaso DEF AsignarPagina, En, IInvMemoria, TiposMemoria, Conexiones, Libre
<1> PICK p \in Pids, cant \in Nat, hechas \in Nat :
      hilo[Nucleo].pid = p /\ hilo[Nucleo].cant = cant /\ hilo[Nucleo].hechas = hechas
  BY <1>1 DEF TipoAsignar
<1>2. /\ hechas < cant /\ cant - hechas <= Cardinality(Libres)
      /\ Libres \in SUBSET Frames /\ IsFiniteSet(Libres) /\ Cardinality(Libres) \in Nat
  BY <1>1, Finitos DEF IInvMemoria, FramesParaElPedido, Libres
<1>3. Libres # {}
  BY <1>2, FS_EmptySet
<1>4. Primera(Libres) \in Libres
  BY <1>2, <1>3, PrimeraEsta DEF Frames
<1> PICK g \in Libres : g = Primera(Libres)
  BY <1>4
<1>5. tabla[g].frame = g
  BY DEF IInvMemoria, TablaFiel, Libres
<1>6. tabla' = [tabla EXCEPT ![g] =
                  [frame |-> g, pid |-> p, num_pag |-> Cardinality(DelProceso(p))]]
  BY <1>3, <1>5 DEF AsignarPagina, Numero
<1>7. /\ TablaFiel' /\ Libres' = Libres \ {g}
      /\ tabla' \in [Frames -> [frame : Int, pid : Int, num_pag : Int]]
  BY <1>6, DaFrame DEF IInvMemoria
<1>8. Cardinality(Libres') = Cardinality(Libres) - 1
  BY <1>2, <1>7, FS_RemoveElement
<1>9. "consultar" \notin Operador =>
        \A c \in Conexiones \ {Nucleo} : hilo[c] # Libre => hilo[c].pid # p
  BY <1>1 DEF IInvMemoria, UnoPorProceso
<1>10. UNCHANGED fallo
  BY <1>3 DEF AsignarPagina
<1>11. CASE hechas + 1 = cant
  <2> DEFINE r == [paso |-> "responde", orden |-> "pedir", pid |-> p, pagina |-> cant,
                   res |-> TRUE, valor |-> Basura]
  <2>1. /\ r \in TipoHilo /\ r.paso = "responde" /\ r.pid = p
        /\ hilo' = [hilo EXCEPT ![Nucleo] = r]
    BY <1>3, <1>11 DEF AsignarPagina, Responde, TipoHilo, TipoRespuesta, Contenidos
  <2>2. proceso' = [proceso EXCEPT ![p] = IF @ = "nuevo" THEN "activo" ELSE "estrena"]
    BY <1>3, <1>11 DEF AsignarPagina
  <2>3. proceso' \in [Pids -> {"nuevo", "rechazado", "activo", "estrena", "terminado"}]
    BY <2>2 DEF IInvMemoria, TiposMemoria
  <2> HIDE DEF r
  <2>4. FramesParaElPedido' /\ r.paso \notin Pasos
    BY <1>1, <2>1 DEF FramesParaElPedido, Pasos, IInvMemoria, TiposMemoria
  <2> QED
    BY <1>1, <1>7, <1>9, <1>10, <2>1, <2>3, <2>4, CambiaTabla
<1>12. CASE hechas + 1 # cant
  <2> DEFINE r == [hilo[Nucleo] EXCEPT !.hechas = hechas + 1]
  <2>1. /\ r \in TipoAsignar /\ r.paso = "asignar" /\ r.pid = p
        /\ r.hechas = hechas + 1 /\ r.cant = cant
    BY <1>1 DEF TipoAsignar
  <2>2. hilo' = [hilo EXCEPT ![Nucleo] = r] /\ proceso' = proceso
    BY <1>1, <1>3, <1>12 DEF AsignarPagina, IInvMemoria, TiposMemoria
  <2> HIDE DEF r
  <2>3. hilo'[Nucleo] = r
    BY <1>1, <2>2 DEF IInvMemoria, TiposMemoria
  <2>4. FramesParaElPedido'
    BY <1>2, <1>8, <1>12, <2>1, <2>3 DEF FramesParaElPedido
  <2>5. r \in TipoHilo /\ r.paso \notin Pasos
        /\ proceso' \in [Pids -> {"nuevo", "rechazado", "activo", "estrena", "terminado"}]
    BY <2>1, <2>2 DEF TipoHilo, Pasos, IInvMemoria, TiposMemoria
  <2> QED
    BY <1>1, <1>7, <1>9, <1>10, <2>1, <2>2, <2>4, <2>5, CambiaTabla
<1> QED
  BY <1>11, <1>12

LEMMA PasoFinalizar ==
  ASSUME IInvMemoria, NEW p \in Pids, Finalizar(p)
  PROVE  IInvMemoria'
<1> DEFINE r == [paso |-> "borrarCache", pid |-> p]
<1>1. /\ ~Ocupado(p) /\ Nucleo \in Conexiones
      /\ UNCHANGED <<bloque, cache, uso, vaciando, fallo>>
      /\ hilo' = [hilo EXCEPT ![Nucleo] = r]
      /\ proceso' = [proceso EXCEPT ![p] = "terminado"]
  BY DEF Finalizar, Conexiones
<1>2. tabla' = [f \in Frames |-> IF f >= MarcosAdm /\ tabla[f].pid = p
                  THEN [tabla[f] EXCEPT !.pid = -1, !.num_pag = -1] ELSE tabla[f]]
  BY DEF Finalizar
<1>3. ASSUME NEW f \in Frames
      PROVE  /\ tabla'[f] \in [frame : Int, pid : Int, num_pag : Int]
             /\ tabla'[f].frame = tabla[f].frame
             /\ tabla[f].pid = p => tabla'[f].pid = -1
             /\ tabla[f].pid # p => tabla'[f] = tabla[f]
  <2>1. tabla[f] \in [frame : Int, pid : Int, num_pag : Int] /\ p # -9
    BY DEF IInvMemoria, TiposMemoria
  <2>2. tabla[f].pid = p => f >= MarcosAdm
    BY <2>1 DEF IInvMemoria, TablaFiel, Frames
  <2>3. PICK i \in Int : i = -1
    OBVIOUS
  <2> DEFINE t == [tabla[f] EXCEPT !.pid = i, !.num_pag = i]
  <2>4. /\ t \in [frame : Int, pid : Int, num_pag : Int]
        /\ t.frame = tabla[f].frame /\ t.pid = i
    BY <2>1
  <2>5. tabla'[f] = IF tabla[f].pid = p THEN t ELSE tabla[f]
    BY <1>2, <2>2, <2>3
  <2> HIDE DEF t
  <2> QED
    BY <2>1, <2>3, <2>4, <2>5
<1>4. tabla' \in [Frames -> [frame : Int, pid : Int, num_pag : Int]]
  <2>1. tabla' = [f \in Frames |-> tabla'[f]]
    BY <1>2
  <2> QED
    BY <1>3, <2>1
<1>5. TablaFiel'
  <2>1. \A f \in Frames :
          /\ tabla'[f].frame = f
          /\ IF f < MarcosAdm THEN tabla'[f].pid = -9 ELSE tabla'[f].pid \in Pids \cup {-1}
    BY <1>3 DEF IInvMemoria, TablaFiel
  <2>2. \A q \in Pids : DelProceso(q)' = {f \in Frames : tabla'[f].pid = q}
    BY DEF DelProceso
  <2>3. DelProceso(p)' = {}
    BY <1>3, <2>2
  <2>4. \A q \in Pids \ {p} : DelProceso(q)' = DelProceso(q)
    BY <1>3, <2>2 DEF DelProceso
  <2>5. \A q \in Pids \ {p}, f \in Frames : tabla[f].pid = q => tabla'[f] = tabla[f]
    BY <1>3
  <2>6. ASSUME NEW q \in Pids, q # p
        PROVE  /\ \A f \in DelProceso(q)' :
                     tabla'[f].num_pag \in 0..(Cardinality(DelProceso(q)') - 1)
               /\ \A f, k \in DelProceso(q)' : f # k => tabla'[f].num_pag # tabla'[k].num_pag
    BY <2>4, <2>5, <2>6 DEF IInvMemoria, TablaFiel, DelProceso
  <2> QED
    BY <2>1, <2>3, <2>6 DEF TablaFiel
<1>6. r \in TipoHilo /\ r.paso = "borrarCache" /\ r.pid = p
  BY DEF TipoHilo, TipoBorrar
<1> HIDE DEF r
<1>7. FramesParaElPedido' /\ r.paso \notin Pasos
  BY <1>1, <1>6 DEF FramesParaElPedido, Pasos, IInvMemoria, TiposMemoria
<1>8. proceso' \in [Pids -> {"nuevo", "rechazado", "activo", "estrena", "terminado"}]
  BY <1>1 DEF IInvMemoria, TiposMemoria
<1>9. \A c \in Conexiones : hilo[c] # Libre => hilo[c].pid # p
  BY <1>1 DEF Ocupado
<1> QED
  BY <1>1, <1>4, <1>5, <1>6, <1>7, <1>8, <1>9, CambiaTabla

-----------------------------------------------------------------------------
(* The theorems                                                            *)

LEMMA Inicio == Init => IInvMemoria
<1> SUFFICES ASSUME Init PROVE IInvMemoria
  OBVIOUS
<1>1. TiposMemoria
  <2>1. tabla \in [Frames -> [frame : Int, pid : Int, num_pag : Int]]
    BY DEF Init, Frames
  <2>2. bloque \in [Frames -> Contenidos] /\ cache \in [Entradas -> TipoEntrada]
    BY DEF Init, Contenidos, TipoEntrada
  <2>3. /\ uso \in [Entradas -> {-1} \cup Nat] /\ vaciando \in BOOLEAN
        /\ proceso \in [Pids -> {"nuevo", "rechazado", "activo", "estrena", "terminado"}]
        /\ fallo \in {"ninguno", "sinFrame", "sinEntrada"}
    BY DEF Init
  <2>4. hilo \in [Conexiones -> TipoHilo]
    BY DEF Init, TipoHilo
  <2>5. \A c \in Conexiones : hilo[c].paso \notin ConEntrada
    BY DEF Init, Libre, ConEntrada
  <2> QED
    BY <2>1, <2>2, <2>3, <2>4, <2>5 DEF TiposMemoria
<1>2. TablaFiel
  <2>1. \A p \in Pids : DelProceso(p) = {}
    BY DEF Init, DelProceso, Frames
  <2> QED
    BY <2>1 DEF Init, TablaFiel, Frames
<1>3. FramesParaElPedido /\ SiempreHayFrame /\ UnoPorProceso
  BY DEF Init, FramesParaElPedido, SiempreHayFrame, UnoPorProceso, Libre, Conexiones
<1>4. CupoDeCache /\ CupoReservado
  <2>1. \A p \in Pids : EntradasDe(p) = {}
    BY DEF Init, EntradasDe
  <2>2. Cardinality({}) = 0 /\ 0 <= CacheXProc
    BY FS_EmptySet
  <2>3. \A c \in Conexiones : hilo[c].paso = "libre"
    BY DEF Init, Libre
  <2>4. CupoDeCache
    BY <2>1, <2>2 DEF CupoDeCache
  <2>5. CupoReservado
    BY <2>3 DEF CupoReservado
  <2> QED
    BY <2>4, <2>5
<1> QED
  BY <1>1, <1>2, <1>3, <1>4 DEF IInvMemoria

LEMMA Inductivo == IInvMemoria /\ [Next]_vars => IInvMemoria'
<1> SUFFICES ASSUME IInvMemoria, [Next]_vars PROVE IInvMemoria'
  OBVIOUS
<1>1. CASE Marco
  BY <1>1, PasoFinalizar, PasoPedirPaginas, PasoAsignarPagina, PasoBorrarEnCache DEF Marco
<1>2. CASE Lectura
  <2>1. ASSUME NEW p \in Pids, NEW n \in Paginas, Consultar(p, n) PROVE IInvMemoria'
    BY <2>1, PasoBuscar DEF Consultar, Conexiones
  <2>2. ASSUME NEW p \in Pids, NEW n \in Paginas, NEW h \in Conexiones, Solicitar(h, p, n)
        PROVE  IInvMemoria'
    BY <2>2, PasoBuscar DEF Solicitar
  <2> QED
    BY <1>2, <2>1, <2>2, PasoLeerCache, PasoContar, PasoElegir, PasoLeerFrame, PasoUsar,
       PasoResponder DEF Lectura
<1>3. CASE Escritura
  BY <1>3, PasoAlmacenar, PasoVerCache, PasoActualizar, PasoPonerPid, PasoPonerPagina,
     PasoPonerContenido DEF Escritura
<1>4. CASE UNCHANGED vars
  <2>0. UNCHANGED <<tabla, bloque, cache, uso, proceso, hilo, vaciando, fallo>>
    BY <1>4 DEF vars
  <2>1. TiposMemoria' /\ TablaFiel'
    <3>1. TiposMemoria'
      BY <2>0 DEF IInvMemoria, TiposMemoria
    <3>2. TablaFiel'
      <4>1. \A p \in Pids : DelProceso(p)' = DelProceso(p)
        BY <2>0 DEF DelProceso
      <4>2. UNCHANGED tabla
        BY <2>0
      <4> QED
        BY <4>1, <4>2 DEF IInvMemoria, TablaFiel
    <3> QED
      BY <3>1, <3>2
  <2>2. FramesParaElPedido' /\ SiempreHayFrame'
    BY <2>0 DEF IInvMemoria, FramesParaElPedido, SiempreHayFrame, Libres
  <2>3. "consultar" \notin Operador => UnoPorProceso' /\ CupoDeCache' /\ CupoReservado'
    BY <2>0 DEF IInvMemoria, UnoPorProceso, CupoDeCache, CupoReservado, HayCupo, EntradasDe
  <2> QED
    BY <2>1, <2>2, <2>3 DEF IInvMemoria
<1> QED
  BY <1>1, <1>2, <1>3, <1>4, PasoVaciarEntradas, PasoVaciarUsos DEF Next

\* The inductive invariant of Memoria holds whatever the connections, the frames,
\* the cache and the operators.
THEOREM InvarianteMemoria == Spec => []IInvMemoria
<1> QED
  BY Inicio, Inductivo, PTL DEF Spec

\* Without a mutex, no frame is given to two pages, and the pages of a process are
\* numbered from 0 without gaps through any order of requests and ends.
THEOREM TablaSiempreFiel == Spec => []TablaFiel
<1>1. IInvMemoria => TablaFiel
  BY DEF IInvMemoria
<1> QED
  BY <1>1, InvarianteMemoria, PTL

\* buscarFrameVacio finds a frame in every round of a request that was granted:
\* bloque_Memoria is never written at frame -1.
THEOREM PedidoConFrames == Spec => []SiempreHayFrame
<1>1. IInvMemoria => SiempreHayFrame
  BY DEF IInvMemoria
<1> QED
  BY <1>1, InvarianteMemoria, PTL

\* If the operator of the Kernel reads no pages, no process ever has more than
\* CACHE_X_PROC entries, with any number of connections filling the cache at once.
THEOREM CupoRespetado ==
  ASSUME "consultar" \notin Operador
  PROVE  Spec => []CupoDeCache
<1>1. IInvMemoria => CupoDeCache
  BY DEF IInvMemoria
<1> QED
  BY <1>1, InvarianteMemoria, PTL

-----------------------------------------------------------------------------
(* An entry that is updated                                                *)

\* With requests in turns, no connection is busy but one.
UnaSola == \A c, d \in Conexiones : hilo[c] # Libre /\ hilo[d] # Libre => c = d

CacheVacia == \A e \in Entradas : cache[e].pid = -1

\* The entry that VerCache found.
EntradaHallada ==
  \A c \in Conexiones :
    hilo[c].paso = "actualizar" => EnCache(hilo[c].pid, hilo[c].pagina) # {} \/ CacheVacia

IInvTurnos == UnaSola /\ EntradaHallada /\ EntradaSigue

\* Who takes a step is the only one that is busy, before and after.
LEMMA TurnosPaso ==
  ASSUME IInvMemoria, IInvTurnos, NEW h \in Conexiones, NEW r,
         hilo' = [hilo EXCEPT ![h] = r], Anda, UNCHANGED fallo,
         hilo[h] # Libre \/ \A c \in Conexiones : hilo[c] = Libre,
         r.paso = "actualizar" => EnCache(r.pid, r.pagina)' # {}
  PROVE  IInvTurnos'
<1>1. /\ \A c \in Conexiones : hilo'[c] = IF c = h THEN r ELSE hilo[c]
      /\ \A c \in Conexiones \ {h} : hilo[c] = Libre
  BY DEF IInvMemoria, TiposMemoria, IInvTurnos, UnaSola
<1>2. UnaSola'
  BY <1>1 DEF UnaSola
<1>3. EntradaHallada'
  <2>1. \A c \in Conexiones : hilo'[c].paso = "actualizar" => c = h /\ hilo'[c] = r
    BY <1>1 DEF Libre
  <2>2. ASSUME NEW c \in Conexiones, hilo'[c].paso = "actualizar"
        PROVE  EnCache(hilo[c].pid, hilo[c].pagina)' # {}
    BY <2>1, <2>2 DEF EnCache
  <2> QED
    BY <2>2 DEF EntradaHallada
<1>4. EntradaSigue'
  BY DEF EntradaSigue, Anda
<1> QED
  BY <1>2, <1>3, <1>4 DEF IInvTurnos

LEMMA TurnosInductivo ==
  ASSUME DeAUna, IInvMemoria, IInvTurnos, [Next]_vars
  PROVE  IInvTurnos'
<1>1. /\ Nucleo \in Conexiones
      /\ \A c \in Conexiones : \A paso : En(c, paso) /\ paso # "libre" => Anda /\ hilo[c] # Libre
      /\ \A c \in Conexiones : Pide(c) => Anda /\ \A d \in Conexiones : hilo[d] = Libre
  BY DEF Conexiones, En, Libre, Pide
<1>2. CASE \E p \in Pids : Finalizar(p) \/ \E cant \in 1..MaxPaginas : PedirPaginas(p, cant)
  <2>1. /\ Pide(Nucleo) /\ UNCHANGED fallo
        /\ \E r : r.paso # "actualizar" /\ hilo' = [hilo EXCEPT ![Nucleo] = r]
    <3>1. CASE \E p \in Pids : Finalizar(p)
      BY <3>1 DEF Finalizar
    <3>2. CASE \E p \in Pids, cant \in 1..MaxPaginas : PedirPaginas(p, cant)
      BY <3>2 DEF PedirPaginas, Responde
    <3> QED
      BY <1>2, <3>1, <3>2
  <2> QED
    BY <1>1, <2>1, TurnosPaso
<1>3. CASE AsignarPagina
  <2>1. CASE UNCHANGED <<hilo, cache>> /\ fallo' = "sinFrame"
    BY <2>1 DEF IInvTurnos, UnaSola, EntradaHallada, EntradaSigue, EnCache, CacheVacia
  <2>2. CASE UNCHANGED fallo /\ \E r : r.paso # "actualizar" /\ hilo' = [hilo EXCEPT ![Nucleo] = r]
    BY <1>1, <1>3, <2>2, TurnosPaso DEF AsignarPagina
  <2>3. [hilo[Nucleo] EXCEPT !.hechas = @ + 1].paso # "actualizar"
    BY <1>1, <1>3, EnPaso DEF AsignarPagina, En, IInvMemoria, TiposMemoria, TipoAsignar
  <2> QED
    BY <1>3, <2>1, <2>2, <2>3 DEF AsignarPagina, Responde
<1>4. CASE BorrarEnCache
  <2>1. UNCHANGED fallo /\ hilo' = [hilo EXCEPT ![Nucleo] = Libre]
    BY <1>4 DEF BorrarEnCache
  <2> QED
    BY <1>1, <1>4, <2>1, TurnosPaso DEF BorrarEnCache, Libre
<1>5. ASSUME NEW h \in Conexiones, NEW p \in Pids, NEW n \in Paginas, Pide(h), Buscar(h, p, n)
      PROVE  IInvTurnos'
  <2>1. UNCHANGED fallo /\ \E r : r.paso # "actualizar" /\ hilo' = [hilo EXCEPT ![h] = r]
    BY <1>5 DEF Buscar, PasoDe
  <2> QED
    BY <1>1, <1>5, <2>1, TurnosPaso
<1>6. CASE \E p \in Pids, n \in Paginas :
             Consultar(p, n) \/ \E h \in Conexiones : Solicitar(h, p, n)
  BY <1>1, <1>5, <1>6 DEF Consultar, Solicitar
<1>7. ASSUME NEW h \in Conexiones, NEW paso, paso # "actualizar", Sigue(h, paso),
             hilo[h] \in TipoPaso, Anda, UNCHANGED fallo
      PROVE  IInvTurnos'
  <2>1. /\ hilo' = [hilo EXCEPT ![h] = [hilo[h] EXCEPT !.paso = paso]]
        /\ [hilo[h] EXCEPT !.paso = paso].paso = paso
        /\ hilo[h] # Libre
    BY <1>7 DEF Sigue, TipoPaso, Libre
  <2> QED
    BY <1>7, <2>1, TurnosPaso
<1>8. ASSUME NEW h \in Conexiones, NEW res, NEW valor, RespondeDe(h, res, valor),
             hilo[h] # Libre, Anda, UNCHANGED fallo
      PROVE  IInvTurnos'
  <2>1. \E r : r.paso # "actualizar" /\ hilo' = [hilo EXCEPT ![h] = r]
    BY <1>8 DEF RespondeDe, Responde
  <2> QED
    BY <1>8, <2>1, TurnosPaso
<1>9. ASSUME NEW h \in Conexiones,
             LeerCache(h) \/ Contar(h) \/ Elegir(h) \/ LeerFrame(h) \/ Usar(h) \/ Responder(h)
      PROVE  IInvTurnos'
  <2>1. CASE LeerCache(h)
    <3>1. hilo[h] \in TipoPaso /\ hilo[h] # Libre /\ Anda
      BY <2>1, EnHilo DEF LeerCache, Pasos, IInvTurnos
    <3> DEFINE r == [hilo[h] EXCEPT !.paso = "usar", !.valor = cache[hilo[h].entrada].contenido]
    <3>2. hilo' = [hilo EXCEPT ![h] = r] /\ r.paso = "usar" /\ UNCHANGED fallo
      BY <2>1, <3>1 DEF LeerCache, TipoPaso
    <3> QED
      BY <3>1, <3>2, TurnosPaso
  <2>2. CASE Contar(h)
    <3>1. hilo[h] \in TipoPaso /\ Anda
      BY <2>2, EnHilo DEF Contar, Pasos
    <3> QED
      BY <1>7, <2>2, <3>1 DEF Contar
  <2>3. CASE Elegir(h)
    <3>1. hilo[h] \in TipoPaso /\ hilo[h] # Libre /\ Anda
      BY <2>3, EnHilo DEF Elegir, Pasos
    <3> DEFINE r == [hilo[h] EXCEPT !.paso = "ponerPid", !.entrada = Victima,
                                    !.valor = Copia(hilo[h].pid, hilo[h].pagina)]
    <3>2. hilo' = [hilo EXCEPT ![h] = r] /\ r.paso = "ponerPid" /\ UNCHANGED fallo
      BY <2>3, <3>1 DEF Elegir, TipoPaso
    <3> QED
      BY <3>1, <3>2, TurnosPaso
  <2>4. CASE LeerFrame(h)
    <3>1. hilo[h] # Libre /\ Anda
      BY <2>4, EnHilo DEF LeerFrame
    <3> QED
      BY <1>8, <2>4, <3>1 DEF LeerFrame
  <2>5. CASE Usar(h)
    <3>1. hilo[h] \in TipoPaso /\ hilo[h] # Libre /\ Anda
      BY <2>5, EnHilo DEF Usar, Pasos
    <3> QED
      BY <1>7, <1>8, <2>5, <3>1 DEF Usar
  <2>6. CASE Responder(h)
    <3>1. hilo[h] # Libre /\ Anda
      BY <2>6, EnHilo DEF Responder
    <3> QED
      BY <2>6, <3>1, TurnosPaso DEF Responder, Libre
  <2> QED
    BY <1>9, <2>1, <2>2, <2>3, <2>4, <2>5, <2>6
<1>10. CASE \E h \in Conexiones, p \in Pids, n \in Paginas, v \in Valores : Almacenar(h, p, n, v)
  <2>1. PICK h \in Conexiones : Pide(h) /\ UNCHANGED fallo
               /\ \E r : r.paso # "actualizar" /\ hilo' = [hilo EXCEPT ![h] = r]
    BY <1>10 DEF Almacenar, PasoDe
  <2> QED
    BY <1>1, <2>1, TurnosPaso
<1>11. ASSUME NEW h \in Conexiones,
              VerCache(h) \/ Actualizar(h) \/ PonerPid(h) \/ PonerPagina(h) \/ PonerContenido(h)
       PROVE  IInvTurnos'
  <2>1. CASE VerCache(h)
    <3>1. hilo[h] \in TipoPaso /\ hilo[h] # Libre /\ Anda /\ UNCHANGED <<cache, fallo>>
      BY <2>1, EnHilo DEF VerCache, Pasos
    <3>2. CASE Ausente(hilo[h].pid, hilo[h].pagina)
      BY <1>8, <2>1, <3>1, <3>2 DEF VerCache
    <3>3. CASE ~Ausente(hilo[h].pid, hilo[h].pagina)
      <4> DEFINE r == [hilo[h] EXCEPT !.paso = "actualizar"]
      <4>1. /\ hilo' = [hilo EXCEPT ![h] = r] /\ r.pid = hilo[h].pid /\ r.pagina = hilo[h].pagina
        BY <2>1, <3>1, <3>3 DEF VerCache, Sigue, TipoPaso
      <4> HIDE DEF r
      <4>2. EnCache(r.pid, r.pagina) # {}
        BY <3>3, <4>1 DEF Ausente
      <4>3. PICK p, n : p = r.pid /\ n = r.pagina
        OBVIOUS
      <4>4. EnCache(p, n)' # {}
        BY <3>1, <4>2, <4>3 DEF EnCache
      <4>5. PICK t : t = r
        OBVIOUS
      <4>6. EnCache(t.pid, t.pagina)' # {}
        BY <4>3, <4>4, <4>5
      <4> QED
        BY <3>1, <4>1, <4>5, <4>6, TurnosPaso
    <3> QED
      BY <3>2, <3>3
  <2>2. CASE Actualizar(h)
    <3>1. /\ hilo[h] \in TipoPaso /\ hilo[h] # Libre /\ Anda /\ UNCHANGED cache
          /\ hilo[h].paso = "actualizar"
      BY <2>2, EnHilo DEF Actualizar, Pasos
    <3>2. CASE EnCache(hilo[h].pid, hilo[h].pagina) = {}
      <4>1. CacheVacia
        BY <3>1, <3>2 DEF IInvTurnos, EntradaHallada
      <4>2. UNCHANGED hilo
        BY <2>2, <3>2 DEF Actualizar
      <4> QED
        BY <3>1, <4>1, <4>2
           DEF IInvTurnos, UnaSola, EntradaHallada, EntradaSigue, CacheVacia
    <3>3. CASE EnCache(hilo[h].pid, hilo[h].pagina) # {}
      <4> DEFINE r == [hilo[h] EXCEPT !.paso = "ponerPid",
                         !.valor = Copia(hilo[h].pid, hilo[h].pagina),
                         !.entrada = Primera(EnCache(hilo[h].pid, hilo[h].pagina))]
      <4>1. hilo' = [hilo EXCEPT ![h] = r] /\ r.paso = "ponerPid" /\ UNCHANGED fallo
        BY <2>2, <3>1, <3>3, ZenonT(30) DEF Actualizar, TipoPaso
      <4> QED
        BY <3>1, <4>1, TurnosPaso
    <3> QED
      BY <3>2, <3>3
  <2>3. CASE PonerPid(h) \/ PonerPagina(h) \/ PonerContenido(h)
    <3>1. hilo[h] \in TipoPaso /\ Anda /\ UNCHANGED fallo
      BY <2>3, EnHilo DEF PonerPid, PonerPagina, PonerContenido, Pasos
    <3> QED
      BY <1>7, <2>3, <3>1 DEF PonerPid, PonerPagina, PonerContenido
  <2> QED
    BY <1>11, <2>1, <2>2, <2>3
<1>12. CASE VaciarEntradas
  <2>1. /\ UNCHANGED <<hilo, fallo>>
        /\ cache' = [e \in Entradas |-> [cache[e] EXCEPT !.pid = -1, !.pagina = -1]]
        /\ fallo = "ninguno"
    BY <1>12 DEF VaciarEntradas, Anda
  <2>2. CacheVacia'
    BY <2>1, BorradaTipo DEF IInvMemoria, TiposMemoria, CacheVacia
  <2> QED
    BY <2>1, <2>2 DEF IInvTurnos, UnaSola, EntradaHallada, EntradaSigue
<1>13. CASE VaciarUsos \/ UNCHANGED vars
  <2>1. UNCHANGED <<hilo, fallo, cache>>
    BY <1>13 DEF VaciarUsos, vars
  <2> QED
    BY <2>1 DEF IInvTurnos, UnaSola, EntradaHallada, EntradaSigue, CacheVacia, EnCache
<1> QED
  BY <1>2, <1>3, <1>4, <1>6, <1>9, <1>10, <1>11, <1>12, <1>13
     DEF Next, Marco, Lectura, Escritura

\* With requests in turns, the entry that a write found in the cache is there when it is
\* updated (main_almacenarBytesPagina, Memoria.c:416, searches twice), whatever the sizes, unless
\* the operator of Memoria has emptied all the cache in between: only then is -1 an index.
THEOREM EntradaPorActualizar ==
  ASSUME DeAUna
  PROVE  Spec => []EntradaSigue
<1>1. Init => IInvTurnos
  BY DEF Init, IInvTurnos, UnaSola, EntradaHallada, EntradaSigue, Libre
<1>2. IInvMemoria /\ IInvTurnos /\ [Next]_vars => IInvTurnos'
  BY TurnosInductivo
<1>3. IInvTurnos => EntradaSigue
  BY DEF IInvTurnos
<1> QED
  BY <1>1, <1>2, <1>3, InvarianteMemoria, PTL DEF Spec

-----------------------------------------------------------------------------
(* The pages as those who ask see them                                     *)

\* The pages of a process are numbered without gaps and each is in one frame.
LEMMA HayPagina ==
  ASSUME TiposMemoria, TablaFiel, NEW p \in Pids, NEW n \in Nat
  PROVE  /\ n < Cardinality(DelProceso(p)) <=> DePagina(p, n) # {}
         /\ \A f, g \in DePagina(p, n) : f = g
<1> DEFINE D == DelProceso(p)
           N == Cardinality(D)
           T == 0..(N - 1)
           numero == [f \in D |-> tabla[f].num_pag]
<1>1. /\ IsFiniteSet(D) /\ N \in Nat
  BY Finitos DEF DelProceso
<1>2. IsFiniteSet(T) /\ Cardinality(T) = N
  <2>1. 0 \in Int /\ N - 1 \in Int /\ (IF 0 > N - 1 THEN 0 ELSE N - 1 - 0 + 1) = N
    BY <1>1
  <2> HIDE DEF N
  <2> QED
    BY <2>1, FS_Interval
<1>3. /\ \A f \in D : tabla[f].num_pag \in T
      /\ \A f, g \in D : tabla[f].num_pag = tabla[g].num_pag => f = g
  BY DEF TablaFiel
<1>4. DePagina(p, n) = {f \in D : tabla[f].num_pag = n}
  BY DEF DePagina, DelProceso
<1> HIDE DEF D, N, T
<1>5. numero \in Injection(D, T)
  BY <1>3 DEF Injection, IsInjective
<1>6. numero \in Surjection(D, T)
  BY <1>1, <1>2, <1>5, FS_Injection DEF N
<1>7. n \in T <=> \E f \in D : tabla[f].num_pag = n
  BY <1>3, <1>6 DEF Surjection
<1>8. n \in T <=> n < N
  BY <1>1 DEF T
<1> QED
  BY <1>3, <1>4, <1>7, <1>8 DEF D, N

\* The search finds the frame of a page, wherever its hash says to begin.
LEMMA SeEncuentra ==
  ASSUME TiposMemoria, TablaFiel, NEW p \in Pids, NEW n \in Nat
  PROVE  /\ DePagina(p, n) = {} <=> buscarFrameDePaginaDeProceso(p, n) = -1
         /\ \A f \in DePagina(p, n) : buscarFrameDePaginaDeProceso(p, n) = f
<1> DEFINE todos == {f \in DePagina(p, n) : f >= MarcosAdm \/ f >= funcionHash(p, n)}
           s == {f \in todos : f >= funcionHash(p, n)}
<1>1. DePagina(p, n) \in SUBSET Frames /\ Frames \in SUBSET Nat /\ -1 \notin Frames
  BY DEF DePagina, Frames
<1>2. \A f \in DePagina(p, n) : f >= MarcosAdm /\ tabla[f].frame = f
  BY <1>1 DEF TablaFiel, DePagina, Frames
<1>3. todos = DePagina(p, n)
  BY <1>2
<1>4. buscarFrameDePaginaDeProceso(p, n) =
        IF todos = {} THEN -1
        ELSE IF s = {} THEN tabla[Primera(todos)].frame ELSE tabla[Primera(s)].frame
  BY DEF buscarFrameDePaginaDeProceso
<1>5. todos # {} => Primera(todos) \in todos
  BY <1>1, <1>3, PrimeraEsta
<1>6. s # {} => Primera(s) \in todos
  BY <1>1, <1>3, PrimeraEsta
<1> HIDE DEF todos, s
<1>7. todos # {} => buscarFrameDePaginaDeProceso(p, n) \in DePagina(p, n)
  BY <1>2, <1>3, <1>4, <1>5, <1>6
<1>8. \A f, g \in DePagina(p, n) : f = g
  BY HayPagina
<1> QED
  BY <1>1, <1>3, <1>4, <1>7, <1>8

LEMMA CopiaDeSuFrame ==
  ASSUME TiposMemoria, TablaFiel, NEW p \in Pids, NEW n \in Nat, NEW f \in DePagina(p, n)
  PROVE  Copia(p, n) = bloque[f]
BY SeEncuentra DEF Copia, DePagina

-----------------------------------------------------------------------------
(* Without a cache                                                         *)

\* No thread gets to the steps that use an entry, and a page that was not there to be
\* written is not there when the writer looks at the cache.
SinUso ==
  \A c \in Conexiones :
    /\ hilo[c].paso \in Pasos => hilo[c].paso \in {"contar", "leerFrame", "verCache"}
    /\ hilo[c].paso \in {"contar", "leerFrame"} => hilo[c].orden = "leer"
    /\ hilo[c].paso = "verCache" =>
         /\ hilo[c].orden = "escribir"
         /\ ~hilo[c].res => DePagina(hilo[c].pid, hilo[c].pagina) = {}

\* While pages are given to a process nobody asks for it.
AsignaSolo ==
  hilo[Nucleo].paso = "asignar" =>
    /\ hilo[Nucleo].cant \in 1..MaxPaginas
    /\ hilo[Nucleo].hechas <= Cardinality(DelProceso(hilo[Nucleo].pid))
    /\ \A c \in Conexiones \ {Nucleo} : hilo[c] # Libre => hilo[c].pid # hilo[Nucleo].pid

IInvSinCache == CacheVacia /\ SinUso /\ AsignaSolo

\* What the cache leaves out when no process has a share of it.
LEMMA NadieUsaLaCache ==
  ASSUME CacheXProc = 0, IInvMemoria, IInvSinCache
  PROVE  /\ \A p \in Pids : \A n : EnCache(p, n) = {}
         /\ \A p : ~HayCupo(p)
         /\ \A h \in Conexiones :
              /\ ~LeerCache(h) /\ ~Elegir(h) /\ ~Usar(h) /\ ~Actualizar(h)
              /\ ~PonerPid(h) /\ ~PonerPagina(h) /\ ~PonerContenido(h)
<1>1. \A p \in Pids : \A n : EnCache(p, n) = {}
  BY DEF IInvSinCache, CacheVacia, EnCache
<1>2. \A p : ~HayCupo(p)
  <2>1. \A p : Cardinality(EntradasDe(p)) \in Nat
    BY Finitos DEF EntradasDe
  <2> QED
    BY <2>1 DEF HayCupo
<1>3. \A h \in Conexiones : hilo[h].paso \notin Pasos \ {"contar", "leerFrame", "verCache"}
  BY DEF IInvSinCache, SinUso
<1> QED
  BY <1>1, <1>2, <1>3
     DEF LeerCache, Elegir, Usar, Actualizar, PonerPid, PonerPagina, PonerContenido, En, Pasos

\* What the record of a thread has to say for IInvSinCache.
HiloSinUso(r) ==
  /\ r.paso \in Pasos => r.paso \in {"contar", "leerFrame", "verCache"}
  /\ r.paso \in {"contar", "leerFrame"} => r.orden = "leer"
  /\ r.paso = "verCache" =>
       r.orden = "escribir" /\ (~r.res => DePagina(r.pid, r.pagina) = {})

\* A thread goes on and the frame table stays.
LEMMA SinCachePaso ==
  ASSUME IInvMemoria, IInvSinCache, NEW h \in Conexiones, NEW r,
         hilo' = [hilo EXCEPT ![h] = r], UNCHANGED tabla, CacheVacia',
         HiloSinUso(r),
         r.paso = "asignar" =>
           /\ r.cant \in 1..MaxPaginas
           /\ r.hechas <= Cardinality(DelProceso(r.pid))
           /\ \A c \in Conexiones : hilo[c] # Libre => hilo[c].pid # r.pid,
         \/ r = Libre \/ h = Nucleo
         \/ hilo[h] # Libre /\ r.pid = hilo[h].pid
         \/ hilo[Nucleo] # Libre => hilo[Nucleo].pid # r.pid,
         h # Nucleo => r.paso # "asignar"
  PROVE  IInvSinCache'
<1>1. /\ \A c \in Conexiones : hilo'[c] = IF c = h THEN r ELSE hilo[c]
      /\ Nucleo \in Conexiones
  BY DEF IInvMemoria, TiposMemoria, Conexiones
<1>2. SinUso'
  <2>1. \A c \in Conexiones : HiloSinUso(hilo'[c])
    BY <1>1 DEF IInvSinCache, SinUso, HiloSinUso
  <2> QED
    BY <2>1 DEF SinUso, HiloSinUso, DePagina
<1>3. AsignaSolo'
  <2>1. CASE h = Nucleo
    <3>1. hilo'[Nucleo] = r /\ \A c \in Conexiones \ {Nucleo} : hilo'[c] = hilo[c]
      BY <1>1, <2>1
    <3> QED
      BY <3>1 DEF AsignaSolo, DelProceso
  <2>2. CASE h # Nucleo
    <3>1. hilo'[Nucleo] = hilo[Nucleo] /\ hilo'[h] = r
      BY <1>1, <2>2
    <3>2. ASSUME hilo[Nucleo].paso = "asignar", r # Libre PROVE r.pid # hilo[Nucleo].pid
      BY <2>2, <3>2 DEF IInvSinCache, AsignaSolo, Libre
    <3> QED
      BY <1>1, <2>2, <3>1, <3>2 DEF IInvSinCache, AsignaSolo, DelProceso
  <2> QED
    BY <2>1, <2>2
<1> QED
  BY <1>2, <1>3 DEF IInvSinCache

\* The Kernel goes on and the frames of one process, that nobody else asks for, change.
LEMMA SinCacheTabla ==
  ASSUME IInvMemoria, IInvSinCache, NEW p \in Pids, NEW r,
         hilo' = [hilo EXCEPT ![Nucleo] = r], CacheVacia', r.paso \notin Pasos,
         \A q \in Pids \ {p} : \A n : DePagina(q, n)' = DePagina(q, n),
         \A c \in Conexiones \ {Nucleo} : hilo[c] # Libre => hilo[c].pid # p
  PROVE  SinUso'
<1>1. /\ \A c \in Conexiones : hilo'[c] = IF c = Nucleo THEN r ELSE hilo[c]
      /\ Nucleo \in Conexiones
  BY DEF IInvMemoria, TiposMemoria, Conexiones
<1> SUFFICES ASSUME NEW c \in Conexiones, NEW t, t = hilo'[c], t.paso \in Pasos
             PROVE  /\ t.paso \in {"contar", "leerFrame", "verCache"}
                    /\ t.paso \in {"contar", "leerFrame"} => t.orden = "leer"
                    /\ t.paso = "verCache" =>
                         t.orden = "escribir" /\ (~t.res => DePagina(t.pid, t.pagina)' = {})
  BY DEF SinUso, Pasos
<1>2. c # Nucleo /\ hilo[c] = t /\ t # Libre /\ t.pid \in Pids
  <2>1. c # Nucleo /\ hilo[c] = t /\ t # Libre
    BY <1>1 DEF Libre, Pasos
  <2> QED
    BY <2>1, EnPaso DEF IInvMemoria, TiposMemoria
<1>3. DePagina(t.pid, t.pagina)' = DePagina(t.pid, t.pagina)
  BY <1>2
<1> QED
  BY <1>2, <1>3 DEF IInvSinCache, SinUso

\* What the table looks like after a round of a request.
LEMMA RondaDa ==
  ASSUME IInvMemoria, AsignarPagina
  PROVE  \E p \in Pids, cant \in Nat, hechas \in Nat, g \in Libres :
           /\ hilo[Nucleo] = [paso |-> "asignar", pid |-> p, cant |-> cant, hechas |-> hechas]
           /\ hechas < cant
           /\ tabla' = [tabla EXCEPT ![g] =
                [frame |-> g, pid |-> p, num_pag |-> Cardinality(DelProceso(p))]]
           /\ UNCHANGED <<bloque, cache, fallo>>
           /\ \/ /\ hechas + 1 = cant
                 /\ Responde(Nucleo, "pedir", p, cant, TRUE, Basura)
              \/ /\ hechas + 1 # cant
                 /\ hilo' = [hilo EXCEPT ![Nucleo] =
                      [paso |-> "asignar", pid |-> p, cant |-> cant, hechas |-> hechas + 1]]
<1>1. /\ hilo[Nucleo].paso = "asignar" /\ hilo[Nucleo] \in TipoAsignar
      /\ Nucleo \in Conexiones
      /\ UNCHANGED <<bloque, cache>>
  BY EnPaso DEF AsignarPagina, En, IInvMemoria, TiposMemoria, Conexiones
<1> PICK p \in Pids, cant \in Nat, hechas \in Nat :
      hilo[Nucleo] = [paso |-> "asignar", pid |-> p, cant |-> cant, hechas |-> hechas]
  BY <1>1 DEF TipoAsignar
<1>0. hilo[Nucleo].pid = p /\ hilo[Nucleo].cant = cant /\ hilo[Nucleo].hechas = hechas
  OBVIOUS
<1>2. /\ hechas < cant /\ cant - hechas <= Cardinality(Libres)
      /\ Libres \in SUBSET Frames /\ IsFiniteSet(Libres) /\ Cardinality(Libres) \in Nat
  BY <1>0, <1>1, Finitos DEF IInvMemoria, FramesParaElPedido, Libres
<1>3. Libres # {}
  BY <1>2, FS_EmptySet
<1>4. Primera(Libres) \in Libres
  BY <1>2, <1>3, PrimeraEsta DEF Frames
<1> PICK g \in Libres : g = Primera(Libres)
  BY <1>4
<1>5. tabla[g].frame = g
  BY DEF IInvMemoria, TablaFiel, Libres
<1>6. tabla' = [tabla EXCEPT ![g] =
                  [frame |-> g, pid |-> p, num_pag |-> Cardinality(DelProceso(p))]]
  BY <1>0, <1>3, <1>5 DEF AsignarPagina, Numero
<1>7. UNCHANGED fallo
  BY <1>3 DEF AsignarPagina
<1>8. CASE hechas + 1 = cant
  <2>1. Responde(Nucleo, "pedir", p, cant, TRUE, Basura)
    BY <1>0, <1>3, <1>8 DEF AsignarPagina
  <2> QED
    BY <1>1, <1>2, <1>6, <1>7, <1>8, <2>1
<1>9. CASE hechas + 1 # cant
  <2>1. hilo' = [hilo EXCEPT ![Nucleo] = [hilo[Nucleo] EXCEPT !.hechas = hechas + 1]]
    BY <1>0, <1>1, <1>3, <1>9 DEF AsignarPagina, IInvMemoria, TiposMemoria
  <2>2. [hilo[Nucleo] EXCEPT !.hechas = hechas + 1]
          = [paso |-> "asignar", pid |-> p, cant |-> cant, hechas |-> hechas + 1]
    OBVIOUS
  <2>3. hilo' = [hilo EXCEPT ![Nucleo] =
                   [paso |-> "asignar", pid |-> p, cant |-> cant, hechas |-> hechas + 1]]
    BY <2>1, <2>2
  <2> QED
    BY <1>1, <1>2, <1>6, <1>7, <1>9, <2>3
<1> QED
  BY <1>8, <1>9

\* What a frame given to p changes of the frames that processes have.
LEMMA FrameDado ==
  ASSUME TiposMemoria, TablaFiel, NEW p \in Pids, NEW g \in Libres,
         tabla' = [tabla EXCEPT ![g] =
                     [frame |-> g, pid |-> p, num_pag |-> Cardinality(DelProceso(p))]]
  PROVE  /\ DelProceso(p)' = DelProceso(p) \cup {g} /\ g \notin DelProceso(p)
         /\ Cardinality(DelProceso(p)') = Cardinality(DelProceso(p)) + 1
         /\ \A n : DePagina(p, n)' =
              IF n = Cardinality(DelProceso(p)) THEN DePagina(p, n) \cup {g} ELSE DePagina(p, n)
         /\ \A q \in Pids \ {p} : /\ DelProceso(q)' = DelProceso(q)
                                  /\ \A n : DePagina(q, n)' = DePagina(q, n)
<1> DEFINE N == Cardinality(DelProceso(p))
           nueva == [frame |-> g, pid |-> p, num_pag |-> N]
<1>1. g \in Frames /\ tabla[g].pid = -1 /\ -1 \notin Pids
  BY DEF Libres
<1>2. \A f \in Frames : tabla'[f] = IF f = g THEN nueva ELSE tabla[f]
  BY DEF TiposMemoria
<1>3. nueva.pid = p /\ nueva.num_pag = N
  OBVIOUS
<1>4. N \in Nat /\ IsFiniteSet(DelProceso(p))
  BY Finitos DEF DelProceso
<1> HIDE DEF nueva, N
<1>5. DelProceso(p)' = DelProceso(p) \cup {g} /\ g \notin DelProceso(p)
  BY <1>1, <1>2, <1>3 DEF DelProceso
<1>6. ASSUME NEW n
      PROVE  DePagina(p, n)' = IF n = N THEN DePagina(p, n) \cup {g} ELSE DePagina(p, n)
  <2>1. ASSUME NEW f \in Frames
        PROVE  tabla'[f].pid = p /\ tabla'[f].num_pag = n
                 <=> (tabla[f].pid = p /\ tabla[f].num_pag = n) \/ (f = g /\ n = N)
    BY <1>1, <1>2, <1>3
  <2> QED
    BY <1>1, <2>1 DEF DePagina
<1>7. ASSUME NEW q \in Pids \ {p}
      PROVE  DelProceso(q)' = DelProceso(q) /\ \A n : DePagina(q, n)' = DePagina(q, n)
  <2>1. ASSUME NEW f \in Frames
        PROVE  /\ tabla'[f].pid = q <=> tabla[f].pid = q
               /\ tabla[f].pid = q => tabla'[f] = tabla[f]
    BY <1>1, <1>2, <1>3
  <2>2. DelProceso(q)' = DelProceso(q)
    BY <2>1 DEF DelProceso
  <2>3. ASSUME NEW n PROVE DePagina(q, n)' = DePagina(q, n)
    BY <2>1 DEF DePagina
  <2> QED
    BY <2>2, <2>3
<1>8. Cardinality(DelProceso(p)') = N + 1
  BY <1>4, <1>5, FS_AddElement DEF N
<1> QED
  BY <1>5, <1>6, <1>7, <1>8 DEF N

\* What an end changes of them.
LEMMA FramesDevueltos ==
  ASSUME IInvMemoria, NEW p \in Pids, Finalizar(p)
  PROVE  /\ DelProceso(p)' = {}
         /\ \A q \in Pids \ {p} : /\ DelProceso(q)' = DelProceso(q)
                                  /\ \A n : DePagina(q, n)' = DePagina(q, n)
<1>1. tabla' = [f \in Frames |-> IF f >= MarcosAdm /\ tabla[f].pid = p
                  THEN [tabla[f] EXCEPT !.pid = -1, !.num_pag = -1] ELSE tabla[f]]
  BY DEF Finalizar
<1>2. ASSUME NEW f \in Frames
      PROVE  /\ tabla[f].pid = p => tabla'[f].pid = -1
             /\ tabla[f].pid # p => tabla'[f] = tabla[f]
  <2>1. tabla[f] \in [frame : Int, pid : Int, num_pag : Int] /\ p # -9
    BY DEF IInvMemoria, TiposMemoria
  <2>2. tabla[f].pid = p => f >= MarcosAdm
    BY <2>1 DEF IInvMemoria, TablaFiel, Frames
  <2>3. PICK i \in Int : i = -1
    OBVIOUS
  <2> DEFINE t == [tabla[f] EXCEPT !.pid = i, !.num_pag = i]
  <2>4. t.pid = i
    BY <2>1
  <2>5. tabla'[f] = IF tabla[f].pid = p THEN t ELSE tabla[f]
    BY <1>1, <2>2, <2>3
  <2> HIDE DEF t
  <2> QED
    BY <2>3, <2>4, <2>5
<1>3. -1 \notin Pids
  OBVIOUS
<1>4. DelProceso(p)' = {}
  BY <1>2, <1>3 DEF DelProceso
<1>5. ASSUME NEW q \in Pids \ {p}
      PROVE  DelProceso(q)' = DelProceso(q) /\ \A n : DePagina(q, n)' = DePagina(q, n)
  <2>1. ASSUME NEW f \in Frames
        PROVE  /\ tabla'[f].pid = q <=> tabla[f].pid = q
               /\ tabla[f].pid = q => tabla'[f] = tabla[f]
    BY <1>2, <1>3
  <2>2. DelProceso(q)' = DelProceso(q)
    BY <2>1 DEF DelProceso
  <2>3. ASSUME NEW n PROVE DePagina(q, n)' = DePagina(q, n)
    BY <2>1 DEF DePagina
  <2> QED
    BY <2>2, <2>3
<1> QED
  BY <1>4, <1>5

\* What a flush and an end do to a cache that has nothing.
LEMMA SigueVacia ==
  ASSUME IInvMemoria, CacheVacia, BorrarEnCache \/ VaciarEntradas
  PROVE  CacheVacia'
<1>1. ASSUME NEW e \in Entradas PROVE cache'[e].pid = -1
  <2>1. cache'[e] \in {cache[e], [cache[e] EXCEPT !.pid = -1, !.pagina = -1]}
    <3>1. CASE BorrarEnCache
      BY <3>1 DEF BorrarEnCache
    <3>2. CASE VaciarEntradas
      BY <3>2 DEF VaciarEntradas
    <3> QED
      BY <3>1, <3>2
  <2> QED
    <3>1. cache[e] \in TipoEntrada /\ cache[e].pid = -1
      BY DEF IInvMemoria, TiposMemoria, CacheVacia
    <3>2. [cache[e] EXCEPT !.pid = -1, !.pagina = -1].pid = -1
      BY <3>1, BorradaTipo
    <3> HIDE DEF CacheVacia
    <3> QED
      BY <2>1, <3>1, <3>2, Zenon
<1> QED
  BY <1>1 DEF CacheVacia

LEMMA SinCacheInductivo ==
  ASSUME CacheXProc = 0, IInvMemoria, IInvSinCache, [Next]_vars
  PROVE  IInvSinCache'
<1>1. /\ Nucleo \in Conexiones /\ hilo \in [Conexiones -> TipoHilo] /\ IInvSinCache
      /\ \A p \in Pids : ~Ocupado(p) => \A c \in Conexiones : hilo[c] # Libre => hilo[c].pid # p
  BY DEF Conexiones, IInvMemoria, TiposMemoria, Ocupado
<1>2. UNCHANGED cache => CacheVacia'
  BY DEF IInvSinCache, CacheVacia
<1>3. ASSUME NEW p \in Pids, NEW cant \in 1..MaxPaginas, PedirPaginas(p, cant)
      PROVE  IInvSinCache'
  <2>1. ~Ocupado(p) /\ UNCHANGED <<tabla, cache>>
    BY <1>3 DEF PedirPaginas
  <2>2. CASE Alcanza(cant)
    <3> DEFINE r == [paso |-> "asignar", pid |-> p, cant |-> cant, hechas |-> 0]
    <3>1. hilo' = [hilo EXCEPT ![Nucleo] = r]
      BY <1>3, <2>2 DEF PedirPaginas
    <3>2. /\ r.paso = "asignar" /\ r.pid = p /\ r.cant = cant /\ r.hechas = 0
          /\ 0 <= Cardinality(DelProceso(p))
      BY Finitos DEF DelProceso
    <3> HIDE DEF r
    <3>3. HiloSinUso(r)
      BY <3>2 DEF HiloSinUso, Pasos
    <3> QED
      BY <1>1, <1>2, <2>1, <3>1, <3>2, <3>3, SinCachePaso
  <2>3. CASE ~Alcanza(cant)
    <3> DEFINE r == [paso |-> "responde", orden |-> "pedir", pid |-> p, pagina |-> cant,
                     res |-> FALSE, valor |-> Basura]
    <3>1. hilo' = [hilo EXCEPT ![Nucleo] = r] /\ r.paso = "responde"
      BY <1>3, <2>3 DEF PedirPaginas, Responde
    <3> HIDE DEF r
    <3>3. HiloSinUso(r)
      BY <3>1 DEF HiloSinUso, Pasos
    <3> QED
      BY <1>1, <1>2, <2>1, <3>1, <3>3, SinCachePaso
  <2> QED
    BY <2>2, <2>3
<1>4. ASSUME NEW p \in Pids, Finalizar(p)
      PROVE  IInvSinCache'
  <2> DEFINE r == [paso |-> "borrarCache", pid |-> p]
  <2>1. ~Ocupado(p) /\ UNCHANGED cache /\ hilo' = [hilo EXCEPT ![Nucleo] = r]
    BY <1>4 DEF Finalizar
  <2>2. r.paso \notin Pasos /\ r.paso # "asignar"
    BY DEF Pasos
  <2> HIDE DEF r
  <2>3. \A q \in Pids \ {p} : \A n : DePagina(q, n)' = DePagina(q, n)
    BY <1>4, FramesDevueltos
  <2>4. SinUso'
    BY <1>1, <1>2, <2>1, <2>2, <2>3, SinCacheTabla
  <2>5. AsignaSolo'
    BY <1>1, <2>1, <2>2 DEF AsignaSolo
  <2> QED
    BY <1>2, <2>1, <2>4, <2>5 DEF IInvSinCache
<1>5. CASE AsignarPagina
  <2>1. PICK p \in Pids, cant \in Nat, hechas \in Nat, g \in Libres :
          /\ hilo[Nucleo] = [paso |-> "asignar", pid |-> p, cant |-> cant, hechas |-> hechas]
          /\ hechas < cant
          /\ tabla' = [tabla EXCEPT ![g] =
               [frame |-> g, pid |-> p, num_pag |-> Cardinality(DelProceso(p))]]
          /\ UNCHANGED <<bloque, cache, fallo>>
          /\ \/ /\ hechas + 1 = cant
                /\ Responde(Nucleo, "pedir", p, cant, TRUE, Basura)
             \/ /\ hechas + 1 # cant
                /\ hilo' = [hilo EXCEPT ![Nucleo] =
                     [paso |-> "asignar", pid |-> p, cant |-> cant, hechas |-> hechas + 1]]
    BY <1>5, RondaDa
  <2>2. /\ hilo[Nucleo].paso = "asignar" /\ hilo[Nucleo].pid = p /\ hilo[Nucleo].cant = cant
        /\ hilo[Nucleo].hechas = hechas
    BY <2>1
  <2>3. /\ cant \in 1..MaxPaginas /\ hechas <= Cardinality(DelProceso(p))
        /\ \A c \in Conexiones \ {Nucleo} : hilo[c] # Libre => hilo[c].pid # p
    BY <2>2 DEF IInvSinCache, AsignaSolo
  <2>4. /\ Cardinality(DelProceso(p)') = Cardinality(DelProceso(p)) + 1
        /\ \A q \in Pids \ {p} : \A n : DePagina(q, n)' = DePagina(q, n)
    BY <2>1, FrameDado DEF IInvMemoria
  <2>5. PICK r : /\ hilo' = [hilo EXCEPT ![Nucleo] = r]
                 /\ \/ r.paso = "responde"
                    \/ r = [paso |-> "asignar", pid |-> p, cant |-> cant, hechas |-> hechas + 1]
    <3>1. CASE Responde(Nucleo, "pedir", p, cant, TRUE, Basura)
      <4> DEFINE t == [paso |-> "responde", orden |-> "pedir", pid |-> p, pagina |-> cant,
                       res |-> TRUE, valor |-> Basura]
      <4>1. hilo' = [hilo EXCEPT ![Nucleo] = t] /\ t.paso = "responde"
        BY <3>1 DEF Responde
      <4> HIDE DEF t
      <4> QED
        BY <4>1
    <3> QED
      BY <2>1, <3>1
  <2>6. r.paso \notin Pasos
    BY <2>5 DEF Pasos
  <2>7. SinUso'
    BY <1>1, <1>2, <2>1, <2>3, <2>4, <2>5, <2>6, SinCacheTabla
  <2>8. AsignaSolo'
    <3>1. hilo'[Nucleo] = r /\ \A c \in Conexiones \ {Nucleo} : hilo'[c] = hilo[c]
      BY <1>1, <2>5
    <3>2. CASE r.paso = "responde"
      BY <3>1, <3>2 DEF AsignaSolo
    <3>3. CASE r = [paso |-> "asignar", pid |-> p, cant |-> cant, hechas |-> hechas + 1]
      <4>1. hechas + 1 <= Cardinality(DelProceso(p)')
        <5>1. Cardinality(DelProceso(p)) \in Nat
          BY Finitos DEF DelProceso
        <5> QED
          BY <2>3, <2>4, <5>1
      <4>2. r.pid = p /\ r.cant = cant /\ r.hechas = hechas + 1
        BY <3>3
      <4>3. DelProceso(hilo[Nucleo].pid)' = DelProceso(p)'
        BY <3>1, <4>2 DEF DelProceso
      <4> QED
        BY <2>3, <3>1, <4>1, <4>2, <4>3 DEF AsignaSolo
    <3> QED
      BY <2>5, <3>2, <3>3
  <2> QED
    BY <1>2, <2>1, <2>7, <2>8 DEF IInvSinCache
<1>6. CASE BorrarEnCache
  <2>1. /\ CacheVacia' /\ UNCHANGED tabla /\ hilo' = [hilo EXCEPT ![Nucleo] = Libre]
        /\ Libre.paso = "libre"
    BY <1>6, SigueVacia DEF BorrarEnCache, Libre, IInvSinCache
  <2>2. HiloSinUso(Libre)
    BY <2>1 DEF HiloSinUso, Pasos
  <2> QED
    BY <1>1, <2>1, <2>2, SinCachePaso
<1>7. ASSUME NEW h \in Conexiones, NEW p \in Pids, NEW n \in Paginas, Buscar(h, p, n),
             h = Nucleo \/ ~Ocupado(p)
      PROVE  IInvSinCache'
  <2> DEFINE r == [paso |-> "contar", orden |-> "leer", sigue |-> "leerFrame", pid |-> p,
                   pagina |-> n, entrada |-> -1, valor |-> Basura, res |-> TRUE]
  <2>1. hilo' = [hilo EXCEPT ![h] = r] /\ UNCHANGED <<tabla, cache>>
    BY <1>7, NadieUsaLaCache DEF Buscar, PasoDe
  <2>2. r.paso = "contar" /\ r.orden = "leer" /\ r.pid = p
    OBVIOUS
  <2> HIDE DEF r
  <2>3. HiloSinUso(r)
    BY <2>2 DEF HiloSinUso, Pasos
  <2> QED
    BY <1>1, <1>2, <1>7, <2>1, <2>2, <2>3, SinCachePaso
<1>8. ASSUME NEW h \in Conexiones, Contar(h) \/ LeerFrame(h) \/ VerCache(h) \/ Responder(h)
      PROVE  IInvSinCache'
  <2>1. UNCHANGED <<tabla, cache>>
    BY <1>8 DEF Contar, LeerFrame, VerCache, Responder
  <2>2. hilo[h] # Libre
    BY <1>8, EnHilo DEF Contar, LeerFrame, VerCache, Responder
  <2>3. ASSUME NEW r, hilo' = [hilo EXCEPT ![h] = r], HiloSinUso(r), r.paso # "asignar",
               r.pid = hilo[h].pid \/ r = Libre
        PROVE  IInvSinCache'
    BY <1>1, <1>2, <2>1, <2>2, <2>3, SinCachePaso
  <2>4. CASE Contar(h)
    <3> DEFINE r == [hilo[h] EXCEPT !.paso = "leerFrame"]
    <3>1. hilo[h] \in TipoPaso /\ hilo[h].paso = "contar"
      BY <2>4, EnHilo DEF Contar, Pasos
    <3>2. hilo' = [hilo EXCEPT ![h] = r]
      BY <2>4, NadieUsaLaCache DEF Contar, Sigue
    <3>3. r.paso = "leerFrame" /\ r.orden = hilo[h].orden /\ r.pid = hilo[h].pid
      BY <3>1 DEF TipoPaso
    <3> HIDE DEF r
    <3>4. HiloSinUso(r)
      BY <3>1, <3>3 DEF HiloSinUso, IInvSinCache, SinUso
    <3> QED
      BY <2>3, <3>2, <3>3, <3>4
  <2>5. CASE LeerFrame(h) \/ VerCache(h)
    <3>1. hilo[h].paso \in Pasos /\ hilo[h].pid \in Pids
      BY <2>5, EnHilo DEF LeerFrame, VerCache, Pasos
    <3>2. \E res, valor : RespondeDe(h, res, valor)
      BY <2>5, <3>1, NadieUsaLaCache DEF LeerFrame, VerCache, Ausente
    <3>3. PICK res, valor : RespondeDe(h, res, valor)
      BY <3>2
    <3> DEFINE r == [paso |-> "responde", orden |-> hilo[h].orden, pid |-> hilo[h].pid,
                     pagina |-> hilo[h].pagina, res |-> res, valor |-> valor]
    <3>4. hilo' = [hilo EXCEPT ![h] = r] /\ r.paso = "responde" /\ r.pid = hilo[h].pid
      BY <3>3 DEF RespondeDe, Responde
    <3> HIDE DEF r
    <3>5. HiloSinUso(r)
      BY <3>4 DEF HiloSinUso, Pasos
    <3> QED
      BY <2>3, <3>4, <3>5
  <2>6. CASE Responder(h)
    <3>1. hilo' = [hilo EXCEPT ![h] = Libre] /\ Libre.paso = "libre"
      BY <2>6 DEF Responder, Libre
    <3>2. HiloSinUso(Libre)
      BY <3>1 DEF HiloSinUso, Pasos
    <3> QED
      BY <2>3, <3>1, <3>2
  <2> QED
    BY <1>8, <2>4, <2>5, <2>6
<1>9. ASSUME NEW h \in Conexiones, NEW p \in Pids, NEW n \in Paginas, NEW v \in Valores,
             Almacenar(h, p, n, v)
      PROVE  IInvSinCache'
  <2> DEFINE f == buscarFrameDePaginaDeProceso(p, n)
             r == [paso |-> "verCache", orden |-> "escribir", sigue |-> "responde", pid |-> p,
                   pagina |-> n, entrada |-> -1, valor |-> Basura, res |-> f >= 0]
  <2>1. ~Ocupado(p) /\ hilo' = [hilo EXCEPT ![h] = r] /\ UNCHANGED <<tabla, cache>>
    BY <1>9 DEF Almacenar, PasoDe
  <2>2. ~(f >= 0) => DePagina(p, n) = {}
    <3>1. f \in Frames \cup {-1} /\ \A k \in Frames : k >= 0
      BY FrameHallado DEF IInvMemoria, DePagina, Frames
    <3>2. n \in Nat
      BY DEF Paginas
    <3> HIDE DEF f
    <3>3. ~(f >= 0) => f = -1
      BY <3>1
    <3> QED
      BY <3>2, <3>3, SeEncuentra DEF f, IInvMemoria
  <2>3. /\ r.paso = "verCache" /\ r.orden = "escribir" /\ r.pid = p /\ r.pagina = n
        /\ r.res <=> f >= 0
    OBVIOUS
  <2> HIDE DEF f, r
  <2>4. HiloSinUso(r)
    BY <2>2, <2>3 DEF HiloSinUso, Pasos
  <2> QED
    BY <1>1, <1>2, <2>1, <2>3, <2>4, SinCachePaso
<1>10. CASE VaciarEntradas \/ VaciarUsos \/ UNCHANGED vars
  <2>1. UNCHANGED <<tabla, hilo>>
    BY <1>10 DEF VaciarEntradas, VaciarUsos, vars
  <2>2. CacheVacia'
    <3>1. CASE VaciarEntradas
      BY <3>1, SigueVacia DEF IInvSinCache
    <3>2. CASE VaciarUsos \/ UNCHANGED vars
      BY <1>2, <3>2 DEF VaciarUsos, vars
    <3> QED
      BY <1>10, <3>1, <3>2
  <2> QED
    BY <2>1, <2>2 DEF IInvSinCache, SinUso, AsignaSolo, DePagina, DelProceso
<1>11. CASE Marco
  BY <1>3, <1>4, <1>5, <1>6, <1>11 DEF Marco
<1>12. CASE Lectura
  BY <1>1, <1>7, <1>8, <1>12, NadieUsaLaCache DEF Lectura, Consultar, Solicitar
<1>13. CASE Escritura
  BY <1>8, <1>9, <1>13, NadieUsaLaCache DEF Escritura
<1> QED
  BY <1>10, <1>11, <1>12, <1>13 DEF Next

-----------------------------------------------------------------------------
(* The steps of MemoriaDePaginas, told of what Memoria shows               *)

VePaginas == [p \in Pids |-> PaginasDe(p)]
VePedidos == [c \in Conexiones |-> PedidoDe(hilo[c])]

LEMMA NoSeVe ==
  ASSUME VePaginas' = VePaginas, VePedidos' = VePedidos
  PROVE  [Memo!NextPaginas]_(Memo!varsPaginas)
<1>1. Memo!varsPaginas' = Memo!varsPaginas
  BY DEF Memo!varsPaginas, VePaginas, VePedidos
<1> QED
  BY <1>1

\* A step of a connection is one that changes what is seen of it.
LEMMA SeVePedido ==
  ASSUME NEW c \in Conexiones, Memo!Pedido(c), VePedidos'[c] # VePedidos[c]
  PROVE  [Memo!NextPaginas]_(Memo!varsPaginas)
BY DEF Memo!NextPaginas, VePedidos

LEMMA SeVeLeer ==
  ASSUME NEW c \in Conexiones, NEW p \in Pids, NEW n \in Paginas,
         NEW res \in BOOLEAN, NEW v \in Contenidos,
         VePedidos[c] = Memo!Quieto, VePaginas' = VePaginas,
         VePedidos' = [VePedidos EXCEPT ![c] = Memo!Respuesta("leer", p, n, res, v)],
         n < Len(VePaginas[p]) => res /\ v = VePaginas[p][n + 1]
  PROVE  [Memo!NextPaginas]_(Memo!varsPaginas)
<1>1. Memo!Leer(c, p, n)
  <2>1. CASE n < Len(VePaginas[p])
    <3>1. res = TRUE
      BY <2>1
    <3> QED
      BY <2>1, <3>1 DEF Memo!Leer, Memo!Tiene, VePaginas, VePedidos
  <2>2. CASE ~(n < Len(VePaginas[p]))
    BY <2>2 DEF Memo!Leer, Memo!Contesta, Memo!Tiene, VePaginas, VePedidos
  <2> QED
    BY <2>1, <2>2
<1>2. VePedidos'[c] # VePedidos[c]
  BY DEF VePedidos, Memo!Quieto, Memo!Respuesta
<1>3. Memo!Pedido(c)
  BY <1>1 DEF Memo!Pedido, Paginas
<1> QED
  BY <1>2, <1>3, SeVePedido

LEMMA SeVeEscribir ==
  ASSUME NEW c \in Conexiones, NEW p \in Pids, NEW n \in Paginas, NEW v \in Contenidos,
         VePedidos[c] = Memo!Quieto, n < Len(VePaginas[p]),
         VePedidos' = [VePedidos EXCEPT ![c] = Memo!Escrito(p, n)],
         VePaginas' = [VePaginas EXCEPT ![p][n + 1] = v]
  PROVE  [Memo!NextPaginas]_(Memo!varsPaginas)
<1>1. Memo!Escribir(c, p, n, v)
  BY DEF Memo!Escribir, Memo!Tiene, VePaginas, VePedidos
<1>2. VePedidos'[c] # VePedidos[c]
  BY DEF VePedidos, Memo!Quieto, Memo!Escrito
<1>3. Memo!Pedido(c)
  BY <1>1 DEF Memo!Pedido, Paginas
<1> QED
  BY <1>2, <1>3, SeVePedido

LEMMA SeVeConfirmar ==
  ASSUME NEW c \in Conexiones, NEW p \in Pids, NEW n \in Paginas, NEW v \in Contenidos,
         VePedidos[c] = Memo!Escrito(p, n), VePaginas' = VePaginas,
         VePedidos' = [VePedidos EXCEPT ![c] = Memo!Respuesta("escribir", p, n, TRUE, v)]
  PROVE  [Memo!NextPaginas]_(Memo!varsPaginas)
<1>1. VePedidos[c].estado = "escrito" /\ VePedidos[c].pid = p /\ VePedidos[c].pagina = n
  BY DEF Memo!Escrito
<1>2. Memo!Confirmar(c)
  BY <1>1 DEF Memo!Confirmar, VePaginas, VePedidos
<1>3. VePedidos'[c] # VePedidos[c]
  BY DEF VePedidos, Memo!Escrito, Memo!Respuesta
<1>4. Memo!Pedido(c)
  BY <1>2 DEF Memo!Pedido
<1> QED
  BY <1>3, <1>4, SeVePedido

LEMMA SeVeNoEscribir ==
  ASSUME NEW c \in Conexiones, NEW p \in Pids, NEW n \in Paginas, NEW v \in Contenidos,
         VePedidos[c] = Memo!Quieto, VePaginas' = VePaginas, ~(n < Len(VePaginas[p])),
         VePedidos' = [VePedidos EXCEPT ![c] = Memo!Respuesta("escribir", p, n, FALSE, v)]
  PROVE  [Memo!NextPaginas]_(Memo!varsPaginas)
<1>1. Memo!NoEscribir(c, p, n)
  BY DEF Memo!NoEscribir, Memo!Contesta, Memo!Tiene, VePaginas, VePedidos
<1>2. VePedidos'[c] # VePedidos[c]
  BY DEF VePedidos, Memo!Quieto, Memo!Respuesta
<1>3. Memo!Pedido(c)
  BY <1>1 DEF Memo!Pedido, Paginas
<1> QED
  BY <1>2, <1>3, SeVePedido

LEMMA SeVeOtorgar ==
  ASSUME NEW c \in Conexiones, NEW p \in Pids, NEW cant \in 1..MaxPaginas, NEW v \in Contenidos,
         NEW s \in [1..cant -> Contenidos],
         VePedidos[c] = Memo!Quieto, Memo!Ocupadas + cant <= Marcos - MarcosAdm,
         VePaginas' = [VePaginas EXCEPT ![p] = VePaginas[p] \o s],
         VePedidos' = [VePedidos EXCEPT ![c] = Memo!Respuesta("pedir", p, cant, TRUE, v)]
  PROVE  [Memo!NextPaginas]_(Memo!varsPaginas)
<1>1. VePaginas' = [VePaginas EXCEPT ![p] = @ \o s]
  BY DEF VePaginas
<1>2. Memo!Otorgar(c, p, cant)
  BY <1>1 DEF Memo!Otorgar, Memo!Contesta, VePaginas, VePedidos
<1>3. VePedidos'[c] # VePedidos[c]
  BY DEF VePedidos, Memo!Quieto, Memo!Respuesta
<1>4. Memo!Pedido(c)
  BY <1>2 DEF Memo!Pedido
<1> QED
  BY <1>3, <1>4, SeVePedido

LEMMA SeVeNegar ==
  ASSUME NEW c \in Conexiones, NEW p \in Pids, NEW cant \in 1..MaxPaginas, NEW v \in Contenidos,
         VePedidos[c] = Memo!Quieto, Memo!Ocupadas + cant > Marcos - MarcosAdm,
         VePaginas' = VePaginas,
         VePedidos' = [VePedidos EXCEPT ![c] = Memo!Respuesta("pedir", p, cant, FALSE, v)]
  PROVE  [Memo!NextPaginas]_(Memo!varsPaginas)
<1>1. Memo!Negar(c, p, cant)
  BY DEF Memo!Negar, Memo!Contesta, VePaginas, VePedidos
<1>2. VePedidos'[c] # VePedidos[c]
  BY DEF VePedidos, Memo!Quieto, Memo!Respuesta
<1>3. Memo!Pedido(c)
  BY <1>1 DEF Memo!Pedido
<1> QED
  BY <1>2, <1>3, SeVePedido

LEMMA SeVeRecibir ==
  ASSUME NEW c \in Conexiones, VePedidos[c].estado = "responde", VePaginas' = VePaginas,
         VePedidos' = [VePedidos EXCEPT ![c] = Memo!Quieto]
  PROVE  [Memo!NextPaginas]_(Memo!varsPaginas)
<1>1. Memo!Recibir(c)
  BY DEF Memo!Recibir, VePaginas, VePedidos
<1>2. VePedidos'[c] # VePedidos[c]
  BY DEF VePedidos, Memo!Quieto
<1>3. Memo!Pedido(c)
  BY <1>1 DEF Memo!Pedido
<1> QED
  BY <1>2, <1>3, SeVePedido

LEMMA SeVeTerminar ==
  ASSUME NEW p \in Pids, VePedidos' = VePedidos,
         VePaginas' = [VePaginas EXCEPT ![p] = <<>>]
  PROVE  [Memo!NextPaginas]_(Memo!varsPaginas)
<1>1. CASE VePaginas' = VePaginas
  BY <1>1, NoSeVe
<1>2. CASE VePaginas' # VePaginas
  <2>1. Memo!Terminar(p)
    BY DEF Memo!Terminar, VePaginas, VePedidos
  <2> QED
    BY <1>2, <2>1 DEF Memo!NextPaginas, VePaginas, VePedidos
<1> QED
  BY <1>1, <1>2

\* The pages that are seen of a process.
LEMMA LargoDePaginas ==
  ASSUME IInvMemoria, IInvSinCache, NEW p \in Pids
  PROVE  /\ EnCurso(p) \in Nat /\ Cardinality(DelProceso(p)) - EnCurso(p) \in Nat
         /\ Len(PaginasDe(p)) = Cardinality(DelProceso(p)) - EnCurso(p)
         /\ PaginasDe(p) \in Seq(Contenidos)
         /\ \A n \in 1..Len(PaginasDe(p)) : PaginasDe(p)[n] = Copia(p, n - 1)
         /\ DOMAIN PaginasDe(p) = 1..Len(PaginasDe(p))
<1>1. Cardinality(DelProceso(p)) \in Nat
  BY Finitos DEF DelProceso
<1>2. EnCurso(p) \in Nat /\ EnCurso(p) <= Cardinality(DelProceso(p))
  <2>1. CASE hilo[Nucleo].paso = "asignar" /\ hilo[Nucleo].pid = p
    <3>1. hilo[Nucleo] \in TipoAsignar
      BY <2>1, EnPaso DEF IInvMemoria, TiposMemoria, Conexiones
    <3>2. hilo[Nucleo].hechas \in Nat
      BY <3>1 DEF TipoAsignar
    <3> QED
      BY <2>1, <3>2 DEF EnCurso, IInvSinCache, AsignaSolo
  <2>2. CASE ~(hilo[Nucleo].paso = "asignar" /\ hilo[Nucleo].pid = p)
    BY <1>1, <2>2 DEF EnCurso
  <2> QED
    BY <2>1, <2>2
<1> DEFINE L == Cardinality(DelProceso(p)) - EnCurso(p)
<1>3. L \in Nat
  BY <1>1, <1>2
<1>4. \A n : Copia(p, n) \in Contenidos
  BY CopiaTipo DEF IInvMemoria
<1>5. PaginasDe(p) = [n \in 1..L |-> Copia(p, n - 1)]
  BY DEF PaginasDe
<1> HIDE DEF L
<1>6. PaginasDe(p) \in [1..L -> Contenidos]
  BY <1>4, <1>5
<1>7. PaginasDe(p) \in Seq(Contenidos) /\ Len(PaginasDe(p)) = L
  BY <1>3, <1>6, LenProperties
<1> QED
  BY <1>2, <1>3, <1>5, <1>7 DEF L

\* The frames of the processes and the free ones are all but those of the table.
LEMMA FramesRepartidos ==
  ASSUME IInvMemoria
  PROVE  SumFunctionOnSet([p \in Pids |-> Cardinality(DelProceso(p))], Pids)
           = Marcos - MarcosAdm - Cardinality(Libres)
<1> DEFINE d == [f \in Frames |-> tabla[f].pid]
           k == [p \in Pids |-> DelProceso(p)]
           c == [p \in Pids |-> Cardinality(DelProceso(p))]
           U == {f \in Frames : d[f] \in Pids}
           T == MarcosAdm..(Marcos - 1)
<1>1. IsFiniteSet(Frames) /\ IsFiniteSet(Pids)
  BY Finitos
<1>2. /\ k \in [Pids -> SUBSET Frames]
      /\ \A p, q \in Pids : p # q => k[p] \cap k[q] = {}
      /\ \A p \in Pids : c[p] = Cardinality(k[p])
      /\ U = UNION {k[p] : p \in Pids}
  BY DEF DelProceso
<1>3. U \in SUBSET Frames /\ Libres \in SUBSET Frames /\ U \cap Libres = {}
  BY DEF Libres
<1>4. U \cup Libres = T
  <2>1. \A f \in Frames : f \in T <=> ~(f < MarcosAdm)
    BY DEF Frames
  <2>2. T \in SUBSET Frames
    BY DEF Frames
  <2>3. \A f \in Frames : f < MarcosAdm => d[f] = -9
    BY DEF IInvMemoria, TablaFiel
  <2>4. \A f \in Frames : ~(f < MarcosAdm) => d[f] \in Pids \cup {-1}
    BY DEF IInvMemoria, TablaFiel
  <2>5. -9 \notin Pids /\ -9 # -1
    OBVIOUS
  <2>6. Libres = {f \in Frames : d[f] = -1}
    BY DEF Libres
  <2> HIDE DEF T, d
  <2> QED
    BY <2>1, <2>2, <2>3, <2>4, <2>5, <2>6
<1>5. Cardinality(T) = Marcos - MarcosAdm
  <2>1. MarcosAdm \in Int /\ Marcos - 1 \in Int /\ MarcosAdm <= Marcos
    OBVIOUS
  <2>2. Cardinality(T) = IF MarcosAdm > Marcos - 1 THEN 0 ELSE Marcos - 1 - MarcosAdm + 1
    BY <2>1, FS_Interval
  <2> HIDE DEF T
  <2> QED
    BY <2>1, <2>2
<1> HIDE DEF c, d, k, U, T
<1>6. SumFunctionOnSet(c, Pids) = Cardinality(U)
  <2>1. SumFunctionOnSet(c, Pids) = Cardinality(UNION {k[p] : p \in Pids})
    BY <1>1, <1>2, SumaDeClases
  <2> QED
    BY <1>2, <2>1
<1>7. /\ IsFiniteSet(U) /\ Cardinality(U) \in Nat
      /\ IsFiniteSet(Libres) /\ Cardinality(Libres) \in Nat
  BY <1>3, Finitos
<1>8. Cardinality(T) = Cardinality(U) + Cardinality(Libres) - Cardinality({})
  BY <1>3, <1>4, <1>7, FS_Union
<1>9. Cardinality({}) = 0
  BY FS_EmptySet
<1>10. SumFunctionOnSet(c, Pids) = Marcos - MarcosAdm - Cardinality(Libres)
  BY <1>5, <1>6, <1>7, <1>8, <1>9
<1> QED
  BY <1>10 DEF c

\* What the abstract memory has given out, while q alone is being given frames.
LEMMA OcupadasSon ==
  ASSUME IInvMemoria, IInvSinCache, NEW q \in Pids,
         \A p \in Pids \ {q} : EnCurso(p) = 0
  PROVE  Memo!Ocupadas = Marcos - MarcosAdm - Cardinality(Libres) - EnCurso(q)
<1> DEFINE c == [p \in Pids |-> Cardinality(DelProceso(p))]
           g == [p \in Pids |-> Len(VePaginas[p])]
<1>1. \A p \in Pids : c[p] \in Int /\ g[p] = c[p] - EnCurso(p) /\ EnCurso(p) \in Nat
  <2>1. ASSUME NEW p \in Pids
        PROVE  /\ Cardinality(DelProceso(p)) \in Int
               /\ Len(PaginasDe(p)) = Cardinality(DelProceso(p)) - EnCurso(p)
               /\ EnCurso(p) \in Nat
    BY LargoDePaginas, Finitos DEF DelProceso
  <2> QED
    BY <2>1 DEF VePaginas
<1>2. Memo!Ocupadas = SumFunctionOnSet(g, Pids)
  <2>1. DOMAIN g = Pids
    OBVIOUS
  <2>2. Memo!Ocupadas = Memo!SumFunctionOnSet(g, DOMAIN g)
    BY DEF Memo!Ocupadas, Memo!SumFunction, VePaginas
  <2> HIDE DEF g
  <2> QED
    BY <2>1, <2>2 DEF Memo!SumFunctionOnSet, Memo!FoldFunctionOnSet, Memo!MapThenFoldSet,
                      SumFunctionOnSet, FoldFunctionOnSet, MapThenFoldSet
<1>3. SumFunctionOnSet(c, Pids) = Marcos - MarcosAdm - Cardinality(Libres)
  BY FramesRepartidos
<1>4. /\ \A p \in Pids : c[p] \in Int /\ g[p] \in Int
      /\ \A p \in Pids \ {q} : g[p] = c[p]
      /\ g[q] = c[q] - EnCurso(q) /\ EnCurso(q) \in Nat
  BY <1>1
<1>5. Cardinality(Libres) \in Nat
  BY Finitos DEF Libres
<1> HIDE DEF c, g
<1>6. SumFunctionOnSet(g, Pids) = SumFunctionOnSet(c, Pids) + g[q] - c[q]
  <2>1. IsFiniteSet(Pids) /\ \A p \in Pids : c[p] \in Int /\ g[p] \in Int
    BY <1>4
  <2>2. \A p \in Pids \ {q} : g[p] = c[p]
    BY <1>4
  <2> QED
    BY <2>1, <2>2, SumaCambia, ZenonT(30)
<1> QED
  BY <1>2, <1>3, <1>4, <1>5, <1>6

\* Nothing is seen of a step that leaves the frames, their contents and what is
\* being given.
LEMMA PaginasSiguen ==
  ASSUME UNCHANGED <<tabla, bloque>>, \A p \in Pids : EnCurso(p)' = EnCurso(p)
  PROVE  VePaginas' = VePaginas
<1>1. ASSUME NEW p \in Pids PROVE PaginasDe(p)' = PaginasDe(p)
  <2>1. DelProceso(p)' = DelProceso(p)
    BY DEF DelProceso
  <2>2. \A n : Copia(p, n)' = Copia(p, n)
    <3>1. \A n : DePagina(p, n)' = DePagina(p, n)
      BY DEF DePagina
    <3>2. ASSUME NEW n
          PROVE  buscarFrameDePaginaDeProceso(p, n)' = buscarFrameDePaginaDeProceso(p, n)
      <4>1. DePagina(p, n)' = DePagina(p, n)
        BY <3>1
      <4> QED
        BY <4>1 DEF buscarFrameDePaginaDeProceso, funcionHash, Primera
    <3> QED
      BY <3>2 DEF Copia
  <2> QED
    BY <2>1, <2>2 DEF PaginasDe
<1> QED
  BY <1>1 DEF VePaginas

\* What is seen of a thread that goes on.
LEMMA PedidosSiguen ==
  ASSUME IInvMemoria, NEW h \in Conexiones, NEW r, hilo' = [hilo EXCEPT ![h] = r]
  PROVE  /\ VePedidos' = [VePedidos EXCEPT ![h] = PedidoDe(r)]
         /\ PedidoDe(r) = PedidoDe(hilo[h]) => VePedidos' = VePedidos
         /\ VePedidos[h] = PedidoDe(hilo[h])
<1>1. \A c \in Conexiones : hilo'[c] = IF c = h THEN r ELSE hilo[c]
  BY DEF IInvMemoria, TiposMemoria
<1>2. VePedidos' = [c \in Conexiones |-> PedidoDe(hilo'[c])]
  BY DEF VePedidos, PedidoDe
<1>3. VePedidos = [c \in Conexiones |-> PedidoDe(hilo[c])]
  BY DEF VePedidos
<1>4. \A c \in Conexiones :
        VePedidos'[c] = IF c = h THEN PedidoDe(r) ELSE VePedidos[c]
  BY <1>1, <1>2, <1>3
<1> QED
  BY <1>2, <1>3, <1>4

\* What is seen of a thread, by where it is.
LEMMA PedidoEs ==
  ASSUME NEW r
  PROVE  /\ r.paso = "responde" =>
              PedidoDe(r) = Memo!Respuesta(r.orden, r.pid, r.pagina, r.res, r.valor)
         /\ r.paso = "verCache" /\ r.orden = "escribir" /\ r.res =>
              PedidoDe(r) = Memo!Escrito(r.pid, r.pagina)
         /\ r.paso = "verCache" /\ ~r.res => PedidoDe(r) = Memo!Quieto
         /\ r.paso \in {"contar", "leerFrame"} /\ r.orden = "leer" => PedidoDe(r) = Memo!Quieto
         /\ r.paso \in {"libre", "asignar", "borrarCache"} => PedidoDe(r) = Memo!Quieto
BY DEF PedidoDe, Pasos, Memo!Respuesta, Memo!Escrito, Memo!Quieto

LEMMA CursoSigue ==
  ASSUME IInvMemoria, NEW h \in Conexiones, NEW r, hilo' = [hilo EXCEPT ![h] = r],
         h # Nucleo \/ (hilo[Nucleo].paso # "asignar" /\ (r.paso = "asignar" => r.hechas = 0))
  PROVE  \A p : EnCurso(p)' = EnCurso(p)
<1>1. /\ \A c \in Conexiones : hilo'[c] = IF c = h THEN r ELSE hilo[c]
      /\ Nucleo \in Conexiones
  BY DEF IInvMemoria, TiposMemoria, Conexiones
<1>2. CASE h # Nucleo
  BY <1>1, <1>2 DEF EnCurso
<1>3. CASE h = Nucleo
  BY <1>1, <1>3 DEF EnCurso
<1> QED
  BY <1>2, <1>3

\* The search of a page that stays where it was.
LEMMA BusquedaSigue ==
  ASSUME TablaFiel, \A f \in Frames : tabla'[f].frame = f, NEW p, NEW n,
         DePagina(p, n)' = DePagina(p, n)
  PROVE  buscarFrameDePaginaDeProceso(p, n)' = buscarFrameDePaginaDeProceso(p, n)
<1> DEFINE todos == {f \in DePagina(p, n) : f >= MarcosAdm \/ f >= funcionHash(p, n)}
           s == {f \in todos : f >= funcionHash(p, n)}
<1>1. /\ todos \in SUBSET Nat /\ s \in SUBSET Nat /\ todos \subseteq Frames /\ s \subseteq Frames
      /\ \A f \in Frames : tabla[f].frame = f
  BY DEF DePagina, Frames, TablaFiel
<1>2. todos # {} => Primera(todos) \in Frames
  BY <1>1, PrimeraEsta
<1>3. s # {} => Primera(s) \in Frames
  BY <1>1, PrimeraEsta
<1>4. buscarFrameDePaginaDeProceso(p, n) =
        IF todos = {} THEN -1
        ELSE IF s = {} THEN tabla[Primera(todos)].frame ELSE tabla[Primera(s)].frame
  BY DEF buscarFrameDePaginaDeProceso
<1>5. buscarFrameDePaginaDeProceso(p, n)' =
        IF todos = {} THEN -1
        ELSE IF s = {} THEN tabla'[Primera(todos)].frame ELSE tabla'[Primera(s)].frame
  BY DEF buscarFrameDePaginaDeProceso, funcionHash, Primera
<1>6. todos # {} => tabla'[Primera(todos)].frame = tabla[Primera(todos)].frame
  BY <1>1, <1>2
<1>7. s # {} => tabla'[Primera(s)].frame = tabla[Primera(s)].frame
  BY <1>1, <1>3
<1> HIDE DEF todos, s
<1>8. CASE todos = {}
  BY ONLY <1>4, <1>5, <1>8
<1>9. CASE todos # {} /\ s = {}
  BY ONLY <1>4, <1>5, <1>6, <1>9
<1>10. CASE todos # {} /\ s # {}
  BY ONLY <1>4, <1>5, <1>7, <1>10
<1> QED
  BY <1>8, <1>9, <1>10

\* The pages seen after a step, by the copies that can be made then.
LEMMA PaginasDespues ==
  ASSUME NEW p, NEW L, Cardinality(DelProceso(p)') - EnCurso(p)' = L
  PROVE  PaginasDe(p)' = [n \in 1..L |-> Copia(p, n - 1)']
BY DEF PaginasDe

\* A process whose frames and numbers stay.
LEMMA PaginasDeOtro ==
  ASSUME TablaFiel, \A f \in Frames : tabla'[f].frame = f, UNCHANGED bloque, NEW q,
         DelProceso(q)' = DelProceso(q), \A n : DePagina(q, n)' = DePagina(q, n),
         EnCurso(q)' = EnCurso(q)
  PROVE  PaginasDe(q)' = PaginasDe(q)
<1>1. \A n : buscarFrameDePaginaDeProceso(q, n)' = buscarFrameDePaginaDeProceso(q, n)
  BY BusquedaSigue
<1>2. \A n : Copia(q, n)' = Copia(q, n)
  BY <1>1 DEF Copia
<1> QED
  BY <1>2 DEF PaginasDe

-----------------------------------------------------------------------------
(* Each step of Memoria is one of MemoriaDePaginas or is not seen           *)

\* A request for pages starts unseen, or is refused when they do not fit.
LEMMA SeVePedir ==
  ASSUME IInvMemoria, IInvSinCache, NEW p \in Pids, NEW cant \in 1..MaxPaginas,
         PedirPaginas(p, cant)
  PROVE  [Memo!NextPaginas]_(Memo!varsPaginas)
<1>1. /\ hilo[Nucleo] = Libre /\ Nucleo \in Conexiones /\ Libre.paso = "libre"
      /\ UNCHANGED <<tabla, bloque>>
  BY DEF PedirPaginas, Pide, Conexiones, Libre
<1>2. PedidoDe(hilo[Nucleo]) = Memo!Quieto
  BY <1>1, PedidoEs
<1>3. CASE Alcanza(cant)
  <2> DEFINE r == [paso |-> "asignar", pid |-> p, cant |-> cant, hechas |-> 0]
  <2>1. hilo' = [hilo EXCEPT ![Nucleo] = r] /\ r.paso = "asignar" /\ r.hechas = 0
    BY <1>3 DEF PedirPaginas
  <2> HIDE DEF r
  <2>2. PedidoDe(r) = Memo!Quieto
    BY <2>1, PedidoEs
  <2>3. VePedidos' = VePedidos
    BY <1>1, <1>2, <2>1, <2>2, PedidosSiguen
  <2>4. VePaginas' = VePaginas
    BY <1>1, <2>1, CursoSigue, PaginasSiguen
  <2> QED
    BY <2>3, <2>4, NoSeVe
<1>4. CASE ~Alcanza(cant)
  <2> DEFINE r == [paso |-> "responde", orden |-> "pedir", pid |-> p, pagina |-> cant,
                   res |-> FALSE, valor |-> Basura]
  <2>0. hilo' = [hilo EXCEPT ![Nucleo] = r]
    BY <1>4 DEF PedirPaginas, Responde
  <2>a. /\ r.paso = "responde" /\ r.orden = "pedir" /\ r.pid = p /\ r.pagina = cant
        /\ r.res = FALSE /\ r.valor = Basura
    OBVIOUS
  <2> HIDE DEF r
  <2>b. PedidoDe(r) = Memo!Respuesta(r.orden, r.pid, r.pagina, r.res, r.valor)
    BY <2>a, PedidoEs
  <2>1. /\ hilo' = [hilo EXCEPT ![Nucleo] = r] /\ r.paso = "responde"
        /\ PedidoDe(r) = Memo!Respuesta("pedir", p, cant, FALSE, Basura)
    BY <2>0, <2>a, <2>b
  <2>3. /\ VePedidos' = [VePedidos EXCEPT ![Nucleo] = PedidoDe(r)]
        /\ VePedidos[Nucleo] = Memo!Quieto
    BY <1>1, <1>2, <2>1, PedidosSiguen
  <2>4. VePaginas' = VePaginas
    BY <1>1, <2>1, CursoSigue, PaginasSiguen
  <2>5. \A q \in Pids : EnCurso(q) = 0
    BY <1>1 DEF EnCurso
  <2>6. Memo!Ocupadas + cant > Marcos - MarcosAdm
    <3>1. Memo!Ocupadas = Marcos - MarcosAdm - Cardinality(Libres) - 0
      BY <2>5, OcupadasSon
    <3>2. Cardinality(Libres) \in Nat /\ ~(Cardinality(Libres) >= cant)
      BY <1>4, Finitos DEF Alcanza, Libres
    <3> QED
      BY <3>1, <3>2
  <2>7. Basura \in Contenidos
    BY DEF Contenidos
  <2> QED
    BY <1>1, <2>1, <2>3, <2>4, <2>6, <2>7, SeVeNegar
<1> QED
  BY <1>3, <1>4

\* An end takes all the pages at once.
LEMMA SeVeFin ==
  ASSUME IInvMemoria, IInvSinCache, IInvMemoria', NEW p \in Pids, Finalizar(p)
  PROVE  [Memo!NextPaginas]_(Memo!varsPaginas)
<1> DEFINE r == [paso |-> "borrarCache", pid |-> p]
<1>1. /\ hilo[Nucleo] = Libre /\ Nucleo \in Conexiones /\ Libre.paso = "libre"
      /\ UNCHANGED bloque /\ hilo' = [hilo EXCEPT ![Nucleo] = r]
      /\ r.paso = "borrarCache"
  BY DEF Finalizar, Pide, Conexiones, Libre
<1> HIDE DEF r
<1>a. PedidoDe(r) = Memo!Quieto /\ PedidoDe(Libre) = Memo!Quieto
  BY <1>1, PedidoEs
<1>2. VePedidos' = VePedidos
  BY <1>1, <1>a, PedidosSiguen
<1>3. \A q : EnCurso(q)' = EnCurso(q)
  BY <1>1, CursoSigue
<1>4. TablaFiel /\ \A f \in Frames : tabla'[f].frame = f
  BY DEF IInvMemoria, TablaFiel
<1>5. ASSUME NEW q \in Pids \ {p} PROVE PaginasDe(q)' = PaginasDe(q)
  <2>1. DelProceso(q)' = DelProceso(q) /\ \A n : DePagina(q, n)' = DePagina(q, n)
    BY FramesDevueltos
  <2> QED
    BY <1>1, <1>3, <1>4, <2>1, PaginasDeOtro
<1>6. PaginasDe(p)' = <<>>
  <2>1. Cardinality(DelProceso(p)') = 0
    BY FramesDevueltos, FS_EmptySet
  <2>2. EnCurso(p)' = 0
    BY <1>1, <1>3 DEF EnCurso
  <2>3. PaginasDe(p)' = [n \in 1..0 |-> Copia(p, n - 1)']
    BY <2>1, <2>2, PaginasDespues
  <2> QED
    BY <2>3
<1>7. VePaginas' = [VePaginas EXCEPT ![p] = <<>>]
  BY <1>5, <1>6 DEF VePaginas
<1> QED
  BY <1>2, <1>7, SeVeTerminar

\* The rounds of a request are seen all at once, with the last one.
LEMMA SeVeRonda ==
  ASSUME IInvMemoria, IInvSinCache, IInvMemoria', AsignarPagina
  PROVE  [Memo!NextPaginas]_(Memo!varsPaginas)
<1>1. PICK p \in Pids, cant \in Nat, hechas \in Nat, g \in Libres :
        /\ hilo[Nucleo] = [paso |-> "asignar", pid |-> p, cant |-> cant, hechas |-> hechas]
        /\ hechas < cant
        /\ tabla' = [tabla EXCEPT ![g] =
             [frame |-> g, pid |-> p, num_pag |-> Cardinality(DelProceso(p))]]
        /\ UNCHANGED <<bloque, cache, fallo>>
        /\ \/ /\ hechas + 1 = cant
              /\ Responde(Nucleo, "pedir", p, cant, TRUE, Basura)
           \/ /\ hechas + 1 # cant
              /\ hilo' = [hilo EXCEPT ![Nucleo] =
                   [paso |-> "asignar", pid |-> p, cant |-> cant, hechas |-> hechas + 1]]
  BY RondaDa
<1>2. /\ hilo[Nucleo].paso = "asignar" /\ hilo[Nucleo].pid = p /\ hilo[Nucleo].cant = cant
      /\ hilo[Nucleo].hechas = hechas /\ Nucleo \in Conexiones
  BY <1>1 DEF Conexiones
<1>3. PICK N \in Nat : N = Cardinality(DelProceso(p))
  BY Finitos DEF DelProceso
<1>4. cant \in 1..MaxPaginas /\ hechas <= N
  BY <1>2, <1>3 DEF IInvSinCache, AsignaSolo
<1>5. /\ Cardinality(DelProceso(p)') = N + 1
      /\ \A n : n # N => DePagina(p, n)' = DePagina(p, n)
      /\ \A q \in Pids \ {p} : DelProceso(q)' = DelProceso(q) /\ \A n : DePagina(q, n)' = DePagina(q, n)
  BY <1>1, <1>3, FrameDado DEF IInvMemoria
<1>6. TablaFiel /\ (\A f \in Frames : tabla'[f].frame = f) /\ UNCHANGED bloque
  BY <1>1 DEF IInvMemoria, TablaFiel
<1>7. \A n : n # N => Copia(p, n)' = Copia(p, n)
  <2>1. \A n : n # N => buscarFrameDePaginaDeProceso(p, n)' = buscarFrameDePaginaDeProceso(p, n)
    BY <1>5, <1>6, BusquedaSigue
  <2> QED
    BY <1>6, <2>1 DEF Copia
<1>8. /\ EnCurso(p) = hechas
      /\ \A q \in Pids \ {p} : EnCurso(q) = 0
  BY <1>2 DEF EnCurso
<1>9. PaginasDe(p) = [n \in 1..(N - hechas) |-> Copia(p, n - 1)]
  BY <1>3, <1>8 DEF PaginasDe
<1>10. PedidoDe(hilo[Nucleo]) = Memo!Quieto
  BY <1>2, PedidoEs
<1>11. CASE hechas + 1 # cant
  <2> DEFINE r == [paso |-> "asignar", pid |-> p, cant |-> cant, hechas |-> hechas + 1]
  <2>1. /\ hilo' = [hilo EXCEPT ![Nucleo] = r] /\ r.paso = "asignar" /\ r.pid = p
        /\ r.hechas = hechas + 1
    BY <1>1, <1>11
  <2> HIDE DEF r
  <2>2. PedidoDe(r) = Memo!Quieto
    BY <2>1, PedidoEs
  <2>3. VePedidos' = VePedidos
    BY <1>2, <1>10, <2>1, <2>2, PedidosSiguen
  <2>4. hilo'[Nucleo] = r
    BY <1>2, <2>1 DEF IInvMemoria, TiposMemoria
  <2>5. EnCurso(p)' = hechas + 1 /\ \A q \in Pids \ {p} : EnCurso(q)' = EnCurso(q)
    BY <1>8, <2>1, <2>4 DEF EnCurso
  <2>6. \A q \in Pids \ {p} : PaginasDe(q)' = PaginasDe(q)
    BY <1>5, <1>6, <2>5, PaginasDeOtro
  <2>7. PaginasDe(p)' = PaginasDe(p)
    <3>1. Cardinality(DelProceso(p)') - EnCurso(p)' = N - hechas
      BY <1>5, <2>5
    <3>2. PaginasDe(p)' = [n \in 1..(N - hechas) |-> Copia(p, n - 1)']
      BY <3>1, PaginasDespues
    <3>3. \A n \in 1..(N - hechas) : Copia(p, n - 1)' = Copia(p, n - 1)
      <4>1. \A n \in 1..(N - hechas) : n - 1 # N
        BY <1>4
      <4> QED
        BY <1>7, <4>1
    <3> QED
      BY <1>9, <3>2, <3>3
  <2>8. VePaginas' = VePaginas
    BY <2>6, <2>7 DEF VePaginas
  <2> QED
    BY <2>3, <2>8, NoSeVe
<1>12. CASE hechas + 1 = cant
  <2> DEFINE r == [paso |-> "responde", orden |-> "pedir", pid |-> p, pagina |-> cant,
                   res |-> TRUE, valor |-> Basura]
  <2>1. hilo' = [hilo EXCEPT ![Nucleo] = r]
    BY <1>1, <1>12 DEF Responde
  <2>2. /\ r.paso = "responde" /\ r.orden = "pedir" /\ r.pid = p /\ r.pagina = cant
        /\ r.res = TRUE /\ r.valor = Basura
    OBVIOUS
  <2> HIDE DEF r
  <2>3. PedidoDe(r) = Memo!Respuesta(r.orden, r.pid, r.pagina, r.res, r.valor)
    BY <2>2, PedidoEs
  <2>a. PedidoDe(r) = Memo!Respuesta("pedir", p, cant, TRUE, Basura)
    BY <2>2, <2>3
  <2>4. /\ VePedidos' = [VePedidos EXCEPT ![Nucleo] = Memo!Respuesta("pedir", p, cant, TRUE, Basura)]
        /\ VePedidos[Nucleo] = Memo!Quieto
    <3>1. /\ VePedidos' = [VePedidos EXCEPT ![Nucleo] = PedidoDe(r)]
          /\ VePedidos[Nucleo] = PedidoDe(hilo[Nucleo])
      BY <1>2, <2>1, PedidosSiguen
    <3> QED
      BY <1>10, <2>a, <3>1
  <2>5. hilo'[Nucleo] = r
    BY <1>2, <2>1 DEF IInvMemoria, TiposMemoria
  <2>6. \A q : EnCurso(q)' = 0
    BY <2>2, <2>5 DEF EnCurso
  <2>7. \A q \in Pids \ {p} : PaginasDe(q)' = PaginasDe(q)
    BY <1>5, <1>6, <1>8, <2>6, PaginasDeOtro
  <2> DEFINE L == N - hechas
  <2>8. PICK s : s = [n \in 1..cant |-> Copia(p, L + n - 1)']
    OBVIOUS
  <2>9. s \in [1..cant -> Contenidos]
    <3>1. \A n : Copia(p, n)' \in Contenidos
      BY DEF IInvMemoria, TiposMemoria, Copia, Contenidos
    <3> QED
      BY <2>8, <3>1
  <2>10. s \in Seq(Contenidos) /\ Len(s) = cant
    BY <2>9, LenProperties
  <2>11. /\ L \in Nat /\ N + 1 = L + cant
         /\ PaginasDe(p) \in Seq(Contenidos) /\ Len(PaginasDe(p)) = L
    <3>1. PaginasDe(p) \in Seq(Contenidos) /\ Len(PaginasDe(p)) = N - hechas
      BY <1>3, <1>8, LargoDePaginas
    <3>2. N - hechas \in Nat /\ N + 1 = (N - hechas) + cant
      BY <1>4, <1>12
    <3> QED
      BY <3>1, <3>2
  <2>12. PaginasDe(p)' = [n \in 1..(L + cant) |-> Copia(p, n - 1)']
    <3>1. Cardinality(DelProceso(p)') - EnCurso(p)' = L + cant
      BY <1>5, <2>6, <2>11
    <3> HIDE DEF L
    <3> QED
      BY <3>1, PaginasDespues
  <2>13. \A n \in 1..L : Copia(p, n - 1)' = PaginasDe(p)[n]
    <3>1. \A n \in 1..L : n - 1 # N
      BY <1>4
    <3> QED
      BY <1>7, <1>9, <3>1
  <2> HIDE DEF L
  <2>14. PaginasDe(p)' = PaginasDe(p) \o s
    <3>1. PaginasDe(p) \o s =
            [n \in 1..(L + cant) |-> IF n <= L THEN PaginasDe(p)[n] ELSE s[n - L]]
      <4>1. PICK t \in Seq(Contenidos) : t = PaginasDe(p)
        BY <2>11
      <4>2. /\ t \o s \in Seq(Contenidos) /\ Len(t \o s) = L + cant
            /\ \A n \in 1..(L + cant) : (t \o s)[n] = IF n <= L THEN t[n] ELSE s[n - L]
        BY <2>10, <2>11, <4>1, ConcatProperties
      <4>3. t \o s = [n \in 1..(L + cant) |-> (t \o s)[n]]
        <5>1. t \o s \in [1..(L + cant) -> Contenidos]
          BY <4>2, LenProperties
        <5> QED
          BY <5>1
      <4> QED
        BY <4>1, <4>2, <4>3
    <3>2. ASSUME NEW n \in 1..(L + cant)
          PROVE  Copia(p, n - 1)' = IF n <= L THEN PaginasDe(p)[n] ELSE s[n - L]
      <4>1. CASE n <= L
        <5>1. n \in 1..L
          BY <2>11, <4>1
        <5> QED
          BY <2>13, <4>1, <5>1
      <4>2. CASE ~(n <= L)
        <5>1. n - L \in 1..cant /\ L + (n - L) - 1 = n - 1
          BY <2>11, <4>2
        <5>2. s[n - L] = Copia(p, L + (n - L) - 1)'
          BY <2>8, <5>1
        <5> QED
          BY <4>2, <5>1, <5>2
      <4> QED
        BY <4>1, <4>2
    <3> QED
      BY <2>12, <3>1, <3>2
  <2>15. VePaginas' = [VePaginas EXCEPT ![p] = VePaginas[p] \o s]
    BY <2>7, <2>14 DEF VePaginas
  <2>16. Memo!Ocupadas + cant <= Marcos - MarcosAdm
    <3>1. Memo!Ocupadas = Marcos - MarcosAdm - Cardinality(Libres) - hechas
      BY <1>8, OcupadasSon
    <3>2. Cardinality(Libres) \in Nat /\ Cardinality(Libres) # 0
      <4>1. Libres \in SUBSET Frames
        BY DEF Libres
      <4> QED
        BY <4>1, Finitos, FS_EmptySet
    <3> QED
      BY <1>12, <3>1, <3>2
  <2>17. Basura \in Contenidos
    BY DEF Contenidos
  <2> QED
    BY <1>2, <1>4, <2>4, <2>9, <2>15, <2>16, <2>17, SeVeOtorgar
<1> QED
  BY <1>11, <1>12

\* A page that is seen has a frame, and what is seen is what the frame has.
LEMMA PaginaVista ==
  ASSUME IInvMemoria, IInvSinCache, NEW p \in Pids, NEW n \in Nat, n < Len(VePaginas[p])
  PROVE  /\ \E f \in DePagina(p, n) : buscarFrameDePaginaDeProceso(p, n) = f
         /\ buscarFrameDePaginaDeProceso(p, n) # -1
         /\ VePaginas[p][n + 1] = Copia(p, n)
<1>1. /\ EnCurso(p) \in Nat /\ Len(PaginasDe(p)) = Cardinality(DelProceso(p)) - EnCurso(p)
      /\ Cardinality(DelProceso(p)) \in Nat /\ VePaginas[p] = PaginasDe(p)
      /\ \A m \in 1..Len(PaginasDe(p)) : PaginasDe(p)[m] = Copia(p, m - 1)
      /\ Len(PaginasDe(p)) \in Nat
  BY LargoDePaginas, Finitos DEF DelProceso, VePaginas
<1>2. n < Cardinality(DelProceso(p)) /\ n + 1 \in 1..Len(PaginasDe(p)) /\ (n + 1) - 1 = n
  BY <1>1
<1>3. PICK f \in DePagina(p, n) : TRUE
  BY <1>2, HayPagina DEF IInvMemoria
<1>4. buscarFrameDePaginaDeProceso(p, n) = f /\ f \in Nat
  BY <1>3, SeEncuentra DEF IInvMemoria, DePagina, Frames
<1> QED
  BY <1>1, <1>2, <1>4

\* What is read of the frame is what the abstract memory tells.
LEMMA SeVeLectura ==
  ASSUME IInvMemoria, IInvSinCache, NEW h \in Conexiones, LeerFrame(h)
  PROVE  [Memo!NextPaginas]_(Memo!varsPaginas)
<1>1. /\ hilo[h].paso = "leerFrame" /\ hilo[h] \in TipoPaso
      /\ UNCHANGED <<tabla, bloque>>
  BY EnHilo DEF LeerFrame, Pasos
<1>2. hilo[h].orden = "leer"
  BY <1>1 DEF IInvSinCache, SinUso
<1>3. PICK p \in Pids, n \in Paginas : p = hilo[h].pid /\ n = hilo[h].pagina
  BY <1>1 DEF TipoPaso
<1>4. n \in Nat
  BY DEF Paginas
<1>5. PICK res \in BOOLEAN, v \in Contenidos :
        (res <=> buscarFrameDePaginaDeProceso(p, n) # -1) /\ v = Copia(p, n)
        /\ RespondeDe(h, res, v)
  <2>1. Copia(p, n) \in Contenidos
    BY CopiaTipo DEF IInvMemoria
  <2>2. RespondeDe(h, buscarFrameDePaginaDeProceso(p, n) # -1, Copia(p, n))
    BY <1>3 DEF LeerFrame
  <2> QED
    BY <2>1, <2>2
<1> DEFINE r == [paso |-> "responde", orden |-> hilo[h].orden, pid |-> hilo[h].pid,
                 pagina |-> hilo[h].pagina, res |-> res, valor |-> v]
<1>6. hilo' = [hilo EXCEPT ![h] = r]
  BY <1>5 DEF RespondeDe, Responde
<1>7. /\ r.paso = "responde" /\ r.orden = "leer" /\ r.pid = p /\ r.pagina = n
      /\ r.res = res /\ r.valor = v
  BY <1>2, <1>3
<1> HIDE DEF r
<1>8. PedidoDe(r) = Memo!Respuesta(r.orden, r.pid, r.pagina, r.res, r.valor)
  BY <1>7, PedidoEs
<1>9. PedidoDe(r) = Memo!Respuesta("leer", p, n, res, v)
  BY <1>7, <1>8
<1>10. PedidoDe(hilo[h]) = Memo!Quieto
  BY <1>1, <1>2, PedidoEs
<1>11. /\ VePedidos' = [VePedidos EXCEPT ![h] = PedidoDe(r)]
       /\ VePedidos[h] = PedidoDe(hilo[h])
  BY <1>6, PedidosSiguen
<1>12. VePaginas' = VePaginas
  BY <1>1, <1>6, <1>7, CursoSigue, PaginasSiguen
<1>13. n < Len(VePaginas[p]) => res /\ v = VePaginas[p][n + 1]
  BY <1>4, <1>5, PaginaVista
<1> QED
  BY <1>9, <1>10, <1>11, <1>12, <1>13, SeVeLeer

\* What is written is seen with the write of the frame.
LEMMA SeVeEscritura ==
  ASSUME IInvMemoria, IInvSinCache, NEW h \in Conexiones, NEW p \in Pids, NEW n \in Paginas,
         NEW v \in Valores, Almacenar(h, p, n, v)
  PROVE  [Memo!NextPaginas]_(Memo!varsPaginas)
<1>1. PICK f : f = buscarFrameDePaginaDeProceso(p, n)
  OBVIOUS
<1>2. PICK res \in BOOLEAN : res <=> f >= 0
  OBVIOUS
<1> DEFINE r == [paso |-> "verCache", orden |-> "escribir", sigue |-> "responde", pid |-> p,
                 pagina |-> n, entrada |-> -1, valor |-> Basura, res |-> res]
<1>3. /\ hilo[h] = Libre /\ ~Ocupado(p) /\ UNCHANGED tabla
      /\ bloque' = IF f >= 0 THEN [bloque EXCEPT ![f] = v] ELSE bloque
  BY <1>1 DEF Almacenar, Pide
<1>4. hilo' = [hilo EXCEPT ![h] = r]
  <2>1. PasoDe(h, "escribir", "verCache", "responde", p, n, -1, f >= 0)
    BY <1>1 DEF Almacenar
  <2>2. (f >= 0) = res
    BY <1>2
  <2>3. PasoDe(h, "escribir", "verCache", "responde", p, n, -1, res)
    BY <2>1, <2>2, Zenon
  <2> QED
    BY <2>3 DEF PasoDe
<1>5. /\ r.paso = "verCache" /\ r.orden = "escribir" /\ r.pid = p /\ r.pagina = n
      /\ r.res = res
  OBVIOUS
<1> HIDE DEF r
<1>6. /\ f \in DePagina(p, n) \cup {-1} /\ n \in Nat /\ Frames \subseteq Nat
      /\ DePagina(p, n) \subseteq Frames
  BY <1>1, FrameHallado DEF IInvMemoria, DePagina, Frames, Paginas
<1>7. Libre.paso = "libre" /\ PedidoDe(hilo[h]) = Memo!Quieto
  BY <1>3, PedidoEs DEF Libre
<1>8. /\ VePedidos' = [VePedidos EXCEPT ![h] = PedidoDe(r)]
      /\ VePedidos[h] = PedidoDe(hilo[h])
      /\ PedidoDe(r) = PedidoDe(hilo[h]) => VePedidos' = VePedidos
  BY <1>4, PedidosSiguen
<1>9. \A q : EnCurso(q)' = EnCurso(q)
  BY <1>3, <1>4, <1>5, <1>7, CursoSigue
<1>10. CASE f = -1
  <2>1. ~res /\ UNCHANGED bloque
    BY <1>2, <1>3, <1>10
  <2>2. PedidoDe(r) = Memo!Quieto
    BY <1>5, <2>1, PedidoEs
  <2>3. VePaginas' = VePaginas
    BY <1>3, <1>9, <2>1, PaginasSiguen
  <2> QED
    BY <1>7, <1>8, <2>2, <2>3, NoSeVe
<1>11. CASE f \in DePagina(p, n)
  <2>1. f >= 0 /\ f \in Frames /\ res
    <3>1. f \in Frames
      BY <1>6, <1>11
    <3>2. f >= 0
      BY <1>6, <3>1
    <3> QED
      BY <1>2, <3>1, <3>2, Zenon
  <2>2. \A k \in Frames : bloque'[k] = IF k = f THEN v ELSE bloque[k]
    BY <1>3, <2>1 DEF IInvMemoria, TiposMemoria
  <2>3. PedidoDe(r) = Memo!Escrito(p, n)
    <3>1. PedidoDe(r) = Memo!Escrito(r.pid, r.pagina)
      BY <1>5, <2>1, PedidoEs
    <3> QED
      BY <1>5, <3>1
  <2>4. EnCurso(p) = 0
    <3>1. ~(hilo[Nucleo].paso = "asignar" /\ hilo[Nucleo].pid = p)
      BY <1>3, <1>7 DEF Ocupado, Conexiones
    <3> QED
      BY <3>1 DEF EnCurso
  <2>5. n < Len(VePaginas[p])
    <3>1. n < Cardinality(DelProceso(p)) /\ Cardinality(DelProceso(p)) \in Nat
      BY <1>6, <1>11, HayPagina, Finitos DEF IInvMemoria, DelProceso
    <3>2. Len(PaginasDe(p)) = Cardinality(DelProceso(p)) - EnCurso(p)
      BY LargoDePaginas
    <3> QED
      BY <2>4, <3>1, <3>2 DEF VePaginas
  <2>6. ASSUME NEW q \in Pids, NEW m \in 1..Len(PaginasDe(q))
        PROVE  Copia(q, m - 1)' = IF q = p /\ m = n + 1 THEN v ELSE PaginasDe(q)[m]
    <3>1. m - 1 \in Nat /\ m - 1 < Len(VePaginas[q]) /\ (m - 1) + 1 = m
      <4>1. Len(PaginasDe(q)) \in Nat
        BY LargoDePaginas
      <4> QED
        BY <4>1 DEF VePaginas
    <3>2. PICK k \in DePagina(q, m - 1) : buscarFrameDePaginaDeProceso(q, m - 1) = k
      BY <3>1, PaginaVista
    <3>3. PaginasDe(q)[m] = bloque[k] /\ k \in Frames
      BY <3>2, LargoDePaginas DEF Copia, DePagina
    <3>4. buscarFrameDePaginaDeProceso(q, m - 1)' = k
      <4>1. DePagina(q, m - 1)' = DePagina(q, m - 1)
        BY <1>3 DEF DePagina
      <4>2. TablaFiel /\ \A x \in Frames : tabla'[x].frame = x
        BY <1>3 DEF IInvMemoria, TablaFiel
      <4> QED
        BY <3>2, <4>1, <4>2, BusquedaSigue
    <3>5. Copia(q, m - 1)' = bloque'[k]
      BY <3>3, <3>4 DEF Copia
    <3>6. k = f <=> q = p /\ m = n + 1
      <4>1. CASE q = p /\ m = n + 1
        <5>1. m - 1 = n
          BY <1>6, <4>1
        <5> QED
          BY <1>1, <3>2, <4>1, <5>1
      <4>2. CASE k = f
        <5>1. /\ tabla[k].pid = q /\ tabla[k].num_pag = m - 1
              /\ tabla[f].pid = p /\ tabla[f].num_pag = n
          BY <1>11, <3>2 DEF DePagina
        <5> QED
          BY <3>1, <4>2, <5>1
      <4> QED
        BY <4>1, <4>2
    <3> QED
      BY <2>2, <3>3, <3>5, <3>6
  <2>7. ASSUME NEW q \in Pids
        PROVE  PaginasDe(q)' = [m \in 1..Len(PaginasDe(q)) |-> Copia(q, m - 1)']
    <3>1. DelProceso(q)' = DelProceso(q)
      BY <1>3 DEF DelProceso
    <3>2. Cardinality(DelProceso(q)') - EnCurso(q)' = Len(PaginasDe(q))
      BY <1>9, <3>1, LargoDePaginas
    <3> QED
      BY <3>2, PaginasDespues
  <2>8. \A q \in Pids : PaginasDe(q) = [m \in 1..Len(PaginasDe(q)) |-> PaginasDe(q)[m]]
    <3>1. ASSUME NEW q \in Pids
          PROVE  PaginasDe(q) = [m \in 1..Len(PaginasDe(q)) |-> PaginasDe(q)[m]]
      <4>1. PaginasDe(q) \in [1..Len(PaginasDe(q)) -> Contenidos]
        BY LargoDePaginas, LenProperties
      <4> QED
        BY <4>1
    <3> QED
      BY <3>1
  <2>9. \A q \in Pids \ {p} : PaginasDe(q)' = PaginasDe(q)
    <3>1. ASSUME NEW q \in Pids \ {p} PROVE PaginasDe(q)' = PaginasDe(q)
      <4>1. \A m \in 1..Len(PaginasDe(q)) : Copia(q, m - 1)' = PaginasDe(q)[m]
        BY <2>6
      <4> QED
        BY <2>7, <2>8, <4>1, ZenonT(30)
    <3> QED
      BY <3>1
  <2>10. PaginasDe(p)' = [PaginasDe(p) EXCEPT ![n + 1] = v]
    <3>1. \A m \in 1..Len(PaginasDe(p)) :
            Copia(p, m - 1)' = IF m = n + 1 THEN v ELSE PaginasDe(p)[m]
      BY <2>6
    <3>2. DOMAIN PaginasDe(p) = 1..Len(PaginasDe(p))
      BY LargoDePaginas
    <3> QED
      BY <2>7, <2>8, <3>1, <3>2
  <2>11. VePaginas' = [VePaginas EXCEPT ![p][n + 1] = v]
    BY <2>9, <2>10 DEF VePaginas
  <2>12. v \in Contenidos
    BY DEF Contenidos
  <2> QED
    BY <1>7, <1>8, <2>3, <2>5, <2>11, <2>12, SeVeEscribir
<1> QED
  BY <1>6, <1>10, <1>11

\* Whoever wrote is told; whoever could not is told that.
LEMMA SeVeVerCache ==
  ASSUME CacheXProc = 0, IInvMemoria, IInvSinCache, NEW h \in Conexiones, VerCache(h)
  PROVE  [Memo!NextPaginas]_(Memo!varsPaginas)
<1>1. /\ hilo[h].paso = "verCache" /\ hilo[h] \in TipoPaso /\ hilo[h].pid \in Pids
      /\ UNCHANGED <<tabla, bloque>>
  BY EnHilo DEF VerCache, Pasos
<1>2. /\ hilo[h].orden = "escribir"
      /\ ~hilo[h].res => DePagina(hilo[h].pid, hilo[h].pagina) = {}
  BY <1>1 DEF IInvSinCache, SinUso
<1>3. PICK p \in Pids, n \in Paginas : p = hilo[h].pid /\ n = hilo[h].pagina
  BY <1>1 DEF TipoPaso
<1>4. RespondeDe(h, hilo[h].res, Basura)
  BY <1>1, NadieUsaLaCache DEF VerCache, Ausente
<1>5. PICK res \in BOOLEAN : res = hilo[h].res
  BY <1>1 DEF TipoPaso
<1> DEFINE r == [paso |-> "responde", orden |-> hilo[h].orden, pid |-> hilo[h].pid,
                 pagina |-> hilo[h].pagina, res |-> hilo[h].res, valor |-> Basura]
<1>6. hilo' = [hilo EXCEPT ![h] = r]
  BY <1>4 DEF RespondeDe, Responde
<1>7. /\ r.paso = "responde" /\ r.orden = "escribir" /\ r.pid = p /\ r.pagina = n
      /\ r.res = hilo[h].res /\ r.valor = Basura
  BY <1>2, <1>3
<1> HIDE DEF r
<1>8. PedidoDe(r) = Memo!Respuesta(r.orden, r.pid, r.pagina, r.res, r.valor)
  BY <1>7, PedidoEs
<1>9. PedidoDe(r) = Memo!Respuesta("escribir", p, n, res, Basura)
  BY <1>5, <1>7, <1>8
<1>10. /\ VePedidos' = [VePedidos EXCEPT ![h] = PedidoDe(r)]
       /\ VePedidos[h] = PedidoDe(hilo[h])
  BY <1>6, PedidosSiguen
<1>11. VePaginas' = VePaginas
  BY <1>1, <1>6, <1>7, CursoSigue, PaginasSiguen
<1>12. Basura \in Contenidos
  BY DEF Contenidos
<1>13. CASE res = TRUE
  <2>1. PedidoDe(hilo[h]) = Memo!Escrito(hilo[h].pid, hilo[h].pagina)
    BY <1>1, <1>2, <1>5, <1>13, PedidoEs
  <2>2. PedidoDe(hilo[h]) = Memo!Escrito(p, n)
    BY <1>3, <2>1
  <2>3. PedidoDe(r) = Memo!Respuesta("escribir", p, n, TRUE, Basura)
    BY <1>9, <1>13
  <2> QED
    BY <1>10, <1>11, <1>12, <2>2, <2>3, SeVeConfirmar
<1>14. CASE res = FALSE
  <2>1. PedidoDe(hilo[h]) = Memo!Quieto
    BY <1>1, <1>5, <1>14, PedidoEs
  <2>2. PedidoDe(r) = Memo!Respuesta("escribir", p, n, FALSE, Basura)
    BY <1>9, <1>14
  <2>3. ~(n < Len(VePaginas[p]))
    <3>1. DePagina(p, n) = {}
      BY <1>2, <1>3, <1>5, <1>14
    <3>2. n \in Nat
      BY DEF Paginas
    <3> QED
      BY <3>1, <3>2, PaginaVista
  <2> QED
    BY <1>10, <1>11, <1>12, <2>1, <2>2, <2>3, SeVeNoEscribir
<1> QED
  BY <1>13, <1>14

\* A thread whose record changes without anything to see.
LEMMA HiloNoSeVe ==
  ASSUME IInvMemoria, NEW h \in Conexiones, NEW r, hilo' = [hilo EXCEPT ![h] = r],
         UNCHANGED <<tabla, bloque>>, PedidoDe(r) = PedidoDe(hilo[h]),
         hilo[h].paso # "asignar", r.paso # "asignar"
  PROVE  [Memo!NextPaginas]_(Memo!varsPaginas)
<1>1. VePedidos' = VePedidos
  BY PedidosSiguen
<1>2. \A q : EnCurso(q)' = EnCurso(q)
  <2>1. CASE h # Nucleo
    BY <2>1, CursoSigue
  <2>2. CASE h = Nucleo
    BY <2>2, CursoSigue
  <2> QED
    BY <2>1, <2>2
<1>3. VePaginas' = VePaginas
  BY <1>2, PaginasSiguen
<1> QED
  BY <1>1, <1>3, NoSeVe

LEMMA SeVeBuscar ==
  ASSUME CacheXProc = 0, IInvMemoria, IInvSinCache, NEW h \in Conexiones, NEW p \in Pids,
         NEW n \in Paginas, Pide(h), Buscar(h, p, n)
  PROVE  [Memo!NextPaginas]_(Memo!varsPaginas)
<1> DEFINE r == [paso |-> "contar", orden |-> "leer", sigue |-> "leerFrame", pid |-> p,
                 pagina |-> n, entrada |-> -1, valor |-> Basura, res |-> TRUE]
<1>1. hilo' = [hilo EXCEPT ![h] = r] /\ UNCHANGED <<tabla, bloque>>
  BY NadieUsaLaCache DEF Buscar, PasoDe
<1>2. r.paso = "contar" /\ r.orden = "leer"
  OBVIOUS
<1>3. hilo[h] = Libre /\ Libre.paso = "libre"
  BY DEF Pide, Libre
<1> HIDE DEF r
<1>4. PedidoDe(r) = Memo!Quieto /\ PedidoDe(Libre) = Memo!Quieto
  BY <1>2, <1>3, PedidoEs
<1> QED
  BY <1>1, <1>2, <1>3, <1>4, HiloNoSeVe

LEMMA SeVeContar ==
  ASSUME CacheXProc = 0, IInvMemoria, IInvSinCache, NEW h \in Conexiones, Contar(h)
  PROVE  [Memo!NextPaginas]_(Memo!varsPaginas)
<1> DEFINE r == [hilo[h] EXCEPT !.paso = "leerFrame"]
<1>1. /\ hilo[h] \in TipoPaso /\ hilo[h].paso = "contar" /\ UNCHANGED <<tabla, bloque>>
  BY EnHilo DEF Contar, Pasos
<1>2. hilo' = [hilo EXCEPT ![h] = r]
  BY NadieUsaLaCache DEF Contar, Sigue
<1>3. r.paso = "leerFrame" /\ r.orden = hilo[h].orden
  BY <1>1 DEF TipoPaso
<1> HIDE DEF r
<1>4. hilo[h].orden = "leer"
  BY <1>1 DEF IInvSinCache, SinUso
<1>5. PedidoDe(r) = Memo!Quieto /\ PedidoDe(hilo[h]) = Memo!Quieto
  BY <1>1, <1>3, <1>4, PedidoEs
<1> QED
  BY <1>1, <1>2, <1>3, <1>5, HiloNoSeVe

LEMMA SeVeResponder ==
  ASSUME IInvMemoria, NEW h \in Conexiones, Responder(h)
  PROVE  [Memo!NextPaginas]_(Memo!varsPaginas)
<1>1. /\ hilo[h].paso = "responde" /\ hilo' = [hilo EXCEPT ![h] = Libre]
      /\ UNCHANGED <<tabla, bloque>> /\ Libre.paso = "libre"
  BY DEF Responder, En, Libre
<1>2. PedidoDe(hilo[h]).estado = "responde"
  BY <1>1 DEF PedidoDe
<1>3. PedidoDe(Libre) = Memo!Quieto
  BY <1>1, PedidoEs
<1>4. VePedidos' = [VePedidos EXCEPT ![h] = PedidoDe(Libre)] /\ VePedidos[h] = PedidoDe(hilo[h])
  BY <1>1, PedidosSiguen
<1>5. VePaginas' = VePaginas
  BY <1>1, CursoSigue, PaginasSiguen
<1> QED
  BY <1>2, <1>3, <1>4, <1>5, SeVeRecibir

LEMMA SeVeBorrar ==
  ASSUME IInvMemoria, BorrarEnCache
  PROVE  [Memo!NextPaginas]_(Memo!varsPaginas)
<1>1. /\ hilo[Nucleo].paso = "borrarCache" /\ hilo' = [hilo EXCEPT ![Nucleo] = Libre]
      /\ UNCHANGED <<tabla, bloque>> /\ Libre.paso = "libre" /\ Nucleo \in Conexiones
  BY DEF BorrarEnCache, En, Libre, Conexiones
<1>2. PedidoDe(hilo[Nucleo]) = Memo!Quieto /\ PedidoDe(Libre) = Memo!Quieto
  BY <1>1, PedidoEs
<1> QED
  BY <1>1, <1>2, HiloNoSeVe

\* Every step of Memoria without cache is one of a memory of pages, or is not seen.
LEMMA PasoDePaginas ==
  ASSUME CacheXProc = 0, IInvMemoria, IInvSinCache, IInvMemoria', [Next]_vars
  PROVE  [Memo!NextPaginas]_(Memo!varsPaginas)
<1>1. Nucleo \in Conexiones
  BY DEF Conexiones
<1>2. CASE Marco
  BY <1>2, SeVeFin, SeVePedir, SeVeRonda, SeVeBorrar DEF Marco
<1>3. CASE Lectura
  <2>1. ASSUME NEW p \in Pids, NEW n \in Paginas,
               Consultar(p, n) \/ \E h \in Conexiones : Solicitar(h, p, n)
        PROVE  [Memo!NextPaginas]_(Memo!varsPaginas)
    BY <1>1, <2>1, SeVeBuscar DEF Consultar, Solicitar
  <2> QED
    BY <1>3, <2>1, NadieUsaLaCache, SeVeContar, SeVeLectura, SeVeResponder DEF Lectura
<1>4. CASE Escritura
  BY <1>4, NadieUsaLaCache, SeVeEscritura, SeVeVerCache DEF Escritura
<1>5. CASE VaciarEntradas \/ VaciarUsos \/ UNCHANGED vars
  <2>1. UNCHANGED <<tabla, bloque, hilo>>
    BY <1>5 DEF VaciarEntradas, VaciarUsos, vars
  <2>2. VePaginas' = VePaginas
    BY <2>1, PaginasSiguen DEF EnCurso
  <2>3. VePedidos' = VePedidos
    BY <2>1 DEF VePedidos, PedidoDe
  <2> QED
    BY <2>2, <2>3, NoSeVe
<1> QED
  BY <1>2, <1>3, <1>4, <1>5 DEF Next

\* As the repository ships it, with CACHE_X_PROC = 0 (Memoria/config), Memoria is a memory
\* of pages: a process finds in each page what was written in it last, requests are granted
\* whole or refused only when they do not fit, and nobody sees the pages of another, whatever
\* the frames, the processes, the connections and the operators.
THEOREM MemoriaImplementaPaginas ==
  ASSUME CacheXProc = 0
  PROVE  Spec => ImplementaPaginas
<1>1. Init => IInvSinCache
  <2> SUFFICES ASSUME Init PROVE IInvSinCache
    OBVIOUS
  <2>1. \A c \in Conexiones : hilo[c].paso = "libre"
    BY DEF Init, Libre
  <2>2. Nucleo \in Conexiones
    BY DEF Conexiones
  <2>3. SinUso /\ AsignaSolo
    BY <2>1, <2>2 DEF SinUso, AsignaSolo, Pasos
  <2>4. CacheVacia
    BY DEF Init, CacheVacia
  <2> QED
    BY <2>3, <2>4 DEF IInvSinCache
<1>2. Init => Memo!InitPaginas
  <2> SUFFICES ASSUME Init PROVE Memo!InitPaginas
    OBVIOUS
  <2>1. \A c \in Conexiones : hilo[c] = Libre /\ Libre.paso = "libre"
    BY DEF Init, Libre
  <2>2. PedidoDe(Libre) = Memo!Quieto
    BY PedidoEs DEF Libre
  <2>3. ASSUME NEW p \in Pids PROVE PaginasDe(p) = <<>>
    <3>1. DelProceso(p) = {}
      BY DEF Init, DelProceso, Frames
    <3>2. EnCurso(p) = 0
      BY <2>1 DEF EnCurso, Conexiones
    <3>3. Cardinality(DelProceso(p)) = 0
      BY <3>1, FS_EmptySet
    <3>4. PaginasDe(p) = [n \in 1..0 |-> Copia(p, n - 1)]
      BY <3>2, <3>3 DEF PaginasDe
    <3> QED
      BY <3>4
  <2> QED
    BY <2>1, <2>2, <2>3 DEF Memo!InitPaginas
<1>3. IInvMemoria /\ IInvSinCache /\ [Next]_vars => IInvSinCache'
  BY SinCacheInductivo
<1>4. IInvMemoria /\ IInvSinCache /\ IInvMemoria' /\ [Next]_vars
        => [Memo!NextPaginas]_(Memo!varsPaginas)
  BY PasoDePaginas
<1> QED
  BY <1>1, <1>2, <1>3, <1>4, InvarianteMemoria, PTL
     DEF Spec, ImplementaPaginas, Memo!SpecPaginas
=============================================================================
