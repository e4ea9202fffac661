---------------------- MODULE PropiedadesArchivos_proofs ----------------------
(***************************************************************************)
(* Proofs about the two layers that files go through, for every value of   *)
(* their constants: the tables of the Kernel, and the blocks of the        *)
(* FileSystem.  The layers meet in messages only, and so do the parts of   *)
(* this module: no proof of one uses a fact about the other.               *)
(***************************************************************************)
EXTENDS PropiedadesArchivos, PropiedadesSistema, LemasListas, FiniteSetTheorems

-----------------------------------------------------------------------------
(* THE FILE LAYER OF THE KERNEL                                            *)

Entradas == Seq(TipoEntrada)

LEMMA AlFinalTipo ==
  ASSUME NEW S, NEW s \in Seq(S), NEW i \in DOMAIN s
  PROVE  AlFinal(s, i) \in Seq(S) /\ Len(AlFinal(s, i)) = Len(s)
<1>1. i \in 1..Len(s) /\ s[i] \in S
  OBVIOUS
<1>2. RemoveAt(s, i) \in Seq(S) /\ Len(RemoveAt(s, i)) = Len(s) - 1
  BY <1>1, QuitarLugar
<1>3. AlFinal(s, i) = Append(RemoveAt(s, i), s[i])
  BY DEF AlFinal
<1>4. Len(s) \in Nat
  OBVIOUS
<1> HIDE DEF AlFinal
<1> QED
  BY <1>1, <1>2, <1>3, <1>4, AgregarAlFinal

\* An open descriptor has a place in its table.
LEMMA LugarEnTabla ==
  ASSUME TiposArchivos, NEW p \in Pids, NEW fd, ConFd(p, fd) # {}
  PROVE  Lugar(p, fd) \in DOMAIN tablas[p]
<1>1. ConFd(p, fd) \subseteq DOMAIN tablas[p] /\ DOMAIN tablas[p] \subseteq Nat
  BY DEF TiposArchivos, ConFd
<1>2. \E k \in ConFd(p, fd) : \A j \in ConFd(p, fd) : k <= j
  BY <1>1, MinimoDeNaturales
<1>3. Primera(ConFd(p, fd)) \in ConFd(p, fd)
  BY <1>2 DEF Primera
<1> QED
  BY <1>1, <1>3 DEF Lugar

\* A path with entries has a first and a last one.
LEMMA RutaEnTabla ==
  ASSUME TiposArchivos, NEW r, DeRuta(r) # {}
  PROVE  /\ Primera(DeRuta(r)) \in DOMAIN tablaGlobal
         /\ Ultima(DeRuta(r)) \in DOMAIN tablaGlobal
<1>1. DeRuta(r) \subseteq 1..Len(tablaGlobal) /\ DOMAIN tablaGlobal = 1..Len(tablaGlobal)
  BY DEF TiposArchivos, DeRuta
<1>2. Len(tablaGlobal) \in Nat /\ DeRuta(r) \subseteq Nat
  BY <1>1 DEF TiposArchivos
<1>3. Primera(DeRuta(r)) \in DeRuta(r)
  BY <1>2, MinimoDeNaturales DEF Primera
<1>4. Ultima(DeRuta(r)) \in DeRuta(r)
  BY <1>1, <1>2, MaximoDePosiciones DEF Ultima
<1> QED
  BY <1>1, <1>3, <1>4

\* Moving the indices up keeps every table as long as it was, with indices from 1.
LEMMA CorridosTipo ==
  ASSUME TiposArchivos, NEW g \in Nat \ {0}
  PROVE  /\ Corridos(g) \in [Pids -> Entradas]
         /\ \A p \in Pids : Len(Corridos(g)[p]) = Len(tablas[p])
<1> DEFINE fila(p) == [k \in DOMAIN tablas[p] |->
             [tablas[p][k] EXCEPT !.indice = IF @ > g THEN @ - 1 ELSE @]]
<1>1. ASSUME NEW p \in Pids PROVE fila(p) \in Entradas /\ Len(fila(p)) = Len(tablas[p])
  <2>1. tablas[p] \in Seq(TipoEntrada)
    BY DEF TiposArchivos
  <2>2. ASSUME NEW k \in DOMAIN tablas[p]
        PROVE  [tablas[p][k] EXCEPT !.indice = IF @ > g THEN @ - 1 ELSE @] \in TipoEntrada
    <3>1. tablas[p][k] \in TipoEntrada
      BY <2>1
    <3> QED
      BY <3>1 DEF TipoEntrada
  <2>3. fila(p) \in [DOMAIN tablas[p] -> TipoEntrada]
    BY <2>2
  <2> HIDE DEF fila
  <2>4. fila(p) \in Seq(TipoEntrada) /\ Len(fila(p)) = Len(tablas[p])
    BY <2>1, <2>3, PorLugares
  <2> QED
    BY <2>4 DEF Entradas
<1>2. Corridos(g) = [p \in Pids |-> fila(p)]
  BY DEF Corridos
<1> HIDE DEF fila
<1> QED
  BY <1>1, <1>2

\* Giving back an opening keeps the types and the length of every table.
LEMMA DisminuirTipo ==
  ASSUME TiposArchivos, NEW g \in Nat \ {0}, Disminuir(g)
  PROVE  /\ tablaGlobal' \in Seq(TipoGlobal)
         /\ tablas' \in [Pids -> Entradas]
         /\ \A p \in Pids : Len(tablas'[p]) = Len(tablas[p])
         /\ fallo' \in {"ninguno", "sinEntrada", "entradaNula"}
<1>1. tablaGlobal \in Seq(TipoGlobal) /\ tablas \in [Pids -> Entradas]
  BY DEF TiposArchivos, Entradas
<1>2. CASE g \notin DOMAIN tablaGlobal
  BY <1>1, <1>2 DEF Disminuir, Caer
<1>3. CASE g \in DOMAIN tablaGlobal /\ ~EsUltimo(g)
  <2> DEFINE e == [tablaGlobal[g] EXCEPT !.open = @ - 1]
  <2>1. tablaGlobal' = [tablaGlobal EXCEPT ![g] = e]
        /\ tablas' = tablas /\ fallo' = fallo
    BY <1>3 DEF Disminuir
  <2>2. e \in TipoGlobal
    <3>1. tablaGlobal[g] \in TipoGlobal
      BY <1>1, <1>3
    <3> QED
      BY <3>1 DEF TipoGlobal
  <2> HIDE DEF e
  <2>3. tablaGlobal' \in Seq(TipoGlobal)
    BY <1>1, <1>3, <2>1, <2>2, CambiarLugar
  <2> QED
    BY <1>1, <2>1, <2>3 DEF TiposArchivos
<1>4. CASE g \in DOMAIN tablaGlobal /\ EsUltimo(g)
  <2>1. tablaGlobal' = RemoveAt(tablaGlobal, g) /\ fallo' = fallo
        /\ tablas' \in {Corridos(g), tablas}
    BY <1>4 DEF Disminuir
  <2>2. RemoveAt(tablaGlobal, g) \in Seq(TipoGlobal)
    BY <1>1, <1>4, QuitarLugar
  <2> QED
    BY <1>1, <2>1, <2>2, CorridosTipo DEF TiposArchivos
<1> QED
  BY <1>2, <1>3, <1>4

-----------------------------------------------------------------------------
(* The steps                                                               *)

LEMMA Inicio == Init => IInvArchivos
BY ArchivosAssumption DEF Init, IInvArchivos, TiposArchivos, RecorridoEnTabla, PedidoDeVivo,
   TipoPedido, Libre, ArchivosAssumption

Fallos == {"ninguno", "sinEntrada", "entradaNula"}

\* A step of the main thread that leaves the tables of the processes and the walks.
LEMMA SinTablas ==
  ASSUME IInvArchivos, tablas' = tablas, fin' = fin, estado' = estado,
         tablaGlobal' \in Seq(TipoGlobal), pedido' \in TipoPedido,
         pedido' # Libre => pedido # Libre /\ pedido'.pid = pedido.pid,
         existentes' \in SUBSET Rutas, fallo' \in Fallos
  PROVE  IInvArchivos'
BY DEF IInvArchivos, TiposArchivos, RecorridoEnTabla, PedidoDeVivo, Fallos

\* A step of a living process on its own table leaves the walks of the others.
LEMMA PasoPropio ==
  ASSUME IInvArchivos, NEW p \in Pids, estado[p] = "vivo",
         tablas' \in [Pids -> Entradas], \A q \in Pids \ {p} : tablas'[q] = tablas[q],
         estado' = estado \/ Excepcion(p), fin' = fin, tablaGlobal' = tablaGlobal,
         pedido' \in TipoPedido,
         pedido' # Libre => pedido'.pid = p /\ estado' = estado,
         existentes' \in SUBSET Rutas, fallo' \in Fallos
  PROVE  IInvArchivos'
<1> USE DEF IInvArchivos
<1>1. estado' \in [Pids -> {"nuevo", "vivo", "terminando", "terminado"}]
  BY DEF Excepcion, TiposArchivos
<1>2. TiposArchivos'
  BY <1>1 DEF TiposArchivos, Entradas, Fallos
<1>3. ASSUME NEW q \in Pids
      PROVE /\ fin'[q].i \in 1..(fin'[q].cont + 1)
            /\ estado'[q] \in {"nuevo", "vivo"} => fin'[q].cont = 0
            /\ estado'[q] = "terminando" => fin'[q].cont <= Len(tablas'[q])
  <2>1. CASE q = p
    <3>1. fin'[p].cont = 0 /\ fin'[p].i \in 1..(fin'[p].cont + 1)
      BY DEF RecorridoEnTabla
    <3>2. Len(tablas'[p]) \in Nat
      BY DEF Entradas
    <3> QED
      BY <2>1, <3>1, <3>2
  <2>2. CASE q # p
    <3>1. estado'[q] = estado[q] /\ tablas'[q] = tablas[q]
      BY <2>2 DEF Excepcion, TiposArchivos
    <3> QED
      BY <3>1 DEF RecorridoEnTabla
  <2> QED
    BY <2>1, <2>2
<1>4. PedidoDeVivo'
  BY DEF PedidoDeVivo
<1> QED
  BY <1>2, <1>3, <1>4 DEF RecorridoEnTabla

\* Looking at an entry keeps the table.
LEMMA VistoTipo ==
  ASSUME TiposArchivos, NEW p \in Pids, NEW i \in DOMAIN tablas[p]
  PROVE  /\ Visto(p, i) \in [Pids -> Entradas]
         /\ \A q \in Pids \ {p} : Visto(p, i)[q] = tablas[q]
<1>1. tablas \in [Pids -> Entradas] /\ tablas[p] \in Seq(TipoEntrada)
  BY DEF TiposArchivos, Entradas
<1>2. AlFinal(tablas[p], i) \in Entradas
  BY <1>1, AlFinalTipo DEF Entradas
<1> QED
  BY <1>1, <1>2 DEF Visto

\* Setting the cursor too.
LEMMA MovidoTipo ==
  ASSUME TiposArchivos, NEW p \in Pids, NEW i \in DOMAIN tablas[p], NEW pos \in Posiciones
  PROVE  /\ Movido(p, i, pos) \in [Pids -> Entradas]
         /\ \A q \in Pids \ {p} : Movido(p, i, pos)[q] = tablas[q]
<1> DEFINE e == [tablas[p][i] EXCEPT !.puntero = pos]
           s == [tablas[p] EXCEPT ![i] = e]
<1>1. tablas \in [Pids -> Entradas] /\ tablas[p] \in Seq(TipoEntrada)
  BY DEF TiposArchivos, Entradas
<1>2. e \in TipoEntrada
  <2>1. tablas[p][i] \in TipoEntrada /\ pos \in Nat
    BY <1>1, ArchivosAssumption DEF ArchivosAssumption
  <2> QED
    BY <2>1 DEF TipoEntrada
<1>3. Movido(p, i, pos) = [tablas EXCEPT ![p] = AlFinal(s, i)]
  BY DEF Movido
<1> HIDE DEF e
<1>4. s \in Seq(TipoEntrada) /\ Len(s) = Len(tablas[p])
  BY <1>1, <1>2, CambiarLugar
<1>5. i \in DOMAIN s
  BY <1>1, <1>4
<1> HIDE DEF s
<1>6. AlFinal(s, i) \in Entradas
  BY <1>4, <1>5, AlFinalTipo DEF Entradas
<1> QED
  BY <1>1, <1>3, <1>6

\* Facts about the types of the state that the steps below start from.
LEMMA Tipados ==
  ASSUME IInvArchivos
  PROVE  /\ tablaGlobal \in Seq(TipoGlobal) /\ tablas \in [Pids -> Entradas]
         /\ estado \in [Pids -> {"nuevo", "vivo", "terminando", "terminado"}]
         /\ fin \in [Pids -> [i : Nat, cont : Nat]]
         /\ pedido \in TipoPedido /\ existentes \in SUBSET Rutas /\ fallo \in Fallos
BY DEF IInvArchivos, TiposArchivos, Entradas, Fallos

LEMMA PasoPedirAbrir ==
  ASSUME IInvArchivos, NEW p \in Pids, NEW r \in Rutas, NEW flags \in Banderas,
         PedirAbrir(p, r, flags)
  PROVE  IInvArchivos'
<1>1. estado[p] = "vivo" /\ tablas' = tablas /\ fin' = fin /\ tablaGlobal' = tablaGlobal
      /\ fallo' = fallo
  BY DEF PedirAbrir, Pide
<1>2. existentes' \in SUBSET Rutas
  BY Tipados DEF PedirAbrir
<1>3. \/ Excepcion(p) /\ pedido' = pedido
      \/ /\ estado' = estado
         /\ \E paso \in {"agregar", "buscar"} : PasoAbrir(paso, p, r, flags)
  BY DEF PedirAbrir
<1>4. pedido' \in TipoPedido /\ (pedido' # Libre => pedido'.pid = p /\ estado' = estado)
  <2>1. CASE Excepcion(p) /\ pedido' = pedido
    <3>1. pedido = Libre
      BY DEF PedirAbrir, Pide
    <3> QED
      BY <2>1, <3>1 DEF TipoPedido
  <2>2. CASE estado' = estado /\ \E paso \in {"agregar", "buscar"} : PasoAbrir(paso, p, r, flags)
    BY <2>2 DEF PasoAbrir, TipoPedido
  <2> QED
    BY <1>3, <2>1, <2>2
<1> QED
  BY <1>1, <1>2, <1>3, <1>4, PasoPropio, Tipados

\* What a request in progress carries, by its step.
LEMMA Carga ==
  ASSUME IInvArchivos
  PROVE  /\ pedido.paso \in {"agregar", "buscar", "aumentar", "registrar"} =>
              pedido \in [paso : {"agregar", "buscar", "aumentar", "registrar"}, pid : Pids,
                          ruta : Rutas, flags : Banderas, indice : Nat]
         /\ pedido.paso \in {"aumentar", "registrar", "disminuir", "verificar", "borrar"} =>
              pedido.indice \in Nat \ {0}
         /\ pedido.paso \in {"disminuir", "verificar", "borrar"} =>
              pedido \in [paso : {"disminuir", "verificar", "borrar"}, pid : Pids,
                          ruta : Rutas, indice : Nat \ {0}]
         /\ pedido.paso # "libre" => pedido # Libre /\ pedido.pid \in Pids
BY DEF IInvArchivos, TiposArchivos, TipoPedido, Libre

LEMMA PasoAgregar ==
  ASSUME IInvArchivos, Agregar
  PROVE  IInvArchivos'
<1>1. /\ pedido.paso = "agregar"
      /\ tablaGlobal' = Append(tablaGlobal, [ruta |-> pedido.ruta, open |-> 0])
      /\ pedido' = [pedido EXCEPT !.paso = "aumentar", !.indice = Len(tablaGlobal) + 1]
  BY DEF Agregar
<1>2. pedido.ruta \in Rutas /\ pedido # Libre
  BY <1>1, Carga
<1>3. tablaGlobal' \in Seq(TipoGlobal)
  <2>1. [ruta |-> pedido.ruta, open |-> 0] \in TipoGlobal
    BY <1>2 DEF TipoGlobal
  <2> QED
    BY <1>1, <2>1, Tipados, AgregarAlFinal
<1>4. pedido' \in TipoPedido /\ pedido'.pid = pedido.pid
  <2>1. Len(tablaGlobal) + 1 \in Nat \ {0}
    BY Tipados
  <2> QED
    BY <1>1, <2>1, Carga DEF TipoPedido
<1> QED
  BY <1>2, <1>3, <1>4, SinTablas, Tipados DEF Agregar

LEMMA PasoBuscar ==
  ASSUME IInvArchivos, BuscarIndice
  PROVE  IInvArchivos'
<1> DEFINE n == IF DeRuta(pedido.ruta) = {} THEN 1 ELSE Ultima(DeRuta(pedido.ruta))
<1>1. pedido.paso = "buscar" /\ pedido' = [pedido EXCEPT !.paso = "aumentar", !.indice = n]
  BY DEF BuscarIndice
<1>2. n \in Nat \ {0}
  <2>1. CASE DeRuta(pedido.ruta) # {}
    <3>1. Ultima(DeRuta(pedido.ruta)) \in DOMAIN tablaGlobal
      BY <2>1, RutaEnTabla DEF IInvArchivos
    <3>2. DOMAIN tablaGlobal \subseteq Nat \ {0}
      BY Tipados
    <3> QED
      BY <2>1, <3>1, <3>2
  <2> QED
    BY <2>1
<1> HIDE DEF n
<1>3. pedido' \in TipoPedido /\ pedido'.pid = pedido.pid /\ pedido # Libre
  BY <1>1, <1>2, Carga DEF TipoPedido
<1> QED
  BY <1>3, SinTablas, Tipados DEF BuscarIndice

LEMMA PasoAumentar ==
  ASSUME IInvArchivos, AumentarOpen
  PROVE  IInvArchivos'
<1>1. pedido.paso = "aumentar" /\ pedido # Libre
  BY Carga DEF AumentarOpen
<1>2. CASE DeRuta(pedido.ruta) = {}
  BY <1>1, <1>2, SinTablas, Tipados DEF AumentarOpen, Caer, Fallos
<1>3. CASE DeRuta(pedido.ruta) # {}
  <2> DEFINE i == Primera(DeRuta(pedido.ruta))
             e == [tablaGlobal[i] EXCEPT !.open = @ + 1]
             s == [tablaGlobal EXCEPT ![i] = e]
  <2>1. i \in DOMAIN tablaGlobal
    BY <1>3, RutaEnTabla DEF IInvArchivos
  <2>2. e \in TipoGlobal
    <3>1. tablaGlobal[i] \in TipoGlobal
      BY <2>1, Tipados
    <3> QED
      BY <3>1 DEF TipoGlobal
  <2>3. tablaGlobal' = AlFinal(s, i) /\ pedido' = [pedido EXCEPT !.paso = "registrar"]
    BY <1>3 DEF AumentarOpen, Contada
  <2> HIDE DEF i, e
  <2>4. s \in Seq(TipoGlobal) /\ Len(s) = Len(tablaGlobal)
    BY <2>1, <2>2, Tipados, CambiarLugar
  <2>5. i \in DOMAIN s
    BY <2>1, <2>4, Tipados
  <2> HIDE DEF s
  <2>6. tablaGlobal' \in Seq(TipoGlobal)
    BY <2>3, <2>4, <2>5, AlFinalTipo
  <2>7. pedido' \in TipoPedido /\ pedido'.pid = pedido.pid
    BY <1>1, <2>3, Carga DEF TipoPedido
  <2> QED
    BY <1>1, <1>3, <2>6, <2>7, SinTablas, Tipados DEF AumentarOpen
<1> QED
  BY <1>2, <1>3

LEMMA PasoRegistrar ==
  ASSUME IInvArchivos, ActualizarTabla
  PROVE  IInvArchivos'
<1> DEFINE p == pedido.pid
           e == [fd |-> NuevoFd(p), flags |-> pedido.flags, indice |-> pedido.indice,
                 puntero |-> 0, archivo |-> pedido.ruta]
<1>1. /\ pedido.paso = "registrar" /\ pedido' = Libre
      /\ tablas' = [tablas EXCEPT ![p] = Append(tablas[p], e)]
  BY DEF ActualizarTabla
<1>2. p \in Pids /\ estado[p] = "vivo" /\ tablas[p] \in Seq(TipoEntrada)
  BY <1>1, Carga, Tipados DEF IInvArchivos, PedidoDeVivo, Entradas
<1>3. e \in TipoEntrada
  <2>1. NuevoFd(p) \in Nat
    BY <1>2 DEF NuevoFd
  <2> QED
    BY <1>1, <2>1, Carga DEF TipoEntrada
<1> HIDE DEF e
<1>4. Append(tablas[p], e) \in Entradas
  BY <1>2, <1>3, AgregarAlFinal DEF Entradas
<1>5. tablas' \in [Pids -> Entradas] /\ \A q \in Pids \ {p} : tablas'[q] = tablas[q]
  BY <1>1, <1>4, Tipados
<1>6. pedido' \in TipoPedido
  BY <1>1 DEF TipoPedido
<1>7. estado' = estado /\ fin' = fin /\ tablaGlobal' = tablaGlobal
      /\ existentes' = existentes /\ fallo' = fallo
  BY DEF ActualizarTabla
<1> HIDE DEF p
<1> QED
  BY <1>1, <1>2, <1>5, <1>6, <1>7, PasoPropio, Tipados

\* A descriptor that is not open ends the process and changes nothing else.
LEMMA PasoNoAbierto ==
  ASSUME IInvArchivos, NEW p \in Pids, NEW fd, estado[p] = "vivo", pedido = Libre,
         NoAbierto(p, fd), fin' = fin, tablaGlobal' = tablaGlobal,
         existentes' = existentes, fallo' \in Fallos
  PROVE  IInvArchivos'
<1>1. Excepcion(p) /\ tablas' = tablas /\ pedido' = Libre
  BY DEF NoAbierto
<1> QED
  BY <1>1, PasoPropio, Tipados DEF TipoPedido

\* The index of an open descriptor is a position.
LEMMA IndiceDeLugar ==
  ASSUME IInvArchivos, NEW p \in Pids, NEW i \in DOMAIN tablas[p]
  PROVE  tablas[p][i].indice \in Nat \ {0} /\ tablas[p][i].archivo \in Rutas
<1>1. tablas[p] \in Seq(TipoEntrada)
  BY Tipados DEF Entradas
<1>2. tablas[p][i] \in TipoEntrada
  BY <1>1
<1> QED
  BY <1>2 DEF TipoEntrada

LEMMA PasoCerrar ==
  ASSUME IInvArchivos, NEW p \in Pids, NEW fd, Cerrar(p, fd)
  PROVE  IInvArchivos'
<1>1. estado[p] = "vivo" /\ pedido = Libre /\ fin' = fin /\ tablaGlobal' = tablaGlobal
      /\ existentes' = existentes /\ fallo' = fallo
  BY DEF Cerrar, Pide
<1>2. CASE NoAbierto(p, fd)
  BY <1>1, <1>2, PasoNoAbierto, Tipados
<1>3. CASE ConFd(p, fd) # {}
  <2> DEFINE i == Lugar(p, fd)
  <2>1. i \in DOMAIN tablas[p]
    BY <1>3, LugarEnTabla DEF IInvArchivos
  <2>2. /\ pedido' = [paso |-> "disminuir", pid |-> p, ruta |-> tablas[p][i].archivo,
                     indice |-> tablas[p][i].indice]
        /\ tablas' = [tablas EXCEPT ![p] = RemoveAt(tablas[p], i)]
        /\ estado' = estado
    BY <1>3 DEF Cerrar, NoAbierto, PasoIndice
  <2> HIDE DEF i
  <2>3. tablas[p] \in Seq(TipoEntrada)
    BY Tipados DEF Entradas
  <2>4. RemoveAt(tablas[p], i) \in Entradas
    BY <2>1, <2>3, QuitarLugar DEF Entradas
  <2>5. tablas' \in [Pids -> Entradas] /\ \A q \in Pids \ {p} : tablas'[q] = tablas[q]
    BY <2>2, <2>4, Tipados
  <2>6. pedido' \in TipoPedido /\ pedido'.pid = p
    BY <2>1, <2>2, IndiceDeLugar DEF TipoPedido
  <2> QED
    BY <1>1, <2>2, <2>5, <2>6, PasoPropio, Tipados
<1> QED
  BY <1>2, <1>3 DEF Cerrar

LEMMA PasoPedirBorrar ==
  ASSUME IInvArchivos, NEW p \in Pids, NEW fd, PedirBorrar(p, fd)
  PROVE  IInvArchivos'
<1>1. estado[p] = "vivo" /\ pedido = Libre /\ fin' = fin /\ tablaGlobal' = tablaGlobal
      /\ existentes' = existentes /\ fallo' = fallo
  BY DEF PedirBorrar, Pide
<1>2. CASE NoAbierto(p, fd)
  BY <1>1, <1>2, PasoNoAbierto, Tipados
<1>3. CASE ConFd(p, fd) # {}
  <2> DEFINE i == Lugar(p, fd)
  <2>1. i \in DOMAIN tablas[p]
    BY <1>3, LugarEnTabla DEF IInvArchivos
  <2>2. /\ pedido' = [paso |-> "verificar", pid |-> p, ruta |-> tablas[p][i].archivo,
                     indice |-> tablas[p][i].indice]
        /\ tablas' = Visto(p, i) /\ estado' = estado
    BY <1>3 DEF PedirBorrar, NoAbierto, PasoIndice
  <2> HIDE DEF i
  <2>3. tablas' \in [Pids -> Entradas] /\ \A q \in Pids \ {p} : tablas'[q] = tablas[q]
    BY <2>1, <2>2, VistoTipo DEF IInvArchivos
  <2>4. pedido' \in TipoPedido /\ pedido'.pid = p
    BY <2>1, <2>2, IndiceDeLugar DEF TipoPedido
  <2> QED
    BY <1>1, <2>2, <2>3, <2>4, PasoPropio, Tipados
<1> QED
  BY <1>2, <1>3 DEF PedirBorrar

\* The two steps of a deletion may end the process that asks for it.
LEMMA PasoBorrar ==
  ASSUME IInvArchivos, VerificarBorrable \/ Borrar
  PROVE  IInvArchivos'
<1> DEFINE p == pedido.pid
<1>1. pedido.paso \in {"verificar", "borrar"}
  BY DEF VerificarBorrable, Borrar
<1>2. p \in Pids /\ estado[p] = "vivo" /\ pedido # Libre
  BY <1>1, Carga DEF IInvArchivos, PedidoDeVivo
<1>3. tablas' = tablas /\ fin' = fin /\ tablaGlobal' = tablaGlobal
  BY DEF VerificarBorrable, Borrar
<1>4. existentes' \in SUBSET Rutas /\ fallo' \in Fallos
  BY Tipados DEF VerificarBorrable, Borrar, Caer, Fallos
<1>5. \/ pedido' = Libre /\ (Excepcion(p) \/ estado' = estado)
      \/ pedido' \in {pedido, [pedido EXCEPT !.paso = "borrar"]} /\ estado' = estado
  BY DEF VerificarBorrable, Borrar
<1>6. pedido' \in TipoPedido /\ (pedido' # Libre => pedido'.pid = p /\ estado' = estado)
  BY <1>1, <1>5, Carga, Tipados DEF TipoPedido
<1>7. estado' = estado \/ Excepcion(p)
  BY <1>5
<1> HIDE DEF p
<1> QED
  BY <1>2, <1>3, <1>4, <1>6, <1>7, PasoPropio, Tipados

LEMMA PasoAcceder ==
  ASSUME IInvArchivos, NEW p \in Pids, NEW fd, Leer(p, fd) \/ Escribir(p, fd)
  PROVE  IInvArchivos'
<1>1. estado[p] = "vivo" /\ pedido = Libre /\ pedido' = pedido /\ fin' = fin
      /\ tablaGlobal' = tablaGlobal /\ existentes' = existentes
  BY DEF Leer, Escribir, Pide
<1>2. CASE NoAbierto(p, fd) /\ (fallo' = fallo \/ Caer("entradaNula"))
  <2>1. fallo' \in Fallos
    BY <1>2, Tipados DEF Caer, Fallos
  <2> QED
    BY <1>1, <1>2, <2>1, PasoNoAbierto
<1>3. ASSUME NEW permiso, NEW siempre, ConFd(p, fd) # {},
             Acceder(p, Lugar(p, fd), permiso, siempre)
      PROVE  IInvArchivos'
  <2> DEFINE i == Lugar(p, fd)
  <2>1. i \in DOMAIN tablas[p]
    BY <1>3, LugarEnTabla DEF IInvArchivos
  <2>2. tablas' = Visto(p, i) /\ (Excepcion(p) \/ estado' = estado) /\ fallo' \in Fallos
    BY <1>3, Tipados DEF Acceder, Caer, Fallos
  <2> HIDE DEF i
  <2>3. tablas' \in [Pids -> Entradas] /\ \A q \in Pids \ {p} : tablas'[q] = tablas[q]
    BY <2>1, <2>2, VistoTipo DEF IInvArchivos
  <2> QED
    BY <1>1, <2>2, <2>3, PasoPropio, Tipados
<1> QED
  BY <1>2, <1>3 DEF Leer, Escribir

LEMMA PasoMover ==
  ASSUME IInvArchivos, NEW p \in Pids, NEW fd, NEW pos \in Posiciones, MoverCursor(p, fd, pos)
  PROVE  IInvArchivos'
<1>1. estado[p] = "vivo" /\ pedido = Libre /\ pedido' = pedido /\ fin' = fin
      /\ tablaGlobal' = tablaGlobal /\ existentes' = existentes /\ fallo' = fallo
  BY DEF MoverCursor, Pide, NoAbierto
<1>2. CASE NoAbierto(p, fd)
  BY <1>1, <1>2, PasoNoAbierto, Tipados
<1>3. CASE ConFd(p, fd) # {}
  <2> DEFINE i == Lugar(p, fd)
  <2>1. i \in DOMAIN tablas[p]
    BY <1>3, LugarEnTabla DEF IInvArchivos
  <2>2. tablas' = Movido(p, i, pos) /\ estado' = estado
    BY <1>3 DEF MoverCursor, NoAbierto
  <2> HIDE DEF i
  <2>3. tablas' \in [Pids -> Entradas] /\ \A q \in Pids \ {p} : tablas'[q] = tablas[q]
    BY <2>1, <2>2, MovidoTipo DEF IInvArchivos
  <2> QED
    BY <1>1, <2>2, <2>3, PasoPropio, Tipados
<1> QED
  BY <1>2, <1>3 DEF MoverCursor

LEMMA PasoCerrarGlobal ==
  ASSUME IInvArchivos, CerrarGlobal
  PROVE  IInvArchivos'
<1>1. Disminuir(pedido.indice) /\ pedido' = Libre /\ estado' = estado /\ fin' = fin
      /\ existentes' = existentes
  BY DEF CerrarGlobal
<1>2. pedido.indice \in Nat \ {0}
  BY Carga DEF CerrarGlobal
<1>3. /\ tablaGlobal' \in Seq(TipoGlobal) /\ tablas' \in [Pids -> Entradas]
      /\ \A p \in Pids : Len(tablas'[p]) = Len(tablas[p])
      /\ fallo' \in Fallos
  BY <1>1, <1>2, DisminuirTipo DEF IInvArchivos, Fallos
<1>4. TiposArchivos'
  BY <1>1, <1>3, Tipados DEF TiposArchivos, TipoPedido, Entradas, Fallos
<1>5. RecorridoEnTabla'
  BY <1>1, <1>3 DEF IInvArchivos, RecorridoEnTabla
<1> QED
  BY <1>1, <1>4, <1>5 DEF IInvArchivos, PedidoDeVivo

-----------------------------------------------------------------------------
(* Beginning and end of a process                                          *)

LEMMA PasoInicializar ==
  ASSUME IInvArchivos, NEW p \in Pids, InicializarTabla(p)
  PROVE  IInvArchivos'
<1>1. estado[p] = "nuevo" /\ estado' = [estado EXCEPT ![p] = "vivo"]
      /\ UNCHANGED <<tablaGlobal, tablas, fin, pedido, existentes, fallo>>
  BY DEF InicializarTabla
<1> QED
  BY <1>1 DEF IInvArchivos, TiposArchivos, RecorridoEnTabla, PedidoDeVivo

LEMMA PasoSalir ==
  ASSUME IInvArchivos, NEW p \in Pids, Salir(p)
  PROVE  IInvArchivos'
<1>1. estado[p] = "vivo" /\ estado' = [estado EXCEPT ![p] = "terminando"] /\ ~EnPedido(p)
      /\ UNCHANGED <<tablaGlobal, tablas, fin, pedido, existentes, fallo>>
  BY DEF Salir, Excepcion
<1>2. fin[p].cont = 0 /\ Len(tablas[p]) \in Nat
  BY <1>1, Tipados DEF IInvArchivos, RecorridoEnTabla, Entradas
<1>3. TiposArchivos'
  BY <1>1 DEF IInvArchivos, TiposArchivos
<1>4. RecorridoEnTabla'
  BY <1>1, <1>2 DEF IInvArchivos, TiposArchivos, RecorridoEnTabla
<1>5. PedidoDeVivo'
  BY <1>1 DEF IInvArchivos, TiposArchivos, PedidoDeVivo, EnPedido
<1> QED
  BY <1>3, <1>4, <1>5 DEF IInvArchivos

\* A round of the walk: the place it looks at is in the table, and the next one
\* still is, or the table is walked.
LEMMA PasoDestruirEntrada ==
  ASSUME IInvArchivos, NEW p \in Pids, DestruirEntrada(p)
  PROVE  IInvArchivos'
<1> DEFINE g == tablas[p][fin[p].i].indice
<1>1. /\ estado[p] = "terminando" /\ fin[p].cont < Len(tablas[p]) /\ Disminuir(g)
      /\ fin' = IF g \in DOMAIN tablaGlobal THEN [fin EXCEPT ![p] = Avance(fin[p], g)] ELSE fin
      /\ estado' = estado /\ pedido' = pedido /\ existentes' = existentes
  BY DEF DestruirEntrada
<1>2. fin[p] \in [i : Nat, cont : Nat] /\ fin[p].i \in 1..(fin[p].cont + 1)
  BY Tipados DEF IInvArchivos, RecorridoEnTabla
<1>3. tablas[p] \in Seq(TipoEntrada)
  BY Tipados DEF Entradas
<1>4. fin[p].i \in DOMAIN tablas[p]
  BY <1>1, <1>2, <1>3
<1>5. g \in Nat \ {0}
  BY <1>4, IndiceDeLugar
<1> HIDE DEF g
<1>6. /\ tablaGlobal' \in Seq(TipoGlobal) /\ tablas' \in [Pids -> Entradas]
      /\ \A q \in Pids : Len(tablas'[q]) = Len(tablas[q])
      /\ fallo' \in Fallos
  BY <1>1, <1>5, DisminuirTipo DEF IInvArchivos, Fallos
<1>7. /\ fin' \in [Pids -> [i : Nat, cont : Nat]]
      /\ \A q \in Pids \ {p} : fin'[q] = fin[q]
      /\ fin'[p].i \in 1..(fin'[p].cont + 1)
      /\ fin'[p].cont <= Len(tablas[p])
  <2>1. Avance(fin[p], g) \in [i : Nat, cont : Nat]
        /\ Avance(fin[p], g).i \in 1..(Avance(fin[p], g).cont + 1)
        /\ Avance(fin[p], g).cont = fin[p].cont + 1
    BY <1>2 DEF Avance
  <2>2. Len(tablas[p]) \in Nat
    BY <1>3
  <2> HIDE DEF Avance
  <2>3. CASE g \in DOMAIN tablaGlobal
    BY <1>1, <1>2, <2>1, <2>2, <2>3, Tipados
  <2>4. CASE g \notin DOMAIN tablaGlobal
    BY <1>1, <1>2, <2>2, <2>4, Tipados
  <2> QED
    BY <2>3, <2>4
<1>8. TiposArchivos'
  BY <1>1, <1>6, <1>7, Tipados DEF TiposArchivos, Entradas, Fallos
<1>9. RecorridoEnTabla'
  BY <1>1, <1>6, <1>7 DEF IInvArchivos, RecorridoEnTabla
<1> QED
  BY <1>1, <1>8, <1>9 DEF IInvArchivos, PedidoDeVivo

LEMMA PasoDestruirTabla ==
  ASSUME IInvArchivos, NEW p \in Pids, DestruirTabla(p)
  PROVE  IInvArchivos'
<1>1. /\ estado[p] = "terminando" /\ estado' = [estado EXCEPT ![p] = "terminado"]
      /\ tablas' = [tablas EXCEPT ![p] = <<>>]
      /\ UNCHANGED <<tablaGlobal, fin, pedido, existentes, fallo>>
  BY DEF DestruirTabla
<1>2. TiposArchivos'
  BY <1>1 DEF IInvArchivos, TiposArchivos
<1>3. RecorridoEnTabla'
  BY <1>1 DEF IInvArchivos, TiposArchivos, RecorridoEnTabla
<1>4. PedidoDeVivo'
  BY <1>1 DEF IInvArchivos, TiposArchivos, PedidoDeVivo
<1> QED
  BY <1>2, <1>3, <1>4 DEF IInvArchivos

LEMMA Inductivo == IInvArchivos /\ [Next]_vars => IInvArchivos'
<1> SUFFICES ASSUME IInvArchivos, [Next]_vars PROVE IInvArchivos'
  OBVIOUS
<1>1. CASE Pedido
  BY <1>1, PasoPedirAbrir, PasoCerrar, PasoPedirBorrar, PasoAcceder, PasoMover DEF Pedido
<1>2. CASE Sigue
  BY <1>2, PasoAgregar, PasoBuscar, PasoAumentar, PasoRegistrar, PasoCerrarGlobal, PasoBorrar
     DEF Sigue
<1>3. CASE Vida
  BY <1>3, PasoInicializar, PasoSalir, PasoDestruirEntrada, PasoDestruirTabla DEF Vida
<1>4. CASE UNCHANGED vars
  BY <1>4 DEF vars, IInvArchivos, TiposArchivos, RecorridoEnTabla, PedidoDeVivo
<1> QED
  BY <1>1, <1>2, <1>3, <1>4 DEF Next

-----------------------------------------------------------------------------
(* The theorems                                                            *)

\* For any processes, paths, flags and numbers of descriptors, and with ends of
\* processes in the middle of the requests of others, the inductive invariant of
\* the file layer holds.
THEOREM InvarianteArchivos == Spec => []IInvArchivos
<1> QED
  BY Inicio, Inductivo, PTL DEF Spec

\* The walk of destruirTablaArchivosYActualizarTablaGlobal over the table of a
\* process never passes its end: list_get on tablaProceso does not give NULL.
THEOREM RecorridoSeguro == Spec => []RecorridoEnTabla
<1>1. IInvArchivos => RecorridoEnTabla
  BY DEF IInvArchivos
<1> QED
  BY <1>1, InvarianteArchivos, PTL

-----------------------------------------------------------------------------
(* The openings that are counted                                           *)

Aperturas(t) == SumFunction([i \in DOMAIN t |-> t[i].open])
Deudas == SumFunction([p \in Pids |-> Deben(p)])

\* The sum as one over positions, which are finitely many.
LEMMA AperturasPorLugar ==
  ASSUME NEW t \in Seq(TipoGlobal)
  PROVE  /\ DOMAIN t = 1..Len(t) /\ Len(t) \in Nat /\ IsFiniteSet(1..Len(t))
         /\ \A i \in 1..Len(t) : t[i] \in TipoGlobal /\ t[i].open \in Int
         /\ Aperturas(t) = SumFunctionOnSet([i \in 1..Len(t) |-> t[i].open], 1..Len(t))
<1>1. DOMAIN t = 1..Len(t) /\ Len(t) \in Nat /\ \A i \in 1..Len(t) : t[i] \in TipoGlobal
  OBVIOUS
<1>2. IsFiniteSet(1..Len(t))
  <2>1. 1 \in Int /\ Len(t) \in Int
    BY <1>1
  <2> QED
    BY <2>1, FS_Interval
<1>3. Aperturas(t) = SumFunctionOnSet([i \in 1..Len(t) |-> t[i].open],
                                      DOMAIN [i \in 1..Len(t) |-> t[i].open])
  BY <1>1 DEF Aperturas, SumFunction
<1>4. DOMAIN [i \in 1..Len(t) |-> t[i].open] = 1..Len(t)
  OBVIOUS
<1>5. \A i \in 1..Len(t) : t[i].open \in Int
  BY <1>1 DEF TipoGlobal
<1> QED
  BY <1>1, <1>2, <1>3, <1>4, <1>5

LEMMA AperturasTipo ==
  ASSUME NEW t \in Seq(TipoGlobal)
  PROVE  Aperturas(t) \in Int
<1> DEFINE f == [i \in 1..Len(t) |-> t[i].open]
<1>1. \A i \in 1..Len(t) : f[i] \in Int
  BY AperturasPorLugar
<1> HIDE DEF f
<1>2. SumFunctionOnSet(f, 1..Len(t)) \in Int
  BY <1>1, AperturasPorLugar, SumaEntera
<1> QED
  BY <1>2, AperturasPorLugar DEF f

\* A new entry brings its openings ...
LEMMA AperturasMas ==
  ASSUME NEW t \in Seq(TipoGlobal), NEW e \in TipoGlobal
  PROVE  Append(t, e) \in Seq(TipoGlobal) /\ Aperturas(Append(t, e)) = Aperturas(t) + e.open
<1> DEFINE n == Len(t)
           u == Append(t, e)
           f == [i \in 1..n |-> t[i].open]
           g == [i \in 1..(n+1) |-> u[i].open]
<1>1. u \in Seq(TipoGlobal) /\ Len(u) = n + 1 /\ n \in Nat /\ u[n+1] = e
      /\ \A i \in 1..n : u[i] = t[i]
  OBVIOUS
<1> HIDE DEF u
<1>2. \A j \in 1..(n+1) : g[j] \in Int
  BY <1>1, AperturasPorLugar
<1>3. (\A j \in 1..n : f[j] = g[j]) /\ g[n+1] = e.open
  BY <1>1
<1>4. SumFunctionOnSet(g, 1..(n+1)) = SumFunctionOnSet(f, 1..n) + g[n+1]
  <2> HIDE DEF f, g
  <2> QED
    BY <1>1, <1>2, <1>3, SumaConLugar
<1>5. Aperturas(u) = SumFunctionOnSet(g, 1..(n+1)) /\ Aperturas(t) = SumFunctionOnSet(f, 1..n)
  BY <1>1, AperturasPorLugar
<1> QED
  BY <1>1, <1>3, <1>4, <1>5 DEF u

\* ... one that goes takes them with it ...
LEMMA AperturasMenos ==
  ASSUME NEW t \in Seq(TipoGlobal), NEW g \in 1..Len(t)
  PROVE  /\ RemoveAt(t, g) \in Seq(TipoGlobal)
         /\ Aperturas(RemoveAt(t, g)) = Aperturas(t) - t[g].open
<1> DEFINE n == Len(t)
           u == RemoveAt(t, g)
           f == [i \in 1..n |-> t[i].open]
           h == [i \in 1..(n-1) |-> u[i].open]
<1>1. u \in Seq(TipoGlobal) /\ Len(u) = n - 1 /\ n \in Nat
  BY QuitarLugar
<1>2. \A j \in 1..(n-1) : u[j] = t[IF j < g THEN j ELSE j + 1]
  BY QuedanEnOrden
<1> HIDE DEF u
<1>3. \A j \in 1..n : f[j] \in Int
  BY AperturasPorLugar
<1>4. \A j \in 1..(n-1) : h[j] = f[IF j < g THEN j ELSE j + 1]
  BY <1>1, <1>2
<1>5. SumFunctionOnSet(h, 1..(n-1)) = SumFunctionOnSet(f, 1..n) - f[g]
  <2> HIDE DEF f, h
  <2> QED
    BY <1>1, <1>3, <1>4, SumaSinLugar
<1>6. Aperturas(u) = SumFunctionOnSet(h, 1..(n-1)) /\ Aperturas(t) = SumFunctionOnSet(f, 1..n)
  BY <1>1, AperturasPorLugar
<1> QED
  BY <1>1, <1>5, <1>6 DEF u

\* ... and one that changes, the difference.
LEMMA AperturasOtras ==
  ASSUME NEW t \in Seq(TipoGlobal), NEW g \in 1..Len(t), NEW e \in TipoGlobal
  PROVE  /\ [t EXCEPT ![g] = e] \in Seq(TipoGlobal)
         /\ Aperturas([t EXCEPT ![g] = e]) = Aperturas(t) + e.open - t[g].open
<1> DEFINE n == Len(t)
           u == [t EXCEPT ![g] = e]
           f == [i \in 1..n |-> t[i].open]
           h == [i \in 1..n |-> u[i].open]
<1>1. u \in Seq(TipoGlobal) /\ Len(u) = n /\ u[g] = e /\ \A i \in (1..n) \ {g} : u[i] = t[i]
  BY CambiarLugar
<1> HIDE DEF u
<1>2. \A j \in 1..n : f[j] \in Int /\ h[j] \in Int
  BY <1>1, AperturasPorLugar
<1>3. (\A j \in (1..n) \ {g} : h[j] = f[j]) /\ h[g] = e.open /\ f[g] = t[g].open
  BY <1>1
<1>4. SumFunctionOnSet(h, 1..n) = SumFunctionOnSet(f, 1..n) + h[g] - f[g]
  <2> DEFINE D == 1..n
  <2>1. IsFiniteSet(D) /\ g \in D
    BY AperturasPorLugar
  <2>2. /\ \A j \in D : f[j] \in Int /\ h[j] \in Int
        /\ \A j \in D \ {g} : h[j] = f[j]
    BY <1>2, <1>3
  <2> HIDE DEF f, h, D
  <2>3. SumFunctionOnSet(h, D) = SumFunctionOnSet(f, D) + h[g] - f[g]
    BY <2>1, <2>2, SumaCambia
  <2> QED
    BY <2>3 DEF D
<1>5. Aperturas(u) = SumFunctionOnSet(h, 1..n) /\ Aperturas(t) = SumFunctionOnSet(f, 1..n)
  BY <1>1, AperturasPorLugar
<1> QED
  BY <1>1, <1>3, <1>4, <1>5 DEF u

LEMMA DebenSon ==
  ASSUME IInvArchivos, NEW p \in Pids
  PROVE  /\ Len(tablas[p]) \in Nat /\ fin[p].cont \in Nat /\ Deben(p) \in Int
         /\ estado[p] = "terminando" => Deben(p) = Len(tablas[p]) - fin[p].cont
         /\ estado[p] # "terminando" => Deben(p) = Len(tablas[p])
         /\ estado[p] \in {"nuevo", "vivo"} => fin[p].cont = 0
<1>1. tablas[p] \in Seq(TipoEntrada) /\ fin[p] \in [i : Nat, cont : Nat]
  BY Tipados DEF Entradas
<1>2. Len(tablas[p]) \in Nat /\ fin[p].cont \in Nat
  BY <1>1
<1> QED
  BY <1>2 DEF Deben, IInvArchivos, RecorridoEnTabla

\* What is counted, while the Kernel stands.
EstanContadas ==
  Aperturas(tablaGlobal) = Deudas + Uno(pedido.paso \in {"registrar", "disminuir"})

LEMMA ContadasSon == AperturasContadas <=> (Anda => EstanContadas)
BY DEF AperturasContadas, EstanContadas, Aperturas, Deudas

LEMMA DeudasTipo ==
  ASSUME IInvArchivos, IsFiniteSet(Pids)
  PROVE  Deudas \in Int
<1> DEFINE f == [p \in Pids |-> Deben(p)]
<1>1. \A p \in Pids : f[p] \in Int
  BY DebenSon
<1>2. DOMAIN f = Pids
  OBVIOUS
<1> HIDE DEF f
<1>3. SumFunctionOnSet(f, Pids) \in Int
  BY <1>1, SumaEntera
<1> QED
  BY <1>2, <1>3 DEF f, Deudas, SumFunction

LEMMA DeudasIguales ==
  ASSUME \A p \in Pids : Deben(p)' = Deben(p)
  PROVE  Deudas' = Deudas
<1>1. [p \in Pids |-> Deben(p)]' = [p \in Pids |-> Deben(p)]
  OBVIOUS
<1> QED
  BY <1>1 DEF Deudas

LEMMA DeudasDeUno ==
  ASSUME IInvArchivos, IInvArchivos', IsFiniteSet(Pids), NEW p \in Pids, NEW d \in Int,
         Deben(p)' = Deben(p) + d, \A q \in Pids \ {p} : Deben(q)' = Deben(q)
  PROVE  Deudas' = Deudas + d
<1> DEFINE f == [q \in Pids |-> Deben(q)]
<1>1. PICK g : g = [q \in Pids |-> Deben(q)']
  OBVIOUS
<1>2. \A q \in Pids : f[q] \in Int /\ g[q] \in Int
  <2>1. \A q \in Pids : Deben(q) \in Int
    BY DebenSon
  <2> QED
    BY <1>1, <2>1
<1>3. (\A q \in Pids \ {p} : g[q] = f[q]) /\ g[p] = f[p] + d
  BY <1>1
<1>4. DOMAIN f = Pids /\ DOMAIN g = Pids
  BY <1>1
<1>5. Deudas' = SumFunctionOnSet(g, Pids) /\ Deudas = SumFunctionOnSet(f, Pids)
  BY <1>1, <1>4 DEF Deudas, SumFunction
<1> HIDE DEF f
<1>6. SumFunctionOnSet(g, Pids) = SumFunctionOnSet(f, Pids) + g[p] - f[p]
  BY <1>2, <1>3, SumaCambia
<1>7. SumFunctionOnSet(f, Pids) \in Int /\ f[p] \in Int
  BY <1>2, SumaEntera
<1> QED
  BY <1>3, <1>5, <1>6, <1>7

\* An exception or a request that keeps the lengths of the tables owes the same.
LEMMA MismasDeudas ==
  ASSUME IInvArchivos, IInvArchivos', fin' = fin,
         \A q \in Pids : Len(tablas'[q]) = Len(tablas[q]),
         estado' = estado \/ \E p \in Pids : estado[p] \in {"nuevo", "vivo"}
                               /\ \E e \in {"vivo", "terminando"} :
                                    estado' = [estado EXCEPT ![p] = e]
  PROVE  Deudas' = Deudas
<1> SUFFICES ASSUME NEW q \in Pids PROVE Deben(q)' = Deben(q)
  BY DeudasIguales
<1>1. Len(tablas[q]) \in Nat /\ fin[q].cont \in Nat
  BY DebenSon
<1>2. estado'[q] # estado[q] => /\ fin[q].cont = 0
                               /\ estado[q] \in {"nuevo", "vivo"}
  BY Tipados, DebenSon
<1> QED
  BY <1>1, <1>2 DEF Deben

\* ... so the count stands, if the global table and the request allow.
LEMMA ContadasQuedan ==
  ASSUME EstanContadas, tablaGlobal' = tablaGlobal, Deudas' = Deudas,
         pedido.paso \in {"registrar", "disminuir"} <=> pedido'.paso \in {"registrar", "disminuir"}
  PROVE  EstanContadas'
BY DEF EstanContadas, Uno

\* A helper that looks at an entry keeps the length of its table.
LEMMA VistoLargo ==
  ASSUME IInvArchivos, NEW p \in Pids, NEW i \in DOMAIN tablas[p], NEW pos \in Posiciones
  PROVE  \A q \in Pids : /\ Len(Visto(p, i)[q]) = Len(tablas[q])
                         /\ Len(Movido(p, i, pos)[q]) = Len(tablas[q])
<1>1. tablas \in [Pids -> Entradas] /\ tablas[p] \in Seq(TipoEntrada)
  BY Tipados DEF Entradas
<1>2. Len(AlFinal(tablas[p], i)) = Len(tablas[p])
  BY <1>1, AlFinalTipo
<1> DEFINE e == [tablas[p][i] EXCEPT !.puntero = pos]
           s == [tablas[p] EXCEPT ![i] = e]
<1>3. e \in TipoEntrada
  <2>1. tablas[p][i] \in TipoEntrada
    BY <1>1
  <2> QED
    BY <2>1, ArchivosAssumption DEF TipoEntrada, ArchivosAssumption
<1> HIDE DEF e
<1>4. s \in Seq(TipoEntrada) /\ Len(s) = Len(tablas[p]) /\ i \in DOMAIN s
  BY <1>1, <1>3, CambiarLugar
<1>5. Len(AlFinal(s, i)) = Len(tablas[p])
  <2> HIDE DEF s
  <2> QED
    BY <1>4, AlFinalTipo
<1>6. Visto(p, i) = [tablas EXCEPT ![p] = AlFinal(tablas[p], i)]
      /\ Movido(p, i, pos) = [tablas EXCEPT ![p] = AlFinal(s, i)]
  BY DEF Visto, Movido, e
<1> HIDE DEF s
<1> QED
  BY <1>1, <1>2, <1>5, <1>6

\* Requests that count nothing.
LEMMA CuentaPedido ==
  ASSUME IInvArchivos, IInvArchivos', EstanContadas, Pedido,
         \A p \in Pids, fd \in Descriptores : ~Cerrar(p, fd)
  PROVE  EstanContadas'
<1>1. PICK p \in Pids : /\ Pide(p) /\ tablaGlobal' = tablaGlobal /\ fin' = fin
                        /\ estado' = estado \/ Excepcion(p)
                        /\ pedido'.paso \notin {"registrar", "disminuir"}
                        /\ \A q \in Pids : Len(tablas'[q]) = Len(tablas[q])
  <2>1. ASSUME NEW p \in Pids, NEW r \in Rutas, NEW flags \in Banderas, PedirAbrir(p, r, flags)
        PROVE  /\ Pide(p) /\ tablaGlobal' = tablaGlobal /\ fin' = fin
               /\ estado' = estado \/ Excepcion(p)
               /\ pedido'.paso \notin {"registrar", "disminuir"}
               /\ \A q \in Pids : Len(tablas'[q]) = Len(tablas[q])
    BY <2>1 DEF PedirAbrir, PasoAbrir, Pide, Libre
  <2>2. ASSUME NEW p \in Pids, NEW fd \in Descriptores,
               PedirBorrar(p, fd) \/ Leer(p, fd) \/ Escribir(p, fd)
        PROVE  /\ Pide(p) /\ tablaGlobal' = tablaGlobal /\ fin' = fin
               /\ estado' = estado \/ Excepcion(p)
               /\ pedido'.paso \notin {"registrar", "disminuir"}
               /\ \A q \in Pids : Len(tablas'[q]) = Len(tablas[q])
    <3>1. /\ Pide(p) /\ tablaGlobal' = tablaGlobal /\ fin' = fin
          /\ estado' = estado \/ Excepcion(p)
          /\ pedido'.paso \notin {"registrar", "disminuir"}
      BY <2>2 DEF PedirBorrar, Leer, Escribir, Acceder, NoAbierto, Pide, Libre, PasoIndice
    <3>2. tablas' = tablas \/ (ConFd(p, fd) # {} /\ tablas' = Visto(p, Lugar(p, fd)))
      BY <2>2 DEF PedirBorrar, Leer, Escribir, Acceder, NoAbierto
    <3>3. ASSUME ConFd(p, fd) # {}, tablas' = Visto(p, Lugar(p, fd)), NEW q \in Pids
          PROVE  Len(tablas'[q]) = Len(tablas[q])
      <4>1. Lugar(p, fd) \in DOMAIN tablas[p]
        BY <3>3, LugarEnTabla DEF IInvArchivos
      <4>2. tablas \in [Pids -> Entradas] /\ tablas[p] \in Seq(TipoEntrada)
        BY Tipados DEF Entradas
      <4>3. Len(AlFinal(tablas[p], Lugar(p, fd))) = Len(tablas[p])
        BY <4>1, <4>2, AlFinalTipo
      <4> QED
        BY <3>3, <4>2, <4>3 DEF Visto
    <3> QED
      BY <3>1, <3>2, <3>3
  <2>3. ASSUME NEW p \in Pids, NEW fd \in Descriptores, NEW pos \in Posiciones,
               MoverCursor(p, fd, pos)
        PROVE  /\ Pide(p) /\ tablaGlobal' = tablaGlobal /\ fin' = fin
               /\ estado' = estado \/ Excepcion(p)
               /\ pedido'.paso \notin {"registrar", "disminuir"}
               /\ \A q \in Pids : Len(tablas'[q]) = Len(tablas[q])
    <3>1. /\ Pide(p) /\ tablaGlobal' = tablaGlobal /\ fin' = fin
          /\ estado' = estado \/ Excepcion(p)
          /\ pedido'.paso \notin {"registrar", "disminuir"}
          /\ tablas' = tablas \/ (ConFd(p, fd) # {} /\ tablas' = Movido(p, Lugar(p, fd), pos))
      BY <2>3 DEF MoverCursor, NoAbierto, Pide, Libre
    <3>2. ConFd(p, fd) # {} => Lugar(p, fd) \in DOMAIN tablas[p]
      BY LugarEnTabla DEF IInvArchivos
    <3> QED
      BY <3>1, <3>2, VistoLargo
  <2> QED
    BY <2>1, <2>2, <2>3 DEF Pedido
<1>2. pedido.paso = "libre" /\ estado[p] = "vivo"
  BY <1>1 DEF Pide, Libre
<1>3. Deudas' = Deudas
  BY <1>1, <1>2, MismasDeudas DEF Excepcion
<1> QED
  BY <1>1, <1>2, <1>3, ContadasQuedan

\* Closing takes the descriptor first, and owes its opening until the global
\* table is counted down.
LEMMA CuentaCerrar ==
  ASSUME IInvArchivos, IInvArchivos', IsFiniteSet(Pids), EstanContadas,
         NEW p \in Pids, NEW fd, Cerrar(p, fd)
  PROVE  EstanContadas'
<1>1. Pide(p) /\ tablaGlobal' = tablaGlobal /\ fin' = fin /\ pedido.paso = "libre"
      /\ estado[p] = "vivo"
  BY DEF Cerrar, Pide, Libre
<1>2. CASE NoAbierto(p, fd)
  <2>1. Excepcion(p) /\ tablas' = tablas /\ pedido' = pedido
    BY <1>2 DEF NoAbierto
  <2>2. Deudas' = Deudas
    BY <1>1, <2>1, MismasDeudas DEF Excepcion
  <2> QED
    BY <1>1, <2>1, <2>2, ContadasQuedan
<1>3. CASE ~NoAbierto(p, fd)
  <2> DEFINE i == Lugar(p, fd)
  <2>1. /\ ConFd(p, fd) # {} /\ tablas' = [tablas EXCEPT ![p] = RemoveAt(tablas[p], i)]
        /\ pedido'.paso = "disminuir" /\ estado' = estado
    BY <1>3 DEF Cerrar, PasoIndice
  <2>2. i \in DOMAIN tablas[p]
    BY <2>1, LugarEnTabla DEF IInvArchivos
  <2>3. tablas \in [Pids -> Entradas] /\ tablas[p] \in Seq(TipoEntrada)
    BY Tipados DEF Entradas
  <2>4. i \in 1..Len(tablas[p])
    BY <2>2, <2>3
  <2> HIDE DEF i
  <2>5. Len(RemoveAt(tablas[p], i)) = Len(tablas[p]) - 1
    BY <2>3, <2>4, QuitarLugar
  <2>6. Deben(p)' = Deben(p) + (-1)
    BY <1>1, <2>1, <2>3, <2>5, DebenSon DEF Deben
  <2>7. \A q \in Pids \ {p} : Deben(q)' = Deben(q)
    BY <1>1, <2>1, <2>3 DEF Deben
  <2>8. Deudas' = Deudas + (-1)
    BY <2>6, <2>7, DeudasDeUno
  <2> QED
    BY <1>1, <2>1, <2>8, DeudasTipo DEF EstanContadas, Uno
<1> QED
  BY <1>2, <1>3

LEMMA CuentaAgregar ==
  ASSUME IInvArchivos, IInvArchivos', EstanContadas, Agregar
  PROVE  EstanContadas'
<1> DEFINE e == [ruta |-> pedido.ruta, open |-> 0]
<1>1. /\ pedido.paso = "agregar" /\ tablaGlobal' = Append(tablaGlobal, e)
      /\ pedido' = [pedido EXCEPT !.paso = "aumentar", !.indice = Len(tablaGlobal) + 1]
      /\ UNCHANGED <<tablas, estado, fin>>
  BY DEF Agregar
<1>2. e \in TipoGlobal /\ e.open = 0 /\ tablaGlobal \in Seq(TipoGlobal)
      /\ pedido'.paso = "aumentar"
  BY <1>1, Carga, Tipados DEF TipoGlobal
<1> HIDE DEF e
<1>3. Aperturas(tablaGlobal') = Aperturas(tablaGlobal) + 0
  BY <1>1, <1>2, AperturasMas
<1>4. Deudas' = Deudas
  BY <1>1, MismasDeudas
<1> QED
  BY <1>1, <1>2, <1>3, <1>4, AperturasTipo DEF EstanContadas, Uno

\* The search, the look at the count of a file and its deletion count nothing.
LEMMA CuentaBuscar ==
  ASSUME IInvArchivos, IInvArchivos', EstanContadas, BuscarIndice \/ VerificarBorrable \/ Borrar
  PROVE  EstanContadas'
<1>1. /\ pedido.paso \notin {"registrar", "disminuir"}
      /\ tablaGlobal' = tablaGlobal /\ tablas' = tablas /\ fin' = fin
  BY DEF BuscarIndice, VerificarBorrable, Borrar
<1>2. pedido'.paso \notin {"registrar", "disminuir"}
  <2>1. CASE BuscarIndice
    <3>1. pedido'.paso = "aumentar"
      BY <2>1, Carga DEF BuscarIndice
    <3> QED
      BY <3>1
  <2>2. CASE VerificarBorrable
    <3>1. pedido' \in {pedido, Libre, [pedido EXCEPT !.paso = "borrar"]}
      BY <2>2 DEF VerificarBorrable
    <3>2. [pedido EXCEPT !.paso = "borrar"].paso = "borrar"
      BY <2>2, Carga DEF VerificarBorrable
    <3>3. Libre.paso = "libre"
      BY DEF Libre
    <3> QED
      BY <1>1, <3>1, <3>2, <3>3
  <2>3. CASE Borrar
    BY <1>1, <2>3 DEF Borrar, Libre
  <2> QED
    BY <2>1, <2>2, <2>3
<1>3. estado' = estado \/ (Excepcion(pedido.pid) /\ pedido # Libre)
  BY DEF BuscarIndice, VerificarBorrable, Borrar, Libre
<1>4. pedido # Libre => pedido.pid \in Pids /\ estado[pedido.pid] = "vivo"
  BY Tipados DEF TipoPedido, IInvArchivos, PedidoDeVivo
<1>5. Deudas' = Deudas
  BY <1>1, <1>3, <1>4, MismasDeudas DEF Excepcion
<1> QED
  BY <1>1, <1>2, <1>5, ContadasQuedan

\* The opening is counted before the descriptor is there.
LEMMA CuentaAumentar ==
  ASSUME IInvArchivos, IInvArchivos', IsFiniteSet(Pids), EstanContadas, AumentarOpen, Anda'
  PROVE  EstanContadas'
<1> DEFINE i == Primera(DeRuta(pedido.ruta))
           e == [tablaGlobal[i] EXCEPT !.open = @ + 1]
           t == [tablaGlobal EXCEPT ![i] = e]
<1>1. /\ pedido.paso = "aumentar" /\ DeRuta(pedido.ruta) # {}
      /\ tablaGlobal' = Contada(i)
      /\ pedido' = [pedido EXCEPT !.paso = "registrar"]
      /\ UNCHANGED <<tablas, estado, fin>>
  BY DEF AumentarOpen, Caer, Anda
<1>2. tablaGlobal \in Seq(TipoGlobal)
  BY Tipados
<1>3. i \in 1..Len(tablaGlobal)
  BY <1>1, <1>2, RutaEnTabla DEF IInvArchivos
<1>4. tablaGlobal[i] \in TipoGlobal
  BY <1>2, <1>3
<1> HIDE DEF i
<1>5. e \in TipoGlobal /\ e.open = tablaGlobal[i].open + 1 /\ tablaGlobal[i].open \in Int
  BY <1>4 DEF TipoGlobal
<1>6. tablaGlobal' = Append(RemoveAt(t, i), t[i]) /\ t[i] = e
  BY <1>1, <1>2, <1>3 DEF Contada, AlFinal
<1> HIDE DEF e
<1>7. /\ t \in Seq(TipoGlobal) /\ Len(t) = Len(tablaGlobal)
      /\ Aperturas(t) = Aperturas(tablaGlobal) + e.open - tablaGlobal[i].open
  BY <1>2, <1>3, <1>5, AperturasOtras, CambiarLugar
<1> HIDE DEF t
<1>8. RemoveAt(t, i) \in Seq(TipoGlobal) /\ Aperturas(RemoveAt(t, i)) = Aperturas(t) - e.open
  BY <1>3, <1>6, <1>7, AperturasMenos
<1>9. Aperturas(tablaGlobal') = Aperturas(RemoveAt(t, i)) + e.open
  BY <1>5, <1>6, <1>8, AperturasMas
<1>10. Aperturas(tablaGlobal') = Aperturas(tablaGlobal) + 1
  BY <1>2, <1>5, <1>7, <1>8, <1>9, AperturasTipo
<1>11. Deudas' = Deudas
  BY <1>1, MismasDeudas
<1>12. pedido'.paso = "registrar"
  BY <1>1, Carga
<1> QED
  BY <1>1, <1>2, <1>10, <1>11, <1>12, AperturasTipo, DeudasTipo DEF EstanContadas, Uno

LEMMA CuentaRegistrar ==
  ASSUME IInvArchivos, IInvArchivos', IsFiniteSet(Pids), EstanContadas, ActualizarTabla
  PROVE  EstanContadas'
<1>1. PICK p, e : /\ p = pedido.pid /\ tablas' = [tablas EXCEPT ![p] = Append(tablas[p], e)]
                  /\ pedido.paso = "registrar" /\ pedido' = Libre
                  /\ UNCHANGED <<tablaGlobal, estado, fin>>
  BY DEF ActualizarTabla
<1>2. p \in Pids /\ estado[p] = "vivo"
  BY <1>1, Carga DEF Libre, IInvArchivos, PedidoDeVivo
<1>3. tablas \in [Pids -> Entradas] /\ tablas[p] \in Seq(TipoEntrada)
  BY <1>2, Tipados DEF Entradas
<1>4. Len(tablas'[p]) = Len(tablas[p]) + 1
  BY <1>1, <1>2, <1>3
<1>5. Deben(p)' = Deben(p) + 1
  BY <1>1, <1>2, <1>4, DebenSon DEF Deben
<1>6. \A q \in Pids \ {p} : Deben(q)' = Deben(q)
  BY <1>1, <1>3 DEF Deben
<1>7. Deudas' = Deudas + 1
  BY <1>2, <1>5, <1>6, DeudasDeUno
<1> QED
  BY <1>1, <1>7, DeudasTipo DEF EstanContadas, Uno, Libre

\* One opening less is counted, in the entry that is there or with it.
LEMMA DisminuirCuenta ==
  ASSUME IInvArchivos, NEW g \in Nat \ {0}, Disminuir(g), Anda'
  PROVE  /\ Aperturas(tablaGlobal') = Aperturas(tablaGlobal) - 1
         /\ g \in DOMAIN tablaGlobal
         /\ \A q \in Pids : Len(tablas'[q]) = Len(tablas[q])
<1>1. tablaGlobal \in Seq(TipoGlobal)
  BY Tipados
<1>2. g \in DOMAIN tablaGlobal
  BY DEF Disminuir, Caer, Anda
<1>3. g \in 1..Len(tablaGlobal) /\ tablaGlobal[g] \in TipoGlobal /\ tablaGlobal[g].open \in Int
  <2>1. g \in 1..Len(tablaGlobal) /\ tablaGlobal[g] \in TipoGlobal
    BY <1>1, <1>2
  <2> QED
    BY <2>1 DEF TipoGlobal
<1>4. CASE EsUltimo(g)
  <2>1. tablaGlobal' = RemoveAt(tablaGlobal, g) /\ tablaGlobal[g].open = 1
    BY <1>2, <1>4 DEF Disminuir, EsUltimo
  <2> QED
    BY <1>1, <1>2, <1>3, <2>1, AperturasMenos, DisminuirTipo DEF IInvArchivos
<1>5. CASE ~EsUltimo(g)
  <2> DEFINE e == [tablaGlobal[g] EXCEPT !.open = @ - 1]
  <2>1. tablaGlobal' = [tablaGlobal EXCEPT ![g] = e]
    BY <1>2, <1>5 DEF Disminuir
  <2>2. e \in TipoGlobal /\ e.open = tablaGlobal[g].open - 1
    BY <1>3 DEF TipoGlobal
  <2> HIDE DEF e
  <2>3. Aperturas(tablaGlobal') = Aperturas(tablaGlobal) + e.open - tablaGlobal[g].open
    BY <1>1, <1>3, <2>1, <2>2, AperturasOtras
  <2> QED
    BY <1>1, <1>2, <1>3, <2>2, <2>3, AperturasTipo, DisminuirTipo DEF IInvArchivos
<1> QED
  BY <1>4, <1>5

LEMMA CuentaCerrarGlobal ==
  ASSUME IInvArchivos, IInvArchivos', IsFiniteSet(Pids), EstanContadas, CerrarGlobal, Anda'
  PROVE  EstanContadas'
<1>1. /\ pedido.paso = "disminuir" /\ pedido' = Libre /\ estado' = estado /\ fin' = fin
      /\ Disminuir(pedido.indice)
  BY DEF CerrarGlobal
<1>2. pedido.indice \in Nat \ {0}
  BY <1>1, Carga
<1>3. /\ Aperturas(tablaGlobal') = Aperturas(tablaGlobal) - 1
      /\ \A q \in Pids : Len(tablas'[q]) = Len(tablas[q])
  BY <1>1, <1>2, DisminuirCuenta
<1>4. Deudas' = Deudas
  BY <1>1, <1>3, MismasDeudas
<1>5. tablaGlobal \in Seq(TipoGlobal) /\ pedido'.paso = "libre"
  BY <1>1, Tipados DEF Libre
<1> QED
  BY <1>1, <1>3, <1>4, <1>5, AperturasTipo, DeudasTipo DEF EstanContadas, Uno

\* A round of the walk gives one opening back, whatever entry it takes it from.
LEMMA CuentaDestruirEntrada ==
  ASSUME IInvArchivos, IInvArchivos', IsFiniteSet(Pids), EstanContadas,
         NEW p \in Pids, DestruirEntrada(p), Anda'
  PROVE  EstanContadas'
<1> DEFINE g == tablas[p][fin[p].i].indice
<1>1. /\ estado[p] = "terminando" /\ fin[p].cont < Len(tablas[p]) /\ Disminuir(g)
      /\ g \in DOMAIN tablaGlobal => fin' = [fin EXCEPT ![p] = Avance(fin[p], g)]
      /\ estado' = estado /\ pedido' = pedido
  BY DEF DestruirEntrada
<1>2. fin \in [Pids -> [i : Nat, cont : Nat]] /\ fin[p].i \in 1..(fin[p].cont + 1)
  BY Tipados DEF IInvArchivos, RecorridoEnTabla
<1>3. tablas[p] \in Seq(TipoEntrada)
  BY Tipados DEF Entradas
<1>4. fin[p].i \in DOMAIN tablas[p]
  BY <1>1, <1>2, <1>3
<1>5. g \in Nat \ {0}
  BY <1>4, IndiceDeLugar
<1> HIDE DEF g
<1>6. /\ Aperturas(tablaGlobal') = Aperturas(tablaGlobal) - 1
      /\ g \in DOMAIN tablaGlobal /\ \A q \in Pids : Len(tablas'[q]) = Len(tablas[q])
  BY <1>1, <1>5, DisminuirCuenta
<1>7. fin'[p].cont = fin[p].cont + 1 /\ \A q \in Pids \ {p} : fin'[q] = fin[q]
  BY <1>1, <1>2, <1>6 DEF Avance
<1>8. Deben(p)' = Deben(p) + (-1)
  BY <1>1, <1>6, <1>7, DebenSon DEF Deben
<1>9. \A q \in Pids \ {p} : Deben(q)' = Deben(q)
  BY <1>1, <1>6, <1>7 DEF Deben
<1>10. Deudas' = Deudas + (-1)
  BY <1>8, <1>9, DeudasDeUno
<1>11. tablaGlobal \in Seq(TipoGlobal)
  BY Tipados
<1> QED
  BY <1>1, <1>6, <1>10, <1>11, AperturasTipo, DeudasTipo DEF EstanContadas, Uno

\* When the walk has come to its end it has given all of them back.
LEMMA CuentaDestruirTabla ==
  ASSUME IInvArchivos, IInvArchivos', EstanContadas, NEW p \in Pids, DestruirTabla(p)
  PROVE  EstanContadas'
<1>1. /\ estado[p] = "terminando" /\ fin[p].cont >= Len(tablas[p])
      /\ estado' = [estado EXCEPT ![p] = "terminado"] /\ tablas' = [tablas EXCEPT ![p] = <<>>]
      /\ UNCHANGED <<tablaGlobal, fin, pedido>>
  BY DEF DestruirTabla
<1>2. fin[p].cont <= Len(tablas[p])
  BY <1>1 DEF IInvArchivos, RecorridoEnTabla
<1>3. Deben(p) = 0
  BY <1>1, <1>2, DebenSon
<1>4. Deben(p)' = 0
  BY <1>1, Tipados DEF Deben
<1>5. \A q \in Pids \ {p} : Deben(q)' = Deben(q)
  BY <1>1, Tipados DEF Deben
<1>6. Deudas' = Deudas
  BY <1>3, <1>4, <1>5, DeudasIguales
<1> QED
  BY <1>1, <1>6, ContadasQuedan

LEMMA CuentaVida ==
  ASSUME IInvArchivos, IInvArchivos', EstanContadas, NEW p \in Pids,
         InicializarTabla(p) \/ Salir(p)
  PROVE  EstanContadas'
<1>1. /\ UNCHANGED <<tablaGlobal, tablas, fin, pedido>> /\ estado[p] \in {"nuevo", "vivo"}
      /\ \E e \in {"vivo", "terminando"} : estado' = [estado EXCEPT ![p] = e]
  BY DEF InicializarTabla, Salir, Excepcion
<1>2. Deudas' = Deudas
  BY <1>1, MismasDeudas
<1> QED
  BY <1>1, <1>2, ContadasQuedan

LEMMA CuentaSigue ==
  ASSUME IInvArchivos, IInvArchivos', IsFiniteSet(Pids), AperturasContadas, [Next]_vars
  PROVE  AperturasContadas'
<1> SUFFICES ASSUME Anda' PROVE EstanContadas'
  BY ContadasSon DEF AperturasContadas, EstanContadas, Aperturas, Deudas
<1>1. CASE UNCHANGED vars
  <2>1. UNCHANGED <<tablaGlobal, tablas, estado, fin, pedido, fallo>>
    BY <1>1 DEF vars
  <2>2. Anda /\ EstanContadas
    BY <2>1, ContadasSon DEF Anda
  <2>3. Deudas' = Deudas
    BY <2>1, MismasDeudas
  <2> QED
    BY <2>1, <2>2, <2>3, ContadasQuedan
<1>2. ASSUME Next PROVE Anda /\ EstanContadas
  <2>1. Anda
    BY <1>2 DEF Next, Pedido, Sigue, Vida, PedirAbrir, Cerrar, PedirBorrar, Leer, Escribir,
       MoverCursor, Pide, Agregar, BuscarIndice, AumentarOpen, ActualizarTabla, CerrarGlobal,
       VerificarBorrable, Borrar, InicializarTabla, Salir, DestruirEntrada, DestruirTabla
  <2> QED
    BY <2>1, ContadasSon
<1>3. CASE Pedido
  <2>1. CASE \E p \in Pids, fd \in Descriptores : Cerrar(p, fd)
    BY <1>2, <1>3, <2>1, CuentaCerrar DEF Next
  <2>2. CASE ~\E p \in Pids, fd \in Descriptores : Cerrar(p, fd)
    BY <1>2, <1>3, <2>2, CuentaPedido DEF Next
  <2> QED
    BY <2>1, <2>2
<1>4. CASE Sigue
  BY <1>2, <1>4, CuentaAgregar, CuentaBuscar, CuentaAumentar, CuentaRegistrar,
     CuentaCerrarGlobal DEF Next, Sigue
<1>5. CASE Vida
  BY <1>2, <1>5, CuentaVida, CuentaDestruirEntrada, CuentaDestruirTabla DEF Next, Vida
<1> QED
  BY <1>1, <1>3, <1>4, <1>5 DEF Next

\* Among any finite number of processes, the openings that the global table
\* counts are the descriptors there are, up to the one being opened or closed:
\* aumentarOpenEnTablaGlobal, disminuirOpenEnTablaGlobal and the walk that ends a
\* process may count for the wrong file, never twice and never not at all.
THEOREM AperturasSinPerdidas ==
  ASSUME IsFiniteSet(Pids)
  PROVE  Spec => []AperturasContadas
<1>1. Init => AperturasContadas
  <2> SUFFICES ASSUME Init PROVE EstanContadas
    BY ContadasSon
  <2>1. /\ tablaGlobal = <<>> /\ pedido.paso = "libre" /\ \A p \in Pids : Deben(p) = 0
    BY DEF Init, Libre, Deben
  <2> DEFINE f == [p \in Pids |-> 0]
  <2>2. Deudas = SumFunctionOnSet(f, Pids)
    <3>1. [p \in Pids |-> Deben(p)] = f /\ DOMAIN f = Pids
      BY <2>1
    <3> HIDE DEF f
    <3> QED
      BY <3>1 DEF Deudas, SumFunction
  <2>3. SumFunctionOnSet(f, Pids) = 0
    <3>1. \A p \in Pids : f[p] = 0
      OBVIOUS
    <3> HIDE DEF f
    <3> QED
      BY <3>1, SumaCeros
  <2>4. Aperturas(tablaGlobal) = 0
    <3>1. DOMAIN tablaGlobal = {} /\ DOMAIN [i \in DOMAIN tablaGlobal |-> tablaGlobal[i].open] = {}
      BY <2>1
    <3> QED
      BY <3>1, SumaVacia DEF Aperturas, SumFunction
  <2> QED
    BY <2>1, <2>2, <2>3, <2>4 DEF EstanContadas, Uno
<1>2. IInvArchivos /\ IInvArchivos' /\ AperturasContadas /\ [Next]_vars => AperturasContadas'
  BY CuentaSigue
<1> QED
  BY <1>1, <1>2, InvarianteArchivos, PTL DEF Spec

-----------------------------------------------------------------------------
(* THE BLOCKS OF THE FILESYSTEM                                            *)

USE SistemaAssumption

-----------------------------------------------------------------------------
(* Numbers                                                                 *)

\* The least of two numbers is one of them.
LEMMA MenorDeDos ==
  ASSUME NEW a \in Int, NEW b \in Int
  PROVE  /\ Min({a, b}) \in Int
         /\ Min({a, b}) <= a /\ Min({a, b}) <= b
         /\ Min({a, b}) \in {a, b}
<1>1. \E x \in {a, b} : \A y \in {a, b} : x =< y
  OBVIOUS
<1> QED
  BY <1>1 DEF Min

LEMMA MenorDeDosNaturales ==
  ASSUME NEW a \in Nat, NEW c \in Nat
  PROVE  Min({a, c}) \in Nat /\ Min({a, c}) <= a
<1>1. Min({a, c}) \in {a, c} /\ Min({a, c}) <= a
  BY MenorDeDos
<1> QED
  BY ONLY <1>1, a \in Nat, c \in Nat

\* Also of any naturals.
LEMMA MenorDeNaturales ==
  ASSUME NEW I \in SUBSET Nat, I # {}
  PROVE  Min(I) \in I /\ \A j \in I : Min(I) =< j
BY MinimoDeNaturales DEF Min

\* Naturals with a bound have a greatest one.
LEMMA MayorAcotado ==
  ASSUME NEW n \in Nat, NEW I \in SUBSET (0..n), I # {}
  PROVE  Max(I) \in I /\ \A j \in I : j =< Max(I)
<1> DEFINE J == {k \in 0..n : n - k \in I}
<1>1. PICK i \in I : TRUE
  OBVIOUS
<1>2. n - i \in J /\ J \in SUBSET Nat
  BY <1>1
<1>3. PICK k \in J : \A j \in J : k =< j
  BY <1>2, MinimoDeNaturales
<1>4. ASSUME NEW j \in I PROVE j =< n - k
  <2>1. j \in 0..n /\ n - j \in 0..n /\ n - (n - j) = j
    BY <1>4
  <2>2. n - j \in J
    BY <2>1
  <2>3. k =< n - j /\ k \in 0..n
    BY <1>3, <2>2
  <2> QED
    BY <2>1, <2>3
<1>5. \E x \in I : \A y \in I : x >= y
  <2>1. n - k \in I /\ \A y \in I : n - k >= y
    BY <1>3, <1>4
  <2> QED
    BY <2>1
<1>6. Max(I) \in I /\ \A y \in I : Max(I) >= y
  BY <1>5 DEF Max
<1> QED
  BY <1>6

\* The block of a position starts at most at it and ends past it.
LEMMA EnSuBloque ==
  ASSUME NEW cursor \in Nat
  PROVE  /\ BloqueDe(cursor) \in Nat
         /\ FinDeBloque(cursor) - cursor \in 1..TamBloque
         /\ FinDeBloque(cursor) \in Nat
         /\ cursor % TamBloque \in Nat
         /\ (cursor % TamBloque) + (FinDeBloque(cursor) - cursor) = TamBloque
<1> DEFINE d == cursor \div TamBloque
           m == cursor % TamBloque
<1>1. d \in Nat /\ m \in 0..(TamBloque - 1) /\ cursor = TamBloque * d + m
  OBVIOUS
<1> HIDE DEF d, m
<1>2. (d + 1) * TamBloque = TamBloque * d + TamBloque
  BY <1>1
<1>3. (d + 1) * TamBloque \in Nat
  BY <1>1
<1> QED
  BY <1>1, <1>2, <1>3 DEF BloqueDe, FinDeBloque, d, m

-----------------------------------------------------------------------------
(* Blocks                                                                  *)

\* A block has a sequence of values, of at most its size.
LEMMA ContenidosSonListas ==
  \A bloque : bloque \in Contenidos <=>
                bloque \in Seq(Bytes \cup {Cero}) /\ Len(bloque) <= TamBloque
<1> DEFINE V == Bytes \cup {Cero}
<1>1. ASSUME NEW bloque \in Contenidos
      PROVE  bloque \in Seq(V) /\ Len(bloque) <= TamBloque
  <2>1. PICK n \in 0..TamBloque : bloque \in [1..n -> V]
    BY DEF Contenidos
  <2> HIDE DEF V
  <2>2. n \in Nat /\ n <= TamBloque
    OBVIOUS
  <2>3. bloque \in Seq(V)
    BY <2>1, <2>2, SeqDef
  <2>4. Len(bloque) = n
    BY <2>1, <2>2, <2>3, LenProperties
  <2> QED
    BY <2>2, <2>3, <2>4
<1>2. ASSUME NEW bloque \in Seq(V), Len(bloque) <= TamBloque
      PROVE  bloque \in Contenidos
  <2>1. Len(bloque) \in 0..TamBloque /\ bloque \in [1..Len(bloque) -> V]
    BY <1>2, LenProperties
  <2> QED
    BY <2>1 DEF Contenidos
<1> QED
  BY <1>1, <1>2

\* A piece of a list of values has at most as many as were asked for.
LEMMA TrozoAcotado ==
  ASSUME NEW datos \in Seq(Bytes), NEW desde \in Nat, NEW n \in Nat
  PROVE  Trozo(datos, desde, n) \in Seq(Bytes) /\ Len(Trozo(datos, desde, n)) <= n
<1> DEFINE hasta == Min({desde + n, Len(datos)})
<1>1. hasta \in Int /\ hasta <= desde + n /\ hasta <= Len(datos)
  <2>1. desde + n \in Int /\ Len(datos) \in Int
    OBVIOUS
  <2> QED
    BY ONLY <2>1, MenorDeDos
<1> HIDE DEF hasta
<1>2. SubSeq(datos, desde + 1, hasta) \in Seq(Bytes)
      /\ Len(SubSeq(datos, desde + 1, hasta)) = IF desde + 1 <= hasta THEN hasta - desde ELSE 0
  BY <1>1, SubSeqProperties
<1>3. Len(SubSeq(datos, desde + 1, hasta)) <= n
  <2>1. desde + 1 <= hasta => hasta - desde <= n
    BY <1>1
  <2> QED
    BY <1>2, <2>1
<1>4. Trozo(datos, desde, n) = SubSeq(datos, desde + 1, hasta)
  BY DEF Trozo, hasta
<1> QED
  BY <1>2, <1>3, <1>4

LEMMA TrozoEnBloque ==
  ASSUME NEW datos \in Seq(Bytes), NEW desde \in Nat
  PROVE  Trozo(datos, desde, TamBloque) \in Contenidos
<1>1. Trozo(datos, desde, TamBloque) \in Seq(Bytes \cup {Cero})
  BY TrozoAcotado, SeqMonotonic
<1> QED
  BY <1>1, TrozoAcotado, ContenidosSonListas

\* A write that ends before the block does leaves a block.
LEMMA EscritoEnBloque ==
  ASSUME NEW bloque \in Contenidos, NEW desde \in Nat, NEW datos \in Seq(Bytes),
         desde + Len(datos) <= TamBloque
  PROVE  Escrito(bloque, desde, datos) \in Contenidos
<1> DEFINE V == Bytes \cup {Cero}
           largos == {Len(bloque), desde + Len(datos)}
           largo == Max(largos)
<1>1. bloque \in Seq(V) /\ Len(bloque) <= TamBloque
  BY ContenidosSonListas
<1>2. Len(bloque) \in Nat /\ Len(datos) \in Nat /\ largos \in SUBSET (0..TamBloque)
  BY <1>1
<1>3. largo \in 0..TamBloque
  <2> HIDE DEF largos
  <2>1. largos # {}
    BY DEF largos
  <2> QED
    BY <1>2, <2>1, MayorAcotado
<1> HIDE DEF largo, largos
<1>4. ASSUME NEW i \in 1..largo
      PROVE  (IF i \in (desde + 1)..(desde + Len(datos)) THEN datos[i - desde]
              ELSE IF i <= Len(bloque) THEN bloque[i] ELSE Cero) \in V
  <2>1. i \in 1..Len(bloque) => bloque[i] \in V
    BY <1>1, ElementOfSeq
  <2>2. i \in (desde + 1)..(desde + Len(datos)) => datos[i - desde] \in Bytes
    <3> SUFFICES ASSUME i \in (desde + 1)..(desde + Len(datos)) PROVE datos[i - desde] \in Bytes
      OBVIOUS
    <3>1. i - desde \in 1..Len(datos)
      BY <1>2, <1>3
    <3> QED
      BY <3>1, ElementOfSeq
  <2>3. i \in Nat /\ i >= 1
    BY <1>3
  <2> QED
    BY <1>2, <2>1, <2>2, <2>3
<1>5. [i \in 1..largo |->
         IF i \in (desde + 1)..(desde + Len(datos)) THEN datos[i - desde]
         ELSE IF i <= Len(bloque) THEN bloque[i] ELSE Cero] \in [1..largo -> V]
  BY <1>4
<1> QED
  BY <1>3, <1>5 DEF Escrito, Contenidos, largo, largos

-----------------------------------------------------------------------------
(* The search for free blocks                                              *)

\* Blocks are finitely many.
LEMMA BloquesFinitos ==
  \A S \in SUBSET NumerosDeBloque :
    IsFiniteSet(S) /\ Cardinality(S) \in Nat /\ S \in SUBSET (0..CantBloques)
<1>1. IsFiniteSet(NumerosDeBloque)
  BY FS_Interval DEF NumerosDeBloque
<1>2. NumerosDeBloque \subseteq 0..CantBloques
  BY DEF NumerosDeBloque
<1>3. \A S \in SUBSET NumerosDeBloque : IsFiniteSet(S) /\ Cardinality(S) \in Nat
  BY ONLY <1>1, FS_Subset, FS_CardinalityType
<1> QED
  BY ONLY <1>2, <1>3

\* crearArchivo finds a free block if there is one.
LEMMA PrimeroDesocupado ==
  ASSUME Desocupados # {}
  PROVE  PrimerDesocupado \in NumerosDeBloque \ bitmap
<1>1. Desocupados \in SUBSET Nat
  BY DEF Desocupados, NumerosDeBloque
<1> QED
  BY <1>1, MenorDeNaturales DEF PrimerDesocupado, Desocupados

\* The search that stops at n free blocks stops at one of them, if there are n.
LEMMA UltimoDesocupado ==
  ASSUME NEW n \in Nat \ {0}, Cardinality(Desocupados) >= n
  PROVE  UltimoDe(n) \in NumerosDeBloque \ bitmap
<1> DEFINE D == Desocupados
           H(x) == {k \in D : k <= x}
           I == {x \in D : Cardinality(H(x)) >= n}
<1>1. D \in SUBSET NumerosDeBloque /\ D \in SUBSET (0..CantBloques) /\ D # {}
  <2>1. D \in SUBSET NumerosDeBloque
    BY DEF Desocupados
  <2>2. D # {}
    <3>1. Cardinality({}) = 0
      BY FS_EmptySet
    <3>2. Cardinality(Desocupados) # Cardinality({})
      BY <3>1
    <3> QED
      BY ONLY <3>2, Zenon
  <2> QED
    BY <2>1, <2>2, BloquesFinitos
<1>2. \A x : H(x) \in SUBSET NumerosDeBloque /\ IsFiniteSet(H(x)) /\ Cardinality(H(x)) \in Nat
  BY <1>1, BloquesFinitos
<1> HIDE DEF D
<1>3. I # {}
  <2>1. Max(D) \in D /\ \A k \in D : k <= Max(D)
    BY <1>1, MayorAcotado
  <2>2. H(Max(D)) = D
    BY <2>1
  <2>3. Cardinality(D) >= n
    BY DEF D
  <2> QED
    BY <2>1, <2>2, <2>3
<1>4. I \in SUBSET Nat
  <2>1. (0..CantBloques) \subseteq Nat
    OBVIOUS
  <2> QED
    BY ONLY <1>1, <2>1
<1>5. PICK m \in I : \A x \in I : m =< x
  BY <1>3, <1>4, MinimoDeNaturales
<1>6. m \in D /\ Cardinality(H(m)) >= n /\ m \in Nat
  BY <1>4, <1>5
<1>7. ASSUME Cardinality(H(m)) # n PROVE FALSE
  <2> DEFINE G == H(m) \ {m}
  <2>1. m \in H(m)
    BY <1>6
  <2>2. Cardinality(G) = Cardinality(H(m)) - 1
    BY <1>2, <2>1, FS_RemoveElement
  <2>3. Cardinality(G) >= n
    <3>1. Cardinality(H(m)) \in Nat /\ Cardinality(H(m)) >= n
      BY <1>2, <1>6
    <3> HIDE DEF G, H
    <3> QED
      BY <1>7, <2>2, <3>1
  <2>4. G # {} /\ G \in SUBSET D /\ G \in SUBSET (0..CantBloques)
    <3>1. Cardinality({}) = 0
      BY FS_EmptySet
    <3>2. G # {}
      <4> HIDE DEF G
      <4> QED
        BY <2>3, <3>1
    <3> QED
      BY ONLY <1>1, <3>2
  <2>5. \A k \in D : k \in G <=> k < m
    <3>1. \A k \in D : k \in Int
      BY <1>1
    <3> QED
      BY ONLY <1>6, <3>1
  <2> HIDE DEF G
  <2>6. Max(G) \in G /\ \A k \in G : k <= Max(G)
    BY <2>4, MayorAcotado
  <2>7. H(Max(G)) = G
    <3>1. ASSUME NEW k \in D PROVE k \in G <=> k <= Max(G)
      <4>1. k \in 0..CantBloques /\ Max(G) \in 0..CantBloques /\ Max(G) \in D
        BY ONLY <1>1, <2>4, <2>6, <3>1
      <4>2. Max(G) < m
        BY ONLY <2>5, <2>6, <4>1
      <4> QED
        BY ONLY <1>6, <2>5, <2>6, <3>1, <4>1, <4>2
    <3> QED
      BY <2>4, <3>1
  <2>8. Max(G) \in I
    BY <2>3, <2>4, <2>6, <2>7
  <2> QED
    BY <1>4, <1>5, <1>6, <2>5, <2>6, <2>8
<1>8. \E x \in D : Cardinality(H(x)) = n
  BY <1>6, <1>7
<1>9. UltimoDe(n) \in D
  BY <1>8 DEF UltimoDe, D
<1> QED
  BY <1>9 DEF D, Desocupados

-----------------------------------------------------------------------------
(* What a write that goes on past a block is made of                       *)

\* Rounds down.
LEMMA Cociente ==
  ASSUME NEW n \in Nat
  PROVE  n \div TamBloque \in Nat
OBVIOUS

LEMMA Producto ==
  ASSUME NEW a \in Nat, NEW c \in Nat
  PROVE  a * c \in Nat
OBVIOUS

\* At least one block is looked for.
LEMMA BuscaAlguno ==
  ASSUME NEW falta \in Nat
  PROVE  CuantosMas(falta) \in Nat \ {0}
BY Cociente DEF CuantosMas

\* The block of the cursor is in the file.
LEMMA CursorEnElArchivo ==
  ASSUME TiposSistema, NEW r \in DOMAIN archivos, NEW cursor \in Nat, ~FueraDelArchivo(r, cursor)
  PROVE  /\ archivos[r] \in Seq(NumerosDeBloque) /\ Len(archivos[r]) \in Nat
         /\ BloqueDe(cursor) \in Nat /\ BloqueDe(cursor) + 1 \in 1..Len(archivos[r])
         /\ archivos[r][BloqueDe(cursor) + 1] \in NumerosDeBloque
         /\ Posteriores(r, cursor) \in Nat
         /\ Posteriores(r, cursor) = Len(archivos[r]) - BloqueDe(cursor) - 1
<1>1. archivos[r] \in Seq(NumerosDeBloque)
  BY DEF TiposSistema
<1>2. Len(archivos[r]) \in Nat
  BY <1>1
<1>3. BloqueDe(cursor) \in Nat
  BY EnSuBloque
<1>4. BloqueDe(cursor) < Len(archivos[r])
  BY <1>2, <1>3 DEF FueraDelArchivo
<1>5. BloqueDe(cursor) + 1 \in 1..Len(archivos[r])
  BY <1>2, <1>3, <1>4
<1>6. archivos[r][BloqueDe(cursor) + 1] \in NumerosDeBloque
  BY <1>1, <1>5, ElementOfSeq
<1> QED
  BY <1>1, <1>2, <1>3, <1>4, <1>5, <1>6 DEF Posteriores

\* The streams left open have blocks and values.
LEMMA StreamsDeBloques ==
  ASSUME TiposSistema, NEW r \in DOMAIN archivos, NEW cursor \in Nat, NEW datos \in Seq(Bytes),
         ~FueraDelArchivo(r, cursor), ~EntraEnElBloque(cursor, datos)
  PROVE  Streams(r, cursor, datos) \in Seq([bloque : NumerosDeBloque, datos : Contenidos])
<1> DEFINE d == BloqueDe(cursor)
           f == FinDeBloque(cursor)
           cuantos == CuantosStreams(r, cursor, datos)
<1>1. d \in Nat /\ f \in Nat /\ f - cursor \in Nat
  BY EnSuBloque
<1>2. archivos[r] \in Seq(NumerosDeBloque) /\ Len(archivos[r]) \in Nat /\ d < Len(archivos[r])
  BY CursorEnElArchivo
<1>3. Posteriores(r, cursor) \in Nat /\ Posteriores(r, cursor) = Len(archivos[r]) - d - 1
  BY CursorEnElArchivo
<1>4. cuantos \in Nat /\ cuantos <= Posteriores(r, cursor)
  <2> DEFINE falta == cursor + Len(datos) - f + TamBloque - 1
  <2>1. falta \in Nat
    BY <1>1 DEF EntraEnElBloque
  <2> HIDE DEF falta, d, f
  <2>2. falta \div TamBloque \in Nat
    BY <2>1, Cociente
  <2>3. cuantos = Min({Posteriores(r, cursor), falta \div TamBloque})
    BY DEF CuantosStreams, falta, d, f
  <2> QED
    BY <1>3, <2>2, <2>3, MenorDeDosNaturales
<1> HIDE DEF d, f, cuantos
<1>5. ASSUME NEW s \in 1..cuantos
      PROVE  /\ archivos[r][d + 1 + s] \in NumerosDeBloque
             /\ Trozo(datos, f - cursor + (s - 1) * TamBloque, TamBloque) \in Contenidos
  <2>1. d + 1 + s \in 1..Len(archivos[r])
    BY <1>1, <1>2, <1>3, <1>4
  <2>2. s - 1 \in Nat
    BY <1>4
  <2>3. (s - 1) * TamBloque \in Nat
    BY <2>2, Producto
  <2>4. f - cursor + (s - 1) * TamBloque \in Nat
    BY <1>1, <2>3
  <2> QED
    BY <1>2, <2>1, <2>4, ElementOfSeq, TrozoEnBloque
<1>6. Streams(r, cursor, datos) =
        [s \in 1..cuantos |->
           [bloque |-> archivos[r][d + 1 + s],
            datos  |-> Trozo(datos, f - cursor + (s - 1) * TamBloque, TamBloque)]]
  BY DEF Streams, d, f, cuantos
<1> QED
  BY <1>4, <1>5, <1>6, SeqDef

\* The block of the cursor keeps its size.
LEMMA EscribeEnSuBloque ==
  ASSUME TiposSistema, NEW r \in DOMAIN archivos, NEW cursor \in Nat, NEW datos \in Seq(Bytes),
         ~FueraDelArchivo(r, cursor)
  PROVE  EnElBloque(r, cursor, datos) \in [NumerosDeBloque -> Contenidos]
<1> DEFINE b == archivos[r][BloqueDe(cursor) + 1]
           n == FinDeBloque(cursor) - cursor
           parte == DatosEnElBloque(cursor, datos)
<1>1. b \in NumerosDeBloque
  BY CursorEnElArchivo
<1>2. /\ cursor % TamBloque \in Nat
      /\ (cursor % TamBloque) + n = TamBloque
      /\ n \in Nat
  BY EnSuBloque
<1>3. parte \in Seq(Bytes) /\ Len(parte) \in Nat /\ Len(parte) <= n
  <2>1. parte = Trozo(datos, 0, n)
    BY DEF DatosEnElBloque
  <2> HIDE DEF n, parte
  <2>2. parte \in Seq(Bytes) /\ Len(parte) <= n
    BY <1>2, <2>1, TrozoAcotado
  <2> QED
    BY <2>2
<1> HIDE DEF b, n, parte
<1>4. (cursor % TamBloque) + Len(parte) <= TamBloque
  BY <1>2, <1>3
<1>5. bloques[b] \in Contenidos /\ bloques \in [NumerosDeBloque -> Contenidos]
  BY <1>1 DEF TiposSistema
<1>6. Escrito(bloques[b], cursor % TamBloque, parte) \in Contenidos
  BY <1>2, <1>3, <1>4, <1>5, EscritoEnBloque
<1>7. EnElBloque(r, cursor, datos) =
        [bloques EXCEPT ![b] = Escrito(bloques[b], cursor % TamBloque, parte)]
  BY DEF EnElBloque, b, parte
<1> QED
  BY <1>1, <1>5, <1>6, <1>7

\* What the new block gets fits in it.
LEMMA NuevoEnBloque ==
  ASSUME TiposSistema, NEW r \in DOMAIN archivos, NEW cursor \in Nat, NEW datos \in Seq(Bytes),
         ~FueraDelArchivo(r, cursor), NEW cuantos \in Nat \ {0}
  PROVE  EnElNuevo(r, cursor, datos, cuantos) \in Contenidos
<1> DEFINE escritos == FinDeBloque(cursor) - cursor + Posteriores(r, cursor) * TamBloque
           restan == Len(datos) - escritos
           rondas == IF restan <= 0 THEN 0
                     ELSE Min({cuantos - 1, (restan - 1) \div TamBloque})
<1>1. Posteriores(r, cursor) \in Nat
  BY CursorEnElArchivo
<1>2. escritos \in Nat
  <2>1. Posteriores(r, cursor) * TamBloque \in Nat
    BY <1>1, Producto
  <2>2. FinDeBloque(cursor) - cursor \in Nat
    BY EnSuBloque
  <2> QED
    BY ONLY <2>1, <2>2
<1> HIDE DEF escritos
<1>3. restan \in Int
  BY <1>2
<1> HIDE DEF restan
<1>4. rondas \in Nat
  <2>1. CASE restan <= 0
    BY <2>1
  <2>2. CASE ~(restan <= 0)
    <3>1. restan - 1 \in Nat
      BY <1>3, <2>2
    <3>2. (restan - 1) \div TamBloque \in Nat /\ cuantos - 1 \in Nat
      BY <3>1, Cociente
    <3>3. Min({cuantos - 1, (restan - 1) \div TamBloque}) \in Nat
      BY <3>2, MenorDeDosNaturales
    <3> QED
      BY <2>2, <3>3
  <2> QED
    BY <2>1, <2>2
<1> HIDE DEF rondas
<1>5. escritos + rondas * TamBloque \in Nat
  <2>1. rondas * TamBloque \in Nat
    BY <1>4, Producto
  <2> QED
    BY <1>2, <2>1
<1>6. EnElNuevo(r, cursor, datos, cuantos) =
        Trozo(datos, escritos + rondas * TamBloque, TamBloque)
  BY DEF EnElNuevo, rondas, restan, escritos
<1> QED
  BY <1>5, <1>6, TrozoEnBloque

\* The streams that reach the blocks at the end leave blocks.
LEMMA VolcadosEnBloques ==
  ASSUME TiposSistema
  PROVE  Volcados \in [NumerosDeBloque -> Contenidos]
<1> DEFINE V == Bytes \cup {Cero}
<1>1. SUFFICES ASSUME NEW b \in NumerosDeBloque PROVE Volcado(b) \in Contenidos
  BY DEF Volcados
<1> DEFINE propios == {k \in DOMAIN sinCerrar : sinCerrar[k].bloque = b}
           Llegan(i) == {k \in propios : i <= Len(sinCerrar[k].datos)}
           largos == {Len(bloques[b])} \cup {Len(sinCerrar[k].datos) : k \in propios}
           largo == Max(largos)
<1>2. bloques[b] \in Seq(V) /\ Len(bloques[b]) \in 0..TamBloque
  <2>1. bloques[b] \in Contenidos
    BY DEF TiposSistema
  <2>2. bloques[b] \in Seq(V) /\ Len(bloques[b]) <= TamBloque
    BY <2>1, ContenidosSonListas
  <2> QED
    BY <2>2
<1>3. propios \in SUBSET Nat
  <2>1. DOMAIN sinCerrar = 1..Len(sinCerrar) /\ Len(sinCerrar) \in Nat
    BY DEF TiposSistema
  <2> QED
    BY <2>1
<1>4. ASSUME NEW k \in propios
      PROVE  sinCerrar[k].datos \in Seq(V) /\ Len(sinCerrar[k].datos) \in 0..TamBloque
  <2>4. sinCerrar \in Seq([bloque : NumerosDeBloque, datos : Contenidos])
    BY DEF TiposSistema
  <2>5. k \in 1..Len(sinCerrar)
    BY <2>4
  <2> HIDE DEF propios
  <2>1. sinCerrar[k] \in [bloque : NumerosDeBloque, datos : Contenidos]
    BY ONLY <2>4, <2>5, ElementOfSeq
  <2>2. sinCerrar[k].datos \in Contenidos
    BY <2>1
  <2>3. sinCerrar[k].datos \in Seq(V) /\ Len(sinCerrar[k].datos) <= TamBloque
    BY <2>2, ContenidosSonListas
  <2> QED
    BY <2>3
<1>5. largo \in 0..TamBloque /\ largo \in largos /\ \A n \in largos : n =< largo
  <2>1. largos \in SUBSET (0..TamBloque) /\ largos # {}
    BY <1>2, <1>4
  <2> HIDE DEF largos
  <2> QED
    BY <2>1, MayorAcotado
<1> HIDE DEF largo
<1>6. ASSUME NEW i \in 1..largo
      PROVE  (IF Llegan(i) = {} THEN bloques[b][i] ELSE sinCerrar[Min(Llegan(i))].datos[i]) \in V
  <2>1. CASE Llegan(i) = {}
    <3>1. i <= Len(bloques[b])
      <4>1. PICK n \in largos : n = largo
        BY <1>5
      <4>2. CASE n = Len(bloques[b])
        BY <4>1, <4>2
      <4>3. ASSUME NEW k \in propios, n = Len(sinCerrar[k].datos) PROVE FALSE
        <5>1. i <= Len(sinCerrar[k].datos)
          BY <4>1, <4>3
        <5> QED
          BY <2>1, <5>1
      <4> QED
        BY <4>1, <4>2, <4>3
    <3>2. i \in 1..Len(bloques[b])
      BY <1>2, <1>5, <3>1
    <3> QED
      BY <1>2, <2>1, <3>2, ElementOfSeq
  <2>2. CASE Llegan(i) # {}
    <3> DEFINE k == Min(Llegan(i))
    <3>1. Llegan(i) \in SUBSET Nat
      BY <1>3
    <3>2. k \in Llegan(i)
      <4> HIDE DEF Llegan
      <4> QED
        BY <2>2, <3>1, MenorDeNaturales
    <3> HIDE DEF k
    <3>3. k \in propios /\ i <= Len(sinCerrar[k].datos)
      BY <3>2
    <3>4. i \in 1..Len(sinCerrar[k].datos)
      BY <1>4, <1>5, <3>3
    <3>5. sinCerrar[k].datos[i] \in V
      BY <1>4, <3>3, <3>4, ElementOfSeq
    <3> QED
      BY <2>2, <3>5 DEF k
  <2> QED
    BY <2>1, <2>2
<1>7. [i \in 1..largo |->
         IF Llegan(i) = {} THEN bloques[b][i] ELSE sinCerrar[Min(Llegan(i))].datos[i]]
      \in [1..largo -> V]
  BY <1>6
<1>8. Volcado(b) = [i \in 1..largo |->
         IF Llegan(i) = {} THEN bloques[b][i] ELSE sinCerrar[Min(Llegan(i))].datos[i]]
  BY DEF Volcado, largo
<1> QED
  BY <1>5, <1>7, <1>8 DEF Contenidos

-----------------------------------------------------------------------------
(* The list of blocks of a file                                            *)

\* In the list a block repeats only after its start and one time after the other.
Juntos(t) ==
  \A i, j \in DOMAIN t : i < j /\ t[i] = t[j] => i > 1 /\ \A k \in i..j : t[k] = t[i]

\* A list that goes on with one free block, as many times as were looked for.
LEMMA ListaAlargada ==
  ASSUME NEW t \in Seq(NumerosDeBloque) \ {<<>>}, NEW u \in NumerosDeBloque, u \notin ToSet(t),
         NEW n \in Nat \ {0}, Juntos(t)
  PROVE  LET a == t \o [s \in 1..n |-> u]
         IN  a \in Seq(NumerosDeBloque) \ {<<>>} /\ ToSet(a) = ToSet(t) \cup {u} /\ Juntos(a)
<1> DEFINE nuevos == [s \in 1..n |-> u]
           a == t \o nuevos
           l == Len(t)
<1>1. nuevos \in Seq(NumerosDeBloque) /\ Len(nuevos) = n
  <2>1. nuevos \in [1..n -> NumerosDeBloque] /\ n \in Nat
    OBVIOUS
  <2> HIDE DEF nuevos
  <2>2. nuevos \in Seq(NumerosDeBloque)
    BY <2>1, SeqDef
  <2> QED
    BY <2>1, <2>2, LenProperties
<1>2. \A s \in 1..n : nuevos[s] = u
  OBVIOUS
<1>3. t \in Seq(NumerosDeBloque) /\ l \in Nat /\ l # 0 /\ DOMAIN t = 1..l
  BY EmptySeq
<1> HIDE DEF nuevos, l
<1>4. /\ a \in Seq(NumerosDeBloque) /\ Len(a) = l + n /\ DOMAIN a = 1..(l + n)
      /\ \A i \in 1..(l + n) : a[i] = IF i <= l THEN t[i] ELSE nuevos[i - l]
  <2>1. l = Len(t)
    BY DEF l
  <2>2. /\ a \in Seq(NumerosDeBloque) /\ Len(a) = Len(t) + Len(nuevos)
        /\ \A i \in 1..(Len(t) + Len(nuevos)) :
             a[i] = IF i <= Len(t) THEN t[i] ELSE nuevos[i - Len(t)]
    BY <1>1, <1>3, ConcatProperties
  <2>3. DOMAIN a = 1..Len(a)
    BY <2>2
  <2> QED
    BY ONLY <1>1, <2>1, <2>2, <2>3
<1> HIDE DEF a
<1>5. ASSUME NEW i \in 1..(l + n)
      PROVE  /\ i <= l => a[i] = t[i] /\ t[i] \in ToSet(t) /\ a[i] # u /\ i \in 1..l
             /\ i > l  => a[i] = u
  <2>1. CASE i <= l
    <3>1. i \in 1..l
      BY <1>3, <2>1
    <3>2. a[i] = t[i]
      BY <1>4, <2>1
    <3>3. t[i] \in ToSet(t)
      BY <1>3, <3>1 DEF ToSet
    <3>4. ~(i > l)
      BY <1>3, <2>1
    <3>5. t[i] # u
      BY <3>3
    <3> QED
      BY ONLY <3>1, <3>2, <3>3, <3>4, <3>5
  <2>2. CASE i > l
    <3>1. i - l \in 1..n /\ ~(i <= l)
      BY <1>3, <2>2
    <3> QED
      BY <1>2, <1>4, <2>2, <3>1
  <2> QED
    BY <1>3, <2>1, <2>2
<1>6. ToSet(a) = ToSet(t) \cup {u}
  <2>1. ASSUME NEW x \in ToSet(a) PROVE x \in ToSet(t) \cup {u}
    <3>1. PICK i \in 1..(l + n) : x = a[i]
      BY <1>4, <2>1 DEF ToSet
    <3> QED
      BY <1>3, <1>5, <3>1
  <2>2. ASSUME NEW x \in ToSet(t) PROVE x \in ToSet(a)
    <3>1. PICK i \in 1..l : x = t[i]
      BY <1>3, <2>2 DEF ToSet
    <3>2. i \in 1..(l + n) /\ i <= l
      BY <1>3, <3>1
    <3> QED
      BY <1>4, <1>5, <3>1, <3>2 DEF ToSet
  <2>3. u \in ToSet(a)
    <3>1. l + 1 \in 1..(l + n) /\ l + 1 > l
      BY <1>3
    <3> QED
      BY <1>4, <1>5, <3>1 DEF ToSet
  <2> QED
    BY <2>1, <2>2, <2>3
<1>7. ASSUME NEW i \in 1..(l + n), NEW j \in 1..(l + n), i < j, a[i] = a[j]
      PROVE  i > 1 /\ \A k \in i..j : a[k] = a[i]
  <2>1. CASE j <= l
    <3>1. i <= l /\ i \in 1..l /\ j \in 1..l /\ t[i] = t[j]
      BY <1>3, <1>5, <1>7, <2>1
    <3>2. i > 1 /\ \A k \in i..j : t[k] = t[i]
      BY <1>3, <1>7, <3>1 DEF Juntos
    <3>3. \A k \in i..j : k \in 1..(l + n) /\ k <= l
      BY <1>3, <2>1
    <3> QED
      BY <1>5, <3>1, <3>2, <3>3
  <2>2. CASE j > l
    <3>1. i > l
      BY <1>3, <1>5, <1>7, <2>2
    <3>2. \A k \in i..j : k \in 1..(l + n) /\ k > l
      BY <1>3, <3>1
    <3> QED
      BY <1>3, <1>5, <3>1, <3>2
  <2> QED
    BY <1>3, <2>1, <2>2
<1>8. Juntos(a)
  BY <1>4, <1>7 DEF Juntos
<1>9. a # <<>>
  BY <1>3, <1>4, EmptySeq
<1> QED
  BY <1>4, <1>6, <1>8, <1>9 DEF a, nuevos

-----------------------------------------------------------------------------
(* The steps                                                               *)

\* What keeps the metadata and the bitmap keeps what is said of them.
LEMMA MismosMetadatos ==
  ASSUME IInvSistema, UNCHANGED <<archivos, bitmap>>,
         bloques' \in [NumerosDeBloque -> Contenidos],
         sinCerrar' \in Seq([bloque : NumerosDeBloque, datos : Contenidos]),
         respuesta'.tipo \in {"nada", "hecho", "error", "datos"},
         falloFS' \in {"ninguno", "sinBloque", "tamanioNegativo"}
  PROVE  IInvSistema'
<1>1. TiposSistema'
  BY DEF IInvSistema, TiposSistema
<1>2. BitmapFiel'
  BY DEF IInvSistema, BitmapFiel
<1>3. UnDuenio'
  BY DEF IInvSistema, UnDuenio
<1>4. RepetidosJuntos'
  BY DEF IInvSistema, RepetidosJuntos
<1> QED
  BY <1>1, <1>2, <1>3, <1>4 DEF IInvSistema

\* Refusals change nothing but the answer.
LEMMA RechazarConserva ==
  ASSUME IInvSistema, Rechazar
  PROVE  IInvSistema'
BY MismosMetadatos DEF Rechazar, Responder, Error, IInvSistema, TiposSistema

LEMMA CaerConserva ==
  ASSUME IInvSistema, NEW motivo \in {"sinBloque", "tamanioNegativo"}, CaerFS(motivo)
  PROVE  IInvSistema'
BY MismosMetadatos DEF CaerFS, IInvSistema, TiposSistema

\* What a block list that grows, or starts, with a free block must keep.
LEMMA NuevaLista ==
  ASSUME IInvSistema, NEW r \in RutasFS, NEW u \in NumerosDeBloque \ bitmap,
         DOMAIN archivos' = DOMAIN archivos \cup {r},
         \A q \in DOMAIN archivos \ {r} : archivos'[q] = archivos[q],
         bitmap' = bitmap \cup {u},
         archivos'[r] \in Seq(NumerosDeBloque) \ {<<>>}, Juntos(archivos'[r]),
         ToSet(archivos'[r]) =
           {u} \cup (IF r \in DOMAIN archivos THEN ToSet(archivos[r]) ELSE {}),
         bloques' \in [NumerosDeBloque -> Contenidos],
         sinCerrar' \in Seq([bloque : NumerosDeBloque, datos : Contenidos]),
         respuesta'.tipo \in {"nada", "hecho", "error", "datos"},
         falloFS' \in {"ninguno", "sinBloque", "tamanioNegativo"}
  PROVE  IInvSistema'
<1>1. TiposSistema'
  <2>1. DOMAIN archivos' \subseteq RutasFS /\ bitmap' \subseteq NumerosDeBloque
    BY DEF IInvSistema, TiposSistema
  <2>2. ASSUME NEW q \in DOMAIN archivos' PROVE archivos'[q] \in Seq(NumerosDeBloque) \ {<<>>}
    BY <2>2 DEF IInvSistema, TiposSistema
  <2> QED
    BY <2>1, <2>2 DEF TiposSistema
<1>2. \A q \in DOMAIN archivos : u \notin ToSet(archivos[q])
  BY DEF IInvSistema, BitmapFiel
<1>3. \A q \in DOMAIN archivos \ {r} : ToSet(archivos'[q]) = ToSet(archivos[q])
  OBVIOUS
<1>4. BitmapFiel'
  <2>1. ASSUME NEW b \in bitmap' PROVE \E q \in DOMAIN archivos' : b \in ToSet(archivos'[q])
    <3>1. CASE b = u
      BY <3>1
    <3>2. CASE b # u
      <4>1. PICK q \in DOMAIN archivos : b \in ToSet(archivos[q])
        BY <2>1, <3>2 DEF IInvSistema, BitmapFiel
      <4>2. b \in ToSet(archivos'[q])
        BY <1>3, <4>1
      <4> QED
        BY <4>1, <4>2
    <3> QED
      BY <3>1, <3>2
  <2>2. ASSUME NEW q \in DOMAIN archivos', NEW b \in ToSet(archivos'[q]) PROVE b \in bitmap'
    BY <1>3 DEF IInvSistema, BitmapFiel
  <2> QED
    BY <2>1, <2>2 DEF BitmapFiel
<1>5. UnDuenio'
  <2>1. ASSUME NEW p \in DOMAIN archivos', NEW q \in DOMAIN archivos', p # q,
               NEW b \in ToSet(archivos'[p]), b \in ToSet(archivos'[q])
        PROVE  FALSE
    <3>1. CASE p # r /\ q # r
      BY <1>3, <2>1, <3>1 DEF IInvSistema, UnDuenio
    <3>2. CASE p = r
      BY <1>2, <1>3, <2>1, <3>2 DEF IInvSistema, UnDuenio
    <3>3. CASE q = r
      BY <1>2, <1>3, <2>1, <3>3 DEF IInvSistema, UnDuenio
    <3> QED
      BY <3>1, <3>2, <3>3
  <2> QED
    BY <2>1 DEF UnDuenio
<1>6. RepetidosJuntos'
  <2>1. ASSUME NEW q \in DOMAIN archivos' PROVE Juntos(archivos'[q])
    BY <2>1 DEF IInvSistema, RepetidosJuntos, Juntos
  <2> QED
    BY <2>1 DEF RepetidosJuntos, Juntos
<1> QED
  BY <1>1, <1>4, <1>5, <1>6 DEF IInvSistema

\* A new file gets a block that no file has.
LEMMA CrearConserva ==
  ASSUME IInvSistema, NEW r \in RutasFS, crearArchivo(r)
  PROVE  IInvSistema'
<1>1. CASE Desocupados = {}
  BY <1>1, RechazarConserva DEF crearArchivo
<1>2. CASE Desocupados # {}
  <2> DEFINE u == PrimerDesocupado
  <2>1. u \in NumerosDeBloque \ bitmap
    BY <1>2, PrimeroDesocupado
  <2>2. /\ r \notin DOMAIN archivos
        /\ bitmap' = bitmap \cup {u}
        /\ archivos' = [q \in DOMAIN archivos \cup {r} |-> IF q = r THEN <<u>> ELSE archivos[q]]
        /\ respuesta' = Hecho
        /\ UNCHANGED <<bloques, sinCerrar, falloFS>>
    BY <1>2 DEF crearArchivo, Existe, Responder
  <2> HIDE DEF u
  <2>3. /\ DOMAIN archivos' = DOMAIN archivos \cup {r}
        /\ \A q \in DOMAIN archivos \ {r} : archivos'[q] = archivos[q]
        /\ archivos'[r] = <<u>>
    BY <2>2
  <2>4. <<u>> \in Seq(NumerosDeBloque) \ {<<>>} /\ ToSet(<<u>>) = {u} /\ Juntos(<<u>>)
    BY <2>1 DEF ToSet, Juntos
  <2>5. /\ bloques' \in [NumerosDeBloque -> Contenidos]
        /\ sinCerrar' \in Seq([bloque : NumerosDeBloque, datos : Contenidos])
        /\ falloFS' \in {"ninguno", "sinBloque", "tamanioNegativo"}
        /\ respuesta'.tipo = "hecho"
    BY <2>2 DEF IInvSistema, TiposSistema, Hecho
  <2> QED
    BY <2>1, <2>2, <2>3, <2>4, <2>5, NuevaLista
<1> QED
  BY <1>1, <1>2

\* The blocks that a deletion frees were of that file only.
LEMMA BorrarConserva ==
  ASSUME IInvSistema, NEW r \in RutasFS, borrarArchivo(r)
  PROVE  IInvSistema'
<1>1. CASE ~Existe(r)
  BY <1>1, RechazarConserva DEF borrarArchivo
<1>2. CASE Existe(r)
  <2>1. /\ r \in DOMAIN archivos
        /\ DOMAIN archivos' = DOMAIN archivos \ {r}
        /\ \A q \in DOMAIN archivos' : archivos'[q] = archivos[q]
        /\ bitmap' = bitmap \ ToSet(archivos[r])
        /\ respuesta'.tipo = "hecho"
        /\ UNCHANGED <<bloques, sinCerrar, falloFS>>
    BY <1>2 DEF borrarArchivo, Existe, Suelta, Responder, Hecho
  <2>2. TiposSistema'
    BY <2>1 DEF IInvSistema, TiposSistema
  <2>3. BitmapFiel'
    <3>1. ASSUME NEW b \in bitmap' PROVE \E q \in DOMAIN archivos' : b \in ToSet(archivos'[q])
      <4>1. b \in bitmap /\ b \notin ToSet(archivos[r])
        BY <2>1
      <4>2. PICK q \in DOMAIN archivos : b \in ToSet(archivos[q])
        BY <4>1 DEF IInvSistema, BitmapFiel
      <4>3. q \in DOMAIN archivos' /\ ToSet(archivos'[q]) = ToSet(archivos[q])
        BY <2>1, <4>1, <4>2
      <4> QED
        BY <4>2, <4>3
    <3>2. ASSUME NEW q \in DOMAIN archivos', NEW b \in ToSet(archivos'[q]) PROVE b \in bitmap'
      <4>1. q \in DOMAIN archivos /\ q # r /\ b \in ToSet(archivos[q])
        BY <2>1, <3>2
      <4>2. b \in bitmap /\ b \notin ToSet(archivos[r])
        BY <2>1, <4>1 DEF IInvSistema, BitmapFiel, UnDuenio
      <4> QED
        BY <2>1, <4>2
    <3> QED
      BY <3>1, <3>2 DEF BitmapFiel
  <2>4. UnDuenio'
    BY <2>1 DEF IInvSistema, UnDuenio
  <2>5. RepetidosJuntos'
    BY <2>1 DEF IInvSistema, RepetidosJuntos
  <2> QED
    BY <2>2, <2>3, <2>4, <2>5 DEF IInvSistema
<1> QED
  BY <1>1, <1>2

LEMMA LeerConserva ==
  ASSUME IInvSistema, NEW r \in RutasFS, NEW cursor \in Cursores, NEW size \in Tamanios,
         obtenerDatos(r, cursor, size)
  PROVE  IInvSistema'
<1>1. CASE Rechazar
  BY <1>1, RechazarConserva
<1>2. CASE \E motivo \in {"sinBloque", "tamanioNegativo"} : CaerFS(motivo)
  BY <1>2, CaerConserva
<1>3. CASE respuesta'.tipo = "datos" /\ UNCHANGED <<archivos, bitmap, bloques, sinCerrar, falloFS>>
  BY <1>3, MismosMetadatos DEF IInvSistema, TiposSistema
<1> QED
  BY <1>1, <1>2, <1>3 DEF obtenerDatos, Responder

LEMMA ApagarConserva ==
  ASSUME IInvSistema, Apagar
  PROVE  IInvSistema'
<1>1. bloques' \in [NumerosDeBloque -> Contenidos]
  <2>1. TiposSistema
    BY DEF IInvSistema
  <2>2. CASE bloques' = Volcados
    BY <2>1, <2>2, VolcadosEnBloques
  <2>3. CASE UNCHANGED bloques
    BY <2>1, <2>3 DEF TiposSistema
  <2> QED
    BY <2>2, <2>3 DEF Apagar
<1>2. /\ UNCHANGED <<archivos, bitmap>>
      /\ sinCerrar' \in Seq([bloque : NumerosDeBloque, datos : Contenidos])
      /\ respuesta'.tipo = "nada"
      /\ falloFS' \in {"ninguno", "sinBloque", "tamanioNegativo"}
  BY DEF Apagar, Responder, Nada, IInvSistema, TiposSistema
<1> QED
  BY <1>1, <1>2, MismosMetadatos

\* A write keeps the blocks of the other files, also when it lists one new block many times.
LEMMA ExtenderConserva ==
  ASSUME IInvSistema, NEW r \in DOMAIN archivos, NEW cursor \in Nat, NEW datos \in Seq(Bytes),
         ~FueraDelArchivo(r, cursor), NEW n \in Nat \ {0}, Cardinality(Desocupados) >= n,
         Extender(r, cursor, datos, n),
         sinCerrar' \in Seq([bloque : NumerosDeBloque, datos : Contenidos]),
         respuesta' = Hecho, UNCHANGED falloFS
  PROVE  IInvSistema'
<1> DEFINE u == UltimoDe(n)
           nuevo == EnElNuevo(r, cursor, datos, n)
           bs == EnElBloque(r, cursor, datos)
           nuevos == [s \in 1..n |-> u]
<1>1. u \in NumerosDeBloque \ bitmap
  BY UltimoDesocupado
<1>2. TiposSistema
  BY DEF IInvSistema
<1>3. nuevo \in Contenidos /\ bs \in [NumerosDeBloque -> Contenidos]
  BY <1>2, EscribeEnSuBloque, NuevoEnBloque
<1>4. /\ bloques' = [bs EXCEPT ![u] = nuevo]
      /\ bitmap' = bitmap \cup {u}
      /\ archivos' = [archivos EXCEPT ![r] = archivos[r] \o nuevos]
  BY DEF Extender
<1> HIDE DEF u, nuevo, bs
<1>5. bloques' \in [NumerosDeBloque -> Contenidos]
  BY <1>1, <1>3, <1>4
<1>6. u \notin ToSet(archivos[r]) /\ Juntos(archivos[r])
      /\ archivos[r] \in Seq(NumerosDeBloque) \ {<<>>}
  BY <1>1 DEF IInvSistema, BitmapFiel, RepetidosJuntos, Juntos, TiposSistema
<1>7. /\ archivos[r] \o nuevos \in Seq(NumerosDeBloque) \ {<<>>}
      /\ ToSet(archivos[r] \o nuevos) = ToSet(archivos[r]) \cup {u}
      /\ Juntos(archivos[r] \o nuevos)
  BY <1>1, <1>6, ListaAlargada
<1> HIDE DEF nuevos
<1>8. /\ DOMAIN archivos' = DOMAIN archivos \cup {r}
      /\ \A q \in DOMAIN archivos \ {r} : archivos'[q] = archivos[q]
      /\ archivos'[r] = archivos[r] \o nuevos
  BY <1>4
<1>9. r \in RutasFS /\ falloFS' \in {"ninguno", "sinBloque", "tamanioNegativo"}
      /\ respuesta'.tipo = "hecho"
  BY DEF IInvSistema, TiposSistema, Hecho
<1>10. ToSet(archivos'[r]) =
         {u} \cup (IF r \in DOMAIN archivos THEN ToSet(archivos[r]) ELSE {})
  BY <1>7, <1>8
<1>11. archivos'[r] \in Seq(NumerosDeBloque) \ {<<>>} /\ Juntos(archivos'[r])
  BY <1>7, <1>8
<1>12. bitmap' = bitmap \cup {u}
  BY <1>4
<1> QED
  BY <1>1, <1>5, <1>8, <1>9, <1>10, <1>11, <1>12, NuevaLista

LEMMA GuardarConserva ==
  ASSUME IInvSistema, NEW r \in RutasFS, NEW cursor \in Cursores, NEW datos \in Datos,
         guardarDatos(r, cursor, datos)
  PROVE  IInvSistema'
<1>1. cursor \in Nat /\ datos \in Seq(Bytes) /\ TiposSistema
  BY DEF IInvSistema
<1>2. CASE ~Existe(r)
  BY <1>2, RechazarConserva DEF guardarDatos
<1>3. CASE Existe(r) /\ FueraDelArchivo(r, cursor)
  BY <1>3, CaerConserva DEF guardarDatos
<1>4. CASE Existe(r) /\ ~FueraDelArchivo(r, cursor)
  <2>1. r \in DOMAIN archivos /\ ~FueraDelArchivo(r, cursor)
    BY <1>4 DEF Existe
  <2>2. EnElBloque(r, cursor, datos) \in [NumerosDeBloque -> Contenidos]
    BY <1>1, <2>1, EscribeEnSuBloque
  <2>3. CASE EntraEnElBloque(cursor, datos)
    <3>1. /\ bloques' = EnElBloque(r, cursor, datos)
          /\ respuesta' = Hecho
          /\ UNCHANGED <<archivos, bitmap, sinCerrar, falloFS>>
      BY <1>4, <2>3 DEF guardarDatos, Responder
    <3> QED
      BY <2>2, <3>1, MismosMetadatos DEF Hecho, IInvSistema, TiposSistema
  <2>4. CASE ~EntraEnElBloque(cursor, datos)
    <3> DEFINE n == CuantosMas(cursor + Len(datos) - FinDeBloque(cursor))
               st == Streams(r, cursor, datos)
    <3>1. n \in Nat \ {0}
      <4>1. cursor + Len(datos) - FinDeBloque(cursor) \in Nat
        <5>1. FinDeBloque(cursor) \in Nat /\ Len(datos) \in Nat
          BY <1>1, EnSuBloque
        <5>2. ~(cursor + Len(datos) < FinDeBloque(cursor))
          BY <2>4 DEF EntraEnElBloque
        <5> QED
          BY <1>1, <5>1, <5>2
      <4> QED
        BY <4>1, BuscaAlguno
    <3>2. st \in Seq([bloque : NumerosDeBloque, datos : Contenidos])
      BY <1>1, <2>1, <2>4, StreamsDeBloques
    <3>3. EnVarios(r, cursor, datos)
      BY <1>4, <2>4 DEF guardarDatos
    <3>4. CASE Rechazar
      BY <3>4, RechazarConserva
    <3>5. CASE ~Rechazar
      <4>1. /\ sinCerrar' = sinCerrar \o st
            /\ \/ bloques' = EnElBloque(r, cursor, datos) /\ UNCHANGED <<archivos, bitmap>>
               \/ Cardinality(Desocupados) >= n /\ Extender(r, cursor, datos, n)
            /\ respuesta' = Hecho
            /\ UNCHANGED falloFS
        BY <3>3, <3>5 DEF EnVarios, Responder
      <4> HIDE DEF n, st
      <4>2. sinCerrar' \in Seq([bloque : NumerosDeBloque, datos : Contenidos])
        BY <1>1, <3>2, <4>1, ConcatProperties DEF TiposSistema
      <4>3. CASE bloques' = EnElBloque(r, cursor, datos) /\ UNCHANGED <<archivos, bitmap>>
        BY <2>2, <4>1, <4>2, <4>3, MismosMetadatos DEF Hecho, IInvSistema, TiposSistema
      <4>4. CASE Cardinality(Desocupados) >= n /\ Extender(r, cursor, datos, n)
        BY <1>1, <2>1, <3>1, <4>1, <4>2, <4>4, ExtenderConserva
      <4> QED
        BY <4>1, <4>3, <4>4
    <3> QED
      BY <3>4, <3>5
  <2> QED
    BY <2>3, <2>4
<1> QED
  BY <1>2, <1>3, <1>4

LEMMA IInvSistemaInicial ==
  ASSUME InitFS
  PROVE  IInvSistema
<1>1. /\ DOMAIN archivos = {} /\ bitmap = {} /\ sinCerrar = <<>>
      /\ bloques = [b \in NumerosDeBloque |-> <<>>]
      /\ respuesta.tipo = "nada" /\ falloFS = "ninguno"
  BY DEF InitFS, Nada
<1>2. <<>> \in Contenidos
  <2>1. <<>> \in Seq(Bytes \cup {Cero}) /\ Len(<<>>) = 0 /\ 0 <= TamBloque
    BY EmptySeq
  <2> QED
    BY <2>1, ContenidosSonListas
<1>3. TiposSistema
  BY <1>1, <1>2 DEF TiposSistema
<1>4. BitmapFiel /\ UnDuenio /\ RepetidosJuntos
  BY <1>1 DEF BitmapFiel, UnDuenio, RepetidosJuntos
<1> QED
  BY <1>3, <1>4 DEF IInvSistema

LEMMA IInvSistemaInductivo ==
  IInvSistema /\ [NextFS]_varsFS => IInvSistema'
<1> SUFFICES ASSUME IInvSistema, [NextFS]_varsFS PROVE IInvSistema'
  OBVIOUS
<1>1. ASSUME NEW r \in RutasFS, crearArchivo(r) PROVE IInvSistema'
  BY <1>1, CrearConserva
<1>2. ASSUME NEW r \in RutasFS, borrarArchivo(r) PROVE IInvSistema'
  BY <1>2, BorrarConserva
<1>3. ASSUME NEW r \in RutasFS, NEW c \in Cursores, NEW n \in Tamanios, obtenerDatos(r, c, n)
      PROVE  IInvSistema'
  BY <1>3, LeerConserva
<1>4. ASSUME NEW r \in RutasFS, NEW c \in Cursores, NEW d \in Datos, guardarDatos(r, c, d)
      PROVE  IInvSistema'
  BY <1>4, GuardarConserva
<1>5. CASE Apagar
  BY <1>5, ApagarConserva
<1>6. CASE UNCHANGED varsFS
  BY <1>6, MismosMetadatos DEF varsFS, IInvSistema, TiposSistema
<1> QED
  BY <1>1, <1>2, <1>3, <1>4, <1>5, <1>6 DEF NextFS, connectionHandler

\* Through creations, deletions, writes that lengthen a file and stops of the process
\* (funcionesFS.h): the bitmap says of a block that it is taken if and only if it is in a
\* file, no block is in two files, and a block repeats in one only where a request listed it
\* again, for any number and size of blocks, any files and any requests.
THEOREM InvarianteSistema == SpecFS => []IInvSistema
<1>1. InitFS => IInvSistema
  BY IInvSistemaInicial
<1>2. IInvSistema /\ [NextFS]_varsFS => IInvSistema'
  BY IInvSistemaInductivo
<1> QED
  BY <1>1, <1>2, PTL DEF SpecFS

-----------------------------------------------------------------------------
(* The refinement of Almacen: where a position is                          *)

LEMMA Lugares ==
  ASSUME NEW p \in Nat
  PROVE  /\ p \div TamBloque \in Nat /\ p % TamBloque \in 0..(TamBloque - 1)
         /\ p = TamBloque * (p \div TamBloque) + (p % TamBloque)
OBVIOUS

LEMMA Creciente ==
  ASSUME NEW a \in Int, NEW c \in Int, a <= c
  PROVE  a * TamBloque \in Int /\ c * TamBloque \in Int /\ a * TamBloque <= c * TamBloque
         /\ TamBloque * a = a * TamBloque /\ (a + 1) * TamBloque = a * TamBloque + TamBloque
         /\ TamBloque * c = c * TamBloque
OBVIOUS

\* Only one block, and one byte of it, is at a position.
LEMMA UnLugar ==
  ASSUME NEW n \in Nat, NEW m \in 0..(TamBloque - 1)
  PROVE  /\ n * TamBloque + m \in Nat
         /\ (n * TamBloque + m) \div TamBloque = n
         /\ (n * TamBloque + m) % TamBloque = m
<1> DEFINE p == n * TamBloque + m
           q == p \div TamBloque
           k == p % TamBloque
<1>1. p \in Nat
  BY Producto
<1>2. q \in Nat /\ k \in 0..(TamBloque - 1) /\ p = TamBloque * q + k
  BY <1>1, Lugares
<1>3. p = n * TamBloque + m
  OBVIOUS
<1> HIDE DEF p, q, k
<1>4. ~(q < n)
  <2> SUFFICES ASSUME q + 1 <= n PROVE FALSE
    BY <1>2
  <2>1. (q + 1) * TamBloque <= n * TamBloque /\ (q + 1) * TamBloque \in Int /\ n * TamBloque \in Int
    BY <1>2, Creciente
  <2>2. (q + 1) * TamBloque = q * TamBloque + TamBloque /\ TamBloque * q = q * TamBloque
        /\ q * TamBloque \in Int
    BY <1>2, Creciente
  <2> QED
    BY <1>2, <1>3, <2>1, <2>2
<1>5. ~(n < q)
  <2> SUFFICES ASSUME n + 1 <= q PROVE FALSE
    BY <1>2
  <2>1. (n + 1) * TamBloque <= q * TamBloque /\ (n + 1) * TamBloque \in Int /\ q * TamBloque \in Int
        /\ TamBloque * q = q * TamBloque
    BY <1>2, Creciente
  <2>2. (n + 1) * TamBloque = n * TamBloque + TamBloque /\ n * TamBloque \in Int
    BY Creciente
  <2> QED
    BY <1>2, <1>3, <2>1, <2>2
<1>6. q = n
  BY ONLY <1>2, <1>4, <1>5, n \in Nat
<1>7. k = m
  <2>1. TamBloque * q = n * TamBloque /\ n * TamBloque \in Int
    BY <1>6, Creciente
  <2> QED
    BY ONLY <1>2, <1>3, <2>1, m \in 0..(TamBloque - 1), TamBloque \in Nat
<1> QED
  BY <1>1, <1>6, <1>7 DEF p, q, k

\* A position is before the end of l blocks if and only if its block is one of them.
LEMMA Antes ==
  ASSUME NEW p \in Nat, NEW l \in Nat
  PROVE  p \in 0..(l * TamBloque - 1) <=> p \div TamBloque < l
<1> DEFINE q == p \div TamBloque
           k == p % TamBloque
<1>1. q \in Nat /\ k \in 0..(TamBloque - 1) /\ p = TamBloque * q + k
  BY Lugares
<1>2. l * TamBloque \in Int
  OBVIOUS
<1> HIDE DEF q, k
<1>3. TamBloque * q = q * TamBloque /\ q * TamBloque \in Int
      /\ (q + 1) * TamBloque = q * TamBloque + TamBloque
  BY <1>1, Creciente
<1>4. ASSUME q < l PROVE p \in 0..(l * TamBloque - 1)
  <2>1. (q + 1) * TamBloque <= l * TamBloque
    BY <1>1, <1>4, Creciente
  <2> QED
    BY <1>1, <1>2, <1>3, <2>1
<1>5. ASSUME ~(q < l) PROVE ~(p \in 0..(l * TamBloque - 1))
  <2>1. l * TamBloque <= q * TamBloque
    BY <1>1, <1>5, Creciente
  <2> QED
    BY <1>1, <1>2, <1>3, <2>1
<1> QED
  BY <1>4, <1>5 DEF q

-----------------------------------------------------------------------------
\* Where the byte of a position is.
LEMMA LugarEnElArchivo ==
  ASSUME TiposSistema, NEW r \in DOMAIN archivos, NEW p \in PosicionesDe(r)
  PROVE  /\ p \in Nat /\ archivos[r] \in Seq(NumerosDeBloque) /\ Len(archivos[r]) \in Nat
         /\ BloqueDe(p) \in Nat /\ BloqueDe(p) + 1 \in 1..Len(archivos[r])
         /\ archivos[r][BloqueDe(p) + 1] \in NumerosDeBloque
         /\ archivos[r][BloqueDe(p) + 1] \in ToSet(archivos[r])
         /\ p % TamBloque \in 0..(TamBloque - 1)
         /\ ContenidoDe(r)[p] =
              IF p % TamBloque < Len(bloques[archivos[r][BloqueDe(p) + 1]])
              THEN bloques[archivos[r][BloqueDe(p) + 1]][(p % TamBloque) + 1] ELSE Basura
<1>1. archivos[r] \in Seq(NumerosDeBloque)
  BY DEF TiposSistema
<1>2. Len(archivos[r]) \in Nat /\ DOMAIN archivos[r] = 1..Len(archivos[r])
  BY <1>1
<1>3. p \in Nat
  <2>1. Len(archivos[r]) * TamBloque \in Int
    BY <1>2
  <2> QED
    BY <2>1 DEF PosicionesDe
<1>4. p \div TamBloque < Len(archivos[r])
  BY <1>2, <1>3, Antes DEF PosicionesDe
<1>5. p \div TamBloque \in Nat /\ p % TamBloque \in 0..(TamBloque - 1)
  BY <1>3, Lugares
<1>6. BloqueDe(p) \in Nat /\ BloqueDe(p) + 1 \in 1..Len(archivos[r])
  BY <1>2, <1>4, <1>5 DEF BloqueDe
<1>7. archivos[r][BloqueDe(p) + 1] \in NumerosDeBloque
      /\ archivos[r][BloqueDe(p) + 1] \in ToSet(archivos[r])
  BY <1>1, <1>2, <1>6 DEF ToSet
<1>8. ContenidoDe(r)[p] = Byte(r, BloqueDe(p), p % TamBloque)
  BY DEF ContenidoDe
<1> QED
  BY <1>1, <1>2, <1>3, <1>5, <1>6, <1>7, <1>8 DEF Byte

\* What a step that leaves a file alone does to its bytes.
LEMMA IntactoAbstracto ==
  ASSUME NEW q \in DOMAIN archivos, q \in DOMAIN archivos',
         PosicionesDe(q)' = PosicionesDe(q), DudosasDe(q)' \subseteq DudosasDe(q),
         \A p \in PosicionesDe(q) :
           p \notin DudosasDe(q) /\ p \notin DudosasDe(q)' /\ ContenidoDe(q)[p] # Basura =>
             ContenidoDe(q)'[p] = ContenidoDe(q)[p]
  PROVE  Almacenado!Intacto(q)
<1>1. DOMAIN ContenidoDe(q) = PosicionesDe(q) /\ DOMAIN ContenidoDe(q)' = PosicionesDe(q)'
  BY DEF ContenidoDe
<1> QED
  BY <1>1 DEF Almacenado!Intacto, Almacenado!Conserva, Almacenado!Firme

\* A file whose list stays, with no new stream of its blocks, and whose blocks change only
\* if they had a stream, is intact.
LEMMA ArchivoIntacto ==
  ASSUME TiposSistema, NEW q \in DOMAIN archivos, q \in DOMAIN archivos', archivos'[q] = archivos[q],
         \A b \in ToSet(archivos[q]) :
           /\ (\E s \in ToSet(sinCerrar') : s.bloque = b) => \E s \in ToSet(sinCerrar) : s.bloque = b
           /\ (\E s \in ToSet(sinCerrar) : s.bloque = b) \/ bloques'[b] = bloques[b]
  PROVE  Almacenado!Intacto(q)
<1>1. PosicionesDe(q)' = PosicionesDe(q)
  BY DEF PosicionesDe
<1>2. ASSUME NEW p \in DudosasDe(q)' PROVE p \in DudosasDe(q)
  <2>1. p \in PosicionesDe(q)
    BY <1>1, <1>2 DEF DudosasDe
  <2> DEFINE n == BloqueDe(p) + 1
  <2>2. n \in 1..Len(archivos[q]) /\ archivos[q][n] \in ToSet(archivos[q])
    BY <2>1, LugarEnElArchivo
  <2>3. EnDuda(q, n)'
    BY <1>2 DEF DudosasDe
  <2> HIDE DEF n
  <2>4. EnDuda(q, n)
    BY <2>2, <2>3 DEF EnDuda
  <2> QED
    BY <2>1, <2>4 DEF DudosasDe, n
<1>3. ASSUME NEW p \in PosicionesDe(q), p \notin DudosasDe(q)
      PROVE  ContenidoDe(q)'[p] = ContenidoDe(q)[p]
  <2> DEFINE b == archivos[q][BloqueDe(p) + 1]
  <2>1. b \in ToSet(archivos[q])
    BY LugarEnElArchivo
  <2>2. ~EnDuda(q, BloqueDe(p) + 1)
    BY <1>3 DEF DudosasDe
  <2>3. bloques'[b] = bloques[b]
    BY <2>1, <2>2 DEF EnDuda
  <2>4. ContenidoDe(q)[p] = Byte(q, BloqueDe(p), p % TamBloque)
    BY DEF ContenidoDe
  <2>5. ContenidoDe(q)'[p] = Byte(q, BloqueDe(p), p % TamBloque)'
    BY <1>1 DEF ContenidoDe
  <2>6. Byte(q, BloqueDe(p), p % TamBloque)' = Byte(q, BloqueDe(p), p % TamBloque)
    BY <2>3 DEF Byte
  <2> QED
    BY <2>4, <2>5, <2>6
<1> QED
  BY <1>1, <1>2, <1>3, IntactoAbstracto

-----------------------------------------------------------------------------
(* One step of Almacen for each request                                    *)

LEMMA RechazarAbstracto ==
  ASSUME Rechazar
  PROVE  Almacenado!Rechazar
<1>1. UNCHANGED <<archivos, bloques, sinCerrar>> /\ respuesta' = [tipo |-> "error"]
  BY DEF Rechazar, Responder, Error
<1>2. [r \in DOMAIN archivos |-> ContenidoDe(r)]' = [r \in DOMAIN archivos |-> ContenidoDe(r)]
  BY <1>1 DEF ContenidoDe, PosicionesDe, Byte
<1>3. [r \in DOMAIN archivos |-> DudosasDe(r)]' = [r \in DOMAIN archivos |-> DudosasDe(r)]
  BY <1>1 DEF DudosasDe, PosicionesDe, EnDuda
<1> QED
  BY <1>1, <1>2, <1>3 DEF Almacenado!Rechazar

LEMMA NadaCambia ==
  ASSUME UNCHANGED <<archivos, bloques, sinCerrar, respuesta>>
  PROVE  UNCHANGED Almacenado!varsAlmacen
<1>2. [r \in DOMAIN archivos |-> ContenidoDe(r)]' = [r \in DOMAIN archivos |-> ContenidoDe(r)]
  BY DEF ContenidoDe, PosicionesDe, Byte
<1>3. [r \in DOMAIN archivos |-> DudosasDe(r)]' = [r \in DOMAIN archivos |-> DudosasDe(r)]
  BY DEF DudosasDe, PosicionesDe, EnDuda
<1> QED
  BY <1>2, <1>3 DEF Almacenado!varsAlmacen

LEMMA InicioDelAlmacen ==
  ASSUME InitFS
  PROVE  Almacenado!InitAlmacen
<1>1. archivos = <<>> /\ DOMAIN archivos = {} /\ respuesta = [tipo |-> "nada"]
  BY DEF InitFS, Nada
<1>2. [r \in DOMAIN archivos |-> ContenidoDe(r)] = <<>>
  BY <1>1
<1>3. [r \in DOMAIN archivos |-> DudosasDe(r)] = <<>>
  BY <1>1
<1> QED
  BY <1>1, <1>2, <1>3 DEF Almacenado!InitAlmacen

LEMMA CrearAbstracto ==
  ASSUME IInvSistema, NEW r \in RutasFS, crearArchivo(r)
  PROVE  Almacenado!Rechazar \/ Almacenado!Crear(r)
<1>1. CASE Desocupados = {}
  BY <1>1, RechazarAbstracto DEF crearArchivo
<1>2. CASE Desocupados # {}
  <2>1. /\ r \notin DOMAIN archivos
        /\ archivos' = [q \in DOMAIN archivos \cup {r} |->
                          IF q = r THEN <<PrimerDesocupado>> ELSE archivos[q]]
        /\ respuesta' = [tipo |-> "hecho"]
        /\ UNCHANGED <<bloques, sinCerrar>>
    BY <1>2 DEF crearArchivo, Existe, Responder, Hecho
  <2>2. /\ DOMAIN archivos' = DOMAIN archivos \cup {r}
        /\ \A q \in DOMAIN archivos : q # r /\ archivos'[q] = archivos[q]
        /\ Len(archivos'[r]) = 1
    BY <2>1
  <2>3. DOMAIN ContenidoDe(r)' = 0..(TamBloque - 1)
    <3>1. DOMAIN ContenidoDe(r)' = 0..(Len(archivos'[r]) * TamBloque - 1)
      BY DEF ContenidoDe, PosicionesDe
    <3>2. 1 * TamBloque = TamBloque
      OBVIOUS
    <3> QED
      BY <2>2, <3>1, <3>2
  <2>4. \A q \in DOMAIN archivos : Almacenado!Intacto(q)
    BY <2>1, <2>2, ArchivoIntacto DEF IInvSistema
  <2> QED
    BY <2>1, <2>2, <2>3, <2>4 DEF Almacenado!Crear, Almacenado!LosDemas, Almacenado!Hay
<1> QED
  BY <1>1, <1>2

LEMMA BorrarAbstracto ==
  ASSUME IInvSistema, NEW r \in RutasFS, borrarArchivo(r)
  PROVE  Almacenado!Rechazar \/ Almacenado!Borrar(r)
<1>1. CASE ~Existe(r)
  BY <1>1, RechazarAbstracto DEF borrarArchivo
<1>2. CASE Existe(r)
  <2>1. /\ r \in DOMAIN archivos
        /\ archivos' = [q \in DOMAIN archivos \ {r} |-> archivos[q]]
        /\ respuesta' = [tipo |-> "hecho"]
        /\ UNCHANGED <<bloques, sinCerrar>>
    BY <1>2 DEF borrarArchivo, Existe, Responder, Hecho
  <2>2. /\ DOMAIN archivos' = DOMAIN archivos \ {r}
        /\ \A q \in DOMAIN archivos \ {r} : archivos'[q] = archivos[q]
    BY <2>1
  <2>3. \A q \in DOMAIN archivos \ {r} : Almacenado!Intacto(q)
    BY <2>1, <2>2, ArchivoIntacto DEF IInvSistema
  <2> QED
    BY <2>1, <2>2, <2>3 DEF Almacenado!Borrar, Almacenado!LosDemas, Almacenado!Hay
<1> QED
  BY <1>1, <1>2

\* What is read from the first block on is what those positions have.
LEMMA LeidoEnSuLugar ==
  ASSUME TiposSistema, NEW r \in DOMAIN archivos, NEW cursor \in Nat, NEW size \in Nat \ {0},
         BloqueDe(cursor) + BloquesALeer(cursor, size) <= Len(archivos[r]),
         cursor < TamBloque, NEW i \in 1..size
  PROVE  /\ cursor + i - 1 \in PosicionesDe(r)
         /\ Leido(r, cursor, size)[i] = ContenidoDe(r)[cursor + i - 1]
<1> DEFINE p == cursor + i - 1
           l == Len(archivos[r])
           B == BloquesALeer(cursor, size)
           primeros == DelPrimero(cursor, size)
           j == i - primeros - 1
<1>1. l \in Nat /\ p \in Nat /\ p <= cursor + size - 1
  BY DEF TiposSistema
<1>2. BloqueDe(cursor) = 0
  BY DEF BloqueDe
<1>3. p \in PosicionesDe(r)
  <2> DEFINE n == size + cursor + TamBloque - 1
  <2>1. n \in Nat
    OBVIOUS
  <2>2. n \div TamBloque \in Nat /\ n % TamBloque \in 0..(TamBloque - 1)
        /\ n = TamBloque * (n \div TamBloque) + (n % TamBloque)
    BY <2>1, Lugares
  <2>3. B = n \div TamBloque
    BY DEF BloquesALeer
  <2>4. n = size + cursor + TamBloque - 1
    OBVIOUS
  <2> HIDE DEF n, p, B
  <2>5. B \in Nat /\ TamBloque * B = B * TamBloque /\ B * TamBloque \in Int
    <3>1. B \in Nat
      BY ONLY <2>2, <2>3
    <3> QED
      BY <3>1, Creciente
  <2>6. p \in 0..(B * TamBloque - 1)
    BY <1>1, <2>2, <2>3, <2>4, <2>5
  <2>7. p \div TamBloque < B
    BY <1>1, <2>5, <2>6, Antes
  <2>8. B <= l
    BY <1>1, <1>2, <2>5 DEF B
  <2>9. p \div TamBloque < l
    BY <1>1, <2>5, <2>7, <2>8, Lugares
  <2>10. p \in 0..(l * TamBloque - 1)
    BY <1>1, <2>9, Antes
  <2> QED
    BY <2>10 DEF PosicionesDe
<1>4. ContenidoDe(r)[p] = Byte(r, BloqueDe(p), p % TamBloque)
  BY <1>3 DEF ContenidoDe
<1>5. Leido(r, cursor, size)[i] =
        IF i <= primeros THEN Byte(r, 0, p)
        ELSE Byte(r, 0 + 1 + j \div TamBloque, j % TamBloque)
  BY <1>2 DEF Leido
<1>6. primeros \in {size, TamBloque - cursor} /\ primeros <= size /\ primeros <= TamBloque - cursor
      /\ primeros \in Int
  <2>1. TamBloque - cursor \in Int /\ size \in Int
    OBVIOUS
  <2>2. primeros = Min({size, TamBloque - cursor})
    BY DEF DelPrimero
  <2> HIDE DEF primeros
  <2> QED
    BY <2>1, <2>2, MenorDeDos
<1> HIDE DEF p, primeros, j
<1>7. CASE i <= primeros
  <2>1. p \in 0..(TamBloque - 1) /\ p = 0 * TamBloque + p
    BY <1>1, <1>6, <1>7 DEF p
  <2>2. p \div TamBloque = 0 /\ p % TamBloque = p
    BY <2>1, UnLugar
  <2> QED
    BY <1>3, <1>4, <1>5, <1>7, <2>2 DEF BloqueDe, p
<1>8. CASE ~(i <= primeros)
  <2>1. j \in Nat /\ p = TamBloque + j
    BY <1>6, <1>8 DEF p, j
  <2>2. j \div TamBloque \in Nat /\ j % TamBloque \in 0..(TamBloque - 1)
        /\ j = TamBloque * (j \div TamBloque) + (j % TamBloque)
    BY <2>1, Lugares
  <2> DEFINE n == j \div TamBloque
             m == j % TamBloque
  <2> HIDE DEF n, m
  <2>3. n \in Nat /\ m \in 0..(TamBloque - 1) /\ j = TamBloque * n + m
    BY <2>2 DEF n, m
  <2>4. p = (n + 1) * TamBloque + m
    <3>1. TamBloque * n = n * TamBloque /\ (n + 1) * TamBloque = n * TamBloque + TamBloque
          /\ n * TamBloque \in Int
      BY <2>3, Creciente
    <3> QED
      BY <2>1, <2>3, <3>1
  <2>5. p \div TamBloque = n + 1 /\ p % TamBloque = m
    <3>1. n + 1 \in Nat
      BY <2>3
    <3> QED
      BY <2>3, <2>4, <3>1, UnLugar
  <2>6. 0 + 1 + n = n + 1
    BY <2>3
  <2> QED
    BY <1>3, <1>4, <1>5, <1>8, <2>5, <2>6 DEF BloqueDe, p, n, m
<1> QED
  BY <1>7, <1>8

LEMMA LeerAbstracto ==
  ASSUME IInvSistema, NEW r \in RutasFS, NEW cursor \in Cursores, NEW size \in Tamanios,
         obtenerDatos(r, cursor, size)
  PROVE  Almacenado!Rechazar \/ Almacenado!Leer(r) \/ UNCHANGED Almacenado!varsAlmacen
<1>1. CASE Rechazar
  BY <1>1, RechazarAbstracto
<1>2. CASE \E motivo \in {"sinBloque", "tamanioNegativo"} : CaerFS(motivo)
  BY <1>2, NadaCambia DEF CaerFS
<1>3. CASE /\ r \in DOMAIN archivos
           /\ BloqueDe(cursor) + BloquesALeer(cursor, size) <= Len(archivos[r])
           /\ respuesta' = [tipo |-> "datos", ruta |-> r, cursor |-> cursor,
                            datos |-> Leido(r, cursor, size)]
           /\ UNCHANGED <<archivos, bloques, sinCerrar>>
  <2>1. [q \in DOMAIN archivos |-> ContenidoDe(q)]' = [q \in DOMAIN archivos |-> ContenidoDe(q)]
    BY <1>3 DEF ContenidoDe, PosicionesDe, Byte
  <2>2. [q \in DOMAIN archivos |-> DudosasDe(q)]' = [q \in DOMAIN archivos |-> DudosasDe(q)]
    BY <1>3 DEF DudosasDe, PosicionesDe, EnDuda
  <2>3. DOMAIN Leido(r, cursor, size) = 1..size
    BY DEF Leido
  <2>4. DOMAIN ContenidoDe(r) = PosicionesDe(r)
    BY DEF ContenidoDe
  <2>5. cursor \in Nat /\ size \in Nat \ {0} /\ TiposSistema
    BY DEF IInvSistema
  <2>6. cursor < TamBloque => \A i \in 1..size :
          /\ cursor + i - 1 \in PosicionesDe(r)
          /\ Leido(r, cursor, size)[i] = ContenidoDe(r)[cursor + i - 1]
    BY <1>3, <2>5, LeidoEnSuLugar
  <2>7. /\ respuesta'.tipo = "datos" /\ respuesta'.ruta = r
        /\ respuesta'.cursor = cursor /\ respuesta'.datos = Leido(r, cursor, size)
    BY <1>3
  <2> QED
    BY <1>3, <2>1, <2>2, <2>3, <2>4, <2>6, <2>7 DEF Almacenado!Leer, Almacenado!Hay
<1> QED
  BY <1>1, <1>2, <1>3 DEF obtenerDatos, Responder, Existe

\* A block without an open stream stays as it is when the process ends.
LEMMA VolcadoSinStreams ==
  ASSUME TiposSistema, NEW b \in NumerosDeBloque, ~\E s \in ToSet(sinCerrar) : s.bloque = b
  PROVE  Volcados[b] = bloques[b]
<1>1. {k \in DOMAIN sinCerrar : sinCerrar[k].bloque = b} = {}
  BY DEF ToSet
<1>2. bloques[b] \in Seq(Bytes \cup {Cero})
  BY ContenidosSonListas DEF TiposSistema
<1> DEFINE l == Len(bloques[b])
<1>3. l \in Nat /\ bloques[b] = [i \in 1..l |-> bloques[b][i]]
  BY <1>2
<1> HIDE DEF l
<1>4. Max({l}) = l
  BY <1>3 DEF Max
<1>5. Volcado(b) = [i \in 1..l |-> bloques[b][i]]
  <2>1. {Len(bloques[b])} \cup {Len(sinCerrar[k].datos) :
           k \in {k \in DOMAIN sinCerrar : sinCerrar[k].bloque = b}} = {l}
    BY <1>1 DEF l
  <2>2. \A i : {k \in {k \in DOMAIN sinCerrar : sinCerrar[k].bloque = b} :
                  i <= Len(sinCerrar[k].datos)} = {}
    BY <1>1
  <2> QED
    BY <1>4, <2>1, <2>2 DEF Volcado
<1> QED
  BY <1>3, <1>5 DEF Volcados

LEMMA ApagarAbstracto ==
  ASSUME IInvSistema, Apagar
  PROVE  Almacenado!Reiniciar
<1>1. TiposSistema /\ respuesta' = [tipo |-> "nada"] /\ UNCHANGED archivos
      /\ ToSet(sinCerrar') = {} /\ (bloques' = Volcados \/ bloques' = bloques)
  BY DEF IInvSistema, Apagar, Responder, Nada, ToSet
<1>2. ASSUME NEW q \in DOMAIN archivos PROVE Almacenado!Intacto(q)
  <2>1. ASSUME NEW b \in ToSet(archivos[q])
        PROVE  (\E s \in ToSet(sinCerrar) : s.bloque = b) \/ bloques'[b] = bloques[b]
    <3>1. b \in NumerosDeBloque
      BY <1>1 DEF TiposSistema, ToSet
    <3> QED
      BY <1>1, <3>1, VolcadoSinStreams
  <2> QED
    BY <1>1, <2>1, ArchivoIntacto
<1> QED
  BY <1>1, <1>2 DEF Almacenado!Reiniciar, Almacenado!Hay

-----------------------------------------------------------------------------
(* The bytes that a write leaves                                           *)

\* The byte of a block file at an offset.
ByteDe(bloque, k) == IF k < Len(bloque) THEN bloque[k + 1] ELSE Basura

\* A piece of the buffer keeps its bytes in order.
LEMMA TrozoEnOrden ==
  ASSUME NEW datos \in Seq(Bytes), NEW desde \in Nat, NEW n \in Nat
  PROVE  /\ Trozo(datos, desde, n) \in Seq(Bytes)
         /\ Len(Trozo(datos, desde, n)) \in Nat /\ Len(Trozo(datos, desde, n)) <= n
         /\ Len(Trozo(datos, desde, n)) <= Len(datos)
         /\ \A i \in 1..n : desde + i <= Len(datos) =>
              /\ i <= Len(Trozo(datos, desde, n))
              /\ Trozo(datos, desde, n)[i] = datos[desde + i]
<1> DEFINE hasta == Min({desde + n, Len(datos)})
<1>1. hasta \in Int /\ hasta <= desde + n /\ hasta <= Len(datos) /\ hasta \in {desde + n, Len(datos)}
  <2>1. desde + n \in Int /\ Len(datos) \in Int
    OBVIOUS
  <2> QED
    BY <2>1, MenorDeDos
<1> HIDE DEF hasta
<1> DEFINE t == SubSeq(datos, desde + 1, hasta)
<1>2. /\ t \in Seq(Bytes) /\ Len(t) = IF desde + 1 <= hasta THEN hasta - (desde + 1) + 1 ELSE 0
      /\ \A i \in 1..(hasta - (desde + 1) + 1) : t[i] = datos[desde + 1 + i - 1]
  <2>1. desde + 1 \in Int /\ \A i \in (desde + 1)..hasta : datos[i] \in Bytes
    BY <1>1
  <2> QED
    BY <1>1, <2>1, SubSeqProperties
<1>3. Trozo(datos, desde, n) = t /\ Len(datos) \in Nat
  BY DEF Trozo, hasta
<1> HIDE DEF t
<1>4. Len(t) \in Nat /\ Len(t) <= n /\ Len(t) <= Len(datos)
  BY <1>1, <1>2, <1>3
<1>5. ASSUME NEW i \in 1..n, desde + i <= Len(datos) PROVE i <= Len(t) /\ t[i] = datos[desde + i]
  <2>1. desde + i <= hasta /\ desde + 1 + i - 1 = desde + i
    BY <1>1, <1>5
  <2>2. i \in 1..(hasta - (desde + 1) + 1) /\ i <= Len(t)
    BY <1>1, <1>2, <2>1
  <2> QED
    BY <1>2, <2>1, <2>2
<1> QED
  BY <1>2, <1>3, <1>4, <1>5

\* fwrite leaves its bytes from the offset on and those that the block had elsewhere.
LEMMA EscritoEnSuLugar ==
  ASSUME NEW bloque \in Contenidos, NEW desde \in Nat, NEW datos \in Seq(Bytes),
         desde + Len(datos) <= TamBloque, NEW k \in Nat
  PROVE  /\ k \in desde..(desde + Len(datos) - 1) =>
              ByteDe(Escrito(bloque, desde, datos), k) = datos[k - desde + 1]
         /\ k \notin desde..(desde + Len(datos) - 1) /\ ByteDe(bloque, k) # Basura =>
              ByteDe(Escrito(bloque, desde, datos), k) = ByteDe(bloque, k)
<1>1. CASE datos = <<>>
  <2>1. Escrito(bloque, desde, datos) = bloque /\ Len(datos) = 0
    BY <1>1 DEF Escrito
  <2> QED
    BY <2>1
<1>2. CASE datos # <<>>
  <2> DEFINE largos == {Len(bloque), desde + Len(datos)}
             largo == Max(largos)
             e == Escrito(bloque, desde, datos)
  <2>1. Len(bloque) \in Nat /\ Len(datos) \in Nat /\ largos \in SUBSET (0..TamBloque)
    BY ContenidosSonListas
  <2>2. largo \in 0..TamBloque /\ Len(bloque) <= largo /\ desde + Len(datos) <= largo
    <3> HIDE DEF largos
    <3>1. Len(bloque) \in largos /\ desde + Len(datos) \in largos
      BY DEF largos
    <3> QED
      BY <2>1, <3>1, MayorAcotado
  <2>3. e = [i \in 1..largo |-> IF i \in (desde + 1)..(desde + Len(datos)) THEN datos[i - desde]
                                ELSE IF i <= Len(bloque) THEN bloque[i] ELSE Cero]
    BY <1>2 DEF Escrito
  <2> HIDE DEF largo, largos, e
  <2>4. Len(e) = largo
    BY <2>2, <2>3
  <2>5. ASSUME k \in desde..(desde + Len(datos) - 1)
        PROVE  ByteDe(e, k) = datos[k - desde + 1]
    <3>1. k + 1 \in 1..largo /\ k + 1 \in (desde + 1)..(desde + Len(datos)) /\ k < largo
      BY <2>1, <2>2, <2>5
    <3>2. e[k + 1] = datos[(k + 1) - desde] /\ (k + 1) - desde = k - desde + 1
      BY <2>3, <3>1
    <3> QED
      BY <2>4, <3>1, <3>2 DEF ByteDe
  <2>6. ASSUME k \notin desde..(desde + Len(datos) - 1), ByteDe(bloque, k) # Basura
        PROVE  ByteDe(e, k) = ByteDe(bloque, k)
    <3>1. k < Len(bloque)
      BY <2>6 DEF ByteDe
    <3>2. k + 1 \in 1..largo /\ k + 1 \notin (desde + 1)..(desde + Len(datos)) /\ k < largo
          /\ k + 1 <= Len(bloque)
      BY <2>1, <2>2, <2>6, <3>1
    <3>3. e[k + 1] = bloque[k + 1]
      BY <2>3, <3>2
    <3> QED
      BY <2>4, <3>1, <3>2, <3>3 DEF ByteDe
  <2> QED
    BY <2>5, <2>6 DEF e
<1> QED
  BY <1>1, <1>2

\* A write leaves its bytes in the block of the cursor, and the others as they were.
LEMMA EscritoEnElDelCursor ==
  ASSUME TiposSistema, NEW r \in DOMAIN archivos, NEW cursor \in Nat, NEW datos \in Seq(Bytes),
         ~FueraDelArchivo(r, cursor), NEW b, b = archivos[r][BloqueDe(cursor) + 1],
         NEW p \in Nat, BloqueDe(p) = BloqueDe(cursor)
  PROVE  /\ p \in cursor..(cursor + Len(datos) - 1) =>
              ByteDe(EnElBloque(r, cursor, datos)[b], p % TamBloque) = datos[p - cursor + 1]
         /\ p \notin cursor..(cursor + Len(datos) - 1) /\ ByteDe(bloques[b], p % TamBloque) # Basura =>
              ByteDe(EnElBloque(r, cursor, datos)[b], p % TamBloque) =
                ByteDe(bloques[b], p % TamBloque)
         /\ \A c \in NumerosDeBloque \ {b} : EnElBloque(r, cursor, datos)[c] = bloques[c]
<1> DEFINE n == FinDeBloque(cursor) - cursor
           parte == DatosEnElBloque(cursor, datos)
           desde == cursor % TamBloque
           k == p % TamBloque
           d == cursor \div TamBloque
<1>1. b \in NumerosDeBloque
  BY CursorEnElArchivo
<1>2. desde \in Nat /\ desde + n = TamBloque /\ n \in Nat
  <2>1. desde \in Nat /\ n \in 1..TamBloque /\ desde + n = TamBloque
    BY EnSuBloque
  <2> QED
    BY ONLY <2>1
<1>3. /\ parte \in Seq(Bytes) /\ Len(parte) \in Nat /\ Len(parte) <= n /\ Len(parte) <= Len(datos)
      /\ \A i \in 1..n : 0 + i <= Len(datos) => i <= Len(parte) /\ parte[i] = datos[0 + i]
  <2>1. parte = Trozo(datos, 0, n)
    BY DEF DatosEnElBloque
  <2> HIDE DEF n, parte
  <2> QED
    BY <1>2, <2>1, TrozoEnOrden
<1>4. cursor = TamBloque * d + desde /\ p = TamBloque * d + k /\ d \in Nat
      /\ k \in 0..(TamBloque - 1) /\ TamBloque * d \in Int
  <2>1. p \div TamBloque = d
    BY DEF BloqueDe
  <2>2. cursor = TamBloque * d + desde /\ d \in Nat
    BY Lugares
  <2>3. p = TamBloque * (p \div TamBloque) + k /\ k \in 0..(TamBloque - 1)
    BY Lugares
  <2>4. TamBloque * d \in Int
    BY <2>2
  <2> QED
    BY <2>1, <2>2, <2>3, <2>4
<1> HIDE DEF n, parte, desde, k, d
<1>5. k \in Nat /\ k - desde = p - cursor
  BY <1>2, <1>4
<1>6. bloques[b] \in Contenidos /\ bloques \in [NumerosDeBloque -> Contenidos]
      /\ desde + Len(parte) <= TamBloque
  BY <1>1, <1>2, <1>3 DEF TiposSistema
<1>7. EnElBloque(r, cursor, datos) = [bloques EXCEPT ![b] = Escrito(bloques[b], desde, parte)]
  BY DEF EnElBloque, parte, desde
<1>8. /\ EnElBloque(r, cursor, datos)[b] = Escrito(bloques[b], desde, parte)
      /\ \A c \in NumerosDeBloque \ {b} : EnElBloque(r, cursor, datos)[c] = bloques[c]
  BY <1>1, <1>6, <1>7
<1>9. ASSUME p \in cursor..(cursor + Len(datos) - 1)
      PROVE  /\ k \in desde..(desde + Len(parte) - 1)
             /\ parte[k - desde + 1] = datos[p - cursor + 1]
  <2> DEFINE i == p - cursor + 1
  <2>1. i \in 1..n /\ 0 + i = i /\ i <= Len(datos) /\ k - desde + 1 = i
    BY <1>2, <1>4, <1>5, <1>9
  <2> HIDE DEF i
  <2>2. i <= Len(parte) /\ parte[i] = datos[i]
    BY <1>3, <2>1
  <2>3. k \in desde..(desde + Len(parte) - 1)
    BY <1>2, <1>3, <1>5, <2>1, <2>2
  <2> QED
    BY <2>1, <2>2, <2>3 DEF i
<1>10. ASSUME p \notin cursor..(cursor + Len(datos) - 1)
       PROVE  k \notin desde..(desde + Len(parte) - 1)
  <2>1. Len(datos) \in Nat
    OBVIOUS
  <2> QED
    BY <2>1, <1>2, <1>3, <1>4, <1>5, <1>10
<1>11. /\ k \in desde..(desde + Len(parte) - 1) =>
            ByteDe(Escrito(bloques[b], desde, parte), k) = parte[k - desde + 1]
       /\ k \notin desde..(desde + Len(parte) - 1) /\ ByteDe(bloques[b], k) # Basura =>
            ByteDe(Escrito(bloques[b], desde, parte), k) = ByteDe(bloques[b], k)
  <2>1. /\ bloques[b] \in Contenidos /\ desde \in Nat /\ parte \in Seq(Bytes) /\ k \in Nat
        /\ desde + Len(parte) <= TamBloque
    BY <1>2, <1>3, <1>5, <1>6
  <2> QED
    BY ONLY <2>1, EscritoEnSuLugar
<1> QED
  BY <1>8, <1>9, <1>10, <1>11 DEF k

\* The streams of a write are of blocks past that of the cursor, and of every one that
\* has a byte to write.
LEMMA StreamsPosteriores ==
  ASSUME TiposSistema, NEW r \in DOMAIN archivos, NEW cursor \in Nat, NEW datos \in Seq(Bytes),
         ~FueraDelArchivo(r, cursor), ~EntraEnElBloque(cursor, datos)
  PROVE  /\ \A s \in ToSet(Streams(r, cursor, datos)) :
              \E n \in (BloqueDe(cursor) + 2)..Len(archivos[r]) : s.bloque = archivos[r][n]
         /\ \A p \in cursor..(cursor + Len(datos) - 1) :
              BloqueDe(p) > BloqueDe(cursor) /\ BloqueDe(p) < Len(archivos[r]) =>
                \E s \in ToSet(Streams(r, cursor, datos)) : s.bloque = archivos[r][BloqueDe(p) + 1]
<1> DEFINE d == BloqueDe(cursor)
           f == FinDeBloque(cursor)
           l == Len(archivos[r])
           cuantos == CuantosStreams(r, cursor, datos)
           falta == cursor + Len(datos) - f + TamBloque - 1
           st == Streams(r, cursor, datos)
<1>1. d \in Nat /\ f \in Nat /\ f = (d + 1) * TamBloque
  BY EnSuBloque DEF FinDeBloque
<1>2. l \in Nat /\ d < l /\ Posteriores(r, cursor) = l - d - 1 /\ l - d - 1 \in Nat
  BY CursorEnElArchivo
<1>3. falta \in Nat /\ falta = cursor + Len(datos) - f + TamBloque - 1 /\ Len(datos) \in Nat
  <2>1. ~(cursor + Len(datos) < f)
    BY DEF EntraEnElBloque
  <2> HIDE DEF f, d, l
  <2> QED
    BY <1>1, <2>1
<1>4. cuantos = Min({l - d - 1, falta \div TamBloque})
  BY <1>2 DEF CuantosStreams
<1> HIDE DEF falta, d, f, l, cuantos
<1>5. /\ falta \div TamBloque \in Nat /\ falta % TamBloque \in 0..(TamBloque - 1)
      /\ falta = TamBloque * (falta \div TamBloque) + (falta % TamBloque)
  BY <1>3, Lugares
<1>6. cuantos \in Nat /\ cuantos <= l - d - 1 /\ cuantos \in {l - d - 1, falta \div TamBloque}
  <2>1. l - d - 1 \in Int /\ falta \div TamBloque \in Int
    BY <1>2, <1>5
  <2> QED
    BY <1>2, <1>4, <1>5, <2>1, MenorDeDos
<1>7. DOMAIN st = 1..cuantos /\ \A s \in 1..cuantos : st[s].bloque = archivos[r][d + 1 + s]
  BY DEF Streams, d, cuantos
<1> HIDE DEF st
<1>8. ASSUME NEW s \in ToSet(st)
      PROVE  \E n \in (d + 2)..l : s.bloque = archivos[r][n]
  <2>1. PICK k \in 1..cuantos : s = st[k]
    BY <1>7, <1>8 DEF ToSet
  <2>2. d + 1 + k \in (d + 2)..l
    BY <1>1, <1>2, <1>6
  <2> QED
    BY <1>7, <2>1, <2>2
<1>9. ASSUME NEW p \in cursor..(cursor + Len(datos) - 1), BloqueDe(p) > d, BloqueDe(p) < l
      PROVE  \E s \in ToSet(st) : s.bloque = archivos[r][BloqueDe(p) + 1]
  <2> DEFINE m == BloqueDe(p) - d
  <2>1. p \in Nat /\ p <= cursor + Len(datos) - 1
    BY <1>3
  <2>2. BloqueDe(p) \in Nat /\ TamBloque * BloqueDe(p) <= p /\ TamBloque * BloqueDe(p) \in Int
    <3>1. p \div TamBloque \in Nat /\ p % TamBloque \in 0..(TamBloque - 1)
          /\ p = TamBloque * (p \div TamBloque) + (p % TamBloque)
      BY <2>1, Lugares
    <3>2. TamBloque * (p \div TamBloque) \in Int
      BY <3>1
    <3> QED
      BY <2>1, <3>1, <3>2 DEF BloqueDe
  <2>3. m \in Nat /\ m >= 1 /\ m <= l - d - 1 /\ BloqueDe(p) = d + m
    BY <1>1, <1>2, <1>9, <2>2
  <2> HIDE DEF m
  <2>4. TamBloque * (d + m) = (d + 1) * TamBloque + (m * TamBloque - TamBloque)
        /\ m * TamBloque \in Nat
    <3>1. TamBloque * (d + m) = TamBloque * d + TamBloque * m
      BY <1>1, <2>3
    <3>2. TamBloque * m = m * TamBloque /\ m * TamBloque \in Int
      BY <2>3, Creciente
    <3>3. TamBloque * d = d * TamBloque /\ d * TamBloque \in Int
          /\ (d + 1) * TamBloque = d * TamBloque + TamBloque
      BY <1>1, Creciente
    <3>4. m * TamBloque \in Nat
      BY <2>3, Producto
    <3> QED
      BY ONLY <3>1, <3>2, <3>3, <3>4, TamBloque \in Nat
  <2>5. m * TamBloque <= falta
    BY <1>1, <1>3, <2>1, <2>2, <2>3, <2>4
  <2>6. ~(falta \div TamBloque < m)
    <3>1. falta \in 0..(m * TamBloque - 1) <=> falta \div TamBloque < m
      BY <1>3, <2>3, Antes
    <3> QED
      BY <1>3, <2>4, <2>5, <3>1
  <2>7. m \in 1..cuantos
    <3> DEFINE x == falta \div TamBloque
    <3>1. x \in Nat /\ cuantos \in {l - d - 1, x} /\ ~(x < m) /\ cuantos \in Nat
      BY <1>5, <1>6, <2>6
    <3> HIDE DEF x
    <3> QED
      BY ONLY <3>1, <2>3
  <2>8. st[m] \in ToSet(st)
    BY <1>7, <2>7 DEF ToSet
  <2>9. d + 1 + m = BloqueDe(p) + 1
    BY <1>1, <2>3
  <2> QED
    BY <1>7, <2>7, <2>8, <2>9
<1> QED
  BY <1>8, <1>9 DEF st, d, l

\* A write that only opens streams past the block of the cursor and adds blocks that were
\* free is one of Almacen, if its bytes past that block are in doubt or in their place.
LEMMA EscrituraAbstracta ==
  ASSUME IInvSistema, NEW r \in DOMAIN archivos, NEW cursor \in Nat, NEW datos \in Seq(Bytes),
         ~FueraDelArchivo(r, cursor),
         TiposSistema', DOMAIN archivos' = DOMAIN archivos,
         \A q \in DOMAIN archivos \ {r} : archivos'[q] = archivos[q],
         Len(archivos[r]) <= Len(archivos'[r]),
         \A k \in 1..Len(archivos[r]) : archivos'[r][k] = archivos[r][k],
         \A k \in 1..Len(archivos'[r]) : k > Len(archivos[r]) => archivos'[r][k] \notin bitmap,
         \A c \in bitmap : bloques'[c] = EnElBloque(r, cursor, datos)[c],
         \A s \in ToSet(sinCerrar') : \/ s \in ToSet(sinCerrar)
                                      \/ \E n \in (BloqueDe(cursor) + 2)..Len(archivos[r]) :
                                           s.bloque = archivos[r][n],
         respuesta' = Hecho,
         \A p \in cursor..(cursor + Len(datos) - 1) :
           /\ BloqueDe(p) < Len(archivos'[r])
           /\ BloqueDe(p) > BloqueDe(cursor) /\ p \notin DudosasDe(r)' =>
                ContenidoDe(r)'[p] = datos[p - cursor + 1]
  PROVE  Almacenado!Guardar(r, cursor, datos)
<1> DEFINE d == BloqueDe(cursor)
           l == Len(archivos[r])
           L == Len(archivos'[r])
           bs == EnElBloque(r, cursor, datos)
           b == archivos[r][d + 1]
           escritas == cursor..(cursor + Len(datos) - 1)
<1>1. TiposSistema /\ \A q \in DOMAIN archivos : ToSet(archivos[q]) \subseteq bitmap
  BY DEF IInvSistema, BitmapFiel
<1>2. /\ archivos[r] \in Seq(NumerosDeBloque) /\ l \in Nat /\ DOMAIN archivos[r] = 1..l
      /\ d \in Nat /\ d + 1 \in 1..l /\ b \in NumerosDeBloque
  BY <1>1, CursorEnElArchivo
<1>3. archivos'[r] \in Seq(NumerosDeBloque) /\ L \in Nat /\ DOMAIN archivos'[r] = 1..L
  BY DEF TiposSistema
<1>4. \A k \in 1..l : archivos[r][k] \in ToSet(archivos[r])
  BY <1>2 DEF ToSet
<1>5. bitmap \subseteq NumerosDeBloque /\ Len(datos) \in Nat
  BY <1>1 DEF TiposSistema
<1>6. \A c \in NumerosDeBloque \ {b} : bs[c] = bloques[c]
  <2>1. cursor \in Nat /\ BloqueDe(cursor) = BloqueDe(cursor) /\ b = archivos[r][BloqueDe(cursor) + 1]
    OBVIOUS
  <2> HIDE DEF b, bs, d
  <2>2. \A c \in NumerosDeBloque \ {b} : EnElBloque(r, cursor, datos)[c] = bloques[c]
    BY <1>1, <2>1, EscritoEnElDelCursor
  <2> QED
    BY <2>2 DEF bs
<1>7. ASSUME NEW q \in DOMAIN archivos \ {r} PROVE Almacenado!Intacto(q)
  <2>1. ASSUME NEW c \in ToSet(archivos[q])
        PROVE  /\ (\E s \in ToSet(sinCerrar') : s.bloque = c) => \E s \in ToSet(sinCerrar) : s.bloque = c
               /\ bloques'[c] = bloques[c]
    <3>1. c \notin ToSet(archivos[r]) /\ c \in bitmap
      BY <1>1 DEF IInvSistema, UnDuenio
    <3>2. c # b /\ \A n \in (d + 2)..l : c # archivos[r][n]
      <4>1. \A n \in (d + 2)..l : n \in 1..l
        BY <1>2
      <4> QED
        BY <1>2, <1>4, <3>1, <4>1
    <3> HIDE DEF b, bs, d, l
    <3>3. bloques'[c] = bs[c] /\ bs[c] = bloques[c]
      BY <1>5, <1>6, <3>1, <3>2 DEF bs
    <3>4. ASSUME NEW s \in ToSet(sinCerrar'), s.bloque = c PROVE s \in ToSet(sinCerrar)
      BY <3>2, <3>4 DEF d, l
    <3> QED
      BY <3>3, <3>4
  <2> QED
    BY <1>1, <2>1, ArchivoIntacto
<1>8. \A p : p \in PosicionesDe(r) <=> p \in Nat /\ BloqueDe(p) < l
  <2>1. PosicionesDe(r) = 0..(l * TamBloque - 1) /\ l * TamBloque \in Int
    BY <1>2 DEF PosicionesDe
  <2> HIDE DEF l
  <2>2. \A p \in Nat : p \in 0..(l * TamBloque - 1) <=> p \div TamBloque < l
    BY <1>2, Antes
  <2>3. \A p \in 0..(l * TamBloque - 1) : p \in Nat
    BY <2>1
  <2> QED
    BY <2>1, <2>2, <2>3 DEF BloqueDe
<1>9. \A p : p \in PosicionesDe(r)' <=> p \in Nat /\ BloqueDe(p) < L
  <2>1. PosicionesDe(r)' = 0..(L * TamBloque - 1) /\ L * TamBloque \in Int
    BY <1>3 DEF PosicionesDe
  <2> HIDE DEF L
  <2>2. \A p \in Nat : p \in 0..(L * TamBloque - 1) <=> p \div TamBloque < L
    BY <1>3, Antes
  <2>3. \A p \in 0..(L * TamBloque - 1) : p \in Nat
    BY <2>1
  <2> QED
    BY <2>1, <2>2, <2>3 DEF BloqueDe
<1>10. \A p \in Nat : BloqueDe(p) \in Nat
  BY EnSuBloque
<1>11. PosicionesDe(r) \subseteq PosicionesDe(r)'
  <2> SUFFICES ASSUME NEW p \in PosicionesDe(r) PROVE p \in PosicionesDe(r)'
    OBVIOUS
  <2>1. p \in Nat /\ BloqueDe(p) < l
    BY <1>8
  <2>2. BloqueDe(p) \in Nat /\ l <= L
    BY <1>10, <2>1
  <2> HIDE DEF l, L
  <2>3. BloqueDe(p) < L
    BY <1>2, <1>3, <2>1, <2>2
  <2> QED
    BY <1>9, <2>1, <2>3
\* What a position of the file has before and after.
<1>12. ASSUME NEW p \in PosicionesDe(r), NEW c, c = archivos[r][BloqueDe(p) + 1]
       PROVE  /\ BloqueDe(p) + 1 \in 1..l /\ p \in Nat
              /\ c \in bitmap
              /\ ContenidoDe(r)[p] = ByteDe(bloques[c], p % TamBloque)
              /\ ContenidoDe(r)'[p] = ByteDe(bs[c], p % TamBloque)
  <2> DEFINE n == BloqueDe(p) + 1
  <2>1. n \in 1..l /\ p \in Nat
    <3>1. p \in Nat /\ BloqueDe(p) < l
      BY <1>8
    <3>2. BloqueDe(p) \in Nat
      BY <1>10, <3>1
    <3> HIDE DEF l
    <3> QED
      BY <1>2, <3>1, <3>2
  <2>2. c \in bitmap
    BY <1>1, <1>4, <1>12, <2>1
  <2>3. ContenidoDe(r)[p] = Byte(r, BloqueDe(p), p % TamBloque)
    BY DEF ContenidoDe
  <2>4. ContenidoDe(r)'[p] = Byte(r, BloqueDe(p), p % TamBloque)'
    BY <1>11 DEF ContenidoDe
  <2>5. archivos'[r][n] = c
    BY <1>12, <2>1
  <2>6. bloques'[c] = bs[c]
    BY <2>2
  <2> HIDE DEF bs
  <2>7. Byte(r, BloqueDe(p), p % TamBloque) = ByteDe(bloques[c], p % TamBloque)
    BY <1>12 DEF Byte, ByteDe
  <2>8. Byte(r, BloqueDe(p), p % TamBloque)' = ByteDe(bs[c], p % TamBloque)
    BY <2>5, <2>6 DEF Byte, ByteDe
  <2> QED
    BY <2>1, <2>2, <2>3, <2>4, <2>7, <2>8
\* The block of the cursor.
<1>13. ASSUME NEW p \in Nat, BloqueDe(p) = d
       PROVE  /\ p \in PosicionesDe(r)
              /\ p \in escritas => ContenidoDe(r)'[p] = datos[p - cursor + 1]
              /\ p \notin escritas /\ ContenidoDe(r)[p] # Basura =>
                   ContenidoDe(r)'[p] = ContenidoDe(r)[p]
  <2>1. p \in PosicionesDe(r)
    BY <1>2, <1>8, <1>13
  <2>2. /\ ContenidoDe(r)[p] = ByteDe(bloques[b], p % TamBloque)
        /\ ContenidoDe(r)'[p] = ByteDe(bs[b], p % TamBloque)
    <3>1. b = archivos[r][BloqueDe(p) + 1]
      BY <1>13
    <3> HIDE DEF b, bs
    <3> QED
      BY <1>12, <2>1, <3>1
  <2>3. b = archivos[r][BloqueDe(cursor) + 1] /\ BloqueDe(p) = BloqueDe(cursor)
    BY <1>13
  <2> HIDE DEF b, bs, d
  <2>4. /\ p \in cursor..(cursor + Len(datos) - 1) =>
             ByteDe(EnElBloque(r, cursor, datos)[b], p % TamBloque) = datos[p - cursor + 1]
        /\ p \notin cursor..(cursor + Len(datos) - 1) /\ ByteDe(bloques[b], p % TamBloque) # Basura =>
             ByteDe(EnElBloque(r, cursor, datos)[b], p % TamBloque) =
               ByteDe(bloques[b], p % TamBloque)
    <3>1. /\ TiposSistema /\ r \in DOMAIN archivos /\ cursor \in Nat /\ datos \in Seq(Bytes)
          /\ ~FueraDelArchivo(r, cursor) /\ p \in Nat /\ BloqueDe(p) = BloqueDe(cursor)
      BY <1>1, <1>13, <2>3 DEF d
    <3> QED
      BY ONLY <2>3, <3>1, EscritoEnElDelCursor
  <2> QED
    BY <2>1, <2>2, <2>4 DEF bs
<1>14. ASSUME NEW p \in PosicionesDe(r), p \notin escritas, p \notin DudosasDe(r),
              ContenidoDe(r)[p] # Basura
       PROVE  ContenidoDe(r)'[p] = ContenidoDe(r)[p]
  <2> DEFINE n == BloqueDe(p) + 1
             c == archivos[r][n]
  <2>1. /\ n \in 1..l /\ p \in Nat /\ c \in bitmap
        /\ ContenidoDe(r)[p] = ByteDe(bloques[c], p % TamBloque)
        /\ ContenidoDe(r)'[p] = ByteDe(bs[c], p % TamBloque)
    <3> HIDE DEF bs, l
    <3> QED
      BY <1>12
  <2>2. CASE n = d + 1
    <3>1. BloqueDe(p) = d
      <4>1. BloqueDe(p) \in Nat
        BY <1>10, <2>1
      <4> HIDE DEF d
      <4> QED
        BY <1>2, <2>2, <4>1
    <3> QED
      BY <1>13, <1>14, <2>1, <3>1
  <2>3. CASE n # d + 1
    <3>1. ~EnDuda(r, n)
      BY <1>14 DEF DudosasDe
    <3>2. c # b
      BY <1>2, <2>3, <3>1 DEF EnDuda
    <3> HIDE DEF bs, b
    <3>3. bs[c] = bloques[c]
      BY <1>5, <1>6, <2>1, <3>2
    <3> QED
      BY <2>1, <3>3
  <2> QED
    BY <2>2, <2>3
<1>15. ASSUME NEW p \in escritas, p \notin DudosasDe(r)'
       PROVE  ContenidoDe(r)'[p] = datos[p - cursor + 1]
  <2>1. p \in Nat /\ BloqueDe(p) >= d
    <3>1. p \in Nat /\ cursor <= p
      BY <1>5
    <3>2. cursor \div TamBloque <= p \div TamBloque
      <4> DEFINE q == p \div TamBloque
      <4>1. q \in Nat /\ q + 1 \in Nat /\ p \div TamBloque < q + 1
        <5>1. q \in Nat
          BY <3>1, Lugares
        <5> HIDE DEF q
        <5> QED
          BY <5>1 DEF q
      <4> HIDE DEF q
      <4>2. p \in 0..((q + 1) * TamBloque - 1) /\ (q + 1) * TamBloque \in Int
        <5>1. p \in 0..((q + 1) * TamBloque - 1)
          BY <3>1, <4>1, Antes
        <5>2. (q + 1) * TamBloque \in Nat
          BY <4>1, Producto
        <5> QED
          BY <5>1, <5>2
      <4>3. cursor \in 0..((q + 1) * TamBloque - 1)
        BY <3>1, <4>2
      <4>4. cursor \div TamBloque < q + 1
        BY <4>1, <4>3, Antes
      <4> QED
        BY <4>1, <4>4, Lugares DEF q
    <3> QED
      BY <3>1, <3>2 DEF BloqueDe
  <2>2. CASE BloqueDe(p) = d
    BY <1>13, <2>1, <2>2
  <2>3. CASE BloqueDe(p) > d
    BY <1>15, <2>3
  <2> QED
    <3>1. BloqueDe(p) \in Nat
      BY <1>10, <2>1
    <3>2. BloqueDe(p) = d \/ BloqueDe(p) > d
      BY ONLY <1>2, <2>1, <3>1
    <3> QED
      BY ONLY <2>2, <2>3, <3>2
<1>16. escritas \subseteq PosicionesDe(r)'
  <2>1. \A p \in escritas : p \in Nat
    BY <1>5
  <2> QED
    BY <1>9, <2>1
<1>17. ASSUME NEW p \in DudosasDe(r)', ~(BloqueDe(p) > d)
       PROVE  p \in DudosasDe(r)
  <2> DEFINE n == BloqueDe(p) + 1
  <2>1. p \in Nat /\ EnDuda(r, n)'
    BY <1>9 DEF DudosasDe
  <2>2. p \in PosicionesDe(r) /\ n \in 1..l /\ n < d + 2
    <3>1. BloqueDe(p) \in Nat
      BY <1>10, <2>1
    <3>2. BloqueDe(p) < l /\ BloqueDe(p) + 1 \in 1..l /\ BloqueDe(p) + 1 < d + 2
      <4> HIDE DEF d, l
      <4> QED
        BY <1>2, <1>17, <3>1
    <3> QED
      BY <1>8, <2>1, <3>2
  <2>3. archivos'[r][n] = archivos[r][n] /\ archivos[r][n] \in bitmap
    BY <1>1, <1>4, <2>2
  <2> HIDE DEF n
  <2>4. ASSUME \E s \in ToSet(sinCerrar') : s.bloque = archivos'[r][n]
        PROVE  \/ \E s \in ToSet(sinCerrar) : s.bloque = archivos[r][n]
               \/ \E k \in DOMAIN archivos[r] \ {n} : archivos[r][k] = archivos[r][n]
    <3>1. PICK s \in ToSet(sinCerrar') : s.bloque = archivos[r][n]
      BY <2>3, <2>4
    <3>2. CASE s \in ToSet(sinCerrar)
      <4>1. \E z \in ToSet(sinCerrar) : z.bloque = archivos[r][n]
        BY <3>1, <3>2
      <4> QED
        BY <4>1
    <3>3. CASE \E m \in (d + 2)..l : s.bloque = archivos[r][m]
      <4>1. PICK m \in (d + 2)..l : s.bloque = archivos[r][m]
        BY <3>3
      <4>2. m \in 1..l /\ m # n
        BY <1>2, <2>2
      <4> QED
        BY <1>2, <3>1, <4>1, <4>2
    <3> QED
      BY <3>1, <3>2, <3>3
  <2>5. ASSUME \E k \in DOMAIN archivos'[r] \ {n} : archivos'[r][k] = archivos'[r][n]
        PROVE  \E k \in DOMAIN archivos[r] \ {n} : archivos[r][k] = archivos[r][n]
    <3>1. PICK k \in (1..L) \ {n} : archivos'[r][k] = archivos[r][n]
      BY <1>3, <2>3, <2>5
    <3>2. k \in 1..l
      BY <1>2, <1>3, <2>3, <3>1
    <3> QED
      BY <1>2, <3>1, <3>2
  <2>6. EnDuda(r, n)
    <3>1. \/ \E s \in ToSet(sinCerrar') : s.bloque = archivos'[r][n]
          \/ \E k \in DOMAIN archivos'[r] \ {n} : archivos'[r][k] = archivos'[r][n]
      BY <2>1 DEF EnDuda, n
    <3> QED
      BY <2>4, <2>5, <3>1 DEF EnDuda
  <2> QED
    BY <2>2, <2>6 DEF DudosasDe, n
<1>18. /\ DOMAIN ContenidoDe(r) = PosicionesDe(r) /\ DOMAIN ContenidoDe(r)' = PosicionesDe(r)'
       /\ respuesta' = [tipo |-> "hecho"]
  BY DEF ContenidoDe, Hecho
<1>19. Almacenado!Conserva(r, escritas)
  BY <1>11, <1>14, <1>18 DEF Almacenado!Conserva, Almacenado!Firme
<1>20. \A p \in DudosasDe(r)' \ DudosasDe(r) : p \div TamBloque > cursor \div TamBloque
  BY <1>17 DEF BloqueDe
<1> HIDE DEF b, bs, L, l
<1> QED
  BY <1>7, <1>15, <1>16, <1>18, <1>19, <1>20
     DEF Almacenado!Guardar, Almacenado!LosDemas, Almacenado!Hay

LEMMA JuntaDeListas ==
  ASSUME NEW X, NEW a \in Seq(X), NEW c \in Seq(X)
  PROVE  ToSet(a \o c) = ToSet(a) \cup ToSet(c)
<1>1. Len(a) \in Nat /\ Len(c) \in Nat
  OBVIOUS
<1>2. /\ DOMAIN (a \o c) = 1..(Len(a) + Len(c))
      /\ \A i \in 1..(Len(a) + Len(c)) : (a \o c)[i] = IF i <= Len(a) THEN a[i] ELSE c[i - Len(a)]
  BY ConcatProperties
<1>3. DOMAIN a = 1..Len(a) /\ DOMAIN c = 1..Len(c)
  OBVIOUS
<1>4. ASSUME NEW i \in DOMAIN a PROVE i \in DOMAIN (a \o c) /\ (a \o c)[i] = a[i]
  <2>1. i \in 1..(Len(a) + Len(c)) /\ i <= Len(a)
    BY <1>1, <1>3
  <2> QED
    BY <1>2, <2>1
<1>5. ASSUME NEW i \in DOMAIN c PROVE Len(a) + i \in DOMAIN (a \o c) /\ (a \o c)[Len(a) + i] = c[i]
  <2>1. Len(a) + i \in 1..(Len(a) + Len(c)) /\ ~(Len(a) + i <= Len(a)) /\ Len(a) + i - Len(a) = i
    BY <1>1, <1>3
  <2> QED
    BY <1>2, <2>1
<1>6. ASSUME NEW i \in DOMAIN (a \o c)
      PROVE  \/ i \in DOMAIN a /\ (a \o c)[i] = a[i]
             \/ i - Len(a) \in DOMAIN c /\ (a \o c)[i] = c[i - Len(a)]
  <2>1. CASE i <= Len(a)
    BY <1>1, <1>2, <1>3, <2>1
  <2>2. CASE ~(i <= Len(a))
    <3>1. i - Len(a) \in 1..Len(c)
      BY <1>1, <1>2, <2>2
    <3> QED
      BY <1>2, <1>3, <2>2, <3>1
  <2> QED
    BY <2>1, <2>2
<1> QED
  <2> DEFINE j == a \o c
  <2> HIDE DEF j
  <2>1. ToSet(j) = {j[i] : i \in DOMAIN j} /\ ToSet(a) = {a[i] : i \in DOMAIN a}
        /\ ToSet(c) = {c[i] : i \in DOMAIN c}
    BY DEF ToSet
  <2>2. \A x \in ToSet(j) : x \in ToSet(a) \/ x \in ToSet(c)
    BY <1>6, <2>1 DEF j
  <2>3. \A x \in ToSet(a) : x \in ToSet(j)
    BY <1>4, <2>1 DEF j
  <2>4. \A x \in ToSet(c) : x \in ToSet(j)
    BY <1>5, <2>1 DEF j
  <2> QED
    BY <2>2, <2>3, <2>4 DEF j

\* A write that fits in the block of the cursor is all in it.
LEMMA TodoEnElBloque ==
  ASSUME NEW cursor \in Nat, NEW datos \in Seq(Bytes), EntraEnElBloque(cursor, datos),
         NEW p \in cursor..(cursor + Len(datos) - 1)
  PROVE  p \in Nat /\ BloqueDe(p) < BloqueDe(cursor) + 1
<1>1. BloqueDe(cursor) \in Nat /\ FinDeBloque(cursor) \in Nat
  BY EnSuBloque
<1>2. BloqueDe(cursor) + 1 \in Nat /\ p \in Nat /\ p < FinDeBloque(cursor)
  <2>1. Len(datos) \in Nat
    OBVIOUS
  <2>2. p \in Nat /\ p <= cursor + Len(datos) - 1
    BY <2>1
  <2> QED
    BY <1>1, <2>1, <2>2 DEF EntraEnElBloque
<1>3. p \in 0..(FinDeBloque(cursor) - 1)
  BY <1>1, <1>2
<1> QED
  BY <1>1, <1>2, <1>3, Antes DEF FinDeBloque, BloqueDe

\* The blocks that are looked for are enough for the bytes that do not fit.
LEMMA BuscaSuficientes ==
  ASSUME TiposSistema, NEW r \in DOMAIN archivos, NEW cursor \in Nat, NEW datos \in Seq(Bytes),
         ~FueraDelArchivo(r, cursor), ~EntraEnElBloque(cursor, datos),
         NEW n, n = CuantosMas(cursor + Len(datos) - FinDeBloque(cursor)),
         NEW p \in cursor..(cursor + Len(datos) - 1)
  PROVE  p \in Nat /\ BloqueDe(p) < Len(archivos[r]) + n
<1> DEFINE d == BloqueDe(cursor)
           f == FinDeBloque(cursor)
           l == Len(archivos[r])
           falta == cursor + Len(datos) - f
<1>1. d \in Nat /\ f \in Nat /\ f = (d + 1) * TamBloque /\ Len(datos) \in Nat
  BY EnSuBloque DEF FinDeBloque
<1>2. l \in Nat /\ d + 1 <= l
  BY CursorEnElArchivo
<1>3. falta \in Nat /\ cursor + Len(datos) = f + falta /\ p \in Nat /\ p < f + falta
  <2>1. ~(cursor + Len(datos) < f)
    BY DEF EntraEnElBloque
  <2> HIDE DEF f, d, l
  <2>2. cursor + Len(datos) - f \in Nat
    BY ONLY <1>1, <2>1, cursor \in Nat
  <2>3. p \in Nat /\ p < cursor + Len(datos)
    BY <1>1
  <2> QED
    BY <1>1, <2>2, <2>3
<1>4. n = CuantosMas(falta)
  OBVIOUS
<1> HIDE DEF falta, d, f, l
<1>5. n \in Nat
  BY <1>3, <1>4, BuscaAlguno
<1>6. falta <= n * TamBloque /\ n * TamBloque \in Nat
  <2>1. CASE falta > TamBloque
    <3> DEFINE x == falta \div TamBloque
               k == falta % TamBloque
    <3>1. x \in Nat /\ k \in 0..(TamBloque - 1) /\ falta = TamBloque * x + k
      BY <1>3, Lugares
    <3>2. n = x + 1
      BY <1>4, <2>1 DEF CuantosMas
    <3> HIDE DEF x, k
    <3>3. TamBloque * x = x * TamBloque /\ (x + 1) * TamBloque = x * TamBloque + TamBloque
          /\ x * TamBloque \in Nat
      BY <3>1, Creciente, Producto
    <3> QED
      BY <3>1, <3>2, <3>3
  <2>2. CASE ~(falta > TamBloque)
    <3>1. n = 1 /\ 1 * TamBloque = TamBloque
      BY <1>4, <2>2 DEF CuantosMas
    <3> QED
      BY <1>3, <2>2, <3>1
  <2> QED
    BY <2>1, <2>2
<1>7. f <= l * TamBloque /\ l * TamBloque \in Nat
  BY <1>1, <1>2, Creciente, Producto
<1>8. (l + n) * TamBloque = l * TamBloque + n * TamBloque /\ l + n \in Nat
  BY <1>2, <1>5
<1>9. p \in 0..((l + n) * TamBloque - 1)
  BY ONLY <1>1, <1>3, <1>6, <1>7, <1>8, TamBloque \in Nat
<1>10. p \div TamBloque < l + n
  BY <1>3, <1>8, <1>9, Antes
<1> QED
  BY <1>3, <1>10 DEF BloqueDe, l

\* One new block alone gets the bytes that are past the others.
LEMMA NuevoEnSuLugar ==
  ASSUME TiposSistema, NEW r \in DOMAIN archivos, NEW cursor \in Nat, NEW datos \in Seq(Bytes),
         ~FueraDelArchivo(r, cursor), NEW p \in cursor..(cursor + Len(datos) - 1),
         BloqueDe(p) = Len(archivos[r])
  PROVE  ByteDe(EnElNuevo(r, cursor, datos, 1), p % TamBloque) = datos[p - cursor + 1]
<1> DEFINE d == BloqueDe(cursor)
           f == FinDeBloque(cursor)
           l == Len(archivos[r])
           escritos == f - cursor + Posteriores(r, cursor) * TamBloque
           restan == Len(datos) - escritos
           rondas == IF restan <= 0 THEN 0 ELSE Min({1 - 1, (restan - 1) \div TamBloque})
           k == p % TamBloque
           t == EnElNuevo(r, cursor, datos, 1)
<1>1. d \in Nat /\ f \in Nat /\ f - cursor \in Nat /\ f = (d + 1) * TamBloque /\ Len(datos) \in Nat
  <2>1. f = (d + 1) * TamBloque
    BY DEF FinDeBloque
  <2>2. d \in Nat /\ f \in Nat /\ f - cursor \in 1..TamBloque
    BY EnSuBloque
  <2> QED
    BY <2>1, <2>2
<1>2. l \in Nat /\ Posteriores(r, cursor) = l - d - 1 /\ l - d - 1 \in Nat
  BY CursorEnElArchivo
<1>3. t = Trozo(datos, escritos + rondas * TamBloque, TamBloque)
  BY DEF EnElNuevo
<1>4. p \in Nat /\ p <= cursor + Len(datos) - 1
  BY <1>1
<1>5. k \in 0..(TamBloque - 1) /\ p = TamBloque * l + k
  <2>1. p \div TamBloque = l
    BY DEF BloqueDe
  <2> QED
    BY <1>4, <2>1, Lugares
<1>6. escritos = f - cursor + (l - d - 1) * TamBloque
  BY <1>2
<1> HIDE DEF d, f, l, k, t, rondas, escritos
<1>7. escritos = l * TamBloque - cursor /\ escritos \in Nat /\ l * TamBloque \in Nat
      /\ TamBloque * l = l * TamBloque
  <2>1. (d + 1) * TamBloque + (l - d - 1) * TamBloque = l * TamBloque
    BY <1>1, <1>2
  <2>2. (l - d - 1) * TamBloque \in Nat /\ l * TamBloque \in Nat /\ (d + 1) * TamBloque \in Nat
    BY <1>1, <1>2, Producto
  <2>3. TamBloque * l = l * TamBloque
    BY <1>2
  <2> QED
    BY ONLY <1>1, <1>6, <2>1, <2>2, <2>3, TamBloque \in Nat, cursor \in Nat
<1>8. rondas * TamBloque = 0
  <2>1. CASE restan <= 0
    BY <2>1 DEF rondas
  <2>2. CASE ~(restan <= 0)
    <3>1. restan - 1 \in Nat
      BY <1>1, <1>7, <2>2
    <3> HIDE DEF restan
    <3>2. (restan - 1) \div TamBloque \in Nat
      BY <3>1, Cociente
    <3>3. Min({0, (restan - 1) \div TamBloque}) \in Nat /\ Min({0, (restan - 1) \div TamBloque}) <= 0
      BY <3>2, MenorDeDosNaturales
    <3> QED
      BY <2>2, <3>3 DEF rondas
  <2> QED
    BY <2>1, <2>2
<1>9. t = Trozo(datos, escritos, TamBloque)
  BY <1>3, <1>7, <1>8
<1>10. k + 1 \in 1..TamBloque /\ escritos + (k + 1) = p - cursor + 1
       /\ escritos + (k + 1) <= Len(datos)
  BY <1>1, <1>4, <1>5, <1>7
<1>11. /\ Len(t) \in Nat
       /\ \A i \in 1..TamBloque : escritos + i <= Len(datos) =>
            i <= Len(t) /\ t[i] = datos[escritos + i]
  BY ONLY <1>7, <1>9, datos \in Seq(Bytes), TamBloque \in Nat, TrozoEnOrden
<1>12. k < Len(t) /\ t[k + 1] = datos[p - cursor + 1]
  BY <1>5, <1>10, <1>11
<1> QED
  BY <1>12 DEF ByteDe, k, t

\* The write that fits in the block of the cursor.
LEMMA GuardarEnUnBloque ==
  ASSUME IInvSistema, TiposSistema', NEW r \in DOMAIN archivos, NEW cursor \in Nat,
         NEW datos \in Seq(Bytes), ~FueraDelArchivo(r, cursor), EntraEnElBloque(cursor, datos),
         bloques' = EnElBloque(r, cursor, datos), respuesta' = Hecho,
         UNCHANGED <<archivos, sinCerrar>>
  PROVE  Almacenado!Guardar(r, cursor, datos)
<1>1. /\ archivos[r] \in Seq(NumerosDeBloque) /\ Len(archivos[r]) \in Nat
      /\ BloqueDe(cursor) \in Nat /\ BloqueDe(cursor) + 1 \in 1..Len(archivos[r])
  BY CursorEnElArchivo DEF IInvSistema
<1>2. ASSUME NEW p \in cursor..(cursor + Len(datos) - 1)
      PROVE  BloqueDe(p) < Len(archivos[r]) /\ ~(BloqueDe(p) > BloqueDe(cursor))
  <2>1. p \in Nat /\ BloqueDe(p) < BloqueDe(cursor) + 1
    BY TodoEnElBloque
  <2>2. BloqueDe(p) \in Nat
    BY <2>1, EnSuBloque
  <2> QED
    BY <1>1, <2>1, <2>2
<1>3. /\ DOMAIN archivos' = DOMAIN archivos
      /\ \A q \in DOMAIN archivos \ {r} : archivos'[q] = archivos[q]
      /\ archivos'[r] = archivos[r] /\ Len(archivos[r]) <= Len(archivos'[r])
      /\ \A k \in 1..Len(archivos'[r]) : ~(k > Len(archivos[r]))
      /\ \A s \in ToSet(sinCerrar') : s \in ToSet(sinCerrar)
  BY <1>1
<1> QED
  BY <1>2, <1>3, EscrituraAbstracta

\* The write that opens streams and adds no blocks.
LEMMA GuardarEnLosPropios ==
  ASSUME IInvSistema, TiposSistema', NEW r \in DOMAIN archivos, NEW cursor \in Nat,
         NEW datos \in Seq(Bytes), ~FueraDelArchivo(r, cursor), ~EntraEnElBloque(cursor, datos),
         TieneBloquesSuficientes(r, cursor, datos),
         bloques' = EnElBloque(r, cursor, datos), respuesta' = Hecho, UNCHANGED archivos,
         sinCerrar' = sinCerrar \o Streams(r, cursor, datos)
  PROVE  Almacenado!Guardar(r, cursor, datos)
<1> DEFINE st == Streams(r, cursor, datos)
           l == Len(archivos[r])
           S == [bloque : NumerosDeBloque, datos : Contenidos]
<1>1. TiposSistema /\ sinCerrar \in Seq(S) /\ st \in Seq(S)
  BY StreamsDeBloques DEF IInvSistema, TiposSistema
<1> HIDE DEF S
<1>2. /\ archivos[r] \in Seq(NumerosDeBloque) /\ l \in Nat
      /\ BloqueDe(cursor) \in Nat /\ BloqueDe(cursor) + 1 \in 1..l
  BY <1>1, CursorEnElArchivo
<1>3. ToSet(sinCerrar') = ToSet(sinCerrar) \cup ToSet(st)
  <2> HIDE DEF st
  <2>1. ToSet(sinCerrar \o st) = ToSet(sinCerrar) \cup ToSet(st)
    BY <1>1, JuntaDeListas
  <2> QED
    BY <2>1 DEF st
<1>4. /\ \A s \in ToSet(st) : \E n \in (BloqueDe(cursor) + 2)..Len(archivos[r]) :
           s.bloque = archivos[r][n]
      /\ \A p \in cursor..(cursor + Len(datos) - 1) :
           BloqueDe(p) > BloqueDe(cursor) /\ BloqueDe(p) < Len(archivos[r]) =>
             \E s \in ToSet(st) : s.bloque = archivos[r][BloqueDe(p) + 1]
  BY <1>1, StreamsPosteriores
<1>5. ASSUME NEW p \in cursor..(cursor + Len(datos) - 1)
      PROVE  p \in Nat /\ BloqueDe(p) < Len(archivos[r]) /\ p \in PosicionesDe(r)'
  <2>1. Len(datos) \in Nat /\ l * TamBloque \in Nat
    BY <1>2, Producto
  <2>2. p \in Nat /\ p \in 0..(l * TamBloque - 1)
    BY <2>1 DEF TieneBloquesSuficientes
  <2>3. p \div TamBloque < l
    BY <1>2, <2>2, Antes
  <2>4. PosicionesDe(r)' = 0..(l * TamBloque - 1)
    BY DEF PosicionesDe
  <2> QED
    BY <2>2, <2>3, <2>4 DEF BloqueDe
<1>6. ASSUME NEW p \in cursor..(cursor + Len(datos) - 1), BloqueDe(p) > BloqueDe(cursor)
      PROVE  p \in DudosasDe(r)'
  <2>1. PICK s \in ToSet(st) : s.bloque = archivos[r][BloqueDe(p) + 1]
    BY <1>4, <1>5, <1>6
  <2>2. s \in ToSet(sinCerrar') /\ s.bloque = archivos'[r][BloqueDe(p) + 1]
    BY <1>3, <2>1
  <2>3. EnDuda(r, BloqueDe(p) + 1)'
    BY <2>2 DEF EnDuda
  <2> QED
    BY <1>5, <2>3 DEF DudosasDe
<1>7. /\ DOMAIN archivos' = DOMAIN archivos
      /\ \A q \in DOMAIN archivos \ {r} : archivos'[q] = archivos[q]
      /\ archivos'[r] = archivos[r] /\ Len(archivos[r]) <= Len(archivos'[r])
      /\ \A k \in 1..Len(archivos'[r]) : ~(k > Len(archivos[r]))
  BY <1>2
<1> HIDE DEF st, l
<1> QED
  BY <1>3, <1>4, <1>5, <1>6, <1>7, EscrituraAbstracta

\* The write that adds blocks: what it puts in them is in doubt, unless it is one alone.
LEMMA GuardarEnNuevos ==
  ASSUME IInvSistema, TiposSistema', NEW r \in DOMAIN archivos, NEW cursor \in Nat,
         NEW datos \in Seq(Bytes), ~FueraDelArchivo(r, cursor), ~EntraEnElBloque(cursor, datos),
         NEW n, n = CuantosMas(cursor + Len(datos) - FinDeBloque(cursor)), n \in Nat \ {0},
         Cardinality(Desocupados) >= n, Extender(r, cursor, datos, n), respuesta' = Hecho,
         sinCerrar' = sinCerrar \o Streams(r, cursor, datos)
  PROVE  Almacenado!Guardar(r, cursor, datos)
<1> DEFINE st == Streams(r, cursor, datos)
           l == Len(archivos[r])
           S == [bloque : NumerosDeBloque, datos : Contenidos]
           bs == EnElBloque(r, cursor, datos)
           u == UltimoDe(n)
           nuevos == [s \in 1..n |-> u]
           nuevo == EnElNuevo(r, cursor, datos, n)
<1>1. TiposSistema /\ sinCerrar \in Seq(S) /\ st \in Seq(S) /\ bitmap \subseteq NumerosDeBloque
  BY StreamsDeBloques DEF IInvSistema, TiposSistema
<1> HIDE DEF S
<1>2. /\ archivos[r] \in Seq(NumerosDeBloque) /\ l \in Nat
      /\ BloqueDe(cursor) \in Nat /\ BloqueDe(cursor) + 1 \in 1..l
  BY <1>1, CursorEnElArchivo
<1>3. ToSet(sinCerrar') = ToSet(sinCerrar) \cup ToSet(st)
  <2> HIDE DEF st
  <2>1. ToSet(sinCerrar \o st) = ToSet(sinCerrar) \cup ToSet(st)
    BY <1>1, JuntaDeListas
  <2> QED
    BY <2>1 DEF st
<1>4. /\ \A s \in ToSet(st) : \E m \in (BloqueDe(cursor) + 2)..Len(archivos[r]) :
           s.bloque = archivos[r][m]
      /\ \A p \in cursor..(cursor + Len(datos) - 1) :
           BloqueDe(p) > BloqueDe(cursor) /\ BloqueDe(p) < Len(archivos[r]) =>
             \E s \in ToSet(st) : s.bloque = archivos[r][BloqueDe(p) + 1]
  BY <1>1, StreamsPosteriores
<1>5. u \in NumerosDeBloque \ bitmap /\ bs \in [NumerosDeBloque -> Contenidos]
  BY <1>1, UltimoDesocupado, EscribeEnSuBloque
<1>6. /\ bloques' = [bs EXCEPT ![u] = nuevo]
      /\ archivos' = [archivos EXCEPT ![r] = archivos[r] \o nuevos]
  BY DEF Extender
<1> HIDE DEF u, nuevo, bs, st
<1>7. nuevos \in Seq(NumerosDeBloque) /\ Len(nuevos) = n /\ \A s \in 1..n : nuevos[s] = u
  <2>1. nuevos \in [1..n -> NumerosDeBloque] /\ n \in Nat
    BY <1>5
  <2>2. \A s \in 1..n : nuevos[s] = u
    OBVIOUS
  <2> HIDE DEF nuevos
  <2>3. nuevos \in Seq(NumerosDeBloque)
    BY <2>1, SeqDef
  <2> QED
    BY <2>1, <2>2, <2>3, LenProperties
<1> HIDE DEF nuevos
<1>8. /\ DOMAIN archivos' = DOMAIN archivos
      /\ \A q \in DOMAIN archivos \ {r} : archivos'[q] = archivos[q]
      /\ archivos'[r] = archivos[r] \o nuevos
      /\ bloques'[u] = nuevo
      /\ \A c \in bitmap : bloques'[c] = bs[c]
  BY <1>1, <1>5, <1>6
<1>9. /\ Len(archivos'[r]) = l + n /\ DOMAIN archivos'[r] = 1..(l + n)
      /\ \A k \in 1..l : archivos'[r][k] = archivos[r][k]
      /\ \A k \in 1..(l + n) : k > l => archivos'[r][k] = u
  <2> DEFINE a == archivos[r] \o nuevos
  <2>1. /\ a \in Seq(NumerosDeBloque) /\ Len(a) = Len(archivos[r]) + Len(nuevos)
        /\ \A i \in 1..(Len(archivos[r]) + Len(nuevos)) :
             a[i] = IF i <= Len(archivos[r]) THEN archivos[r][i] ELSE nuevos[i - Len(archivos[r])]
    <3>1. archivos[r] \in Seq(NumerosDeBloque) /\ nuevos \in Seq(NumerosDeBloque)
      BY <1>2, <1>7
    <3> QED
      BY ONLY <3>1, ConcatProperties
  <2>2. DOMAIN a = 1..Len(a) /\ archivos'[r] = a
    BY <1>8, <2>1
  <2> HIDE DEF a
  <2>3. Len(a) = l + n /\ \A i \in 1..(l + n) : a[i] = IF i <= l THEN archivos[r][i] ELSE nuevos[i - l]
    BY <1>7, <2>1
  <2> HIDE DEF l
  <2>4. ASSUME NEW k \in 1..l PROVE a[k] = archivos[r][k]
    <3>1. k \in 1..(l + n) /\ k <= l
      BY <1>2
    <3> QED
      BY <2>3, <3>1
  <2>5. ASSUME NEW k \in 1..(l + n), k > l PROVE a[k] = u
    <3>1. k - l \in 1..n /\ ~(k <= l)
      BY <1>2, <2>5
    <3> QED
      BY <1>7, <2>3, <3>1
  <2> QED
    BY <2>2, <2>3, <2>4, <2>5
<1>10. ASSUME NEW p \in cursor..(cursor + Len(datos) - 1)
       PROVE  p \in Nat /\ BloqueDe(p) \in Nat /\ BloqueDe(p) < l + n /\ p \in PosicionesDe(r)'
  <2>1. p \in Nat /\ BloqueDe(p) < l + n
    BY <1>1, BuscaSuficientes
  <2>2. BloqueDe(p) \in Nat
    BY <2>1, EnSuBloque
  <2> HIDE DEF l
  <2>3. l + n \in Nat /\ PosicionesDe(r)' = 0..((l + n) * TamBloque - 1)
    BY <1>2, <1>9 DEF PosicionesDe
  <2>4. p \in 0..((l + n) * TamBloque - 1)
    BY <2>1, <2>3, Antes DEF BloqueDe
  <2> QED
    BY <2>1, <2>2, <2>3, <2>4
<1>11. ASSUME NEW p \in cursor..(cursor + Len(datos) - 1), BloqueDe(p) > BloqueDe(cursor),
              p \notin DudosasDe(r)'
       PROVE  ContenidoDe(r)'[p] = datos[p - cursor + 1]
  <2> DEFINE m == BloqueDe(p) + 1
  <2>1. ~EnDuda(r, m)'
    BY <1>10, <1>11 DEF DudosasDe
  <2>2. ~(BloqueDe(p) < l)
    <3> SUFFICES ASSUME BloqueDe(p) < l PROVE FALSE
      OBVIOUS
    <3>1. PICK s \in ToSet(st) : s.bloque = archivos[r][m]
      BY <1>4, <1>11
    <3>2. m \in 1..l
      <4>1. BloqueDe(p) \in Nat
        BY <1>10
      <4> HIDE DEF l
      <4> QED
        BY <1>2, <4>1
    <3>3. s \in ToSet(sinCerrar') /\ s.bloque = archivos'[r][m]
      BY <1>3, <1>9, <3>1, <3>2
    <3> QED
      BY <2>1, <3>3 DEF EnDuda
  <2>3. m \in 1..(l + n) /\ m > l
    <3>1. BloqueDe(p) \in Nat /\ BloqueDe(p) < l + n
      BY <1>10
    <3> HIDE DEF l
    <3> QED
      BY ONLY <1>2, <2>2, <3>1, n \in Nat \ {0}
  <2>4. n = 1
    <3> SUFFICES ASSUME n # 1 PROVE FALSE
      OBVIOUS
    <3>1. \E k \in 1..(l + n) : k > l /\ k # m
      <4> HIDE DEF l, m
      <4>1. l + 1 \in 1..(l + n) /\ l + 1 > l /\ l + 2 \in 1..(l + n) /\ l + 2 > l /\ l + 1 # l + 2
        BY <1>2
      <4> QED
        BY <4>1
    <3>2. \E k \in DOMAIN archivos'[r] \ {m} : archivos'[r][k] = archivos'[r][m]
      BY <1>9, <2>3, <3>1
    <3> QED
      BY <2>1, <3>2 DEF EnDuda
  <2>5. BloqueDe(p) = l
    <3>1. BloqueDe(p) \in Nat /\ BloqueDe(p) < l + n
      BY <1>10
    <3> HIDE DEF l
    <3> QED
      BY <1>2, <2>2, <2>4, <3>1
  <2>6. ByteDe(nuevo, p % TamBloque) = datos[p - cursor + 1]
    BY <1>1, <2>4, <2>5, NuevoEnSuLugar DEF nuevo
  <2>7. ContenidoDe(r)'[p] = Byte(r, BloqueDe(p), p % TamBloque)'
    BY <1>10 DEF ContenidoDe
  <2>8. archivos'[r][BloqueDe(p) + 1] = u
    BY <1>9, <2>3
  <2>9. Byte(r, BloqueDe(p), p % TamBloque)' = ByteDe(nuevo, p % TamBloque)
    BY <1>8, <2>8 DEF Byte, ByteDe
  <2> QED
    BY <2>6, <2>7, <2>9
<1>12. l <= l + n /\ \A k \in 1..(l + n) : k > l => archivos'[r][k] \notin bitmap
  BY <1>2, <1>5, <1>9
<1>13. \A s \in ToSet(sinCerrar') : \/ s \in ToSet(sinCerrar)
                                    \/ \E m \in (BloqueDe(cursor) + 2)..Len(archivos[r]) :
                                         s.bloque = archivos[r][m]
  BY <1>3, <1>4
<1> QED
  BY <1>8, <1>9, <1>10, <1>11, <1>12, <1>13, EscrituraAbstracta DEF bs

LEMMA GuardarAbstracto ==
  ASSUME IInvSistema, IInvSistema', NEW r \in RutasFS, NEW cursor \in Cursores, NEW datos \in Datos,
         guardarDatos(r, cursor, datos)
  PROVE  \/ Almacenado!Rechazar \/ Almacenado!Guardar(r, cursor, datos)
         \/ UNCHANGED Almacenado!varsAlmacen
<1>1. cursor \in Nat /\ datos \in Seq(Bytes) /\ TiposSistema /\ TiposSistema'
  BY DEF IInvSistema
<1>2. CASE Rechazar
  BY <1>2, RechazarAbstracto
<1>3. CASE CaerFS("sinBloque")
  BY <1>3, NadaCambia DEF CaerFS
<1>4. CASE Existe(r) /\ ~FueraDelArchivo(r, cursor) /\ ~Rechazar
  <2>1. r \in DOMAIN archivos /\ ~FueraDelArchivo(r, cursor)
    BY <1>4 DEF Existe
  <2>2. CASE EntraEnElBloque(cursor, datos)
    <3>1. /\ bloques' = EnElBloque(r, cursor, datos) /\ respuesta' = Hecho
          /\ UNCHANGED <<archivos, sinCerrar>>
      BY <1>4, <2>2 DEF guardarDatos, Responder
    <3> QED
      BY <1>1, <2>1, <2>2, <3>1, GuardarEnUnBloque
  <2>3. CASE ~EntraEnElBloque(cursor, datos)
    <3>1. PICK n : n = CuantosMas(cursor + Len(datos) - FinDeBloque(cursor))
      OBVIOUS
    <3>2. n \in Nat \ {0}
      <4>1. FinDeBloque(cursor) \in Nat /\ Len(datos) \in Nat
        BY <1>1, EnSuBloque
      <4>2. cursor + Len(datos) - FinDeBloque(cursor) \in Nat
        BY <1>1, <2>3, <4>1 DEF EntraEnElBloque
      <4> QED
        BY <3>1, <4>2, BuscaAlguno
    <3>3. EnVarios(r, cursor, datos)
      BY <1>4, <2>3 DEF guardarDatos
    <3>4. /\ sinCerrar' = sinCerrar \o Streams(r, cursor, datos)
          /\ \/ /\ TieneBloquesSuficientes(r, cursor, datos)
                /\ bloques' = EnElBloque(r, cursor, datos) /\ UNCHANGED archivos
             \/ Cardinality(Desocupados) >= n /\ Extender(r, cursor, datos, n)
          /\ respuesta' = Hecho
      BY <1>4, <3>1, <3>3 DEF EnVarios, Responder
    <3>5. CASE /\ TieneBloquesSuficientes(r, cursor, datos)
               /\ bloques' = EnElBloque(r, cursor, datos) /\ UNCHANGED archivos
      BY <1>1, <2>1, <2>3, <3>4, <3>5, GuardarEnLosPropios
    <3>6. CASE Cardinality(Desocupados) >= n /\ Extender(r, cursor, datos, n)
      BY <1>1, <2>1, <2>3, <3>1, <3>2, <3>4, <3>6, GuardarEnNuevos
    <3> QED
      BY <3>4, <3>5, <3>6
  <2> QED
    BY <2>2, <2>3
<1> QED
  BY <1>2, <1>3, <1>4 DEF guardarDatos

-----------------------------------------------------------------------------
\* Files of bytes: for any number of files and blocks, any size of block and any data,
\* each request of the FileSystem, each fall and each restart is a step of Almacen or
\* none.  A request or a deletion leaves the other files alone, what is read from the
\* first block on is what is there, and a write puts in doubt only what is past the
\* block of its cursor.
THEOREM SistemaImplementaAlmacen == SpecFS => ImplementaAlmacen
<1>1. InitFS => Almacenado!InitAlmacen
  BY InicioDelAlmacen
<1>2. ASSUME IInvSistema, IInvSistema', [NextFS]_varsFS
      PROVE  [Almacenado!NextAlmacen]_(Almacenado!varsAlmacen)
  <2>1. ASSUME NEW r \in RutasFS, crearArchivo(r) PROVE Almacenado!NextAlmacen
    BY <1>2, <2>1, CrearAbstracto DEF Almacenado!NextAlmacen
  <2>2. ASSUME NEW r \in RutasFS, borrarArchivo(r) PROVE Almacenado!NextAlmacen
    BY <1>2, <2>2, BorrarAbstracto DEF Almacenado!NextAlmacen
  <2>3. ASSUME NEW r \in RutasFS, NEW c \in Cursores, NEW n \in Tamanios, obtenerDatos(r, c, n)
        PROVE  Almacenado!NextAlmacen \/ UNCHANGED Almacenado!varsAlmacen
    BY <1>2, <2>3, LeerAbstracto DEF Almacenado!NextAlmacen
  <2>4. ASSUME NEW r \in RutasFS, NEW c \in Cursores, NEW d \in Datos, guardarDatos(r, c, d)
        PROVE  Almacenado!NextAlmacen \/ UNCHANGED Almacenado!varsAlmacen
    BY <1>2, <2>4, GuardarAbstracto DEF Almacenado!NextAlmacen
  <2>5. ASSUME Apagar PROVE Almacenado!NextAlmacen
    BY <1>2, <2>5, ApagarAbstracto DEF Almacenado!NextAlmacen
  <2>6. ASSUME UNCHANGED varsFS PROVE UNCHANGED Almacenado!varsAlmacen
    BY <2>6, NadaCambia DEF varsFS
  <2> QED
    BY <1>2, <2>1, <2>2, <2>3, <2>4, <2>5, <2>6 DEF NextFS, connectionHandler
<1>3. SpecFS => []IInvSistema
  BY InvarianteSistema
<1> QED
  BY <1>1, <1>2, <1>3, PTL DEF SpecFS, ImplementaAlmacen, Almacenado!SpecAlmacen
=============================================================================
