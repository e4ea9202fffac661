--------------------------------- MODULE CPU ---------------------------------
(***************************************************************************)
(* A CPU process (CPU/src) that runs a program for the Kernel, from the    *)
(* order that brings the PCB to the message that takes it back: the loop   *)
(* of instructions (FIFO or quantum), the primitives of the AnSISOP parser *)
(* over the stack, the interruptions and the signals that close the CPU.   *)
(* One thread runs it all: a step is an instruction, what the CPU checks   *)
(* after it, or a signal.                                                  *)
(*                                                                         *)
(* The Kernel is the environment: it hands the PCB over, refuses requests, *)
(* blocks and kills the process when it likes.  The parser is external: an *)
(* instruction is the primitives that it calls, in its order.              *)
(***************************************************************************)
EXTENDS Pcb

CONSTANTS
  Programas,       \* the programs, any of which the process may run
  Cuantos,         \* quantums the Kernel may send; 0 is FIFO
  TamPagina,       \* config_paginaSize
  StackSize,       \* config_stackSize, in pages
  Punteros,        \* what the Kernel answers to alocar and to abrir
  Argumentos,      \* the names of arguments, in order: "0", "1"...
  Basura,          \* what a read finds where nothing was written whole
  Ninguno

ASSUME CPUAssumption ==
  /\ Cuantos \subseteq Nat /\ TamPagina \in Nat /\ TamPagina >= 4
  /\ StackSize \in Nat \ {0}
  /\ Argumentos # <<>> /\ Argumentos \in Seq(ToSet(Argumentos))
  /\ DOMAIN Ninguno = {}

VARIABLES
  programa,   \* the program of the process
  kernel,     \* what the Kernel knows of the process and of the CPU
  canal,      \* the order with the PCB, on its way to the CPU
  cpu,        \* the globals of the CPU that steer its loop
  pcb,        \* pcb_actual
  memoria     \* the values the process has in its pages, by position

vars == <<programa, kernel, canal, cpu, pcb, memoria>>

CPUNueva == [fase |-> "esperando", fifo |-> FALSE, aEjecutarPorKernel |-> 0,
             aEjecutarDelPcb |-> 0, interrupcion |-> "ninguna",
             procesoFinalizado |-> TRUE, cpuFinalizada |-> FALSE]

Init ==
  /\ programa \in Programas
  /\ kernel = [lista |-> "listos", proceso |-> crearPcb(1, programa, TamPagina),
               espera |-> "orden", libre |-> TRUE, interrumpido |-> FALSE]
  /\ canal = Ninguno
  /\ cpu = CPUNueva
  /\ pcb = Ninguno
  /\ memoria = <<>>

-----------------------------------------------------------------------------
(* The pages of the process, by positions: code first and then stack.      *)

cantidadPaginasTotales(p) == StackSize + p.cantidadPaginasCodigo

EnPaginas(p, puntero) == puntero \in 0..(cantidadPaginasTotales(p) * TamPagina - 4)

PunteroDe(dir) == dir.pagina * TamPagina + dir.offset

DireccionDe(puntero, size) ==
  [pagina |-> puntero \div TamPagina, offset |-> puntero % TamPagina, size |-> size]

\* The four bytes of a value take the place of any value that they overlap.
ConValor(mem, puntero, valor) ==
  [q \in {k \in DOMAIN mem : k <= puntero - 4 \/ k >= puntero + 4} \cup {puntero} |->
     IF q = puntero THEN valor ELSE mem[q]]

ValorEn(mem, puntero) == IF puntero \in DOMAIN mem THEN mem[puntero] ELSE Basura

-----------------------------------------------------------------------------
(* obtener_instruccion: the parts of an instruction, one for each page.    *)

Lecturas(inicio, tamanio) ==
  LET pagina  == inicio \div TamPagina
      offset  == inicio - pagina * TamPagina
      primera == TamPagina - offset
  IN  IF offset + tamanio < TamPagina
      THEN <<[pagina |-> pagina, offset |-> offset, size |-> tamanio]>>
      ELSE <<[pagina |-> pagina, offset |-> offset, size |-> primera]>>
           \o (IF tamanio - primera > 0
               THEN <<[pagina |-> pagina + 1, offset |-> 0, size |-> tamanio - primera]>>
               ELSE <<>>)

Leidos(lecturas) ==
  FlattenSeq([i \in DOMAIN lecturas |->
                [k \in 1..lecturas[i].size |-> PunteroDe(lecturas[i]) + k - 1]])

\* The instruction whose text is in those bytes.
InstruccionLeida(bytes) ==
  programa.codigo[CHOOSE i \in DOMAIN programa.codigo :
     bytes = [k \in 1..programa.indice[i][2] |-> programa.indice[i][1] + k - 1]]

obtener_instruccion ==
  LET entrada == pcb.indiceCodigo[pcb.programCounter + 1]
  IN  InstruccionLeida(Leidos(Lecturas(entrada[1], entrada[2])))

-----------------------------------------------------------------------------
(* The primitives.  Each takes and gives what an instruction may change: m *)
(* has the PCB, the memory, the count of instructions and the interruption.*)

Interrumpir(m, motivo) == [m EXCEPT !.interrupcion = motivo]

NodoVacio == [args |-> <<>>, vars |-> <<>>, retPos |-> 0, retVar |-> DireccionDe(0, 0)]

ConNodo(pila) == IF pila = <<>> THEN <<NodoVacio>> ELSE pila

\* Where the node has its last variable, or its last argument if it has no variables.
UltimaDireccion(nodo) ==
  IF nodo.vars # <<>> THEN Last(nodo.vars).dirVar ELSE Last(nodo.args)

\* (mutant first: the search for the last value looks in the last node only)
ConDireccionesDelUltimo(pila) ==
  {i \in DOMAIN pila \cap {Len(pila)} : pila[i].vars # <<>> \/ pila[i].args # <<>>}

ConDirecciones(pila) == {i \in DOMAIN pila : pila[i].vars # <<>> \/ pila[i].args # <<>>}

\* Past the last value of the stack, or in the next page where it does not fit.
DireccionSiguiente(p, pila) ==
  IF ConDirecciones(pila) = {}
  THEN [pagina |-> cantidadPaginasTotales(p) - StackSize, offset |-> 0, size |-> 4]
  ELSE LET ultima == UltimaDireccion(pila[Max(ConDirecciones(pila))])
       IN  IF ultima.offset + ultima.size + 4 > TamPagina
           THEN [pagina |-> ultima.pagina + 1, offset |-> 0, size |-> 4]
           ELSE [pagina |-> ultima.pagina, offset |-> ultima.offset + ultima.size, size |-> 4]

ConDireccion(nodo, nombre, dir) ==
  IF nombre \in ToSet(Argumentos)
  THEN [nodo EXCEPT !.args = Append(@, dir)]
  ELSE [nodo EXCEPT !.vars = Append(@, [idVar |-> nombre, dirVar |-> dir])]

definirVariable(m, nombre) ==
  LET pila == ConNodo(m.pcb.indiceStack)
      dir  == DireccionSiguiente(m.pcb, pila)
  IN  IF dir.pagina >= cantidadPaginasTotales(m.pcb)
      THEN Interrumpir([m EXCEPT !.pcb.indiceStack = pila, !.puntero = 0], "stackOverflow")
      ELSE [m EXCEPT !.pcb.indiceStack =
                        [pila EXCEPT ![Len(pila)] = ConDireccion(@, nombre, dir)],
                     !.puntero = PunteroDe(dir)]

\* The directions that the last node has for a name: none, or those of its definitions.
Direcciones(p, nombre) ==
  LET nodo == Last(p.indiceStack)
  IN  IF nombre \in ToSet(Argumentos)
      THEN [i \in {k \in DOMAIN nodo.args : Argumentos[k] = nombre} |-> nodo.args[i]]
      ELSE [i \in {k \in DOMAIN nodo.vars : nodo.vars[k].idVar = nombre} |-> nodo.vars[i].dirVar]

obtenerPosicionVariable(m, nombre) ==
  LET dirs == Direcciones(m.pcb, nombre)
  IN  IF DOMAIN dirs = {}
      THEN Interrumpir([m EXCEPT !.puntero = -1], "direccionInvalida")
      ELSE [m EXCEPT !.puntero = PunteroDe(dirs[Max(DOMAIN dirs)])]

\* -1 is an unsigned position, in a page that no process has.
dereferenciar(m, puntero) ==
  IF EnPaginas(m.pcb, puntero)
  THEN [m EXCEPT !.valor = ValorEn(m.memoria, puntero)]
  ELSE Interrumpir([m EXCEPT !.valor = 0], "direccionInvalida")

almacenarDatosEnMemoria(m, puntero, valor) ==
  IF EnPaginas(m.pcb, puntero)
  THEN [m EXCEPT !.memoria = ConValor(@, puntero, valor)] ELSE m

asignar(m, puntero, valor) ==
  IF EnPaginas(m.pcb, puntero)
  THEN almacenarDatosEnMemoria(m, puntero, valor)
  ELSE Interrumpir(m, "excepcionMemoria")

\* A jump counts as many more instructions as there are from its label on.
Saltar(m, etiqueta) ==
  IF etiqueta \notin DOMAIN m.pcb.indiceEtiquetas
  THEN Interrumpir(m, "direccionInvalida")
  ELSE LET pc == m.pcb.indiceEtiquetas[etiqueta] - 1
       IN  [m EXCEPT !.pcb.programCounter = pc,
                     !.aEjecutarDelPcb = @ + (cantidadInstrucciones(m.pcb) - pc)]

irAlLabel(m, etiqueta) == Saltar(m, etiqueta)

\* (mutant first: the position to return to is that of the next instruction)
llamarConRetornoSiguiente(m, etiqueta, dondeRetornar) ==
  Saltar([m EXCEPT !.pcb.indiceStack =
            Append(@, [args |-> <<>>, vars |-> <<>>, retPos |-> m.pcb.programCounter + 1,
                       retVar |-> DireccionDe(dondeRetornar, 4)])],
         etiqueta)

llamarConRetorno(m, etiqueta, dondeRetornar) ==
  Saltar([m EXCEPT !.pcb.indiceStack =
            Append(@, [args |-> <<>>, vars |-> <<>>, retPos |-> m.pcb.programCounter,
                       retVar |-> DireccionDe(dondeRetornar, 4)])],
         etiqueta)

retornar(m, valor) ==
  LET nodo == Last(m.pcb.indiceStack)
      sinNodo == [m EXCEPT !.pcb.indiceStack = Front(@), !.pcb.programCounter = nodo.retPos]
  IN  almacenarDatosEnMemoria(sinNodo, PunteroDe(nodo.retVar), valor)

-----------------------------------------------------------------------------
(* The instructions, as the primitives that the parser calls for them.     *)

EsVariable(operando) == operando[1] = "variable"

\* The value of a constant or of a variable.
Operar(m, operando) ==
  IF EsVariable(operando)
  THEN LET p == obtenerPosicionVariable(m, operando[2]) IN dereferenciar(p, p.puntero)
  ELSE [m EXCEPT !.valor = operando[2]]

Escribir(m, nombre, valor) ==
  LET p == obtenerPosicionVariable(m, nombre) IN asignar(p, p.puntero, valor)

ConArgumento(m, nombre, valor) ==
  LET d == definirVariable(m, nombre) IN asignar(d, d.puntero, valor)

Variables(m, i) ==
  LET definidas[k \in 0..Len(i.nombres)] ==
        IF k = 0 THEN m ELSE definirVariable(definidas[k - 1], i.nombres[k])
  IN  definidas[Len(i.nombres)]

Asignacion(m, i) == LET v == Operar(m, i.operando) IN Escribir(v, i.destino, v.valor)

Llamada(m, i) ==
  LET v == Operar(m, i.operando)
      d == obtenerPosicionVariable(v, i.destino)
      l == llamarConRetorno(d, i.etiqueta, d.puntero)
  IN  ConArgumento(l, Argumentos[1], v.valor)

Retorno(m, i) == LET v == Operar(m, i.operando) IN retornar(v, v.valor)

SaltoSiCero(m, i) ==
  LET v == Operar(m, i.operando) IN IF v.valor = 0 THEN irAlLabel(v, i.etiqueta) ELSE v

\* wait, and the requests for the heap and for files: what the Kernel refuses interrupts.
Espera(m, rechazo) == IF rechazo THEN Interrumpir(m, "semWait") ELSE m

\* (mutant first: a refused request is noticed and no more)
PedidoSinInterrupcion(m, rechazo) == m

Pedido(m, rechazo) == IF rechazo THEN Interrumpir(m, "resEjecNegativo") ELSE m

\* reservar and abrir_archivo give 0 if refused, and the variable takes it.
Alocar(m, i, rechazo, puntero) ==
  Escribir(Pedido(m, rechazo), i.destino, IF rechazo THEN 0 ELSE puntero)

ConRespuesta == {"alocar", "abrir"}

Resultados(m, i, rechazo) ==
  CASE i.op = "variables" -> {Variables(m, i)}
    [] i.op = "asignar"   -> {Asignacion(m, i)}
    [] i.op = "llamar"    -> {Llamada(m, i)}
    [] i.op = "retornar"  -> {Retorno(m, i)}
    [] i.op = "saltar"    -> {SaltoSiCero(m, i)}
    [] i.op = "wait"      -> {Espera(m, rechazo)}
    [] i.op = "pedir"     -> {Pedido(m, rechazo)}
    [] i.op \in ConRespuesta ->
         {Alocar(m, i, rechazo, x) : x \in IF rechazo THEN {0} ELSE Punteros}

-----------------------------------------------------------------------------
(* What the CPU sends the Kernel, and how the Kernel takes it.  The Kernel *)
(* that refused a request waits for a PCB; else it waits for an order.     *)

CodigoMuerte == -8

ConCodigo(p, codigo) == [p EXCEPT !.exitCode = codigo]

\* The PCB arrives, alone or after an order, and goes to a list of the Kernel, with the
\* exit code that the Kernel gives it there.  A Kernel that waits for the other thing takes
\* the PCB for orders, or an order for the PCB: what it does then is not followed.
Devolver(p, precedido, lista, libre) ==
  LET leido == precedido = (kernel.espera = "orden")
  IN  /\ pcb' = Ninguno
      /\ kernel' = [kernel EXCEPT !.lista   = IF leido THEN lista ELSE "desincronizado",
                                  !.proceso = deserializarPcb(serializarPcb(p)),
                                  !.espera  = "orden",
                                  !.libre   = leido /\ libre]
      /\ cpu' = [cpu EXCEPT !.procesoFinalizado = TRUE, !.fase = "esperando"]

\* esperarPCB and recibirPCB, up to the PCB: procesoFinalizado is still what it was.
recibirPCB ==
  /\ cpu.fase = "esperando" /\ ~cpu.cpuFinalizada /\ canal # Ninguno
  /\ pcb' = deserializarPcb(canal.campos)
  /\ canal' = Ninguno
  /\ cpu' = [cpu EXCEPT !.fase = "recibiendo", !.fifo = canal.quantum = 0,
                        !.aEjecutarPorKernel = canal.quantum]
  /\ UNCHANGED <<programa, kernel, memoria>>

\* The rest of recibirPCB, and what the loop of instructions starts with.
EjecutarProgramaMedianteAlgoritmo ==
  /\ cpu.fase = "recibiendo"
  /\ cpu' = [cpu EXCEPT !.fase = "ejecutando", !.interrupcion = "ninguna",
                        !.procesoFinalizado = FALSE,
                        !.aEjecutarDelPcb = cantidadInstrucciones(pcb)]
  /\ UNCHANGED <<programa, kernel, canal, pcb, memoria>>

\* END: the PCB goes at once, still at that instruction.
finalizar ==
  /\ cpu.fase = "ejecutando" /\ obtener_instruccion.op = "fin"
  /\ Devolver(ConCodigo(pcb, 0), TRUE, "terminados", TRUE)
  /\ UNCHANGED <<programa, canal, memoria>>

Contado(n) == IF cpu.fifo THEN n + 1 ELSE n - 1

Refutable == {"wait", "pedir"} \cup ConRespuesta

\* What the CPU may take for a refusal.  The answer to an alocar that found room in a page
\* that the process had is an int without a value.
Negativa(op, rechazo) == IF op = "alocar" /\ ~rechazo THEN BOOLEAN ELSE {rechazo}

ejecutarInstruccion ==
  /\ cpu.fase = "ejecutando"
  /\ LET i == obtener_instruccion
         m == [pcb |-> pcb, memoria |-> memoria, aEjecutarDelPcb |-> cpu.aEjecutarDelPcb,
               interrupcion |-> cpu.interrupcion, puntero |-> 0, valor |-> 0]
     IN  /\ i.op # "fin"
         /\ \E rechazo \in BOOLEAN :
              /\ rechazo => i.op \in Refutable
              /\ kernel' = [kernel EXCEPT !.espera = IF rechazo THEN "pcb" ELSE @]
              /\ \E negativa \in Negativa(i.op, rechazo) : \E r \in Resultados(m, i, negativa) :
                   /\ pcb' = [r.pcb EXCEPT !.programCounter = @ + 1]
                   /\ memoria' = r.memoria
                   /\ cpu' = [cpu EXCEPT !.fase = "verificando",
                                         !.aEjecutarDelPcb = r.aEjecutarDelPcb,
                                         !.interrupcion = r.interrupcion,
                                         !.aEjecutarPorKernel = Contado(@)]
  /\ UNCHANGED <<programa, canal>>

-----------------------------------------------------------------------------
(* verificaInterrupcion, expropiar and the end of the quantum.             *)

PorKernel == {"semWait", "resEjecNegativo"}

ListaPara(motivo) == IF motivo = "semWait" THEN "bloqueados" ELSE "terminados"

\* The exit codes of a wrong access and of the stack are the same one.  The Kernel has
\* one for each kind of refusal; here it is that of the heap.
CodigoError   == -11
CodigoRechazo == -10
Codigo(motivo) == IF motivo = "resEjecNegativo" THEN CodigoRechazo ELSE CodigoError

Interrumpido(p, motivo) ==
  IF motivo = "semWait" THEN p ELSE ConCodigo(p, Codigo(motivo))

\* An interruption of its own comes first: the PCB goes alone if the Kernel refused.
expropiar ==
  /\ cpu.fase = "verificando" /\ cpu.interrupcion # "ninguna"
  /\ Devolver(Interrumpido(pcb, cpu.interrupcion), cpu.interrupcion \notin PorKernel,
              ListaPara(cpu.interrupcion), TRUE)
  /\ UNCHANGED <<programa, canal, memoria>>

SinInterrupcion == cpu.fase = "verificando" /\ cpu.interrupcion = "ninguna"

\* The Kernel answers that the process was killed.
expropiadoVoluntariamente ==
  /\ SinInterrupcion /\ kernel.interrumpido
  /\ Devolver(ConCodigo(pcb, CodigoMuerte), TRUE, "terminados", TRUE)
  /\ UNCHANGED <<programa, canal, memoria>>

\* The Kernel learns here, and only here, that the CPU is closing.
expropiarPorRR ==
  /\ SinInterrupcion /\ ~kernel.interrumpido
  /\ ~cpu.fifo /\ cpu.aEjecutarPorKernel = 0
  /\ Devolver(pcb, TRUE, "listos", ~cpu.cpuFinalizada)
  /\ UNCHANGED <<programa, canal, memoria>>

QuedanInstrucciones ==
  IF cpu.fifo THEN cpu.aEjecutarPorKernel < cpu.aEjecutarDelPcb
              ELSE cpu.aEjecutarPorKernel > 0

Seguir ==
  /\ SinInterrupcion /\ ~kernel.interrumpido /\ QuedanInstrucciones
  /\ cpu' = [cpu EXCEPT !.fase = "ejecutando"]
  /\ UNCHANGED <<programa, kernel, canal, pcb, memoria>>

\* The loop of FIFO ends by its count: the CPU keeps this PCB and waits in recv for
\* another one, or closes with it if a signal came before.
AgotarCuenta ==
  /\ SinInterrupcion /\ ~kernel.interrumpido
  /\ cpu.fifo /\ ~QuedanInstrucciones
  /\ cpu' = [cpu EXCEPT !.fase = IF cpu.cpuFinalizada THEN "cerrada" ELSE "esperando"]
  /\ UNCHANGED <<programa, kernel, canal, pcb, memoria>>

\* (mutant first: the signal closes the CPU whatever it does)
signalHandlerCierra ==
  /\ cpu.fase # "cerrada" /\ ~cpu.cpuFinalizada
  /\ cpu' = [cpu EXCEPT !.fase = "cerrada"]
  /\ UNCHANGED <<programa, kernel, canal, pcb, memoria>>

-----------------------------------------------------------------------------
\* With no process, or before recibirPCB says that it has one, the CPU closes at once;
\* running, when it has given the process back.
signalHandler ==
  /\ cpu.fase # "cerrada" /\ ~cpu.cpuFinalizada
  /\ cpu' = IF cpu.procesoFinalizado THEN [cpu EXCEPT !.fase = "cerrada"]
                                     ELSE [cpu EXCEPT !.cpuFinalizada = TRUE]
  /\ UNCHANGED <<programa, kernel, canal, pcb, memoria>>

\* Back from a process, the CPU sees its flag.  A signal does not wake recv, where a CPU that
\* kept a PCB stays.
cerrarTodo ==
  /\ cpu.fase = "esperando" /\ cpu.cpuFinalizada /\ cpu.procesoFinalizado
  /\ cpu' = [cpu EXCEPT !.fase = "cerrada"]
  /\ UNCHANGED <<programa, kernel, canal, pcb, memoria>>

\* Another CPU connects; a PCB that the one that closed had is not for it.
ConectarCPU ==
  /\ cpu.fase = "cerrada" /\ ~kernel.libre /\ canal = Ninguno /\ pcb = Ninguno
  /\ cpu' = CPUNueva
  /\ kernel' = [kernel EXCEPT !.libre = TRUE]
  /\ UNCHANGED <<programa, canal, pcb, memoria>>

-----------------------------------------------------------------------------
(* The Kernel.                                                             *)

Despachar ==
  /\ kernel.lista = "listos" /\ kernel.libre
  /\ \E q \in Cuantos :
       canal' = [quantum |-> q, campos |-> serializarPcb(kernel.proceso)]
  /\ kernel' = [kernel EXCEPT !.lista = "ejecucion", !.proceso = Ninguno, !.libre = FALSE]
  /\ UNCHANGED <<programa, cpu, pcb, memoria>>

Desbloquear ==
  /\ kernel.lista = "bloqueados"
  /\ kernel' = [kernel EXCEPT !.lista = "listos"]
  /\ UNCHANGED <<programa, canal, cpu, pcb, memoria>>

\* A kill: at once where the Kernel has the process, or noted for the CPU that runs it.
Matar ==
  /\ \/ kernel.lista \in {"listos", "bloqueados"}
        /\ kernel' = [kernel EXCEPT !.lista = "terminados",
                                    !.proceso = ConCodigo(@, CodigoMuerte)]
     \/ kernel.lista = "ejecucion" /\ ~kernel.interrumpido
        /\ kernel' = [kernel EXCEPT !.interrumpido = TRUE]
  /\ UNCHANGED <<programa, canal, cpu, pcb, memoria>>

\* The Kernel reads the order of a CPU that closed.
VerCierre ==
  /\ cpu.fase = "cerrada" /\ kernel.libre
  /\ kernel' = [kernel EXCEPT !.libre = FALSE]
  /\ UNCHANGED <<programa, canal, cpu, pcb, memoria>>

Next ==
  \/ recibirPCB \/ EjecutarProgramaMedianteAlgoritmo \/ finalizar \/ ejecutarInstruccion
  \/ expropiar \/ expropiadoVoluntariamente \/ expropiarPorRR \/ Seguir \/ AgotarCuenta
  \/ signalHandler \/ cerrarTodo \/ ConectarCPU
  \/ Despachar \/ Desbloquear \/ Matar \/ VerCierre

Spec == Init /\ [][Next]_vars
=============================================================================
