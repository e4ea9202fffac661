--------------------------- MODULE PropiedadesCPU ---------------------------
(***************************************************************************)
(* What the CPU must keep of the process it is given, and the mapping to   *)
(* the run of its program.                                                 *)
(***************************************************************************)
EXTENDS CPU, FiniteSets

CONSTANTS
  Nombres,       \* of variables and arguments
  Valores        \* what a variable may have

Interrupciones == {"ninguna", "stackOverflow", "direccionInvalida", "excepcionMemoria",
                   "semWait", "resEjecNegativo"}

-----------------------------------------------------------------------------
(* The programs.  Their routines are the program at "begin" and each       *)
(* function that is called; one is left by END, a return or a call only.   *)

Operaciones == {"variables", "asignar", "llamar", "retornar", "saltar", "wait", "pedir",
                "alocar", "abrir", "fin"}

Etiquetada(p, i) == p.codigo[i].etiqueta \in DOMAIN p.etiquetas

Llamadores(p) == {i \in DOMAIN p.codigo : p.codigo[i].op = "llamar" /\ Etiquetada(p, i)}

Principal(p) == p.inicio + 1

Entradas(p) ==
  {Principal(p)} \cup {p.etiquetas[p.codigo[i].etiqueta] + 1 : i \in Llamadores(p)}

\* The instruction i is of the routine that starts at e.
EsDeRutina(p, e, i) ==
  e \in Entradas(p) /\ e <= i /\ \A f \in Entradas(p) : f <= i => f <= e

\* The names that the routine has for certain when it gets there: those that its first
\* instruction defines, and the argument of a function.
Visibles(p, e, i) ==
  (IF e < i /\ p.codigo[e].op = "variables" THEN ToSet(p.codigo[e].nombres) ELSE {})
  \cup (IF e = Principal(p) THEN {} ELSE {Argumentos[1]})

TextoBienFormado(p) ==
  /\ p.codigo \in Seq(ToSet(p.codigo))
  /\ p.inicio \in Nat /\ p.bytes \in Nat /\ p.bytesDeEtiquetas \in Nat
  /\ p.etiquetas \in [DOMAIN p.etiquetas -> 0..(Len(p.codigo) - 1)]
  /\ p.indice \in [DOMAIN p.codigo -> Nat \X (1..(2 * TamPagina))]
  /\ \A i, j \in DOMAIN p.codigo : p.indice[i] = p.indice[j] => i = j

RutinasBienFormadas(p) ==
  /\ Principal(p) \in DOMAIN p.codigo
  /\ p.codigo[Principal(p)].op = "variables" /\ p.codigo[Principal(p)].nombres # <<>>
  /\ \A i \in DOMAIN p.codigo :
       LET op == p.codigo[i].op
       IN  /\ op \in Operaciones
           /\ op = "variables" => p.codigo[i].nombres \in Seq(Nombres \ ToSet(Argumentos))
           /\ op \notin {"fin", "retornar"} =>
                i + 1 \in DOMAIN p.codigo \ Entradas(p)
           /\ op = "saltar" /\ Etiquetada(p, i) =>
                \A e \in Entradas(p) : e <= i <=> e <= p.etiquetas[p.codigo[i].etiqueta] + 1
           /\ op = "llamar" /\ Etiquetada(p, i) =>
                p.etiquetas[p.codigo[i].etiqueta] # p.inicio
           /\ op = "retornar" => ~EsDeRutina(p, Principal(p), i)

\* The routine declares each name once, and no jump goes back over a declaration.
NombresUnaVez(p) ==
  \A i \in DOMAIN p.codigo : p.codigo[i].op = "variables" =>
    /\ IsInjective(p.codigo[i].nombres)
    /\ \A j \in DOMAIN p.codigo :
         /\ p.codigo[j].op = "variables" /\ j # i
            /\ (\A e \in Entradas(p) : e <= i <=> e <= j) =>
              ToSet(p.codigo[i].nombres) \cap ToSet(p.codigo[j].nombres) = {}
         /\ p.codigo[j].op = "saltar" /\ Etiquetada(p, j) =>
              i \notin (p.etiquetas[p.codigo[j].etiqueta] + 1)..j

ValoresConocidos(p) ==
  \A i \in DOMAIN p.codigo :
    p.codigo[i].op \in {"asignar", "llamar", "retornar"} /\ ~EsVariable(p.codigo[i].operando) =>
      p.codigo[i].operando[2] \in Valores

ASSUME ProgramasBienFormados ==
  \A p \in Programas : /\ TextoBienFormado(p) /\ RutinasBienFormadas(p)
                       /\ NombresUnaVez(p) /\ ValoresConocidos(p)

ASSUME ValoresAssumption ==
  Basura \in Valores /\ Punteros \subseteq Valores /\ Argumentos[1] \in Nombres

-----------------------------------------------------------------------------
(* The PCB                                                                 *)

PcbActual ==
  IF pcb # Ninguno THEN pcb
  ELSE IF canal # Ninguno THEN deserializarPcb(canal.campos) ELSE kernel.proceso

Direccion == [pagina : Int, offset : Nat, size : Int]

DireccionDeValor == [pagina : Int, offset : Nat, size : {4}]

Nodo == [args   : Seq(DireccionDeValor),
         vars   : Seq([idVar : Nombres \ ToSet(Argumentos), dirVar : DireccionDeValor]),
         retPos : Int,
         retVar : Direccion]

PcbDelPrograma ==
  [pid                   : Nat,
   programCounter        : Int,
   cantidadPaginasCodigo : {(programa.bytes + TamPagina - 1) \div TamPagina},
   indiceCodigo          : {programa.indice},
   indiceEtiquetas       : {programa.etiquetas},
   indiceEtiquetasSize   : {programa.bytesDeEtiquetas},
   indiceStack           : Seq(Nodo),
   exitCode              : Int]

\* Every variable keeps its type, and the PCB what it has of the program.
TiposCPU ==
  /\ programa \in Programas
  /\ kernel \in [lista : {"listos", "bloqueados", "ejecucion", "terminados", "desincronizado"},
                 proceso : PcbDelPrograma \cup {Ninguno}, espera : {"orden", "pcb"},
                 libre : BOOLEAN, interrumpido : BOOLEAN]
  /\ canal # Ninguno => canal \in [quantum : Cuantos, campos : {serializarPcb(PcbActual)}]
  /\ cpu \in [fase : {"esperando", "recibiendo", "ejecutando", "verificando", "cerrada"},
              fifo : BOOLEAN, aEjecutarPorKernel : Nat, aEjecutarDelPcb : Nat,
              interrupcion : Interrupciones, procesoFinalizado : BOOLEAN,
              cpuFinalizada : BOOLEAN]
  /\ pcb \in PcbDelPrograma \cup {Ninguno}
  /\ PcbActual \in PcbDelPrograma

\* There is one copy of the PCB: what the Kernel has, or was sent and did not understand, the
\* message on its way to a CPU, or what a CPU has.  The flag that puts a signal off is up while
\* the CPU has a PCB that it has started, and not yet while it receives it.
PcbEnUnLugar ==
  /\ Cardinality({k \in 1..3 : <<kernel.proceso, canal, pcb>>[k] # Ninguno}) = 1
  /\ (kernel.lista = "ejecucion") = (kernel.proceso = Ninguno)
  /\ cpu.fase \in {"recibiendo", "ejecutando", "verificando"} => pcb # Ninguno
  /\ cpu.fase = "recibiendo" => cpu.procesoFinalizado
  /\ cpu.fase \in {"ejecutando", "verificando"} => ~cpu.procesoFinalizado
  /\ pcb = Ninguno => cpu.procesoFinalizado

\* No recursion without a call to a function that starts before the call.
LlamaHaciaAtras ==
  \E i \in Llamadores(programa) : programa.etiquetas[programa.codigo[i].etiqueta] < i

\* FIFO counts again from 0, as many instructions as the code has, when a process goes on.
PuedeAgotarse == cpu.fifo /\ ~QuedanInstrucciones /\ LlamaHaciaAtras

\* A CPU that has started a process gives its PCB back whatever ends its turn, before it waits
\* for another or closes, whenever the signal came since; only the count of FIFO may leave it
\* there, and only with recursion.  A signal between the PCB and the flag does lose the
\* process: procesoFinalizado is then still up in the CPU that closed with it.
UnSoloPcb ==
  /\ PcbEnUnLugar
  /\ pcb # Ninguno => \/ cpu.fase \in {"recibiendo", "ejecutando", "verificando"}
                      \/ cpu.fase = "cerrada" /\ cpu.procesoFinalizado
                      \/ PuedeAgotarse

\* The process is over from the instruction that interrupted it for good.
Condenado == cpu.fase = "verificando" /\ cpu.interrupcion \notin {"ninguna", "semWait"}
Terminado == Condenado \/ kernel.lista \in {"terminados", "desincronizado"}

\* The Kernel waits for a PCB alone and the CPU is not to send one so, or the other way round.
Desacuerdo ==
  \/ kernel.lista = "desincronizado"
  \/ (kernel.espera = "pcb") # (cpu.fase = "verificando" /\ cpu.interrupcion \in PorKernel)

\* The variable of the last instruction is not in the frame.
SinDestino(p) ==
  DOMAIN Direcciones(p, programa.codigo[p.programCounter].destino) = {}

\* An alocar, whose answer the CPU may misread, or an abrir to a name that is not there, where
\* the assignment takes the place of the refusal.
PuedeDiscordar(p) ==
  LET op == programa.codigo[p.programCounter].op
  IN  op = "alocar" \/ (op = "abrir" /\ SinDestino(p))

\* While the Kernel waits for a PCB the CPU goes on with nothing else, and whether an order is
\* to come before the PCB the two of them agree but after those two instructions, which the
\* process then does not survive.
KernelAtendido ==
  /\ kernel.espera = "pcb" => cpu.fase = "verificando" /\ cpu.interrupcion # "ninguna"
  /\ Desacuerdo => Terminado /\ PuedeDiscordar(PcbActual)

\* What the process has in its stack, node by node, arguments before variables.
DireccionesDe(nodo) == nodo.args \o [i \in DOMAIN nodo.vars |-> nodo.vars[i].dirVar]

\* Arguments and variables take the stack in the order of their definition, none over
\* another, none across two pages and none outside the pages of the stack: a value of
\* a frame that returned leaves its place to the next.
SinSolapar ==
  LET pila == PcbActual.indiceStack
  IN  \A n \in DOMAIN pila : \A i \in DOMAIN DireccionesDe(pila[n]) :
        LET dir == DireccionesDe(pila[n])[i]
        IN  /\ dir.offset + 4 <= TamPagina
            /\ dir.pagina \in PcbActual.cantidadPaginasCodigo..
                                (cantidadPaginasTotales(PcbActual) - 1)
            /\ \A m \in DOMAIN pila : \A j \in DOMAIN DireccionesDe(pila[m]) :
                 n < m \/ (n = m /\ i < j) =>
                   PunteroDe(dir) + 4 <= PunteroDe(DireccionesDe(pila[m])[j])

\* The buffer of a message has the size of what is written in it, whatever the stack.
TamanioExacto ==
  calcularPcbSerializadoSize(PcbActual) = BytesDe(serializarPcb(PcbActual))

-----------------------------------------------------------------------------
NombresDe(nodo) ==
  {Argumentos[i] : i \in DOMAIN nodo.args} \cup {nodo.vars[i].idVar : i \in DOMAIN nodo.vars}

\* Where each frame of the stack goes on, or the call that it waits for.
LugarDe(p, k) ==
  IF k = Len(p.indiceStack) THEN p.programCounter + 1 ELSE p.indiceStack[k + 1].retPos + 1

\* A frame is in a routine, with the names that the routine has there.
MarcoEnRutina(p, k, e) ==
  /\ EsDeRutina(programa, e, LugarDe(p, k))
  /\ (e = Principal(programa)) = (k = 1)
  /\ Visibles(programa, e, LugarDe(p, k)) \subseteq NombresDe(p.indiceStack[k])

\* A process that goes on is at an instruction of its program; the first frame is that of
\* "begin", the others have one argument and wait for a call to return.
PilaEnRutinas(p) ==
  LET pila == p.indiceStack
  IN  /\ p.programCounter + 1 \in DOMAIN programa.codigo
      /\ pila = <<>> => p.programCounter = programa.inicio
      /\ \A k \in DOMAIN pila :
           /\ LugarDe(p, k) \in DOMAIN programa.codigo
           /\ k < Len(pila) => programa.codigo[LugarDe(p, k)].op = "llamar"
           /\ Len(pila[k].args) = IF k = 1 THEN 0 ELSE 1
           /\ \E e \in Entradas(programa) : MarcoEnRutina(p, k, e)

\* An instruction starts with no interruption pending, and in its quantum.
EnMarcha ==
  /\ cpu.fase = "recibiendo" => cpu.fifo = (cpu.aEjecutarPorKernel = 0)
  /\ cpu.fase = "ejecutando" => /\ cpu.interrupcion = "ninguna"
                                /\ ~cpu.fifo => cpu.aEjecutarPorKernel > 0

IInvPcb ==
  /\ TiposCPU /\ PcbEnUnLugar /\ KernelAtendido /\ SinSolapar /\ EnMarcha
  /\ ~Terminado => PilaEnRutinas(PcbActual)

\* Where the routine of an instruction ends, and how many instructions it has left.
Limite(i) == Min({e \in Entradas(programa) : e > i} \cup {Len(programa.codigo) + 1})
Resto(i)  == Limite(i) - i - 1

\* Where the frames are, from that of "begin" on.
Lugares(p) ==
  IF p.indiceStack = <<>> THEN <<p.programCounter + 1>>
  ELSE [k \in DOMAIN p.indiceStack |-> LugarDe(p, k)]

\* Each frame waits in a routine before that of the next one.
EnAscenso(lugares) ==
  \A k \in 1..(Len(lugares) - 1) : Limite(lugares[k]) <= lugares[k + 1]

\* The most that is left without a jump or a call, which add to the count what they need.
Faltan(lugares) ==
  1 + SumFunctionOnSet([k \in DOMAIN lugares |-> Resto(lugares[k])], DOMAIN lugares)

\* Without recursion, what the count of FIFO has left is enough.
CuentaAlcanza ==
  ~LlamaHaciaAtras /\ ~Terminado =>
    /\ EnAscenso(Lugares(PcbActual))
    /\ cpu.fase \in {"ejecutando", "verificando"} /\ cpu.fifo =>
         cpu.aEjecutarPorKernel + Faltan(Lugares(PcbActual)) <= cpu.aEjecutarDelPcb

IInvCuenta == IInvPcb /\ CuentaAlcanza /\ UnSoloPcb

DireccionEn(nodo, nombre) ==
  IF nombre \in ToSet(Argumentos)
  THEN nodo.args[CHOOSE i \in DOMAIN nodo.args : Argumentos[i] = nombre]
  ELSE (CHOOSE v \in ToSet(nodo.vars) : v.idVar = nombre).dirVar

\* The variables of a frame are declared before its place, and are there once.
Declarados(p) ==
  \A k \in DOMAIN p.indiceStack : \A v \in DOMAIN p.indiceStack[k].vars :
    LET nombre(w) == p.indiceStack[k].vars[w].idVar
    IN  /\ \A w \in DOMAIN p.indiceStack[k].vars : nombre(w) = nombre(v) => w = v
        /\ \E i \in DOMAIN programa.codigo :
             /\ i < LugarDe(p, k) /\ programa.codigo[i].op = "variables"
             /\ nombre(v) \in ToSet(programa.codigo[i].nombres)
             /\ \A e \in Entradas(programa) : e <= i <=> e <= LugarDe(p, k)

\* What a call returns to is a variable of the frame that waits for it.
Destinos(pila) ==
  \A k \in DOMAIN pila : k > 1 =>
    \E n \in NombresDe(pila[k - 1]) :
      PunteroDe(DireccionEn(pila[k - 1], n)) = PunteroDe(pila[k].retVar)

\* The values of the stack, frame by frame, fill its pages one after the other.
ValoresEnPila(pila) == UNION {{n} \X DOMAIN DireccionesDe(pila[n]) : n \in DOMAIN pila}

Anteriores(pila, x) == {y \in ValoresEnPila(pila) : y[1] < x[1] \/ (y[1] = x[1] /\ y[2] < x[2])}

PorPagina == TamPagina \div 4

NumeroDe(p, dir) == (dir.pagina - p.cantidadPaginasCodigo) * PorPagina + dir.offset \div 4

EnFila(p) ==
  \A x \in ValoresEnPila(p.indiceStack) :
    LET dir == DireccionesDe(p.indiceStack[x[1]])[x[2]]
    IN  /\ dir.offset % 4 = 0
        /\ NumeroDe(p, dir) = Cardinality(Anteriores(p.indiceStack, x))

MemoriaTipada(mem) == DOMAIN mem \subseteq Nat /\ \A q \in DOMAIN mem : mem[q] \in Valores

PilaFiel ==
  ~Terminado =>
    /\ Declarados(PcbActual) /\ Destinos(PcbActual.indiceStack) /\ EnFila(PcbActual)
    /\ MemoriaTipada(memoria)

\* The PCB is in one place and what it has is of its program, the count of FIFO is enough, and
\* the names and the values of the stack are those that the program put there.
IInvCPU == IInvCuenta /\ PilaFiel

\* A process that the Kernel does not understand gets no exit code: 2 is for those.
EstadoDe ==
  IF ~Terminado THEN 1
  ELSE IF Desacuerdo THEN 2
  ELSE IF Condenado THEN Codigo(cpu.interrupcion) ELSE kernel.proceso.exitCode

\* The variable of the caller that the call returns to.
DestinoDe(pila, i) ==
  IF i = 1 THEN <<>>
  ELSE <<CHOOSE n \in NombresDe(pila[i - 1]) :
           PunteroDe(DireccionEn(pila[i - 1], n)) = PunteroDe(pila[i].retVar)>>

MarcosDe(pila) ==
  [i \in DOMAIN pila |->
     [valores |-> [n \in NombresDe(pila[i]) |->
                     ValorEn(memoria, PunteroDe(DireccionEn(pila[i], n)))],
      vuelve  |-> pila[i].retPos,
      en      |-> DestinoDe(pila, i)]]

Ejecucion == INSTANCE ProgramaAnsisop WITH
  Capacidad   <- StackSize * (TamPagina \div 4),
  Argumento   <- Argumentos[1],
  pc          <- IF Terminado THEN 0 ELSE PcbActual.programCounter,
  marcos      <- IF Terminado THEN <<>> ELSE MarcosDe(PcbActual.indiceStack),
  estado      <- EstadoDe

\* The process runs its program and nothing else, however many times a quantum, a semaphore
\* or a signal moves it, and its exit code says how it ended: 0 only for END, the code of
\* the stack only for a full stack or a name that is not there.  It may be lost with a CPU
\* that closes, and then it takes no step, or in an alocar or abrir that the Kernel and the
\* CPU read each in its way.
ImplementaPrograma == Ejecucion!SpecPrograma
=============================================================================
