---------------------------- MODULE Planificacion ----------------------------
(***************************************************************************)
(* The process scheduler of the Kernel (Kernel/src/planificacion.h,        *)
(* Kernel.c, semaforosAnsisop.h, excepciones.h).                           *)
(*                                                                         *)
(* Threads of the Kernel process:                                          *)
(*   principal   selectorConexiones: one message at a time, each handler   *)
(*               runs to its end before the next select;                   *)
(*   corto       planificarCortoPlazo: ready process -> idle CPU;          *)
(*   largo       administrarNuevosProcesos: new -> ready, up to the degree *)
(*               of multiprogramming;                                      *)
(*   fin         administrarFinProcesos: listaEspera -> terminated;        *)
(*   usuario     interfazHandler: kill, pause, resume, change the degree;  *)
(*   abortador   the thread a closing console starts to kill its programs. *)
(* Outside it, each CPU process (CPU/src) executes the program it was sent *)
(* and answers over its own socket.                                        *)
(*                                                                         *)
(* One step of a thread is one access to a structure other threads use: a  *)
(* critical section or a sem_wait.  A list operation is one step, whether  *)
(* the code takes the mutex of the list or forgets it.  The sem_posts that *)
(* follow an operation are in its step: nobody reads the value of a        *)
(* semaphore, so a post that comes earlier allows what it would later.     *)
(*                                                                         *)
(* A definition right before another one and with its parameters that the  *)
(* module does not use is a variant of it with a bug: the properties are   *)
(* seen to fail with the variant in the place of the definition.           *)
(***************************************************************************)
EXTENDS Integers, Sequences, FiniteSets, SequencesExt

CONSTANTS
  MaxPid,        \* programs the consoles start; their pids are 1..MaxPid
  CPUs,          \* the CPU processes that may connect
  Semaforos,     \* SEM_IDS of config_Kernel
  ValorInicial,  \* SEM_INIT: the value a semaphore starts with
  MaxValor,      \* bound: a program signals only below this value
  MaxRegistros,  \* bound on the entries of one pid in colaEjecucion
  Grado,         \* GRADO_MULTIPROG of config_Kernel
  GradosNuevos,  \* the degrees the user may type in (option M)
  MaxCambios,    \* bound: changes of the degree, and pauses, of the user
  Pedidos,       \* <<thread, pid>>: the kills somebody asks for, once each
  PausaPermitida,\* whether the user pauses and resumes (options P, R, D)
  Cerrables,     \* the CPUs that may get SIGINT or SIGUSR1
  Basura,        \* what the pid of a new t_cpu may be: malloc does not clear it
  SinMemoria     \* the programs for which Memoria may refuse the pages

Pids == 1..MaxPid
Nadie == 0                    \* no process: the NULL of list_remove_by_condition
HilosMata == {"usuario", "principal", "abortador"}

ASSUME ConstantesOK ==
  /\ MaxPid \in Nat \ {0}
  /\ IsFiniteSet(CPUs)
  /\ ValorInicial \in [Semaforos -> Int]
  /\ MaxValor \in Int /\ MaxRegistros \in Nat \ {0}
  /\ Grado \in Int /\ GradosNuevos \subseteq Int /\ MaxCambios \in Nat
  /\ Pedidos \subseteq HilosMata \X Pids
  /\ PausaPermitida \in BOOLEAN
  /\ Basura \subseteq Pids \cup {Nadie}
  /\ Cerrables \subseteq CPUs /\ SinMemoria \subseteq Pids

VARIABLES
  cola,       \* the process lists: nuevos, listos, espera (sequences of pids),
              \* ejecucion, bloqueados, terminados (how often a pid is in them)
  sem,        \* the POSIX semaphores: admitir, fin, listo, cpu, planif
  mutex,      \* holders of the mutexes kept across several steps
  cpu,        \* listaCPU: [alta, estado, pid] of each CPU
  remoto,     \* the CPU processes: [fase, pid, cerrando]
  semaforo,   \* the AnSISOP semaphores: [valor, pids]
  adm,        \* codigos, tablas (pids); interrumpidos (how often a pid is there)
  grado,      \* [actual, maximo]: gradoMultiProgramacion, config_gradoMul...
  flagPlanificacion,
  contadorPid,
  principal,  \* [rutina, paso, cpu, pid, sem] of the main thread
  corto,      \* [paso, pid] of planificarCortoPlazo
  largo,      \* [paso, pid] of administrarNuevosProcesos
  fin,        \* [paso, pid, indice] of administrarFinProcesos
  mata,       \* [paso, pid, cpu] of buscarProcesoYTerminarlo, per thread
  usuario,    \* what interfazHandler is in the middle of
  pendientes, \* [pedidos, cambios]: what consoles and user may still ask for
  fallo       \* why the Kernel process died, or "ninguno"

vars == <<cola, sem, mutex, cpu, remoto, semaforo, adm, grado,
          flagPlanificacion, contadorPid, principal, corto, largo, fin, mata,
          usuario, pendientes, fallo>>

hilos == <<principal, corto, largo, fin, mata, usuario>>

-----------------------------------------------------------------------------
(* What each handler of the main thread does once it has read the message  *)
(* and done its first operation, in the order of the code.                 *)

Guion ==
  [ nuevoPrograma    |-> <<"aCodigos">>,
    finProceso       |-> <<"aEspera", "ociosa">>,
    finQuantum       |-> <<"removerEjec", "aListos">>,
    finQuantumCierre |-> <<"removerEjec", "aListos">>,
    bloqueo          |-> <<"ociosa", "aBloqueados", "aSemaforo">>,
    desbloqueo       |-> <<"desbloquear", "aListos", "devolverSem">>,
    expropiado       |-> <<"ociosa", "desinterrumpir", "aEspera">>,
    excepcion        |-> <<"ociosa", "aEspera">>,
    stackOverflow    |-> <<"aEspera", "ociosa">> ]

Rutinas == DOMAIN Guion

SinRutina == [rutina |-> "selector", paso |-> 0, cpu |-> "ninguna", pid |-> Nadie,
              sem |-> "ninguno"]

Postear(ss) == sem' = [s \in DOMAIN sem |-> IF s \in ss THEN sem[s] + 1 ELSE sem[s]]
Wait(s) == sem[s] > 0 /\ sem' = [sem EXCEPT ![s] = @ - 1]

\* The next operation of the handler in progress.
Operacion ==
  IF principal.rutina \in Rutinas THEN Guion[principal.rutina][principal.paso]
                                  ELSE "ninguna"

\* The main thread executes operation op of its handler and moves on.
Paso(op) ==
  /\ Operacion = op
  /\ principal' = IF principal.paso < Len(Guion[principal.rutina])
                  THEN [principal EXCEPT !.paso = @ + 1]
                  ELSE SinRutina

\* The main thread reads a message and starts its handler.
Atender(r, c, p, s) ==
  /\ principal.rutina = "selector"
  /\ principal' = [rutina |-> r, paso |-> 1, cpu |-> c, pid |-> p, sem |-> s]

Sumar(bolsa, p)  == [bolsa EXCEPT ![p] = @ + 1]
RestarSinMirar(bolsa, p) == [bolsa EXCEPT ![p] = @ - 1]
RestarNada(bolsa, p)     == bolsa
Restar(bolsa, p) == [bolsa EXCEPT ![p] = IF @ > 0 THEN @ - 1 ELSE 0]
Falla(motivo) == fallo' = motivo

-----------------------------------------------------------------------------
Init ==
  /\ cola = [nuevos |-> <<>>, listos |-> <<>>, espera |-> <<>>,
             ejecucion  |-> [p \in Pids |-> 0],
             bloqueados |-> [p \in Pids |-> 0],
             terminados |-> [p \in Pids |-> 0]]
  /\ sem = [admitir |-> 0, fin |-> 0, listo |-> 0, cpu |-> 0, planif |-> 1]
  /\ mutex = [nuevo |-> "libre", listos |-> "libre", espera |-> "libre"]
  /\ cpu = [c \in CPUs |-> [alta |-> FALSE, estado |-> "OCIOSA", pid |-> Nadie]]
  /\ remoto = [c \in CPUs |-> [fase |-> "apagada", pid |-> Nadie, cerrando |-> FALSE]]
  /\ semaforo = [s \in Semaforos |-> [valor |-> ValorInicial[s], pids |-> <<>>]]
  /\ adm = [codigos |-> {}, tablas |-> {}, interrumpidos |-> [p \in Pids |-> 0]]
  /\ grado = [actual |-> 0, maximo |-> Grado]
  /\ flagPlanificacion = TRUE
  /\ contadorPid = 0
  /\ principal = SinRutina
  /\ corto = [paso |-> "pausa", pid |-> Nadie]
  /\ largo = [paso |-> "pausa", pid |-> Nadie]
  /\ fin = [paso |-> "esperar", pid |-> Nadie, indice |-> 0]
  /\ mata = [h \in HilosMata |-> [paso |-> "nada", pid |-> Nadie, cpu |-> "ninguna"]]
  /\ usuario = "libre"
  /\ pendientes = [pedidos |-> Pedidos, cambios |-> MaxCambios]
  /\ fallo = "ninguno"

-----------------------------------------------------------------------------
(* The CPU processes.  A CPU sends one order at a time and waits for the   *)
(* answer, so the step in which it sends an order is the one in which the  *)
(* main thread reads it.                                                   *)

\* A CPU connects ('N'): it waits for a PCB from now on.
GestionarNuevaCPU(c) ==
  /\ remoto[c].fase = "apagada" /\ principal.rutina = "selector"
  /\ remoto' = [remoto EXCEPT ![c].fase = "libre"]
  /\ \E p \in Basura : cpu' = [cpu EXCEPT ![c] = [alta |-> TRUE, estado |-> "OCIOSA", pid |-> p]]
  /\ Postear({"cpu"})
  /\ UNCHANGED <<cola, mutex, semaforo, adm, grado, flagPlanificacion, contadorPid,
                 hilos, pendientes, fallo>>

\* The dispatcher has sent p to its CPU and has not added it to colaEjecucion.
EnVentana(p) == corto.paso = "registrar" /\ corto.pid = p

\* Bound: a program that leaves the CPU inside the window leaves one entry
\* more in colaEjecucion, and it does so at most MaxRegistros times.
SalidaAcotada(p) == EnVentana(p) => cola.ejecucion[p] < MaxRegistros

\* What the CPU does once the process left it: wait for another, or close.
Desocupada(r) == [r EXCEPT !.fase = IF r.cerrando THEN "saliendo" ELSE "libre",
                           !.pid = Nadie]

\* The process of CPU c leaves it and the main thread starts routine r.
DejarCPU(c, fases, r, s) ==
  /\ remoto[c].fase \in fases
  /\ SalidaAcotada(remoto[c].pid)
  /\ Atender(r, c, remoto[c].pid, s)
  /\ remoto' = [remoto EXCEPT ![c] = Desocupada(@)]
  /\ UNCHANGED <<sem, mutex, adm, grado, flagPlanificacion, contadorPid,
                 corto, largo, fin, mata, usuario, pendientes, fallo>>

\* The routines whose first operation is removerDeColaEjecucion, which removes
\* the first entry of the pid if there is one.
DejarYRemover(c, fases, r, s) ==
  /\ DejarCPU(c, fases, r, s)
  /\ cola' = [cola EXCEPT !.ejecucion = Restar(@, remoto[c].pid)]
  /\ UNCHANGED cpu

\* The CPU that was sent a PCB reads it and runs the program; its first order shows that it
\* has read it.
EnMarcha == {"recibe", "ejecuta"}

\* 'T': the program reached its end; 'XM', an address the stack does not have
\* (excepcionDireccionInvalida), does the same with another exit code.
FinProceso(c) ==
  /\ DejarYRemover(c, EnMarcha, "finProceso", "ninguno")
  /\ UNCHANGED semaforo

\* 'R': the quantum ended; the CPU is idle first of all.  A CPU that was closing
\* when it sent the message says so in it, and gets no post of sem_CPU; it may
\* have begun to close since.
FinQuantum(c) ==
  /\ \E r \in {"finQuantum"} \cup IF remoto[c].cerrando THEN {"finQuantumCierre"} ELSE {} :
       DejarCPU(c, {"finQuantum"}, r, "ninguno")
  /\ cpu' = [cpu EXCEPT ![c].estado = "OCIOSA"]
  /\ UNCHANGED <<cola, semaforo>>

\* An error ends the program: of a system call (expropiarPorEjecucion) or of
\* the stack ('XK').
Excepcion(c, r) ==
  /\ r \in {"excepcion", "stackOverflow"}
  /\ DejarYRemover(c, EnMarcha, r, "ninguno")
  /\ UNCHANGED semaforo

BloqueaEnCero(v) == v <= 0
Bloquea(v) == v < 0

\* 'XW': wait(s).  Below zero the CPU sends the PCB back at once.
WaitSemaforo(c, s) ==
  /\ semaforo' = [semaforo EXCEPT ![s].valor = @ - 1]
  /\ \/ /\ Bloquea(semaforo[s].valor - 1)
        /\ DejarYRemover(c, EnMarcha, "bloqueo", s)
     \/ /\ ~Bloquea(semaforo[s].valor - 1)
        /\ remoto[c].fase \in EnMarcha
        /\ principal.rutina = "selector"
        /\ remoto' = [remoto EXCEPT ![c].fase = "consulta"]
        /\ UNCHANGED <<cola, sem, mutex, cpu, adm, grado, flagPlanificacion,
                       contadorPid, hilos, pendientes, fallo>>

\* 'XS': signal(s).  The first pid that waits, if any, is unblocked.
SignalSemaforo(c, s) ==
  /\ remoto[c].fase \in EnMarcha
  /\ semaforo[s].valor < MaxValor
  /\ IF semaforo[s].pids = <<>>
     THEN /\ principal.rutina = "selector"
          /\ semaforo' = [semaforo EXCEPT ![s].valor = @ + 1]
          /\ UNCHANGED principal
     ELSE /\ Atender("desbloqueo", c, Head(semaforo[s].pids), s)
          /\ semaforo' = [semaforo EXCEPT ![s] = [valor |-> @.valor + 1, pids |-> Tail(@.pids)]]
  /\ remoto' = [remoto EXCEPT ![c].fase = "consulta"]
  /\ UNCHANGED <<cola, sem, mutex, cpu, adm, grado, flagPlanificacion,
                 contadorPid, corto, largo, fin, mata, usuario, pendientes, fallo>>

\* 'I': after an instruction the CPU asks whether its process must stop.  If
\* not, it goes on with the next instruction, or gives the process back when
\* the quantum is over.
VerificarInterrupciones(c) ==
  /\ remoto[c].fase \in EnMarcha \cup {"consulta"}
  /\ principal.rutina = "selector"
  /\ \E f \in IF cpu[c].pid \in Pids /\ adm.interrumpidos[cpu[c].pid] > 0
              THEN {"expropiada"} ELSE {"ejecuta", "finQuantum"} :
       remoto' = [remoto EXCEPT ![c].fase = f]
  /\ UNCHANGED <<cola, sem, mutex, cpu, semaforo, adm, grado, flagPlanificacion,
                 contadorPid, principal, corto, largo, fin, mata, usuario, pendientes, fallo>>

\* 'E': the CPU was told to stop its process and gives it back.
ProcesoExpropiado(c) ==
  /\ DejarYRemover(c, {"expropiada"}, "expropiado", "ninguno")
  /\ UNCHANGED semaforo

\* (mutant first: a busy CPU closes too, with its process)
SignalCPUOcupada(c) ==
  /\ c \in Cerrables /\ ~remoto[c].cerrando
  /\ remoto[c].fase # "apagada"
  /\ remoto' = [remoto EXCEPT ![c].cerrando = TRUE, ![c].fase = "saliendo"]
  /\ UNCHANGED <<cola, sem, mutex, cpu, semaforo, adm, grado, flagPlanificacion,
                 contadorPid, hilos, pendientes, fallo>>

\* An idle CPU closes, and a busy one once it is rid of its process; until it has read the
\* whole PCB procesoFinalizado says that it is idle.
AlCerrar(f) ==
  CASE f = "libre"  -> {"saliendo"}
    [] f = "recibe" -> {"saliendo", "ejecuta"}
    [] OTHER        -> {f}

\* SIGINT or SIGUSR1.
SignalCPU(c) ==
  /\ c \in Cerrables /\ ~remoto[c].cerrando
  /\ remoto[c].fase # "apagada"
  /\ \E f \in AlCerrar(remoto[c].fase) :
       remoto' = [remoto EXCEPT ![c].cerrando = TRUE, ![c].fase = f]
  /\ UNCHANGED <<cola, sem, mutex, cpu, semaforo, adm, grado, flagPlanificacion,
                 contadorPid, hilos, pendientes, fallo>>

\* 'XC': the CPU has closed.  Its post of sem_CPU, if any, stays.
GestionarCierreCpu(c) ==
  /\ remoto[c].fase = "saliendo" /\ principal.rutina = "selector"
  /\ remoto' = [remoto EXCEPT ![c].fase = "cerrada"]
  /\ cpu' = [cpu EXCEPT ![c].alta = FALSE]
  /\ UNCHANGED <<cola, sem, mutex, semaforo, adm, grado, flagPlanificacion,
                 contadorPid, hilos, pendientes, fallo>>

\* 'A': a console starts a program.  While the planning is paused it is refused.
\* The process is in colaNuevos before its code is in listaCodigosProgramas.
GestionarNuevoPrograma ==
  /\ contadorPid < MaxPid /\ flagPlanificacion
  /\ Atender("nuevoPrograma", "ninguna", contadorPid + 1, "ninguno")
  /\ contadorPid' = contadorPid + 1
  /\ cola' = [cola EXCEPT !.nuevos = Append(@, contadorPid + 1)]
  /\ UNCHANGED <<sem, mutex, cpu, remoto, semaforo, adm, grado, flagPlanificacion,
                 corto, largo, fin, mata, usuario, pendientes, fallo>>

-----------------------------------------------------------------------------
(* The operations the handlers are made of.                                *)

\* The tuples a step of a handler leaves alone, whatever else it changes.
AjenoAlPrincipal == <<mutex, remoto, grado, flagPlanificacion, contadorPid,
                      corto, largo, fin, mata, usuario, pendientes, fallo>>

EncolarCodigo ==
  /\ Paso("aCodigos") /\ Postear({"admitir"})
  /\ adm' = [adm EXCEPT !.codigos = @ \cup {principal.pid}]
  /\ UNCHANGED <<cola, cpu, semaforo, AjenoAlPrincipal>>

PostsDeOciosaDobles == {"cpu"}
\* The posts that come right after the CPU is marked idle.
PostsDeOciosa ==
  CASE principal.rutina = "bloqueo"       -> {}
    [] principal.rutina = "stackOverflow" -> {"fin", "cpu"}
    [] OTHER                              -> {"cpu"}

\* cambiarEstadoCpu(socket, OCIOSA): the pid stays in the entry.
CambiarEstadoCpu ==
  /\ Paso("ociosa") /\ Postear(PostsDeOciosa)
  /\ cpu' = [cpu EXCEPT ![principal.cpu].estado = "OCIOSA"]
  /\ UNCHANGED <<cola, semaforo, adm, AjenoAlPrincipal>>

RemoverDeColaEjecucion ==
  /\ Paso("removerEjec")
  /\ cola' = [cola EXCEPT !.ejecucion = Restar(@, principal.pid)]
  /\ UNCHANGED <<sem, cpu, semaforo, adm, AjenoAlPrincipal>>

EncolarEspera ==
  /\ Paso("aEspera") /\ Postear({"fin"}) /\ mutex.espera = "libre"
  /\ cola' = [cola EXCEPT !.espera = Append(@, principal.pid)]
  /\ UNCHANGED <<cpu, semaforo, adm, AjenoAlPrincipal>>

PostsDeListo == {"listo"} \cup IF principal.rutina = "finQuantum" THEN {"cpu"} ELSE {}

EncolarListoAdelante ==
  /\ Paso("aListos") /\ mutex.listos = "libre" /\ Postear(PostsDeListo)
  /\ cola' = [cola EXCEPT !.listos = <<principal.pid>> \o @]
  /\ UNCHANGED <<cpu, semaforo, adm, AjenoAlPrincipal>>

EncolarListo ==
  /\ Paso("aListos") /\ mutex.listos = "libre" /\ Postear(PostsDeListo)
  /\ cola' = [cola EXCEPT !.listos = Append(@, principal.pid)]
  /\ UNCHANGED <<cpu, semaforo, adm, AjenoAlPrincipal>>

EncolarBloqueado ==
  /\ Paso("aBloqueados") /\ Postear({"cpu"})
  /\ cola' = [cola EXCEPT !.bloqueados = Sumar(@, principal.pid)]
  /\ UNCHANGED <<cpu, semaforo, adm, AjenoAlPrincipal>>

EncolarProcesoBloqueadoASemaforo ==
  /\ Paso("aSemaforo")
  /\ semaforo' = [semaforo EXCEPT ![principal.sem].pids = Append(@, principal.pid)]
  /\ UNCHANGED <<sem, cola, cpu, adm, AjenoAlPrincipal>>

\* desbloquearProceso takes the process from colaBloqueados: if it is no
\* longer there the NULL it gets is what it will add to colaListos.
DesbloquearProceso ==
  /\ Operacion = "desbloquear"
  /\ principal' = [principal EXCEPT !.paso = @ + 1,
                     !.pid = IF cola.bloqueados[@] > 0 THEN @ ELSE Nadie]
  /\ cola' = [cola EXCEPT !.bloqueados = Restar(@, principal.pid)]
  /\ UNCHANGED <<sem, cpu, semaforo, adm, AjenoAlPrincipal>>

\* The semaphore goes back to colaSemaforos.
DevolverSemaforo ==
  /\ Paso("devolverSem")
  /\ UNCHANGED <<sem, cola, cpu, semaforo, adm, AjenoAlPrincipal>>

QuitarInterrupcion ==
  /\ Paso("desinterrumpir")
  /\ adm' = [adm EXCEPT !.interrumpidos = Restar(@, principal.pid)]
  /\ UNCHANGED <<sem, cola, cpu, semaforo, AjenoAlPrincipal>>

OperacionPrincipal ==
  \/ EncolarCodigo \/ CambiarEstadoCpu \/ RemoverDeColaEjecucion
  \/ EncolarEspera \/ EncolarListo \/ EncolarBloqueado
  \/ EncolarProcesoBloqueadoASemaforo \/ DesbloquearProceso \/ DevolverSemaforo
  \/ QuitarInterrupcion

-----------------------------------------------------------------------------
(* planificarCortoPlazo                                                    *)

AjenoAlCorto == <<mutex, semaforo, adm, grado, flagPlanificacion, contadorPid,
                  principal, largo, fin, mata, usuario, pendientes>>

IrCorto(desde, hasta) == corto.paso = desde /\ corto' = [corto EXCEPT !.paso = hasta]

\* verificarPausaPlanificacion reads the flag ...
CortoVerificaPausa ==
  /\ IrCorto("pausa", IF flagPlanificacion THEN "cpu" ELSE "pausada")
  /\ UNCHANGED <<cola, sem, cpu, remoto, fallo, AjenoAlCorto>>

\* ... and waits if it was down.
CortoEsperaReanudar ==
  /\ IrCorto("pausada", "cpu") /\ Wait("planif")
  /\ UNCHANGED <<cola, cpu, remoto, fallo, AjenoAlCorto>>

CortoEsperaCPU ==
  /\ IrCorto("cpu", "listo") /\ Wait("cpu")
  /\ UNCHANGED <<cola, cpu, remoto, fallo, AjenoAlCorto>>

CortoNoEsperaListo ==
  /\ IrCorto("listo", "sacar")
  /\ UNCHANGED <<cola, sem, cpu, remoto, fallo, AjenoAlCorto>>

CortoEsperaListo ==
  /\ IrCorto("listo", "sacar") /\ Wait("listo")
  /\ UNCHANGED <<cola, cpu, remoto, fallo, AjenoAlCorto>>

SacarListo ==
  /\ corto.paso = "sacar" /\ mutex.listos = "libre"
  /\ IF cola.listos = <<>>
     THEN Falla("sinListos") /\ UNCHANGED <<cola, corto>>
     ELSE /\ corto' = [paso |-> "mirar", pid |-> Head(cola.listos)]
          /\ cola' = [cola EXCEPT !.listos = Tail(@)]
          /\ UNCHANGED fallo
  /\ UNCHANGED <<sem, cpu, remoto, AjenoAlCorto>>

Ociosas == {c \in CPUs : cpu[c].alta /\ cpu[c].estado = "OCIOSA"}

\* list_any_satisfy(listaCPU, OCIOSA), without the mutex.
MirarOciosas ==
  /\ IrCorto("mirar", IF Ociosas # {} THEN "enviar" ELSE "devolver")
  /\ UNCHANGED <<cola, sem, cpu, remoto, fallo, AjenoAlCorto>>

\* A CPU that is closing has stopped reading: the process stays in its socket.
Entregada(r, p) == [r EXCEPT !.fase = IF @ = "libre" THEN "recibe" ELSE @, !.pid = p]

\* Takes an idle CPU and sends it the process ('P').
EnviarPcb ==
  /\ corto.paso = "enviar"
  /\ IF Ociosas = {} \/ corto.pid = Nadie
     THEN /\ Falla(IF corto.pid = Nadie THEN "pcbNulo" ELSE "cpuNula")
          /\ UNCHANGED <<cpu, remoto, corto>>
     ELSE /\ \E c \in Ociosas :
               /\ cpu' = [cpu EXCEPT ![c].estado = "EJECUTANDO", ![c].pid = corto.pid]
               /\ remoto' = [remoto EXCEPT ![c] = Entregada(@, corto.pid)]
          /\ corto' = [corto EXCEPT !.paso = "registrar"]
          /\ UNCHANGED fallo
  /\ UNCHANGED <<cola, sem, AjenoAlCorto>>

RegistrarSinAgregar ==
  /\ corto.paso = "registrar"
  /\ corto' = [paso |-> "pausa", pid |-> Nadie]
  /\ UNCHANGED <<cola, sem, cpu, remoto, fallo, AjenoAlCorto>>

\* The process is added to colaEjecucion after the CPU got it.
RegistrarEjecucion ==
  /\ corto.paso = "registrar"
  /\ corto' = [paso |-> "pausa", pid |-> Nadie]
  /\ cola' = [cola EXCEPT !.ejecucion = Sumar(@, corto.pid)]
  /\ UNCHANGED <<sem, cpu, remoto, fallo, AjenoAlCorto>>

\* No CPU was idle: the process goes back, to the end of the list, and so does
\* its token; the token of the CPU is spent.
DevolverAListos ==
  /\ corto.paso = "devolver" /\ mutex.listos = "libre"
  /\ corto' = [paso |-> "pausa", pid |-> Nadie]
  /\ cola' = [cola EXCEPT !.listos = Append(@, corto.pid)]
  /\ Postear({"listo"})
  /\ UNCHANGED <<cpu, remoto, fallo, AjenoAlCorto>>

CortoPlazo ==
  \/ CortoVerificaPausa \/ CortoEsperaReanudar \/ CortoEsperaCPU \/ CortoEsperaListo
  \/ SacarListo \/ MirarOciosas \/ EnviarPcb \/ RegistrarEjecucion
  \/ DevolverAListos

-----------------------------------------------------------------------------
(* administrarNuevosProcesos                                               *)

AjenoAlLargo == <<cpu, remoto, semaforo, flagPlanificacion, contadorPid,
                  principal, corto, fin, mata, usuario, pendientes>>

IrLargo(desde, hasta) == largo.paso = desde /\ largo' = [largo EXCEPT !.paso = hasta]

LargoVerificaPausa ==
  /\ IrLargo("pausa", IF flagPlanificacion THEN "admitir" ELSE "pausada")
  /\ UNCHANGED <<cola, sem, mutex, adm, grado, fallo, AjenoAlLargo>>

LargoEsperaReanudar ==
  /\ IrLargo("pausada", "admitir") /\ Wait("planif")
  /\ UNCHANGED <<cola, mutex, adm, grado, fallo, AjenoAlLargo>>

LargoEsperaAdmitir ==
  /\ IrLargo("admitir", "decidir") /\ Wait("admitir")
  /\ UNCHANGED <<cola, mutex, adm, grado, fallo, AjenoAlLargo>>

AdmisibleConUnoMas == grado.actual + 1 < grado.maximo /\ cola.nuevos # <<>> /\ flagPlanificacion
AdmisibleSinGrado  == cola.nuevos # <<>> /\ flagPlanificacion

\* With mutexNuevoProceso: admit the first new process if the degree and the
\* pause let it; if not, the token was for nothing.
Admisible == grado.actual < grado.maximo /\ cola.nuevos # <<>> /\ flagPlanificacion

SacarNuevo ==
  /\ largo.paso = "decidir" /\ mutex.nuevo = "libre"
  /\ IF ~Admisible
     THEN largo' = [largo EXCEPT !.paso = "pausa"] /\ UNCHANGED <<cola, mutex, adm, fallo>>
     ELSE LET p == Head(cola.nuevos) IN
          /\ cola' = [cola EXCEPT !.nuevos = Tail(@)]
          /\ mutex' = [mutex EXCEPT !.nuevo = "largo"]
          /\ largo' = [paso |-> "crear", pid |-> p]
          \* the code of the program is not there yet: NULL
          /\ IF p \in adm.codigos
             THEN adm' = [adm EXCEPT !.codigos = @ \ {p}] /\ UNCHANGED fallo
             ELSE Falla("sinCodigo") /\ UNCHANGED adm
  /\ UNCHANGED <<sem, grado, AjenoAlLargo>>

LargoAcaba ==
  /\ largo' = [paso |-> "pausa", pid |-> Nadie]
  /\ mutex' = [mutex EXCEPT !.nuevo = "libre"]

\* crearProceso, Memoria has the pages: the file table, then colaListos.
CrearProceso ==
  /\ IrLargo("crear", "aumentarGrado") /\ mutex.listos = "libre"
  /\ adm' = [adm EXCEPT !.tablas = @ \cup {largo.pid}]
  /\ cola' = [cola EXCEPT !.listos = Append(@, largo.pid)]
  /\ UNCHANGED <<sem, mutex, grado, fallo, AjenoAlLargo>>

\* aumentarGradoMultiprogramacion, the post, and mutexNuevoProceso is free.
AumentarGrado ==
  /\ largo.paso = "aumentarGrado"
  /\ grado' = [grado EXCEPT !.actual = @ + 1]
  /\ Postear({"listo"})
  /\ LargoAcaba
  /\ UNCHANGED <<cola, adm, fallo, AjenoAlLargo>>

\* crearProceso, Memoria refuses (excepcionReservaRecursos): listaEspera.
RechazarProceso ==
  /\ largo.paso = "crear" /\ largo.pid \in SinMemoria /\ mutex.espera = "libre"
  /\ cola' = [cola EXCEPT !.espera = Append(@, largo.pid)]
  /\ Postear({"fin"})
  /\ LargoAcaba
  /\ UNCHANGED <<adm, grado, fallo, AjenoAlLargo>>

LargoPlazo ==
  \/ LargoVerificaPausa \/ LargoEsperaReanudar \/ LargoEsperaAdmitir \/ SacarNuevo
  \/ CrearProceso \/ AumentarGrado \/ RechazarProceso

-----------------------------------------------------------------------------
(* administrarFinProcesos, and terminarProceso, which the kills share      *)

\* terminarProceso: the console, the pages and the heap are outside this module.
Terminar(p) ==
  /\ adm' = [adm EXCEPT !.tablas = @ \ {p}]
  /\ cola' = [cola EXCEPT !.terminados = Sumar(@, p)]
  /\ grado' = [grado EXCEPT !.actual = @ - 1]
  /\ Postear({"admitir"})

CualquieraTieneTabla(p) == TRUE

\* A process that was never admitted has no table of files, and terminarProceso
\* (destruirTablaArchivos...) follows the NULL list_find returns.
ConTabla(p) == p \in adm.tablas

AjenoAlFin == <<cpu, remoto, semaforo, flagPlanificacion, contadorPid,
                principal, corto, largo, mata, usuario, pendientes>>

FinEsperaTodos ==
  /\ fin.paso = "esperar" /\ sem.fin > 0
  /\ sem' = [sem EXCEPT !.fin = 0]
  /\ fin' = [fin EXCEPT !.paso = IF flagPlanificacion THEN "mutex" ELSE "esperar"]
  /\ UNCHANGED <<cola, mutex, adm, grado, fallo, AjenoAlFin>>

\* sem_wait(&sem_administrarFinProceso): while the planning is paused the
\* token is spent for nothing.
FinEspera ==
  /\ fin.paso = "esperar" /\ Wait("fin")
  /\ fin' = [fin EXCEPT !.paso = IF flagPlanificacion THEN "mutex" ELSE "esperar"]
  /\ UNCHANGED <<cola, mutex, adm, grado, fallo, AjenoAlFin>>

FinTomaEspera ==
  /\ fin.paso = "mutex" /\ mutex.espera = "libre"
  /\ mutex' = [mutex EXCEPT !.espera = "fin"]
  /\ fin' = [fin EXCEPT !.paso = "recorrer", !.indice = 0]
  /\ UNCHANGED <<cola, sem, adm, grado, fallo, AjenoAlFin>>

\* for(indice = 0; indice < elements_count; indice++) list_remove(indice):
\* every removal shifts the rest, so one round takes every second process.
FinSaca ==
  /\ fin.paso = "recorrer" /\ fin.indice < Len(cola.espera)
  /\ fin' = [fin EXCEPT !.paso = "terminar", !.pid = cola.espera[fin.indice + 1]]
  /\ cola' = [cola EXCEPT !.espera = RemoveAt(@, fin.indice + 1)]
  /\ UNCHANGED <<sem, mutex, adm, grado, fallo, AjenoAlFin>>

FinTermina ==
  /\ fin.paso = "terminar"
  /\ IF ConTabla(fin.pid)
     THEN /\ Terminar(fin.pid) /\ UNCHANGED fallo
          /\ fin' = [paso |-> "recorrer", pid |-> Nadie, indice |-> fin.indice + 1]
     ELSE Falla("sinTabla") /\ UNCHANGED <<adm, cola, grado, sem, fin>>
  /\ UNCHANGED <<mutex, AjenoAlFin>>

FinSueltaEspera ==
  /\ fin.paso = "recorrer" /\ fin.indice >= Len(cola.espera)
  /\ fin' = [fin EXCEPT !.paso = "esperar", !.indice = 0]
  /\ mutex' = [mutex EXCEPT !.espera = "libre"]
  /\ UNCHANGED <<cola, sem, adm, grado, fallo, AjenoAlFin>>

FinProcesos ==
  \/ FinEspera \/ FinTomaEspera \/ FinSaca \/ FinTermina \/ FinSueltaEspera

-----------------------------------------------------------------------------
(* finalizarProcesoVoluntariamente(pid), run by thread h: the user (option *)
(* K), the main thread (a console asks for it, 'XF') or an abort thread (a *)
(* console closes, 'XE').                                                  *)

AjenoAMata == <<cpu, remoto, flagPlanificacion, contadorPid, corto, largo, fin>>

IrMata(h, desde, hasta) ==
  mata[h].paso = desde /\ mata' = [mata EXCEPT ![h].paso = hasta]

\* verificarProcesoExistente and verificarProcesoNoTerminado: only the user's
\* kill looks before it starts.
Visible(p) ==
  /\ \/ p \in ToSet(cola.nuevos) \cup ToSet(cola.listos)
     \/ cola.ejecucion[p] > 0 \/ cola.bloqueados[p] > 0
  /\ cola.terminados[p] = 0

PedirFin(h, p) ==
  /\ <<h, p>> \in pendientes.pedidos /\ p <= contadorPid
  /\ mata[h].paso = "nada"
  /\ CASE h = "usuario"   -> usuario = "libre" /\ Visible(p) /\ UNCHANGED principal
       [] h = "principal" -> Atender("matar", "ninguna", p, "ninguno")
       [] h = "abortador" -> UNCHANGED principal
  /\ mata' = [mata EXCEPT ![h] = [paso |-> "mutex", pid |-> p, cpu |-> "ninguna"]]
  /\ pendientes' = [pendientes EXCEPT !.pedidos = @ \ {<<h, p>>}]
  /\ UNCHANGED <<cola, sem, mutex, semaforo, adm, grado, usuario, fallo, AjenoAMata>>

MataToma(h) ==
  /\ IrMata(h, "mutex", "espera") /\ mutex.nuevo = "libre"
  /\ mutex' = [mutex EXCEPT !.nuevo = h]
  /\ UNCHANGED <<cola, sem, semaforo, adm, grado, principal, usuario, pendientes,
                 fallo, AjenoAMata>>

MataBuscaEspera(h) ==
  /\ mutex.espera = "libre"
  /\ \/ /\ Contains(cola.espera, mata[h].pid)
        /\ IrMata(h, "espera", "terminar")
        /\ cola' = [cola EXCEPT !.espera = RemoveFirst(@, mata[h].pid)]
     \/ /\ ~Contains(cola.espera, mata[h].pid)
        /\ IrMata(h, "espera", "ejecucion")
        /\ UNCHANGED cola
  /\ UNCHANGED <<sem, mutex, semaforo, adm, grado, principal, usuario, pendientes,
                 fallo, AjenoAMata>>

MataBuscaEjecucion(h) ==
  /\ IrMata(h, "ejecucion", IF cola.ejecucion[mata[h].pid] > 0 THEN "cpu" ELSE "nuevos")
  /\ UNCHANGED <<cola, sem, mutex, semaforo, adm, grado, principal, usuario, pendientes,
                 fallo, AjenoAMata>>

\* The CPU whose entry has the pid.  If none has, its socket is read from the
\* block malloc returned: no CPU, or any of them.
MataBuscaCPU(h) ==
  LET Conectadas == {c \in CPUs : cpu[c].alta}
      Suyas == {c \in Conectadas : cpu[c].pid = mata[h].pid} IN
  /\ mata[h].paso = "cpu"
  /\ \/ /\ \E c \in IF Suyas = {} THEN Conectadas ELSE Suyas :
             mata' = [mata EXCEPT ![h].paso = "interrumpir", ![h].cpu = c]
        /\ UNCHANGED fallo
     \/ Suyas = {} /\ Falla("cpuBasura") /\ UNCHANGED mata
  /\ UNCHANGED <<cola, sem, mutex, semaforo, adm, grado, principal, usuario, pendientes,
                 AjenoAMata>>

\* The end of finalizarProcesoVoluntariamente.
MataAcaba(h) ==
  /\ mata' = [mata EXCEPT ![h] = [paso |-> "nada", pid |-> Nadie, cpu |-> "ninguna"]]
  /\ mutex' = [mutex EXCEPT !.nuevo = "libre"]
  /\ principal' = IF h = "principal" THEN SinRutina ELSE principal

\* expropiarVoluntariamente: notes the pid the entry of the CPU has by now.
MataInterrumpe(h) ==
  LET c == mata[h].cpu IN
  /\ mata[h].paso = "interrumpir"
  /\ IF cpu[c].alta
     THEN /\ adm' = [adm EXCEPT !.interrumpidos = Sumar(@, cpu[c].pid)]
          /\ MataAcaba(h) /\ UNCHANGED fallo
     ELSE Falla("cpuNula") /\ UNCHANGED <<adm, mata, mutex, principal>>
  /\ UNCHANGED <<cola, sem, semaforo, grado, usuario, pendientes, AjenoAMata>>

MataBuscaNuevos(h) ==
  /\ \/ /\ Contains(cola.nuevos, mata[h].pid)
        /\ IrMata(h, "nuevos", "terminar")
        /\ cola' = [cola EXCEPT !.nuevos = RemoveFirst(@, mata[h].pid)]
     \/ /\ ~Contains(cola.nuevos, mata[h].pid)
        /\ IrMata(h, "nuevos", "listos")
        /\ UNCHANGED cola
  /\ UNCHANGED <<sem, mutex, semaforo, adm, grado, principal, usuario, pendientes,
                 fallo, AjenoAMata>>

\* list_any_satisfy compares pcb by pcb: a NULL before the process is fatal.
NuloAntes(s, p) == \E i \in DOMAIN s : s[i] = Nadie /\ \A j \in 1..i : s[j] # p

QuedarEnListos(h) ==
  /\ IrMata(h, "listos", IF Contains(cola.listos, mata[h].pid) THEN "token" ELSE "bloqueados")
  /\ mutex' = IF Contains(cola.listos, mata[h].pid) THEN [mutex EXCEPT !.listos = h] ELSE mutex
  /\ UNCHANGED cola

DejarListos(h) ==
  IF Contains(cola.listos, mata[h].pid)
  THEN /\ IrMata(h, "listos", "token")
       /\ cola' = [cola EXCEPT !.listos = RemoveFirst(@, mata[h].pid)]
       /\ mutex' = [mutex EXCEPT !.listos = h]
  ELSE /\ IrMata(h, "listos", "bloqueados")
       /\ UNCHANGED <<cola, mutex>>

\* The process leaves colaListos; the mutex stays locked for the sem_wait.
MataBuscaListos(h) ==
  /\ mutex.listos = "libre" /\ mata[h].paso = "listos"
  /\ IF NuloAntes(cola.listos, mata[h].pid)
     THEN Falla("pcbNulo") /\ UNCHANGED <<cola, mutex, mata>>
     ELSE UNCHANGED fallo /\ DejarListos(h)
  /\ UNCHANGED <<sem, semaforo, adm, grado, principal, usuario, pendientes, AjenoAMata>>

MataSinEsperar(h) ==
  /\ IrMata(h, "token", "terminar")
  /\ mutex' = [mutex EXCEPT !.listos = "libre"]
  /\ UNCHANGED <<cola, sem, semaforo, adm, grado, principal, usuario, pendientes, fallo,
                 AjenoAMata>>

MataEsperaToken(h) ==
  /\ IrMata(h, "token", "terminar") /\ Wait("listo")
  /\ mutex' = [mutex EXCEPT !.listos = "libre"]
  /\ UNCHANGED <<cola, semaforo, adm, grado, principal, usuario, pendientes, fallo,
                 AjenoAMata>>

\* verificarPidColaSemaforos takes the pid from every semaphore that is in
\* colaSemaforos: not from the one a signal in progress has taken out.
EnColaSemaforos(s) == ~(principal.rutina = "desbloqueo" /\ principal.sem = s)

\* The last list: nowhere means an uninitialised pcb pointer.
MataBuscaBloqueados(h) ==
  LET p == mata[h].pid IN
  /\ mata[h].paso = "bloqueados"
  /\ IF cola.bloqueados[p] > 0
     THEN /\ mata' = [mata EXCEPT ![h].paso = "terminar"]
          /\ cola' = [cola EXCEPT !.bloqueados = Restar(@, p)]
          /\ semaforo' = [s \in Semaforos |->
               IF EnColaSemaforos(s)
               THEN [semaforo[s] EXCEPT !.pids = RemoveFirst(@, p)] ELSE semaforo[s]]
          /\ UNCHANGED fallo
     ELSE Falla("pcbBasura") /\ UNCHANGED <<mata, cola, semaforo>>
  /\ UNCHANGED <<sem, mutex, adm, grado, principal, usuario, pendientes, AjenoAMata>>

MataTermina(h) ==
  /\ mata[h].paso = "terminar"
  /\ IF ConTabla(mata[h].pid)
     THEN Terminar(mata[h].pid) /\ MataAcaba(h) /\ UNCHANGED fallo
     ELSE Falla("sinTabla") /\ UNCHANGED <<adm, cola, grado, sem, mata, mutex, principal>>
  /\ UNCHANGED <<semaforo, usuario, pendientes, AjenoAMata>>

Matar(h) ==
  \/ MataToma(h) \/ MataBuscaEspera(h) \/ MataBuscaEjecucion(h) \/ MataBuscaCPU(h)
  \/ MataInterrumpe(h) \/ MataBuscaNuevos(h) \/ MataBuscaListos(h) \/ MataEsperaToken(h)
  \/ MataBuscaBloqueados(h) \/ MataTermina(h)

-----------------------------------------------------------------------------
(* The user at the Kernel's terminal.                                      *)

AjenoAlUsuario == <<cola, cpu, remoto, semaforo, adm, contadorPid, principal, corto,
                    largo, fin, mata, fallo>>

UsuarioLibre == usuario = "libre" /\ mata["usuario"].paso = "nada"

\* P: the flag goes down, then the thread takes the token of sem_planificacion.
Pausar ==
  /\ UsuarioLibre /\ PausaPermitida /\ pendientes.cambios > 0 /\ flagPlanificacion
  /\ flagPlanificacion' = FALSE
  /\ usuario' = "pausando"
  /\ pendientes' = [pendientes EXCEPT !.cambios = @ - 1]
  /\ UNCHANGED <<sem, mutex, grado, AjenoAlUsuario>>

PausarEspera ==
  /\ usuario = "pausando" /\ Wait("planif")
  /\ usuario' = "libre"
  /\ UNCHANGED <<mutex, grado, flagPlanificacion, pendientes, AjenoAlUsuario>>

ReanudarConUnPost ==
  /\ UsuarioLibre /\ PausaPermitida /\ ~flagPlanificacion
  /\ flagPlanificacion' = TRUE
  /\ Postear({"planif"})
  /\ UNCHANGED <<mutex, grado, usuario, pendientes, AjenoAlUsuario>>

\* R: the flag goes up, then two posts, one for each scheduler.
Reanudar ==
  /\ UsuarioLibre /\ PausaPermitida /\ ~flagPlanificacion
  /\ flagPlanificacion' = TRUE
  /\ sem' = [sem EXCEPT !.planif = @ + 2]
  /\ UNCHANGED <<mutex, grado, usuario, pendientes, AjenoAlUsuario>>

\* D: one post more, by hand.
PostPlanificacion ==
  /\ UsuarioLibre /\ PausaPermitida /\ pendientes.cambios > 0 /\ Postear({"planif"})
  /\ pendientes' = [pendientes EXCEPT !.cambios = @ - 1]
  /\ UNCHANGED <<mutex, grado, flagPlanificacion, usuario, AjenoAlUsuario>>

\* M: mutexNuevoProceso is taken first, and kept while the user types the degree.
PedirGrado ==
  /\ UsuarioLibre /\ GradosNuevos # {} /\ pendientes.cambios > 0 /\ mutex.nuevo = "libre"
  /\ mutex' = [mutex EXCEPT !.nuevo = "grado"]
  /\ usuario' = "tecleando"
  /\ pendientes' = [pendientes EXCEPT !.cambios = @ - 1]
  /\ UNCHANGED <<sem, grado, flagPlanificacion, AjenoAlUsuario>>

\* The degree is there: one post at most, however many processes it lets in.
ModificarGrado(n) ==
  /\ usuario = "tecleando"
  /\ grado' = [grado EXCEPT !.maximo = n]
  /\ sem' = [sem EXCEPT !.admitir = IF n > grado.actual THEN @ + 1 ELSE @]
  /\ mutex' = [mutex EXCEPT !.nuevo = "libre"]
  /\ usuario' = "libre"
  /\ UNCHANGED <<flagPlanificacion, pendientes, AjenoAlUsuario>>

Usuario ==
  \/ Pausar \/ PausarEspera \/ Reanudar \/ PostPlanificacion \/ PedirGrado
  \/ \E n \in GradosNuevos : ModificarGrado(n)

-----------------------------------------------------------------------------
MensajeCPU(c) ==
  \/ GestionarNuevaCPU(c) \/ FinProceso(c) \/ FinQuantum(c) \/ ProcesoExpropiado(c)
  \/ \E r \in {"excepcion", "stackOverflow"} : Excepcion(c, r)
  \/ \E s \in Semaforos : WaitSemaforo(c, s) \/ SignalSemaforo(c, s)
  \/ VerificarInterrupciones(c) \/ GestionarCierreCpu(c)

Vivir ==
  \/ \E c \in CPUs : MensajeCPU(c) \/ SignalCPU(c)
  \/ GestionarNuevoPrograma \/ OperacionPrincipal
  \/ CortoPlazo \/ LargoPlazo \/ FinProcesos \/ Usuario
  \/ \E h \in HilosMata : Matar(h) \/ \E p \in Pids : PedirFin(h, p)

\* Nothing is left to do: every program was started and each one has ended,
\* waits for a semaphore, or finds the degree taken by those that wait.
Reposo ==
  /\ contadorPid = MaxPid /\ principal.rutina = "selector"
  /\ cola.listos = <<>> /\ cola.espera = <<>>
  /\ cola.nuevos # <<>> => grado.actual >= grado.maximo
  /\ \A p \in Pids : \/ cola.terminados[p] > 0 \/ cola.bloqueados[p] > 0
                     \/ Contains(cola.nuevos, p)
  /\ UNCHANGED vars

\* The process is dead.
Caido == fallo # "ninguno" /\ UNCHANGED vars

Next == (fallo = "ninguno" /\ Vivir) \/ Reposo \/ Caido

Spec == Init /\ [][Next]_vars

\* Fairness.  A thread that can go on does, but for the one that waits for what the user
\* types.  select looks at every socket in
\* each round, so a message that waits is read although others come (SF), and
\* a quantum is a number of instructions: it runs out, or the program gives the
\* CPU up before.
Justicia ==
  /\ WF_vars(fallo = "ninguno" /\ OperacionPrincipal)
  /\ WF_vars(fallo = "ninguno" /\ CortoPlazo)
  /\ WF_vars(fallo = "ninguno" /\ LargoPlazo)
  /\ WF_vars(fallo = "ninguno" /\ FinProcesos)
  /\ \A c \in CPUs :
       /\ SF_vars(fallo = "ninguno" /\ GestionarNuevaCPU(c))
       /\ SF_vars(fallo = "ninguno" /\ VerificarInterrupciones(c)
                    /\ remoto'[c].fase # "ejecuta")
       /\ SF_vars(fallo = "ninguno" /\ FinQuantum(c))
       /\ SF_vars(fallo = "ninguno" /\ ProcesoExpropiado(c))

SpecJusta == Spec /\ Justicia
=============================================================================
