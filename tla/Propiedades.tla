----------------------------- MODULE Propiedades -----------------------------
(***************************************************************************)
(* What the scheduler of the Kernel owes its programs.                     *)
(***************************************************************************)
EXTENDS Planificacion

Booleano(b) == IF b THEN 1 ELSE 0
Veces(s, p) == Cardinality({i \in DOMAIN s : s[i] = p})

\* The main thread has an operation of ops still to do in its handler.
Falta(ops) ==
  /\ principal.rutina \in Rutinas
  /\ \E i \in principal.paso..Len(Guion[principal.rutina]) :
       Guion[principal.rutina][i] \in ops

-----------------------------------------------------------------------------
(* Types                                                                   *)

Bolsas == [Pids -> Nat]
Posibles == Pids \cup {Nadie}
FasesConProceso == {"recibe", "ejecuta", "consulta", "finQuantum", "expropiada"}

PasosCorto == {"pausa", "pausada", "cpu", "listo", "sacar", "mirar", "enviar",
               "registrar", "devolver"}
PasosLargo == {"pausa", "pausada", "admitir", "decidir", "crear", "aumentarGrado"}
PasosFin   == {"esperar", "mutex", "recorrer", "terminar"}
PasosMata  == {"nada", "mutex", "espera", "ejecucion", "cpu", "interrumpir", "nuevos",
               "listos", "token", "bloqueados", "terminar"}

TipoCola == [nuevos : Seq(Pids), listos : Seq(Posibles), espera : Seq(Pids),
             ejecucion : Bolsas, bloqueados : Bolsas, terminados : Bolsas]
TipoSem == [{"admitir", "fin", "listo", "cpu", "planif"} -> Nat]
TipoMutex == [nuevo : {"libre", "largo", "grado"} \cup HilosMata,
              listos : {"libre"} \cup HilosMata, espera : {"libre", "fin"}]
TipoCpu == [alta : BOOLEAN, estado : {"OCIOSA", "EJECUTANDO"}, pid : Posibles]
TipoRemoto == [fase : FasesConProceso \cup {"apagada", "libre", "saliendo", "cerrada"},
               pid : Posibles, cerrando : BOOLEAN]
TipoSemaforo == [valor : Int, pids : Seq(Pids)]
TipoAdm == [codigos : SUBSET Pids, tablas : SUBSET Pids, interrumpidos : Bolsas]
TipoGrado == [actual : Int, maximo : Int]
TipoPrincipal == [rutina : Rutinas \cup {"selector", "matar"}, paso : Nat,
                  cpu : CPUs \cup {"ninguna"}, pid : Posibles,
                  sem : Semaforos \cup {"ninguno"}]
TipoCorto == [paso : PasosCorto, pid : Posibles]
TipoLargo == [paso : PasosLargo, pid : Posibles]
TipoFin == [paso : PasosFin, pid : Posibles, indice : Nat]
TipoMata == [paso : PasosMata, pid : Posibles, cpu : CPUs \cup {"ninguna"}]
TipoPendientes == [pedidos : SUBSET Pedidos, cambios : Nat]
Fallos == {"ninguno", "sinCodigo", "sinTabla", "sinListos", "pcbNulo", "cpuNula",
           "cpuBasura", "pcbBasura"}

\* Every variable keeps its type; in particular no list but colaListos is ever
\* given the NULL that a missing process leaves, and no semaphore goes below zero.
TypeOK ==
  /\ cola \in TipoCola /\ sem \in TipoSem /\ mutex \in TipoMutex
  /\ cpu \in [CPUs -> TipoCpu] /\ remoto \in [CPUs -> TipoRemoto]
  /\ semaforo \in [Semaforos -> TipoSemaforo]
  /\ adm \in TipoAdm /\ grado \in TipoGrado
  /\ flagPlanificacion \in BOOLEAN /\ contadorPid \in 0..MaxPid
  /\ principal \in TipoPrincipal /\ corto \in TipoCorto /\ largo \in TipoLargo
  /\ fin \in TipoFin /\ mata \in [HilosMata -> TipoMata]
  /\ usuario \in {"libre", "pausando", "tecleando"} /\ pendientes \in TipoPendientes
  /\ fallo \in Fallos

-----------------------------------------------------------------------------
(* Where a process is                                                      *)

\* The main thread holds the PCB a CPU returned, or one it has just created.
EnPrincipal(p) ==
  /\ principal.pid = p
  /\ Falta({"aListos", "aBloqueados", "aEspera"}) /\ ~Falta({"desbloquear"})

EnCorto(p) == corto.pid = p /\ corto.paso \in {"mirar", "enviar", "devolver"}
EnLargo(p) == largo.pid = p /\ largo.paso = "crear"
EnFin(p)   == fin.pid = p /\ fin.paso = "terminar"
EnMata(h, p) == mata[h].pid = p /\ mata[h].paso \in {"token", "terminar"}

\* The PCBs of p, that in the socket of a CPU that does not read it any more included.
Copias(p) ==
  Veces(cola.nuevos, p) + Veces(cola.listos, p) + Veces(cola.espera, p)
  + cola.bloqueados[p] + cola.terminados[p]
  + Cardinality({c \in CPUs : remoto[c].pid = p})
  + Cardinality({h \in HilosMata : EnMata(h, p)})
  + Booleano(EnPrincipal(p)) + Booleano(EnCorto(p)) + Booleano(EnLargo(p))
  + Booleano(EnFin(p))

\* A CPU that a signal closed, or is closing, has the PCB of p in its socket.
Cerradas(p) == {c \in CPUs : remoto[c].pid = p /\ remoto[c].fase \in {"saliendo", "cerrada"}}
Perdido(p)  == Cerradas(p) # {}

\* A program that was accepted is in one list, one CPU that runs it or the hands of one
\* thread, whatever the schedulers, the CPUs and the kills do.  One is in none of them: a
\* program that is in the socket of a CPU that closed; nobody takes it from there.
UnSoloLugar ==
  \A p \in Pids : Copias(p) - Cardinality(Cerradas(p)) = Booleano(p <= contadorPid /\ ~Perdido(p))

\* A program is lost with a CPU on the way to it only: the dispatcher sends it to one that
\* the Kernel takes for idle, or the signal comes before the CPU has read it.  A CPU that
\* runs a program gives it back before it closes, whatever it waits for.
EnCamino(p) ==
  \/ corto.paso = "enviar" /\ corto.pid = p
  \/ \E c \in CPUs : remoto[c].fase = "recibe" /\ remoto[c].pid = p

SePierdeAlEnviar == [][\A p \in Pids : Perdido(p)' => Perdido(p) \/ EnCamino(p)]_vars

-----------------------------------------------------------------------------
(* Counting semaphores against what they count                             *)

\* sem_procesoListo counts colaListos, up to the waits in progress (a kill keeps
\* mutexColaListos during its own) and the admission that has not posted yet: no
\* ready process lacks a token.
TokensListos ==
  Len(cola.listos) + Booleano(mutex.listos # "libre")
    = sem.listo + Booleano(corto.paso = "sacar") + Booleano(largo.paso = "aumentarGrado")

\* What TokensListos and TypeOK rest on: who has a process in its hands has one,
\* the main thread is at an operation of its handler, and the kill that waits for
\* a token is the one that keeps mutexColaListos.
ConProceso ==
  /\ \A c \in CPUs : remoto[c].fase \in FasesConProceso => remoto[c].pid \in Pids
  /\ principal.rutina \in Rutinas \ {"desbloqueo"} => principal.pid \in Pids
  /\ principal.rutina \in Rutinas => principal.paso \in 1..Len(Guion[principal.rutina])
  /\ largo.paso = "crear" => largo.pid \in Pids

DuenioDeListos ==
  \A h \in HilosMata : mata[h].paso = "token" <=> mutex.listos = h

IInv == TypeOK /\ ConProceso /\ DuenioDeListos /\ TokensListos

\* The dispatcher that has a token never finds colaListos empty, whatever the
\* kills took from it.
ListosParaElToken == fallo # "sinListos"

\* sem_CPU counts the idle CPUs of listaCPU in the same way, as long as none
\* closes: the dispatcher that has a token finds an idle CPU.
TokensCPU ==
  Cardinality(Ociosas)
    = sem.cpu + Booleano(corto.paso \in {"listo", "sacar", "mirar", "enviar"})
      + Booleano(principal.rutina = "finQuantum")
      + Booleano(principal.rutina = "bloqueo" /\ Operacion = "aBloqueados")

\* A process that has to end has a token of sem_administrarFinProceso waiting
\* for it, or the thread that will take it is in its round.
EsperaAtendida ==
  cola.espera # <<>> =>
    sem.fin > 0 \/ fin.paso # "esperar"

\* While the degree leaves room for a new process the admitter has something
\* to wake it up.
AdmisionPendiente ==
  cola.nuevos # <<>> /\ grado.actual < grado.maximo =>
    \/ sem.admitir > 0 \/ principal.rutina = "nuevoPrograma"
    \/ largo.paso \in {"decidir", "crear", "aumentarGrado"}

-----------------------------------------------------------------------------
(* The degree of multiprogramming                                          *)

\* gradoMultiProgramacion is the number of admitted processes that have not
\* ended, up to the admission in progress.
GradoExacto ==
  grado.actual + Booleano(largo.paso = "aumentarGrado") = Cardinality(adm.tablas)

-----------------------------------------------------------------------------
(* The semaphores of the programs                                          *)

\* Below zero, a semaphore says how many processes wait in its list.
ValorCuentaBloqueados ==
  \A s \in Semaforos :
    Len(semaforo[s].pids) + Booleano(principal.rutina = "bloqueo" /\ principal.sem = s)
      = IF semaforo[s].valor < 0 THEN -semaforo[s].valor ELSE 0

\* What the kills leave of it: they take processes from the list and never touch
\* the value, so the list is at most as long as the value says.
ValorAcotaBloqueados ==
  \A s \in Semaforos :
    Len(semaforo[s].pids) <= IF semaforo[s].valor < 0 THEN -semaforo[s].valor ELSE 0

\* A process in colaBloqueados is in the list of one semaphore, and a pid of
\* such a list is in colaBloqueados: who signals always finds the process.
BloqueadosEnSemaforo ==
  \A p \in Pids :
    Cardinality({s \in Semaforos : Contains(semaforo[s].pids, p)})
      = cola.bloqueados[p]
        - Booleano(principal.rutina = "bloqueo" /\ principal.pid = p
                   /\ ~Falta({"aBloqueados"}))
        - Booleano(principal.rutina = "desbloqueo" /\ principal.pid = p
                   /\ Falta({"desbloquear"}))

-----------------------------------------------------------------------------
\* Once the planning was resumed, every scheduler that stopped for the pause has
\* a token to go on with, however often the user paused, and whoever took the
\* tokens of earlier pauses.
ReanudarDespierta ==
  flagPlanificacion =>
    Booleano(corto.paso = "pausada") + Booleano(largo.paso = "pausada") <= sem.planif

-----------------------------------------------------------------------------
(* What eventually happens, under SpecJusta                                *)

Vivo == fallo = "ninguno"

\* Round robin starves nobody: a ready process gets a CPU.
ListoEjecuta ==
  \A p \in Pids :
    Vivo /\ Contains(cola.listos, p) ~> ~Vivo \/ \E c \in CPUs : remoto[c].pid = p

\* A process in listaEspera is terminated, although a round of the thread that
\* does it leaves out every second entry of the list.
EsperaTermina ==
  \A p \in Pids :
    Vivo /\ Contains(cola.espera, p) ~> ~Vivo \/ cola.terminados[p] > 0

\* A new process is admitted, unless the degree is taken time and again, once the user is
\* done with the degrees: while one is typed mutexNuevoProceso waits for the user.
NuevoAdmitido ==
  \A p \in Pids :
    <>[](Vivo /\ Contains(cola.nuevos, p) /\ usuario # "tecleando") =>
      []<>(grado.actual >= grado.maximo)

-----------------------------------------------------------------------------
(* The life cycle the scheduler implements                                 *)

\* What a process is on the way to while the main thread has it in its hands.
Destino ==
  CASE principal.rutina \in {"finQuantum", "finQuantumCierre", "desbloqueo"} -> "listo"
    [] principal.rutina = "bloqueo" -> "bloqueado"
    [] OTHER                        -> "saliendo"

\* Of an admitted process, that is in one place.
EstadoActivo(p) ==
  CASE EnPrincipal(p)                        -> Destino
    [] \E c \in CPUs : remoto[c].pid = p     -> "ejecucion"
    [] cola.bloqueados[p] > 0                -> "bloqueado"
    [] Contains(cola.listos, p) \/ EnCorto(p) -> "listo"
    [] OTHER                                 -> "saliendo"

EstadoDe(p) ==
  IF p > contadorPid THEN "porLlegar"
  ELSE IF Contains(cola.nuevos, p) \/ EnLargo(p) THEN "nuevo"
  ELSE IF cola.terminados[p] > 0 THEN "terminado"
  ELSE IF p \in adm.tablas THEN EstadoActivo(p)
  ELSE "rechazado"

Ciclo == INSTANCE CicloDeVida
           WITH estado <- [p \in Pids |-> EstadoDe(p)], gradoMax <- grado.maximo

\* The scheduler implements the life cycle: programs are admitted in the order
\* they came and within the degree, and a process goes from a state to another
\* only as it should, whatever the threads, the CPUs and the kills do.
ImplementaCiclo == Ciclo!Spec

-----------------------------------------------------------------------------
\* colaEjecucion has every process that runs, but for the one being sent.
EjecucionRegistrada ==
  \A c \in CPUs : remoto[c].pid \in Pids /\ ~EnVentana(remoto[c].pid)
                    => cola.ejecucion[remoto[c].pid] > 0

\* Without kills, closing CPUs or a Memoria that refuses, one thing can bring
\* the Kernel down: a process the admitter takes before its code is listed.
SoloFaltaCodigo == fallo \in {"ninguno", "sinCodigo"}
-----------------------------------------------------------------------------
(* What the invariants above rest on                                       *)

\* A CPU the Kernel takes for idle has no process: cambiarEstadoCpu marks it
\* after the process left it, and the entry says EJECUTANDO until then.
CpuOciosaVacia ==
  /\ \A c \in CPUs :
       /\ remoto[c].pid # Nadie => cpu[c].estado = "EJECUTANDO"
       /\ remoto[c].fase = "apagada" => remoto[c].pid = Nadie /\ ~cpu[c].alta
       /\ remoto[c].fase \notin {"apagada", "cerrada"} => cpu[c].alta
  /\ Falta({"ociosa"}) =>
       /\ principal.cpu \in CPUs /\ remoto[principal.cpu].pid = Nadie
       /\ cpu[principal.cpu].estado = "EJECUTANDO"

\* A console's kill runs in the main thread, in no other handler's middle.
MataEnSuRutina == mata["principal"].paso # "nada" => principal.rutina = "matar"

\* A process that waits for its admission, or is in it, has no table of files.
TablasDeAdmitidos ==
  \A p \in adm.tablas : p <= contadorPid /\ ~Contains(cola.nuevos, p) /\ ~EnLargo(p)

\* The user takes the token of a pause before the flag can go up again.
PausaConToken == usuario = "pausando" => ~flagPlanificacion

\* ValorAcotaBloqueados, with the process that is on its way to the list.
ValorCubreBloqueo ==
  \A s \in Semaforos :
    Len(semaforo[s].pids) + Booleano(principal.rutina = "bloqueo" /\ principal.sem = s)
      <= IF semaforo[s].valor < 0 THEN -semaforo[s].valor ELSE 0

\* While the planning was never paused: the posts of sem_administrarFinProceso
\* cover listaEspera, and a round that has one to take takes it.
EsperaContada ==
  /\ flagPlanificacion
  /\ mutex.espera = "fin" <=> fin.paso \in {"recorrer", "terminar"}
  /\ Len(cola.espera)
       <= sem.fin + Booleano(fin.paso = "mutex" \/ (fin.paso = "recorrer" /\ fin.indice = 0))

\* ... and the posts of sem_admitirNuevoProceso cover the processes that fit.
AdmisionContada ==
  LET fichas == sem.admitir + Booleano(principal.rutina = "nuevoPrograma")
                  + Booleano(largo.paso = "decidir")
      lugares == grado.maximo - grado.actual
                   - Booleano(largo.paso \in {"crear", "aumentarGrado"})
  IN Len(cola.nuevos) <= fichas \/ lugares <= fichas

\* Without kills a process waits in one place of one semaphore.
SemaforosSinRepetidos ==
  /\ \A h \in HilosMata : mata[h].paso = "nada"
  /\ \A s \in Semaforos, p \in Pids : Veces(semaforo[s].pids, p) <= 1

\* ... and whoever signals finds it, so no NULL gets into colaListos.
SinNulos ==
  /\ \A i \in DOMAIN cola.listos : cola.listos[i] # Nadie
  /\ corto.paso \in {"mirar", "enviar", "devolver"} => corto.pid # Nadie
  /\ principal.rutina = "desbloqueo" => principal.pid # Nadie

\* Every process that was admitted has its table until it ends.
AdmitidosConTabla ==
  \A p \in Pids :
    \/ p > contadorPid \/ p \in adm.tablas \/ Contains(cola.nuevos, p) \/ EnLargo(p)
    \/ cola.terminados[p] > 0

\* UnSoloLugar, with the PCBs that are lost: none is made twice, none is dropped.
UnaCopia == \A p \in Pids : Copias(p) = Booleano(p <= contadorPid)

\* A CPU that waits for a PCB has none.
LibreSinProceso == \A c \in CPUs : remoto[c].fase = "libre" => remoto[c].pid = Nadie

IInvLugar == CpuOciosaVacia /\ MataEnSuRutina /\ UnaCopia /\ TablasDeAdmitidos
IInvQuieta ==
  /\ IInv /\ IInvLugar /\ PausaConToken /\ ValorCubreBloqueo
  /\ EsperaContada /\ AdmisionContada /\ SemaforosSinRepetidos /\ SinNulos
  /\ AdmitidosConTabla
=============================================================================
