------------------------- MODULE Propiedades_proofs -------------------------
(***************************************************************************)
(* Proofs about the scheduler, for every value of its constants.           *)
(***************************************************************************)
EXTENDS Propiedades, LemasListas, FiniteSetTheorems

-----------------------------------------------------------------------------
(* The inductive invariant                                                 *)

LEMMA Inicio == Init => IInv
<1> SUFFICES ASSUME Init PROVE IInv
  OBVIOUS
<1> USE ConstantesOK DEF ConstantesOK, Init
<1>1. TypeOK
  BY DEF TypeOK, Bolsas, Posibles, Pids, Nadie, HilosMata, FasesConProceso, PasosCorto,
     PasosLargo, PasosFin, PasosMata, SinRutina, TipoCola, TipoSem, TipoMutex, TipoCpu,
     TipoRemoto, TipoSemaforo, TipoAdm, TipoGrado, TipoPrincipal, TipoCorto, TipoLargo,
     TipoFin, TipoMata, TipoPendientes, Fallos
<1>2. ConProceso
  BY DEF ConProceso, FasesConProceso, SinRutina, Rutinas, Guion
<1>3. DuenioDeListos /\ TokensListos
  BY DEF DuenioDeListos, TokensListos, HilosMata, Booleano
<1> QED
  BY <1>1, <1>2, <1>3 DEF IInv

\* A post keeps the type, and adds one to what it posts.
LEMMA PostearTipo ==
  ASSUME sem \in TipoSem, NEW ss, Postear(ss)
  PROVE  /\ sem' \in TipoSem
         /\ "listo" \in ss => sem'.listo = sem.listo + 1
         /\ "listo" \notin ss => sem'.listo = sem.listo
  BY DEF TipoSem, Postear

LEMMA WaitTipo ==
  ASSUME sem \in TipoSem, NEW s \in {"admitir", "fin", "listo", "cpu", "planif"}, Wait(s)
  PROVE  /\ sem' \in TipoSem
         /\ sem'.listo = IF s = "listo" THEN sem.listo - 1 ELSE sem.listo
  BY DEF TipoSem, Wait

LEMMA BooleanoNat ==
  ASSUME NEW b
  PROVE  Booleano(b) \in {0, 1}
  BY DEF Booleano

\* A step that leaves alone what TokensListos relates keeps it.
LEMMA TokensIguales ==
  ASSUME TokensListos, cola'.listos = cola.listos, mutex'.listos = mutex.listos,
         sem'.listo = sem.listo,
         (corto'.paso = "sacar") <=> (corto.paso = "sacar"),
         (largo'.paso = "aumentarGrado") <=> (largo.paso = "aumentarGrado")
  PROVE  TokensListos'
<1>1. /\ Booleano(corto.paso = "sacar")' = Booleano(corto.paso = "sacar")
      /\ Booleano(largo.paso = "aumentarGrado")' = Booleano(largo.paso = "aumentarGrado")
      /\ Booleano(mutex.listos # "libre")' = Booleano(mutex.listos # "libre")
  BY DEF Booleano
<1> QED
  BY <1>1 DEF TokensListos

\* ... and DuenioDeListos too, if no kill moves.
LEMMA ListosIguales ==
  ASSUME IInv, mata' = mata, cola'.listos = cola.listos, mutex'.listos = mutex.listos,
         sem'.listo = sem.listo,
         (corto'.paso = "sacar") <=> (corto.paso = "sacar"),
         (largo'.paso = "aumentarGrado") <=> (largo.paso = "aumentarGrado")
  PROVE  DuenioDeListos' /\ TokensListos'
<1>1. TokensListos'
  BY TokensIguales DEF IInv
<1>2. DuenioDeListos'
  BY DEF IInv, DuenioDeListos
<1> QED
  BY <1>1, <1>2

\* Every handler has operations, and those of one that unblocks a process are
\* not among the ones that need the process.
LEMMA Guiones ==
  /\ \A r \in Rutinas : Len(Guion[r]) \in Nat /\ Len(Guion[r]) > 0
  /\ \A i \in 1..Len(Guion["desbloqueo"]) :
       Guion["desbloqueo"][i] \in {"desbloquear", "aListos", "devolverSem"}
  BY SMTT(30) DEF Rutinas, Guion

-----------------------------------------------------------------------------
(* The messages of the CPUs                                                *)

LEMMA PasoNuevaCPU ==
  ASSUME IInv, NEW c \in CPUs, GestionarNuevaCPU(c)
  PROVE  IInv'
<1>1. TypeOK'
  <2>1. cpu' \in [CPUs -> TipoCpu]
    BY ConstantesOK DEF ConstantesOK, IInv, TypeOK, GestionarNuevaCPU, TipoCpu, Posibles
  <2>2. remoto' \in [CPUs -> TipoRemoto]
    BY DEF IInv, TypeOK, GestionarNuevaCPU, TipoRemoto
  <2>3. sem' \in TipoSem
    BY PostearTipo DEF IInv, TypeOK, GestionarNuevaCPU
  <2> QED
    BY <2>1, <2>2, <2>3 DEF IInv, TypeOK, GestionarNuevaCPU, hilos
<1>2. ConProceso'
  BY DEF IInv, TypeOK, TipoRemoto, GestionarNuevaCPU, hilos, ConProceso, FasesConProceso
<1>3. DuenioDeListos' /\ TokensListos'
  BY PostearTipo, ListosIguales DEF IInv, TypeOK, GestionarNuevaCPU, hilos
<1> QED
  BY <1>1, <1>2, <1>3 DEF IInv

\* What DejarCPU leaves in the two variables it changes.
LEMMA DejarTipo ==
  ASSUME IInv, NEW c \in CPUs, NEW fases \in SUBSET FasesConProceso, NEW r \in Rutinas,
         NEW s \in Semaforos \cup {"ninguno"}, DejarCPU(c, fases, r, s)
  PROVE  /\ remoto' \in [CPUs -> TipoRemoto] /\ principal' \in TipoPrincipal
         /\ ConProceso'
<1>1. remoto[c].pid \in Pids
  BY DEF DejarCPU, IInv, ConProceso
<1>2. principal' = [rutina |-> r, paso |-> 1, cpu |-> c, pid |-> remoto[c].pid, sem |-> s]
  BY DEF DejarCPU, Atender
<1>3. principal' \in TipoPrincipal
  BY <1>1, <1>2 DEF TipoPrincipal, Posibles
<1>4. Desocupada(remoto[c]) \in TipoRemoto /\ Desocupada(remoto[c]).fase \notin FasesConProceso
  BY DEF IInv, TypeOK, TipoRemoto, Desocupada, Posibles, FasesConProceso
<1>5. remoto' = [remoto EXCEPT ![c] = Desocupada(remoto[c])]
  BY DEF DejarCPU
<1>6. remoto' \in [CPUs -> TipoRemoto]
  BY <1>4, <1>5 DEF IInv, TypeOK
<1>7. \A d \in CPUs : remoto'[d].fase \in FasesConProceso => remoto'[d].pid \in Pids
  BY <1>4, <1>5 DEF IInv, TypeOK, ConProceso
<1>8. largo'.paso = "crear" => largo'.pid \in Pids
  BY DEF IInv, ConProceso, DejarCPU
<1>9. principal'.paso \in 1..Len(Guion[principal'.rutina])
  BY <1>2, Guiones
<1> QED
  BY <1>1, <1>2, <1>3, <1>6, <1>7, <1>8, <1>9 DEF ConProceso

\* Removing an entry, or adding one, leaves a bag.
LEMMA BolsaTipo ==
  ASSUME NEW b \in Bolsas, NEW p
  PROVE  Sumar(b, p) \in Bolsas /\ Restar(b, p) \in Bolsas
<1>1. \A q \in Pids : b[q] \in Nat
  BY DEF Bolsas
<1>2. \A q \in Pids : Sumar(b, p)[q] \in Nat
  BY <1>1 DEF Bolsas, Sumar
<1>3. \A q \in Pids : Restar(b, p)[q] \in Nat
  <2>1. \A q \in Pids : (IF b[q] > 0 THEN b[q] - 1 ELSE 0) \in Nat
    BY <1>1
  <2> QED
    BY <1>1, <2>1 DEF Bolsas, Restar
<1>4. /\ Sumar(b, p) = [q \in Pids |-> Sumar(b, p)[q]]
      /\ Restar(b, p) = [q \in Pids |-> Restar(b, p)[q]]
  BY DEF Bolsas, Sumar, Restar
<1> QED
  BY <1>2, <1>3, <1>4 DEF Bolsas

LEMMA DejarYRemoverIInv ==
  ASSUME IInv, NEW c \in CPUs, NEW fases \in SUBSET FasesConProceso, NEW r \in Rutinas,
         NEW s \in Semaforos \cup {"ninguno"}, DejarYRemover(c, fases, r, s),
         semaforo' \in [Semaforos -> TipoSemaforo]
  PROVE  IInv'
<1>1. /\ remoto' \in [CPUs -> TipoRemoto] /\ principal' \in TipoPrincipal
      /\ ConProceso'
  BY DejarTipo DEF DejarYRemover
<1>2. cola' \in TipoCola /\ cola'.listos = cola.listos
  <2>1. cola \in TipoCola /\ cola.ejecucion \in Bolsas
    BY DEF IInv, TypeOK, TipoCola
  <2>2. Restar(cola.ejecucion, remoto[c].pid) \in Bolsas
    BY <2>1, BolsaTipo
  <2>3. cola' = [cola EXCEPT !.ejecucion = Restar(cola.ejecucion, remoto[c].pid)]
    BY DEF DejarYRemover
  <2> QED
    BY <2>1, <2>2, <2>3 DEF TipoCola
<1>3. TypeOK'
  BY <1>1, <1>2 DEF IInv, TypeOK, DejarYRemover, DejarCPU
<1>4. DuenioDeListos' /\ TokensListos'
  BY <1>2, ListosIguales DEF DejarYRemover, DejarCPU
<1> QED
  BY <1>1, <1>3, <1>4 DEF IInv

LEMMA PasoFinProceso ==
  ASSUME IInv, NEW c \in CPUs, FinProceso(c)
  PROVE  IInv'
<1>1. semaforo' \in [Semaforos -> TipoSemaforo]
  BY DEF IInv, TypeOK, FinProceso
<1> QED
  BY <1>1, DejarYRemoverIInv DEF FinProceso, FasesConProceso, Rutinas, Guion, EnMarcha

LEMMA PasoExcepcion ==
  ASSUME IInv, NEW c \in CPUs, NEW r, Excepcion(c, r)
  PROVE  IInv'
<1>1. semaforo' \in [Semaforos -> TipoSemaforo]
  BY DEF IInv, TypeOK, Excepcion
<1> QED
  BY <1>1, DejarYRemoverIInv DEF Excepcion, FasesConProceso, Rutinas, Guion, EnMarcha

LEMMA PasoExpropiado ==
  ASSUME IInv, NEW c \in CPUs, ProcesoExpropiado(c)
  PROVE  IInv'
<1>1. semaforo' \in [Semaforos -> TipoSemaforo]
  BY DEF IInv, TypeOK, ProcesoExpropiado
<1> QED
  BY <1>1, DejarYRemoverIInv DEF ProcesoExpropiado, FasesConProceso, Rutinas, Guion

LEMMA PasoFinQuantum ==
  ASSUME IInv, NEW c \in CPUs, FinQuantum(c)
  PROVE  IInv'
<1>1. PICK r \in {"finQuantum", "finQuantumCierre"} : DejarCPU(c, {"finQuantum"}, r, "ninguno")
  BY DEF FinQuantum
<1>2. /\ remoto' \in [CPUs -> TipoRemoto] /\ principal' \in TipoPrincipal
      /\ ConProceso'
  BY <1>1, DejarTipo DEF FasesConProceso, Rutinas, Guion
<1>3. cpu' \in [CPUs -> TipoCpu]
  BY DEF IInv, TypeOK, FinQuantum, TipoCpu
<1>4. TypeOK'
  BY <1>1, <1>2, <1>3 DEF IInv, TypeOK, FinQuantum, DejarCPU
<1>5. DuenioDeListos' /\ TokensListos'
  BY <1>1, ListosIguales DEF FinQuantum, DejarCPU
<1> QED
  BY <1>2, <1>4, <1>5 DEF IInv

\* A CPU that goes on with its process, in another phase.
LEMMA FaseNueva ==
  ASSUME IInv, NEW c \in CPUs, remoto[c].fase \in FasesConProceso,
         NEW f \in FasesConProceso, remoto' = [remoto EXCEPT ![c].fase = f]
  PROVE  /\ remoto' \in [CPUs -> TipoRemoto]
         /\ \A d \in CPUs : remoto'[d].fase \in FasesConProceso => remoto'[d].pid \in Pids
<1>1. remoto' \in [CPUs -> TipoRemoto]
  BY DEF IInv, TypeOK, TipoRemoto
<1>2. ASSUME NEW d \in CPUs, remoto'[d].fase \in FasesConProceso PROVE remoto'[d].pid \in Pids
  <2>1. remoto[d].fase \in FasesConProceso /\ remoto'[d].pid = remoto[d].pid
    BY <1>2 DEF IInv, TypeOK, TipoRemoto
  <2> QED
    BY <2>1 DEF IInv, ConProceso
<1> QED
  BY <1>1, <1>2

LEMMA PasoWait ==
  ASSUME IInv, NEW c \in CPUs, NEW s \in Semaforos, WaitSemaforo(c, s)
  PROVE  IInv'
<1>1. semaforo' \in [Semaforos -> TipoSemaforo]
  <2> DEFINE r == [semaforo[s] EXCEPT !.valor = @ - 1]
  <2>1. r \in TipoSemaforo
    BY SMTT(30) DEF IInv, TypeOK, TipoSemaforo
  <2>2. semaforo' = [semaforo EXCEPT ![s] = r]
    BY DEF WaitSemaforo
  <2> HIDE DEF r
  <2> QED
    BY <2>1, <2>2 DEF IInv, TypeOK
<1>2. CASE DejarYRemover(c, EnMarcha, "bloqueo", s)
  BY <1>1, <1>2, DejarYRemoverIInv DEF WaitSemaforo, FasesConProceso, Rutinas, Guion, EnMarcha
<1>3. CASE ~DejarYRemover(c, EnMarcha, "bloqueo", s)
  <2>1. /\ remoto[c].fase \in EnMarcha
        /\ remoto' = [remoto EXCEPT ![c].fase = "consulta"]
        /\ UNCHANGED <<cola, sem, mutex, cpu, adm, grado, flagPlanificacion,
                       contadorPid, hilos, pendientes, fallo>>
    BY <1>3 DEF WaitSemaforo
  <2>2. /\ remoto' \in [CPUs -> TipoRemoto]
        /\ \A d \in CPUs : remoto'[d].fase \in FasesConProceso => remoto'[d].pid \in Pids
    BY <2>1, FaseNueva DEF FasesConProceso, EnMarcha
  <2>3. TypeOK'
    BY <1>1, <2>1, <2>2 DEF IInv, TypeOK, hilos
  <2>4. ConProceso'
    BY <2>1, <2>2 DEF IInv, ConProceso, hilos
  <2>5. DuenioDeListos' /\ TokensListos'
    BY <2>1, ListosIguales DEF hilos
  <2> QED
    BY <2>3, <2>4, <2>5 DEF IInv
<1> QED
  BY <1>2, <1>3

LEMMA PasoSignal ==
  ASSUME IInv, NEW c \in CPUs, NEW s \in Semaforos, SignalSemaforo(c, s)
  PROVE  IInv'
<1>1. /\ remoto' \in [CPUs -> TipoRemoto]
      /\ \A d \in CPUs : remoto'[d].fase \in FasesConProceso => remoto'[d].pid \in Pids
  BY FaseNueva DEF SignalSemaforo, FasesConProceso, EnMarcha
<1>2. semaforo[s] \in TipoSemaforo
  BY DEF IInv, TypeOK
<1>3. /\ semaforo' \in [Semaforos -> TipoSemaforo] /\ principal' \in TipoPrincipal
      /\ principal'.rutina \in Rutinas \ {"desbloqueo"} => principal'.pid \in Pids
      /\ principal'.rutina \in Rutinas => principal'.paso \in 1..Len(Guion[principal'.rutina])
  <2>1. CASE semaforo[s].pids = <<>>
    <3> DEFINE r == [semaforo[s] EXCEPT !.valor = @ + 1]
    <3>1. r \in TipoSemaforo
      BY <1>2 DEF TipoSemaforo
    <3>2. semaforo' = [semaforo EXCEPT ![s] = r]
      BY <2>1 DEF SignalSemaforo
    <3> HIDE DEF r
    <3>3. semaforo' \in [Semaforos -> TipoSemaforo]
      BY <3>1, <3>2 DEF IInv, TypeOK
    <3> QED
      BY <2>1, <3>3 DEF SignalSemaforo, IInv, TypeOK, ConProceso
  <2>2. CASE semaforo[s].pids # <<>>
    <3>1. Head(semaforo[s].pids) \in Pids /\ Tail(semaforo[s].pids) \in Seq(Pids)
      BY <2>2, <1>2, HeadTailProperties DEF TipoSemaforo
    <3>2. [valor |-> semaforo[s].valor + 1, pids |-> Tail(semaforo[s].pids)] \in TipoSemaforo
      BY <3>1, <1>2 DEF TipoSemaforo
    <3>3. semaforo' \in [Semaforos -> TipoSemaforo]
      BY <2>2, <3>2 DEF IInv, TypeOK, SignalSemaforo
    <3>4. principal' = [rutina |-> "desbloqueo", paso |-> 1, cpu |-> c,
                        pid |-> Head(semaforo[s].pids), sem |-> s]
      BY <2>2 DEF SignalSemaforo, Atender
    <3> QED
      BY <3>1, <3>3, <3>4, Guiones DEF TipoPrincipal, Posibles, Rutinas, Guion
  <2> QED
    BY <2>1, <2>2
<1>4. TypeOK'
  BY <1>1, <1>3 DEF IInv, TypeOK, SignalSemaforo
<1>5. ConProceso'
  BY <1>1, <1>3 DEF IInv, ConProceso, SignalSemaforo
<1>6. DuenioDeListos' /\ TokensListos'
  BY ListosIguales DEF SignalSemaforo
<1> QED
  BY <1>4, <1>5, <1>6 DEF IInv

LEMMA PasoVerificar ==
  ASSUME IInv, NEW c \in CPUs, VerificarInterrupciones(c)
  PROVE  IInv'
<1>1. /\ remoto' \in [CPUs -> TipoRemoto]
      /\ \A d \in CPUs : remoto'[d].fase \in FasesConProceso => remoto'[d].pid \in Pids
  <2>1. PICK f \in FasesConProceso : remoto' = [remoto EXCEPT ![c].fase = f]
    BY DEF VerificarInterrupciones, FasesConProceso, EnMarcha
  <2> QED
    BY <2>1, FaseNueva DEF VerificarInterrupciones, FasesConProceso, EnMarcha
<1>2. TypeOK'
  BY <1>1 DEF IInv, TypeOK, VerificarInterrupciones
<1>3. ConProceso'
  BY <1>1 DEF IInv, ConProceso, VerificarInterrupciones
<1>4. DuenioDeListos' /\ TokensListos'
  BY ListosIguales DEF VerificarInterrupciones
<1> QED
  BY <1>2, <1>3, <1>4 DEF IInv

\* What a signal may do to the phase of a CPU.
LEMMA FaseAlCerrar ==
  ASSUME NEW g \in FasesConProceso \cup {"apagada", "libre", "saliendo", "cerrada"},
         NEW f \in AlCerrar(g)
  PROVE  /\ f \in FasesConProceso \cup {"apagada", "libre", "saliendo", "cerrada"}
         /\ f \in FasesConProceso => g \in FasesConProceso
         /\ f = g \/ f = "ejecuta" \/ f = "saliendo"
         /\ g \in {"apagada", "saliendo", "cerrada"} => f = g
         /\ f = "saliendo" => g \in {"libre", "recibe", "saliendo"}
         /\ g = "libre" => f = "saliendo"
<1>1. CASE g = "libre"
  BY <1>1 DEF AlCerrar, FasesConProceso
<1>2. CASE g = "recibe"
  BY <1>2 DEF AlCerrar, FasesConProceso
<1>3. CASE g \notin {"libre", "recibe"}
  <2>1. f = g
    BY <1>3 DEF AlCerrar
  <2> QED
    BY <1>3, <2>1
<1> QED
  BY <1>1, <1>2, <1>3

LEMMA PasoCierre ==
  ASSUME IInv, NEW c \in CPUs, SignalCPU(c) \/ GestionarCierreCpu(c)
  PROVE  IInv'
<1>1. /\ remoto' \in [CPUs -> TipoRemoto]
      /\ \A d \in CPUs : remoto'[d].fase \in FasesConProceso => remoto'[d].pid \in Pids
  <2>1. PICK r \in TipoRemoto : /\ remoto' = [remoto EXCEPT ![c] = r]
                                /\ r.fase \in FasesConProceso => r.pid \in Pids
    <3>1. CASE SignalCPU(c)
      <4>1. PICK f \in AlCerrar(remoto[c].fase) :
              remoto' = [remoto EXCEPT ![c].cerrando = TRUE, ![c].fase = f]
        BY <3>1 DEF SignalCPU
      <4> DEFINE r == [remoto[c] EXCEPT !.cerrando = TRUE, !.fase = f]
      <4>2. /\ f \in FasesConProceso \cup {"apagada", "libre", "saliendo", "cerrada"}
            /\ f \in FasesConProceso => remoto[c].fase \in FasesConProceso
        BY FaseAlCerrar DEF IInv, TypeOK, TipoRemoto
      <4>3. r \in TipoRemoto /\ (r.fase \in FasesConProceso => r.pid \in Pids)
        BY <4>2 DEF IInv, TypeOK, TipoRemoto, ConProceso
      <4>4. remoto' = [remoto EXCEPT ![c] = r]
        BY <4>1 DEF IInv, TypeOK, TipoRemoto
      <4> QED
        BY <4>3, <4>4
    <3>2. CASE GestionarCierreCpu(c)
      <4> DEFINE r == [remoto[c] EXCEPT !.fase = "cerrada"]
      <4>1. r \in TipoRemoto /\ (r.fase \in FasesConProceso => r.pid \in Pids)
        BY DEF IInv, TypeOK, TipoRemoto, ConProceso, FasesConProceso
      <4>2. remoto' = [remoto EXCEPT ![c] = r]
        BY <3>2 DEF GestionarCierreCpu, IInv, TypeOK, TipoRemoto
      <4> QED
        BY <4>1, <4>2
    <3> QED
      BY <3>1, <3>2
  <2> QED
    BY <2>1 DEF IInv, TypeOK, ConProceso
<1>2. cpu' \in [CPUs -> TipoCpu]
  BY ZenonT(30) DEF IInv, TypeOK, SignalCPU, GestionarCierreCpu, TipoCpu
<1>3. TypeOK'
  BY <1>1, <1>2 DEF IInv, TypeOK, SignalCPU, GestionarCierreCpu, hilos
<1>4. ConProceso'
  BY <1>1 DEF IInv, ConProceso, SignalCPU, GestionarCierreCpu, hilos
<1>5. DuenioDeListos' /\ TokensListos'
  BY ListosIguales DEF SignalCPU, GestionarCierreCpu, hilos
<1> QED
  BY <1>3, <1>4, <1>5 DEF IInv

LEMMA PasoNuevoPrograma ==
  ASSUME IInv, GestionarNuevoPrograma
  PROVE  IInv'
<1>1. contadorPid + 1 \in Pids /\ contadorPid' \in 0..MaxPid
  BY ConstantesOK DEF ConstantesOK, IInv, TypeOK, GestionarNuevoPrograma, Pids
<1>2. Append(cola.nuevos, contadorPid + 1) \in Seq(Pids)
  BY <1>1 DEF IInv, TypeOK, TipoCola
<1>3. cola' \in TipoCola /\ cola'.listos = cola.listos
  BY <1>2 DEF IInv, TypeOK, TipoCola, GestionarNuevoPrograma
<1>4. principal' = [rutina |-> "nuevoPrograma", paso |-> 1, cpu |-> "ninguna",
                    pid |-> contadorPid + 1, sem |-> "ninguno"]
  BY DEF GestionarNuevoPrograma, Atender
<1>5. principal' \in TipoPrincipal
  BY <1>1, <1>4 DEF TipoPrincipal, Posibles, Rutinas, Guion
<1>6. TypeOK'
  BY <1>1, <1>3, <1>5 DEF IInv, TypeOK, GestionarNuevoPrograma
<1>7. ConProceso'
  BY <1>1, <1>4, Guiones DEF IInv, ConProceso, GestionarNuevoPrograma, Rutinas, Guion
<1>8. DuenioDeListos' /\ TokensListos'
  BY <1>3, ListosIguales DEF GestionarNuevoPrograma
<1> QED
  BY <1>6, <1>7, <1>8 DEF IInv

-----------------------------------------------------------------------------
(* The operations of the main thread                                       *)

\* The main thread does operation op and moves on, or ends its handler.
LEMMA PasoPrincipal ==
  ASSUME IInv, NEW op, op # "ninguna", Paso(op)
  PROVE  /\ principal.rutina \in Rutinas
         /\ op = Guion[principal.rutina][principal.paso]
         /\ principal' \in TipoPrincipal
         /\ principal'.rutina \in Rutinas \ {"desbloqueo"} => principal'.pid \in Pids
         /\ principal'.rutina \in Rutinas => principal'.paso \in 1..Len(Guion[principal'.rutina])
<1>1. principal.rutina \in Rutinas /\ op = Guion[principal.rutina][principal.paso]
  BY DEF Paso, Operacion
<1>2. /\ principal \in TipoPrincipal
      /\ principal.paso \in 1..Len(Guion[principal.rutina])
      /\ principal.rutina # "desbloqueo" => principal.pid \in Pids
  BY <1>1 DEF IInv, TypeOK, ConProceso
<1>3. CASE principal.paso < Len(Guion[principal.rutina])
  <2>1. principal' = [principal EXCEPT !.paso = principal.paso + 1]
    BY <1>3 DEF Paso
  <2>2. /\ principal' \in TipoPrincipal
        /\ principal'.rutina = principal.rutina /\ principal'.pid = principal.pid
        /\ principal'.paso = principal.paso + 1
    BY <1>2, <2>1 DEF TipoPrincipal
  <2> QED
    BY <1>1, <1>2, <1>3, <2>2, Guiones
<1>4. CASE ~(principal.paso < Len(Guion[principal.rutina]))
  <2>1. principal' = SinRutina
    BY <1>4 DEF Paso
  <2>2. principal' \in TipoPrincipal /\ principal'.rutina \notin Rutinas
    BY <2>1 DEF SinRutina, TipoPrincipal, Posibles, Rutinas, Guion
  <2> QED
    BY <1>1, <2>2
<1> QED
  BY <1>3, <1>4

\* An operation that changes nothing TokensListos relates.
LEMMA OperacionIInv ==
  ASSUME IInv, NEW op, op # "ninguna", Paso(op), UNCHANGED AjenoAlPrincipal,
         cola' \in TipoCola, cpu' \in [CPUs -> TipoCpu], sem' \in TipoSem, adm' \in TipoAdm,
         semaforo' \in [Semaforos -> TipoSemaforo], TokensListos'
  PROVE  IInv'
<1>1. TypeOK'
  BY PasoPrincipal DEF IInv, TypeOK, AjenoAlPrincipal
<1>2. ConProceso'
  BY PasoPrincipal DEF IInv, ConProceso, AjenoAlPrincipal
<1>3. DuenioDeListos'
  BY DEF IInv, DuenioDeListos, AjenoAlPrincipal
<1> QED
  BY <1>1, <1>2, <1>3 DEF IInv

LEMMA PasoEncolarCodigo ==
  ASSUME IInv, EncolarCodigo
  PROVE  IInv'
<1>1. principal.pid \in Pids
  BY PasoPrincipal, Guiones DEF EncolarCodigo, IInv, ConProceso
<1>2. adm' \in TipoAdm
  BY <1>1 DEF EncolarCodigo, IInv, TypeOK, TipoAdm
<1>3. sem' \in TipoSem /\ sem'.listo = sem.listo
  BY PostearTipo DEF EncolarCodigo, IInv, TypeOK
<1>4. TokensListos'
  BY <1>3, TokensIguales DEF IInv, EncolarCodigo, AjenoAlPrincipal
<1> QED
  BY <1>2, <1>3, <1>4, OperacionIInv DEF EncolarCodigo, IInv, TypeOK

LEMMA PasoCambiarEstadoCpu ==
  ASSUME IInv, CambiarEstadoCpu
  PROVE  IInv'
<1>1. cpu' \in [CPUs -> TipoCpu]
  BY DEF CambiarEstadoCpu, IInv, TypeOK, TipoCpu
<1>2. "listo" \notin PostsDeOciosa
  BY DEF PostsDeOciosa
<1>3. sem' \in TipoSem /\ sem'.listo = sem.listo
  BY <1>2, PostearTipo DEF CambiarEstadoCpu, IInv, TypeOK
<1>4. TokensListos'
  BY <1>3, TokensIguales DEF IInv, CambiarEstadoCpu, AjenoAlPrincipal
<1> QED
  BY <1>1, <1>3, <1>4, OperacionIInv DEF CambiarEstadoCpu, IInv, TypeOK

LEMMA PasoRemover ==
  ASSUME IInv, RemoverDeColaEjecucion
  PROVE  IInv'
<1>1. cola \in TipoCola /\ Restar(cola.ejecucion, principal.pid) \in Bolsas
  BY BolsaTipo DEF IInv, TypeOK, TipoCola
<1>2. cola' \in TipoCola /\ cola'.listos = cola.listos
  BY <1>1 DEF RemoverDeColaEjecucion, TipoCola
<1>3. TokensListos'
  BY <1>2, TokensIguales DEF IInv, RemoverDeColaEjecucion, AjenoAlPrincipal
<1> QED
  BY <1>2, <1>3, OperacionIInv DEF RemoverDeColaEjecucion, IInv, TypeOK

LEMMA PasoEncolarEspera ==
  ASSUME IInv, EncolarEspera
  PROVE  IInv'
<1>1. principal.pid \in Pids
  BY PasoPrincipal, Guiones DEF EncolarEspera, IInv, ConProceso
<1>2. cola' \in TipoCola /\ cola'.listos = cola.listos
  <2>1. cola \in TipoCola /\ cola.espera \in Seq(Pids)
    BY DEF IInv, TypeOK, TipoCola
  <2>2. Append(cola.espera, principal.pid) \in Seq(Pids)
    BY <1>1, <2>1
  <2>3. cola' = [cola EXCEPT !.espera = Append(cola.espera, principal.pid)]
    BY DEF EncolarEspera
  <2> QED
    BY <2>1, <2>2, <2>3 DEF TipoCola
<1>3. sem' \in TipoSem /\ sem'.listo = sem.listo
  BY PostearTipo DEF EncolarEspera, IInv, TypeOK
<1>4. TokensListos'
  BY <1>2, <1>3, TokensIguales DEF IInv, EncolarEspera, AjenoAlPrincipal
<1> QED
  BY <1>2, <1>3, <1>4, OperacionIInv DEF EncolarEspera, IInv, TypeOK

\* The process and its token arrive together.
LEMMA PasoEncolarListo ==
  ASSUME IInv, EncolarListo
  PROVE  IInv'
<1>1. cola \in TipoCola /\ cola.listos \in Seq(Posibles) /\ principal.pid \in Posibles
  BY DEF IInv, TypeOK, TipoCola, TipoPrincipal
<1>2. cola' = [cola EXCEPT !.listos = Append(cola.listos, principal.pid)]
  BY DEF EncolarListo
<1>3. /\ Append(cola.listos, principal.pid) \in Seq(Posibles)
      /\ Len(Append(cola.listos, principal.pid)) = Len(cola.listos) + 1
  BY <1>1
<1>4. cola' \in TipoCola /\ Len(cola'.listos) = Len(cola.listos) + 1
  BY <1>1, <1>2, <1>3 DEF TipoCola
<1>5. "listo" \in PostsDeListo
  BY DEF PostsDeListo
<1>6. sem' \in TipoSem /\ sem'.listo = sem.listo + 1
  BY <1>5, PostearTipo DEF EncolarListo, IInv, TypeOK
<1>7. mutex' = mutex /\ corto' = corto /\ largo' = largo
  BY DEF EncolarListo, AjenoAlPrincipal
<1>8. TokensListos'
  <2>1. /\ Booleano(corto.paso = "sacar")' = Booleano(corto.paso = "sacar")
        /\ Booleano(largo.paso = "aumentarGrado")' = Booleano(largo.paso = "aumentarGrado")
        /\ Booleano(mutex.listos # "libre")' = Booleano(mutex.listos # "libre")
    BY <1>7
  <2>2. sem.listo \in Nat /\ Len(cola.listos) \in Nat
    BY <1>1 DEF IInv, TypeOK, TipoSem
  <2> QED
    BY <1>4, <1>6, <2>1, <2>2, BooleanoNat, SMTT(30) DEF IInv, TokensListos
<1> QED
  BY <1>4, <1>6, <1>8, OperacionIInv DEF EncolarListo, IInv, TypeOK

LEMMA PasoEncolarBloqueado ==
  ASSUME IInv, EncolarBloqueado
  PROVE  IInv'
<1>1. cola \in TipoCola /\ Sumar(cola.bloqueados, principal.pid) \in Bolsas
  BY BolsaTipo DEF IInv, TypeOK, TipoCola
<1>2. cola' \in TipoCola /\ cola'.listos = cola.listos
  BY <1>1 DEF EncolarBloqueado, TipoCola
<1>3. sem' \in TipoSem /\ sem'.listo = sem.listo
  BY PostearTipo DEF EncolarBloqueado, IInv, TypeOK
<1>4. TokensListos'
  BY <1>2, <1>3, TokensIguales DEF IInv, EncolarBloqueado, AjenoAlPrincipal
<1> QED
  BY <1>2, <1>3, <1>4, OperacionIInv DEF EncolarBloqueado, IInv, TypeOK

LEMMA PasoEncolarASemaforo ==
  ASSUME IInv, EncolarProcesoBloqueadoASemaforo
  PROVE  IInv'
<1>1. principal.pid \in Pids
  BY PasoPrincipal, Guiones DEF EncolarProcesoBloqueadoASemaforo, IInv, ConProceso
<1>2. ASSUME NEW s \in Semaforos
      PROVE  [semaforo[s] EXCEPT !.pids = Append(@, principal.pid)] \in TipoSemaforo
  <2>1. semaforo[s] \in TipoSemaforo
    BY DEF IInv, TypeOK
  <2>2. Append(semaforo[s].pids, principal.pid) \in Seq(Pids)
    BY <1>1, <2>1 DEF TipoSemaforo
  <2> QED
    BY <2>1, <2>2 DEF TipoSemaforo
<1>3. semaforo' \in [Semaforos -> TipoSemaforo]
  <2> DEFINE r == [semaforo[principal.sem] EXCEPT !.pids = Append(@, principal.pid)]
  <2>1. semaforo' = [semaforo EXCEPT ![principal.sem] = r]
    BY DEF EncolarProcesoBloqueadoASemaforo
  <2>2. principal.sem \in Semaforos => r \in TipoSemaforo
    BY <1>2
  <2> HIDE DEF r
  <2> QED
    BY <2>1, <2>2 DEF IInv, TypeOK
<1>4. TokensListos'
  BY TokensIguales DEF IInv, EncolarProcesoBloqueadoASemaforo, AjenoAlPrincipal
<1> QED
  BY <1>3, <1>4, OperacionIInv DEF EncolarProcesoBloqueadoASemaforo, IInv, TypeOK

LEMMA PasoDesbloquear ==
  ASSUME IInv, DesbloquearProceso
  PROVE  IInv'
<1>1. /\ principal.rutina \in Rutinas /\ principal \in TipoPrincipal
      /\ principal.paso \in 1..Len(Guion[principal.rutina])
      /\ Guion[principal.rutina][principal.paso] = "desbloquear"
  BY DEF DesbloquearProceso, Operacion, IInv, TypeOK, ConProceso
<1>2. principal.rutina = "desbloqueo" /\ principal.paso = 1
  BY <1>1 DEF Rutinas, Guion
<1>3. principal' = [principal EXCEPT !.paso = principal.paso + 1,
                      !.pid = IF cola.bloqueados[principal.pid] > 0
                              THEN principal.pid ELSE Nadie]
  BY DEF DesbloquearProceso
<1>4. /\ principal' \in TipoPrincipal /\ principal'.rutina = "desbloqueo"
      /\ principal'.paso = 2
  <2> DEFINE q == IF cola.bloqueados[principal.pid] > 0 THEN principal.pid ELSE Nadie
  <2>1. q \in Posibles
    BY <1>1 DEF TipoPrincipal, Posibles
  <2>2. principal' = [principal EXCEPT !.paso = 2, !.pid = q]
    BY <1>2, <1>3
  <2> HIDE DEF q
  <2>3. principal' \in TipoPrincipal
    BY <1>1, <2>1, <2>2 DEF TipoPrincipal
  <2> QED
    BY <1>1, <1>2, <2>2, <2>3 DEF TipoPrincipal
<1>5. cola \in TipoCola /\ Restar(cola.bloqueados, principal.pid) \in Bolsas
  BY BolsaTipo DEF IInv, TypeOK, TipoCola
<1>6. cola' \in TipoCola /\ cola'.listos = cola.listos
  BY <1>5 DEF DesbloquearProceso, TipoCola
<1>7. TypeOK'
  BY <1>4, <1>6 DEF IInv, TypeOK, DesbloquearProceso, AjenoAlPrincipal
<1>8. 2 \in 1..Len(Guion["desbloqueo"])
  BY DEF Guion
<1>9. ConProceso'
  BY <1>4, <1>8 DEF IInv, ConProceso, DesbloquearProceso, AjenoAlPrincipal
<1>10. DuenioDeListos' /\ TokensListos'
  BY <1>6, ListosIguales DEF DesbloquearProceso, AjenoAlPrincipal
<1> QED
  BY <1>7, <1>9, <1>10 DEF IInv

LEMMA PasoDevolver ==
  ASSUME IInv, DevolverSemaforo
  PROVE  IInv'
<1>1. TokensListos'
  BY TokensIguales DEF IInv, DevolverSemaforo, AjenoAlPrincipal
<1> QED
  BY <1>1, OperacionIInv DEF DevolverSemaforo, IInv, TypeOK

LEMMA PasoQuitarInterrupcion ==
  ASSUME IInv, QuitarInterrupcion
  PROVE  IInv'
<1>1. adm \in TipoAdm /\ Restar(adm.interrumpidos, principal.pid) \in Bolsas
  BY BolsaTipo DEF IInv, TypeOK, TipoAdm
<1>2. adm' \in TipoAdm
  BY <1>1 DEF QuitarInterrupcion, TipoAdm
<1>3. TokensListos'
  BY TokensIguales DEF IInv, QuitarInterrupcion, AjenoAlPrincipal
<1> QED
  BY <1>2, <1>3, OperacionIInv DEF QuitarInterrupcion, IInv, TypeOK

LEMMA PasoOperacion ==
  ASSUME IInv, OperacionPrincipal
  PROVE  IInv'
  BY PasoEncolarCodigo, PasoCambiarEstadoCpu, PasoRemover, PasoEncolarEspera,
     PasoEncolarListo, PasoEncolarBloqueado, PasoEncolarASemaforo, PasoDesbloquear,
     PasoDevolver, PasoQuitarInterrupcion DEF OperacionPrincipal

-----------------------------------------------------------------------------
(* planificarCortoPlazo                                                    *)

\* What a step of the dispatcher has to show.
LEMMA CortoIInv ==
  ASSUME IInv, UNCHANGED AjenoAlCorto, corto' \in TipoCorto, cola' \in TipoCola,
         sem' \in TipoSem, cpu' \in [CPUs -> TipoCpu], remoto' \in [CPUs -> TipoRemoto],
         \A c \in CPUs : remoto'[c].fase \in FasesConProceso => remoto'[c].pid \in Pids,
         fallo' \in Fallos, TokensListos'
  PROVE  IInv'
<1>1. TypeOK'
  BY DEF IInv, TypeOK, AjenoAlCorto
<1>2. ConProceso'
  BY DEF IInv, ConProceso, AjenoAlCorto
<1>3. DuenioDeListos'
  BY DEF IInv, DuenioDeListos, AjenoAlCorto
<1> QED
  BY <1>1, <1>2, <1>3 DEF IInv

\* A step that only moves the dispatcher on.
LEMMA IrCortoTipo ==
  ASSUME IInv, NEW desde, NEW hasta \in PasosCorto, IrCorto(desde, hasta)
  PROVE  corto' \in TipoCorto /\ corto.paso = desde /\ corto'.paso = hasta
  BY DEF IInv, TypeOK, IrCorto, TipoCorto

LEMMA PasoCortoPausa ==
  ASSUME IInv, CortoVerificaPausa \/ CortoEsperaReanudar
  PROVE  IInv'
<1>1. PICK desde \in {"pausa", "pausada"}, hasta \in {"cpu", "pausada"} : IrCorto(desde, hasta)
  BY DEF CortoVerificaPausa, CortoEsperaReanudar
<1>2. corto' \in TipoCorto /\ corto.paso # "sacar" /\ corto'.paso # "sacar"
  BY <1>1, IrCortoTipo DEF PasosCorto
<1>3. sem' \in TipoSem /\ sem'.listo = sem.listo
  BY WaitTipo DEF CortoVerificaPausa, CortoEsperaReanudar, IInv, TypeOK
<1>4. TokensListos'
  BY <1>2, <1>3, TokensIguales
     DEF IInv, CortoVerificaPausa, CortoEsperaReanudar, AjenoAlCorto
<1> QED
  BY <1>2, <1>3, <1>4, CortoIInv
     DEF CortoVerificaPausa, CortoEsperaReanudar, IInv, TypeOK, ConProceso

LEMMA PasoCortoEsperaCPU ==
  ASSUME IInv, CortoEsperaCPU
  PROVE  IInv'
<1>1. corto' \in TipoCorto /\ corto.paso # "sacar" /\ corto'.paso # "sacar"
  BY IrCortoTipo DEF CortoEsperaCPU, PasosCorto
<1>2. sem' \in TipoSem /\ sem'.listo = sem.listo
  BY WaitTipo DEF CortoEsperaCPU, IInv, TypeOK
<1>3. TokensListos'
  BY <1>1, <1>2, TokensIguales DEF IInv, CortoEsperaCPU, AjenoAlCorto
<1> QED
  BY <1>1, <1>2, <1>3, CortoIInv DEF CortoEsperaCPU, IInv, TypeOK, ConProceso

\* The token is in the hands of the dispatcher.
LEMMA PasoCortoEsperaListo ==
  ASSUME IInv, CortoEsperaListo
  PROVE  IInv'
<1>1. corto' \in TipoCorto /\ corto.paso = "listo" /\ corto'.paso = "sacar"
  BY IrCortoTipo DEF CortoEsperaListo, PasosCorto
<1>2. sem' \in TipoSem /\ sem'.listo = sem.listo - 1
  BY WaitTipo DEF CortoEsperaListo, IInv, TypeOK
<1>3. cola' = cola /\ mutex' = mutex /\ largo' = largo
  BY DEF CortoEsperaListo, AjenoAlCorto
<1>4. TokensListos'
  <2>1. /\ Booleano(corto.paso = "sacar")' = 1 /\ Booleano(corto.paso = "sacar") = 0
        /\ Booleano(largo.paso = "aumentarGrado")' = Booleano(largo.paso = "aumentarGrado")
        /\ Booleano(mutex.listos # "libre")' = Booleano(mutex.listos # "libre")
    BY <1>1, <1>3 DEF Booleano
  <2>2. sem.listo \in Nat /\ Len(cola.listos) \in Nat
    BY DEF IInv, TypeOK, TipoSem, TipoCola
  <2> QED
    BY <1>2, <1>3, <2>1, <2>2, BooleanoNat DEF IInv, TokensListos
<1> QED
  BY <1>1, <1>2, <1>4, CortoIInv DEF CortoEsperaListo, IInv, TypeOK, ConProceso

\* With the token, and the mutex free, there is a process in colaListos.
LEMMA HayListo ==
  ASSUME IInv, corto.paso = "sacar", mutex.listos = "libre"
  PROVE  cola.listos # <<>>
<1>1. Booleano(corto.paso = "sacar") = 1 /\ Booleano(mutex.listos # "libre") = 0
  BY DEF Booleano
<1>2. sem.listo \in Nat /\ Len(cola.listos) \in Nat
  BY DEF IInv, TypeOK, TipoSem, TipoCola
<1>3. Booleano(largo.paso = "aumentarGrado") \in {0, 1}
  BY BooleanoNat
<1>4. Len(cola.listos) > 0
  BY <1>1, <1>2, <1>3 DEF IInv, TokensListos
<1> QED
  BY <1>4

LEMMA PasoSacarListo ==
  ASSUME IInv, SacarListo
  PROVE  IInv'
<1>1. corto.paso = "sacar" /\ mutex.listos = "libre" /\ cola.listos # <<>>
  BY HayListo DEF SacarListo
<1>2. /\ corto' = [paso |-> "mirar", pid |-> Head(cola.listos)]
      /\ cola' = [cola EXCEPT !.listos = Tail(cola.listos)]
      /\ fallo' = fallo
  BY <1>1 DEF SacarListo
<1>3. cola \in TipoCola /\ cola.listos \in Seq(Posibles)
  BY DEF IInv, TypeOK, TipoCola
<1>4. /\ Head(cola.listos) \in Posibles /\ Tail(cola.listos) \in Seq(Posibles)
      /\ Len(Tail(cola.listos)) = Len(cola.listos) - 1
  BY <1>1, <1>3, HeadTailProperties
<1>5. corto' \in TipoCorto /\ corto'.paso = "mirar"
  BY <1>2, <1>4 DEF TipoCorto, PasosCorto
<1>6. cola' \in TipoCola /\ Len(cola'.listos) = Len(cola.listos) - 1
  BY <1>2, <1>3, <1>4 DEF TipoCola
<1>7. sem' = sem /\ mutex' = mutex /\ largo' = largo
  BY DEF SacarListo, AjenoAlCorto
<1>8. TokensListos'
  <2>1. /\ Booleano(corto.paso = "sacar")' = 0 /\ Booleano(corto.paso = "sacar") = 1
        /\ Booleano(largo.paso = "aumentarGrado")' = Booleano(largo.paso = "aumentarGrado")
        /\ Booleano(mutex.listos # "libre")' = Booleano(mutex.listos # "libre")
    BY <1>1, <1>5, <1>7 DEF Booleano
  <2>2. sem.listo \in Nat /\ Len(cola.listos) \in Nat
    BY <1>3 DEF IInv, TypeOK, TipoSem
  <2> QED
    BY <1>6, <1>7, <2>1, <2>2, BooleanoNat DEF IInv, TokensListos
<1> QED
  BY <1>2, <1>5, <1>6, <1>8, CortoIInv DEF SacarListo, IInv, TypeOK, ConProceso

LEMMA PasoMirar ==
  ASSUME IInv, MirarOciosas
  PROVE  IInv'
<1>1. PICK hasta \in {"enviar", "devolver"} : IrCorto("mirar", hasta)
  BY DEF MirarOciosas
<1>2. corto' \in TipoCorto /\ corto.paso # "sacar" /\ corto'.paso # "sacar"
  BY <1>1, IrCortoTipo DEF PasosCorto
<1>3. TokensListos'
  BY <1>2, TokensIguales DEF IInv, MirarOciosas, AjenoAlCorto
<1> QED
  BY <1>2, <1>3, CortoIInv DEF MirarOciosas, IInv, TypeOK, ConProceso

LEMMA PasoEnviar ==
  ASSUME IInv, EnviarPcb
  PROVE  IInv'
<1>1. CASE Ociosas = {} \/ corto.pid = Nadie
  <2>1. cpu' = cpu /\ remoto' = remoto /\ corto' = corto /\ fallo' \in Fallos
    BY <1>1 DEF EnviarPcb, Falla, Fallos
  <2>2. TokensListos'
    BY <2>1, TokensIguales DEF IInv, EnviarPcb, AjenoAlCorto
  <2> QED
    BY <2>1, <2>2, CortoIInv DEF EnviarPcb, IInv, TypeOK, ConProceso
<1>2. CASE ~(Ociosas = {} \/ corto.pid = Nadie)
  <2>1. PICK c \in CPUs :
          /\ cpu' = [cpu EXCEPT ![c].estado = "EJECUTANDO", ![c].pid = corto.pid]
          /\ remoto' = [remoto EXCEPT ![c] = Entregada(remoto[c], corto.pid)]
    BY <1>2 DEF EnviarPcb, Ociosas
  <2>2. corto' = [corto EXCEPT !.paso = "registrar"] /\ fallo' = fallo
    BY <1>2 DEF EnviarPcb
  <2>3. corto.pid \in Pids /\ cpu[c] \in TipoCpu /\ remoto[c] \in TipoRemoto
    BY <1>2 DEF IInv, TypeOK, TipoCorto, Posibles
  <2>4. cpu' \in [CPUs -> TipoCpu]
    BY <2>1, <2>3 DEF IInv, TypeOK, TipoCpu, Posibles
  <2>5. Entregada(remoto[c], corto.pid) \in TipoRemoto
        /\ Entregada(remoto[c], corto.pid).pid \in Pids
    BY <2>3 DEF Entregada, TipoRemoto, Posibles, FasesConProceso
  <2>6. cpu' \in [CPUs -> TipoCpu] /\ remoto' \in [CPUs -> TipoRemoto]
    BY <2>1, <2>4, <2>5 DEF IInv, TypeOK
  <2>7. \A d \in CPUs : remoto'[d].fase \in FasesConProceso => remoto'[d].pid \in Pids
    BY <2>1, <2>5 DEF IInv, TypeOK, ConProceso
  <2>8. corto' \in TipoCorto /\ corto'.paso # "sacar" /\ corto.paso # "sacar"
    BY <2>2 DEF IInv, TypeOK, TipoCorto, PasosCorto, EnviarPcb
  <2>9. TokensListos'
    BY <2>8, TokensIguales DEF IInv, EnviarPcb, AjenoAlCorto
  <2> QED
    BY <2>2, <2>6, <2>7, <2>8, <2>9, CortoIInv DEF EnviarPcb, IInv, TypeOK
<1> QED
  BY <1>1, <1>2

LEMMA PasoRegistrar ==
  ASSUME IInv, RegistrarEjecucion
  PROVE  IInv'
<1>1. cola \in TipoCola /\ Sumar(cola.ejecucion, corto.pid) \in Bolsas
  BY BolsaTipo DEF IInv, TypeOK, TipoCola
<1>2. cola' \in TipoCola /\ cola'.listos = cola.listos
  BY <1>1 DEF RegistrarEjecucion, TipoCola
<1>3. corto' \in TipoCorto /\ corto'.paso # "sacar" /\ corto.paso # "sacar"
  BY DEF RegistrarEjecucion, TipoCorto, PasosCorto, Posibles
<1>4. TokensListos'
  BY <1>2, <1>3, TokensIguales DEF IInv, RegistrarEjecucion, AjenoAlCorto
<1> QED
  BY <1>2, <1>3, <1>4, CortoIInv DEF RegistrarEjecucion, IInv, TypeOK, ConProceso

\* The process and its token go back together.
LEMMA PasoDevolverAListos ==
  ASSUME IInv, DevolverAListos
  PROVE  IInv'
<1>1. cola \in TipoCola /\ cola.listos \in Seq(Posibles) /\ corto.pid \in Posibles
  BY DEF IInv, TypeOK, TipoCola, TipoCorto
<1>2. /\ Append(cola.listos, corto.pid) \in Seq(Posibles)
      /\ Len(Append(cola.listos, corto.pid)) = Len(cola.listos) + 1
  BY <1>1
<1>3. cola' = [cola EXCEPT !.listos = Append(cola.listos, corto.pid)]
  BY DEF DevolverAListos
<1>4. cola' \in TipoCola /\ Len(cola'.listos) = Len(cola.listos) + 1
  BY <1>1, <1>2, <1>3 DEF TipoCola
<1>5. sem' \in TipoSem /\ sem'.listo = sem.listo + 1
  BY PostearTipo DEF DevolverAListos, IInv, TypeOK
<1>6. corto' \in TipoCorto /\ corto'.paso = "pausa" /\ corto.paso = "devolver"
  BY DEF DevolverAListos, TipoCorto, PasosCorto, Posibles
<1>7. mutex' = mutex /\ largo' = largo
  BY DEF DevolverAListos, AjenoAlCorto
<1>8. TokensListos'
  <2>1. /\ Booleano(corto.paso = "sacar")' = Booleano(corto.paso = "sacar")
        /\ Booleano(largo.paso = "aumentarGrado")' = Booleano(largo.paso = "aumentarGrado")
        /\ Booleano(mutex.listos # "libre")' = Booleano(mutex.listos # "libre")
    BY <1>6, <1>7 DEF Booleano
  <2>2. sem.listo \in Nat /\ Len(cola.listos) \in Nat
    BY <1>1 DEF IInv, TypeOK, TipoSem
  <2> QED
    BY <1>4, <1>5, <2>1, <2>2, BooleanoNat, SMTT(30) DEF IInv, TokensListos
<1> QED
  BY <1>4, <1>5, <1>6, <1>8, CortoIInv DEF DevolverAListos, IInv, TypeOK, ConProceso

LEMMA PasoCorto ==
  ASSUME IInv, CortoPlazo
  PROVE  IInv'
  BY PasoCortoPausa, PasoCortoEsperaCPU, PasoCortoEsperaListo, PasoSacarListo, PasoMirar,
     PasoEnviar, PasoRegistrar, PasoDevolverAListos DEF CortoPlazo

-----------------------------------------------------------------------------
(* administrarNuevosProcesos                                               *)

\* What a step of the admitter has to show.
LEMMA LargoIInv ==
  ASSUME IInv, UNCHANGED AjenoAlLargo, largo' \in TipoLargo, cola' \in TipoCola,
         sem' \in TipoSem, mutex' \in TipoMutex, adm' \in TipoAdm, grado' \in TipoGrado,
         fallo' \in Fallos, largo'.paso = "crear" => largo'.pid \in Pids,
         mutex'.listos = mutex.listos, TokensListos'
  PROVE  IInv'
<1>1. TypeOK'
  BY DEF IInv, TypeOK, AjenoAlLargo
<1>2. ConProceso'
  BY DEF IInv, ConProceso, AjenoAlLargo
<1>3. DuenioDeListos'
  BY DEF IInv, DuenioDeListos, AjenoAlLargo
<1> QED
  BY <1>1, <1>2, <1>3 DEF IInv

LEMMA IrLargoTipo ==
  ASSUME IInv, NEW desde, NEW hasta \in PasosLargo, IrLargo(desde, hasta)
  PROVE  /\ largo' \in TipoLargo /\ largo.paso = desde /\ largo'.paso = hasta
         /\ largo'.pid = largo.pid
  BY DEF IInv, TypeOK, IrLargo, TipoLargo

\* The mutex of the admitter is not the one of colaListos.
LEMMA MutexTipo ==
  ASSUME mutex \in TipoMutex, NEW d \in {"libre", "largo", "grado"} \cup HilosMata,
         mutex' = [mutex EXCEPT !.nuevo = d]
  PROVE  mutex' \in TipoMutex /\ mutex'.listos = mutex.listos
  BY DEF TipoMutex

LEMMA LargoAcabaTipo ==
  ASSUME IInv, LargoAcaba
  PROVE  /\ largo' \in TipoLargo /\ largo'.paso = "pausa"
         /\ mutex' \in TipoMutex /\ mutex'.listos = mutex.listos
<1>1. largo' \in TipoLargo /\ largo'.paso = "pausa"
  BY DEF LargoAcaba, TipoLargo, PasosLargo, Posibles
<1>2. mutex' \in TipoMutex /\ mutex'.listos = mutex.listos
  BY MutexTipo DEF LargoAcaba, IInv, TypeOK
<1> QED
  BY <1>1, <1>2

LEMMA PasoLargoPausa ==
  ASSUME IInv, LargoVerificaPausa \/ LargoEsperaReanudar \/ LargoEsperaAdmitir
  PROVE  IInv'
<1>1. PICK desde \in {"pausa", "pausada", "admitir"}, hasta \in {"admitir", "pausada", "decidir"} :
        IrLargo(desde, hasta)
  BY DEF LargoVerificaPausa, LargoEsperaReanudar, LargoEsperaAdmitir
<1>2. /\ largo' \in TipoLargo /\ largo.paso # "aumentarGrado"
      /\ largo'.paso \notin {"crear", "aumentarGrado"}
  BY <1>1, IrLargoTipo DEF PasosLargo
<1>3. sem' \in TipoSem /\ sem'.listo = sem.listo
  BY WaitTipo DEF LargoVerificaPausa, LargoEsperaReanudar, LargoEsperaAdmitir, IInv, TypeOK
<1>4. TokensListos'
  BY <1>2, <1>3, TokensIguales
     DEF IInv, LargoVerificaPausa, LargoEsperaReanudar, LargoEsperaAdmitir, AjenoAlLargo
<1> QED
  BY <1>2, <1>3, <1>4, LargoIInv
     DEF LargoVerificaPausa, LargoEsperaReanudar, LargoEsperaAdmitir, IInv, TypeOK

LEMMA PasoSacarNuevo ==
  ASSUME IInv, SacarNuevo
  PROVE  IInv'
<1>1. CASE ~Admisible
  <2>1. /\ largo' = [largo EXCEPT !.paso = "pausa"] /\ largo.paso = "decidir"
        /\ UNCHANGED <<cola, mutex, adm, fallo>>
    BY <1>1 DEF SacarNuevo
  <2>2. largo' \in TipoLargo /\ largo'.paso = "pausa"
    BY <2>1 DEF IInv, TypeOK, TipoLargo, PasosLargo
  <2>3. TokensListos'
    BY <2>1, <2>2, TokensIguales DEF IInv, SacarNuevo, AjenoAlLargo
  <2> QED
    BY <2>1, <2>2, <2>3, LargoIInv DEF SacarNuevo, IInv, TypeOK
<1>2. CASE Admisible
  <2> DEFINE p == Head(cola.nuevos)
  <2>1. cola \in TipoCola /\ p \in Pids /\ Tail(cola.nuevos) \in Seq(Pids)
    BY <1>2, HeadTailProperties DEF Admisible, IInv, TypeOK, TipoCola
  <2>2. /\ cola' = [cola EXCEPT !.nuevos = Tail(cola.nuevos)]
        /\ mutex' = [mutex EXCEPT !.nuevo = "largo"]
        /\ largo' = [paso |-> "crear", pid |-> p] /\ largo.paso = "decidir"
    BY <1>2 DEF SacarNuevo
  <2>3. cola' \in TipoCola /\ cola'.listos = cola.listos
    BY <2>1, <2>2 DEF TipoCola
  <2>4. adm' \in TipoAdm /\ fallo' \in Fallos
    BY <1>2 DEF SacarNuevo, IInv, TypeOK, TipoAdm, Falla, Fallos
  <2> HIDE DEF p
  <2>5. largo' \in TipoLargo /\ largo'.pid \in Pids /\ largo'.paso = "crear"
    BY <2>1, <2>2 DEF TipoLargo, PasosLargo, Posibles
  <2>6. mutex' \in TipoMutex /\ mutex'.listos = mutex.listos
    BY <2>2, MutexTipo DEF IInv, TypeOK
  <2>7. TokensListos'
    BY <2>2, <2>3, <2>5, <2>6, TokensIguales DEF IInv, SacarNuevo, AjenoAlLargo
  <2> QED
    BY <2>3, <2>4, <2>5, <2>6, <2>7, LargoIInv DEF SacarNuevo, IInv, TypeOK
<1> QED
  BY <1>1, <1>2

\* The process is in colaListos and its token is still to come.
LEMMA PasoCrearProceso ==
  ASSUME IInv, CrearProceso
  PROVE  IInv'
<1>1. /\ largo' \in TipoLargo /\ largo.paso = "crear" /\ largo'.paso = "aumentarGrado"
      /\ largo.pid \in Pids
  BY IrLargoTipo DEF CrearProceso, PasosLargo, IInv, ConProceso
<1>2. cola \in TipoCola /\ cola.listos \in Seq(Posibles) /\ largo.pid \in Posibles
  BY <1>1 DEF IInv, TypeOK, TipoCola, Posibles
<1>3. /\ Append(cola.listos, largo.pid) \in Seq(Posibles)
      /\ Len(Append(cola.listos, largo.pid)) = Len(cola.listos) + 1
  BY <1>2
<1>4. cola' = [cola EXCEPT !.listos = Append(cola.listos, largo.pid)]
  BY DEF CrearProceso
<1>5. cola' \in TipoCola /\ Len(cola'.listos) = Len(cola.listos) + 1
  BY <1>2, <1>3, <1>4 DEF TipoCola
<1>6. adm' \in TipoAdm
  BY <1>1 DEF CrearProceso, IInv, TypeOK, TipoAdm
<1>7. sem' = sem /\ mutex' = mutex /\ corto' = corto
  BY DEF CrearProceso, AjenoAlLargo
<1>8. TokensListos'
  <2>1. /\ Booleano(corto.paso = "sacar")' = Booleano(corto.paso = "sacar")
        /\ Booleano(largo.paso = "aumentarGrado")' = 1
        /\ Booleano(largo.paso = "aumentarGrado") = 0
        /\ Booleano(mutex.listos # "libre")' = Booleano(mutex.listos # "libre")
    BY <1>1, <1>7 DEF Booleano
  <2>2. sem.listo \in Nat /\ Len(cola.listos) \in Nat
    BY <1>2 DEF IInv, TypeOK, TipoSem
  <2> QED
    BY <1>5, <1>7, <2>1, <2>2, BooleanoNat DEF IInv, TokensListos
<1> QED
  BY <1>1, <1>5, <1>6, <1>7, <1>8, LargoIInv DEF CrearProceso, IInv, TypeOK

LEMMA PasoAumentarGrado ==
  ASSUME IInv, AumentarGrado
  PROVE  IInv'
<1>1. sem' \in TipoSem /\ sem'.listo = sem.listo + 1
  BY PostearTipo DEF AumentarGrado, IInv, TypeOK
<1>2. /\ largo' \in TipoLargo /\ largo'.paso = "pausa" /\ largo.paso = "aumentarGrado"
      /\ mutex' \in TipoMutex /\ mutex'.listos = mutex.listos
  BY LargoAcabaTipo DEF AumentarGrado
<1>3. grado' \in TipoGrado
  BY DEF AumentarGrado, IInv, TypeOK, TipoGrado
<1>4. cola' = cola /\ corto' = corto
  BY DEF AumentarGrado, AjenoAlLargo
<1>5. TokensListos'
  <2>1. /\ Booleano(corto.paso = "sacar")' = Booleano(corto.paso = "sacar")
        /\ Booleano(largo.paso = "aumentarGrado")' = 0
        /\ Booleano(largo.paso = "aumentarGrado") = 1
        /\ Booleano(mutex.listos # "libre")' = Booleano(mutex.listos # "libre")
    BY <1>2, <1>4 DEF Booleano
  <2>2. sem.listo \in Nat /\ Len(cola.listos) \in Nat
    BY DEF IInv, TypeOK, TipoSem, TipoCola
  <2> QED
    BY <1>1, <1>4, <2>1, <2>2, BooleanoNat DEF IInv, TokensListos
<1> QED
  BY <1>1, <1>2, <1>3, <1>5, LargoIInv DEF AumentarGrado, IInv, TypeOK

LEMMA PasoRechazar ==
  ASSUME IInv, RechazarProceso
  PROVE  IInv'
<1>1. largo.paso = "crear" /\ largo.pid \in Pids
  BY DEF RechazarProceso, IInv, ConProceso
<1>2. cola' \in TipoCola /\ cola'.listos = cola.listos
  <2>1. cola \in TipoCola /\ cola.espera \in Seq(Pids)
    BY DEF IInv, TypeOK, TipoCola
  <2>2. Append(cola.espera, largo.pid) \in Seq(Pids)
    BY <1>1, <2>1
  <2>3. cola' = [cola EXCEPT !.espera = Append(cola.espera, largo.pid)]
    BY DEF RechazarProceso
  <2> QED
    BY <2>1, <2>2, <2>3 DEF TipoCola
<1>3. sem' \in TipoSem /\ sem'.listo = sem.listo
  BY PostearTipo DEF RechazarProceso, IInv, TypeOK
<1>4. /\ largo' \in TipoLargo /\ largo'.paso = "pausa"
      /\ mutex' \in TipoMutex /\ mutex'.listos = mutex.listos
  BY LargoAcabaTipo DEF RechazarProceso
<1>5. TokensListos'
  BY <1>1, <1>2, <1>3, <1>4, TokensIguales DEF IInv, RechazarProceso, AjenoAlLargo
<1> QED
  BY <1>2, <1>3, <1>4, <1>5, LargoIInv DEF RechazarProceso, IInv, TypeOK

LEMMA PasoLargo ==
  ASSUME IInv, LargoPlazo
  PROVE  IInv'
  BY PasoLargoPausa, PasoSacarNuevo, PasoCrearProceso, PasoAumentarGrado, PasoRechazar
     DEF LargoPlazo

-----------------------------------------------------------------------------
(* administrarFinProcesos                                                  *)

LEMMA FinIInv ==
  ASSUME IInv, UNCHANGED AjenoAlFin, fin' \in TipoFin, cola' \in TipoCola,
         sem' \in TipoSem, mutex' \in TipoMutex, adm' \in TipoAdm, grado' \in TipoGrado,
         fallo' \in Fallos, cola'.listos = cola.listos, sem'.listo = sem.listo,
         mutex'.listos = mutex.listos
  PROVE  IInv'
<1>1. TypeOK'
  BY DEF IInv, TypeOK, AjenoAlFin
<1>2. ConProceso'
  BY DEF IInv, ConProceso, AjenoAlFin
<1>3. DuenioDeListos' /\ TokensListos'
  BY ListosIguales DEF AjenoAlFin
<1> QED
  BY <1>1, <1>2, <1>3 DEF IInv

\* terminarProceso touches neither colaListos nor its semaphore.
LEMMA TerminarTipo ==
  ASSUME IInv, NEW p, Terminar(p)
  PROVE  /\ adm' \in TipoAdm /\ cola' \in TipoCola /\ grado' \in TipoGrado
         /\ sem' \in TipoSem /\ cola'.listos = cola.listos /\ sem'.listo = sem.listo
<1>1. cola \in TipoCola /\ Sumar(cola.terminados, p) \in Bolsas
  BY BolsaTipo DEF IInv, TypeOK, TipoCola
<1>2. cola' \in TipoCola /\ cola'.listos = cola.listos
  BY <1>1 DEF Terminar, TipoCola
<1>3. adm' \in TipoAdm
  BY DEF Terminar, IInv, TypeOK, TipoAdm
<1>4. grado' \in TipoGrado
  BY DEF Terminar, IInv, TypeOK, TipoGrado
<1>5. sem' \in TipoSem /\ sem'.listo = sem.listo
  BY PostearTipo DEF Terminar, IInv, TypeOK
<1> QED
  BY <1>2, <1>3, <1>4, <1>5

LEMMA PasoFinEspera ==
  ASSUME IInv, FinEspera
  PROVE  IInv'
<1>1. fin' \in TipoFin
  BY DEF FinEspera, IInv, TypeOK, TipoFin, PasosFin
<1>2. sem' \in TipoSem /\ sem'.listo = sem.listo
  BY WaitTipo DEF FinEspera, IInv, TypeOK
<1> QED
  BY <1>1, <1>2, FinIInv DEF FinEspera, IInv, TypeOK

LEMMA PasoFinMutex ==
  ASSUME IInv, FinTomaEspera \/ FinSueltaEspera
  PROVE  IInv'
<1>1. PICK i \in {"recorrer", "esperar"} : fin' = [fin EXCEPT !.paso = i, !.indice = 0]
  BY DEF FinTomaEspera, FinSueltaEspera
<1>2. fin' \in TipoFin
  BY <1>1 DEF IInv, TypeOK, TipoFin, PasosFin
<1>3. mutex' \in TipoMutex /\ mutex'.listos = mutex.listos
  BY DEF FinTomaEspera, FinSueltaEspera, IInv, TypeOK, TipoMutex
<1> QED
  BY <1>2, <1>3, FinIInv DEF FinTomaEspera, FinSueltaEspera, IInv, TypeOK

LEMMA PasoFinSaca ==
  ASSUME IInv, FinSaca
  PROVE  IInv'
<1>1. /\ cola \in TipoCola /\ cola.espera \in Seq(Pids) /\ fin \in TipoFin
      /\ fin.indice \in Nat /\ fin.indice + 1 \in 1..Len(cola.espera)
  BY DEF FinSaca, IInv, TypeOK, TipoCola, TipoFin
<1>2. RemoveAt(cola.espera, fin.indice + 1) \in Seq(Pids) /\ cola.espera[fin.indice + 1] \in Pids
  BY <1>1, QuitarLugar
<1>3. cola' = [cola EXCEPT !.espera = RemoveAt(cola.espera, fin.indice + 1)]
  BY DEF FinSaca
<1>4. cola' \in TipoCola /\ cola'.listos = cola.listos
  BY <1>1, <1>2, <1>3 DEF TipoCola
<1>5. fin' \in TipoFin
  <2> DEFINE q == cola.espera[fin.indice + 1]
  <2>1. fin' = [fin EXCEPT !.paso = "terminar", !.pid = q]
    BY DEF FinSaca
  <2>2. q \in Posibles
    BY <1>2 DEF Posibles
  <2> HIDE DEF q
  <2> QED
    BY <1>1, <2>1, <2>2 DEF TipoFin, PasosFin
<1> QED
  BY <1>4, <1>5, FinIInv DEF FinSaca, IInv, TypeOK

LEMMA PasoFinTermina ==
  ASSUME IInv, FinTermina
  PROVE  IInv'
<1>1. CASE ConTabla(fin.pid)
  <2>1. /\ Terminar(fin.pid) /\ fallo' = fallo
        /\ fin' = [paso |-> "recorrer", pid |-> Nadie, indice |-> fin.indice + 1]
    BY <1>1 DEF FinTermina
  <2>2. fin' \in TipoFin
    BY <2>1 DEF IInv, TypeOK, TipoFin, PasosFin, Posibles
  <2> QED
    BY <2>1, <2>2, TerminarTipo, FinIInv DEF FinTermina, IInv, TypeOK
<1>2. CASE ~ConTabla(fin.pid)
  <2>1. fallo' \in Fallos /\ UNCHANGED <<adm, cola, grado, sem, fin>>
    BY <1>2 DEF FinTermina, Falla, Fallos
  <2> QED
    BY <2>1, FinIInv DEF FinTermina, IInv, TypeOK
<1> QED
  BY <1>1, <1>2

LEMMA PasoFin ==
  ASSUME IInv, FinProcesos
  PROVE  IInv'
  BY PasoFinEspera, PasoFinMutex, PasoFinSaca, PasoFinTermina DEF FinProcesos

-----------------------------------------------------------------------------
(* finalizarProcesoVoluntariamente                                         *)

\* Two kills do not both wait for a token: the mutex has one holder.
LEMMA MataTipo ==
  ASSUME mata \in [HilosMata -> TipoMata], NEW h \in HilosMata, NEW r \in TipoMata,
         mata' = [mata EXCEPT ![h] = r]
  PROVE  /\ mata' \in [HilosMata -> TipoMata]
         /\ mata'[h] = r
         /\ \A g \in HilosMata \ {h} : mata'[g] = mata[g]
  OBVIOUS

\* A kill that moves on without touching colaListos.
LEMMA MataIInv ==
  ASSUME IInv, UNCHANGED AjenoAMata, NEW h \in HilosMata, NEW r \in TipoMata,
         mata' = [mata EXCEPT ![h] = r], mata[h].paso # "token", r.paso # "token",
         cola' \in TipoCola, sem' \in TipoSem, mutex' \in TipoMutex, adm' \in TipoAdm,
         semaforo' \in [Semaforos -> TipoSemaforo],
         grado' \in TipoGrado, fallo' \in Fallos, cola'.listos = cola.listos,
         sem'.listo = sem.listo, mutex'.listos = mutex.listos,
         principal' \in TipoPrincipal, pendientes' \in TipoPendientes, usuario' = usuario,
         principal' = principal \/ principal'.rutina \notin Rutinas
  PROVE  IInv'
<1>1. mata' \in [HilosMata -> TipoMata]
  BY MataTipo DEF IInv, TypeOK
<1>2. TypeOK'
  BY <1>1 DEF IInv, TypeOK, AjenoAMata
<1>3. ConProceso'
  BY DEF IInv, ConProceso, AjenoAMata
<1>4. DuenioDeListos'
  BY MataTipo DEF IInv, TypeOK, DuenioDeListos
<1>5. TokensListos'
  BY TokensIguales DEF IInv, AjenoAMata
<1> QED
  BY <1>2, <1>3, <1>4, <1>5 DEF IInv

\* IrMata sets the step and nothing else of the kill.
LEMMA IrMataTipo ==
  ASSUME IInv, NEW h \in HilosMata, NEW desde, NEW hasta \in PasosMata, IrMata(h, desde, hasta)
  PROVE  /\ mata[h].paso = desde
         /\ mata' = [mata EXCEPT ![h] = [mata[h] EXCEPT !.paso = hasta]]
         /\ [mata[h] EXCEPT !.paso = hasta] \in TipoMata
         /\ [mata[h] EXCEPT !.paso = hasta].paso = hasta
<1>1. mata[h] \in TipoMata /\ mata \in [HilosMata -> TipoMata]
  BY DEF IInv, TypeOK
<1>2. mata[h].paso = desde /\ mata' = [mata EXCEPT ![h].paso = hasta]
  BY DEF IrMata
<1>3. mata' = [mata EXCEPT ![h] = [mata[h] EXCEPT !.paso = hasta]]
  BY <1>2
<1>4. /\ [mata[h] EXCEPT !.paso = hasta] \in TipoMata
      /\ [mata[h] EXCEPT !.paso = hasta].paso = hasta
  BY <1>1 DEF TipoMata
<1> QED
  BY <1>2, <1>3, <1>4

\* Every step of a kill but the ones below: one IrMata.
LEMMA IrMataIInv ==
  ASSUME IInv, UNCHANGED <<sem, adm, grado, principal, usuario, pendientes, AjenoAMata>>,
         NEW h \in HilosMata, NEW desde, NEW hasta \in PasosMata \ {"token"},
         desde # "token", IrMata(h, desde, hasta), fallo' = fallo,
         cola' \in TipoCola, cola'.listos = cola.listos,
         mutex' \in TipoMutex, mutex'.listos = mutex.listos,
         semaforo' \in [Semaforos -> TipoSemaforo]
  PROVE  IInv'
<1> DEFINE r == [mata[h] EXCEPT !.paso = hasta]
<1>1. /\ mata[h].paso = desde /\ mata' = [mata EXCEPT ![h] = r]
      /\ r \in TipoMata /\ r.paso = hasta
  BY IrMataTipo
<1> HIDE DEF r
<1>2. /\ sem' \in TipoSem /\ adm' \in TipoAdm /\ grado' \in TipoGrado
      /\ fallo' \in Fallos /\ principal' \in TipoPrincipal /\ pendientes' \in TipoPendientes
  BY DEF IInv, TypeOK
<1>3. UNCHANGED AjenoAMata /\ sem' = sem /\ principal' = principal /\ usuario' = usuario
  OBVIOUS
<1> QED
  BY <1>1, <1>2, <1>3, MataIInv

LEMMA PasoPedirFin ==
  ASSUME IInv, NEW h \in HilosMata, NEW p \in Pids, PedirFin(h, p)
  PROVE  IInv'
<1> DEFINE r == [paso |-> "mutex", pid |-> p, cpu |-> "ninguna"]
<1>1. r \in TipoMata /\ r.paso # "token"
  BY DEF TipoMata, PasosMata, Posibles
<1>2. mata' = [mata EXCEPT ![h] = r] /\ mata[h].paso # "token"
  BY DEF PedirFin
<1>3. /\ principal' \in TipoPrincipal
      /\ principal' = principal \/ principal'.rutina \notin Rutinas
  <2>1. CASE principal' = principal
    BY <2>1 DEF IInv, TypeOK
  <2>2. CASE Atender("matar", "ninguna", p, "ninguno")
    BY <2>2 DEF Atender, TipoPrincipal, Posibles, Rutinas, Guion
  <2> QED
    BY <2>1, <2>2 DEF PedirFin, HilosMata
<1>4. pendientes' \in TipoPendientes
  BY DEF PedirFin, IInv, TypeOK, TipoPendientes
<1> HIDE DEF r
<1> QED
  BY <1>1, <1>2, <1>3, <1>4, MataIInv DEF PedirFin, IInv, TypeOK

LEMMA PasoMataToma ==
  ASSUME IInv, NEW h \in HilosMata, MataToma(h)
  PROVE  IInv'
<1>1. mutex' \in TipoMutex /\ mutex'.listos = mutex.listos
  BY MutexTipo DEF MataToma, IInv, TypeOK
<1> QED
  BY <1>1, IrMataIInv DEF MataToma, PasosMata, IInv, TypeOK

LEMMA PasoMataEspera ==
  ASSUME IInv, NEW h \in HilosMata, MataBuscaEspera(h)
  PROVE  IInv'
<1>1. PICK hasta \in {"terminar", "ejecucion"} : IrMata(h, "espera", hasta)
  BY DEF MataBuscaEspera
<1>2. cola \in TipoCola /\ cola.espera \in Seq(Pids)
  BY DEF IInv, TypeOK, TipoCola
<1>3. RemoveFirst(cola.espera, mata[h].pid) \in Seq(Pids)
  BY <1>2, QuitarPrimero
<1>4. \/ cola' = cola
      \/ cola' = [cola EXCEPT !.espera = RemoveFirst(cola.espera, mata[h].pid)]
  BY DEF MataBuscaEspera
<1>5. cola' \in TipoCola /\ cola'.listos = cola.listos
  BY <1>2, <1>3, <1>4 DEF TipoCola
<1> QED
  BY <1>1, <1>5, IrMataIInv DEF MataBuscaEspera, PasosMata, IInv, TypeOK

LEMMA PasoMataEjecucion ==
  ASSUME IInv, NEW h \in HilosMata, MataBuscaEjecucion(h)
  PROVE  IInv'
<1>1. PICK hasta \in {"cpu", "nuevos"} : IrMata(h, "ejecucion", hasta)
  BY DEF MataBuscaEjecucion
<1> QED
  BY <1>1, IrMataIInv DEF MataBuscaEjecucion, PasosMata, IInv, TypeOK

LEMMA PasoMataCPU ==
  ASSUME IInv, NEW h \in HilosMata, MataBuscaCPU(h)
  PROVE  IInv'
<1>1. mata[h] \in TipoMata /\ mata \in [HilosMata -> TipoMata] /\ mata[h].paso = "cpu"
  BY DEF MataBuscaCPU, IInv, TypeOK
<1>2. CASE mata' = mata
  <2>1. fallo' \in Fallos
    BY DEF MataBuscaCPU, Falla, Fallos, IInv, TypeOK
  <2>2. mata' = [mata EXCEPT ![h] = mata[h]]
    BY <1>1, <1>2
  <2> QED
    BY <1>1, <2>1, <2>2, MataIInv DEF MataBuscaCPU, IInv, TypeOK
<1>3. CASE mata' # mata
  <2>1. PICK c \in CPUs :
          mata' = [mata EXCEPT ![h].paso = "interrumpir", ![h].cpu = c] /\ fallo' = fallo
    BY <1>3 DEF MataBuscaCPU
  <2> DEFINE r == [mata[h] EXCEPT !.paso = "interrumpir", !.cpu = c]
  <2>2. mata' = [mata EXCEPT ![h] = r]
    BY <1>1, <2>1
  <2>3. r \in TipoMata /\ r.paso # "token"
    BY <1>1 DEF TipoMata, PasosMata
  <2> HIDE DEF r
  <2> QED
    BY <1>1, <2>1, <2>2, <2>3, MataIInv DEF MataBuscaCPU, IInv, TypeOK
<1> QED
  BY <1>2, <1>3

\* The end of a kill, whatever it leaves of colaListos.
LEMMA MataAcabaTipo ==
  ASSUME IInv, NEW h \in HilosMata, MataAcaba(h)
  PROVE  /\ mutex' \in TipoMutex /\ mutex'.listos = mutex.listos
         /\ principal' \in TipoPrincipal
         /\ principal' = principal \/ principal'.rutina \notin Rutinas
         /\ \E r \in TipoMata : r.paso # "token" /\ mata' = [mata EXCEPT ![h] = r]
<1>1. mutex' \in TipoMutex /\ mutex'.listos = mutex.listos
  BY MutexTipo DEF MataAcaba, IInv, TypeOK
<1>2. /\ principal' \in TipoPrincipal
      /\ principal' = principal \/ principal'.rutina \notin Rutinas
  BY DEF MataAcaba, IInv, TypeOK, SinRutina, TipoPrincipal, Posibles, Rutinas, Guion
<1>3. [paso |-> "nada", pid |-> Nadie, cpu |-> "ninguna"] \in TipoMata
  BY DEF TipoMata, PasosMata, Posibles
<1> QED
  BY <1>1, <1>2, <1>3 DEF MataAcaba

LEMMA PasoMataInterrumpe ==
  ASSUME IInv, NEW h \in HilosMata, MataInterrumpe(h)
  PROVE  IInv'
<1> DEFINE c == mata[h].cpu
<1>1. mata[h] \in TipoMata /\ mata \in [HilosMata -> TipoMata] /\ mata[h].paso = "interrumpir"
  BY DEF MataInterrumpe, IInv, TypeOK
<1>2. CASE cpu[c].alta
  <2>1. adm' = [adm EXCEPT !.interrumpidos = Sumar(adm.interrumpidos, cpu[c].pid)]
        /\ MataAcaba(h) /\ fallo' = fallo
    BY <1>2 DEF MataInterrumpe
  <2>2. adm \in TipoAdm /\ Sumar(adm.interrumpidos, cpu[c].pid) \in Bolsas
    BY BolsaTipo DEF IInv, TypeOK, TipoAdm
  <2>3. adm' \in TipoAdm
    BY <2>1, <2>2 DEF TipoAdm
  <2>4. PICK r \in TipoMata : r.paso # "token" /\ mata' = [mata EXCEPT ![h] = r]
    BY <2>1, MataAcabaTipo
  <2> QED
    BY <1>1, <2>1, <2>3, <2>4, MataAcabaTipo, MataIInv DEF MataInterrumpe, IInv, TypeOK
<1>3. CASE ~cpu[c].alta
  <2>1. fallo' \in Fallos /\ UNCHANGED <<adm, mata, mutex, principal>>
    BY <1>3 DEF MataInterrumpe, Falla, Fallos
  <2>2. mata' = [mata EXCEPT ![h] = mata[h]]
    BY <1>1, <2>1
  <2> QED
    BY <1>1, <2>1, <2>2, MataIInv DEF MataInterrumpe, IInv, TypeOK
<1> QED
  BY <1>2, <1>3

LEMMA PasoMataNuevos ==
  ASSUME IInv, NEW h \in HilosMata, MataBuscaNuevos(h)
  PROVE  IInv'
<1>1. PICK hasta \in {"terminar", "listos"} : IrMata(h, "nuevos", hasta)
  BY DEF MataBuscaNuevos
<1>2. cola \in TipoCola /\ cola.nuevos \in Seq(Pids)
  BY DEF IInv, TypeOK, TipoCola
<1>3. RemoveFirst(cola.nuevos, mata[h].pid) \in Seq(Pids)
  BY <1>2, QuitarPrimero
<1>4. \/ cola' = cola
      \/ cola' = [cola EXCEPT !.nuevos = RemoveFirst(cola.nuevos, mata[h].pid)]
  BY DEF MataBuscaNuevos
<1>5. cola' \in TipoCola /\ cola'.listos = cola.listos
  BY <1>2, <1>3, <1>4 DEF TipoCola
<1> QED
  BY <1>1, <1>5, IrMataIInv DEF MataBuscaNuevos, PasosMata, IInv, TypeOK

\* The process leaves colaListos and the kill keeps the mutex: the sum stands.
LEMMA PasoMataListos ==
  ASSUME IInv, NEW h \in HilosMata, MataBuscaListos(h)
  PROVE  IInv'
<1>1. /\ mata[h] \in TipoMata /\ mata \in [HilosMata -> TipoMata] /\ mata[h].paso = "listos"
      /\ mutex \in TipoMutex /\ mutex.listos = "libre"
      /\ cola \in TipoCola /\ cola.listos \in Seq(Posibles)
  BY DEF MataBuscaListos, IInv, TypeOK, TipoCola
<1>2. CASE NuloAntes(cola.listos, mata[h].pid)
  <2>1. UNCHANGED <<cola, mutex, mata>> /\ fallo' \in Fallos
    BY <1>2 DEF MataBuscaListos, Falla, Fallos
  <2>2. mata' = [mata EXCEPT ![h] = mata[h]]
    BY <1>1, <2>1
  <2> QED
    BY <1>1, <2>1, <2>2, MataIInv DEF MataBuscaListos, IInv, TypeOK
<1>3. CASE /\ ~NuloAntes(cola.listos, mata[h].pid)
           /\ ~Contains(cola.listos, mata[h].pid)
  <2>1. IrMata(h, "listos", "bloqueados") /\ UNCHANGED <<cola, mutex, fallo>>
    BY <1>3 DEF MataBuscaListos, DejarListos
  <2> QED
    BY <1>1, <2>1, IrMataIInv DEF MataBuscaListos, PasosMata, IInv, TypeOK
<1>4. CASE /\ ~NuloAntes(cola.listos, mata[h].pid)
           /\ Contains(cola.listos, mata[h].pid)
  <2> DEFINE r == [mata[h] EXCEPT !.paso = "token"]
             q == RemoveFirst(cola.listos, mata[h].pid)
  <2>1. /\ IrMata(h, "listos", "token") /\ fallo' = fallo
        /\ cola' = [cola EXCEPT !.listos = q]
        /\ mutex' = [mutex EXCEPT !.listos = h]
    BY <1>4 DEF MataBuscaListos, DejarListos
  <2>2. mata' = [mata EXCEPT ![h] = r] /\ r \in TipoMata /\ r.paso = "token"
    BY <2>1, IrMataTipo DEF PasosMata
  <2>3. q \in Seq(Posibles) /\ Len(q) = Len(cola.listos) - 1
    BY <1>1, <1>4, QuitarPrimero
  <2> HIDE DEF r, q
  <2>4. cola' \in TipoCola /\ Len(cola'.listos) = Len(cola.listos) - 1
    BY <1>1, <2>1, <2>3 DEF TipoCola
  <2>5. mutex' \in TipoMutex /\ mutex'.listos = h
    BY <1>1, <2>1 DEF TipoMutex
  <2>6. /\ mata' \in [HilosMata -> TipoMata] /\ mata'[h].paso = "token"
        /\ \A g \in HilosMata \ {h} : mata'[g] = mata[g]
    BY <1>1, <2>2
  <2>7. TypeOK'
    BY <2>1, <2>4, <2>5, <2>6 DEF IInv, TypeOK, MataBuscaListos, AjenoAMata
  <2>8. ConProceso'
    BY DEF IInv, ConProceso, MataBuscaListos, AjenoAMata
  <2>9. DuenioDeListos'
    <3>1. \A g \in HilosMata : mata[g].paso # "token"
      BY <1>1 DEF IInv, DuenioDeListos, HilosMata
    <3> QED
      BY <2>5, <2>6, <3>1 DEF DuenioDeListos
  <2>10. TokensListos'
    <3>1. sem' = sem /\ corto' = corto /\ largo' = largo
      BY DEF MataBuscaListos, AjenoAMata
    <3>2. /\ Booleano(corto.paso = "sacar")' = Booleano(corto.paso = "sacar")
          /\ Booleano(largo.paso = "aumentarGrado")' = Booleano(largo.paso = "aumentarGrado")
          /\ Booleano(mutex.listos # "libre")' = 1 /\ Booleano(mutex.listos # "libre") = 0
      BY <1>1, <2>5, <3>1 DEF Booleano, HilosMata
    <3>3. sem.listo \in Nat /\ Len(cola.listos) \in Nat
      BY <1>1 DEF IInv, TypeOK, TipoSem
    <3> QED
      BY <2>4, <3>1, <3>2, <3>3, BooleanoNat DEF IInv, TokensListos
  <2> QED
    BY <2>7, <2>8, <2>9, <2>10 DEF IInv
<1> QED
  BY <1>2, <1>3, <1>4

\* The token comes and the mutex is free: the sum stands again.
LEMMA PasoMataToken ==
  ASSUME IInv, NEW h \in HilosMata, MataEsperaToken(h)
  PROVE  IInv'
<1> DEFINE r == [mata[h] EXCEPT !.paso = "terminar"]
<1>1. /\ mata[h].paso = "token" /\ mata' = [mata EXCEPT ![h] = r]
      /\ r \in TipoMata /\ r.paso = "terminar"
  <2>1. IrMata(h, "token", "terminar") /\ "terminar" \in PasosMata
    BY DEF MataEsperaToken, PasosMata
  <2> QED
    BY <2>1, IrMataTipo
<1> HIDE DEF r
<1>2. /\ mata \in [HilosMata -> TipoMata] /\ mutex \in TipoMutex /\ mutex.listos = h
      /\ \A g \in HilosMata \ {h} : mata[g].paso # "token"
  BY <1>1 DEF IInv, TypeOK, DuenioDeListos
<1>3. sem' \in TipoSem /\ sem'.listo = sem.listo - 1
  BY WaitTipo DEF MataEsperaToken, IInv, TypeOK
<1>4. mutex' \in TipoMutex /\ mutex'.listos = "libre"
  BY <1>2 DEF MataEsperaToken, TipoMutex
<1>5. /\ mata' \in [HilosMata -> TipoMata] /\ mata'[h].paso = "terminar"
      /\ \A g \in HilosMata \ {h} : mata'[g] = mata[g]
  BY <1>1, <1>2
<1>6. TypeOK'
  BY <1>3, <1>4, <1>5 DEF IInv, TypeOK, MataEsperaToken, AjenoAMata
<1>7. ConProceso'
  BY DEF IInv, ConProceso, MataEsperaToken, AjenoAMata
<1>8. DuenioDeListos'
  BY <1>2, <1>4, <1>5 DEF DuenioDeListos, HilosMata
<1>9. TokensListos'
  <2>1. cola' = cola /\ corto' = corto /\ largo' = largo
    BY DEF MataEsperaToken, AjenoAMata
  <2>2. /\ Booleano(corto.paso = "sacar")' = Booleano(corto.paso = "sacar")
        /\ Booleano(largo.paso = "aumentarGrado")' = Booleano(largo.paso = "aumentarGrado")
        /\ Booleano(mutex.listos # "libre")' = 0 /\ Booleano(mutex.listos # "libre") = 1
    BY <1>2, <1>4, <2>1 DEF Booleano, HilosMata
  <2>3. sem.listo \in Nat /\ Len(cola.listos) \in Nat
    BY DEF IInv, TypeOK, TipoSem, TipoCola
  <2> QED
    BY <1>3, <2>1, <2>2, <2>3, BooleanoNat DEF IInv, TokensListos
<1> QED
  BY <1>6, <1>7, <1>8, <1>9 DEF IInv

LEMMA PasoMataBloqueados ==
  ASSUME IInv, NEW h \in HilosMata, MataBuscaBloqueados(h)
  PROVE  IInv'
<1> DEFINE p == mata[h].pid
<1>1. /\ mata[h] \in TipoMata /\ mata \in [HilosMata -> TipoMata]
      /\ mata[h].paso = "bloqueados"
  BY DEF MataBuscaBloqueados, IInv, TypeOK
<1>2. CASE cola.bloqueados[p] > 0
  <2>1. /\ mata' = [mata EXCEPT ![h].paso = "terminar"]
        /\ cola' = [cola EXCEPT !.bloqueados = Restar(cola.bloqueados, p)]
        /\ semaforo' = [s \in Semaforos |->
             IF EnColaSemaforos(s)
             THEN [semaforo[s] EXCEPT !.pids = RemoveFirst(@, p)] ELSE semaforo[s]]
        /\ fallo' = fallo
    BY <1>2 DEF MataBuscaBloqueados
  <2>2. IrMata(h, "bloqueados", "terminar")
    BY <1>1, <2>1 DEF IrMata
  <2>3. cola \in TipoCola /\ Restar(cola.bloqueados, p) \in Bolsas
    BY BolsaTipo DEF IInv, TypeOK, TipoCola
  <2>4. cola' \in TipoCola /\ cola'.listos = cola.listos
    BY <2>1, <2>3 DEF TipoCola
  <2>5. ASSUME NEW s \in Semaforos
        PROVE  semaforo[s] \in TipoSemaforo
               /\ [semaforo[s] EXCEPT !.pids = RemoveFirst(@, p)] \in TipoSemaforo
    <3>1. semaforo[s] \in TipoSemaforo /\ semaforo[s].pids \in Seq(Pids)
      BY DEF IInv, TypeOK, TipoSemaforo
    <3>2. RemoveFirst(semaforo[s].pids, p) \in Seq(Pids)
      BY <3>1, QuitarPrimero
    <3> QED
      BY <3>1, <3>2 DEF TipoSemaforo
  <2>6. semaforo' \in [Semaforos -> TipoSemaforo]
    BY <2>1, <2>5
  <2> QED
    BY <2>1, <2>2, <2>4, <2>6, IrMataIInv DEF MataBuscaBloqueados, PasosMata, IInv, TypeOK
<1>3. CASE ~(cola.bloqueados[p] > 0)
  <2>1. fallo' \in Fallos /\ UNCHANGED <<mata, cola, semaforo>>
    BY <1>3 DEF MataBuscaBloqueados, Falla, Fallos
  <2>2. mata' = [mata EXCEPT ![h] = mata[h]]
    BY <1>1, <2>1
  <2> QED
    BY <1>1, <2>1, <2>2, MataIInv DEF MataBuscaBloqueados, IInv, TypeOK
<1> QED
  BY <1>2, <1>3

LEMMA PasoMataTermina ==
  ASSUME IInv, NEW h \in HilosMata, MataTermina(h)
  PROVE  IInv'
<1>1. /\ mata[h] \in TipoMata /\ mata \in [HilosMata -> TipoMata]
      /\ mata[h].paso = "terminar"
  BY DEF MataTermina, IInv, TypeOK
<1>2. CASE ConTabla(mata[h].pid)
  <2>1. Terminar(mata[h].pid) /\ MataAcaba(h) /\ fallo' = fallo
    BY <1>2 DEF MataTermina
  <2>2. PICK r \in TipoMata : r.paso # "token" /\ mata' = [mata EXCEPT ![h] = r]
    BY <2>1, MataAcabaTipo
  <2> QED
    BY <1>1, <2>1, <2>2, MataAcabaTipo, TerminarTipo, MataIInv DEF MataTermina, IInv, TypeOK
<1>3. CASE ~ConTabla(mata[h].pid)
  <2>1. fallo' \in Fallos /\ UNCHANGED <<adm, cola, grado, sem, mata, mutex, principal>>
    BY <1>3 DEF MataTermina, Falla, Fallos
  <2>2. mata' = [mata EXCEPT ![h] = mata[h]]
    BY <1>1, <2>1
  <2> QED
    BY <1>1, <2>1, <2>2, MataIInv DEF MataTermina, IInv, TypeOK
<1> QED
  BY <1>2, <1>3

LEMMA PasoMata ==
  ASSUME IInv, NEW h \in HilosMata, Matar(h)
  PROVE  IInv'
  BY PasoMataToma, PasoMataEspera, PasoMataEjecucion, PasoMataCPU, PasoMataInterrumpe,
     PasoMataNuevos, PasoMataListos, PasoMataToken, PasoMataBloqueados, PasoMataTermina
     DEF Matar

-----------------------------------------------------------------------------
(* The user                                                                *)

LEMMA PasoUsuario ==
  ASSUME IInv, Usuario
  PROVE  IInv'
<1>1. UNCHANGED AjenoAlUsuario
  BY DEF Usuario, Pausar, PausarEspera, Reanudar, PostPlanificacion, PedirGrado, ModificarGrado
<1>9. mutex' \in TipoMutex /\ mutex'.listos = mutex.listos
  <2>1. \/ mutex' = mutex
        \/ \E d \in {"grado", "libre"} : mutex' = [mutex EXCEPT !.nuevo = d]
    BY DEF Usuario, Pausar, PausarEspera, Reanudar, PostPlanificacion, PedirGrado,
       ModificarGrado
  <2> QED
    BY <2>1, MutexTipo DEF IInv, TypeOK
<1>2. sem' \in TipoSem /\ sem'.listo = sem.listo
  <2>1. CASE Pausar
    BY <2>1 DEF Pausar, IInv, TypeOK
  <2>2. CASE PausarEspera
    BY <2>2, WaitTipo DEF PausarEspera, IInv, TypeOK
  <2>3. CASE Reanudar
    BY <2>3 DEF Reanudar, IInv, TypeOK, TipoSem
  <2>4. CASE PostPlanificacion
    BY <2>4, PostearTipo DEF PostPlanificacion, IInv, TypeOK
  <2>5. ASSUME NEW n \in GradosNuevos, ModificarGrado(n)
        PROVE  sem' \in TipoSem /\ sem'.listo = sem.listo
    BY <2>5 DEF ModificarGrado, IInv, TypeOK, TipoSem
  <2>6. CASE PedirGrado
    BY <2>6 DEF PedirGrado, IInv, TypeOK
  <2> QED
    BY <2>1, <2>2, <2>3, <2>4, <2>5, <2>6 DEF Usuario
<1>3. grado' \in TipoGrado
  BY ConstantesOK DEF ConstantesOK, Usuario, Pausar, PausarEspera, Reanudar,
     PostPlanificacion, PedirGrado, ModificarGrado, IInv, TypeOK, TipoGrado
<1>4. usuario' \in {"libre", "pausando", "tecleando"} /\ flagPlanificacion' \in BOOLEAN
  BY DEF Usuario, Pausar, PausarEspera, Reanudar, PostPlanificacion, PedirGrado, ModificarGrado,
     UsuarioLibre, IInv, TypeOK
<1>5. pendientes' \in TipoPendientes
  BY DEF Usuario, Pausar, PausarEspera, Reanudar, PostPlanificacion, PedirGrado, ModificarGrado,
     IInv, TypeOK, TipoPendientes
<1>6. TypeOK'
  BY <1>1, <1>2, <1>3, <1>4, <1>5, <1>9 DEF IInv, TypeOK, AjenoAlUsuario
<1>7. ConProceso'
  BY <1>1 DEF IInv, ConProceso, AjenoAlUsuario
<1>8. DuenioDeListos' /\ TokensListos'
  BY <1>1, <1>2, <1>9, ListosIguales DEF AjenoAlUsuario
<1> QED
  BY <1>6, <1>7, <1>8 DEF IInv

-----------------------------------------------------------------------------
(* Every step                                                              *)

LEMMA PasoMensaje ==
  ASSUME IInv, NEW c \in CPUs, MensajeCPU(c)
  PROVE  IInv'
  BY PasoNuevaCPU, PasoFinProceso, PasoFinQuantum, PasoExpropiado, PasoExcepcion, PasoWait,
     PasoSignal, PasoVerificar, PasoCierre DEF MensajeCPU

LEMMA SinPaso ==
  ASSUME IInv, UNCHANGED vars
  PROVE  IInv'
<1>1. TypeOK'
  BY DEF IInv, TypeOK, vars
<1>2. ConProceso'
  BY DEF IInv, ConProceso, vars
<1>3. DuenioDeListos' /\ TokensListos'
  BY ListosIguales DEF vars
<1> QED
  BY <1>1, <1>2, <1>3 DEF IInv

LEMMA Inductivo == IInv /\ [Next]_vars => IInv'
<1> SUFFICES ASSUME IInv, [Next]_vars PROVE IInv'
  OBVIOUS
<1>1. CASE Vivir
  BY <1>1, PasoMensaje, PasoCierre, PasoNuevoPrograma, PasoOperacion, PasoCorto, PasoLargo,
     PasoFin, PasoUsuario, PasoMata, PasoPedirFin DEF Vivir
<1>2. CASE UNCHANGED vars
  BY <1>2, SinPaso
<1> QED
  BY <1>1, <1>2 DEF Next, Reposo, Caido

-----------------------------------------------------------------------------
(* The theorems                                                            *)

\* In every reachable state, for any number of programs, CPUs and semaphores
\* and any kills, pauses, changes of the degree and closing CPUs, the inductive
\* invariant holds.
THEOREM Invariante == Spec => []IInv
<1>1. Init => IInv
  BY Inicio
<1>2. IInv /\ [Next]_vars => IInv'
  BY Inductivo
<1> QED
  BY <1>1, <1>2, PTL DEF Spec

\* Every structure of the scheduler keeps its type: only colaListos is ever
\* given the NULL of a process that was not found.
THEOREM Tipos == Spec => []TypeOK
<1>1. IInv => TypeOK
  BY DEF IInv
<1> QED
  BY <1>1, Invariante, PTL

\* sem_procesoListo counts colaListos in every interleaving of the dispatcher,
\* the admitter, the main thread and the kills (planificacion.h, Kernel.c).
THEOREM TokensDeListos == Spec => []TokensListos
<1>1. IInv => TokensListos
  BY DEF IInv
<1> QED
  BY <1>1, Invariante, PTL

\* The dispatcher that got through sem_wait(&sem_procesoListo) finds a process
\* in colaListos: list_remove(colaListos, 0) never gives it NULL for an empty list.
THEOREM NuncaSinListos == Spec => []ListosParaElToken
<1>1. Init => ListosParaElToken
  BY DEF Init, ListosParaElToken
<1>2. IInv /\ ListosParaElToken /\ [Next]_vars => ListosParaElToken'
  <2> SUFFICES ASSUME IInv, ListosParaElToken, [Next]_vars PROVE ListosParaElToken'
    OBVIOUS
  <2>1. CASE UNCHANGED vars
    BY <2>1 DEF vars, ListosParaElToken
  <2>2. ASSUME NEW c \in CPUs, MensajeCPU(c) \/ SignalCPU(c) PROVE fallo' = fallo
    BY <2>2 DEF MensajeCPU, SignalCPU, GestionarNuevaCPU, FinProceso, FinQuantum,
       ProcesoExpropiado, Excepcion, WaitSemaforo, SignalSemaforo, VerificarInterrupciones,
       GestionarCierreCpu, DejarYRemover, DejarCPU
  <2>3. CASE GestionarNuevoPrograma \/ OperacionPrincipal \/ Usuario
    BY <2>3 DEF ListosParaElToken, GestionarNuevoPrograma, OperacionPrincipal, EncolarCodigo,
       CambiarEstadoCpu, RemoverDeColaEjecucion, EncolarEspera, EncolarListo,
       EncolarBloqueado, EncolarProcesoBloqueadoASemaforo, DesbloquearProceso,
       DevolverSemaforo, QuitarInterrupcion, AjenoAlPrincipal, Usuario, Pausar,
       PausarEspera, Reanudar, PostPlanificacion, PedirGrado, ModificarGrado, AjenoAlUsuario
  <2>4. CASE SacarListo
    BY <2>4, HayListo DEF SacarListo, ListosParaElToken
  <2>5. CASE EnviarPcb
    BY <2>5 DEF EnviarPcb, Falla, ListosParaElToken
  <2>6. CASE CortoPlazo /\ ~SacarListo /\ ~EnviarPcb
    BY <2>6 DEF CortoPlazo, CortoVerificaPausa, CortoEsperaReanudar, CortoEsperaCPU,
       CortoEsperaListo, MirarOciosas, RegistrarEjecucion, DevolverAListos, ListosParaElToken
  <2>7. CASE LargoPlazo
    BY <2>7 DEF LargoPlazo, LargoVerificaPausa, LargoEsperaReanudar, LargoEsperaAdmitir,
       SacarNuevo, CrearProceso, AumentarGrado, RechazarProceso, Falla, ListosParaElToken
  <2>8. CASE FinProcesos
    BY <2>8 DEF FinProcesos, FinEspera, FinTomaEspera, FinSaca, FinTermina, FinSueltaEspera,
       Falla, ListosParaElToken
  <2>9. ASSUME NEW h \in HilosMata, Matar(h) \/ \E p \in Pids : PedirFin(h, p)
        PROVE  ListosParaElToken'
    BY <2>9 DEF Matar, PedirFin, MataToma, MataBuscaEspera, MataBuscaEjecucion, MataBuscaCPU,
       MataInterrumpe, MataBuscaNuevos, MataBuscaListos, MataEsperaToken,
       MataBuscaBloqueados, MataTermina, Falla, ListosParaElToken
  <2> QED
    BY <2>1, <2>2, <2>3, <2>4, <2>5, <2>6, <2>7, <2>8, <2>9
       DEF Next, Vivir, Reposo, Caido, ListosParaElToken
<1> QED
  BY <1>1, <1>2, Invariante, PTL DEF Spec

-----------------------------------------------------------------------------
(* Where every process is: no interleaving loses a PCB or has it twice, and *)
(* what follows from it for the degree, colaEjecucion and the semaphores.   *)


-----------------------------------------------------------------------------
(* Counting                                                                *)

Uno(e, p) == IF e = p THEN 1 ELSE 0
Dentro(x, A) == IF x \in A THEN 1 ELSE 0

\* Two sets that differ at most in x differ in their size by x.
LEMMA SalvoUno ==
  ASSUME NEW A, NEW B, NEW x, IsFiniteSet(A), IsFiniteSet(B), A \ {x} = B \ {x}
  PROVE  /\ Cardinality(A) \in Nat /\ Cardinality(B) \in Nat
         /\ Cardinality(A) = Cardinality(B) - Dentro(x, B) + Dentro(x, A)
<1>1. Cardinality(A \ {x}) = IF x \in A THEN Cardinality(A) - 1 ELSE Cardinality(A)
  BY FS_RemoveElement
<1>2. Cardinality(B \ {x}) = IF x \in B THEN Cardinality(B) - 1 ELSE Cardinality(B)
  BY FS_RemoveElement
<1>3. Cardinality(A) \in Nat /\ Cardinality(B) \in Nat
  BY FS_CardinalityType
<1> QED
  BY <1>1, <1>2, <1>3 DEF Dentro

Lugares(s, p) == {i \in DOMAIN s : s[i] = p}

LEMMA VecesNat ==
  ASSUME NEW S, NEW s \in Seq(S), NEW p
  PROVE  /\ IsFiniteSet(Lugares(s, p)) /\ Veces(s, p) = Cardinality(Lugares(s, p))
         /\ Veces(s, p) \in Nat
         /\ Contains(s, p) <=> Veces(s, p) > 0
<1>1. DOMAIN s = 1..Len(s) /\ Len(s) \in Nat
  OBVIOUS
<1>2. IsFiniteSet(1..Len(s))
  BY <1>1, FS_Interval
<1>3. IsFiniteSet(Lugares(s, p))
  BY <1>1, <1>2, FS_Subset DEF Lugares
<1>4. Veces(s, p) = Cardinality(Lugares(s, p))
  BY DEF Veces, Lugares
<1>5. Contains(s, p) <=> Lugares(s, p) # {}
  BY <1>1 DEF Contains, Lugares
<1>6. Cardinality(Lugares(s, p)) \in Nat
  BY <1>3, FS_CardinalityType
<1>7. Cardinality(Lugares(s, p)) = 0 <=> Lugares(s, p) = {}
  BY <1>3, FS_EmptySet
<1> QED
  BY <1>3, <1>4, <1>5, <1>6, <1>7

LEMMA VecesVacia ==
  ASSUME NEW p
  PROVE  Veces(<<>>, p) = 0
<1>1. {i \in DOMAIN <<>> : <<>>[i] = p} = {}
  OBVIOUS
<1> QED
  BY <1>1, FS_EmptySet DEF Veces

\* list_add
LEMMA VecesAgregar ==
  ASSUME NEW S, NEW s \in Seq(S), NEW e \in S, NEW p
  PROVE  Veces(Append(s, e), p) = Veces(s, p) + Uno(e, p)
<1> DEFINE t == Append(s, e)
           n == Len(s) + 1
<1>1. t \in Seq(S) /\ n \in Nat /\ DOMAIN t = 1..n /\ DOMAIN s = 1..Len(s) /\ t[n] = e
      /\ \A i \in 1..Len(s) : t[i] = s[i]
  OBVIOUS
<1>2. n \notin Lugares(s, p) /\ (n \in Lugares(t, p) <=> e = p)
  BY <1>1 DEF Lugares
<1>3. Lugares(t, p) \ {n} = Lugares(s, p) \ {n}
  BY <1>1 DEF Lugares
<1>4. /\ IsFiniteSet(Lugares(s, p)) /\ Veces(s, p) = Cardinality(Lugares(s, p))
      /\ IsFiniteSet(Lugares(t, p)) /\ Veces(t, p) = Cardinality(Lugares(t, p))
  BY <1>1, VecesNat
<1>5. /\ Cardinality(Lugares(t, p)) = Cardinality(Lugares(s, p))
           - Dentro(n, Lugares(s, p)) + Dentro(n, Lugares(t, p))
      /\ Cardinality(Lugares(s, p)) \in Nat
  BY <1>3, <1>4, SalvoUno
<1>6. Dentro(n, Lugares(s, p)) = 0
      /\ Dentro(n, Lugares(t, p)) = Uno(e, p)
  BY <1>2 DEF Dentro, Uno
<1>7. Uno(e, p) \in {0, 1}
  BY DEF Uno
<1> QED
  BY <1>4, <1>5, <1>6, <1>7

\* Behind the place that is taken out the rest moves up.
LEMMA TrasQuitar ==
  ASSUME NEW S, NEW s \in Seq(S), NEW i \in 1..Len(s), NEW j \in 1..(Len(s) - 1)
  PROVE  RemoveAt(s, i)[j] = s[IF j < i THEN j ELSE j + 1]
<1> DEFINE antes == SubSeq(s, 1, i-1)
           despues == SubSeq(s, i+1, Len(s))
<1>1. Len(s) \in Nat /\ \A k \in 1..Len(s) : s[k] \in S
  OBVIOUS
<1>2. antes \in Seq(S) /\ Len(antes) = i - 1 /\ \A k \in 1..(i - 1) : antes[k] = s[k]
  OBVIOUS
<1>3. /\ despues \in Seq(S) /\ Len(despues) = Len(s) - i
      /\ \A k \in 1..(Len(s) - i) : despues[k] = s[k + i]
  <2>1. \A k \in (i + 1)..Len(s) : s[k] \in S
    BY <1>1
  <2>2. i + 1 \in Int /\ Len(s) \in Int
    BY <1>1
  <2>3. /\ despues \in Seq(S)
        /\ Len(despues) = IF i + 1 <= Len(s) THEN Len(s) - (i + 1) + 1 ELSE 0
        /\ \A k \in 1..(Len(s) - (i + 1) + 1) : despues[k] = s[(i + 1) + k - 1]
    BY <2>1, <2>2, SubSeqProperties
  <2> HIDE DEF despues
  <2> QED
    BY <2>3, <1>1
<1>4. RemoveAt(s, i) = antes \o despues
  BY DEF RemoveAt
<1> HIDE DEF antes, despues
<1>5. \A k \in 1..Len(antes) + Len(despues) :
        (antes \o despues)[k] = IF k <= Len(antes) THEN antes[k] ELSE despues[k - Len(antes)]
  BY <1>2, <1>3, ConcatProperties
<1>6. CASE j < i
  BY <1>1, <1>2, <1>3, <1>4, <1>5, <1>6
<1>7. CASE ~(j < i)
  <2>1. j - (i - 1) \in 1..(Len(s) - i) /\ ~(j <= i - 1)
    BY <1>1, <1>7
  <2>2. (antes \o despues)[j] = despues[j - (i - 1)]
    BY <1>1, <1>2, <1>3, <1>5, <2>1
  <2>3. despues[j - (i - 1)] = s[(j - (i - 1)) + i]
    BY <2>1, <1>3
  <2>4. (j - (i - 1)) + i = j + 1
    BY <1>1
  <2> QED
    BY <1>4, <1>7, <2>2, <2>3, <2>4
<1> QED
  BY <1>6, <1>7

\* list_remove
LEMMA VecesQuitar ==
  ASSUME NEW S, NEW s \in Seq(S), NEW i \in 1..Len(s), NEW p
  PROVE  Veces(RemoveAt(s, i), p) = Veces(s, p) - Uno(s[i], p)
<1> DEFINE t == RemoveAt(s, i)
           A == Lugares(t, p)
           B == Lugares(s, p) \ {i}
           f == [j \in A |-> IF j < i THEN j ELSE j + 1]
<1>1. /\ t \in Seq(S) /\ Len(t) = Len(s) - 1 /\ DOMAIN t = 1..(Len(s) - 1)
      /\ DOMAIN s = 1..Len(s) /\ Len(s) \in Nat
  BY QuitarLugar
<1>2. \A j \in 1..(Len(s) - 1) : t[j] = s[IF j < i THEN j ELSE j + 1]
  BY TrasQuitar
<1> HIDE DEF t
<1>3. f \in [A -> B]
  BY <1>1, <1>2 DEF Lugares
<1>4. \A j, k \in A : f[j] = f[k] => j = k
  BY <1>1 DEF Lugares
<1>5. \A k \in B : \E j \in A : f[j] = k
  <2> SUFFICES ASSUME NEW k \in B PROVE \E j \in A : f[j] = k
    OBVIOUS
  <2>1. k \in 1..Len(s) /\ k # i /\ s[k] = p
    BY <1>1 DEF Lugares
  <2>2. CASE k < i
    <3>1. k \in 1..(Len(s) - 1) /\ t[k] = s[k]
      BY <2>1, <2>2, <1>1, <1>2
    <3>2. k \in A /\ f[k] = k
      BY <3>1, <2>1, <2>2, <1>1 DEF Lugares
    <3> QED
      BY <3>2
  <2>3. CASE k > i
    <3>1. k - 1 \in 1..(Len(s) - 1) /\ ~(k - 1 < i) /\ (k - 1) + 1 = k
      BY <2>1, <2>3, <1>1
    <3>2. t[k - 1] = s[k]
      BY <3>1, <1>2
    <3>3. k - 1 \in A /\ f[k - 1] = k
      BY <3>1, <3>2, <2>1, <1>1 DEF Lugares
    <3> QED
      BY <3>3
  <2> QED
    BY <2>1, <2>2, <2>3, <1>1
<1>6. /\ IsFiniteSet(Lugares(s, p)) /\ Veces(s, p) = Cardinality(Lugares(s, p))
      /\ IsFiniteSet(A) /\ Veces(t, p) = Cardinality(A)
  BY <1>1, VecesNat
<1>7. f \in Bijection(A, B)
  <2> HIDE DEF f, A, B
  <2> QED
    BY <1>3, <1>4, <1>5 DEF Bijection, Injection, Surjection, IsInjective
<1>8. Cardinality(B) = Cardinality(A)
  <2> HIDE DEF f, A, B
  <2> QED
    BY <1>6, <1>7, FS_Bijection DEF ExistsBijection
<1>9. Cardinality(B) = IF i \in Lugares(s, p) THEN Veces(s, p) - 1 ELSE Veces(s, p)
  BY <1>6, FS_RemoveElement
<1>10. i \in Lugares(s, p) <=> s[i] = p
  BY <1>1 DEF Lugares
<1>11. Veces(s, p) \in Nat
  BY VecesNat
<1> QED
  BY <1>6, <1>8, <1>9, <1>10, <1>11 DEF t, Uno

\* The dispatcher and the admitter take the first of the list.
LEMMA VecesCola ==
  ASSUME NEW S, NEW s \in Seq(S), s # <<>>, NEW p
  PROVE  /\ Head(s) \in S /\ Tail(s) \in Seq(S)
         /\ Veces(Tail(s), p) = Veces(s, p) - Uno(Head(s), p)
<1>1. Len(s) \in Nat /\ 1 \in 1..Len(s) /\ Head(s) = s[1] /\ Head(s) \in S /\ Tail(s) \in Seq(S)
  BY EmptySeq
<1>2. Len(RemoveAt(s, 1)) = Len(s) - 1 /\ RemoveAt(s, 1) \in Seq(S)
  BY <1>1, QuitarLugar
<1>3. \A j \in 1..(Len(s) - 1) : RemoveAt(s, 1)[j] = s[j + 1] /\ Tail(s)[j] = s[j + 1]
  <2>1. Len(Tail(s)) = Len(s) - 1 /\ \A j \in 1..Len(Tail(s)) : Tail(s)[j] = s[j + 1]
    BY HeadTailProperties
  <2>2. ASSUME NEW j \in 1..(Len(s) - 1) PROVE RemoveAt(s, 1)[j] = s[j + 1]
    <3>1. ~(j < 1)
      BY <1>1
    <3> QED
      BY <1>1, <3>1, TrasQuitar
  <2> QED
    BY <2>1, <2>2
<1>4. Len(Tail(s)) = Len(s) - 1
  BY <1>1
<1>5. Tail(s) = RemoveAt(s, 1)
  <2> DEFINE a == Tail(s)
             b == RemoveAt(s, 1)
  <2>1. a \in Seq(S) /\ b \in Seq(S) /\ Len(a) = Len(b)
        /\ \A j \in 1..Len(a) : a[j] = b[j]
    BY <1>1, <1>2, <1>3, <1>4
  <2> HIDE DEF a, b
  <2>2. a = b
    BY <2>1, SeqEqual
  <2> QED
    BY <2>2 DEF a, b
<1>6. Veces(RemoveAt(s, 1), p) = Veces(s, p) - Uno(s[1], p)
  BY <1>1, VecesQuitar
<1> QED
  BY ONLY <1>1, <1>5, <1>6

\* list_remove_by_condition
LEMMA VecesQuitarPrimero ==
  ASSUME NEW S, NEW s \in Seq(S), NEW e, NEW p
  PROVE  /\ RemoveFirst(s, e) \in Seq(S)
         /\ Contains(s, e) => Veces(RemoveFirst(s, e), p) = Veces(s, p) - Uno(e, p)
         /\ ~Contains(s, e) => RemoveFirst(s, e) = s
<1>1. CASE Contains(s, e)
  <2> DEFINE I == {i \in 1..Len(s) : s[i] = e}
  <2>1. I # {} /\ I \subseteq Nat
    BY <1>1 DEF Contains
  <2>2. PICK k \in I : k = Min(I)
    BY <2>1, MinimoDeNaturales DEF Min
  <2>3. RemoveFirst(s, e) = RemoveAt(s, k)
    BY <1>1, <2>1, <2>2 DEF RemoveFirst, SelectInSeq, Contains
  <2>4. k \in 1..Len(s) /\ s[k] = e
    BY <2>2
  <2>5. Veces(RemoveAt(s, k), p) = Veces(s, p) - Uno(e, p)
    BY <2>4, VecesQuitar
  <2> QED
    BY <1>1, <2>3, <2>5, QuitarPrimero
<1>2. CASE ~Contains(s, e)
  BY <1>2 DEF RemoveFirst, Contains
<1> QED
  BY <1>1, <1>2

-----------------------------------------------------------------------------
(* The places of a process, as functions of the variable that has them     *)

EnListas(q, p) ==
  Veces(q.nuevos, p) + Veces(q.listos, p) + Veces(q.espera, p)
  + q.bloqueados[p] + q.terminados[p]
EnCPUs(r, p) == Cardinality({c \in CPUs : r[c].pid = p})
ConElla(m, p) == {h \in HilosMata : m[h].pid = p /\ m[h].paso \in {"token", "terminar"}}
EnKills(m, p) == Cardinality(ConElla(m, p))

FaltaEn(r, ops) ==
  /\ r.rutina \in Rutinas
  /\ \E i \in r.paso..Len(Guion[r.rutina]) : Guion[r.rutina][i] \in ops
ConPcb(r) == FaltaEn(r, {"aListos", "aBloqueados", "aEspera"}) /\ ~FaltaEn(r, {"desbloquear"})

DePrincipal(r, p) == IF r.pid = p /\ ConPcb(r) THEN 1 ELSE 0
DeCorto(t, p) ==
  IF t.pid = p /\ t.paso \in {"mirar", "enviar", "devolver"} THEN 1 ELSE 0
DeLargo(t, p) == IF t.pid = p /\ t.paso = "crear" THEN 1 ELSE 0
DeFin(t, p)   == IF t.pid = p /\ t.paso = "terminar" THEN 1 ELSE 0
DeMuerte(t, p) == IF t.pid = p /\ t.paso \in {"token", "terminar"} THEN 1 ELSE 0

LEMMA ListasNat ==
  ASSUME NEW q \in TipoCola, NEW p \in Pids
  PROVE  /\ Veces(q.nuevos, p) \in Nat /\ Veces(q.listos, p) \in Nat
         /\ Veces(q.espera, p) \in Nat /\ q.bloqueados[p] \in Nat
         /\ q.terminados[p] \in Nat /\ EnListas(q, p) \in Nat
<1>1. /\ q.nuevos \in Seq(Pids) /\ q.listos \in Seq(Posibles) /\ q.espera \in Seq(Pids)
      /\ q.bloqueados[p] \in Nat /\ q.terminados[p] \in Nat
  BY DEF TipoCola, Bolsas
<1>2. /\ Veces(q.nuevos, p) \in Nat /\ Veces(q.listos, p) \in Nat
      /\ Veces(q.espera, p) \in Nat
  BY <1>1, VecesNat
<1>3. \A a, b, c, d, e \in Nat : a + b + c + d + e \in Nat
  OBVIOUS
<1> QED
  BY <1>1, <1>2, <1>3, Zenon DEF EnListas

LEMMA HilosFinitos == IsFiniteSet(HilosMata)
<1>1. HilosMata = (({} \cup {"usuario"}) \cup {"principal"}) \cup {"abortador"}
  BY DEF HilosMata
<1> QED
  BY <1>1, FS_EmptySet, FS_AddElement

LEMMA ConjuntosFinitos ==
  ASSUME NEW p
  PROVE  /\ \A m : IsFiniteSet(ConElla(m, p)) /\ EnKills(m, p) \in Nat
         /\ \A r : IsFiniteSet({c \in CPUs : r[c].pid = p}) /\ EnCPUs(r, p) \in Nat
<1>1. ASSUME NEW m PROVE IsFiniteSet(ConElla(m, p)) /\ EnKills(m, p) \in Nat
  <2>1. IsFiniteSet(ConElla(m, p))
    BY HilosFinitos, FS_Subset DEF ConElla
  <2> QED
    BY <2>1, FS_CardinalityType DEF EnKills
<1>2. ASSUME NEW r PROVE IsFiniteSet({c \in CPUs : r[c].pid = p}) /\ EnCPUs(r, p) \in Nat
  <2>1. IsFiniteSet(CPUs)
    BY ConstantesOK DEF ConstantesOK
  <2>2. IsFiniteSet({c \in CPUs : r[c].pid = p})
    BY <2>1, FS_Subset
  <2> QED
    BY <2>2, FS_CardinalityType DEF EnCPUs
<1> QED
  BY <1>1, <1>2

Balance(p) ==
  /\ Copias(p) = EnListas(cola, p) + EnCPUs(remoto, p) + EnKills(mata, p)
                   + DePrincipal(principal, p) + DeCorto(corto, p)
                   + DeLargo(largo, p) + DeFin(fin, p)
  /\ Copias(p)' = EnListas(cola', p) + EnCPUs(remoto', p) + EnKills(mata', p)
                   + DePrincipal(principal', p) + DeCorto(corto', p)
                   + DeLargo(largo', p) + DeFin(fin', p)
  /\ EnListas(cola, p) \in Nat /\ EnListas(cola', p) \in Nat
  /\ EnCPUs(remoto, p) \in Nat /\ EnKills(mata, p) \in Nat
  /\ EnCPUs(remoto', p) \in Nat /\ EnKills(mata', p) \in Nat
  /\ DePrincipal(principal, p) \in {0, 1} /\ DePrincipal(principal', p) \in {0, 1}
  /\ DeCorto(corto, p) \in {0, 1} /\ DeCorto(corto', p) \in {0, 1}
  /\ DeLargo(largo, p) \in {0, 1} /\ DeLargo(largo', p) \in {0, 1}
  /\ DeFin(fin, p) \in {0, 1} /\ DeFin(fin', p) \in {0, 1}

LEMMA SumaDeCopias ==
  ASSUME IInv, IInv', NEW p \in Pids
  PROVE  Balance(p)
<1>1. cola \in TipoCola /\ cola' \in TipoCola
  BY DEF IInv, TypeOK
<1>2. /\ EnCPUs(remoto, p) \in Nat /\ EnKills(mata, p) \in Nat
      /\ EnCPUs(remoto', p) \in Nat /\ EnKills(mata', p) \in Nat
  BY ConjuntosFinitos
<1>3. /\ Cardinality({h \in HilosMata : EnMata(h, p)}) = EnKills(mata, p)
      /\ Cardinality({h \in HilosMata : EnMata(h, p)}') = EnKills(mata', p)
  BY DEF EnKills, ConElla, EnMata
<1>4. /\ Booleano(EnPrincipal(p)) = DePrincipal(principal, p)
      /\ Booleano(EnPrincipal(p))' = DePrincipal(principal', p)
      /\ DePrincipal(principal, p) \in {0, 1} /\ DePrincipal(principal', p) \in {0, 1}
  BY DEF Booleano, EnPrincipal, DePrincipal, ConPcb, FaltaEn, Falta
<1>5. /\ Booleano(EnCorto(p)) = DeCorto(corto, p) /\ Booleano(EnCorto(p))' = DeCorto(corto', p)
      /\ Booleano(EnLargo(p)) = DeLargo(largo, p) /\ Booleano(EnLargo(p))' = DeLargo(largo', p)
      /\ Booleano(EnFin(p)) = DeFin(fin, p) /\ Booleano(EnFin(p))' = DeFin(fin', p)
      /\ DeCorto(corto, p) \in {0, 1} /\ DeCorto(corto', p) \in {0, 1}
      /\ DeLargo(largo, p) \in {0, 1} /\ DeLargo(largo', p) \in {0, 1}
      /\ DeFin(fin, p) \in {0, 1} /\ DeFin(fin', p) \in {0, 1}
  BY DEF Booleano, EnCorto, EnLargo, EnFin, DeCorto, DeLargo, DeFin
<1>6. /\ EnListas(cola, p) \in Nat /\ EnListas(cola', p) \in Nat
      /\ Veces(cola.nuevos, p) \in Nat /\ Veces(cola.listos, p) \in Nat
      /\ Veces(cola.espera, p) \in Nat /\ cola.bloqueados[p] \in Nat
      /\ cola.terminados[p] \in Nat
      /\ Veces(cola'.nuevos, p) \in Nat /\ Veces(cola'.listos, p) \in Nat
      /\ Veces(cola'.espera, p) \in Nat /\ cola'.bloqueados[p] \in Nat
      /\ cola'.terminados[p] \in Nat
  BY <1>1, ListasNat
<1>7. /\ Copias(p) = Veces(cola.nuevos, p) + Veces(cola.listos, p) + Veces(cola.espera, p)
           + cola.bloqueados[p] + cola.terminados[p] + EnCPUs(remoto, p) + EnKills(mata, p)
           + DePrincipal(principal, p) + DeCorto(corto, p) + DeLargo(largo, p)
           + DeFin(fin, p)
  BY <1>3, <1>4, <1>5 DEF Copias, EnCPUs
<1>8. Copias(p)' = Veces(cola'.nuevos, p) + Veces(cola'.listos, p) + Veces(cola'.espera, p)
           + cola'.bloqueados[p] + cola'.terminados[p] + EnCPUs(remoto', p)
           + EnKills(mata', p) + DePrincipal(principal', p) + DeCorto(corto', p)
           + DeLargo(largo', p) + DeFin(fin', p)
  BY <1>3, <1>4, <1>5 DEF Copias, EnCPUs
<1> QED
  BY ONLY <1>2, <1>4, <1>5, <1>6, <1>7, <1>8 DEF EnListas, Balance

LEMMA RutinasSon ==
  /\ Rutinas = {"nuevoPrograma", "finProceso", "finQuantum", "finQuantumCierre", "bloqueo",
                "desbloqueo", "expropiado", "excepcion", "stackOverflow"}
  /\ Guion["nuevoPrograma"] = <<"aCodigos">>
  /\ Guion["finProceso"] = <<"aEspera", "ociosa">>
  /\ Guion["finQuantum"] = <<"removerEjec", "aListos">>
  /\ Guion["finQuantumCierre"] = <<"removerEjec", "aListos">>
  /\ Guion["bloqueo"] = <<"ociosa", "aBloqueados", "aSemaforo">>
  /\ Guion["desbloqueo"] = <<"desbloquear", "aListos", "devolverSem">>
  /\ Guion["expropiado"] = <<"ociosa", "desinterrumpir", "aEspera">>
  /\ Guion["excepcion"] = <<"ociosa", "aEspera">>
  /\ Guion["stackOverflow"] = <<"aEspera", "ociosa">>
  BY DEF Rutinas, Guion

LEMMA SoloDesbloqueo ==
  ASSUME NEW r \in Rutinas, NEW i \in 1..Len(Guion[r]), Guion[r][i] = "desbloquear"
  PROVE  r = "desbloqueo" /\ i = 1
<1>1. CASE r \in {"nuevoPrograma", "finProceso", "finQuantum", "finQuantumCierre"}
  BY <1>1, RutinasSon
<1>2. CASE r \in {"excepcion", "stackOverflow"}
  BY <1>2, RutinasSon
<1>3. CASE r \in {"bloqueo", "expropiado"}
  BY <1>3, RutinasSon
<1>4. CASE r = "desbloqueo"
  BY <1>4, RutinasSon
<1> QED
  BY <1>1, <1>2, <1>3, <1>4, RutinasSon

\* The handlers that have the PCB in their hands, and how far.
LEMMA ManosDe ==
  ASSUME NEW r \in TipoPrincipal,
         r.rutina \in Rutinas => r.paso \in 1..Len(Guion[r.rutina])
  PROVE  ConPcb(r) <=>
           \/ r.rutina \in {"finProceso", "stackOverflow"} /\ r.paso = 1
           \/ r.rutina \in {"finQuantum", "finQuantumCierre", "bloqueo", "excepcion"}
               /\ r.paso \in 1..2
           \/ r.rutina = "expropiado" /\ r.paso \in 1..3
           \/ r.rutina = "desbloqueo" /\ r.paso = 2
<1>1. CASE r.rutina \notin Rutinas
  BY <1>1, RutinasSon DEF ConPcb, FaltaEn
<1>2. CASE r.rutina \in {"nuevoPrograma"}
  BY <1>2, RutinasSon DEF ConPcb, FaltaEn
<1>3. CASE r.rutina \in {"finProceso", "stackOverflow"}
  BY <1>3, RutinasSon DEF ConPcb, FaltaEn
<1>4. CASE r.rutina = "finQuantum"
  BY <1>4, RutinasSon DEF ConPcb, FaltaEn
<1>9. CASE r.rutina = "finQuantumCierre"
  BY <1>9, RutinasSon DEF ConPcb, FaltaEn
<1>5. CASE r.rutina = "excepcion"
  BY <1>5, RutinasSon DEF ConPcb, FaltaEn
<1>6. CASE r.rutina = "bloqueo"
  BY <1>6, RutinasSon DEF ConPcb, FaltaEn
<1>7. CASE r.rutina = "expropiado"
  BY <1>7, RutinasSon DEF ConPcb, FaltaEn
<1>8. CASE r.rutina = "desbloqueo"
  BY <1>8, RutinasSon DEF ConPcb, FaltaEn
<1> QED
  BY <1>1, <1>2, <1>3, <1>4, <1>5, <1>6, <1>7, <1>8, <1>9, RutinasSon

\* A thread that counts twice in no way: the processes of the CPUs but one.
LEMMA UnaCPU ==
  ASSUME NEW r, NEW t, NEW c \in CPUs, \A d \in CPUs \ {c} : t[d].pid = r[d].pid, NEW p
  PROVE  EnCPUs(t, p) = EnCPUs(r, p) - Uno(r[c].pid, p) + Uno(t[c].pid, p)
<1> DEFINE A == {d \in CPUs : t[d].pid = p}
           B == {d \in CPUs : r[d].pid = p}
<1>1. IsFiniteSet(A) /\ IsFiniteSet(B)
  BY ConjuntosFinitos
<1>2. A \ {c} = B \ {c}
  OBVIOUS
<1>3. (c \in A <=> t[c].pid = p) /\ (c \in B <=> r[c].pid = p)
  OBVIOUS
<1>4. EnCPUs(t, p) = Cardinality(A) /\ EnCPUs(r, p) = Cardinality(B)
  BY DEF EnCPUs
<1> HIDE DEF A, B
<1>5. Cardinality(A) = Cardinality(B) - Dentro(c, B) + Dentro(c, A)
  BY <1>1, <1>2, SalvoUno
<1>6. Dentro(c, B) = Uno(r[c].pid, p) /\ Dentro(c, A) = Uno(t[c].pid, p)
  BY <1>3 DEF Dentro, Uno
<1> QED
  BY <1>4, <1>5, <1>6

LEMMA MismosPids ==
  ASSUME NEW r, NEW t, \A d \in CPUs : t[d].pid = r[d].pid, NEW p
  PROVE  EnCPUs(t, p) = EnCPUs(r, p)
<1>1. {d \in CPUs : t[d].pid = p} = {d \in CPUs : r[d].pid = p}
  OBVIOUS
<1> QED
  BY <1>1 DEF EnCPUs

\* The same for the threads that kill.
LEMMA UnaMuerte ==
  ASSUME NEW r, NEW t, NEW h \in HilosMata, \A k \in HilosMata \ {h} : t[k] = r[k], NEW p
  PROVE  EnKills(t, p) = EnKills(r, p) - DeMuerte(r[h], p) + DeMuerte(t[h], p)
<1> DEFINE A == ConElla(t, p)
           B == ConElla(r, p)
<1>1. IsFiniteSet(A) /\ IsFiniteSet(B)
  BY ConjuntosFinitos
<1>2. A \ {h} = B \ {h}
  BY DEF ConElla
<1>3. /\ h \in A <=> (t[h].pid = p /\ t[h].paso \in {"token", "terminar"})
      /\ h \in B <=> (r[h].pid = p /\ r[h].paso \in {"token", "terminar"})
  BY DEF ConElla
<1>4. EnKills(t, p) = Cardinality(A) /\ EnKills(r, p) = Cardinality(B)
  BY DEF EnKills
<1> HIDE DEF A, B
<1>5. Cardinality(A) = Cardinality(B) - Dentro(h, B) + Dentro(h, A)
  BY <1>1, <1>2, SalvoUno
<1>6. Dentro(h, B) = DeMuerte(r[h], p) /\ Dentro(h, A) = DeMuerte(t[h], p)
  BY <1>3 DEF Dentro, DeMuerte
<1> QED
  BY <1>4, <1>5, <1>6

-----------------------------------------------------------------------------
(* The messages of the CPUs keep the number of copies                      *)

\* The main thread keeps its PCB, or none, through these two.
LEMMA EnElSelector ==
  ASSUME NEW p, principal.rutina \notin Rutinas
  PROVE  DePrincipal(principal, p) = 0
  BY DEF DePrincipal, ConPcb, FaltaEn

RutinasConPcb == {"finProceso", "finQuantum", "finQuantumCierre", "bloqueo", "expropiado",
                  "excepcion", "stackOverflow"}

\* The PCB goes from the CPU to the hands of the main thread.
LEMMA CopiasDejar ==
  ASSUME IInv, IInv', NEW p \in Pids, NEW c \in CPUs, NEW fases, NEW r \in RutinasConPcb,
         NEW s, DejarCPU(c, fases, r, s), EnListas(cola', p) = EnListas(cola, p)
  PROVE  Copias(p)' = Copias(p)
<1>1. /\ principal.rutina = "selector"
      /\ principal' = [rutina |-> r, paso |-> 1, cpu |-> c, pid |-> remoto[c].pid, sem |-> s]
      /\ remoto' = [remoto EXCEPT ![c] = Desocupada(remoto[c])]
      /\ UNCHANGED <<corto, largo, fin, mata>>
  BY DEF DejarCPU, Atender
<1>2. DePrincipal(principal, p) = 0
  BY <1>1, EnElSelector, RutinasSon
<1>3. DePrincipal(principal', p) = Uno(remoto[c].pid, p)
  <2>1. /\ principal' \in TipoPrincipal
        /\ principal'.rutina \in Rutinas => principal'.paso \in 1..Len(Guion[principal'.rutina])
    BY DEF IInv, TypeOK, ConProceso
  <2>2. ConPcb(principal')
    BY <2>1, <1>1, ManosDe DEF RutinasConPcb
  <2> QED
    BY <2>2, <1>1 DEF DePrincipal, Uno
<1>4. EnCPUs(remoto', p) = EnCPUs(remoto, p) - Uno(remoto[c].pid, p)
  <2>1. /\ \A d \in CPUs \ {c} : remoto'[d].pid = remoto[d].pid
        /\ remoto'[c].pid = Nadie
    BY <1>1 DEF IInv, TypeOK, TipoRemoto, Desocupada
  <2>2. remoto'[c].pid # p
    BY <2>1 DEF Nadie, Pids
  <2>3. EnCPUs(remoto', p) = EnCPUs(remoto, p) - Uno(remoto[c].pid, p)
                               + Uno(remoto'[c].pid, p)
    <3>1. c \in CPUs /\ \A d \in CPUs \ {c} : remoto'[d].pid = remoto[d].pid
      BY <2>1
    <3> QED
      BY ONLY <3>1, UnaCPU
  <2>4. EnCPUs(remoto, p) \in Nat
    BY ConjuntosFinitos
  <2> QED
    BY <2>2, <2>3, <2>4 DEF Uno
<1>5. Uno(remoto[c].pid, p) \in {0, 1}
  BY DEF Uno
<1>6. Balance(p)
  BY SumaDeCopias
<1>7. EnListas(cola', p) = EnListas(cola, p)
  OBVIOUS
<1> QED
  BY ONLY <1>1, <1>2, <1>3, <1>4, <1>5, <1>6, <1>7 DEF Balance

LEMMA SinTocarListas ==
  ASSUME IInv, NEW p \in Pids, NEW e, cola' = [cola EXCEPT !.ejecucion = e]
  PROVE  EnListas(cola', p) = EnListas(cola, p)
<1>1. /\ cola'.nuevos = cola.nuevos /\ cola'.listos = cola.listos
      /\ cola'.espera = cola.espera /\ cola'.bloqueados = cola.bloqueados
      /\ cola'.terminados = cola.terminados
  BY DEF IInv, TypeOK, TipoCola
<1> QED
  BY <1>1 DEF EnListas

LEMMA CopiasDejarYRemover ==
  ASSUME IInv, IInv', NEW p \in Pids, NEW c \in CPUs, NEW fases, NEW r \in RutinasConPcb,
         NEW s, DejarYRemover(c, fases, r, s)
  PROVE  Copias(p)' = Copias(p)
  BY SinTocarListas, CopiasDejar DEF DejarYRemover

\* The CPU keeps its process, and no thread moves one.
LEMMA CopiasQuietas ==
  ASSUME IInv, IInv', NEW p \in Pids, \A d \in CPUs : remoto'[d].pid = remoto[d].pid,
         EnListas(cola', p) = EnListas(cola, p),
         UNCHANGED <<principal, corto, largo, fin, mata>>
  PROVE  Copias(p)' = Copias(p)
<1>1. EnCPUs(remoto', p) = EnCPUs(remoto, p)
  BY MismosPids
<1>2. Balance(p)
  BY SumaDeCopias
<1> QED
  BY <1>1, <1>2 DEF Balance

LEMMA CopiasMensaje ==
  ASSUME IInv, IInv', NEW p \in Pids, NEW c \in CPUs, MensajeCPU(c) \/ SignalCPU(c)
  PROVE  Copias(p)' = Copias(p)
<1> DEFINE Fase(f) == remoto' = [remoto EXCEPT ![c].fase = f]
<1>1. ASSUME NEW f, Fase(f), cola' = cola, UNCHANGED <<principal, corto, largo, fin, mata>>
      PROVE  Copias(p)' = Copias(p)
  <2>1. \A d \in CPUs : remoto'[d].pid = remoto[d].pid
    BY <1>1 DEF IInv, TypeOK, TipoRemoto
  <2> QED
    BY <2>1, <1>1, CopiasQuietas
<1>2. CASE GestionarNuevaCPU(c)
  BY <1>2, <1>1 DEF GestionarNuevaCPU, hilos
<1>3. CASE FinProceso(c)
  BY <1>3, CopiasDejarYRemover DEF FinProceso, RutinasConPcb
<1>4. CASE FinQuantum(c)
  <2>1. PICK r \in {"finQuantum", "finQuantumCierre"} : DejarCPU(c, {"finQuantum"}, r, "ninguno")
    BY <1>4 DEF FinQuantum
  <2> QED
    BY <1>4, <2>1, CopiasDejar DEF FinQuantum, RutinasConPcb
<1>5. CASE ProcesoExpropiado(c)
  BY <1>5, CopiasDejarYRemover DEF ProcesoExpropiado, RutinasConPcb
<1>6. ASSUME NEW r \in {"excepcion", "stackOverflow"}, Excepcion(c, r)
      PROVE  Copias(p)' = Copias(p)
  BY <1>6, CopiasDejarYRemover DEF Excepcion, RutinasConPcb
<1>7. ASSUME NEW s \in Semaforos, WaitSemaforo(c, s)
      PROVE  Copias(p)' = Copias(p)
  <2>1. CASE DejarYRemover(c, EnMarcha, "bloqueo", s)
    BY <2>1, CopiasDejarYRemover DEF RutinasConPcb
  <2>2. CASE ~DejarYRemover(c, EnMarcha, "bloqueo", s)
    BY <1>7, <2>2, <1>1 DEF WaitSemaforo, hilos
  <2> QED
    BY <2>1, <2>2
<1>8. ASSUME NEW s \in Semaforos, SignalSemaforo(c, s)
      PROVE  Copias(p)' = Copias(p)
  <2>1. Fase("consulta") /\ cola' = cola /\ UNCHANGED <<corto, largo, fin, mata>>
    BY <1>8 DEF SignalSemaforo
  <2>2. CASE UNCHANGED principal
    BY <2>1, <2>2, <1>1
  <2>3. CASE semaforo[s].pids # <<>>
    <3>1. Atender("desbloqueo", c, Head(semaforo[s].pids), s)
      BY <1>8, <2>3 DEF SignalSemaforo
    <3>2. DePrincipal(principal, p) = 0
      BY <3>1, EnElSelector, RutinasSon DEF Atender
    <3>3. DePrincipal(principal', p) = 0
      <4>1. /\ principal' \in TipoPrincipal /\ principal'.rutina = "desbloqueo"
            /\ principal'.paso = 1
            /\ principal'.rutina \in Rutinas => principal'.paso \in 1..Len(Guion[principal'.rutina])
        BY <3>1 DEF IInv, TypeOK, ConProceso, Atender
      <4>2. ~ConPcb(principal')
        BY <4>1, ManosDe
      <4> QED
        BY <4>2 DEF DePrincipal
    <3>4. EnCPUs(remoto', p) = EnCPUs(remoto, p)
      <4>1. \A d \in CPUs : remoto'[d].pid = remoto[d].pid
        BY <2>1 DEF IInv, TypeOK, TipoRemoto
      <4> QED
        BY <4>1, MismosPids
    <3>5. Balance(p)
      BY SumaDeCopias
    <3> QED
      BY ONLY <2>1, <3>2, <3>3, <3>4, <3>5 DEF Balance
  <2> QED
    BY <1>8, <2>2, <2>3 DEF SignalSemaforo
<1>9. CASE VerificarInterrupciones(c)
  BY <1>9, <1>1 DEF VerificarInterrupciones
<1>10. CASE GestionarCierreCpu(c)
  BY <1>10, <1>1 DEF GestionarCierreCpu, hilos
<1>11. CASE SignalCPU(c)
  <2>1. \A d \in CPUs : remoto'[d].pid = remoto[d].pid
    <3>1. PICK f : remoto' = [remoto EXCEPT ![c].cerrando = TRUE, ![c].fase = f]
      BY <1>11 DEF SignalCPU
    <3> QED
      BY <3>1 DEF IInv, TypeOK, TipoRemoto
  <2> QED
    BY <2>1, <1>11, CopiasQuietas DEF SignalCPU, hilos
<1> QED
  BY <1>2, <1>3, <1>4, <1>5, <1>6, <1>7, <1>8, <1>9, <1>10, <1>11 DEF MensajeCPU

-----------------------------------------------------------------------------
(* What a change of one list does to the number of places in the lists     *)

LEMMA CambiaNuevos ==
  ASSUME IInv, IInv', NEW p \in Pids, NEW n \in Int, NEW x,
         cola' = [cola EXCEPT !.nuevos = x], Veces(x, p) = Veces(cola.nuevos, p) + n
  PROVE  EnListas(cola', p) = EnListas(cola, p) + n
<1>1. /\ cola'.nuevos = x /\ cola'.listos = cola.listos /\ cola'.espera = cola.espera
      /\ cola'.bloqueados = cola.bloqueados /\ cola'.terminados = cola.terminados
  BY DEF IInv, TypeOK, TipoCola
<1>2. /\ Veces(cola.nuevos, p) \in Nat /\ Veces(cola.listos, p) \in Nat
      /\ Veces(cola.espera, p) \in Nat /\ cola.bloqueados[p] \in Nat
      /\ cola.terminados[p] \in Nat
  BY ListasNat DEF IInv, TypeOK
<1> QED
  BY <1>1, <1>2 DEF EnListas

LEMMA CambiaListos ==
  ASSUME IInv, IInv', NEW p \in Pids, NEW n \in Int, NEW x,
         cola' = [cola EXCEPT !.listos = x], Veces(x, p) = Veces(cola.listos, p) + n
  PROVE  EnListas(cola', p) = EnListas(cola, p) + n
<1>1. /\ cola'.listos = x /\ cola'.nuevos = cola.nuevos /\ cola'.espera = cola.espera
      /\ cola'.bloqueados = cola.bloqueados /\ cola'.terminados = cola.terminados
  BY DEF IInv, TypeOK, TipoCola
<1>2. /\ Veces(cola.nuevos, p) \in Nat /\ Veces(cola.listos, p) \in Nat
      /\ Veces(cola.espera, p) \in Nat /\ cola.bloqueados[p] \in Nat
      /\ cola.terminados[p] \in Nat
  BY ListasNat DEF IInv, TypeOK
<1> QED
  BY <1>1, <1>2 DEF EnListas

LEMMA CambiaEspera ==
  ASSUME IInv, IInv', NEW p \in Pids, NEW n \in Int, NEW x,
         cola' = [cola EXCEPT !.espera = x], Veces(x, p) = Veces(cola.espera, p) + n
  PROVE  EnListas(cola', p) = EnListas(cola, p) + n
<1>1. /\ cola'.espera = x /\ cola'.nuevos = cola.nuevos /\ cola'.listos = cola.listos
      /\ cola'.bloqueados = cola.bloqueados /\ cola'.terminados = cola.terminados
  BY DEF IInv, TypeOK, TipoCola
<1>2. /\ Veces(cola.nuevos, p) \in Nat /\ Veces(cola.listos, p) \in Nat
      /\ Veces(cola.espera, p) \in Nat /\ cola.bloqueados[p] \in Nat
      /\ cola.terminados[p] \in Nat
  BY ListasNat DEF IInv, TypeOK
<1> QED
  BY <1>1, <1>2 DEF EnListas

LEMMA SumaBloqueados ==
  ASSUME IInv, IInv', NEW p \in Pids, NEW q \in Pids,
         cola' = [cola EXCEPT !.bloqueados = Sumar(cola.bloqueados, q)]
  PROVE  EnListas(cola', p) = EnListas(cola, p) + Uno(q, p)
<1>1. /\ cola'.bloqueados = Sumar(cola.bloqueados, q) /\ cola'.nuevos = cola.nuevos
      /\ cola'.listos = cola.listos /\ cola'.espera = cola.espera
      /\ cola'.terminados = cola.terminados
  BY DEF IInv, TypeOK, TipoCola
<1>2. /\ Veces(cola.nuevos, p) \in Nat /\ Veces(cola.listos, p) \in Nat
      /\ Veces(cola.espera, p) \in Nat /\ cola.bloqueados[p] \in Nat
      /\ cola.terminados[p] \in Nat
  BY ListasNat DEF IInv, TypeOK
<1>3. cola.bloqueados \in Bolsas
  BY DEF IInv, TypeOK, TipoCola
<1>4. cola'.bloqueados[p] = cola.bloqueados[p] + Uno(q, p)
  BY <1>1, <1>2, <1>3 DEF Sumar, Uno, Bolsas
<1> QED
  BY <1>1, <1>2, <1>4 DEF EnListas, Uno

LEMMA SumaTerminados ==
  ASSUME IInv, IInv', NEW p \in Pids, NEW q \in Pids,
         cola' = [cola EXCEPT !.terminados = Sumar(cola.terminados, q)]
  PROVE  EnListas(cola', p) = EnListas(cola, p) + Uno(q, p)
<1>1. /\ cola'.terminados = Sumar(cola.terminados, q) /\ cola'.nuevos = cola.nuevos
      /\ cola'.listos = cola.listos /\ cola'.espera = cola.espera
      /\ cola'.bloqueados = cola.bloqueados
  BY DEF IInv, TypeOK, TipoCola
<1>2. /\ Veces(cola.nuevos, p) \in Nat /\ Veces(cola.listos, p) \in Nat
      /\ Veces(cola.espera, p) \in Nat /\ cola.bloqueados[p] \in Nat
      /\ cola.terminados[p] \in Nat
  BY ListasNat DEF IInv, TypeOK
<1>3. cola.terminados \in Bolsas
  BY DEF IInv, TypeOK, TipoCola
<1>4. cola'.terminados[p] = cola.terminados[p] + Uno(q, p)
  BY <1>1, <1>2, <1>3 DEF Sumar, Uno, Bolsas
<1> QED
  BY <1>1, <1>2, <1>4 DEF EnListas, Uno

\* Taking from colaBloqueados a process that is there.
LEMMA RestaBloqueados ==
  ASSUME IInv, IInv', NEW p \in Pids, NEW q \in Posibles,
         cola' = [cola EXCEPT !.bloqueados = Restar(cola.bloqueados, q)]
  PROVE  EnListas(cola', p)
           = EnListas(cola, p) - IF q = p /\ cola.bloqueados[p] > 0 THEN 1 ELSE 0
<1>1. /\ cola'.bloqueados = Restar(cola.bloqueados, q) /\ cola'.nuevos = cola.nuevos
      /\ cola'.listos = cola.listos /\ cola'.espera = cola.espera
      /\ cola'.terminados = cola.terminados
  BY DEF IInv, TypeOK, TipoCola
<1>2. /\ Veces(cola.nuevos, p) \in Nat /\ Veces(cola.listos, p) \in Nat
      /\ Veces(cola.espera, p) \in Nat /\ cola.bloqueados[p] \in Nat
      /\ cola.terminados[p] \in Nat
  BY ListasNat DEF IInv, TypeOK
<1>3. cola.bloqueados \in Bolsas
  BY DEF IInv, TypeOK, TipoCola
<1>4. cola'.bloqueados[p]
        = cola.bloqueados[p] - IF q = p /\ cola.bloqueados[p] > 0 THEN 1 ELSE 0
  BY <1>1, <1>2, <1>3 DEF Restar, Bolsas
<1> QED
  BY <1>1, <1>2, <1>4 DEF EnListas

-----------------------------------------------------------------------------
(* The operations of the main thread                                       *)

QueSueltan == {"aListos", "aBloqueados", "aEspera"}

\* The operations that put the PCB into a list are the last that have it.
LEMMA PasoManos ==
  ASSUME IInv, IInv', NEW op, Paso(op), op # "ninguna", NEW p \in Pids
  PROVE  /\ op \in QueSueltan => /\ DePrincipal(principal, p) = Uno(principal.pid, p)
                                 /\ DePrincipal(principal', p) = 0
         /\ op \notin QueSueltan \cup {"desbloquear"} =>
              DePrincipal(principal', p) = DePrincipal(principal, p)
<1> DEFINE r == principal.rutina
<1>1. r \in Rutinas /\ principal.paso \in 1..Len(Guion[r]) /\ op = Guion[r][principal.paso]
  BY DEF Paso, Operacion, IInv, ConProceso
<1>2. principal \in TipoPrincipal /\ principal' \in TipoPrincipal
  BY DEF IInv, TypeOK
<1>3. /\ principal.rutina \in Rutinas => principal.paso \in 1..Len(Guion[principal.rutina])
      /\ principal'.rutina \in Rutinas => principal'.paso \in 1..Len(Guion[principal'.rutina])
  BY DEF IInv, ConProceso
<1>4. \/ /\ principal.paso < Len(Guion[r]) /\ principal'.paso = principal.paso + 1
         /\ principal'.rutina = r /\ principal'.pid = principal.pid
      \/ principal.paso = Len(Guion[r]) /\ principal'.rutina \notin Rutinas
  BY <1>1, <1>2, RutinasSon DEF Paso, SinRutina, TipoPrincipal
<1>5. /\ op \in QueSueltan => ConPcb(principal) /\ ~ConPcb(principal')
      /\ op \notin QueSueltan \cup {"desbloquear"} =>
           /\ ConPcb(principal') <=> ConPcb(principal)
           /\ ConPcb(principal) => principal'.pid = principal.pid
  <2>1. /\ ConPcb(principal) <=>
             \/ r \in {"finProceso", "stackOverflow"} /\ principal.paso = 1
             \/ r \in {"finQuantum", "finQuantumCierre", "bloqueo", "excepcion"}
                 /\ principal.paso \in 1..2
             \/ r = "expropiado" /\ principal.paso \in 1..3
             \/ r = "desbloqueo" /\ principal.paso = 2
        /\ ConPcb(principal') <=>
             \/ principal'.rutina \in {"finProceso", "stackOverflow"} /\ principal'.paso = 1
             \/ /\ principal'.rutina \in {"finQuantum", "finQuantumCierre", "bloqueo", "excepcion"}
                /\ principal'.paso \in 1..2
             \/ principal'.rutina = "expropiado" /\ principal'.paso \in 1..3
             \/ principal'.rutina = "desbloqueo" /\ principal'.paso = 2
    BY <1>2, <1>3, ManosDe
  <2> HIDE DEF r
  <2>2. CASE r \in {"nuevoPrograma", "finProceso", "stackOverflow"}
    BY <1>1, <1>4, <2>1, <2>2, RutinasSon DEF QueSueltan
  <2>3. CASE r = "finQuantum"
    BY <1>1, <1>4, <2>1, <2>3, RutinasSon DEF QueSueltan
  <2>8. CASE r = "finQuantumCierre"
    BY <1>1, <1>4, <2>1, <2>8, RutinasSon DEF QueSueltan
  <2>4. CASE r = "excepcion"
    BY <1>1, <1>4, <2>1, <2>4, RutinasSon DEF QueSueltan
  <2>5. CASE r = "bloqueo"
    BY <1>1, <1>4, <2>1, <2>5, RutinasSon DEF QueSueltan
  <2>6. CASE r = "expropiado"
    BY <1>1, <1>4, <2>1, <2>6, RutinasSon DEF QueSueltan
  <2>7. CASE r = "desbloqueo"
    BY <1>1, <1>4, <2>1, <2>7, RutinasSon DEF QueSueltan
  <2> QED
    BY <1>1, <2>2, <2>3, <2>4, <2>5, <2>6, <2>7, <2>8, RutinasSon
<1> QED
  BY <1>5 DEF DePrincipal, Uno

LEMMA CopiasOperacion ==
  ASSUME IInv, IInv', NEW p \in Pids, OperacionPrincipal
  PROVE  Copias(p)' = Copias(p)
<1>1. Balance(p)
  BY SumaDeCopias
<1>2. UNCHANGED <<remoto, corto, largo, fin, mata>>
  BY DEF OperacionPrincipal, EncolarCodigo, CambiarEstadoCpu, RemoverDeColaEjecucion,
     EncolarEspera, EncolarListo, EncolarBloqueado, EncolarProcesoBloqueadoASemaforo,
     DesbloquearProceso, DevolverSemaforo, QuitarInterrupcion, AjenoAlPrincipal
<1>3. principal.pid \in Posibles /\ cola.listos \in Seq(Posibles) /\ cola.espera \in Seq(Pids)
  BY DEF IInv, TypeOK, TipoCola, TipoPrincipal
<1>4. Uno(principal.pid, p) \in Int
  BY DEF Uno
<1>5. CASE EncolarCodigo \/ CambiarEstadoCpu \/ EncolarProcesoBloqueadoASemaforo
           \/ DevolverSemaforo \/ QuitarInterrupcion
  <2>1. cola' = cola /\ DePrincipal(principal', p) = DePrincipal(principal, p)
    BY <1>5, PasoManos DEF QueSueltan, EncolarCodigo, CambiarEstadoCpu,
       EncolarProcesoBloqueadoASemaforo, DevolverSemaforo, QuitarInterrupcion
  <2> QED
    BY ONLY <1>1, <1>2, <2>1 DEF Balance
<1>6. CASE RemoverDeColaEjecucion
  <2>1. DePrincipal(principal', p) = DePrincipal(principal, p)
    BY <1>6, PasoManos DEF QueSueltan, RemoverDeColaEjecucion
  <2>2. EnListas(cola', p) = EnListas(cola, p)
    BY <1>6, SinTocarListas DEF RemoverDeColaEjecucion
  <2> QED
    BY ONLY <1>1, <1>2, <2>1, <2>2 DEF Balance
<1>7. CASE EncolarEspera
  <2>1. DePrincipal(principal, p) = Uno(principal.pid, p) /\ DePrincipal(principal', p) = 0
    BY <1>7, PasoManos DEF QueSueltan, EncolarEspera
  <2>2. /\ cola' = [cola EXCEPT !.espera = Append(cola.espera, principal.pid)]
        /\ principal.pid \in Pids
    BY <1>7, RutinasSon DEF EncolarEspera, Paso, Operacion, IInv, ConProceso
  <2>3. Veces(Append(cola.espera, principal.pid), p)
          = Veces(cola.espera, p) + Uno(principal.pid, p)
    BY <1>3, <2>2, VecesAgregar
  <2>4. EnListas(cola', p) = EnListas(cola, p) + Uno(principal.pid, p)
    BY <1>4, <2>2, <2>3, CambiaEspera
  <2> QED
    BY ONLY <1>1, <1>2, <1>4, <2>1, <2>4 DEF Balance
<1>8. CASE EncolarListo
  <2>1. DePrincipal(principal, p) = Uno(principal.pid, p) /\ DePrincipal(principal', p) = 0
    BY <1>8, PasoManos DEF QueSueltan, EncolarListo
  <2>2. cola' = [cola EXCEPT !.listos = Append(cola.listos, principal.pid)]
    BY <1>8 DEF EncolarListo
  <2>3. Veces(Append(cola.listos, principal.pid), p)
          = Veces(cola.listos, p) + Uno(principal.pid, p)
    BY <1>3, VecesAgregar
  <2>4. EnListas(cola', p) = EnListas(cola, p) + Uno(principal.pid, p)
    BY <1>4, <2>2, <2>3, CambiaListos
  <2> QED
    BY ONLY <1>1, <1>2, <1>4, <2>1, <2>4 DEF Balance
<1>9. CASE EncolarBloqueado
  <2>1. DePrincipal(principal, p) = Uno(principal.pid, p) /\ DePrincipal(principal', p) = 0
    BY <1>9, PasoManos DEF QueSueltan, EncolarBloqueado
  <2>2. /\ cola' = [cola EXCEPT !.bloqueados = Sumar(cola.bloqueados, principal.pid)]
        /\ principal.pid \in Pids
    BY <1>9, RutinasSon DEF EncolarBloqueado, Paso, Operacion, IInv, ConProceso
  <2>3. EnListas(cola', p) = EnListas(cola, p) + Uno(principal.pid, p)
    BY <2>2, SumaBloqueados
  <2> QED
    BY ONLY <1>1, <1>2, <1>4, <2>1, <2>3 DEF Balance
<1>10. CASE DesbloquearProceso
  <2> DEFINE q == principal.pid
             m == IF q = p /\ cola.bloqueados[p] > 0 THEN 1 ELSE 0
  <2>1. /\ principal.rutina = "desbloqueo" /\ principal.paso = 1
        /\ principal \in TipoPrincipal /\ principal' \in TipoPrincipal
    <3>1. /\ principal.rutina \in Rutinas /\ principal.paso \in 1..Len(Guion[principal.rutina])
          /\ Guion[principal.rutina][principal.paso] = "desbloquear"
      BY <1>10 DEF DesbloquearProceso, Operacion, IInv, ConProceso
    <3> QED
      BY <3>1, SoloDesbloqueo DEF IInv, TypeOK
  <2>2. /\ principal'.rutina = "desbloqueo" /\ principal'.paso = 2
        /\ principal'.pid = IF cola.bloqueados[q] > 0 THEN q ELSE Nadie
        /\ cola' = [cola EXCEPT !.bloqueados = Restar(cola.bloqueados, q)]
    BY <1>10, <2>1 DEF DesbloquearProceso, TipoPrincipal
  <2>3. /\ principal.rutina \in Rutinas => principal.paso \in 1..Len(Guion[principal.rutina])
        /\ principal'.rutina \in Rutinas => principal'.paso \in 1..Len(Guion[principal'.rutina])
    BY DEF IInv, ConProceso
  <2>4. ~ConPcb(principal) /\ ConPcb(principal')
    BY <2>1, <2>2, <2>3, ManosDe
  <2>5. DePrincipal(principal, p) = 0 /\ DePrincipal(principal', p) = m
    BY <2>2, <2>4 DEF DePrincipal, Nadie, Pids
  <2>6. EnListas(cola', p) = EnListas(cola, p) - m
    BY <1>3, <2>2, RestaBloqueados
  <2>7. m \in {0, 1}
    OBVIOUS
  <2> HIDE DEF m
  <2> QED
    BY ONLY <1>1, <1>2, <2>5, <2>6, <2>7 DEF Balance
<1> QED
  BY <1>5, <1>6, <1>7, <1>8, <1>9, <1>10 DEF OperacionPrincipal

-----------------------------------------------------------------------------
(* planificarCortoPlazo                                                    *)

LEMMA CopiasCorto ==
  ASSUME IInv, IInv', CpuOciosaVacia, NEW p \in Pids, CortoPlazo
  PROVE  Copias(p)' = Copias(p)
<1>1. Balance(p)
  BY SumaDeCopias
<1>2. UNCHANGED <<principal, largo, fin, mata>>
  BY DEF CortoPlazo, CortoVerificaPausa, CortoEsperaReanudar, CortoEsperaCPU, CortoEsperaListo,
     SacarListo, MirarOciosas, EnviarPcb, RegistrarEjecucion, DevolverAListos, AjenoAlCorto
<1>3. cola.listos \in Seq(Posibles) /\ corto \in TipoCorto /\ corto' \in TipoCorto
  BY DEF IInv, TypeOK, TipoCola
<1>4. CASE CortoVerificaPausa \/ CortoEsperaReanudar \/ CortoEsperaCPU \/ CortoEsperaListo
           \/ MirarOciosas
  <2>1. cola' = cola /\ remoto' = remoto
    BY <1>4 DEF CortoVerificaPausa, CortoEsperaReanudar, CortoEsperaCPU, CortoEsperaListo,
       MirarOciosas
  <2>2. DeCorto(corto', p) = DeCorto(corto, p)
    BY <1>3, <1>4 DEF CortoVerificaPausa, CortoEsperaReanudar, CortoEsperaCPU, CortoEsperaListo,
       MirarOciosas, IrCorto, DeCorto, TipoCorto
  <2> QED
    BY ONLY <1>1, <1>2, <2>1, <2>2 DEF Balance
<1>5. CASE SacarListo
  <2>1. CASE cola.listos = <<>>
    <3>1. cola' = cola /\ remoto' = remoto /\ corto' = corto
      BY <1>5, <2>1 DEF SacarListo
    <3> QED
      BY ONLY <1>1, <1>2, <3>1 DEF Balance
  <2>2. CASE cola.listos # <<>>
    <3> DEFINE q == Head(cola.listos)
    <3>1. /\ corto.paso = "sacar" /\ corto' = [paso |-> "mirar", pid |-> q]
          /\ cola' = [cola EXCEPT !.listos = Tail(cola.listos)] /\ remoto' = remoto
      BY <1>5, <2>2 DEF SacarListo
    <3>2. Veces(Tail(cola.listos), p) = Veces(cola.listos, p) - Uno(q, p)
      BY <1>3, <2>2, VecesCola
    <3>3. DeCorto(corto, p) = 0 /\ DeCorto(corto', p) = Uno(q, p)
      BY <3>1 DEF DeCorto, Uno
    <3>4. Uno(q, p) \in {0, 1} /\ -Uno(q, p) \in Int
      BY DEF Uno
    <3>5. EnListas(cola', p) = EnListas(cola, p) + (-Uno(q, p))
      <4>1. Veces(cola.listos, p) \in Nat
        BY <1>3, VecesNat
      <4>2. Veces(Tail(cola.listos), p) = Veces(cola.listos, p) + (-Uno(q, p))
        BY <3>2, <3>4, <4>1
      <4> QED
        BY <3>1, <3>4, <4>2, CambiaListos
    <3> HIDE DEF q
    <3> QED
      BY ONLY <1>1, <1>2, <3>1, <3>3, <3>4, <3>5, SMTT(30) DEF Balance
  <2> QED
    BY <2>1, <2>2
<1>6. CASE EnviarPcb
  <2>1. CASE Ociosas = {} \/ corto.pid = Nadie
    <3>1. cola' = cola /\ remoto' = remoto /\ corto' = corto
      BY <1>6, <2>1 DEF EnviarPcb
    <3> QED
      BY ONLY <1>1, <1>2, <3>1 DEF Balance
  <2>2. CASE ~(Ociosas = {} \/ corto.pid = Nadie)
    <3>1. PICK c \in Ociosas : remoto' = [remoto EXCEPT ![c] = Entregada(@, corto.pid)]
      BY <1>6, <2>2 DEF EnviarPcb
    <3>2. /\ cola' = cola /\ corto.paso = "enviar" /\ corto'.paso = "registrar"
      BY <1>3, <1>6, <2>2 DEF EnviarPcb, TipoCorto
    <3>3. c \in CPUs /\ remoto[c].pid = Nadie /\ remoto \in [CPUs -> TipoRemoto]
      BY <3>1 DEF Ociosas, CpuOciosaVacia, IInv, TypeOK
    <3>4. /\ \A d \in CPUs \ {c} : remoto'[d].pid = remoto[d].pid
          /\ remoto'[c].pid = corto.pid
      BY <3>1, <3>3 DEF Entregada, TipoRemoto
    <3>5. EnCPUs(remoto', p) = EnCPUs(remoto, p) - Uno(remoto[c].pid, p) + Uno(remoto'[c].pid, p)
      <4>1. c \in CPUs /\ \A d \in CPUs \ {c} : remoto'[d].pid = remoto[d].pid
        BY <3>3, <3>4
      <4> QED
        BY ONLY <4>1, UnaCPU
    <3>6. Uno(remoto[c].pid, p) = 0 /\ Uno(remoto'[c].pid, p) = Uno(corto.pid, p)
      BY <3>3, <3>4 DEF Uno, Nadie, Pids
    <3>7. DeCorto(corto, p) = Uno(corto.pid, p) /\ DeCorto(corto', p) = 0
      BY <3>2 DEF DeCorto, Uno
    <3> QED
      BY ONLY <1>1, <1>2, <3>2, <3>5, <3>6, <3>7 DEF Balance
  <2> QED
    BY <2>1, <2>2
<1>7. CASE RegistrarEjecucion
  <2>1. /\ remoto' = remoto /\ DeCorto(corto, p) = 0 /\ DeCorto(corto', p) = 0
    BY <1>7 DEF RegistrarEjecucion, DeCorto
  <2>2. EnListas(cola', p) = EnListas(cola, p)
    BY <1>7, SinTocarListas DEF RegistrarEjecucion
  <2> QED
    BY ONLY <1>1, <1>2, <2>1, <2>2 DEF Balance
<1>8. CASE DevolverAListos
  <2>1. /\ remoto' = remoto /\ corto.paso = "devolver" /\ corto'.paso = "pausa"
        /\ cola' = [cola EXCEPT !.listos = Append(cola.listos, corto.pid)]
    BY <1>8 DEF DevolverAListos
  <2>2. Veces(Append(cola.listos, corto.pid), p) = Veces(cola.listos, p) + Uno(corto.pid, p)
    BY <1>3, VecesAgregar DEF TipoCorto
  <2>3. Uno(corto.pid, p) \in Int
    BY DEF Uno
  <2>4. EnListas(cola', p) = EnListas(cola, p) + Uno(corto.pid, p)
    BY <2>1, <2>2, <2>3, CambiaListos
  <2>5. DeCorto(corto, p) = Uno(corto.pid, p) /\ DeCorto(corto', p) = 0
    BY <2>1 DEF DeCorto, Uno
  <2> QED
    BY ONLY <1>1, <1>2, <2>1, <2>3, <2>4, <2>5 DEF Balance
<1> QED
  BY <1>4, <1>5, <1>6, <1>7, <1>8 DEF CortoPlazo

-----------------------------------------------------------------------------
(* administrarNuevosProcesos and administrarFinProcesos                    *)

\* A list without its first process.
LEMMA SinElPrimero ==
  ASSUME NEW S, NEW s \in Seq(S), s # <<>>, NEW p
  PROVE  /\ Head(s) \in S /\ -Uno(Head(s), p) \in Int
         /\ Veces(Tail(s), p) = Veces(s, p) + (-Uno(Head(s), p))
<1>1. Head(s) \in S /\ Veces(Tail(s), p) = Veces(s, p) - Uno(Head(s), p)
  BY VecesCola
<1>2. Uno(Head(s), p) \in {0, 1} /\ Veces(s, p) \in Nat
  BY VecesNat DEF Uno
<1> QED
  BY ONLY <1>1, <1>2

LEMMA SinElLugar ==
  ASSUME NEW S, NEW s \in Seq(S), NEW i \in 1..Len(s), NEW p
  PROVE  /\ -Uno(s[i], p) \in Int
         /\ Veces(RemoveAt(s, i), p) = Veces(s, p) + (-Uno(s[i], p))
<1>1. Veces(RemoveAt(s, i), p) = Veces(s, p) - Uno(s[i], p)
  BY VecesQuitar
<1>2. Uno(s[i], p) \in {0, 1} /\ Veces(s, p) \in Nat
  BY VecesNat DEF Uno
<1> QED
  BY ONLY <1>1, <1>2

LEMMA SinElBuscado ==
  ASSUME NEW S, NEW s \in Seq(S), NEW e, Contains(s, e), NEW p
  PROVE  /\ -Uno(e, p) \in Int
         /\ Veces(RemoveFirst(s, e), p) = Veces(s, p) + (-Uno(e, p))
<1>1. Veces(RemoveFirst(s, e), p) = Veces(s, p) - Uno(e, p)
  BY VecesQuitarPrimero
<1>2. Uno(e, p) \in {0, 1} /\ Veces(s, p) \in Nat
  BY VecesNat DEF Uno
<1> QED
  BY ONLY <1>1, <1>2

LEMMA CopiasLargo ==
  ASSUME IInv, IInv', NEW p \in Pids, LargoPlazo
  PROVE  Copias(p)' = Copias(p)
<1>1. Balance(p)
  BY SumaDeCopias
<1>2. UNCHANGED <<remoto, principal, corto, fin, mata>>
  BY DEF LargoPlazo, LargoVerificaPausa, LargoEsperaReanudar, LargoEsperaAdmitir, SacarNuevo,
     CrearProceso, AumentarGrado, RechazarProceso, AjenoAlLargo
<1>3. /\ cola.nuevos \in Seq(Pids) /\ cola.listos \in Seq(Posibles) /\ cola.espera \in Seq(Pids)
      /\ largo \in TipoLargo
  BY DEF IInv, TypeOK, TipoCola
<1>4. CASE LargoVerificaPausa \/ LargoEsperaReanudar \/ LargoEsperaAdmitir \/ AumentarGrado
           \/ (SacarNuevo /\ ~Admisible)
  <2>1. cola' = cola
    BY <1>4 DEF LargoVerificaPausa, LargoEsperaReanudar, LargoEsperaAdmitir, AumentarGrado,
       SacarNuevo
  <2>2. DeLargo(largo', p) = 0 /\ DeLargo(largo, p) = 0
    BY <1>3, <1>4 DEF LargoVerificaPausa, LargoEsperaReanudar, LargoEsperaAdmitir,
       AumentarGrado, SacarNuevo, IrLargo, LargoAcaba, DeLargo, TipoLargo
  <2> QED
    BY ONLY <1>1, <1>2, <2>1, <2>2 DEF Balance
<1>5. CASE SacarNuevo /\ Admisible
  <2> DEFINE q == Head(cola.nuevos)
  <2>1. /\ cola.nuevos # <<>> /\ cola' = [cola EXCEPT !.nuevos = Tail(cola.nuevos)]
        /\ largo.paso = "decidir" /\ largo' = [paso |-> "crear", pid |-> q]
    BY <1>5 DEF SacarNuevo, Admisible
  <2>2. EnListas(cola', p) = EnListas(cola, p) + (-Uno(q, p))
    BY <1>3, <2>1, SinElPrimero, CambiaNuevos
  <2>3. DeLargo(largo, p) = 0 /\ DeLargo(largo', p) = Uno(q, p) /\ Uno(q, p) \in {0, 1}
    BY <2>1 DEF DeLargo, Uno
  <2> HIDE DEF q
  <2> QED
    BY ONLY <1>1, <1>2, <2>2, <2>3 DEF Balance
<1>6. CASE CrearProceso \/ RechazarProceso
  <2>1. largo.paso = "crear" /\ largo.pid \in Pids /\ largo'.paso # "crear"
    BY <1>3, <1>6 DEF CrearProceso, RechazarProceso, IrLargo, LargoAcaba, TipoLargo, IInv, ConProceso
  <2>2. /\ DeLargo(largo, p) = Uno(largo.pid, p) /\ DeLargo(largo', p) = 0
        /\ Uno(largo.pid, p) \in Int
    BY <2>1 DEF DeLargo, Uno
  <2>3. EnListas(cola', p) = EnListas(cola, p) + Uno(largo.pid, p)
    <3>1. CASE CrearProceso
      <4>1. cola' = [cola EXCEPT !.listos = Append(cola.listos, largo.pid)]
        BY <3>1 DEF CrearProceso
      <4>2. Veces(Append(cola.listos, largo.pid), p) = Veces(cola.listos, p) + Uno(largo.pid, p)
        BY <1>3, <2>1, VecesAgregar DEF Posibles
      <4> QED
        BY <2>2, <4>1, <4>2, CambiaListos
    <3>2. CASE RechazarProceso
      <4>1. cola' = [cola EXCEPT !.espera = Append(cola.espera, largo.pid)]
        BY <3>2 DEF RechazarProceso
      <4>2. Veces(Append(cola.espera, largo.pid), p) = Veces(cola.espera, p) + Uno(largo.pid, p)
        BY <1>3, <2>1, VecesAgregar
      <4> QED
        BY <2>2, <4>1, <4>2, CambiaEspera
    <3> QED
      BY <1>6, <3>1, <3>2
  <2> QED
    BY ONLY <1>1, <1>2, <2>2, <2>3 DEF Balance
<1> QED
  BY <1>4, <1>5, <1>6 DEF LargoPlazo

LEMMA CopiasFin ==
  ASSUME IInv, IInv', NEW p \in Pids, FinProcesos
  PROVE  Copias(p)' = Copias(p)
<1>1. Balance(p)
  BY SumaDeCopias
<1>2. UNCHANGED <<remoto, principal, corto, largo, mata>>
  BY DEF FinProcesos, FinEspera, FinTomaEspera, FinSaca, FinTermina, FinSueltaEspera, AjenoAlFin
<1>3. cola.espera \in Seq(Pids) /\ fin \in TipoFin
  BY DEF IInv, TypeOK, TipoCola
<1>4. CASE FinEspera \/ FinTomaEspera \/ FinSueltaEspera \/ (FinTermina /\ ~ConTabla(fin.pid))
  <2>1. cola' = cola /\ DeFin(fin', p) = DeFin(fin, p)
    BY <1>3, <1>4 DEF FinEspera, FinTomaEspera, FinSueltaEspera, FinTermina, DeFin, TipoFin
  <2> QED
    BY ONLY <1>1, <1>2, <2>1 DEF Balance
<1>5. CASE FinSaca
  <2> DEFINE i == fin.indice + 1
             q == cola.espera[i]
  <2>1. i \in 1..Len(cola.espera) /\ fin.paso = "recorrer"
    BY <1>3, <1>5 DEF FinSaca, TipoFin
  <2>2. /\ cola' = [cola EXCEPT !.espera = RemoveAt(cola.espera, i)]
        /\ fin'.paso = "terminar" /\ fin'.pid = q
    BY <1>3, <1>5 DEF FinSaca, TipoFin
  <2> HIDE DEF i
  <2>3. EnListas(cola', p) = EnListas(cola, p) + (-Uno(q, p))
    BY <1>3, <2>1, <2>2, SinElLugar, CambiaEspera
  <2>4. DeFin(fin, p) = 0 /\ DeFin(fin', p) = Uno(q, p) /\ Uno(q, p) \in {0, 1}
    BY <2>1, <2>2 DEF DeFin, Uno
  <2> HIDE DEF q
  <2> QED
    BY ONLY <1>1, <1>2, <2>3, <2>4 DEF Balance
<1>6. CASE FinTermina /\ ConTabla(fin.pid)
  <2>1. /\ fin.paso = "terminar" /\ fin'.paso = "recorrer" /\ fin.pid \in Pids
        /\ cola' = [cola EXCEPT !.terminados = Sumar(cola.terminados, fin.pid)]
    BY <1>6 DEF FinTermina, Terminar, ConTabla, IInv, TypeOK, TipoAdm
  <2>2. EnListas(cola', p) = EnListas(cola, p) + Uno(fin.pid, p)
    BY <2>1, SumaTerminados
  <2>3. DeFin(fin, p) = Uno(fin.pid, p) /\ DeFin(fin', p) = 0
    BY <2>1 DEF DeFin, Uno
  <2> QED
    BY ONLY <1>1, <1>2, <2>2, <2>3 DEF Balance
<1> QED
  BY <1>4, <1>5, <1>6 DEF FinProcesos

-----------------------------------------------------------------------------
(* finalizarProcesoVoluntariamente                                         *)

\* The kill of thread h is the only one that moves.
LEMMA CopiasDeLaMuerte ==
  ASSUME IInv, IInv', NEW p \in Pids, NEW h \in HilosMata,
         \A k \in HilosMata \ {h} : mata'[k] = mata[k],
         UNCHANGED <<remoto, corto, largo, fin>>,
         DePrincipal(principal', p) = DePrincipal(principal, p),
         EnListas(cola', p) + DeMuerte(mata'[h], p) = EnListas(cola, p) + DeMuerte(mata[h], p)
  PROVE  Copias(p)' = Copias(p)
<1>1. Balance(p)
  BY SumaDeCopias
<1>2. EnKills(mata', p) = EnKills(mata, p) - DeMuerte(mata[h], p) + DeMuerte(mata'[h], p)
  BY UnaMuerte
<1>3. DeMuerte(mata[h], p) \in {0, 1} /\ DeMuerte(mata'[h], p) \in {0, 1}
  BY DEF DeMuerte
<1>4. /\ UNCHANGED <<remoto, corto, largo, fin>>
      /\ DePrincipal(principal', p) = DePrincipal(principal, p)
      /\ EnListas(cola', p) + DeMuerte(mata'[h], p) = EnListas(cola, p) + DeMuerte(mata[h], p)
  OBVIOUS
<1> QED
  BY ONLY <1>1, <1>2, <1>3, <1>4 DEF Balance

\* A kill goes on to a step that has the process once it took it from a list.
LEMMA MuerteLleva ==
  ASSUME IInv, NEW p, NEW h \in HilosMata, NEW desde, NEW hasta, IrMata(h, desde, hasta),
         desde \notin {"token", "terminar"}
  PROVE  /\ \A k \in HilosMata \ {h} : mata'[k] = mata[k]
         /\ DeMuerte(mata[h], p) = 0
         /\ hasta \in {"token", "terminar"} => DeMuerte(mata'[h], p) = Uno(mata[h].pid, p)
         /\ hasta \notin {"token", "terminar"} => DeMuerte(mata'[h], p) = 0
<1>1. mata[h] \in TipoMata /\ mata \in [HilosMata -> TipoMata]
  BY DEF IInv, TypeOK
<1>2. /\ mata' = [mata EXCEPT ![h].paso = hasta] /\ mata[h].paso = desde
  BY DEF IrMata
<1>3. /\ \A k \in HilosMata \ {h} : mata'[k] = mata[k]
      /\ mata'[h].paso = hasta /\ mata'[h].pid = mata[h].pid
  BY <1>1, <1>2 DEF TipoMata
<1> QED
  BY <1>2, <1>3 DEF DeMuerte, Uno

\* ... from one of the three lists that are sequences.
LEMMA MuerteSaca ==
  ASSUME IInv, IInv', NEW p \in Pids, NEW h \in HilosMata, NEW desde,
         NEW hasta \in {"token", "terminar"}, IrMata(h, desde, hasta),
         desde \notin {"token", "terminar"},
         \/ /\ Contains(cola.nuevos, mata[h].pid)
            /\ cola' = [cola EXCEPT !.nuevos = RemoveFirst(cola.nuevos, mata[h].pid)]
         \/ /\ Contains(cola.listos, mata[h].pid)
            /\ cola' = [cola EXCEPT !.listos = RemoveFirst(cola.listos, mata[h].pid)]
         \/ /\ Contains(cola.espera, mata[h].pid)
            /\ cola' = [cola EXCEPT !.espera = RemoveFirst(cola.espera, mata[h].pid)],
         UNCHANGED <<remoto, principal, corto, largo, fin>>
  PROVE  Copias(p)' = Copias(p)
<1>1. /\ \A k \in HilosMata \ {h} : mata'[k] = mata[k]
      /\ DeMuerte(mata[h], p) = 0 /\ DeMuerte(mata'[h], p) = Uno(mata[h].pid, p)
  BY MuerteLleva
<1>2. /\ cola.nuevos \in Seq(Pids) /\ cola.listos \in Seq(Posibles) /\ cola.espera \in Seq(Pids)
      /\ EnListas(cola, p) \in Nat
  BY ListasNat DEF IInv, TypeOK, TipoCola
<1>3. EnListas(cola', p) = EnListas(cola, p) + (-Uno(mata[h].pid, p))
  <2>1. CASE /\ Contains(cola.nuevos, mata[h].pid)
             /\ cola' = [cola EXCEPT !.nuevos = RemoveFirst(cola.nuevos, mata[h].pid)]
    <3>1. /\ -Uno(mata[h].pid, p) \in Int
          /\ Veces(RemoveFirst(cola.nuevos, mata[h].pid), p)
               = Veces(cola.nuevos, p) + (-Uno(mata[h].pid, p))
      BY <1>2, <2>1, SinElBuscado
    <3> QED
      BY <2>1, <3>1, CambiaNuevos
  <2>2. CASE /\ Contains(cola.listos, mata[h].pid)
             /\ cola' = [cola EXCEPT !.listos = RemoveFirst(cola.listos, mata[h].pid)]
    <3>1. /\ -Uno(mata[h].pid, p) \in Int
          /\ Veces(RemoveFirst(cola.listos, mata[h].pid), p)
               = Veces(cola.listos, p) + (-Uno(mata[h].pid, p))
      BY <1>2, <2>2, SinElBuscado
    <3> QED
      BY <2>2, <3>1, CambiaListos
  <2>3. CASE /\ Contains(cola.espera, mata[h].pid)
             /\ cola' = [cola EXCEPT !.espera = RemoveFirst(cola.espera, mata[h].pid)]
    <3>1. /\ -Uno(mata[h].pid, p) \in Int
          /\ Veces(RemoveFirst(cola.espera, mata[h].pid), p)
               = Veces(cola.espera, p) + (-Uno(mata[h].pid, p))
      BY <1>2, <2>3, SinElBuscado
    <3> QED
      BY <2>3, <3>1, CambiaEspera
  <2> QED
    BY <2>1, <2>2, <2>3
<1>4. Uno(mata[h].pid, p) \in {0, 1}
  BY DEF Uno
<1>5. EnListas(cola', p) + DeMuerte(mata'[h], p) = EnListas(cola, p) + DeMuerte(mata[h], p)
  BY ONLY <1>1, <1>2, <1>3, <1>4
<1> QED
  BY <1>1, <1>5, CopiasDeLaMuerte

\* A kill that looks in vain, or takes a mutex, moves nothing.
LEMMA MuertePasa ==
  ASSUME IInv, IInv', NEW p \in Pids, NEW h \in HilosMata,
         \A k \in HilosMata \ {h} : mata'[k] = mata[k],
         mata[h].paso \notin {"token", "terminar"}, mata'[h].paso \notin {"token", "terminar"},
         UNCHANGED <<cola, remoto, corto, largo, fin>>,
         DePrincipal(principal', p) = DePrincipal(principal, p)
  PROVE  Copias(p)' = Copias(p)
<1>1. DeMuerte(mata[h], p) = 0 /\ DeMuerte(mata'[h], p) = 0
  BY DEF DeMuerte
<1> QED
  BY <1>1, CopiasDeLaMuerte

\* The kill ends: if it was a console's, the main thread is free again.
LEMMA MuerteAcaba ==
  ASSUME IInv, MataEnSuRutina, NEW p \in Pids, NEW h \in HilosMata, MataAcaba(h),
         mata[h].paso # "nada"
  PROVE  /\ \A k \in HilosMata \ {h} : mata'[k] = mata[k]
         /\ mata'[h].paso = "nada" /\ DeMuerte(mata'[h], p) = 0
         /\ DePrincipal(principal', p) = DePrincipal(principal, p)
<1>1. /\ \A k \in HilosMata \ {h} : mata'[k] = mata[k]
      /\ mata'[h].paso = "nada"
  BY DEF MataAcaba, IInv, TypeOK
<1>2. DeMuerte(mata'[h], p) = 0
  BY <1>1 DEF DeMuerte
<1>3. DePrincipal(principal', p) = DePrincipal(principal, p)
  <2>1. CASE h = "principal"
    <3>1. principal.rutina \notin Rutinas /\ principal'.rutina \notin Rutinas
      BY <2>1, RutinasSon DEF MataEnSuRutina, MataAcaba, SinRutina
    <3> QED
      BY <3>1 DEF DePrincipal, ConPcb, FaltaEn
  <2>2. CASE h # "principal"
    BY <2>2 DEF MataAcaba
  <2> QED
    BY <2>1, <2>2
<1> QED
  BY <1>1, <1>2, <1>3

LEMMA CopiasMatar ==
  ASSUME IInv, IInv', MataEnSuRutina, NEW p \in Pids, NEW h \in HilosMata, Matar(h)
  PROVE  Copias(p)' = Copias(p)
<1>1. UNCHANGED <<remoto, corto, largo, fin>>
  BY DEF Matar, MataToma, MataBuscaEspera, MataBuscaEjecucion, MataBuscaCPU, MataInterrumpe,
     MataBuscaNuevos, MataBuscaListos, MataEsperaToken, MataBuscaBloqueados, MataTermina,
     AjenoAMata
<1>2. mata \in [HilosMata -> TipoMata] /\ EnListas(cola, p) \in Nat
  BY ListasNat DEF IInv, TypeOK
<1>3. CASE MataToma(h) \/ MataBuscaEjecucion(h)
  <2>1. /\ \A k \in HilosMata \ {h} : mata'[k] = mata[k]
        /\ mata[h].paso \notin {"token", "terminar"} /\ mata'[h].paso \notin {"token", "terminar"}
        /\ cola' = cola /\ principal' = principal
    BY <1>2, <1>3 DEF MataToma, MataBuscaEjecucion, IrMata, TipoMata
  <2> QED
    BY <1>1, <2>1, MuertePasa
<1>4. CASE MataBuscaEspera(h)
  <2>1. CASE Contains(cola.espera, mata[h].pid)
    <3>1. /\ IrMata(h, "espera", "terminar") /\ principal' = principal
          /\ cola' = [cola EXCEPT !.espera = RemoveFirst(cola.espera, mata[h].pid)]
      BY <1>4, <2>1 DEF MataBuscaEspera
    <3> QED
      BY <1>1, <2>1, <3>1, MuerteSaca
  <2>2. CASE ~Contains(cola.espera, mata[h].pid)
    <3>1. /\ \A k \in HilosMata \ {h} : mata'[k] = mata[k]
          /\ mata[h].paso \notin {"token", "terminar"} /\ mata'[h].paso \notin {"token", "terminar"}
          /\ cola' = cola /\ principal' = principal
      BY <1>2, <1>4, <2>2 DEF MataBuscaEspera, IrMata, TipoMata
    <3> QED
      BY <1>1, <3>1, MuertePasa
  <2> QED
    BY <2>1, <2>2
<1>5. CASE MataBuscaCPU(h)
  <2>1. /\ \A k \in HilosMata \ {h} : mata'[k] = mata[k]
        /\ mata[h].paso \notin {"token", "terminar"} /\ mata'[h].paso \notin {"token", "terminar"}
        /\ cola' = cola /\ principal' = principal
    BY <1>2, <1>5 DEF MataBuscaCPU, TipoMata
  <2> QED
    BY <1>1, <2>1, MuertePasa
<1>6. CASE MataInterrumpe(h)
  <2>1. mata[h].paso = "interrumpir" /\ cola' = cola
    BY <1>6 DEF MataInterrumpe
  <2>2. CASE MataAcaba(h)
    BY <1>1, <2>1, <2>2, MuerteAcaba, MuertePasa
  <2>3. CASE ~MataAcaba(h)
    <3>1. mata' = mata /\ principal' = principal
      BY <1>6, <2>3 DEF MataInterrumpe
    <3> QED
      BY <1>1, <2>1, <3>1, MuertePasa
  <2> QED
    BY <2>2, <2>3
<1>7. CASE MataBuscaNuevos(h)
  <2>1. CASE Contains(cola.nuevos, mata[h].pid)
    <3>1. /\ IrMata(h, "nuevos", "terminar") /\ principal' = principal
          /\ cola' = [cola EXCEPT !.nuevos = RemoveFirst(cola.nuevos, mata[h].pid)]
      BY <1>7, <2>1 DEF MataBuscaNuevos
    <3> QED
      BY <1>1, <2>1, <3>1, MuerteSaca
  <2>2. CASE ~Contains(cola.nuevos, mata[h].pid)
    <3>1. /\ \A k \in HilosMata \ {h} : mata'[k] = mata[k]
          /\ mata[h].paso \notin {"token", "terminar"} /\ mata'[h].paso \notin {"token", "terminar"}
          /\ cola' = cola /\ principal' = principal
      BY <1>2, <1>7, <2>2 DEF MataBuscaNuevos, IrMata, TipoMata
    <3> QED
      BY <1>1, <3>1, MuertePasa
  <2> QED
    BY <2>1, <2>2
<1>8. CASE MataBuscaListos(h)
  <2>1. mata[h].paso = "listos" /\ principal' = principal
    BY <1>8 DEF MataBuscaListos
  <2>2. CASE NuloAntes(cola.listos, mata[h].pid)
    <3>1. mata' = mata /\ cola' = cola
      BY <1>8, <2>2 DEF MataBuscaListos
    <3> QED
      BY <1>1, <2>1, <3>1, MuertePasa
  <2>3. CASE ~NuloAntes(cola.listos, mata[h].pid) /\ Contains(cola.listos, mata[h].pid)
    <3>1. /\ IrMata(h, "listos", "token")
          /\ cola' = [cola EXCEPT !.listos = RemoveFirst(cola.listos, mata[h].pid)]
      BY <1>8, <2>3 DEF MataBuscaListos, DejarListos
    <3> QED
      BY <1>1, <2>1, <2>3, <3>1, MuerteSaca
  <2>4. CASE ~NuloAntes(cola.listos, mata[h].pid) /\ ~Contains(cola.listos, mata[h].pid)
    <3>1. /\ \A k \in HilosMata \ {h} : mata'[k] = mata[k]
          /\ mata'[h].paso \notin {"token", "terminar"} /\ cola' = cola
      BY <1>2, <1>8, <2>4 DEF MataBuscaListos, DejarListos, IrMata, TipoMata
    <3> QED
      BY <1>1, <2>1, <3>1, MuertePasa
  <2> QED
    BY <2>2, <2>3, <2>4
<1>9. CASE MataEsperaToken(h)
  <2>1. /\ \A k \in HilosMata \ {h} : mata'[k] = mata[k]
        /\ DeMuerte(mata'[h], p) = DeMuerte(mata[h], p)
        /\ cola' = cola /\ principal' = principal
    BY <1>2, <1>9 DEF MataEsperaToken, IrMata, TipoMata, DeMuerte
  <2> QED
    BY <1>1, <2>1, CopiasDeLaMuerte
<1>10. CASE MataBuscaBloqueados(h)
  <2> DEFINE q == mata[h].pid
  <2>1. mata[h].paso = "bloqueados" /\ q \in Posibles /\ principal' = principal
    BY <1>2, <1>10 DEF MataBuscaBloqueados, TipoMata
  <2>2. CASE cola.bloqueados[q] > 0
    <3>1. /\ mata' = [mata EXCEPT ![h].paso = "terminar"]
          /\ cola' = [cola EXCEPT !.bloqueados = Restar(cola.bloqueados, q)]
      BY <1>10, <2>2 DEF MataBuscaBloqueados
    <3>2. /\ \A k \in HilosMata \ {h} : mata'[k] = mata[k]
          /\ DeMuerte(mata[h], p) = 0 /\ DeMuerte(mata'[h], p) = Uno(q, p)
      BY <1>2, <2>1, <3>1 DEF TipoMata, DeMuerte, Uno
    <3>3. EnListas(cola', p)
            = EnListas(cola, p) - IF q = p /\ cola.bloqueados[p] > 0 THEN 1 ELSE 0
      BY <2>1, <3>1, RestaBloqueados
    <3>4. EnListas(cola', p) = EnListas(cola, p) - Uno(q, p)
      BY <2>2, <3>3 DEF Uno
    <3>5. Uno(q, p) \in {0, 1}
      BY DEF Uno
    <3>6. EnListas(cola', p) + DeMuerte(mata'[h], p) = EnListas(cola, p) + DeMuerte(mata[h], p)
      BY ONLY <1>2, <3>2, <3>4, <3>5
    <3> QED
      BY <1>1, <2>1, <3>2, <3>6, CopiasDeLaMuerte
  <2>3. CASE ~(cola.bloqueados[q] > 0)
    <3>1. mata' = mata /\ cola' = cola
      BY <1>10, <2>3 DEF MataBuscaBloqueados
    <3> QED
      BY <1>1, <2>1, <3>1, MuertePasa
  <2> QED
    BY <2>2, <2>3
<1>11. CASE MataTermina(h)
  <2> DEFINE q == mata[h].pid
  <2>1. mata[h].paso = "terminar"
    BY <1>11 DEF MataTermina
  <2>2. CASE ConTabla(q)
    <3>1. /\ q \in Pids /\ MataAcaba(h)
          /\ cola' = [cola EXCEPT !.terminados = Sumar(cola.terminados, q)]
      BY <1>11, <2>2 DEF MataTermina, Terminar, ConTabla, IInv, TypeOK, TipoAdm
    <3>2. EnListas(cola', p) = EnListas(cola, p) + Uno(q, p)
      BY <3>1, SumaTerminados
    <3>3. /\ \A k \in HilosMata \ {h} : mata'[k] = mata[k]
          /\ DeMuerte(mata'[h], p) = 0
          /\ DePrincipal(principal', p) = DePrincipal(principal, p)
      BY <2>1, <3>1, MuerteAcaba
    <3>4. DeMuerte(mata[h], p) = Uno(q, p) /\ Uno(q, p) \in {0, 1}
      BY <2>1 DEF DeMuerte, Uno
    <3>5. EnListas(cola', p) + DeMuerte(mata'[h], p) = EnListas(cola, p) + DeMuerte(mata[h], p)
      BY ONLY <1>2, <3>2, <3>3, <3>4
    <3> QED
      BY <1>1, <3>3, <3>5, CopiasDeLaMuerte
  <2>3. CASE ~ConTabla(q)
    <3>1. mata' = mata /\ cola' = cola /\ principal' = principal
      BY <1>11, <2>3 DEF MataTermina
    <3> QED
      BY <1>1, <3>1, CopiasDeLaMuerte
  <2> QED
    BY <2>2, <2>3
<1> QED
  BY <1>3, <1>4, <1>5, <1>6, <1>7, <1>8, <1>9, <1>10, <1>11 DEF Matar

LEMMA CopiasPedirFin ==
  ASSUME IInv, IInv', NEW p \in Pids, NEW h \in HilosMata, NEW q \in Pids, PedirFin(h, q)
  PROVE  Copias(p)' = Copias(p)
<1>1. UNCHANGED <<cola, remoto, corto, largo, fin>>
  BY DEF PedirFin, AjenoAMata
<1>2. /\ \A k \in HilosMata \ {h} : mata'[k] = mata[k]
      /\ mata[h].paso = "nada" /\ mata'[h].paso = "mutex"
  BY DEF PedirFin, IInv, TypeOK
<1>3. DePrincipal(principal', p) = DePrincipal(principal, p)
  <2>1. CASE h = "principal"
    <3>1. principal.rutina \notin Rutinas /\ principal'.rutina \notin Rutinas
      BY <2>1, RutinasSon DEF PedirFin, Atender
    <3> QED
      BY <3>1 DEF DePrincipal, ConPcb, FaltaEn
  <2>2. CASE h # "principal"
    BY <2>2 DEF PedirFin, HilosMata
  <2> QED
    BY <2>1, <2>2
<1> QED
  BY <1>1, <1>2, <1>3, MuertePasa

-----------------------------------------------------------------------------
(* Every step                                                              *)

\* A new program has one PCB, in colaNuevos.
LEMMA CopiasNuevo ==
  ASSUME IInv, IInv', NEW p \in Pids, GestionarNuevoPrograma
  PROVE  Copias(p)' = Copias(p) + Uno(contadorPid + 1, p)
<1>1. Balance(p)
  BY SumaDeCopias
<1>2. /\ UNCHANGED <<remoto, corto, largo, fin, mata>>
      /\ cola' = [cola EXCEPT !.nuevos = Append(cola.nuevos, contadorPid + 1)]
      /\ principal.rutina = "selector" /\ principal'.rutina = "nuevoPrograma"
      /\ contadorPid + 1 \in Pids /\ cola.nuevos \in Seq(Pids)
  BY DEF GestionarNuevoPrograma, Atender, IInv, TypeOK, TipoCola, Pids
<1>3. DePrincipal(principal, p) = 0
  BY <1>2, EnElSelector, RutinasSon
<1>4. DePrincipal(principal', p) = 0
  <2>1. ~ConPcb(principal')
    <3>1. /\ principal' \in TipoPrincipal
          /\ principal'.rutina \in Rutinas => principal'.paso \in 1..Len(Guion[principal'.rutina])
      BY DEF IInv, TypeOK, ConProceso
    <3> QED
      BY <1>2, <3>1, ManosDe
  <2> QED
    BY <2>1 DEF DePrincipal
<1>5. Uno(contadorPid + 1, p) \in {0, 1}
  BY DEF Uno
<1>6. EnListas(cola', p) = EnListas(cola, p) + Uno(contadorPid + 1, p)
  <2>1. Veces(Append(cola.nuevos, contadorPid + 1), p)
          = Veces(cola.nuevos, p) + Uno(contadorPid + 1, p)
    BY <1>2, VecesAgregar
  <2>2. /\ Uno(contadorPid + 1, p) \in Int
        /\ cola' = [cola EXCEPT !.nuevos = Append(cola.nuevos, contadorPid + 1)]
    BY <1>2, <1>5
  <2> QED
    BY <2>1, <2>2, CambiaNuevos
<1> QED
  BY ONLY <1>1, <1>2, <1>3, <1>4, <1>5, <1>6 DEF Balance

\* Every other step leaves each process in as many places as it was.
LEMMA CopiasSiguen ==
  ASSUME IInv, IInv', CpuOciosaVacia, MataEnSuRutina, NEW p \in Pids, [Next]_vars,
         ~GestionarNuevoPrograma
  PROVE  Copias(p)' = Copias(p)
<1>1. CASE UNCHANGED vars
  <2>1. Balance(p)
    BY SumaDeCopias
  <2>2. UNCHANGED <<cola, remoto, mata, principal, corto, largo, fin>>
    BY <1>1 DEF vars
  <2> QED
    BY ONLY <2>1, <2>2 DEF Balance
<1>2. CASE Usuario
  <2>1. Balance(p)
    BY SumaDeCopias
  <2>2. UNCHANGED <<cola, remoto, mata, principal, corto, largo, fin>>
    BY <1>2 DEF Usuario, Pausar, PausarEspera, Reanudar, PostPlanificacion, PedirGrado,
       ModificarGrado, AjenoAlUsuario
  <2> QED
    BY ONLY <2>1, <2>2 DEF Balance
<1>3. CASE Vivir
  BY <1>2, <1>3, CopiasMensaje, CopiasOperacion, CopiasCorto, CopiasLargo, CopiasFin,
     CopiasMatar, CopiasPedirFin DEF Vivir
<1> QED
  BY <1>1, <1>3 DEF Next, Reposo, Caido

LEMMA UnaOciosa ==
  ASSUME NEW r \in Rutinas, NEW i \in 1..Len(Guion[r]), NEW j \in 1..Len(Guion[r]),
         Guion[r][i] = "ociosa", Guion[r][j] = "ociosa"
  PROVE  i = j
<1>1. CASE r \in {"nuevoPrograma", "finProceso"}
  BY <1>1, RutinasSon
<1>2. CASE r \in {"finQuantum", "finQuantumCierre"}
  BY <1>2, RutinasSon
<1>3. CASE r \in {"excepcion", "stackOverflow"}
  BY <1>3, RutinasSon
<1>4. CASE r = "bloqueo"
  BY <1>4, RutinasSon
<1>5. CASE r = "expropiado"
  BY <1>5, RutinasSon
<1>6. CASE r = "desbloqueo"
  BY <1>6, RutinasSon
<1> QED
  BY <1>1, <1>2, <1>3, <1>4, <1>5, <1>6, RutinasSon

\* An operation of the main thread leaves less to do, and marks a CPU once.
LEMMA FaltaMenos ==
  ASSUME IInv, NEW op, Paso(op), op # "ninguna"
  PROVE  /\ op = "ociosa" => Falta({"ociosa"}) /\ ~Falta({"ociosa"})'
         /\ Falta({"ociosa"})' => Falta({"ociosa"}) /\ principal'.cpu = principal.cpu
<1> DEFINE r == principal.rutina
           n == Len(Guion[r])
<1>1. r \in Rutinas /\ principal.paso \in 1..n /\ op = Guion[r][principal.paso]
  BY DEF Paso, Operacion, IInv, ConProceso
<1>2. principal \in TipoPrincipal /\ n \in Nat
  BY <1>1, Guiones DEF IInv, TypeOK
<1>3. \/ /\ principal.paso < n /\ principal'.paso = principal.paso + 1
         /\ principal'.rutina = r /\ principal'.cpu = principal.cpu
      \/ principal.paso = n /\ principal'.rutina \notin Rutinas
  BY <1>1, <1>2, RutinasSon DEF Paso, SinRutina, TipoPrincipal
<1>4. Falta({"ociosa"}) <=> \E i \in principal.paso..n : Guion[r][i] = "ociosa"
  BY <1>1 DEF Falta
<1>5. Falta({"ociosa"})' <=> /\ principal'.rutina \in Rutinas
                            /\ \E i \in principal'.paso..Len(Guion[principal'.rutina]) :
                                 Guion[principal'.rutina][i] = "ociosa"
  BY DEF Falta
<1>6. ASSUME Falta({"ociosa"})' PROVE Falta({"ociosa"}) /\ principal'.cpu = principal.cpu
  BY <1>1, <1>2, <1>3, <1>4, <1>5, <1>6
<1>7. ASSUME op = "ociosa" PROVE Falta({"ociosa"}) /\ ~Falta({"ociosa"})'
  <2>1. Falta({"ociosa"})
    <3>1. principal.paso \in principal.paso..n /\ Guion[r][principal.paso] = "ociosa"
      BY <1>1, <1>2, <1>7 DEF TipoPrincipal
    <3> QED
      BY ONLY <1>4, <3>1
  <2>2. ASSUME Falta({"ociosa"})' PROVE FALSE
    <3>1. PICK i \in (principal.paso + 1)..n : Guion[r][i] = "ociosa"
      BY <1>3, <1>5, <2>2
    <3>2. i \in 1..n /\ i # principal.paso
      BY <1>1, <1>2, <3>1
    <3> QED
      BY <1>1, <1>7, <3>1, <3>2, UnaOciosa
  <2> QED
    BY <2>1, <2>2
<1> QED
  BY <1>6, <1>7

\* The entry of listaCPU against the CPU process.
CpuVacia(r, k) ==
  /\ r.pid # Nadie => k.estado = "EJECUTANDO"
  /\ r.fase = "apagada" => r.pid = Nadie /\ ~k.alta
  /\ r.fase \notin {"apagada", "cerrada"} => k.alta

MarcaDespues ==
  Falta({"ociosa"}) =>
    /\ principal.cpu \in CPUs /\ remoto[principal.cpu].pid = Nadie
    /\ cpu[principal.cpu].estado = "EJECUTANDO"

LEMMA CpuOciosaSon ==
  /\ CpuOciosaVacia <=> (\A c \in CPUs : CpuVacia(remoto[c], cpu[c])) /\ MarcaDespues
  /\ CpuOciosaVacia' <=> (\A c \in CPUs : CpuVacia(remoto'[c], cpu'[c])) /\ MarcaDespues'
  BY DEF CpuOciosaVacia, CpuVacia, MarcaDespues

\* Only the CPU c changes.
LEMMA CpuVaciaUna ==
  ASSUME CpuOciosaVacia, NEW c \in CPUs,
         \A d \in CPUs \ {c} : remoto'[d] = remoto[d] /\ cpu'[d] = cpu[d],
         CpuVacia(remoto'[c], cpu'[c]), MarcaDespues'
  PROVE  CpuOciosaVacia'
<1>1. \A d \in CPUs : CpuVacia(remoto'[d], cpu'[d])
  BY CpuOciosaSon
<1> QED
  BY <1>1, CpuOciosaSon

LEMMA SelectorNoMarca ==
  /\ principal.rutina \notin Rutinas => MarcaDespues
  /\ principal'.rutina \notin Rutinas => MarcaDespues'
  BY DEF MarcaDespues, Falta

\* The process leaves a CPU whose entry says EJECUTANDO.
LEMMA CpuDejar ==
  ASSUME IInv, IInv', CpuOciosaVacia, NEW c \in CPUs, NEW fases \in SUBSET FasesConProceso,
         NEW r \in RutinasConPcb, NEW s, DejarCPU(c, fases, r, s),
         \A d \in CPUs \ {c} : cpu'[d] = cpu[d], cpu'[c].alta = cpu[c].alta,
         r \notin {"finQuantum", "finQuantumCierre"} => cpu' = cpu
  PROVE  CpuOciosaVacia'
<1>1. /\ remoto' = [remoto EXCEPT ![c] = Desocupada(remoto[c])] /\ remoto[c].pid \in Pids
      /\ principal'.rutina = r /\ principal'.cpu = c /\ remoto[c].fase \in FasesConProceso
  BY DEF DejarCPU, Atender, IInv, ConProceso
<1>2. /\ \A d \in CPUs \ {c} : remoto'[d] = remoto[d] /\ cpu'[d] = cpu[d]
      /\ remoto'[c].pid = Nadie /\ remoto'[c].fase \in {"saliendo", "libre"}
  BY <1>1 DEF IInv, TypeOK, TipoRemoto, Desocupada
<1>3. /\ cpu[c].estado = "EJECUTANDO" /\ cpu[c].alta
  BY <1>1 DEF CpuOciosaVacia, Nadie, Pids, FasesConProceso
<1>4. CpuVacia(remoto'[c], cpu'[c])
  BY <1>2, <1>3 DEF CpuVacia
<1>5. MarcaDespues'
  <2>1. CASE r \in {"finQuantum", "finQuantumCierre"}
    <3>1. /\ principal'.rutina \in {"finQuantum", "finQuantumCierre"}
          /\ principal'.paso \in 1..Len(Guion[principal'.rutina])
      BY <1>1, <2>1, RutinasSon DEF IInv, ConProceso
    <3>2. ~Falta({"ociosa"})'
      BY <3>1, RutinasSon DEF Falta
    <3> QED
      BY <3>2 DEF MarcaDespues
  <2>2. CASE cpu' = cpu
    BY <1>1, <1>2, <1>3, <2>2 DEF MarcaDespues
  <2> QED
    BY <2>1, <2>2
<1> QED
  BY <1>2, <1>4, <1>5, CpuVaciaUna

LEMMA CpuMensaje ==
  ASSUME IInv, IInv', CpuOciosaVacia, NEW c \in CPUs, MensajeCPU(c) \/ SignalCPU(c)
  PROVE  CpuOciosaVacia'
<1>1. /\ remoto \in [CPUs -> TipoRemoto] /\ cpu \in [CPUs -> TipoCpu]
      /\ remoto[c] \in TipoRemoto /\ cpu[c] \in TipoCpu
  BY DEF IInv, TypeOK
<1>2. CpuVacia(remoto[c], cpu[c]) /\ MarcaDespues
  BY CpuOciosaSon
<1>3. ASSUME NEW f, remoto' = [remoto EXCEPT ![c].fase = f], f \notin {"apagada", "cerrada"},
             remoto[c].fase \notin {"apagada", "cerrada"}, cpu' = cpu, MarcaDespues'
      PROVE  CpuOciosaVacia'
  <2>1. /\ \A d \in CPUs \ {c} : remoto'[d] = remoto[d] /\ cpu'[d] = cpu[d]
        /\ remoto'[c].pid = remoto[c].pid /\ remoto'[c].fase = f /\ cpu'[c] = cpu[c]
    BY <1>1, <1>3 DEF TipoRemoto
  <2>2. CpuVacia(remoto'[c], cpu'[c])
    BY <1>2, <1>3, <2>1 DEF CpuVacia
  <2> QED
    BY <1>3, <2>1, <2>2, CpuVaciaUna
<1>4. CASE GestionarNuevaCPU(c)
  <2>1. /\ \A d \in CPUs \ {c} : remoto'[d] = remoto[d] /\ cpu'[d] = cpu[d]
        /\ remoto'[c].pid = remoto[c].pid /\ remoto'[c].fase = "libre"
        /\ cpu'[c].alta = TRUE /\ remoto[c].fase = "apagada"
    BY <1>1, <1>4 DEF GestionarNuevaCPU, TipoRemoto
  <2>2. CpuVacia(remoto'[c], cpu'[c])
    BY <1>2, <2>1 DEF CpuVacia
  <2>3. principal'.rutina \notin Rutinas
    BY <1>4, RutinasSon DEF GestionarNuevaCPU, hilos
  <2> QED
    BY <2>1, <2>2, <2>3, CpuVaciaUna, SelectorNoMarca
<1>5. CASE FinProceso(c)
  BY <1>5, CpuDejar DEF FinProceso, DejarYRemover, RutinasConPcb, FasesConProceso, EnMarcha
<1>6. CASE FinQuantum(c)
  <2>1. PICK r \in {"finQuantum", "finQuantumCierre"} : DejarCPU(c, {"finQuantum"}, r, "ninguno")
    BY <1>6 DEF FinQuantum
  <2>2. (\A d \in CPUs \ {c} : cpu'[d] = cpu[d]) /\ cpu'[c].alta = cpu[c].alta
    BY <1>1, <1>6 DEF FinQuantum, TipoCpu
  <2>3. {"finQuantum"} \in SUBSET FasesConProceso /\ r \in RutinasConPcb
    BY DEF FasesConProceso, RutinasConPcb
  <2> QED
    BY <2>1, <2>2, <2>3, CpuDejar
<1>7. CASE ProcesoExpropiado(c)
  BY <1>7, CpuDejar DEF ProcesoExpropiado, DejarYRemover, RutinasConPcb, FasesConProceso, EnMarcha
<1>8. ASSUME NEW r \in {"excepcion", "stackOverflow"}, Excepcion(c, r)
      PROVE  CpuOciosaVacia'
  BY <1>8, CpuDejar DEF Excepcion, DejarYRemover, RutinasConPcb, FasesConProceso, EnMarcha
<1>9. ASSUME NEW s \in Semaforos, WaitSemaforo(c, s)
      PROVE  CpuOciosaVacia'
  <2>1. CASE DejarYRemover(c, EnMarcha, "bloqueo", s)
    BY <2>1, CpuDejar DEF DejarYRemover, RutinasConPcb, FasesConProceso, EnMarcha
  <2>2. CASE ~DejarYRemover(c, EnMarcha, "bloqueo", s)
    <3>1. /\ remoto' = [remoto EXCEPT ![c].fase = "consulta"] /\ remoto[c].fase \in EnMarcha
          /\ cpu' = cpu /\ principal'.rutina \notin Rutinas
      BY <1>9, <2>2, RutinasSon DEF WaitSemaforo, hilos
    <3>2. MarcaDespues' /\ "consulta" \notin {"apagada", "cerrada"}
      BY <3>1, SelectorNoMarca
    <3> QED
      BY <3>1, <3>2, <1>3 DEF EnMarcha
  <2> QED
    BY <2>1, <2>2
<1>10. ASSUME NEW s \in Semaforos, SignalSemaforo(c, s)
       PROVE  CpuOciosaVacia'
  <2>1. /\ remoto' = [remoto EXCEPT ![c].fase = "consulta"] /\ remoto[c].fase \in EnMarcha
        /\ cpu' = cpu
        /\ principal'.rutina = "desbloqueo" \/ principal'.rutina \notin Rutinas
    BY <1>10, RutinasSon DEF SignalSemaforo, Atender
  <2>2. MarcaDespues'
    <3>1. CASE principal'.rutina = "desbloqueo"
      <4>1. principal'.paso \in 1..3
        BY <3>1, RutinasSon DEF IInv, ConProceso
      <4>2. ~Falta({"ociosa"})'
        BY <3>1, <4>1, RutinasSon DEF Falta
      <4> QED
        BY <4>2 DEF MarcaDespues
    <3> QED
      BY <2>1, <3>1, SelectorNoMarca
  <2>3. /\ "consulta" \notin {"apagada", "cerrada"}
        /\ remoto[c].fase \notin {"apagada", "cerrada"}
    BY <2>1 DEF EnMarcha
  <2> QED
    BY ONLY <2>1, <2>2, <2>3, <1>3
<1>11. CASE VerificarInterrupciones(c)
  <2>1. PICK f \in {"expropiada", "ejecuta", "finQuantum"} :
          remoto' = [remoto EXCEPT ![c].fase = f]
    BY <1>11 DEF VerificarInterrupciones
  <2>2. /\ remoto[c].fase \in EnMarcha \cup {"consulta"} /\ cpu' = cpu
        /\ principal'.rutina \notin Rutinas
    BY <1>11, RutinasSon DEF VerificarInterrupciones
  <2> QED
    BY <2>1, <2>2, <1>3, SelectorNoMarca DEF EnMarcha
<1>12. CASE GestionarCierreCpu(c)
  <2>1. /\ \A d \in CPUs \ {c} : remoto'[d] = remoto[d] /\ cpu'[d] = cpu[d]
        /\ remoto'[c].pid = remoto[c].pid /\ remoto'[c].fase = "cerrada"
        /\ cpu'[c].estado = cpu[c].estado
    BY <1>1, <1>12 DEF GestionarCierreCpu, TipoRemoto, TipoCpu
  <2>2. CpuVacia(remoto'[c], cpu'[c])
    BY <1>2, <2>1 DEF CpuVacia
  <2>3. principal'.rutina \notin Rutinas
    BY <1>12, RutinasSon DEF GestionarCierreCpu, hilos
  <2> QED
    BY <2>1, <2>2, <2>3, CpuVaciaUna, SelectorNoMarca
<1>13. CASE SignalCPU(c)
  <2>4. PICK f \in AlCerrar(remoto[c].fase) :
          remoto' = [remoto EXCEPT ![c].cerrando = TRUE, ![c].fase = f]
    BY <1>13 DEF SignalCPU
  <2>5. /\ f = remoto[c].fase \/ f = "ejecuta" \/ f = "saliendo"
        /\ remoto[c].fase = "cerrada" => f = "cerrada"
    BY <1>1, FaseAlCerrar DEF TipoRemoto
  <2>1. /\ \A d \in CPUs : remoto'[d].pid = remoto[d].pid
        /\ \A d \in CPUs \ {c} : remoto'[d] = remoto[d] /\ cpu'[d] = cpu[d]
        /\ remoto'[c].fase \notin {"apagada"}
        /\ remoto[c].fase # "cerrada" => remoto'[c].fase # "cerrada"
        /\ remoto[c].fase = "cerrada" => remoto'[c].fase = "cerrada"
        /\ remoto[c].fase # "apagada" /\ cpu' = cpu /\ principal' = principal
    BY <1>1, <1>13, <2>4, <2>5 DEF SignalCPU, TipoRemoto, hilos
  <2>2. CpuVacia(remoto'[c], cpu'[c])
    BY <1>2, <2>1 DEF CpuVacia
  <2>3. MarcaDespues'
    BY <1>2, <2>1 DEF MarcaDespues, Falta
  <2> QED
    BY <2>1, <2>2, <2>3, CpuVaciaUna
<1> QED
  BY <1>4, <1>5, <1>6, <1>7, <1>8, <1>9, <1>10, <1>11, <1>12, <1>13 DEF MensajeCPU

LEMMA CpuOperacion ==
  ASSUME IInv, IInv', CpuOciosaVacia, OperacionPrincipal
  PROVE  CpuOciosaVacia'
<1>1. /\ remoto \in [CPUs -> TipoRemoto] /\ cpu \in [CPUs -> TipoCpu]
  BY DEF IInv, TypeOK
<1>2. remoto' = remoto
  BY DEF OperacionPrincipal, EncolarCodigo, CambiarEstadoCpu, RemoverDeColaEjecucion,
     EncolarEspera, EncolarListo, EncolarBloqueado, EncolarProcesoBloqueadoASemaforo,
     DesbloquearProceso, DevolverSemaforo, QuitarInterrupcion, AjenoAlPrincipal
<1>3. CASE CambiarEstadoCpu
  <2>1. /\ Paso("ociosa") /\ "ociosa" # "ninguna"
        /\ cpu' = [cpu EXCEPT ![principal.cpu].estado = "OCIOSA"]
    BY <1>3 DEF CambiarEstadoCpu
  <2>2. Falta({"ociosa"}) /\ ~Falta({"ociosa"})'
    BY <2>1, FaltaMenos
  <2>3. /\ principal.cpu \in CPUs /\ remoto[principal.cpu].pid = Nadie
        /\ \A c \in CPUs : CpuVacia(remoto[c], cpu[c])
    BY <2>2, CpuOciosaSon DEF MarcaDespues
  <2>4. /\ \A d \in CPUs \ {principal.cpu} : remoto'[d] = remoto[d] /\ cpu'[d] = cpu[d]
        /\ remoto'[principal.cpu] = remoto[principal.cpu]
        /\ cpu'[principal.cpu].alta = cpu[principal.cpu].alta
    BY <1>1, <1>2, <2>1, <2>3 DEF TipoCpu
  <2>5. CpuVacia(remoto'[principal.cpu], cpu'[principal.cpu]) /\ MarcaDespues'
    BY <2>2, <2>3, <2>4 DEF CpuVacia, MarcaDespues
  <2> DEFINE c == principal.cpu
  <2>6. /\ c \in CPUs /\ CpuVacia(remoto'[c], cpu'[c])
        /\ \A d \in CPUs \ {c} : remoto'[d] = remoto[d] /\ cpu'[d] = cpu[d]
    BY <2>3, <2>4, <2>5
  <2>7. \A d \in CPUs : CpuVacia(remoto'[d], cpu'[d])
    BY <2>3, <2>6
  <2> QED
    BY <2>5, <2>7, CpuOciosaSon
<1>4. CASE ~CambiarEstadoCpu
  <2>1. cpu' = cpu
    BY <1>4 DEF OperacionPrincipal, EncolarCodigo, RemoverDeColaEjecucion,
       EncolarEspera, EncolarListo, EncolarBloqueado, EncolarProcesoBloqueadoASemaforo,
       DesbloquearProceso, DevolverSemaforo, QuitarInterrupcion
  <2>2. Falta({"ociosa"})' => Falta({"ociosa"}) /\ principal'.cpu = principal.cpu
    <3>1. CASE DesbloquearProceso
      <4>1. /\ principal.rutina \in Rutinas /\ principal.paso \in 1..Len(Guion[principal.rutina])
            /\ Guion[principal.rutina][principal.paso] = "desbloquear"
        BY <3>1 DEF DesbloquearProceso, Operacion, IInv, ConProceso
      <4>2. principal.rutina = "desbloqueo" /\ principal'.rutina = "desbloqueo"
        BY <3>1, <4>1, SoloDesbloqueo DEF DesbloquearProceso, IInv, TypeOK, TipoPrincipal
      <4>3. principal'.paso \in 1..3
        BY <4>2, RutinasSon DEF IInv, ConProceso
      <4> QED
        BY <4>2, <4>3, RutinasSon DEF Falta
    <3>2. CASE ~DesbloquearProceso
      <4>1. PICK op \in {"aCodigos", "removerEjec", "aEspera", "aListos", "aBloqueados",
                         "aSemaforo", "devolverSem", "desinterrumpir"} : Paso(op)
        BY <1>4, <3>2 DEF OperacionPrincipal, EncolarCodigo, RemoverDeColaEjecucion,
           EncolarEspera, EncolarListo, EncolarBloqueado, EncolarProcesoBloqueadoASemaforo,
           DevolverSemaforo, QuitarInterrupcion
      <4>2. op # "ninguna"
        OBVIOUS
      <4> QED
        BY <4>1, <4>2, FaltaMenos
    <3> QED
      BY <3>1, <3>2
  <2> QED
    BY <1>2, <2>1, <2>2 DEF CpuOciosaVacia
<1> QED
  BY <1>3, <1>4

LEMMA CpuEnviar ==
  ASSUME IInv, IInv', CpuOciosaVacia, EnviarPcb
  PROVE  CpuOciosaVacia'
<1>1. /\ remoto \in [CPUs -> TipoRemoto] /\ cpu \in [CPUs -> TipoCpu] /\ principal' = principal
  BY DEF IInv, TypeOK, EnviarPcb, AjenoAlCorto
<1>2. CASE UNCHANGED <<cpu, remoto>>
  BY <1>1, <1>2 DEF CpuOciosaVacia, Falta
<1>3. ASSUME NEW c \in Ociosas,
             cpu' = [cpu EXCEPT ![c].estado = "EJECUTANDO", ![c].pid = corto.pid],
             remoto' = [remoto EXCEPT ![c] = Entregada(remoto[c], corto.pid)]
      PROVE  CpuOciosaVacia'
  <2>1. c \in CPUs /\ cpu[c].alta /\ cpu[c].estado = "OCIOSA"
    BY <1>3 DEF Ociosas
  <2>2. /\ \A d \in CPUs \ {c} : remoto'[d] = remoto[d] /\ cpu'[d] = cpu[d]
        /\ cpu'[c].alta = cpu[c].alta /\ cpu'[c].estado = "EJECUTANDO"
        /\ remoto'[c].fase = IF remoto[c].fase = "libre" THEN "recibe" ELSE remoto[c].fase
    BY <1>1, <1>3, <2>1 DEF Entregada, TipoRemoto, TipoCpu
  <2>3. CpuVacia(remoto[c], cpu[c]) /\ MarcaDespues
    BY <2>1, CpuOciosaSon
  <2>4. CpuVacia(remoto'[c], cpu'[c])
    BY <2>1, <2>2, <2>3 DEF CpuVacia
  <2>5. MarcaDespues'
    BY <1>1, <2>1, <2>2, <2>3 DEF MarcaDespues, Falta
  <2> QED
    BY <2>1, <2>2, <2>4, <2>5, CpuVaciaUna
<1> QED
  BY <1>2, <1>3 DEF EnviarPcb

\* Only the kill a console asks for is a handler of the main thread.
LEMMA PedirFinAvisa ==
  ASSUME NEW h \in HilosMata, NEW q \in Pids, PedirFin(h, q)
  PROVE  /\ h = "principal" => principal.rutina = "selector" /\ principal'.rutina = "matar"
         /\ h # "principal" => principal' = principal
<1>1. CASE h = "principal"
  BY <1>1 DEF PedirFin, Atender
<1>2. CASE h = "usuario"
  BY <1>2 DEF PedirFin
<1>3. CASE h = "abortador"
  BY <1>3 DEF PedirFin
<1> QED
  BY <1>1, <1>2, <1>3 DEF HilosMata

\* No step marks idle a CPU that has a process.
LEMMA CpuOciosaSigue ==
  ASSUME IInv, IInv', CpuOciosaVacia, [Next]_vars
  PROVE  CpuOciosaVacia'
<1>1. CASE UNCHANGED <<cpu, remoto, principal>>
  BY <1>1 DEF CpuOciosaVacia, Falta
<1>2. CASE UNCHANGED <<cpu, remoto>> /\ principal'.rutina \notin Rutinas
  <2>1. (\A c \in CPUs : CpuVacia(remoto'[c], cpu'[c])) /\ MarcaDespues'
    BY <1>2, CpuOciosaSon, SelectorNoMarca
  <2> QED
    BY <2>1, CpuOciosaSon
<1>3. CASE GestionarNuevoPrograma
  <2>1. UNCHANGED <<cpu, remoto>> /\ principal'.rutina = "nuevoPrograma" /\ principal'.paso = 1
    BY <1>3 DEF GestionarNuevoPrograma, Atender
  <2>2. ~Falta({"ociosa"})'
    BY <2>1, RutinasSon DEF Falta
  <2> QED
    BY <2>1, <2>2 DEF CpuOciosaVacia
<1>4. CASE CortoPlazo
  <2>1. CASE ~EnviarPcb
    BY <1>4, <2>1, <1>1 DEF CortoPlazo, CortoVerificaPausa, CortoEsperaReanudar, CortoEsperaCPU,
       CortoEsperaListo, SacarListo, MirarOciosas, RegistrarEjecucion, DevolverAListos,
       AjenoAlCorto
  <2> QED
    BY <2>1, CpuEnviar
<1>5. CASE LargoPlazo
  BY <1>5, <1>1 DEF LargoPlazo, LargoVerificaPausa, LargoEsperaReanudar, LargoEsperaAdmitir,
     SacarNuevo, CrearProceso, AumentarGrado, RechazarProceso, AjenoAlLargo
<1>6. CASE FinProcesos
  BY <1>6, <1>1 DEF FinProcesos, FinEspera, FinTomaEspera, FinSaca, FinTermina,
     FinSueltaEspera, AjenoAlFin
<1>7. CASE Usuario \/ UNCHANGED vars
  BY <1>7, <1>1 DEF Usuario, Pausar, PausarEspera, Reanudar, PostPlanificacion, PedirGrado,
     ModificarGrado, AjenoAlUsuario, vars
<1>8. ASSUME NEW h \in HilosMata, Matar(h)
      PROVE  CpuOciosaVacia'
  <2>1. UNCHANGED <<cpu, remoto>> /\ (principal' = principal \/ principal' = SinRutina)
    BY <1>8 DEF Matar, MataToma, MataBuscaEspera, MataBuscaEjecucion, MataBuscaCPU,
       MataInterrumpe, MataBuscaNuevos, MataBuscaListos, MataEsperaToken,
       MataBuscaBloqueados, MataTermina, MataAcaba, AjenoAMata
  <2> QED
    BY <2>1, <1>1, <1>2, RutinasSon DEF SinRutina
<1>9. ASSUME NEW h \in HilosMata, NEW q \in Pids, PedirFin(h, q)
      PROVE  CpuOciosaVacia'
  <2>1. UNCHANGED <<cpu, remoto>>
    BY <1>9 DEF PedirFin, AjenoAMata
  <2>2. principal' = principal \/ principal'.rutina = "matar"
    BY <1>9, PedirFinAvisa
  <2> QED
    BY <2>1, <2>2, <1>1, <1>2, RutinasSon
<1> QED
  BY <1>3, <1>4, <1>5, <1>6, <1>7, <1>8, <1>9, CpuMensaje, CpuOperacion
     DEF Next, Vivir, Reposo, Caido

-----------------------------------------------------------------------------
(* The other parts of the invariant                                        *)

\* A kill of the main thread begins and ends with its handler.
LEMMA MataEnSuRutinaSigue ==
  ASSUME IInv, IInv', MataEnSuRutina, [Next]_vars
  PROVE  MataEnSuRutina'
<1>1. mata \in [HilosMata -> TipoMata] /\ "principal" \in HilosMata
  BY DEF IInv, TypeOK, HilosMata
<1>2. ASSUME NEW h \in HilosMata, Matar(h)
      PROVE  MataEnSuRutina'
  <2>1. mata[h].paso # "nada"
    BY <1>2 DEF Matar, MataToma, MataBuscaEspera, MataBuscaEjecucion, MataBuscaCPU,
       MataInterrumpe, MataBuscaNuevos, MataBuscaListos, DejarListos, MataEsperaToken,
       MataBuscaBloqueados, MataTermina, IrMata
  <2>2. \/ principal' = principal
        \/ h = "principal" /\ mata'[h].paso = "nada"
    <3>1. CASE MataAcaba(h)
      BY <1>1, <3>1 DEF MataAcaba
    <3>2. CASE ~MataAcaba(h)
      BY <1>2, <3>2 DEF Matar, MataToma, MataBuscaEspera, MataBuscaEjecucion, MataBuscaCPU,
         MataInterrumpe, MataBuscaNuevos, MataBuscaListos, DejarListos, MataEsperaToken,
         MataBuscaBloqueados, MataTermina
    <3> QED
      BY <3>1, <3>2
  <2>3. CASE h # "principal"
    <3>1. mata'["principal"] = mata["principal"]
      BY <1>1, <1>2, <2>3 DEF Matar, MataToma, MataBuscaEspera, MataBuscaEjecucion,
         MataBuscaCPU, MataInterrumpe, MataBuscaNuevos, MataBuscaListos, DejarListos,
         MataEsperaToken, MataBuscaBloqueados, MataTermina, IrMata, MataAcaba
    <3> QED
      BY <2>2, <2>3, <3>1 DEF MataEnSuRutina
  <2> QED
    BY <2>1, <2>2, <2>3 DEF MataEnSuRutina
<1>3. ASSUME NEW h \in HilosMata, NEW q \in Pids, PedirFin(h, q)
      PROVE  MataEnSuRutina'
  <2>1. h # "principal" => mata'["principal"] = mata["principal"]
    BY <1>1, <1>3 DEF PedirFin
  <2> QED
    BY <1>3, <2>1, PedirFinAvisa DEF MataEnSuRutina
<1>4. CASE mata' = mata /\ (principal' = principal \/ principal.rutina # "matar")
  BY <1>4 DEF MataEnSuRutina
<1>5. ASSUME NEW c \in CPUs, MensajeCPU(c) \/ SignalCPU(c)
      PROVE  MataEnSuRutina'
  BY <1>4, <1>5 DEF MensajeCPU, GestionarNuevaCPU, FinProceso, FinQuantum, ProcesoExpropiado,
     Excepcion, WaitSemaforo, SignalSemaforo, VerificarInterrupciones, GestionarCierreCpu,
     SignalCPU, DejarYRemover, DejarCPU, Atender, hilos
<1>6. CASE OperacionPrincipal
  <2>1. Operacion # "ninguna"
    BY <1>6 DEF OperacionPrincipal, EncolarCodigo, CambiarEstadoCpu, RemoverDeColaEjecucion,
       EncolarEspera, EncolarListo, EncolarBloqueado, EncolarProcesoBloqueadoASemaforo,
       DesbloquearProceso, DevolverSemaforo, QuitarInterrupcion, Paso
  <2>2. principal.rutina # "matar" /\ mata' = mata
    BY <1>6, <2>1, RutinasSon DEF OperacionPrincipal, EncolarCodigo, CambiarEstadoCpu,
       RemoverDeColaEjecucion, EncolarEspera, EncolarListo, EncolarBloqueado,
       EncolarProcesoBloqueadoASemaforo, DesbloquearProceso, DevolverSemaforo,
       QuitarInterrupcion, AjenoAlPrincipal, Operacion
  <2> QED
    BY <1>4, <2>2
<1>7. CASE GestionarNuevoPrograma
  BY <1>4, <1>7 DEF GestionarNuevoPrograma, Atender
<1>8. CASE CortoPlazo
  BY <1>4, <1>8 DEF CortoPlazo, CortoVerificaPausa, CortoEsperaReanudar, CortoEsperaCPU,
     CortoEsperaListo, SacarListo, MirarOciosas, EnviarPcb, RegistrarEjecucion,
     DevolverAListos, AjenoAlCorto
<1>9. CASE LargoPlazo
  BY <1>4, <1>9 DEF LargoPlazo, LargoVerificaPausa, LargoEsperaReanudar, LargoEsperaAdmitir,
     SacarNuevo, CrearProceso, AumentarGrado, RechazarProceso, AjenoAlLargo
<1>10. CASE FinProcesos
  BY <1>4, <1>10 DEF FinProcesos, FinEspera, FinTomaEspera, FinSaca, FinTermina,
     FinSueltaEspera, AjenoAlFin
<1>11. CASE Usuario \/ UNCHANGED vars
  BY <1>4, <1>11 DEF Usuario, Pausar, PausarEspera, Reanudar, PostPlanificacion,
     PedirGrado, ModificarGrado, AjenoAlUsuario, vars
<1> QED
  BY <1>2, <1>3, <1>5, <1>6, <1>7, <1>8, <1>9, <1>10, <1>11 DEF Next, Vivir, Reposo, Caido

\* Only a console that starts a program takes a new pid.
LEMMA PidsDados ==
  ASSUME [Next]_vars, ~GestionarNuevoPrograma
  PROVE  contadorPid' = contadorPid
<1>1. ASSUME NEW c \in CPUs, MensajeCPU(c) \/ SignalCPU(c)
      PROVE  contadorPid' = contadorPid
  BY <1>1 DEF MensajeCPU, GestionarNuevaCPU, FinProceso, FinQuantum, ProcesoExpropiado,
     Excepcion, WaitSemaforo, SignalSemaforo, VerificarInterrupciones, GestionarCierreCpu,
     SignalCPU, DejarYRemover, DejarCPU
<1>2. CASE OperacionPrincipal
  BY <1>2 DEF OperacionPrincipal, EncolarCodigo, CambiarEstadoCpu, RemoverDeColaEjecucion,
     EncolarEspera, EncolarListo, EncolarBloqueado, EncolarProcesoBloqueadoASemaforo,
     DesbloquearProceso, DevolverSemaforo, QuitarInterrupcion, AjenoAlPrincipal
<1>3. CASE CortoPlazo
  BY <1>3 DEF CortoPlazo, CortoVerificaPausa, CortoEsperaReanudar, CortoEsperaCPU,
     CortoEsperaListo, SacarListo, MirarOciosas, EnviarPcb, RegistrarEjecucion,
     DevolverAListos, AjenoAlCorto
<1>4. CASE LargoPlazo
  BY <1>4 DEF LargoPlazo, LargoVerificaPausa, LargoEsperaReanudar, LargoEsperaAdmitir,
     SacarNuevo, CrearProceso, AumentarGrado, RechazarProceso, AjenoAlLargo
<1>5. CASE FinProcesos
  BY <1>5 DEF FinProcesos, FinEspera, FinTomaEspera, FinSaca, FinTermina, FinSueltaEspera,
     AjenoAlFin
<1>6. CASE Usuario \/ UNCHANGED vars
  BY <1>6 DEF Usuario, Pausar, PausarEspera, Reanudar, PostPlanificacion, PedirGrado,
     ModificarGrado, AjenoAlUsuario, vars
<1>7. ASSUME NEW h \in HilosMata, Matar(h) \/ \E q \in Pids : PedirFin(h, q)
      PROVE  contadorPid' = contadorPid
  BY <1>7 DEF Matar, MataToma, MataBuscaEspera, MataBuscaEjecucion, MataBuscaCPU,
     MataInterrumpe, MataBuscaNuevos, MataBuscaListos, MataEsperaToken, MataBuscaBloqueados,
     MataTermina, PedirFin, AjenoAMata
<1> QED
  BY <1>1, <1>2, <1>3, <1>4, <1>5, <1>6, <1>7 DEF Next, Vivir, Reposo, Caido

LEMMA UnSoloLugarSigue ==
  ASSUME IInv, IInv', CpuOciosaVacia, MataEnSuRutina, UnaCopia, [Next]_vars
  PROVE  UnaCopia'
<1>1. contadorPid \in Int
  BY DEF IInv, TypeOK
<1>2. CASE GestionarNuevoPrograma
  <2> SUFFICES ASSUME NEW p \in Pids
               PROVE  Copias(p)' = Booleano(p <= contadorPid')
    BY DEF UnaCopia
  <2>1. contadorPid' = contadorPid + 1 /\ p \in Int
    BY <1>2 DEF GestionarNuevoPrograma, Pids
  <2>2. Copias(p) = Booleano(p <= contadorPid)
    BY DEF UnaCopia
  <2>3. Copias(p)' = Copias(p) + Uno(contadorPid + 1, p)
    BY <1>2, CopiasNuevo
  <2> QED
    BY ONLY <1>1, <2>1, <2>2, <2>3 DEF Uno, Booleano
<1>3. CASE ~GestionarNuevoPrograma
  <2> SUFFICES ASSUME NEW p \in Pids
               PROVE  Copias(p)' = Booleano(p <= contadorPid')
    BY DEF UnaCopia
  <2>1. contadorPid' = contadorPid
    BY <1>3, PidsDados
  <2>2. Copias(p) = Booleano(p <= contadorPid)
    BY DEF UnaCopia
  <2>3. Copias(p)' = Copias(p)
    BY <1>3, CopiasSiguen
  <2> QED
    BY ONLY <2>1, <2>2, <2>3
<1> QED
  BY <1>2, <1>3

-----------------------------------------------------------------------------
(* The tables of files, and the degree                                     *)

\* What leaves a list was in it.
LEMMA QuitarContiene ==
  ASSUME NEW S, NEW s \in Seq(S), NEW p
  PROVE  /\ s # <<>> => /\ Contains(Tail(s), p) => Contains(s, p)
                        /\ Contains(s, Head(s))
         /\ \A e : Contains(RemoveFirst(s, e), p) => Contains(s, p)
<1>1. /\ Contains(s, p) <=> Veces(s, p) > 0
      /\ Veces(s, p) \in Nat
  BY VecesNat
<1>2. ASSUME s # <<>>
      PROVE  (Contains(Tail(s), p) => Contains(s, p)) /\ Contains(s, Head(s))
  <2>1. Tail(s) \in Seq(S) /\ Veces(Tail(s), p) = Veces(s, p) - Uno(Head(s), p)
    BY <1>2, VecesCola
  <2>2. Contains(Tail(s), p) <=> Veces(Tail(s), p) > 0
    BY <2>1, VecesNat
  <2>3. Contains(s, Head(s))
    BY <1>2, EmptySeq DEF Contains
  <2> QED
    BY <1>1, <2>1, <2>2, <2>3 DEF Uno
<1>3. ASSUME NEW e, Contains(RemoveFirst(s, e), p)
      PROVE  Contains(s, p)
  <2>1. CASE Contains(s, e)
    <3>1. /\ RemoveFirst(s, e) \in Seq(S)
          /\ Veces(RemoveFirst(s, e), p) = Veces(s, p) - Uno(e, p)
      BY <2>1, VecesQuitarPrimero
    <3>2. Veces(RemoveFirst(s, e), p) > 0
      BY <1>3, <3>1, VecesNat
    <3> QED
      BY ONLY <1>1, <3>1, <3>2 DEF Uno
  <2>2. CASE ~Contains(s, e)
    BY <1>3, <2>2, VecesQuitarPrimero
  <2> QED
    BY <2>1, <2>2
<1> QED
  BY <1>2, <1>3

\* Outside the admission a process only enters colaNuevos by starting, and a
\* table of files only goes away with its process.
AdmisionQuieta ==
  /\ largo' = largo
  /\ \A p \in Pids : Contains(cola'.nuevos, p) => Contains(cola.nuevos, p)
  /\ \/ adm'.tablas = adm.tablas /\ grado'.actual = grado.actual
     \/ \E p \in adm.tablas : /\ adm'.tablas = adm.tablas \ {p}
                              /\ grado'.actual = grado.actual - 1

LEMMA TerminarAdmision ==
  ASSUME IInv, NEW p, ConTabla(p), Terminar(p), largo' = largo
  PROVE  AdmisionQuieta
<1>1. cola'.nuevos = cola.nuevos
  BY DEF IInv, TypeOK, TipoCola, Terminar
<1>2. p \in adm.tablas /\ adm'.tablas = adm.tablas \ {p} /\ grado'.actual = grado.actual - 1
  BY DEF IInv, TypeOK, TipoAdm, TipoGrado, Terminar, ConTabla
<1> QED
  BY <1>1, <1>2 DEF AdmisionQuieta

LEMMA NuevosQuietos ==
  ASSUME largo' = largo, cola'.nuevos = cola.nuevos, adm'.tablas = adm.tablas,
         grado'.actual = grado.actual
  PROVE  AdmisionQuieta
  BY DEF AdmisionQuieta

LEMMA AdmisionAparte ==
  ASSUME IInv, [Next]_vars, ~GestionarNuevoPrograma, ~LargoPlazo
  PROVE  AdmisionQuieta
<1>1. cola \in TipoCola /\ adm \in TipoAdm /\ grado \in TipoGrado /\ cola.nuevos \in Seq(Pids)
  BY DEF IInv, TypeOK, TipoCola
<1>2. CASE UNCHANGED <<cola, adm, grado, largo>>
  BY <1>2, NuevosQuietos
<1>3. ASSUME NEW c \in CPUs, MensajeCPU(c) \/ SignalCPU(c)
      PROVE  AdmisionQuieta
  <2>1. UNCHANGED <<adm, grado, largo>>
    BY <1>3 DEF MensajeCPU, GestionarNuevaCPU, FinProceso, FinQuantum, ProcesoExpropiado,
       Excepcion, WaitSemaforo, SignalSemaforo, VerificarInterrupciones, GestionarCierreCpu,
       SignalCPU, DejarYRemover, DejarCPU, hilos
  <2>2. \/ cola' = cola
        \/ \E e : cola' = [cola EXCEPT !.ejecucion = e]
    BY <1>3 DEF MensajeCPU, GestionarNuevaCPU, FinProceso, FinQuantum, ProcesoExpropiado,
       Excepcion, WaitSemaforo, SignalSemaforo, VerificarInterrupciones, GestionarCierreCpu,
       SignalCPU, DejarYRemover
  <2>3. cola'.nuevos = cola.nuevos
    BY <1>1, <2>2 DEF TipoCola
  <2> QED
    BY <2>1, <2>3, NuevosQuietos
<1>4. CASE OperacionPrincipal
  <2>1. UNCHANGED <<grado, largo>>
    BY <1>4 DEF OperacionPrincipal, EncolarCodigo, CambiarEstadoCpu, RemoverDeColaEjecucion,
       EncolarEspera, EncolarListo, EncolarBloqueado, EncolarProcesoBloqueadoASemaforo,
       DesbloquearProceso, DevolverSemaforo, QuitarInterrupcion, AjenoAlPrincipal
  <2>2. adm'.tablas = adm.tablas
    BY <1>1, <1>4 DEF OperacionPrincipal, EncolarCodigo, CambiarEstadoCpu,
       RemoverDeColaEjecucion, EncolarEspera, EncolarListo, EncolarBloqueado,
       EncolarProcesoBloqueadoASemaforo, DesbloquearProceso, DevolverSemaforo,
       QuitarInterrupcion, TipoAdm
  <2>3. cola'.nuevos = cola.nuevos
    BY <1>1, <1>4 DEF OperacionPrincipal, EncolarCodigo, CambiarEstadoCpu,
       RemoverDeColaEjecucion, EncolarEspera, EncolarListo, EncolarBloqueado,
       EncolarProcesoBloqueadoASemaforo, DesbloquearProceso, DevolverSemaforo,
       QuitarInterrupcion, TipoCola
  <2> QED
    BY <2>1, <2>2, <2>3, NuevosQuietos
<1>5. CASE CortoPlazo
  <2>1. UNCHANGED <<adm, grado, largo>>
    BY <1>5 DEF CortoPlazo, CortoVerificaPausa, CortoEsperaReanudar, CortoEsperaCPU,
       CortoEsperaListo, SacarListo, MirarOciosas, EnviarPcb, RegistrarEjecucion,
       DevolverAListos, AjenoAlCorto
  <2>2. cola'.nuevos = cola.nuevos
    BY <1>1, <1>5 DEF CortoPlazo, CortoVerificaPausa, CortoEsperaReanudar, CortoEsperaCPU,
       CortoEsperaListo, SacarListo, MirarOciosas, EnviarPcb, RegistrarEjecucion,
       DevolverAListos, TipoCola
  <2> QED
    BY <2>1, <2>2, NuevosQuietos
<1>6. CASE FinProcesos
  <2>1. CASE FinTermina /\ ConTabla(fin.pid)
    BY <2>1, TerminarAdmision DEF FinTermina, AjenoAlFin
  <2>2. CASE ~(FinTermina /\ ConTabla(fin.pid))
    <3>1. UNCHANGED <<adm, grado, largo>>
      BY <1>6, <2>2 DEF FinProcesos, FinEspera, FinTomaEspera, FinSaca, FinTermina,
         FinSueltaEspera, AjenoAlFin
    <3>2. cola'.nuevos = cola.nuevos
      BY <1>1, <1>6, <2>2 DEF FinProcesos, FinEspera, FinTomaEspera, FinSaca, FinTermina,
         FinSueltaEspera, TipoCola
    <3> QED
      BY <3>1, <3>2, NuevosQuietos
  <2> QED
    BY <2>1, <2>2
<1>7. CASE Usuario \/ UNCHANGED vars
  <2>1. UNCHANGED <<cola, adm, largo>> /\ grado'.actual = grado.actual
    BY <1>1, <1>7 DEF Usuario, Pausar, PausarEspera, Reanudar, PostPlanificacion,
       PedirGrado, ModificarGrado, AjenoAlUsuario, vars, TipoGrado
  <2> QED
    BY <2>1, NuevosQuietos
<1>8. ASSUME NEW h \in HilosMata, \E q \in Pids : PedirFin(h, q)
      PROVE  AdmisionQuieta
  BY <1>2, <1>8 DEF PedirFin, AjenoAMata
<1>9. ASSUME NEW h \in HilosMata, Matar(h)
      PROVE  AdmisionQuieta
  <2>1. largo' = largo
    BY <1>9 DEF Matar, MataToma, MataBuscaEspera, MataBuscaEjecucion, MataBuscaCPU,
       MataInterrumpe, MataBuscaNuevos, MataBuscaListos, MataEsperaToken,
       MataBuscaBloqueados, MataTermina, AjenoAMata
  <2>2. CASE MataTermina(h) /\ ConTabla(mata[h].pid)
    BY <2>1, <2>2, TerminarAdmision DEF MataTermina
  <2>3. CASE MataBuscaNuevos(h)
    <3>1. UNCHANGED <<adm, grado>>
      BY <2>3 DEF MataBuscaNuevos
    <3>2. \A p \in Pids : Contains(cola'.nuevos, p) => Contains(cola.nuevos, p)
      <4>1. CASE cola' = cola
        BY <4>1
      <4>2. CASE cola' = [cola EXCEPT !.nuevos = RemoveFirst(cola.nuevos, mata[h].pid)]
        <5>1. cola'.nuevos = RemoveFirst(cola.nuevos, mata[h].pid)
          BY <1>1, <4>2 DEF TipoCola
        <5> QED
          BY <1>1, <5>1, QuitarContiene
      <4> QED
        BY <2>3, <4>1, <4>2 DEF MataBuscaNuevos
    <3> QED
      BY <2>1, <3>1, <3>2 DEF AdmisionQuieta
  <2>4. CASE ~MataTermina(h) /\ ~MataBuscaNuevos(h)
    <3>1. adm'.tablas = adm.tablas /\ grado' = grado
      BY <1>1, <1>9, <2>4 DEF Matar, MataToma, MataBuscaEspera, MataBuscaEjecucion,
         MataBuscaCPU, MataInterrumpe, MataBuscaListos, MataEsperaToken,
         MataBuscaBloqueados, TipoAdm
    <3>2. cola'.nuevos = cola.nuevos
      BY <1>1, <1>9, <2>4 DEF Matar, MataToma, MataBuscaEspera, MataBuscaEjecucion,
         MataBuscaCPU, MataInterrumpe, MataBuscaListos, DejarListos, MataEsperaToken,
         MataBuscaBloqueados, TipoCola
    <3> QED
      BY <2>1, <3>1, <3>2, NuevosQuietos
  <2>5. CASE MataTermina(h) /\ ~ConTabla(mata[h].pid)
    BY <1>2, <2>1, <2>5 DEF MataTermina
  <2> QED
    BY <2>2, <2>3, <2>4, <2>5
<1> QED
  BY <1>3, <1>4, <1>5, <1>6, <1>7, <1>8, <1>9 DEF Next, Vivir, Reposo, Caido

\* The process that is being admitted is not in colaNuevos any more.
LEMMA EnAdmision ==
  ASSUME IInv, IInv', UnaCopia, NEW p \in Pids, EnLargo(p)
  PROVE  p <= contadorPid /\ ~Contains(cola.nuevos, p)
<1>1. Balance(p) /\ Copias(p) = Booleano(p <= contadorPid)
  BY SumaDeCopias DEF UnaCopia
<1>2. DeLargo(largo, p) = 1
  BY DEF EnLargo, DeLargo
<1>3. /\ cola \in TipoCola /\ cola.nuevos \in Seq(Pids)
  BY DEF IInv, TypeOK, TipoCola
<1>4. /\ EnListas(cola, p) \in Nat /\ EnCPUs(remoto, p) \in Nat /\ EnKills(mata, p) \in Nat
      /\ Copias(p) = EnListas(cola, p) + EnCPUs(remoto, p) + EnKills(mata, p)
                   + DePrincipal(principal, p) + DeCorto(corto, p) + 1 + DeFin(fin, p)
      /\ DePrincipal(principal, p) \in {0, 1} /\ DeCorto(corto, p) \in {0, 1}
      /\ DeFin(fin, p) \in {0, 1}
  BY ONLY <1>1, <1>2 DEF Balance
<1>5. p <= contadorPid /\ EnListas(cola, p) = 0
  BY ONLY <1>1, <1>4 DEF Booleano
<1>6. Veces(cola.nuevos, p) = 0
  <2>1. /\ Veces(cola.nuevos, p) \in Nat /\ Veces(cola.listos, p) \in Nat
        /\ Veces(cola.espera, p) \in Nat /\ cola.bloqueados[p] \in Nat
        /\ cola.terminados[p] \in Nat
    BY <1>3, ListasNat
  <2> QED
    BY ONLY <1>5, <2>1 DEF EnListas
<1>7. Contains(cola.nuevos, p) <=> Veces(cola.nuevos, p) > 0
  BY <1>3, VecesNat
<1> QED
  BY <1>5, <1>6, <1>7

LEMMA TablasDeAdmitidosSiguen ==
  ASSUME IInv, IInv', UnaCopia, TablasDeAdmitidos, [Next]_vars
  PROVE  TablasDeAdmitidos'
<1>1. /\ cola \in TipoCola /\ adm \in TipoAdm /\ cola.nuevos \in Seq(Pids)
      /\ adm.tablas \subseteq Pids /\ adm'.tablas \subseteq Pids
      /\ contadorPid \in Int /\ largo \in TipoLargo
  BY DEF IInv, TypeOK, TipoCola, TipoAdm
<1>2. CASE GestionarNuevoPrograma
  <2>1. /\ adm' = adm /\ largo' = largo /\ contadorPid' = contadorPid + 1
        /\ cola'.nuevos = Append(cola.nuevos, contadorPid + 1)
        /\ contadorPid + 1 \in Pids
    BY <1>1, <1>2 DEF GestionarNuevoPrograma, TipoCola, IInv, TypeOK, Pids
  <2>2. ASSUME NEW p \in adm.tablas
        PROVE  p <= contadorPid' /\ ~Contains(cola'.nuevos, p) /\ ~EnLargo(p)'
    <3>1. p <= contadorPid /\ ~Contains(cola.nuevos, p) /\ ~EnLargo(p) /\ p \in Pids
      BY <1>1 DEF TablasDeAdmitidos
    <3>2. p \in Int /\ p # contadorPid + 1
      BY <1>1, <3>1 DEF Pids
    <3>3. Veces(cola'.nuevos, p) = Veces(cola.nuevos, p) + Uno(contadorPid + 1, p)
      BY <1>1, <2>1, VecesAgregar
    <3>4. /\ Veces(cola.nuevos, p) \in Nat
          /\ Contains(cola.nuevos, p) <=> Veces(cola.nuevos, p) > 0
      BY <1>1, VecesNat
    <3>5. cola'.nuevos \in Seq(Pids)
      BY <1>1, <2>1
    <3>6. Contains(cola'.nuevos, p) <=> Veces(cola'.nuevos, p) > 0
      BY <3>5, VecesNat
    <3>7. ~Contains(cola'.nuevos, p)
      BY <3>1, <3>2, <3>3, <3>4, <3>6 DEF Uno
    <3> QED
      BY <1>1, <2>1, <3>1, <3>2, <3>7 DEF EnLargo
  <2> QED
    BY <2>1, <2>2 DEF TablasDeAdmitidos
<1>3. CASE LargoPlazo
  <2>1. contadorPid' = contadorPid
    BY <1>3 DEF LargoPlazo, LargoVerificaPausa, LargoEsperaReanudar, LargoEsperaAdmitir,
       SacarNuevo, CrearProceso, AumentarGrado, RechazarProceso, AjenoAlLargo
  <2>2. CASE SacarNuevo /\ Admisible
    <3> DEFINE q == Head(cola.nuevos)
    <3>1. /\ cola.nuevos # <<>> /\ cola'.nuevos = Tail(cola.nuevos) /\ adm'.tablas = adm.tablas
          /\ largo' = [paso |-> "crear", pid |-> q]
      BY <1>1, <2>2 DEF SacarNuevo, Admisible, TipoCola, TipoAdm
    <3>2. Contains(cola.nuevos, q)
      BY <1>1, <3>1, QuitarContiene
    <3>3. ASSUME NEW p \in adm.tablas
          PROVE  p <= contadorPid /\ ~Contains(cola'.nuevos, p) /\ ~EnLargo(p)'
      <4>1. p <= contadorPid /\ ~Contains(cola.nuevos, p) /\ p \in Pids
        BY <1>1 DEF TablasDeAdmitidos
      <4>2. p # q /\ ~Contains(cola'.nuevos, p)
        BY <1>1, <3>1, <3>2, <4>1, QuitarContiene
      <4> QED
        BY <3>1, <4>1, <4>2 DEF EnLargo
    <3> QED
      BY <2>1, <3>1, <3>3 DEF TablasDeAdmitidos
  <2>3. CASE CrearProceso
    <3>1. /\ adm'.tablas = adm.tablas \cup {largo.pid} /\ cola'.nuevos = cola.nuevos
          /\ largo.paso = "crear" /\ largo'.paso = "aumentarGrado" /\ largo.pid \in Pids
      BY <1>1, <2>3 DEF CrearProceso, IrLargo, TipoCola, TipoAdm, TipoLargo, IInv, ConProceso
    <3>2. largo.pid <= contadorPid /\ ~Contains(cola.nuevos, largo.pid)
      BY <3>1, EnAdmision DEF EnLargo
    <3> QED
      BY <2>1, <3>1, <3>2 DEF TablasDeAdmitidos, EnLargo
  <2>4. CASE ~(SacarNuevo /\ Admisible) /\ ~CrearProceso
    <3>1. /\ adm'.tablas = adm.tablas /\ cola'.nuevos = cola.nuevos /\ largo'.paso # "crear"
      BY <1>1, <1>3, <2>4 DEF LargoPlazo, LargoVerificaPausa, LargoEsperaReanudar,
         LargoEsperaAdmitir, SacarNuevo, AumentarGrado, RechazarProceso, LargoAcaba, IrLargo,
         TipoCola, TipoAdm, TipoLargo
    <3> QED
      BY <2>1, <3>1 DEF TablasDeAdmitidos, EnLargo
  <2> QED
    BY <2>2, <2>3, <2>4
<1>4. CASE ~GestionarNuevoPrograma /\ ~LargoPlazo
  <2>1. AdmisionQuieta /\ contadorPid' = contadorPid
    BY <1>4, AdmisionAparte, PidsDados
  <2>2. adm'.tablas \subseteq adm.tablas
    BY <2>1 DEF AdmisionQuieta
  <2> QED
    BY <1>1, <2>1, <2>2 DEF AdmisionQuieta, TablasDeAdmitidos, EnLargo
<1> QED
  BY <1>2, <1>3, <1>4

\* The degree goes with the tables.
LEMMA GradoSigue ==
  ASSUME IInv, IInv', TablasDeAdmitidos, GradoExacto, [Next]_vars
  PROVE  GradoExacto'
<1>1. /\ grado \in TipoGrado /\ adm \in TipoAdm /\ largo \in TipoLargo /\ grado.actual \in Int
      /\ adm.tablas \subseteq Pids
  BY DEF IInv, TypeOK, TipoGrado, TipoAdm
<1>2. IsFiniteSet(adm.tablas) /\ Cardinality(adm.tablas) \in Nat
  <2>1. IsFiniteSet(Pids)
    BY ConstantesOK, FS_Interval DEF Pids
  <2> QED
    BY <1>1, <2>1, FS_Subset, FS_CardinalityType
<1>3. Cardinality(adm.tablas) = grado.actual + IF largo.paso = "aumentarGrado" THEN 1 ELSE 0
  BY DEF GradoExacto, Booleano
<1>4. SUFFICES Cardinality(adm'.tablas)
                 = grado'.actual + IF largo'.paso = "aumentarGrado" THEN 1 ELSE 0
  BY DEF GradoExacto, Booleano
<1>5. CASE GestionarNuevoPrograma
  BY <1>3, <1>5 DEF GestionarNuevoPrograma
<1>6. CASE CrearProceso
  <2>1. /\ adm'.tablas = adm.tablas \cup {largo.pid} /\ grado' = grado
        /\ largo.paso = "crear" /\ largo'.paso = "aumentarGrado" /\ largo.pid \in Pids
    BY <1>1, <1>6 DEF CrearProceso, IrLargo, TipoAdm, TipoLargo, IInv, ConProceso
  <2>2. largo.pid \notin adm.tablas
    BY <2>1 DEF TablasDeAdmitidos, EnLargo
  <2>3. Cardinality(adm'.tablas) = Cardinality(adm.tablas) + 1
    BY <1>2, <2>1, <2>2, FS_AddElement
  <2> QED
    BY ONLY <1>1, <1>2, <1>3, <2>1, <2>3
<1>7. CASE AumentarGrado
  <2>1. /\ adm' = adm /\ grado'.actual = grado.actual + 1
        /\ largo.paso = "aumentarGrado" /\ largo'.paso = "pausa"
    BY <1>1, <1>7 DEF AumentarGrado, LargoAcaba, TipoGrado
  <2> QED
    BY ONLY <1>1, <1>2, <1>3, <2>1
<1>8. CASE LargoPlazo /\ ~CrearProceso /\ ~AumentarGrado
  <2>1. /\ adm'.tablas = adm.tablas /\ grado' = grado
        /\ largo.paso # "aumentarGrado" /\ largo'.paso # "aumentarGrado"
    BY <1>1, <1>8 DEF LargoPlazo, LargoVerificaPausa, LargoEsperaReanudar, LargoEsperaAdmitir,
       SacarNuevo, RechazarProceso, LargoAcaba, IrLargo, TipoAdm, TipoLargo
  <2> QED
    BY <1>3, <2>1
<1>9. CASE ~GestionarNuevoPrograma /\ ~LargoPlazo
  <2>1. AdmisionQuieta
    BY <1>9, AdmisionAparte
  <2>2. ASSUME NEW p \in adm.tablas, adm'.tablas = adm.tablas \ {p},
               grado'.actual = grado.actual - 1
        PROVE  Cardinality(adm'.tablas)
                 = grado'.actual + IF largo'.paso = "aumentarGrado" THEN 1 ELSE 0
    <3>1. Cardinality(adm'.tablas) = Cardinality(adm.tablas) - 1 /\ largo' = largo
      BY <1>2, <2>1, <2>2, FS_RemoveElement DEF AdmisionQuieta
    <3> QED
      BY ONLY <1>1, <1>2, <1>3, <2>2, <3>1
  <2> QED
    BY <1>3, <2>1, <2>2 DEF AdmisionQuieta
<1> QED
  BY <1>5, <1>6, <1>7, <1>8, <1>9

-----------------------------------------------------------------------------
(* colaEjecucion                                                           *)

\* While the main thread has the PCB of a process, no CPU has it.
LEMMA EnManosSinCPU ==
  ASSUME IInv, IInv', UnaCopia', NEW p \in Pids, DePrincipal(principal', p) = 1
  PROVE  \A c \in CPUs : remoto'[c].pid # p
<1>1. Balance(p)
  BY SumaDeCopias
<1>2. Copias(p)' \in {0, 1}
  BY DEF UnaCopia, Booleano
<1>3. EnCPUs(remoto', p) = 0
  <2>1. DePrincipal(principal', p) = 1
    OBVIOUS
  <2> QED
    BY ONLY <1>1, <1>2, <2>1 DEF Balance
<1>4. IsFiniteSet({c \in CPUs : remoto'[c].pid = p})
  BY ConjuntosFinitos
<1>5. {c \in CPUs : remoto'[c].pid = p} = {}
  BY <1>3, <1>4, FS_EmptySet DEF EnCPUs
<1> QED
  BY <1>5

\* One process leaves colaEjecucion, and it has left the CPUs.
LEMMA RestarEjecucion ==
  ASSUME IInv, EjecucionRegistrada, NEW p \in Pids, corto' = corto,
         cola'.ejecucion = Restar(cola.ejecucion, p), \A c \in CPUs : remoto'[c].pid # p,
         \A c \in CPUs : remoto'[c].pid \in Pids => remoto[c].pid = remoto'[c].pid
  PROVE  EjecucionRegistrada'
<1>1. cola.ejecucion \in Bolsas
  BY DEF IInv, TypeOK, TipoCola
<1>2. ASSUME NEW c \in CPUs, NEW q \in Pids, remoto'[c].pid = q,
             ~(corto'.paso = "registrar" /\ corto'.pid = q)
      PROVE  cola'.ejecucion[q] > 0
  <2>1. q # p /\ remoto[c].pid = q /\ ~EnVentana(q)
    BY <1>2 DEF EnVentana
  <2>2. cola.ejecucion[q] > 0
    BY <1>2, <2>1 DEF EjecucionRegistrada
  <2>3. cola'.ejecucion[q] = cola.ejecucion[q]
    BY <1>1, <1>2, <2>1 DEF Restar, Bolsas
  <2> QED
    BY <2>2, <2>3
<1> QED
  BY <1>2 DEF EjecucionRegistrada, EnVentana

LEMMA DejarEjecucion ==
  ASSUME IInv, IInv', UnaCopia', EjecucionRegistrada, NEW c \in CPUs,
         NEW fases \in SUBSET FasesConProceso, NEW r \in RutinasConPcb, NEW s,
         DejarCPU(c, fases, r, s),
         cola'.ejecucion = Restar(cola.ejecucion, remoto[c].pid) \/ cola' = cola
  PROVE  EjecucionRegistrada'
<1> DEFINE p == remoto[c].pid
<1>1. /\ remoto' = [remoto EXCEPT ![c] = Desocupada(remoto[c])] /\ p \in Pids /\ corto' = corto
      /\ principal' = [rutina |-> r, paso |-> 1, cpu |-> c, pid |-> p, sem |-> s]
  BY DEF DejarCPU, Atender, IInv, ConProceso
<1>2. /\ \A d \in CPUs \ {c} : remoto'[d] = remoto[d]
      /\ remoto'[c].pid = Nadie /\ Nadie \notin Pids
  BY <1>1 DEF IInv, TypeOK, TipoRemoto, Desocupada, Nadie, Pids
<1>3. \A d \in CPUs : remoto'[d].pid # p
  <2>1. /\ principal' \in TipoPrincipal
        /\ principal'.rutina \in Rutinas => principal'.paso \in 1..Len(Guion[principal'.rutina])
    BY DEF IInv, TypeOK, ConProceso
  <2>2. ConPcb(principal')
    BY <2>1, <1>1, ManosDe DEF RutinasConPcb
  <2>3. DePrincipal(principal', p) = 1
    BY <2>2, <1>1 DEF DePrincipal
  <2> QED
    BY <1>1, <2>3, EnManosSinCPU
<1>4. \A d \in CPUs : remoto'[d].pid \in Pids => remoto[d].pid = remoto'[d].pid
  BY <1>2
<1>5. CASE cola'.ejecucion = Restar(cola.ejecucion, p)
  BY <1>1, <1>3, <1>4, <1>5, RestarEjecucion
<1>6. CASE cola' = cola
  BY <1>1, <1>4, <1>6 DEF EjecucionRegistrada, EnVentana
<1> QED
  BY <1>5, <1>6

LEMMA EjecucionMensaje ==
  ASSUME IInv, IInv', UnaCopia', EjecucionRegistrada, NEW c \in CPUs,
         MensajeCPU(c) \/ SignalCPU(c)
  PROVE  EjecucionRegistrada'
<1>1. /\ remoto \in [CPUs -> TipoRemoto] /\ cola \in TipoCola
  BY DEF IInv, TypeOK
<1>2. ASSUME NEW r \in RutinasConPcb, NEW s, NEW fases \in SUBSET FasesConProceso,
             DejarYRemover(c, fases, r, s)
      PROVE  EjecucionRegistrada'
  <2>1. DejarCPU(c, fases, r, s) /\ cola'.ejecucion = Restar(cola.ejecucion, remoto[c].pid)
    BY <1>1, <1>2 DEF DejarYRemover, TipoCola
  <2> QED
    BY <2>1, DejarEjecucion
<1>3. CASE /\ \A d \in CPUs : remoto'[d].pid = remoto[d].pid
           /\ UNCHANGED <<cola, corto>>
  BY <1>3 DEF EjecucionRegistrada, EnVentana
<1>4. CASE FinProceso(c) \/ ProcesoExpropiado(c) \/ \E r \in {"excepcion", "stackOverflow"} :
             Excepcion(c, r)
  BY <1>2, <1>4 DEF FinProceso, ProcesoExpropiado, Excepcion, RutinasConPcb, FasesConProceso, EnMarcha
<1>5. CASE FinQuantum(c)
  <2>1. PICK r \in {"finQuantum", "finQuantumCierre"} : DejarCPU(c, {"finQuantum"}, r, "ninguno")
    BY <1>5 DEF FinQuantum
  <2>2. {"finQuantum"} \in SUBSET FasesConProceso /\ r \in RutinasConPcb /\ cola' = cola
    BY <1>5 DEF FasesConProceso, RutinasConPcb, FinQuantum
  <2> QED
    BY <2>1, <2>2, DejarEjecucion
<1>6. ASSUME NEW s \in Semaforos, WaitSemaforo(c, s)
      PROVE  EjecucionRegistrada'
  <2>1. CASE DejarYRemover(c, EnMarcha, "bloqueo", s)
    BY <1>2, <2>1 DEF RutinasConPcb, FasesConProceso, EnMarcha
  <2>2. CASE ~DejarYRemover(c, EnMarcha, "bloqueo", s)
    BY <1>1, <1>3, <1>6, <2>2 DEF WaitSemaforo, hilos, TipoRemoto
  <2> QED
    BY <2>1, <2>2
<1>7. ASSUME NEW s \in Semaforos, SignalSemaforo(c, s)
      PROVE  EjecucionRegistrada'
  BY <1>1, <1>3, <1>7 DEF SignalSemaforo, TipoRemoto
<1>8. CASE GestionarNuevaCPU(c) \/ VerificarInterrupciones(c) \/ GestionarCierreCpu(c)
           \/ SignalCPU(c)
  BY <1>1, <1>3, <1>8 DEF GestionarNuevaCPU, VerificarInterrupciones, GestionarCierreCpu,
     SignalCPU, hilos, TipoRemoto
<1> QED
  BY <1>4, <1>5, <1>6, <1>7, <1>8 DEF MensajeCPU

\* The process that is sent enters colaEjecucion right after, and only the one
\* that has left its CPU leaves it.
LEMMA EjecucionSigue ==
  ASSUME IInv, IInv', UnaCopia, UnaCopia', EjecucionRegistrada, [Next]_vars
  PROVE  EjecucionRegistrada'
<1>1. /\ remoto \in [CPUs -> TipoRemoto] /\ cola \in TipoCola /\ corto \in TipoCorto
      /\ cola.ejecucion \in Bolsas
  BY DEF IInv, TypeOK, TipoCola
<1>2. CASE UNCHANGED <<remoto, corto>> /\ cola'.ejecucion = cola.ejecucion
  BY <1>2 DEF EjecucionRegistrada, EnVentana
<1>3. CASE OperacionPrincipal
  <2>1. UNCHANGED <<remoto, corto>>
    BY <1>3 DEF OperacionPrincipal, EncolarCodigo, CambiarEstadoCpu, RemoverDeColaEjecucion,
       EncolarEspera, EncolarListo, EncolarBloqueado, EncolarProcesoBloqueadoASemaforo,
       DesbloquearProceso, DevolverSemaforo, QuitarInterrupcion, AjenoAlPrincipal
  <2>2. CASE RemoverDeColaEjecucion
    <3>1. /\ Paso("removerEjec") /\ cola'.ejecucion = Restar(cola.ejecucion, principal.pid)
          /\ principal.rutina \in Rutinas /\ principal.paso \in 1..Len(Guion[principal.rutina])
          /\ Guion[principal.rutina][principal.paso] = "removerEjec"
      BY <1>1, <2>2 DEF RemoverDeColaEjecucion, Paso, Operacion, IInv, ConProceso, TipoCola
    <3>2. principal.rutina \in {"finQuantum", "finQuantumCierre"} /\ principal.paso = 1
      <4>1. CASE principal.rutina \in {"nuevoPrograma", "finProceso", "stackOverflow"}
        BY <3>1, <4>1, RutinasSon
      <4>2. CASE principal.rutina = "finQuantum"
        BY <3>1, <4>2, RutinasSon
      <4>3. CASE principal.rutina = "finQuantumCierre"
        BY <3>1, <4>3, RutinasSon
      <4>4. CASE principal.rutina \in {"bloqueo", "desbloqueo"}
        BY <3>1, <4>4, RutinasSon
      <4>5. CASE principal.rutina \in {"expropiado", "excepcion"}
        BY <3>1, <4>5, RutinasSon
      <4> QED
        BY <3>1, <4>1, <4>2, <4>3, <4>4, <4>5, RutinasSon
    <3>3. principal' = [principal EXCEPT !.paso = 2] /\ principal.pid \in Pids
      BY <3>1, <3>2, RutinasSon DEF Paso, IInv, ConProceso
    <3>4. DePrincipal(principal', principal.pid) = 1
      <4>1. /\ principal' \in TipoPrincipal /\ principal'.rutina = principal.rutina
            /\ principal'.paso = 2 /\ principal'.pid = principal.pid
            /\ principal'.rutina \in Rutinas => principal'.paso \in 1..Len(Guion[principal'.rutina])
        BY <3>3 DEF IInv, TypeOK, ConProceso, TipoPrincipal
      <4>2. ConPcb(principal')
        BY <3>2, <4>1, ManosDe
      <4> QED
        BY <4>1, <4>2 DEF DePrincipal
    <3>5. \A c \in CPUs : remoto'[c].pid # principal.pid
      BY <3>3, <3>4, EnManosSinCPU
    <3> QED
      BY <2>1, <3>1, <3>3, <3>5, RestarEjecucion
  <2>3. CASE ~RemoverDeColaEjecucion
    <3>1. cola'.ejecucion = cola.ejecucion
      BY <1>1, <1>3, <2>3 DEF OperacionPrincipal, EncolarCodigo, CambiarEstadoCpu,
         EncolarEspera, EncolarListo, EncolarBloqueado, EncolarProcesoBloqueadoASemaforo,
         DesbloquearProceso, DevolverSemaforo, QuitarInterrupcion, TipoCola
    <3> QED
      BY <1>2, <2>1, <3>1
  <2> QED
    BY <2>2, <2>3
<1>4. CASE CortoPlazo
  <2>1. CASE RegistrarEjecucion
    <3>1. /\ remoto' = remoto /\ corto.paso = "registrar" /\ corto'.paso = "pausa"
          /\ cola'.ejecucion = Sumar(cola.ejecucion, corto.pid)
      BY <1>1, <2>1 DEF RegistrarEjecucion, TipoCola
    <3>2. ASSUME NEW c \in CPUs, remoto'[c].pid \in Pids
          PROVE  cola'.ejecucion[remoto'[c].pid] > 0
      <4> DEFINE q == remoto[c].pid
      <4>1. q \in Pids /\ cola.ejecucion[q] \in Nat
        BY <1>1, <3>1, <3>2 DEF Bolsas
      <4>2. CASE q = corto.pid
        <5>1. cola'.ejecucion[q] = cola.ejecucion[q] + 1
          BY <1>1, <3>1, <4>1, <4>2 DEF Sumar, Bolsas
        <5> QED
          BY <3>1, <4>1, <5>1
      <4>3. CASE q # corto.pid
        <5>1. cola'.ejecucion[q] = cola.ejecucion[q] /\ ~EnVentana(q)
          BY <1>1, <3>1, <4>1, <4>3 DEF Sumar, Bolsas, EnVentana
        <5> QED
          BY <3>1, <4>1, <5>1 DEF EjecucionRegistrada
      <4> QED
        BY <4>2, <4>3
    <3> QED
      BY <3>2 DEF EjecucionRegistrada
  <2>2. ASSUME NEW c \in Ociosas, EnviarPcb, corto' = [corto EXCEPT !.paso = "registrar"],
               remoto' = [remoto EXCEPT ![c] = Entregada(remoto[c], corto.pid)]
        PROVE  EjecucionRegistrada'
    <3>1. c \in CPUs /\ corto.paso = "enviar" /\ cola' = cola
      BY <2>2 DEF EnviarPcb, Ociosas
    <3>2. corto'.paso = "registrar" /\ corto'.pid = corto.pid
      BY <1>1, <2>2 DEF TipoCorto
    <3>3. remoto'[c].pid = corto.pid /\ \A d \in CPUs \ {c} : remoto'[d] = remoto[d]
      BY <1>1, <2>2, <3>1 DEF Entregada, TipoRemoto
    <3> QED
      BY <3>1, <3>2, <3>3 DEF EjecucionRegistrada, EnVentana
  <2>3. CASE EnviarPcb
    BY <1>2, <2>2, <2>3 DEF EnviarPcb
  <2>4. CASE ~RegistrarEjecucion /\ ~EnviarPcb
    <3>1. /\ remoto' = remoto /\ cola'.ejecucion = cola.ejecucion
          /\ corto.paso # "registrar" /\ corto'.paso # "registrar"
      BY <1>1, <1>4, <2>4 DEF CortoPlazo, CortoVerificaPausa, CortoEsperaReanudar,
         CortoEsperaCPU, CortoEsperaListo, SacarListo, MirarOciosas, DevolverAListos, IrCorto,
         TipoCola, TipoCorto
    <3>2. CASE corto.paso # "registrar"
      BY <3>1, <3>2 DEF EjecucionRegistrada, EnVentana
    <3> QED
      BY <3>1, <3>2
  <2> QED
    BY <1>4, <2>1, <2>3, <2>4
<1>5. CASE LargoPlazo
  BY <1>1, <1>2, <1>5 DEF LargoPlazo, LargoVerificaPausa, LargoEsperaReanudar,
     LargoEsperaAdmitir, SacarNuevo, CrearProceso, AumentarGrado, RechazarProceso,
     AjenoAlLargo, TipoCola
<1>6. CASE FinProcesos
  BY <1>1, <1>2, <1>6 DEF FinProcesos, FinEspera, FinTomaEspera, FinSaca, FinTermina,
     FinSueltaEspera, Terminar, AjenoAlFin, TipoCola
<1>7. CASE Usuario \/ UNCHANGED vars
  BY <1>2, <1>7 DEF Usuario, Pausar, PausarEspera, Reanudar, PostPlanificacion, PedirGrado,
     ModificarGrado, AjenoAlUsuario, vars
<1>8. CASE GestionarNuevoPrograma
  BY <1>1, <1>2, <1>8 DEF GestionarNuevoPrograma, TipoCola
<1>9. ASSUME NEW h \in HilosMata, Matar(h) \/ \E q \in Pids : PedirFin(h, q)
      PROVE  EjecucionRegistrada'
  <2>1. UNCHANGED <<remoto, corto>>
    BY <1>9 DEF Matar, MataToma, MataBuscaEspera, MataBuscaEjecucion, MataBuscaCPU,
       MataInterrumpe, MataBuscaNuevos, MataBuscaListos, MataEsperaToken, MataBuscaBloqueados,
       MataTermina, PedirFin, AjenoAMata
  <2>2. cola'.ejecucion = cola.ejecucion
    BY <1>1, <1>9 DEF Matar, MataToma, MataBuscaEspera, MataBuscaEjecucion, MataBuscaCPU,
       MataInterrumpe, MataBuscaNuevos, MataBuscaListos, DejarListos, MataEsperaToken,
       MataBuscaBloqueados, MataTermina, Terminar, PedirFin, TipoCola
  <2> QED
    BY <1>2, <2>1, <2>2
<1> QED
  BY <1>3, <1>4, <1>5, <1>6, <1>7, <1>8, <1>9, EjecucionMensaje DEF Next, Vivir, Reposo, Caido

-----------------------------------------------------------------------------
(* The theorems                                                            *)

LEMMA NingunaCopia ==
  ASSUME Init, NEW p \in Pids
  PROVE  Copias(p) = 0 /\ Booleano(p <= contadorPid) = 0
<1>1. /\ cola.nuevos = <<>> /\ cola.listos = <<>> /\ cola.espera = <<>>
      /\ cola.bloqueados[p] = 0 /\ cola.terminados[p] = 0
  BY DEF Init
<1>2. {c \in CPUs : remoto[c].pid = p} = {}
  BY DEF Init, Pids, Nadie
<1>3. {h \in HilosMata : EnMata(h, p)} = {}
  BY DEF Init, EnMata
<1>4. Booleano(EnPrincipal(p)) = 0
  BY RutinasSon DEF Init, SinRutina, EnPrincipal, Falta, Booleano
<1>5. Booleano(EnCorto(p)) = 0 /\ Booleano(EnLargo(p)) = 0 /\ Booleano(EnFin(p)) = 0
  BY DEF Init, EnCorto, EnLargo, EnFin, Booleano
<1>6. Booleano(p <= contadorPid) = 0
  BY DEF Init, Pids, Booleano
<1>7. Cardinality({}) = 0
  BY FS_EmptySet
<1>8. /\ Veces(cola.nuevos, p) = 0 /\ Veces(cola.listos, p) = 0 /\ Veces(cola.espera, p) = 0
      /\ Cardinality({c \in CPUs : remoto[c].pid = p}) = 0
      /\ Cardinality({h \in HilosMata : EnMata(h, p)}) = 0
  BY <1>1, <1>2, <1>3, <1>7, VecesVacia
<1>9. Copias(p) = 0
  BY ONLY <1>1, <1>4, <1>5, <1>8 DEF Copias
<1> QED
  BY <1>6, <1>9

LEMMA InicioLugar == Init => IInvLugar /\ GradoExacto /\ EjecucionRegistrada
<1> SUFFICES ASSUME Init PROVE IInvLugar /\ GradoExacto /\ EjecucionRegistrada
  OBVIOUS
<1>1. UnaCopia
  BY NingunaCopia DEF UnaCopia
<1>2. CpuOciosaVacia
  BY RutinasSon DEF Init, CpuOciosaVacia, Falta, SinRutina
<1>3. MataEnSuRutina /\ TablasDeAdmitidos
  BY DEF Init, MataEnSuRutina, TablasDeAdmitidos, HilosMata
<1>4. GradoExacto
  BY FS_EmptySet DEF Init, GradoExacto, Booleano
<1>5. EjecucionRegistrada
  BY DEF Init, EjecucionRegistrada, Pids, Nadie
<1> QED
  BY <1>1, <1>2, <1>3, <1>4, <1>5 DEF IInvLugar

LEMMA InductivoLugar == IInv /\ IInv' /\ IInvLugar /\ [Next]_vars => IInvLugar'
  BY CpuOciosaSigue, MataEnSuRutinaSigue, UnSoloLugarSigue, TablasDeAdmitidosSiguen
     DEF IInvLugar

\* What the place of the processes rests on holds in every reachable state: a
\* CPU marked OCIOSA in listaCPU has no process (cambiarEstadoCpu), a console's
\* kill is a handler of its own, and only admitted processes have tables.
THEOREM Lugar == Spec => []IInvLugar
<1>1. Init => IInvLugar
  BY InicioLugar
<1>2. IInv /\ IInv' /\ IInvLugar /\ [Next]_vars => IInvLugar'
  BY InductivoLugar
<1> QED
  BY <1>1, <1>2, Invariante, PTL DEF Spec

\* A process is counted once at most in the CPUs.
LEMMA UnaCopiaDaUnLugar ==
  ASSUME IInv, UnaCopia
  PROVE  UnSoloLugar
<1> SUFFICES ASSUME NEW p \in Pids
             PROVE  Copias(p) - Cardinality(Cerradas(p)) = Booleano(p <= contadorPid /\ ~Perdido(p))
  BY DEF UnSoloLugar
<1> DEFINE S == {c \in CPUs : remoto[c].pid = p}
<1>1. /\ Veces(cola.nuevos, p) \in Nat /\ Veces(cola.listos, p) \in Nat
      /\ Veces(cola.espera, p) \in Nat /\ cola.bloqueados[p] \in Nat
      /\ cola.terminados[p] \in Nat
  BY ListasNat DEF IInv, TypeOK
<1>2. /\ IsFiniteSet(S) /\ Cardinality(S) \in Nat
      /\ Cardinality({h \in HilosMata : EnMata(h, p)}) \in Nat
  BY ConjuntosFinitos DEF EnCPUs, EnKills, ConElla, EnMata
<1>3. \A b : Booleano(b) \in {0, 1}
  BY DEF Booleano
<1>4. Copias(p) \in Nat /\ Cardinality(S) <= Copias(p)
  <2>1. /\ Booleano(EnPrincipal(p)) \in Nat /\ Booleano(EnCorto(p)) \in Nat
        /\ Booleano(EnLargo(p)) \in Nat /\ Booleano(EnFin(p)) \in Nat
    BY <1>3
  <2>2. Copias(p) = Veces(cola.nuevos, p) + Veces(cola.listos, p) + Veces(cola.espera, p)
           + cola.bloqueados[p] + cola.terminados[p] + Cardinality(S)
           + Cardinality({h \in HilosMata : EnMata(h, p)})
           + Booleano(EnPrincipal(p)) + Booleano(EnCorto(p)) + Booleano(EnLargo(p))
           + Booleano(EnFin(p))
    BY DEF Copias
  <2> HIDE DEF S
  <2> QED
    BY ONLY <1>1, <1>2, <2>1, <2>2
<1>5. Copias(p) = Booleano(p <= contadorPid)
  BY DEF UnaCopia
<1>6. CASE Cerradas(p) = {}
  <2>1. Cardinality(Cerradas(p)) = 0 /\ ~Perdido(p)
    BY <1>6, FS_EmptySet DEF Perdido
  <2>2. Booleano(p <= contadorPid /\ ~Perdido(p)) = Booleano(p <= contadorPid)
    BY <2>1 DEF Booleano
  <2> QED
    BY <1>4, <1>5, <2>1, <2>2
<1>7. CASE Cerradas(p) # {}
  <2>1. /\ IsFiniteSet(Cerradas(p)) /\ Cardinality(Cerradas(p)) \in Nat
        /\ Cardinality(Cerradas(p)) <= Cardinality(S) /\ Cardinality(Cerradas(p)) # 0
    <3>1. Cerradas(p) \subseteq S
      BY DEF Cerradas
    <3> HIDE DEF S
    <3> QED
      BY <1>2, <1>7, <3>1, FS_Subset, FS_EmptySet, FS_CardinalityType
  <2>2. Copias(p) = 1 /\ Cardinality(Cerradas(p)) = 1
    BY <1>2, <1>3, <1>4, <1>5, <2>1
  <2>3. Booleano(p <= contadorPid /\ ~Perdido(p)) = 0
    BY <1>7 DEF Booleano, Perdido
  <2> QED
    BY <2>2, <2>3
<1> QED
  BY <1>6, <1>7

\* For any number of programs, CPUs and semaphores, and any kills, pauses and
\* closing CPUs: every program that was accepted is in one list of planificacion.h, one
\* CPU that runs it or the hands of one thread, and nowhere else; but for one whose PCB is
\* in the socket of a CPU that closed, which is in none of them.
THEOREM CadaProcesoEnUnLugar == Spec => []UnSoloLugar
<1>1. IInv /\ IInvLugar => UnSoloLugar
  BY UnaCopiaDaUnLugar DEF IInvLugar
<1> QED
  BY <1>1, Lugar, Invariante, PTL

\* What a step does to the PCB and the phase of one CPU.
CambioDeCpu(c) ==
  \/ remoto'[c] = remoto[c]
  \/ remoto'[c].pid = Nadie
  \/ /\ remoto'[c].pid = remoto[c].pid
     /\ \/ remoto'[c].fase \in FasesConProceso
        \/ /\ remoto'[c].fase \in {"saliendo", "cerrada"}
           /\ remoto[c].fase \in {"libre", "recibe", "saliendo", "cerrada"}
  \/ corto.paso = "enviar" /\ remoto'[c].pid = corto.pid /\ remoto'[c].fase # "libre"

LEMMA RemotoCambia ==
  ASSUME IInv, CpuOciosaVacia, [Next]_vars, NEW c \in CPUs
  PROVE  CambioDeCpu(c)
<1>1. remoto \in [CPUs -> TipoRemoto] /\ remoto[c] \in TipoRemoto
  BY DEF IInv, TypeOK
<1>2. CASE remoto' = remoto
  BY <1>2 DEF CambioDeCpu
<1>3. CASE EnviarPcb /\ remoto' # remoto
  <2>1. PICK d \in Ociosas : remoto' = [remoto EXCEPT ![d] = Entregada(@, corto.pid)]
    BY <1>3 DEF EnviarPcb
  <2>2. CASE d = c
    <3>1. remoto'[c] = Entregada(remoto[c], corto.pid)
      BY <1>1, <2>1, <2>2
    <3> QED
      BY <1>1, <1>3, <3>1 DEF Entregada, EnviarPcb, TipoRemoto, CambioDeCpu
  <2>3. CASE d # c
    BY <1>1, <2>1, <2>3 DEF CambioDeCpu
  <2> QED
    BY <2>2, <2>3
<1>4. ASSUME NEW d \in CPUs, NEW fases, NEW q, NEW s, DejarCPU(d, fases, q, s)
      PROVE  CambioDeCpu(c)
  <2>1. remoto'[c] = IF d = c THEN Desocupada(remoto[c]) ELSE remoto[c]
    BY <1>1, <1>4 DEF DejarCPU
  <2> QED
    BY <1>1, <2>1 DEF Desocupada, TipoRemoto, CambioDeCpu
<1>5. ASSUME NEW d \in CPUs, NEW f \in FasesConProceso, remoto' = [remoto EXCEPT ![d].fase = f]
      PROVE  CambioDeCpu(c)
  BY <1>1, <1>5 DEF TipoRemoto, CambioDeCpu
<1>6. ASSUME NEW d \in CPUs, MensajeCPU(d) \/ SignalCPU(d)
      PROVE  CambioDeCpu(c)
  <2>1. CASE GestionarNuevaCPU(d)
    <3>1. remoto' = [remoto EXCEPT ![d].fase = "libre"] /\ remoto[d].fase = "apagada"
      BY <2>1 DEF GestionarNuevaCPU
    <3>2. d = c => remoto'[c].pid = Nadie
      BY <1>1, <3>1 DEF CpuOciosaVacia, TipoRemoto
    <3> QED
      BY <1>1, <3>1, <3>2 DEF CambioDeCpu
  <2>2. CASE \/ FinProceso(d) \/ FinQuantum(d) \/ ProcesoExpropiado(d)
             \/ \E q \in {"excepcion", "stackOverflow"} : Excepcion(d, q)
    BY <1>4, <2>2 DEF FinProceso, FinQuantum, ProcesoExpropiado, Excepcion, DejarYRemover
  <2>3. ASSUME NEW s \in Semaforos, WaitSemaforo(d, s)
        PROVE  CambioDeCpu(c)
    <3>1. "consulta" \in FasesConProceso
      BY DEF FasesConProceso
    <3> QED
      BY <1>4, <1>5, <2>3, <3>1 DEF WaitSemaforo, DejarYRemover
  <2>4. ASSUME NEW s \in Semaforos, SignalSemaforo(d, s)
        PROVE  CambioDeCpu(c)
    BY <1>5, <2>4 DEF SignalSemaforo, FasesConProceso
  <2>5. CASE VerificarInterrupciones(d)
    BY <1>5, <2>5 DEF VerificarInterrupciones, FasesConProceso
  <2>6. CASE GestionarCierreCpu(d)
    <3>1. remoto' = [remoto EXCEPT ![d].fase = "cerrada"] /\ remoto[d].fase = "saliendo"
      BY <2>6 DEF GestionarCierreCpu
    <3> QED
      BY <1>1, <3>1 DEF TipoRemoto, CambioDeCpu
  <2>7. CASE SignalCPU(d)
    <3>1. PICK f \in AlCerrar(remoto[d].fase) :
            remoto' = [remoto EXCEPT ![d].cerrando = TRUE, ![d].fase = f]
      BY <2>7 DEF SignalCPU
    <3>2. /\ f = remoto[d].fase \/ f = "ejecuta" \/ f = "saliendo"
          /\ f = "saliendo" => remoto[d].fase \in {"libre", "recibe", "saliendo"}
          /\ remoto[d].fase = "libre" => f = "saliendo"
      BY <1>1, FaseAlCerrar DEF TipoRemoto
    <3>3. CASE d = c
      <4>1. /\ remoto'[c].pid = remoto[c].pid /\ remoto'[c].fase = f
            /\ f # "ejecuta" => f = remoto[c].fase \/ f = "saliendo"
        BY <1>1, <3>1, <3>2, <3>3 DEF TipoRemoto
      <4>2. /\ remoto[c].fase \notin {"apagada", "libre"} \/ f = "saliendo"
            /\ f = "saliendo" => remoto[c].fase \in {"libre", "recibe", "saliendo"}
        BY <1>1, <2>7, <3>2, <3>3 DEF SignalCPU
      <4> QED
        BY <1>1, <4>1, <4>2 DEF CambioDeCpu, TipoRemoto, FasesConProceso
    <3>4. CASE d # c
      BY <1>1, <3>1, <3>4 DEF CambioDeCpu
    <3> QED
      BY <3>3, <3>4
  <2> QED
    BY <1>6, <2>1, <2>2, <2>3, <2>4, <2>5, <2>6, <2>7 DEF MensajeCPU
<1>7. CASE OperacionPrincipal
  BY <1>2, <1>7 DEF OperacionPrincipal, EncolarCodigo, CambiarEstadoCpu,
     RemoverDeColaEjecucion, EncolarEspera, EncolarListo, EncolarBloqueado,
     EncolarProcesoBloqueadoASemaforo, DesbloquearProceso, DevolverSemaforo,
     QuitarInterrupcion, AjenoAlPrincipal
<1>8. CASE CortoPlazo /\ ~EnviarPcb
  BY <1>2, <1>8 DEF CortoPlazo, CortoVerificaPausa, CortoEsperaReanudar, CortoEsperaCPU,
     CortoEsperaListo, SacarListo, MirarOciosas, RegistrarEjecucion, DevolverAListos
<1>9. CASE LargoPlazo \/ FinProcesos \/ Usuario \/ GestionarNuevoPrograma \/ UNCHANGED vars
  BY <1>2, <1>9 DEF LargoPlazo, LargoVerificaPausa, LargoEsperaReanudar, LargoEsperaAdmitir,
     SacarNuevo, CrearProceso, AumentarGrado, RechazarProceso, AjenoAlLargo, FinProcesos,
     FinEspera, FinTomaEspera, FinSaca, FinTermina, FinSueltaEspera, AjenoAlFin, Usuario,
     Pausar, PausarEspera, Reanudar, PostPlanificacion, PedirGrado, ModificarGrado,
     AjenoAlUsuario, GestionarNuevoPrograma, vars
<1>10. ASSUME NEW h \in HilosMata, Matar(h) \/ \E q \in Pids : PedirFin(h, q)
       PROVE  CambioDeCpu(c)
  BY <1>2, <1>10 DEF Matar, MataToma, MataBuscaEspera, MataBuscaEjecucion, MataBuscaCPU,
     MataInterrumpe, MataBuscaNuevos, MataBuscaListos, MataEsperaToken, MataBuscaBloqueados,
     MataTermina, PedirFin, AjenoAMata
<1> QED
  BY <1>2, <1>3, <1>6, <1>7, <1>8, <1>9, <1>10 DEF Next, Vivir, Reposo, Caido

\* For any CPUs and signals: the only programs that are lost with a CPU are those on the
\* way to it.
THEOREM SoloSePierdeAlEnviar == Spec => SePierdeAlEnviar
<1>1. Init => LibreSinProceso
  BY DEF Init, LibreSinProceso
<1>2. IInv /\ IInvLugar /\ LibreSinProceso /\ [Next]_vars => LibreSinProceso'
  <2> SUFFICES ASSUME IInv, IInvLugar, LibreSinProceso, [Next]_vars, NEW c \in CPUs,
                      remoto'[c].fase = "libre"
               PROVE  remoto'[c].pid = Nadie
    BY DEF LibreSinProceso
  <2>1. CambioDeCpu(c)
    BY RemotoCambia DEF IInvLugar
  <2> QED
    BY <2>1 DEF CambioDeCpu, LibreSinProceso, FasesConProceso
<1>3. /\ IInv /\ IInvLugar /\ LibreSinProceso /\ [Next]_vars
      => [\A p \in Pids : Perdido(p)' => Perdido(p) \/ EnCamino(p)]_vars
  <2> SUFFICES ASSUME IInv, IInvLugar, LibreSinProceso, [Next]_vars, NEW p \in Pids, Perdido(p)'
               PROVE  Perdido(p) \/ EnCamino(p)
    OBVIOUS
  <2>1. PICK c \in CPUs : remoto'[c].pid = p /\ remoto'[c].fase \in {"saliendo", "cerrada"}
    BY DEF Perdido, Cerradas
  <2>2. CambioDeCpu(c)
    BY RemotoCambia DEF IInvLugar
  <2>3. p # Nadie
    BY DEF Pids, Nadie
  <2>4. \/ remoto[c].pid = p /\ remoto[c].fase \in {"saliendo", "cerrada"}
        \/ EnCamino(p)
    BY <2>1, <2>2, <2>3 DEF CambioDeCpu, LibreSinProceso, FasesConProceso, EnCamino
  <2> QED
    BY <2>4 DEF Perdido, Cerradas
<1> QED
  BY <1>1, <1>2, <1>3, Invariante, Lugar, PTL DEF Spec, SePierdeAlEnviar

\* gradoMultiProgramacion is the number of processes with a table of files, up
\* to the admission in progress: aumentarGradoMultiprogramacion and
\* disminuirGradoMultiprogramacion stay in step, whoever ends the processes.
THEOREM GradoDeMultiprogramacion == Spec => []GradoExacto
<1>1. Init => GradoExacto
  BY InicioLugar
<1>2. IInv /\ IInv' /\ IInvLugar /\ GradoExacto /\ [Next]_vars => GradoExacto'
  BY GradoSigue DEF IInvLugar
<1> QED
  BY <1>1, <1>2, Invariante, Lugar, PTL DEF Spec

\* Whoever looks for a running process in colaEjecucion (the kills, the user)
\* finds it there, but in the window in which planificarCortoPlazo sends it.
THEOREM EjecucionEnCola == Spec => []EjecucionRegistrada
<1>1. Init => EjecucionRegistrada
  BY InicioLugar
<1>2. /\ IInv /\ IInv' /\ IInvLugar /\ IInvLugar' /\ EjecucionRegistrada /\ [Next]_vars
      => EjecucionRegistrada'
  BY EjecucionSigue DEF IInvLugar
<1> QED
  BY <1>1, <1>2, Invariante, Lugar, PTL DEF Spec

-----------------------------------------------------------------------------
(* The order in which programs are admitted, and the room they need        *)

Creciente(s) == \A i, j \in DOMAIN s : i < j => s[i] < s[j]

\* colaNuevos is in the order of arrival, and who is being admitted came before.
NuevosEnOrden ==
  /\ Creciente(cola.nuevos)
  /\ \A i \in DOMAIN cola.nuevos : cola.nuevos[i] <= contadorPid
  /\ largo.paso = "crear" =>
       largo.pid <= contadorPid /\ \A i \in DOMAIN cola.nuevos : largo.pid < cola.nuevos[i]

\* mutexNuevoProceso is of the admission from the decision to the post, of a kill from its
\* first search to its end, and of the user while a degree is typed.
DuenioDeNuevos ==
  /\ mutex.nuevo = "largo" <=> largo.paso \in {"crear", "aumentarGrado"}
  /\ \A h \in HilosMata : mutex.nuevo = h <=> mata[h].paso \notin {"nada", "mutex"}
  /\ mutex.nuevo = "grado" <=> usuario = "tecleando"

\* The degree that let a process in still does when it gets its table.
LugarParaAdmitir == largo.paso = "crear" => grado.actual < grado.maximo

IInvCiclo == NuevosEnOrden /\ DuenioDeNuevos /\ LugarParaAdmitir

\* Taking from a list keeps its order, and what stays was behind the first.
LEMMA QuitarEnOrden ==
  ASSUME NEW s \in Seq(Pids), Creciente(s)
  PROVE  /\ \A e : /\ Creciente(RemoveFirst(s, e))
                   /\ \A i \in DOMAIN RemoveFirst(s, e) :
                        \E k \in DOMAIN s : RemoveFirst(s, e)[i] = s[k]
         /\ s # <<>> => /\ Creciente(Tail(s)) /\ Head(s) = s[1] /\ 1 \in DOMAIN s
                        /\ \A i \in DOMAIN Tail(s) :
                             /\ Head(s) < Tail(s)[i]
                             /\ \E k \in DOMAIN s : Tail(s)[i] = s[k]
<1>1. DOMAIN s = 1..Len(s) /\ Len(s) \in Nat
  OBVIOUS
<1>2. ASSUME NEW k \in 1..Len(s)
      PROVE  /\ Creciente(RemoveAt(s, k))
             /\ \A i \in DOMAIN RemoveAt(s, k) : \E j \in DOMAIN s : RemoveAt(s, k)[i] = s[j]
  <2> DEFINE t == RemoveAt(s, k)
  <2>1. DOMAIN t = 1..(Len(s) - 1) /\ \A i \in 1..(Len(s) - 1) : t[i] = s[IF i < k THEN i ELSE i + 1]
    <3>1. t \in Seq(Pids) /\ Len(t) = Len(s) - 1
      BY QuitarLugar
    <3>2. \A i \in 1..(Len(s) - 1) : t[i] = s[IF i < k THEN i ELSE i + 1]
      BY TrasQuitar
    <3> HIDE DEF t
    <3> QED
      BY <3>1, <3>2
  <2> HIDE DEF t
  <2>2. ASSUME NEW i \in DOMAIN t, NEW j \in DOMAIN t, i < j PROVE t[i] < t[j]
    <3> DEFINE a == IF i < k THEN i ELSE i + 1
               b == IF j < k THEN j ELSE j + 1
    <3>1. /\ i \in 1..(Len(s) - 1) /\ j \in 1..(Len(s) - 1)
          /\ t[i] = s[a] /\ t[j] = s[b]
      BY <2>1
    <3>2. a \in 1..Len(s) /\ b \in 1..Len(s) /\ a < b
      BY <1>1, <2>2, <3>1
    <3> HIDE DEF a, b
    <3>3. s[a] < s[b]
      BY <1>1, <3>2 DEF Creciente
    <3> QED
      BY <3>1, <3>3
  <2>3. ASSUME NEW i \in DOMAIN t PROVE \E j \in DOMAIN s : t[i] = s[j]
    <3>1. (IF i < k THEN i ELSE i + 1) \in DOMAIN s
      BY <1>1, <2>1
    <3> QED
      BY <2>1, <3>1
  <2> QED
    BY <2>2, <2>3 DEF Creciente, t
<1>3. ASSUME NEW e
      PROVE  /\ Creciente(RemoveFirst(s, e))
             /\ \A i \in DOMAIN RemoveFirst(s, e) : \E k \in DOMAIN s : RemoveFirst(s, e)[i] = s[k]
  <2>1. CASE Contains(s, e)
    <3> DEFINE I == {i \in 1..Len(s) : s[i] = e}
    <3>1. I # {} /\ I \subseteq Nat
      BY <2>1 DEF Contains
    <3>2. PICK k \in I : k = Min(I)
      BY <3>1, MinimoDeNaturales DEF Min
    <3>3. RemoveFirst(s, e) = RemoveAt(s, k) /\ k \in 1..Len(s)
      BY <2>1, <3>1, <3>2 DEF RemoveFirst, SelectInSeq, Contains
    <3> QED
      BY ONLY <1>2, <3>3
  <2>2. CASE ~Contains(s, e)
    <3>1. RemoveFirst(s, e) = s
      BY <2>2, VecesQuitarPrimero
    <3> QED
      BY <3>1
  <2> QED
    BY <2>1, <2>2
<1>4. ASSUME s # <<>>
      PROVE  /\ Creciente(Tail(s)) /\ Head(s) = s[1] /\ 1 \in DOMAIN s
             /\ \A i \in DOMAIN Tail(s) : /\ Head(s) < Tail(s)[i]
                                          /\ \E k \in DOMAIN s : Tail(s)[i] = s[k]
  <2>1. /\ DOMAIN Tail(s) = 1..(Len(s) - 1) /\ \A i \in 1..(Len(s) - 1) : Tail(s)[i] = s[i + 1]
        /\ Head(s) = s[1] /\ 1 \in DOMAIN s
    BY <1>1, <1>4, EmptySeq, HeadTailProperties
  <2>2. ASSUME NEW i \in DOMAIN Tail(s), NEW j \in DOMAIN Tail(s), i < j PROVE Tail(s)[i] < Tail(s)[j]
    <3>1. i + 1 \in DOMAIN s /\ j + 1 \in DOMAIN s /\ i + 1 < j + 1
      BY <1>1, <2>1, <2>2
    <3> QED
      BY <2>1, <3>1 DEF Creciente
  <2>3. ASSUME NEW i \in DOMAIN Tail(s)
        PROVE  Head(s) < Tail(s)[i] /\ \E k \in DOMAIN s : Tail(s)[i] = s[k]
    <3>1. i + 1 \in DOMAIN s /\ 1 < i + 1
      BY <1>1, <2>1
    <3> QED
      BY <2>1, <3>1 DEF Creciente
  <2> QED
    BY <2>1, <2>2, <2>3 DEF Creciente
<1> QED
  BY <1>3, <1>4

\* Nobody but these touches colaNuevos.
LEMMA NuevosAparte ==
  ASSUME IInv, [Next]_vars, ~GestionarNuevoPrograma, ~LargoPlazo,
         \A h \in HilosMata : ~MataBuscaNuevos(h)
  PROVE  cola'.nuevos = cola.nuevos
<1>1. cola \in TipoCola
  BY DEF IInv, TypeOK
<1>3. ASSUME NEW c \in CPUs, MensajeCPU(c) \/ SignalCPU(c)
      PROVE  cola'.nuevos = cola.nuevos
  BY <1>1, <1>3 DEF MensajeCPU, GestionarNuevaCPU, FinProceso, FinQuantum, ProcesoExpropiado,
     Excepcion, WaitSemaforo, SignalSemaforo, VerificarInterrupciones, GestionarCierreCpu,
     SignalCPU, DejarYRemover, TipoCola
<1>4. CASE OperacionPrincipal
  BY <1>1, <1>4 DEF OperacionPrincipal, EncolarCodigo, CambiarEstadoCpu,
     RemoverDeColaEjecucion, EncolarEspera, EncolarListo, EncolarBloqueado,
     EncolarProcesoBloqueadoASemaforo, DesbloquearProceso, DevolverSemaforo,
     QuitarInterrupcion, TipoCola
<1>5. CASE CortoPlazo
  BY <1>1, <1>5 DEF CortoPlazo, CortoVerificaPausa, CortoEsperaReanudar, CortoEsperaCPU,
     CortoEsperaListo, SacarListo, MirarOciosas, EnviarPcb, RegistrarEjecucion,
     DevolverAListos, TipoCola
<1>6. CASE FinProcesos
  BY <1>1, <1>6 DEF FinProcesos, FinEspera, FinTomaEspera, FinSaca, FinTermina,
     FinSueltaEspera, Terminar, TipoCola
<1>7. CASE Usuario \/ UNCHANGED vars
  BY <1>7 DEF Usuario, Pausar, PausarEspera, Reanudar, PostPlanificacion,
     PedirGrado, ModificarGrado, AjenoAlUsuario, vars
<1>8. ASSUME NEW h \in HilosMata, \E q \in Pids : PedirFin(h, q)
      PROVE  cola'.nuevos = cola.nuevos
  BY <1>8 DEF PedirFin
<1>9. ASSUME NEW h \in HilosMata, Matar(h)
      PROVE  cola'.nuevos = cola.nuevos
  BY <1>1, <1>9 DEF Matar, MataToma, MataBuscaEspera, MataBuscaEjecucion,
     MataBuscaCPU, MataInterrumpe, MataBuscaListos, DejarListos, MataEsperaToken,
     MataBuscaBloqueados, MataTermina, Terminar, TipoCola
<1> QED
  BY <1>3, <1>4, <1>5, <1>6, <1>7, <1>8, <1>9 DEF Next, Vivir, Reposo, Caido

\* Outside the admission nothing is added at the end of colaNuevos.
LEMMA NuevosEnOrdenSiguen ==
  ASSUME IInv, IInv', NuevosEnOrden, [Next]_vars
  PROVE  NuevosEnOrden'
<1>1. /\ cola \in TipoCola /\ cola.nuevos \in Seq(Pids) /\ contadorPid \in Int
      /\ largo \in TipoLargo
  BY DEF IInv, TypeOK, TipoCola
<1>2. CASE GestionarNuevoPrograma
  <2> DEFINE n == Len(cola.nuevos)
             t == Append(cola.nuevos, contadorPid + 1)
  <2>1. /\ largo' = largo /\ contadorPid' = contadorPid + 1 /\ cola'.nuevos = t
        /\ contadorPid + 1 \in Pids
    BY <1>1, <1>2 DEF GestionarNuevoPrograma, TipoCola, IInv, TypeOK, Pids
  <2>2. /\ n \in Nat /\ DOMAIN cola.nuevos = 1..n /\ DOMAIN t = 1..(n + 1)
        /\ t[n + 1] = contadorPid + 1
        /\ \A i \in 1..n : t[i] = cola.nuevos[i] /\ cola.nuevos[i] \in Int
    <3>1. /\ n \in Nat /\ DOMAIN cola.nuevos = 1..n /\ DOMAIN t = 1..(n + 1)
          /\ t[n + 1] = contadorPid + 1
          /\ \A i \in 1..n : t[i] = cola.nuevos[i] /\ cola.nuevos[i] \in Pids
      BY <1>1
    <3>2. \A e \in Pids : e \in Int
      BY DEF Pids
    <3> QED
      BY <3>1, <3>2
  <2>3. \A i \in 1..n : cola.nuevos[i] <= contadorPid
    BY <2>2 DEF NuevosEnOrden
  <2> HIDE DEF t, n
  <2>4. ASSUME NEW i \in DOMAIN t, NEW j \in DOMAIN t, i < j PROVE t[i] < t[j]
    <3>1. CASE j = n + 1
      BY <1>1, <2>2, <2>3, <2>4, <3>1
    <3>2. CASE j \in 1..n
      <4>1. i \in 1..n
        BY <2>2, <2>4, <3>2
      <4> QED
        BY <2>2, <2>4, <3>2, <4>1 DEF NuevosEnOrden, Creciente
    <3> QED
      BY <2>2, <3>1, <3>2
  <2>5. \A i \in DOMAIN t : t[i] <= contadorPid + 1
    BY <1>1, <2>2, <2>3
  <2>6. ASSUME largo.paso = "crear", NEW i \in DOMAIN t PROVE largo.pid < t[i]
    <3>1. CASE i \in 1..n
      BY <2>2, <2>6, <3>1 DEF NuevosEnOrden
    <3>2. CASE i = n + 1
      <4>1. largo.pid <= contadorPid
        BY <2>6 DEF NuevosEnOrden
      <4>2. largo.pid \in Int
        BY <2>6 DEF IInv, ConProceso, Pids
      <4> QED
        BY <1>1, <2>2, <3>2, <4>1, <4>2
    <3> QED
      BY <2>2, <3>1, <3>2
  <2>7. largo.paso = "crear" => largo.pid <= contadorPid + 1
    <3> SUFFICES ASSUME largo.paso = "crear" PROVE largo.pid <= contadorPid + 1
      OBVIOUS
    <3>1. largo.pid <= contadorPid /\ largo.pid \in Int
      BY DEF NuevosEnOrden, IInv, ConProceso, Pids
    <3> QED
      BY <1>1, <3>1
  <2> QED
    BY <2>1, <2>4, <2>5, <2>6, <2>7 DEF NuevosEnOrden, Creciente
<1>3. ASSUME cola'.nuevos = cola.nuevos, contadorPid' = contadorPid,
             largo' = largo \/ largo'.paso # "crear"
      PROVE  NuevosEnOrden'
  BY <1>3 DEF NuevosEnOrden, Creciente
<1>4. CASE LargoPlazo
  <2>1. contadorPid' = contadorPid
    BY <1>4, PidsDados DEF LargoPlazo, LargoVerificaPausa, LargoEsperaReanudar,
       LargoEsperaAdmitir, SacarNuevo, CrearProceso, AumentarGrado, RechazarProceso, AjenoAlLargo
  <2>2. CASE SacarNuevo /\ Admisible
    <3> DEFINE q == Head(cola.nuevos)
    <3>1. /\ cola.nuevos # <<>> /\ cola'.nuevos = Tail(cola.nuevos)
          /\ largo' = [paso |-> "crear", pid |-> q]
      BY <1>1, <2>2 DEF SacarNuevo, Admisible, TipoCola
    <3>2. /\ Creciente(cola'.nuevos) /\ q = cola.nuevos[1] /\ 1 \in DOMAIN cola.nuevos
          /\ \A i \in DOMAIN cola'.nuevos :
               q < cola'.nuevos[i] /\ \E k \in DOMAIN cola.nuevos : cola'.nuevos[i] = cola.nuevos[k]
      BY <1>1, <3>1, QuitarEnOrden DEF NuevosEnOrden
    <3>3. q <= contadorPid /\ \A i \in DOMAIN cola'.nuevos : cola'.nuevos[i] <= contadorPid
      BY <3>2 DEF NuevosEnOrden
    <3> HIDE DEF q
    <3> QED
      BY <2>1, <3>1, <3>2, <3>3 DEF NuevosEnOrden
  <2>3. CASE ~(SacarNuevo /\ Admisible)
    <3>1. cola'.nuevos = cola.nuevos /\ largo'.paso # "crear"
      BY <1>1, <1>4, <2>3 DEF LargoPlazo, LargoVerificaPausa, LargoEsperaReanudar,
         LargoEsperaAdmitir, SacarNuevo, CrearProceso, AumentarGrado, RechazarProceso,
         LargoAcaba, IrLargo, TipoCola, TipoLargo
    <3> QED
      BY <1>3, <2>1, <3>1
  <2> QED
    BY <2>2, <2>3
<1>5. ASSUME NEW h \in HilosMata, MataBuscaNuevos(h)
      PROVE  NuevosEnOrden'
  <2>1. contadorPid' = contadorPid /\ largo' = largo
    BY <1>5 DEF MataBuscaNuevos, AjenoAMata
  <2>2. CASE cola' = cola
    BY <1>3, <2>1, <2>2
  <2>3. CASE cola' = [cola EXCEPT !.nuevos = RemoveFirst(cola.nuevos, mata[h].pid)]
    <3>1. cola'.nuevos = RemoveFirst(cola.nuevos, mata[h].pid)
      BY <1>1, <2>3 DEF TipoCola
    <3>2. /\ Creciente(cola'.nuevos)
          /\ \A i \in DOMAIN cola'.nuevos :
               \E k \in DOMAIN cola.nuevos : cola'.nuevos[i] = cola.nuevos[k]
      BY <1>1, <3>1, QuitarEnOrden DEF NuevosEnOrden
    <3> QED
      BY <2>1, <3>2 DEF NuevosEnOrden
  <2> QED
    BY <1>5, <2>2, <2>3 DEF MataBuscaNuevos
<1>6. ASSUME ~GestionarNuevoPrograma, ~LargoPlazo, \A h \in HilosMata : ~MataBuscaNuevos(h)
      PROVE  NuevosEnOrden'
  <2>1. contadorPid' = contadorPid
    BY <1>6, PidsDados
  <2>2. largo' = largo
    BY <1>6, AdmisionAparte DEF AdmisionQuieta
  <2>3. cola'.nuevos = cola.nuevos
    BY <1>6, NuevosAparte
  <2> QED
    BY <1>3, <2>1, <2>2, <2>3
<1> QED
  BY <1>2, <1>4, <1>5, <1>6

\* Outside these the mutex is nobody's to take or to free.
LEMMA MutexAparte ==
  ASSUME IInv, [Next]_vars, ~LargoPlazo, ~Usuario,
         \A h \in HilosMata : ~Matar(h) /\ ~\E p \in Pids : PedirFin(h, p)
  PROVE  mutex'.nuevo = mutex.nuevo /\ mata' = mata /\ usuario' = usuario
<1>1. mutex \in TipoMutex
  BY DEF IInv, TypeOK
<1>2. ASSUME NEW c \in CPUs, MensajeCPU(c) \/ SignalCPU(c)
      PROVE  mutex' = mutex /\ mata' = mata /\ usuario' = usuario
  BY <1>2 DEF MensajeCPU, GestionarNuevaCPU, FinProceso, FinQuantum, ProcesoExpropiado,
     Excepcion, WaitSemaforo, SignalSemaforo, VerificarInterrupciones, GestionarCierreCpu,
     SignalCPU, DejarYRemover, DejarCPU, hilos
<1>3. CASE OperacionPrincipal
  BY <1>3 DEF OperacionPrincipal, EncolarCodigo, CambiarEstadoCpu,
     RemoverDeColaEjecucion, EncolarEspera, EncolarListo, EncolarBloqueado,
     EncolarProcesoBloqueadoASemaforo, DesbloquearProceso, DevolverSemaforo,
     QuitarInterrupcion, AjenoAlPrincipal
<1>4. CASE CortoPlazo
  BY <1>4 DEF CortoPlazo, CortoVerificaPausa, CortoEsperaReanudar, CortoEsperaCPU,
     CortoEsperaListo, SacarListo, MirarOciosas, EnviarPcb, RegistrarEjecucion,
     DevolverAListos, AjenoAlCorto
<1>5. CASE FinProcesos
  BY <1>1, <1>5 DEF FinProcesos, FinEspera, FinTomaEspera, FinSaca, FinTermina,
     FinSueltaEspera, TipoMutex, AjenoAlFin
<1>6. CASE UNCHANGED vars \/ GestionarNuevoPrograma
  BY <1>6 DEF vars, GestionarNuevoPrograma
<1> QED
  BY <1>2, <1>3, <1>4, <1>5, <1>6 DEF Next, Vivir, Reposo, Caido

LEMMA DuenioAdmision ==
  ASSUME IInv, IInv', DuenioDeNuevos, LargoPlazo
  PROVE  DuenioDeNuevos'
<1>1. mutex \in TipoMutex /\ largo \in TipoLargo /\ mata' = mata /\ usuario' = usuario
  BY DEF IInv, TypeOK, LargoPlazo, LargoVerificaPausa, LargoEsperaReanudar,
     LargoEsperaAdmitir, SacarNuevo, CrearProceso, AumentarGrado, RechazarProceso, AjenoAlLargo
<1>2. CASE LargoVerificaPausa \/ LargoEsperaReanudar \/ LargoEsperaAdmitir \/ CrearProceso
  BY <1>1, <1>2 DEF LargoVerificaPausa, LargoEsperaReanudar, LargoEsperaAdmitir, CrearProceso,
     IrLargo, TipoLargo, DuenioDeNuevos
<1>3. CASE SacarNuevo
  <2>1. CASE Admisible
    <3>1. /\ mutex.nuevo = "libre" /\ mutex'.nuevo = "largo" /\ largo'.paso = "crear"
      BY <1>1, <1>3, <2>1 DEF SacarNuevo, TipoMutex
    <3> QED
      BY <1>1, <3>1 DEF DuenioDeNuevos, HilosMata
  <2>2. CASE ~Admisible
    BY <1>1, <1>3, <2>2 DEF SacarNuevo, TipoLargo, DuenioDeNuevos
  <2> QED
    BY <2>1, <2>2
<1>4. CASE AumentarGrado \/ RechazarProceso
  <2>1. /\ largo.paso \in {"crear", "aumentarGrado"} /\ largo'.paso = "pausa"
        /\ mutex'.nuevo = "libre"
    BY <1>1, <1>4 DEF AumentarGrado, RechazarProceso, LargoAcaba, TipoMutex
  <2> QED
    BY <1>1, <2>1 DEF DuenioDeNuevos, HilosMata
<1> QED
  BY <1>2, <1>3, <1>4 DEF LargoPlazo

\* A kill has the mutex from its first search on.
LEMMA DuenioMuerte ==
  ASSUME IInv, IInv', DuenioDeNuevos, NEW h \in HilosMata,
         Matar(h) \/ \E p \in Pids : PedirFin(h, p)
  PROVE  DuenioDeNuevos'
<1>1. /\ mutex \in TipoMutex /\ mata \in [HilosMata -> TipoMata] /\ largo' = largo
      /\ usuario' = usuario
  BY DEF IInv, TypeOK, Matar, MataToma, MataBuscaEspera, MataBuscaEjecucion, MataBuscaCPU,
     MataInterrumpe, MataBuscaNuevos, MataBuscaListos, MataEsperaToken, MataBuscaBloqueados,
     MataTermina, PedirFin, AjenoAMata
<1>2. ASSUME NEW r \in TipoMata, mata' = [mata EXCEPT ![h] = r],
             \/ /\ mutex'.nuevo = mutex.nuevo
                /\ r.paso \in {"nada", "mutex"} <=> mata[h].paso \in {"nada", "mutex"}
             \/ /\ mata[h].paso = "mutex" /\ mutex.nuevo = "libre"
                /\ r.paso \notin {"nada", "mutex"} /\ mutex'.nuevo = h
             \/ /\ mata[h].paso \notin {"nada", "mutex"}
                /\ r.paso = "nada" /\ mutex'.nuevo = "libre"
      PROVE  DuenioDeNuevos'
  <2>1. mata'[h] = r /\ \A g \in HilosMata \ {h} : mata'[g] = mata[g]
    BY <1>1, <1>2
  <2>2. \A g \in HilosMata : g \notin {"libre", "largo", "grado"}
    BY DEF HilosMata
  <2> QED
    BY <1>1, <1>2, <2>1, <2>2 DEF DuenioDeNuevos
<1>3. ASSUME NEW desde, NEW hasta \in PasosMata, IrMata(h, desde, hasta)
      PROVE  \E r \in TipoMata : /\ mata' = [mata EXCEPT ![h] = r]
                                 /\ r.paso = hasta /\ mata[h].paso = desde
  BY <1>3, IrMataTipo
<1>4. CASE MataToma(h)
  <2>1. /\ mutex.nuevo = "libre" /\ mutex'.nuevo = h /\ IrMata(h, "mutex", "espera")
        /\ "espera" \in PasosMata
    BY <1>1, <1>4 DEF MataToma, TipoMutex, PasosMata
  <2>2. PICK r \in TipoMata : /\ mata' = [mata EXCEPT ![h] = r]
                              /\ r.paso = "espera" /\ mata[h].paso = "mutex"
    BY <1>3, <2>1
  <2> QED
    BY <1>2, <2>1, <2>2
<1>5. ASSUME NEW desde \in PasosMata \ {"nada", "mutex"}, NEW hasta \in PasosMata \ {"nada", "mutex"},
             IrMata(h, desde, hasta), mutex'.nuevo = mutex.nuevo
      PROVE  DuenioDeNuevos'
  <2>1. PICK r \in TipoMata : /\ mata' = [mata EXCEPT ![h] = r]
                              /\ r.paso = hasta /\ mata[h].paso = desde
    BY <1>3, <1>5
  <2> QED
    BY <1>2, <1>5, <2>1
<1>6. {"espera", "ejecucion", "cpu", "interrumpir", "nuevos", "listos", "token", "bloqueados",
       "terminar"} \subseteq PasosMata \ {"nada", "mutex"}
  BY DEF PasosMata
<1>7. CASE MataBuscaEspera(h) \/ MataBuscaEjecucion(h) \/ MataBuscaNuevos(h)
  BY <1>5, <1>6, <1>7 DEF MataBuscaEspera, MataBuscaEjecucion, MataBuscaNuevos
<1>8. CASE MataBuscaCPU(h)
  <2>1. mutex' = mutex /\ mata[h].paso = "cpu" /\ mata[h] \in TipoMata
    BY <1>1, <1>8 DEF MataBuscaCPU
  <2>2. CASE mata' = mata
    BY <1>1, <2>1, <2>2 DEF DuenioDeNuevos
  <2>3. ASSUME NEW c \in CPUs, mata' = [mata EXCEPT ![h].paso = "interrumpir", ![h].cpu = c]
        PROVE  DuenioDeNuevos'
    <3> DEFINE r == [mata[h] EXCEPT !.paso = "interrumpir", !.cpu = c]
    <3>1. r \in TipoMata /\ r.paso = "interrumpir" /\ mata' = [mata EXCEPT ![h] = r]
      BY <1>1, <2>1, <2>3 DEF TipoMata, PasosMata
    <3> HIDE DEF r
    <3> QED
      BY <1>2, <2>1, <3>1
  <2> QED
    BY <1>8, <2>2, <2>3 DEF MataBuscaCPU
<1>9. CASE mata' = mata /\ mutex' = mutex
  BY <1>1, <1>9 DEF DuenioDeNuevos
<1>10. CASE MataAcaba(h) /\ mata[h].paso \notin {"nada", "mutex"}
  <2> DEFINE r == [paso |-> "nada", pid |-> Nadie, cpu |-> "ninguna"]
  <2>1. /\ r \in TipoMata /\ r.paso = "nada" /\ mata' = [mata EXCEPT ![h] = r]
        /\ mutex'.nuevo = "libre"
    BY <1>1, <1>10 DEF MataAcaba, TipoMata, PasosMata, Posibles, TipoMutex
  <2> HIDE DEF r
  <2> QED
    BY <1>2, <1>10, <2>1
<1>11. CASE MataInterrumpe(h) \/ MataTermina(h)
  BY <1>9, <1>10, <1>11 DEF MataInterrumpe, MataTermina
<1>12. CASE MataBuscaListos(h)
  <2>1. CASE DejarListos(h)
    <3>1. mutex'.nuevo = mutex.nuevo
      BY <1>1, <2>1 DEF DejarListos, TipoMutex
    <3> QED
      BY <1>5, <1>6, <2>1, <3>1 DEF DejarListos
  <2> QED
    BY <1>9, <1>12, <2>1 DEF MataBuscaListos
<1>13. CASE MataEsperaToken(h)
  <2>1. mutex'.nuevo = mutex.nuevo
    BY <1>1, <1>13 DEF MataEsperaToken, TipoMutex
  <2> QED
    BY <1>5, <1>6, <1>13, <2>1 DEF MataEsperaToken
<1>14. CASE MataBuscaBloqueados(h)
  <2>1. mutex' = mutex /\ mata[h].paso = "bloqueados" /\ mata[h] \in TipoMata
    BY <1>1, <1>14 DEF MataBuscaBloqueados
  <2>2. CASE mata' = [mata EXCEPT ![h].paso = "terminar"]
    <3>1. IrMata(h, "bloqueados", "terminar")
      BY <2>1, <2>2 DEF IrMata
    <3> QED
      BY <1>5, <1>6, <2>1, <3>1
  <2> QED
    BY <1>9, <1>14, <2>1, <2>2 DEF MataBuscaBloqueados
<1>15. ASSUME NEW p \in Pids, PedirFin(h, p)
       PROVE  DuenioDeNuevos'
  <2> DEFINE r == [paso |-> "mutex", pid |-> p, cpu |-> "ninguna"]
  <2>1. /\ r \in TipoMata /\ r.paso = "mutex" /\ mata' = [mata EXCEPT ![h] = r]
        /\ mutex' = mutex /\ mata[h].paso = "nada"
    BY <1>15 DEF PedirFin, TipoMata, PasosMata, Posibles
  <2> HIDE DEF r
  <2> QED
    BY <1>2, <2>1
<1> QED
  BY <1>4, <1>7, <1>8, <1>11, <1>12, <1>13, <1>14, <1>15 DEF Matar

LEMMA DuenioDeNuevosSigue ==
  ASSUME IInv, IInv', DuenioDeNuevos, [Next]_vars
  PROVE  DuenioDeNuevos'
<1>1. CASE LargoPlazo
  BY <1>1, DuenioAdmision
<1>2. ASSUME NEW h \in HilosMata, Matar(h) \/ \E p \in Pids : PedirFin(h, p)
      PROVE  DuenioDeNuevos'
  BY <1>2, DuenioMuerte
<1>3. CASE /\ ~LargoPlazo /\ ~Usuario
           /\ \A h \in HilosMata : ~Matar(h) /\ ~\E p \in Pids : PedirFin(h, p)
  <2>1. mutex'.nuevo = mutex.nuevo /\ mata' = mata /\ usuario' = usuario
    BY <1>3, MutexAparte
  <2>2. CASE GestionarNuevoPrograma
    BY <2>1, <2>2 DEF GestionarNuevoPrograma, DuenioDeNuevos
  <2>3. CASE ~GestionarNuevoPrograma
    <3>1. largo' = largo
      BY <1>3, <2>3, AdmisionAparte DEF AdmisionQuieta
    <3> QED
      BY <2>1, <3>1 DEF DuenioDeNuevos
  <2> QED
    BY <2>2, <2>3
<1>4. CASE Usuario
  <2>1. mutex \in TipoMutex /\ largo' = largo /\ mata' = mata
    BY <1>4 DEF IInv, TypeOK, Usuario, Pausar, PausarEspera, Reanudar, PostPlanificacion,
       PedirGrado, ModificarGrado, AjenoAlUsuario
  <2>2. \A g \in HilosMata : g \notin {"libre", "largo", "grado"}
    BY DEF HilosMata
  <2>3. CASE Pausar \/ PausarEspera \/ Reanudar \/ PostPlanificacion
    <3>1. mutex' = mutex /\ usuario # "tecleando" /\ usuario' # "tecleando"
      BY <2>3 DEF Pausar, PausarEspera, Reanudar, PostPlanificacion, UsuarioLibre
    <3> QED
      BY <2>1, <3>1 DEF DuenioDeNuevos
  <2>4. CASE PedirGrado
    <3>1. mutex.nuevo = "libre" /\ mutex'.nuevo = "grado" /\ usuario' = "tecleando"
      BY <2>1, <2>4 DEF PedirGrado, TipoMutex
    <3> QED
      BY <2>1, <2>2, <3>1 DEF DuenioDeNuevos
  <2>5. ASSUME NEW n \in GradosNuevos, ModificarGrado(n)
        PROVE  DuenioDeNuevos'
    <3>1. mutex'.nuevo = "libre" /\ usuario = "tecleando" /\ usuario' = "libre"
      BY <2>1, <2>5 DEF ModificarGrado, TipoMutex
    <3> QED
      BY <2>1, <2>2, <3>1 DEF DuenioDeNuevos
  <2> QED
    BY <1>4, <2>3, <2>4, <2>5 DEF Usuario
<1> QED
  BY <1>1, <1>2, <1>3, <1>4

\* Only the user changes the degree in force.
LEMMA GradoEnVigor ==
  ASSUME IInv, [Next]_vars
  PROVE  \/ grado'.maximo = grado.maximo
         \/ \E n \in GradosNuevos : ModificarGrado(n) /\ grado'.maximo = n
<1>1. grado \in TipoGrado
  BY DEF IInv, TypeOK
<1>2. ASSUME NEW c \in CPUs, MensajeCPU(c) \/ SignalCPU(c)
      PROVE  grado' = grado
  BY <1>2 DEF MensajeCPU, GestionarNuevaCPU, FinProceso, FinQuantum, ProcesoExpropiado,
     Excepcion, WaitSemaforo, SignalSemaforo, VerificarInterrupciones, GestionarCierreCpu,
     SignalCPU, DejarYRemover, DejarCPU
<1>3. CASE OperacionPrincipal
  BY <1>3 DEF OperacionPrincipal, EncolarCodigo, CambiarEstadoCpu,
     RemoverDeColaEjecucion, EncolarEspera, EncolarListo, EncolarBloqueado,
     EncolarProcesoBloqueadoASemaforo, DesbloquearProceso, DevolverSemaforo,
     QuitarInterrupcion, AjenoAlPrincipal
<1>4. CASE CortoPlazo
  BY <1>4 DEF CortoPlazo, CortoVerificaPausa, CortoEsperaReanudar, CortoEsperaCPU,
     CortoEsperaListo, SacarListo, MirarOciosas, EnviarPcb, RegistrarEjecucion,
     DevolverAListos, AjenoAlCorto
<1>5. CASE LargoPlazo
  BY <1>1, <1>5 DEF LargoPlazo, LargoVerificaPausa, LargoEsperaReanudar,
     LargoEsperaAdmitir, SacarNuevo, CrearProceso, AumentarGrado, RechazarProceso, TipoGrado
<1>6. CASE FinProcesos
  BY <1>1, <1>6 DEF FinProcesos, FinEspera, FinTomaEspera, FinSaca, FinTermina,
     FinSueltaEspera, Terminar, TipoGrado
<1>7. CASE Usuario
  BY <1>1, <1>7 DEF Usuario, Pausar, PausarEspera, Reanudar, PostPlanificacion, PedirGrado,
     ModificarGrado, TipoGrado
<1>8. CASE UNCHANGED vars \/ GestionarNuevoPrograma
  BY <1>8 DEF vars, GestionarNuevoPrograma
<1>9. ASSUME NEW h \in HilosMata, Matar(h) \/ \E p \in Pids : PedirFin(h, p)
      PROVE  grado'.maximo = grado.maximo
  BY <1>1, <1>9 DEF Matar, MataToma, MataBuscaEspera, MataBuscaEjecucion, MataBuscaCPU,
     MataInterrumpe, MataBuscaNuevos, MataBuscaListos, MataEsperaToken, MataBuscaBloqueados,
     MataTermina, PedirFin, Terminar, TipoGrado
<1> QED
  BY <1>2, <1>3, <1>4, <1>5, <1>6, <1>7, <1>8, <1>9 DEF Next, Vivir, Reposo, Caido

\* The mutex keeps the user's change of the degree out of an admission.
LEMMA LugarParaAdmitirSigue ==
  ASSUME IInv, IInv', DuenioDeNuevos, LugarParaAdmitir, [Next]_vars
  PROVE  LugarParaAdmitir'
<1>1. grado \in TipoGrado /\ grado' \in TipoGrado /\ largo \in TipoLargo
  BY DEF IInv, TypeOK
<1>2. CASE LargoPlazo
  <2>1. CASE SacarNuevo
    BY <1>1, <2>1 DEF SacarNuevo, Admisible, LugarParaAdmitir, TipoLargo
  <2>2. CASE ~SacarNuevo
    <3>1. largo'.paso # "crear"
      BY <1>1, <1>2, <2>2 DEF LargoPlazo, LargoVerificaPausa, LargoEsperaReanudar,
         LargoEsperaAdmitir, CrearProceso, AumentarGrado, RechazarProceso, LargoAcaba,
         IrLargo, TipoLargo
    <3> QED
      BY <3>1 DEF LugarParaAdmitir
  <2> QED
    BY <2>1, <2>2
<1>3. CASE GestionarNuevoPrograma
  BY <1>3 DEF GestionarNuevoPrograma, LugarParaAdmitir
<1>4. ASSUME NEW n \in GradosNuevos, ModificarGrado(n)
      PROVE  LugarParaAdmitir'
  <2>1. usuario = "tecleando" /\ largo' = largo
    BY <1>4 DEF ModificarGrado, AjenoAlUsuario
  <2> QED
    BY <2>1 DEF DuenioDeNuevos, LugarParaAdmitir
<1>5. CASE ~LargoPlazo /\ ~GestionarNuevoPrograma /\ grado'.maximo = grado.maximo
  <2>1. /\ largo' = largo
        /\ grado'.actual = grado.actual \/ grado'.actual = grado.actual - 1
    BY <1>5, AdmisionAparte DEF AdmisionQuieta
  <2>2. grado.actual \in Int /\ grado.maximo \in Int
    BY <1>1 DEF TipoGrado
  <2> QED
    BY <1>5, <2>1, <2>2 DEF LugarParaAdmitir
<1> QED
  BY <1>2, <1>3, <1>4, <1>5, GradoEnVigor

LEMMA InicioCiclo == Init => IInvCiclo
  BY DEF Init, IInvCiclo, NuevosEnOrden, Creciente, DuenioDeNuevos, LugarParaAdmitir, HilosMata

LEMMA InductivoCiclo == IInv /\ IInv' /\ IInvCiclo /\ [Next]_vars => IInvCiclo'
  BY NuevosEnOrdenSiguen, DuenioDeNuevosSigue, LugarParaAdmitirSigue DEF IInvCiclo

-----------------------------------------------------------------------------
(* The place of a process, and the state of the life cycle it stands for   *)

EnUnaCPU(r, p)  == \E c \in CPUs : r[c].pid = p
EnUnaKill(m, p) == ConElla(m, p) # {}

\* A process is in one place and no other.
EsSuSitio(s, q, r, m, pr, co, la, fi, p) ==
  /\ Contains(q.nuevos, p) <=> s = "nuevos"
  /\ Contains(q.listos, p) <=> s = "listos"
  /\ Contains(q.espera, p) <=> s = "espera"
  /\ q.bloqueados[p] > 0 <=> s = "bloqueados"
  /\ q.terminados[p] > 0 <=> s = "terminados"
  /\ EnUnaCPU(r, p) <=> s = "cpu"
  /\ EnUnaKill(m, p) <=> s = "mata"
  /\ DePrincipal(pr, p) = 1 <=> s = "principal"
  /\ DeCorto(co, p) = 1 <=> s = "corto"
  /\ DeLargo(la, p) = 1 <=> s = "largo"
  /\ DeFin(fi, p) = 1 <=> s = "fin"

Sitios == {"nuevos", "listos", "espera", "bloqueados", "terminados", "cpu", "mata",
           "principal", "corto", "largo", "fin", "ninguno"}

SitioEn(q, r, m, pr, co, la, fi, p) ==
  CHOOSE s \in Sitios : EsSuSitio(s, q, r, m, pr, co, la, fi, p)

Sitio(p) == SitioEn(cola, remoto, mata, principal, corto, largo, fin, p)

\* The sum of UnaCopia, in one state.
LEMMA SitioDeSuma ==
  ASSUME NEW q \in TipoCola, NEW r, NEW m, NEW pr, NEW co, NEW la, NEW fi, NEW p \in Pids,
         NEW n \in {0, 1},
         n = EnListas(q, p) + EnCPUs(r, p) + EnKills(m, p) + DePrincipal(pr, p)
               + DeCorto(co, p) + DeLargo(la, p) + DeFin(fi, p),
         NEW s, s = SitioEn(q, r, m, pr, co, la, fi, p)
  PROVE  /\ s \in Sitios /\ EsSuSitio(s, q, r, m, pr, co, la, fi, p)
         /\ n = 0 <=> s = "ninguno"
<1> DEFINE x1 == Veces(q.nuevos, p)
           x2 == Veces(q.listos, p)
           x3 == Veces(q.espera, p)
           x4 == q.bloqueados[p]
           x5 == q.terminados[p]
           x6 == EnCPUs(r, p)
           x7 == EnKills(m, p)
           x8 == DePrincipal(pr, p)
           x9 == DeCorto(co, p)
           x10 == DeLargo(la, p)
           x11 == DeFin(fi, p)
<1>1. /\ x1 \in Nat /\ x2 \in Nat /\ x3 \in Nat /\ x4 \in Nat /\ x5 \in Nat
      /\ x6 \in Nat /\ x7 \in Nat
  BY ListasNat, ConjuntosFinitos
<1>2. /\ x8 \in {0, 1} /\ x9 \in {0, 1} /\ x10 \in {0, 1} /\ x11 \in {0, 1}
  BY DEF DePrincipal, DeCorto, DeLargo, DeFin
<1>3. n = (x1 + x2 + x3 + x4 + x5) + x6 + x7 + x8 + x9 + x10 + x11
  BY DEF EnListas
<1>4. /\ Contains(q.nuevos, p) <=> x1 > 0
      /\ Contains(q.listos, p) <=> x2 > 0
      /\ Contains(q.espera, p) <=> x3 > 0
  <2>1. q.nuevos \in Seq(Pids) /\ q.listos \in Seq(Posibles) /\ q.espera \in Seq(Pids)
    BY DEF TipoCola
  <2> QED
    BY <2>1, VecesNat
<1>5. EnUnaCPU(r, p) <=> x6 > 0
  <2> DEFINE A == {c \in CPUs : r[c].pid = p}
  <2>1. IsFiniteSet(A) /\ x6 = Cardinality(A)
    BY ConjuntosFinitos DEF EnCPUs
  <2>2. A # {} <=> EnUnaCPU(r, p)
    BY DEF EnUnaCPU
  <2> HIDE DEF A
  <2>3. Cardinality(A) = 0 <=> A = {}
    BY <2>1, FS_EmptySet
  <2> QED
    BY <1>1, <2>1, <2>2, <2>3
<1>6. EnUnaKill(m, p) <=> x7 > 0
  <2>1. IsFiniteSet(ConElla(m, p)) /\ x7 = Cardinality(ConElla(m, p))
    BY ConjuntosFinitos DEF EnKills
  <2>2. Cardinality(ConElla(m, p)) = 0 <=> ConElla(m, p) = {}
    BY <2>1, FS_EmptySet
  <2> QED
    BY <1>1, <2>1, <2>2 DEF EnUnaKill
<1> DEFINE Es(t) == /\ (x1 > 0) <=> t = "nuevos"
                    /\ (x2 > 0) <=> t = "listos"
                    /\ (x3 > 0) <=> t = "espera"
                    /\ (x4 > 0) <=> t = "bloqueados"
                    /\ (x5 > 0) <=> t = "terminados"
                    /\ (x6 > 0) <=> t = "cpu"
                    /\ (x7 > 0) <=> t = "mata"
                    /\ (x8 = 1) <=> t = "principal"
                    /\ (x9 = 1) <=> t = "corto"
                    /\ (x10 = 1) <=> t = "largo"
                    /\ (x11 = 1) <=> t = "fin"
<1> HIDE DEF x1, x2, x3, x4, x5, x6, x7, x8, x9, x10, x11
<1>7. ASSUME NEW t PROVE EsSuSitio(t, q, r, m, pr, co, la, fi, p) <=> Es(t)
  BY <1>4, <1>5, <1>6 DEF EsSuSitio, x4, x5, x8, x9, x10, x11
<1>8. \E t \in Sitios : Es(t) /\ (n = 0 <=> t = "ninguno")
  <2>1. n = 0 \/ x1 = 1 \/ x2 = 1 \/ x3 = 1 \/ x4 = 1 \/ x5 = 1 \/ x6 = 1 \/ x7 = 1
        \/ x8 = 1 \/ x9 = 1 \/ x10 = 1 \/ x11 = 1
    BY ONLY <1>1, <1>2, <1>3, n \in {0, 1}
  <2>3. CASE x1 = 1
    <3>1. Es("nuevos") /\ (n = 0 <=> "nuevos" = "ninguno")
      BY ONLY <1>1, <1>2, <1>3, <2>3, n \in {0, 1}
    <3> QED
      BY <3>1 DEF Sitios
  <2>4. CASE x2 = 1
    <3>1. Es("listos") /\ (n = 0 <=> "listos" = "ninguno")
      BY ONLY <1>1, <1>2, <1>3, <2>4, n \in {0, 1}
    <3> QED
      BY <3>1 DEF Sitios
  <2>5. CASE x3 = 1
    <3>1. Es("espera") /\ (n = 0 <=> "espera" = "ninguno")
      BY ONLY <1>1, <1>2, <1>3, <2>5, n \in {0, 1}
    <3> QED
      BY <3>1 DEF Sitios
  <2>6. CASE x4 = 1
    <3>1. Es("bloqueados") /\ (n = 0 <=> "bloqueados" = "ninguno")
      BY ONLY <1>1, <1>2, <1>3, <2>6, n \in {0, 1}
    <3> QED
      BY <3>1 DEF Sitios
  <2>7. CASE x5 = 1
    <3>1. Es("terminados") /\ (n = 0 <=> "terminados" = "ninguno")
      BY ONLY <1>1, <1>2, <1>3, <2>7, n \in {0, 1}
    <3> QED
      BY <3>1 DEF Sitios
  <2>8. CASE x6 = 1
    <3>1. Es("cpu") /\ (n = 0 <=> "cpu" = "ninguno")
      BY ONLY <1>1, <1>2, <1>3, <2>8, n \in {0, 1}
    <3> QED
      BY <3>1 DEF Sitios
  <2>9. CASE x7 = 1
    <3>1. Es("mata") /\ (n = 0 <=> "mata" = "ninguno")
      BY ONLY <1>1, <1>2, <1>3, <2>9, n \in {0, 1}
    <3> QED
      BY <3>1 DEF Sitios
  <2>10. CASE x8 = 1
    <3>1. Es("principal") /\ (n = 0 <=> "principal" = "ninguno")
      BY ONLY <1>1, <1>2, <1>3, <2>10, n \in {0, 1}
    <3> QED
      BY <3>1 DEF Sitios
  <2>11. CASE x9 = 1
    <3>1. Es("corto") /\ (n = 0 <=> "corto" = "ninguno")
      BY ONLY <1>1, <1>2, <1>3, <2>11, n \in {0, 1}
    <3> QED
      BY <3>1 DEF Sitios
  <2>12. CASE x10 = 1
    <3>1. Es("largo") /\ (n = 0 <=> "largo" = "ninguno")
      BY ONLY <1>1, <1>2, <1>3, <2>12, n \in {0, 1}
    <3> QED
      BY <3>1 DEF Sitios
  <2>13. CASE x11 = 1
    <3>1. Es("fin") /\ (n = 0 <=> "fin" = "ninguno")
      BY ONLY <1>1, <1>2, <1>3, <2>13, n \in {0, 1}
    <3> QED
      BY <3>1 DEF Sitios
  <2>14. CASE n = 0
    <3>1. Es("ninguno") /\ (n = 0 <=> "ninguno" = "ninguno")
      BY ONLY <1>1, <1>2, <1>3, <2>14, n \in {0, 1}
    <3> QED
      BY <3>1 DEF Sitios
  <2> QED
    BY ONLY <2>1, <2>3, <2>4, <2>5, <2>6, <2>7, <2>8, <2>9, <2>10, <2>11, <2>12, <2>13, <2>14
<1>9. ASSUME NEW t, NEW u \in Sitios, Es(t), Es(u), t \in Sitios PROVE t = u
  BY ONLY <1>9 DEF Sitios
<1>10. s \in Sitios /\ Es(s)
  <2> HIDE DEF Es
  <2>1. \E t \in Sitios : EsSuSitio(t, q, r, m, pr, co, la, fi, p)
    BY <1>7, <1>8
  <2> QED
    BY <2>1, <1>7, s = SitioEn(q, r, m, pr, co, la, fi, p) DEF SitioEn
<1>11. n = 0 <=> s = "ninguno"
  BY <1>8, <1>9, <1>10
<1> QED
  BY <1>7, <1>10, <1>11

Situados(p) ==
  /\ Sitio(p) \in Sitios
  /\ EsSuSitio(Sitio(p), cola, remoto, mata, principal, corto, largo, fin, p)
  /\ Sitio(p) = "ninguno" <=> p > contadorPid

LEMMA SitioUnico ==
  ASSUME IInv, IInv', UnaCopia, UnaCopia', NEW p \in Pids
  PROVE  Situados(p) /\ Situados(p)'
<1>1. Balance(p) /\ cola \in TipoCola /\ cola' \in TipoCola
  BY SumaDeCopias DEF IInv, TypeOK
<1>2. /\ contadorPid \in Int /\ contadorPid' \in Int /\ p \in Int
  BY ConstantesOK DEF IInv, TypeOK, Pids, ConstantesOK
<1> DEFINE n == Booleano(p <= contadorPid)
           m == Booleano(p <= contadorPid')
<1>3. /\ n \in {0, 1} /\ m \in {0, 1} /\ (n = 0 <=> p > contadorPid) /\ (m = 0 <=> p > contadorPid')
  BY <1>2 DEF Booleano
<1>4. Copias(p) = n /\ Copias(p)' = m
  BY DEF UnaCopia
<1> HIDE DEF n, m
<1>5. /\ n = EnListas(cola, p) + EnCPUs(remoto, p) + EnKills(mata, p)
               + DePrincipal(principal, p) + DeCorto(corto, p)
               + DeLargo(largo, p) + DeFin(fin, p)
      /\ m = EnListas(cola', p) + EnCPUs(remoto', p) + EnKills(mata', p)
               + DePrincipal(principal', p) + DeCorto(corto', p)
               + DeLargo(largo', p) + DeFin(fin', p)
  BY ONLY <1>1, <1>4 DEF Balance
<1>8. /\ Sitio(p) = SitioEn(cola, remoto, mata, principal, corto, largo, fin, p)
      /\ Sitio(p)' = SitioEn(cola', remoto', mata', principal', corto', largo', fin', p)
  BY DEF Sitio
<1>6. /\ EsSuSitio(Sitio(p), cola, remoto, mata, principal, corto, largo, fin, p)
      /\ Sitio(p) \in Sitios
      /\ n = 0 <=> Sitio(p) = "ninguno"
  BY <1>1, <1>3, <1>5, <1>8, SitioDeSuma
<1>7. /\ EsSuSitio(Sitio(p)', cola', remoto', mata', principal', corto', largo', fin', p)
      /\ Sitio(p)' \in Sitios
      /\ m = 0 <=> Sitio(p)' = "ninguno"
  BY <1>1, <1>3, <1>5, <1>8, SitioDeSuma
<1> QED
  BY <1>3, <1>6, <1>7 DEF Situados

DeActivo(s, destino) ==
  CASE s = "principal"            -> destino
    [] s = "cpu"                  -> "ejecucion"
    [] s = "bloqueados"           -> "bloqueado"
    [] s \in {"listos", "corto"}  -> "listo"
    [] OTHER                      -> "saliendo"

DeSitio(s, conTabla, destino) ==
  IF s = "ninguno" THEN "porLlegar"
  ELSE IF s \in {"nuevos", "largo"} THEN "nuevo"
  ELSE IF s = "terminados" THEN "terminado"
  ELSE IF conTabla THEN DeActivo(s, destino)
  ELSE "rechazado"

LEMMA EstadoPorSitio ==
  ASSUME IInv, IInv', NEW p \in Pids, Situados(p), Situados(p)'
  PROVE  /\ EstadoDe(p) = DeSitio(Sitio(p), p \in adm.tablas, Destino)
         /\ EstadoDe(p)' = DeSitio(Sitio(p)', p \in adm'.tablas, Destino')
<1>1. /\ EnPrincipal(p) <=> DePrincipal(principal, p) = 1
      /\ EnCorto(p) <=> DeCorto(corto, p) = 1
      /\ EnLargo(p) <=> DeLargo(largo, p) = 1
      /\ (\E c \in CPUs : remoto[c].pid = p) <=> EnUnaCPU(remoto, p)
  BY DEF EnPrincipal, EnCorto, EnLargo, DePrincipal, ConPcb, FaltaEn, Falta, DeCorto, DeLargo,
     EnUnaCPU
<1>2. /\ EnPrincipal(p)' <=> DePrincipal(principal', p) = 1
      /\ EnCorto(p)' <=> DeCorto(corto', p) = 1
      /\ EnLargo(p)' <=> DeLargo(largo', p) = 1
      /\ (\E c \in CPUs : remoto'[c].pid = p) <=> EnUnaCPU(remoto', p)
  BY DEF EnPrincipal, EnCorto, EnLargo, DePrincipal, ConPcb, FaltaEn, Falta, DeCorto, DeLargo,
     EnUnaCPU
<1>3. /\ EnPrincipal(p) <=> Sitio(p) = "principal"
      /\ (\E c \in CPUs : remoto[c].pid = p) <=> Sitio(p) = "cpu"
      /\ cola.bloqueados[p] > 0 <=> Sitio(p) = "bloqueados"
      /\ Contains(cola.listos, p) \/ EnCorto(p) <=> Sitio(p) \in {"listos", "corto"}
      /\ Contains(cola.nuevos, p) \/ EnLargo(p) <=> Sitio(p) \in {"nuevos", "largo"}
      /\ cola.terminados[p] > 0 <=> Sitio(p) = "terminados"
      /\ p > contadorPid <=> Sitio(p) = "ninguno"
  BY <1>1 DEF Situados, EsSuSitio
<1>4. /\ EnPrincipal(p)' <=> Sitio(p)' = "principal"
      /\ (\E c \in CPUs : remoto'[c].pid = p) <=> Sitio(p)' = "cpu"
      /\ cola'.bloqueados[p] > 0 <=> Sitio(p)' = "bloqueados"
      /\ Contains(cola'.listos, p) \/ EnCorto(p)' <=> Sitio(p)' \in {"listos", "corto"}
      /\ Contains(cola'.nuevos, p) \/ EnLargo(p)' <=> Sitio(p)' \in {"nuevos", "largo"}
      /\ cola'.terminados[p] > 0 <=> Sitio(p)' = "terminados"
      /\ p > contadorPid' <=> Sitio(p)' = "ninguno"
  BY <1>2 DEF Situados, EsSuSitio
<1> DEFINE s == Sitio(p)
           t == Sitio(p)'
<1> HIDE DEF s, t
<1>5. EstadoDe(p) = DeSitio(Sitio(p), p \in adm.tablas, Destino)
  BY <1>3, Zenon DEF EstadoDe, EstadoActivo, DeSitio, DeActivo
<1>6. EstadoDe(p)' = DeSitio(Sitio(p)', p \in adm'.tablas, Destino')
  BY <1>4, Zenon DEF EstadoDe, EstadoActivo, DeSitio, DeActivo
<1> QED
  BY <1>5, <1>6

-----------------------------------------------------------------------------
(* The processes that a step leaves where they are                         *)

SigueEnListas(q, t, p) ==
  /\ Contains(q.nuevos, p) => Contains(t.nuevos, p)
  /\ Contains(q.listos, p) => Contains(t.listos, p)
  /\ Contains(q.espera, p) => Contains(t.espera, p)
  /\ q.bloqueados[p] > 0 => t.bloqueados[p] > 0
  /\ q.terminados[p] > 0 => t.terminados[p] > 0

SigueEnHilos(p) ==
  /\ EnUnaCPU(remoto, p) => EnUnaCPU(remoto', p)
  /\ EnUnaKill(mata, p) => EnUnaKill(mata', p)
  /\ DePrincipal(principal, p) = 1 =>
       DePrincipal(principal', p) = 1 /\ principal'.rutina = principal.rutina
  /\ DeCorto(corto, p) = 1 => DeCorto(corto', p) = 1
  /\ DeLargo(largo, p) = 1 => DeLargo(largo', p) = 1
  /\ DeFin(fin, p) = 1 => DeFin(fin', p) = 1

Sigue(p) ==
  /\ SigueEnListas(cola, cola', p) /\ SigueEnHilos(p)
  /\ p \in adm'.tablas <=> p \in adm.tablas
  /\ p > contadorPid' <=> p > contadorPid

LEMMA QuietoEnSuSitio ==
  ASSUME IInv, IInv', UnaCopia, UnaCopia', NEW p \in Pids, Sigue(p)
  PROVE  EstadoDe(p)' = EstadoDe(p)
<1>1. Situados(p) /\ Situados(p)'
  BY SitioUnico
<1>2. /\ EstadoDe(p) = DeSitio(Sitio(p), p \in adm.tablas, Destino)
      /\ EstadoDe(p)' = DeSitio(Sitio(p)', p \in adm'.tablas, Destino')
  BY <1>1, EstadoPorSitio
<1> DEFINE s == Sitio(p)
           t == Sitio(p)'
<1>3. /\ s \in Sitios /\ EsSuSitio(s, cola, remoto, mata, principal, corto, largo, fin, p)
      /\ t \in Sitios /\ EsSuSitio(t, cola', remoto', mata', principal', corto', largo', fin', p)
      /\ s = "ninguno" <=> p > contadorPid
      /\ t = "ninguno" <=> p > contadorPid'
  BY <1>1 DEF Situados
<1> HIDE DEF s, t
<1>4. t = s
  BY <1>3 DEF Sigue, SigueEnListas, SigueEnHilos, EsSuSitio, Sitios
<1>5. s = "principal" => Destino' = Destino
  <2>1. s = "principal" => principal'.rutina = principal.rutina
    BY <1>3 DEF Sigue, SigueEnHilos, EsSuSitio
  <2> QED
    BY <2>1 DEF Destino
<1>6. DeSitio(t, p \in adm'.tablas, Destino') = DeSitio(s, p \in adm.tablas, Destino)
  <2>1. p \in adm'.tablas <=> p \in adm.tablas
    BY DEF Sigue
  <2> QED
    BY <1>4, <1>5, <2>1 DEF DeSitio, DeActivo
<1> QED
  BY <1>2, <1>6 DEF s, t

\* What a list still has after an addition or a removal.
LEMMA SigueEnLista ==
  ASSUME NEW S, NEW s \in Seq(S), NEW p, Contains(s, p)
  PROVE  /\ \A x \in S : Contains(Append(s, x), p)
         /\ p # Head(s) => Contains(Tail(s), p)
         /\ \A i \in 1..Len(s) : s[i] # p => Contains(RemoveAt(s, i), p)
         /\ \A e : e # p => Contains(RemoveFirst(s, e), p)
<1>1. Veces(s, p) \in Nat /\ Veces(s, p) > 0
  BY VecesNat
<1>2. ASSUME NEW x \in S PROVE Contains(Append(s, x), p)
  <2>1. Append(s, x) \in Seq(S) /\ Veces(Append(s, x), p) = Veces(s, p) + Uno(x, p)
    BY VecesAgregar
  <2>2. Veces(Append(s, x), p) > 0
    BY <1>1, <2>1 DEF Uno
  <2> QED
    BY <2>1, <2>2, VecesNat
<1>3. ASSUME p # Head(s) PROVE Contains(Tail(s), p)
  <2>1. s # <<>>
    BY DEF Contains
  <2>2. Tail(s) \in Seq(S) /\ Veces(Tail(s), p) = Veces(s, p) - Uno(Head(s), p)
    BY <2>1, VecesCola
  <2>3. Veces(Tail(s), p) > 0
    BY <1>1, <1>3, <2>2 DEF Uno
  <2> QED
    BY <2>2, <2>3, VecesNat
<1>4. ASSUME NEW i \in 1..Len(s), s[i] # p PROVE Contains(RemoveAt(s, i), p)
  <2>1. /\ RemoveAt(s, i) \in Seq(S)
        /\ Veces(RemoveAt(s, i), p) = Veces(s, p) - Uno(s[i], p)
    BY VecesQuitar, QuitarLugar
  <2>2. Veces(RemoveAt(s, i), p) > 0
    BY <1>1, <1>4, <2>1 DEF Uno
  <2> QED
    BY <2>1, <2>2, VecesNat
<1>5. ASSUME NEW e, e # p PROVE Contains(RemoveFirst(s, e), p)
  <2>1. CASE Contains(s, e)
    <3>1. /\ RemoveFirst(s, e) \in Seq(S)
          /\ Veces(RemoveFirst(s, e), p) = Veces(s, p) - Uno(e, p)
      BY <2>1, VecesQuitarPrimero
    <3>2. Veces(RemoveFirst(s, e), p) > 0
      BY <1>1, <1>5, <3>1 DEF Uno
    <3> QED
      BY <3>1, <3>2, VecesNat
  <2>2. CASE ~Contains(s, e)
    BY <2>2, VecesQuitarPrimero
  <2> QED
    BY <2>1, <2>2
<1> QED
  BY <1>2, <1>3, <1>4, <1>5

\* What is added is there.
LEMMA Agregado ==
  ASSUME NEW S, NEW s \in Seq(S), NEW x \in S
  PROVE  Contains(Append(s, x), x)
<1>1. Append(s, x)[Len(s) + 1] = x /\ Len(s) + 1 \in 1..Len(Append(s, x))
  OBVIOUS
<1> QED
  BY <1>1 DEF Contains

\* A step that only adds to the lists, or that does not touch them.
LEMMA ListasQueCrecen ==
  ASSUME NEW q \in TipoCola, NEW t \in TipoCola,
         \/ t = q
         \/ \E e : t = [q EXCEPT !.ejecucion = e]
         \/ \E x \in Pids : \/ t = [q EXCEPT !.nuevos = Append(q.nuevos, x)]
                            \/ t = [q EXCEPT !.espera = Append(q.espera, x)]
                            \/ t = [q EXCEPT !.bloqueados = Sumar(q.bloqueados, x)]
                            \/ t = [q EXCEPT !.terminados = Sumar(q.terminados, x)]
         \/ \E x \in Posibles : t = [q EXCEPT !.listos = Append(q.listos, x)]
  PROVE  \A p \in Pids : SigueEnListas(q, t, p)
<1> SUFFICES ASSUME NEW p \in Pids PROVE SigueEnListas(q, t, p)
  OBVIOUS
<1>1. /\ q.nuevos \in Seq(Pids) /\ q.listos \in Seq(Posibles) /\ q.espera \in Seq(Pids)
      /\ q.bloqueados \in [Pids -> Nat] /\ q.terminados \in [Pids -> Nat]
  BY DEF TipoCola, Bolsas
<1>2. CASE t = q \/ \E e : t = [q EXCEPT !.ejecucion = e]
  BY <1>2 DEF SigueEnListas, TipoCola
<1>3. ASSUME NEW x \in Pids, t = [q EXCEPT !.nuevos = Append(q.nuevos, x)]
      PROVE  SigueEnListas(q, t, p)
  <2>1. Contains(q.nuevos, p) => Contains(Append(q.nuevos, x), p)
    BY <1>1, SigueEnLista
  <2> QED
    BY <1>3, <2>1 DEF SigueEnListas, TipoCola
<1>4. ASSUME NEW x \in Pids, t = [q EXCEPT !.espera = Append(q.espera, x)]
      PROVE  SigueEnListas(q, t, p)
  <2>1. Contains(q.espera, p) => Contains(Append(q.espera, x), p)
    BY <1>1, SigueEnLista
  <2> QED
    BY <1>4, <2>1 DEF SigueEnListas, TipoCola
<1>5. ASSUME NEW x \in Posibles, t = [q EXCEPT !.listos = Append(q.listos, x)]
      PROVE  SigueEnListas(q, t, p)
  <2>1. Contains(q.listos, p) => Contains(Append(q.listos, x), p)
    BY <1>1, SigueEnLista
  <2> QED
    BY <1>5, <2>1 DEF SigueEnListas, TipoCola
<1>6. ASSUME NEW x \in Pids, t = [q EXCEPT !.bloqueados = Sumar(q.bloqueados, x)]
      PROVE  SigueEnListas(q, t, p)
  <2>1. q.bloqueados[p] > 0 => Sumar(q.bloqueados, x)[p] > 0
    BY <1>1 DEF Sumar
  <2> QED
    BY <1>6, <2>1 DEF SigueEnListas, TipoCola
<1>7. ASSUME NEW x \in Pids, t = [q EXCEPT !.terminados = Sumar(q.terminados, x)]
      PROVE  SigueEnListas(q, t, p)
  <2>1. q.terminados[p] > 0 => Sumar(q.terminados, x)[p] > 0
    BY <1>1 DEF Sumar
  <2> QED
    BY <1>7, <2>1 DEF SigueEnListas, TipoCola
<1> QED
  BY <1>2, <1>3, <1>4, <1>5, <1>6, <1>7

\* A step that takes x from a list leaves the others in theirs.
LEMMA ListasQueDejan ==
  ASSUME NEW q \in TipoCola, NEW t \in TipoCola, NEW x, NEW p \in Pids, p # x,
         \/ q.nuevos # <<>> /\ x = Head(q.nuevos) /\ t = [q EXCEPT !.nuevos = Tail(q.nuevos)]
         \/ q.listos # <<>> /\ x = Head(q.listos) /\ t = [q EXCEPT !.listos = Tail(q.listos)]
         \/ t = [q EXCEPT !.nuevos = RemoveFirst(q.nuevos, x)]
         \/ t = [q EXCEPT !.listos = RemoveFirst(q.listos, x)]
         \/ t = [q EXCEPT !.espera = RemoveFirst(q.espera, x)]
         \/ \E i \in 1..Len(q.espera) :
              x = q.espera[i] /\ t = [q EXCEPT !.espera = RemoveAt(q.espera, i)]
         \/ t = [q EXCEPT !.bloqueados = Restar(q.bloqueados, x)]
  PROVE  SigueEnListas(q, t, p)
<1>1. /\ q.nuevos \in Seq(Pids) /\ q.listos \in Seq(Posibles) /\ q.espera \in Seq(Pids)
      /\ q.bloqueados \in [Pids -> Nat] /\ q.terminados \in [Pids -> Nat]
  BY DEF TipoCola, Bolsas
<1>2. CASE x = Head(q.nuevos) /\ t = [q EXCEPT !.nuevos = Tail(q.nuevos)]
  <2>1. Contains(q.nuevos, p) => Contains(Tail(q.nuevos), p)
    BY <1>1, <1>2, SigueEnLista
  <2> QED
    BY <1>2, <2>1 DEF SigueEnListas, TipoCola
<1>3. CASE x = Head(q.listos) /\ t = [q EXCEPT !.listos = Tail(q.listos)]
  <2>1. Contains(q.listos, p) => Contains(Tail(q.listos), p)
    BY <1>1, <1>3, SigueEnLista
  <2> QED
    BY <1>3, <2>1 DEF SigueEnListas, TipoCola
<1>4. CASE t = [q EXCEPT !.nuevos = RemoveFirst(q.nuevos, x)]
  <2>1. Contains(q.nuevos, p) => Contains(RemoveFirst(q.nuevos, x), p)
    BY <1>1, SigueEnLista
  <2> QED
    BY <1>4, <2>1 DEF SigueEnListas, TipoCola
<1>5. CASE t = [q EXCEPT !.listos = RemoveFirst(q.listos, x)]
  <2>1. Contains(q.listos, p) => Contains(RemoveFirst(q.listos, x), p)
    BY <1>1, SigueEnLista
  <2> QED
    BY <1>5, <2>1 DEF SigueEnListas, TipoCola
<1>6. CASE t = [q EXCEPT !.espera = RemoveFirst(q.espera, x)]
  <2>1. Contains(q.espera, p) => Contains(RemoveFirst(q.espera, x), p)
    BY <1>1, SigueEnLista
  <2> QED
    BY <1>6, <2>1 DEF SigueEnListas, TipoCola
<1>7. ASSUME NEW i \in 1..Len(q.espera), x = q.espera[i],
             t = [q EXCEPT !.espera = RemoveAt(q.espera, i)]
      PROVE  SigueEnListas(q, t, p)
  <2>1. Contains(q.espera, p) => Contains(RemoveAt(q.espera, i), p)
    BY <1>1, <1>7, SigueEnLista
  <2> QED
    BY <1>7, <2>1 DEF SigueEnListas, TipoCola
<1>8. CASE t = [q EXCEPT !.bloqueados = Restar(q.bloqueados, x)]
  <2>1. q.bloqueados[p] > 0 => Restar(q.bloqueados, x)[p] > 0
    BY <1>1 DEF Restar
  <2> QED
    BY <1>8, <2>1 DEF SigueEnListas, TipoCola
<1> QED
  BY <1>2, <1>3, <1>4, <1>5, <1>6, <1>7, <1>8

-----------------------------------------------------------------------------
(* The moves: in a step at most one process goes from a place to another   *)

Quietos == \A p \in Pids : Sigue(p)
SoloEl(q) == \A p \in Pids : p # q => Sigue(p)
Va(q, a, b) == Sitio(q) = a /\ Sitio(q)' = b

\* The moves of a process that the threads, the CPUs and the kills make.
Recorre(q) ==
  \/ /\ adm'.tablas = adm.tablas
     /\ \/ Va(q, "ninguno", "nuevos") /\ q = contadorPid + 1
        \/ Va(q, "nuevos", "largo") \/ Va(q, "nuevos", "mata") \/ Va(q, "largo", "espera")
        \/ Va(q, "listos", "corto") \/ Va(q, "corto", "listos")
        \/ Va(q, "corto", "cpu") /\ \E c \in CPUs : remoto[c].pid = Nadie
        \/ Va(q, "cpu", "principal")
        \/ Va(q, "principal", "listos") /\ Destino = "listo"
        \/ Va(q, "principal", "bloqueados") /\ Destino = "bloqueado"
        \/ Va(q, "principal", "espera") /\ Destino = "saliendo"
        \/ Va(q, "bloqueados", "principal") /\ Destino' = "listo"
        \/ Va(q, "listos", "mata") \/ Va(q, "bloqueados", "mata")
        \/ Va(q, "espera", "mata") \/ Va(q, "espera", "fin")
  \/ /\ Va(q, "largo", "listos") /\ largo.paso = "crear" /\ largo.pid = q
     /\ adm'.tablas = adm.tablas \cup {q}
  \/ /\ Va(q, "fin", "terminados") \/ Va(q, "mata", "terminados")
     /\ q \in adm.tablas /\ adm'.tablas = adm.tablas \ {q}

Avanza == Quietos \/ \E q \in Pids : SoloEl(q) /\ Recorre(q)

LEMMA SitioPor ==
  ASSUME IInv, IInv', UnaCopia, UnaCopia', NEW p \in Pids
  PROVE  /\ Contains(cola.nuevos, p) => Sitio(p) = "nuevos"
         /\ Contains(cola.listos, p) => Sitio(p) = "listos"
         /\ Contains(cola.espera, p) => Sitio(p) = "espera"
         /\ cola.bloqueados[p] > 0 => Sitio(p) = "bloqueados"
         /\ EnUnaCPU(remoto, p) => Sitio(p) = "cpu"
         /\ EnUnaKill(mata, p) => Sitio(p) = "mata"
         /\ DePrincipal(principal, p) = 1 => Sitio(p) = "principal"
         /\ DeCorto(corto, p) = 1 => Sitio(p) = "corto"
         /\ DeLargo(largo, p) = 1 => Sitio(p) = "largo"
         /\ DeFin(fin, p) = 1 => Sitio(p) = "fin"
         /\ p > contadorPid => Sitio(p) = "ninguno"
         /\ Contains(cola'.nuevos, p) => Sitio(p)' = "nuevos"
         /\ Contains(cola'.listos, p) => Sitio(p)' = "listos"
         /\ Contains(cola'.espera, p) => Sitio(p)' = "espera"
         /\ cola'.bloqueados[p] > 0 => Sitio(p)' = "bloqueados"
         /\ cola'.terminados[p] > 0 => Sitio(p)' = "terminados"
         /\ EnUnaCPU(remoto', p) => Sitio(p)' = "cpu"
         /\ EnUnaKill(mata', p) => Sitio(p)' = "mata"
         /\ DePrincipal(principal', p) = 1 => Sitio(p)' = "principal"
         /\ DeCorto(corto', p) = 1 => Sitio(p)' = "corto"
         /\ DeLargo(largo', p) = 1 => Sitio(p)' = "largo"
         /\ DeFin(fin', p) = 1 => Sitio(p)' = "fin"
<1>1. Situados(p) /\ Situados(p)'
  BY SitioUnico
<1> DEFINE s == Sitio(p)
           t == Sitio(p)'
<1>2. /\ EsSuSitio(s, cola, remoto, mata, principal, corto, largo, fin, p)
      /\ EsSuSitio(t, cola', remoto', mata', principal', corto', largo', fin', p)
      /\ p > contadorPid => s = "ninguno"
  BY <1>1 DEF Situados
<1> HIDE DEF s, t
<1>3. /\ Contains(cola.nuevos, p) => s = "nuevos"
      /\ Contains(cola.listos, p) => s = "listos"
      /\ Contains(cola.espera, p) => s = "espera"
      /\ cola.bloqueados[p] > 0 => s = "bloqueados"
      /\ EnUnaCPU(remoto, p) => s = "cpu"
      /\ EnUnaKill(mata, p) => s = "mata"
      /\ DePrincipal(principal, p) = 1 => s = "principal"
      /\ DeCorto(corto, p) = 1 => s = "corto"
      /\ DeLargo(largo, p) = 1 => s = "largo"
      /\ DeFin(fin, p) = 1 => s = "fin"
      /\ p > contadorPid => s = "ninguno"
  BY ONLY <1>2 DEF EsSuSitio
<1>4. /\ Contains(cola'.nuevos, p) => t = "nuevos"
      /\ Contains(cola'.listos, p) => t = "listos"
      /\ Contains(cola'.espera, p) => t = "espera"
      /\ cola'.bloqueados[p] > 0 => t = "bloqueados"
      /\ cola'.terminados[p] > 0 => t = "terminados"
      /\ EnUnaCPU(remoto', p) => t = "cpu"
      /\ EnUnaKill(mata', p) => t = "mata"
      /\ DePrincipal(principal', p) = 1 => t = "principal"
      /\ DeCorto(corto', p) = 1 => t = "corto"
      /\ DeLargo(largo', p) = 1 => t = "largo"
      /\ DeFin(fin', p) = 1 => t = "fin"
  BY ONLY <1>2 DEF EsSuSitio
<1> QED
  BY <1>3, <1>4 DEF s, t

\* A step that moves no process between threads and CPUs.
LEMMA HilosQuietos ==
  ASSUME NEW p \in Pids, \A c \in CPUs : remoto'[c].pid = remoto[c].pid,
         UNCHANGED <<corto, largo, fin, mata>>,
         DePrincipal(principal, p) = 0 \/ UNCHANGED principal
  PROVE  SigueEnHilos(p)
<1>1. EnUnaCPU(remoto, p) => EnUnaCPU(remoto', p)
  BY DEF EnUnaCPU
<1>2. DePrincipal(principal, p) = 1 =>
        DePrincipal(principal', p) = 1 /\ principal'.rutina = principal.rutina
  OBVIOUS
<1> QED
  BY <1>1, <1>2 DEF SigueEnHilos

LEMMA AvanzaDejar ==
  ASSUME IInv, IInv', UnaCopia, UnaCopia', NEW c \in CPUs, NEW fases \in SUBSET FasesConProceso,
         NEW r \in RutinasConPcb, NEW s, DejarCPU(c, fases, r, s),
         cola' = cola \/ DejarYRemover(c, fases, r, s)
  PROVE  Avanza
<1>0. PICK q \in Pids : q = remoto[c].pid
  BY DEF DejarCPU, IInv, ConProceso
<1>1. /\ principal.rutina = "selector"
      /\ principal' = [rutina |-> r, paso |-> 1, cpu |-> c, pid |-> remoto[c].pid, sem |-> s]
      /\ remoto' = [remoto EXCEPT ![c] = Desocupada(remoto[c])]
      /\ UNCHANGED <<corto, largo, fin, mata, adm, contadorPid>>
  BY DEF DejarCPU, Atender
<1>2. \A p \in Pids : SigueEnListas(cola, cola', p)
  <2>1. cola \in TipoCola /\ cola' \in TipoCola
    BY DEF IInv, TypeOK
  <2>2. cola' = cola \/ \E e : cola' = [cola EXCEPT !.ejecucion = e]
    BY DEF DejarYRemover
  <2> QED
    BY <2>1, <2>2, ListasQueCrecen
<1>3. ASSUME NEW p \in Pids, p # q PROVE Sigue(p)
  <2>1. EnUnaCPU(remoto, p) => EnUnaCPU(remoto', p)
    <3> SUFFICES ASSUME NEW d \in CPUs, remoto[d].pid = p PROVE remoto'[d].pid = p
      BY DEF EnUnaCPU
    <3> QED
      BY <1>0, <1>1, <1>3 DEF IInv, TypeOK
  <2>2. DePrincipal(principal, p) = 0
    BY <1>1, EnElSelector, RutinasSon
  <2> QED
    BY <1>1, <1>2, <2>1, <2>2 DEF Sigue, SigueEnHilos
<1>4. EnUnaCPU(remoto, q)
  BY <1>0 DEF EnUnaCPU
<1>5. DePrincipal(principal', q) = 1
  <2>1. /\ principal' \in TipoPrincipal
        /\ principal'.rutina \in Rutinas => principal'.paso \in 1..Len(Guion[principal'.rutina])
    BY DEF IInv, TypeOK, ConProceso
  <2>2. ConPcb(principal')
    BY <2>1, <1>1, ManosDe DEF RutinasConPcb
  <2> QED
    BY <2>2, <1>0, <1>1 DEF DePrincipal
<1>6. Va(q, "cpu", "principal")
  BY <1>1, <1>4, <1>5, SitioPor DEF Va
<1> QED
  BY <1>1, <1>3, <1>6 DEF Avanza, SoloEl, Recorre

LEMMA AvanzaMensaje ==
  ASSUME IInv, IInv', UnaCopia, UnaCopia', NEW c \in CPUs, MensajeCPU(c) \/ SignalCPU(c)
  PROVE  Avanza
<1> DEFINE Fase(f) == remoto' = [remoto EXCEPT ![c].fase = f]
<1>0. cola \in TipoCola
  BY DEF IInv, TypeOK
<1>1. ASSUME \A d \in CPUs : remoto'[d].pid = remoto[d].pid,
             UNCHANGED <<cola, corto, largo, fin, mata, adm, contadorPid>>,
             principal.rutina = "selector" \/ UNCHANGED principal
      PROVE  Avanza
  <2> SUFFICES ASSUME NEW p \in Pids PROVE Sigue(p)
    BY DEF Avanza, Quietos
  <2>1. DePrincipal(principal, p) = 0 \/ UNCHANGED principal
    BY <1>1, EnElSelector, RutinasSon
  <2>2. SigueEnHilos(p)
    BY <1>1, <2>1, HilosQuietos
  <2> QED
    BY <1>1, <2>2 DEF Sigue, SigueEnListas
<1>2. ASSUME NEW f, Fase(f) PROVE \A d \in CPUs : remoto'[d].pid = remoto[d].pid
  BY <1>2 DEF IInv, TypeOK, TipoRemoto
<1>3. ASSUME NEW fases \in SUBSET FasesConProceso, NEW r \in RutinasConPcb, NEW s,
             DejarYRemover(c, fases, r, s)
      PROVE  Avanza
  BY <1>3, AvanzaDejar DEF DejarYRemover
<1>4. EnMarcha \in SUBSET FasesConProceso /\ {"expropiada"} \in SUBSET FasesConProceso
      /\ {"finQuantum"} \in SUBSET FasesConProceso
  BY DEF FasesConProceso, EnMarcha
<1>5. CASE GestionarNuevaCPU(c)
  BY <1>5, <1>1, <1>2 DEF GestionarNuevaCPU, hilos
<1>6. CASE FinProceso(c)
  BY <1>6, <1>3, <1>4 DEF FinProceso, RutinasConPcb
<1>7. CASE FinQuantum(c)
  <2>1. PICK r \in {"finQuantum", "finQuantumCierre"} : DejarCPU(c, {"finQuantum"}, r, "ninguno")
    BY <1>7 DEF FinQuantum
  <2>2. cola' = cola /\ r \in RutinasConPcb
    BY <1>7 DEF FinQuantum, RutinasConPcb
  <2> QED
    BY <1>4, <2>1, <2>2, AvanzaDejar
<1>8. CASE ProcesoExpropiado(c)
  BY <1>8, <1>3, <1>4 DEF ProcesoExpropiado, RutinasConPcb
<1>9. ASSUME NEW r \in {"excepcion", "stackOverflow"}, Excepcion(c, r)
      PROVE  Avanza
  BY <1>9, <1>3, <1>4 DEF Excepcion, RutinasConPcb
<1>10. ASSUME NEW s \in Semaforos, WaitSemaforo(c, s)
       PROVE  Avanza
  <2>1. CASE DejarYRemover(c, EnMarcha, "bloqueo", s)
    BY <2>1, <1>3, <1>4 DEF RutinasConPcb
  <2>2. CASE ~DejarYRemover(c, EnMarcha, "bloqueo", s)
    BY <1>10, <2>2, <1>1, <1>2 DEF WaitSemaforo, hilos
  <2> QED
    BY <2>1, <2>2
<1>11. ASSUME NEW s \in Semaforos, SignalSemaforo(c, s)
       PROVE  Avanza
  <2>1. /\ Fase("consulta") /\ UNCHANGED <<cola, corto, largo, fin, mata, adm, contadorPid>>
        /\ principal.rutina = "selector" \/ UNCHANGED principal
    BY <1>11 DEF SignalSemaforo, Atender
  <2> QED
    BY <2>1, <1>1, <1>2
<1>12. CASE VerificarInterrupciones(c)
  BY <1>12, <1>1, <1>2 DEF VerificarInterrupciones
<1>13. CASE GestionarCierreCpu(c)
  BY <1>13, <1>1, <1>2 DEF GestionarCierreCpu, hilos
<1>14. CASE SignalCPU(c)
  <2>1. \A d \in CPUs : remoto'[d].pid = remoto[d].pid
    <3>1. PICK f : remoto' = [remoto EXCEPT ![c].cerrando = TRUE, ![c].fase = f]
      BY <1>14 DEF SignalCPU
    <3> QED
      BY <3>1 DEF IInv, TypeOK, TipoRemoto
  <2> QED
    BY <2>1, <1>14, <1>1 DEF SignalCPU, hilos
<1> QED
  BY <1>5, <1>6, <1>7, <1>8, <1>9, <1>10, <1>11, <1>12, <1>13, <1>14 DEF MensajeCPU

LEMMA AvanzaNuevo ==
  ASSUME IInv, IInv', UnaCopia, UnaCopia', GestionarNuevoPrograma
  PROVE  Avanza
<1>2. PICK q \in Pids : q = contadorPid + 1 /\ contadorPid \in Int
  BY DEF GestionarNuevoPrograma, IInv, TypeOK, Pids
<1>1. /\ UNCHANGED <<remoto, corto, largo, fin, mata, adm>>
      /\ cola' = [cola EXCEPT !.nuevos = Append(cola.nuevos, q)]
      /\ principal.rutina = "selector" /\ contadorPid' = q
  BY <1>2 DEF GestionarNuevoPrograma, Atender
<1>3. cola \in TipoCola /\ cola' \in TipoCola /\ cola.nuevos \in Seq(Pids)
  BY DEF IInv, TypeOK, TipoCola
<1>4. \A p \in Pids : SigueEnListas(cola, cola', p)
  BY <1>1, <1>2, <1>3, ListasQueCrecen
<1>5. ASSUME NEW p \in Pids, p # q PROVE Sigue(p)
  <2>1. DePrincipal(principal, p) = 0
    BY <1>1, EnElSelector, RutinasSon
  <2>2. SigueEnHilos(p)
    BY <1>1, <2>1, HilosQuietos
  <2>3. p > contadorPid' <=> p > contadorPid
    <3>1. p \in Int
      BY DEF Pids
    <3> QED
      BY <1>1, <1>2, <1>5, <3>1
  <2> QED
    BY <1>1, <1>4, <2>2, <2>3 DEF Sigue
<1>6. Contains(cola'.nuevos, q) /\ q > contadorPid
  BY <1>1, <1>2, <1>3, Agregado DEF TipoCola
<1>7. Va(q, "ninguno", "nuevos")
  BY <1>2, <1>6, SitioPor DEF Va
<1> QED
  BY <1>1, <1>2, <1>5, <1>7 DEF Avanza, SoloEl, Recorre

\* A list operation of the main thread puts its process in the list.
LEMMA AvanzaEncolar ==
  ASSUME IInv, IInv', UnaCopia, UnaCopia', NEW op \in QueSueltan, Paso(op),
         UNCHANGED <<remoto, corto, largo, fin, mata, adm, contadorPid>>,
         NEW q \in Posibles, q = principal.pid,
         \/ /\ op = "aListos" /\ cola' = [cola EXCEPT !.listos = Append(cola.listos, q)]
         \/ /\ op = "aEspera" /\ cola' = [cola EXCEPT !.espera = Append(cola.espera, q)]
            /\ q \in Pids
         \/ /\ op = "aBloqueados" /\ cola' = [cola EXCEPT !.bloqueados = Sumar(cola.bloqueados, q)]
            /\ q \in Pids
  PROVE  Avanza
<1>1. /\ cola \in TipoCola /\ cola' \in TipoCola /\ cola.listos \in Seq(Posibles)
      /\ cola.espera \in Seq(Pids) /\ cola.bloqueados \in [Pids -> Nat]
  BY DEF IInv, TypeOK, TipoCola, Bolsas
<1>2. \A p \in Pids : SigueEnListas(cola, cola', p)
  BY <1>1, ListasQueCrecen
<1>3. op # "ninguna"
  BY DEF QueSueltan
<1>4. ASSUME NEW p \in Pids, p # q PROVE Sigue(p)
  <2>1. DePrincipal(principal, p) = 0
    BY <1>3, <1>4, PasoManos DEF Uno
  <2>2. SigueEnHilos(p)
    BY <2>1, HilosQuietos
  <2> QED
    BY <1>2, <2>2 DEF Sigue
<1>5. CASE q \notin Pids
  <2>1. \A p \in Pids : p # q
    BY <1>5
  <2> QED
    BY <1>4, <2>1 DEF Avanza, Quietos
<1>6. CASE q \in Pids
  <2>1. DePrincipal(principal, q) = 1
    BY <1>3, <1>6, PasoManos DEF Uno
  <2>2. Sitio(q) = "principal"
    BY <1>6, <2>1, SitioPor
  <2>3. /\ op = "aListos" => Contains(cola'.listos, q)
        /\ op = "aEspera" => Contains(cola'.espera, q)
        /\ op = "aBloqueados" => cola'.bloqueados[q] > 0
    <3>1. Contains(Append(cola.listos, q), q)
      BY <1>1, Agregado
    <3>2. q \in Pids => Contains(Append(cola.espera, q), q)
      BY <1>1, Agregado
    <3>3. Sumar(cola.bloqueados, q)[q] > 0
      BY <1>1, <1>6 DEF Sumar
    <3> QED
      BY <1>1, <3>1, <3>2, <3>3 DEF TipoCola
  <2>4. /\ op = "aListos" => Va(q, "principal", "listos")
        /\ op = "aEspera" => Va(q, "principal", "espera")
        /\ op = "aBloqueados" => Va(q, "principal", "bloqueados")
    BY <1>6, <2>2, <2>3, SitioPor DEF Va
  <2>5. principal.rutina \in Rutinas /\ Guion[principal.rutina][principal.paso] = op
        /\ principal.paso \in 1..Len(Guion[principal.rutina])
    BY <1>3 DEF Paso, Operacion, IInv, ConProceso
  <2>6. /\ op = "aListos" => Destino = "listo"
        /\ op = "aEspera" => Destino = "saliendo"
        /\ op = "aBloqueados" => Destino = "bloqueado"
    <3> DEFINE r == principal.rutina
               i == principal.paso
    <3>1. r \in Rutinas /\ Guion[r][i] = op /\ i \in 1..Len(Guion[r])
      BY <2>5
    <3> HIDE DEF r, i
    <3>2. /\ op = "aListos" => r \in {"finQuantum", "finQuantumCierre", "desbloqueo"}
          /\ op = "aEspera" => r \in {"finProceso", "expropiado", "excepcion", "stackOverflow"}
          /\ op = "aBloqueados" => r = "bloqueo"
      <4>1. CASE r \in {"nuevoPrograma", "finProceso", "stackOverflow"}
        BY <3>1, <4>1, RutinasSon
      <4>2. CASE r \in {"finQuantum", "finQuantumCierre"}
        BY <3>1, <4>2, RutinasSon
      <4>3. CASE r \in {"excepcion", "expropiado"}
        BY <3>1, <4>3, RutinasSon
      <4>4. CASE r = "bloqueo"
        BY <3>1, <4>4, RutinasSon
      <4>5. CASE r = "desbloqueo"
        BY <3>1, <4>5, RutinasSon
      <4> QED
        BY <3>1, <4>1, <4>2, <4>3, <4>4, <4>5, RutinasSon
    <3> QED
      BY <3>2 DEF Destino, r
  <2>7. op \in {"aListos", "aEspera", "aBloqueados"}
    BY DEF QueSueltan
  <2>8. Recorre(q)
    BY <2>4, <2>6, <2>7 DEF Recorre
  <2> QED
    BY <1>4, <1>6, <2>8 DEF Avanza, SoloEl
<1> QED
  BY <1>5, <1>6

LEMMA AvanzaOperacion ==
  ASSUME IInv, IInv', UnaCopia, UnaCopia', OperacionPrincipal
  PROVE  Avanza
<1>1. UNCHANGED <<remoto, corto, largo, fin, mata, contadorPid>> /\ adm'.tablas = adm.tablas
  BY DEF OperacionPrincipal, EncolarCodigo, CambiarEstadoCpu, RemoverDeColaEjecucion,
     EncolarEspera, EncolarListo, EncolarBloqueado, EncolarProcesoBloqueadoASemaforo,
     DesbloquearProceso, DevolverSemaforo, QuitarInterrupcion, AjenoAlPrincipal, IInv, TypeOK,
     TipoAdm
<1>2. cola \in TipoCola /\ cola' \in TipoCola /\ cola.bloqueados \in [Pids -> Nat]
  BY DEF IInv, TypeOK, TipoCola, Bolsas
<1>3. ASSUME NEW op, Paso(op), op \notin QueSueltan \cup {"desbloquear", "ninguna"},
             cola' = cola \/ \E e : cola' = [cola EXCEPT !.ejecucion = e]
      PROVE  Avanza
  <2> SUFFICES ASSUME NEW p \in Pids PROVE Sigue(p)
    BY DEF Avanza, Quietos
  <2>1. SigueEnListas(cola, cola', p)
    BY <1>2, <1>3, ListasQueCrecen
  <2>2. DePrincipal(principal', p) = DePrincipal(principal, p)
    BY <1>3, PasoManos
  <2>3. DePrincipal(principal, p) = 1 => principal'.rutina = principal.rutina
    <3> SUFFICES ASSUME DePrincipal(principal, p) = 1, principal'.rutina # principal.rutina
                 PROVE  FALSE
      OBVIOUS
    <3>1. principal'.rutina \notin Rutinas
      BY <1>3, RutinasSon DEF Paso, SinRutina, IInv, TypeOK, TipoPrincipal
    <3>2. DePrincipal(principal', p) = 0
      BY <3>1 DEF DePrincipal, ConPcb, FaltaEn
    <3> QED
      BY <2>2, <3>2
  <2>4. EnUnaCPU(remoto, p) => EnUnaCPU(remoto', p)
    BY <1>1
  <2>5. SigueEnHilos(p)
    BY <1>1, <2>2, <2>3 DEF SigueEnHilos
  <2> QED
    BY <1>1, <2>1, <2>5 DEF Sigue
<1>4. CASE EncolarCodigo \/ CambiarEstadoCpu \/ EncolarProcesoBloqueadoASemaforo
           \/ DevolverSemaforo \/ QuitarInterrupcion \/ RemoverDeColaEjecucion
  BY <1>3, <1>4 DEF QueSueltan, EncolarCodigo, CambiarEstadoCpu, RemoverDeColaEjecucion,
     EncolarProcesoBloqueadoASemaforo, DevolverSemaforo, QuitarInterrupcion
<1>5. CASE EncolarEspera \/ EncolarListo \/ EncolarBloqueado
  <2>1. PICK q \in Posibles : q = principal.pid
    BY DEF IInv, TypeOK, TipoPrincipal
  <2>2. UNCHANGED <<remoto, corto, largo, fin, mata, adm, contadorPid>>
    BY <1>5 DEF EncolarEspera, EncolarListo, EncolarBloqueado, AjenoAlPrincipal
  <2>3. EncolarEspera \/ EncolarBloqueado => q \in Pids
    <3>1. CASE EncolarEspera
      BY <2>1, <3>1, RutinasSon DEF EncolarEspera, Paso, Operacion, IInv, ConProceso
    <3>2. CASE EncolarBloqueado
      BY <2>1, <3>2, RutinasSon DEF EncolarBloqueado, Paso, Operacion, IInv, ConProceso
    <3> QED
      BY <3>1, <3>2
  <2>4. CASE EncolarListo
    <3>1. /\ "aListos" \in QueSueltan /\ Paso("aListos")
          /\ cola' = [cola EXCEPT !.listos = Append(cola.listos, q)]
      BY <2>1, <2>4 DEF QueSueltan, EncolarListo
    <3> QED
      BY <2>1, <2>2, <3>1, AvanzaEncolar
  <2>5. CASE EncolarEspera
    <3>1. /\ "aEspera" \in QueSueltan /\ Paso("aEspera") /\ q \in Pids
          /\ cola' = [cola EXCEPT !.espera = Append(cola.espera, q)]
      BY <2>1, <2>3, <2>5 DEF QueSueltan, EncolarEspera
    <3> QED
      BY <2>1, <2>2, <3>1, AvanzaEncolar
  <2>6. CASE EncolarBloqueado
    <3>1. /\ "aBloqueados" \in QueSueltan /\ Paso("aBloqueados") /\ q \in Pids
          /\ cola' = [cola EXCEPT !.bloqueados = Sumar(cola.bloqueados, q)]
      BY <2>1, <2>3, <2>6 DEF QueSueltan, EncolarBloqueado
    <3> QED
      BY <2>1, <2>2, <3>1, AvanzaEncolar
  <2> QED
    BY <1>5, <2>4, <2>5, <2>6
<1>6. CASE DesbloquearProceso
  <2>1. PICK q \in Posibles : q = principal.pid
    BY DEF IInv, TypeOK, TipoPrincipal
  <2>2. /\ principal.rutina = "desbloqueo" /\ principal.paso = 1
        /\ principal \in TipoPrincipal /\ principal' \in TipoPrincipal
    <3>1. /\ principal.rutina \in Rutinas /\ principal.paso \in 1..Len(Guion[principal.rutina])
          /\ Guion[principal.rutina][principal.paso] = "desbloquear"
      BY <1>6 DEF DesbloquearProceso, Operacion, IInv, ConProceso
    <3> QED
      BY <3>1, SoloDesbloqueo DEF IInv, TypeOK
  <2>3. /\ principal'.rutina = "desbloqueo" /\ principal'.paso = 2
        /\ principal'.pid = IF cola.bloqueados[q] > 0 THEN q ELSE Nadie
        /\ cola' = [cola EXCEPT !.bloqueados = Restar(cola.bloqueados, q)]
    BY <1>6, <2>1, <2>2 DEF DesbloquearProceso, TipoPrincipal
  <2>4. /\ principal.rutina \in Rutinas => principal.paso \in 1..Len(Guion[principal.rutina])
        /\ principal'.rutina \in Rutinas => principal'.paso \in 1..Len(Guion[principal'.rutina])
    BY DEF IInv, ConProceso
  <2>5. ~ConPcb(principal) /\ ConPcb(principal')
    BY <2>2, <2>3, <2>4, ManosDe
  <2>6. ASSUME NEW p \in Pids, SigueEnListas(cola, cola', p) PROVE Sigue(p)
    <3>1. DePrincipal(principal, p) = 0
      BY <2>5 DEF DePrincipal
    <3>2. SigueEnHilos(p)
      BY <1>1, <3>1, HilosQuietos
    <3> QED
      BY <1>1, <2>6, <3>2 DEF Sigue
  <2>7. ASSUME NEW p \in Pids, p # q PROVE Sigue(p)
    BY <1>2, <2>3, <2>6, <2>7, ListasQueDejan
  <2>8. CASE q \in Pids /\ cola.bloqueados[q] > 0
    <3>1. DePrincipal(principal', q) = 1
      BY <2>3, <2>5, <2>8 DEF DePrincipal
    <3>2. Va(q, "bloqueados", "principal")
      BY <2>8, <3>1, SitioPor DEF Va
    <3>3. Destino' = "listo"
      BY <2>3 DEF Destino
    <3>4. Recorre(q)
      BY <1>1, <3>2, <3>3 DEF Recorre
    <3> QED
      BY <2>7, <2>8, <3>4 DEF Avanza, SoloEl
  <2>9. CASE ~(q \in Pids /\ cola.bloqueados[q] > 0)
    <3>1. ASSUME NEW p \in Pids, p = q PROVE Sigue(p)
      BY <1>2, <2>3, <2>6, <2>9, <3>1 DEF SigueEnListas, TipoCola
    <3> QED
      BY <2>7, <3>1 DEF Avanza, Quietos
  <2> QED
    BY <2>8, <2>9
<1> QED
  BY <1>4, <1>5, <1>6 DEF OperacionPrincipal

-----------------------------------------------------------------------------

LEMMA AvanzaCorto ==
  ASSUME IInv, IInv', UnaCopia, UnaCopia', CpuOciosaVacia, CortoPlazo
  PROVE  Avanza
<1>1. UNCHANGED <<principal, largo, fin, mata, adm, contadorPid>>
  BY DEF CortoPlazo, CortoVerificaPausa, CortoEsperaReanudar, CortoEsperaCPU, CortoEsperaListo,
     SacarListo, MirarOciosas, EnviarPcb, RegistrarEjecucion, DevolverAListos, AjenoAlCorto
<1>2. /\ cola.listos \in Seq(Posibles) /\ corto \in TipoCorto /\ corto' \in TipoCorto
      /\ cola \in TipoCola /\ cola' \in TipoCola
  BY DEF IInv, TypeOK, TipoCola
<1>3. ASSUME NEW p \in Pids, SigueEnListas(cola, cola', p),
             EnUnaCPU(remoto, p) => EnUnaCPU(remoto', p),
             DeCorto(corto, p) = 1 => DeCorto(corto', p) = 1
      PROVE  Sigue(p)
  BY <1>1, <1>3 DEF Sigue, SigueEnHilos
<1>4. CASE CortoVerificaPausa \/ CortoEsperaReanudar \/ CortoEsperaCPU \/ CortoEsperaListo
           \/ MirarOciosas \/ RegistrarEjecucion
  <2> SUFFICES ASSUME NEW p \in Pids PROVE Sigue(p)
    BY DEF Avanza, Quietos
  <2>1. remoto' = remoto /\ (cola' = cola \/ \E e : cola' = [cola EXCEPT !.ejecucion = e])
    BY <1>4 DEF CortoVerificaPausa, CortoEsperaReanudar, CortoEsperaCPU, CortoEsperaListo,
       MirarOciosas, RegistrarEjecucion
  <2>2. DeCorto(corto', p) = DeCorto(corto, p)
    BY <1>2, <1>4 DEF CortoVerificaPausa, CortoEsperaReanudar, CortoEsperaCPU, CortoEsperaListo,
       MirarOciosas, RegistrarEjecucion, IrCorto, DeCorto, TipoCorto
  <2>3. SigueEnListas(cola, cola', p)
    BY <1>2, <2>1, ListasQueCrecen
  <2> QED
    BY <1>3, <2>1, <2>2, <2>3
<1>5. CASE UNCHANGED <<cola, remoto, corto>>
  BY <1>3, <1>5 DEF Avanza, Quietos, SigueEnListas
<1>6. CASE SacarListo /\ cola.listos # <<>>
  <2>1. PICK q \in Posibles : q = Head(cola.listos)
    BY <1>2, <1>6, VecesCola
  <2>2. /\ corto.paso = "sacar" /\ corto' = [paso |-> "mirar", pid |-> q]
        /\ cola' = [cola EXCEPT !.listos = Tail(cola.listos)] /\ remoto' = remoto
    BY <1>6, <2>1 DEF SacarListo
  <2>3. ASSUME NEW p \in Pids, p # q PROVE Sigue(p)
    <3>1. DeCorto(corto, p) = 0
      BY <2>2 DEF DeCorto
    <3>2. SigueEnListas(cola, cola', p)
      BY <1>2, <1>6, <2>1, <2>2, <2>3, ListasQueDejan
    <3> QED
      BY <1>3, <2>2, <3>1, <3>2
  <2>4. CASE q \in Pids
    <3>1. Contains(cola.listos, q)
      BY <1>2, <1>6, <2>1, QuitarContiene
    <3>2. DeCorto(corto', q) = 1
      BY <2>2 DEF DeCorto
    <3>3. Recorre(q)
      BY <1>1, <2>4, <3>1, <3>2, SitioPor DEF Va, Recorre
    <3> QED
      BY <2>3, <2>4, <3>3 DEF Avanza, SoloEl
  <2>5. CASE q \notin Pids
    <3>1. \A p \in Pids : p # q
      BY <2>5
    <3> QED
      BY <2>3, <3>1 DEF Avanza, Quietos
  <2> QED
    BY <2>4, <2>5
<1>7. CASE EnviarPcb /\ ~(Ociosas = {} \/ corto.pid = Nadie)
  <2>1. PICK q \in Pids : q = corto.pid
    BY <1>2, <1>7 DEF TipoCorto, Posibles
  <2>2. PICK c \in Ociosas : remoto' = [remoto EXCEPT ![c] = Entregada(@, corto.pid)]
    BY <1>7 DEF EnviarPcb
  <2>3. /\ cola' = cola /\ corto.paso = "enviar" /\ corto'.paso = "registrar"
    BY <1>2, <1>7 DEF EnviarPcb, TipoCorto
  <2>4. c \in CPUs /\ remoto[c].pid = Nadie /\ remoto \in [CPUs -> TipoRemoto]
    BY <2>2 DEF Ociosas, CpuOciosaVacia, IInv, TypeOK
  <2>5. /\ \A d \in CPUs \ {c} : remoto'[d].pid = remoto[d].pid
        /\ remoto'[c].pid = q
    BY <2>1, <2>2, <2>4 DEF Entregada, TipoRemoto
  <2>6. ASSUME NEW p \in Pids, p # q PROVE Sigue(p)
    <3>1. DeCorto(corto, p) = 0
      BY <2>1, <2>6 DEF DeCorto
    <3>2. EnUnaCPU(remoto, p) => EnUnaCPU(remoto', p)
      <4> SUFFICES ASSUME NEW d \in CPUs, remoto[d].pid = p PROVE remoto'[d].pid = p
        BY DEF EnUnaCPU
      <4>1. d # c
        BY <2>4 DEF Nadie, Pids
      <4> QED
        BY <2>5, <4>1
    <3>3. SigueEnListas(cola, cola', p)
      BY <2>3 DEF SigueEnListas
    <3> QED
      BY <1>3, <3>1, <3>2, <3>3
  <2>7. DeCorto(corto, q) = 1
    BY <2>1, <2>3 DEF DeCorto
  <2>8. EnUnaCPU(remoto', q)
    BY <2>4, <2>5 DEF EnUnaCPU
  <2>9. Recorre(q)
    BY <1>1, <2>4, <2>7, <2>8, SitioPor DEF Va, Recorre
  <2> QED
    BY <2>6, <2>9 DEF Avanza, SoloEl
<1>8. CASE DevolverAListos
  <2>1. PICK q \in Posibles : q = corto.pid
    BY <1>2 DEF TipoCorto
  <2>2. /\ remoto' = remoto /\ corto.paso = "devolver" /\ corto'.paso = "pausa"
        /\ cola' = [cola EXCEPT !.listos = Append(cola.listos, q)]
    BY <1>8, <2>1 DEF DevolverAListos
  <2>3. ASSUME NEW p \in Pids, p # q PROVE Sigue(p)
    <3>1. DeCorto(corto, p) = 0
      BY <2>1, <2>3 DEF DeCorto
    <3>2. SigueEnListas(cola, cola', p)
      BY <1>2, <2>2, ListasQueCrecen
    <3> QED
      BY <1>3, <2>2, <3>1, <3>2
  <2>4. CASE q \in Pids
    <3>1. Contains(cola'.listos, q)
      BY <1>2, <2>2, Agregado DEF TipoCola
    <3>2. DeCorto(corto, q) = 1
      BY <2>1, <2>2 DEF DeCorto
    <3>3. Recorre(q)
      BY <1>1, <2>4, <3>1, <3>2, SitioPor DEF Va, Recorre
    <3> QED
      BY <2>3, <2>4, <3>3 DEF Avanza, SoloEl
  <2>5. CASE q \notin Pids
    <3>1. \A p \in Pids : p # q
      BY <2>5
    <3> QED
      BY <2>3, <3>1 DEF Avanza, Quietos
  <2> QED
    BY <2>4, <2>5
<1> QED
  BY <1>4, <1>5, <1>6, <1>7, <1>8 DEF CortoPlazo, SacarListo, EnviarPcb

LEMMA AvanzaLargo ==
  ASSUME IInv, IInv', UnaCopia, UnaCopia', LargoPlazo
  PROVE  Avanza
<1>1. UNCHANGED <<remoto, principal, corto, fin, mata, contadorPid>>
  BY DEF LargoPlazo, LargoVerificaPausa, LargoEsperaReanudar, LargoEsperaAdmitir, SacarNuevo,
     CrearProceso, AumentarGrado, RechazarProceso, AjenoAlLargo
<1>2. /\ cola.nuevos \in Seq(Pids) /\ cola.listos \in Seq(Posibles) /\ cola.espera \in Seq(Pids)
      /\ largo \in TipoLargo /\ cola \in TipoCola /\ cola' \in TipoCola /\ adm \in TipoAdm
  BY DEF IInv, TypeOK, TipoCola
<1>3. ASSUME NEW p \in Pids, SigueEnListas(cola, cola', p),
             DeLargo(largo, p) = 1 => DeLargo(largo', p) = 1,
             p \in adm'.tablas <=> p \in adm.tablas
      PROVE  Sigue(p)
  BY <1>1, <1>3 DEF Sigue, SigueEnHilos
<1>4. CASE LargoVerificaPausa \/ LargoEsperaReanudar \/ LargoEsperaAdmitir \/ AumentarGrado
           \/ (SacarNuevo /\ ~Admisible)
  <2> SUFFICES ASSUME NEW p \in Pids PROVE Sigue(p)
    BY DEF Avanza, Quietos
  <2>1. cola' = cola /\ adm' = adm
    BY <1>4 DEF LargoVerificaPausa, LargoEsperaReanudar, LargoEsperaAdmitir, AumentarGrado,
       SacarNuevo
  <2>2. DeLargo(largo, p) = 0
    BY <1>2, <1>4 DEF LargoVerificaPausa, LargoEsperaReanudar, LargoEsperaAdmitir,
       AumentarGrado, SacarNuevo, IrLargo, DeLargo
  <2> QED
    BY <1>3, <2>1, <2>2 DEF SigueEnListas
<1>5. CASE SacarNuevo /\ Admisible
  <2>1. cola.nuevos # <<>>
    BY <1>5 DEF Admisible
  <2>2. PICK q \in Pids : q = Head(cola.nuevos)
    BY <1>2, <2>1, VecesCola
  <2>3. /\ cola' = [cola EXCEPT !.nuevos = Tail(cola.nuevos)]
        /\ largo.paso = "decidir" /\ largo' = [paso |-> "crear", pid |-> q]
        /\ adm'.tablas = adm.tablas
    BY <1>2, <1>5, <2>2 DEF SacarNuevo, TipoAdm
  <2>4. ASSUME NEW p \in Pids, p # q PROVE Sigue(p)
    <3>1. DeLargo(largo, p) = 0
      BY <2>3 DEF DeLargo
    <3>2. SigueEnListas(cola, cola', p)
      BY <1>2, <2>1, <2>2, <2>3, <2>4, ListasQueDejan
    <3> QED
      BY <1>3, <2>3, <3>1, <3>2
  <2>5. Contains(cola.nuevos, q)
    BY <1>2, <2>1, <2>2, QuitarContiene
  <2>6. DeLargo(largo', q) = 1
    BY <2>3 DEF DeLargo
  <2>7. Recorre(q)
    BY <2>3, <2>5, <2>6, SitioPor DEF Va, Recorre
  <2> QED
    BY <2>4, <2>7 DEF Avanza, SoloEl
<1>6. CASE CrearProceso \/ RechazarProceso
  <2>1. PICK q \in Pids : q = largo.pid /\ largo.paso = "crear"
    BY <1>6 DEF CrearProceso, RechazarProceso, IrLargo, IInv, ConProceso
  <2>2. DeLargo(largo, q) = 1 /\ \A p : p # q => DeLargo(largo, p) = 0
    BY <2>1 DEF DeLargo
  <2>3. CASE CrearProceso
    <3>1. /\ cola' = [cola EXCEPT !.listos = Append(cola.listos, q)]
          /\ adm'.tablas = adm.tablas \cup {q} /\ q \in Posibles
      BY <1>2, <2>1, <2>3 DEF CrearProceso, TipoAdm, Posibles
    <3>2. ASSUME NEW p \in Pids, p # q PROVE Sigue(p)
      <4>1. SigueEnListas(cola, cola', p)
        BY <1>2, <3>1, ListasQueCrecen
      <4> QED
        BY <1>3, <2>2, <3>1, <3>2, <4>1
    <3>3. Contains(cola'.listos, q)
      BY <1>2, <3>1, Agregado DEF TipoCola
    <3>4. Recorre(q)
      BY <2>1, <2>2, <3>1, <3>3, SitioPor DEF Va, Recorre
    <3> QED
      BY <3>2, <3>4 DEF Avanza, SoloEl
  <2>4. CASE RechazarProceso
    <3>1. /\ cola' = [cola EXCEPT !.espera = Append(cola.espera, q)]
          /\ adm' = adm
      BY <2>1, <2>4 DEF RechazarProceso
    <3>2. ASSUME NEW p \in Pids, p # q PROVE Sigue(p)
      <4>1. SigueEnListas(cola, cola', p)
        BY <1>2, <3>1, ListasQueCrecen
      <4> QED
        BY <1>3, <2>2, <3>1, <3>2, <4>1
    <3>3. Contains(cola'.espera, q)
      BY <1>2, <3>1, Agregado DEF TipoCola
    <3>4. Recorre(q)
      BY <2>2, <3>1, <3>3, SitioPor DEF Va, Recorre
    <3> QED
      BY <3>2, <3>4 DEF Avanza, SoloEl
  <2> QED
    BY <1>6, <2>3, <2>4
<1> QED
  BY <1>4, <1>5, <1>6 DEF LargoPlazo

LEMMA AvanzaFin ==
  ASSUME IInv, IInv', UnaCopia, UnaCopia', FinProcesos
  PROVE  Avanza
<1>1. UNCHANGED <<remoto, principal, corto, largo, mata, contadorPid>>
  BY DEF FinProcesos, FinEspera, FinTomaEspera, FinSaca, FinTermina, FinSueltaEspera, AjenoAlFin
<1>2. /\ cola.espera \in Seq(Pids) /\ fin \in TipoFin /\ cola \in TipoCola /\ cola' \in TipoCola
      /\ cola.terminados \in [Pids -> Nat] /\ adm \in TipoAdm
  BY DEF IInv, TypeOK, TipoCola, Bolsas
<1>3. ASSUME NEW p \in Pids, SigueEnListas(cola, cola', p),
             DeFin(fin, p) = 1 => DeFin(fin', p) = 1,
             p \in adm'.tablas <=> p \in adm.tablas
      PROVE  Sigue(p)
  BY <1>1, <1>3 DEF Sigue, SigueEnHilos
<1>4. CASE FinEspera \/ FinTomaEspera \/ FinSueltaEspera \/ (FinTermina /\ ~ConTabla(fin.pid))
  <2> SUFFICES ASSUME NEW p \in Pids PROVE Sigue(p)
    BY DEF Avanza, Quietos
  <2>1. cola' = cola /\ adm' = adm /\ DeFin(fin', p) = DeFin(fin, p)
    BY <1>2, <1>4 DEF FinEspera, FinTomaEspera, FinSueltaEspera, FinTermina, DeFin, TipoFin
  <2> QED
    BY <1>3, <2>1 DEF SigueEnListas
<1>5. CASE FinSaca
  <2>1. PICK i \in 1..Len(cola.espera) : i = fin.indice + 1
    BY <1>2, <1>5 DEF FinSaca, TipoFin
  <2>2. PICK q \in Pids : q = cola.espera[i]
    BY <1>2, <2>1
  <2>3. /\ cola' = [cola EXCEPT !.espera = RemoveAt(cola.espera, i)] /\ adm' = adm
        /\ fin.paso = "recorrer" /\ fin'.paso = "terminar" /\ fin'.pid = q
    BY <1>2, <1>5, <2>1, <2>2 DEF FinSaca, TipoFin
  <2>4. ASSUME NEW p \in Pids, p # q PROVE Sigue(p)
    <3>1. DeFin(fin, p) = 0
      BY <2>3 DEF DeFin
    <3>2. SigueEnListas(cola, cola', p)
      BY <1>2, <2>2, <2>3, <2>4, ListasQueDejan
    <3> QED
      BY <1>3, <2>3, <3>1, <3>2
  <2>5. Contains(cola.espera, q)
    BY <2>2 DEF Contains
  <2>6. DeFin(fin', q) = 1
    BY <2>3 DEF DeFin
  <2>7. Recorre(q)
    BY <2>3, <2>5, <2>6, SitioPor DEF Va, Recorre
  <2> QED
    BY <2>4, <2>7 DEF Avanza, SoloEl
<1>6. CASE FinTermina /\ ConTabla(fin.pid)
  <2>1. PICK q \in Pids : q = fin.pid /\ q \in adm.tablas
    BY <1>2, <1>6 DEF ConTabla, TipoAdm
  <2>2. /\ fin.paso = "terminar" /\ adm'.tablas = adm.tablas \ {q}
        /\ cola' = [cola EXCEPT !.terminados = Sumar(cola.terminados, q)]
    BY <1>2, <1>6, <2>1 DEF FinTermina, Terminar, TipoAdm
  <2>3. ASSUME NEW p \in Pids, p # q PROVE Sigue(p)
    <3>1. DeFin(fin, p) = 0
      BY <2>1, <2>3 DEF DeFin
    <3>2. SigueEnListas(cola, cola', p)
      BY <1>2, <2>2, ListasQueCrecen
    <3> QED
      BY <1>3, <2>2, <2>3, <3>1, <3>2
  <2>4. DeFin(fin, q) = 1
    BY <2>1, <2>2 DEF DeFin
  <2>5. cola'.terminados[q] > 0
    BY <1>2, <2>2 DEF Sumar, TipoCola
  <2>6. Recorre(q)
    BY <2>1, <2>2, <2>4, <2>5, SitioPor DEF Va, Recorre
  <2> QED
    BY <2>3, <2>6 DEF Avanza, SoloEl
<1> QED
  BY <1>4, <1>5, <1>6 DEF FinProcesos

-----------------------------------------------------------------------------

\* The kill of thread h is the only one that changes.
LEMMA HilosDeLaMuerte ==
  ASSUME NEW p \in Pids, NEW h \in HilosMata, \A k \in HilosMata \ {h} : mata'[k] = mata[k],
         DeMuerte(mata[h], p) = 0 \/ DeMuerte(mata'[h], p) = 1,
         UNCHANGED <<remoto, corto, largo, fin>>,
         DePrincipal(principal, p) = 0 \/ UNCHANGED principal
  PROVE  SigueEnHilos(p)
<1>1. EnUnaKill(mata, p) => EnUnaKill(mata', p)
  <2> SUFFICES ASSUME NEW k \in ConElla(mata, p) PROVE ConElla(mata', p) # {}
    BY DEF EnUnaKill
  <2>1. CASE k = h
    <3>1. DeMuerte(mata[h], p) = 1
      BY <2>1 DEF ConElla, DeMuerte
    <3>2. h \in ConElla(mata', p)
      BY <3>1 DEF ConElla, DeMuerte
    <3> QED
      BY <3>2
  <2>2. CASE k # h
    <3>1. k \in ConElla(mata', p)
      BY <2>2 DEF ConElla
    <3> QED
      BY <3>1
  <2> QED
    BY <2>1, <2>2
<1>2. DePrincipal(principal, p) = 1 =>
        DePrincipal(principal', p) = 1 /\ principal'.rutina = principal.rutina
  OBVIOUS
<1> QED
  BY <1>1, <1>2 DEF SigueEnHilos

\* The kill takes its process from a list.
LEMMA AvanzaSacar ==
  ASSUME IInv, IInv', UnaCopia, UnaCopia', NEW h \in HilosMata,
         NEW desde, NEW hasta \in {"token", "terminar"},
         IrMata(h, desde, hasta), desde \notin {"token", "terminar"},
         NEW q \in Posibles, q = mata[h].pid,
         UNCHANGED <<remoto, principal, corto, largo, fin, adm, contadorPid>>,
         \/ /\ Contains(cola.nuevos, q)
            /\ cola' = [cola EXCEPT !.nuevos = RemoveFirst(cola.nuevos, q)]
         \/ /\ Contains(cola.listos, q)
            /\ cola' = [cola EXCEPT !.listos = RemoveFirst(cola.listos, q)]
         \/ /\ Contains(cola.espera, q)
            /\ cola' = [cola EXCEPT !.espera = RemoveFirst(cola.espera, q)]
         \/ /\ cola.bloqueados[q] > 0
            /\ cola' = [cola EXCEPT !.bloqueados = Restar(cola.bloqueados, q)]
  PROVE  Avanza
<1>1. cola \in TipoCola /\ cola' \in TipoCola
  BY DEF IInv, TypeOK
<1>2. ASSUME NEW p \in Pids, p # q PROVE Sigue(p)
  <2>1. SigueEnListas(cola, cola', p)
    BY <1>1, <1>2, ListasQueDejan
  <2>2. /\ \A k \in HilosMata \ {h} : mata'[k] = mata[k]
        /\ DeMuerte(mata[h], p) = 0
    BY MuerteLleva
  <2>3. SigueEnHilos(p)
    BY <2>2, HilosDeLaMuerte
  <2> QED
    BY <2>1, <2>3 DEF Sigue
<1>3. CASE q \in Pids
  <2>1. DeMuerte(mata'[h], q) = 1
    BY MuerteLleva DEF Uno
  <2>2. EnUnaKill(mata', q)
    BY <2>1 DEF DeMuerte, EnUnaKill, ConElla
  <2>3. Sitio(q)' = "mata" /\ Sitio(q) \in {"nuevos", "listos", "espera", "bloqueados"}
    BY <1>3, <2>2, SitioPor
  <2>4. Recorre(q)
    BY <2>3 DEF Va, Recorre
  <2> QED
    BY <1>2, <1>3, <2>4 DEF Avanza, SoloEl
<1>4. CASE q \notin Pids
  <2>1. \A p \in Pids : p # q
    BY <1>4
  <2> QED
    BY <1>2, <2>1 DEF Avanza, Quietos
<1> QED
  BY <1>3, <1>4

\* The kill goes on to the next list, or it has its process and goes on with it.
LEMMA AvanzaPasar ==
  ASSUME NEW h \in HilosMata,
         \A k \in HilosMata \ {h} : mata'[k] = mata[k],
         mata[h].paso \in {"token", "terminar"} =>
           mata'[h].paso \in {"token", "terminar"} /\ mata'[h].pid = mata[h].pid,
         UNCHANGED <<cola, remoto, corto, largo, fin, contadorPid>>,
         adm'.tablas = adm.tablas,
         \A p \in Pids : DePrincipal(principal, p) = 0 \/ UNCHANGED principal
  PROVE  Avanza
<1> SUFFICES ASSUME NEW p \in Pids PROVE Sigue(p)
  BY DEF Avanza, Quietos
<1>1. DeMuerte(mata[h], p) = 0 \/ DeMuerte(mata'[h], p) = 1
  BY DEF DeMuerte
<1>2. SigueEnHilos(p)
  BY <1>1, HilosDeLaMuerte
<1> QED
  BY <1>2 DEF Sigue, SigueEnListas

LEMMA AvanzaMatar ==
  ASSUME IInv, IInv', UnaCopia, UnaCopia', MataEnSuRutina, NEW h \in HilosMata, Matar(h)
  PROVE  Avanza
<1>1. UNCHANGED <<remoto, corto, largo, fin, contadorPid>>
  BY DEF Matar, MataToma, MataBuscaEspera, MataBuscaEjecucion, MataBuscaCPU, MataInterrumpe,
     MataBuscaNuevos, MataBuscaListos, MataEsperaToken, MataBuscaBloqueados, MataTermina,
     AjenoAMata
<1>2. mata \in [HilosMata -> TipoMata] /\ mata[h] \in TipoMata /\ adm \in TipoAdm
  BY DEF IInv, TypeOK
<1>3. PICK q \in Posibles : q = mata[h].pid
  BY <1>2 DEF TipoMata
<1>4. ASSUME UNCHANGED <<cola, adm, principal>>, NEW desde, NEW hasta, IrMata(h, desde, hasta),
             desde \in {"token", "terminar"} => hasta \in {"token", "terminar"}
      PROVE  Avanza
  <2>1. /\ \A k \in HilosMata \ {h} : mata'[k] = mata[k]
        /\ mata[h].paso = desde /\ mata'[h].paso = hasta /\ mata'[h].pid = mata[h].pid
    BY <1>2, <1>4 DEF IrMata, TipoMata
  <2> QED
    BY <1>1, <1>4, <2>1, AvanzaPasar
<1>5. ASSUME UNCHANGED <<cola, adm, principal, mata>>
      PROVE  Avanza
  BY <1>1, <1>5, AvanzaPasar
<1>6. CASE MataToma(h) \/ MataBuscaEjecucion(h) \/ MataEsperaToken(h)
  BY <1>4, <1>6 DEF MataToma, MataBuscaEjecucion, MataEsperaToken
<1>7. CASE MataBuscaEspera(h)
  <2>1. CASE Contains(cola.espera, q)
    <3>1. /\ IrMata(h, "espera", "terminar") /\ UNCHANGED <<principal, adm>>
          /\ cola' = [cola EXCEPT !.espera = RemoveFirst(cola.espera, q)]
      BY <1>3, <1>7, <2>1 DEF MataBuscaEspera
    <3> QED
      BY <1>1, <1>3, <2>1, <3>1, AvanzaSacar
  <2>2. CASE ~Contains(cola.espera, q)
    BY <1>3, <1>4, <1>7, <2>2 DEF MataBuscaEspera
  <2> QED
    BY <2>1, <2>2
<1>8. CASE MataBuscaCPU(h)
  <2>1. /\ \A k \in HilosMata \ {h} : mata'[k] = mata[k]
        /\ mata[h].paso \notin {"token", "terminar"}
        /\ UNCHANGED <<cola, adm, principal>>
    BY <1>2, <1>8 DEF MataBuscaCPU
  <2> QED
    BY <1>1, <2>1, AvanzaPasar
<1>9. CASE MataInterrumpe(h)
  <2>1. mata[h].paso = "interrumpir" /\ cola' = cola
    BY <1>9 DEF MataInterrumpe
  <2>2. CASE MataAcaba(h)
    <3>1. /\ \A k \in HilosMata \ {h} : mata'[k] = mata[k]
      BY <2>2 DEF MataAcaba, IInv, TypeOK
    <3>2. adm'.tablas = adm.tablas
      BY <1>2, <1>9 DEF MataInterrumpe, TipoAdm
    <3>3. \A p \in Pids : DePrincipal(principal, p) = 0 \/ UNCHANGED principal
      <4>1. h = "principal" => principal.rutina \notin Rutinas
        BY <2>1, RutinasSon DEF MataEnSuRutina
      <4> QED
        BY <2>2, <4>1, EnElSelector DEF MataAcaba
    <3> QED
      BY <1>1, <2>1, <3>1, <3>2, <3>3, AvanzaPasar
  <2>3. CASE ~MataAcaba(h)
    BY <1>5, <1>9, <2>3 DEF MataInterrumpe
  <2> QED
    BY <2>2, <2>3
<1>10. CASE MataBuscaNuevos(h)
  <2>1. CASE Contains(cola.nuevos, q)
    <3>1. /\ IrMata(h, "nuevos", "terminar") /\ UNCHANGED <<principal, adm>>
          /\ cola' = [cola EXCEPT !.nuevos = RemoveFirst(cola.nuevos, q)]
      BY <1>3, <1>10, <2>1 DEF MataBuscaNuevos
    <3> QED
      BY <1>1, <1>3, <2>1, <3>1, AvanzaSacar
  <2>2. CASE ~Contains(cola.nuevos, q)
    BY <1>3, <1>4, <1>10, <2>2 DEF MataBuscaNuevos
  <2> QED
    BY <2>1, <2>2
<1>11. CASE MataBuscaListos(h)
  <2>1. UNCHANGED <<principal, adm>>
    BY <1>11 DEF MataBuscaListos
  <2>2. CASE NuloAntes(cola.listos, q)
    BY <1>3, <1>5, <1>11, <2>1, <2>2 DEF MataBuscaListos
  <2>3. CASE ~NuloAntes(cola.listos, q) /\ Contains(cola.listos, q)
    <3>1. /\ IrMata(h, "listos", "token")
          /\ cola' = [cola EXCEPT !.listos = RemoveFirst(cola.listos, q)]
      BY <1>3, <1>11, <2>3 DEF MataBuscaListos, DejarListos
    <3> QED
      BY <1>1, <1>3, <2>1, <2>3, <3>1, AvanzaSacar
  <2>4. CASE ~NuloAntes(cola.listos, q) /\ ~Contains(cola.listos, q)
    <3>1. IrMata(h, "listos", "bloqueados") /\ cola' = cola
      BY <1>3, <1>11, <2>4 DEF MataBuscaListos, DejarListos
    <3> QED
      BY <1>4, <2>1, <3>1
  <2> QED
    BY <2>2, <2>3, <2>4
<1>12. CASE MataBuscaBloqueados(h)
  <2>1. mata[h].paso = "bloqueados" /\ UNCHANGED <<principal, adm>>
    BY <1>12 DEF MataBuscaBloqueados
  <2>2. CASE cola.bloqueados[q] > 0
    <3>1. /\ IrMata(h, "bloqueados", "terminar")
          /\ cola' = [cola EXCEPT !.bloqueados = Restar(cola.bloqueados, q)]
      BY <1>3, <1>12, <2>2 DEF MataBuscaBloqueados, IrMata
    <3> QED
      BY <1>1, <1>3, <2>1, <2>2, <3>1, AvanzaSacar
  <2>3. CASE ~(cola.bloqueados[q] > 0)
    <3>1. mata' = mata /\ cola' = cola
      BY <1>3, <1>12, <2>3 DEF MataBuscaBloqueados
    <3> QED
      BY <1>5, <2>1, <3>1
  <2> QED
    BY <2>2, <2>3
<1>13. CASE MataTermina(h)
  <2>1. mata[h].paso = "terminar"
    BY <1>13 DEF MataTermina
  <2>2. CASE ConTabla(q)
    <3>1. /\ q \in Pids /\ q \in adm.tablas /\ MataAcaba(h) /\ adm'.tablas = adm.tablas \ {q}
          /\ cola' = [cola EXCEPT !.terminados = Sumar(cola.terminados, q)]
      BY <1>2, <1>3, <1>13, <2>2 DEF MataTermina, Terminar, ConTabla, TipoAdm
    <3>2. /\ cola \in TipoCola /\ cola' \in TipoCola /\ cola.terminados \in [Pids -> Nat]
      BY DEF IInv, TypeOK, TipoCola, Bolsas
    <3>3. \A k \in HilosMata \ {h} : mata'[k] = mata[k]
      BY <3>1 DEF MataAcaba, IInv, TypeOK
    <3>4. ASSUME NEW p \in Pids, p # q PROVE Sigue(p)
      <4>1. SigueEnListas(cola, cola', p)
        BY <3>1, <3>2, ListasQueCrecen
      <4>2. DeMuerte(mata[h], p) = 0
        BY <1>3, <3>4 DEF DeMuerte
      <4>3. DePrincipal(principal, p) = 0 \/ UNCHANGED principal
        <5>1. h = "principal" => principal.rutina \notin Rutinas
          BY <2>1, RutinasSon DEF MataEnSuRutina
        <5> QED
          BY <3>1, <5>1, EnElSelector DEF MataAcaba
      <4>4. SigueEnHilos(p)
        BY <1>1, <3>3, <4>2, <4>3, HilosDeLaMuerte
      <4> QED
        BY <1>1, <3>1, <3>4, <4>1, <4>4 DEF Sigue
    <3>5. EnUnaKill(mata, q)
      BY <1>3, <2>1 DEF EnUnaKill, ConElla
    <3>6. cola'.terminados[q] > 0
      BY <3>1, <3>2 DEF Sumar, TipoCola
    <3>7. Recorre(q)
      BY <3>1, <3>5, <3>6, SitioPor DEF Va, Recorre
    <3> QED
      BY <3>1, <3>4, <3>7 DEF Avanza, SoloEl
  <2>3. CASE ~ConTabla(q)
    BY <1>3, <1>5, <1>13, <2>3 DEF MataTermina
  <2> QED
    BY <2>2, <2>3
<1> QED
  BY <1>6, <1>7, <1>8, <1>9, <1>10, <1>11, <1>12, <1>13 DEF Matar

LEMMA AvanzaSiempre ==
  ASSUME IInv, IInv', UnaCopia, UnaCopia', CpuOciosaVacia, MataEnSuRutina, [Next]_vars
  PROVE  Avanza
<1>1. ASSUME UNCHANGED <<cola, remoto, mata, principal, corto, largo, fin, adm, contadorPid>>
      PROVE  Avanza
  BY <1>1 DEF Avanza, Quietos, Sigue, SigueEnListas, SigueEnHilos
<1>2. CASE Usuario \/ UNCHANGED vars
  BY <1>1, <1>2 DEF Usuario, Pausar, PausarEspera, Reanudar, PostPlanificacion, PedirGrado,
     ModificarGrado, AjenoAlUsuario, vars
<1>3. ASSUME NEW h \in HilosMata, NEW q \in Pids, PedirFin(h, q)
      PROVE  Avanza
  <2>1. /\ UNCHANGED <<cola, remoto, corto, largo, fin, contadorPid, adm>>
        /\ \A k \in HilosMata \ {h} : mata'[k] = mata[k]
        /\ mata[h].paso = "nada"
    BY <1>3 DEF PedirFin, AjenoAMata, IInv, TypeOK
  <2>2. \A p \in Pids : DePrincipal(principal, p) = 0 \/ UNCHANGED principal
    <3>1. CASE h = "principal"
      BY <1>3, <3>1, EnElSelector, RutinasSon DEF PedirFin, Atender
    <3>2. CASE h # "principal"
      BY <1>3, <3>2 DEF PedirFin, HilosMata
    <3> QED
      BY <3>1, <3>2
  <2> QED
    BY <2>1, <2>2, AvanzaPasar
<1> QED
  BY <1>2, <1>3, AvanzaMensaje, AvanzaNuevo, AvanzaOperacion, AvanzaCorto, AvanzaLargo,
     AvanzaFin, AvanzaMatar DEF Next, Vivir, Reposo, Caido

-----------------------------------------------------------------------------
(* Every move is a step of the life cycle                                  *)

\* What the state of a process says of its place.
LEMMA EstadosDe ==
  ASSUME IInv, IInv', UnaCopia, UnaCopia', NEW p \in Pids
  PROVE  /\ EstadoDe(p) = DeSitio(Sitio(p), p \in adm.tablas, Destino)
         /\ EstadoDe(p)' = DeSitio(Sitio(p)', p \in adm'.tablas, Destino')
         /\ EstadoDe(p) = "porLlegar" => p > contadorPid
         /\ EstadoDe(p) = "nuevo" => Contains(cola.nuevos, p) \/ EnLargo(p)
         /\ EstadoDe(p) = "ejecucion" => EnUnaCPU(remoto, p)
         /\ EstadoDe(p) \in {"listo", "ejecucion", "bloqueado", "saliendo"} => p \in adm.tablas
         /\ Sitio(p) = "nuevos" => Contains(cola.nuevos, p)
         /\ Sitio(p) = "largo" => EnLargo(p)
         /\ Destino \in {"listo", "bloqueado", "saliendo"}
         /\ Destino' \in {"listo", "bloqueado", "saliendo"}
<1>1. Situados(p) /\ Situados(p)'
  BY SitioUnico
<1>2. /\ EstadoDe(p) = DeSitio(Sitio(p), p \in adm.tablas, Destino)
      /\ EstadoDe(p)' = DeSitio(Sitio(p)', p \in adm'.tablas, Destino')
  BY <1>1, EstadoPorSitio
<1>3. /\ Destino \in {"listo", "bloqueado", "saliendo"}
      /\ Destino' \in {"listo", "bloqueado", "saliendo"}
  BY DEF Destino
<1> DEFINE s == Sitio(p)
           d == Destino
<1>4. /\ s = "nuevos" => Contains(cola.nuevos, p)
      /\ s = "largo" => EnLargo(p)
      /\ s = "cpu" => EnUnaCPU(remoto, p)
      /\ s = "ninguno" => p > contadorPid
      /\ s \in Sitios
  BY <1>1 DEF Situados, EsSuSitio, EnLargo, DeLargo
<1>5. /\ EstadoDe(p) = DeSitio(s, p \in adm.tablas, d)
      /\ d \in {"listo", "bloqueado", "saliendo"}
  BY <1>2, <1>3
<1> HIDE DEF s, d
<1>6. DeActivo(s, d) \in {"listo", "ejecucion", "bloqueado", "saliendo"}
      /\ (DeActivo(s, d) = "ejecucion" => s = "cpu")
  BY <1>5 DEF DeActivo
<1>7. /\ EstadoDe(p) = "porLlegar" => s = "ninguno"
      /\ EstadoDe(p) = "nuevo" => s \in {"nuevos", "largo"}
      /\ EstadoDe(p) = "ejecucion" => s = "cpu"
      /\ EstadoDe(p) \in {"listo", "ejecucion", "bloqueado", "saliendo"} => p \in adm.tablas
  BY <1>5, <1>6 DEF DeSitio
<1>8. s = Sitio(p)
  BY DEF s
<1> QED
  BY <1>2, <1>3, <1>4, <1>7, <1>8

\* The state of the others does not change.
LEMMA SoloElCambia ==
  ASSUME IInv, IInv', UnaCopia, UnaCopia', NEW q \in Pids, SoloEl(q),
         grado'.maximo = grado.maximo, NEW desde, NEW hasta,
         EstadoDe(q) \in desde, EstadoDe(q)' = hasta
  PROVE  Ciclo!Pasar(q, desde, hasta)
<1>1. \A p \in Pids : p # q => EstadoDe(p)' = EstadoDe(p)
  <2> SUFFICES ASSUME NEW p \in Pids, p # q PROVE EstadoDe(p)' = EstadoDe(p)
    OBVIOUS
  <2>1. Sigue(p)
    BY DEF SoloEl
  <2> QED
    BY <2>1, QuietoEnSuSitio
<1>2. [p \in Pids |-> EstadoDe(p)]' = [[p \in Pids |-> EstadoDe(p)] EXCEPT ![q] = hasta]
  BY <1>1
<1> QED
  BY <1>2 DEF Ciclo!Pasar

\* The running processes are on different CPUs.
LEMMA CabeOtro ==
  ASSUME NEW c \in CPUs, remoto[c].pid = Nadie,
         NEW S \in SUBSET Pids, \A p \in S : EnUnaCPU(remoto, p)
  PROVE  Cardinality(S) < Cardinality(CPUs)
<1> DEFINE T == CPUs \ {c}
           f == [p \in S |-> CHOOSE d \in CPUs : remoto[d].pid = p]
<1>1. /\ IsFiniteSet(CPUs) /\ IsFiniteSet(T) /\ Cardinality(T) = Cardinality(CPUs) - 1
      /\ Cardinality(CPUs) \in Nat
  BY ConstantesOK, FS_RemoveElement, FS_CardinalityType DEF ConstantesOK
<1>2. \A p \in S : f[p] \in T /\ remoto[f[p]].pid = p
  <2> SUFFICES ASSUME NEW p \in S PROVE f[p] \in T /\ remoto[f[p]].pid = p
    OBVIOUS
  <2>1. f[p] \in CPUs /\ remoto[f[p]].pid = p
    BY DEF EnUnaCPU
  <2>2. p # Nadie
    BY DEF Nadie, Pids
  <2> QED
    BY <2>1, <2>2
<1>3. f \in [S -> T]
  BY <1>2
<1> HIDE DEF f
<1>4. f \in Injection(S, T)
  BY <1>2, <1>3 DEF Injection, IsInjective
<1>5. IsFiniteSet(S) /\ Cardinality(S) <= Cardinality(T)
  BY <1>1, <1>4, FS_Injection
<1>6. Cardinality(S) \in Nat
  BY <1>5, FS_CardinalityType
<1> QED
  BY <1>1, <1>5, <1>6

\* The cardinality of the instance is that of FiniteSets.
LEMMA MismoCardinal == ASSUME NEW S PROVE Ciclo!Cardinality(S) = Cardinality(S)
BY Zenon DEF Ciclo!Cardinality, Cardinality

\* Nothing moves, and the degree in force is the same.
LEMMA QuietosEsPausa ==
  ASSUME IInv, IInv', UnaCopia, UnaCopia', Quietos
  PROVE  [p \in Pids |-> EstadoDe(p)]' = [p \in Pids |-> EstadoDe(p)]
<1>1. ASSUME NEW p \in Pids PROVE EstadoDe(p)' = EstadoDe(p)
  BY QuietoEnSuSitio DEF Quietos
<1> QED
  BY <1>1

\* The moves that do not change the table of files.
LEMMA MoverEsCiclo ==
  ASSUME IInv, IInv', UnaCopia, UnaCopia', TablasDeAdmitidos,
         NEW q \in Pids, SoloEl(q), Recorre(q), adm'.tablas = adm.tablas,
         grado'.maximo = grado.maximo, EstadoDe(q)' # EstadoDe(q)
  PROVE  \/ Ciclo!Llegar(q) \/ Ciclo!Rechazar(q) \/ Ciclo!Despachar(q) \/ Ciclo!Desalojar(q)
         \/ Ciclo!Bloquear(q) \/ Ciclo!Despertar(q) \/ Ciclo!Salir(q)
<1> DEFINE s == Sitio(q)
           t == Sitio(q)'
           d == Destino
           g == Destino'
           k == q \in adm.tablas
           e == EstadoDe(q)
           f == EstadoDe(q)'
<1>1. /\ e = DeSitio(s, k, d) /\ f = DeSitio(t, k, g) /\ f # e /\ k \in BOOLEAN
      /\ g \in {"listo", "bloqueado", "saliendo"}
  <2>1. /\ EstadoDe(q) = DeSitio(Sitio(q), q \in adm.tablas, Destino)
        /\ EstadoDe(q)' = DeSitio(Sitio(q)', q \in adm'.tablas, Destino')
        /\ Destino' \in {"listo", "bloqueado", "saliendo"}
    BY EstadosDe
  <2> QED
    BY <2>1
<1>2. s \in {"nuevos", "largo"} => ~k
  <2>1. s = "nuevos" => Contains(cola.nuevos, q)
    BY EstadosDe
  <2>2. s = "largo" => EnLargo(q)
    BY EstadosDe
  <2> QED
    BY <2>1, <2>2 DEF TablasDeAdmitidos
<1>3. ASSUME NEW S, NEW h, e \in S, f = h PROVE Ciclo!Pasar(q, S, h)
  BY <1>3, SoloElCambia
<1>4. \/ s = "ninguno" /\ t = "nuevos" /\ q = contadorPid + 1
      \/ <<s, t>> \in {<<"nuevos", "largo">>, <<"nuevos", "mata">>, <<"largo", "espera">>,
                       <<"listos", "corto">>, <<"corto", "listos">>}
      \/ s = "corto" /\ t = "cpu" /\ \E c \in CPUs : remoto[c].pid = Nadie
      \/ s = "cpu" /\ t = "principal"
      \/ s = "principal" /\ t = "listos" /\ d = "listo"
      \/ s = "principal" /\ t = "bloqueados" /\ d = "bloqueado"
      \/ s = "principal" /\ t = "espera" /\ d = "saliendo"
      \/ s = "bloqueados" /\ t = "principal" /\ g = "listo"
      \/ s \in {"listos", "bloqueados", "espera"} /\ t = "mata"
      \/ s = "espera" /\ t = "fin"
      \/ s = "largo" /\ t = "listos" /\ adm'.tablas = adm.tablas \cup {q}
      \/ q \in adm.tablas /\ adm'.tablas = adm.tablas \ {q}
  BY DEF Recorre, Va
<1>5. ~(s = "largo" /\ t = "listos" /\ adm'.tablas = adm.tablas \cup {q})
      /\ ~(q \in adm.tablas /\ adm'.tablas = adm.tablas \ {q})
  BY <1>2
<1> HIDE DEF s, t, d, g, e, f, k
<1>6. \/ s = "ninguno" /\ q = contadorPid + 1 /\ e = "porLlegar" /\ f = "nuevo"
      \/ e = "nuevo" /\ f = "rechazado"
      \/ e = "listo" /\ f = "ejecucion" /\ \E c \in CPUs : remoto[c].pid = Nadie
      \/ e = "ejecucion" /\ f \in {"listo", "bloqueado", "saliendo"}
      \/ e = "bloqueado" /\ f \in {"listo", "saliendo"}
      \/ e = "listo" /\ f = "saliendo"
  <2>1. CASE s = "ninguno" /\ t = "nuevos" /\ q = contadorPid + 1
    BY <1>1, <2>1 DEF DeSitio
  <2>2. CASE s \in {"nuevos", "largo"}
    BY <1>1, <1>2, <1>4, <1>5, <2>2 DEF DeSitio
  <2>3. CASE <<s, t>> \in {<<"listos", "corto">>, <<"corto", "listos">>}
    BY <1>1, <2>3 DEF DeSitio, DeActivo
  <2>4. CASE s = "corto" /\ t = "cpu" /\ \E c \in CPUs : remoto[c].pid = Nadie
    BY <1>1, <2>4 DEF DeSitio, DeActivo
  <2>5. CASE s = "cpu" /\ t = "principal"
    BY <1>1, <2>5 DEF DeSitio, DeActivo
  <2>6. CASE s = "principal"
    BY <1>1, <1>4, <1>5, <2>6 DEF DeSitio, DeActivo
  <2>7. CASE s = "bloqueados" /\ t = "principal" /\ g = "listo"
    BY <1>1, <2>7 DEF DeSitio, DeActivo
  <2>8. CASE s \in {"listos", "bloqueados", "espera"} /\ t = "mata"
    BY <1>1, <2>8 DEF DeSitio, DeActivo
  <2>9. CASE s = "espera" /\ t = "fin"
    BY <1>1, <2>9 DEF DeSitio, DeActivo
  <2> QED
    BY <1>4, <1>5, <2>1, <2>2, <2>3, <2>4, <2>5, <2>6, <2>7, <2>8, <2>9
<1>7. CASE q = contadorPid + 1 /\ e = "porLlegar" /\ f = "nuevo"
  <2>1. Ciclo!Pasar(q, {"porLlegar"}, "nuevo")
    BY <1>3, <1>7
  <2>2. ASSUME NEW p \in 1..(q - 1) PROVE [r \in Pids |-> EstadoDe(r)][p] # "porLlegar"
    <3>1. q \in Int /\ q <= MaxPid /\ MaxPid \in Int /\ contadorPid \in Int
      BY ConstantesOK DEF Pids, ConstantesOK, IInv, TypeOK
    <3>2. p \in Pids /\ ~(p > contadorPid)
      BY <1>7, <3>1 DEF Pids
    <3>3. EstadoDe(p) # "porLlegar"
      BY <3>2, EstadosDe
    <3> QED
      BY <3>2, <3>3
  <2> QED
    BY <2>1, <2>2 DEF Ciclo!Llegar
<1>8. CASE e = "nuevo" /\ f = "rechazado"
  BY <1>3, <1>8 DEF Ciclo!Rechazar
<1>9. CASE e = "listo" /\ f = "ejecucion" /\ \E c \in CPUs : remoto[c].pid = Nadie
  <2>1. Ciclo!Pasar(q, {"listo"}, "ejecucion")
    BY <1>3, <1>9
  <2> DEFINE S == Ciclo!En({"ejecucion"})
  <2>2. S \in SUBSET Pids /\ \A p \in S : EstadoDe(p) = "ejecucion"
    BY DEF Ciclo!En, Ciclo!Procesos, Pids
  <2> HIDE DEF S
  <2>3. \A p \in S : EnUnaCPU(remoto, p)
    BY <2>2, EstadosDe
  <2>4. Cardinality(S) < Cardinality(CPUs)
    BY <1>9, <2>2, <2>3, CabeOtro
  <2>5. Cardinality(Ciclo!En({"ejecucion"})) < Cardinality(CPUs)
    BY <2>4 DEF S
  <2>6. Ciclo!Cardinality(Ciclo!En({"ejecucion"})) < Ciclo!Cardinality(CPUs)
    BY <2>5, MismoCardinal
  <2> QED
    BY <2>1, <2>6 DEF Ciclo!Despachar
<1>10. CASE e = "ejecucion" /\ f \in {"listo", "bloqueado", "saliendo"}
  BY <1>3, <1>10 DEF Ciclo!Desalojar, Ciclo!Bloquear, Ciclo!Salir
<1>11. CASE e = "bloqueado" /\ f \in {"listo", "saliendo"}
  BY <1>3, <1>11 DEF Ciclo!Despertar, Ciclo!Salir
<1>12. CASE e = "listo" /\ f = "saliendo"
  BY <1>3, <1>12 DEF Ciclo!Salir
<1> QED
  BY <1>6, <1>7, <1>8, <1>9, <1>10, <1>11, <1>12

\* The admission: the first that came, and there is room.
LEMMA AdmitirEsCiclo ==
  ASSUME IInv, IInv', UnaCopia, UnaCopia', GradoExacto, IInvCiclo,
         NEW q \in Pids, SoloEl(q), Va(q, "largo", "listos"), largo.paso = "crear", largo.pid = q,
         adm'.tablas = adm.tablas \cup {q}, grado'.maximo = grado.maximo
  PROVE  Ciclo!Admitir(q)
<1>1. EstadoDe(q) = "nuevo" /\ EstadoDe(q)' = "listo"
  <2>1. /\ EstadoDe(q) = DeSitio(Sitio(q), q \in adm.tablas, Destino)
        /\ EstadoDe(q)' = DeSitio(Sitio(q)', q \in adm'.tablas, Destino')
    BY EstadosDe
  <2>2. q \in adm'.tablas
    OBVIOUS
  <2> QED
    BY <2>1, <2>2 DEF Va, DeSitio, DeActivo
<1>2. Ciclo!Pasar(q, {"nuevo"}, "listo")
  BY <1>1, SoloElCambia
<1>3. ASSUME NEW p \in 1..(q - 1) PROVE [r \in Pids |-> EstadoDe(r)][p] # "nuevo"
  <2>1. q \in Int /\ q <= MaxPid /\ MaxPid \in Int
    BY ConstantesOK DEF Pids, ConstantesOK
  <2>2. p \in Pids /\ p \in Int /\ p < q
    BY <2>1 DEF Pids
  <2>3. ~EnLargo(p)
    BY <2>1, <2>2 DEF EnLargo
  <2>4. ~Contains(cola.nuevos, p)
    <3> SUFFICES ASSUME NEW i \in DOMAIN cola.nuevos, cola.nuevos[i] = p PROVE FALSE
      <4>1. cola.nuevos \in Seq(Pids)
        BY DEF IInv, TypeOK, TipoCola
      <4> QED
        BY <4>1 DEF Contains
    <3>1. q < p
      BY DEF IInvCiclo, NuevosEnOrden
    <3> QED
      BY <2>1, <2>2, <3>1
  <2>5. EstadoDe(p) # "nuevo"
    BY <2>2, <2>3, <2>4, EstadosDe
  <2> QED
    BY <2>2, <2>5
<1>4. Ciclo!Cardinality(Ciclo!En(Ciclo!EstadosActivos)) < grado.maximo
  <2> DEFINE S == Ciclo!En(Ciclo!EstadosActivos)
  <2>1. S \in SUBSET Pids
        /\ \A p \in S : EstadoDe(p) \in {"listo", "ejecucion", "bloqueado", "saliendo"}
    BY DEF Ciclo!En, Ciclo!Procesos, Ciclo!EstadosActivos, Pids
  <2> HIDE DEF S
  <2>2. S \in SUBSET adm.tablas
    <3> SUFFICES ASSUME NEW p \in S PROVE p \in adm.tablas
      OBVIOUS
    <3>1. p \in Pids /\ EstadoDe(p) \in {"listo", "ejecucion", "bloqueado", "saliendo"}
      BY <2>1
    <3> QED
      BY <3>1, EstadosDe
  <2>3. /\ IsFiniteSet(adm.tablas) /\ Cardinality(adm.tablas) \in Nat
        /\ IsFiniteSet(S) /\ Cardinality(S) \in Nat
        /\ Cardinality(S) <= Cardinality(adm.tablas)
    <3>1. IsFiniteSet(Pids) /\ adm.tablas \in SUBSET Pids
      <4>1. MaxPid \in Int
        BY ConstantesOK DEF ConstantesOK
      <4>2. IsFiniteSet(Pids)
        BY <4>1, FS_Interval DEF Pids
      <4>3. adm.tablas \in SUBSET Pids
        BY DEF IInv, TypeOK, TipoAdm
      <4> QED
        BY <4>2, <4>3
    <3>2. IsFiniteSet(adm.tablas)
      BY <3>1, FS_Subset
    <3>3. IsFiniteSet(S) /\ Cardinality(S) <= Cardinality(adm.tablas)
      BY <2>2, <3>2, FS_Subset
    <3> QED
      BY <3>2, <3>3, FS_CardinalityType
  <2>4. grado.actual = Cardinality(adm.tablas) /\ grado.actual < grado.maximo
    <3>1. grado.actual \in Int /\ grado.maximo \in Int
      BY DEF IInv, TypeOK, TipoGrado
    <3> QED
      BY <2>3, <3>1 DEF GradoExacto, Booleano, IInvCiclo, LugarParaAdmitir
  <2>5. grado.actual \in Int /\ grado.maximo \in Int
    BY DEF IInv, TypeOK, TipoGrado
  <2> QED
    BY <2>3, <2>4, <2>5, MismoCardinal DEF S
<1> QED
  BY <1>2, <1>3, <1>4 DEF Ciclo!Admitir

LEMMA TerminarEsCiclo ==
  ASSUME IInv, IInv', UnaCopia, UnaCopia', NEW q \in Pids, SoloEl(q),
         Va(q, "fin", "terminados") \/ Va(q, "mata", "terminados"), q \in adm.tablas,
         grado'.maximo = grado.maximo
  PROVE  Ciclo!Terminar(q)
<1>1. EstadoDe(q) = "saliendo" /\ EstadoDe(q)' = "terminado"
  <2>1. /\ EstadoDe(q) = DeSitio(Sitio(q), q \in adm.tablas, Destino)
        /\ EstadoDe(q)' = DeSitio(Sitio(q)', q \in adm'.tablas, Destino')
    BY EstadosDe
  <2> QED
    BY <2>1 DEF Va, DeSitio, DeActivo
<1> QED
  BY <1>1, SoloElCambia DEF Ciclo!Terminar

LEMMA PasoEsCiclo ==
  ASSUME IInv, IInv', IInvLugar, IInvLugar', GradoExacto, IInvCiclo, [Next]_vars
  PROVE  [Ciclo!Next]_(Ciclo!cicloVars)
<1>1. UnaCopia /\ UnaCopia' /\ CpuOciosaVacia /\ MataEnSuRutina /\ TablasDeAdmitidos
  BY DEF IInvLugar
<1>2. Avanza
  BY <1>1, AvanzaSiempre
<1> DEFINE E == [p \in Pids |-> EstadoDe(p)]
<1>3. CASE grado'.maximo = grado.maximo
  <2>1. CASE Quietos
    <3>1. E' = E
      BY <1>1, <2>1, QuietosEsPausa
    <3> QED
      BY <1>3, <3>1 DEF Ciclo!cicloVars
  <2>2. ASSUME NEW q \in Pids, SoloEl(q), Recorre(q)
        PROVE  [Ciclo!Next]_(Ciclo!cicloVars)
    <3>1. CASE EstadoDe(q)' = EstadoDe(q)
      <4>1. ASSUME NEW p \in Pids PROVE EstadoDe(p)' = EstadoDe(p)
        <5>1. CASE p = q
          BY <3>1, <5>1
        <5>2. CASE p # q
          BY <1>1, <2>2, <5>2, QuietoEnSuSitio DEF SoloEl
        <5> QED
          BY <5>1, <5>2
      <4>2. E' = E
        BY <4>1
      <4> QED
        BY <1>3, <4>2 DEF Ciclo!cicloVars
    <3>2. CASE EstadoDe(q)' # EstadoDe(q)
      <4>1. E' # E
        <5>1. E'[q] = EstadoDe(q)' /\ E[q] = EstadoDe(q)
          OBVIOUS
        <5> QED
          BY <3>2, <5>1
      <4>2. \/ Ciclo!Llegar(q) \/ Ciclo!Admitir(q) \/ Ciclo!Rechazar(q) \/ Ciclo!Despachar(q)
            \/ Ciclo!Desalojar(q) \/ Ciclo!Bloquear(q) \/ Ciclo!Despertar(q) \/ Ciclo!Salir(q)
            \/ Ciclo!Terminar(q)
        <5>1. CASE adm'.tablas = adm.tablas
          BY <1>1, <1>3, <2>2, <3>2, <5>1, MoverEsCiclo
        <5>2. CASE adm'.tablas # adm.tablas
          BY <1>1, <1>3, <2>2, <5>2, AdmitirEsCiclo, TerminarEsCiclo DEF Recorre
        <5> QED
          BY <5>1, <5>2
      <4>3. q \in Ciclo!Procesos
        BY DEF Ciclo!Procesos, Pids
      <4> QED
        BY <4>1, <4>2, <4>3 DEF Ciclo!Next
    <3> QED
      BY <3>1, <3>2
  <2> QED
    BY <1>2, <2>1, <2>2 DEF Avanza
<1>4. CASE \E n \in GradosNuevos : ModificarGrado(n) /\ grado'.maximo = n
  <2>1. Quietos
    BY <1>4 DEF ModificarGrado, AjenoAlUsuario, Quietos, Sigue, SigueEnListas, SigueEnHilos
  <2>2. E' = E
    BY <1>1, <2>1, QuietosEsPausa
  <2>3. grado'.maximo \in Int
    BY DEF IInv, TypeOK, TipoGrado
  <2> QED
    BY <2>2, <2>3 DEF Ciclo!Next, Ciclo!CambiarGrado
<1> QED
  BY <1>3, <1>4, GradoEnVigor

LEMMA InicioEsCiclo ==
  ASSUME Init
  PROVE  Ciclo!Init
<1>1. ASSUME NEW p \in Pids PROVE EstadoDe(p) = "porLlegar"
  <2>1. p > contadorPid
    BY DEF Init, Pids
  <2> QED
    BY <2>1 DEF EstadoDe
<1>2. [p \in Pids |-> EstadoDe(p)] = [p \in Ciclo!Procesos |-> "porLlegar"]
  BY <1>1 DEF Ciclo!Procesos, Pids
<1>3. grado.maximo \in Int
  BY ConstantesOK DEF Init, ConstantesOK
<1> QED
  BY <1>2, <1>3 DEF Ciclo!Init

\* The scheduler of planificacion.h implements the life cycle of a program, for
\* any number of programs, CPUs and semaphores and whatever the user, the kills
\* and the closing CPUs do: administrarNuevosProcesos admits in the order of
\* arrival and within the degree, planificarCortoPlazo gives a CPU to no more
\* processes than there are CPUs, and a process changes its state only as it should.
THEOREM PlanificacionImplementaCiclo == Spec => ImplementaCiclo
<1>1. Init => Ciclo!Init
  BY InicioEsCiclo
<1>2. Init => IInvCiclo
  BY InicioCiclo
<1>3. IInv /\ IInv' /\ IInvCiclo /\ [Next]_vars => IInvCiclo'
  BY InductivoCiclo
<1>4. IInv /\ IInv' /\ IInvLugar /\ IInvLugar' /\ GradoExacto /\ IInvCiclo /\ [Next]_vars
        => [Ciclo!Next]_(Ciclo!cicloVars)
  BY PasoEsCiclo
<1> QED
  BY <1>1, <1>2, <1>3, <1>4, Invariante, Lugar, GradoDeMultiprogramacion, PTL
     DEF Spec, ImplementaCiclo, Ciclo!Spec
=============================================================================
