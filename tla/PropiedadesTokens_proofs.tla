---------------------- MODULE PropiedadesTokens_proofs ----------------------
(***************************************************************************)
(* What the counting semaphores of the scheduler and the semaphores of the *)
(* programs count: first whatever happens, then without the pauses, the    *)
(* kills or the closing CPUs that break the count in the code.             *)
(***************************************************************************)
EXTENDS Propiedades_proofs

-----------------------------------------------------------------------------
(* The tokens a step posts and takes                                       *)

LEMMA FichasPuestas ==
  ASSUME IInv, NEW ss, Postear(ss)
  PROVE  /\ sem'.admitir = sem.admitir + Dentro("admitir", ss)
         /\ sem'.fin = sem.fin + Dentro("fin", ss)
         /\ sem'.cpu = sem.cpu + Dentro("cpu", ss)
         /\ sem'.planif = sem.planif + Dentro("planif", ss)
<1>1. sem \in TipoSem
  BY DEF IInv, TypeOK
<1> QED
  BY <1>1 DEF Postear, TipoSem, Dentro

LEMMA FichasSon ==
  ASSUME IInv
  PROVE  /\ sem.admitir \in Nat /\ sem.fin \in Nat /\ sem.cpu \in Nat /\ sem.planif \in Nat
  BY DEF IInv, TypeOK, TipoSem

LEMMA FichaTomada ==
  ASSUME IInv, NEW s \in {"admitir", "fin", "listo", "cpu", "planif"}, Wait(s)
  PROVE  /\ sem'.admitir = sem.admitir - Uno(s, "admitir")
         /\ sem'.fin = sem.fin - Uno(s, "fin")
         /\ sem'.cpu = sem.cpu - Uno(s, "cpu")
         /\ sem'.planif = sem.planif - Uno(s, "planif")
         /\ sem[s] > 0
<1>1. sem \in TipoSem
  BY DEF IInv, TypeOK
<1> QED
  BY <1>1 DEF Wait, TipoSem, Uno

-----------------------------------------------------------------------------
(* The pauses                                                              *)

\* The steps that have nothing to do with a pause.
PausaQuieta ==
  /\ UNCHANGED <<flagPlanificacion, usuario>> /\ sem'.planif = sem.planif
  /\ corto'.paso = "pausada" => corto.paso = "pausada" \/ ~flagPlanificacion
  /\ largo'.paso = "pausada" => largo.paso = "pausada" \/ ~flagPlanificacion

LEMMA PausaAparte ==
  ASSUME IInv, [Next]_vars, ~Usuario, ~CortoEsperaReanudar, ~LargoEsperaReanudar
  PROVE  PausaQuieta
<1>1. corto \in TipoCorto /\ largo \in TipoLargo /\ sem.planif \in Nat
  BY FichasSon DEF IInv, TypeOK
<1>2. ASSUME UNCHANGED <<flagPlanificacion, usuario, corto, largo>>,
             sem' = sem \/ \E ss \in SUBSET {"admitir", "fin", "listo", "cpu"} : Postear(ss)
      PROVE  PausaQuieta
  <2>1. ASSUME NEW ss \in SUBSET {"admitir", "fin", "listo", "cpu"}, Postear(ss)
        PROVE  sem'.planif = sem.planif
    BY <1>1, <2>1, FichasPuestas DEF Dentro
  <2> QED
    BY <1>2, <2>1 DEF PausaQuieta
<1>3. ASSUME NEW c \in CPUs, MensajeCPU(c) \/ SignalCPU(c)
      PROVE  PausaQuieta
  <2>1. UNCHANGED <<flagPlanificacion, usuario, corto, largo>>
    BY <1>3 DEF MensajeCPU, GestionarNuevaCPU, FinProceso, FinQuantum, ProcesoExpropiado,
       Excepcion, WaitSemaforo, SignalSemaforo, VerificarInterrupciones, GestionarCierreCpu,
       SignalCPU, DejarYRemover, DejarCPU, hilos
  <2>2. sem' = sem \/ Postear({"cpu"})
    BY <1>3 DEF MensajeCPU, GestionarNuevaCPU, FinProceso, FinQuantum, ProcesoExpropiado,
       Excepcion, WaitSemaforo, SignalSemaforo, VerificarInterrupciones, GestionarCierreCpu,
       SignalCPU, DejarYRemover, DejarCPU
  <2> QED
    BY <1>2, <2>1, <2>2
<1>4. CASE OperacionPrincipal
  <2>1. UNCHANGED <<flagPlanificacion, usuario, corto, largo>>
    BY <1>4 DEF OperacionPrincipal, EncolarCodigo, CambiarEstadoCpu, RemoverDeColaEjecucion,
       EncolarEspera, EncolarListo, EncolarBloqueado, EncolarProcesoBloqueadoASemaforo,
       DesbloquearProceso, DevolverSemaforo, QuitarInterrupcion, AjenoAlPrincipal
  <2>2. \/ sem' = sem \/ Postear({"admitir"}) \/ Postear(PostsDeOciosa) \/ Postear({"fin"})
        \/ Postear(PostsDeListo) \/ Postear({"cpu"})
    BY <1>4 DEF OperacionPrincipal, EncolarCodigo, CambiarEstadoCpu, RemoverDeColaEjecucion,
       EncolarEspera, EncolarListo, EncolarBloqueado, EncolarProcesoBloqueadoASemaforo,
       DesbloquearProceso, DevolverSemaforo, QuitarInterrupcion
  <2>3. /\ PostsDeOciosa \in SUBSET {"admitir", "fin", "listo", "cpu"}
        /\ PostsDeListo \in SUBSET {"admitir", "fin", "listo", "cpu"}
    BY DEF PostsDeOciosa, PostsDeListo
  <2> QED
    BY <1>2, <2>1, <2>2, <2>3
<1>5. CASE GestionarNuevoPrograma
  BY <1>2, <1>5 DEF GestionarNuevoPrograma
<1>6. CASE CortoPlazo
  <2>1. UNCHANGED <<flagPlanificacion, usuario, largo>>
    BY <1>6 DEF CortoPlazo, CortoVerificaPausa, CortoEsperaReanudar, CortoEsperaCPU,
       CortoEsperaListo, SacarListo, MirarOciosas, EnviarPcb, RegistrarEjecucion,
       DevolverAListos, AjenoAlCorto
  <2>2. sem'.planif = sem.planif
    <3>1. sem' = sem \/ Wait("cpu") \/ Wait("listo") \/ Postear({"listo"})
      BY <1>6 DEF CortoPlazo, CortoVerificaPausa, CortoEsperaCPU, CortoEsperaListo, SacarListo,
         MirarOciosas, EnviarPcb, RegistrarEjecucion, DevolverAListos
    <3> QED
      BY <1>1, <3>1, FichaTomada, FichasPuestas DEF Uno, Dentro
  <2>3. corto'.paso = "pausada" => corto.paso = "pausada" \/ ~flagPlanificacion
    BY <1>1, <1>6 DEF CortoPlazo, CortoVerificaPausa, CortoEsperaReanudar, CortoEsperaCPU,
       CortoEsperaListo, SacarListo, MirarOciosas, EnviarPcb, RegistrarEjecucion,
       DevolverAListos, IrCorto, TipoCorto
  <2> QED
    BY <2>1, <2>2, <2>3 DEF PausaQuieta
<1>7. CASE LargoPlazo
  <2>1. UNCHANGED <<flagPlanificacion, usuario, corto>>
    BY <1>7 DEF LargoPlazo, LargoVerificaPausa, LargoEsperaReanudar, LargoEsperaAdmitir,
       SacarNuevo, CrearProceso, AumentarGrado, RechazarProceso, AjenoAlLargo
  <2>2. sem'.planif = sem.planif
    <3>1. sem' = sem \/ Wait("admitir") \/ Postear({"listo"}) \/ Postear({"fin"})
      BY <1>7 DEF LargoPlazo, LargoVerificaPausa, LargoEsperaAdmitir, SacarNuevo, CrearProceso,
         AumentarGrado, RechazarProceso
    <3> QED
      BY <1>1, <3>1, FichaTomada, FichasPuestas DEF Uno, Dentro
  <2>3. largo'.paso = "pausada" => largo.paso = "pausada" \/ ~flagPlanificacion
    BY <1>1, <1>7 DEF LargoPlazo, LargoVerificaPausa, LargoEsperaReanudar, LargoEsperaAdmitir,
       SacarNuevo, CrearProceso, AumentarGrado, RechazarProceso, LargoAcaba, IrLargo, TipoLargo
  <2> QED
    BY <2>1, <2>2, <2>3 DEF PausaQuieta
<1>8. CASE FinProcesos
  <2>1. UNCHANGED <<flagPlanificacion, usuario, corto, largo>>
    BY <1>8 DEF FinProcesos, FinEspera, FinTomaEspera, FinSaca, FinTermina, FinSueltaEspera,
       AjenoAlFin
  <2>2. sem' = sem \/ Wait("fin") \/ Postear({"admitir"})
    BY <1>8 DEF FinProcesos, FinEspera, FinTomaEspera, FinSaca, FinTermina, FinSueltaEspera,
       Terminar
  <2>3. sem'.planif = sem.planif
    BY <1>1, <2>2, FichaTomada, FichasPuestas DEF Uno, Dentro
  <2> QED
    BY <2>1, <2>3 DEF PausaQuieta
<1>9. ASSUME NEW h \in HilosMata, Matar(h) \/ \E q \in Pids : PedirFin(h, q)
      PROVE  PausaQuieta
  <2>1. UNCHANGED <<flagPlanificacion, usuario, corto, largo>>
    BY <1>9 DEF Matar, MataToma, MataBuscaEspera, MataBuscaEjecucion, MataBuscaCPU,
       MataInterrumpe, MataBuscaNuevos, MataBuscaListos, MataEsperaToken, MataBuscaBloqueados,
       MataTermina, PedirFin, AjenoAMata
  <2>2. sem' = sem \/ Wait("listo") \/ Postear({"admitir"})
    BY <1>9 DEF Matar, MataToma, MataBuscaEspera, MataBuscaEjecucion, MataBuscaCPU,
       MataInterrumpe, MataBuscaNuevos, MataBuscaListos, MataEsperaToken, MataBuscaBloqueados,
       MataTermina, Terminar, PedirFin
  <2>3. sem'.planif = sem.planif
    BY <1>1, <2>2, FichaTomada, FichasPuestas DEF Uno, Dentro
  <2> QED
    BY <2>1, <2>3 DEF PausaQuieta
<1>10. CASE UNCHANGED vars
  BY <1>2, <1>10 DEF vars
<1> QED
  BY <1>3, <1>4, <1>5, <1>6, <1>7, <1>8, <1>9, <1>10 DEF Next, Vivir, Reposo, Caido

\* The user takes the token of a pause while the flag is down, and a resume
\* brings one for each scheduler.
LEMMA PausaSigue ==
  ASSUME IInv, IInv', PausaConToken, ReanudarDespierta, [Next]_vars
  PROVE  PausaConToken' /\ ReanudarDespierta'
<1>1. /\ corto \in TipoCorto /\ largo \in TipoLargo /\ sem.planif \in Nat /\ sem'.planif \in Nat
      /\ flagPlanificacion \in BOOLEAN
  BY FichasSon DEF IInv, TypeOK, TipoSem
<1>2. CASE ~Usuario /\ ~CortoEsperaReanudar /\ ~LargoEsperaReanudar
  <2>1. PausaQuieta
    BY <1>2, PausaAparte
  <2> QED
    BY <1>1, <2>1 DEF PausaQuieta, PausaConToken, ReanudarDespierta, Booleano
<1>3. CASE CortoEsperaReanudar
  <2>1. /\ sem'.planif = sem.planif - 1 /\ corto.paso = "pausada" /\ corto'.paso = "cpu"
        /\ UNCHANGED <<flagPlanificacion, usuario, largo>>
    BY <1>1, <1>3, FichaTomada DEF CortoEsperaReanudar, IrCorto, TipoCorto, AjenoAlCorto, Uno
  <2> QED
    BY <1>1, <2>1 DEF PausaConToken, ReanudarDespierta, Booleano
<1>4. CASE LargoEsperaReanudar
  <2>1. /\ sem'.planif = sem.planif - 1 /\ largo.paso = "pausada" /\ largo'.paso = "admitir"
        /\ UNCHANGED <<flagPlanificacion, usuario, corto>>
    BY <1>1, <1>4, FichaTomada DEF LargoEsperaReanudar, IrLargo, TipoLargo, AjenoAlLargo, Uno
  <2> QED
    BY <1>1, <2>1 DEF PausaConToken, ReanudarDespierta, Booleano
<1>5. CASE Pausar
  BY <1>5 DEF Pausar, PausaConToken, ReanudarDespierta
<1>6. CASE PausarEspera
  BY <1>6 DEF PausarEspera, PausaConToken, ReanudarDespierta
<1>7. CASE Reanudar
  <2>1. sem'.planif = sem.planif + 2 /\ usuario' = usuario /\ usuario = "libre"
    BY <1>7 DEF Reanudar, UsuarioLibre, IInv, TypeOK, TipoSem
  <2> QED
    BY <1>1, <2>1 DEF PausaConToken, ReanudarDespierta, Booleano
<1>8. CASE PostPlanificacion
  <2>1. /\ sem'.planif = sem.planif + 1
        /\ UNCHANGED <<flagPlanificacion, usuario, corto, largo>>
    BY <1>1, <1>8, FichasPuestas DEF PostPlanificacion, AjenoAlUsuario, Dentro
  <2> QED
    BY <1>1, <2>1 DEF PausaConToken, ReanudarDespierta, Booleano
<1>9. ASSUME NEW n \in GradosNuevos, ModificarGrado(n)
      PROVE  PausaConToken' /\ ReanudarDespierta'
  <2>1. /\ sem'.planif = sem.planif /\ UNCHANGED <<flagPlanificacion, corto, largo>>
        /\ usuario = "tecleando" /\ usuario' = "libre"
    BY <1>9 DEF ModificarGrado, AjenoAlUsuario, IInv, TypeOK, TipoSem
  <2> QED
    BY <1>1, <2>1 DEF PausaConToken, ReanudarDespierta, Booleano
<1>10. CASE PedirGrado
  <2>1. /\ UNCHANGED <<sem, flagPlanificacion, corto, largo>>
        /\ usuario = "libre" /\ usuario' = "tecleando"
    BY <1>10 DEF PedirGrado, AjenoAlUsuario, UsuarioLibre
  <2> QED
    BY <1>1, <2>1 DEF PausaConToken, ReanudarDespierta, Booleano
<1> QED
  BY <1>2, <1>3, <1>4, <1>5, <1>6, <1>7, <1>8, <1>9, <1>10 DEF Usuario

\* Once the planning was resumed (option R of interfazHandler), every scheduler
\* that stopped for the pause has a token of sem_planificacion, whoever took the
\* tokens of earlier pauses, for any number of pauses, posts and kills.
THEOREM ReanudarDespiertaATodos == Spec => []ReanudarDespierta
<1>1. Init => PausaConToken /\ ReanudarDespierta
  BY DEF Init, PausaConToken, ReanudarDespierta, Booleano
<1>2. /\ IInv /\ IInv' /\ PausaConToken /\ ReanudarDespierta /\ [Next]_vars
      => PausaConToken' /\ ReanudarDespierta'
  BY PausaSigue
<1> QED
  BY <1>1, <1>2, Invariante, PTL DEF Spec

-----------------------------------------------------------------------------
(* The value of a semaphore against its list                               *)

\* The steps that have nothing to do with the semaphores of the programs.
SemaforosQuietos ==
  /\ semaforo' = semaforo
  /\ principal.rutina = "bloqueo" <=> principal'.rutina = "bloqueo"
  /\ principal.rutina = "bloqueo" => principal'.sem = principal.sem

\* Where the main thread goes with an operation.
LEMMA PasoLleva ==
  ASSUME IInv, NEW op, Paso(op), op # "ninguna"
  PROVE  /\ principal.rutina \in Rutinas /\ principal.paso \in 1..Len(Guion[principal.rutina])
         /\ op = Guion[principal.rutina][principal.paso]
         /\ \/ /\ principal.paso < Len(Guion[principal.rutina])
               /\ principal' = [principal EXCEPT !.paso = principal.paso + 1]
               /\ principal'.rutina = principal.rutina /\ principal'.sem = principal.sem
               /\ principal'.paso = principal.paso + 1 /\ principal'.pid = principal.pid
            \/ principal.paso = Len(Guion[principal.rutina]) /\ principal' = SinRutina
<1>1. /\ principal.rutina \in Rutinas /\ principal.paso \in 1..Len(Guion[principal.rutina])
      /\ op = Guion[principal.rutina][principal.paso]
  BY DEF Paso, Operacion, IInv, ConProceso
<1>2. principal \in TipoPrincipal /\ Len(Guion[principal.rutina]) \in Nat
  BY <1>1, Guiones DEF IInv, TypeOK
<1>3. CASE principal.paso < Len(Guion[principal.rutina])
  <2>1. principal' = [principal EXCEPT !.paso = principal.paso + 1]
    BY <1>3 DEF Paso
  <2> QED
    BY <1>1, <1>2, <1>3, <2>1 DEF TipoPrincipal
<1>4. CASE ~(principal.paso < Len(Guion[principal.rutina]))
  BY <1>1, <1>2, <1>4 DEF Paso
<1> QED
  BY <1>3, <1>4

\* The routines with an operation that only they have.
LEMMA OperacionesDe ==
  ASSUME NEW r \in Rutinas, NEW i \in 1..Len(Guion[r])
  PROVE  /\ Guion[r][i] = "aBloqueados" <=> r = "bloqueo" /\ i = 2
         /\ Guion[r][i] = "aSemaforo" <=> r = "bloqueo" /\ i = 3
         /\ r = "bloqueo" => Len(Guion[r]) = 3 /\ i \in 1..3
         /\ Guion[r][i] = "aCodigos" <=> r = "nuevoPrograma"
         /\ r = "nuevoPrograma" => i = Len(Guion[r])
<1>1. CASE r = "nuevoPrograma"
  BY <1>1, RutinasSon
<1>0. CASE r = "finProceso"
  BY <1>0, RutinasSon
<1>2. CASE r = "finQuantum"
  BY <1>2, RutinasSon
<1>3. CASE r = "finQuantumCierre"
  BY <1>3, RutinasSon
<1>4. CASE r \in {"excepcion", "stackOverflow"}
  BY <1>4, RutinasSon
<1>5. CASE r = "bloqueo"
  BY <1>5, RutinasSon
<1>6. CASE r = "expropiado"
  BY <1>6, RutinasSon
<1>7. CASE r = "desbloqueo"
  BY <1>7, RutinasSon
<1> QED
  BY <1>0, <1>1, <1>2, <1>3, <1>4, <1>5, <1>6, <1>7, RutinasSon

LEMMA SemaforosAparte ==
  ASSUME IInv, [Next]_vars, ~EncolarProcesoBloqueadoASemaforo,
         \A c \in CPUs, s \in Semaforos : ~WaitSemaforo(c, s) /\ ~SignalSemaforo(c, s),
         \A h \in HilosMata : ~Matar(h) /\ \A q \in Pids : ~PedirFin(h, q)
  PROVE  SemaforosQuietos
<1>1. CASE UNCHANGED <<semaforo, principal>>
  BY <1>1 DEF SemaforosQuietos
<1>2. ASSUME semaforo' = semaforo, NEW r, NEW c, NEW p, NEW s, Atender(r, c, p, s),
             r # "bloqueo"
      PROVE  SemaforosQuietos
  BY <1>2 DEF SemaforosQuietos, Atender
<1>3. ASSUME NEW c \in CPUs, MensajeCPU(c) \/ SignalCPU(c)
      PROVE  SemaforosQuietos
  <2>1. CASE FinProceso(c)
    BY <1>2, <2>1 DEF FinProceso, DejarYRemover, DejarCPU
  <2>2. CASE FinQuantum(c)
    <3>1. PICK r \in {"finQuantum", "finQuantumCierre"} : DejarCPU(c, {"finQuantum"}, r, "ninguno")
      BY <2>2 DEF FinQuantum
    <3> QED
      BY <1>2, <2>2, <3>1 DEF FinQuantum, DejarCPU
  <2>3. CASE ProcesoExpropiado(c)
    BY <1>2, <2>3 DEF ProcesoExpropiado, DejarYRemover, DejarCPU
  <2>4. ASSUME NEW r \in {"excepcion", "stackOverflow"}, Excepcion(c, r)
        PROVE  SemaforosQuietos
    BY <1>2, <2>4 DEF Excepcion, DejarYRemover, DejarCPU
  <2>5. CASE GestionarNuevaCPU(c) \/ VerificarInterrupciones(c) \/ GestionarCierreCpu(c)
             \/ SignalCPU(c)
    BY <1>1, <2>5 DEF GestionarNuevaCPU, VerificarInterrupciones, GestionarCierreCpu, SignalCPU,
       hilos
  <2> QED
    BY <1>3, <2>1, <2>2, <2>3, <2>4, <2>5 DEF MensajeCPU
<1>4. CASE OperacionPrincipal
  <2>1. semaforo' = semaforo
    BY <1>4 DEF OperacionPrincipal, EncolarCodigo, CambiarEstadoCpu, RemoverDeColaEjecucion,
       EncolarEspera, EncolarListo, EncolarBloqueado, DesbloquearProceso, DevolverSemaforo,
       QuitarInterrupcion
  <2>2. CASE DesbloquearProceso
    <3>1. principal'.rutina = principal.rutina /\ principal'.sem = principal.sem
      BY <2>2 DEF DesbloquearProceso, IInv, TypeOK, TipoPrincipal
    <3> QED
      BY <2>1, <3>1 DEF SemaforosQuietos
  <2>3. CASE ~DesbloquearProceso
    <3>1. PICK op \in {"aCodigos", "ociosa", "removerEjec", "aEspera", "aListos", "aBloqueados",
                       "devolverSem", "desinterrumpir"} : Paso(op)
      BY <1>4, <2>3 DEF OperacionPrincipal, EncolarCodigo, CambiarEstadoCpu,
         RemoverDeColaEjecucion, EncolarEspera, EncolarListo, EncolarBloqueado,
         DevolverSemaforo, QuitarInterrupcion
    <3>2. op # "ninguna" /\ op # "aSemaforo"
      OBVIOUS
    <3>3. /\ principal.rutina \in Rutinas /\ principal.paso \in 1..Len(Guion[principal.rutina])
          /\ op = Guion[principal.rutina][principal.paso]
          /\ \/ /\ principal'.rutina = principal.rutina /\ principal'.sem = principal.sem
             \/ principal.paso = Len(Guion[principal.rutina]) /\ principal' = SinRutina
      BY <3>1, <3>2, PasoLleva
    <3>4. principal.rutina = "bloqueo" => principal.paso # Len(Guion[principal.rutina])
      <4>1. /\ Guion[principal.rutina][principal.paso] = "aSemaforo"
                 <=> principal.rutina = "bloqueo" /\ principal.paso = 3
            /\ principal.rutina = "bloqueo" => Len(Guion[principal.rutina]) = 3
        BY <3>3, OperacionesDe
      <4> QED
        BY ONLY <3>2, <3>3, <4>1, Zenon
    <3> QED
      BY <2>1, <3>3, <3>4 DEF SemaforosQuietos, SinRutina
  <2> QED
    BY <2>2, <2>3
<1>5. CASE GestionarNuevoPrograma
  BY <1>2, <1>5 DEF GestionarNuevoPrograma
<1>6. CASE CortoPlazo
  BY <1>1, <1>6 DEF CortoPlazo, CortoVerificaPausa, CortoEsperaReanudar, CortoEsperaCPU,
     CortoEsperaListo, SacarListo, MirarOciosas, EnviarPcb, RegistrarEjecucion,
     DevolverAListos, AjenoAlCorto
<1>7. CASE LargoPlazo
  BY <1>1, <1>7 DEF LargoPlazo, LargoVerificaPausa, LargoEsperaReanudar, LargoEsperaAdmitir,
     SacarNuevo, CrearProceso, AumentarGrado, RechazarProceso, AjenoAlLargo
<1>8. CASE FinProcesos
  BY <1>1, <1>8 DEF FinProcesos, FinEspera, FinTomaEspera, FinSaca, FinTermina, FinSueltaEspera,
     AjenoAlFin
<1>9. CASE Usuario \/ UNCHANGED vars
  BY <1>1, <1>9 DEF Usuario, Pausar, PausarEspera, Reanudar, PostPlanificacion, PedirGrado,
     ModificarGrado, AjenoAlUsuario, vars
<1> QED
  BY <1>3, <1>4, <1>5, <1>6, <1>7, <1>8, <1>9 DEF Next, Vivir, Reposo, Caido

ACamino(r, s) == IF r.rutina = "bloqueo" /\ r.sem = s THEN 1 ELSE 0
Deuda(v) == IF v < 0 THEN -v ELSE 0

LEMMA CubreSon ==
  /\ ValorCubreBloqueo <=>
       \A s \in Semaforos :
         Len(semaforo[s].pids) + ACamino(principal, s) <= Deuda(semaforo[s].valor)
  /\ ValorCubreBloqueo' <=>
       \A s \in Semaforos :
         Len(semaforo'[s].pids) + ACamino(principal', s) <= Deuda(semaforo'[s].valor)
<1>1. \A s : /\ Booleano(principal.rutina = "bloqueo" /\ principal.sem = s) = ACamino(principal, s)
             /\ Booleano(principal'.rutina = "bloqueo" /\ principal'.sem = s)
                  = ACamino(principal', s)
  BY DEF Booleano, ACamino
<1> QED
  BY <1>1 DEF ValorCubreBloqueo, Deuda

\* wait(s) takes one from the value, and the process that stops is on its way to
\* the list; signal(s) gives one back, and takes the first of the list.
LEMMA PasosDeSemaforo ==
  ASSUME IInv, NEW c \in CPUs, NEW s \in Semaforos, WaitSemaforo(c, s) \/ SignalSemaforo(c, s)
  PROVE  /\ principal.rutina = "selector"
         /\ \A t \in Semaforos \ {s} : semaforo'[t] = semaforo[t]
         /\ WaitSemaforo(c, s) =>
              /\ semaforo'[s].valor = semaforo[s].valor - 1
              /\ semaforo'[s].pids = semaforo[s].pids
              /\ \/ /\ semaforo[s].valor <= 0 /\ principal'.rutina = "bloqueo"
                    /\ principal'.sem = s
                 \/ semaforo[s].valor > 0 /\ principal' = principal
         /\ SignalSemaforo(c, s) =>
              /\ semaforo'[s].valor = semaforo[s].valor + 1
              /\ \/ /\ semaforo[s].pids = <<>> /\ semaforo'[s].pids = <<>>
                    /\ principal' = principal
                 \/ /\ semaforo[s].pids # <<>> /\ semaforo'[s].pids = Tail(semaforo[s].pids)
                    /\ principal'.rutina = "desbloqueo"
                    /\ principal'.pid = Head(semaforo[s].pids)
                    /\ principal'.paso = 1 /\ principal'.sem = s
<1>1. /\ semaforo \in [Semaforos -> TipoSemaforo] /\ semaforo[s] \in TipoSemaforo
      /\ semaforo[s].valor \in Int /\ semaforo[s].pids \in Seq(Pids)
  BY DEF IInv, TypeOK, TipoSemaforo
<1>2. CASE WaitSemaforo(c, s)
  <2>1. /\ semaforo' = [semaforo EXCEPT ![s].valor = semaforo[s].valor - 1]
        /\ principal.rutina = "selector"
        /\ \/ /\ semaforo[s].valor - 1 < 0 /\ principal'.rutina = "bloqueo"
              /\ principal'.sem = s
           \/ ~(semaforo[s].valor - 1 < 0) /\ principal' = principal
    BY <1>2 DEF WaitSemaforo, Bloquea, DejarYRemover, DejarCPU, Atender, hilos
  <2>2. /\ \A t \in Semaforos \ {s} : semaforo'[t] = semaforo[t]
        /\ semaforo'[s].valor = semaforo[s].valor - 1
        /\ semaforo'[s].pids = semaforo[s].pids
    BY ONLY <1>1, <2>1, s \in Semaforos DEF TipoSemaforo
  <2>3. ~SignalSemaforo(c, s)
    <3>1. semaforo'[s].valor # semaforo[s].valor + 1
      BY <1>1, <2>2
    <3>2. ASSUME SignalSemaforo(c, s) PROVE semaforo'[s].valor = semaforo[s].valor + 1
      <4>1. CASE semaforo' = [semaforo EXCEPT ![s].valor = semaforo[s].valor + 1]
        BY <1>1, <4>1 DEF TipoSemaforo
      <4>2. CASE semaforo' = [semaforo EXCEPT ![s] =
                   [valor |-> semaforo[s].valor + 1, pids |-> Tail(semaforo[s].pids)]]
        BY <1>1, <4>2 DEF TipoSemaforo
      <4> QED
        BY <3>2, <4>1, <4>2 DEF SignalSemaforo
    <3> QED
      BY <3>1, <3>2
  <2> QED
    BY <1>1, <2>1, <2>2, <2>3
<1>3. CASE ~WaitSemaforo(c, s) /\ SignalSemaforo(c, s)
  <2>1. CASE semaforo[s].pids = <<>>
    <3>1. /\ semaforo' = [semaforo EXCEPT ![s].valor = semaforo[s].valor + 1]
          /\ principal.rutina = "selector" /\ principal' = principal
      BY <1>3, <2>1 DEF SignalSemaforo
    <3>2. /\ \A t \in Semaforos \ {s} : semaforo'[t] = semaforo[t]
          /\ semaforo'[s].valor = semaforo[s].valor + 1
          /\ semaforo'[s].pids = semaforo[s].pids
      BY ONLY <1>1, <3>1, s \in Semaforos DEF TipoSemaforo
    <3> QED
      BY <1>3, <2>1, <3>1, <3>2
  <2>2. CASE semaforo[s].pids # <<>>
    <3>1. /\ semaforo' = [semaforo EXCEPT ![s] =
                [valor |-> semaforo[s].valor + 1, pids |-> Tail(semaforo[s].pids)]]
          /\ Atender("desbloqueo", c, Head(semaforo[s].pids), s)
      BY <1>3, <2>2 DEF SignalSemaforo
    <3>2. /\ \A t \in Semaforos \ {s} : semaforo'[t] = semaforo[t]
          /\ semaforo'[s].valor = semaforo[s].valor + 1
          /\ semaforo'[s].pids = Tail(semaforo[s].pids)
      BY ONLY <1>1, <3>1, s \in Semaforos
    <3> QED
      BY <1>3, <2>2, <3>1, <3>2 DEF Atender
  <2> QED
    BY <2>1, <2>2
<1> QED
  BY <1>2, <1>3

\* encolarProcesoBloqueadoASemaforo: the process gets where it was going.
LEMMA PasoASemaforo ==
  ASSUME IInv, EncolarProcesoBloqueadoASemaforo
  PROVE  /\ principal.rutina = "bloqueo" /\ principal.paso = 3 /\ principal' = SinRutina
         /\ principal.pid \in Pids
         /\ \A t \in Semaforos \ {principal.sem} : semaforo'[t] = semaforo[t]
         /\ principal.sem \in Semaforos =>
              /\ semaforo'[principal.sem].valor = semaforo[principal.sem].valor
              /\ semaforo'[principal.sem].pids
                   = Append(semaforo[principal.sem].pids, principal.pid)
<1>1. semaforo \in [Semaforos -> TipoSemaforo]
  BY DEF IInv, TypeOK
<1>2. Paso("aSemaforo") /\ "aSemaforo" # "ninguna"
  BY DEF EncolarProcesoBloqueadoASemaforo
<1>3. /\ principal.rutina \in Rutinas /\ principal.paso \in 1..Len(Guion[principal.rutina])
      /\ "aSemaforo" = Guion[principal.rutina][principal.paso]
      /\ \/ principal.paso < Len(Guion[principal.rutina])
         \/ principal.paso = Len(Guion[principal.rutina]) /\ principal' = SinRutina
  BY <1>2, PasoLleva
<1>4. principal.rutina = "bloqueo" /\ principal.paso = 3 /\ Len(Guion[principal.rutina]) = 3
  BY <1>3, OperacionesDe
<1>5. principal.pid \in Pids
  BY <1>4, RutinasSon DEF IInv, ConProceso
<1>6. semaforo' = [semaforo EXCEPT ![principal.sem].pids =
                     Append(semaforo[principal.sem].pids, principal.pid)]
  BY DEF EncolarProcesoBloqueadoASemaforo
<1>7. /\ \A t \in Semaforos \ {principal.sem} : semaforo'[t] = semaforo[t]
      /\ principal.sem \in Semaforos =>
           /\ semaforo'[principal.sem].valor = semaforo[principal.sem].valor
           /\ semaforo'[principal.sem].pids
                = Append(semaforo[principal.sem].pids, principal.pid)
  BY ONLY <1>1, <1>6 DEF TipoSemaforo
<1> QED
  BY <1>3, <1>4, <1>5, <1>7

\* A kill takes a process from the list and never touches the value.
LEMMA MatarSemaforo ==
  ASSUME IInv, NEW h \in HilosMata, Matar(h) \/ \E q \in Pids : PedirFin(h, q),
         NEW s \in Semaforos
  PROVE  /\ semaforo'[s].valor = semaforo[s].valor
         /\ semaforo'[s].pids \in Seq(Pids)
         /\ Len(semaforo'[s].pids) <= Len(semaforo[s].pids)
         /\ ACamino(principal', s) <= ACamino(principal, s)
<1>1. /\ semaforo \in [Semaforos -> TipoSemaforo] /\ semaforo[s] \in TipoSemaforo
      /\ semaforo[s].pids \in Seq(Pids)
  BY DEF IInv, TypeOK, TipoSemaforo
<1>2. ACamino(principal', s) <= ACamino(principal, s)
  <2>1. principal' = principal \/ principal'.rutina # "bloqueo"
    <3>1. CASE Matar(h)
      BY <3>1, SMTT(30) DEF Matar, MataToma, MataBuscaEspera, MataBuscaEjecucion, MataBuscaCPU,
         MataInterrumpe, MataBuscaNuevos, MataBuscaListos, MataEsperaToken,
         MataBuscaBloqueados, MataTermina, MataAcaba, SinRutina
    <3>2. ASSUME NEW q \in Pids, PedirFin(h, q)
          PROVE  principal' = principal \/ principal'.rutina # "bloqueo"
      BY <3>2, PedirFinAvisa
    <3> QED
      BY <3>1, <3>2
  <2> QED
    BY <2>1 DEF ACamino
<1>3. CASE semaforo' = semaforo
  BY <1>1, <1>2, <1>3
<1>4. CASE MataBuscaBloqueados(h)
  <2> DEFINE q == mata[h].pid
  <2>1. \/ semaforo' = semaforo
        \/ semaforo'[s] = semaforo[s]
        \/ semaforo'[s] = [semaforo[s] EXCEPT !.pids = RemoveFirst(semaforo[s].pids, q)]
    BY <1>4 DEF MataBuscaBloqueados
  <2>2. ASSUME semaforo'[s] = [semaforo[s] EXCEPT !.pids = RemoveFirst(semaforo[s].pids, q)]
        PROVE  /\ semaforo'[s].valor = semaforo[s].valor
               /\ semaforo'[s].pids = RemoveFirst(semaforo[s].pids, q)
    BY ONLY <1>1, <2>2 DEF TipoSemaforo
  <2>3. /\ RemoveFirst(semaforo[s].pids, q) \in Seq(Pids)
        /\ Len(RemoveFirst(semaforo[s].pids, q)) <= Len(semaforo[s].pids)
    <3>1. CASE Contains(semaforo[s].pids, q)
      <4>1. /\ RemoveFirst(semaforo[s].pids, q) \in Seq(Pids)
            /\ Len(RemoveFirst(semaforo[s].pids, q)) = Len(semaforo[s].pids) - 1
        BY <1>1, <3>1, QuitarPrimero
      <4> QED
        BY <1>1, <4>1
    <3>2. CASE ~Contains(semaforo[s].pids, q)
      <4>1. RemoveFirst(semaforo[s].pids, q) = semaforo[s].pids
        BY <1>1, <3>2, VecesQuitarPrimero
      <4> QED
        BY <1>1, <4>1
    <3> QED
      BY <3>1, <3>2
  <2> QED
    BY <1>1, <1>2, <1>3, <2>1, <2>2, <2>3
<1> QED
  BY <1>3, <1>4 DEF Matar, MataToma, MataBuscaEspera, MataBuscaEjecucion, MataBuscaCPU,
     MataInterrumpe, MataBuscaNuevos, MataBuscaListos, MataEsperaToken, MataTermina, PedirFin

LEMMA DeudaPagada ==
  ASSUME NEW n \in Nat, n >= 1, NEW v \in Int, NEW e \in {0, 1}, n + e <= Deuda(v)
  PROVE  n - 1 + 0 <= Deuda(v + 1)
  BY DEF Deuda

LEMMA CubreSigue ==
  ASSUME IInv, IInv', ValorCubreBloqueo, [Next]_vars
  PROVE  ValorCubreBloqueo'
<1>1. /\ semaforo \in [Semaforos -> TipoSemaforo] /\ semaforo' \in [Semaforos -> TipoSemaforo]
      /\ \A s \in Semaforos : /\ semaforo[s].valor \in Int /\ semaforo[s].pids \in Seq(Pids)
                              /\ semaforo'[s].valor \in Int /\ semaforo'[s].pids \in Seq(Pids)
                              /\ Len(semaforo[s].pids) \in Nat
  BY DEF IInv, TypeOK, TipoSemaforo
<1>2. \A s \in Semaforos :
        /\ Len(semaforo[s].pids) + ACamino(principal, s) <= Deuda(semaforo[s].valor)
        /\ ACamino(principal, s) \in {0, 1} /\ ACamino(principal', s) \in {0, 1}
  BY CubreSon DEF ACamino
<1> SUFFICES ASSUME NEW t \in Semaforos
             PROVE  Len(semaforo'[t].pids) + ACamino(principal', t) <= Deuda(semaforo'[t].valor)
  BY CubreSon
<1>3. ASSUME NEW c \in CPUs, NEW s \in Semaforos, WaitSemaforo(c, s)
      PROVE  Len(semaforo'[t].pids) + ACamino(principal', t) <= Deuda(semaforo'[t].valor)
  <2>1. /\ principal.rutina = "selector"
        /\ \A u \in Semaforos \ {s} : semaforo'[u] = semaforo[u]
        /\ semaforo'[s].valor = semaforo[s].valor - 1
        /\ semaforo'[s].pids = semaforo[s].pids
        /\ \/ /\ semaforo[s].valor <= 0 /\ principal'.rutina = "bloqueo"
              /\ principal'.sem = s
           \/ semaforo[s].valor > 0 /\ principal' = principal
    BY <1>3, PasosDeSemaforo
  <2>2. CASE t # s
    <3>1. ACamino(principal', t) = 0 /\ semaforo'[t] = semaforo[t]
      BY <2>1, <2>2 DEF ACamino
    <3> QED
      BY ONLY <1>1, <1>2, <3>1, t \in Semaforos DEF Deuda
  <2>3. CASE t = s /\ semaforo[s].valor <= 0
    <3>1. ACamino(principal', t) = 1 /\ ACamino(principal, t) = 0
      BY <1>1, <2>1, <2>3 DEF ACamino
    <3> QED
      BY ONLY <1>1, <1>2, <2>1, <2>3, <3>1, t \in Semaforos DEF Deuda
  <2>4. CASE t = s /\ semaforo[s].valor > 0
    <3>1. ACamino(principal', t) = 0 /\ ACamino(principal, t) = 0
      BY <1>1, <2>1, <2>4 DEF ACamino
    <3> QED
      BY ONLY <1>1, <1>2, <2>1, <2>4, <3>1, t \in Semaforos DEF Deuda
  <2> QED
    BY <1>1, <2>2, <2>3, <2>4
<1>4. ASSUME NEW c \in CPUs, NEW s \in Semaforos, SignalSemaforo(c, s)
      PROVE  Len(semaforo'[t].pids) + ACamino(principal', t) <= Deuda(semaforo'[t].valor)
  <2>1. /\ principal.rutina = "selector"
        /\ \A u \in Semaforos \ {s} : semaforo'[u] = semaforo[u]
        /\ semaforo'[s].valor = semaforo[s].valor + 1
        /\ \/ /\ semaforo[s].pids = <<>> /\ semaforo'[s].pids = <<>>
              /\ principal' = principal
           \/ /\ semaforo[s].pids # <<>> /\ semaforo'[s].pids = Tail(semaforo[s].pids)
              /\ principal'.rutina = "desbloqueo"
    BY <1>4, PasosDeSemaforo
  <2>2. ACamino(principal', t) = 0
    BY <2>1 DEF ACamino
  <2>3. CASE t # s
    BY <1>1, <1>2, <2>1, <2>2, <2>3 DEF ACamino
  <2>4. CASE t = s /\ semaforo[s].pids = <<>>
    BY <1>1, <2>1, <2>2, <2>4 DEF Deuda
  <2>5. CASE t = s /\ semaforo[s].pids # <<>>
    <3>1. /\ Len(Tail(semaforo[s].pids)) = Len(semaforo[s].pids) - 1
          /\ Len(Tail(semaforo[s].pids)) \in Nat
      BY <1>1, <2>5
    <3> QED
      <4>1. Len(semaforo'[t].pids) = Len(semaforo[t].pids) - 1 /\ Len(semaforo[t].pids) >= 1
        <5>1. semaforo'[s].pids = Tail(semaforo[s].pids)
          BY <2>1, <2>5
        <5>2. Len(semaforo[s].pids) \in Nat
          BY <1>1
        <5> QED
          BY ONLY <2>5, <3>1, <5>1, <5>2
      <4>2. semaforo'[t].valor = semaforo[t].valor + 1 /\ semaforo[t].valor \in Int
        BY <1>1, <2>1, <2>5
      <4>3. /\ Len(semaforo[t].pids) + ACamino(principal, t) <= Deuda(semaforo[t].valor)
            /\ ACamino(principal, t) \in {0, 1} /\ Len(semaforo[t].pids) \in Nat
        BY <1>1, <1>2
      <4> QED
        BY ONLY <2>2, <4>1, <4>2, <4>3, DeudaPagada
  <2> QED
    BY <2>3, <2>4, <2>5
<1>5. CASE EncolarProcesoBloqueadoASemaforo
  <2>1. /\ principal.rutina = "bloqueo" /\ principal'.rutina = "selector"
        /\ \A u \in Semaforos \ {principal.sem} : semaforo'[u] = semaforo[u]
        /\ principal.sem \in Semaforos =>
              /\ semaforo'[principal.sem].valor = semaforo[principal.sem].valor
              /\ semaforo'[principal.sem].pids
                   = Append(semaforo[principal.sem].pids, principal.pid)
        /\ principal.pid \in Pids
    BY <1>5, PasoASemaforo DEF SinRutina
  <2>2. ACamino(principal', t) = 0
    BY <2>1 DEF ACamino
  <2>3. CASE t # principal.sem
    <3>1. semaforo'[t] = semaforo[t]
      BY <2>1, <2>3
    <3> QED
      BY ONLY <1>1, <1>2, <2>2, <3>1, t \in Semaforos DEF Deuda
  <2>4. CASE t = principal.sem
    <3>1. Len(semaforo'[t].pids) = Len(semaforo[t].pids) + 1
      BY <1>1, <2>1, <2>4, AgregarAlFinal
    <3>2. ACamino(principal, t) = 1 /\ semaforo'[t].valor = semaforo[t].valor
      BY <2>1, <2>4 DEF ACamino
    <3> QED
      BY <1>1, <1>2, <2>2, <3>1, <3>2
  <2> QED
    BY <2>3, <2>4
<1>6. ASSUME NEW h \in HilosMata, Matar(h) \/ \E q \in Pids : PedirFin(h, q)
      PROVE  Len(semaforo'[t].pids) + ACamino(principal', t) <= Deuda(semaforo'[t].valor)
  <2>1. /\ semaforo'[t].valor = semaforo[t].valor
        /\ Len(semaforo'[t].pids) <= Len(semaforo[t].pids)
        /\ ACamino(principal', t) <= ACamino(principal, t)
    BY <1>6, MatarSemaforo
  <2>2. Len(semaforo'[t].pids) \in Nat /\ Deuda(semaforo[t].valor) \in Nat
    BY <1>1 DEF Deuda
  <2> QED
    BY <1>1, <1>2, <2>1, <2>2
<1>7. CASE SemaforosQuietos
  <2>1. semaforo' = semaforo /\ ACamino(principal', t) = ACamino(principal, t)
    BY <1>7 DEF SemaforosQuietos, ACamino
  <2> QED
    BY <1>2, <2>1
<1> QED
  BY <1>3, <1>4, <1>5, <1>6, <1>7, SemaforosAparte

\* The list of a semaphore is at most as long as its value says, whatever the
\* kills take from it (semaforosAnsisop.h, verificarPidColaSemaforos): a signal
\* that makes the value positive leaves nobody waiting.
THEOREM ColaDeSemaforoAcotada == Spec => []ValorAcotaBloqueados
<1>1. Init => ValorCubreBloqueo
  <2> SUFFICES ASSUME Init PROVE ValorCubreBloqueo
    OBVIOUS
  <2>1. \A s \in Semaforos : semaforo[s].pids = <<>> /\ semaforo[s].valor \in Int
    BY ConstantesOK DEF Init
  <2>2. principal.rutina # "bloqueo"
    BY DEF Init, SinRutina
  <2> QED
    BY <2>1, <2>2 DEF ValorCubreBloqueo, Booleano
<1>2. IInv /\ IInv' /\ ValorCubreBloqueo /\ [Next]_vars => ValorCubreBloqueo'
  BY CubreSigue
<1>3. IInv /\ ValorCubreBloqueo => ValorAcotaBloqueados
  <2> SUFFICES ASSUME IInv, ValorCubreBloqueo, NEW s \in Semaforos
               PROVE  Len(semaforo[s].pids) <= Deuda(semaforo[s].valor)
    BY DEF ValorAcotaBloqueados, Deuda
  <2>1. semaforo[s].valor \in Int /\ Len(semaforo[s].pids) \in Nat
    BY DEF IInv, TypeOK, TipoSemaforo
  <2>2. Len(semaforo[s].pids) + ACamino(principal, s) <= Deuda(semaforo[s].valor)
    BY CubreSon
  <2>3. ACamino(principal, s) \in {0, 1}
    BY DEF ACamino
  <2> QED
    BY ONLY <2>1, <2>2, <2>3 DEF Deuda
<1> QED
  BY <1>1, <1>2, <1>3, Invariante, PTL DEF Spec

-----------------------------------------------------------------------------
(* listaEspera, while the planning is never paused                         *)

\* Outside administrarFinProcesos: whoever adds to listaEspera posts.
EsperaCubierta ==
  /\ flagPlanificacion' = flagPlanificacion /\ fin' = fin /\ mutex'.espera = mutex.espera
  /\ \/ Len(cola'.espera) <= Len(cola.espera) /\ sem'.fin >= sem.fin
     \/ Len(cola'.espera) = Len(cola.espera) + 1 /\ sem'.fin = sem.fin + 1

LEMMA EsperaAparte ==
  ASSUME IInv, ~PausaPermitida, [Next]_vars, ~FinProcesos
  PROVE  EsperaCubierta
<1>1. /\ cola \in TipoCola /\ mutex \in TipoMutex /\ cola.espera \in Seq(Pids)
      /\ Len(cola.espera) \in Nat /\ sem.fin \in Nat
  BY FichasSon DEF IInv, TypeOK, TipoCola
<1>2. ASSUME UNCHANGED <<flagPlanificacion, fin>>, mutex'.espera = mutex.espera,
             cola'.espera = cola.espera,
             sem' = sem \/ (\E ss : Postear(ss)) \/ (\E s \in {"admitir", "listo", "cpu", "planif"} : Wait(s))
      PROVE  EsperaCubierta
  <2>1. sem'.fin >= sem.fin
    BY <1>1, <1>2, FichasPuestas, FichaTomada DEF Dentro, Uno
  <2> QED
    BY <1>1, <1>2, <2>1 DEF EsperaCubierta
<1>3. ASSUME UNCHANGED <<flagPlanificacion, fin>>, mutex'.espera = mutex.espera, NEW p \in Pids,
             cola' = [cola EXCEPT !.espera = Append(cola.espera, p)], Postear({"fin"})
      PROVE  EsperaCubierta
  <2>1. sem'.fin = sem.fin + 1
    BY <1>3, FichasPuestas DEF Dentro
  <2>2. Len(cola'.espera) = Len(cola.espera) + 1
    BY <1>1, <1>3, AgregarAlFinal DEF TipoCola
  <2> QED
    BY <1>3, <2>1, <2>2 DEF EsperaCubierta
<1>4. ASSUME NEW c \in CPUs, MensajeCPU(c) \/ SignalCPU(c)
      PROVE  EsperaCubierta
  <2>1. UNCHANGED <<flagPlanificacion, fin, mutex>>
    BY <1>4 DEF MensajeCPU, GestionarNuevaCPU, FinProceso, FinQuantum, ProcesoExpropiado,
       Excepcion, WaitSemaforo, SignalSemaforo, VerificarInterrupciones, GestionarCierreCpu,
       SignalCPU, DejarYRemover, DejarCPU, hilos
  <2>2. sem' = sem \/ Postear({"cpu"})
    BY <1>4 DEF MensajeCPU, GestionarNuevaCPU, FinProceso, FinQuantum, ProcesoExpropiado,
       Excepcion, WaitSemaforo, SignalSemaforo, VerificarInterrupciones, GestionarCierreCpu,
       SignalCPU, DejarYRemover, DejarCPU
  <2>3. cola'.espera = cola.espera
    BY <1>1, <1>4 DEF MensajeCPU, GestionarNuevaCPU, FinProceso, FinQuantum, ProcesoExpropiado,
       Excepcion, WaitSemaforo, SignalSemaforo, VerificarInterrupciones, GestionarCierreCpu,
       SignalCPU, DejarYRemover, TipoCola
  <2> QED
    BY <1>2, <2>1, <2>2, <2>3
<1>5. CASE OperacionPrincipal
  <2>1. UNCHANGED <<flagPlanificacion, fin, mutex>>
    BY <1>5 DEF OperacionPrincipal, EncolarCodigo, CambiarEstadoCpu, RemoverDeColaEjecucion,
       EncolarEspera, EncolarListo, EncolarBloqueado, EncolarProcesoBloqueadoASemaforo,
       DesbloquearProceso, DevolverSemaforo, QuitarInterrupcion, AjenoAlPrincipal
  <2>2. CASE EncolarEspera
    <3>1. principal.pid \in Pids
      <4>1. Paso("aEspera") /\ "aEspera" # "ninguna"
        BY <2>2 DEF EncolarEspera
      <4>2. /\ principal.rutina \in Rutinas /\ principal.paso \in 1..Len(Guion[principal.rutina])
            /\ "aEspera" = Guion[principal.rutina][principal.paso]
        BY <4>1, PasoLleva
      <4>3. principal.rutina # "desbloqueo"
        BY <4>2, RutinasSon
      <4> QED
        BY <4>2, <4>3 DEF IInv, ConProceso
    <3> QED
      BY <1>3, <2>1, <2>2, <3>1 DEF EncolarEspera
  <2>3. CASE ~EncolarEspera
    <3>1. sem' = sem \/ \E ss : Postear(ss)
      BY <1>5, <2>3 DEF OperacionPrincipal, EncolarCodigo, CambiarEstadoCpu,
         RemoverDeColaEjecucion, EncolarListo, EncolarBloqueado,
         EncolarProcesoBloqueadoASemaforo, DesbloquearProceso, DevolverSemaforo,
         QuitarInterrupcion
    <3>2. cola'.espera = cola.espera
      BY <1>1, <1>5, <2>3 DEF OperacionPrincipal, EncolarCodigo, CambiarEstadoCpu,
         RemoverDeColaEjecucion, EncolarListo, EncolarBloqueado,
         EncolarProcesoBloqueadoASemaforo, DesbloquearProceso, DevolverSemaforo,
         QuitarInterrupcion, TipoCola
    <3> QED
      BY <1>2, <2>1, <3>1, <3>2
  <2> QED
    BY <2>2, <2>3
<1>6. CASE GestionarNuevoPrograma
  <2>1. UNCHANGED <<flagPlanificacion, fin, mutex, sem>> /\ cola'.espera = cola.espera
    BY <1>1, <1>6 DEF GestionarNuevoPrograma, TipoCola
  <2> QED
    BY <1>2, <2>1
<1>7. CASE CortoPlazo
  <2>1. UNCHANGED <<flagPlanificacion, fin, mutex>>
    BY <1>7 DEF CortoPlazo, CortoVerificaPausa, CortoEsperaReanudar, CortoEsperaCPU,
       CortoEsperaListo, SacarListo, MirarOciosas, EnviarPcb, RegistrarEjecucion,
       DevolverAListos, AjenoAlCorto
  <2>2. sem' = sem \/ Wait("planif") \/ Wait("cpu") \/ Wait("listo") \/ Postear({"listo"})
    BY <1>7 DEF CortoPlazo, CortoVerificaPausa, CortoEsperaReanudar, CortoEsperaCPU,
       CortoEsperaListo, SacarListo, MirarOciosas, EnviarPcb, RegistrarEjecucion,
       DevolverAListos
  <2>3. cola'.espera = cola.espera
    BY <1>1, <1>7 DEF CortoPlazo, CortoVerificaPausa, CortoEsperaReanudar, CortoEsperaCPU,
       CortoEsperaListo, SacarListo, MirarOciosas, EnviarPcb, RegistrarEjecucion,
       DevolverAListos, TipoCola
  <2> QED
    BY <1>2, <2>1, <2>2, <2>3
<1>8. CASE LargoPlazo
  <2>1. UNCHANGED <<flagPlanificacion, fin>>
    BY <1>8 DEF LargoPlazo, LargoVerificaPausa, LargoEsperaReanudar, LargoEsperaAdmitir,
       SacarNuevo, CrearProceso, AumentarGrado, RechazarProceso, AjenoAlLargo
  <2>2. mutex'.espera = mutex.espera
    BY <1>1, <1>8 DEF LargoPlazo, LargoVerificaPausa, LargoEsperaReanudar, LargoEsperaAdmitir,
       SacarNuevo, CrearProceso, AumentarGrado, RechazarProceso, LargoAcaba, TipoMutex
  <2>3. CASE RechazarProceso
    <3>1. largo.pid \in Pids
      BY <2>3 DEF RechazarProceso, IInv, ConProceso
    <3> QED
      BY <1>3, <2>1, <2>2, <2>3, <3>1 DEF RechazarProceso
  <2>4. CASE ~RechazarProceso
    <3>1. sem' = sem \/ Wait("planif") \/ Wait("admitir") \/ Postear({"listo"})
      BY <1>8, <2>4 DEF LargoPlazo, LargoVerificaPausa, LargoEsperaReanudar,
         LargoEsperaAdmitir, SacarNuevo, CrearProceso, AumentarGrado
    <3>2. cola'.espera = cola.espera
      BY <1>1, <1>8, <2>4 DEF LargoPlazo, LargoVerificaPausa, LargoEsperaReanudar,
         LargoEsperaAdmitir, SacarNuevo, CrearProceso, AumentarGrado, TipoCola
    <3> QED
      BY <1>2, <2>1, <2>2, <3>1, <3>2
  <2> QED
    BY <2>3, <2>4
<1>9. CASE Usuario
  <2>1. /\ UNCHANGED <<flagPlanificacion, fin, cola>> /\ sem'.fin = sem.fin
        /\ mutex'.espera = mutex.espera
    <3>1. sem'.fin = sem.fin
      BY <1>9, FichaTomada, FichasPuestas DEF Usuario, Pausar, PausarEspera, Reanudar,
         PostPlanificacion, PedirGrado, ModificarGrado, IInv, TypeOK, TipoSem, Uno, Dentro
    <3>2. mutex'.espera = mutex.espera
      BY <1>1, <1>9 DEF Usuario, Pausar, PausarEspera, Reanudar, PostPlanificacion,
         PedirGrado, ModificarGrado, TipoMutex
    <3> QED
      BY <1>9, <3>1, <3>2 DEF Usuario, Pausar, PausarEspera, Reanudar, PostPlanificacion,
         PedirGrado, ModificarGrado, AjenoAlUsuario
  <2> QED
    BY <1>1, <2>1 DEF EsperaCubierta
<1>10. CASE UNCHANGED vars
  BY <1>2, <1>10 DEF vars
<1>11. ASSUME NEW h \in HilosMata, Matar(h) \/ \E q \in Pids : PedirFin(h, q)
       PROVE  EsperaCubierta
  <2>1. UNCHANGED <<flagPlanificacion, fin>>
    BY <1>11 DEF Matar, MataToma, MataBuscaEspera, MataBuscaEjecucion, MataBuscaCPU,
       MataInterrumpe, MataBuscaNuevos, MataBuscaListos, MataEsperaToken, MataBuscaBloqueados,
       MataTermina, PedirFin, AjenoAMata
  <2>2. mutex'.espera = mutex.espera
    BY <1>1, <1>11 DEF Matar, MataToma, MataBuscaEspera, MataBuscaEjecucion, MataBuscaCPU,
       MataInterrumpe, MataBuscaNuevos, MataBuscaListos, DejarListos, MataEsperaToken,
       MataBuscaBloqueados, MataTermina, MataAcaba, PedirFin, TipoMutex
  <2>3. CASE MataBuscaEspera(h)
    <3>1. cola' = cola \/ /\ Contains(cola.espera, mata[h].pid)
                          /\ cola' = [cola EXCEPT !.espera = RemoveFirst(cola.espera, mata[h].pid)]
      BY <2>3 DEF MataBuscaEspera
    <3>2. Len(cola'.espera) <= Len(cola.espera)
      <4>1. ASSUME Contains(cola.espera, mata[h].pid),
                   cola' = [cola EXCEPT !.espera = RemoveFirst(cola.espera, mata[h].pid)]
            PROVE  Len(cola'.espera) <= Len(cola.espera)
        <5>1. cola'.espera = RemoveFirst(cola.espera, mata[h].pid)
          BY <1>1, <4>1 DEF TipoCola
        <5> QED
          BY <1>1, <4>1, <5>1, QuitarPrimero
      <4> QED
        BY <1>1, <3>1, <4>1
    <3>3. sem' = sem
      BY <2>3 DEF MataBuscaEspera
    <3> QED
      BY <1>1, <2>1, <2>2, <3>2, <3>3 DEF EsperaCubierta
  <2>4. CASE ~MataBuscaEspera(h)
    <3>1. sem' = sem \/ Wait("listo") \/ Postear({"admitir"})
      BY <1>11, <2>4 DEF Matar, MataToma, MataBuscaEjecucion, MataBuscaCPU, MataInterrumpe,
         MataBuscaNuevos, MataBuscaListos, MataEsperaToken, MataBuscaBloqueados, MataTermina,
         Terminar, PedirFin
    <3>2. cola'.espera = cola.espera
      BY <1>1, <1>11, <2>4 DEF Matar, MataToma, MataBuscaEjecucion, MataBuscaCPU,
         MataInterrumpe, MataBuscaNuevos, MataBuscaListos, DejarListos, MataEsperaToken,
         MataBuscaBloqueados, MataTermina, Terminar, PedirFin, TipoCola
    <3> QED
      BY <1>2, <2>1, <2>2, <3>1, <3>2
  <2> QED
    BY <2>3, <2>4
<1> QED
  BY <1>4, <1>5, <1>6, <1>7, <1>8, <1>9, <1>10, <1>11 DEF Next, Vivir, Reposo, Caido

\* A round of the thread takes what it took the token for.
Ronda(f) == IF f.paso = "mutex" \/ (f.paso = "recorrer" /\ f.indice = 0) THEN 1 ELSE 0

LEMMA EsperaEs ==
  /\ EsperaContada <=>
       /\ flagPlanificacion /\ (mutex.espera = "fin" <=> fin.paso \in {"recorrer", "terminar"})
       /\ Len(cola.espera) <= sem.fin + Ronda(fin)
  /\ EsperaContada' <=>
       /\ flagPlanificacion' /\ (mutex'.espera = "fin" <=> fin'.paso \in {"recorrer", "terminar"})
       /\ Len(cola'.espera) <= sem'.fin + Ronda(fin')
<1>1. /\ Booleano(fin.paso = "mutex" \/ (fin.paso = "recorrer" /\ fin.indice = 0)) = Ronda(fin)
      /\ Booleano(fin'.paso = "mutex" \/ (fin'.paso = "recorrer" /\ fin'.indice = 0)) = Ronda(fin')
  BY DEF Booleano, Ronda
<1> QED
  BY <1>1 DEF EsperaContada

LEMMA EsperaSigue ==
  ASSUME IInv, IInv', ~PausaPermitida, EsperaContada, [Next]_vars
  PROVE  EsperaContada'
<1>1. /\ cola \in TipoCola /\ mutex \in TipoMutex /\ cola.espera \in Seq(Pids) /\ fin \in TipoFin
      /\ Len(cola.espera) \in Nat /\ sem.fin \in Nat /\ Ronda(fin) \in {0, 1}
      /\ Len(cola'.espera) \in Nat /\ sem'.fin \in Nat /\ Ronda(fin') \in {0, 1}
      /\ fin.indice \in Nat
  <2>1. /\ cola \in TipoCola /\ mutex \in TipoMutex /\ cola.espera \in Seq(Pids)
        /\ fin \in TipoFin /\ fin.indice \in Nat
    BY DEF IInv, TypeOK, TipoCola, TipoFin
  <2>2. cola'.espera \in Seq(Pids) /\ sem'.fin \in Nat
    BY DEF IInv, TypeOK, TipoCola, TipoSem
  <2>3. Ronda(fin) \in {0, 1} /\ Ronda(fin') \in {0, 1}
    BY DEF Ronda
  <2> QED
    BY <2>1, <2>2, <2>3, FichasSon
<1>2. /\ flagPlanificacion /\ (mutex.espera = "fin" <=> fin.paso \in {"recorrer", "terminar"})
      /\ Len(cola.espera) <= sem.fin + Ronda(fin)
  BY EsperaEs
<1>3. CASE ~FinProcesos
  <2>1. EsperaCubierta
    BY <1>3, EsperaAparte
  <2>2. /\ flagPlanificacion' = flagPlanificacion /\ fin' = fin /\ mutex'.espera = mutex.espera
        /\ Ronda(fin') = Ronda(fin)
    BY <2>1 DEF EsperaCubierta, Ronda
  <2>3. Len(cola'.espera) <= sem'.fin + Ronda(fin')
    <3>1. CASE Len(cola'.espera) <= Len(cola.espera) /\ sem'.fin >= sem.fin
      <4>1. sem.fin + Ronda(fin) <= sem'.fin + Ronda(fin')
        BY <1>1, <2>2, <3>1
      <4>2. /\ Len(cola'.espera) <= Len(cola.espera) /\ Len(cola.espera) <= sem.fin + Ronda(fin)
            /\ sem.fin + Ronda(fin) \in Nat /\ sem'.fin + Ronda(fin') \in Nat
            /\ Len(cola.espera) \in Nat /\ Len(cola'.espera) \in Nat
        BY <1>1, <1>2, <3>1
      <4> QED
        BY ONLY <4>1, <4>2
    <3>2. CASE Len(cola'.espera) = Len(cola.espera) + 1 /\ sem'.fin = sem.fin + 1
      BY ONLY <1>1, <1>2, <2>2, <3>2
    <3> QED
      BY <2>1, <3>1, <3>2 DEF EsperaCubierta
  <2> QED
    BY <1>2, <2>2, <2>3, EsperaEs
<1>4. CASE FinEspera
  <2>1. /\ sem'.fin = sem.fin - 1 /\ fin.paso = "esperar" /\ fin'.paso = "mutex"
        /\ UNCHANGED <<flagPlanificacion, mutex, cola>>
    BY <1>1, <1>2, <1>4, FichaTomada DEF FinEspera, AjenoAlFin, TipoFin, Uno
  <2> QED
    BY <1>1, <1>2, <2>1, EsperaEs DEF Ronda
<1>5. CASE FinTomaEspera
  <2>1. /\ fin.paso = "mutex" /\ fin'.paso = "recorrer" /\ fin'.indice = 0
        /\ mutex'.espera = "fin" /\ UNCHANGED <<flagPlanificacion, sem, cola>>
    BY <1>1, <1>5 DEF FinTomaEspera, AjenoAlFin, TipoFin, TipoMutex
  <2> QED
    BY <1>1, <1>2, <2>1, EsperaEs DEF Ronda
<1>6. CASE FinSaca
  <2>1. /\ fin.paso = "recorrer" /\ fin'.paso = "terminar" /\ fin.indice + 1 \in 1..Len(cola.espera)
        /\ cola'.espera = RemoveAt(cola.espera, fin.indice + 1)
        /\ UNCHANGED <<flagPlanificacion, sem, mutex>>
    BY <1>1, <1>6 DEF FinSaca, AjenoAlFin, TipoFin, TipoCola
  <2>2. Len(cola'.espera) = Len(cola.espera) - 1
    BY <1>1, <2>1, QuitarLugar
  <2> QED
    BY <1>1, <1>2, <2>1, <2>2, EsperaEs DEF Ronda
<1>7. CASE FinTermina
  <2>1. CASE ConTabla(fin.pid)
    <3>1. /\ fin.paso = "terminar" /\ fin'.paso = "recorrer" /\ fin'.indice = fin.indice + 1
          /\ cola'.espera = cola.espera /\ UNCHANGED <<flagPlanificacion, mutex>>
          /\ Postear({"admitir"})
      BY <1>1, <1>7, <2>1 DEF FinTermina, Terminar, AjenoAlFin, TipoCola
    <3>2. sem'.fin = sem.fin
      BY <1>1, <3>1, FichasPuestas DEF Dentro
    <3> QED
      BY <1>1, <1>2, <3>1, <3>2, EsperaEs DEF Ronda
  <2>2. CASE ~ConTabla(fin.pid)
    <3>1. UNCHANGED <<fin, cola, sem, flagPlanificacion, mutex>>
      BY <1>7, <2>2 DEF FinTermina, AjenoAlFin
    <3> QED
      BY <1>1, <1>2, <3>1, EsperaEs
  <2> QED
    BY <2>1, <2>2
<1>8. CASE FinSueltaEspera
  <2>1. /\ fin.paso = "recorrer" /\ fin.indice >= Len(cola.espera) /\ fin'.paso = "esperar"
        /\ mutex'.espera = "libre" /\ UNCHANGED <<flagPlanificacion, sem, cola>>
    BY <1>1, <1>8 DEF FinSueltaEspera, AjenoAlFin, TipoFin, TipoMutex
  <2> QED
    BY <1>1, <1>2, <2>1, EsperaEs DEF Ronda
<1> QED
  BY <1>3, <1>4, <1>5, <1>6, <1>7, <1>8 DEF FinProcesos

\* While the user never pauses the planning, a process in listaEspera has a post
\* of sem_administrarFinProceso or a round of administrarFinProcesos ahead of it,
\* although a round that starts takes every second entry only.
THEOREM EsperaSinPausas ==
  ASSUME ~PausaPermitida
  PROVE  Spec => []EsperaAtendida
<1>1. Init => EsperaContada
  BY DEF Init, EsperaContada, Booleano
<1>2. IInv /\ IInv' /\ EsperaContada /\ [Next]_vars => EsperaContada'
  BY EsperaSigue
<1>3. IInv /\ EsperaContada => EsperaAtendida
  <2> SUFFICES ASSUME IInv, EsperaContada, cola.espera # <<>>, fin.paso = "esperar"
               PROVE  sem.fin > 0
    BY DEF EsperaAtendida
  <2>1. cola.espera \in Seq(Pids) /\ sem.fin \in Nat
    BY FichasSon DEF IInv, TypeOK, TipoCola
  <2>2. Len(cola.espera) \in Nat /\ Len(cola.espera) # 0
    BY <2>1, EmptySeq
  <2>3. Len(cola.espera) <= sem.fin + 0
    BY EsperaEs DEF Ronda
  <2> QED
    BY ONLY <2>1, <2>2, <2>3
<1> QED
  BY <1>1, <1>2, <1>3, Invariante, PTL DEF Spec

-----------------------------------------------------------------------------
(* sem_CPU, while no CPU closes                                            *)

\* A CPU that never closes: its entry stays in listaCPU.
Abierta(r, k) ==
  /\ r.cerrando = FALSE /\ r.fase \notin {"saliendo", "cerrada"}
  /\ k.estado = "EJECUTANDO" => k.alta = TRUE

SinCierres ==
  /\ principal.rutina # "finQuantumCierre"
  /\ \A c \in CPUs : Abierta(remoto[c], cpu[c])

LEMMA SoloSuCierre ==
  ASSUME IInv, [Next]_vars, \A c \in CPUs : ~FinQuantum(c),
         principal.rutina # "finQuantumCierre"
  PROVE  principal'.rutina # "finQuantumCierre"
<1>1. CASE OperacionPrincipal
  <2>1. CASE DesbloquearProceso
    BY <1>1, <2>1 DEF DesbloquearProceso, IInv, TypeOK, TipoPrincipal
  <2>2. CASE ~DesbloquearProceso
    <3>1. PICK op \in {"aCodigos", "ociosa", "removerEjec", "aEspera", "aListos", "aBloqueados",
                       "aSemaforo", "devolverSem", "desinterrumpir"} : Paso(op)
      BY <1>1, <2>2 DEF OperacionPrincipal, EncolarCodigo, CambiarEstadoCpu,
         RemoverDeColaEjecucion, EncolarEspera, EncolarListo, EncolarBloqueado,
         EncolarProcesoBloqueadoASemaforo, DevolverSemaforo, QuitarInterrupcion
    <3>2. op # "ninguna"
      OBVIOUS
    <3> QED
      BY <3>1, <3>2, PasoLleva DEF SinRutina
  <2> QED
    BY <2>1, <2>2
<1>2. ASSUME NEW c \in CPUs, MensajeCPU(c) \/ SignalCPU(c)
      PROVE  principal'.rutina # "finQuantumCierre"
  <2>1. ASSUME NEW s \in Semaforos, WaitSemaforo(c, s) \/ SignalSemaforo(c, s)
        PROVE  principal'.rutina # "finQuantumCierre"
    BY <2>1 DEF WaitSemaforo, SignalSemaforo, DejarYRemover, DejarCPU, Atender, hilos
  <2> QED
    BY <1>2, <2>1 DEF MensajeCPU, GestionarNuevaCPU, FinProceso, ProcesoExpropiado, Excepcion,
       VerificarInterrupciones, GestionarCierreCpu, SignalCPU, DejarYRemover, DejarCPU, Atender,
       hilos
<1>3. CASE GestionarNuevoPrograma
  BY <1>3 DEF GestionarNuevoPrograma, Atender
<1>4. ASSUME NEW h \in HilosMata, Matar(h)
      PROVE  principal'.rutina # "finQuantumCierre"
  BY <1>4 DEF Matar, MataToma, MataBuscaEspera, MataBuscaEjecucion, MataBuscaCPU,
     MataInterrumpe, MataBuscaNuevos, MataBuscaListos, MataEsperaToken, MataBuscaBloqueados,
     MataTermina, MataAcaba, SinRutina
<1>5. ASSUME NEW h \in HilosMata, NEW q \in Pids, PedirFin(h, q)
      PROVE  principal'.rutina # "finQuantumCierre"
  BY <1>5, PedirFinAvisa
<1>6. CASE CortoPlazo
  BY <1>6 DEF CortoPlazo, CortoVerificaPausa, CortoEsperaReanudar, CortoEsperaCPU,
     CortoEsperaListo, SacarListo, MirarOciosas, EnviarPcb, RegistrarEjecucion,
     DevolverAListos, AjenoAlCorto
<1>7. CASE LargoPlazo
  BY <1>7 DEF LargoPlazo, LargoVerificaPausa, LargoEsperaReanudar, LargoEsperaAdmitir,
     SacarNuevo, CrearProceso, AumentarGrado, RechazarProceso, AjenoAlLargo
<1>8. CASE FinProcesos \/ Usuario \/ UNCHANGED vars
  BY <1>8 DEF FinProcesos, FinEspera, FinTomaEspera, FinSaca, FinTermina, FinSueltaEspera,
     AjenoAlFin, Usuario, Pausar, PausarEspera, Reanudar, PostPlanificacion, PedirGrado,
     ModificarGrado, AjenoAlUsuario, vars
<1> QED
  BY <1>1, <1>2, <1>3, <1>4, <1>5, <1>6, <1>7, <1>8 DEF Next, Vivir, Reposo, Caido

\* Only these steps touch a CPU or its entry.
LEMMA CPUsAparte ==
  ASSUME [Next]_vars, ~CambiarEstadoCpu, ~EnviarPcb,
         \A c \in CPUs : ~MensajeCPU(c) /\ ~SignalCPU(c)
  PROVE  UNCHANGED <<cpu, remoto>>
<1>1. CASE OperacionPrincipal
  BY <1>1 DEF OperacionPrincipal, EncolarCodigo, RemoverDeColaEjecucion,
     EncolarEspera, EncolarListo, EncolarBloqueado, EncolarProcesoBloqueadoASemaforo,
     DesbloquearProceso, DevolverSemaforo, QuitarInterrupcion, AjenoAlPrincipal
<1>2. CASE GestionarNuevoPrograma
  BY <1>2 DEF GestionarNuevoPrograma
<1>3. CASE CortoPlazo
  BY <1>3 DEF CortoPlazo, CortoVerificaPausa, CortoEsperaReanudar, CortoEsperaCPU,
     CortoEsperaListo, SacarListo, MirarOciosas, RegistrarEjecucion, DevolverAListos
<1>4. CASE LargoPlazo
  BY <1>4 DEF LargoPlazo, LargoVerificaPausa, LargoEsperaReanudar, LargoEsperaAdmitir,
     SacarNuevo, CrearProceso, AumentarGrado, RechazarProceso, AjenoAlLargo
<1>5. CASE FinProcesos \/ Usuario \/ UNCHANGED vars
  BY <1>5 DEF FinProcesos, FinEspera, FinTomaEspera, FinSaca, FinTermina, FinSueltaEspera,
     AjenoAlFin, Usuario, Pausar, PausarEspera, Reanudar, PostPlanificacion, PedirGrado,
     ModificarGrado, AjenoAlUsuario, vars
<1>6. ASSUME NEW h \in HilosMata, Matar(h) \/ \E q \in Pids : PedirFin(h, q)
      PROVE  UNCHANGED <<cpu, remoto>>
  BY <1>6 DEF Matar, MataToma, MataBuscaEspera, MataBuscaEjecucion, MataBuscaCPU,
     MataInterrumpe, MataBuscaNuevos, MataBuscaListos, MataEsperaToken, MataBuscaBloqueados,
     MataTermina, PedirFin, AjenoAMata
<1> QED
  BY <1>1, <1>2, <1>3, <1>4, <1>5, <1>6 DEF Next, Vivir, Reposo, Caido

LEMMA AbiertaUna ==
  ASSUME \A d \in CPUs : Abierta(remoto[d], cpu[d]), NEW c \in CPUs,
         \A d \in CPUs \ {c} : remoto'[d] = remoto[d] /\ cpu'[d] = cpu[d],
         Abierta(remoto'[c], cpu'[c])
  PROVE  \A d \in CPUs : Abierta(remoto'[d], cpu'[d])
  OBVIOUS

\* Without a CPU that may get SIGINT or SIGUSR1 none closes.
LEMMA SinCierresSiguen ==
  ASSUME IInv, IInv', CpuOciosaVacia, Cerrables = {}, SinCierres, [Next]_vars
  PROVE  SinCierres'
<1>1. /\ remoto \in [CPUs -> TipoRemoto] /\ cpu \in [CPUs -> TipoCpu]
      /\ \A d \in CPUs : Abierta(remoto[d], cpu[d])
      /\ \A d \in CPUs : CpuVacia(remoto[d], cpu[d])
      /\ principal.rutina # "finQuantumCierre"
  BY CpuOciosaSon DEF IInv, TypeOK, SinCierres
<1>2. ASSUME principal'.rutina # "finQuantumCierre",
             \A d \in CPUs : Abierta(remoto'[d], cpu'[d])
      PROVE  SinCierres'
  BY <1>2 DEF SinCierres
<1>3. ASSUME NEW c \in CPUs, NEW f, remoto' = [remoto EXCEPT ![c].fase = f],
             f \notin {"saliendo", "cerrada"}, cpu' = cpu
      PROVE  \A d \in CPUs : Abierta(remoto'[d], cpu'[d])
  <2>1. /\ \A d \in CPUs \ {c} : remoto'[d] = remoto[d] /\ cpu'[d] = cpu[d]
        /\ remoto'[c].cerrando = remoto[c].cerrando /\ remoto'[c].fase = f
        /\ cpu'[c] = cpu[c]
    BY <1>1, <1>3 DEF TipoRemoto
  <2>2. Abierta(remoto'[c], cpu'[c])
    BY <1>1, <1>3, <2>1 DEF Abierta
  <2> QED
    BY <1>1, <2>1, <2>2, AbiertaUna
<1>4. ASSUME NEW c \in CPUs, remoto' = [remoto EXCEPT ![c] = Desocupada(remoto[c])],
             \A d \in CPUs \ {c} : cpu'[d] = cpu[d],
             cpu'[c] = cpu[c] \/ cpu'[c].estado = "OCIOSA"
      PROVE  \A d \in CPUs : Abierta(remoto'[d], cpu'[d])
  <2>1. /\ \A d \in CPUs \ {c} : remoto'[d] = remoto[d] /\ cpu'[d] = cpu[d]
        /\ remoto'[c] = Desocupada(remoto[c]) /\ remoto[c] \in TipoRemoto
        /\ remoto[c].cerrando = FALSE
    BY <1>1, <1>4 DEF Abierta
  <2>2. remoto'[c].cerrando = FALSE /\ remoto'[c].fase = "libre"
    BY <2>1 DEF Desocupada, TipoRemoto
  <2>3. Abierta(remoto'[c], cpu'[c])
    BY <1>1, <1>4, <2>2 DEF Abierta
  <2> QED
    BY <1>1, <2>1, <2>3, AbiertaUna
<1>5. ASSUME NEW c \in CPUs, FinQuantum(c)
      PROVE  SinCierres'
  <2>1. remoto[c].cerrando = FALSE
    BY <1>1 DEF Abierta
  <2>2. DejarCPU(c, {"finQuantum"}, "finQuantum", "ninguno")
    BY <1>5, <2>1 DEF FinQuantum
  <2>3. /\ remoto' = [remoto EXCEPT ![c] = Desocupada(remoto[c])]
        /\ principal'.rutina = "finQuantum"
    BY <2>2 DEF DejarCPU, Atender
  <2>4. (\A d \in CPUs \ {c} : cpu'[d] = cpu[d]) /\ cpu'[c].estado = "OCIOSA"
    BY <1>1, <1>5 DEF FinQuantum, TipoCpu
  <2> QED
    BY <1>2, <1>4, <2>3, <2>4
<1>6. ASSUME \A c \in CPUs : ~FinQuantum(c),
             \A d \in CPUs : Abierta(remoto'[d], cpu'[d])
      PROVE  SinCierres'
  BY <1>1, <1>2, <1>6, SoloSuCierre
<1>7. ASSUME NEW c \in CPUs, MensajeCPU(c) \/ SignalCPU(c), ~FinQuantum(c)
      PROVE  \A d \in CPUs : Abierta(remoto'[d], cpu'[d])
  <2>1. CASE GestionarNuevaCPU(c)
    <3>1. /\ \A d \in CPUs \ {c} : remoto'[d] = remoto[d] /\ cpu'[d] = cpu[d]
          /\ remoto'[c].cerrando = remoto[c].cerrando /\ remoto'[c].fase = "libre"
          /\ cpu'[c].estado = "OCIOSA"
      BY <1>1, <2>1 DEF GestionarNuevaCPU, TipoRemoto
    <3>2. Abierta(remoto'[c], cpu'[c])
      BY <1>1, <3>1 DEF Abierta
    <3> QED
      BY <1>1, <3>1, <3>2, AbiertaUna
  <2>2. CASE FinProceso(c) \/ ProcesoExpropiado(c) \/ (\E r \in {"excepcion", "stackOverflow"} : Excepcion(c, r))
    <3>1. remoto' = [remoto EXCEPT ![c] = Desocupada(remoto[c])] /\ cpu' = cpu
      BY <2>2 DEF FinProceso, ProcesoExpropiado, Excepcion, DejarYRemover, DejarCPU
    <3> QED
      BY <1>4, <3>1
  <2>3. ASSUME NEW s \in Semaforos, WaitSemaforo(c, s)
        PROVE  \A d \in CPUs : Abierta(remoto'[d], cpu'[d])
    <3>1. /\ cpu' = cpu
          /\ \/ remoto' = [remoto EXCEPT ![c] = Desocupada(remoto[c])]
             \/ remoto' = [remoto EXCEPT ![c].fase = "consulta"]
      BY <2>3 DEF WaitSemaforo, DejarYRemover, DejarCPU
    <3> QED
      BY <1>3, <1>4, <3>1
  <2>4. ASSUME NEW s \in Semaforos, SignalSemaforo(c, s)
        PROVE  \A d \in CPUs : Abierta(remoto'[d], cpu'[d])
    <3>1. cpu' = cpu /\ remoto' = [remoto EXCEPT ![c].fase = "consulta"]
      BY <2>4 DEF SignalSemaforo
    <3>2. "consulta" \notin {"saliendo", "cerrada"}
      OBVIOUS
    <3> QED
      BY <1>3, <3>1, <3>2
  <2>5. CASE VerificarInterrupciones(c)
    <3>1. PICK f \in {"expropiada", "ejecuta", "finQuantum"} :
            remoto' = [remoto EXCEPT ![c].fase = f]
      BY <2>5 DEF VerificarInterrupciones
    <3>2. cpu' = cpu
      BY <2>5 DEF VerificarInterrupciones
    <3> QED
      BY <1>3, <3>1, <3>2
  <2>6. ~GestionarCierreCpu(c) /\ ~SignalCPU(c)
    BY <1>1 DEF GestionarCierreCpu, SignalCPU, Abierta
  <2> QED
    BY <1>7, <2>1, <2>2, <2>3, <2>4, <2>5, <2>6 DEF MensajeCPU
<1>8. ASSUME CambiarEstadoCpu
      PROVE  \A d \in CPUs : Abierta(remoto'[d], cpu'[d])
  <2>1. \A d \in CPUs : /\ remoto'[d] = remoto[d]
                        /\ cpu'[d] = cpu[d] \/ cpu'[d].estado = "OCIOSA"
    BY <1>1, <1>8 DEF CambiarEstadoCpu, AjenoAlPrincipal, TipoCpu
  <2>2. ASSUME NEW d \in CPUs PROVE Abierta(remoto'[d], cpu'[d])
    <3>1. Abierta(remoto[d], cpu[d])
      BY <1>1
    <3>2. CASE cpu'[d] = cpu[d]
      BY <2>1, <3>1, <3>2
    <3>3. CASE cpu'[d].estado = "OCIOSA"
      <4>1. cpu'[d].estado # "EJECUTANDO" /\ remoto'[d] = remoto[d]
        BY <2>1, <3>3
      <4> QED
        BY <3>1, <4>1 DEF Abierta
    <3> QED
      BY <2>1, <3>2, <3>3
  <2> QED
    BY <2>2
<1>9. ASSUME UNCHANGED <<cpu, remoto>>
      PROVE  \A d \in CPUs : Abierta(remoto'[d], cpu'[d])
  <2>1. cpu' = cpu /\ remoto' = remoto
    BY <1>9
  <2> QED
    BY <1>1, <2>1
<1>10. ASSUME EnviarPcb
       PROVE  \A d \in CPUs : Abierta(remoto'[d], cpu'[d])
  <2>1. CASE UNCHANGED <<cpu, remoto>>
    BY <2>1, <1>9
  <2>2. ASSUME NEW c \in Ociosas,
               cpu' = [cpu EXCEPT ![c].estado = "EJECUTANDO", ![c].pid = corto.pid],
               remoto' = [remoto EXCEPT ![c] = Entregada(remoto[c], corto.pid)]
        PROVE  \A d \in CPUs : Abierta(remoto'[d], cpu'[d])
    <3>1. c \in CPUs /\ cpu[c].alta
      BY <2>2 DEF Ociosas
    <3>2. /\ \A d \in CPUs \ {c} : remoto'[d] = remoto[d] /\ cpu'[d] = cpu[d]
          /\ cpu'[c].alta = cpu[c].alta /\ remoto'[c].cerrando = remoto[c].cerrando
          /\ remoto'[c].fase \in {"recibe", remoto[c].fase}
      BY <1>1, <2>2, <3>1 DEF Entregada, TipoRemoto, TipoCpu
    <3>3. Abierta(remoto'[c], cpu'[c])
      BY <1>1, <3>1, <3>2 DEF Abierta, TipoCpu
    <3> QED
      BY <1>1, <3>1, <3>2, <3>3, AbiertaUna
  <2> QED
    <3>1. CASE Ociosas = {} \/ corto.pid = Nadie
      BY <1>10, <2>1, <3>1 DEF EnviarPcb
    <3>2. CASE ~(Ociosas = {} \/ corto.pid = Nadie)
      BY <1>10, <2>2, <3>2 DEF EnviarPcb
    <3> QED
      BY <3>1, <3>2
<1>11. CASE \A c \in CPUs : ~FinQuantum(c)
  <2>1. CASE \E c \in CPUs : MensajeCPU(c) \/ SignalCPU(c)
    BY <1>6, <1>7, <1>11, <2>1
  <2>2. CASE \A c \in CPUs : ~MensajeCPU(c) /\ ~SignalCPU(c)
    BY <1>6, <1>8, <1>9, <1>10, <1>11, <2>2, CPUsAparte
  <2> QED
    BY <2>1, <2>2
<1> QED
  BY <1>5, <1>11

-----------------------------------------------------------------------------
EnTramite(k) == IF k.paso \in {"listo", "sacar", "mirar", "enviar"} THEN 1 ELSE 0
Prometida(r) == IF r.rutina = "finQuantum" \/ (r.rutina = "bloqueo" /\ r.paso = 2) THEN 1 ELSE 0
Libres(e) == {c \in CPUs : e[c].alta = TRUE /\ e[c].estado = "OCIOSA"}

LEMMA OperacionesDeCpu ==
  ASSUME NEW r \in Rutinas, NEW i \in 1..Len(Guion[r])
  PROVE  /\ Guion[r][i] = "ociosa" => r # "finQuantum" /\ (r = "bloqueo" => i = 1)
         /\ Guion[r][i] = "aListos" => r # "bloqueo" /\ (r = "finQuantum" => i = 2)
         /\ r = "finQuantum" => i \in 1..2 /\ Len(Guion[r]) = 2
                                /\ Guion[r][1] = "removerEjec" /\ Guion[r][2] = "aListos"
         /\ r = "bloqueo" => i \in 1..3 /\ Len(Guion[r]) = 3 /\ Guion[r][1] = "ociosa"
                             /\ Guion[r][2] = "aBloqueados" /\ Guion[r][3] = "aSemaforo"
<1>1. CASE r \in {"nuevoPrograma", "finProceso"}
  BY <1>1, RutinasSon
<1>2. CASE r = "finQuantum"
  BY <1>2, RutinasSon
<1>3. CASE r = "finQuantumCierre"
  BY <1>3, RutinasSon
<1>4. CASE r \in {"excepcion", "stackOverflow"}
  BY <1>4, RutinasSon
<1>5. CASE r = "bloqueo"
  BY <1>5, RutinasSon
<1>6. CASE r = "expropiado"
  BY <1>6, RutinasSon
<1>7. CASE r = "desbloqueo"
  BY <1>7, RutinasSon
<1> QED
  BY <1>1, <1>2, <1>3, <1>4, <1>5, <1>6, <1>7, RutinasSon

LEMMA TokensCPUSon ==
  ASSUME IInv, IInv'
  PROVE  /\ TokensCPU <=>
              Cardinality(Libres(cpu)) = sem.cpu + EnTramite(corto) + Prometida(principal)
         /\ TokensCPU' <=>
              Cardinality(Libres(cpu')) = sem'.cpu + EnTramite(corto') + Prometida(principal')
<1>1. \A c \in CPUs : cpu[c].alta \in BOOLEAN /\ cpu'[c].alta \in BOOLEAN
  BY DEF IInv, TypeOK, TipoCpu
<1>2. Ociosas = Libres(cpu) /\ Ociosas' = Libres(cpu')
  BY <1>1 DEF Ociosas, Libres
<1>3. /\ Booleano(corto.paso \in {"listo", "sacar", "mirar", "enviar"}) = EnTramite(corto)
      /\ Booleano(corto'.paso \in {"listo", "sacar", "mirar", "enviar"}) = EnTramite(corto')
  BY DEF Booleano, EnTramite
<1>4. Booleano(principal.rutina = "finQuantum")
        + Booleano(principal.rutina = "bloqueo" /\ Operacion = "aBloqueados")
      = Prometida(principal)
  <2>1. CASE principal.rutina = "bloqueo"
    <3>1. /\ principal.rutina \in Rutinas /\ principal.paso \in 1..Len(Guion[principal.rutina])
          /\ Operacion = Guion[principal.rutina][principal.paso]
      BY <2>1, RutinasSon DEF IInv, ConProceso, Operacion
    <3>2. Operacion = "aBloqueados" <=> principal.paso = 2
      BY <2>1, <3>1, OperacionesDe
    <3> QED
      BY <2>1, <3>2 DEF Booleano, Prometida
  <2>2. CASE principal.rutina # "bloqueo"
    BY <2>2 DEF Booleano, Prometida
  <2> QED
    BY <2>1, <2>2
<1>5. Booleano(principal'.rutina = "finQuantum")
        + Booleano(principal'.rutina = "bloqueo" /\ Operacion' = "aBloqueados")
      = Prometida(principal')
  <2>1. CASE principal'.rutina = "bloqueo"
    <3>1. /\ principal'.rutina \in Rutinas /\ principal'.paso \in 1..Len(Guion[principal'.rutina])
          /\ Operacion' = Guion[principal'.rutina][principal'.paso]
      BY <2>1, RutinasSon DEF IInv, ConProceso, Operacion
    <3>2. Operacion' = "aBloqueados" <=> principal'.paso = 2
      BY <2>1, <3>1, OperacionesDe
    <3> QED
      BY <2>1, <3>2 DEF Booleano, Prometida
  <2>2. CASE principal'.rutina # "bloqueo"
    BY <2>2 DEF Booleano, Prometida
  <2> QED
    BY <2>1, <2>2
<1>6. /\ sem.cpu \in Nat /\ sem'.cpu \in Nat
  BY DEF IInv, TypeOK, TipoSem
<1>7. \A b : Booleano(b) \in {0, 1}
  BY DEF Booleano
<1> QED
  BY <1>2, <1>3, <1>4, <1>5, <1>6, <1>7 DEF TokensCPU

\* What an operation of the main thread has to do with sem_CPU.
LEMMA PasoPromete ==
  ASSUME IInv, NEW op, Paso(op), op # "ninguna"
  PROVE  /\ op = "ociosa" => /\ Prometida(principal) = 0
                             /\ Prometida(principal') = Uno(principal.rutina, "bloqueo")
         /\ op = "aListos" => /\ Prometida(principal) = Uno(principal.rutina, "finQuantum")
                              /\ Prometida(principal') = 0
         /\ op = "aBloqueados" => Prometida(principal) = 1 /\ Prometida(principal') = 0
         /\ op \notin {"ociosa", "aListos", "aBloqueados"} =>
              Prometida(principal') = Prometida(principal)
<1>1. /\ principal.rutina \in Rutinas /\ principal.paso \in 1..Len(Guion[principal.rutina])
      /\ op = Guion[principal.rutina][principal.paso]
      /\ \/ /\ principal.paso < Len(Guion[principal.rutina])
            /\ principal'.rutina = principal.rutina /\ principal'.paso = principal.paso + 1
         \/ principal.paso = Len(Guion[principal.rutina]) /\ principal' = SinRutina
  BY PasoLleva
<1>2. CASE principal.rutina = "finQuantum"
  <2>1. \/ principal.paso = 1 /\ op = "removerEjec" /\ principal'.rutina = "finQuantum"
        \/ principal.paso = 2 /\ op = "aListos" /\ principal' = SinRutina
    BY <1>1, <1>2, OperacionesDeCpu
  <2> QED
    BY <1>2, <2>1 DEF Prometida, SinRutina, Uno
<1>3. CASE principal.rutina = "bloqueo"
  <2>1. \/ /\ principal.paso = 1 /\ op = "ociosa"
           /\ principal'.rutina = "bloqueo" /\ principal'.paso = 2
        \/ /\ principal.paso = 2 /\ op = "aBloqueados"
           /\ principal'.rutina = "bloqueo" /\ principal'.paso = 3
        \/ principal.paso = 3 /\ op = "aSemaforo" /\ principal' = SinRutina
    <3>1. /\ principal.paso \in 1..3 /\ Len(Guion["bloqueo"]) = 3 /\ Guion["bloqueo"][1] = "ociosa"
          /\ Guion["bloqueo"][2] = "aBloqueados" /\ Guion["bloqueo"][3] = "aSemaforo"
      BY <1>1, <1>3, OperacionesDeCpu
    <3> QED
      BY <1>1, <1>3, <3>1
  <2> QED
    BY <1>3, <2>1 DEF Prometida, SinRutina, Uno
<1>4. CASE principal.rutina \notin {"finQuantum", "bloqueo"}
  <2>1. op # "aBloqueados"
    BY <1>1, <1>4, OperacionesDe
  <2>2. principal'.rutina \notin {"finQuantum", "bloqueo"}
    BY <1>1, <1>4 DEF SinRutina
  <2> QED
    BY <1>4, <2>1, <2>2 DEF Prometida, Uno
<1> QED
  BY <1>2, <1>3, <1>4

LEMMA OperacionCPU ==
  ASSUME IInv, OperacionPrincipal
  PROVE  /\ CambiarEstadoCpu =>
              sem'.cpu + Prometida(principal') = sem.cpu + Prometida(principal) + 1
         /\ ~CambiarEstadoCpu =>
              sem'.cpu + Prometida(principal') = sem.cpu + Prometida(principal)
<1>1. /\ sem.cpu \in Nat /\ Prometida(principal) \in {0, 1} /\ Prometida(principal') \in {0, 1}
  BY FichasSon DEF Prometida
<1>2. CASE CambiarEstadoCpu
  <2>1. Paso("ociosa") /\ "ociosa" # "ninguna" /\ Postear(PostsDeOciosa)
    BY <1>2 DEF CambiarEstadoCpu
  <2>2. Prometida(principal) = 0 /\ Prometida(principal') = Uno(principal.rutina, "bloqueo")
    BY <2>1, PasoPromete
  <2>3. sem'.cpu = sem.cpu + Dentro("cpu", PostsDeOciosa)
    BY <2>1, FichasPuestas
  <2>4. Dentro("cpu", PostsDeOciosa) = 1 - Uno(principal.rutina, "bloqueo")
    BY DEF Dentro, PostsDeOciosa, Uno
  <2>5. Uno(principal.rutina, "bloqueo") \in {0, 1}
    BY DEF Uno
  <2> QED
    BY <1>1, <1>2, <2>2, <2>3, <2>4, <2>5
<1>3. CASE EncolarListo
  <2>1. Paso("aListos") /\ "aListos" # "ninguna" /\ Postear(PostsDeListo)
    BY <1>3 DEF EncolarListo
  <2>2. Prometida(principal) = Uno(principal.rutina, "finQuantum") /\ Prometida(principal') = 0
    BY <2>1, PasoPromete
  <2>3. sem'.cpu = sem.cpu + Dentro("cpu", PostsDeListo)
    BY <2>1, FichasPuestas
  <2>4. Dentro("cpu", PostsDeListo) = Uno(principal.rutina, "finQuantum")
    BY DEF Dentro, PostsDeListo, Uno
  <2>5. ~CambiarEstadoCpu
    BY <2>1 DEF CambiarEstadoCpu, Paso
  <2>6. Uno(principal.rutina, "finQuantum") \in {0, 1}
    BY DEF Uno
  <2> QED
    BY <1>1, <2>2, <2>3, <2>4, <2>5, <2>6
<1>4. CASE EncolarBloqueado
  <2>1. Paso("aBloqueados") /\ "aBloqueados" # "ninguna" /\ Postear({"cpu"})
    BY <1>4 DEF EncolarBloqueado
  <2>2. Prometida(principal) = 1 /\ Prometida(principal') = 0
    BY <2>1, PasoPromete
  <2>3. sem'.cpu = sem.cpu + 1
    BY <2>1, FichasPuestas DEF Dentro
  <2>4. ~CambiarEstadoCpu
    BY <2>1 DEF CambiarEstadoCpu, Paso
  <2> QED
    BY <1>1, <2>2, <2>3, <2>4
<1>5. CASE DesbloquearProceso
  <2>1. principal'.rutina = principal.rutina /\ sem' = sem
    BY <1>5 DEF DesbloquearProceso, IInv, TypeOK, TipoPrincipal
  <2>2. /\ principal.rutina \in Rutinas /\ principal.paso \in 1..Len(Guion[principal.rutina])
        /\ Guion[principal.rutina][principal.paso] = "desbloquear"
    BY <1>5 DEF DesbloquearProceso, Operacion, IInv, ConProceso
  <2>3. principal.rutina = "desbloqueo"
    BY <2>2, SoloDesbloqueo
  <2>4. Prometida(principal) = 0 /\ Prometida(principal') = 0
    BY <2>1, <2>3 DEF Prometida
  <2>5. ~CambiarEstadoCpu
    BY <1>5 DEF DesbloquearProceso, CambiarEstadoCpu, Paso
  <2> QED
    BY <1>1, <2>1, <2>4, <2>5
<1>6. CASE ~CambiarEstadoCpu /\ ~EncolarListo /\ ~EncolarBloqueado /\ ~DesbloquearProceso
  <2>1. PICK op \in {"aCodigos", "removerEjec", "aEspera", "aSemaforo", "devolverSem",
                     "desinterrumpir"} : Paso(op)
    BY <1>6 DEF OperacionPrincipal, EncolarCodigo, RemoverDeColaEjecucion, EncolarEspera,
       EncolarProcesoBloqueadoASemaforo, DevolverSemaforo, QuitarInterrupcion
  <2>2. Prometida(principal') = Prometida(principal)
    <3>1. op # "ninguna" /\ op \notin {"ociosa", "aListos", "aBloqueados"}
      OBVIOUS
    <3> QED
      BY <2>1, <3>1, PasoPromete
  <2>3. sem' = sem \/ Postear({"admitir"}) \/ Postear({"fin"})
    BY <1>6 DEF OperacionPrincipal, EncolarCodigo, RemoverDeColaEjecucion, EncolarEspera,
       EncolarProcesoBloqueadoASemaforo, DevolverSemaforo, QuitarInterrupcion
  <2>4. sem'.cpu = sem.cpu
    BY <1>1, <2>3, FichasPuestas DEF Dentro
  <2> QED
    BY <1>6, <2>2, <2>4
<1> QED
  BY <1>2, <1>3, <1>4, <1>5, <1>6

\* The steps that have nothing to do with sem_CPU.
CPUsQuietas ==
  /\ cpu' = cpu /\ sem'.cpu = sem.cpu /\ EnTramite(corto') = EnTramite(corto)
  /\ Prometida(principal') = Prometida(principal)

\* A kill ends the handler of the main thread only if it is that handler.
LEMMA MatarPrincipal ==
  ASSUME MataEnSuRutina, NEW h \in HilosMata, Matar(h)
  PROVE  principal' = principal \/ (principal.rutina = "matar" /\ principal' = SinRutina)
<1>1. CASE MataAcaba(h) /\ mata[h].paso # "nada"
  <2>1. CASE h = "principal"
    BY <1>1, <2>1 DEF MataAcaba, MataEnSuRutina
  <2>2. CASE h # "principal"
    BY <1>1, <2>2 DEF MataAcaba
  <2> QED
    BY <2>1, <2>2
<1>2. CASE MataInterrumpe(h)
  BY <1>1, <1>2 DEF MataInterrumpe
<1>3. CASE MataTermina(h)
  BY <1>1, <1>3 DEF MataTermina
<1> QED
  BY <1>2, <1>3 DEF Matar, MataToma, MataBuscaEspera, MataBuscaEjecucion, MataBuscaCPU,
     MataBuscaNuevos, MataBuscaListos, MataEsperaToken, MataBuscaBloqueados

LEMMA FichasCPUAparte ==
  ASSUME IInv, MataEnSuRutina, [Next]_vars, ~OperacionPrincipal, ~CortoPlazo,
         \A c \in CPUs : ~GestionarNuevaCPU(c) /\ ~FinQuantum(c) /\ ~GestionarCierreCpu(c)
  PROVE  CPUsQuietas
<1>1. sem.cpu \in Nat
  BY FichasSon
<1>2. ASSUME UNCHANGED <<cpu, corto>>, sem'.cpu = sem.cpu,
             \/ principal' = principal
             \/ /\ principal'.rutina \notin {"finQuantum", "bloqueo"}
                /\ principal.rutina \notin {"finQuantum", "bloqueo"}
             \/ /\ principal'.rutina = "bloqueo" /\ principal'.paso = 1
                /\ principal.rutina = "selector"
      PROVE  CPUsQuietas
  BY <1>2 DEF CPUsQuietas, Prometida
<1>3. ASSUME NEW c \in CPUs, MensajeCPU(c) \/ SignalCPU(c)
      PROVE  CPUsQuietas
  <2>1. UNCHANGED <<corto, sem>>
    BY <1>3 DEF MensajeCPU, GestionarNuevaCPU, FinProceso, ProcesoExpropiado, FinQuantum,
       Excepcion, WaitSemaforo, SignalSemaforo, VerificarInterrupciones, GestionarCierreCpu,
       SignalCPU, DejarYRemover, DejarCPU, hilos
  <2>2. cpu' = cpu
    BY <1>3 DEF MensajeCPU, FinProceso, ProcesoExpropiado,
       Excepcion, WaitSemaforo, SignalSemaforo, VerificarInterrupciones,
       SignalCPU, DejarYRemover, DejarCPU, hilos
  <2>3. ASSUME NEW s \in Semaforos, WaitSemaforo(c, s) \/ SignalSemaforo(c, s)
        PROVE  CPUsQuietas
    BY <1>2, <2>1, <2>2, <2>3 DEF WaitSemaforo, SignalSemaforo, DejarYRemover, DejarCPU,
       Atender, hilos
  <2>4. CASE FinProceso(c) \/ ProcesoExpropiado(c)
             \/ (\E r \in {"excepcion", "stackOverflow"} : Excepcion(c, r))
    BY <1>2, <2>1, <2>2, <2>4 DEF FinProceso, ProcesoExpropiado, Excepcion, DejarYRemover,
       DejarCPU, Atender
  <2>5. CASE VerificarInterrupciones(c) \/ SignalCPU(c)
    BY <1>2, <2>1, <2>2, <2>5 DEF VerificarInterrupciones, SignalCPU, hilos
  <2> QED
    BY <1>3, <2>3, <2>4, <2>5 DEF MensajeCPU
<1>4. CASE GestionarNuevoPrograma
  BY <1>2, <1>4 DEF GestionarNuevoPrograma, Atender
<1>5. CASE LargoPlazo
  <2>1. UNCHANGED <<cpu, corto, principal>>
    BY <1>5 DEF LargoPlazo, LargoVerificaPausa, LargoEsperaReanudar, LargoEsperaAdmitir,
       SacarNuevo, CrearProceso, AumentarGrado, RechazarProceso, AjenoAlLargo
  <2>2. \/ sem' = sem \/ Wait("planif") \/ Wait("admitir") \/ Postear({"listo"})
        \/ Postear({"fin"})
    BY <1>5 DEF LargoPlazo, LargoVerificaPausa, LargoEsperaReanudar, LargoEsperaAdmitir,
       SacarNuevo, CrearProceso, AumentarGrado, RechazarProceso
  <2>3. sem'.cpu = sem.cpu
    BY <1>1, <2>2, FichasPuestas, FichaTomada DEF Dentro, Uno
  <2> QED
    BY <1>2, <2>1, <2>3
<1>6. CASE FinProcesos
  <2>1. UNCHANGED <<cpu, corto, principal>>
    BY <1>6 DEF FinProcesos, FinEspera, FinTomaEspera, FinSaca, FinTermina, FinSueltaEspera,
       AjenoAlFin
  <2>2. sem' = sem \/ Wait("fin") \/ Postear({"admitir"})
    BY <1>6 DEF FinProcesos, FinEspera, FinTomaEspera, FinSaca, FinTermina, FinSueltaEspera,
       Terminar
  <2>3. sem'.cpu = sem.cpu
    BY <1>1, <2>2, FichasPuestas, FichaTomada DEF Dentro, Uno
  <2> QED
    BY <1>2, <2>1, <2>3
<1>7. CASE Usuario
  <2>1. UNCHANGED <<cpu, corto, principal>>
    BY <1>7 DEF Usuario, Pausar, PausarEspera, Reanudar, PostPlanificacion, PedirGrado,
       ModificarGrado, AjenoAlUsuario
  <2>2. sem'.cpu = sem.cpu
    <3>1. CASE PausarEspera
      BY <1>1, <3>1, FichaTomada DEF PausarEspera, Uno
    <3>2. CASE PostPlanificacion
      BY <1>1, <3>2, FichasPuestas DEF PostPlanificacion, Dentro
    <3>3. CASE Pausar \/ Reanudar \/ PedirGrado \/ \E n \in GradosNuevos : ModificarGrado(n)
      BY <3>3 DEF Pausar, Reanudar, PedirGrado, ModificarGrado, IInv, TypeOK, TipoSem
    <3> QED
      BY <1>7, <3>1, <3>2, <3>3 DEF Usuario
  <2> QED
    BY <1>2, <2>1, <2>2
<1>8. ASSUME NEW h \in HilosMata, Matar(h)
      PROVE  CPUsQuietas
  <2>1. UNCHANGED <<cpu, corto>>
    BY <1>8 DEF Matar, MataToma, MataBuscaEspera, MataBuscaEjecucion, MataBuscaCPU,
       MataInterrumpe, MataBuscaNuevos, MataBuscaListos, MataEsperaToken, MataBuscaBloqueados,
       MataTermina, AjenoAMata
  <2>2. principal' = principal \/ (principal.rutina = "matar" /\ principal' = SinRutina)
    BY <1>8, MatarPrincipal
  <2>3. sem' = sem \/ Wait("listo") \/ Postear({"admitir"})
    BY <1>8 DEF Matar, MataToma, MataBuscaEspera, MataBuscaEjecucion, MataBuscaCPU,
       MataInterrumpe, MataBuscaNuevos, MataBuscaListos, MataEsperaToken, MataBuscaBloqueados,
       MataTermina, Terminar
  <2>4. sem'.cpu = sem.cpu
    BY <1>1, <2>3, FichaTomada, FichasPuestas DEF Uno, Dentro
  <2> QED
    BY <1>2, <2>1, <2>2, <2>4 DEF SinRutina
<1>9. ASSUME NEW h \in HilosMata, NEW q \in Pids, PedirFin(h, q)
      PROVE  CPUsQuietas
  <2>1. UNCHANGED <<cpu, corto, sem>>
    BY <1>9 DEF PedirFin, AjenoAMata
  <2> QED
    BY <1>2, <1>9, <2>1, PedirFinAvisa
<1>10. CASE UNCHANGED vars
  BY <1>2, <1>10 DEF vars
<1> QED
  BY <1>3, <1>4, <1>5, <1>6, <1>7, <1>8, <1>9, <1>10 DEF Next, Vivir, Reposo, Caido

\* The dispatcher takes a token for one idle CPU and makes it busy.
LEMMA TokensCPUSiguen ==
  ASSUME IInv, IInv', CpuOciosaVacia, MataEnSuRutina, SinCierres, TokensCPU, [Next]_vars
  PROVE  TokensCPU'
<1>1. /\ cpu \in [CPUs -> TipoCpu] /\ remoto \in [CPUs -> TipoRemoto] /\ corto \in TipoCorto
      /\ sem.cpu \in Nat /\ sem'.cpu \in Nat
      /\ Prometida(principal) \in {0, 1} /\ Prometida(principal') \in {0, 1}
      /\ EnTramite(corto) \in {0, 1} /\ EnTramite(corto') \in {0, 1}
  <2>1. sem' \in TipoSem
    BY DEF IInv, TypeOK
  <2> QED
    BY <2>1, FichasSon DEF IInv, TypeOK, TipoSem, Prometida, EnTramite
<1>2. Cardinality(Libres(cpu)) = sem.cpu + EnTramite(corto) + Prometida(principal)
  BY TokensCPUSon
<1>3. /\ \A e : IsFiniteSet(Libres(e)) /\ Cardinality(Libres(e)) \in Nat
      /\ \A d \in CPUs : Abierta(remoto[d], cpu[d]) /\ CpuVacia(remoto[d], cpu[d])
  BY ConstantesOK, FS_Subset, FS_CardinalityType, CpuOciosaSon DEF Libres, SinCierres
<1> SUFFICES Cardinality(Libres(cpu')) = sem'.cpu + EnTramite(corto') + Prometida(principal')
  BY TokensCPUSon
<1>4. ASSUME NEW c \in CPUs, \A d \in CPUs \ {c} : cpu'[d] = cpu[d],
             c \notin Libres(cpu), cpu'[c].alta = TRUE, cpu'[c].estado = "OCIOSA"
      PROVE  Cardinality(Libres(cpu')) = Cardinality(Libres(cpu)) + 1
  <2>1. Libres(cpu') = Libres(cpu) \cup {c}
    BY <1>4 DEF Libres
  <2> QED
    BY <1>3, <1>4, <2>1, FS_AddElement
<1>5. CASE CPUsQuietas
  BY <1>1, <1>2, <1>5 DEF CPUsQuietas
<1>6. ASSUME NEW c \in CPUs, GestionarNuevaCPU(c)
      PROVE  Cardinality(Libres(cpu')) = sem'.cpu + EnTramite(corto') + Prometida(principal')
  <2>1. /\ sem'.cpu = sem.cpu + 1 /\ corto' = corto /\ principal' = principal
        /\ remoto[c].fase = "apagada"
    BY <1>6, FichasPuestas DEF GestionarNuevaCPU, hilos, Dentro
  <2>2. /\ \A d \in CPUs \ {c} : cpu'[d] = cpu[d]
        /\ cpu'[c].alta = TRUE /\ cpu'[c].estado = "OCIOSA"
    BY <1>1, <1>6 DEF GestionarNuevaCPU
  <2>3. c \notin Libres(cpu)
    BY <1>3, <2>1 DEF CpuVacia, Libres
  <2> QED
    <3>1. Cardinality(Libres(cpu')) = Cardinality(Libres(cpu)) + 1
      BY <1>4, <2>2, <2>3
    <3> QED
      BY <1>1, <1>2, <1>3, <2>1, <3>1
<1>7. ASSUME NEW c \in CPUs, FinQuantum(c)
      PROVE  Cardinality(Libres(cpu')) = sem'.cpu + EnTramite(corto') + Prometida(principal')
  <2>1. DejarCPU(c, {"finQuantum"}, "finQuantum", "ninguno")
    BY <1>3, <1>7 DEF FinQuantum, Abierta
  <2>2. /\ principal.rutina = "selector" /\ principal'.rutina = "finQuantum"
        /\ remoto[c].fase = "finQuantum" /\ UNCHANGED <<sem, corto>>
    BY <2>1 DEF DejarCPU, Atender
  <2>3. remoto[c].pid \in Pids
    BY <2>2 DEF IInv, ConProceso, FasesConProceso
  <2>4. cpu[c].estado = "EJECUTANDO" /\ cpu[c].alta
    BY <1>3, <2>2, <2>3 DEF CpuVacia, Pids, Nadie
  <2>5. /\ \A d \in CPUs \ {c} : cpu'[d] = cpu[d]
        /\ cpu'[c].alta = cpu[c].alta /\ cpu'[c].estado = "OCIOSA"
    BY <1>1, <1>7 DEF FinQuantum, TipoCpu
  <2>6. c \notin Libres(cpu) /\ cpu'[c].alta = TRUE
    BY <1>1, <2>4, <2>5 DEF Libres, TipoCpu
  <2>7. Prometida(principal) = 0 /\ Prometida(principal') = 1 /\ EnTramite(corto') = EnTramite(corto)
    BY <2>2 DEF Prometida
  <2> QED
    <3>1. Cardinality(Libres(cpu')) = Cardinality(Libres(cpu)) + 1
      BY <1>4, <2>5, <2>6
    <3> QED
      BY <1>1, <1>2, <1>3, <2>2, <2>7, <3>1
<1>8. \A c \in CPUs : ~GestionarCierreCpu(c)
  BY <1>3 DEF GestionarCierreCpu, Abierta
<1>9. CASE OperacionPrincipal
  <2>1. corto' = corto
    BY <1>9 DEF OperacionPrincipal, EncolarCodigo, CambiarEstadoCpu, RemoverDeColaEjecucion,
       EncolarEspera, EncolarListo, EncolarBloqueado, EncolarProcesoBloqueadoASemaforo,
       DesbloquearProceso, DevolverSemaforo, QuitarInterrupcion, AjenoAlPrincipal
  <2>2. CASE CambiarEstadoCpu
    <3> DEFINE c == principal.cpu
    <3>1. Falta({"ociosa"})
      <4>1. Paso("ociosa") /\ "ociosa" # "ninguna"
        BY <2>2 DEF CambiarEstadoCpu
      <4> QED
        BY <4>1, FaltaMenos
    <3>2. c \in CPUs /\ cpu[c].estado = "EJECUTANDO"
      BY <3>1 DEF CpuOciosaVacia
    <3>3. cpu[c].alta = TRUE
      BY <1>3, <3>2 DEF Abierta
    <3>4. /\ \A d \in CPUs \ {c} : cpu'[d] = cpu[d]
          /\ cpu'[c].alta = cpu[c].alta /\ cpu'[c].estado = "OCIOSA"
      BY <1>1, <2>2, <3>2 DEF CambiarEstadoCpu, TipoCpu
    <3>5. c \notin Libres(cpu)
      BY <3>2 DEF Libres
    <3>6. sem'.cpu + Prometida(principal') = sem.cpu + Prometida(principal) + 1
      BY <1>9, <2>2, OperacionCPU
    <3>7. Cardinality(Libres(cpu')) = Cardinality(Libres(cpu)) + 1
      BY <1>4, <3>2, <3>3, <3>4, <3>5
    <3> QED
      BY <1>1, <1>2, <1>3, <2>1, <3>6, <3>7
  <2>3. CASE ~CambiarEstadoCpu
    <3>1. cpu' = cpu
      BY <1>9, <2>3 DEF OperacionPrincipal, EncolarCodigo, RemoverDeColaEjecucion,
         EncolarEspera, EncolarListo, EncolarBloqueado, EncolarProcesoBloqueadoASemaforo,
         DesbloquearProceso, DevolverSemaforo, QuitarInterrupcion
    <3>2. sem'.cpu + Prometida(principal') = sem.cpu + Prometida(principal)
      BY <1>9, <2>3, OperacionCPU
    <3> QED
      BY <1>1, <1>2, <2>1, <3>1, <3>2
  <2> QED
    BY <2>2, <2>3
<1>10. CASE CortoPlazo
  <2>1. principal' = principal
    BY <1>10 DEF CortoPlazo, CortoVerificaPausa, CortoEsperaReanudar, CortoEsperaCPU,
       CortoEsperaListo, SacarListo, MirarOciosas, EnviarPcb, RegistrarEjecucion,
       DevolverAListos, AjenoAlCorto
  <2>2. CASE CortoEsperaCPU
    <3>1. /\ sem'.cpu = sem.cpu - 1 /\ cpu' = cpu
          /\ corto.paso = "cpu" /\ corto'.paso = "listo"
      BY <1>1, <2>2, FichaTomada DEF CortoEsperaCPU, IrCorto, TipoCorto, Uno
    <3>2. EnTramite(corto) = 0 /\ EnTramite(corto') = 1
      BY <3>1 DEF EnTramite
    <3> QED
      BY <1>1, <1>2, <2>1, <3>1, <3>2
  <2>3. CASE EnviarPcb
    <3>1. corto.paso = "enviar" /\ sem' = sem /\ EnTramite(corto) = 1
      BY <2>3 DEF EnviarPcb, EnTramite
    <3>2. CASE UNCHANGED <<cpu, corto>>
      BY <1>2, <2>1, <3>1, <3>2
    <3>3. ASSUME NEW c \in Ociosas, corto' = [corto EXCEPT !.paso = "registrar"],
                 cpu' = [cpu EXCEPT ![c].estado = "EJECUTANDO", ![c].pid = corto.pid]
          PROVE  Cardinality(Libres(cpu')) = sem'.cpu + EnTramite(corto') + Prometida(principal')
      <4>1. c \in CPUs /\ c \in Libres(cpu)
        BY <1>1, <3>3 DEF Ociosas, Libres, TipoCpu
      <4>2. (\A d \in CPUs \ {c} : cpu'[d] = cpu[d]) /\ cpu'[c].estado = "EJECUTANDO"
        BY <1>1, <3>3, <4>1 DEF TipoCpu
      <4>3. Libres(cpu') = Libres(cpu) \ {c}
        BY <4>1, <4>2 DEF Libres
      <4>4. Cardinality(Libres(cpu')) = Cardinality(Libres(cpu)) - 1
        BY <1>3, <4>1, <4>3, FS_RemoveElement
      <4>5. EnTramite(corto') = 0
        BY <1>1, <3>3 DEF EnTramite, TipoCorto
      <4> QED
        BY <1>1, <1>2, <1>3, <2>1, <3>1, <4>4, <4>5
    <3>4. CASE Ociosas = {} \/ corto.pid = Nadie
      BY <2>3, <3>2, <3>4 DEF EnviarPcb
    <3>5. CASE ~(Ociosas = {} \/ corto.pid = Nadie)
      BY <2>3, <3>3, <3>5 DEF EnviarPcb
    <3> QED
      BY <3>4, <3>5
  <2>4. CASE MirarOciosas
    <3>1. Ociosas = Libres(cpu)
      BY <1>1 DEF Ociosas, Libres, TipoCpu
    <3>2. EnTramite(corto) = 1
      BY <2>4 DEF MirarOciosas, IrCorto, EnTramite
    <3>3. Libres(cpu) # {}
      BY <1>1, <1>2, <3>2, FS_EmptySet
    <3>4. corto'.paso = "enviar" /\ cpu' = cpu /\ sem' = sem
      BY <1>1, <2>4, <3>1, <3>3 DEF MirarOciosas, IrCorto, TipoCorto
    <3> QED
      BY <1>2, <2>1, <3>2, <3>4 DEF EnTramite
  <2>5. CASE ~CortoEsperaCPU /\ ~EnviarPcb /\ ~MirarOciosas
    <3>1. cpu' = cpu
      BY <1>10, <2>5 DEF CortoPlazo, CortoVerificaPausa, CortoEsperaReanudar,
         CortoEsperaListo, SacarListo, RegistrarEjecucion, DevolverAListos
    <3>2. sem' = sem \/ Wait("planif") \/ Wait("listo") \/ Postear({"listo"})
      BY <1>10, <2>5 DEF CortoPlazo, CortoVerificaPausa, CortoEsperaReanudar,
         CortoEsperaListo, SacarListo, RegistrarEjecucion, DevolverAListos
    <3>3. sem'.cpu = sem.cpu
      BY <1>1, <3>2, FichaTomada, FichasPuestas DEF Uno, Dentro
    <3>4. EnTramite(corto') = EnTramite(corto)
      BY <1>1, <1>10, <2>5 DEF CortoPlazo, CortoVerificaPausa, CortoEsperaReanudar,
         CortoEsperaListo, SacarListo, RegistrarEjecucion, DevolverAListos, IrCorto,
         TipoCorto, EnTramite
    <3> QED
      BY <1>2, <2>1, <3>1, <3>3, <3>4
  <2> QED
    BY <2>2, <2>3, <2>4, <2>5
<1> QED
  BY <1>5, <1>6, <1>7, <1>8, <1>9, <1>10, FichasCPUAparte

LEMMA InicioTokens == Init => SinCierres /\ TokensCPU
<1> SUFFICES ASSUME Init PROVE SinCierres /\ TokensCPU
  OBVIOUS
<1>1. /\ \A c \in CPUs : /\ cpu[c].alta = FALSE /\ cpu[c].estado = "OCIOSA"
                        /\ remoto[c].fase = "apagada" /\ remoto[c].cerrando = FALSE
      /\ sem.cpu = 0 /\ corto.paso = "pausa" /\ principal.rutina = "selector"
  BY DEF Init, SinRutina
<1>2. SinCierres
  BY <1>1 DEF SinCierres, Abierta
<1>3. Ociosas = {}
  BY <1>1 DEF Ociosas
<1>4. Cardinality(Ociosas) = 0
  BY <1>3, FS_EmptySet
<1> QED
  BY <1>1, <1>2, <1>4 DEF TokensCPU, Booleano

\* sem_CPU counts the idle CPUs of listaCPU as long as no CPU closes
\* (GestionarCierreCpu leaves the post of the closed one): the dispatcher that
\* has a token always finds an idle CPU.
THEOREM TokensDeCPU ==
  ASSUME Cerrables = {}
  PROVE  Spec => []TokensCPU
<1>1. Init => SinCierres /\ TokensCPU
  BY InicioTokens
<1>2. /\ IInv /\ IInv' /\ CpuOciosaVacia /\ MataEnSuRutina /\ SinCierres /\ TokensCPU
      /\ [Next]_vars
      => SinCierres' /\ TokensCPU'
  BY SinCierresSiguen, TokensCPUSiguen
<1>3. IInvLugar => CpuOciosaVacia /\ MataEnSuRutina
  BY DEF IInvLugar
<1> QED
  BY <1>1, <1>2, <1>3, Invariante, Lugar, PTL DEF Spec

-----------------------------------------------------------------------------
(* The semaphores of the programs, while nobody kills one                  *)

SinMuertes == \A h \in HilosMata : mata[h].paso = "nada"

LEMMA SinMuertesQuietos ==
  ASSUME IInv, Pedidos = {}, SinMuertes, NEW h \in HilosMata
  PROVE  ~Matar(h) /\ \A q \in Pids : ~PedirFin(h, q)
<1>1. mata[h].paso = "nada" /\ pendientes.pedidos = {}
  BY DEF SinMuertes, IInv, TypeOK, TipoPendientes
<1> QED
  BY <1>1 DEF Matar, MataToma, MataBuscaEspera, MataBuscaEjecucion, MataBuscaCPU,
     MataInterrumpe, MataBuscaNuevos, MataBuscaListos, MataEsperaToken, MataBuscaBloqueados,
     MataTermina, IrMata, PedirFin

\* If nobody asks for a kill none begins.
LEMMA SinMuertesSiguen ==
  ASSUME IInv, Pedidos = {}, SinMuertes, [Next]_vars
  PROVE  SinMuertes'
<1>1. mata' = mata
  <2>1. ASSUME NEW c \in CPUs, MensajeCPU(c) \/ SignalCPU(c)
        PROVE  mata' = mata
    BY <2>1 DEF MensajeCPU, GestionarNuevaCPU, FinProceso, ProcesoExpropiado, FinQuantum,
       Excepcion, WaitSemaforo, SignalSemaforo, VerificarInterrupciones, GestionarCierreCpu,
       SignalCPU, DejarYRemover, DejarCPU, hilos
  <2>2. CASE OperacionPrincipal \/ GestionarNuevoPrograma
    BY <2>2 DEF OperacionPrincipal, EncolarCodigo, CambiarEstadoCpu, RemoverDeColaEjecucion,
       EncolarEspera, EncolarListo, EncolarBloqueado, EncolarProcesoBloqueadoASemaforo,
       DesbloquearProceso, DevolverSemaforo, QuitarInterrupcion, AjenoAlPrincipal,
       GestionarNuevoPrograma
  <2>3. CASE CortoPlazo \/ LargoPlazo
    BY <2>3 DEF CortoPlazo, CortoVerificaPausa, CortoEsperaReanudar, CortoEsperaCPU,
       CortoEsperaListo, SacarListo, MirarOciosas, EnviarPcb, RegistrarEjecucion,
       DevolverAListos, AjenoAlCorto,
       LargoPlazo, LargoVerificaPausa, LargoEsperaReanudar, LargoEsperaAdmitir,
       SacarNuevo, CrearProceso, AumentarGrado, RechazarProceso, AjenoAlLargo
  <2>4. CASE FinProcesos \/ Usuario \/ UNCHANGED vars
    BY <2>4 DEF FinProcesos, FinEspera, FinTomaEspera, FinSaca, FinTermina, FinSueltaEspera,
       AjenoAlFin, Usuario, Pausar, PausarEspera, Reanudar, PostPlanificacion, PedirGrado,
       ModificarGrado, AjenoAlUsuario, vars
  <2> QED
    BY <2>1, <2>2, <2>3, <2>4, SinMuertesQuietos DEF Next, Vivir, Reposo, Caido
<1> QED
  BY <1>1 DEF SinMuertes

LEMMA CuentaSon ==
  /\ ValorCuentaBloqueados <=>
       \A s \in Semaforos :
         Len(semaforo[s].pids) + ACamino(principal, s) = Deuda(semaforo[s].valor)
  /\ ValorCuentaBloqueados' <=>
       \A s \in Semaforos :
         Len(semaforo'[s].pids) + ACamino(principal', s) = Deuda(semaforo'[s].valor)
<1>1. \A s : /\ Booleano(principal.rutina = "bloqueo" /\ principal.sem = s) = ACamino(principal, s)
             /\ Booleano(principal'.rutina = "bloqueo" /\ principal'.sem = s)
                  = ACamino(principal', s)
  BY DEF Booleano, ACamino
<1> QED
  BY <1>1 DEF ValorCuentaBloqueados, Deuda

LEMMA DeudaCambia ==
  ASSUME NEW v \in Int
  PROVE  /\ v <= 0 => Deuda(v - 1) = Deuda(v) + 1
         /\ v > 0 => Deuda(v - 1) = Deuda(v)
         /\ Deuda(v) = 0 => Deuda(v + 1) = 0
         /\ Deuda(v) >= 1 => Deuda(v + 1) = Deuda(v) - 1
         /\ Deuda(v) \in Nat
  BY DEF Deuda

\* The list of a semaphore grows when its value goes down below zero, and
\* shrinks when it goes up from there.
LEMMA CuentaSigue ==
  ASSUME IInv, IInv', Pedidos = {}, SinMuertes, ValorCuentaBloqueados, [Next]_vars
  PROVE  ValorCuentaBloqueados'
<1>1. \A s \in Semaforos : /\ semaforo[s].valor \in Int /\ semaforo[s].pids \in Seq(Pids)
                           /\ Len(semaforo[s].pids) \in Nat
                           /\ ACamino(principal, s) \in {0, 1}
                           /\ ACamino(principal', s) \in {0, 1}
  BY DEF IInv, TypeOK, TipoSemaforo, ACamino
<1>2. \A s \in Semaforos :
        Len(semaforo[s].pids) + ACamino(principal, s) = Deuda(semaforo[s].valor)
  BY CuentaSon
<1> SUFFICES ASSUME NEW t \in Semaforos
             PROVE  Len(semaforo'[t].pids) + ACamino(principal', t) = Deuda(semaforo'[t].valor)
  BY CuentaSon
<1> DEFINE n == Len(semaforo[t].pids)
           v == semaforo[t].valor
<1>3. n \in Nat /\ v \in Int /\ n + ACamino(principal, t) = Deuda(v)
  BY <1>1, <1>2
<1>8. /\ v <= 0 => Deuda(v - 1) = Deuda(v) + 1
      /\ v > 0 => Deuda(v - 1) = Deuda(v)
      /\ Deuda(v) = 0 => Deuda(v + 1) = 0
      /\ Deuda(v) >= 1 => Deuda(v + 1) = Deuda(v) - 1
      /\ Deuda(v) \in Nat
  BY <1>3, DeudaCambia
<1> HIDE DEF n, v
<1>4. ASSUME NEW c \in CPUs, NEW s \in Semaforos, WaitSemaforo(c, s)
      PROVE  Len(semaforo'[t].pids) + ACamino(principal', t) = Deuda(semaforo'[t].valor)
  <2>1. /\ principal.rutina = "selector"
        /\ \A u \in Semaforos \ {s} : semaforo'[u] = semaforo[u]
        /\ semaforo'[s].valor = semaforo[s].valor - 1
        /\ semaforo'[s].pids = semaforo[s].pids
        /\ \/ /\ semaforo[s].valor <= 0 /\ principal'.rutina = "bloqueo"
              /\ principal'.sem = s
           \/ semaforo[s].valor > 0 /\ principal' = principal
    BY <1>4, PasosDeSemaforo
  <2>2. CASE t # s
    <3>1. ACamino(principal', t) = 0 /\ ACamino(principal, t) = 0 /\ semaforo'[t] = semaforo[t]
      BY <2>1, <2>2 DEF ACamino
    <3> QED
      BY <1>3, <3>1 DEF n, v
  <2>3. CASE t = s /\ semaforo[s].valor <= 0
    <3>1. ACamino(principal', t) = 1 /\ ACamino(principal, t) = 0
      BY <1>1, <2>1, <2>3 DEF ACamino
    <3>2. /\ Len(semaforo'[t].pids) = n /\ semaforo'[t].valor = v - 1 /\ v <= 0
      BY <2>1, <2>3 DEF n, v
    <3> QED
      BY <1>3, <1>8, <3>1, <3>2
  <2>4. CASE t = s /\ semaforo[s].valor > 0
    <3>1. ACamino(principal', t) = 0 /\ ACamino(principal, t) = 0
      BY <1>1, <2>1, <2>4 DEF ACamino
    <3>2. /\ Len(semaforo'[t].pids) = n /\ semaforo'[t].valor = v - 1 /\ v > 0
      BY <2>1, <2>4 DEF n, v
    <3> QED
      BY <1>3, <1>8, <3>1, <3>2
  <2> QED
    BY <1>1, <2>2, <2>3, <2>4
<1>5. ASSUME NEW c \in CPUs, NEW s \in Semaforos, SignalSemaforo(c, s)
      PROVE  Len(semaforo'[t].pids) + ACamino(principal', t) = Deuda(semaforo'[t].valor)
  <2>1. /\ principal.rutina = "selector"
        /\ \A u \in Semaforos \ {s} : semaforo'[u] = semaforo[u]
        /\ semaforo'[s].valor = semaforo[s].valor + 1
        /\ \/ /\ semaforo[s].pids = <<>> /\ semaforo'[s].pids = <<>>
              /\ principal' = principal
           \/ /\ semaforo[s].pids # <<>> /\ semaforo'[s].pids = Tail(semaforo[s].pids)
              /\ principal'.rutina = "desbloqueo"
    BY <1>5, PasosDeSemaforo
  <2>2. ACamino(principal', t) = 0 /\ ACamino(principal, t) = 0
    BY <2>1 DEF ACamino
  <2>3. CASE t # s
    <3>1. semaforo'[t] = semaforo[t]
      BY <2>1, <2>3
    <3> QED
      BY <1>3, <2>2, <3>1 DEF n, v
  <2>4. CASE t = s /\ semaforo[s].pids = <<>>
    <3>1. n = 0 /\ Len(semaforo'[t].pids) = 0 /\ semaforo'[t].valor = v + 1
      BY <2>1, <2>4 DEF n, v
    <3> QED
      BY <1>3, <1>8, <2>2, <3>1
  <2>5. CASE t = s /\ semaforo[s].pids # <<>>
    <3>1. semaforo'[t].pids = Tail(semaforo[t].pids) /\ semaforo'[t].valor = v + 1
      BY <2>1, <2>5 DEF v
    <3>2. Len(Tail(semaforo[t].pids)) = n - 1 /\ n >= 1
      BY <1>1, <2>5 DEF n
    <3> QED
      BY <1>3, <1>8, <2>2, <3>1, <3>2
  <2> QED
    BY <2>3, <2>4, <2>5
<1>6. CASE EncolarProcesoBloqueadoASemaforo
  <2>1. /\ principal.rutina = "bloqueo" /\ principal'.rutina = "selector"
        /\ \A u \in Semaforos \ {principal.sem} : semaforo'[u] = semaforo[u]
        /\ principal.sem \in Semaforos =>
              /\ semaforo'[principal.sem].valor = semaforo[principal.sem].valor
              /\ semaforo'[principal.sem].pids
                   = Append(semaforo[principal.sem].pids, principal.pid)
        /\ principal.pid \in Pids
    BY <1>6, PasoASemaforo DEF SinRutina
  <2>2. ACamino(principal', t) = 0
    BY <2>1 DEF ACamino
  <2>3. CASE t # principal.sem
    <3>1. semaforo'[t] = semaforo[t] /\ ACamino(principal, t) = 0
      BY <2>1, <2>3 DEF ACamino
    <3> QED
      BY <1>3, <2>2, <3>1 DEF n, v
  <2>4. CASE t = principal.sem
    <3>1. Len(semaforo'[t].pids) = n + 1
      BY <1>1, <2>1, <2>4, AgregarAlFinal DEF n
    <3>2. ACamino(principal, t) = 1 /\ semaforo'[t].valor = v
      BY <2>1, <2>4 DEF ACamino, v
    <3> QED
      BY <1>3, <2>2, <3>1, <3>2
  <2> QED
    BY <2>3, <2>4
<1>7. CASE SemaforosQuietos
  <2>1. semaforo' = semaforo /\ ACamino(principal', t) = ACamino(principal, t)
    BY <1>7 DEF SemaforosQuietos, ACamino
  <2> QED
    BY <1>2, <2>1
<1> QED
  BY <1>4, <1>5, <1>6, <1>7, SemaforosAparte, SinMuertesQuietos

LEMMA InicioSinMuertes == Init => SinMuertes
  BY DEF Init, SinMuertes

\* While no program is killed, the value of a semaphore below zero is the number
\* of processes that wait in its list, or are on their way there
\* (semaforosAnsisop.h): every wait(s) that blocks is answered by one signal(s).
\* SEM_INIT has no negative value.
THEOREM ValorDeSemaforo ==
  ASSUME Pedidos = {}, \A s \in Semaforos : ValorInicial[s] >= 0
  PROVE  Spec => []ValorCuentaBloqueados
<1>1. Init => ValorCuentaBloqueados
  <2> SUFFICES ASSUME Init, NEW s \in Semaforos
               PROVE  Len(semaforo[s].pids) + ACamino(principal, s) = Deuda(semaforo[s].valor)
    BY CuentaSon
  <2>1. semaforo[s].pids = <<>> /\ semaforo[s].valor \in Int /\ semaforo[s].valor >= 0
    BY ConstantesOK DEF Init
  <2>2. ACamino(principal, s) = 0
    BY DEF Init, SinRutina, ACamino
  <2> QED
    BY <2>1, <2>2 DEF Deuda
<1>2. /\ IInv /\ IInv' /\ SinMuertes /\ ValorCuentaBloqueados /\ [Next]_vars
      => SinMuertes' /\ ValorCuentaBloqueados'
  BY SinMuertesSiguen, CuentaSigue
<1> QED
  BY <1>1, <1>2, InicioSinMuertes, Invariante, PTL DEF Spec

\* On the way to the list of a semaphore, or taken from it to be unblocked.
PorEncolar(r, p) == IF r.rutina = "bloqueo" /\ r.paso = 3 /\ r.pid = p THEN 1 ELSE 0
PorDesbloquear(r, p) == IF r.rutina = "desbloqueo" /\ r.paso = 1 /\ r.pid = p THEN 1 ELSE 0
DondeEspera(m, p) == {s \in Semaforos : Contains(m[s].pids, p)}

Esperando(m, r, p) ==
  Cardinality(DondeEspera(m, p)) + PorEncolar(r, p) + PorDesbloquear(r, p)

\* BloqueadosEnSemaforo, inductive.
EsperasEnOrden ==
  /\ \A s \in Semaforos, p \in Pids : Veces(semaforo[s].pids, p) <= 1
  /\ \A p \in Pids : /\ IsFiniteSet(DondeEspera(semaforo, p))
                     /\ Esperando(semaforo, principal, p) = cola.bloqueados[p]
  /\ principal.rutina = "bloqueo" => principal.sem \in Semaforos
  /\ principal.rutina = "desbloqueo" => principal.pid \in Pids

\* A process is in colaBloqueados once at most.
LEMMA UnaVezBloqueado ==
  ASSUME IInv, IInv', UnaCopia, NEW p \in Pids
  PROVE  cola.bloqueados[p] \in Nat /\ cola.bloqueados[p] <= 1
<1>1. Balance(p) /\ Copias(p) = Booleano(p <= contadorPid) /\ cola \in TipoCola
  BY SumaDeCopias DEF UnaCopia, IInv, TypeOK
<1>2. EnListas(cola, p) \in Nat /\ EnListas(cola, p) <= 1
  BY ONLY <1>1 DEF Balance, Booleano
<1>3. /\ Veces(cola.nuevos, p) \in Nat /\ Veces(cola.listos, p) \in Nat
      /\ Veces(cola.espera, p) \in Nat /\ cola.bloqueados[p] \in Nat
      /\ cola.terminados[p] \in Nat
  BY <1>1, ListasNat
<1> QED
  BY ONLY <1>2, <1>3 DEF EnListas

\* The steps that have nothing to do with the blocked processes.
BloqueadosQuietos ==
  /\ semaforo' = semaforo /\ cola'.bloqueados = cola.bloqueados
  /\ \A p \in Pids : /\ PorEncolar(principal', p) = PorEncolar(principal, p)
                     /\ PorDesbloquear(principal', p) = PorDesbloquear(principal, p)
  /\ principal'.rutina = "bloqueo" => /\ principal.rutina = "bloqueo"
                                      /\ principal'.sem = principal.sem
  /\ principal'.rutina = "desbloqueo" => /\ principal.rutina = "desbloqueo"
                                         /\ principal'.pid = principal.pid

LEMMA PasoNoBloquea ==
  ASSUME IInv, NEW op, Paso(op), op \notin {"ninguna", "aBloqueados", "aSemaforo", "desbloquear"},
         semaforo' = semaforo, cola'.bloqueados = cola.bloqueados
  PROVE  BloqueadosQuietos
<1>1. /\ principal.rutina \in Rutinas /\ principal.paso \in 1..Len(Guion[principal.rutina])
      /\ op = Guion[principal.rutina][principal.paso]
      /\ \/ /\ principal.paso < Len(Guion[principal.rutina])
            /\ principal'.rutina = principal.rutina /\ principal'.sem = principal.sem
            /\ principal'.paso = principal.paso + 1 /\ principal'.pid = principal.pid
         \/ principal.paso = Len(Guion[principal.rutina]) /\ principal' = SinRutina
  BY PasoLleva
<1>2. CASE principal.rutina = "bloqueo"
  <2>1. principal.paso = 1 /\ principal'.rutina = "bloqueo" /\ principal'.paso = 2
        /\ principal'.sem = principal.sem
    BY <1>1, <1>2, OperacionesDe
  <2> QED
    BY <1>2, <2>1 DEF BloqueadosQuietos, PorEncolar, PorDesbloquear
<1>3. CASE principal.rutina = "desbloqueo"
  <2>1. principal.paso \in 2..3
    <3>1. principal.paso \in 1..3 /\ Guion["desbloqueo"][1] = "desbloquear"
      BY <1>1, <1>3, RutinasSon
    <3> QED
      BY <1>1, <1>3, <3>1
  <2>2. \/ /\ principal'.rutina = "desbloqueo" /\ principal'.paso \in 3..4
           /\ principal'.pid = principal.pid
        \/ principal'.rutina = "selector"
    BY <1>1, <1>3, <2>1 DEF SinRutina
  <2> QED
    BY <1>3, <2>1, <2>2 DEF BloqueadosQuietos, PorEncolar, PorDesbloquear
<1>4. CASE principal.rutina \notin {"bloqueo", "desbloqueo"}
  <2>1. principal'.rutina \notin {"bloqueo", "desbloqueo"}
    BY <1>1, <1>4 DEF SinRutina
  <2> QED
    BY <1>4, <2>1 DEF BloqueadosQuietos, PorEncolar, PorDesbloquear
<1> QED
  BY <1>2, <1>3, <1>4

LEMMA BloqueadosAparte ==
  ASSUME IInv, [Next]_vars, ~EncolarProcesoBloqueadoASemaforo, ~EncolarBloqueado,
         ~DesbloquearProceso,
         \A c \in CPUs, s \in Semaforos : ~WaitSemaforo(c, s) /\ ~SignalSemaforo(c, s),
         \A h \in HilosMata : ~Matar(h) /\ \A q \in Pids : ~PedirFin(h, q)
  PROVE  BloqueadosQuietos
<1>1. cola \in TipoCola
  BY DEF IInv, TypeOK
<1>2. ASSUME semaforo' = semaforo, cola'.bloqueados = cola.bloqueados,
             \/ principal' = principal
             \/ principal.rutina = "selector" /\ principal'.rutina \notin {"bloqueo", "desbloqueo"}
      PROVE  BloqueadosQuietos
  BY <1>2 DEF BloqueadosQuietos, PorEncolar, PorDesbloquear
<1>3. ASSUME NEW c \in CPUs, MensajeCPU(c) \/ SignalCPU(c)
      PROVE  BloqueadosQuietos
  <2>1. semaforo' = semaforo /\ cola'.bloqueados = cola.bloqueados
    BY <1>1, <1>3 DEF MensajeCPU, GestionarNuevaCPU, FinProceso, ProcesoExpropiado, FinQuantum,
       Excepcion, VerificarInterrupciones, GestionarCierreCpu,
       SignalCPU, DejarYRemover, DejarCPU, hilos, TipoCola
  <2>2. \/ principal' = principal
        \/ principal.rutina = "selector" /\ principal'.rutina \notin {"bloqueo", "desbloqueo"}
    <3>1. CASE FinQuantum(c)
      <4>1. PICK r \in {"finQuantum", "finQuantumCierre"} :
              DejarCPU(c, {"finQuantum"}, r, "ninguno")
        BY <3>1 DEF FinQuantum
      <4> QED
        BY <4>1 DEF DejarCPU, Atender
    <3>2. CASE ~FinQuantum(c)
      BY <1>3, <3>2 DEF MensajeCPU, GestionarNuevaCPU, FinProceso, ProcesoExpropiado,
         Excepcion, VerificarInterrupciones, GestionarCierreCpu,
         SignalCPU, DejarYRemover, DejarCPU, Atender, hilos
    <3> QED
      BY <3>1, <3>2
  <2> QED
    BY <1>2, <2>1, <2>2
<1>4. CASE OperacionPrincipal
  <2>1. PICK op \in {"aCodigos", "ociosa", "removerEjec", "aEspera", "aListos",
                     "devolverSem", "desinterrumpir"} : Paso(op)
    BY <1>4 DEF OperacionPrincipal, EncolarCodigo, CambiarEstadoCpu,
       RemoverDeColaEjecucion, EncolarEspera, EncolarListo, DevolverSemaforo, QuitarInterrupcion
  <2>2. semaforo' = semaforo
    BY <1>4 DEF OperacionPrincipal, EncolarCodigo, CambiarEstadoCpu,
       RemoverDeColaEjecucion, EncolarEspera, EncolarListo, DevolverSemaforo, QuitarInterrupcion
  <2>3. cola'.bloqueados = cola.bloqueados
    BY <1>1, <1>4 DEF OperacionPrincipal, EncolarCodigo, CambiarEstadoCpu,
       RemoverDeColaEjecucion, EncolarEspera, EncolarListo, DevolverSemaforo,
       QuitarInterrupcion, TipoCola
  <2>4. op \notin {"ninguna", "aBloqueados", "aSemaforo", "desbloquear"}
    OBVIOUS
  <2> QED
    BY <2>1, <2>2, <2>3, <2>4, PasoNoBloquea
<1>5. CASE GestionarNuevoPrograma
  BY <1>1, <1>2, <1>5 DEF GestionarNuevoPrograma, Atender, TipoCola
<1>6. CASE CortoPlazo
  <2>1. UNCHANGED <<semaforo, principal>>
    BY <1>6 DEF CortoPlazo, CortoVerificaPausa, CortoEsperaReanudar, CortoEsperaCPU,
       CortoEsperaListo, SacarListo, MirarOciosas, EnviarPcb, RegistrarEjecucion,
       DevolverAListos, AjenoAlCorto
  <2>2. cola'.bloqueados = cola.bloqueados
    BY <1>1, <1>6 DEF CortoPlazo, CortoVerificaPausa, CortoEsperaReanudar, CortoEsperaCPU,
       CortoEsperaListo, SacarListo, MirarOciosas, EnviarPcb, RegistrarEjecucion,
       DevolverAListos, TipoCola
  <2> QED
    BY <1>2, <2>1, <2>2
<1>7. CASE LargoPlazo
  <2>1. UNCHANGED <<semaforo, principal>>
    BY <1>7 DEF LargoPlazo, LargoVerificaPausa, LargoEsperaReanudar, LargoEsperaAdmitir,
       SacarNuevo, CrearProceso, AumentarGrado, RechazarProceso, AjenoAlLargo
  <2>2. cola'.bloqueados = cola.bloqueados
    BY <1>1, <1>7 DEF LargoPlazo, LargoVerificaPausa, LargoEsperaReanudar, LargoEsperaAdmitir,
       SacarNuevo, CrearProceso, AumentarGrado, RechazarProceso, TipoCola
  <2> QED
    BY <1>2, <2>1, <2>2
<1>8. CASE FinProcesos
  <2>1. UNCHANGED <<semaforo, principal>>
    BY <1>8 DEF FinProcesos, FinEspera, FinTomaEspera, FinSaca, FinTermina, FinSueltaEspera,
       AjenoAlFin
  <2>2. cola'.bloqueados = cola.bloqueados
    BY <1>1, <1>8 DEF FinProcesos, FinEspera, FinTomaEspera, FinSaca, FinTermina,
       FinSueltaEspera, Terminar, TipoCola
  <2> QED
    BY <1>2, <2>1, <2>2
<1>9. CASE Usuario \/ UNCHANGED vars
  BY <1>2, <1>9 DEF Usuario, Pausar, PausarEspera, Reanudar, PostPlanificacion, PedirGrado,
     ModificarGrado, AjenoAlUsuario, vars
<1> QED
  BY <1>3, <1>4, <1>5, <1>6, <1>7, <1>8, <1>9 DEF Next, Vivir, Reposo, Caido

Esta(l, p) == IF Contains(l, p) THEN 1 ELSE 0

\* Only the semaphore s changes.
Salvo(m, k, s) == \A t \in Semaforos \ {s} : k[t] = m[t]

LEMMA UnSemaforo ==
  ASSUME NEW m, NEW k, NEW s \in Semaforos, Salvo(m, k, s),
         NEW p, IsFiniteSet(DondeEspera(m, p))
  PROVE  /\ IsFiniteSet(DondeEspera(k, p))
         /\ Cardinality(DondeEspera(m, p)) \in Nat /\ Cardinality(DondeEspera(k, p)) \in Nat
         /\ Cardinality(DondeEspera(k, p))
              = Cardinality(DondeEspera(m, p)) - Esta(m[s].pids, p) + Esta(k[s].pids, p)
<1>1. DondeEspera(k, p) \ {s} = DondeEspera(m, p) \ {s}
  BY DEF DondeEspera, Salvo
<1>2. DondeEspera(k, p) \subseteq DondeEspera(m, p) \cup {s}
  BY <1>1
<1>3. IsFiniteSet(DondeEspera(k, p))
  <2>1. IsFiniteSet(DondeEspera(m, p) \cup {s})
    BY FS_AddElement
  <2> QED
    BY <1>2, <2>1, FS_Subset
<1>4. /\ Dentro(s, DondeEspera(m, p)) = Esta(m[s].pids, p)
      /\ Dentro(s, DondeEspera(k, p)) = Esta(k[s].pids, p)
  BY DEF Dentro, DondeEspera, Esta
<1> QED
  BY <1>1, <1>3, <1>4, SalvoUno

LEMMA EsperasSiguen ==
  ASSUME IInv, IInv', Pedidos = {}, SinMuertes, UnaCopia, UnaCopia', EsperasEnOrden,
         [Next]_vars
  PROVE  /\ EsperasEnOrden'
         /\ DesbloquearProceso => principal'.pid = principal.pid /\ principal.pid \in Pids
<1>1. /\ cola \in TipoCola
      /\ \A s \in Semaforos : semaforo[s].pids \in Seq(Pids) /\ semaforo'[s].pids \in Seq(Pids)
      /\ \A p \in Pids : cola.bloqueados[p] \in Nat /\ cola.bloqueados[p] <= 1
  BY UnaVezBloqueado DEF IInv, TypeOK, TipoSemaforo
<1>2. /\ \A p \in Pids : /\ IsFiniteSet(DondeEspera(semaforo, p))
                         /\ Cardinality(DondeEspera(semaforo, p)) \in Nat
                         /\ Cardinality(DondeEspera(semaforo, p)) + PorEncolar(principal, p)
                              + PorDesbloquear(principal, p) = cola.bloqueados[p]
      /\ \A s \in Semaforos, p \in Pids : Veces(semaforo[s].pids, p) <= 1
      /\ principal.rutina = "bloqueo" => principal.sem \in Semaforos
      /\ principal.rutina = "desbloqueo" => principal.pid \in Pids
  BY FS_CardinalityType DEF EsperasEnOrden, Esperando
<1>3. ASSUME principal'.rutina = "bloqueo" => principal'.sem \in Semaforos,
             principal'.rutina = "desbloqueo" => principal'.pid \in Pids,
             \A s \in Semaforos, p \in Pids : Veces(semaforo'[s].pids, p) <= 1,
             \A p \in Pids : /\ IsFiniteSet(DondeEspera(semaforo', p))
                             /\ Cardinality(DondeEspera(semaforo', p)) + PorEncolar(principal', p)
                                  + PorDesbloquear(principal', p) = cola'.bloqueados[p]
      PROVE  EsperasEnOrden'
  BY <1>3 DEF EsperasEnOrden, Esperando
<1>4. ASSUME \A s \in Semaforos : semaforo'[s].pids = semaforo[s].pids
      PROVE  /\ \A p \in Pids : DondeEspera(semaforo', p) = DondeEspera(semaforo, p)
             /\ \A s \in Semaforos, p \in Pids : Veces(semaforo'[s].pids, p) <= 1
  BY <1>2, <1>4 DEF DondeEspera
<1>5. ASSUME NEW c \in CPUs, NEW s \in Semaforos, WaitSemaforo(c, s)
      PROVE  EsperasEnOrden'
  <2>1. /\ principal.rutina = "selector"
        /\ \A t \in Semaforos : semaforo'[t].pids = semaforo[t].pids
        /\ \/ /\ principal'.rutina = "bloqueo" /\ principal'.sem = s
           \/ principal' = principal
    BY <1>5, PasosDeSemaforo
  <2>2. cola'.bloqueados = cola.bloqueados
    BY <1>1, <1>5 DEF WaitSemaforo, DejarYRemover, TipoCola
  <2>3. principal' = principal \/ principal'.paso = 1
    BY <1>5 DEF WaitSemaforo, DejarYRemover, DejarCPU, Atender, hilos
  <2>4. \A p \in Pids : /\ PorEncolar(principal', p) = PorEncolar(principal, p)
                        /\ PorDesbloquear(principal', p) = PorDesbloquear(principal, p)
    BY <2>1, <2>3 DEF PorEncolar, PorDesbloquear
  <2>5. /\ \A p \in Pids : DondeEspera(semaforo', p) = DondeEspera(semaforo, p)
        /\ \A t \in Semaforos, p \in Pids : Veces(semaforo'[t].pids, p) <= 1
    BY <1>4, <2>1
  <2> QED
    BY <1>2, <1>3, <2>1, <2>2, <2>4, <2>5
<1>6. ASSUME NEW c \in CPUs, NEW s \in Semaforos, SignalSemaforo(c, s)
      PROVE  EsperasEnOrden'
  <2>1. /\ principal.rutina = "selector"
        /\ \A t \in Semaforos \ {s} : semaforo'[t] = semaforo[t]
        /\ \/ /\ semaforo[s].pids = <<>> /\ semaforo'[s].pids = <<>>
              /\ principal' = principal
           \/ /\ semaforo[s].pids # <<>> /\ semaforo'[s].pids = Tail(semaforo[s].pids)
              /\ principal'.rutina = "desbloqueo"
              /\ principal'.pid = Head(semaforo[s].pids) /\ principal'.paso = 1
    BY <1>6, PasosDeSemaforo
  <2>2. cola' = cola
    BY <1>6 DEF SignalSemaforo
  <2>3. CASE semaforo[s].pids = <<>>
    <3>1. \A t \in Semaforos : semaforo'[t].pids = semaforo[t].pids
      BY <2>1, <2>3
    <3>2. principal' = principal
      BY <2>1, <2>3
    <3>3. /\ \A p \in Pids : DondeEspera(semaforo', p) = DondeEspera(semaforo, p)
          /\ \A t \in Semaforos, p \in Pids : Veces(semaforo'[t].pids, p) <= 1
      BY <1>4, <3>1
    <3> QED
      BY <1>2, <1>3, <2>2, <3>2, <3>3
  <2>4. CASE semaforo[s].pids # <<>>
    <3> DEFINE l == semaforo[s].pids
               q == Head(l)
    <3>1. l \in Seq(Pids) /\ l # <<>>
      BY <1>1, <2>4
    <3>2. q \in Pids /\ \A p : Veces(Tail(l), p) = Veces(l, p) - Uno(q, p)
      BY <3>1, VecesCola
    <3>3. \A p \in Pids : /\ Veces(l, p) \in Nat /\ Veces(l, p) <= 1
                          /\ Veces(Tail(l), p) \in Nat
                          /\ Contains(l, p) <=> Veces(l, p) > 0
                          /\ Contains(Tail(l), p) <=> Veces(Tail(l), p) > 0
      BY <1>2, <3>1, VecesNat, VecesCola
    <3>4. semaforo'[s].pids = Tail(l) /\ principal'.rutina = "desbloqueo"
          /\ principal'.paso = 1 /\ principal'.pid = q
      BY <2>1, <2>4
    <3> HIDE DEF l, q
    <3>5. \A t \in Semaforos, p \in Pids : Veces(semaforo'[t].pids, p) <= 1
      <4>1. \A p \in Pids : Veces(Tail(l), p) <= 1
        BY <3>2, <3>3 DEF Uno
      <4> QED
        BY <1>2, <2>1, <3>4, <4>1
    <3>6. ASSUME NEW p \in Pids
          PROVE  /\ IsFiniteSet(DondeEspera(semaforo', p))
                 /\ Cardinality(DondeEspera(semaforo', p)) + PorEncolar(principal', p)
                      + PorDesbloquear(principal', p) = cola'.bloqueados[p]
      <4>1. /\ IsFiniteSet(DondeEspera(semaforo', p))
            /\ Cardinality(DondeEspera(semaforo', p)) \in Nat
            /\ Cardinality(DondeEspera(semaforo', p))
                 = Cardinality(DondeEspera(semaforo, p)) - Esta(semaforo[s].pids, p)
                     + Esta(semaforo'[s].pids, p)
        <5>1. IsFiniteSet(DondeEspera(semaforo, p))
              /\ Salvo(semaforo, semaforo', s)
          BY <1>2, <2>1 DEF Salvo
        <5> QED
          BY ONLY <5>1, UnSemaforo, s \in Semaforos
      <4>2. Esta(semaforo[s].pids, p) = Esta(Tail(l), p) + Uno(q, p)
        <5>1. /\ Veces(Tail(l), p) = Veces(l, p) - Uno(q, p) /\ Uno(q, p) \in {0, 1}
              /\ Veces(l, p) \in Nat /\ Veces(l, p) <= 1 /\ Veces(Tail(l), p) \in Nat
              /\ Contains(l, p) <=> Veces(l, p) > 0
              /\ Contains(Tail(l), p) <=> Veces(Tail(l), p) > 0
          BY <3>2, <3>3 DEF Uno
        <5>2. Esta(l, p) = Esta(Tail(l), p) + Uno(q, p)
          BY ONLY <5>1 DEF Esta
        <5> QED
          BY <5>2 DEF l
      <4>3. /\ PorEncolar(principal', p) = 0 /\ PorDesbloquear(principal', p) = Uno(q, p)
            /\ PorEncolar(principal, p) = 0 /\ PorDesbloquear(principal, p) = 0
        BY <2>1, <3>4 DEF PorEncolar, PorDesbloquear, Uno
      <4>4. Esta(Tail(l), p) \in {0, 1} /\ Uno(q, p) \in {0, 1}
        BY DEF Esta, Uno
      <4> QED
        BY <1>2, <2>2, <3>4, <4>1, <4>2, <4>3, <4>4
    <3> QED
      <4>1. /\ principal'.rutina # "bloqueo" /\ principal'.pid \in Pids
            /\ principal'.rutina = "bloqueo" => principal'.sem \in Semaforos
        BY <3>2, <3>4
      <4> QED
        BY <1>3, <3>5, <3>6, <4>1
  <2> QED
    BY <2>3, <2>4
<1>7. ASSUME EncolarBloqueado PROVE EsperasEnOrden'
  <2>1. Paso("aBloqueados") /\ "aBloqueados" # "ninguna" /\ semaforo' = semaforo
        /\ cola' = [cola EXCEPT !.bloqueados = Sumar(cola.bloqueados, principal.pid)]
    BY <1>7 DEF EncolarBloqueado
  <2>2. /\ principal.rutina \in Rutinas /\ principal.paso \in 1..Len(Guion[principal.rutina])
        /\ "aBloqueados" = Guion[principal.rutina][principal.paso]
        /\ \/ /\ principal'.rutina = principal.rutina /\ principal'.sem = principal.sem
              /\ principal'.paso = principal.paso + 1 /\ principal'.pid = principal.pid
           \/ principal.paso = Len(Guion[principal.rutina])
    BY <2>1, PasoLleva
  <2>3. principal.rutina = "bloqueo" /\ principal.paso = 2 /\ Len(Guion[principal.rutina]) = 3
    BY <2>2, OperacionesDe
  <2>4. /\ principal'.rutina = "bloqueo" /\ principal'.paso = 3
        /\ principal'.sem = principal.sem /\ principal'.pid = principal.pid
    BY <2>2, <2>3
  <2>5. principal.pid \in Pids
    BY <2>3, RutinasSon DEF IInv, ConProceso
  <2>6. \A p \in Pids : cola'.bloqueados[p] = cola.bloqueados[p] + Uno(principal.pid, p)
    <3>1. cola'.bloqueados = Sumar(cola.bloqueados, principal.pid)
      BY <1>1, <2>1 DEF TipoCola
    <3>2. /\ cola.bloqueados \in Bolsas
          /\ cola'.bloqueados = [cola.bloqueados EXCEPT ![principal.pid] = @ + 1]
      BY <1>1, <3>1 DEF TipoCola, Sumar
    <3> QED
      BY <1>1, <2>5, <3>2 DEF Bolsas, Uno
  <2>7. \A p \in Pids : /\ PorEncolar(principal', p) = Uno(principal.pid, p)
                        /\ PorEncolar(principal, p) = 0
                        /\ PorDesbloquear(principal', p) = 0
                        /\ PorDesbloquear(principal, p) = 0 /\ Uno(principal.pid, p) \in {0, 1}
    BY <2>3, <2>4 DEF PorEncolar, PorDesbloquear, Uno
  <2>8. \A p \in Pids : /\ IsFiniteSet(DondeEspera(semaforo', p))
                        /\ Cardinality(DondeEspera(semaforo', p)) + PorEncolar(principal', p)
                             + PorDesbloquear(principal', p) = cola'.bloqueados[p]
    BY <1>1, <1>2, <2>1, <2>6, <2>7
  <2> QED
    <3>1. /\ \A s \in Semaforos, p \in Pids : Veces(semaforo'[s].pids, p) <= 1
          /\ principal'.sem \in Semaforos /\ principal'.rutina # "desbloqueo"
      BY <1>2, <2>1, <2>3, <2>4
    <3> QED
      BY <1>3, <2>8, <3>1
<1>8. ASSUME EncolarProcesoBloqueadoASemaforo PROVE EsperasEnOrden'
  <2> DEFINE s == principal.sem
             l == semaforo[s].pids
             q == principal.pid
  <2>1. /\ principal.rutina = "bloqueo" /\ principal.paso = 3 /\ principal'.rutina = "selector"
        /\ \A u \in Semaforos \ {s} : semaforo'[u] = semaforo[u]
        /\ s \in Semaforos /\ semaforo'[s].pids = Append(l, q) /\ q \in Pids
    BY <1>2, <1>8, PasoASemaforo DEF SinRutina
  <2>2. cola' = cola
    BY <1>8 DEF EncolarProcesoBloqueadoASemaforo
  <2>3. \A p \in Pids : /\ PorEncolar(principal', p) = 0 /\ PorDesbloquear(principal', p) = 0
                        /\ PorEncolar(principal, p) = Uno(q, p)
                        /\ PorDesbloquear(principal, p) = 0
    BY <2>1 DEF PorEncolar, PorDesbloquear, Uno
  <2>4. l \in Seq(Pids) /\ Append(l, q) \in Seq(Pids)
    BY <1>1, <2>1
  <2>5. \A p \in Pids : /\ Veces(l, p) \in Nat /\ Veces(l, p) <= 1
                        /\ Veces(Append(l, q), p) = Veces(l, p) + Uno(q, p)
                        /\ Contains(l, p) <=> Veces(l, p) > 0
                        /\ Contains(Append(l, q), p) <=> Veces(Append(l, q), p) > 0
    <3>1. /\ \A p \in Pids : Veces(l, p) <= 1
          /\ q \in Pids
      BY <1>2, <2>1
    <3> HIDE DEF s, l, q
    <3>2. \A p : Veces(l, p) \in Nat /\ (Contains(l, p) <=> Veces(l, p) > 0)
      BY <2>4, VecesNat
    <3>3. \A p : Contains(Append(l, q), p) <=> Veces(Append(l, q), p) > 0
      BY <2>4, VecesNat
    <3>4. \A p : Veces(Append(l, q), p) = Veces(l, p) + Uno(q, p)
      BY <2>4, <3>1, VecesAgregar
    <3> QED
      BY <3>1, <3>2, <3>3, <3>4
  <2>6. Veces(l, q) = 0
    <3>1. Cardinality(DondeEspera(semaforo, q)) + 1 + 0 = cola.bloqueados[q]
      BY <1>2, <2>1, <2>3 DEF Uno
    <3>2. Cardinality(DondeEspera(semaforo, q)) = 0
      BY <1>1, <1>2, <2>1, <3>1
    <3>3. DondeEspera(semaforo, q) = {}
      BY <1>2, <2>1, <3>2, FS_EmptySet
    <3>4. ~Contains(l, q)
      BY <2>1, <3>3 DEF DondeEspera
    <3> QED
      BY <2>1, <2>5, <3>4
  <2>7. ASSUME NEW p \in Pids
        PROVE  /\ Veces(Append(l, q), p) <= 1
               /\ Esta(Append(l, q), p) = Esta(l, p) + Uno(q, p)
    <3>1. CASE p = q
      BY <2>5, <2>6, <3>1 DEF Uno, Esta
    <3>2. CASE p # q
      BY <2>5, <3>2 DEF Uno, Esta
    <3> QED
      BY <3>1, <3>2
  <2>8. \A t \in Semaforos, p \in Pids : Veces(semaforo'[t].pids, p) <= 1
    BY <1>2, <2>1, <2>7
  <2>9. ASSUME NEW p \in Pids
        PROVE  /\ IsFiniteSet(DondeEspera(semaforo', p))
               /\ Cardinality(DondeEspera(semaforo', p)) + PorEncolar(principal', p)
                    + PorDesbloquear(principal', p) = cola'.bloqueados[p]
    <3>1. /\ IsFiniteSet(DondeEspera(semaforo', p))
          /\ Cardinality(DondeEspera(semaforo', p)) \in Nat
          /\ Cardinality(DondeEspera(semaforo', p))
               = Cardinality(DondeEspera(semaforo, p)) - Esta(l, p) + Esta(semaforo'[s].pids, p)
      <4>1. /\ IsFiniteSet(DondeEspera(semaforo, p)) /\ s \in Semaforos
            /\ Salvo(semaforo, semaforo', s)
        BY <1>2, <2>1 DEF Salvo
      <4> HIDE DEF s
      <4>2. /\ IsFiniteSet(DondeEspera(semaforo', p))
            /\ Cardinality(DondeEspera(semaforo', p)) \in Nat
            /\ Cardinality(DondeEspera(semaforo', p))
                 = Cardinality(DondeEspera(semaforo, p)) - Esta(semaforo[s].pids, p)
                     + Esta(semaforo'[s].pids, p)
        BY ONLY <4>1, UnSemaforo
      <4> QED
        BY <4>2
    <3>2. Esta(semaforo'[s].pids, p) = Esta(l, p) + Uno(q, p)
      BY <2>1, <2>7
    <3>3. Esta(l, p) \in {0, 1} /\ Uno(q, p) \in {0, 1}
      BY DEF Esta, Uno
    <3> HIDE DEF s, l, q
    <3> QED
      BY <1>2, <2>2, <2>3, <3>1, <3>2, <3>3
  <2>10. principal'.rutina # "bloqueo" /\ principal'.rutina # "desbloqueo"
    BY <2>1
  <2> QED
    BY <1>3, <2>8, <2>9, <2>10
<1>9. ASSUME DesbloquearProceso
      PROVE  EsperasEnOrden' /\ principal'.pid = principal.pid /\ principal.pid \in Pids
  <2>1. /\ principal.rutina \in Rutinas /\ principal.paso \in 1..Len(Guion[principal.rutina])
        /\ Guion[principal.rutina][principal.paso] = "desbloquear"
        /\ cola' = [cola EXCEPT !.bloqueados = Restar(cola.bloqueados, principal.pid)]
        /\ semaforo' = semaforo
    BY <1>9 DEF DesbloquearProceso, Operacion, IInv, ConProceso
  <2>2. principal.rutina = "desbloqueo" /\ principal.paso = 1
    BY <2>1, SoloDesbloqueo
  <2> DEFINE q == principal.pid
  <2>3. q \in Pids
    BY <1>2, <2>2
  <2>4. \A p \in Pids : /\ PorEncolar(principal, p) = 0
                        /\ PorDesbloquear(principal, p) = Uno(q, p) /\ Uno(q, p) \in {0, 1}
    BY <2>2 DEF PorEncolar, PorDesbloquear, Uno
  <2>5. cola.bloqueados[q] > 0
    <3>1. Cardinality(DondeEspera(semaforo, q)) + 0 + 1 = cola.bloqueados[q]
      BY <1>2, <2>3, <2>4 DEF Uno
    <3> QED
      BY <1>2, <2>3, <3>1
  <2>6. /\ principal'.rutina = "desbloqueo" /\ principal'.paso = 2 /\ principal'.pid = q
    BY <1>9, <2>2, <2>5 DEF DesbloquearProceso, IInv, TypeOK, TipoPrincipal
  <2>7. \A p \in Pids : PorEncolar(principal', p) = 0 /\ PorDesbloquear(principal', p) = 0
    BY <2>6 DEF PorEncolar, PorDesbloquear
  <2>8. \A p \in Pids : cola'.bloqueados[p] = cola.bloqueados[p] - Uno(q, p)
    BY <1>1, <2>1, <2>3, <2>5 DEF Restar, TipoCola, Bolsas, Uno
  <2>9. \A p \in Pids : /\ IsFiniteSet(DondeEspera(semaforo', p))
                        /\ Cardinality(DondeEspera(semaforo', p)) + PorEncolar(principal', p)
                             + PorDesbloquear(principal', p) = cola'.bloqueados[p]
    BY <1>1, <1>2, <2>1, <2>4, <2>7, <2>8
  <2> QED
    <3>1. /\ \A s \in Semaforos, p \in Pids : Veces(semaforo'[s].pids, p) <= 1
          /\ principal'.pid \in Pids /\ principal'.rutina # "bloqueo"
      BY <1>2, <2>1, <2>3, <2>6
    <3>2. EsperasEnOrden'
      BY <1>3, <2>9, <3>1
    <3> QED
      BY <2>3, <2>6, <3>2
<1>10. ASSUME BloqueadosQuietos PROVE EsperasEnOrden'
  <2>1. /\ semaforo' = semaforo /\ cola'.bloqueados = cola.bloqueados
        /\ \A p \in Pids : /\ PorEncolar(principal', p) = PorEncolar(principal, p)
                           /\ PorDesbloquear(principal', p) = PorDesbloquear(principal, p)
        /\ principal'.rutina = "bloqueo" => principal'.sem \in Semaforos
        /\ principal'.rutina = "desbloqueo" => principal'.pid \in Pids
    BY <1>2, <1>10 DEF BloqueadosQuietos
  <2> QED
    BY <1>2, <1>3, <2>1
<1>11. CASE ~DesbloquearProceso
  BY <1>5, <1>6, <1>7, <1>8, <1>10, <1>11, BloqueadosAparte, SinMuertesQuietos
<1> QED
  BY <1>9, <1>11

LEMMA InicioEsperas == Init => EsperasEnOrden
<1> SUFFICES ASSUME Init PROVE EsperasEnOrden
  OBVIOUS
<1>1. /\ \A s \in Semaforos : semaforo[s].pids = <<>>
      /\ principal.rutina = "selector" /\ \A p \in Pids : cola.bloqueados[p] = 0
  BY DEF Init, SinRutina
<1>2. \A s \in Semaforos, p \in Pids : Veces(semaforo[s].pids, p) = 0
  BY <1>1, VecesVacia
<1>3. ASSUME NEW p \in Pids PROVE DondeEspera(semaforo, p) = {}
  <2>1. \A s \in Semaforos : semaforo[s].pids \in Seq(Pids)
    BY <1>1, EmptySeq
  <2>2. \A s \in Semaforos : ~Contains(semaforo[s].pids, p)
    BY <1>2, <2>1, VecesNat
  <2> QED
    BY <2>2 DEF DondeEspera
<1>4. ASSUME NEW p \in Pids
      PROVE  /\ IsFiniteSet(DondeEspera(semaforo, p))
             /\ Esperando(semaforo, principal, p) = cola.bloqueados[p]
  <2>1. PorEncolar(principal, p) = 0 /\ PorDesbloquear(principal, p) = 0
    BY <1>1 DEF PorEncolar, PorDesbloquear
  <2> QED
    <3>1. IsFiniteSet(DondeEspera(semaforo, p)) /\ Cardinality(DondeEspera(semaforo, p)) = 0
      BY <1>3, FS_EmptySet
    <3> QED
      BY <1>1, <2>1, <3>1 DEF Esperando
<1> QED
  BY <1>1, <1>2, <1>4 DEF EsperasEnOrden

\* While no program is killed, a process of colaBloqueados is in the list of
\* exactly one semaphore, or the main thread is about to put it there, and a pid
\* of such a list is in colaBloqueados: desbloquearProceso finds who it looks for.
THEOREM BloqueadoEsperaUnSemaforo ==
  ASSUME Pedidos = {}
  PROVE  Spec => []BloqueadosEnSemaforo
<1>1. /\ IInv /\ IInv' /\ UnaCopia /\ UnaCopia' /\ SinMuertes /\ EsperasEnOrden
      /\ [Next]_vars
      => SinMuertes' /\ EsperasEnOrden'
  BY SinMuertesSiguen, EsperasSiguen
<1>2. IInv /\ EsperasEnOrden => BloqueadosEnSemaforo
  <2> SUFFICES ASSUME IInv, EsperasEnOrden, NEW p \in Pids
               PROVE  Cardinality(DondeEspera(semaforo, p))
                        = cola.bloqueados[p]
                          - Booleano(principal.rutina = "bloqueo" /\ principal.pid = p
                                       /\ ~Falta({"aBloqueados"}))
                          - Booleano(principal.rutina = "desbloqueo" /\ principal.pid = p
                                       /\ Falta({"desbloquear"}))
    BY DEF BloqueadosEnSemaforo, DondeEspera
  <2>1. /\ principal.rutina \in Rutinas => principal.paso \in 1..Len(Guion[principal.rutina])
    BY DEF IInv, ConProceso
  <2>2. principal.rutina = "bloqueo" => (~Falta({"aBloqueados"}) <=> principal.paso = 3)
    <3> SUFFICES ASSUME principal.rutina = "bloqueo"
                 PROVE  ~Falta({"aBloqueados"}) <=> principal.paso = 3
      OBVIOUS
    <3>1. principal.paso \in 1..3
      BY <2>1, RutinasSon
    <3> QED
      BY <3>1, RutinasSon DEF Falta
  <2>3. principal.rutina = "desbloqueo" => (Falta({"desbloquear"}) <=> principal.paso = 1)
    <3> SUFFICES ASSUME principal.rutina = "desbloqueo"
                 PROVE  Falta({"desbloquear"}) <=> principal.paso = 1
      OBVIOUS
    <3>1. principal.paso \in 1..3
      BY <2>1, RutinasSon
    <3> QED
      BY <3>1, RutinasSon DEF Falta
  <2>4. Booleano(principal.rutina = "bloqueo" /\ principal.pid = p /\ ~Falta({"aBloqueados"}))
          = PorEncolar(principal, p)
    BY <2>2 DEF Booleano, PorEncolar
  <2>5. Booleano(principal.rutina = "desbloqueo" /\ principal.pid = p /\ Falta({"desbloquear"}))
          = PorDesbloquear(principal, p)
    BY <2>3 DEF Booleano, PorDesbloquear
  <2>6. /\ Cardinality(DondeEspera(semaforo, p)) \in Nat
        /\ Cardinality(DondeEspera(semaforo, p)) + PorEncolar(principal, p)
             + PorDesbloquear(principal, p) = cola.bloqueados[p]
        /\ PorEncolar(principal, p) \in {0, 1} /\ PorDesbloquear(principal, p) \in {0, 1}
    BY FS_CardinalityType DEF EsperasEnOrden, Esperando, PorEncolar, PorDesbloquear
  <2>7. Cardinality(DondeEspera(semaforo, p))
          = cola.bloqueados[p] - PorEncolar(principal, p) - PorDesbloquear(principal, p)
    BY <2>6
  <2> QED
    BY <2>4, <2>5, <2>7
<1>3. IInvLugar => UnaCopia
  BY DEF IInvLugar
<1> QED
  BY <1>1, <1>2, <1>3, InicioSinMuertes, InicioEsperas, Invariante, Lugar, PTL DEF Spec

-----------------------------------------------------------------------------
(* sem_admitirNuevoProceso, while the planning is never paused, the degree *)
(* never changed and Memoria refuses nobody                                *)

\* A program that has arrived and whose code is not listed yet: its post is to come.
EnAlta(r) == IF r.rutina = "nuevoPrograma" THEN 1 ELSE 0
Decide(k) == IF k.paso = "decidir" THEN 1 ELSE 0
Admite(k) == IF k.paso \in {"crear", "aumentarGrado"} THEN 1 ELSE 0

Avisos == sem.admitir + EnAlta(principal)
NuevosAvisos == sem'.admitir + EnAlta(principal')

\* Outside administrarNuevosProcesos: one token more for one program more, or one
\* place more.
AdmitirCubierto ==
  /\ largo' = largo /\ grado'.maximo = grado.maximo
  /\ \/ /\ Len(cola'.nuevos) <= Len(cola.nuevos) /\ grado'.actual = grado.actual
        /\ NuevosAvisos = Avisos
     \/ /\ Len(cola'.nuevos) <= Len(cola.nuevos) + 1 /\ grado'.actual >= grado.actual - 1
        /\ NuevosAvisos = Avisos + 1

LEMMA AdmitirIgual ==
  ASSUME IInv, UNCHANGED <<largo, grado>>, cola'.nuevos = cola.nuevos,
         sem'.admitir = sem.admitir, EnAlta(principal') = EnAlta(principal)
  PROVE  AdmitirCubierto
<1>1. Len(cola.nuevos) \in Nat
  BY DEF IInv, TypeOK, TipoCola
<1> QED
  BY <1>1 DEF AdmitirCubierto, Avisos, NuevosAvisos

LEMMA SoloNuevoPrograma ==
  ASSUME NEW r \in Rutinas, NEW i \in 1..Len(Guion[r]), Guion[r][i] = "aCodigos"
  PROVE  r = "nuevoPrograma" /\ Len(Guion[r]) = 1
<1>1. CASE r = "nuevoPrograma"
  BY <1>1, RutinasSon
<1>7. CASE r = "finProceso"
  BY <1>7, RutinasSon
<1>2. CASE r \in {"finQuantum", "finQuantumCierre"}
  BY <1>2, RutinasSon
<1>3. CASE r \in {"excepcion", "stackOverflow"}
  BY <1>3, RutinasSon
<1>4. CASE r = "bloqueo"
  BY <1>4, RutinasSon
<1>5. CASE r = "expropiado"
  BY <1>5, RutinasSon
<1>6. CASE r = "desbloqueo"
  BY <1>6, RutinasSon
<1> QED
  BY <1>1, <1>2, <1>3, <1>4, <1>5, <1>6, <1>7, RutinasSon

\* terminarProceso leaves a place and posts for it.
LEMMA AdmitirTrasTerminar ==
  ASSUME IInv, NEW p, Terminar(p), largo' = largo, EnAlta(principal') = EnAlta(principal)
  PROVE  AdmitirCubierto
<1>1. /\ Len(cola.nuevos) \in Nat /\ cola'.nuevos = cola.nuevos /\ grado.actual \in Int
      /\ grado'.actual = grado.actual - 1 /\ grado'.maximo = grado.maximo
  BY DEF IInv, TypeOK, TipoCola, TipoGrado, Terminar
<1>2. sem'.admitir = sem.admitir + 1 /\ sem.admitir \in Nat /\ EnAlta(principal) \in {0, 1}
  BY FichasPuestas, FichasSon DEF Terminar, Dentro, EnAlta
<1>3. NuevosAvisos = Avisos + 1
  BY <1>2 DEF Avisos, NuevosAvisos
<1>4. Len(cola'.nuevos) <= Len(cola.nuevos) + 1 /\ grado'.actual >= grado.actual - 1
  BY <1>1
<1> QED
  BY <1>1, <1>3, <1>4 DEF AdmitirCubierto

LEMMA AdmitirOperacion ==
  ASSUME IInv, OperacionPrincipal
  PROVE  AdmitirCubierto
<1>1. /\ cola \in TipoCola /\ sem.admitir \in Nat
      /\ UNCHANGED <<largo, grado>>
  BY FichasSon DEF IInv, TypeOK, OperacionPrincipal, EncolarCodigo, CambiarEstadoCpu,
     RemoverDeColaEjecucion, EncolarEspera, EncolarListo, EncolarBloqueado,
     EncolarProcesoBloqueadoASemaforo, DesbloquearProceso, DevolverSemaforo,
     QuitarInterrupcion, AjenoAlPrincipal
<1>2. cola'.nuevos = cola.nuevos
  BY <1>1 DEF OperacionPrincipal, EncolarCodigo, CambiarEstadoCpu,
     RemoverDeColaEjecucion, EncolarEspera, EncolarListo, EncolarBloqueado,
     EncolarProcesoBloqueadoASemaforo, DesbloquearProceso, DevolverSemaforo,
     QuitarInterrupcion, TipoCola
<1>3. CASE EncolarCodigo
  <2>1. Paso("aCodigos") /\ "aCodigos" # "ninguna" /\ Postear({"admitir"})
    BY <1>3 DEF EncolarCodigo
  <2>2. /\ principal.rutina \in Rutinas /\ principal.paso \in 1..Len(Guion[principal.rutina])
        /\ "aCodigos" = Guion[principal.rutina][principal.paso]
        /\ \/ principal.paso < Len(Guion[principal.rutina])
           \/ principal' = SinRutina
    BY <2>1, PasoLleva
  <2>3. principal.rutina = "nuevoPrograma" /\ principal' = SinRutina
    <3>1. principal.rutina = "nuevoPrograma" /\ Len(Guion[principal.rutina]) = 1
      BY <2>2, SoloNuevoPrograma
    <3> QED
      BY <2>2, <3>1
  <2>4. sem'.admitir = sem.admitir + 1
    BY <2>1, FichasPuestas DEF Dentro
  <2>5. EnAlta(principal) = 1 /\ EnAlta(principal') = 0
    BY <2>3 DEF EnAlta, SinRutina
  <2>6. Len(cola.nuevos) \in Nat
    BY <1>1 DEF TipoCola
  <2> QED
    BY <1>1, <1>2, <2>4, <2>5, <2>6 DEF AdmitirCubierto, Avisos, NuevosAvisos
<1>4. CASE DesbloquearProceso
  <2>1. /\ principal'.rutina = principal.rutina /\ sem' = sem
    BY <1>4 DEF DesbloquearProceso, IInv, TypeOK, TipoPrincipal
  <2> QED
    BY <1>1, <1>2, <2>1, AdmitirIgual DEF EnAlta
<1>5. CASE ~EncolarCodigo /\ ~DesbloquearProceso
  <2>1. PICK op \in {"ociosa", "removerEjec", "aEspera", "aListos", "aBloqueados", "aSemaforo",
                     "devolverSem", "desinterrumpir"} : Paso(op)
    BY <1>5 DEF OperacionPrincipal, CambiarEstadoCpu, RemoverDeColaEjecucion, EncolarEspera,
       EncolarListo, EncolarBloqueado, EncolarProcesoBloqueadoASemaforo, DevolverSemaforo,
       QuitarInterrupcion
  <2>2. /\ principal.rutina \in Rutinas /\ principal.paso \in 1..Len(Guion[principal.rutina])
        /\ op = Guion[principal.rutina][principal.paso]
        /\ principal'.rutina = principal.rutina \/ principal' = SinRutina
    BY <2>1, PasoLleva
  <2>3. principal.rutina # "nuevoPrograma"
    BY <2>2, RutinasSon
  <2>4. EnAlta(principal) = 0 /\ EnAlta(principal') = 0
    BY <2>2, <2>3 DEF EnAlta, SinRutina
  <2>5. \/ sem' = sem \/ Postear(PostsDeOciosa) \/ Postear({"fin"}) \/ Postear(PostsDeListo)
        \/ Postear({"cpu"})
    BY <1>5 DEF OperacionPrincipal, CambiarEstadoCpu, RemoverDeColaEjecucion, EncolarEspera,
       EncolarListo, EncolarBloqueado, EncolarProcesoBloqueadoASemaforo, DevolverSemaforo,
       QuitarInterrupcion
  <2>6. "admitir" \notin PostsDeOciosa /\ "admitir" \notin PostsDeListo
    BY DEF PostsDeOciosa, PostsDeListo
  <2>7. sem'.admitir = sem.admitir
    BY <1>1, <2>5, <2>6, FichasPuestas DEF Dentro
  <2> QED
    BY <1>1, <1>2, <2>4, <2>7, AdmitirIgual
<1> QED
  BY <1>3, <1>4, <1>5

LEMMA AdmitirAparte ==
  ASSUME IInv, GradosNuevos = {}, MataEnSuRutina, [Next]_vars, ~LargoPlazo
  PROVE  AdmitirCubierto
<1>1. /\ cola \in TipoCola /\ cola.nuevos \in Seq(Pids) /\ Len(cola.nuevos) \in Nat
      /\ sem.admitir \in Nat
  BY FichasSon DEF IInv, TypeOK, TipoCola
<1>2. ASSUME UNCHANGED <<largo, grado>>, cola'.nuevos = cola.nuevos, sem'.admitir = sem.admitir,
             \/ principal' = principal
             \/ /\ principal'.rutina # "nuevoPrograma" /\ principal.rutina # "nuevoPrograma"
      PROVE  AdmitirCubierto
  BY <1>2, AdmitirIgual DEF EnAlta
<1>3. ASSUME NEW c \in CPUs, MensajeCPU(c) \/ SignalCPU(c)
      PROVE  AdmitirCubierto
  <2>1. UNCHANGED <<largo, grado>>
    BY <1>3 DEF MensajeCPU, GestionarNuevaCPU, FinProceso, ProcesoExpropiado, FinQuantum,
       Excepcion, WaitSemaforo, SignalSemaforo, VerificarInterrupciones, GestionarCierreCpu,
       SignalCPU, DejarYRemover, DejarCPU, hilos
  <2>2. cola'.nuevos = cola.nuevos
    BY <1>1, <1>3 DEF MensajeCPU, GestionarNuevaCPU, FinProceso, ProcesoExpropiado, FinQuantum,
       Excepcion, WaitSemaforo, SignalSemaforo, VerificarInterrupciones, GestionarCierreCpu,
       SignalCPU, DejarYRemover, TipoCola
  <2>3. sem' = sem \/ Postear({"cpu"})
    BY <1>3 DEF MensajeCPU, GestionarNuevaCPU, FinProceso, FinQuantum, ProcesoExpropiado,
       Excepcion, WaitSemaforo, SignalSemaforo, VerificarInterrupciones, GestionarCierreCpu,
       SignalCPU, DejarYRemover, DejarCPU
  <2>4. sem'.admitir = sem.admitir
    BY <1>1, <2>3, FichasPuestas DEF Dentro
  <2>5. ASSUME NEW s \in Semaforos, WaitSemaforo(c, s) \/ SignalSemaforo(c, s)
        PROVE  AdmitirCubierto
    BY <1>2, <2>1, <2>2, <2>4, <2>5 DEF WaitSemaforo, SignalSemaforo, DejarYRemover, DejarCPU,
       Atender, hilos
  <2>6. CASE FinProceso(c) \/ ProcesoExpropiado(c)
             \/ (\E r \in {"excepcion", "stackOverflow"} : Excepcion(c, r))
    BY <1>2, <2>1, <2>2, <2>4, <2>6 DEF FinProceso, ProcesoExpropiado, Excepcion,
       DejarYRemover, DejarCPU, Atender
  <2>7. CASE FinQuantum(c)
    <3>1. PICK r \in {"finQuantum", "finQuantumCierre"} :
            DejarCPU(c, {"finQuantum"}, r, "ninguno")
      BY <2>7 DEF FinQuantum
    <3> QED
      BY <1>2, <2>1, <2>2, <2>4, <3>1 DEF DejarCPU, Atender
  <2>8. CASE VerificarInterrupciones(c) \/ SignalCPU(c) \/ GestionarNuevaCPU(c)
             \/ GestionarCierreCpu(c)
    BY <1>2, <2>1, <2>2, <2>4, <2>8 DEF VerificarInterrupciones, SignalCPU, GestionarNuevaCPU,
       GestionarCierreCpu, hilos
  <2> QED
    BY <1>3, <2>5, <2>6, <2>7, <2>8 DEF MensajeCPU
<1>4. CASE OperacionPrincipal
  BY <1>4, AdmitirOperacion
<1>5. CASE GestionarNuevoPrograma
  <2>1. /\ UNCHANGED <<largo, grado, sem>> /\ cola'.nuevos = Append(cola.nuevos, contadorPid + 1)
        /\ principal.rutina = "selector" /\ principal'.rutina = "nuevoPrograma"
    BY <1>1, <1>5 DEF GestionarNuevoPrograma, Atender, TipoCola
  <2>2. contadorPid + 1 \in Pids /\ grado.actual \in Int
    BY <1>5, ConstantesOK DEF ConstantesOK, GestionarNuevoPrograma, IInv, TypeOK, TipoGrado, Pids
  <2>3. Len(cola'.nuevos) = Len(cola.nuevos) + 1
    BY <1>1, <2>1, <2>2, AgregarAlFinal
  <2>4. EnAlta(principal) = 0 /\ EnAlta(principal') = 1
    BY <2>1 DEF EnAlta
  <2> QED
    BY <1>1, <2>1, <2>2, <2>3, <2>4 DEF AdmitirCubierto, Avisos, NuevosAvisos
<1>6. CASE CortoPlazo
  <2>1. UNCHANGED <<largo, grado, principal>>
    BY <1>6 DEF CortoPlazo, CortoVerificaPausa, CortoEsperaReanudar, CortoEsperaCPU,
       CortoEsperaListo, SacarListo, MirarOciosas, EnviarPcb, RegistrarEjecucion,
       DevolverAListos, AjenoAlCorto
  <2>2. cola'.nuevos = cola.nuevos
    BY <1>1, <1>6 DEF CortoPlazo, CortoVerificaPausa, CortoEsperaReanudar, CortoEsperaCPU,
       CortoEsperaListo, SacarListo, MirarOciosas, EnviarPcb, RegistrarEjecucion,
       DevolverAListos, TipoCola
  <2>3. sem' = sem \/ Wait("planif") \/ Wait("cpu") \/ Wait("listo") \/ Postear({"listo"})
    BY <1>6 DEF CortoPlazo, CortoVerificaPausa, CortoEsperaReanudar, CortoEsperaCPU,
       CortoEsperaListo, SacarListo, MirarOciosas, EnviarPcb, RegistrarEjecucion,
       DevolverAListos
  <2>4. sem'.admitir = sem.admitir
    BY <1>1, <2>3, FichasPuestas, FichaTomada DEF Dentro, Uno
  <2> QED
    BY <1>2, <2>1, <2>2, <2>4
<1>7. CASE FinProcesos
  <2>1. UNCHANGED <<largo, principal>>
    BY <1>7 DEF FinProcesos, FinEspera, FinTomaEspera, FinSaca, FinTermina, FinSueltaEspera,
       AjenoAlFin
  <2>2. CASE FinTermina /\ ConTabla(fin.pid)
    BY <2>1, <2>2, AdmitirTrasTerminar DEF FinTermina
  <2>3. CASE ~(FinTermina /\ ConTabla(fin.pid))
    <3>1. grado' = grado /\ (sem' = sem \/ Wait("fin"))
      BY <1>7, <2>3 DEF FinProcesos, FinEspera, FinTomaEspera, FinSaca, FinTermina,
         FinSueltaEspera
    <3>2. cola'.nuevos = cola.nuevos
      BY <1>1, <1>7, <2>3 DEF FinProcesos, FinEspera, FinTomaEspera, FinSaca, FinTermina,
         FinSueltaEspera, TipoCola
    <3>3. sem'.admitir = sem.admitir
      BY <1>1, <3>1, FichaTomada DEF Uno
    <3> QED
      BY <1>2, <2>1, <3>1, <3>2, <3>3
  <2> QED
    BY <2>2, <2>3
<1>8. CASE Usuario
  <2>1. Pausar \/ PausarEspera \/ Reanudar \/ PostPlanificacion
    BY <1>8 DEF Usuario, PedirGrado
  <2>2. UNCHANGED <<largo, grado, principal, cola>>
    BY <2>1 DEF Pausar, PausarEspera, Reanudar, PostPlanificacion, AjenoAlUsuario
  <2>3. sem'.admitir = sem.admitir
    <3>1. CASE PausarEspera
      BY <1>1, <3>1, FichaTomada DEF PausarEspera, Uno
    <3>2. CASE PostPlanificacion
      BY <1>1, <3>2, FichasPuestas DEF PostPlanificacion, Dentro
    <3>3. CASE Pausar \/ Reanudar
      BY <3>3 DEF Pausar, Reanudar, IInv, TypeOK, TipoSem
    <3> QED
      BY <2>1, <3>1, <3>2, <3>3
  <2> QED
    BY <1>2, <2>2, <2>3
<1>9. ASSUME NEW h \in HilosMata, Matar(h)
      PROVE  AdmitirCubierto
  <2>1. largo' = largo
    BY <1>9 DEF Matar, MataToma, MataBuscaEspera, MataBuscaEjecucion, MataBuscaCPU,
       MataInterrumpe, MataBuscaNuevos, MataBuscaListos, MataEsperaToken, MataBuscaBloqueados,
       MataTermina, AjenoAMata
  <2>2. \/ principal' = principal
        \/ principal'.rutina # "nuevoPrograma" /\ principal.rutina # "nuevoPrograma"
    BY <1>9, MatarPrincipal DEF SinRutina
  <2>3. EnAlta(principal') = EnAlta(principal)
    BY <2>2 DEF EnAlta
  <2>4. CASE MataTermina(h) /\ ConTabla(mata[h].pid)
    BY <2>1, <2>3, <2>4, AdmitirTrasTerminar DEF MataTermina
  <2>5. CASE MataBuscaNuevos(h)
    <3>1. /\ UNCHANGED <<sem, grado>>
          /\ cola' = cola \/ /\ Contains(cola.nuevos, mata[h].pid)
                             /\ cola' = [cola EXCEPT !.nuevos = RemoveFirst(cola.nuevos, mata[h].pid)]
      BY <2>5 DEF MataBuscaNuevos
    <3>2. Len(cola'.nuevos) <= Len(cola.nuevos)
      <4>1. ASSUME Contains(cola.nuevos, mata[h].pid),
                   cola' = [cola EXCEPT !.nuevos = RemoveFirst(cola.nuevos, mata[h].pid)]
            PROVE  Len(cola'.nuevos) <= Len(cola.nuevos)
        <5>1. cola'.nuevos = RemoveFirst(cola.nuevos, mata[h].pid)
          BY <1>1, <4>1 DEF TipoCola
        <5> QED
          BY <1>1, <4>1, <5>1, QuitarPrimero
      <4> QED
        BY <1>1, <3>1, <4>1
    <3> QED
      BY <2>1, <2>3, <3>1, <3>2 DEF AdmitirCubierto, Avisos, NuevosAvisos
  <2>6. CASE ~MataBuscaNuevos(h) /\ ~(MataTermina(h) /\ ConTabla(mata[h].pid))
    <3>1. grado' = grado /\ (sem' = sem \/ Wait("listo"))
      BY <1>9, <2>6 DEF Matar, MataToma, MataBuscaEspera, MataBuscaEjecucion, MataBuscaCPU,
         MataInterrumpe, MataBuscaListos, MataEsperaToken, MataBuscaBloqueados, MataTermina
    <3>2. cola'.nuevos = cola.nuevos
      BY <1>1, <1>9, <2>6 DEF Matar, MataToma, MataBuscaEspera, MataBuscaEjecucion,
         MataBuscaCPU, MataInterrumpe, MataBuscaListos, DejarListos, MataEsperaToken,
         MataBuscaBloqueados, MataTermina, TipoCola
    <3>3. sem'.admitir = sem.admitir
      BY <1>1, <3>1, FichaTomada DEF Uno
    <3> QED
      BY <1>2, <2>1, <2>2, <3>1, <3>2, <3>3
  <2> QED
    BY <2>4, <2>5, <2>6
<1>10. ASSUME NEW h \in HilosMata, NEW q \in Pids, PedirFin(h, q)
       PROVE  AdmitirCubierto
  <2>1. UNCHANGED <<largo, grado, cola, sem>>
    BY <1>10 DEF PedirFin, AjenoAMata
  <2> QED
    BY <1>2, <1>10, <2>1, PedirFinAvisa
<1>11. CASE UNCHANGED vars
  BY <1>2, <1>11 DEF vars
<1> QED
  BY <1>3, <1>4, <1>5, <1>6, <1>7, <1>8, <1>9, <1>10, <1>11 DEF Next, Vivir, Reposo, Caido

LEMMA AdmisionSon ==
  /\ AdmisionContada <=>
       \/ Len(cola.nuevos) <= Avisos + Decide(largo)
       \/ grado.maximo - grado.actual - Admite(largo) <= Avisos + Decide(largo)
  /\ AdmisionContada' <=>
       \/ Len(cola'.nuevos) <= NuevosAvisos + Decide(largo')
       \/ grado'.maximo - grado'.actual - Admite(largo') <= NuevosAvisos + Decide(largo')
<1>1. /\ Booleano(principal.rutina = "nuevoPrograma") = EnAlta(principal)
      /\ Booleano(largo.paso = "decidir") = Decide(largo)
      /\ Booleano(largo.paso \in {"crear", "aumentarGrado"}) = Admite(largo)
      /\ Booleano(principal'.rutina = "nuevoPrograma") = EnAlta(principal')
      /\ Booleano(largo'.paso = "decidir") = Decide(largo')
      /\ Booleano(largo'.paso \in {"crear", "aumentarGrado"}) = Admite(largo')
  BY DEF Booleano, EnAlta, Decide, Admite
<1> QED
  BY <1>1 DEF AdmisionContada, Avisos, NuevosAvisos

LEMMA AdmisionSigue ==
  ASSUME IInv, IInv', ~PausaPermitida, GradosNuevos = {}, SinMemoria = {}, MataEnSuRutina,
         EsperaContada, AdmisionContada, [Next]_vars
  PROVE  AdmisionContada'
<1>1. /\ cola \in TipoCola /\ cola.nuevos \in Seq(Pids) /\ Len(cola.nuevos) \in Nat
      /\ Len(cola'.nuevos) \in Nat /\ grado \in TipoGrado /\ largo \in TipoLargo
      /\ grado.actual \in Int /\ grado.maximo \in Int
      /\ grado'.actual \in Int /\ grado'.maximo \in Int
  BY DEF IInv, TypeOK, TipoCola, TipoGrado
<1>2. /\ Avisos \in Nat /\ NuevosAvisos \in Nat
      /\ Decide(largo) \in {0, 1} /\ Decide(largo') \in {0, 1}
      /\ Admite(largo) \in {0, 1} /\ Admite(largo') \in {0, 1}
  BY DEF Avisos, NuevosAvisos, EnAlta, Decide, Admite, IInv, TypeOK, TipoSem
<1>3. \/ Len(cola.nuevos) <= Avisos + Decide(largo)
      \/ grado.maximo - grado.actual - Admite(largo) <= Avisos + Decide(largo)
  BY AdmisionSon
<1>4. CASE ~LargoPlazo
  <2>1. AdmitirCubierto
    BY <1>4, AdmitirAparte
  <2>2. /\ grado'.maximo = grado.maximo /\ Decide(largo') = Decide(largo)
        /\ Admite(largo') = Admite(largo)
    BY <2>1 DEF AdmitirCubierto
  <2>3. \/ /\ Len(cola'.nuevos) <= Len(cola.nuevos) /\ grado'.actual = grado.actual
           /\ NuevosAvisos = Avisos
        \/ /\ Len(cola'.nuevos) <= Len(cola.nuevos) + 1 /\ grado'.actual >= grado.actual - 1
           /\ NuevosAvisos = Avisos + 1
    BY <2>1 DEF AdmitirCubierto
  <2>4. \/ Len(cola'.nuevos) <= NuevosAvisos + Decide(largo')
        \/ grado'.maximo - grado'.actual - Admite(largo') <= NuevosAvisos + Decide(largo')
    <3> DEFINE f == Avisos + Decide(largo)
               h == NuevosAvisos + Decide(largo')
               n == Len(cola.nuevos)
               m == Len(cola'.nuevos)
               g == grado.maximo - grado.actual - Admite(largo)
               k == grado'.maximo - grado'.actual - Admite(largo')
    <3>1. /\ f \in Int /\ h \in Int /\ n \in Int /\ m \in Int /\ g \in Int /\ k \in Int
      <4>1. /\ Decide(largo) \in Int /\ Decide(largo') \in Int /\ Admite(largo) \in Int
            /\ Admite(largo') \in Int
        BY <1>2
      <4>2. f \in Int /\ h \in Int
        BY <1>2, <4>1
      <4>3. g \in Int /\ k \in Int
        <5>1. /\ grado.actual \in Int /\ grado.maximo \in Int /\ Admite(largo) \in Int
              /\ grado'.actual \in Int /\ grado'.maximo \in Int /\ Admite(largo') \in Int
          BY <1>1, <4>1
        <5>2. g \in Int
          BY ONLY <5>1
        <5>3. k \in Int
          BY ONLY <5>1
        <5> QED
          BY <5>2, <5>3
      <4> QED
        BY <1>1, <4>2, <4>3
    <3>2. n <= f \/ g <= f
      BY <1>3
    <3>3. (m <= n /\ k <= g /\ h = f) \/ (m <= n + 1 /\ k <= g + 1 /\ h = f + 1)
      <4>1. CASE /\ Len(cola'.nuevos) <= Len(cola.nuevos) /\ grado'.actual = grado.actual
                 /\ NuevosAvisos = Avisos
        BY <1>1, <1>2, <2>2, <4>1
      <4>2. CASE /\ Len(cola'.nuevos) <= Len(cola.nuevos) + 1 /\ grado'.actual >= grado.actual - 1
                 /\ NuevosAvisos = Avisos + 1
        <5>1. Decide(largo) \in Int /\ Admite(largo) \in Int
          BY <1>2
        <5>2. h = f + 1
          BY <1>2, <2>2, <4>2, <5>1
        <5>3. k <= g + 1
          <6>1. /\ grado.actual \in Int /\ grado'.actual \in Int /\ grado.maximo \in Int
                /\ grado'.actual >= grado.actual - 1
            BY <1>1, <4>2
          <6> QED
            BY ONLY <2>2, <5>1, <6>1
        <5> QED
          BY <4>2, <5>2, <5>3
      <4> QED
        BY <2>3, <4>1, <4>2
    <3> HIDE DEF f, h, n, m, g, k
    <3>4. m <= h \/ k <= h
      BY ONLY <3>1, <3>2, <3>3
    <3> QED
      BY <3>4 DEF h, m, k
  <2> QED
    BY <2>4, AdmisionSon
<1>5. ASSUME UNCHANGED <<cola, grado>>, principal' = principal,
             sem'.admitir + Decide(largo') = sem.admitir + Decide(largo),
             Admite(largo') = Admite(largo)
      PROVE  AdmisionContada'
  <2>1. NuevosAvisos + Decide(largo') = Avisos + Decide(largo)
    <3>1. /\ sem.admitir \in Nat /\ sem'.admitir \in Nat /\ EnAlta(principal) \in {0, 1}
          /\ EnAlta(principal') = EnAlta(principal)
      BY <1>5 DEF IInv, TypeOK, TipoSem, EnAlta
    <3> QED
      BY <1>2, <1>5, <3>1 DEF Avisos, NuevosAvisos
  <2> QED
    BY <1>3, <1>5, <2>1, AdmisionSon
<1>6. CASE LargoVerificaPausa \/ LargoEsperaReanudar
  <2>1. /\ UNCHANGED <<cola, grado, principal>> /\ largo.paso \in {"pausa", "pausada"}
        /\ largo'.paso \in {"admitir", "pausada"}
    BY <1>1, <1>6 DEF LargoVerificaPausa, LargoEsperaReanudar, IrLargo, AjenoAlLargo, TipoLargo
  <2>2. sem'.admitir = sem.admitir
    BY <1>6, FichasSon, FichaTomada DEF LargoVerificaPausa, LargoEsperaReanudar, Uno
  <2> QED
    BY <1>5, <2>1, <2>2 DEF Decide, Admite
<1>7. CASE LargoEsperaAdmitir
  <2>1. /\ UNCHANGED <<cola, grado, principal>> /\ largo.paso = "admitir"
        /\ largo'.paso = "decidir"
    BY <1>1, <1>7 DEF LargoEsperaAdmitir, IrLargo, AjenoAlLargo, TipoLargo
  <2>2. sem'.admitir = sem.admitir - 1 /\ sem.admitir \in Nat
    BY <1>7, FichasSon, FichaTomada DEF LargoEsperaAdmitir, Uno
  <2> QED
    BY <1>5, <2>1, <2>2 DEF Decide, Admite
<1>8. CASE SacarNuevo
  <2>1. /\ largo.paso = "decidir" /\ UNCHANGED <<sem, grado, principal>> /\ flagPlanificacion
    BY <1>8 DEF SacarNuevo, AjenoAlLargo, EsperaContada
  <2>2. Decide(largo) = 1 /\ Admite(largo) = 0 /\ NuevosAvisos = Avisos
    BY <2>1 DEF Decide, Admite, Avisos, NuevosAvisos
  <2>3. CASE ~Admisible
    <3>1. largo'.paso = "pausa" /\ cola' = cola
      BY <1>1, <1>8, <2>3 DEF SacarNuevo, TipoLargo
    <3>2. Decide(largo') = 0 /\ Admite(largo') = 0
      BY <3>1 DEF Decide, Admite
    <3>3. cola.nuevos = <<>> \/ grado.actual >= grado.maximo
      BY <1>1, <2>1, <2>3 DEF Admisible
    <3>4. CASE cola.nuevos = <<>>
      <4>1. Len(cola'.nuevos) = 0
        BY <3>1, <3>4
      <4> QED
        BY <1>2, <3>2, <4>1, AdmisionSon
    <3>5. CASE grado.actual >= grado.maximo
      <4>1. grado'.maximo - grado'.actual - Admite(largo') <= NuevosAvisos + Decide(largo')
        BY <1>1, <1>2, <2>1, <3>2, <3>5
      <4> QED
        BY <4>1, AdmisionSon
    <3> QED
      BY <3>3, <3>4, <3>5
  <2>4. CASE Admisible
    <3>1. /\ largo'.paso = "crear" /\ cola'.nuevos = Tail(cola.nuevos) /\ cola.nuevos # <<>>
      BY <1>1, <1>8, <2>4 DEF SacarNuevo, Admisible, TipoCola
    <3>2. Decide(largo') = 0 /\ Admite(largo') = 1
      BY <3>1 DEF Decide, Admite
    <3>3. Len(cola'.nuevos) = Len(cola.nuevos) - 1
      BY <1>1, <3>1, EmptySeq
    <3>4. \/ Len(cola'.nuevos) <= NuevosAvisos + Decide(largo')
          \/ grado'.maximo - grado'.actual - Admite(largo') <= NuevosAvisos + Decide(largo')
      BY <1>1, <1>2, <1>3, <2>1, <2>2, <3>2, <3>3
    <3> QED
      BY <3>4, AdmisionSon
  <2> QED
    BY <2>3, <2>4
<1>9. CASE CrearProceso
  <2>1. /\ cola'.nuevos = cola.nuevos /\ UNCHANGED <<sem, grado, principal>>
        /\ largo.paso = "crear" /\ largo'.paso = "aumentarGrado"
    BY <1>1, <1>9 DEF CrearProceso, IrLargo, AjenoAlLargo, TipoLargo, TipoCola
  <2>2. /\ Decide(largo') = Decide(largo) /\ Admite(largo') = Admite(largo)
        /\ NuevosAvisos = Avisos
    BY <2>1 DEF Decide, Admite, Avisos, NuevosAvisos
  <2> QED
    BY <1>3, <2>1, <2>2, AdmisionSon
<1>10. CASE AumentarGrado
  <2>1. /\ cola' = cola /\ principal' = principal /\ grado'.maximo = grado.maximo
        /\ grado'.actual = grado.actual + 1
        /\ largo.paso = "aumentarGrado" /\ largo'.paso = "pausa" /\ Postear({"listo"})
    BY <1>1, <1>10 DEF AumentarGrado, LargoAcaba, AjenoAlLargo, TipoGrado
  <2>2. sem'.admitir = sem.admitir
    BY <2>1, FichasPuestas, FichasSon DEF Dentro
  <2>3. /\ Decide(largo) = 0 /\ Decide(largo') = 0 /\ Admite(largo) = 1 /\ Admite(largo') = 0
        /\ NuevosAvisos = Avisos
    BY <2>1, <2>2 DEF Decide, Admite, Avisos, NuevosAvisos
  <2>4. grado'.maximo - grado'.actual - Admite(largo')
          = grado.maximo - grado.actual - Admite(largo)
    BY <1>1, <2>1, <2>3
  <2> QED
    BY <1>3, <2>1, <2>3, <2>4, AdmisionSon
<1>11. ~RechazarProceso
  BY DEF RechazarProceso
<1> QED
  BY <1>4, <1>6, <1>7, <1>8, <1>9, <1>10, <1>11 DEF LargoPlazo

\* While the user neither pauses nor changes the degree and Memoria refuses no
\* program, the posts of sem_admitirNuevoProceso cover the new programs or the
\* places that are left: administrarNuevosProcesos never sleeps with both.
THEOREM AdmisionSinPausas ==
  ASSUME ~PausaPermitida, GradosNuevos = {}, SinMemoria = {}
  PROVE  Spec => []AdmisionPendiente
<1>1. Init => EsperaContada /\ AdmisionContada
  BY DEF Init, EsperaContada, AdmisionContada, Booleano, SinRutina
<1>2. /\ IInv /\ IInv' /\ IInvLugar /\ EsperaContada /\ AdmisionContada /\ [Next]_vars
      => EsperaContada' /\ AdmisionContada'
  BY EsperaSigue, AdmisionSigue DEF IInvLugar
<1>3. IInv /\ AdmisionContada => AdmisionPendiente
  <2> SUFFICES ASSUME IInv, AdmisionContada, cola.nuevos # <<>>, grado.actual < grado.maximo,
                      ~(sem.admitir > 0), principal.rutina # "nuevoPrograma",
                      largo.paso \notin {"decidir", "crear", "aumentarGrado"}
               PROVE  FALSE
    BY DEF AdmisionPendiente
  <2>1. cola.nuevos \in Seq(Pids) /\ sem.admitir \in Nat
        /\ grado.actual \in Int /\ grado.maximo \in Int
    BY FichasSon DEF IInv, TypeOK, TipoCola, TipoGrado
  <2>2. Len(cola.nuevos) \in Nat /\ Len(cola.nuevos) # 0
    BY <2>1, EmptySeq
  <2>3. Avisos = 0 /\ Decide(largo) = 0 /\ Admite(largo) = 0
    BY <2>1 DEF Avisos, EnAlta, Decide, Admite
  <2>4. Len(cola.nuevos) <= 0 \/ grado.maximo - grado.actual <= 0
    BY <2>1, <2>3, AdmisionSon
  <2> QED
    BY <2>1, <2>2, <2>4
<1> QED
  BY <1>1, <1>2, <1>3, Invariante, Lugar, PTL DEF Spec

-----------------------------------------------------------------------------
(* What brings the Kernel down, without kills, closing CPUs or a Memoria   *)
(* that refuses                                                            *)

\* Neither colaListos nor the hands of the dispatcher have a NULL.
SinNulosAlEnviar ==
  /\ cola.listos \in Seq(Pids)
  /\ corto.paso \in {"mirar", "enviar", "devolver"} => corto.pid \in Pids

LEMMA ListosAparte ==
  ASSUME IInv, Pedidos = {}, SinMuertes, [Next]_vars, ~CortoPlazo, ~EncolarListo, ~CrearProceso
  PROVE  corto' = corto /\ cola'.listos = cola.listos
<1>1. cola \in TipoCola
  BY DEF IInv, TypeOK
<1>2. ASSUME NEW c \in CPUs, MensajeCPU(c) \/ SignalCPU(c)
      PROVE  corto' = corto /\ cola'.listos = cola.listos
  <2>1. corto' = corto
    BY <1>2 DEF MensajeCPU, GestionarNuevaCPU, FinProceso, ProcesoExpropiado, FinQuantum,
       Excepcion, WaitSemaforo, SignalSemaforo, VerificarInterrupciones, GestionarCierreCpu,
       SignalCPU, DejarYRemover, DejarCPU, hilos
  <2>2. cola'.listos = cola.listos
    BY <1>1, <1>2 DEF MensajeCPU, GestionarNuevaCPU, FinProceso, ProcesoExpropiado, FinQuantum,
       Excepcion, WaitSemaforo, SignalSemaforo, VerificarInterrupciones, GestionarCierreCpu,
       SignalCPU, DejarYRemover, TipoCola
  <2> QED
    BY <2>1, <2>2
<1>3. CASE OperacionPrincipal
  <2>1. corto' = corto
    BY <1>3 DEF OperacionPrincipal, EncolarCodigo, CambiarEstadoCpu, RemoverDeColaEjecucion,
       EncolarEspera, EncolarBloqueado, EncolarProcesoBloqueadoASemaforo,
       DesbloquearProceso, DevolverSemaforo, QuitarInterrupcion, AjenoAlPrincipal
  <2>2. cola'.listos = cola.listos
    BY <1>1, <1>3 DEF OperacionPrincipal, EncolarCodigo, CambiarEstadoCpu,
       RemoverDeColaEjecucion, EncolarEspera, EncolarBloqueado,
       EncolarProcesoBloqueadoASemaforo, DesbloquearProceso, DevolverSemaforo,
       QuitarInterrupcion, TipoCola
  <2> QED
    BY <2>1, <2>2
<1>4. CASE GestionarNuevoPrograma
  BY <1>1, <1>4 DEF GestionarNuevoPrograma, TipoCola
<1>5. CASE LargoPlazo
  BY <1>1, <1>5 DEF LargoPlazo, LargoVerificaPausa, LargoEsperaReanudar, LargoEsperaAdmitir,
     SacarNuevo, AumentarGrado, RechazarProceso, AjenoAlLargo, TipoCola
<1>6. CASE FinProcesos
  BY <1>1, <1>6 DEF FinProcesos, FinEspera, FinTomaEspera, FinSaca, FinTermina,
     FinSueltaEspera, Terminar, AjenoAlFin, TipoCola
<1>7. CASE Usuario
  BY <1>7 DEF Usuario, Pausar, PausarEspera, Reanudar, PostPlanificacion, PedirGrado,
     ModificarGrado, AjenoAlUsuario
<1>8. CASE UNCHANGED vars
  BY <1>8 DEF vars
<1> QED
  BY <1>2, <1>3, <1>4, <1>5, <1>6, <1>7, <1>8, SinMuertesQuietos
     DEF Next, Vivir, Reposo, Caido

LEMMA NulosSiguen ==
  ASSUME IInv, IInv', Pedidos = {}, SinMuertes, EsperasEnOrden, SinNulosAlEnviar, [Next]_vars
  PROVE  SinNulosAlEnviar'
<1>1. /\ cola \in TipoCola /\ corto \in TipoCorto /\ cola.listos \in Seq(Pids)
      /\ corto.paso \in {"mirar", "enviar", "devolver"} => corto.pid \in Pids
  BY DEF IInv, TypeOK, SinNulosAlEnviar
<1>2. CASE EncolarListo
  <2>1. Paso("aListos") /\ "aListos" # "ninguna" /\ corto' = corto
        /\ cola'.listos = Append(cola.listos, principal.pid)
    BY <1>1, <1>2 DEF EncolarListo, AjenoAlPrincipal, TipoCola
  <2>2. principal.rutina \in Rutinas
    BY <2>1, PasoLleva
  <2>3. principal.pid \in Pids
    BY <2>2 DEF IInv, ConProceso, EsperasEnOrden
  <2>4. cola'.listos \in Seq(Pids)
    BY <1>1, <2>1, <2>3, AgregarAlFinal
  <2> QED
    BY <1>1, <2>1, <2>4 DEF SinNulosAlEnviar
<1>3. CASE CrearProceso
  <2>1. /\ corto' = corto /\ largo.pid \in Pids
        /\ cola'.listos = Append(cola.listos, largo.pid)
    BY <1>1, <1>3 DEF CrearProceso, IrLargo, AjenoAlLargo, TipoCola, IInv, ConProceso
  <2>2. cola'.listos \in Seq(Pids)
    BY <1>1, <2>1, AgregarAlFinal
  <2> QED
    BY <1>1, <2>1, <2>2 DEF SinNulosAlEnviar
<1>4. CASE SacarListo
  <2>1. CASE cola.listos = <<>>
    BY <1>1, <1>4, <2>1 DEF SacarListo, SinNulosAlEnviar
  <2>2. CASE cola.listos # <<>>
    <3>1. /\ corto' = [paso |-> "mirar", pid |-> Head(cola.listos)]
          /\ cola'.listos = Tail(cola.listos)
      BY <1>1, <1>4, <2>2 DEF SacarListo, TipoCola
    <3>2. Head(cola.listos) \in Pids /\ Tail(cola.listos) \in Seq(Pids)
      BY <1>1, <2>2, EmptySeq
    <3> QED
      BY <3>1, <3>2 DEF SinNulosAlEnviar
  <2> QED
    BY <2>1, <2>2
<1>5. CASE DevolverAListos
  <2>1. /\ corto.paso = "devolver" /\ corto'.paso = "pausa"
        /\ cola'.listos = Append(cola.listos, corto.pid)
    BY <1>1, <1>5 DEF DevolverAListos, TipoCola
  <2>2. cola'.listos \in Seq(Pids)
    BY <1>1, <2>1, AgregarAlFinal
  <2> QED
    BY <2>1, <2>2 DEF SinNulosAlEnviar
<1>6. CASE EnviarPcb \/ MirarOciosas
  <2>1. /\ corto.paso \in {"mirar", "enviar"} /\ corto'.pid = corto.pid /\ cola' = cola
    BY <1>1, <1>6 DEF EnviarPcb, MirarOciosas, IrCorto, TipoCorto
  <2> QED
    BY <1>1, <2>1 DEF SinNulosAlEnviar
<1>7. CASE CortoVerificaPausa \/ CortoEsperaReanudar \/ CortoEsperaCPU \/ CortoEsperaListo
           \/ RegistrarEjecucion
  <2>1. /\ cola'.listos = cola.listos /\ corto'.paso \notin {"mirar", "enviar", "devolver"}
    BY <1>1, <1>7 DEF CortoVerificaPausa, CortoEsperaReanudar, CortoEsperaCPU, CortoEsperaListo,
       RegistrarEjecucion, IrCorto, TipoCorto, TipoCola
  <2> QED
    BY <1>1, <2>1 DEF SinNulosAlEnviar
<1>8. CASE ~CortoPlazo /\ ~EncolarListo /\ ~CrearProceso
  <2>1. corto' = corto /\ cola'.listos = cola.listos
    BY <1>8, ListosAparte
  <2> QED
    BY <1>1, <2>1 DEF SinNulosAlEnviar
<1> QED
  BY <1>2, <1>3, <1>4, <1>5, <1>6, <1>7, <1>8 DEF CortoPlazo

LEMMA TablasAparte ==
  ASSUME IInv, Pedidos = {}, SinMuertes, [Next]_vars, ~LargoPlazo, ~FinTermina,
         ~GestionarNuevoPrograma
  PROVE  /\ UNCHANGED <<largo, contadorPid>> /\ cola'.nuevos = cola.nuevos
         /\ cola'.terminados = cola.terminados /\ adm'.tablas = adm.tablas
<1>1. cola \in TipoCola /\ adm \in TipoAdm
  BY DEF IInv, TypeOK
<1>2. ASSUME NEW c \in CPUs, MensajeCPU(c) \/ SignalCPU(c)
      PROVE  /\ UNCHANGED <<largo, contadorPid>> /\ cola'.nuevos = cola.nuevos
             /\ cola'.terminados = cola.terminados /\ adm'.tablas = adm.tablas
  <2>1. UNCHANGED <<largo, contadorPid, adm>>
    BY <1>2 DEF MensajeCPU, GestionarNuevaCPU, FinProceso, ProcesoExpropiado, FinQuantum,
       Excepcion, WaitSemaforo, SignalSemaforo, VerificarInterrupciones, GestionarCierreCpu,
       SignalCPU, DejarYRemover, DejarCPU, hilos
  <2>2. cola'.nuevos = cola.nuevos /\ cola'.terminados = cola.terminados
    BY <1>1, <1>2 DEF MensajeCPU, GestionarNuevaCPU, FinProceso, ProcesoExpropiado, FinQuantum,
       Excepcion, WaitSemaforo, SignalSemaforo, VerificarInterrupciones, GestionarCierreCpu,
       SignalCPU, DejarYRemover, TipoCola
  <2> QED
    BY <2>1, <2>2
<1>3. CASE OperacionPrincipal
  <2>1. UNCHANGED <<largo, contadorPid>>
    BY <1>3 DEF OperacionPrincipal, EncolarCodigo, CambiarEstadoCpu, RemoverDeColaEjecucion,
       EncolarEspera, EncolarListo, EncolarBloqueado, EncolarProcesoBloqueadoASemaforo,
       DesbloquearProceso, DevolverSemaforo, QuitarInterrupcion, AjenoAlPrincipal
  <2>2. adm'.tablas = adm.tablas
    BY <1>1, <1>3 DEF OperacionPrincipal, EncolarCodigo, CambiarEstadoCpu,
       RemoverDeColaEjecucion, EncolarEspera, EncolarListo, EncolarBloqueado,
       EncolarProcesoBloqueadoASemaforo, DesbloquearProceso, DevolverSemaforo,
       QuitarInterrupcion, TipoAdm
  <2>3. cola'.nuevos = cola.nuevos /\ cola'.terminados = cola.terminados
    BY <1>1, <1>3 DEF OperacionPrincipal, EncolarCodigo, CambiarEstadoCpu,
       RemoverDeColaEjecucion, EncolarEspera, EncolarListo, EncolarBloqueado,
       EncolarProcesoBloqueadoASemaforo, DesbloquearProceso, DevolverSemaforo,
       QuitarInterrupcion, TipoCola
  <2> QED
    BY <2>1, <2>2, <2>3
<1>4. CASE CortoPlazo
  <2>1. UNCHANGED <<largo, contadorPid, adm>>
    BY <1>4 DEF CortoPlazo, CortoVerificaPausa, CortoEsperaReanudar, CortoEsperaCPU,
       CortoEsperaListo, SacarListo, MirarOciosas, EnviarPcb, RegistrarEjecucion,
       DevolverAListos, AjenoAlCorto
  <2>2. cola'.nuevos = cola.nuevos /\ cola'.terminados = cola.terminados
    BY <1>1, <1>4 DEF CortoPlazo, CortoVerificaPausa, CortoEsperaReanudar, CortoEsperaCPU,
       CortoEsperaListo, SacarListo, MirarOciosas, EnviarPcb, RegistrarEjecucion,
       DevolverAListos, TipoCola
  <2> QED
    BY <2>1, <2>2
<1>5. CASE FinProcesos
  BY <1>1, <1>5 DEF FinProcesos, FinEspera, FinTomaEspera, FinSaca, FinSueltaEspera,
     AjenoAlFin, TipoCola
<1>6. CASE Usuario
  BY <1>6 DEF Usuario, Pausar, PausarEspera, Reanudar, PostPlanificacion, PedirGrado,
     ModificarGrado, AjenoAlUsuario
<1>7. CASE UNCHANGED vars
  BY <1>7 DEF vars
<1> QED
  BY <1>2, <1>3, <1>4, <1>5, <1>6, <1>7, SinMuertesQuietos
     DEF Next, Vivir, Reposo, Caido

\* A process is in colaNuevos, or in the hands of the admitter, or has its table,
\* or ended.
ConDestino(p) ==
  \/ p > contadorPid \/ p \in adm.tablas \/ Contains(cola.nuevos, p) \/ EnLargo(p)
  \/ cola.terminados[p] > 0

LEMMA DestinoSigue ==
  ASSUME IInv, IInv', Pedidos = {}, SinMemoria = {}, SinMuertes, [Next]_vars,
         NEW p \in Pids, ConDestino(p)
  PROVE  ConDestino(p)'
<1>1. /\ cola \in TipoCola /\ adm \in TipoAdm /\ largo \in TipoLargo /\ cola.nuevos \in Seq(Pids)
      /\ cola.terminados \in Bolsas /\ contadorPid \in Nat
  BY DEF IInv, TypeOK, TipoCola
<1>2. ASSUME UNCHANGED <<contadorPid, largo>>, adm'.tablas = adm.tablas,
             cola'.nuevos = cola.nuevos, cola'.terminados = cola.terminados
      PROVE  ConDestino(p)'
  BY <1>2 DEF ConDestino, EnLargo
<1>3. CASE GestionarNuevoPrograma
  <2>1. /\ UNCHANGED <<largo, adm>> /\ cola'.terminados = cola.terminados
        /\ contadorPid' = contadorPid + 1 /\ contadorPid + 1 \in Pids
        /\ cola'.nuevos = Append(cola.nuevos, contadorPid + 1)
    BY <1>1, <1>3, ConstantesOK DEF ConstantesOK, GestionarNuevoPrograma, TipoCola, Pids
  <2>2. /\ Veces(cola'.nuevos, p) = Veces(cola.nuevos, p) + Uno(contadorPid + 1, p)
        /\ cola'.nuevos \in Seq(Pids)
    BY <1>1, <2>1, VecesAgregar, AgregarAlFinal
  <2>3. Contains(cola'.nuevos, p) <=> Veces(cola'.nuevos, p) > 0
    BY <2>2, VecesNat
  <2>4. /\ Contains(cola.nuevos, p) <=> Veces(cola.nuevos, p) > 0
        /\ Veces(cola.nuevos, p) \in Nat
    BY <1>1, VecesNat
  <2>5. /\ Contains(cola.nuevos, p) => Contains(cola'.nuevos, p)
        /\ p = contadorPid + 1 => Contains(cola'.nuevos, p)
    BY <2>2, <2>3, <2>4 DEF Uno
  <2>6. p > contadorPid => p > contadorPid' \/ p = contadorPid + 1
    BY <1>1, <2>1 DEF Pids
  <2> QED
    BY <2>1, <2>5, <2>6 DEF ConDestino, EnLargo
<1>4. CASE SacarNuevo
  <2>1. CASE ~Admisible
    <3>1. UNCHANGED <<contadorPid, cola, adm>> /\ largo.paso = "decidir"
      BY <1>4, <2>1 DEF SacarNuevo, AjenoAlLargo
    <3> QED
      BY <3>1 DEF ConDestino, EnLargo
  <2>2. CASE Admisible
    <3>1. /\ contadorPid' = contadorPid /\ cola.nuevos # <<>>
          /\ largo' = [paso |-> "crear", pid |-> Head(cola.nuevos)]
          /\ cola'.nuevos = Tail(cola.nuevos) /\ cola'.terminados = cola.terminados
          /\ adm'.tablas = adm.tablas /\ largo.paso = "decidir"
      BY <1>1, <1>4, <2>2 DEF SacarNuevo, AjenoAlLargo, Admisible, TipoCola, TipoAdm
    <3>2. /\ Tail(cola.nuevos) \in Seq(Pids)
          /\ Veces(Tail(cola.nuevos), p) = Veces(cola.nuevos, p) - Uno(Head(cola.nuevos), p)
      BY <1>1, <3>1, VecesCola
    <3>3. /\ Contains(cola.nuevos, p) <=> Veces(cola.nuevos, p) > 0
          /\ Veces(cola.nuevos, p) \in Nat
      BY <1>1, VecesNat
    <3>4. Contains(Tail(cola.nuevos), p) <=> Veces(Tail(cola.nuevos), p) > 0
      BY <3>2, VecesNat
    <3>5. Contains(cola.nuevos, p) => p = Head(cola.nuevos) \/ Contains(Tail(cola.nuevos), p)
      BY <3>2, <3>3, <3>4 DEF Uno
    <3> QED
      BY <3>1, <3>5 DEF ConDestino, EnLargo
  <2> QED
    BY <2>1, <2>2
<1>5. CASE CrearProceso
  <2>1. /\ contadorPid' = contadorPid /\ adm'.tablas = adm.tablas \cup {largo.pid}
        /\ cola'.nuevos = cola.nuevos /\ cola'.terminados = cola.terminados
    BY <1>1, <1>5 DEF CrearProceso, AjenoAlLargo, TipoCola, TipoAdm
  <2> QED
    BY <2>1 DEF ConDestino, EnLargo
<1>6. CASE LargoVerificaPausa \/ LargoEsperaReanudar \/ LargoEsperaAdmitir \/ AumentarGrado
  <2>1. /\ UNCHANGED <<contadorPid, cola, adm>> /\ largo.paso # "crear"
    BY <1>6 DEF LargoVerificaPausa, LargoEsperaReanudar, LargoEsperaAdmitir, AumentarGrado,
       IrLargo, AjenoAlLargo
  <2> QED
    BY <2>1 DEF ConDestino, EnLargo
<1>7. ~RechazarProceso
  BY DEF RechazarProceso
<1>8. CASE FinTermina
  <2>1. CASE ConTabla(fin.pid)
    <3>1. /\ UNCHANGED <<contadorPid, largo>> /\ cola'.nuevos = cola.nuevos
          /\ adm'.tablas = adm.tablas \ {fin.pid}
          /\ cola'.terminados = Sumar(cola.terminados, fin.pid)
      BY <1>1, <1>8, <2>1 DEF FinTermina, Terminar, AjenoAlFin, TipoCola, TipoAdm
    <3>2. /\ cola'.terminados[p] >= cola.terminados[p] /\ cola.terminados[p] \in Nat
          /\ cola'.terminados[p] \in Nat
          /\ p = fin.pid => cola'.terminados[p] > 0
      BY <1>1, <3>1 DEF Sumar, Bolsas
    <3>3. cola.terminados[p] > 0 => cola'.terminados[p] > 0
      BY <3>2
    <3> QED
      BY <3>1, <3>2, <3>3 DEF ConDestino, EnLargo
  <2>2. CASE ~ConTabla(fin.pid)
    BY <1>2, <1>8, <2>2 DEF FinTermina, AjenoAlFin
  <2> QED
    BY <2>1, <2>2
<1>9. CASE ~LargoPlazo /\ ~FinTermina /\ ~GestionarNuevoPrograma
  BY <1>2, <1>9, TablasAparte
<1> QED
  BY <1>3, <1>4, <1>5, <1>6, <1>7, <1>8, <1>9 DEF LargoPlazo

\* administrarFinProcesos terminates the process it took out of listaEspera.
FinConProceso == fin.paso = "terminar" => fin.pid \in Pids

LEMMA FinAparte ==
  ASSUME Pedidos = {}, IInv, SinMuertes, [Next]_vars, ~FinProcesos
  PROVE  fin' = fin
<1>1. ASSUME NEW c \in CPUs, MensajeCPU(c) \/ SignalCPU(c)
      PROVE  fin' = fin
  BY <1>1 DEF MensajeCPU, GestionarNuevaCPU, FinProceso, ProcesoExpropiado, FinQuantum,
     Excepcion, WaitSemaforo, SignalSemaforo, VerificarInterrupciones, GestionarCierreCpu,
     SignalCPU, DejarYRemover, DejarCPU, hilos
<1>2. CASE OperacionPrincipal
  BY <1>2 DEF OperacionPrincipal, EncolarCodigo, CambiarEstadoCpu, RemoverDeColaEjecucion,
     EncolarEspera, EncolarListo, EncolarBloqueado, EncolarProcesoBloqueadoASemaforo,
     DesbloquearProceso, DevolverSemaforo, QuitarInterrupcion, AjenoAlPrincipal
<1>3. CASE GestionarNuevoPrograma \/ Usuario \/ UNCHANGED vars
  BY <1>3 DEF GestionarNuevoPrograma, Usuario, Pausar, PausarEspera, Reanudar,
     PostPlanificacion, PedirGrado, ModificarGrado, AjenoAlUsuario, vars
<1>4. CASE CortoPlazo
  BY <1>4 DEF CortoPlazo, CortoVerificaPausa, CortoEsperaReanudar, CortoEsperaCPU,
     CortoEsperaListo, SacarListo, MirarOciosas, EnviarPcb, RegistrarEjecucion,
     DevolverAListos, AjenoAlCorto
<1>5. CASE LargoPlazo
  BY <1>5 DEF LargoPlazo, LargoVerificaPausa, LargoEsperaReanudar, LargoEsperaAdmitir,
     SacarNuevo, CrearProceso, AumentarGrado, RechazarProceso, AjenoAlLargo
<1> QED
  BY <1>1, <1>2, <1>3, <1>4, <1>5, SinMuertesQuietos DEF Next, Vivir, Reposo, Caido

LEMMA FinConProcesoSigue ==
  ASSUME IInv, Pedidos = {}, SinMuertes, FinConProceso, [Next]_vars
  PROVE  FinConProceso'
<1>1. fin \in TipoFin /\ cola.espera \in Seq(Pids) /\ fin.indice \in Nat
  BY DEF IInv, TypeOK, TipoCola, TipoFin
<1>2. CASE FinSaca
  <2>1. fin'.pid = cola.espera[fin.indice + 1] /\ fin.indice + 1 \in 1..Len(cola.espera)
    BY <1>1, <1>2 DEF FinSaca, TipoFin
  <2> QED
    BY <1>1, <2>1 DEF FinConProceso
<1>3. CASE FinEspera \/ FinTomaEspera \/ FinSueltaEspera
  <2>1. fin'.paso # "terminar"
    BY <1>1, <1>3 DEF FinEspera, FinTomaEspera, FinSueltaEspera, TipoFin
  <2> QED
    BY <2>1 DEF FinConProceso
<1>4. CASE FinTermina
  <2>1. fin'.paso # "terminar" \/ fin' = fin
    BY <1>4 DEF FinTermina
  <2> QED
    BY <2>1 DEF FinConProceso
<1>5. CASE ~FinProcesos
  BY <1>5, FinAparte DEF FinConProceso
<1> QED
  BY <1>2, <1>3, <1>4, <1>5 DEF FinProcesos

\* ... and such a process was admitted and has not ended yet.
LEMMA EnTerminacion ==
  ASSUME IInv, IInv', UnaCopia, NEW p \in Pids, EnFin(p), ConDestino(p)
  PROVE  p \in adm.tablas
<1>1. Balance(p) /\ Copias(p) = Booleano(p <= contadorPid)
  BY SumaDeCopias DEF UnaCopia
<1>2. DeFin(fin, p) = 1
  BY DEF EnFin, DeFin
<1>3. /\ cola \in TipoCola /\ cola.nuevos \in Seq(Pids) /\ contadorPid \in Nat
  BY DEF IInv, TypeOK, TipoCola
<1>4. /\ EnListas(cola, p) \in Nat /\ EnCPUs(remoto, p) \in Nat /\ EnKills(mata, p) \in Nat
      /\ Copias(p) = EnListas(cola, p) + EnCPUs(remoto, p) + EnKills(mata, p)
                   + DePrincipal(principal, p) + DeCorto(corto, p) + DeLargo(largo, p) + 1
      /\ DePrincipal(principal, p) \in {0, 1} /\ DeCorto(corto, p) \in {0, 1}
      /\ DeLargo(largo, p) \in {0, 1}
  BY ONLY <1>1, <1>2 DEF Balance
<1>5. p <= contadorPid /\ EnListas(cola, p) = 0 /\ DeLargo(largo, p) = 0
  BY ONLY <1>1, <1>4 DEF Booleano
<1>6. Veces(cola.nuevos, p) = 0 /\ cola.terminados[p] = 0
  <2>1. /\ Veces(cola.nuevos, p) \in Nat /\ Veces(cola.listos, p) \in Nat
        /\ Veces(cola.espera, p) \in Nat /\ cola.bloqueados[p] \in Nat
        /\ cola.terminados[p] \in Nat
    BY <1>3, ListasNat
  <2> DEFINE a == Veces(cola.nuevos, p)
             b == Veces(cola.listos, p)
             c == Veces(cola.espera, p)
             d == cola.bloqueados[p]
             e == cola.terminados[p]
  <2>2. a + b + c + d + e = 0
    BY <1>5 DEF EnListas
  <2>3. a \in Nat /\ b \in Nat /\ c \in Nat /\ d \in Nat /\ e \in Nat
    BY <2>1
  <2> HIDE DEF a, b, c, d, e
  <2>4. a = 0 /\ e = 0
    BY ONLY <2>2, <2>3
  <2> QED
    BY <2>4 DEF a, e
<1>7. ~Contains(cola.nuevos, p) /\ ~EnLargo(p)
  <2>1. Contains(cola.nuevos, p) <=> Veces(cola.nuevos, p) > 0
    BY <1>3, VecesNat
  <2> QED
    BY <1>5, <1>6, <2>1 DEF EnLargo, DeLargo
<1>8. ~(p > contadorPid)
  BY <1>3, <1>5 DEF Pids
<1> QED
  BY <1>6, <1>7, <1>8 DEF ConDestino

LEMMA HayOciosa ==
  ASSUME IInv, IInv', TokensCPU, corto.paso = "enviar", IsFiniteSet(CPUs)
  PROVE  Ociosas # {}
<1>1. /\ sem.cpu \in Nat /\ Prometida(principal) \in {0, 1} /\ EnTramite(corto) = 1
      /\ Cardinality(Libres(cpu)) = sem.cpu + EnTramite(corto) + Prometida(principal)
  BY TokensCPUSon, FichasSon DEF Prometida, EnTramite
<1>2. Cardinality(Libres(cpu)) # 0
  BY <1>1
<1>3. Libres(cpu) # {}
  BY <1>2, FS_EmptySet
<1> QED
  BY <1>3 DEF Libres, Ociosas

LEMMA SinFallosSiguen ==
  ASSUME IInv, IInv', Pedidos = {}, SinMuertes, TokensCPU, SinNulosAlEnviar, FinConProceso,
         UnaCopia, \A p \in Pids : ConDestino(p), SoloFaltaCodigo, [Next]_vars
  PROVE  SoloFaltaCodigo'
<1>1. ASSUME fallo' = fallo PROVE SoloFaltaCodigo'
  BY <1>1 DEF SoloFaltaCodigo
<1>2. CASE SacarListo
  <2>1. cola.listos # <<>>
    BY <1>2, HayListo DEF SacarListo
  <2> QED
    BY <1>1, <1>2, <2>1 DEF SacarListo
<1>3. CASE EnviarPcb
  <2>1. corto.paso = "enviar"
    BY <1>3 DEF EnviarPcb
  <2>2. Ociosas # {}
    BY <2>1, HayOciosa, ConstantesOK DEF ConstantesOK
  <2>3. corto.pid # Nadie
    BY <2>1 DEF SinNulosAlEnviar, Pids, Nadie
  <2> QED
    BY <1>1, <1>3, <2>2, <2>3 DEF EnviarPcb
<1>4. CASE SacarNuevo
  <2>1. fallo' = fallo \/ fallo' = "sinCodigo"
    BY <1>4 DEF SacarNuevo, Falla
  <2> QED
    BY <2>1 DEF SoloFaltaCodigo
<1>5. CASE FinTermina
  <2>1. fin.paso = "terminar" /\ fin.pid \in Pids
    BY <1>5 DEF FinTermina, FinConProceso
  <2>2. EnFin(fin.pid)
    BY <2>1 DEF EnFin
  <2>3. ConTabla(fin.pid)
    BY <2>1, <2>2, EnTerminacion DEF ConTabla
  <2> QED
    BY <1>1, <1>5, <2>3 DEF FinTermina
<1>6. CASE CortoPlazo /\ ~SacarListo /\ ~EnviarPcb
  BY <1>1, <1>6 DEF CortoPlazo, CortoVerificaPausa, CortoEsperaReanudar, CortoEsperaCPU,
     CortoEsperaListo, MirarOciosas, RegistrarEjecucion, DevolverAListos
<1>7. CASE LargoPlazo /\ ~SacarNuevo
  BY <1>1, <1>7 DEF LargoPlazo, LargoVerificaPausa, LargoEsperaReanudar, LargoEsperaAdmitir,
     CrearProceso, AumentarGrado, RechazarProceso
<1>8. CASE FinProcesos /\ ~FinTermina
  BY <1>1, <1>8 DEF FinProcesos, FinEspera, FinTomaEspera, FinSaca, FinSueltaEspera
<1>9. ASSUME NEW c \in CPUs, MensajeCPU(c) \/ SignalCPU(c)
      PROVE  SoloFaltaCodigo'
  <2>1. fallo' = fallo
    BY <1>9 DEF MensajeCPU, GestionarNuevaCPU, FinProceso, ProcesoExpropiado, FinQuantum,
       Excepcion, WaitSemaforo, SignalSemaforo, VerificarInterrupciones, GestionarCierreCpu,
       SignalCPU, DejarYRemover, DejarCPU, hilos
  <2> QED
    BY <1>1, <2>1
<1>10. CASE OperacionPrincipal
  <2>1. fallo' = fallo
    BY <1>10 DEF OperacionPrincipal, EncolarCodigo, CambiarEstadoCpu, RemoverDeColaEjecucion,
       EncolarEspera, EncolarListo, EncolarBloqueado, EncolarProcesoBloqueadoASemaforo,
       DesbloquearProceso, DevolverSemaforo, QuitarInterrupcion, AjenoAlPrincipal
  <2> QED
    BY <1>1, <2>1
<1>11. CASE GestionarNuevoPrograma \/ Usuario \/ UNCHANGED vars
  <2>1. fallo' = fallo
    BY <1>11 DEF GestionarNuevoPrograma, Usuario, Pausar, PausarEspera, Reanudar,
       PostPlanificacion, PedirGrado, ModificarGrado, AjenoAlUsuario, vars
  <2> QED
    BY <1>1, <2>1
<1> QED
  BY <1>2, <1>3, <1>4, <1>5, <1>6, <1>7, <1>8, <1>9, <1>10, <1>11, SinMuertesQuietos
     DEF Next, Vivir, Reposo, Caido

\* What the absence of kills and of closing CPUs leaves.
SinSustos ==
  /\ SinMuertes /\ SinCierres /\ TokensCPU /\ EsperasEnOrden /\ SinNulosAlEnviar
  /\ FinConProceso /\ \A p \in Pids : ConDestino(p)

LEMMA InicioSustos ==
  ASSUME Init, Pedidos = {}, Cerrables = {}
  PROVE  SinSustos
<1>1. SinNulosAlEnviar /\ FinConProceso
  BY EmptySeq DEF Init, SinNulosAlEnviar, FinConProceso
<1>2. \A p \in Pids : ConDestino(p)
  BY DEF Init, ConDestino, Pids
<1> QED
  BY <1>1, <1>2, InicioTokens, InicioSinMuertes, InicioEsperas DEF SinSustos

LEMMA SustosSiguen ==
  ASSUME IInv, IInv', IInvLugar, IInvLugar', SinSustos, [Next]_vars,
         Pedidos = {}, Cerrables = {}, SinMemoria = {}
  PROVE  SinSustos'
<1>1. /\ CpuOciosaVacia /\ MataEnSuRutina /\ UnaCopia /\ UnaCopia'
      /\ SinMuertes /\ SinCierres /\ TokensCPU /\ EsperasEnOrden /\ SinNulosAlEnviar
      /\ FinConProceso /\ \A p \in Pids : ConDestino(p)
  BY DEF IInvLugar, SinSustos
<1>2. SinMuertes' /\ SinCierres' /\ TokensCPU'
  BY <1>1, SinMuertesSiguen, SinCierresSiguen, TokensCPUSiguen
<1>3. EsperasEnOrden'
  BY <1>1, EsperasSiguen
<1>4. SinNulosAlEnviar' /\ FinConProceso'
  BY <1>1, NulosSiguen, FinConProcesoSigue
<1>5. \A p \in Pids : ConDestino(p)'
  BY <1>1, DestinoSigue
<1> QED
  BY <1>2, <1>3, <1>4, <1>5 DEF SinSustos

\* Without kills, closing CPUs and a Memoria that refuses pages, no thread of the
\* Kernel follows a NULL but the one that looks for the code of a program that is
\* not listed yet: there is a ready process and an idle CPU for every token, a
\* signal finds its process, and who is terminated has its table of files.
THEOREM SoloPuedeFaltarElCodigo ==
  ASSUME Pedidos = {}, Cerrables = {}, SinMemoria = {}
  PROVE  Spec => []SoloFaltaCodigo
<1>1. Init => SinSustos /\ SoloFaltaCodigo
  BY InicioSustos DEF Init, SoloFaltaCodigo
<1>2. IInv /\ IInv' /\ IInvLugar /\ IInvLugar' /\ SinSustos /\ [Next]_vars => SinSustos'
  BY SustosSiguen
<1>3. IInv /\ IInv' /\ IInvLugar /\ SinSustos /\ SoloFaltaCodigo /\ [Next]_vars => SoloFaltaCodigo'
  BY SinFallosSiguen DEF IInvLugar, SinSustos
<1> QED
  BY <1>1, <1>2, <1>3, Invariante, Lugar, PTL DEF Spec

-----------------------------------------------------------------------------
(* All of it at once, when nobody pauses, kills, closes or refuses         *)

\* What the counts above rest on, named as the property says it.
LEMMA QuietaPorPartes ==
  ASSUME IInv, IInvLugar, PausaConToken, ValorCubreBloqueo, EsperaContada, AdmisionContada,
         SinSustos
  PROVE  IInvQuieta
<1>1. /\ SinMuertes /\ EsperasEnOrden /\ SinNulosAlEnviar /\ \A p \in Pids : ConDestino(p)
  BY DEF SinSustos
<1>2. Nadie \notin Pids
  BY DEF Nadie, Pids
<1>3. SemaforosSinRepetidos
  BY <1>1 DEF SemaforosSinRepetidos, SinMuertes, EsperasEnOrden
<1>4. SinNulos
  <2>1. \A i \in DOMAIN cola.listos : cola.listos[i] \in Pids
    BY <1>1 DEF SinNulosAlEnviar
  <2>2. corto.paso \in {"mirar", "enviar", "devolver"} => corto.pid \in Pids
    BY <1>1 DEF SinNulosAlEnviar
  <2>3. principal.rutina = "desbloqueo" => principal.pid \in Pids
    BY <1>1 DEF EsperasEnOrden
  <2> QED
    BY <1>2, <2>1, <2>2, <2>3 DEF SinNulos
<1>5. AdmitidosConTabla
  BY <1>1 DEF AdmitidosConTabla, ConDestino
<1> QED
  BY <1>3, <1>4, <1>5 DEF IInvQuieta

\* While the planning is not paused, the degree is fixed, nobody kills a program,
\* no CPU closes and Memoria refuses nothing, every process of the Kernel is in
\* one place, every post covers what it announces, a process waits in one place
\* of one semaphore, no NULL goes from list to list, and who was admitted has its
\* table of files until it ends: each of those facts leans on the others.
THEOREM CalmaDelPlanificador ==
  ASSUME ~PausaPermitida, GradosNuevos = {}, Pedidos = {}, Cerrables = {}, SinMemoria = {}
  PROVE  Spec => []IInvQuieta
<1>1. Init => /\ PausaConToken /\ ReanudarDespierta /\ ValorCubreBloqueo
              /\ EsperaContada /\ AdmisionContada /\ SinSustos
  <2> SUFFICES ASSUME Init
               PROVE  /\ PausaConToken /\ ReanudarDespierta /\ ValorCubreBloqueo
                      /\ EsperaContada /\ AdmisionContada /\ SinSustos
    OBVIOUS
  <2>1. PausaConToken /\ ReanudarDespierta
    BY DEF Init, PausaConToken, ReanudarDespierta, Booleano
  <2>2. EsperaContada /\ AdmisionContada
    BY DEF Init, EsperaContada, AdmisionContada, Booleano, SinRutina
  <2>3. ValorCubreBloqueo
    <3>1. \A s \in Semaforos : semaforo[s].pids = <<>> /\ semaforo[s].valor \in Int
      BY ConstantesOK DEF Init
    <3>2. principal.rutina # "bloqueo"
      BY DEF Init, SinRutina
    <3> QED
      BY <3>1, <3>2 DEF ValorCubreBloqueo, Booleano
  <2>4. SinSustos
    BY InicioSustos
  <2> QED
    BY <2>1, <2>2, <2>3, <2>4
<1>2. IInv /\ IInv' /\ PausaConToken /\ ReanudarDespierta /\ [Next]_vars
        => PausaConToken' /\ ReanudarDespierta'
  BY PausaSigue
<1>3. IInv /\ IInv' /\ ValorCubreBloqueo /\ [Next]_vars => ValorCubreBloqueo'
  BY CubreSigue
<1>4. /\ IInv /\ IInv' /\ IInvLugar /\ EsperaContada /\ AdmisionContada /\ [Next]_vars
      => EsperaContada' /\ AdmisionContada'
  BY EsperaSigue, AdmisionSigue DEF IInvLugar
<1>5. IInv /\ IInv' /\ IInvLugar /\ IInvLugar' /\ SinSustos /\ [Next]_vars => SinSustos'
  BY SustosSiguen
<1>6. /\ IInv /\ IInvLugar /\ PausaConToken /\ ValorCubreBloqueo /\ EsperaContada
      /\ AdmisionContada /\ SinSustos
      => IInvQuieta
  BY QuietaPorPartes
<1> QED
  BY <1>1, <1>2, <1>3, <1>4, <1>5, <1>6, Invariante, Lugar, PTL DEF Spec
=============================================================================
