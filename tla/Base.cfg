CONSTANTS
  c1 = c1
  c2 = c2
  m = m
  Basura = {0}
  MaxPid = 2
  CPUs <- DosCPUs
  Semaforos <- UnSemaforo
  ValorInicial <- ValorCero
  MaxValor = 1
  MaxRegistros = 2
  Grado = 2
  GradosNuevos = {}
  MaxCambios = 0
  Pedidos = {}
  PausaPermitida = FALSE
  Cerrables = {}
  SinMemoria = {}
SPECIFICATION Spec
SYMMETRY Simetria
INVARIANTS
  IInvQuieta
  TokensCPU
  EsperaAtendida
  AdmisionPendiente
  ValorCuentaBloqueados
  BloqueadosEnSemaforo
  EjecucionRegistrada
  SoloFaltaCodigo
