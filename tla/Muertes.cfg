CONSTANTS
  c1 = c1
  c2 = c2
  m = m
  Basura = {0, 1}
  MaxPid = 2
  CPUs <- UnaCPU
  Semaforos <- UnSemaforo
  ValorInicial <- ValorCero
  MaxValor = 1
  MaxRegistros = 2
  Grado = 2
  GradosNuevos = {}
  MaxCambios = 0
  Pedidos <- MataUsuario
  PausaPermitida = FALSE
  Cerrables = {}
  SinMemoria = {}
SPECIFICATION Spec
INVARIANTS
  UnSoloLugar
  ListosParaElToken
  ValorAcotaBloqueados
CHECK_DEADLOCK FALSE
