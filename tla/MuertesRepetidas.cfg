CONSTANTS
  c1 = c1
  c2 = c2
  m = m
  Basura = {0}
  MaxPid = 1
  CPUs <- UnaCPU
  Semaforos = {}
  ValorInicial <- SinValores
  MaxValor = 1
  MaxRegistros = 2
  Grado = 2
  GradosNuevos = {}
  MaxCambios = 1
  Pedidos <- MatanDos
  PausaPermitida = TRUE
  Cerrables <- UnaCPU
  SinMemoria = {1}
SPECIFICATION Spec
INVARIANTS
  UnSoloLugar
  GradoExacto
  ReanudarDespierta
PROPERTIES
  SePierdeAlEnviar
  ImplementaCiclo
CHECK_DEADLOCK FALSE
