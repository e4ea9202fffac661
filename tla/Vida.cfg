CONSTANTS
  c1 = c1
  c2 = c2
  m = m
  Basura = {0}
  MaxPid = 2
  CPUs <- UnaCPU
  Semaforos = {}
  ValorInicial <- SinValores
  MaxValor = 1
  MaxRegistros = 2
  Grado = 1
  GradosNuevos = {2}
  MaxCambios = 1
  Pedidos = {}
  PausaPermitida = FALSE
  Cerrables = {}
  SinMemoria = {}
SPECIFICATION SpecJusta
PROPERTIES
  ImplementaCiclo
  ListoEjecuta
  EsperaTermina
  NuevoAdmitido
