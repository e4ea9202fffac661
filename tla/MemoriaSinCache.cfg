CONSTANTS
  c1 = c1
  c2 = c2
  Pids = {1, 2}
  Cpus <- UnaCpu
  Marcos = 4
  MarcosAdm = 1
  EntradasCache = 2
  CacheXProc = 0
  Valores = {"x", "y"}
  MaxPaginas = 2
  DeAUna = FALSE
  Operador = {"consultar"}
SPECIFICATION Spec
INVARIANTS
  IInvMemoria
PROPERTIES
  ImplementaPaginas
CHECK_DEADLOCK FALSE
