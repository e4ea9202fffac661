CONSTANTS
  c1 = c1
  c2 = c2
  Pids = {1, 2}
  Cpus = {}
  Marcos = 3
  MarcosAdm = 1
  EntradasCache = 2
  CacheXProc = 1
  Valores = {"x"}
  MaxPaginas = 2
  DeAUna = TRUE
  Operador = {"vaciar"}
SPECIFICATION Spec
INVARIANTS
  EntradaSigue
PROPERTIES
  ImplementaPaginas
CHECK_DEADLOCK FALSE
