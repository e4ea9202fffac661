CONSTANTS
  p1 = p1
  p2 = p2
  a = a
  b = b
  Pids <- DosProcesos
  Rutas <- DosRutas
  Banderas <- ConTodo
  Existentes = {}
  Posiciones = {0}
  MaxAbiertos = 2
  MaxEntradas = 2
  MaxOpen = 2
  FinInterrumpe = TRUE
SPECIFICATION Spec
SYMMETRY Simetria
INVARIANTS
  IInvArchivos
  AperturasContadas
PROPERTIES
  SinOtroDesacuerdo
CHECK_DEADLOCK FALSE
