CONSTANTS
  p1 = p1
  p2 = p2
  a = a
  b = b
  Pids <- DosProcesos
  Rutas <- DosRutas
  Banderas <- SinCrear
  Existentes <- DosRutas
  Posiciones = {0}
  MaxAbiertos = 2
  MaxEntradas = 2
  MaxOpen = 2
  FinInterrumpe = FALSE
SPECIFICATION Spec
SYMMETRY Simetria
INVARIANTS
  BorraLoQueAbrio
CHECK_DEADLOCK FALSE
