CONSTANTS
  p1 = p1
  p2 = p2
  Pids <- DosProcesos
  TamPagina = 6
  TamMeta = 1
  Tamanios = {1, 5}
  Capacidad = 2
SPECIFICATION Spec
SYMMETRY Simetria
INVARIANTS
  IInvHeap
  LibreExacto
  
  Compactada
PROPERTIES
  ImplementaAsignador
CHECK_DEADLOCK FALSE
