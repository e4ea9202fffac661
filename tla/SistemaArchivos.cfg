CONSTANTS
  ruta1 = ruta1
  ruta2 = ruta2
  byte1 = byte1
  byte2 = byte2
  RutasFS <- DosRutas
  TamBloque = 2
  CantBloques = 3
  Bytes <- DosBytes
  Cero = 0
  Basura = Basura
  Cursores = {0, 1, 3}
  Tamanios = {1, 3}
  Datos <- Textos
  MaxSinCerrar = 1
SPECIFICATION SpecFS
SYMMETRY Simetria
VIEW Vista
INVARIANTS
  IInvSistema
PROPERTIES
  ImplementaAlmacen
CHECK_DEADLOCK FALSE
