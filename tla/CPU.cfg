CONSTANTS
  Programas <- VariosProgramas
  Cuantos = {0, 2}
  TamPagina = 18
  StackSize = 2
  Punteros = {0, 200}
  Argumentos <- DosArgumentos
  Basura = Basura
  Ninguno <- Nada
  Nombres = {"a", "b", "c", "0"}
  Valores <- ValoresPosibles
SPECIFICATION Spec
INVARIANTS
  IInvCPU
  KernelAtendido
  SinSolapar
  TamanioExacto
PROPERTIES
  ImplementaPrograma
CHECK_DEADLOCK FALSE
