SPECIFICATION Spec
CONSTANTS
  p1 = p1
  p2 = p2
  Nadie = Nadie
  Procesos = {p1, p2}
  CantidadPaginas = 2
  PaginasSwap = 2
  Tamanios = {0, 1, 2}
  Versiones = {1}
  MaxPaginas <- Topes
  MaxTramo = 2
  Solapan = FALSE
CHECK_DEADLOCK FALSE
INVARIANTS
  TypeOK
  MarcosDeUno
  ClockAlDia
  ContenidoIntacto
  CaeSoloSiNoEntra
