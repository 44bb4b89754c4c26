SPECIFICATION Spec
CONSTANTS
  p1 = p1
  p2 = p2
  Nadie = Nadie
  Procesos = {p1, p2}
  CantidadPaginas = 1
  PaginasSwap = 1
  Tamanios = {1}
  Versiones = {1}
  MaxPaginas <- Topes
  MaxTramo = 2
  Solapan = TRUE
CHECK_DEADLOCK FALSE
INVARIANTS
  MarcosDeUno
