SPECIFICATION Spec
CONSTANTS
  p1 = p1
  p2 = p2
  Nadie = Nadie
  Procesos = {p1}
  CantidadPaginas = 2
  PaginasSwap = 2
  Tamanios = {1}
  Versiones = {1}
  MaxPaginas <- UnSegmento
  MaxTramo = 2
  Solapan = FALSE
CHECK_DEADLOCK FALSE
INVARIANTS
  LeeLoCopiado
