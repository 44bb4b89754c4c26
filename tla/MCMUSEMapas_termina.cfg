SPECIFICATION Spec
CONSTANTS
  p1 = p1
  p2 = p2
  a1 = a1
  a2 = a2
  Procesos = {p1, p2}
  Archivos = {a1, a2}
  NoAbren = {a2}
  Paginas = 2
  LargoInicial <- LargosDeArchivos
  CantidadPaginas = 1
  PaginasSwap = 3
  Valores = {1}
  Nadie = Nadie
  Fantasma = Fantasma
  MaxPerdidas = 2
CHECK_DEADLOCK FALSE
SYMMETRY Simetria
PROPERTY CierraSinUsuarios
