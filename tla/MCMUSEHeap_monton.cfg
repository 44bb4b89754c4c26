SPECIFICATION Spec
CONSTANTS
  T = 12
  Totales = 3
  Tamanios = {1, 4, 19}
  Sigue = FALSE
CHECK_DEADLOCK FALSE
INVARIANTS TypeOK SinSolape NoSePierde
