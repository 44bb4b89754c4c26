SPECIFICATION Spec
CONSTANTS
  T = 16
  Totales = 2
  Tamanios = {1, 4}
  Sigue = TRUE
CHECK_DEADLOCK FALSE
INVARIANT OtorgadosDisjuntos
