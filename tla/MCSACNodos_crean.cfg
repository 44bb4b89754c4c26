SPECIFICATION Spec
CONSTANTS
  b1 = b1
  x = x
  y = y
  c1 = c1
  c2 = c2
  SinBloque = SinBloque
  SinNombre = SinNombre
  Nadie = Nadie
  CantNodos = 4
  Bloques = {b1}
  MaxPunteros = 1
  Nombres = {x, y}
  NombresLargos = {}
  Clientes = {c1, c2}
  Operaciones = {"mkdir", "create"}
  Profundidad = 2
  MaxCaidas = 0
SYMMETRY SimetriaDos
CHECK_DEADLOCK FALSE
INVARIANTS
  NombresUnicos
