SPECIFICATION Spec
CONSTANTS
  b1 = b1
  b2 = b2
  x = x
  y = y
  largo = largo
  c1 = c1
  SinBloque = SinBloque
  SinNombre = SinNombre
  Nadie = Nadie
  CantNodos = 5
  Bloques = {b1, b2}
  MaxPunteros = 2
  Nombres = {x, y, largo}
  NombresLargos = {largo}
  Clientes = {c1}
  Operaciones = {"mkdir", "create", "rmdir", "unlink", "move", "truncate", "write", "utimes"}
  Profundidad = 2
  MaxCaidas = 1
SYMMETRY Simetria
CHECK_DEADLOCK FALSE
INVARIANTS
  TypeOK
  BloquesExclusivos
  BloquesMarcados
  SinPerdidas
  ArbolSano
PROPERTIES
  ArbolCorrecto
