SPECIFICATION Spec
CONSTANTS
  b1 = b1
  b2 = b2
  b3 = b3
  a1 = a1
  a2 = a2
  Archivos = {a1, a2}
  Bloques = {b1, b2, b3}
  TAM_BLOQUE = 2
  MaxPunteros = 3
  Bytes = {0, 1}
  MaxPaginas = 2
SYMMETRY Simetria
INVARIANTS
  TypeOK
  LeeSalvoElUltimo
PROPERTIES
  ArchivosCorrectos
