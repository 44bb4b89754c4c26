SPECIFICATION Spec
CONSTANTS
  p1 = p1
  p2 = p2
  h1 = h1
  h2 = h2
  h3 = h3
  h4 = h4
  h5 = h5
  Programas = {p1, p2}
  Hilos <- MCHilos
  Metricas = Metricas
  Main = Main
  Nadie = Nadie
  Multiprog = 3
  SemInit = 1
  SemMax = 1
  MaxRetenidos = 1
SYMMETRY Simetria
CHECK_DEADLOCK FALSE
INVARIANTS SinAbrazo CarrerasConocidas CuentasEnOrden CaeSoloSiLibera
