SPECIFICATION Spec
CONSTANTS
  p1 = p1
  p2 = p2
  h1 = h1
  h2 = h2
  s1 = s1
  Main = Main
  Nadie = Nadie
  Programas = {p1, p2}
  Hilos = {h1, h2}
  Semaforos = {s1}
  Multiprog = 3
  SemInit <- MCUno
  SemMax <- MCUno
  Estimados = {0}
  EstimadoInicial = 0
  Rafagas = {0}
  Recalcular <- MCRecalcular
  PuedenMorir = {p2}
  SinJoin = {p2}
  MainConSemaforos = {}
  MaxRetenidos = 1
  MaxJoins = 2
SYMMETRY SimetriaHilos
CHECK_DEADLOCK FALSE
INVARIANTS
  TypeOK
  CuposExactos
  AdmisionAlDia
  JoinDeMain
  UnSoloLugar
  ContadorExacto
  SemaforoExacto
PROPERTIES
  TransicionesLegales
  SemaforosCorrectos
