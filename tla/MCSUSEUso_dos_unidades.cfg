SPECIFICATION UsoSpec
CONSTANTS
  p1 = p1
  p2 = p2
  h1 = h1
  h2 = h2
  s1 = s1
  Main = Main
  Nadie = Nadie
  Programas = {p2}
  Hilos = {h1, h2}
  Semaforos = {s1}
  Multiprog = 2
  SemInit <- MCDos
  SemMax <- MCDos
  Estimados = {0}
  EstimadoInicial = 0
  Rafagas = {0}
  Recalcular <- MCRecalcular
  PuedenMorir = {p2}
  SinJoin = {}
  MainConSemaforos = {}
  MaxRetenidos = 2
  MaxJoins = 1
  MuerenEsperando = {}
SYMMETRY SimetriaHilos
CHECK_DEADLOCK FALSE
INVARIANTS
  UnidadesExactas
