SPECIFICATION UsoSpec
CONSTANTS
  p1 = p1
  p2 = p2
  h1 = h1
  h2 = h2
  s1 = s1
  Main = Main
  Nadie = Nadie
  Programas = {p1}
  Hilos = {h1, h2}
  Semaforos = {}
  Multiprog = 3
  SemInit <- MCUno
  SemMax <- MCUno
  Estimados = {0}
  EstimadoInicial = 0
  Rafagas = {0}
  Recalcular <- MCRecalcular
  PuedenMorir = {}
  SinJoin = {}
  MainConSemaforos = {}
  MaxRetenidos = 2
  MaxJoins = 1
  MuerenEsperando = {}
CHECK_DEADLOCK FALSE
PROPERTIES
  JoinBloquea
