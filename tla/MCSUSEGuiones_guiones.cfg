SPECIFICATION GuionSpec
CONSTANTS
  p1 = p1
  p2 = p2
  h1 = h1
  h2 = h2
  solo = solo
  afinado = afinado
  presion_emitida = presion_emitida
  presion_recibida = presion_recibida
  revolucion_emitida = revolucion_emitida
  revolucion_recibida = revolucion_recibida
  Main = Main
  Nadie = Nadie
  Programas = {p1, p2}
  Hilos = {h1, h2}
  Semaforos = {solo, afinado, presion_emitida, presion_recibida, revolucion_emitida, revolucion_recibida}
  Multiprog = 3
  SemInit <- MCInicial
  SemMax <- MCMaximo
  Estimados = {0, 1, 2}
  EstimadoInicial = 0
  Rafagas = {0, 2}
  Recalcular <- MCRecalcular
  PuedenMorir = {p2}
  SinJoin = {}
  MainConSemaforos = {}
  MaxRetenidos = 30
  MaxJoins = 1
  Guiones <- MCGuiones
CHECK_DEADLOCK FALSE
INVARIANTS
  NuncaCae
PROPERTIES
  TerminanSiNoSobra
  MasCortoPrimero
