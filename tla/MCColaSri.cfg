SPECIFICATION SpecConPasarela
CONSTANTS
  Documentos = {d1}
  Hilos = {h1}
  Trabajador = w
  MaxIntentos = 2
  MaxReintentos = 2
  MaxEnvios = 1
  MaxCaidas = 1
  Nadie = Nadie
INVARIANTS
  DecisionDelSri
  FilasCoherentes
PROPERTIES
  DecisionFirme
  TodoSeResuelve
CHECK_DEADLOCK FALSE
