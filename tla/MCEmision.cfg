SPECIFICATION Spec
CONSTANTS
  Peticiones = {t1, t2}
  Ventas = {v1, v2, v3}
  Modalidad <- MCModalidad
  Inicial = 1
  MaxSecuencial = 3
  Nuevos = {1, 3}
  Nadie = Nadie
SYMMETRY MCSimetria
INVARIANTS
  SerieCorrecta
  EmisionCorrecta
