\* One product, two IVAs and an ICE, two measures and two requests at a time.
CONSTANTS
  Productos = {p}
  IVAs = {iva0, iva15}
  ICEs = {ice}
  Medidas = {m, n}
  Ventas = {v}
  Peticiones = {r, q}
  Nada = Nada
  UltimoDia = 2
  Reglas <- MCReglas
SPECIFICATION MCSpec
INVARIANTS
  UnTributoPorClase
  ActivasSanas
  AlgunCambioSigue
PROPERTIES
  IvaPermanece
SYMMETRY MCSimetria
CHECK_DEADLOCK FALSE
