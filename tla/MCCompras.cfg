\* Two bodegas, one purchase, two requests in flight; a unit in stock, two rows.
CONSTANTS
  ComprasPosibles = {c}
  Bodegas = {b, d}
  Peticiones = {t, u}
  Nadie = Nadie
  MaxStock = 1
  MaxFilas = 2
SPECIFICATION Spec
INVARIANTS
  CompraUnaVez
  RelacionDiceStock
  BajaLimpia
SYMMETRY MCSimetria
CHECK_DEADLOCK FALSE
