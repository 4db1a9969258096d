\* Two requests over two products of one bodega, one of them without a stock row: lines
\* locked in opposite orders, racing first inserts.  Liveness, so no symmetry.
CONSTANTS
  A = A
  B = B
  Nadie = Nadie
  Peticiones = {p1, p2}
  Bodegas = {A}
  Productos = {x, y}
  Movimientos = {m1, m2}
  Datos <- MCDatosViva
  StockInicial <- MCStockInicial
  FilasIniciales <- MCFilasIniciales
SPECIFICATION SpecViva
PROPERTIES
  TodaPeticionTermina
CHECK_DEADLOCK FALSE
