\* Two requests over one product in two bodegas: everything except the liveness.
CONSTANTS
  A = A
  B = B
  Nadie = Nadie
  Peticiones = {p1, p2}
  Bodegas = {A, B}
  Productos = {x}
  Movimientos = {m1, m2, m3}
  Datos <- MCDatos
  StockInicial <- MCStockInicial
  FilasIniciales <- MCFilasIniciales
SPECIFICATION Spec
INVARIANTS
  ProductoEsSuma
  EfectosCuadran
PROPERTIES
  LibroSpec
SYMMETRY MCSimetria
CHECK_DEADLOCK FALSE
