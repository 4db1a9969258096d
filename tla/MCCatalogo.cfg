\* Three categories and one product, or two and two; one client that previews.
CONSTANTS
  Categorias = {a, b, c}
  Productos = {x, y}
  Peticiones = {t}
  Raiz = Raiz
  Nadie = Nadie
SPECIFICATION Spec
INVARIANTS
  ArbolCoherente
  ProductosColocados
PROPERTIES
  SoloReactivarMezcla
SYMMETRY MCSimetria
CONSTRAINT MCAcotado
CHECK_DEADLOCK FALSE
