\* Two categories, one product, one request in flight; two definitions over two columns, two data, two snapshots.
CONSTANTS
  Categorias = {a, b}
  Productos = {x}
  Solicitudes = {t}
  Formas <- MCFormas
  Numericas <- MCNumericas
  Unidades <- MCUnidades
  Columna <- MCColumna
  Columnas <- MCColumnas
  Datos <- MCDatos
  Castea <- MCAdmite
  Defectos <- MCDefectos
  Admite <- MCAdmite
  Raiz = Raiz
  Nada = Nada
  Sin <- MCSin
  Igual <- MCIgual
  Nulo <- MCNulo
  MaxConversiones = 1
  MaxHistoria = 2
SPECIFICATION MCSpec
PROPERTIES
  SinValoresPerdidos
  SoloMoverDesajusta
  BajaReversible
  UnidadSegura
  LoVistoEsLoHecho
SYMMETRY MCSimetria
CHECK_DEADLOCK FALSE
