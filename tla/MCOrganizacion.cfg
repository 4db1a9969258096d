\* Two branches, two points, one sale; four requests in a behaviour, deletions apart.
CONSTANTS
  Sucursales = {s1, s2}
  Puntos = {p, q}
  Ventas = {v}
  Peticiones = {r1, r2}
  UltimaPeticion = 4
  CodigosSucursal <- MCCodigosSucursal
  CodigosPunto <- MCCodigosPunto
  Altas <- MCAltas
  Cambios <- MCCambios
  Archivos = {a, b}
  ClaveDe <- MCClaveDe
  CaducaEn <- MCCaducaEn
  Nada = Nada
SPECIFICATION OrgSpec
INVARIANTS
  PerfilLegal
  FirmaConSuClave
PROPERTIES
  BajaDefinitiva
  
SYMMETRY MCSimetria
CHECK_DEADLOCK FALSE
