SPECIFICATION MCSpec
CONSTANTS
  v1 = v1
  v2 = v2
  c1 = c1
  r1 = r1
  r2 = r2
  s1 = s1
  s2 = s2
  p1 = p1
  p2 = p2
  b1 = b1
  b2 = b2
  a1 = a1
  u1 = u1
  u2 = u2
  k1 = k1
  o1 = o1
  Ventas = {v1, v2}
  Compras = {c1}
  Recibidas = {r1, r2}
  Factura <- MCFactura
  Adquisicion <- MCAdquisicion
  Retenida <- MCRetenida
  Sucursales = {s1, s2}
  SucursalDe <- MCSucursalDe
  Puntos = {p1, p2}
  LasBodegas = {b1, b2}
  BodegaInicial = b2
  Articulos = {a1}
  Costo <- MCCosto
  Formas = {u1}
  Montos = {2}
  UltimoDia = 3
  Fechas = {3}
  Mes <- MCMes
  Anio <- MCAnio
  MaxPasos = 6
  Todas = Todas
  Nulo = Nulo
INVARIANTS
  
  CobrosCuadran
  
  
CHECK_DEADLOCK FALSE
