\* Two requests over one account receivable with two withholdings.
CONSTANTS
  cobrar = cobrar
  pagar = pagar
  r1 = r1
  r2 = r2
  r3 = r3
  Nadie = Nadie
  Peticiones = {p1, p2}
  CxC = {cobrar}
  CxP = {pagar}
  Total <- MCTotal
  Retenciones = {r1, r2, r3}
  CuentaDe <- MCCuentaDe
  Valor <- MCValor
  Montos = {0, 1, 2}
  MaxRecibido = 3
SPECIFICATION MCSpec
INVARIANTS
  SaldoCuadra
  RetenidoCuadra
  RetencionUnaVez
  
PROPERTIES
  TodaPeticionTermina
CHECK_DEADLOCK FALSE
