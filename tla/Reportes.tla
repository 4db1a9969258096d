------------------------------ MODULE Reportes ------------------------------
(***************************************************************************)
(* The management reports: fourteen queries over sales, purchases, money,  *)
(* taxes, documents and stock, written one by one and read side by side.   *)
(*                                                                         *)
(* The state is the tables they read, with the columns they read, and the  *)
(* actions are the operations that write those tables, each as one         *)
(* transaction (how requests interleave is the subject of the other        *)
(* modules).  A report is an operator, read in one state.                  *)
(*                                                                         *)
(* Abstracted: one company, whose scope is on (empresa) or off; one line   *)
(* per sale and purchase, without discount; ICE; an article always moves   *)
(* at the same cost, so its average is that cost; amounts are naturals, so *)
(* q2 and q4 change nothing; the order of the rows of a report, the names  *)
(* it shows and the percentages.                                           *)
(***************************************************************************)
EXTENDS Integers, Sequences, FiniteSets, Functions

CONSTANTS
  Ventas, Compras, Recibidas,   \* sales, purchases, withholdings received
  Factura,       \* punto, cliente, vendedor, electronica, articulo, cantidad and amounts of each sale
  Adquisicion,   \* bodega, proveedor, articulo, cantidad, amounts and withholding of each purchase
  Retenida,      \* venta, codigo and valor of each withholding received
  Sucursales, SucursalDe,       \* SucursalDe: the branch of each point and bodega
  Puntos, LasBodegas, Articulos, Costo,
  BodegaInicial,                \* where the first units of each article are
  Formas, Montos,
  UltimoDia, Mes, Anio,         \* how many days there are, and the month and year of each
  Fechas,                       \* dates a request may give instead of today
  MaxPasos,                     \* bound: operations in a behaviour
  Todas, Nulo

Dias == 1..UltimoDia

\* The totals of a sale or of a purchase, and what it moves.
Importes(d) ==
  /\ d.articulo \in Articulos /\ d.cantidad \in Nat
  /\ {d.cero, d.doce, d.quince, d.ocho, d.iva} \subseteq Nat

ASSUME ReportesSupuestos ==
  /\ \A v \in Ventas : /\ Importes(Factura[v]) /\ Factura[v].punto \in Puntos \cup {Nulo}
                        /\ Factura[v].electronica \in BOOLEAN
  /\ \A c \in Compras : /\ Importes(Adquisicion[c]) /\ Adquisicion[c].retencion \in Nat
                         /\ Adquisicion[c].bodega \in LasBodegas
  /\ \A r \in Recibidas : /\ Retenida[r].venta \in Ventas /\ Retenida[r].valor \in Nat
                           /\ Retenida[r].codigo \in {"1", "2"}
  /\ BodegaInicial \in LasBodegas
  /\ SucursalDe \in [Puntos \cup LasBodegas -> Sucursales]
  /\ Costo \in [Articulos -> Nat] /\ Montos \subseteq Nat
  /\ UltimoDia \in Nat \ {0} /\ Fechas \subseteq Dias
  /\ Nulo \notin Puntos /\ Todas \notin Sucursales \cup Puntos
  /\ Ventas \cap Compras = {}
  /\ \A S \in {Ventas, Compras, Recibidas, Sucursales, Puntos, LasBodegas, Articulos} : IsFiniteSet(S)

VARIABLES
  hoy,         \* the date
  venta,       \* sales: estado and fecha_emision
  cxc,         \* their accounts receivable
  pagos,       \* PagoCxC rows
  recibida,    \* withholdings received: estado and fecha_emision
  compra,      \* purchases: estado and fecha_emision
  cxp,         \* their accounts payable
  emitida,     \* state of the withholding issued for each purchase
  movimientos, \* inventory movements, in the order they were confirmed
  existencia,  \* InventarioStock.cantidad_actual of each bodega and article
  documento,   \* electronic document of each sale and purchase: estado_sri and creado_en
  activo,      \* branches, bodegas and articles not deleted
  directas,    \* history: withholdings received that were created APLICADA
  pasos        \* counts operations

comercio == <<venta, cxc, pagos, recibida, directas>>
abasto   == <<compra, cxp, emitida>>
bodegaje == <<movimientos, existencia>>
repVars  == <<hoy, venta, cxc, pagos, recibida, compra, cxp, emitida, movimientos,
              existencia, documento, activo, directas, pasos>>

Documentos == Ventas \cup Compras
Monto(d) == d.cero + d.doce + d.quince + d.ocho + d.iva
SinCuenta == [retenido |-> 0, pagos |-> 0, saldo |-> 0, estado |-> "NINGUNA"]

NuevoMovimiento(tipo, articulo, cantidad, bodega, de, id, fecha) ==
  [tipo |-> tipo, articulo |-> articulo, cantidad |-> cantidad, bodega |-> bodega,
   costo |-> Costo[articulo], de |-> de, id |-> id, fecha |-> fecha, estado |-> "CONFIRMADO"]

RepInit ==
  /\ hoy = 1
  /\ venta = [v \in Ventas |-> [estado |-> "NINGUNA", fecha |-> 1]]
  /\ cxc = [v \in Ventas |-> SinCuenta]
  /\ pagos = <<>>
  /\ recibida = [r \in Recibidas |-> [estado |-> "NINGUNA", fecha |-> 1]]
  /\ compra = [c \in Compras |-> [estado |-> "NINGUNA", fecha |-> 1]]
  /\ cxp = [c \in Compras |-> SinCuenta]
  /\ emitida = [c \in Compras |-> "NINGUNA"]
  /\ \E orden \in Injection(1..Cardinality(Articulos), Articulos) :
       movimientos = [k \in DOMAIN orden |->
                        NuevoMovimiento("INGRESO", orden[k], 1, BodegaInicial, "APERTURA", orden[k], 1)]
  /\ existencia = [x \in LasBodegas \X Articulos |-> IF x[1] = BodegaInicial THEN 1 ELSE 0]
  /\ documento = [d \in Documentos |-> [estado |-> "NINGUNO", dia |-> 1]]
  /\ activo = Sucursales \cup LasBodegas \cup Articulos
  /\ directas = {}
  /\ pasos = 0

-----------------------------------------------------------------------------
(* What the operations write *)

Abierta(total) == [retenido |-> 0, pagos |-> 0, saldo |-> total, estado |-> "PENDIENTE"]

Recalculada(k, total) ==
  LET s == total - k.retenido - k.pagos
  IN  [k EXCEPT !.saldo = s,
                !.estado = IF s = 0 THEN "PAGADA"
                           ELSE IF k.pagos + k.retenido > 0 THEN "PARCIAL" ELSE "PENDIENTE"]

EsSalida(m) == m.tipo \in {"EGRESO", "TRANSFERENCIA"}
Efecto(m) == IF EsSalida(m) THEN 0 - m.cantidad ELSE m.cantidad

\* crear_movimiento_borrador and confirmar_movimiento, in the caller's transaction.
ConfirmarMovimiento(m) ==
  /\ existencia[<<m.bodega, m.articulo>>] + Efecto(m) >= 0
  /\ existencia' = [existencia EXCEPT ![<<m.bodega, m.articulo>>] = @ + Efecto(m)]
  /\ movimientos' = Append(movimientos, m)

Hay(de, id) == {k \in DOMAIN movimientos :
                  /\ movimientos[k].de = de /\ movimientos[k].id = id
                  /\ movimientos[k].estado = "CONFIRMADO"}

-----------------------------------------------------------------------------
(* Sales *)

RegistrarVenta(v, f) ==
  /\ venta[v].estado = "NINGUNA"
  /\ Factura[v].articulo \in activo
  /\ venta' = [venta EXCEPT ![v] = [estado |-> "BORRADOR", fecha |-> f]]
  /\ UNCHANGED <<hoy, cxc, pagos, recibida, abasto, bodegaje, documento, activo, directas>>

\* The bodega is any that holds enough; the movement is dated today, whatever the sale says.
EmitirVenta(v, b) ==
  LET x == Factura[v]
  IN  /\ venta[v].estado = "BORRADOR"
      /\ {b, x.articulo} \subseteq activo
      /\ ConfirmarMovimiento(NuevoMovimiento("EGRESO", x.articulo, x.cantidad, b, "VENTA", v, hoy))
      /\ venta' = [venta EXCEPT ![v].estado = "EMITIDA"]
      /\ cxc' = [cxc EXCEPT ![v] = Abierta(Monto(x))]
      /\ documento' = IF x.electronica
                      THEN [documento EXCEPT ![v] = [estado |-> "EN_COLA", dia |-> hoy]]
                      ELSE documento
      /\ UNCHANGED <<hoy, pagos, recibida, abasto, activo, directas>>

\* Without a confirmed output of its own, the sale goes back to any bodega that holds enough.
AnularVenta(v, b) ==
  LET x == Factura[v]
      salida == Hay("VENTA", v)
  IN  /\ venta[v].estado = "EMITIDA"
      /\ cxc[v].pagos = 0 /\ cxc[v].retenido = 0
      /\ IF salida # {} THEN b = movimientos[CHOOSE k \in salida : TRUE].bodega
         ELSE b \in activo /\ existencia[<<b, x.articulo>>] >= x.cantidad
      /\ ConfirmarMovimiento(NuevoMovimiento("AJUSTE", x.articulo, x.cantidad, b, "ANULACION_VENTA", v, hoy))
      /\ venta' = [venta EXCEPT ![v].estado = "ANULADA"]
      /\ cxc' = [cxc EXCEPT ![v].saldo = 0, ![v].estado = "ANULADA"]
      /\ UNCHANGED <<hoy, pagos, recibida, abasto, documento, activo, directas>>

RegistrarPago(v, n, forma, f) ==
  LET k == [cxc[v] EXCEPT !.pagos = @ + n]
  IN  /\ cxc[v].estado \notin {"NINGUNA", "ANULADA"}
      /\ n <= cxc[v].saldo
      /\ pagos' = Append(pagos, [venta |-> v, monto |-> n, forma |-> forma, fecha |-> f])
      /\ cxc' = [cxc EXCEPT ![v] = Recalculada(k, Monto(Factura[v]))]
      /\ UNCHANGED <<hoy, venta, recibida, abasto, bodegaje, documento, activo, directas>>

\* The request chooses the state; the sale may still be a draft, or cancelled.
CrearRecibida(r, e, f) ==
  /\ recibida[r].estado = "NINGUNA"
  /\ venta[Retenida[r].venta].estado # "NINGUNA"
  /\ recibida' = [recibida EXCEPT ![r] = [estado |-> e, fecha |-> f]]
  /\ directas' = IF e = "APLICADA" THEN directas \cup {r} ELSE directas
  /\ UNCHANGED <<hoy, venta, cxc, pagos, abasto, bodegaje, documento, activo>>

MoverRecibida(r, desde, hasta, valor) ==
  LET v == Retenida[r].venta
      k == Recalculada([cxc[v] EXCEPT !.retenido = @ + valor], Monto(Factura[v]))
  IN  /\ recibida[r].estado = desde
      /\ cxc[v].estado \notin {"NINGUNA", "ANULADA"}
      /\ k.retenido >= 0 /\ k.saldo >= 0
      /\ recibida' = [recibida EXCEPT ![r].estado = hasta]
      /\ cxc' = [cxc EXCEPT ![v] = k]
      /\ UNCHANGED <<hoy, venta, pagos, abasto, bodegaje, documento, activo, directas>>

AplicarRecibida(r) == MoverRecibida(r, "BORRADOR", "APLICADA", Retenida[r].valor)
AnularRecibida(r) == MoverRecibida(r, "APLICADA", "ANULADA", 0 - Retenida[r].valor)

-----------------------------------------------------------------------------
(* Purchases *)

SucursalCompra(c) == SucursalDe[Adquisicion[c].bodega]

RegistrarCompra(c, f) ==
  LET x == Adquisicion[c]
  IN  /\ compra[c].estado = "NINGUNA"
      /\ {x.bodega, x.articulo} \subseteq activo
      /\ ConfirmarMovimiento(NuevoMovimiento("INGRESO", x.articulo, x.cantidad, x.bodega, "COMPRA", c, hoy))
      /\ compra' = [compra EXCEPT ![c] = [estado |-> "REGISTRADA", fecha |-> f]]
      /\ cxp' = [cxp EXCEPT ![c] = Abierta(Monto(x))]
      /\ UNCHANGED <<hoy, comercio, emitida, documento, activo>>

\* The account payable is left as it was.
AnularCompra(c) ==
  LET x == Adquisicion[c]
  IN  /\ compra[c].estado = "REGISTRADA"
      /\ SucursalCompra(c) \in activo
      /\ \E k \in Hay("COMPRA", c) :
           ConfirmarMovimiento(NuevoMovimiento("EGRESO", x.articulo, x.cantidad, movimientos[k].bodega,
                                "ANULACION_COMPRA", c, hoy))
      /\ compra' = [compra EXCEPT ![c].estado = "ANULADA"]
      /\ UNCHANGED <<hoy, comercio, cxp, emitida, documento, activo>>

PagarCompra(c, n) ==
  LET k == [cxp[c] EXCEPT !.pagos = @ + n]
  IN  /\ cxp[c].estado \notin {"NINGUNA", "ANULADA"}
      /\ SucursalCompra(c) \in activo
      /\ n <= cxp[c].saldo
      /\ cxp' = [cxp EXCEPT ![c] = Recalculada(k, Monto(Adquisicion[c]))]
      /\ UNCHANGED <<hoy, comercio, compra, emitida, bodegaje, documento, activo>>

\* crear_retencion; the route goes on to emitir_retencion, which may still refuse.
CrearRetencion(c) ==
  /\ compra[c].estado # "NINGUNA"
  /\ SucursalCompra(c) \in activo
  /\ emitida[c] = "NINGUNA"
  /\ emitida' = [emitida EXCEPT ![c] = "REGISTRADA"]
  /\ UNCHANGED <<hoy, comercio, compra, cxp, bodegaje, documento, activo>>

EmitirRetencion(c, encolar) ==
  LET k == Recalculada([cxp[c] EXCEPT !.retenido = @ + Adquisicion[c].retencion],
                       Monto(Adquisicion[c]))
  IN  /\ emitida[c] = "REGISTRADA"
      /\ SucursalCompra(c) \in activo
      /\ k.saldo >= 0
      /\ cxp' = [cxp EXCEPT ![c] = k]
      /\ emitida' = [emitida EXCEPT ![c] = IF encolar THEN "ENCOLADA" ELSE "EMITIDA"]
      /\ documento' = IF encolar THEN [documento EXCEPT ![c] = [estado |-> "EN_COLA", dia |-> hoy]]
                      ELSE documento
      /\ UNCHANGED <<hoy, comercio, compra, bodegaje, activo>>

\* The answer of the SRI: a withholding becomes EMITIDA when it is authorized.
Responder(d, e) ==
  /\ documento[d].estado = "EN_COLA"
  /\ documento' = [documento EXCEPT ![d].estado = e]
  /\ emitida' = IF d \in Compras /\ e = "AUTORIZADO" THEN [emitida EXCEPT ![d] = "EMITIDA"]
                ELSE emitida
  /\ UNCHANGED <<hoy, comercio, compra, cxp, bodegaje, activo>>

-----------------------------------------------------------------------------
(* Movements by hand, deletions, and the date *)

\* transferir_entre_bodegas: an output of one bodega and an input of another.
TransferirEntreBodegas(a, n, b, d, f) ==
  LET sale == NuevoMovimiento("TRANSFERENCIA", a, n, b, "TRANSFERENCIA", a, f)
      entra == NuevoMovimiento("INGRESO", a, n, d, "TRANSFERENCIA", a, f)
  IN  /\ b # d /\ {b, d} \subseteq activo
      /\ existencia[<<b, a>>] >= n
      /\ existencia' = [existencia EXCEPT ![<<b, a>>] = @ - n, ![<<d, a>>] = @ + n]
      /\ movimientos' = movimientos \o <<sale, entra>>
      /\ UNCHANGED <<hoy, comercio, abasto, documento, activo>>

\* anular_movimiento: its opposite is confirmed with its date, and it becomes ANULADO.
AnularMovimiento(k) ==
  LET m == movimientos[k]
      r == [m EXCEPT !.tipo = IF EsSalida(m) THEN "INGRESO" ELSE "EGRESO",
                     !.de = "REVERSO", !.id = k]
  IN  /\ m.estado = "CONFIRMADO"
      /\ existencia[<<m.bodega, m.articulo>>] - Efecto(m) >= 0
      /\ existencia' = [existencia EXCEPT ![<<m.bodega, m.articulo>>] = @ - Efecto(m)]
      /\ movimientos' = Append([movimientos EXCEPT ![k].estado = "ANULADO"], r)
      /\ UNCHANGED <<hoy, comercio, abasto, documento, activo>>

\* A branch and an article are deleted without looking at what refers to them; a bodega
\* must be empty.
Eliminar(x) ==
  /\ x \in activo
  /\ x \in LasBodegas => \A a \in Articulos : existencia[<<x, a>>] = 0
  /\ activo' = activo \ {x}
  /\ UNCHANGED <<hoy, comercio, abasto, bodegaje, documento>>

Amanecer ==
  /\ hoy + 1 \in Dias
  /\ hoy' = hoy + 1
  /\ UNCHANGED <<comercio, abasto, bodegaje, documento, activo>>

Operacion ==
  \/ \E v \in Ventas, f \in {hoy} \cup Fechas : RegistrarVenta(v, f)
  \/ \E v \in Ventas, b \in LasBodegas : EmitirVenta(v, b) \/ AnularVenta(v, b)
  \/ \E v \in Ventas, n \in Montos, forma \in Formas, f \in {hoy} \cup Fechas : RegistrarPago(v, n, forma, f)
  \/ \E r \in Recibidas : \/ AplicarRecibida(r) \/ AnularRecibida(r)
                          \/ \E e \in {"BORRADOR", "APLICADA", "ANULADA"}, f \in {hoy} \cup Fechas : CrearRecibida(r, e, f)
  \/ \E c \in Compras : \/ AnularCompra(c) \/ CrearRetencion(c)
                        \/ \E f \in {hoy} \cup Fechas : RegistrarCompra(c, f)
                        \/ \E n \in Montos : PagarCompra(c, n)
                        \/ \E encolar \in BOOLEAN : EmitirRetencion(c, encolar)
  \/ \E d \in Documentos, e \in {"AUTORIZADO", "RECHAZADO"} : Responder(d, e)
  \/ \E a \in Articulos, n \in Montos, b, d \in LasBodegas, f \in {hoy} \cup Fechas : TransferirEntreBodegas(a, n, b, d, f)
  \/ \E k \in DOMAIN movimientos : AnularMovimiento(k)
  \/ \E x \in activo : Eliminar(x)
  \/ Amanecer

RepNext ==
  /\ pasos < MaxPasos
  /\ Operacion
  /\ pasos' = pasos + 1

RepSpec == RepInit /\ [][RepNext]_repVars

-----------------------------------------------------------------------------
(* Reports on sales *)

SumaDe(f(_), S) == SumFunction([x \in S |-> f(x)])
EnRango(f, i, j) == i <= f /\ f <= j
EnMes(f, m, a) == Mes[f] = m /\ Anio[f] = a

\* A sale without a point belongs to no branch.
DeSucursal(v, s) ==
  s = Todas \/ (Factura[v].punto # Nulo /\ SucursalDe[Factura[v].punto] = s)

\* Drafts are sales like any other.
Vigentes == {v \in Ventas : venta[v].estado \in {"BORRADOR", "EMITIDA"}}
VentasDe(i, j) == {v \in Vigentes : EnRango(venta[v].fecha, i, j)}
TotalVendido(V) == SumaDe(LAMBDA v : Monto(Factura[v]), V)
Subtotal(v) == Monto(Factura[v]) - Factura[v].iva

ResumenVentas(i, j, p, s) ==
  LET V == {v \in VentasDe(i, j) : (p = Todas \/ Factura[v].punto = p) /\ DeSucursal(v, s)}
  IN  [subtotal_0  |-> SumaDe(LAMBDA v : Factura[v].cero, V),
       subtotal_12 |-> SumaDe(LAMBDA v : Factura[v].doce, V),
       monto_iva   |-> SumaDe(LAMBDA v : Factura[v].iva, V),
       total |-> TotalVendido(V), total_ventas |-> Cardinality(V)]

Agrupaciones == {"DIARIA", "MENSUAL", "ANUAL"}

\* Faulty variant of Periodo: a month is told by its number alone.
PeriodoSinAnio(f, g) ==
  CASE g = "DIARIA" -> <<f>> [] g = "MENSUAL" -> <<Mes[f]>> [] OTHER -> <<Anio[f]>>
Periodo(f, g) ==
  CASE g = "DIARIA" -> <<f>> [] g = "MENSUAL" -> <<Anio[f], Mes[f]>> [] OTHER -> <<Anio[f]>>

\* One row for each value of clave among the sales.
FilasPor(V, clave(_)) ==
  {[clave |-> k, ventas |-> {v \in V : clave(v) = k}] : k \in {clave(v) : v \in V}}

Tendencias(i, j, g) ==
  {[periodo |-> x.clave, total |-> TotalVendido(x.ventas), total_ventas |-> Cardinality(x.ventas)] :
     x \in FilasPor(VentasDe(i, j), LAMBDA v : Periodo(venta[v].fecha, g))}

\* Outer join: a sale whose creator is no user is shown under what created_by says.
PorVendedor(i, j) ==
  {[vendedor |-> x.clave, total |-> TotalVendido(x.ventas), total_ventas |-> Cardinality(x.ventas)] :
     x \in FilasPor(VentasDe(i, j), LAMBDA v : Factura[v].vendedor)}

\* _costos_historicos_por_venta
CostoHistorico(v) ==
  SumaDe(LAMBDA k : movimientos[k].cantidad * movimientos[k].costo,
         {k \in Hay("VENTA", v) : movimientos[k].tipo = "EGRESO"})

Utilidad(V) == SumaDe(LAMBDA v : Subtotal(v) - CostoHistorico(v), V)

RentabilidadPorCliente(i, j) ==
  {[cliente |-> x.clave, total_vendido |-> SumaDe(Subtotal, x.ventas),
    costo |-> SumaDe(CostoHistorico, x.ventas), utilidad |-> Utilidad(x.ventas),
    total_ventas |-> Cardinality(x.ventas)] :
     x \in FilasPor(VentasDe(i, j), LAMBDA v : Factura[v].cliente)}

RentabilidadTransaccional(i, j) ==
  {[venta |-> v, fecha |-> venta[v].fecha, subtotal |-> Subtotal(v),
    costo |-> CostoHistorico(v), utilidad |-> Utilidad({v})] : v \in VentasDe(i, j)}

ConFila(a) == {b \in LasBodegas : \E k \in DOMAIN movimientos :
                 movimientos[k].bodega = b /\ movimientos[k].articulo = a}

\* The rows before LIMIT; the cost is that of today, 0 for an article that never moved.
ProductosVendidos(i, j) ==
  {[producto |-> x.clave, cantidad |-> SumaDe(LAMBDA v : Factura[v].cantidad, x.ventas),
    vendido |-> SumaDe(Subtotal, x.ventas),
    ganancia |-> SumaDe(LAMBDA v : Subtotal(v) - (IF ConFila(x.clave) = {} THEN 0 ELSE
                                     Costo[x.clave] * Factura[v].cantidad), x.ventas)] :
     x \in FilasPor({v \in VentasDe(i, j) : Factura[v].articulo \in activo},
                 LAMBDA v : Factura[v].articulo)}

\* ORDER BY cantidad DESC LIMIT: the answers the database may give.
TopProductos(i, j, limite) ==
  LET filas == ProductosVendidos(i, j)
      menor(k, n) == IF k <= n THEN k ELSE n
      n == IF limite < 1 THEN 1 ELSE menor(limite, 100)
  IN  {T \in SUBSET filas :
         /\ Cardinality(T) = menor(n, Cardinality(filas))
         /\ \A x \in T, y \in filas \ T : x.cantidad >= y.cantidad}

-----------------------------------------------------------------------------
(* Reports on purchases, taxes and documents *)

\* Faulty variant of CompraVisible: a purchase of a deleted branch is left out only there.
CompraSiempreVisible(c, empresa) == TRUE

\* With a company selected, the branch of the purchase must be one of its active ones.
CompraVisible(c, empresa) == ~empresa \/ SucursalCompra(c) \in activo
DeSucursalCompra(c, s) == s = Todas \/ SucursalCompra(c) = s
ComprasDe(i, j) == {c \in Compras : compra[c].estado = "REGISTRADA" /\ EnRango(compra[c].fecha, i, j)}
TotalComprado(C) == SumaDe(LAMBDA c : Monto(Adquisicion[c]), C)

ComprasPorProveedor(i, j, s, empresa) ==
  LET C == {c \in ComprasDe(i, j) : DeSucursalCompra(c, s) /\ CompraVisible(c, empresa)}
  IN  {[proveedor |-> p, facturas |-> Cardinality({c \in C : Adquisicion[c].proveedor = p}),
        total |-> TotalComprado({c \in C : Adquisicion[c].proveedor = p})] :
         p \in {Adquisicion[c].proveedor : c \in C}}

\* ReportePre104BloqueRead: what is taxed at other rates is in the total and in no base.
Bloque(X) ==
  [base_0 |-> SumaDe(LAMBDA x : x[2].cero, X), base_iva |-> SumaDe(LAMBDA x : x[2].doce + x[2].quince, X),
   monto_iva |-> SumaDe(LAMBDA x : x[2].iva, X), total |-> SumaDe(LAMBDA x : Monto(x[2]), X),
   total_documentos |-> Cardinality(X)]

ImpuestosMensual(m, a, s, empresa) ==
  LET V == {v \in Vigentes : EnMes(venta[v].fecha, m, a) /\ DeSucursal(v, s)}
      C == {c \in Compras : /\ compra[c].estado = "REGISTRADA" /\ EnMes(compra[c].fecha, m, a)
                            /\ DeSucursalCompra(c, s) /\ CompraVisible(c, empresa)}
      R == {r \in Recibidas : /\ recibida[r].estado = "APLICADA" /\ EnMes(recibida[r].fecha, m, a)
                              /\ DeSucursal(Retenida[r].venta, s)}
  IN  [ventas  |-> Bloque({<<v, Factura[v]>> : v \in V}),
       compras |-> Bloque({<<c, Adquisicion[c]>> : c \in C}),
       emitidas |-> [x \in {"1", "2"} |->
                       SumaDe(LAMBDA c : Adquisicion[c].retencion,
                              {c \in C : emitida[c] = "EMITIDA" /\ Adquisicion[c].tipo = x})],
       recibidas |-> [x \in {"1", "2"} |->
                        SumaDe(LAMBDA r : Retenida[r].valor, {r \in R : Retenida[r].codigo = x})]]

\* _rango_fechas: up to the beginning of the day after the last.
EnDias(d, i, j) == i <= d /\ d < j + 1

\* The day is that of the row; each kind of document reaches its branch by its own way.
MonitorEstados(i, j, s, empresa) ==
  LET D == {d \in Documentos :
              /\ documento[d].estado # "NINGUNO" /\ EnDias(documento[d].dia, i, j)
              /\ IF d \in Ventas THEN DeSucursal(d, s)
                 ELSE DeSucursalCompra(d, s) /\ CompraVisible(d, empresa)}
      de(e, tipo) == Cardinality({d \in D \cap tipo : documento[d].estado = e})
  IN  {[estado |-> x[1], tipo |-> x[2], cantidad |-> de(x[1], x[2])] :
         x \in {y \in {"EN_COLA", "AUTORIZADO", "RECHAZADO"} \X {Ventas, Compras} :
                  de(y[1], y[2]) > 0}}

-----------------------------------------------------------------------------
(* Reports on money *)

CierreDiario(f, s) ==
  LET P == {k \in DOMAIN pagos : pagos[k].fecha = f /\ DeSucursal(pagos[k].venta, s)}
      forma(x) == SumaDe(LAMBDA k : pagos[k].monto, {k \in P : pagos[k].forma = x})
      R == {r \in Recibidas : /\ recibida[r].estado = "APLICADA" /\ recibida[r].fecha = f
                              /\ DeSucursal(Retenida[r].venta, s)}
  IN  [dinero |-> SumaDe(forma, {pagos[k].forma : k \in P}),
       credito |-> SumaDe(LAMBDA r : Retenida[r].valor, R)]

\* Faulty variant of PorCobrar: an account with a partial payment is left out.
PorCobrarSinParciales(k) == k.saldo > 0 /\ k.estado = "PENDIENTE"
PorCobrar(k) == k.saldo > 0 /\ k.estado \in {"PENDIENTE", "PARCIAL"}

\* A sale without a customer is in nobody's portfolio.
CarteraCobrar ==
  LET V == {v \in Ventas : PorCobrar(cxc[v]) /\ Factura[v].cliente # Nulo}
  IN  {[cliente |-> x.clave, saldo |-> SumaDe(LAMBDA v : cxc[v].saldo, x.ventas)] :
         x \in FilasPor(V, LAMBDA v : Factura[v].cliente)}

\* What is owed for an annulled purchase is still here.
CarteraPagar(empresa) ==
  LET C == {c \in Compras : PorCobrar(cxp[c]) /\ CompraVisible(c, empresa)}
  IN  {[proveedor |-> p, saldo |-> SumaDe(LAMBDA c : cxp[c].saldo,
                                          {c \in C : Adquisicion[c].proveedor = p})] :
         p \in {Adquisicion[c].proveedor : c \in C}}

-----------------------------------------------------------------------------
(* Reports on stock *)

BodegaVisible(b, empresa) == ~empresa \/ b \in activo

\* Outer join without a company; with one, an article without rows in its active bodegas
\* is left out.
Valoracion(empresa) ==
  LET B(a) == {b \in ConFila(a) : BodegaVisible(b, empresa)}
  IN {[producto |-> a, cantidad |-> SumaDe(LAMBDA b : existencia[<<b, a>>], B(a)),
       valor |-> SumaDe(LAMBDA b : existencia[<<b, a>>] * Costo[a], B(a))] :
        a \in {x \in Articulos \cap activo : empresa => B(x) # {}}}

\* The movements that a query selects: by date, then as they were written.
Antes(k, n) ==
  \/ movimientos[k].fecha < movimientos[n].fecha
  \/ movimientos[k].fecha = movimientos[n].fecha /\ k < n
PorFecha(elige(_)) ==
  LET cuales == {k \in DOMAIN movimientos : elige(movimientos[k])}
      lugar(k) == Cardinality({n \in cuales : n = k \/ Antes(n, k)})
  IN  [x \in 1..Cardinality(cuales) |-> movimientos[CHOOSE k \in cuales : lugar(k) = x]]

\* Faulty variant of Kardex: a transfer is not an output.
KardexSinTransferencias(a, i, j, s, empresa) ==
  LET visible(m) == /\ m.estado = "CONFIRMADO" /\ m.articulo = a /\ EnRango(m.fecha, i, j)
                    /\ BodegaVisible(m.bodega, empresa \/ s # Todas)
                    /\ (s = Todas \/ SucursalDe[m.bodega] = s)
      filas == PorFecha(visible)
      hasta(k) == SumaDe(LAMBDA x : IF filas[x].tipo = "EGRESO" THEN 0 - filas[x].cantidad
                                    ELSE filas[x].cantidad, 1..k)
  IN  [k \in DOMAIN filas |-> [fecha |-> filas[k].fecha, cantidad |-> filas[k].cantidad,
         tipo |-> "INGRESO", saldo |-> hasta(k)]]

\* By date, then as they were written; the balance starts at 0 wherever the range starts.
Kardex(a, i, j, s, empresa) ==
  LET visible(m) == /\ m.estado = "CONFIRMADO" /\ m.articulo = a /\ EnRango(m.fecha, i, j)
                    /\ BodegaVisible(m.bodega, empresa \/ s # Todas)
                    /\ (s = Todas \/ SucursalDe[m.bodega] = s)
      filas == PorFecha(visible)
      hasta(k) == SumaDe(LAMBDA x : Efecto(filas[x]), 1..k)
  IN  [k \in DOMAIN filas |->
         [fecha |-> filas[k].fecha, cantidad |-> filas[k].cantidad, saldo |-> hasta(k),
          tipo |-> IF ~EsSalida(filas[k]) THEN "INGRESO"
                   ELSE IF filas[k].de = "VENTA" THEN "VENTA" ELSE "EGRESO"]]

SaldoFinal(kardex) == IF DOMAIN kardex = {} THEN 0 ELSE kardex[Len(kardex)].saldo

EnKardex(m, a, b) == m.articulo = a /\ m.bodega = b /\ m.estado = "CONFIRMADO"

\* obtener_kardex, of the service of movements: one bodega, deleted or not, and a range
\* that opens with what was moved before it.
SaldoInicial(a, b, i) ==
  SumaDe(LAMBDA k : Efecto(movimientos[k]),
         {k \in DOMAIN movimientos : EnKardex(movimientos[k], a, b) /\ movimientos[k].fecha < i})

KardexDeBodega(a, b, i, j) ==
  LET enRango(m) == EnRango(m.fecha, i, j) /\ EnKardex(m, a, b)
      filas == PorFecha(enRango)
      hasta(k) == SaldoInicial(a, b, i) + SumaDe(LAMBDA x : Efecto(filas[x]), 1..k)
  IN  [k \in DOMAIN filas |->
         [fecha |-> filas[k].fecha, tipo |-> filas[k].tipo, saldo |-> hasta(k),
          entrada |-> IF EsSalida(filas[k]) THEN 0 ELSE filas[k].cantidad,
          salida  |-> IF EsSalida(filas[k]) THEN filas[k].cantidad ELSE 0]]

SaldoDeBodega(a, b, i, j) ==
  LET kardex == KardexDeBodega(a, b, i, j)
  IN  IF DOMAIN kardex = {} THEN SaldoInicial(a, b, i) ELSE SaldoFinal(kardex)

\* obtener_valoracion, of the same service: by bodega, whatever has been deleted.
ValoracionDeBodega(b) ==
  {[producto |-> a, cantidad |-> existencia[<<b, a>>], valor |-> existencia[<<b, a>>] * Costo[a]] :
     a \in {x \in Articulos : b \in ConFila(x)}}

-----------------------------------------------------------------------------
(* Properties *)

\* Types of the variables.  Balances are never negative.
Cuentas(estados) == [retenido : Int, pagos : Nat, saldo : Nat, estado : estados]
Asientos ==
  [tipo : {"INGRESO", "EGRESO", "AJUSTE", "TRANSFERENCIA"}, articulo : Articulos, cantidad : Nat,
   bodega : LasBodegas, costo : Nat,
   de : {"APERTURA", "VENTA", "ANULACION_VENTA", "COMPRA", "ANULACION_COMPRA", "TRANSFERENCIA", "REVERSO"},
   id : Documentos \cup Articulos \cup Nat, fecha : Dias, estado : {"CONFIRMADO", "ANULADO"}]
RepTypeOK ==
  /\ hoy \in Dias
  /\ venta \in [Ventas -> [estado : {"NINGUNA", "BORRADOR", "EMITIDA", "ANULADA"}, fecha : Dias]]
  /\ cxc \in [Ventas -> Cuentas({"NINGUNA", "PENDIENTE", "PARCIAL", "PAGADA", "ANULADA"})]
  /\ pagos \in Seq([venta : Ventas, monto : Nat, forma : Formas, fecha : Dias])
  /\ recibida \in [Recibidas -> [estado : {"NINGUNA", "BORRADOR", "APLICADA", "ANULADA"}, fecha : Dias]]
  /\ compra \in [Compras -> [estado : {"NINGUNA", "REGISTRADA", "ANULADA"}, fecha : Dias]]
  /\ cxp \in [Compras -> Cuentas({"NINGUNA", "PENDIENTE", "PARCIAL", "PAGADA"})]
  /\ emitida \in [Compras -> {"NINGUNA", "REGISTRADA", "ENCOLADA", "EMITIDA"}]
  /\ movimientos \in Seq(Asientos)
  /\ existencia \in [LasBodegas \X Articulos -> Nat]
  /\ documento \in [Documentos -> [estado : {"NINGUNO", "EN_COLA", "AUTORIZADO", "RECHAZADO"}, dia : Dias]]
  /\ activo \subseteq Sucursales \cup LasBodegas \cup Articulos
  /\ directas \subseteq Recibidas
  /\ pasos \in Nat

Todo == UltimoDia
Meses == {<<Mes[f], Anio[f]>> : f \in Dias}

\* Whatever the range, every report on sales speaks of the same sales: the summary is the
\* sum of the trend by day, month or year, of the sellers, of the customers, of the points
\* and of the branches (and of the sales without a point), and that of the tax report over
\* the months.
VentasCuadran ==
  /\ \A i \in Dias : \A j \in i..Todo :
       LET r == ResumenVentas(i, j, Todas, Todas)
           mide(filas) == /\ SumaDe(LAMBDA x : x.total, filas) = r.total
                          /\ SumaDe(LAMBDA x : x.total_ventas, filas) = r.total_ventas
       IN  /\ \A g \in Agrupaciones : mide(Tendencias(i, j, g))
           /\ mide(PorVendedor(i, j))
  /\ LET r == ResumenVentas(1, Todo, Todas, Todas)
         sin == TotalVendido({v \in VentasDe(1, Todo) : Factura[v].punto = Nulo})
         b(x) == ImpuestosMensual(x[1], x[2], Todas, TRUE).ventas
     IN  /\ SumaDe(LAMBDA x : x.total_ventas, RentabilidadPorCliente(1, Todo)) = r.total_ventas
         /\ SumaDe(LAMBDA p : ResumenVentas(1, Todo, p, Todas).total, Puntos) + sin = r.total
         /\ SumaDe(LAMBDA s : ResumenVentas(1, Todo, Todas, s).total, Sucursales) + sin = r.total
         /\ SumaDe(LAMBDA x : b(x).total, Meses) = r.total
         /\ Tendencias(1, Todo, "MENSUAL") =
              {[periodo |-> <<x[2], x[1]>>, total |-> b(x).total, total_ventas |-> b(x).total_documentos] :
                 x \in {y \in Meses : b(y).total_documentos > 0}}
         /\ SumaDe(LAMBDA x : b(x).monto_iva, Meses) = r.monto_iva
         /\ SumaDe(LAMBDA x : b(x).base_0, Meses) = r.subtotal_0

\* Everything that was invoiced is accounted for once: in the cash of some day, in the tax
\* credit of some day, in the portfolio of a customer, or pending on a sale without one.
\* A withholding created APLICADA is a tax credit that paid nothing; annulled, it gives back
\* to the account of the sale what it never took from it.
CobrosCuadran ==
  LET emitidas == {v \in Ventas : venta[v].estado = "EMITIDA"}
      cierres(campo(_)) == SumaDe(LAMBDA f : campo(CierreDiario(f, Todas)), Dias)
      anonimas == {v \in emitidas : Factura[v].cliente = Nulo}
  IN  /\ TotalVendido(emitidas) =
           cierres(LAMBDA x : x.dinero) + cierres(LAMBDA x : x.credito)
             - SumaDe(LAMBDA r : Retenida[r].valor, directas)
             + SumaDe(LAMBDA x : x.saldo, CarteraCobrar)
             + SumaDe(LAMBDA v : cxc[v].saldo, anonimas)
      /\ cierres(LAMBDA x : x.credito) =
           SumaDe(LAMBDA x : LET m == ImpuestosMensual(x[1], x[2], Todas, TRUE).recibidas
                             IN  m["1"] + m["2"], Meses)

\* Seen by the company, purchases by supplier, the purchases of the tax report and the
\* branches agree, although a deleted branch takes its purchases out of all of them.  The
\* portfolio owes what was bought, annulled or not, but for what was paid and withheld.
ComprasCuadran ==
  LET total(filas) == SumaDe(LAMBDA x : x.total, filas)
      todo == total(ComprasPorProveedor(1, Todo, Todas, TRUE))
      hechas == {c \in Compras : compra[c].estado # "NINGUNA"}
      retenidas == {c \in Compras : emitida[c] \in {"ENCOLADA", "EMITIDA"}}
  IN  /\ SumaDe(LAMBDA x : x.saldo, CarteraPagar(FALSE)) =
           SumaDe(LAMBDA c : Monto(Adquisicion[c]) - cxp[c].pagos, hechas)
             - SumaDe(LAMBDA c : Adquisicion[c].retencion, retenidas)
      /\ SumaDe(LAMBDA x : ImpuestosMensual(x[1], x[2], Todas, TRUE).compras.total, Meses) = todo
      /\ SumaDe(LAMBDA s : total(ComprasPorProveedor(1, Todo, s, TRUE)), Sucursales) = todo
      /\ total(ComprasPorProveedor(1, Todo, Todas, FALSE)) - todo =
           TotalComprado({c \in ComprasDe(1, Todo) : SucursalCompra(c) \notin activo})

\* The two services that keep a kardex agree.  That of movements opens a range with the
\* balance it closed the day before, and ends at the stock there is, but for what was annulled
\* by hand: the kardex shows the reversal and no longer the movement.  That of the reports
\* opens every range at 0, so a branch ends at what its active bodegas moved in the range, and
\* the branches add up.  Both valuations are the same, but for the articles deleted.
KardexConcuerdan ==
  /\ \A a \in Articulos, i \in Dias : \A j \in i..Todo :
       /\ \A b \in LasBodegas : i > 1 => SaldoInicial(a, b, i) = SaldoDeBodega(a, b, 1, i - 1)
       /\ \A s \in Sucursales :
            SaldoFinal(Kardex(a, i, j, s, TRUE)) =
              SumaDe(LAMBDA b : SaldoDeBodega(a, b, i, j) - SaldoInicial(a, b, i),
                     {b \in LasBodegas \cap activo : SucursalDe[b] = s})
       /\ SumaDe(LAMBDA s : SaldoFinal(Kardex(a, i, j, s, TRUE)), Sucursales) =
            SaldoFinal(Kardex(a, i, j, Todas, TRUE))
  /\ \A b \in LasBodegas, a \in Articulos :
       SaldoDeBodega(a, b, 1, Todo)
         + SumaDe(LAMBDA k : Efecto(movimientos[k]),
                  {k \in DOMAIN movimientos : /\ movimientos[k].estado = "ANULADO"
                                             /\ <<movimientos[k].bodega, movimientos[k].articulo>> = <<b, a>>})
         = existencia[<<b, a>>]
  /\ LET valor(filas) == SumaDe(LAMBDA x : x.valor, filas)
         vivas(b) == {x \in ValoracionDeBodega(b) : x.producto \in activo}
     IN  valor(Valoracion(FALSE)) = SumaDe(LAMBDA b : valor(vivas(b)), LasBodegas)

\* The three reports on profit agree: by customer and by sale always, and by article for
\* sales that have left the bodega, of articles not deleted, whose output nobody annulled, while
\* the articles sold fit in the hundred that the report may show.
UtilidadesCuadran ==
  LET cliente == RentabilidadPorCliente(1, Todo)
      venta_ == RentabilidadTransaccional(1, Todo)
      ganancia(T) == SumaDe(LAMBDA x : x.ganancia, T)
      salieron == \A v \in Vigentes : /\ Factura[v].articulo \in activo
                                      /\ Cardinality(Hay("VENTA", v)) = 1
  IN  /\ SumaDe(LAMBDA x : x.utilidad, cliente) = SumaDe(LAMBDA x : x.utilidad, venta_)
      /\ SumaDe(LAMBDA x : x.costo, cliente) = SumaDe(LAMBDA x : x.costo, venta_)
      /\ salieron /\ Cardinality(ProductosVendidos(1, Todo)) <= 100 =>
           \A T \in TopProductos(1, Todo, 100) : ganancia(T) = SumaDe(LAMBDA x : x.utilidad, cliente)

\* The monitor shows every document once, under its state: one for each electronic sale
\* that was issued, cancelled or not, and one for each withholding sent to the SRI.
MonitorCuadra ==
  LET filas == MonitorEstados(1, Todo, Todas, FALSE)
      de(tipo) == SumaDe(LAMBDA x : x.cantidad, {x \in filas : x.tipo = tipo})
  IN  /\ de(Ventas) = Cardinality({v \in Ventas : /\ Factura[v].electronica
                                                  /\ venta[v].estado \in {"EMITIDA", "ANULADA"}})
      /\ \A c \in Compras : emitida[c] = "ENCOLADA" => documento[c].estado \in {"EN_COLA", "RECHAZADO"}
      /\ SumaDe(LAMBDA f : SumaDe(LAMBDA x : x.cantidad, MonitorEstados(f, f, Todas, FALSE)), Dias)
           = de(Ventas) + de(Compras)

\* Sales and the profit on them are told alike by every report.
VentasYUtilidades == VentasCuadran /\ UtilidadesCuadran

\* Purchases and electronic documents are told alike by every report.
ComprasYDocumentos == ComprasCuadran /\ MonitorCuadra
=============================================================================
