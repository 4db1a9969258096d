------------------------------ MODULE MCReportes ------------------------------
(***************************************************************************)
(* Two sales (one electronic, with a customer; one physical, without point *)
(* and customer), one purchase, two withholdings received by the first     *)
(* sale, two branches with a bodega each, one article, and three days.     *)
(***************************************************************************)
EXTENDS Reportes, TLC

CONSTANTS v1, v2, c1, r1, r2, s1, s2, p1, p2, b1, b2, a1, u1, u2, k1, o1

MCFactura ==
  v1 :> [punto |-> p1, cliente |-> k1, vendedor |-> u1, electronica |-> TRUE, articulo |-> a1,
         cantidad |-> 1, cero |-> 0, doce |-> 1, quince |-> 1, ocho |-> 0, iva |-> 1] @@
  v2 :> [punto |-> Nulo, cliente |-> Nulo, vendedor |-> u2, electronica |-> FALSE, articulo |-> a1,
         cantidad |-> 2, cero |-> 1, doce |-> 0, quince |-> 0, ocho |-> 1, iva |-> 0]
MCAdquisicion ==
  c1 :> [bodega |-> b1, proveedor |-> o1, articulo |-> a1, cantidad |-> 2, cero |-> 0, doce |-> 0,
         quince |-> 2, ocho |-> 0, iva |-> 1, retencion |-> 1, tipo |-> "1"]
MCRetenida ==
  r1 :> [venta |-> v1, codigo |-> "2", valor |-> 1] @@
  r2 :> [venta |-> v1, codigo |-> "1", valor |-> 1]
MCSucursalDe == p1 :> s1 @@ p2 :> s2 @@ b1 :> s1 @@ b2 :> s2
MCCosto == a1 :> 1
MCMes == <<1, 1, 1>>
MCAnio == <<1, 1, 2>>

\* Money and movements by hand are in no report together: a behaviour has one of the two,
\* and with movements by hand one operation less.  With a second withholding it has no purchase.
HayDinero ==
  \/ pagos # <<>> \/ \E r \in Recibidas : recibida[r].estado # "NINGUNA"
  \/ \E c \in Compras : emitida[c] # "NINGUNA" \/ cxp[c].pagos > 0
AMano == \E k \in DOMAIN movimientos : movimientos[k].de \in {"TRANSFERENCIA", "REVERSO"}
Hechas == {r \in Recibidas : recibida[r].estado # "NINGUNA"}
MCPaso ==
  /\ (AMano => ~HayDinero /\ pasos < MaxPasos)'
  /\ (r2 \in Hechas => r1 \in Hechas /\ \A c \in Compras : compra[c].estado = "NINGUNA")'
MCSpec == RepInit /\ [][RepNext /\ MCPaso]_repVars
=============================================================================
