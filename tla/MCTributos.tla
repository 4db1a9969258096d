----------------------------- MODULE MCTributos -----------------------------
EXTENDS Tributos, TLC

Regla(d, h, c) == [clase |-> "IVA", desde |-> d, hasta |-> h, productos |-> Productos, confirmada |-> c]
\* One rule, as it is when confirmed and before, in force the first of two days.
MCReglas   == {Regla(1, 1, TRUE), Regla(1, 1, FALSE)}
MCSimetria == Permutations(Peticiones) \cup Permutations(Medidas)

\* Taxes and measures share no row: those of the product change while there is one measure
\* at most, and with no change of it in flight.  A registered sale, which nothing touches
\* again, ends a behaviour.
MCPaso ==
  /\ \A v \in Ventas : venta[v] = Nada
  /\ ((\E r \in Peticiones : En(r, {"ASIGNA", "PERFIL"})) =>
        /\ \A q \in Peticiones : ~En(q, Cambios)
        /\ \A m, n \in Medidas : medida[m] # Nada /\ medida[n] # Nada => m = n)'
MCSpec == Init /\ [][Next /\ MCPaso]_vars
=============================================================================
