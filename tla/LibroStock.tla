----------------------------- MODULE LibroStock -----------------------------
(***************************************************************************)
(* What the stock of osiris promises its callers, without transactions,    *)
(* locks or requests: the balance of every (bodega, producto) changes only *)
(* by the whole effect of one movement or of one transfer, and never       *)
(* becomes negative.                                                       *)
(***************************************************************************)
EXTENDS Integers

CONSTANTS Bodegas, Productos, Datos, StockInicial

VARIABLE saldo  \* [Bodegas \X Productos -> Nat]

Celdas == Bodegas \X Productos

\* What the lines of d add to each balance of bodega b.
Entrada(d, b) == [f \in Celdas |-> IF f[1] = b THEN d.lineas[f[2]] ELSE 0]
Salida(d, b)  == [f \in Celdas |-> IF f[1] = b THEN 0 - d.lineas[f[2]] ELSE 0]

Asentar(efecto) ==
  /\ \A f \in Celdas : saldo[f] + efecto[f] >= 0
  /\ saldo' = [f \in Celdas |-> saldo[f] + efecto[f]]

\* A movement adds its lines to one bodega or takes them from it.  Reversing it does
\* the opposite, and the incoming half of a transfer can be reversed on its own.
Movimiento == \E d \in Datos, b \in Bodegas : Asentar(Entrada(d, b)) \/ Asentar(Salida(d, b))

\* A transfer takes from one bodega exactly what it adds to another.
Traslado ==
  \E d \in Datos, b \in Bodegas :
    /\ b # d.bodega
    /\ Asentar([f \in Celdas |-> Entrada(d, b)[f] + Salida(d, d.bodega)[f]])

Init == saldo = StockInicial
Next == Movimiento \/ Traslado
Spec == Init /\ [][Next]_saldo
=============================================================================
