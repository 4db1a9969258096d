---------------------------- MODULE MCInventario ----------------------------
(* TLC instances of Inventario. *)
EXTENDS Inventario, TLC

CONSTANTS A, B

Mov(tipo, b, q) == [tipo |-> tipo, bodega |-> b, lineas |-> [p \in Productos |-> q],
                    revierte |-> Nadie]

MCDatos == {Mov("INGRESO", A, 1), Mov("INGRESO", B, 1), Mov("TRANSFERENCIA", A, 1)}
MCDatosViva == {Mov("INGRESO", A, 1), Mov("EGRESO", A, 1)}
MCStockInicial == [f \in Filas |-> IF f[1] = A THEN 1 ELSE 0]
MCSimetria == Permutations(Peticiones) \cup Permutations(Movimientos) \cup Permutations(Productos)

MCFilasIniciales == {f \in Filas : f[1] = A}
=============================================================================
