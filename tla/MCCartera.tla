------------------------------ MODULE MCCartera ------------------------------
(* TLC instances of Cartera. *)
EXTENDS Cartera

CONSTANTS cobrar, pagar, r1, r2, r3

MCTotal == [c \in Cuentas |-> 2]
MCCuentaDe == [r \in Retenciones |-> IF r = r3 THEN pagar ELSE cobrar]
\* One account exists: of a sale or of a purchase.
UnaCuenta == \E c \in Cuentas : \A d \in Cuentas : doc[d] = "EMITIDA" <=> d = c
MCInit == Init /\ UnaCuenta
MCSpec == MCInit /\ [][Next]_vars /\ Equidad

MCValor == [r \in Retenciones |-> 1]
=============================================================================
