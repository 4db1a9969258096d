----------------------------- MODULE MCEmision -----------------------------
(* Two requests at one point, with room for three numbers.  Requests and   *)
(* sales are interchangeable.                                              *)
EXTENDS Emision, TLC

MCModalidad == "ELECTRONICA"
MCSimetria  == Permutations(Peticiones) \cup Permutations(Ventas)
=============================================================================
