----------------------------- MODULE MCColaSri -----------------------------
(* The queue and its gateway with one document: the instance is in the .cfg file. *)
EXTENDS PasarelaSri
=============================================================================
