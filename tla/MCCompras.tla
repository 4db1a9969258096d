----------------------------- MODULE MCCompras -----------------------------
EXTENDS Compras, TLC

MCSimetria == Permutations(Bodegas) \cup Permutations(Peticiones)
=============================================================================
