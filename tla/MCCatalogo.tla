----------------------------- MODULE MCCatalogo -----------------------------
EXTENDS Catalogo, Naturals, FiniteSets, TLC
MCSimetria == Permutations(Categorias) \cup Permutations(Productos)

\* Three categories with one product, or two with two.
MCAcotado ==
  Cardinality({c \in Categorias : estado[c] # "NINGUNA"})
    + Cardinality({x \in Productos : producto[x] # "NINGUNA"}) <= 4
=============================================================================
