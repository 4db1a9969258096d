-------------------------------- MODULE Arbol --------------------------------
(***************************************************************************)
(* Trees given by a parent function, as the category hierarchy keeps them: *)
(* closures that the code computes with recursive queries or loops, stated *)
(* as the least set that is closed, so that they can be proved about.      *)
(***************************************************************************)
CONSTANTS
  Nodos,
  Raiz        \* the parent of a root: NULL

\* S holds the active children of all its members.
CerradoAbajo(S, padre, activas) == \A d \in activas : padre[d] \in S => d \in S

\* n and what hangs from it along active nodes: what the cycle search visits.
Descendientes(n, padre, activas) ==
  {d \in Nodos : \A S \in SUBSET Nodos : n \in S /\ CerradoAbajo(S, padre, activas) => d \in S}

\* S holds the active parents of all its members.
CerradoArriba(S, padre, activas) == \A d \in S : padre[d] \in activas => padre[d] \in S

\* n and its ancestors, up to the root or to the first inactive one.
Ancestros(n, padre, activas) ==
  {d \in Nodos : \A S \in SUBSET Nodos : n \in S /\ CerradoArriba(S, padre, activas) => d \in S}

\* Every set of nodes has one whose parent is outside it: no cycle.
SinCiclos(padre) == \A S \in SUBSET Nodos : S # {} => \E n \in S : padre[n] \notin S

\* The node an attribute mapping on the way up is taken from: the first of S met.
MasCercano(n, S, padre, activas) ==
  CHOOSE a \in S \cap Ancestros(n, padre, activas) :
    \A b \in S \cap Ancestros(n, padre, activas) : b \in Ancestros(a, padre, activas)
==============================================================================
