-------------------------------- MODULE Cells -------------------------------
(* The cells that the lists of common/list.h link: list heads and nodes.    *)
EXTENDS Integers, FiniteSets, Sequences

CONSTANTS Heads, Nodes, NULL

\* A memory has room for a finite number of nodes.
ASSUME CellAssumption ==
  /\ Heads \cap Nodes = {} /\ NULL \notin Heads \cup Nodes
  /\ IsFiniteSet(Nodes)

\* The cells from c up to the one that ends the list, along the pointers nxt.
Along(nxt, c, end) ==
  LET at[i \in Nat] == IF i = 0 THEN c
                       ELSE IF at[i - 1] = end THEN end ELSE nxt[at[i - 1]]
      ends == {i \in 0 .. Cardinality(Nodes) : at[i] = end}
  IN IF ends = {} THEN <<NULL>>
     ELSE [i \in 1 .. CHOOSE e \in ends : \A f \in ends : e <= f |-> at[i - 1]]

\* A loop over a list: the list, which of the two loops it is, the node it is at and
\* the one it read after it.
Visits ==
  [head : Heads, safe : BOOLEAN, elem : Nodes, tmp : Heads \cup Nodes \cup {NULL}]

\* A loop in progress is not NULL.
ASSUME VisitAssumption == NULL \notin Visits

\* The loop over the list of h goes on with elem, or is over at the end of the list.
LoopAt(nxt, h, safe, elem, end) ==
  IF elem = end THEN NULL
  ELSE [head |-> h, safe |-> safe, elem |-> elem, tmp |-> nxt[elem]]

\* The node that the loop goes on with: the safe one has read it before its body ran.
Goes(nxt, v) == IF v.safe THEN v.tmp ELSE nxt[v.elem]

\* The nodes that the loop, if there is one, has yet to visit.
Todo(nxt, v, end) ==
  IF v = NULL THEN <<>> ELSE <<v.elem>> \o Along(nxt, Goes(nxt, v), end)

=============================================================================
