------------------------------ MODULE MCLists -------------------------------
(* list.h on a few nodes and two lists, enough to move a node between lists *)
(* while one of them is traversed, with neighbours on both sides: either    *)
(* rings or hlists, each by its own module.                                 *)
EXTENDS ListHead

VARIABLES
  kind,                                  \* which of the two the behaviour is about
  hnext, hpprev, hlisted, hvisit, hleft  \* of HList

H == INSTANCE HList WITH
       next <- hnext, pprev <- hpprev, listed <- hlisted, visit <- hvisit, left <- hleft

hlistVars == <<hnext, hpprev, hlisted, hvisit, hleft>>

ListsInit ==
  /\ kind \in {"ring", "hlist"}
  /\ Init /\ H!Init

ListsNext ==
  /\ UNCHANGED kind
  /\ \/ kind = "ring" /\ Next /\ UNCHANGED hlistVars
     \/ kind = "hlist" /\ H!Next /\ UNCHANGED vars

AdvanceHList == kind = "hlist" /\ H!Advance /\ UNCHANGED <<kind, vars>>

MCSpec ==
  /\ ListsInit /\ [][ListsNext]_<<kind, vars, hlistVars>>
  /\ WF_hlistVars(AdvanceHList)

\* A node on an hlist knows the cell that points to it, and no pointer of an hlist
\* leads to a node that was taken off.
HLinked == H!Linked

\* The hlists stand for sequences of nodes, and the loops visit what was on a list
\* when they began, once and in order, though the body moves the node it is at.
HListsSpec == H!ListsSpec

\* The loops over hlists come to their end: no hlist has a cycle, and no loop strays.
HTraversalEnds == H!TraversalEnds
=============================================================================
