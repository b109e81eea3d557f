-------------------------------- MODULE HList -------------------------------
(***************************************************************************)
(* The hlists of common/list.h, whose heads are one pointer.  A node knows *)
(* the field that points to it (pprev), which here is the cell, head or    *)
(* node, that has the field.                                               *)
(***************************************************************************)
EXTENDS Cells

VARIABLES
  next, pprev,
  listed,  \* the nodes that callers have put on a list
  visit,   \* the traversal in progress: its list and loop variables, or NULL
  left     \* whether the body of the last one broke out of it

hlistVars == <<next, pprev, listed>>
loopVars == <<visit, left>>
vars == <<hlistVars, loopVars>>

\* init_hlist_head and init_hlist_node on every head and node.
Init ==
  /\ next = [c \in Heads \cup Nodes |-> NULL]
  /\ pprev = [n \in Nodes |-> NULL]
  /\ listed = {}
  /\ visit = NULL
  /\ left = FALSE

\* The nodes on the list of head h.
From(h) == Along(next, next[h], NULL)
OnList(h) == {From(h)[i] : i \in DOMAIN From(h)}

-----------------------------------------------------------------------------
\* A traversal bears no new node on its list.
MayAdd(n, h) ==
  /\ n \notin listed
  /\ visit # NULL => h # visit.head

hlist_add(n, h) ==
  /\ MayAdd(n, h)
  /\ next' = [next EXCEPT ![n] = next[h], ![h] = n]
  /\ pprev' = [m \in Nodes |->
                 IF m = n THEN h ELSE IF m = next[h] THEN n ELSE pprev[m]]
  /\ listed' = listed \cup {n}
  /\ UNCHANGED loopVars

\* A plausible mistake: leave what the node that follows knows.
PprevWithout_Stale(n) == pprev

PprevWithout(n) ==
  [m \in Nodes |-> IF m = next[n] THEN pprev[n] ELSE pprev[m]]

\* for_each_in_hlist_safe bears that the node it is at leaves the list, and no other;
\* for_each_in_hlist bears no change.
MayDelete(n) ==
  /\ n \in listed
  /\ visit # NULL => n \notin OnList(visit.head) \/ (visit.safe /\ n = visit.elem)

hlist_del(n) ==
  /\ MayDelete(n)
  /\ pprev' = PprevWithout(n)
  /\ next' = [next EXCEPT ![pprev[n]] = next[n]]
  /\ listed' = listed \ {n}
  /\ UNCHANGED loopVars

for_each_in_hlist(h, safe) ==
  /\ visit = NULL
  /\ visit' = LoopAt(next, h, safe, next[h], NULL)
  /\ left' = FALSE
  /\ UNCHANGED hlistVars

\* A plausible mistake: the safe loop reads the node it is at, as the other does.
Following_Late == next[visit.elem]

Following == Goes(next, visit)

Advance ==
  /\ visit # NULL
  /\ visit' = LoopAt(next, visit.head, visit.safe, Following, NULL)
  /\ UNCHANGED <<hlistVars, left>>

\* The body leaves the loop, wherever it is.
Break ==
  /\ visit # NULL
  /\ visit' = NULL
  /\ left' = TRUE
  /\ UNCHANGED hlistVars

Next ==
  \/ \E n \in Nodes, h \in Heads : hlist_add(n, h)
  \/ \E n \in Nodes : hlist_del(n)
  \/ \E h \in Heads, safe \in BOOLEAN : for_each_in_hlist(h, safe)
  \/ Advance
  \/ Break

Spec == Init /\ [][Next]_vars

FairSpec == Spec /\ WF_vars(Advance)

-----------------------------------------------------------------------------
TypeOK ==
  /\ next \in [Heads \cup Nodes -> Nodes \cup {NULL}]
  /\ pprev \in [Nodes -> Heads \cup Nodes \cup {NULL}]
  /\ listed \subseteq Nodes
  /\ visit \in Visits \cup {NULL}
  /\ left \in BOOLEAN

\* A node on a list knows the cell that points to it, and no pointer of a list
\* leads to a node that was taken off.
Linked ==
  /\ \A n \in listed : pprev[n] \in Heads \cup listed /\ next[pprev[n]] = n
  /\ \A c \in Heads \cup listed :
       next[c] # NULL => next[c] \in listed /\ pprev[next[c]] = c

\* A traversal comes to the end of the list or is left, though its body moves the
\* node it is at and changes other lists: no hlist has a cycle, and no loop strays to
\* another list that grows before it.
TraversalEnds == visit # NULL ~> visit = NULL

\* The hlists implement sequences of nodes, and the loops visit what was on a list
\* when they began, once and in order, up to where the body breaks out.
Abstract ==
  INSTANCE Lists WITH
    lists <- [h \in Heads |-> From(h)],
    todo <- Todo(next, visit, NULL)

ListsSpec == Abstract!ListsSpec

=============================================================================
