------------------------------ MODULE ListHead ------------------------------
(***************************************************************************)
(* The doubly linked rings of common/list.h, pointer by pointer.  A cell   *)
(* is a struct list_head, of a list or inside a node; what is not on a     *)
(* list keeps the pointers it last had.                                    *)
(***************************************************************************)
EXTENDS Cells

VARIABLES
  next, prev,
  listed,  \* the nodes that callers have put on a list
  visit,   \* the traversal in progress: its list and loop variables, or NULL
  left     \* whether the body of the last one broke out of it

ringVars == <<next, prev, listed>>
loopVars == <<visit, left>>
vars == <<ringVars, loopVars>>

Cells == Heads \cup listed

\* init_list_head on every head; the nodes have not been written.
Init ==
  /\ next = [c \in Heads \cup Nodes |-> IF c \in Heads THEN c ELSE NULL]
  /\ prev = next
  /\ listed = {}
  /\ visit = NULL
  /\ left = FALSE

\* The nodes on the list of head h.
Ring(h) == Along(next, next[h], h)
OnList(h) == {Ring(h)[i] : i \in DOMAIN Ring(h)}

-----------------------------------------------------------------------------
\* The pointers after node n is put behind cell c.  A plausible mistake is to leave
\* the pointer back from the cell that followed c.
InsertAfter_NoBack(n, c) ==
  /\ next' = [next EXCEPT ![n] = next[c], ![c] = n]
  /\ prev' = [prev EXCEPT ![n] = c]

InsertAfter(n, c) ==
  /\ next' = [next EXCEPT ![n] = next[c], ![c] = n]
  /\ prev' = [prev EXCEPT ![n] = c, ![next[c]] = n]

\* A traversal bears no new node on its list.
MayAdd(n, h) ==
  /\ n \notin listed
  /\ visit # NULL => h # visit.head

list_add(n, h) ==
  /\ MayAdd(n, h)
  /\ InsertAfter(n, h)
  /\ listed' = listed \cup {n}
  /\ UNCHANGED loopVars

list_append(n, h) ==
  /\ MayAdd(n, h)
  /\ InsertAfter(n, prev[h])
  /\ listed' = listed \cup {n}
  /\ UNCHANGED loopVars

\* for_each_in_list_safe bears that the node it is at leaves the list, and no other;
\* for_each_in_list bears no change.
MayDelete(n) ==
  /\ n \in listed
  /\ visit # NULL => n \notin OnList(visit.head) \/ (visit.safe /\ n = visit.elem)

list_del(n) ==
  /\ MayDelete(n)
  /\ next' = [next EXCEPT ![prev[n]] = next[n]]
  /\ prev' = [prev EXCEPT ![next[n]] = prev[n]]
  /\ listed' = listed \ {n}
  /\ UNCHANGED loopVars

for_each_in_list(h, safe) ==
  /\ visit = NULL
  /\ visit' = LoopAt(next, h, safe, next[h], h)
  /\ left' = FALSE
  /\ UNCHANGED ringVars

\* A plausible mistake: the safe loop reads the node it is at, as the other does.
Following_Late == next[visit.elem]

Following == Goes(next, visit)

Advance ==
  /\ visit # NULL
  /\ visit' = LoopAt(next, visit.head, visit.safe, Following, visit.head)
  /\ UNCHANGED <<ringVars, left>>

\* The body leaves the loop, wherever it is.
Break ==
  /\ visit # NULL
  /\ visit' = NULL
  /\ left' = TRUE
  /\ UNCHANGED ringVars

Next ==
  \/ \E n \in Nodes, h \in Heads : list_add(n, h) \/ list_append(n, h)
  \/ \E n \in Nodes : list_del(n)
  \/ \E h \in Heads, safe \in BOOLEAN : for_each_in_list(h, safe)
  \/ Advance
  \/ Break

Spec == Init /\ [][Next]_vars

-----------------------------------------------------------------------------
TypeOK ==
  /\ next \in [Heads \cup Nodes -> Heads \cup Nodes \cup {NULL}]
  /\ prev \in [Heads \cup Nodes -> Heads \cup Nodes \cup {NULL}]
  /\ listed \subseteq Nodes
  /\ visit \in Visits \cup {NULL}
  /\ left \in BOOLEAN

\* The cells of the lists are linked both ways, among themselves: no pointer of a
\* list leads to a node that was taken off, however stale what it keeps.
Linked ==
  \A c \in Cells :
    /\ next[c] \in Cells /\ prev[c] \in Cells
    /\ prev[next[c]] = c /\ next[prev[c]] = c

\* The rings implement sequences of nodes, and the loops visit what was on a list
\* when they began, once and in order, up to where the body breaks out.
Abstract ==
  INSTANCE Lists WITH
    lists <- [h \in Heads |-> Ring(h)],
    todo <- Todo(next, visit, visit.head)

ListsSpec == Abstract!ListsSpec

=============================================================================
