------------------------------- MODULE Lists --------------------------------
(***************************************************************************)
(* What common/list.h promises, with no pointer in sight: every list head  *)
(* stands for a sequence of nodes, and a traversal visits the nodes that   *)
(* are on the list when it begins, each once and in order, even if the     *)
(* node it is at is taken off the list and put elsewhere, until it ends or *)
(* is left.                                                                *)
(***************************************************************************)
EXTENDS Integers, SequencesExt

CONSTANTS Heads, Nodes

VARIABLES
  lists,  \* lists[h]: the nodes on the list of head h
  todo,   \* what the traversal in progress has yet to visit
  left    \* whether the last one was left before its end

listsVars == <<lists, todo, left>>

Loose == Nodes \ UNION {ToSet(lists[h]) : h \in Heads}

ListsInit ==
  /\ lists = [h \in Heads |-> <<>>]
  /\ todo = <<>>
  /\ left = FALSE

AddFirst(h, n) == lists' = [lists EXCEPT ![h] = Cons(n, @)]
AddLast(h, n) == lists' = [lists EXCEPT ![h] = Append(@, n)]

Delete(h, i) == lists' = [lists EXCEPT ![h] = RemoveAt(@, i)]

ListsNext ==
  \/ /\ \/ \E h \in Heads, n \in Loose : AddFirst(h, n) \/ AddLast(h, n)
        \/ \E h \in Heads : \E i \in DOMAIN lists[h] : Delete(h, i)
     /\ UNCHANGED <<todo, left>>
  \/ /\ todo = <<>>
     /\ \E h \in Heads : todo' = lists[h]
     /\ left' = FALSE
     /\ UNCHANGED lists
  \/ /\ todo # <<>>
     /\ \/ todo' = Tail(todo) /\ UNCHANGED left
        \/ todo' = <<>> /\ left' = TRUE
     /\ UNCHANGED lists

ListsSpec == ListsInit /\ [][ListsNext]_listsVars

=============================================================================
