------------------------------ MODULE PhysMem -------------------------------
(***************************************************************************)
(* What the buddy system promises to its callers, with no free list, no    *)
(* split and no merge in sight: the memory that is in use is a set of      *)
(* chunks.  An allocation returns an aligned chunk that overlaps none of   *)
(* them, and it fails only when the pool has no such chunk: the pages that *)
(* are free are never lost to fragmentation left behind by earlier calls.  *)
(***************************************************************************)
EXTENDS Chunks

VARIABLES
  owned,    \* owned[p]: the order of the chunk in use that starts at p, or NULL
  ret,      \* what the last allocation returned
  refused   \* the order asked for, if the last call was an allocation that failed

physVars == <<owned, ret, refused>>

PhysTypeOK ==
  /\ owned \in [Pages -> Orders \cup {NULL}]
  /\ ret \in Pages \cup {NULL}
  /\ refused \in Requests \cup {NULL}

\* The chunk of order o at p touches no chunk in use.
Unused(p, o) ==
  \A q \in Pages :
    owned[q] # NULL => Extent(p, o) \cap Extent(q, owned[q]) = {}

Available(p, o) == Fits(p, o) /\ Unused(p, o)

\* Before init_buddy hands them over, the pages are all in use, one by one.
PhysInit ==
  /\ owned = [p \in Pages |-> 0]
  /\ ret = NULL
  /\ refused = NULL

Allocate(o) ==
  \E p \in Pages :
    /\ o \in Orders /\ Available(p, o)
    /\ owned' = [owned EXCEPT ![p] = o]
    /\ ret' = p
    /\ refused' = NULL

Refuse(o) ==
  /\ o \notin Orders \/ \A p \in Pages : ~ Available(p, o)
  /\ ret' = NULL
  /\ refused' = o
  /\ UNCHANGED owned

Release(p) ==
  /\ owned[p] # NULL
  /\ owned' = [owned EXCEPT ![p] = NULL]
  /\ refused' = NULL
  /\ UNCHANGED ret

PhysNext ==
  \/ \E o \in Orders : Allocate(o)
  \/ \E o \in Requests : Refuse(o)
  \/ \E p \in Pages : Release(p)

PhysSpec == PhysInit /\ [][PhysNext]_physVars

=============================================================================
