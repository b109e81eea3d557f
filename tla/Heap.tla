-------------------------------- MODULE Heap --------------------------------
(***************************************************************************)
(* What kmalloc promises, whatever serves the request: the objects in use  *)
(* are ranges of bytes of the pool that never overlap, each at least as    *)
(* long as was asked for, and aligned to its length up to a page.          *)
(***************************************************************************)
EXTENDS Integers

CONSTANTS
  FirstByte, LastByte,  \* the bytes of the pool
  Sizes,                \* the sizes callers ask for
  Lengths,              \* the lengths objects may have
  Page,                 \* the largest alignment promised
  Nil

VARIABLE room           \* room[a]: what the object at a asked for and what it has, or Nil

Bytes == FirstByte .. LastByte

\* The object of length n at a does not touch the one of length m at b.
Apart(a, n, b, m) == a + n <= b \/ b + m <= a

HeapTypeOK ==
  room \in [Bytes -> [size : Sizes, length : Lengths] \cup {Nil}]

HeapInit == room = [a \in Bytes |-> Nil]

\* From the objects old to the objects new.
Allocate(old, new, size) ==
  \E a \in Bytes, n \in Lengths :
    /\ new[a] = [size |-> size, length |-> n]
    /\ new = [old EXCEPT ![a] = new[a]]
    /\ n >= size /\ a + n - 1 <= LastByte
    /\ IF n <= Page THEN a % n = 0 ELSE a % Page = 0
    /\ \A b \in Bytes : old[b] # Nil => Apart(a, n, b, old[b].length)

Free(old, new) ==
  \E a \in Bytes :
    /\ old[a] # Nil /\ new[a] = Nil
    /\ new = [old EXCEPT ![a] = Nil]

\* A request may be refused, without a trace.
HeapNext ==
  LET old == room
      new == room'
  IN (\E size \in Sizes : Allocate(old, new, size)) \/ Free(old, new)

HeapSpec == HeapInit /\ [][HeapNext]_room

=============================================================================
