------------------------------- MODULE Chunks -------------------------------
(***************************************************************************)
(* The address arithmetic of the buddy system (kernel/mm/buddy.c): pages,  *)
(* chunks of 2^order pages, and the buddy of a chunk.                      *)
(*                                                                         *)
(* Addresses are counted in pages: page p stands for the kernel virtual    *)
(* address p * BUDDY_PAGE_SIZE.  A pool starts at any page number: nothing *)
(* in the code aligns pool_start_addr to more than one page, and a buddy   *)
(* is found by flipping a bit of the absolute address.                     *)
(***************************************************************************)
EXTENDS Integers

CONSTANTS
  BUDDY_MAX_ORDER,  \* orders are 0..BUDDY_MAX_ORDER-1 (14 in the code)
  StartPage,        \* pool_start_addr / BUDDY_PAGE_SIZE
  NPages,           \* page_num: the pages of the pool
  NULL              \* the null pointer

ASSUME PoolAssumption ==
  /\ BUDDY_MAX_ORDER \in Nat \ {0}
  /\ StartPage \in Nat
  /\ NPages \in Nat \ {0}
  /\ NULL \notin Int

\* Two laws of exponentiation, in the range of orders: the provers know
\* nothing of 2^k for a variable k, so they are stated, and TLC evaluates
\* them for every instance that is checked.
ASSUME PowerAssumption ==
  /\ \A k \in 0 .. BUDDY_MAX_ORDER : 2^k \in Nat \ {0}
  /\ \A j, k \in 0 .. BUDDY_MAX_ORDER :
        j + k <= BUDDY_MAX_ORDER => 2^(j + k) = 2^j * 2^k

Orders == 0 .. BUDDY_MAX_ORDER - 1

\* What a caller may ask for: BUDDY_MAX_ORDER stands for every order that is
\* too large, (u64)-1 included.
Requests == 0 .. BUDDY_MAX_ORDER

EndPage == StartPage + NPages

Pages == StartPage .. EndPage - 1

\* The pages of the chunk of order o whose first page is p.
Extent(p, o) == p .. p + 2^o - 1

\* A chunk of order o may start at p: it is aligned in the address space and
\* lies in the pool.
Fits(p, o) == p % 2^o = 0 /\ p >= StartPage /\ p + 2^o <= EndPage

\* A plausible mistake: the buddy of the page number inside the pool.
FlipBit_InPool(p, o) ==
  IF ((p - StartPage) \div 2^o) % 2 = 0 THEN p + 2^o ELSE p - 2^o

\* chunk_addr ^ (1UL << (order + BUDDY_PAGE_SIZE_ORDER))
FlipBit(p, o) == IF (p \div 2^o) % 2 = 0 THEN p + 2^o ELSE p - 2^o

\* get_buddy_chunk: the buddy, or NULL when its first page is not in the pool.
get_buddy_chunk(p, o) ==
  IF FlipBit(p, o) \in Pages THEN FlipBit(p, o) ELSE NULL

\* The chunks that start at the pages of H, of the orders ord gives them, are
\* aligned, lie in the pool, do not overlap, and leave no page out.
Tiles(H, ord) ==
  /\ \A p \in H : Fits(p, ord[p])
  /\ \A p, q \in H :
       p # q => Extent(p, ord[p]) \cap Extent(q, ord[q]) = {}
  /\ \A x \in Pages : \E p \in H : x \in Extent(p, ord[p])

=============================================================================
