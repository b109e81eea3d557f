-------------------------------- MODULE Slab --------------------------------
(***************************************************************************)
(* The slab allocator (kernel/mm/slab.c), on top of the memory that the    *)
(* buddy system promises (PhysMem).  An address is the number of a byte,   *)
(* counted so that page p starts at p * BUDDY_PAGE_SIZE; a slab is named   *)
(* by its first page.  The list of free slots is kept in the slots: the    *)
(* word next_free of a slot is the allocator's while the slot is free and  *)
(* the caller's, who may write anything to it, while it is in use.         *)
(***************************************************************************)
EXTENDS PhysMem, FiniteSets, Functions

CONSTANTS
  BUDDY_PAGE_SIZE,
  SLAB_INIT_SIZE,                  \* bytes in a slab
  SLAB_MIN_ORDER, SLAB_MAX_ORDER,  \* slots have 2^order bytes
  User                             \* whatever a caller may have written

SlabOrders == SLAB_MIN_ORDER .. SLAB_MAX_ORDER

\* A slab is a whole number of pages; slots do not cross pages, and the first slot of
\* a page is not its last.
ASSUME SlabAssumption ==
  /\ SLAB_MIN_ORDER \in Nat /\ SLAB_MAX_ORDER \in Nat
  /\ SLAB_MIN_ORDER <= SLAB_MAX_ORDER
  /\ BUDDY_PAGE_SIZE \in Nat
  /\ \A o \in SlabOrders : 2^o < BUDDY_PAGE_SIZE /\ BUDDY_PAGE_SIZE % 2^o = 0
  /\ \E o \in Orders : SLAB_INIT_SIZE = 2^o * BUDDY_PAGE_SIZE

\* Exponentiation, stated for the provers as in Chunks.
ASSUME SlotPowerAssumption ==
  \A k \in 0 .. SLAB_MAX_ORDER : 2^k \in Nat \ {0} /\ 2^(k + 1) = 2 * 2^k

VARIABLES
  init_order,  \* the loop variable of init_slab
  slabs,       \* slabs[o]: the first slab of order o
  header,      \* header[s]: the slab_header at the start of slab s
  page_slab,   \* the field slab of the struct pages
  next_free,   \* the first word of every slot
  halted       \* a BUG_ON has stopped the kernel

slabVars == <<init_order, slabs, header, page_slab, next_free, halted>>

page_to_virt(p) == p * BUDDY_PAGE_SIZE
virt_to_page(a) == a \div BUDDY_PAGE_SIZE

Bytes == page_to_virt(StartPage) .. page_to_virt(EndPage) - 1

order_to_size(o) == 2^o

\* How often a number can be halved before it is 1.
halvings[n \in Nat] == IF n > 1 THEN 1 + halvings[n \div 2] ELSE 0

\* The number of halvings, and one more unless size is a power of two.
size_to_order(size) ==
  LET o == halvings[size] IN IF size > 2^o THEN o + 1 ELSE o

SlabPageOrder == size_to_order(SLAB_INIT_SIZE \div BUDDY_PAGE_SIZE)

\* The first slot holds the header.
Slots(s, o) ==
  {page_to_virt(s) + i * order_to_size(o) :
     i \in 1 .. SLAB_INIT_SIZE \div order_to_size(o) - 1}

FirstSlot(s, o) == page_to_virt(s) + order_to_size(o)

\* The nodes of a linked list: x, then what nxt says of it, up to NULL.
Walk(nxt, x) ==
  LET node[n \in Nat] ==
        IF n = 0 THEN x
        ELSE LET y == node[n - 1] IN IF y \in DOMAIN nxt THEN nxt[y] ELSE NULL
  IN node

SlabWalk(o) == Walk([s \in Pages |-> header[s].next_slab], slabs[o])
SlotWalk(s) == Walk(next_free, header[s].free_list_head)

SlabsOf(o) == {SlabWalk(o)[n] : n \in 0 .. NPages} \ {NULL}

-----------------------------------------------------------------------------
SlabInit ==
  /\ init_order = SLAB_MIN_ORDER
  /\ slabs = [o \in SlabOrders |-> NULL]
  /\ header = [s \in Pages |->
                 [free_list_head |-> NULL, next_slab |-> NULL, order |-> NULL]]
  /\ page_slab = [p \in Pages |-> NULL]
  /\ next_free = [a \in Bytes |-> User]
  /\ halted = FALSE

\* A plausible mistake: tag the first page of the slab only.
alloc_slab_memory_FirstPage(s) == page_slab' = [page_slab EXCEPT ![s] = s]

alloc_slab_memory(s) ==
  page_slab' = [p \in Pages |->
                  IF p \in Extent(s, SlabPageOrder) THEN s ELSE page_slab[p]]

LinkSlots(s, o) ==
  [a \in Bytes |->
     IF a \notin Slots(s, o) THEN next_free[a]
     ELSE IF a + order_to_size(o) \in Slots(s, o) THEN a + order_to_size(o)
     ELSE NULL]

\* init_slab_cache: a new slab of order o in front of next, its first slot already
\* taken by the caller if taken.  If no pages are left, virt_to_page stops the
\* kernel at the NULL that get_pages has returned.
init_slab_cache(o, next, taken) ==
  \/ /\ Allocate(SlabPageOrder)
     /\ LET s == ret'
            first == FirstSlot(s, o)
            linked == LinkSlots(s, o)
        IN /\ alloc_slab_memory(s)
           /\ slabs' = [slabs EXCEPT ![o] = s]
           /\ header' = [header EXCEPT ![s] =
                           [free_list_head |-> IF taken THEN linked[first] ELSE first,
                            next_slab |-> next, order |-> o]]
           /\ next_free' = IF taken THEN [linked EXCEPT ![first] = User] ELSE linked
     /\ UNCHANGED halted
  \/ /\ Refuse(SlabPageOrder)
     /\ halted' = TRUE
     /\ UNCHANGED <<slabs, header, page_slab, next_free>>

\* One round of the loop of init_slab.
init_slab ==
  /\ ~ halted
  /\ init_order <= SLAB_MAX_ORDER
  /\ init_slab_cache(init_order, NULL, FALSE)
  /\ init_order' = IF halted' THEN init_order ELSE init_order + 1

-----------------------------------------------------------------------------
\* The slab the search of _alloc_in_slab_nolock stops at, NULL when all are full.
\* A plausible mistake is to look at the first slab only.
SlabWithSlot_FirstOnly(o) ==
  IF header[slabs[o]].free_list_head # NULL THEN slabs[o] ELSE NULL

SlabWithSlot(o) ==
  LET stops == {n \in 0 .. NPages :
                  \/ SlabWalk(o)[n] = NULL
                  \/ header[SlabWalk(o)[n]].free_list_head # NULL}
  IN SlabWalk(o)[CHOOSE n \in stops : \A m \in stops : n <= m]

\* Take the first free slot of slab s; from then on its first word is the caller's.
TakeSlot(s) ==
  LET a == header[s].free_list_head
  IN /\ header' = [header EXCEPT ![s].free_list_head = next_free[a]]
     /\ next_free' = [next_free EXCEPT ![a] = User]
     /\ UNCHANGED <<init_order, slabs, page_slab, halted>>
     /\ UNCHANGED physVars

\* All slabs of the order are full: put a new one in front and take its first slot.
\* A plausible mistake is to forget the full ones.
NextSlab_Dropped(o) == NULL

NextSlab(o) == slabs[o]

TakeFromNewSlab(o) ==
  /\ init_slab_cache(o, NextSlab(o), TRUE)
  /\ UNCHANGED init_order

\* The order of the slots that serve a size.  A plausible mistake is to ask for
\* room for a header beside the object.
SlotOrder_Header(size) ==
  LET o == size_to_order(size + 1) IN IF o > SLAB_MAX_ORDER THEN SLAB_MAX_ORDER ELSE o

SlotOrder(size) ==
  LET o == size_to_order(size) IN IF o < SLAB_MIN_ORDER THEN SLAB_MIN_ORDER ELSE o

\* A plausible mistake: free into the first slab of the order.
OwnSlab_First(a) == slabs[header[page_slab[virt_to_page(a)]].order]

OwnSlab(a) == page_slab[virt_to_page(a)]

free_in_slab(a) ==
  LET s == OwnSlab(a)
  IN /\ next_free' = [next_free EXCEPT ![a] = header[s].free_list_head]
     /\ header' = [header EXCEPT ![s].free_list_head = a]
     /\ UNCHANGED <<init_order, slabs, page_slab, halted>>
     /\ UNCHANGED physVars

\* The bytes in the free slots of slab s, and of all slabs: one walk per list.
FreeBytes(s, o) ==
  order_to_size(o) * Cardinality({n \in 0 .. SLAB_INIT_SIZE : SlotWalk(s)[n] # NULL})

get_free_mem_size_from_slab ==
  SumFunction([o \in SlabOrders |->
                 SumFunction([s \in SlabsOf(o) |-> FreeBytes(s, o)])])

=============================================================================
