------------------------------ MODULE Kmalloc -------------------------------
(***************************************************************************)
(* kmalloc, kzalloc and kfree (kernel/mm/kmalloc.c) over the slabs and the *)
(* buddy system, with the callers of get_pages and free_pages beside them. *)
(* One thread runs in the kernel and no interrupt allocates: a call is one *)
(* step.                                                                   *)
(***************************************************************************)
EXTENDS Slab

CONSTANTS
  Sizes,  \* what callers ask for
  WORD    \* a u64 counts modulo WORD

ASSUME WordAssumption ==
  /\ WORD \in Nat /\ WORD % BUDDY_PAGE_SIZE = 0
  /\ WORD > page_to_virt(EndPage)
  /\ Sizes \subseteq 0 .. WORD - 1

VARIABLE live  \* live[a]: the size asked for, if a was returned and is in use

vars == <<physVars, slabVars, live>>

\* size_to_page_order: the sum in ROUND_UP wraps around.  A plausible mistake is
\* to round down.
size_to_page_order_Down(size) == halvings[size \div BUDDY_PAGE_SIZE]

size_to_page_order(size) ==
  size_to_order(((size + BUDDY_PAGE_SIZE - 1) % WORD) \div BUDDY_PAGE_SIZE)

FitsSlot(size) == size <= order_to_size(SLAB_MAX_ORDER)

PageOrder(size) ==
  IF size <= BUDDY_PAGE_SIZE THEN 0 ELSE size_to_page_order(size)

Ready == ~ halted /\ init_order > SLAB_MAX_ORDER

-----------------------------------------------------------------------------
Init ==
  /\ owned = [p \in Pages |-> NULL]  \* init_buddy has freed every page
  /\ ret = NULL
  /\ refused = NULL
  /\ SlabInit
  /\ live = [a \in Bytes |-> NULL]

InitSlab == init_slab /\ UNCHANGED live

\* get_pages(o), called for size bytes.
get_pages(o, size) ==
  \/ /\ Allocate(o)
     /\ live' = [live EXCEPT ![page_to_virt(ret')] = size]
     /\ UNCHANGED slabVars
  \/ /\ Refuse(o)
     /\ UNCHANGED <<slabVars, live>>

\* A request that a slab serves.
SmallRequest(size) ==
  /\ FitsSlot(size)
  /\ LET o == SlotOrder(size)
         s == SlabWithSlot(o)
     IN \/ /\ s # NULL
           /\ TakeSlot(s)
           /\ live' = [live EXCEPT ![header[s].free_list_head] = size]
        \/ /\ s = NULL
           /\ TakeFromNewSlab(o)
           /\ live' = IF halted' THEN live
                      ELSE [live EXCEPT ![FirstSlot(ret', o)] = size]

LargeRequest(size) == ~ FitsSlot(size) /\ get_pages(PageOrder(size), size)

\* kmalloc, and kzalloc: what is in an object in use is not told apart.
kmalloc(size) == Ready /\ (SmallRequest(size) \/ LargeRequest(size))

\* A caller of get_pages itself, for page tables.
GetPages(o) == Ready /\ get_pages(o, page_to_virt(2^o))

\* buddy_free_pages stops the kernel at a page that is not the first of a chunk.
BuddyFree(p) ==
  /\ halted' = (owned[p] = NULL)
  /\ owned' = [owned EXCEPT ![p] = NULL]
  /\ refused' = NULL
  /\ UNCHANGED <<ret, init_order, slabs, header, page_slab, next_free>>

kfree(a) ==
  /\ Ready
  /\ live[a] # NULL
  /\ IF page_slab[virt_to_page(a)] # NULL
     THEN free_in_slab(a)
     ELSE BuddyFree(virt_to_page(a))
  /\ live' = [live EXCEPT ![a] = NULL]

\* Callers give back with free_pages what is not in a slab.
free_pages(a) ==
  /\ Ready
  /\ live[a] # NULL /\ ~ FitsSlot(live[a])
  /\ BuddyFree(virt_to_page(a))
  /\ live' = [live EXCEPT ![a] = NULL]

\* BUG_ON loops for ever.
Halted == halted /\ UNCHANGED vars

Next ==
  \/ InitSlab
  \/ \E size \in Sizes : kmalloc(size)
  \/ \E o \in Requests : GetPages(o)
  \/ \E a \in Bytes : kfree(a) \/ free_pages(a)
  \/ Halted

Spec == Init /\ [][Next]_vars

-----------------------------------------------------------------------------
\* The bytes of the chunks that are free in the buddy system.
UnusedPages ==
  {p \in Pages : \A q \in Pages : owned[q] # NULL => p \notin Extent(q, owned[q])}

get_free_mem_size ==
  get_free_mem_size_from_slab + page_to_virt(Cardinality(UnusedPages))

-----------------------------------------------------------------------------
InUse == {a \in Bytes : live[a] # NULL}

IsSmall(a) == page_slab[virt_to_page(a)] # NULL

\* The bytes set aside for the object at a.
Room(a) ==
  IF IsSmall(a) THEN order_to_size(header[page_slab[virt_to_page(a)]].order)
  ELSE page_to_virt(2^owned[virt_to_page(a)])

AllSlabs == UNION {SlabsOf(o) : o \in SlabOrders}

TypeOK ==
  /\ owned \in [Pages -> Orders \cup {NULL}]
  /\ ret \in Pages \cup {NULL} /\ refused \in Nat \cup {NULL}
  /\ init_order \in SLAB_MIN_ORDER .. SLAB_MAX_ORDER + 1
  /\ slabs \in [SlabOrders -> Pages \cup {NULL}]
  /\ header \in [Pages -> [free_list_head : Bytes \cup {NULL},
                           next_slab : Pages \cup {NULL},
                           order : SlabOrders \cup {NULL}]]
  /\ page_slab \in [Pages -> Pages \cup {NULL}]
  /\ next_free \in [Bytes -> Bytes \cup {NULL, User}]
  /\ halted \in BOOLEAN
  /\ live \in [Bytes -> Nat \cup {NULL}]

\* The lists of slabs are disjoint and end; every page of a slab, and no other
\* page, leads to its slab, by which kfree tells objects in slabs from chunks;
\* and the chunk under a slab stays allocated.
SlabsRight ==
  /\ \A o \in SlabOrders :
       /\ SlabWalk(o)[Cardinality(SlabsOf(o))] = NULL
       /\ \A s \in SlabsOf(o) : header[s].order = o /\ owned[s] = SlabPageOrder
  /\ LET all == AllSlabs
     IN \A p \in Pages, s \in Pages :
          page_slab[p] = s <=> s \in all /\ p \in Extent(s, SlabPageOrder)

\* The free list of a slab holds each slot that is not in use once, and nothing
\* else: no slot is lost or listed twice, and no word of a caller is followed.
FreeListsRight ==
  \A s \in AllSlabs :
    LET free == Slots(s, header[s].order) \ InUse
    IN /\ {SlotWalk(s)[n] : n \in 0 .. Cardinality(free) - 1} = free
       /\ SlotWalk(s)[Cardinality(free)] = NULL

\* The pages in use are those of the slabs and of the large objects in use.
NoPageLost ==
  {p \in Pages : owned[p] # NULL}
    = AllSlabs \cup {virt_to_page(a) : a \in {b \in InUse : ~ IsSmall(b)}}

\* No smaller slot or chunk would have held the object.
Snug ==
  \A a \in InUse :
    \/ Room(a) = order_to_size(SLAB_MIN_ORDER)
    \/ IsSmall(a) /\ Room(a) < 2 * live[a]
    \/ Room(a) = BUDDY_PAGE_SIZE /\ ~ FitsSlot(live[a])
    \/ Room(a) > BUDDY_PAGE_SIZE /\ Room(a) < 2 * live[a]

\* The only BUG_ON that fires is the one met when no slab can be allocated.
HaltsOnlyWithoutMemory ==
  halted => \A p \in Pages : ~ Available(p, SlabPageOrder)

\* No request larger than the largest chunk, 2^(BUDDY_MAX_ORDER - 1) pages, is
\* served (the comment on BUDDY_MAX_ORDER in buddy.h).
MaxAllocatedSize ==
  \A a \in InUse : live[a] <= page_to_virt(2^(BUDDY_MAX_ORDER - 1))

\* What get_free_mem_size reports, the objects in use and the headers of the
\* slabs make up the pool.
MemoryAccounted ==
  get_free_mem_size
    + SumFunction([a \in InUse |-> Room(a)])
    + SumFunction([s \in AllSlabs |-> order_to_size(header[s].order)])
    = page_to_virt(NPages)

\* A slab is added only when all slots of its order are in use.
GrowsOnlyWhenFull ==
  [][\A o \in SlabOrders :
       slabs'[o] # slabs[o] => \A s \in SlabsOf(o) : Slots(s, o) \subseteq InUse]_vars

\* kmalloc implements the memory of objects that its callers see.
Objects ==
  INSTANCE Heap WITH
    FirstByte <- page_to_virt(StartPage), LastByte <- page_to_virt(EndPage) - 1,
    Sizes <- Sizes \cup {page_to_virt(2^o) : o \in Orders},
    Page <- BUDDY_PAGE_SIZE, Nil <- NULL,
    Lengths <- {order_to_size(o) : o \in SlabOrders}
                 \cup {page_to_virt(2^o) : o \in Orders},
    room <- [a \in Bytes |-> IF live[a] = NULL THEN NULL
                           ELSE [size |-> live[a], length |-> Room(a)]]

HeapSpec == Objects!HeapSpec

=============================================================================
