------------------------------- MODULE Buddy --------------------------------
(***************************************************************************)
(* The buddy allocator of kernel/mm/buddy.c.                               *)
(*                                                                         *)
(* Every invocation of the two recursive functions, split_page and         *)
(* merge_page, is one step, so that the pool is seen half split and half   *)
(* merged.  The kernel has one thread: nothing else runs between the steps *)
(* of a call.  A BUG_ON that fires, and the use of a list node that is not *)
(* where the code believes it to be, stop the machine: pc = "halt".        *)
(***************************************************************************)
EXTENDS Chunks, SequencesExt

VARIABLES
  \* struct page, one record per page of the pool, heads of chunks or not
  allocated,  \* page->allocated
  order,      \* page->order
  \* struct phys_mem_pool
  free_list,  \* free_lists[o].free_list, first element first
  nr_free,    \* free_lists[o].nr_free
  \* the call in progress
  page_idx,   \* the loop of init_buddy: pages below it have been handed over
  pc,         \* "idle", "split", "merge" or "halt"
  cur,        \* the argument `page' of split_page or merge_page, else NULL
  want,       \* the argument `order' of split_page
  \* the callers
  owned,      \* owned[p]: the order asked for the chunk in use at p, or NULL
  ret,        \* what the last buddy_get_pages returned
  refused     \* the order the last call asked for and did not get, else NULL

pageVars == <<allocated, order>>
poolVars == <<free_list, nr_free>>
callVars == <<page_idx, pc, cur, want>>
userVars == <<owned, ret, refused>>
vars == <<allocated, order, free_list, nr_free, page_idx, pc, cur, want,
          owned, ret, refused>>

-----------------------------------------------------------------------------
\* list_add and list_del of common/list.h, on the sequence a list stands for.

list_add(l, p) == Cons(p, l)

list_del(l, p) == RemoveAt(l, CHOOSE i \in 1 .. Len(l) : l[i] = p)

OnList(p, o) == p \in Range(free_list[o])

\* BUG_ON loops forever.
Panic ==
  /\ pc' = "halt"
  /\ UNCHANGED <<pageVars, poolVars, page_idx, cur, want, userVars>>

\* init_buddy, up to its last loop.
Init ==
  /\ allocated = [p \in Pages |-> 1]
  /\ order = [p \in Pages |-> 0]
  /\ free_list = [o \in Orders |-> <<>>]
  /\ nr_free = [o \in Orders |-> 0]
  /\ page_idx = 0
  /\ pc = "idle"
  /\ cur = NULL
  /\ want = 0
  /\ owned = [p \in Pages |-> 0]
  /\ ret = NULL
  /\ refused = NULL

-----------------------------------------------------------------------------
\* buddy_get_pages

\* A plausible mistake: look at the list of the order asked for only.
Candidates_NoSearch(o) == {k \in {o} \cap Orders : nr_free[k] > 0}

\* The non-empty free lists that can serve a request.
Candidates(o) == {k \in o .. BUDDY_MAX_ORDER - 1 : nr_free[k] > 0}

\* An invalid order, or no chunk large enough.
GetNothing(o) ==
  /\ o \notin Orders \/ Candidates(o) = {}
  /\ ret' = NULL
  /\ refused' = o
  /\ UNCHANGED <<pageVars, poolVars, callVars, owned>>

\* A plausible mistake: count the chunk off the order asked for.
GetChunk_WrongCount(o) ==
  \E k \in Candidates(o) :
    /\ \A j \in Candidates(o) : k <= j
    /\ pc' = "split"
    /\ cur' = Head(free_list[k])
    /\ want' = o
    /\ free_list' = [free_list EXCEPT ![k] = list_del(@, Head(free_list[k]))]
    /\ nr_free' = [nr_free EXCEPT ![o] = @ - 1]
    /\ UNCHANGED <<pageVars, page_idx, userVars>>

\* Take the first chunk of the smallest order that will do.
GetChunk(o) ==
  \E k \in Candidates(o) :
    /\ \A j \in Candidates(o) : k <= j
    /\ IF \/ free_list[k] = <<>>
          \/ allocated[Head(free_list[k])] = 1
          \/ order[Head(free_list[k])] # k
       THEN Panic
       ELSE /\ pc' = "split"
            /\ cur' = Head(free_list[k])
            /\ want' = o
            /\ free_list' =
                 [free_list EXCEPT ![k] = list_del(@, Head(free_list[k]))]
            /\ nr_free' = [nr_free EXCEPT ![k] = @ - 1]
            /\ UNCHANGED <<pageVars, page_idx, userVars>>

buddy_get_pages(o) ==
  /\ pc = "idle"
  /\ page_idx = NPages
  /\ \/ GetNothing(o)
     \/ o \in Orders /\ GetChunk(o)

\* A plausible mistake: return the chunk without marking it.
SplitReturn_NoMark ==
  /\ order[cur] = want
  /\ owned' = [owned EXCEPT ![cur] = want]
  /\ ret' = cur
  /\ refused' = NULL
  /\ pc' = "idle"
  /\ cur' = NULL
  /\ want' = 0
  /\ UNCHANGED <<pageVars, poolVars, page_idx>>

\* The chunk has the order asked for: buddy_get_pages returns it.
SplitReturn ==
  /\ order[cur] = want
  /\ allocated' = [allocated EXCEPT ![cur] = 1]
  /\ owned' = [owned EXCEPT ![cur] = want]
  /\ ret' = cur
  /\ refused' = NULL
  /\ pc' = "idle"
  /\ cur' = NULL
  /\ want' = 0
  /\ UNCHANGED <<order, poolVars, page_idx>>

\* A plausible mistake: list the upper half and forget to count it.
SplitHalf_NoCount ==
  /\ order[cur] > want
  /\ LET k == order[cur] - 1
         buddy == get_buddy_chunk(cur, k)
     IN /\ order' = [order EXCEPT ![cur] = k, ![buddy] = k]
        /\ allocated' = [allocated EXCEPT ![buddy] = 0]
        /\ free_list' = [free_list EXCEPT ![k] = list_add(@, buddy)]
        /\ UNCHANGED <<nr_free, callVars, userVars>>

\* The chunk is larger than asked for: cut it and list its upper half.
SplitHalf ==
  /\ order[cur] > want
  /\ LET k == order[cur] - 1
         buddy == get_buddy_chunk(cur, k)
     IN IF buddy = NULL
        THEN Panic
        ELSE /\ order' = [order EXCEPT ![cur] = k, ![buddy] = k]
             /\ allocated' = [allocated EXCEPT ![buddy] = 0]
             /\ free_list' = [free_list EXCEPT ![k] = list_add(@, buddy)]
             /\ nr_free' = [nr_free EXCEPT ![k] = @ + 1]
             /\ UNCHANGED <<callVars, userVars>>

split_page ==
  /\ pc = "split"
  /\ IF order[cur] < want \/ allocated[cur] = 1
     THEN Panic
     ELSE SplitReturn \/ SplitHalf

-----------------------------------------------------------------------------
\* buddy_free_pages

\* The entry of the function: it takes the chunk back from its owner.
StartFree(p) ==
  IF allocated[p] = 0
  THEN Panic
  ELSE /\ allocated' = [allocated EXCEPT ![p] = 0]
       /\ owned' = [owned EXCEPT ![p] = NULL]
       /\ refused' = NULL
       /\ pc' = "merge"
       /\ cur' = p
       /\ UNCHANGED <<order, poolVars, want, ret>>

\* A caller returns a chunk that buddy_get_pages gave it.
buddy_free_pages(p) ==
  /\ pc = "idle"
  /\ page_idx = NPages
  /\ owned[p] # NULL
  /\ StartFree(p)
  /\ UNCHANGED page_idx

\* A plausible mistake: the loop does not advance.
init_buddy_Stuck ==
  /\ pc = "idle"
  /\ page_idx < NPages
  /\ StartFree(StartPage + page_idx)
  /\ UNCHANGED page_idx

\* The last loop of init_buddy hands the pages over one by one.
init_buddy ==
  /\ pc = "idle"
  /\ page_idx < NPages
  /\ StartFree(StartPage + page_idx)
  /\ page_idx' = page_idx + 1

\* Plausible mistakes: merge with a buddy that has been cut, or only once.
CanMerge_AnyOrder ==
  /\ order[cur] < BUDDY_MAX_ORDER - 1
  /\ LET buddy == get_buddy_chunk(cur, order[cur])
     IN buddy # NULL /\ allocated[buddy] = 0

CanMerge_Once ==
  /\ order[cur] = 0
  /\ LET buddy == get_buddy_chunk(cur, order[cur])
     IN buddy # NULL /\ allocated[buddy] = 0 /\ order[buddy] >= order[cur]

\* merge_page goes on: the buddy exists, is free and is not a smaller chunk.
CanMerge ==
  /\ order[cur] < BUDDY_MAX_ORDER - 1
  /\ LET buddy == get_buddy_chunk(cur, order[cur])
     IN buddy # NULL /\ allocated[buddy] = 0 /\ order[buddy] >= order[cur]

\* Take the buddy off its list and go on with the chunk the two make up.
MergeHalves ==
  /\ CanMerge
  /\ LET k == order[cur]
         buddy == get_buddy_chunk(cur, k)
         low == IF buddy < cur THEN buddy ELSE cur
     IN IF order[buddy] > k \/ ~ OnList(buddy, k)
        THEN Panic
        ELSE /\ free_list' = [free_list EXCEPT ![k] = list_del(@, buddy)]
             /\ nr_free' = [nr_free EXCEPT ![k] = @ - 1]
             /\ cur' = low
             /\ order' = [order EXCEPT ![low] = @ + 1]
             /\ UNCHANGED <<allocated, page_idx, pc, want, userVars>>

\* merge_page returns and buddy_free_pages lists what it returned.
MergeReturn ==
  /\ ~ CanMerge
  /\ free_list' = [free_list EXCEPT ![order[cur]] = list_add(@, cur)]
  /\ nr_free' = [nr_free EXCEPT ![order[cur]] = @ + 1]
  /\ pc' = "idle"
  /\ cur' = NULL
  /\ UNCHANGED <<pageVars, page_idx, want, userVars>>

merge_page ==
  /\ pc = "merge"
  /\ IF order[cur] > BUDDY_MAX_ORDER - 1 \/ allocated[cur] = 1
     THEN Panic
     ELSE MergeHalves \/ MergeReturn

Next ==
  \/ init_buddy
  \/ \E o \in Requests : buddy_get_pages(o)
  \/ \E p \in Pages : buddy_free_pages(p)
  \/ split_page
  \/ merge_page

Spec == Init /\ [][Next]_vars

\* The kernel runs: init_buddy goes on to its end and so does every call.
\* Nothing obliges a caller to call.
FairSpec ==
  /\ Spec
  /\ WF_vars(init_buddy)
  /\ WF_vars(split_page)
  /\ WF_vars(merge_page)

-----------------------------------------------------------------------------
TypeOK ==
  /\ allocated \in [Pages -> {0, 1}]
  /\ order \in [Pages -> Orders]
  /\ free_list \in [Orders -> Seq(Pages)]
  /\ nr_free \in [Orders -> Nat]
  /\ page_idx \in 0 .. NPages
  /\ pc \in {"idle", "split", "merge", "halt"}
  /\ cur \in Pages \cup {NULL}
  /\ want \in Orders
  /\ owned \in [Pages -> Orders \cup {NULL}]
  /\ ret \in Pages \cup {NULL}
  /\ refused \in Requests \cup {NULL}

\* A page is the head of a chunk when it is in use, on a free list, or in the
\* hands of the call in progress; the fields of other pages are leftovers.
Listed(p) == \E o \in Orders : OnList(p, o)

Heads == {p \in Pages : allocated[p] = 1 \/ Listed(p) \/ p = cur}

\* No BUG_ON of buddy.c fires and no list node is used that is not on the list
\* the code takes it to be on, whatever the callers do within their contract.
NoPanic == pc # "halt"

\* The mark that the BUG_ON of buddy_free_pages tests is right for every page:
\* it is set on the first page of a chunk in use, with the order it was asked
\* for, and on no other page, so that a double free, or a free of a page inside
\* a chunk, is caught however stale the fields of that page are.
MarksOwned ==
  \A p \in Pages :
    IF allocated[p] = 1 THEN owned[p] = order[p] ELSE owned[p] = NULL

\* The free lists hold free chunks of their order, none of them twice, and
\* their counters count them.
ListsRight ==
  \A o \in Orders :
    /\ nr_free[o] = Len(free_list[o])
    /\ IsInjective(free_list[o])
    /\ \A p \in Range(free_list[o]) :
          allocated[p] = 0 /\ order[p] = o /\ p # cur

\* The chunks tile the pool at every step of every split and merge: each is
\* aligned in the address space and lies in the pool, no two overlap, and no
\* page is lost.
Tiling == Tiles(Heads, order)

\* Two free buddies never stay apart: what merge_page is for.
Coalesced ==
  \A o \in Orders : \A p \in Range(free_list[o]) :
    o < BUDDY_MAX_ORDER - 1 => ~ OnList(get_buddy_chunk(p, o), o)

\* The local variables of the call in progress.  Until init_buddy ends, the
\* pages its loop has not reached are marked, and nobody allocates.
CallRight ==
  /\ pc \in {"split", "merge"} => cur \in Pages /\ allocated[cur] = 0
  /\ pc = "split" => want <= order[cur] /\ page_idx = NPages
  /\ pc = "idle" => cur = NULL
  /\ \A p \in Pages : p >= StartPage + page_idx => allocated[p] = 1

\* The invariants of a pool, together inductive.
Inv ==
  /\ TypeOK
  /\ NoPanic
  /\ MarksOwned
  /\ ListsRight
  /\ CallRight
  /\ Tiling
  /\ Coalesced

\* A plausible mistake: stop one order early.
get_free_mem_size_TooFew ==
  SumFunctionOnSet([o \in Orders |-> nr_free[o] * 2^o],
                   Orders \ {BUDDY_MAX_ORDER - 1})

\* get_free_mem_size_from_buddy, in pages.
get_free_mem_size_from_buddy ==
  SumFunction([o \in Orders |-> nr_free[o] * 2^o])

\* Between calls the counters add up to the pages that no caller holds, which
\* lab2_test_buddy compares after every call.
FreeMemSize ==
  pc = "idle" =>
    get_free_mem_size_from_buddy =
      NPages - SumFunction([p \in {q \in Pages : owned[q] # NULL} |->
                               2^owned[p]])

\* The allocator implements the memory that its callers see (PhysMem): a chunk
\* that is returned overlaps no chunk in use, and a request fails only when no
\* aligned chunk of that order is unused.
Phys == INSTANCE PhysMem
PhysSpec == Phys!PhysSpec

=============================================================================
