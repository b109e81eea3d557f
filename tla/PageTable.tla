----------------------------- MODULE PageTable ------------------------------
(***************************************************************************)
(* The four-level page tables of kernel/arch/aarch64/mm/page_table.c.      *)
(* Addresses are counted in pages, virtual and physical.  A call to map or *)
(* unmap walks down from the root once for every page or block; every step *)
(* down a level (get_next_ptp) and every entry written is a step here.     *)
(***************************************************************************)
EXTENDS Integers, FiniteSets

CONSTANTS
  PTP_ENTRIES,      \* 512
  Ptps,             \* the pages get_pages(0) may return
  Ranges,           \* the [va, len] callers pass
  Offsets,          \* pa - va in the calls that map
  FlagSets,         \* the flags in the calls that map, sets of VMR_ names
  BlocksOverTables, \* whether callers map blocks where tables are left over
  NULL

\* The pages that an entry of a level describes: Lx_PER_ENTRY_PAGES.
PerEntry(level) ==
  CASE level = 3 -> 1
    [] level = 2 -> PTP_ENTRIES
    [] level = 1 -> PTP_ENTRIES * PTP_ENTRIES
    [] level = 0 -> PTP_ENTRIES * (PTP_ENTRIES * PTP_ENTRIES)

VPages == 0 .. PTP_ENTRIES * PerEntry(0) - 1

Region(r) == r.va .. r.va + r.len - 1

ASSUME TableAssumption ==
  /\ PTP_ENTRIES \in Nat \ {0, 1}
  /\ IsFiniteSet(Ptps) /\ Ptps # {} /\ NULL \notin Ptps
  /\ \A r \in Ranges : r.va \in VPages /\ r.len \in Nat /\ Region(r) \subseteq VPages
  /\ Offsets \subseteq Nat
  /\ FlagSets \subseteq SUBSET {"WRITE", "EXEC", "DEVICE", "NOCACHE"}
  /\ BlocksOverTables \in BOOLEAN

Levels == 0 .. 3
Indices == 0 .. PTP_ENTRIES - 1

\* The values of attributes, entries, calls and answers; NULL is none of them.
Attrs == [AP : {"RW", "RO"}, UXN : BOOLEAN,
          attr_index : {"device", "nocache", "normal"}, SH : BOOLEAN]
Ptes == [is_table : BOOLEAN, pfn : Nat \cup Ptps, attr : Attrs \cup {NULL}]
Walks == [op : {"map", "map_huge", "unmap", "unmap_huge"},
          va : Nat, end : Nat, pa : Nat,
          flags : SUBSET {"WRITE", "EXEC", "DEVICE", "NOCACHE"},
          level : Levels, ptp : Ptps]
Answers == [level : Levels, attr : Attrs, pa : Nat]

ASSUME NullAssumption ==
  NULL \notin Attrs /\ NULL \notin Ptes /\ NULL \notin Walks /\ NULL \notin Answers

VARIABLES
  pgtbl,   \* the root, NULL when there is no page table
  table,   \* the contents of the page table pages
  used,    \* the pages handed out by get_pages and not freed
  walk,    \* the call in progress, NULL between calls
  ret,     \* what the last call returned
  halted   \* a BUG_ON has stopped the kernel

vars == <<pgtbl, table, used, walk, ret, halted>>

GET_INDEX(level, va) == (va \div PerEntry(level)) % PTP_ENTRIES

\* The attributes of set_pte_flags that depend on the flags.  A plausible mistake
\* is to take the bit that forbids execution for one that allows it.
Attributes_ExecBit(flags) ==
  [AP |-> IF "WRITE" \in flags THEN "RW" ELSE "RO",
   UXN |-> "EXEC" \in flags,
   attr_index |-> IF "DEVICE" \in flags THEN "device"
                  ELSE IF "NOCACHE" \in flags THEN "nocache" ELSE "normal",
   SH |-> "DEVICE" \notin flags]

Attributes(flags) ==
  [AP |-> IF "WRITE" \in flags THEN "RW" ELSE "RO",
   UXN |-> "EXEC" \notin flags,
   attr_index |-> IF "DEVICE" \in flags THEN "device"
                  ELSE IF "NOCACHE" \in flags THEN "nocache" ELSE "normal",
   SH |-> "DEVICE" \notin flags]

\* An entry is NULL when it is invalid.  The bit is_table is is_page at level 3.
TableEntry(p) == [is_table |-> TRUE, pfn |-> p, attr |-> NULL]

PageEntry(level, pa, flags) ==
  [is_table |-> level = 3, pfn |-> pa \div PerEntry(level), attr |-> Attributes(flags)]

\* What is left in a page that is not in use: entries that lead nowhere.
Stale == [i \in Indices |-> TableEntry(NULL)]

\* The memset of get_next_ptp.  A plausible mistake is to leave it out.
Zeroed_Stale == Stale

Zeroed == [i \in Indices |-> NULL]

-----------------------------------------------------------------------------
Pte(level, p, va) == table[p][GET_INDEX(level, va)]

\* query_in_pgtbl: the physical page and the attributes of a page, NULL when it is
\* not mapped.
Found(level, e, va) ==
  [level |-> level, attr |-> e.attr,
   pa |-> (e.pfn * PerEntry(level)) + (va % PerEntry(level))]

query_in_pgtbl(va) ==
  LET e0 == Pte(0, pgtbl, va)
      e1 == Pte(1, e0.pfn, va)
      e2 == Pte(2, e1.pfn, va)
      e3 == Pte(3, e2.pfn, va)
  IN IF e0 = NULL \/ e1 = NULL THEN NULL
     ELSE IF ~ e1.is_table THEN Found(1, e1, va)
     ELSE IF e2 = NULL THEN NULL
     ELSE IF ~ e2.is_table THEN Found(2, e2, va)
     ELSE IF e3 = NULL THEN NULL
     ELSE Found(3, e3, va)

\* The page is mapped by a block; a table of level + 1 hangs at the entry of va.
InBlock(va) == query_in_pgtbl(va) # NULL /\ query_in_pgtbl(va).level # 3

TableBelow(level, va) ==
  LET e0 == Pte(0, pgtbl, va)
      e1 == Pte(1, e0.pfn, va)
      e2 == Pte(2, e1.pfn, va)
  IN /\ e0 # NULL
     /\ e1 # NULL /\ e1.is_table
     /\ level = 2 => e2 # NULL /\ e2.is_table

\* The contract of the calls, which no code checks.  The functions for 4K pages
\* walk through a block as if it were a table, so no block may be in the way of a
\* call that maps or of unmap_range_in_pgtbl; unmap_range_in_pgtbl_huge clears
\* whole blocks, so it is called for whole blocks.
NoBlocks(r) == \A v \in Region(r) : ~ InBlock(v)

BlockGoesTo(level, v, r, off) ==
  /\ v % PerEntry(level) = 0 /\ (v + off) % PerEntry(level) = 0
  /\ r.va + r.len - v >= PerEntry(level)

NoTablesUnderBlocks(r, off) ==
  \A level \in {1, 2}, v \in Region(r) :
    BlockGoesTo(level, v, r, off) => ~ TableBelow(level, v)

WholeBlocks(r) ==
  \A v \in Region(r) :
    LET q == query_in_pgtbl(v)
        first == v - (v % PerEntry(q.level))
    IN q # NULL => first .. first + PerEntry(q.level) - 1 \subseteq Region(r)

-----------------------------------------------------------------------------
Init ==
  /\ pgtbl = NULL
  /\ table = [p \in Ptps |-> Stale]
  /\ used = {}
  /\ walk = NULL
  /\ ret = NULL
  /\ halted = FALSE

\* The caller makes an empty page table: get_pages(0) and memset.
CreatePageTable ==
  /\ pgtbl = NULL /\ ~ halted
  /\ \E p \in Ptps \ used :
       /\ pgtbl' = p
       /\ used' = used \cup {p}
       /\ table' = [table EXCEPT ![p] = Zeroed]
  /\ UNCHANGED <<walk, ret, halted>>

\* The calls that unmap have no physical address: theirs counts along from 0.
Begin(op, r, pa, flags) ==
  /\ pgtbl # NULL /\ walk = NULL /\ ~ halted
  /\ walk' = [op |-> op, va |-> r.va, end |-> r.va + r.len, pa |-> pa,
              flags |-> flags, level |-> 0, ptp |-> pgtbl]
  /\ UNCHANGED <<pgtbl, table, used, ret, halted>>

map_range_in_pgtbl(r, off, flags) ==
  pgtbl # NULL /\ NoBlocks(r) /\ Begin("map", r, r.va + off, flags)

map_range_in_pgtbl_huge(r, off, flags) ==
  /\ pgtbl # NULL
  /\ NoBlocks(r)
  /\ BlocksOverTables \/ NoTablesUnderBlocks(r, off)
  /\ Begin("map_huge", r, r.va + off, flags)

unmap_range_in_pgtbl(r) ==
  pgtbl # NULL /\ NoBlocks(r) /\ Begin("unmap", r, 0, {})

unmap_range_in_pgtbl_huge(r) ==
  pgtbl # NULL /\ WholeBlocks(r) /\ Begin("unmap_huge", r, 0, {})

-----------------------------------------------------------------------------
InRound == walk # NULL /\ ~ halted /\ walk.va < walk.end

Maps == walk.op \in {"map", "map_huge"}

Index == GET_INDEX(walk.level, walk.va)
Entry == Pte(walk.level, walk.ptp, walk.va)

\* The next round starts at the root, n pages on.
NextRound(n) ==
  walk' = [walk EXCEPT !.va = @ + n, !.pa = @ + n, !.level = 0, !.ptp = pgtbl]

Down(p) == walk' = [walk EXCEPT !.level = @ + 1, !.ptp = p]

\* A block is put at levels 1 and 2 where it fits.  A plausible mistake is to
\* forget to test the physical address.
PutsBlock_VaOnly ==
  /\ walk.op = "map_huge" /\ walk.level \in {1, 2}
  /\ walk.va % PerEntry(walk.level) = 0
  /\ walk.end - walk.va >= PerEntry(walk.level)

PutsBlock ==
  /\ walk.op = "map_huge" /\ walk.level \in {1, 2}
  /\ walk.va % PerEntry(walk.level) = 0
  /\ walk.pa % PerEntry(walk.level) = 0
  /\ walk.end - walk.va >= PerEntry(walk.level)

\* get_next_ptp with alloc, above level 3: a missing table is made on the way.
\* The page comes from get_pages with old contents.
LinkNewTable(p) ==
  /\ used' = used \cup {p}
  /\ table' = [table EXCEPT ![p] = Zeroed, ![walk.ptp][Index] = TableEntry(p)]

DescendToMap ==
  /\ InRound /\ Maps /\ walk.level # 3 /\ ~ PutsBlock
  /\ \/ Entry # NULL /\ Down(Entry.pfn) /\ UNCHANGED <<table, used, halted>>
     \/ Entry = NULL /\ \E p \in Ptps \ used :
          LinkNewTable(p) /\ Down(p) /\ UNCHANGED halted
     \/ /\ Entry = NULL /\ used = Ptps
        /\ halted' = TRUE
        /\ UNCHANGED <<table, used, walk>>
  /\ UNCHANGED <<pgtbl, ret>>

PutEntry ==
  /\ InRound /\ Maps /\ (walk.level = 3 \/ PutsBlock)
  /\ table' = [table EXCEPT ![walk.ptp][Index] =
                 PageEntry(walk.level, walk.pa, walk.flags)]
  /\ NextRound(PerEntry(walk.level))
  /\ UNCHANGED <<pgtbl, used, ret, halted>>

\* The entry ends the walk of a call that unmaps; only the one for huge pages
\* looks for blocks.
\* A plausible mistake is to clear an entry that leads to a table.
AtBlock_AnyEntry ==
  walk.op = "unmap_huge" /\ walk.level \in {1, 2} /\ Entry # NULL

AtBlock ==
  walk.op = "unmap_huge" /\ walk.level \in {1, 2} /\ Entry # NULL /\ ~ Entry.is_table

\* A table or page is missing: go on one page further.  Plausible mistakes: skip
\* all that the missing table would describe, or stay.
SkippedPages_Table == PerEntry(walk.level)
SkippedPages_None == 0

SkippedPages == 1

Skip ==
  /\ InRound /\ ~ Maps /\ Entry = NULL
  /\ NextRound(SkippedPages)
  /\ UNCHANGED <<pgtbl, table, used, ret, halted>>

DescendToUnmap ==
  /\ InRound /\ ~ Maps /\ Entry # NULL /\ walk.level # 3 /\ ~ AtBlock
  /\ Down(Entry.pfn)
  /\ UNCHANGED <<pgtbl, table, used, ret, halted>>

ClearEntry ==
  /\ InRound /\ ~ Maps /\ Entry # NULL /\ (walk.level = 3 \/ AtBlock)
  /\ table' = [table EXCEPT ![walk.ptp][Index] = NULL]
  /\ NextRound(PerEntry(walk.level))
  /\ UNCHANGED <<pgtbl, used, ret, halted>>

\* All four functions return 0 at the end of their loops, and nothing else.
Return ==
  /\ walk # NULL /\ ~ halted /\ walk.va >= walk.end
  /\ walk' = NULL
  /\ ret' = 0
  /\ UNCHANGED <<pgtbl, table, used, halted>>

-----------------------------------------------------------------------------
\* The tables below level, down to level 3, that hang at the tables in S.
NextTables(S) ==
  LET entries == {table[x[1]][x[2]] : x \in S \X Indices}
  IN {e.pfn : e \in {f \in entries : f # NULL /\ f.is_table}}

Tables(level) ==
  LET l1 == NextTables({pgtbl})
      l2 == NextTables(l1)
  IN CASE level = 0 -> {pgtbl} [] level = 1 -> l1 [] level = 2 -> l2
       [] level = 3 -> NextTables(l2)

\* A plausible mistake is to take the entries of level 3, which have the bit of a
\* table set, for tables.
FreedTables_Pages ==
  UNION {Tables(level) : level \in Levels} \cup NextTables(Tables(3))

FreedTables == UNION {Tables(level) : level \in Levels}

\* free_page_table gives back the tables it meets, the root last; free_pages stops
\* the kernel at a page that is not allocated.
free_page_table ==
  /\ pgtbl # NULL /\ walk = NULL /\ ~ halted
  /\ used' = used \ FreedTables
  /\ halted' = (~ FreedTables \subseteq used)
  /\ pgtbl' = NULL
  /\ table' = [p \in Ptps |-> IF p \in FreedTables THEN Stale ELSE table[p]]
  /\ UNCHANGED <<walk, ret>>

Halted == halted /\ UNCHANGED vars

Calls ==
  \/ \E r \in Ranges, off \in Offsets, flags \in FlagSets :
       map_range_in_pgtbl(r, off, flags) \/ map_range_in_pgtbl_huge(r, off, flags)
  \/ \E r \in Ranges : unmap_range_in_pgtbl(r) \/ unmap_range_in_pgtbl_huge(r)

Round == DescendToMap \/ PutEntry \/ Skip \/ DescendToUnmap \/ ClearEntry \/ Return

Next == CreatePageTable \/ Calls \/ Round \/ free_page_table \/ Halted

Spec == Init /\ [][Next]_vars

FairSpec == Spec /\ WF_vars(Round)

-----------------------------------------------------------------------------
PteOK(e) ==
  \/ e = NULL
  \/ e.is_table /\ e.pfn \in used /\ e.attr = NULL
  \/ e.pfn \in Nat /\ e.attr # NULL

\* Every entry of a table in use is invalid, leads to a table in use, or maps: no
\* walk of get_next_ptp leaves the tables.
TypeOK ==
  /\ pgtbl \in Ptps \cup {NULL}
  /\ used \subseteq Ptps
  /\ DOMAIN table = Ptps
  /\ \A p \in used, i \in Indices : PteOK(table[p][i])
  /\ walk # NULL => walk \in Walks /\ walk.ptp \in used
  /\ ret \in {NULL, 0}
  /\ halted \in BOOLEAN

\* The page table is a tree, at every step of every call: each page handed out for
\* it, and no other, hangs at one entry, so free_page_table frees each page once.
EntriesTo(p) ==
  {x \in (UNION {Tables(level) : level \in 0 .. 2}) \X Indices :
     /\ table[x[1]][x[2]] # NULL /\ table[x[1]][x[2]].is_table
     /\ table[x[1]][x[2]].pfn = p}

TreeRight ==
  IF pgtbl = NULL THEN used = {}
  ELSE /\ used = FreedTables
       /\ \A p \in used : Cardinality(EntriesTo(p)) = IF p = pgtbl THEN 0 ELSE 1

\* free_page_table frees the tables of all levels (its comments: "Free the l3 page
\* table page", "l2", "l1"): none is left when the page table is gone.
FreesAllTables == pgtbl = NULL => used = {}

\* No BUG_ON fires but the one for a page table page that cannot be allocated.
HaltsOnlyWithoutMemory == halted => used = Ptps

\* Every call ends, unless the kernel stops for lack of memory.
CallsReturn == walk # NULL ~> walk = NULL \/ halted

\* What the processor grants for an entry.
Granted(q) ==
  [pa |-> q.pa, write |-> q.attr.AP = "RW", exec |-> ~ q.attr.UXN,
   memory |-> q.attr.attr_index, shared |-> q.attr.SH]

\* What callers see of a page, and what the call in progress asks for it.
Seen(v) ==
  IF pgtbl = NULL \/ query_in_pgtbl(v) = NULL THEN NULL ELSE Granted(query_in_pgtbl(v))

Asked(v) ==
  IF ~ Maps THEN NULL
  ELSE [pa |-> walk.pa + (v - walk.va),
        write |-> "WRITE" \in walk.flags, exec |-> "EXEC" \in walk.flags,
        memory |-> IF "DEVICE" \in walk.flags THEN "device"
                   ELSE IF "NOCACHE" \in walk.flags THEN "nocache" ELSE "normal",
        shared |-> "DEVICE" \notin walk.flags]

Space == [v \in VPages |-> Seen(v)]
Todo == [v \in IF walk = NULL THEN {} ELSE walk.va .. walk.end - 1 |-> Asked(v)]

\* The page tables implement the address space that callers see: pages change only
\* when a call asks for it, to the physical page and permissions it asks for, and
\* all are done when it returns, whatever blocks and tables are on the way.
Abstract ==
  INSTANCE AddrSpace WITH
    Regions <- {Region(r) : r \in Ranges}, Nil <- NULL, space <- Space, todo <- Todo

AsSpec == Abstract!AsSpec

=============================================================================
