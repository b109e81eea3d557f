# ChCore lab 2 in TLA+: its boot and its memory management

The repository is the kernel of the ChCore teaching laboratory for a Raspberry
Pi 3: it boots on one processor, turns on the MMU with a page table built by
hand, hands the memory behind its image to a buddy allocator, puts a slab
allocator and `kmalloc` on top of it, and manages four-level page tables. This
directory holds models of these parts, the TLC runs that check them on small
instances, and proofs that TLAPS checks for every instance.

## 1. The system

One processor runs (`start.S` stops the others), with interrupts off and one
thread: a call is never interrupted by another. There is no file, message, lock
or timer. Only the hardware works beside the program: the transmitter of the serial
line sends when it is ready, and the processor fills its TLB when it likes. What is
hard is mostly **sequential**: data structures built into the memory
they describe, updated by recursion and by pointer surgery, whose invariants are
broken between the first and the last assignment of an operation and must hold
again after any history of calls; arithmetic on addresses at the ends of ranges;
and what happens when memory runs out half way.

| Component | State | Operations | What makes it correct |
|---|---|---|---|
| Boot, `start.S`, `tools.S`, `init_c.c`, `head.S`, `main.c` | exception level, MMU, TTBR0 | `arm64_elX_to_el1`, `clear_bss`, `init_c`, `el1_mmu_activate`, `start_kernel`, `main` | EL1 is reached from any level, masked from EL2 and EL3; the running code finds itself while translation sets in, and the jump to the high half comes after; the boot ends |
| Boot page table, `boot/raspi3/init/mmu.c` | six static tables | `init_boot_pt` | no address is ever mapped wrong; exactly 1G low and 2G high are mapped |
| Memory discovery, `mmparse.c`, `mm.c` | `physmem_map`, `global_mem[0]` | `parse_mem_map`, `mm_init` | metadata and pages fit the usable memory, apart, page-aligned |
| Buddy, `buddy.c` | `struct page` per page, `free_lists`, `nr_free` | `init_buddy`, `buddy_get_pages`, `buddy_free_pages`, recursive `split_page` and `merge_page` | chunks tile the pool; free buddies are merged; no live chunk is given away |
| Lists, `list.h` | pointers in every node | `list_add`, `list_append`, `list_del`, `hlist_add`, `hlist_del`, the loops | linked both ways; a list is a sequence; a loop visits it once |
| Slabs, `slab.c` | `slabs[order]`, a header in each slab, free slots linked through themselves, `page->slab` | `init_slab`, `alloc_in_slab`, `free_in_slab` | each free slot listed once; every page of a slab leads to it |
| `kmalloc.c` | none of its own | `kmalloc`, `kzalloc`, `kfree`, `get_pages`, `free_pages` | objects never overlap, are large enough, and return to where they came from |
| `mm_check.c` | none | `get_free_mem_size` | the parts add up to the pool |
| Page tables, `page_table.c` | the tables | `map_range_in_pgtbl`, `unmap_range_in_pgtbl`, the `_huge` ones, `query_in_pgtbl`, `free_page_table` | the address space changes as asked; the tables are a tree and all are freed |
| `printk.c` | the walk over a format | the directives, `simple_outputi`, `prints` | each directive sends the field it asks for; digits fit the buffer; the format is not read past its end |
| UART drivers, `peripherals/uart.c`, `raspi3/uart/uart.c` | the registers and the FIFO of one mini UART | `early_uart_init`, `uart_init`, the two senders | no character is lost or garbled, also while the UART is set up a second time |
| TLB, `tlb.c`, `page_table.S` | what the processor remembers | `flush_tlb_all`, `set_ttbr0_el1` | no address is translated by a table that is gone |
| `memcpy.S`, `memmove.S`, `memset.S`, barriers, register headers, tests, build | none | | not modelled, see 8 |

They interact by calls only. `_start` leaves EL3 or EL2, `init_c` builds the boot table and
turns the MMU on, `start_kernel` gives up the low half, `main` sets up the UART again and
calls `mm_init`. `mm_init` runs `parse_mem_map`, lays out the pool
and calls `init_buddy` and `init_slab`; `kmalloc` asks a slab or the buddy
system; a slab asks the buddy system for pages; page tables take their pages from
`get_pages(0)`. The one piece of state two components share is `struct page`: the
buddy system owns `allocated`, `order` and the list node, the slab allocator owns
`slab`, by which `kfree` decides whose an address is.

## 2. The modules

    Chunks <- PhysMem <- Slab <- Kmalloc ==> Heap          (==> implements)
       ^         ^
       |         "
       +------ Buddy ========> PhysMem
    MmInit, BootTable, Uart, Tlb <- Boot     Tlb <- Switch
    Cells <- ListHead ==> Lists              PageTable ==> AddrSpace
    Cells <- HList ==> Lists                 Printk

`PhysMem` joins the two halves: `Buddy` is shown to implement it, and the slab
allocator and `kmalloc` are built on it, so that the small steps of split and merge
need not be explored again under every history of `kmalloc`.

* **`Chunks`**: addresses in pages, `get_buddy_chunk` with its flipped bit and its
  two bounds, what it means that chunks tile a pool. A pool starts at any page:
  nothing in `mm_init` aligns it to more, and buddies are found on the absolute
  address.
* **`PhysMem`** (abstract): the chunks in use. An allocation returns an aligned
  unused chunk, and may be refused only if there is none.
* **`Buddy`**: `buddy.c`. `allocated`, `order`, `free_list`, `nr_free` are the
  fields of the code; pages inside a chunk keep the fields they last had. A call
  starts with `buddy_get_pages(o)` or `buddy_free_pages(p)`; then `pc`, `cur`,
  `want` are its local variables and every recursive call of `split_page` or
  `merge_page` is a step. `init_buddy` frees the pages one by one, as its last
  loop does. The `BUG_ON`s lead to `pc = "halt"`, and so does a list operation on a
  node that is not where the code takes it to be. `owned` and `ret` record what
  callers were given.
* **`MmInit`**: `parse_mem_map` and the arithmetic of `mm_init`, in bytes, for
  every place the image may end; `page_to_virt` and `virt_to_page`.
* **`ListHead`**, **`HList`**: `list.h` pointer by pointer; a node that is taken off
  keeps its pointers. `visit` holds the loop variables of a traversal. **`Cells`**
  holds the constants and the loops of both, and `MCLists` runs them together. **`Lists`**
  (abstract): sequences, what a loop has yet to visit, and whether the last loop was left
  early, so that an end of the loop that comes too soon does not pass for a `break`. `Buddy` uses its lists as
  the sequences that `ListHead` shows them to be.
* **`Slab`**: `slab.c` over `PhysMem`: headers, the free slots linked through
  `next_free`, the first word of each slot, which belongs to the caller (`User`)
  while the slot is in use. **`Kmalloc`**: the entry points, and callers of
  `get_pages` and `free_pages` beside them; `live` records the objects in use. A call
  is a step. **`Heap`** (abstract): ranges of bytes that never overlap.
* **`PageTable`**: `page_table.c` with the number of entries, the page table pages
  and the calls as parameters. `walk` holds the local variables of a call; each
  `get_next_ptp` and each entry written is a step, since a call may stop half way.
  A page that becomes a table has stale contents until it is zeroed. The attributes
  are those of `set_pte_flags`. **`AddrSpace`** (abstract): which page is mapped to
  what, and what the call in progress has still to do.
* **`BootTable`**: `init_boot_pt`, a round of a loop a step; its two loops over memory
  and devices are one here, since the second starts where the first ends
  (`PERIPHERAL_BASE` is a whole number of 2M blocks).
* **`Uart`**: both drivers, since both write the registers of one device. `todo` is what the
  current call has still to write, each register and each character a step; `Transmit` is
  the device, at any moment between.
* **`Tlb`**: what the processor remembers; `Fill` may happen at any moment, for any address
  it can walk.
* **`Boot`** composes these with `MmInit`: `stage` is the place in `Program`, the calls of
  `_start`, `init_c`, `start_kernel` and `main` in their order. `arm64_elX_to_el1` runs
  from any exception level, with its fall-through from EL3 to EL2. No `isb` follows the
  write of `SCTLR_EL1`: from there translation is `pending`, and `TakesEffect` comes at any
  moment or never. `start_kernel` does not wait for it: a jump to the high half that comes
  first fetches from a physical address with no memory behind it, without an exception
  vector to go to, and the boot is `lost`. A start at EL1 has the interrupt mask of the
  firmware, which `arm64_elX_to_el1` leaves as it is. After reset the TLB holds anything, and once
  TTBR0 is zero a walk through it reads memory nobody has written: `Unknown`.
* **`Switch`**: `set_page_table`, one table after the other, beside the TLB.
* **`Printk`**: `simple_vsprintf`, a character of the format a step; `at` is the place in
  the code that reads the next one. A directive with all it prints is one step, from
  `simple_outputi` and `prints` as operators. Characters and arguments are chosen as they
  are read. `sent`, `returns`, `asked`, `star` and `last` record what the properties speak
  of. The branch that writes to a string has no caller and is left out.
* `MC...` modules hold what only TLC needs: definitions a `.cfg` cannot write, in `MCLists`
  the two kinds of lists beside each other, and in `MCBuddy` the liveness that is checked
  and not proved. `...Proofs` modules hold the theorems: of `Chunks`, `Buddy`, `MmInit`,
  `PageTable`, `Boot`, `Kmalloc` and `Printk`; `ListsProofs` holds those of `ListHead` and
  of `HList`, as `MCLists` has them beside each other.

In the modules, `X_Word` beside a definition `X` is a plausible mistake in `X`, such
as a dropped test: each property is known to fail for one of them.

### Contracts

The code trusts its callers; the models call it as its comments and its users do.
`Buddy`: what is freed was allocated. `Kmalloc`: what is freed is in use;
`free_pages` is for what is not in a slab. Sizes: in the passing runs below 2^64 less
a page; what happens beyond is a run of its own. `ListHead`: a node is added when it
is on no list; during a loop the list it walks changes only by the deletion of the
node it is at, and only the safe loops allow that; the body may leave the loop at any
node. `PageTable`: arguments are
page-aligned; no block is in the way of the functions for 4K pages (`NoBlocks`) nor of
a call that maps, although `map_range_in_pgtbl_huge` writes a new block over an old one
(`page_table.c:415`); huge unmapping is for whole blocks (`WholeBlocks`); and, but for one
run, no block is mapped over tables that are left over (`BlocksOverTables`). `Printk`: the
arguments are those the format asks for, and widths fit an `int` (`width` is one,
`printk.c:136`; in the model it is a number of any size); nothing else is required of the
format itself.

## 3. The runs

| Run | Module, cfg | What it shows |
|---|---|---|
| `buddy` | `MCBuddy`, `Buddy` | in every state of every history no BUG_ON fires, marks and lists are right, the chunks tile the pool, free buddies are merged, and the counters add up; the recursions return and `init_buddy` ends; and `Buddy` implements `PhysMem`: no live memory is given away, and a request is refused only if no aligned chunk is unused |
| `boot` | `MCBoot`, `Boot` | the whole boot, from any exception level to the loop of `main`, with the transmitter and the TLB at any moment: EL1 is reached, from EL2 and EL3 with interrupts masked; the boot table, with the numbers of the code, maps no address wrong; the code that runs, its stack and the UART are found at whatever moment before the jump to the high half translation sets in, and nothing low is left at the end; what `mm_init` lays out fits, is as large as it may be, leads back to its struct page and is mapped as memory; no character is lost or garbled; and the boot ends, or is lost at the jump |
| `lists` | `MCLists`, `Lists` | rings and hlists are linked both ways and stand for sequences; the safe loops survive that their node moves to another list, and any loop may be left early; the loops over hlists end |
| `kmalloc_classes` | `MCKmalloc`, `KmallocClasses` | two classes of slots and chunks: no slot is lost or listed twice, requests get the smallest room that will do, `get_free_mem_size` adds up |
| `kmalloc_slabs` | `MCKmalloc`, `KmallocSlabs` | slabs of two pages, up to three in a list: `page->slab` is right, pages in use are accounted for, slabs are added only when all are full, and `Kmalloc` implements `Heap` |
| `pt_maps` | `MCPageTable`, `PageTableMaps` | pages and both sizes of blocks: the tables are a tree at every step, all are freed, and `PageTable` implements `AddrSpace` |
| `pt_flags` | `MCPageTable`, `PageTableFlags` | all 16 sets of flags, for pages and for a block, mapped and unmapped; and every call ends |
| `printk` | `MCPrintk`, `Printk` | every format of at most four characters between % and the modifier, with every argument: each field is as asked, whatever came before it, and reads back as its argument; the count is right; what leaves the buffer and the format |
| `kmalloc_largest_size` | `MCKmalloc`, `KmallocSize` | expected violation, see 4 |
| `pt_tables_left` | `MCPageTable`, `PageTableTables` | expected violation, see 4 |
| `boot_no_barrier` | `MCBoot`, `BootBarrier` | expected violation, see 4 |
| `tlb_switch` | `MCSwitch`, `Switch` | expected violation, see 4 |

### Bounds, and why they are enough

* `Buddy`: three orders, 8 pages from page 3: the buddy address falls off both ends, one
  chunk of the highest order fits, and none of it is lost to symmetry. Each level of
  recursion is the same code, three levels give first, middle and last; the proofs lift
  the bound.
* `Boot`: the table has the 512 entries and the blocks of the code; the addresses checked
  are those around each boundary and in the gigabytes that share an index with one that is
  mapped. Only what a block and a page hold is scaled: pages of 8 bytes described by 3 make
  every remainder of the divisions occur, with room for no page, for a few and for all of
  memory. The FIFO takes 2 characters where the device takes 8, and a text has 2, so that
  the FIFO is full within a text and the next call finds it so; the TLB may remember the
  code and the UART, low and high. The proofs lift all of this.
* Lists: two rings, two hlists and three nodes give a node neighbours on both sides, an
  empty list, and a list to move to; the proofs lift the bound.
* `Kmalloc`: pages of 4 bytes with slots of 1 and 2, so that a header, a slot in use,
  a free slot and the last slot can differ; sizes 0 to 5 fall below, on and between
  the classes and into pages; 3 pages are soon exhausted. In the other run a slab has two
  pages and three slots, and 6 pages hold three slabs. The proofs lift these bounds.
* `PageTable`: 2 entries per table keep all four levels and both sizes of blocks in 16
  pages; the five ranges are one page, each block, one that starts and ends off the
  blocks, one across entries of the root. Seven page table pages are short for some
  of the histories, so that allocation fails in mid-call. The proofs lift these bounds, for
  the tree and for what each call does to the address space. The run with all sets of flags
  has one range, two pages that a level-2 block can also hold: a map puts two entries of
  the last level or one block above it, both unmaps walk down to what they clear, and four
  page table pages are all it ever needs, so that no call there is cut short.
* `boot_no_barrier`: the table has 4 entries and pages hold 8 bytes, since only the order
  of the last steps before the jump matters.
* `Switch`: two tables and two pages are all the counterexample needs.
* `Printk`: integers of 1, 2, 4 and 5 bits, all values of each: signs, truncation and
  numerals of several digits in every base occur, and the buffer is as many characters as
  a long has bits, as in the code. Widths reach 10, so that they have two digits, and `*`
  takes a width below 0. `MaxCount` stops a format after its first characters or field:
  what a directive can inherit, `width` and `flags`, occurs before that. The proofs lift
  these bounds.

### Deadlock, stuttering and fairness

Deadlock is checked in every run. `BUG_ON` loops for ever, and so does `main`: those are
the steps `Halted` and `Done`. `Stopped` in `Printk` is the return to the caller.

Liveness is checked under weak fairness of the steps of a call (`init_buddy`,
`split_page`, `merge_page`; `Round`; `AdvanceHList`; `ProcessorStep`): the only thread runs
them and nothing preempts it, so a call that can go on goes on. In `Boot` the hardware does
its part: a transmitter that is on and holds a character sends it in the end (`Transmit`). That
a write of `SCTLR_EL1` ever takes effect is not assumed, since no barrier ensures it:
`BootEnds` says that the boot comes to its end or is lost at the jump. Of the TLB nothing
is assumed, nor of callers; in particular a loop may be left early but need not be.

## 4. Where the code departs from what it says

* `kmalloc_largest_size`: `buddy.h` gives the largest size that can be allocated; the sum
  in `ROUND_UP` wraps for sizes within a page of 2^64, and such a request is served, with
  one page.
* `boot_no_barrier`: the document of the laboratory (`docs/`, lab 2, line 80) says that with
  the boot table in place the kernel goes on after `el1_mmu_activate` has enabled the MMU
  and jumps to high addresses through `start_kernel`. No `isb` follows `msr sctlr_el1`
  (`tools.S:274`), and nothing from there to the `ret` into the high half (`init_c.c:66-72`,
  `head.S:17-25`) synchronizes the processor, so the architecture does not promise that
  translation is on when the jump is made. The emulator, and in practice the many
  instructions in between, hide it.
* `pt_tables_left`: `unmap_range_in_pgtbl` leaves empty tables in place, and
  `map_range_in_pgtbl_huge` puts a block over the entry that leads to one;
  `free_page_table` never reaches it. The pages are lost.
* `tlb_switch`: `set_ttbr0_el1` says that flushing the TLB is not needed because ASIDs are
  enabled. It writes its argument as it is, and `set_page_table` passes a bare address, so
  every table has ASID 0: what the processor remembers of one table answers for the next.

Seen in the models, without a run of their own: in `PageTable` no action sets `ret` to
anything but 0, where the comments promise `-EINVAL` for a length of 0 or an unaligned
address and `-ENOMAPPING` to unmap what is not mapped; nor `-ENOMAPPING` where a page table
page cannot be allocated, as the comment on `map_range_in_pgtbl` has it (`page_table.c:311`):
`get_next_ptp` stops the kernel in a `BUG_ON`, and `HaltsOnlyWithoutMemory` says that this
is the only way to stop. In `Slab` a request of at most 2048
bytes that needs a slab which cannot be allocated halts in the `BUG_ON` of
`virt_to_page(NULL)` (`slab.c:54`), before the warning that `alloc_slab_memory` means to
give; requests that need pages return NULL. `Kmalloc` is proved to implement `Heap` where
no size is within a page of 2^64 (`NoWrap`), and only there. The note above `query_in_pgtbl` says that it only
supports L3; the code answers for blocks too, and `AsSpec` checks that it does. No
function of `page_table.c` flushes the TLB after it changes an entry.

A comment in `buddy.h` (line 20) gives 16M as the largest chunk; `BUDDY_MAX_ORDER` is 14 and
orders go up to 13, which makes 32M with pages of 4K. Nothing in the models depends on it.

Two more things a user should know: memory given to a slab
never returns to the buddy system. And `printk` has corners: `%b` of a negative number makes
64 digits and a NUL in a buffer of 64 (`printk.c:94`); a format that stops within a
directive is read past its NUL (`:442`); the unsigned `%hu`, `%hx` and `%hhu` print, above
their low bits, what was in the union before (`:354`); `%-05d` puts zeros behind the number.
`StaysInBounds` and `FieldRight` set the first three apart, and so would not catch them; they
say that there are no others. `NegativeOverruns` proves the first.

## 5. What is proved

TLAPS checks these for every value of the constants.

* `ChunksProofs`: lemmas on aligned chunks and their buddies: the buddy of an aligned
  chunk is aligned, disjoint, and makes with it one aligned chunk of the next order; two
  aligned chunks overlap only if one contains the other; in a tiling in which no two free
  buddies are apart, an aligned range that is free lies in one free chunk.
* `BuddyProofs`: `Spec => []TypeOK`, `NoPanic`, `MarksOwned`, `ListsRight`, `Tiling`,
  `Coalesced`, `FreeMemSize`, and `Spec => PhysSpec`. The inductive invariant `Inv` joins them with
  `CallRight`, what the local variables of a call in progress say. None of the parts is
  inductive alone: `merge_page` decides by the fields of the page where the buddy would
  start, which may be stale; that they are not taken for a free buddy needs that an
  unmarked page of at least the right order is the head of a chunk, and that needs
  `MarksOwned`, `ListsRight` and `Tiling` together. Refusal is right because of
  `Coalesced`: if an aligned chunk of free pages exists, then by the last lemma of
  `ChunksProofs` a free chunk contains it, so a list of a high enough order is not empty.
  `FreeMemSize` compares sums: each is shown to be the number of pages in a union of
  disjoint sets (`SumCounts`), the free chunks and the chunks in use, which by `Tiling` make
  up the pool.
* `MmInitProofs`: `TypeOK`, `LayoutFits`, `PoolMaximal` and `RoundTrip`, for every size of
  page and of `struct page` and every end of the image. That the last page fits depends on
  the division rounding down at page-aligned bounds: the padding after the metadata is what
  the remainder leaves over.
* `ListsProofs`: for every number of lists and nodes, `Linked` and `HLinked`, and that rings
  and hlists implement the sequences of `Lists` (`ListsSpec`, `HListsSpec`), loops included.
  Links in both directions do not exclude a cycle that no head is on, so the invariants
  (`RingIInv`, `HIInv`) add that every list is a sequence without repetition whose
  neighbours the pointers join, that two lists share no node, and that every node on a list
  is in one of these sequences; `Along`, which follows `next`, is then shown to return just
  that sequence. A loop is at a node of its list, and the node that a safe loop has saved is
  the one to come, also when the body moved the current node to another list. What is proved
  of loops is proved once for both kinds of lists, from what their pointers make of their
  sequences (`LoopBegins`, `LoopGoesOn`, `LoopSame`, `LoopDeletes`).
  `ListsTogether` says that what TLC checks is one specification beside the other.
* `KmallocProofs`: `TypeOK`, `SlabsRight`, `FreeListsRight`, `NoPageLost`, `MemoryAccounted`,
  `HaltsOnlyWithoutMemory`, `GrowsOnlyWhenFull`, `Snug`, and under `NoWrap` that `Kmalloc`
  implements `Heap`, for every pool, number of orders and size of page. The invariant `Inv`:
  chunks in use are apart (`ChunksApart`); a page is tagged with the slab it lies in, and
  with nothing else (`Tags`), which is what makes `kfree` right; the lists of slabs and of
  free slots meet each of their members once and end (`SlabLists`, `SlotLists`, both by
  `Listed`); an object is a free-standing chunk or a slot (`ObjectsRight`); a chunk is a slab
  or an object (`ChunksUsed`). They need each other: `free_in_slab` writes a link into the
  object, which harms no list because the object is a slot of one slab and no slab overlaps
  another, and that is `Tags` and `ChunksApart`. `StepObjects` says of every step that it
  adds an object, takes one away or leaves all as they are, and where an added one lies:
  `Snug` and the refinement rest on it. `MemoryAccounted` is about bytes: every object,
  every header and every free slot stands for a set of pieces, pairs of the first page of a
  block and an offset (`UsedPieces`, `HeaderPieces`, `FreeOfOrder`); they are disjoint and
  are together the bytes of the chunks in use (`PiecesApart`, `PiecesOfChunks`), so the three
  sums count them (`UsedSum`, `HeaderSum`, `FreeSum`).
* `PageTableProofs`: `TypeOK`, `TreeRight` and `HaltsOnlyWithoutMemory`, for every number of
  entries, pages and calls within the contract, where no block is mapped over tables
  (`~ BlocksOverTables`; `pt_tables_left` shows what happens otherwise). Each table
  in use gets a level, a number among the tables of its level, a parent and an index
  (`lev`, `num`, `par`, `idx`, which the invariant only says to exist): that two entries
  lead to one table is excluded by the parent, that a walk is at the right table by the
  number. The contract is about the address space, and the walk goes on for many steps
  after it is tested: `NoBlockAhead` and `NoTableAhead` carry it over the pages to come, and
  `WholeAhead` does for the calls that unmap blocks. Under the same condition `PageTable`
  implements `AddrSpace` (`Spec => AsSpec`): the walk for every page ends at one entry
  (`Ends`, `HasEnd`), which is what `query_in_pgtbl` answers (`EndFound`), so a step that
  writes an entry changes the answer for the pages with the number of that entry and for no
  others (`QueryFrame`); these are the next pages of the call because an entry of a block
  is written or cleared only at the first page of the block, which for clearing is
  `WholeAhead`. An empty table that is linked on the way changes no answer (`LinkSeen`).
* `BootProofs`: `EntryRight` (which asks for the mask only where the boot started above EL1),
  `TranslationRight`, `NoStaleLow`, `InOrder` for every size of
  table, length of the FIFO and kernel address; `AccessesRight` if the usable memory ends
  below 1G, `PoolMapped` if it ends where the peripherals begin or before, as in the code,
  where the two are equal: these conditions are what `mmu.c` and `mmparse.c` must agree on.
  `AccessesRight` speaks of the boots that are not lost at the jump; in the others, which
  `boot_no_barrier` shows, nothing is found.
  The invariant has a part for each component, `EntryInv`, `TableInv`, `MmuInv`, `MemInv`,
  and `LineInv` for the serial line; `MmuInv` ties what the TLB may hold to the stage,
  and is where the order of giving up TTBR0 and flushing matters.

* `PrintkProofs`: `FieldRight` and `StaysInBounds`, for integers of every width with
  `CHAR < SHORT < INT < LONG`, all strings and formats, widths that fit an `int`, and a buffer of `LONG`
  characters. That a field is right when it is sent depends on what the walk has gathered,
  so the invariant `IInv` has a part `Asked`: within a directive, `width` is the number its
  digits stand for, or the argument of its `*`, and the flags are those that its characters
  ask for, whatever the directive before it left. For the conversions, `ConversionMeans`
  finds the number that the code prints: the truncation of a signed argument and the
  remainder of an unsigned one stand for what the argument means, also when the union holds
  other bytes. `NumeralReads` shows that the digits read back as that number, without a
  leading zero, and how many there are at most: at least 3 bits a digit in base 10
  and 16, and at most `INT - 1` digits for the `%b` of a number that is not negative, so all these fit the
  buffer with sign and NUL. `NegativeOverruns` shows that the one left never does.
  `Value` and `Numeral` are recursive functions: `ValueOfAppend` and `NumeralIs` unfold
  them once.

Assumptions, all evaluated by TLC: `PoolAssumption`, `PowerAssumption`,
`SlotPowerAssumption` (laws of 2^k, which the provers do not know), `SlabAssumption` and
`WordAssumption` (sizes of slabs, of the smallest slot and of a word), `MemAssumption`,
`CellAssumption` (with it, that memory holds a finite number of nodes), `VisitAssumption`
(a loop is not `NULL`), `TableAssumption`, `NullAssumption`, `BootAssumption`; and of
`Printk` `Widths`, `Buffer` (`print_buf` has 64 places and a `long` 64 bits), `Inputs` and
`Powers`, laws of 2^k again.

Induction over data is done by hand: lemma `Induction` of `KmallocProofs` takes a set of
numbers, so what a recursive function computes can be unfolded once (`WalkIs`, `HalvingsIs`)
and reasoned about by the least element where it fails.

Only model-checked: liveness (`CallReturns`, `CallsReturn`, `HTraversalEnds`, `BootEnds`),
which the provers do not reach. Every other property of a passing run is a theorem.

## 6. Hazards

`PROJECT.json` lists, line by line, what is hard to test here and the properties that
would fail if it went wrong. The main ones: stale fields of pages inside chunks
(`buddy.c:206`), buddies at the ends of a pool (`:84`), free slots linked through memory that callers write (`slab.c:110`),
routing by `page->slab` (`kmalloc.c:82`), blocks and tables in each other's way
(`page_table.c:420`), memory that runs out in the middle (`slab.c:54`,
`page_table.c:145`), traversal of a list that changes (`list.h:76`, `:135`), memory
that two files must agree on (`mmu.c:98`, `mmparse.c:32`), the TLB that outlives a table
(`head.S:39`, `page_table.S:78`), translation that sets in under the running code
(`tools.S:274`) or too late for the jump, a UART that is set up again while it sends
(`uart.c:59`). No property covers five of them, each with a note that says why: 4K functions
that meet a block (`page_table.c:335`) and unmapping part of one (`:485`) are excluded by
contract, and the three corners of `printk` (`printk.c:117`, `:353`, `:442`) are set apart
in its properties, because nothing in the repository says what should happen.

## 7. Plan

Done, in this order: Chunks, PhysMem, Buddy and their proofs; MmInit and its proofs; Slab,
Kmalloc, Heap; PageTable, AddrSpace; ListHead, HList, Lists and their proofs; BootTable and
Boot; Printk; Uart, Tlb and the whole boot; Switch; the proofs of Boot, PageTable and
Kmalloc; of the sums over the pool; that rings and hlists stand for sequences; of Printk.

Left: a composition of `PageTable` with `Kmalloc`, with page table pages taken from and
given back to the allocator, and `get_free_mem_size` as `lab2_test_page_table` compares it.

## 8. What is not modelled

* The contents of objects, pages and strings.
* Caches: `flush_idcache` and `flush_dcache_area` have no caller, the boot invalidates
  them before it turns them on, and with one processor and no DMA nothing sees memory
  past them.
* `memcpy` and `memmove`, which nothing calls, and `memset.S`, which is not compiled: copies
  of library assembly.
* `uart_recv` and `nb_uart_recv`, which nothing calls, and the delays of the drivers.
* Timer, coprocessor and interrupt controller registers set on the way to EL1; the stack;
  barriers other than the one that is missing after `SCTLR_EL1` is written. The three other processors wait in `start.S`
  for ever, because no code wakes them.
* The branch of `printk` that writes to a string, which has no caller.
* The laboratory's tests, whose calls are histories of the models, and the build.
