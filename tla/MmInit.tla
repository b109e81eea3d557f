------------------------------- MODULE MmInit -------------------------------
(***************************************************************************)
(* How mm_init (kernel/mm/mm.c) lays out the memory behind the kernel      *)
(* image: the array of struct page first, then, on a page boundary, the    *)
(* pages it describes; and the conversions between the two (buddy.c).      *)
(* The link address of the image decides where the memory begins.          *)
(***************************************************************************)
EXTENDS Integers

CONSTANTS
  PAGE_SIZE,      \* 4096, also BUDDY_PAGE_SIZE
  PageMeta,       \* sizeof(struct page): 40
  KBASE,          \* what phys_to_virt adds
  MemEnd,         \* USABLE_MEM_END - RESERVED_FOR_GPU
  ImgEnds         \* the values img_end may have

ROUND_UP(x, n) == ((x + n - 1) \div n) * n

\* The image ends below the memory reserved for the GPU, whose bounds are
\* page-aligned, as is the offset of the kernel mapping.
ASSUME MemAssumption ==
  /\ PAGE_SIZE \in Nat \ {0}
  /\ PageMeta \in Nat \ {0}
  /\ KBASE \in Nat /\ KBASE % PAGE_SIZE = 0
  /\ MemEnd \in Nat /\ MemEnd % PAGE_SIZE = 0
  /\ ImgEnds \subseteq Nat
  /\ \A e \in ImgEnds : ROUND_UP(e, PAGE_SIZE) <= MemEnd

VARIABLES
  pc,               \* what mm_init does next
  img_end,          \* the symbol the linker defines
  physmem_map_num,
  physmem_map,      \* [start, end) of the only range
  pool              \* global_mem[0]: page_metadata, pool_start_addr, page_num

vars == <<pc, img_end, physmem_map_num, physmem_map, pool>>

\* A plausible mistake is to take the two kinds of addresses for one.
phys_to_virt_Same(a) == a

phys_to_virt(a) == a + KBASE

Init ==
  /\ pc = "parse"
  /\ img_end \in ImgEnds
  /\ physmem_map_num = 0
  /\ physmem_map = [start |-> 0, end |-> 0]
  /\ pool = [page_metadata |-> 0, pool_start_addr |-> 0, page_num |-> 0]

parse_mem_map ==
  /\ pc = "parse"
  /\ physmem_map_num' = 1
  /\ physmem_map' = [start |-> ROUND_UP(img_end, PAGE_SIZE), end |-> MemEnd]
  /\ pc' = "layout"
  /\ UNCHANGED <<img_end, pool>>

\* Plausible mistakes: forget that a page needs its struct page, or count it twice.
npages_NoMeta(start, end) == (end - start) \div PAGE_SIZE
npages_MetaTwice(start, end) == (end - start) \div (PAGE_SIZE + 2 * PageMeta)

npages(start, end) == (end - start) \div (PAGE_SIZE + PageMeta)

mm_init ==
  /\ pc = "layout"
  /\ physmem_map_num = 1
  /\ LET start == phys_to_virt(physmem_map.start)
         n == npages(start, phys_to_virt(physmem_map.end))
     IN pool' = [page_metadata |-> start,
                 pool_start_addr |-> ROUND_UP(start + n * PageMeta, PAGE_SIZE),
                 page_num |-> n]
  /\ pc' = "ready"
  /\ UNCHANGED <<img_end, physmem_map_num, physmem_map>>

Done == pc = "ready" /\ UNCHANGED vars

Next == parse_mem_map \/ mm_init \/ Done

Spec == Init /\ [][Next]_vars

-----------------------------------------------------------------------------
\* page_to_virt and virt_to_page of buddy.c, on addresses of struct page.

PageStruct(i) == pool.page_metadata + i * PageMeta

page_to_virt(page) ==
  ((page - pool.page_metadata) \div PageMeta) * PAGE_SIZE + pool.pool_start_addr

pool_mem_size == pool.page_num * PAGE_SIZE

\* The addresses virt_to_page does not stop at with a BUG_ON.
InPool(addr) ==
  /\ addr >= pool.pool_start_addr
  /\ addr < pool.pool_start_addr + pool_mem_size

\* A plausible mistake: offsets from the metadata, not from the first page.
virt_to_page_FromMeta(addr) ==
  pool.page_metadata + ((addr - pool.page_metadata) \div PAGE_SIZE) * PageMeta

virt_to_page(addr) ==
  pool.page_metadata + ((addr - pool.pool_start_addr) \div PAGE_SIZE) * PageMeta

-----------------------------------------------------------------------------
TypeOK ==
  /\ pc \in {"parse", "layout", "ready"}
  /\ img_end \in ImgEnds
  /\ physmem_map_num \in {0, 1}
  /\ physmem_map \in [start : Nat, end : Nat]
  /\ pool \in [page_metadata : Nat, pool_start_addr : Nat, page_num : Nat]

\* The array of struct page and the pages lie in the usable memory, one after
\* the other, and the pages are page-aligned, whatever the rounding costs.
LayoutFits ==
  pc = "ready" =>
    /\ phys_to_virt(img_end) <= pool.page_metadata
    /\ pool.page_metadata + pool.page_num * PageMeta <= pool.pool_start_addr
    /\ pool.pool_start_addr % PAGE_SIZE = 0
    /\ pool.pool_start_addr + pool_mem_size <= phys_to_virt(MemEnd)

\* No layout has a page more: that page and its struct page would not fit.
PoolMaximal ==
  pc = "ready" =>
    (pool.page_num + 1) * (PAGE_SIZE + PageMeta)
      > phys_to_virt(MemEnd) - pool.page_metadata

\* An address inside a page leads to the struct page of that page and back to
\* the page's first address: what kfree and the page tables rely on.
RoundTrip ==
  pc = "ready" =>
    \A i \in 0 .. pool.page_num - 1 :
      LET addr == page_to_virt(PageStruct(i))
      IN /\ addr % PAGE_SIZE = 0
         /\ \A off \in 0 .. PAGE_SIZE - 1 :
              InPool(addr + off) /\ virt_to_page(addr + off) = PageStruct(i)

=============================================================================
