---------------------------- MODULE MmInitProofs ----------------------------
(***************************************************************************)
(* The layout of mm_init fits the memory, and every address of a page      *)
(* leads to its struct page and back, for every page size, size of struct  *)
(* page and end of the image.                                              *)
(***************************************************************************)
EXTENDS MmInit, TLAPS

LEMMA Distrib ==
  \A a, b, c \in Int :
    /\ a * c \in Int
    /\ (a + b) * c = a * c + b * c
    /\ (a - b) * c = a * c - b * c
    /\ c * (a + b) = c * a + c * b
    /\ 0 * c = 0 /\ 1 * c = c
  OBVIOUS

LEMMA MulLe == \A a, b, s \in Int : a <= b /\ s >= 0 => a * s <= b * s
  OBVIOUS

\* The quotient and the remainder of a division.
LEMMA DivMod ==
  \A x \in Int, s \in Nat \ {0} :
    /\ x \div s \in Int
    /\ (x \div s) * s <= x
    /\ x < (x \div s) * s + s
    /\ x % s = x - (x \div s) * s
  OBVIOUS

LEMMA MultipleMod ==
  \A q \in Int, s \in Nat \ {0} : (q * s) % s = 0
  OBVIOUS

\* A multiple of s that is no smaller than x is no smaller than ROUND_UP(x, s).
LEMMA RoundUp ==
  ASSUME NEW x \in Int, NEW s \in Nat \ {0}
  PROVE  /\ ROUND_UP(x, s) \in Int
         /\ x <= ROUND_UP(x, s)
         /\ ROUND_UP(x, s) % s = 0
         /\ \A q \in Int : x <= q * s => ROUND_UP(x, s) <= q * s
<1> DEFINE d == (x + s - 1) \div s
<1>1. x + s - 1 \in Int
  OBVIOUS
<1>2. /\ d \in Int /\ d * s <= x + s - 1 /\ x + s - 1 < d * s + s
  BY <1>1, DivMod
<1>3. ROUND_UP(x, s) = d * s
  BY DEF ROUND_UP
<1> HIDE DEF d
<1>4. d * s \in Int /\ (d * s) % s = 0 /\ x <= d * s
  BY <1>2, MultipleMod
<1>5. ASSUME NEW q \in Int, x <= q * s PROVE d * s <= q * s
  <2>1. CASE d <= q
    BY <2>1, <1>2, MulLe
  <2>2. CASE q + 1 <= d
    <3>1. (q + 1) * s <= d * s
      BY <2>2, <1>2, MulLe
    <3>2. (q + 1) * s = q * s + s /\ q * s \in Int
      OBVIOUS
    <3> QED BY <3>1, <3>2, <1>2, <1>4, <1>5
  <2> QED BY <2>1, <2>2, <1>2
<1> QED BY <1>3, <1>4, <1>5

\* The sizes mm_init computes, for a range that starts and ends on pages.
LayoutGiven(P, M, start, end, n) ==
  /\ P \in Nat \ {0} /\ M \in Nat \ {0}
  /\ start \in Int /\ end \in Int /\ start <= end /\ end % P = 0
  /\ n \in Int /\ n = (end - start) \div (P + M)

LayoutSizes(P, M, start, end, n) ==
  /\ n \in Nat
  /\ start + n * M <= ROUND_UP(start + n * M, P)
  /\ ROUND_UP(start + n * M, P) \in Int
  /\ ROUND_UP(start + n * M, P) % P = 0
  /\ ROUND_UP(start + n * M, P) + n * P <= end
  /\ end - start < (n + 1) * (P + M)

LEMMA Layout ==
  ASSUME NEW P, NEW M, NEW start, NEW end, NEW n, LayoutGiven(P, M, start, end, n)
  PROVE  LayoutSizes(P, M, start, end, n)
<1> USE DEF LayoutGiven
<1> DEFINE t == P + M
           len == end - start
           x == start + n * M
<1>1. t \in Nat \ {0} /\ len \in Int /\ len >= 0 /\ n = len \div t
  OBVIOUS
<1>2. n \in Int /\ n * t <= len /\ len < n * t + t
  BY <1>1, DivMod
<1>4. n * t = n * P + n * M /\ n * P \in Int /\ n * M \in Int
  <2>1. n \in Int /\ P \in Int /\ M \in Int
    BY <1>2
  <2>2. n * (P + M) = n * P + n * M /\ n * P \in Int /\ n * M \in Int
    BY <2>1, Distrib
  <2> QED BY <2>2
<1>11. (n + 1) * t = n * t + t /\ n * t \in Int /\ 0 * t = 0
  <2> HIDE DEF t
  <2>1. n \in Int /\ t \in Int
    BY <1>1, <1>2
  <2>2. (n + 1) * t = n * t + 1 * t /\ 1 * t = t /\ n * t \in Int /\ 0 * t = 0
    BY <2>1, Distrib
  <2> QED BY <2>2
<1>3. n >= 0
  <2> HIDE DEF t, len
  <2>1. CASE n + 1 <= 0
    <3>0. n + 1 \in Int /\ 0 \in Int /\ t \in Int /\ t >= 0
      BY <1>1, <1>2
    <3>1. (n + 1) * t <= 0 * t
      BY <2>1, <3>0, MulLe
    <3>2. n * t + t <= 0
      BY <3>1, <1>11
    <3> QED BY <3>2, <1>1, <1>2, <1>11
  <2> QED BY <2>1, <1>2
<1>5. x \in Int /\ x + n * P <= end
  BY <1>2, <1>4
<1>6. end = (end \div P) * P /\ end \div P \in Int
  BY DivMod
<1>7. (end \div P - n) * P = end - n * P /\ end \div P - n \in Int
  BY <1>2, <1>6
<1>8. x <= (end \div P - n) * P
  BY <1>4, <1>5, <1>7
<1> HIDE DEF x
<1>9. /\ ROUND_UP(x, P) \in Int /\ x <= ROUND_UP(x, P) /\ ROUND_UP(x, P) % P = 0
      /\ ROUND_UP(x, P) <= (end \div P - n) * P
  BY <1>5, <1>7, <1>8, RoundUp
<1>10. ROUND_UP(x, P) + n * P <= end
  BY <1>4, <1>7, <1>9
<1> QED BY <1>2, <1>3, <1>5, <1>9, <1>10, <1>11 DEF x, LayoutSizes

-----------------------------------------------------------------------------
\* The range parse_mem_map finds.
RangeRight ==
  /\ pc \in {"parse", "layout", "ready"}
  /\ img_end \in ImgEnds
  /\ pc # "parse" =>
       /\ physmem_map = [start |-> ROUND_UP(img_end, PAGE_SIZE), end |-> MemEnd]
       /\ physmem_map_num = 1

IInv == RangeRight /\ LayoutFits /\ PoolMaximal

LEMMA InitInv == Init => IInv
  BY DEF Init, IInv, RangeRight, LayoutFits, PoolMaximal

LEMMA LayoutStep ==
  ASSUME IInv, mm_init
  PROVE  IInv'
<1> DEFINE start == phys_to_virt(ROUND_UP(img_end, PAGE_SIZE))
           end == phys_to_virt(MemEnd)
           n == npages(start, end)
<1>1. /\ img_end \in Nat /\ MemEnd \in Int /\ KBASE \in Int
      /\ PAGE_SIZE \in Nat \ {0} /\ PageMeta \in Nat \ {0}
      /\ ROUND_UP(img_end, PAGE_SIZE) <= MemEnd
  BY MemAssumption DEF IInv, RangeRight
<1>2. ROUND_UP(img_end, PAGE_SIZE) \in Int /\ img_end <= ROUND_UP(img_end, PAGE_SIZE)
  BY <1>1, RoundUp
<1>3. start \in Int /\ end \in Int /\ start <= end /\ phys_to_virt(img_end) <= start
  BY <1>1, <1>2 DEF phys_to_virt
<1>4. end % PAGE_SIZE = 0
  <2>0. MemEnd \in Int /\ KBASE \in Int /\ MemEnd % PAGE_SIZE = 0 /\ KBASE % PAGE_SIZE = 0
    BY MemAssumption
  <2>1. /\ MemEnd = (MemEnd \div PAGE_SIZE) * PAGE_SIZE /\ MemEnd \div PAGE_SIZE \in Int
        /\ KBASE = (KBASE \div PAGE_SIZE) * PAGE_SIZE /\ KBASE \div PAGE_SIZE \in Int
    <3>1. /\ MemEnd \div PAGE_SIZE \in Int
          /\ MemEnd % PAGE_SIZE = MemEnd - (MemEnd \div PAGE_SIZE) * PAGE_SIZE
      BY <2>0, <1>1, DivMod
    <3>2. /\ KBASE \div PAGE_SIZE \in Int
          /\ KBASE % PAGE_SIZE = KBASE - (KBASE \div PAGE_SIZE) * PAGE_SIZE
      BY <2>0, <1>1, DivMod
    <3>3. /\ (MemEnd \div PAGE_SIZE) * PAGE_SIZE \in Int
          /\ (KBASE \div PAGE_SIZE) * PAGE_SIZE \in Int
      BY <3>1, <3>2, <1>1, Distrib
    <3> QED BY <3>1, <3>2, <3>3, <2>0
  <2>2. MemEnd + KBASE = (MemEnd \div PAGE_SIZE + KBASE \div PAGE_SIZE) * PAGE_SIZE
    <3> DEFINE u == MemEnd \div PAGE_SIZE
               v == KBASE \div PAGE_SIZE
    <3>1. u \in Int /\ v \in Int /\ MemEnd = u * PAGE_SIZE /\ KBASE = v * PAGE_SIZE
      BY <2>1
    <3> HIDE DEF u, v
    <3>2. (u + v) * PAGE_SIZE = u * PAGE_SIZE + v * PAGE_SIZE
      BY <3>1, <1>1, Distrib
    <3> QED BY <3>1, <3>2 DEF u, v
  <2>3. MemEnd \div PAGE_SIZE + KBASE \div PAGE_SIZE \in Int
    BY <2>1
  <2> QED BY <1>1, <2>2, <2>3, MultipleMod DEF phys_to_virt
<1>5. /\ pc' = "ready" /\ UNCHANGED <<img_end, physmem_map_num, physmem_map>>
      /\ physmem_map = [start |-> ROUND_UP(img_end, PAGE_SIZE), end |-> MemEnd]
      /\ physmem_map_num = 1
      /\ pool' = [page_metadata |-> start,
                  pool_start_addr |-> ROUND_UP(start + n * PageMeta, PAGE_SIZE),
                  page_num |-> n]
  BY DEF mm_init, IInv, RangeRight
<1>6. n = (end - start) \div (PAGE_SIZE + PageMeta)
  BY DEF npages
<1> HIDE DEF start, end, n
<1>6a. n \in Int
  <2>1. end - start \in Int /\ PAGE_SIZE + PageMeta \in Nat \ {0}
    BY <1>1, <1>3
  <2> QED BY <2>1, <1>6, DivMod
<1>7. /\ n \in Nat
      /\ start + n * PageMeta <= ROUND_UP(start + n * PageMeta, PAGE_SIZE)
      /\ ROUND_UP(start + n * PageMeta, PAGE_SIZE) % PAGE_SIZE = 0
      /\ ROUND_UP(start + n * PageMeta, PAGE_SIZE) + n * PAGE_SIZE <= end
      /\ end - start < (n + 1) * (PAGE_SIZE + PageMeta)
  <2>1. LayoutGiven(PAGE_SIZE, PageMeta, start, end, n)
    BY <1>1, <1>3, <1>4, <1>6, <1>6a DEF LayoutGiven
  <2>2. LayoutSizes(PAGE_SIZE, PageMeta, start, end, n)
    BY <2>1, Layout
  <2> QED BY <2>2 DEF LayoutSizes
<1>8. RangeRight'
  BY <1>5 DEF IInv, RangeRight
<1>9. LayoutFits'
  BY <1>3, <1>5, <1>7 DEF LayoutFits, pool_mem_size, end, phys_to_virt
<1>10. PoolMaximal'
  <2>1. pool'.page_num = n /\ pool'.page_metadata = start
    BY <1>5
  <2>2. (n + 1) * (PAGE_SIZE + PageMeta) > end - start
    <3>1. (n + 1) * (PAGE_SIZE + PageMeta) \in Int /\ end - start \in Int
      BY <1>1, <1>3, <1>7
    <3> QED BY <3>1, <1>7
  <2> QED BY <2>1, <2>2 DEF PoolMaximal, end, phys_to_virt
<1> QED BY <1>8, <1>9, <1>10 DEF IInv

LEMMA NextInv == IInv /\ [Next]_vars => IInv'
<1> SUFFICES ASSUME IInv, [Next]_vars PROVE IInv'
  OBVIOUS
<1>1. CASE parse_mem_map
  BY <1>1 DEF parse_mem_map, IInv, RangeRight, LayoutFits, PoolMaximal
<1>2. CASE mm_init
  BY <1>2, LayoutStep
<1>3. CASE UNCHANGED vars
  BY <1>3 DEF vars, IInv, RangeRight, LayoutFits, PoolMaximal, pool_mem_size
<1> QED BY <1>1, <1>2, <1>3 DEF Next, Done

\* The metadata and the pages that mm_init gives to init_buddy lie in the usable
\* memory and do not overlap, for every size of page and of struct page and
\* wherever the kernel image ends.
THEOREM AlwaysFits == Spec => []LayoutFits
<1>1. Init => IInv
  BY InitInv
<1>2. IInv /\ [Next]_vars => IInv'
  BY NextInv
<1>3. IInv => LayoutFits
  BY DEF IInv
<1> QED BY <1>1, <1>2, <1>3, PTL DEF Spec

\* No larger pool would fit.
THEOREM AlwaysMaximal == Spec => []PoolMaximal
<1>1. Init => IInv
  BY InitInv
<1>2. IInv /\ [Next]_vars => IInv'
  BY NextInv
<1>3. IInv => PoolMaximal
  BY DEF IInv
<1> QED BY <1>1, <1>2, <1>3, PTL DEF Spec

-----------------------------------------------------------------------------
\* A number in one of the steps of size s is divided down to it.
LEMMA DivUnique ==
  ASSUME NEW s \in Nat \ {0}, NEW i \in Int, NEW off \in 0 .. s - 1
  PROVE  (i * s + off) \div s = i
<1> DEFINE x == i * s + off
           q == x \div s
<1>1. i * s \in Int /\ x \in Int
  OBVIOUS
<1>2. q \in Int /\ q * s <= x /\ x < q * s + s
  BY <1>1, DivMod
<1>3. x < i * s + s /\ i * s <= x
  BY <1>1
<1> HIDE DEF x, q
<1>4. s \in Int /\ s >= 0 /\ q * s \in Int
  BY <1>2
<1>5. CASE q + 1 <= i
  <2>1. (q + 1) * s <= i * s
    BY <1>2, <1>4, <1>5, MulLe
  <2>2. (q + 1) * s = q * s + s
    BY <1>2
  <2> QED BY <2>1, <2>2, <1>1, <1>2, <1>3, <1>4
<1>6. CASE i + 1 <= q
  <2>1. (i + 1) * s <= q * s
    BY <1>2, <1>4, <1>6, MulLe
  <2>2. (i + 1) * s = i * s + s
    OBVIOUS
  <2> QED BY <2>1, <2>2, <1>1, <1>2, <1>3, <1>4
<1> QED BY <1>2, <1>5, <1>6 DEF x, q

\* The pool that mm_init has laid out.
PoolRight ==
  /\ pool \in [page_metadata : Nat, pool_start_addr : Nat, page_num : Nat]
  /\ physmem_map \in [start : Nat, end : Nat]
  /\ physmem_map_num \in {0, 1}

JInv == IInv /\ PoolRight

LEMMA InitPool == Init => JInv
<1> SUFFICES ASSUME Init PROVE JInv
  OBVIOUS
<1>1. pool = [page_metadata |-> 0, pool_start_addr |-> 0, page_num |-> 0]
  BY DEF Init
<1>2. physmem_map = [start |-> 0, end |-> 0] /\ physmem_map_num = 0
  BY DEF Init
<1>3. PoolRight
  BY <1>1, <1>2 DEF PoolRight
<1> QED BY <1>3, InitInv DEF JInv

LEMMA NextPool == JInv /\ [Next]_vars => JInv'
<1> SUFFICES ASSUME JInv, [Next]_vars PROVE JInv'
  OBVIOUS
<1>1. IInv'
  BY NextInv DEF JInv
<1>2. CASE parse_mem_map
  <2>1. img_end \in Nat /\ MemEnd \in Nat /\ PAGE_SIZE \in Nat \ {0}
    BY MemAssumption DEF JInv, IInv, RangeRight
  <2>2. ROUND_UP(img_end, PAGE_SIZE) \in Nat
    <3>1. ROUND_UP(img_end, PAGE_SIZE) \in Int /\ img_end <= ROUND_UP(img_end, PAGE_SIZE)
      BY <2>1, RoundUp
    <3> QED BY <3>1, <2>1
  <2>3. PoolRight'
    BY <1>2, <2>1, <2>2 DEF parse_mem_map, JInv, PoolRight
  <2> QED BY <1>1, <2>3 DEF JInv
<1>3. CASE mm_init
  <2> DEFINE start == phys_to_virt(physmem_map.start)
             n == npages(start, phys_to_virt(physmem_map.end))
             r == ROUND_UP(start + n * PageMeta, PAGE_SIZE)
  <2>0. pool' = [page_metadata |-> start, pool_start_addr |-> r, page_num |-> n]
    BY <1>3 DEF mm_init
  <2>1. /\ PAGE_SIZE \in Nat \ {0} /\ PageMeta \in Nat \ {0} /\ KBASE \in Nat /\ MemEnd \in Nat
        /\ img_end \in Nat /\ ROUND_UP(img_end, PAGE_SIZE) <= MemEnd
    BY MemAssumption DEF JInv, IInv, RangeRight
  <2>2. start \in Nat
    BY <2>1 DEF JInv, PoolRight, phys_to_virt
  <2>3. n \in Nat
    <3>1. /\ pc' = "ready" /\ PoolMaximal' /\ LayoutFits'
      BY <1>1, <1>3 DEF IInv, mm_init
    <3>2. /\ physmem_map.start = ROUND_UP(img_end, PAGE_SIZE)
          /\ physmem_map.end = MemEnd
      BY <1>3 DEF mm_init, JInv, IInv, RangeRight
    <3>3. phys_to_virt(physmem_map.end) - start \in Nat
      <4>1. ROUND_UP(img_end, PAGE_SIZE) \in Int
        BY <2>1, RoundUp
      <4> QED BY <3>2, <2>1, <4>1 DEF phys_to_virt
    <3> DEFINE len == phys_to_virt(physmem_map.end) - start
    <3>4. n = len \div (PAGE_SIZE + PageMeta)
      BY DEF npages
    <3>5. len \in Nat /\ PAGE_SIZE + PageMeta \in Nat \ {0}
      BY <3>3, <2>1
    <3> HIDE DEF len, n
    <3> QED BY <3>4, <3>5
  <2>4. r \in Nat
    <3> HIDE DEF n, start
    <3>1. start + n * PageMeta \in Nat
      BY <2>1, <2>2, <2>3
    <3>2. r \in Int /\ start + n * PageMeta <= r
      BY <3>1, <2>1, RoundUp
    <3> QED BY <3>1, <3>2
  <2>5. PoolRight'
    <3> HIDE DEF n, start, r
    <3>1. physmem_map' = physmem_map /\ physmem_map_num' = physmem_map_num
      BY <1>3 DEF mm_init
    <3> QED BY <3>1, <2>0, <2>2, <2>3, <2>4 DEF JInv, PoolRight
  <2> QED BY <1>1, <2>5 DEF JInv
<1>4. CASE UNCHANGED vars
  BY <1>1, <1>4 DEF vars, JInv, PoolRight
<1> QED BY <1>2, <1>3, <1>4 DEF Next, Done

\* The variables of mm_init stay what they are declared to be.
THEOREM TypeCorrect == Spec => []TypeOK
<1>1. Init => JInv
  BY InitPool
<1>2. JInv /\ [Next]_vars => JInv'
  BY NextPool
<1>3. JInv => TypeOK
  BY DEF JInv, IInv, RangeRight, PoolRight, TypeOK
<1> QED BY <1>1, <1>2, <1>3, PTL DEF Spec

LEMMA PoolLeadsBack == JInv => RoundTrip
<1> SUFFICES ASSUME JInv, pc = "ready",
                    NEW i \in 0 .. pool.page_num - 1, NEW off \in 0 .. PAGE_SIZE - 1
             PROVE  LET addr == page_to_virt(PageStruct(i))
                    IN /\ addr % PAGE_SIZE = 0
                       /\ InPool(addr + off) /\ virt_to_page(addr + off) = PageStruct(i)
  <2>1. PAGE_SIZE \in Nat \ {0} /\ 0 \in 0 .. PAGE_SIZE - 1
    BY MemAssumption
  <2> QED BY <2>1 DEF RoundTrip
<1> DEFINE P == PAGE_SIZE
           M == PageMeta
           meta == pool.page_metadata
           start == pool.pool_start_addr
           addr == page_to_virt(PageStruct(i))
<1>1. P \in Nat \ {0} /\ M \in Nat \ {0}
  BY MemAssumption
<1>2. meta \in Nat /\ start \in Nat /\ pool.page_num \in Nat /\ start % P = 0
  BY DEF JInv, PoolRight, IInv, LayoutFits
<1>3. i \in Int /\ i * M \in Int /\ i * P \in Int
  BY <1>1
<1>4. addr = i * P + start
  <2>1. PageStruct(i) - meta = i * M + 0 /\ 0 \in 0 .. M - 1
    BY <1>1, <1>2, <1>3 DEF PageStruct
  <2>2. (i * M + 0) \div M = i
    BY <1>1, <1>3, <2>1, DivUnique
  <2> QED BY <2>1, <2>2 DEF page_to_virt
<1> HIDE DEF P, M, meta, start
<1>5. addr % P = 0
  <2>1. start \div P \in Int /\ start = (start \div P) * P
    <3>0. start \in Int
      BY <1>2
    <3>1. start \div P \in Int /\ start % P = start - (start \div P) * P
      BY <1>1, <3>0, DivMod
    <3> QED BY <3>1, <1>1, <1>2
  <2> DEFINE q == start \div P
  <2>2. q \in Int /\ start = q * P
    BY <2>1
  <2> HIDE DEF q
  <2>3. (i + q) * P = i * P + q * P /\ i + q \in Int
    BY <1>1, <1>3, <2>2
  <2>4. addr = (i + q) * P
    BY <1>4, <2>2, <2>3
  <2> QED BY <2>3, <2>4, <1>1, MultipleMod
<1>6. InPool(addr + off)
  <2>1. i + 1 <= pool.page_num
    BY <1>2
  <2>2. (i + 1) * P <= pool.page_num * P
    BY <2>1, <1>1, <1>2, <1>3, MulLe
  <2>3. (i + 1) * P = i * P + P
    BY <1>1, <1>3
  <2>4. 0 * P <= i * P /\ 0 * P = 0
    BY <1>1, <1>3, MulLe
  <2>5. off \in Int /\ 0 <= off /\ off < P
    BY <1>1 DEF P
  <2>6. pool.page_num * P \in Int
    BY <1>1, <1>2
  <2> QED BY <1>1, <1>2, <1>3, <1>4, <2>2, <2>3, <2>4, <2>5, <2>6
          DEF InPool, pool_mem_size, start, P
<1>7. virt_to_page(addr + off) = PageStruct(i)
  <2>1. off \in 0 .. P - 1
    BY DEF P
  <2>2. (addr + off) - start = i * P + off
    BY <1>2, <1>3, <1>4, <2>1, <1>1
  <2>3. (i * P + off) \div P = i
    BY <1>1, <1>3, <2>1, DivUnique
  <2>4. ((addr + off) - start) \div P = i
    BY <2>2, <2>3
  <2> QED BY <2>4 DEF virt_to_page, PageStruct, start, P
<1> QED BY <1>5, <1>6, <1>7 DEF P

\* page_to_virt and virt_to_page undo each other, for every address inside every
\* page of the pool.
THEOREM AlwaysBack == Spec => []RoundTrip
<1>1. Init => JInv
  BY InitPool
<1>2. JInv /\ [Next]_vars => JInv'
  BY NextPool
<1> QED BY <1>1, <1>2, PoolLeadsBack, PTL DEF Spec

=============================================================================
