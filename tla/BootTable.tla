------------------------------ MODULE BootTable -----------------------------
(***************************************************************************)
(* The page table the kernel boots with (boot/raspi3/init/mmu.c), built    *)
(* entry by entry before the MMU is on.  Addresses have 48 bits and are    *)
(* counted in blocks of SIZE_2M.                                           *)
(***************************************************************************)
EXTENDS Integers

CONSTANTS
  PTP_ENTRIES,                   \* 512
  PERIPHERAL_BASE, PHYSMEM_END,  \* where devices begin, and the end of 1G
  KERNEL_VADDR,
  Addresses,                     \* the addresses that are checked
  NULL

\* The addresses that three levels of tables tell apart.
VA == 0 .. PTP_ENTRIES * (PTP_ENTRIES * PTP_ENTRIES) - 1

\* What init_boot_pt takes for granted of the constants.
TableAssumption ==
  /\ PTP_ENTRIES \in Nat \ {0, 1}
  /\ PERIPHERAL_BASE \in 1 .. PHYSMEM_END - 1 /\ PHYSMEM_END = PTP_ENTRIES
  /\ KERNEL_VADDR \in VA /\ KERNEL_VADDR % (PTP_ENTRIES * PTP_ENTRIES) = 0
  /\ Addresses \subseteq VA
  /\ NULL \notin [is_table : {TRUE}]
  /\ NULL \notin [is_table : {FALSE}, pa : Nat, memory : {"normal", "device"}]

Indices == 0 .. PTP_ENTRIES - 1

GET_L0_INDEX(va) == (va \div (PTP_ENTRIES * PTP_ENTRIES)) % PTP_ENTRIES
GET_L1_INDEX(va) == (va \div PTP_ENTRIES) % PTP_ENTRIES
GET_L2_INDEX(va) == va % PTP_ENTRIES

VARIABLES
  half,        \* 0 while the tables of TTBR0_EL1 are built, 1 for TTBR1_EL1, then 2
  vaddr,
  l0, l1, l2   \* l0[h]: the table boot_ttbr<h>_l0

vars == <<half, vaddr, l0, l1, l2>>

\* What an entry leads to; a block of level 1 maps PTP_ENTRIES blocks of level 2.
TableEntry == [is_table |-> TRUE]
BlockEntry(pa, memory) == [is_table |-> FALSE, pa |-> pa, memory |-> memory]

\* The sections of the image that hold the tables are zero in the file.
Empty == [h \in {0, 1} |-> [i \in Indices |-> NULL]]

\* A half begins: its first entries of levels 0 and 1 lead to the next tables.
Start(h) == IF h = 0 THEN 0 ELSE KERNEL_VADDR

Init ==
  /\ half = 0
  /\ vaddr = 0
  /\ l0 = [Empty EXCEPT ![0][GET_L0_INDEX(0)] = TableEntry]
  /\ l1 = [Empty EXCEPT ![0][GET_L1_INDEX(0)] = TableEntry]
  /\ l2 = Empty

\* A plausible mistake: one round too many.
Last_Inclusive(h) == Start(h) + PHYSMEM_END
Last(h) == Start(h) + PHYSMEM_END - 1

Entry(va, h) ==
  BlockEntry(va - Start(h),
             IF va < Start(h) + PERIPHERAL_BASE THEN "normal" ELSE "device")

\* One round of the two loops of a half, over memory and over devices.
MapBlock ==
  /\ half # 2 /\ vaddr <= Last(half)
  /\ l2' = [l2 EXCEPT ![half][GET_L2_INDEX(vaddr)] = Entry(vaddr, half)]
  /\ vaddr' = vaddr + 1
  /\ UNCHANGED <<half, l0, l1>>

BeginHigh ==
  /\ half = 0 /\ vaddr > Last(half)
  /\ half' = 1
  /\ vaddr' = KERNEL_VADDR
  /\ l0' = [l0 EXCEPT ![1][GET_L0_INDEX(KERNEL_VADDR)] = TableEntry]
  /\ l1' = [l1 EXCEPT ![1][GET_L1_INDEX(KERNEL_VADDR)] = TableEntry]
  /\ UNCHANGED l2

\* The last entry maps 1G behind the memory, for the local peripherals.
MapLocal ==
  /\ half = 1 /\ vaddr > Last(half)
  /\ half' = 2
  /\ vaddr' = KERNEL_VADDR + PHYSMEM_END
  /\ l1' = [l1 EXCEPT ![1][GET_L1_INDEX(vaddr')] = BlockEntry(PHYSMEM_END, "device")]
  /\ UNCHANGED <<l0, l2>>

Next == MapBlock \/ BeginHigh \/ MapLocal

Spec == Init /\ [][Next]_vars

-----------------------------------------------------------------------------
\* What the processor makes of an address through TTBRh_EL1.
Translate(h, va) ==
  LET e1 == l1[h][GET_L1_INDEX(va)]
      e2 == l2[h][GET_L2_INDEX(va)]
  IN IF l0[h][GET_L0_INDEX(va)] = NULL \/ e1 = NULL THEN NULL
     ELSE IF ~ e1.is_table
       THEN [pa |-> e1.pa + (va % PTP_ENTRIES), memory |-> e1.memory]
     ELSE IF e2 = NULL THEN NULL
     ELSE [pa |-> e2.pa, memory |-> e2.memory]

\* How the kernel expects to see physical memory: 1G as it is through TTBR0, that
\* and another 1G of devices above KERNEL_VADDR through TTBR1, where phys_to_virt
\* looks for the memory that mm_init hands out.
Expected(h, va) ==
  LET pa == va - Start(h)
  IN IF pa \in 0 .. (h + 1) * PHYSMEM_END - 1
     THEN [pa |-> pa, memory |-> IF pa < PERIPHERAL_BASE THEN "normal" ELSE "device"]
     ELSE NULL

\* While the tables are built no address is mapped wrong, and in the end those that
\* the kernel expects, and no others, are mapped: no index wraps around and no later
\* loop undoes what an earlier one did.
TranslationRight ==
  \A h \in {0, 1}, va \in Addresses :
    \/ Translate(h, va) = Expected(h, va)
    \/ half # 2 /\ Translate(h, va) = NULL

=============================================================================
