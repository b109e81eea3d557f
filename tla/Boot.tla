-------------------------------- MODULE Boot --------------------------------
(***************************************************************************)
(* The boot, from _start to the loop that main ends in, as a composition:  *)
(* the processor drops to EL1, init_c builds the page table and turns the  *)
(* MMU on, start_kernel gives up the low half of the address space, main   *)
(* lays out the memory; both sides talk over the serial line.  While this  *)
(* goes on, the transmitter sends and the processor fills its TLB.         *)
(***************************************************************************)
EXTENDS MmInit, Sequences

CONSTANTS
  SIZE_2M,                                   \* bytes in a block
  PTP_ENTRIES, PERIPHERAL_BASE, PHYSMEM_END, \* of BootTable, in blocks
  KERNEL_VADDR,
  Addresses,
  NULL,
  UartBlock,            \* where the registers of the mini UART are
  Probes,               \* the [tag, va] that the TLB may hold
  FifoSize, Garbled,    \* of Uart
  Unknown               \* what memory holds that nobody has written

VARIABLES
  stage,                       \* the call of Program that comes next
  el, masked, ret,             \* exception level, interrupt mask, where eret leads
  bss,                         \* what the variables of the kernel hold
  mmu, ttbr0,
  tlb,                         \* of Tlb
  half, vaddr, l0, l1, l2,     \* of BootTable
  reg, fifo, line, todo, sent  \* of Uart

Table == INSTANCE BootTable
Serial == INSTANCE Uart
Buffer == INSTANCE Tlb

ASSUME BootAssumption ==
  /\ Table!TableAssumption
  /\ SIZE_2M \in Nat \ {0} /\ SIZE_2M % PAGE_SIZE = 0
  /\ KBASE = KERNEL_VADDR * SIZE_2M
  /\ UartBlock \in PERIPHERAL_BASE .. PHYSMEM_END - 1
  /\ FifoSize \in Nat \ {0}
  /\ Probes \subseteq [tag : {0, 1}, va : Table!VA]
  /\ NULL \notin [el : {1}, masked : {TRUE}]

cpuVars == <<el, masked, ret, bss>>
mmuVars == <<mmu, ttbr0, tlb>>
tableVars == <<half, vaddr, l0, l1, l2>>
uartVars == <<reg, fifo, line, todo, sent>>
bootVars == <<stage, cpuVars, mmuVars, tableVars, uartVars, vars>>

-----------------------------------------------------------------------------
\* The calls of _start, init_c, start_kernel and main, in order.  A plausible mistake:
\* flush the TLB while the low half can still be walked.
Program_FlushFirst ==
  << "in_el3", "in_el2", "eret",
     "clear_bss", "early_uart_init", "uart_send_string", "uart_send_string",
     "init_boot_pt", "el1_mmu_activate", "uart_send_string", "uart_send_string",
     "start_kernel", "flush_tlb_all", "ttbr0_el1",
     "uart_init", "kinfo", "mm_init", "kinfo", "loop" >>

Program ==
  << "in_el3", "in_el2", "eret",
     "clear_bss", "early_uart_init", "uart_send_string", "uart_send_string",
     "init_boot_pt", "el1_mmu_activate", "uart_send_string", "uart_send_string",
     "start_kernel", "ttbr0_el1", "flush_tlb_all",
     "uart_init", "kinfo", "mm_init", "kinfo", "loop" >>

\* A text is told by the stage that sends it.
Text == << <<stage, 1>>, <<stage, 2>> >>

\* The next call is of that function, the one before has returned, and the processor
\* finds the code.
Does(name) == Program[stage] = name /\ Serial!Idle /\ mmu # "lost"
Goes == stage' = stage + 1

\* The TLB is at its worst: after reset it may hold anything.  The firmware leaves
\* any level, with interrupts masked or not.
BootInit ==
  /\ stage = 1
  /\ el \in 1 .. 3 /\ masked \in BOOLEAN /\ ret = [e \in {2, 3} |-> NULL]
  /\ bss = Unknown
  /\ mmu = "off" /\ ttbr0 = Unknown
  /\ tlb = {[tag |-> a.tag, va |-> a.va, to |-> Unknown] : a \in Probes}
  /\ Table!Init /\ Serial!UartInit /\ Init

\* arm64_elX_to_el1, entered on any level: on level 3 it prepares the return and
\* falls into what it does on level 2.  The returns lead to EL1, interrupts masked;
\* on EL1 it leaves the mask as it is.
EL1h == [el |-> 1, masked |-> TRUE]

\* A plausible mistake: leave to the code for level 2 the registers of level 3.
SetReturn_El2(e) == ret' = [ret EXCEPT ![2] = EL1h]

SetReturn(e) == ret' = [ret EXCEPT ![e] = EL1h]

in_el3 ==
  /\ Does("in_el3") /\ Goes
  /\ IF el = 3 THEN SetReturn(3) ELSE UNCHANGED ret
  /\ UNCHANGED <<el, masked, bss, mmuVars, tableVars, uartVars, vars>>

in_el2 ==
  /\ Does("in_el2") /\ Goes
  /\ IF el # 1 THEN SetReturn(2) ELSE UNCHANGED ret
  /\ UNCHANGED <<el, masked, bss, mmuVars, tableVars, uartVars, vars>>

eret ==
  /\ Does("eret") /\ Goes
  /\ \/ /\ el = 1 /\ UNCHANGED <<el, masked>>
     \/ /\ el # 1 /\ ret[el] # NULL
        /\ el' = ret[el].el /\ masked' = ret[el].masked
     \/ /\ el # 1 /\ ret[el] = NULL
        /\ el' = NULL /\ masked' = FALSE
  /\ UNCHANGED <<ret, bss, mmuVars, tableVars, uartVars, vars>>

clear_bss ==
  /\ Does("clear_bss") /\ Goes
  /\ bss' = 0
  /\ UNCHANGED <<el, masked, ret, mmuVars, tableVars, uartVars, vars>>

\* The two drivers, and printk for the kernel.
CallDriver ==
  /\ \/ Does("early_uart_init") /\ Serial!early_uart_init
     \/ Does("uart_send_string") /\ Serial!uart_send_string(Text)
     \/ Does("kinfo") /\ Serial!uart_send_string(Text)
     \/ Does("uart_init") /\ Serial!uart_init(Text)
  /\ Goes
  /\ UNCHANGED <<cpuVars, mmuVars, tableVars, vars>>

Driver ==
  /\ Serial!DriverStep
  /\ UNCHANGED <<stage, cpuVars, mmuVars, tableVars, vars>>

Spin ==
  /\ Serial!Spin
  /\ UNCHANGED <<stage, cpuVars, mmuVars, tableVars, vars>>

init_boot_pt ==
  /\ Does("init_boot_pt")
  /\ \/ half # 2 /\ Table!Next /\ UNCHANGED stage
     \/ half = 2 /\ Goes /\ UNCHANGED tableVars
  /\ UNCHANGED <<cpuVars, mmuVars, uartVars, vars>>

\* The TLB is invalidated, the tables are installed and SCTLR_EL1.M is set.  No barrier
\* follows: the processor may go on for a while without translation.
el1_mmu_activate ==
  /\ Does("el1_mmu_activate") /\ Goes
  /\ Buffer!flush_tlb_all
  /\ ttbr0' = "boot_ttbr0_l0"
  /\ mmu' = "pending"
  /\ UNCHANGED <<cpuVars, tableVars, uartVars, vars>>

\* The call goes to the high half.  Nothing before it waits for translation: while that
\* is pending there is no such address, and the fetch aborts into an exception vector
\* that nobody has set.
start_kernel ==
  /\ Does("start_kernel") /\ Goes
  /\ mmu' = IF mmu = "on" THEN "on" ELSE "lost"
  /\ UNCHANGED <<cpuVars, ttbr0, tlb, tableVars, uartVars, vars>>

Lost == mmu = "lost" /\ UNCHANGED bootVars

SetTtbr0 ==
  /\ Does("ttbr0_el1") /\ Goes
  /\ ttbr0' = "zero"
  /\ UNCHANGED <<cpuVars, mmu, tlb, tableVars, uartVars, vars>>

FlushTlb ==
  /\ Does("flush_tlb_all") /\ Goes
  /\ Buffer!flush_tlb_all
  /\ UNCHANGED <<cpuVars, mmu, ttbr0, tableVars, uartVars, vars>>

\* mm_init, whose variables are in .bss.
main ==
  /\ Does("mm_init") /\ bss = 0
  /\ \/ pc # "ready" /\ Next /\ UNCHANGED stage
     \/ pc = "ready" /\ Goes /\ UNCHANGED vars
  /\ UNCHANGED <<cpuVars, mmuVars, tableVars, uartVars>>

Loop == Does("loop") /\ UNCHANGED bootVars

ProcessorStep ==
  \/ in_el3 \/ in_el2 \/ eret \/ clear_bss \/ CallDriver \/ Driver
  \/ init_boot_pt \/ el1_mmu_activate \/ start_kernel \/ SetTtbr0 \/ FlushTlb \/ main

-----------------------------------------------------------------------------
\* What happens beside the program: the transmitter sends, translation takes effect,
\* the processor walks the tables ahead of the program.
Transmit ==
  /\ Serial!Transmit
  /\ UNCHANGED <<stage, cpuVars, mmuVars, tableVars, vars>>

TakesEffect ==
  /\ mmu = "pending" /\ mmu' = "on"
  /\ UNCHANGED <<stage, cpuVars, ttbr0, tlb, tableVars, uartVars, vars>>

\* When TTBR0_EL1 is not the table of the boot, a walk finds what is at address 0.
Walk(h, va) ==
  IF h = 0 /\ ttbr0 # "boot_ttbr0_l0" THEN Unknown ELSE Table!Translate(h, va)

FillTlb ==
  /\ mmu # "off"
  /\ \E a \in Probes :
       Walk(a.tag, a.va) # NULL /\ Buffer!Fill(a.tag, a.va, Walk(a.tag, a.va))
  /\ UNCHANGED <<stage, cpuVars, mmu, ttbr0, tableVars, uartVars, vars>>

BootNext ==
  ProcessorStep \/ Lost \/ Spin \/ Loop \/ Transmit \/ TakesEffect \/ FillTlb

BootSpec == BootInit /\ [][BootNext]_bootVars

\* The processor runs and the transmitter sends.  Nothing is assumed of the moment at
\* which SCTLR_EL1 takes effect.
FairBootSpec ==
  BootSpec /\ WF_bootVars(ProcessorStep) /\ WF_bootVars(Transmit)

-----------------------------------------------------------------------------
Called(name) == \E i \in 1 .. stage - 1 : Program[i] = name

\* init_c and all that follows run on EL1, whatever level the firmware left the processor
\* on, and with interrupts masked if it was a level above: on EL1 the mask is the firmware's.
EntryRight ==
  Called("eret") => el = 1 /\ ((\E e \in {2, 3} : ret[e] # NULL) => masked)

\* Nowhere does init_boot_pt map an address wrong, and in the end it has mapped
\* the low and the high addresses that the kernel expects, and no others.
TranslationRight == Table!TranslationRight

\* What the processor may make of an address, with what the TLB holds.
Untranslated(va) == [pa |-> va, memory |-> "device"]

Sees(h, va) ==
  (IF mmu = "off" THEN {} ELSE Buffer!Sees(h, va, Walk(h, va)))
    \cup (IF mmu = "on" THEN {} ELSE {Untranslated(va)})

\* The code that runs, its stack and the registers it writes are found at every step,
\* through low addresses before start_kernel and through high ones from there on:
\* when translation sets in, at whatever moment before the jump, when the low half goes,
\* and whatever the TLB remembers.  The one place where they may not be found is the jump
\* itself, which JumpLands is about.
Half == IF Called("start_kernel") THEN 1 ELSE 0

AccessesRight ==
  LET code == IF Half = 0 THEN {0} ELSE {0, img_end \div SIZE_2M}
  IN mmu # "lost" =>
       \A b \in code \cup {UartBlock} :
         LET va == Table!Start(Half) + b
         IN Sees(Half, va) \subseteq
              {Table!Expected(Half, va)} \cup (IF Half = 0 THEN {Untranslated(va)} ELSE {})

\* "With init_boot_pt done, the kernel can go on after el1_mmu_activate enables the MMU,
\* and jumps to high addresses through start_kernel" (the document of lab 2, from the
\* Chinese): the jump finds the kernel.  No barrier after the write of SCTLR_EL1 makes
\* it so.
JumpLands == mmu # "lost"

\* "Make sure that we don't use low address in the kernel" (head.S): when main runs,
\* no translation that the table for low addresses gave is left.
NoStaleLow ==
  Called("ttbr0_el1") /\ Called("flush_tlb_all") =>
    \A e \in tlb : e.tag = 0 => e.to = Unknown

\* What mm_init hands to the allocators, the array of struct page and the pages,
\* is mapped by the boot page table, as memory, at the place that phys_to_virt
\* and virt_to_phys take it to be: the bounds that mmparse.c and mmu.c each
\* define for themselves agree.
PoolMapped ==
  pc = "ready" =>
    \A block \in pool.page_metadata \div SIZE_2M ..
                 (pool.pool_start_addr + pool_mem_size - 1) \div SIZE_2M :
      Table!Translate(1, block)
        = [pa |-> block - KERNEL_VADDR, memory |-> "normal"]

\* The characters of both drivers reach the line in order, once and readable.
InOrder == Serial!InOrder

\* The kernel comes to the loop of main, and all it had to say is on the line, unless
\* it was lost in the jump to the high half.
BootEnds == <>(mmu = "lost" \/ (Does("loop") /\ pc = "ready" /\ fifo = <<>>))

=============================================================================
