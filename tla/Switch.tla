------------------------------- MODULE Switch -------------------------------
(***************************************************************************)
(* Page tables one after the other: set_page_table (mm/page_table.c) puts  *)
(* one in TTBR0_EL1 (set_ttbr0_el1, mm/page_table.S) while the processor   *)
(* goes on filling its TLB.  An entry of the TLB carries the ASID it was   *)
(* made with, since set_pte_flags marks all mappings as not global.        *)
(***************************************************************************)
EXTENDS Tlb

CONSTANTS
  PageTables,
  VPages,
  space        \* space[t][v]: where page table t maps v

VARIABLE ttbr0_el1

\* TTBR0_EL1 keeps the ASID above the address of the table, from bit 48 on, and the
\* callers pass an address.
Asid(t) == 0

Init ==
  /\ ttbr0_el1 \in PageTables
  /\ tlb = {}

set_page_table(t) ==
  /\ ttbr0_el1' = t
  /\ UNCHANGED tlb

FillTlb ==
  /\ \E v \in VPages : Fill(Asid(ttbr0_el1), v, space[ttbr0_el1][v])
  /\ UNCHANGED ttbr0_el1

Next == (\E t \in PageTables : set_page_table(t)) \/ FillTlb

Spec == Init /\ [][Next]_<<ttbr0_el1, tlb>>

-----------------------------------------------------------------------------
\* "flushing tlb is not needed since we've enabled asid mechanism" (set_ttbr0_el1):
\* whatever page tables came before, addresses are translated by the current one.
SwitchNeedsNoFlush ==
  \A v \in VPages :
    Sees(Asid(ttbr0_el1), v, space[ttbr0_el1][v]) = {space[ttbr0_el1][v]}

=============================================================================
