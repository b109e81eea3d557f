--------------------------------- MODULE Tlb --------------------------------
(* The translations that the processor remembers, and the function that     *)
(* makes it forget them (mm/tlb.c).                                         *)
EXTENDS Integers

VARIABLE tlb   \* a set of [tag, va, to]; the tag is what else selects a translation

\* The processor may remember any translation it can make, used or not.
Fill(tag, va, to) == tlb' = tlb \cup {[tag |-> tag, va |-> va, to |-> to]}

\* A plausible mistake: forget nothing.
flush_tlb_all_Nothing == tlb' = tlb

flush_tlb_all == tlb' = {}

\* What an address may be translated to, when the tables say walked.
Sees(tag, va, walked) ==
  {walked} \cup {e.to : e \in {f \in tlb : f.tag = tag /\ f.va = va}}

=============================================================================
