------------------------------ MODULE MCBuddy -------------------------------
(***************************************************************************)
(* What is model-checked of Buddy and not proved: liveness.  The .cfg file *)
(* gives the pool.                                                         *)
(***************************************************************************)
EXTENDS Buddy

\* A call of buddy_get_pages or buddy_free_pages returns, and init_buddy ends,
\* with every page freed into the lists.
CallReturns ==
  /\ pc \in {"split", "merge"} ~> pc = "idle"
  /\ <>(pc = "idle" /\ page_idx = NPages)

=============================================================================
