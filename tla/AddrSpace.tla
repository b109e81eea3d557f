----------------------------- MODULE AddrSpace ------------------------------
(***************************************************************************)
(* What the functions on page tables promise, with no table in sight: an   *)
(* address space gives some virtual pages a physical page and permissions. *)
(* A call to map or to unmap concerns a region; until it returns, pages of *)
(* the region, and no others, come to be as the call asks.                 *)
(***************************************************************************)
EXTENDS Integers

CONSTANTS
  VPages,     \* the virtual pages
  Regions,    \* the regions callers name, sets of virtual pages
  Offsets,    \* physical minus virtual page, in the calls that map
  FlagSets,   \* the vmr_prop_t they pass
  Nil         \* not mapped

VARIABLES
  space,      \* space[v]: how v is mapped, or Nil
  todo        \* what the current call still has to do

asVars == <<space, todo>>

Nothing == [v \in {} |-> Nil]

\* Device memory is neither cached nor shared, whatever else is asked for.
Mapping(pa, flags) ==
  [pa |-> pa,
   write |-> "WRITE" \in flags,
   exec |-> "EXEC" \in flags,
   memory |-> IF "DEVICE" \in flags THEN "device"
              ELSE IF "NOCACHE" \in flags THEN "nocache" ELSE "normal",
   shared |-> "DEVICE" \notin flags]

AsInit ==
  /\ space = [v \in VPages |-> Nil]
  /\ todo = Nothing

AskMap(region, off, flags) ==
  /\ todo = Nothing
  /\ todo' = [v \in region |-> Mapping(v + off, flags)]
  /\ UNCHANGED space

AskUnmap(region) ==
  /\ todo = Nothing
  /\ todo' = [v \in region |-> Nil]
  /\ UNCHANGED space

Settle(S) ==
  /\ space' = [v \in VPages |-> IF v \in S THEN todo[v] ELSE space[v]]
  /\ todo' = [v \in DOMAIN todo \ S |-> todo[v]]

\* The page table is freed: nothing is mapped.
Drop ==
  /\ todo = Nothing
  /\ space' = [v \in VPages |-> Nil]
  /\ UNCHANGED todo

AsNext ==
  \/ \E region \in Regions, off \in Offsets, flags \in FlagSets :
       AskMap(region, off, flags)
  \/ \E region \in Regions : AskUnmap(region)
  \/ \E S \in SUBSET DOMAIN todo : Settle(S)
  \/ Drop

AsSpec == AsInit /\ [][AsNext]_asVars

=============================================================================
