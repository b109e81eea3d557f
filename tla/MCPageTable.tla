---------------------------- MODULE MCPageTable -----------------------------
(* PageTable with 2 entries per table: 16 virtual pages.                    *)
EXTENDS PageTable, TLC

Symmetry == Permutations(Ptps)

At(va, len) == [va |-> va, len |-> len]

\* One page; a level-2 block; a level-1 block; a region that starts and ends off
\* the blocks; one across two entries of the root.
MCRanges == {At(1, 1), At(2, 2), At(4, 4), At(1, 4), At(7, 2)}
\* Two pages or one block, for which the four tables of a path are enough.
OneBlock == {At(2, 2)}

WriteOnly == {{"WRITE"}}
AllFlagSets == SUBSET {"WRITE", "EXEC", "DEVICE", "NOCACHE"}
=============================================================================
