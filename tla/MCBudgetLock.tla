---------------------------- MODULE MCBudgetLock ----------------------------
(* Two or three processes of one installation around one lock file. *)
EXTENDS BudgetLock, TLC

CONSTANTS p1, p2, p3, i1, i2, i3

ProcessSymmetry == Permutations({p1, p2, p3})
InodeSymmetry == Permutations({i1, i2, i3})
Symmetry == ProcessSymmetry \cup InodeSymmetry
=============================================================================
