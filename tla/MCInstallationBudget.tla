------------------------ MODULE MCInstallationBudget ------------------------
(* A small installation: one process and vault, a cap of three units. *)
EXTENDS InstallationBudget, TLC

CONSTANTS id1, id2, id3

MCAllocation == [development |-> 2]

MCHardLimits == {2, 3}

MCLegacyImports == {
  [status |-> "committed", category |-> "application",
   estimated |-> 2, actual |-> 2],
  [status |-> "reserved", category |-> "application",
   estimated |-> 1, actual |-> 0]}

CallSymmetry == Permutations({id1, id2, id3})
=============================================================================
