SPECIFICATION BudgetSpec
CONSTANTS
  id1 = id1
  id2 = id2
  id3 = id3
  CallIds = {id1, id2, id3}
  Pids = {p1}
  Scopes = {s1}
  NoOwner = NoOwner
  MaxCost = 2
  HardCap = 3
  NonessentialStop = 3
  Allocation <- MCAllocation
  HardLimits <- MCHardLimits
  LegacyImports <- MCLegacyImports
  ConservativeFailures = TRUE
SYMMETRY CallSymmetry
INVARIANT OverflowIsRecorded
