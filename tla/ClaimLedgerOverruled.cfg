SPECIFICATION LedgerSpec
CONSTANTS
  Sayings = {"x", "y", "z"}
  Statements <- Said
  MaxClaims = 3
  MaxSwitches = 0
PROPERTY UserMemoryStands
CHECK_DEADLOCK FALSE
