SPECIFICATION SumSpec
CONSTANTS
  w1 = w1
  w2 = w2
  j1 = j1
  j2 = j2
  Jobs = {j1, j2}
  Workers = {w1, w2}
  NoWorker = NoWorker
  Departed = Departed
  NoJob = NoJob
  Priority <- Urgent
  MaxAttempts = 1
  RaisedAttempts = 2
  Raised = {j1}
  MaxEnqueues = 2
  MaxRetries = 1
  MaxCrashes = 1
  MaxRounds = 1
  Sayings = {"x", "y"}
  Statements <- Said
  MaxClaims = 3
  MaxSwitches = 1
  e1 = e1
  e2 = e2
  e3 = e3
  m1 = m1
  m2 = m2
  Entities = {e1, e2, e3}
  Evidence = {m1, m2}
  MaxStatements = 2
  MaxMerges = 2
  ClaimCount = 4
  Beginnings = {{}, {1, 3}}
  Room = 2
  PackedRoom = 1
  InlineRoom = 1
  Listed = 2
  MaxNews = 2
  MaxShardDeaths = 1
INVARIANTS
  HolderIsLatestAttempt
  OneCurrent
  LastWordStands
  GraphIsWhole
  GoneStaysGone
  WholeOrRebuilt
  RepairKeepsTheChain
PROPERTIES
  JobsEnd
