SPECIFICATION SumSpec
CONSTANTS
  id1 = id1
  id2 = id2
  id3 = id3
  CallIds = {id1, id2}
  Pids = {q1}
  Scopes = {s1}
  NoOwner = NoOwner
  MaxCost = 2
  HardCap = 3
  NonessentialStop = 3
  Allocation <- MCAllocation
  HardLimits <- MCHardLimits
  LegacyImports <- MCLegacyImports
  ConservativeFailures = TRUE
  p1 = p1
  p2 = p2
  p3 = p3
  i1 = i1
  i2 = i2
  i3 = i3
  Processes = {p1, p2}
  Crashable = {p1}
  Inodes = {i1, i2}
  NoInode = NoInode
  Allowance = 1
  api = api
  worker = worker
  c1 = c1
  c2 = c2
  Calls = {c1, c2}
  Programs = {api, worker}
  Homes <- AnyHomes
  Maintainers = {api}
  NoProgram = NoProgram
  NoCall = NoCall
  Estimate = 2
  Costs <- MCCosts
  MaxCrashes <- MCCrashes
  Texts = {"short", "long"}
  SizeOf <- SizesOfTexts
  FileText = "short"
  Capacity = 8
  NoticeSize = 2
  AnswerSize = 2
  ClaimSize = 1
  PageSize = 2
  ChunkSize = 2
  Window = 3
  MinimumTurns = 1
  MaxRuns = 2
  MaxClaims = 2
  MaxPageRevisions = 2
  MaxTools = 1
INVARIANTS
  CommittedWithinCap
  SpendingIsCovered
  PromptIsSound
  PacketRebuilds
PROPERTIES
  ImplementsAuthority
  StaleLockRecovered
  BillableIsCharged
