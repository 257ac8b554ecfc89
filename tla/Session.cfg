SPECIFICATION SumSpec
CONSTANTS
  r1 = r1
  r2 = r2
  q1 = q1
  Runs = {r1, r2}
  Questions = {q1}
  Question <- OneQuestion
  NoRun = NoRun
  MaxDeltas = 2
  MaxCrashes = 2
  Null = Null
  MaxLog = 4
  MaxAttempts = 1
  MaxBreaks = 2
  MaxTabs = 2
  MaxSnapshots = 2
  Nil = Nil
  Parts = {"events", "runs"}
  MaxRemovals = 2
  MaxRestarts = 1
  MaxReads = 1
  MaxFetches = 2
  Absent = Absent
  Qualities = {"fast", "deep"}
  MaxRevisions = 2
  MaxKeys = 3
  MaxTroubles = 1
  MaxLoads = 2
  MaxSends = 2
  Responses = {1, 2}
  Secrets = {"f1"}
  Unset = Unset
  Requests <- ReadersOrRounds
  ToolRounds = 2
  Lookups = 1
  WebCalls = 1
  PromptSize = 2
  OutputSize = 1
  ResultSize = 2
  WebSize = 1
  OutputLimit = 1
  MaxWritten = 2
  MaxGrants = 2
  MaxChanges = 1
INVARIANTS
  CompleteIsDurable
  PaidOnce
  OneAnswer
  AnswersEnd
  ShownIsStreamed
  OneVault
  SentOnce
  DraftIsKept
  SecretsReadOnce
  CallsAreAnswered
  ReserveCovers
PROPERTIES
  RunsEnd
