SPECIFICATION Spec
CONSTANTS
  q1 = q1
  q2 = q2
  item1 = item1
  item2 = item2
  item3 = item3
  bytes1 = bytes1
  bytes2 = bytes2
  Requests = {q1, q2}
  NoRequest = none
  Items = {item1, item2, item3}
  BlobOf <- Blobs
  Wants <- Asked
  Archive <- Archived
  MaxCrashes = 1
  MaxFaults = 1
  MaxTries = 2
  MaxSnapshots = 1
  memory = memory
  work1 = work1
  health = health
  NoTopic = NoTopic
  Topics = {memory, work1, health}
  ShardOf <- Shards
  Turns = 3
  Attaching = {2}
  Deletable = {"prompt", "answer", "file", "claim", "topic"}
  MaxDepth = 5
  MaxActs = 4
  MaxActsBefore = 3
  MaxDeletions = 1
  Slugs = {"s", "t"}
  NoSlug = "none"
  MaxChanges = 2
  MaxDeaths = 1
  MaxTurns = 2
  MaxStops = 1
  w1 = w1
  w2 = w2
  Workers = {w1, w2}
  Texts = {"x", "y"}
  Models = {"m", "n"}
  NoText = NoText
  MaxEdits = 2
  MaxTroubles = 1
  Heard = {u1, t1}
  FromTools = {t1}
  Beliefs = {b1, b2}
  Wiki = {k1, k2}
  Names = {n1, n2}
  Files = {f1, f2}
  Chunked = {f1}
  NoBelief = NoBelief
  NoWiki = NoWiki
  Nothing = Nothing
  MaxWritten = 2
  MaxWrites = 5
  Tokens = 2
  Exports = 3
  MaxKeptTokens = 1
  MaxKeptExports = 2
  MaxReaders = 2
  MaxEnds = 1
  MaxFailures = 2
CHECK_DEADLOCK FALSE
INVARIANTS
  WholeWhenOpen
  AppliedOnce
  NothingNamesTheRemoved
  SupportDecides
  ProposedIsNotLost
  FilesFollow
  PageFollowsLedger
  VectorsFollow
  ToolOutputStaysHome
  TheRestArrives
  TokenCommitsOnce
  InUseIsKept
PROPERTY GateReopens
