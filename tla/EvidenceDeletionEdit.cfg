SPECIFICATION FairDeletionSpec
CONSTANTS
  memory = memory
  work = work
  health = health
  NoTopic = NoTopic
  Topics = {memory, work, health}
  ShardOf <- Shards
  Turns = 2
  Attaching = {1}
  Deletable = {"prompt", "answer", "file", "claim", "topic"}
  MaxDepth = 4
  MaxActs = 3
  MaxActsBefore = 3
  MaxDeletions = 1
CHECK_DEADLOCK FALSE
PROPERTY EditsAreKept
