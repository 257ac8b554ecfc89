SPECIFICATION FairSpec
CONSTANTS
  w1 = w1
  w2 = w2
  j1 = j1
  j2 = j2
  Jobs = {j1, j2}
  Workers = {w1}
  NoWorker = NoWorker
  Departed = Departed
  NoJob = NoJob
  Priority <- Urgent
  MaxAttempts = 2
  RaisedAttempts = 3
  Raised = {}
  MaxEnqueues = 1
  MaxRetries = 1
  MaxCrashes = 0
  MaxRounds = 1
PROPERTY QueuedIsTaken
