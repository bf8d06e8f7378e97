SPECIFICATION FairSpec
CONSTANTS
  w1 = w1
  w2 = w2
  NoWorker = NoWorker
  Workers <- TwoWorkers
  Statuses <- MainStatuses
  PipelineKeys <- MCPipelineKeys
  TriageKeys <- MCTriageKeys
  CompletedStatuses <- MCCompleted
  InitStatus <- review
  Links <- MCLinks
  Ruled = {}
  OpenPolicy = FALSE
  BeforeActions <- GuardedByN8n
  AfterActions <- Guarded
  EnterActions <- Notifying
  Deletable = {}
  SlowWorkers = TRUE
  MaxAttempts = 1
  MaxDepth = 1
  MaxTransfers = 1
  MaxCopies = 1
  MaxRetries = 0
  MaxCrashes = 1
  MaxLosses = 1
CHECK_DEADLOCK FALSE
INVARIANTS
  CompletedRanEverything
PROPERTIES
  OnlyTheOwnerWrites
  EveryMoveEnds
