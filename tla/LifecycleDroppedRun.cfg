SPECIFICATION Spec
CONSTANTS
  w1 = w1
  w2 = w2
  NoWorker = NoWorker
  Workers <- TwoWorkers
  Statuses <- MainStatuses
  PipelineKeys <- MCPipelineKeys
  TriageKeys <- MCTriageKeys
  CompletedStatuses <- MCCompleted
  InitStatus <- review
  Links <- MCLinks
  Ruled = {}
  OpenPolicy = FALSE
  BeforeActions <- Unguarded
  AfterActions <- Unguarded
  EnterActions <- Notifying
  Deletable = {}
  SlowWorkers = FALSE
  MaxAttempts = 1
  MaxDepth = 1
  MaxTransfers = 1
  MaxCopies = 2
  MaxRetries = 1
  MaxCrashes = 0
  MaxLosses = 0
SYMMETRY Symmetry
CHECK_DEADLOCK FALSE
INVARIANTS
  CompletedRanEverything
