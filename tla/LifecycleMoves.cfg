SPECIFICATION Spec
CONSTANTS
  w1 = w1
  w2 = w2
  NoWorker = NoWorker
  Workers <- TwoWorkers
  Statuses <- MainStatuses
  PipelineKeys <- MCPipelineKeys
  TriageKeys <- MCTriageKeys
  CompletedStatuses <- MCCompleted
  InitStatus <- review
  Links <- MCLinks
  Ruled <- RuledLinks
  OpenPolicy = FALSE
  BeforeActions <- Guarded
  AfterActions <- Unguarded
  EnterActions <- MovingOn
  Deletable = {}
  SlowWorkers = TRUE
  MaxAttempts = 1
  MaxDepth = 1
  MaxTransfers = 2
  MaxCopies = 1
  MaxRetries = 1
  MaxCrashes = 0
  MaxLosses = 0
SYMMETRY Symmetry
CHECK_DEADLOCK FALSE
INVARIANTS
  MovesHoldTheTicket
PROPERTIES
  StatusIsAccountedFor
  RulesHoldOnEntry
  FinishedStays
