SPECIFICATION Spec
CONSTANTS
  w1 = w1
  w2 = w2
  NoWorker = NoWorker
  Workers <- OneWorker
  Statuses <- BothStatuses
  PipelineKeys <- MCPipelineKeys
  TriageKeys <- MCTriageKeys
  CompletedStatuses <- MCCompleted
  InitStatus <- review
  Links <- LoopLinks
  Ruled = {}
  OpenPolicy = FALSE
  BeforeActions <- Guarded
  AfterActions <- Unguarded
  EnterActions <- Busy
  Deletable <- MCDeletable
  SlowWorkers = FALSE
  MaxAttempts = 1
  MaxDepth = 1
  MaxTransfers = 3
  MaxCopies = 1
  MaxRetries = 0
  MaxCrashes = 0
  MaxLosses = 0
CHECK_DEADLOCK FALSE
INVARIANTS
  TicketHasAStatus
  ChainsAreBounded
PROPERTIES
  MovesAsPromised
