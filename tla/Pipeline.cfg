SPECIFICATION FairSpec
CONSTANTS
  w1 = w1
  w2 = w2
  Workers <- TwoWorkers
  Sources <- BothSources
  ShadowMode = FALSE
  Analyses <- AllAnalyses
  FirstLevels <- RoutineOrCritical
  AnswerLevels <- AnyLevel
  MaxRounds = 1
  MaxCrashes = 1
  MaxLosses = 1
CHECK_DEADLOCK FALSE
INVARIANTS
  OneDecisionPerRequest
  HeldAsDecided
  AutomationIsAuthorised
  EveryTicketIsInHand
PROPERTIES
  EveryTicketIsDecided
