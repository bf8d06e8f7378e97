SPECIFICATION Spec
CONSTANTS
  w1 = w1
  w2 = w2
  Workers <- TwoWorkers
  Sources <- BothSources
  ShadowMode = FALSE
  Analyses <- FewAnalyses
  FirstLevels <- RoutineOrCritical
  AnswerLevels <- Routine
  MaxRounds = 1
  MaxCrashes = 0
  MaxLosses = 0
SYMMETRY Symmetry
CHECK_DEADLOCK FALSE
INVARIANTS
  CriticalIsBlocked
