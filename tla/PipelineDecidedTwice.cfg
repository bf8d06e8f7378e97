SPECIFICATION Spec
CONSTANTS
  w1 = w1
  w2 = w2
  Workers <- TwoWorkers
  Sources <- OnlyChat
  ShadowMode = FALSE
  Analyses <- FewAnalyses
  FirstLevels <- Routine
  AnswerLevels <- Routine
  MaxRounds = 1
  MaxCrashes = 1
  MaxLosses = 0
SYMMETRY Symmetry
CHECK_DEADLOCK FALSE
INVARIANTS
  DecidedOnce
