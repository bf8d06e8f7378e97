SPECIFICATION FairSpec
CONSTANTS
  w1 = w1
  w2 = w2
  Workers <- TwoWorkers
  MaxAttempts = 2
  MaxChanges = 1
  MaxRevocations = 1
  MaxMisjudged = 1
  MaxCrashes = 1
  MaxLosses = 1
CHECK_DEADLOCK FALSE
INVARIANTS
  OneEffect
  TheTrailIsTrue
PROPERTIES
  EveryRunEnds
