SPECIFICATION FairSpec
CONSTANTS
  w1 = w1
  w2 = w2
  Workers <- TwoWorkers
  MaxAttempts = 2
  MaxCopies = 2
  MaxCrashes = 1
  MaxLosses = 1
  MaxLate = 2
  MaxUnheard = 1
  MaxRetries = 1
CHECK_DEADLOCK FALSE
PROPERTIES
  OnceForEachReason
  EveryMessageEnds
