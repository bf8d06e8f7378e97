SPECIFICATION FairSpec
CONSTANTS
  Times <- Horizon
  Worked <- BusinessTime
  Goals <- MCGoals
  MaxTime = 4
  Budgets <- MCBudgets
  CanCrash = TRUE
CHECK_DEADLOCK FALSE
INVARIANTS
  ElapsedIsTrue
  ReplayAgrees
  ClocksFollowTheTicket
  MirrorFollows
PROPERTIES
  FiredOnTime
  SweepCatchesUp
