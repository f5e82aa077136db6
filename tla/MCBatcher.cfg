CONSTANTS
  Request = {r1, r2, r3, bad}
  WrongSize = {bad}
  Stopper = {s1, s2}
  MaxBatchSize = 2
  HasDelay = TRUE
  AllocMayFail = TRUE
SPECIFICATION FairSpec
INVARIANTS
  StopDrains
PROPERTIES
  KeepsOrder
  EveryRequestAnswered
  StopReturns
CHECK_DEADLOCK FALSE
