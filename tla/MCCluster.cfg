CONSTANTS
  NumMap = 1
  NumReduce = 1
  Worker = {w1, w2}
  MaxTaskAttempts = 1
  EnableBackupTasks = FALSE
  Modes = {"local", "cluster", "coordinator"}
  Reliable = {w1}
  MayHang = TRUE
SPECIFICATION FairClusterSpec
INVARIANTS
  ResultIsTrue
  ListedAttemptIsHeld
  StopOnlyWhenOver
PROPERTIES
  OutputsSettled
  JobEnds
  WorkersStop
  CallReturns
CHECK_DEADLOCK FALSE
