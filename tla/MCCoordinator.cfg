CONSTANTS
  NumMap = 3
  NumReduce = 1
  Worker = {w1, w2}
  MaxTaskAttempts = 2
  EnableBackupTasks = TRUE
SPECIFICATION Spec
SYMMETRY WorkerSymmetry
CONSTRAINT Explored
INVARIANTS
  ReduceGated
  CountersMergedOnce
  NoPhantomAttempt
  OutcomeAgrees
  AttemptsBounded
PROPERTIES
  Finality
  KeepsPromise
