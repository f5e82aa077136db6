CONSTANTS
  a1 = a1
  a2 = a2
  b1 = b1
  r1 = r1
  r2 = r2
  MapAttempt = {a1, a2, b1}
  ReduceAttempt = {r1, r2}
  TaskOf <- MCTaskOf
  PartitionOf <- MCPartitionOf
  Lines <- MCLines
  NumReduce = 2
  HasCombiner = TRUE
  SpillAt <- OtherSpill
SPECIFICATION Spec
INVARIANT PartsAreWhole
CHECK_DEADLOCK FALSE
