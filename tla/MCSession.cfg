CONSTANTS
  Models <- MCModels
  Passes = {"fold", "fuse", "eliminate"}
  Parallel = {TRUE, FALSE}
  Batches = {"a", "b"}
  MaxRuns = 2
SPECIFICATION Spec
INVARIANTS
  OptimizerPreserves
  PlanIsSchedule
  RunIsRight
PROPERTY
  AcceptsSound
CHECK_DEADLOCK FALSE
