CONSTANTS
  Problem <- MCProblem
  A <- MCA
  B <- MCB
  Bias <- MCBias
  Alpha = 2
  Beta = 3
  Caller = c
  Worker = {p1, p2}
  Tile = 2
  Lanes = 4
  SmallWork = 8
  PackedRows = 3
  ShardWork = 9
  Stale = 77
SPECIFICATION Spec
INVARIANTS
  ProductIsRight
CHECK_DEADLOCK FALSE
