CONSTANTS
  Conn = {c1, c2}
  c1 = c1
  c2 = c2
  Impatient = {c1}
  Traffic <- MCTraffic
  Unparsable = Unparsable
  MaxHeaderBytes = 2
  MaxBodyBytes = 3
  ChunkBytes = 2
  FeatureCount = 1
  FloatBytes = 2
  MaxBatch = 2
  BrokenPipeKills = TRUE
SPECIFICATION Spec
INVARIANT
  InferredWasSent
CHECK_DEADLOCK FALSE
