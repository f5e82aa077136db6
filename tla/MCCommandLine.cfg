CONSTANTS
  SavedModel <- MCSavedModel
  OtherFile <- MCOtherFile
  Magic = OIEN
  Version = 1
  Command <- MCCommand
  ConfigFile <- MCConfigFile
  Missing = Missing
  Malformed = Malformed
  Class <- MCClass
  DefaultBatch = 3
  MaxBatchSize = 5
  MaxThreads = 2
  MaxPort = 4
  MaxSamples = 8
  BenchSamples = 3
  Sweeps <- MCSweeps
  IntRange = 16
  SizeRange = 64
SPECIFICATION CommandSpec
INVARIANTS
  RoundTrip
  ReportIsTrue
CHECK_DEADLOCK FALSE
