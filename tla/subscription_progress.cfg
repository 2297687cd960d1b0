SPECIFICATION ProgressSpec
CONSTANTS
  v1 = v1
  v2 = v2
  VBuckets <- MCVBuckets
  None = none
  QueueCapacity = 1
  Finite = FALSE
  StartFrom = "Earliest"
  Policies = {"RewindAndReplay", "StopAndReport"}
  Mitigation = TRUE
  Skipped = {}
  EarlyEnds = TRUE
  MaxSeqno = 1
  MaxBranches = 2
  MaxTopology = 2
  MaxFailures = 2
  MaxStarts = 1
PROPERTIES
  ReaderIsServed
  CancelEnds
CHECK_DEADLOCK FALSE
