SPECIFICATION ScenarioSpec
CONSTANTS
  v1 = v1
  v2 = v2
  None = none
  VBuckets = {v1}
  QueueCapacity = 1
  Finite = FALSE
  StartFrom = "Latest"
  Policies = {"RewindAndReplay"}
  Mitigation = FALSE
  Skipped = {1}
  EarlyEnds = FALSE
  MaxSeqno = 2
  MaxBranches = 2
  MaxTopology = 1
  MaxFailures = 1
  MaxStarts = 2
INVARIANTS
  CapturedIsConsumed
CHECK_DEADLOCK FALSE
