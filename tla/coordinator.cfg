SPECIFICATION MCSpec
CONSTANTS
  v1 = v1
  v2 = v2
  c1 = c1
  VBuckets <- MCVBuckets
  Callers <- MCCallers
  Scheduler = sched
  Automatic = TRUE
  StartCheckpoints <- MCOneStart
  Markers <- MCMarker
  NoCheckpoint = none
  Free = free
  MaxManifest = 0
  MaxGeneration = 2
  MaxDeliveries = 1
  MaxRebases = 1
INVARIANTS
  ProcessedIsContiguous
  CleanMeansStored
  StoredCheckpointsLoad
  FlushOkIsDurable
PROPERTIES
  OnlyRebaseRewinds
  ImplementsDurableLog
CHECK_DEADLOCK FALSE
