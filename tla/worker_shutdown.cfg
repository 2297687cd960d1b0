SPECIFICATION FairSpec
CONSTANTS
  VBuckets = {v1}
  None = none
  Capacity = 1
  BufferSize = 3
  RatioNum = 1
  RatioDen = 1
  EndSeqno = 2
  MaxExtra = 0
  MaxFaults = 0
  MaxFailures = 0
  MaxCloses = 0
PROPERTIES
  ShutdownStopsWorker
CHECK_DEADLOCK FALSE
