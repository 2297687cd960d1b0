SPECIFICATION MCSpec
CONSTANTS
  VBuckets = {v1, v2}
  None = none
  Capacity = 1
  BufferSize = 3
  RatioNum = 1
  RatioDen = 1
  EndSeqno = 2
  MaxExtra = 1
  MaxFaults = 1
  MaxFailures = 2
  MaxCloses = 2
INVARIANTS
  NothingLostOrReordered
  DeliveredIsPrefix
  CreditConserved
  ProducerHasRoom
  CloseLeavesOtherStreams
  DeliveredInSnapshots
SYMMETRY Symmetry
CHECK_DEADLOCK FALSE
