SPECIFICATION ProgressSpec
CONSTANTS
  v1 = v1
  c1 = c1
  Scheduler = sched
  Free = free
  None = none
PROPERTIES
  EverythingDelivered
  SilenceIsReported
  ProgressIsPersisted
  ShutdownReturns
CHECK_DEADLOCK FALSE
