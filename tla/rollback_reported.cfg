SPECIFICATION ChosenSpec
CONSTANTS
  n1 = n1
  k1 = k1
  k2 = k2
  k3 = k3
  k4 = k4
  Copies = {n1, n2}
  None = none
  Failed = failed
  MaxSeqno = 2
  MaxBranches = 2
  MaxRestarts = 1
  MaxFailures = 1
  Stalls = TRUE
INVARIANTS
  ChosenRollbackIsReal
CHECK_DEADLOCK FALSE
