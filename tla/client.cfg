SPECIFICATION ClientSpec
CONSTANTS
  p1 = p1
  p2 = p2
  c1 = c1
  c2 = c2
  s1 = s1
  s2 = s2
  None = none
  Error = error
  MaxVBuckets = 5
  MaxCount = 6
  driver = driver
  prober = prober
  n1 = n1
  n2 = n2
  Free = free
  v1 = p1
  v2 = p2
  b1 = b1
  b2 = b2
  d1 = c1
  d2 = c2
  Torn = torn
INVARIANTS
  Partitioned
  AgreedIsDisjoint
  LeaversAreGone
  OneActiveSubscription
  CloseLeavesNothingRunning
  GenerationsFollowRevisions
  SavedSurvives
SYMMETRY ClientSymmetry
CHECK_DEADLOCK FALSE
