SPECIFICATION ConnectionSpec
CONSTANTS
  n1 = n1
  k1 = k1
  k2 = k2
  k3 = k3
  k4 = k4
  Copies = {n1, n2}
  None = none
  Error = error
  Failed = failed
  h1 = h1
  h2 = h2
  origin = origin
  u1 = u1
  MaxSeqno = 2
  MaxBranches = 2
  MaxRestarts = 1
  MaxFailures = 1
  Stalls = TRUE
INVARIANTS
  DeliveredSurvives
  RewindLosesNothing
  AllOrNothing
  RegistryIsManifest
  AnswersMatch
  ConnectionIsReady
  FramesSurvive
  MessagesAreRead
  ConfigIsFollowed
SYMMETRY Symmetry
CHECK_DEADLOCK FALSE
