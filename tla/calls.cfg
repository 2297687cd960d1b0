SPECIFICATION CallSpec
CONSTANTS
  s1 = s1
  c1 = c1
  c2 = c2
  v1 = v1
  v2 = v2
  b1 = b1
  n1 = n1
  n2 = n2
  Free = free
  None = none
  Error = error
  Torn = torn
PROPERTIES
  CallsReturn
CHECK_DEADLOCK FALSE
