SPECIFICATION MCSpec
CONSTANTS
  Calls = {c1, c2}
  Depth = 2
  Absent = Absent
  Old = Old
  Half = Half
  N = 2
  MaxConcurrency = 2
  HostTimeout = 1
  MaxItems = 2
  Harakiris = {1, 2}
INVARIANTS
  CopiesAccounted
  
  ResultGenuine
  BackstopFirst
PROPERTIES
  PromiseKept
  LateOnlyIfFailed
CHECK_DEADLOCK FALSE
