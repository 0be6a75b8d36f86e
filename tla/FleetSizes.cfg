SPECIFICATION WorkSpec
CONSTANTS
  N = 1
  MaxConcurrency = 1
  HostTimeout = 1
  MaxItems = 2
  Harakiris = {2}
INVARIANT SizeGenuine
CHECK_DEADLOCK FALSE
