SPECIFICATION Spec
CONSTANTS
  N = 1
  MaxConcurrency = 1
  HostTimeout = 1
  MaxItems = 2
PROPERTIES
  NoRemoveOnceTold
