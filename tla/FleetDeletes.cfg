SPECIFICATION Spec
CONSTANTS
  N = 2
  MaxConcurrency = 2
  HostTimeout = 1
  MaxItems = 3
INVARIANTS
  RemovesFromHome
  EveryPathReported
  OneLateRemove
PROPERTIES
  PromptSpec
