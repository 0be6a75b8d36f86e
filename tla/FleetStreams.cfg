SPECIFICATION MCSpec
CONSTANTS
  N = 3
  MaxConcurrency = 2
  HostTimeout = 1
  MaxPaths = 2
INVARIANTS
  
  NothingLeftQueued
  WaitNotCharged
  SinkQuiet
  CollectedMeansSunk
  OneExtraFetch
  CollectingKeepsBudget
PROPERTIES
  EngineSpec
  CallReturns
