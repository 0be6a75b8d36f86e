SPECIFICATION FairSpec
CONSTANTS
  Items = {i1, i2}
  Chunks = {c1, c2}
  BatchSize = 2
  MaxRetries = 2
  MaxCrashes = 1
  MaxOverruns = 1
INVARIANTS
  NothingLost
  ExactlyOnePlace
  CheckedOnceInTime
PROPERTIES
  SettledUnlessLost
