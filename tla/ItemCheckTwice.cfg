SPECIFICATION Spec
CONSTANTS
  Items = {i1, i2}
  Chunks = {c1, c2}
  BatchSize = 1
  MaxRetries = 2
  MaxCrashes = 0
  MaxOverruns = 1
INVARIANTS
  CheckedOnce
