SPECIFICATION FairSpec
CONSTANTS
  Runs = {r1, r2}
  NoRun = NoRun
  Ttl = 9
  MaxLag = 1
  MaxFails = 2
INVARIANTS
  SteadyRunHolds
  OrphanBounded
PROPERTIES
  OnlyOwnerDeletes
  KeyFreed
