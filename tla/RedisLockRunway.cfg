SPECIFICATION Spec
CONSTANTS
  Runs = {r1, r2}
  NoRun = NoRun
  Ttl = 9
  MaxLag = 1
  MaxFails = 2
INVARIANTS
  LiveRunHolds
