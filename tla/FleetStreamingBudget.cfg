SPECIFICATION Spec
CONSTANTS
  N = 2
  MaxConcurrency = 2
  HostTimeout = 1
  MaxPaths = 1
INVARIANTS
  BudgetKept
