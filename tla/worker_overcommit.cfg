SPECIFICATION Spec
CONSTANTS
  Jobs = {j1, j2, j3}
  Concurrency = 2
  MaxClaims = 4
INVARIANT WithinConcurrency
CHECK_DEADLOCK FALSE
