SPECIFICATION Spec
CONSTANTS
  Process = {s1, s2}
  Ttl = 3
  MaxFailures = 2
  Nobody = Nobody
INVARIANT StopDrains
CHECK_DEADLOCK FALSE
