SPECIFICATION Spec
CONSTANTS
  LockDuration = 6
  Interval = 3
  CallTimeout = 2
  SafetyMargin = 1
  MaxTime = 24
INVARIANTS
  ReleasedBeforeReclaim
CHECK_DEADLOCK FALSE
