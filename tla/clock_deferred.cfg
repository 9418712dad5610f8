SPECIFICATION Spec
CONSTANTS
  Worker = {w1, w2}
  Nobody = Nobody
  LockDuration = 2
  Timeout = 2
  MaxStalled = 2
  MaxAttempts = 1
  Backoff = 1
  Policies = {"defer"}
  QuietDelay = 5
  Interval = 2
  MaxRevivals = 0
  Crashes = FALSE
  WithChild = FALSE
PROPERTY RunsItsTime
CHECK_DEADLOCK FALSE
