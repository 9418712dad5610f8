SPECIFICATION WorkerSpec
CONSTANTS
  Jobs = {j1}
  Concurrency = 2
  MaxClaims = 3
  w1 = w1
  w2 = w2
  LockDuration = 4
  RenewInterval = 2
  CallTimeout = 1
  SafetyMargin = 1
  MaxTime = 10
  Claimers = {w1, w2}
  NoClaimer = NoClaimer
  RowLock = 2
  Timeout = 1
  MaxStalled = 2
  MaxAttempts = 2
  Backoff = 1
  Policies = {"defer", "skip"}
  QuietDelay = 2
  StalledInterval = 1
  MaxRevivals = 1
  Crashes = TRUE
  WithChild = TRUE
INVARIANTS
  SlotsLive
  TrackedUnlessReclaimed
  ShutdownReaches
  OverrunBounded
  RenewedInTime
  ActiveBounded
  ChildFirst
PROPERTIES
  SlotsFreed
  ShutdownEnds
  JobSettles
CHECK_DEADLOCK FALSE
