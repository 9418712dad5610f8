SPECIFICATION ServicesSpec
CONSTANTS
  c1 = c1
  c2 = c2
  Children = {c1, c2}
  MayStall = {c1}
  MaxRequeues = 2
  Contenders <- MCContenders
  Openers <- MCOpeners
  HostOf <- MCHostOf
  PidOf <- MCPidOf
  LockTtl = 1
  StealGrace = 1
  DeathGrace = 1
  MaxAge = 1
  NoRow = NoRow
  Unreadable = "unreadable"
  Nobody = Nobody
  Supervisors = {c1, c2}
  SupervisorTtl = 3
  MaxFailures = 2
  NoSupervisor = NoSupervisor
  MaxSpawns = 3
  HardStop = 2
  WedgeChecks = 2
  LoopBudget = 2
  Callers = {c1, c2}
  MaxConcurrent = 1
  LeaseTtl = 3
  MaxWait = 1
  MaxCrashes = 2
  NoLease = NoLease
  NoCaller = NoCaller
  MaxTurns = 2
  MaxRuns = 3
  MaxLive = 1
  Answers <- MCAnswers
INVARIANTS
  Exclusive
  OneWriter
  CallsWithinCap
  UnsafeOnce
  TranscriptSound
  AggregatesLast
  HonestReport
  OnlyReadOnceLost
  Handover
  WedgeNotCrash
PROPERTIES
  CrashCleared
  CapacityReturns
  FinalAnswerStands
  Settles
  GivesUpInTime
  FairChance
  RestartEnds
CHECK_DEADLOCK FALSE
