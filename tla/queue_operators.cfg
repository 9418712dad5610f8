SPECIFICATION Spec
CONSTANTS
  MaxJobs = 3
  Options <- OperatorOptions
  MaxSpawnDepth = 2
  Interventions = {"cancel", "retry", "pause", "remove", "prune", "lease"}
  MaxInterventions = 1
INVARIANTS
  AttemptsOrder
  NoEarlyWake
  ChildDoneDelivered
  ChildCap
PROPERTIES
  ImplementsOwnership
  CancelReachesSubtree
  DoneIsFinal
CHECK_DEADLOCK FALSE
