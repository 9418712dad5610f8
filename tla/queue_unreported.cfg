SPECIFICATION Spec
CONSTANTS
  MaxJobs = 2
  Options <- StallOptions
  MaxSpawnDepth = 1
  Interventions = {}
  MaxInterventions = 0
INVARIANT ChildDoneOnEveryEnding
CHECK_DEADLOCK FALSE
