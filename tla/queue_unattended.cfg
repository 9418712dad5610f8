SPECIFICATION FairSpec
CONSTANTS
  MaxJobs = 3
  Options <- PolicyOptions
  MaxSpawnDepth = 2
  Interventions = {}
  MaxInterventions = 0
INVARIANT BudgetsRespected
PROPERTIES
  LastChildWakesParent
  ParentsWake
CHECK_DEADLOCK FALSE
