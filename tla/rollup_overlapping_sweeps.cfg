SPECIFICATION Spec
CONSTANTS
  Parent = Parent
  Children = {c1, c2}
  Finishers = {}
  Sweepers = {s1, s2}
  Adders = {}
  Cap = 2
  SweepersOverlap = TRUE
INVARIANT NoStrandedParent
CHECK_DEADLOCK FALSE
