SPECIFICATION RollupSyncSpec
CONSTANTS
  Parent = Parent
  Children = {c1, c2, c3}
  Finishers = {f1, f2}
  Sweepers = {s1, s2}
  Adders = {a1, a2}
  Cap = 2
  SweepersOverlap = FALSE
  Files = {p1, p2}
  Content = {"text"}
  Absent = "absent"
  Threshold = 2
  MaxCommits = 2
  MaxRewrites = 1
  MaxLeft = 1
INVARIANTS
  NoStrandedParent
  NothingSkipped
PROPERTY ImplementsRollup
SYMMETRY Symmetry
CHECK_DEADLOCK FALSE
