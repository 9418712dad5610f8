SPECIFICATION Spec
CONSTANTS
  Children = {c1, c2}
  MayStall = {}
  MaxRequeues = 1
INVARIANT NoneMissing
CHECK_DEADLOCK FALSE
