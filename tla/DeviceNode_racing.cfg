SPECIFICATION Spec
CONSTANTS
  f1 = f1
  f2 = f2
  f3 = f3
  d1 = d1
  d2 = d2
  d3 = d3
  Files <- TwoFiles
  Objects <- TwoObjects
  None = None
INVARIANT OneObject
CHECK_DEADLOCK FALSE
