SPECIFICATION Spec
CONSTANTS
  s1 = s1
  Stores <- OneStore
  Module = Module
  Timer = Timer
  None = None
  Units <- FewUnits
  MaxResets = 1
  MaxCuts = 1
INVARIANT ModemStarted
CHECK_DEADLOCK FALSE
