SPECIFICATION Spec
CONSTANTS
  s1 = s1
  Stores <- OneStore
  Module = Module
  Timer = Timer
  None = None
  Units <- AllUnits
  MaxResets = 1
  MaxCuts = 1
INVARIANT EnabledReady
INVARIANT DisabledOff
INVARIANT ShadowWritten
INVARIANT NoWildWrite
CONSTRAINT CutBound
CHECK_DEADLOCK FALSE
