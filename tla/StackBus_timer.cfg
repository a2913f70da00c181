SPECIFICATION FairSpec
CONSTANTS
  Callers <- NoCaller
  Counts <- OneManyOrNone
  ButtonReads = {TRUE, FALSE}
  MaxDevices = 2
  Hz = 2
  FailedMax = 1
  FpgaVer = 2
  ChildUnit = "GENERIC"
  DriverResetHardware = 0
  AutoRecovery = TRUE
  ButtonCheckMode = FALSE
  PushShutdown = TRUE
  AllocFails = TRUE
  MaxFaults = 1
  MaxFailures = 3
INVARIANT ResetLineInv
INVARIANT ChildUnitOn
INVARIANT InterruptOffWhileNumbering
PROPERTY FullResetPulse
PROPERTY Recovers
PROPERTY ResetEnds
CHECK_DEADLOCK FALSE
