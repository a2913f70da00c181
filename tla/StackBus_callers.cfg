SPECIFICATION Spec
CONSTANTS
  Callers <- OneCaller
  Counts <- OneDevice
  ButtonReads <- Never
  MaxDevices = 2
  Hz = 1
  FailedMax = 2
  FpgaVer = 2
  ChildUnit = "GENERIC"
  DriverResetHardware = 0
  AutoRecovery = TRUE
  ButtonCheckMode = FALSE
  PushShutdown = TRUE
  AllocFails = TRUE
  MaxFaults = 1
  MaxFailures = 4
PROPERTY ImplementsRecovery
INVARIANT ResetsAnswerFailures
CHECK_DEADLOCK FALSE
