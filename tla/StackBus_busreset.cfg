SPECIFICATION Spec
CONSTANTS
  Callers <- OneCaller
  Counts <- OneOrTwo
  ButtonReads <- Never
  MaxDevices = 2
  Hz = 1
  FailedMax = 2
  FpgaVer = 2
  ChildUnit = "GENERIC"
  DriverResetHardware = 2
  AutoRecovery = TRUE
  ButtonCheckMode = FALSE
  PushShutdown = TRUE
  AllocFails = TRUE
  MaxFaults = 1
  MaxFailures = 4
INVARIANT FailuresBounded
CHECK_DEADLOCK FALSE
