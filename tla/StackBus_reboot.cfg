SPECIFICATION FairSpec
CONSTANTS
  Callers <- NoCaller
  Counts <- OneOrTwo
  ButtonReads <- Never
  MaxDevices = 2
  Hz = 1
  FailedMax = 1
  FpgaVer = 2
  ChildUnit = "GENERIC"
  DriverResetHardware = 2
  AutoRecovery = TRUE
  ButtonCheckMode = FALSE
  PushShutdown = TRUE
  AllocFails = FALSE
  MaxFaults = 1
  MaxFailures = 3
PROPERTY RebootsUnrepaired
CHECK_DEADLOCK FALSE
