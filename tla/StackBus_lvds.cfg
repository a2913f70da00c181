SPECIFICATION FairSpec
CONSTANTS
  Callers <- NoCaller
  Counts <- OneDevice
  ButtonReads = {TRUE, FALSE}
  MaxDevices = 2
  Hz = 1
  FailedMax = 1
  FpgaVer = 2
  ChildUnit = "GENERIC"
  DriverResetHardware = 0
  AutoRecovery = TRUE
  ButtonCheckMode = FALSE
  PushShutdown = TRUE
  AllocFails = TRUE
  MaxFaults = 1
  MaxFailures = 3
INVARIANT LvdsOffInShutdown
CHECK_DEADLOCK FALSE
