SPECIFICATION FairSpec
CONSTANTS
  Users <- TwoUsers
  Pages <- TwoPages
  Common = "common"
  Words <- OneWord
  Bytes <- Bits
  Requests <- SomeRequests
  None = None
  Done = Done
  PanicLimit = 2
PROPERTY ImplementsRegisters
PROPERTY Returns
CHECK_DEADLOCK FALSE
