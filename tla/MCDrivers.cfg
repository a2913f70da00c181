SPECIFICATION DriversSpec
CONSTANTS
  CtlProcs = {p1, p2}
  Status1 = Status1
  Error = Error
  Leds = {Status1, Error}
  ErrorLed = Error
  DioBits = {0, 1}
  Filter = Filter
  LedTicks = 0
  RomUsers = {p1, p2}
  RomValues = {0, 1}
  RomReads = 1
  RomTries = 2
  TxLoad = 1
  XmitMax = 2
  RxFifo = 2
  RxLimit = 1
  RxErrors = 1
  ChainPorts = {c1, c2, c3}
  Infos = {i1, i2}
  NoInfo = NoInfo
  PassLimit = 1
  SubUsers = {p1, p2}
  SubBoards = {"COM1QL"}
  SubLeds = {l1}
  CntProcs = {p1}
  CntChannels = {0, 1}
  IoFiles = {f1, f2, f3}
  IoAddresses = {0, 1, 2, 3}
  IoNumbers = {0, 1, 2, 3}
  DriverAreas = 3
  AloneAreas = 2
  ComLines = {0, 1, 2}
INVARIANTS
  DriversTypeOK PartsAsAsked RomKept UartArmed ErrorsCounted PortsHeard LineReleased
  SubunitAsAsked CountsAsAsked RegistersMapped WindowOfKnown
PROPERTIES
  NotIdle
