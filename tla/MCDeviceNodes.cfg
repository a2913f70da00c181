SPECIFICATION NodesSpec
CONSTANTS
  Files = {f1, f2, f3}
  Objects = {d1, d2, d3}
  None = None
  DioSlots = {0, 1}
  DioTasks = {t1, t2}
  DioNone = DioNone
  UnhandledLimit = 2
  AioProcs = {p1, p2}
  EepromTries = 2
  SmpProcs = {p1, p2}
  FifoSize = 1
  CountSpan = 3
  PollLimit = 1
  SsiProcs = {p1, p2}
  SsiChannels = {0}
  SsiOffsets = {1, 127, 128, 255}
  SsiTemps = {0, 4063, 16777215}
INVARIANTS
  NodesTypeOK NoFault NothingLeft OneWindow
  MemoryReached SettingReported WritesLand FifoChecked ReadCorrected
PROPERTIES
  LineKept EventTold EventServed LoopsEnd
