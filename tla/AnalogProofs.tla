--------------------------- MODULE AnalogProofs -----------------------------
(***************************************************************************)
(* Proofs about the analog drivers (cpsaio.c, cpsssi.c).  Of AioCommands,  *)
(* for any processes and any number of attempts: a setting is reported,    *)
(* and what is written lands.  Of AioSampling: no value is taken without a *)
(* check that held, and the loops get nearer to their end.  Of             *)
(* SensorInput: a temperature is corrected for the right wiring.           *)
(***************************************************************************)
EXTENDS Integers, AioCommands, AioSampling, SensorInput, TLAPS

-----------------------------------------------------------------------------
(***************************************************************************)
(* AioCommands.  SettingReported is inductive as it stands.  WritesLand is *)
(* not: that data lands needs to know what a process that is alone has     *)
(* prepared at each of its steps (Prepared), and for that that no second   *)
(* one has the node open (OneAlone).                                       *)
(***************************************************************************)

Places == {"closed", "open", "init"} \cup Writing \cup Eeprom

\* Steps during which the data registers are open.
Unlocked == {"low", "high", "lock"} \cup Eeprom

PcType == cmdPc \in [AioProcs -> Places]

\* While cmdAlone holds, at most one process has the node open.
OneAlone ==
  cmdAlone => \A p, q \in AioProcs : (cmdPc[p] # "closed" /\ cmdPc[q] # "closed") => p = q

\* What the process at its step has selected and opened, if nobody interfered.
Prepared ==
  cmdAlone => \A p \in AioProcs :
    /\ cmdPc[p] \in Writing => cmdSelected = "stop"
    /\ cmdPc[p] \in Unlocked => cmdUnlocked

NoLoss == cmdAlone => ~cmdLost

\* Who opened the data registers is still on the way to close them.
OpenOwned == cmdUnlocked => \E p \in AioProcs : cmdPc[p] \in Unlocked

CmdInv == PcType /\ OneAlone /\ Prepared /\ NoLoss /\ OpenOwned /\ SettingReported

-----------------------------------------------------------------------------
LEMMA GotoMoves ==
  ASSUME PcType, NEW p \in AioProcs, NEW from, NEW to \in Places, CmdGoto(p, from, to)
  PROVE  /\ PcType' /\ cmdPc[p] = from /\ cmdPc'[p] = to
         /\ \A q \in AioProcs : q # p => cmdPc'[q] = cmdPc[q]
BY DEF PcType, CmdGoto

LEMMA CmdInitHolds == CmdInit => CmdInv
BY DEF CmdInit, CmdInv, PcType, OneAlone, Prepared, NoLoss, OpenOwned, SettingReported,
       Places, Writing, Eeprom, Unlocked

\* A process that goes on under the same settings, and was in before.  What it
\* loses, selects and opens on the way is the caller's to show.
LEMMA OnTheWay ==
  ASSUME CmdInv, NEW p \in AioProcs, NEW from \in Places \ {"closed", "init"},
         NEW to \in Places, CmdGoto(p, from, to),
         to = "init" \/ UNCHANGED aioSetting, UNCHANGED cmdAlone,
         cmdAlone => ~cmdLost',
         cmdAlone /\ to \in Writing => cmdSelected' = "stop",
         cmdAlone /\ to \in Unlocked => cmdUnlocked',
         cmdUnlocked' => to \in Unlocked \/ (cmdUnlocked /\ from \notin Unlocked)
  PROVE  CmdInv'
<1>1. /\ PcType' /\ cmdPc[p] = from /\ cmdPc'[p] = to
      /\ \A q \in AioProcs : q # p => cmdPc'[q] = cmdPc[q]
  BY GotoMoves DEF CmdInv
<1>2. OneAlone'
  BY <1>1 DEF CmdInv, OneAlone
<1>3. cmdAlone => \A q \in AioProcs : q # p => cmdPc[q] = "closed"
  BY <1>1 DEF CmdInv, OneAlone
<1>4. Prepared'
  <2> SUFFICES ASSUME cmdAlone', NEW q \in AioProcs
      PROVE  /\ cmdPc'[q] \in Writing => cmdSelected' = "stop"
             /\ cmdPc'[q] \in Unlocked => cmdUnlocked'
    BY DEF Prepared
  <2>1. CASE q = p
    BY <1>1, <2>1
  <2>2. CASE q # p
    <3>1. cmdPc'[q] = "closed"
      BY <1>1, <1>3, <2>2
    <3> QED BY <3>1 DEF Writing, Unlocked, Eeprom
  <2> QED BY <2>1, <2>2
<1>5. NoLoss'
  BY DEF NoLoss
<1>6. OpenOwned'
  <2> SUFFICES ASSUME cmdUnlocked' PROVE \E q \in AioProcs : cmdPc'[q] \in Unlocked
    BY DEF OpenOwned
  <2>1. CASE to \in Unlocked
    BY <1>1, <2>1
  <2>2. CASE cmdUnlocked /\ from \notin Unlocked
    <3>1. PICK q \in AioProcs : cmdPc[q] \in Unlocked
      BY <2>2 DEF CmdInv, OpenOwned
    <3> QED BY <1>1, <2>2, <3>1
  <2> QED BY <2>1, <2>2
<1>7. SettingReported'
  <2>1. CASE to = "init"
    BY <1>1, <2>1 DEF SettingReported
  <2>2. CASE UNCHANGED aioSetting
    <3>1. (\A q \in AioProcs : cmdPc'[q] # "init") => \A q \in AioProcs : cmdPc[q] # "init"
      BY <1>1
    <3> QED BY <2>2, <3>1 DEF CmdInv, SettingReported, aioSetting
  <2> QED BY <2>1, <2>2
<1> QED BY <1>1, <1>2, <1>4, <1>5, <1>6, <1>7 DEF CmdInv

\* An ioctl that is one step: its process stays, and so does the channel, but
\* that another command may be selected and the data registers closed.
LEMMA OneStep ==
  ASSUME CmdInv, NEW p \in AioProcs, cmdPc[p] = "open", UNCHANGED <<cmdPc, cmdHistory>>,
         cmdUnlocked' => cmdUnlocked, SettingReported'
  PROVE  CmdInv'
<1>1. PcType' /\ OneAlone' /\ NoLoss' /\ OpenOwned'
  BY DEF CmdInv, PcType, OneAlone, NoLoss, OpenOwned, cmdHistory
<1>2. ASSUME cmdAlone', NEW q \in AioProcs
      PROVE  cmdPc'[q] \notin Writing /\ cmdPc'[q] \notin Unlocked
  <2>1. cmdPc'[q] \in {"open", "closed"}
    BY <1>2 DEF CmdInv, OneAlone, cmdHistory
  <2> QED BY <2>1 DEF Writing, Unlocked, Eeprom
<1>3. Prepared'
  BY <1>2 DEF Prepared
<1> QED BY <1>1, <1>3 DEF CmdInv

-----------------------------------------------------------------------------
LEMMA CmdOpenHolds ==
  ASSUME CmdInv, NEW p \in AioProcs, AioOpen(p)
  PROVE  CmdInv'
<1>1. /\ PcType' /\ cmdPc[p] = "closed" /\ cmdPc'[p] = "open"
      /\ \A q \in AioProcs : q # p => cmdPc'[q] = cmdPc[q]
  BY GotoMoves DEF CmdInv, AioOpen, Places
<1>2. cmdSelected' = cmdSelected /\ cmdUnlocked' = cmdUnlocked
  BY DEF AioOpen, cmdChannel
<1>3. OpenOwned'
  BY <1>1, <1>2 DEF CmdInv, OpenOwned, Unlocked, Eeprom
<1>4. CASE CmdOpen
  <2>1. cmdAlone' = FALSE /\ UNCHANGED aioSetting
    BY <1>4 DEF AioOpen
  <2>2. SettingReported'
    BY <1>1, <2>1 DEF CmdInv, SettingReported, aioSetting
  <2> QED BY <1>1, <1>3, <2>1, <2>2 DEF CmdInv, OneAlone, Prepared, NoLoss
<1>5. CASE ~CmdOpen
  <2>1. \A q \in AioProcs : q # p => cmdPc'[q] = "closed"
    BY <1>1, <1>5 DEF CmdOpen
  <2>2. cmdLost' = FALSE /\ aioKnown' = FALSE
    BY <1>5 DEF AioOpen
  <2>3. OneAlone'
    BY <1>1, <2>1 DEF OneAlone
  <2>4. Prepared'
    <3>1. \A q \in AioProcs : cmdPc'[q] \in {"open", "closed"}
      BY <1>1, <2>1
    <3> QED BY <3>1 DEF Prepared, Writing, Unlocked, Eeprom
  <2> QED BY <1>1, <1>3, <2>2, <2>3, <2>4 DEF CmdInv, NoLoss, SettingReported
<1> QED BY <1>4, <1>5

LEMMA InitSettingsHolds ==
  ASSUME CmdInv, NEW p \in AioProcs, InitSettings(p)
  PROVE  CmdInv'
<1>1. /\ PcType' /\ cmdPc[p] = "init" /\ cmdPc'[p] = "open"
      /\ \A q \in AioProcs : q # p => cmdPc'[q] = cmdPc[q]
  BY GotoMoves DEF CmdInv, InitSettings, Places
<1>2. /\ cmdUnlocked' = FALSE /\ cmdAlone' = cmdAlone /\ cmdLost' = cmdLost
      /\ aioClock' = "init" /\ aioDevClock' = "init"
  BY DEF InitSettings, cmdHistory
<1>3. OneAlone'
  BY <1>1, <1>2 DEF CmdInv, OneAlone
<1>4. cmdAlone => \A q \in AioProcs : cmdPc'[q] \in {"open", "closed"}
  BY <1>1 DEF CmdInv, OneAlone
<1>5. Prepared'
  BY <1>2, <1>4 DEF Prepared, Writing, Unlocked, Eeprom
<1> QED BY <1>1, <1>2, <1>3, <1>5 DEF CmdInv, NoLoss, OpenOwned, SettingReported

\* The ioctls that are one step.
LEMMA OneStepHolds ==
  ASSUME CmdInv, NEW p \in AioProcs,
         \/ GetFlag(p) \/ CallCommand(p) \/ ClearFlag(p) \/ SetSignal(p)
         \/ SetClock(p) \/ DirectCommand(p) \/ SetOutputChannel(p)
         \/ GetSetting(p) \/ HostSetting(p)
  PROVE  CmdInv'
<1>1. CASE GetFlag(p) \/ CallCommand(p)
  <2>1. UNCHANGED <<cmdPc, cmdUnlocked, cmdHistory, aioSetting>> /\ cmdPc[p] = "open"
    BY <1>1 DEF GetFlag, CallCommand, LockedRead
  <2>2. SettingReported'
    BY <2>1 DEF CmdInv, SettingReported, aioSetting
  <2> QED BY <2>1, <2>2, OneStep
<1>2. CASE ClearFlag(p) \/ SetSignal(p)
  <2>1. UNCHANGED <<cmdPc, cmdHistory, aioSetting>> /\ cmdPc[p] = "open" /\ cmdUnlocked' = FALSE
    BY <1>2 DEF ClearFlag, SetSignal, LockedWrite
  <2>2. SettingReported'
    BY <2>1 DEF CmdInv, SettingReported, aioSetting
  <2> QED BY <2>1, <2>2, OneStep
<1>3. CASE SetClock(p)
  <2>1. /\ UNCHANGED <<cmdPc, cmdHistory>> /\ cmdPc[p] = "open" /\ cmdUnlocked' = FALSE
        /\ aioClock' = "user" /\ aioDevClock' = "user"
    BY <1>3 DEF SetClock
  <2>2. SettingReported'
    BY <2>1 DEF SettingReported
  <2> QED BY <2>1, <2>2, OneStep
<1>4. CASE DirectCommand(p) \/ SetOutputChannel(p)
  <2>1. SetDevice(p)
    BY <1>4 DEF DirectCommand, SetOutputChannel
  <2>2. /\ UNCHANGED <<cmdPc, cmdHistory>> /\ cmdPc[p] = "open" /\ cmdUnlocked' = FALSE
        /\ aioDevClock' = "user" /\ aioClock' = aioClock
        /\ aioKnown' => aioClock = "user"
    BY <2>1 DEF SetDevice
  <2>3. SettingReported'
    BY <2>2 DEF SettingReported
  <2> QED BY <2>2, <2>3, OneStep
<1>5. CASE GetSetting(p) \/ HostSetting(p)
  <2>1. UNCHANGED cmdVars /\ cmdPc[p] = "open"
    BY <1>5 DEF GetSetting, HostSetting
  <2>2. SettingReported'
    BY <2>1 DEF CmdInv, SettingReported, aioSetting, cmdVars
  <2> QED BY <2>1, <2>2, OneStep DEF cmdVars, cmdChannel
<1> QED BY <1>1, <1>2, <1>3, <1>4, <1>5

\* The steps of INIT's calls, of START and of the EEPROM ioctls, and a close.
LEMMA WayHolds ==
  ASSUME CmdInv, NEW p \in AioProcs,
         \/ AioClose(p) \/ InitCalls(p)
         \/ StartSelect(p) \/ WriteUnlock(p) \/ WriteData(p) \/ WriteLock(p)
         \/ EepromUnlock(p) \/ EepromChoose(p) \/ EepromWrite(p) \/ EepromClear(p)
         \/ EepromRead(p) \/ EepromLock(p)
  PROVE  CmdInv'
<1> USE DEF Places, Writing, Eeprom, Unlocked, cmdChannel, cmdHistory
<1>0. /\ cmdAlone => ~cmdLost
      /\ cmdAlone /\ cmdPc[p] \in Writing => cmdSelected = "stop"
      /\ cmdAlone /\ cmdPc[p] \in Unlocked => cmdUnlocked
  BY DEF CmdInv, NoLoss, Prepared
<1>1. CASE AioClose(p)
  BY <1>0, <1>1, OnTheWay DEF AioClose
<1>2. CASE InitCalls(p)
  BY <1>0, <1>2, OnTheWay DEF InitCalls
<1>3. CASE StartSelect(p)
  BY <1>0, <1>3, OnTheWay DEF StartSelect
<1>4. CASE WriteUnlock(p)
  <2>1. cmdPc[p] = "unlock"
    BY <1>4 DEF WriteUnlock, CmdGoto
  <2> QED BY <1>0, <1>4, <2>1, OnTheWay DEF WriteUnlock
<1>5. CASE WriteData(p)
  <2>1. PICK from \in {"low", "high"}, to \in {"high", "lock"} : CmdGoto(p, from, to)
    BY <1>5 DEF WriteData
  <2>2. cmdPc[p] = from
    BY <2>1 DEF CmdGoto
  <2>3. cmdAlone => ~cmdLost'
    BY <1>0, <1>5, <2>2 DEF WriteData
  <2> QED BY <1>0, <1>5, <2>1, <2>2, <2>3, OnTheWay DEF WriteData
<1>6. CASE WriteLock(p)
  BY <1>0, <1>6, OnTheWay DEF WriteLock
<1>7. CASE EepromUnlock(p)
  BY <1>0, <1>7, OnTheWay DEF EepromUnlock
<1>8. CASE EepromChoose(p)
  <2>1. PICK to \in {"e_write", "e_clear", "e_read"} : CmdGoto(p, "e_unlock", to)
    BY <1>8 DEF EepromChoose
  <2>2. cmdPc[p] = "e_unlock"
    BY <2>1 DEF CmdGoto
  <2> QED BY <1>0, <1>8, <2>1, <2>2, OnTheWay DEF EepromChoose
<1>9. CASE EepromWrite(p)
  <2>1. cmdPc[p] = "e_write" /\ UNCHANGED <<cmdChannel, cmdAlone, aioSetting>>
    BY <1>9 DEF EepromWrite, CmdGoto
  <2>2. cmdAlone => ~cmdLost'
    BY <1>0, <1>9, <2>1 DEF EepromWrite
  <2>3. CASE CmdGoto(p, "e_write", "e_lock")
    BY <1>0, <2>1, <2>2, <2>3, OnTheWay
  <2>4. CASE UNCHANGED <<cmdPc, cmdLost>>
    BY <2>1, <2>4 DEF CmdInv, PcType, OneAlone, Prepared, NoLoss, OpenOwned,
                      SettingReported, aioSetting
  <2> QED BY <1>9, <2>3, <2>4 DEF EepromWrite
<1>10. CASE EepromClear(p)
  <2>1. cmdPc[p] = "e_clear"
    BY <1>10 DEF EepromClear, CmdGoto
  <2> QED BY <1>0, <1>10, <2>1, OnTheWay DEF EepromClear
<1>11. CASE EepromRead(p)
  <2>1. cmdPc[p] = "e_read"
    BY <1>11 DEF EepromRead, CmdGoto
  <2> QED BY <1>0, <1>11, <2>1, OnTheWay DEF EepromRead
<1>12. CASE EepromLock(p)
  BY <1>0, <1>12, OnTheWay DEF EepromLock
<1> QED
  BY <1>1, <1>2, <1>3, <1>4, <1>5, <1>6, <1>7, <1>8, <1>9, <1>10, <1>11, <1>12

LEMMA CmdStepHolds == CmdInv /\ [CmdNext]_cmdVars => CmdInv'
<1> SUFFICES ASSUME CmdInv, [CmdNext]_cmdVars PROVE CmdInv'
  OBVIOUS
<1>1. CASE AioEvent \/ UNCHANGED cmdVars
  <2>1. UNCHANGED <<cmdPc, cmdChannel, cmdHistory, aioSetting>>
    BY <1>1 DEF AioEvent, cmdVars
  <2> QED BY <2>1 DEF CmdInv, PcType, OneAlone, Prepared, NoLoss, OpenOwned,
                      SettingReported, cmdChannel, cmdHistory, aioSetting
<1>2. CASE AioInterrupt
  BY <1>2 DEF AioInterrupt, CmdInv, PcType, OneAlone, Prepared, NoLoss, OpenOwned,
              SettingReported, aioSetting
<1> QED
  BY <1>1, <1>2, CmdOpenHolds, InitSettingsHolds, OneStepHolds, WayHolds DEF CmdNext

LEMMA CmdCorrect == CmdSpec => []CmdInv
BY CmdInitHolds, CmdStepHolds, PTL DEF CmdSpec

-----------------------------------------------------------------------------
\* The ioctls that ask for a setting answer what the device is set to
\* (cpsaio.c:1942).
THEOREM SettingReportedAlways == CmdSpec => []SettingReported
<1>1. CmdInv => SettingReported
  BY DEF CmdInv
<1> QED BY CmdCorrect, <1>1, PTL

\* What is written without a lock lands while nobody interferes, and the data
\* registers never stay open behind whoever opened them (cpsaio.c:1373, 2185).
THEOREM WritesLandAlways == CmdSpec => []WritesLand
<1>1. CmdInv => WritesLand
  BY DEF CmdInv, NoLoss, OpenOwned, Unlocked, WritesLand
<1> QED BY CmdCorrect, <1>1, PTL


\* A process moves to one of its places.
LEMMA CmdMoves ==
  ASSUME CmdTypeOK, NEW p \in AioProcs, NEW from,
         NEW to \in {"closed", "open", "init"} \cup Writing \cup Eeprom, CmdGoto(p, from, to)
  PROVE  cmdPc' \in [AioProcs -> {"closed", "open", "init"} \cup Writing \cup Eeprom]
BY DEF CmdTypeOK, CmdGoto

\* Every step keeps the types.
LEMMA CmdTypeStep ==
  ASSUME CmdTypeOK, [CmdNext]_cmdVars
  PROVE  CmdTypeOK'
<1> USE DEF CmdTypeOK, CmdGoto, cmdChannel, cmdHistory, aioSetting, Clocks
<1>1. CASE AioEvent \/ AioInterrupt \/ UNCHANGED cmdVars
  BY <1>1 DEF AioEvent, AioInterrupt, cmdVars
<1>2. ASSUME NEW p \in AioProcs, \/ AioOpen(p) \/ AioClose(p) \/ InitCalls(p) \/ InitSettings(p)
      PROVE  CmdTypeOK'
  <2>1. cmdPc' \in [AioProcs -> {"closed", "open", "init"} \cup Writing \cup Eeprom]
    BY <1>2, CmdMoves DEF AioOpen, AioClose, InitCalls, InitSettings
  <2>2. cmdSelected' \in {"none", "stop", "signal", "flag", "irqmask", "call"}
    BY <1>2 DEF AioOpen, AioClose, InitCalls, InitSettings
  <2>3. cmdUnlocked' \in BOOLEAN /\ aioKnown' \in BOOLEAN /\ aioFlag' \in BOOLEAN
    BY <1>2 DEF AioOpen, AioClose, InitCalls, InitSettings
  <2>4. cmdLost' \in BOOLEAN /\ cmdAlone' \in BOOLEAN
    BY <1>2 DEF AioOpen, AioClose, InitCalls, InitSettings
  <2>5. aioClock' \in Clocks /\ aioDevClock' \in Clocks
    BY <1>2 DEF AioOpen, AioClose, InitCalls, InitSettings
  <2>6. cmdTries' = cmdTries
    BY <1>2 DEF AioOpen, AioClose, InitCalls, InitSettings
  <2> QED BY <2>1, <2>2, <2>3, <2>4, <2>5, <2>6
<1>3. ASSUME NEW p \in AioProcs,
             \/ GetFlag(p) \/ CallCommand(p) \/ ClearFlag(p) \/ SetSignal(p)
             \/ SetClock(p) \/ DirectCommand(p) \/ SetOutputChannel(p)
             \/ GetSetting(p) \/ HostSetting(p)
      PROVE  CmdTypeOK'
  BY <1>3 DEF GetFlag, CallCommand, ClearFlag, SetSignal, SetClock, DirectCommand, SetDevice,
              SetOutputChannel, GetSetting, HostSetting, LockedRead, LockedWrite, cmdVars
<1>4. ASSUME NEW p \in AioProcs, StartSelect(p) \/ WriteUnlock(p) \/ WriteData(p) \/ WriteLock(p)
      PROVE  CmdTypeOK'
  <2>1. cmdPc' \in [AioProcs -> {"closed", "open", "init"} \cup Writing \cup Eeprom]
    BY <1>4, CmdMoves DEF StartSelect, WriteUnlock, WriteData, WriteLock, Writing
  <2>2. cmdSelected' = cmdSelected \/ cmdSelected' = "stop"
    BY <1>4 DEF StartSelect, WriteUnlock, WriteData, WriteLock
  <2>3. cmdUnlocked' \in BOOLEAN /\ cmdLost' \in BOOLEAN /\ cmdAlone' = cmdAlone
    BY <1>4 DEF StartSelect, WriteUnlock, WriteData, WriteLock
  <2>4. UNCHANGED <<cmdTries, aioSetting, aioFlag>>
    BY <1>4 DEF StartSelect, WriteUnlock, WriteData, WriteLock
  <2> QED BY <2>1, <2>2, <2>3, <2>4
<1>5. ASSUME NEW p \in AioProcs,
             \/ EepromUnlock(p) \/ EepromChoose(p) \/ EepromWrite(p) \/ EepromClear(p)
             \/ EepromRead(p) \/ EepromLock(p)
      PROVE  CmdTypeOK'
  <2>1. \/ cmdPc' = cmdPc
        \/ \E from, to \in {"open"} \cup Eeprom : CmdGoto(p, from, to)
    BY <1>5 DEF EepromUnlock, EepromChoose, EepromWrite, EepromClear, EepromRead, EepromLock, Eeprom
  <2>2. cmdPc' \in [AioProcs -> {"closed", "open", "init"} \cup Writing \cup Eeprom]
    BY <2>1, CmdMoves
  <2>3. cmdTries' \in [AioProcs -> 0..EepromTries]
    BY <1>5, CmdAssumption DEF EepromUnlock, EepromChoose, EepromWrite, EepromClear, EepromRead, EepromLock
  <2>4. cmdLost' \in BOOLEAN
    BY <1>5 DEF EepromUnlock, EepromChoose, EepromWrite, EepromClear, EepromRead, EepromLock
  <2>5. UNCHANGED <<cmdSelected, cmdAlone, aioSetting, aioFlag>>
    BY <1>5 DEF EepromUnlock, EepromChoose, EepromWrite, EepromClear, EepromRead, EepromLock
  <2>6. cmdUnlocked' \in BOOLEAN
    BY <1>5 DEF EepromUnlock, EepromChoose, EepromWrite, EepromClear, EepromRead, EepromLock
  <2> QED BY <2>2, <2>3, <2>4, <2>5, <2>6
<1> QED BY <1>1, <1>2, <1>3, <1>4, <1>5 DEF CmdNext

\* The command channel keeps its types; a write to the EEPROM makes no more than
\* EepromTries attempts (cpsaio.c:983), for any processes.
THEOREM CommandsTyped == CmdSpec => []CmdTypeOK
<1>1. ASSUME CmdInit PROVE CmdTypeOK
  <2>1. cmdPc \in [AioProcs -> {"closed", "open", "init"} \cup Writing \cup Eeprom]
    BY <1>1 DEF CmdInit
  <2>2. cmdTries \in [AioProcs -> 0..EepromTries]
    BY <1>1, CmdAssumption DEF CmdInit
  <2> QED BY <1>1, <2>1, <2>2 DEF CmdInit, CmdTypeOK, Clocks
<1>2. CmdTypeOK /\ [CmdNext]_cmdVars => CmdTypeOK'
  BY CmdTypeStep
<1> QED BY <1>1, <1>2, PTL DEF CmdSpec

-----------------------------------------------------------------------------
(***************************************************************************)
(* AioSampling.  FifoChecked is inductive once it is known where the       *)
(* processes are (SmpShape): whoever empties the FIFO marks every reader   *)
(* that has checked it and not yet taken.                                  *)
(***************************************************************************)

SmpPlaces == {"idle", "opening", "pulse", "stopping", "poll", "take", "calibrate", "init"}

\* Where the processes are, and whether somebody emptied the FIFO since each
\* looked.
SmpShape ==
  /\ smpPc \in [SmpProcs -> SmpPlaces]
  /\ smpTorn \in [SmpProcs -> BOOLEAN]
  /\ smpFifo \in Nat

SmpInv == SmpShape /\ FifoChecked

\* A process moves, and the values stay or grow.
LEMMA FifoKept ==
  ASSUME SmpInv, NEW p \in SmpProcs, NEW to \in SmpPlaces \ {"take"},
         smpPc' = [smpPc EXCEPT ![p] = to], smpTorn' = smpTorn, smpFifo' = smpFifo
  PROVE  SmpInv'
BY DEF SmpInv, SmpShape, FifoChecked

\* A process that is not about to take a value empties the FIFO or takes from it.
LEMMA FifoTorn ==
  ASSUME SmpInv, NEW p \in SmpProcs, NEW to \in SmpPlaces \ {"take"},
         smpPc' = [smpPc EXCEPT ![p] = to], Tear(p), smpFifo' \in Nat
  PROVE  SmpInv'
BY DEF SmpInv, SmpShape, FifoChecked, Tear

\* Nobody runs at the start.
LEMMA SamplingInit == SmpInit => SmpInv
BY DEF SmpInit, SmpInv, SmpShape, FifoChecked, SmpPlaces

\* Every step: what a process checked holds until somebody takes or empties.
LEMMA SamplingStep ==
  ASSUME SmpInv, [SmpNext]_smpVars
  PROVE  SmpInv'
<1> USE DEF SmpGoto, SmpAgain, smpReader, smpDevice
<1>1. CASE UNCHANGED <<smpPc, smpTorn, smpFifo>>
  BY <1>1 DEF SmpInv, SmpShape, FifoChecked
<1>2. CASE GateOpens \/ GateCloses \/ Calibrated \/ UNCHANGED smpVars
  BY <1>1, <1>2 DEF GateOpens, GateCloses, Calibrated, smpVars
<1>3. CASE Sample
  BY <1>3 DEF Sample, SmpInv, SmpShape, FifoChecked
<1>4. ASSUME NEW p \in SmpProcs,
             \/ StartAi(p) \/ StartTimeout(p) \/ StartPoll(p) \/ StartPulse(p)
             \/ StopAi(p) \/ InStatus(p) \/ StopLoop(p)
             \/ ResetStatus(p) \/ InitFlags(p) \/ SetCalibration(p) \/ CalibrationPoll(p)
             \/ ReadAi(p) \/ WriteAo(p)
      PROVE  SmpInv'
  <2>1. smpTorn' = smpTorn /\ smpFifo' = smpFifo
    BY <1>4 DEF StartAi, StartTimeout, StartPoll, StartPulse, StopAi, InStatus, StopLoop,
             ResetStatus, InitFlags, SetCalibration, CalibrationPoll, ReadAi, WriteAo
  <2>2. smpPc' = smpPc \/ \E to \in SmpPlaces \ {"take"} : smpPc' = [smpPc EXCEPT ![p] = to]
    BY <1>4 DEF StartAi, StartTimeout, StartPoll, StartPulse, StopAi, InStatus, StopLoop,
             ResetStatus, InitFlags, SetCalibration, CalibrationPoll, ReadAi, WriteAo, SmpPlaces
  <2> QED BY <1>1, <2>1, <2>2, FifoKept
<1>6. ASSUME NEW p \in SmpProcs, ResetMemory(p) \/ InitDevice(p) \/ ReadTimeout(p)
      PROVE  SmpInv'
  <2>1. Tear(p) /\ smpFifo' = 0
    BY <1>6 DEF ResetMemory, InitDevice, ReadTimeout
  <2>2. \E to \in SmpPlaces \ {"take"} : smpPc' = [smpPc EXCEPT ![p] = to]
    BY <1>6 DEF ResetMemory, InitDevice, ReadTimeout, SmpPlaces
  <2> QED BY <2>1, <2>2, FifoTorn
<1>7. ASSUME NEW p \in SmpProcs, ReadTake(p)
      PROVE  SmpInv'
  <2>1. Tear(p) /\ smpFifo' = IF smpFifo = 0 THEN 0 ELSE smpFifo - 1
    BY <1>7 DEF ReadTake
  <2>2. smpFifo' \in Nat
    BY <2>1 DEF SmpInv, SmpShape
  <2>3. SmpGoto(p, "take", "poll") \/ SmpGoto(p, "take", "idle")
    BY ONLY <1>7 DEF ReadTake
  <2>4. \E to \in SmpPlaces \ {"take"} : smpPc' = [smpPc EXCEPT ![p] = to]
    BY <2>3 DEF SmpPlaces
  <2> QED BY <2>1, <2>2, <2>4, FifoTorn
<1>8. ASSUME NEW p \in SmpProcs, ReadPoll(p)
      PROVE  SmpInv'
  <2>1. smpFifo' = smpFifo
    BY <1>8 DEF ReadPoll
  <2>2. \/ smpTorn' = smpTorn /\ smpPc' = smpPc
        \/ /\ smpFifo > 0 /\ smpPc' = [smpPc EXCEPT ![p] = "take"]
           /\ smpTorn' = [smpTorn EXCEPT ![p] = FALSE]
    BY <1>8 DEF ReadPoll
  <2>3. CASE smpFifo > 0 /\ smpPc' = [smpPc EXCEPT ![p] = "take"]
             /\ smpTorn' = [smpTorn EXCEPT ![p] = FALSE]
    BY <2>1, <2>3 DEF SmpInv, SmpShape, FifoChecked, SmpPlaces
  <2> QED BY <1>1, <2>1, <2>2, <2>3
<1> QED BY <1>2, <1>3, <1>4, <1>6, <1>7, <1>8 DEF SmpNext

\* A value is taken from the empty FIFO only when another reader or a reset emptied
\* it after the check (cpsaio.c:2546, 2548), for any processes and any bound of the
\* counts.
THEOREM FifoCheckedAlways == SmpSpec => []FifoChecked
<1>1. SmpInv => FifoChecked
  BY DEF SmpInv
<1> QED BY SamplingInit, SamplingStep, <1>1, PTL DEF SmpSpec


\* A process moves on, with its polls started again.
LEMMA PollsMove ==
  ASSUME SmpTypeOK, NEW p \in SmpProcs, NEW from, 
         NEW to \in {"idle", "opening", "pulse", "stopping", "poll", "take", "calibrate", "init"}, 
         SmpGoto(p, from, to)
  PROVE  /\ smpPc' \in [SmpProcs -> {"idle", "opening", "pulse", "stopping", "poll",
                             "take", "calibrate", "init"}]
         /\ smpPolls' \in [SmpProcs -> 0..PollLimit + 1]
BY SmpAssumption DEF SmpTypeOK, SmpGoto

\* Whoever empties the FIFO leaves marks of the readers.
LEMMA TearType ==
  ASSUME NEW p \in SmpProcs, Tear(p)
  PROVE  smpTorn' \in [SmpProcs -> BOOLEAN]
BY DEF Tear

\* Every step keeps the types.
LEMMA SmpTypeStep ==
  ASSUME SmpTypeOK, [SmpNext]_smpVars
  PROVE  SmpTypeOK'
<1> USE SmpAssumption DEF smpReader, smpDevice
<1>1. CASE GateOpens \/ GateCloses \/ Calibrated \/ UNCHANGED smpVars
  BY <1>1 DEF GateOpens, GateCloses, Calibrated, smpVars, SmpTypeOK
<1>2. CASE Sample
  <2>1. smpFifo' \in 0..FifoSize
    BY <1>2 DEF Sample, SmpTypeOK
  <2>2. smpFlags' \subseteq {"overflow", "clock"}
    BY Zenon, <1>2 DEF Sample, SmpTypeOK
  <2> QED BY <1>2, <2>1, <2>2 DEF Sample, SmpTypeOK
<1>3. ASSUME NEW p \in SmpProcs,
             \/ StartAi(p) \/ StartTimeout(p) \/ StartPulse(p) \/ StopAi(p) \/ InStatus(p)
             \/ ResetStatus(p) \/ InitFlags(p) \/ SetCalibration(p) \/ CalibrationPoll(p) \/ WriteAo(p)
      PROVE  SmpTypeOK'
  <2>1. /\ smpPc' \in [SmpProcs -> {"idle", "opening", "pulse", "stopping", "poll",
                             "take", "calibrate", "init"}]
        /\ smpPolls' \in [SmpProcs -> 0..PollLimit + 1]
    BY <1>3, PollsMove DEF StartAi, StartTimeout, StartPulse, StopAi, InStatus, ResetStatus, InitFlags,
         SetCalibration, CalibrationPoll, WriteAo
  <2> QED BY <1>3, <2>1 DEF SmpTypeOK, StartAi, StartTimeout, StartPulse, StopAi, StopCommand, InStatus, ResetStatus, InitFlags,
         SetCalibration, CalibrationPoll, WriteAo
<1>4. ASSUME NEW p \in SmpProcs, ResetMemory(p) \/ InitDevice(p)
      PROVE  SmpTypeOK'
  <2>1. /\ smpPc' \in [SmpProcs -> {"idle", "opening", "pulse", "stopping", "poll",
                             "take", "calibrate", "init"}]
        /\ smpPolls' \in [SmpProcs -> 0..PollLimit + 1]
    BY <1>4, PollsMove DEF ResetMemory, InitDevice
  <2>2. smpTorn' \in [SmpProcs -> BOOLEAN]
    BY <1>4, TearType DEF ResetMemory, InitDevice
  <2>3. smpFlags' \subseteq {"overflow", "clock"}
    BY Zenon, <1>4 DEF SmpTypeOK, ResetMemory, InitDevice
  <2>4. smpFifo' \in 0..FifoSize
    BY <1>4 DEF SmpTypeOK, ResetMemory, InitDevice
  <2> QED BY <1>4, <2>1, <2>2, <2>3, <2>4 DEF SmpTypeOK, ResetMemory, InitDevice
<1>5. ASSUME NEW p \in SmpProcs, StartPoll(p)
      PROVE  SmpTypeOK'
  <2>1. CASE SmpAgain(p, "opening")
    BY <1>5, <2>1 DEF SmpTypeOK, StartPoll, SmpAgain
  <2>2. CASE SmpGoto(p, "opening", "pulse")
    BY <1>5, <2>2, PollsMove DEF SmpTypeOK, StartPoll
  <2> QED BY <1>5, <2>1, <2>2 DEF StartPoll
<1>6. ASSUME NEW p \in SmpProcs, StopLoop(p)
      PROVE  SmpTypeOK'
  <2>1. CASE SmpGoto(p, "stopping", "idle") /\ UNCHANGED smpGate
    BY <1>6, <2>1, PollsMove DEF SmpTypeOK, StopLoop
  <2>2. CASE StopCommand /\ UNCHANGED <<smpPc, smpPolls>>
    BY <1>6, <2>2 DEF SmpTypeOK, StopLoop, StopCommand
  <2> QED BY <1>6, <2>1, <2>2 DEF StopLoop
<1>7. ASSUME NEW p \in SmpProcs, ReadAi(p)
      PROVE  SmpTypeOK'
  <2>1. PICK want \in 1..CountSpan : smpWant' = [smpWant EXCEPT ![p] = want]
    BY <1>7 DEF ReadAi
  <2> QED BY <1>7, <2>1, PollsMove DEF SmpTypeOK, ReadAi
<1>8. ASSUME NEW p \in SmpProcs, ReadPoll(p)
      PROVE  SmpTypeOK'
  <2>1. CASE SmpAgain(p, "poll") /\ UNCHANGED smpTorn
    BY <1>8, <2>1 DEF SmpTypeOK, ReadPoll, SmpAgain
  <2>2. CASE SmpGoto(p, "poll", "take") /\ smpTorn' = [smpTorn EXCEPT ![p] = FALSE]
    BY <1>8, <2>2, PollsMove DEF SmpTypeOK, ReadPoll
  <2> QED BY <1>8, <2>1, <2>2 DEF ReadPoll
<1>9. ASSUME NEW p \in SmpProcs, ReadTimeout(p)
      PROVE  SmpTypeOK'
  BY <1>9, PollsMove, TearType DEF SmpTypeOK, ReadTimeout
<1>10. ASSUME NEW p \in SmpProcs, ReadTake(p)
      PROVE  SmpTypeOK'
  <2> DEFINE cnt == (smpCnt[p] + 1) % CountSpan
  <2>1. cnt \in 0..CountSpan - 1
    BY DEF SmpTypeOK
  <2>2. smpFifo' \in 0..FifoSize
    BY <1>10 DEF ReadTake, SmpTypeOK
  <2>3. /\ smpPc' \in [SmpProcs -> {"idle", "opening", "pulse", "stopping", "poll",
                             "take", "calibrate", "init"}]
        /\ smpPolls' \in [SmpProcs -> 0..PollLimit + 1]
    BY <1>10, PollsMove DEF ReadTake
  <2>4. /\ smpCnt' = [smpCnt EXCEPT ![p] = cnt] \/ smpCnt' = [smpCnt EXCEPT ![p] = 0]
        /\ smpWant' = smpWant \/ smpWant' = [smpWant EXCEPT ![p] = 0]
    BY <1>10 DEF ReadTake, ReadEnds
  <2>5. smpCnt' \in [SmpProcs -> 0..CountSpan - 1] /\ smpWant' \in [SmpProcs -> 0..CountSpan]
    BY <2>1, <2>4 DEF SmpTypeOK
  <2> QED BY <1>10, <2>2, <2>3, <2>5, TearType DEF SmpTypeOK, ReadTake
<1> QED BY <1>1, <1>2, <1>3, <1>4, <1>5, <1>6, <1>7, <1>8, <1>9, <1>10 DEF SmpNext

LEMMA SmpTypeInit ==
  ASSUME SmpInit
  PROVE  SmpTypeOK
<1>1. smpFifo \in 0..FifoSize /\ smpFlags \subseteq {"overflow", "clock"}
  BY SmpAssumption DEF SmpInit
<1>2. smpPolls \in [SmpProcs -> 0..PollLimit + 1]
  BY SmpAssumption DEF SmpInit
<1>3. smpWant \in [SmpProcs -> 0..CountSpan] /\ smpCnt \in [SmpProcs -> 0..CountSpan - 1]
  BY SmpAssumption DEF SmpInit
<1> QED BY <1>1, <1>2, <1>3 DEF SmpInit, SmpTypeOK

\* The sampling keeps its types: no poll runs past its limit, and a read never counts more
\* values than its counter holds (cpsaio.c:2520, 2526), for any processes, any size of the
\* FIFO and any limit.
THEOREM SamplingTyped == SmpSpec => []SmpTypeOK
<1>1. SmpInit => SmpTypeOK
  BY SmpTypeInit
<1>2. SmpTypeOK /\ [SmpNext]_smpVars => SmpTypeOK'
  BY SmpTypeStep
<1> QED BY <1>1, <1>2, PTL DEF SmpSpec

-----------------------------------------------------------------------------
(***************************************************************************)
(* The two loops of AioSampling, the safety half of LoopsEnd.  While a     *)
(* read of less than 65536 bytes goes on it has a number of steps left,    *)
(* and while cpsaio_get_status stops the device nobody sets it going       *)
(* again.                                                                  *)
(***************************************************************************)

Reading(p) == smpPc[p] \in {"poll", "take"} /\ smpWant[p] < CountSpan

\* A read that is not over wants another value.
ReadIsShort == \A p \in SmpProcs : Reading(p) => smpCnt[p] < smpWant[p]

\* The steps of one value: its polls, the one that gives up, and its take.
ValueSteps == PollLimit + 3
\* The steps to the take of the value that the read waits for, at most.
ThisValue(p) == IF smpPc[p] = "poll" THEN PollLimit + 3 - smpPolls[p] ELSE 1
\* The steps that the read has left, at most.
ReadLeft(p) ==
  IF Reading(p) THEN (smpWant[p] - smpCnt[p] - 1) * ValueSteps + ThisValue(p) ELSE 0

\* Every step of a reader brings it nearer to its end, and no other step changes
\* where it is.
ReadAdvances ==
  \A p \in SmpProcs : Reading(p) =>
    /\ ReadPoll(p) \/ ReadTimeout(p) \/ ReadTake(p) => ReadLeft(p)' < ReadLeft(p)
    /\ ~(ReadPoll(p) \/ ReadTimeout(p) \/ ReadTake(p)) => ReadLeft(p)' = ReadLeft(p)

\* What the device still has to do until it is stopped.
GateLeft ==
  CASE smpGate = "opening" -> 4 [] smpGate = "armed" -> 3 [] smpGate = "running" -> 2
    [] smpGate = "stopping" -> 1 [] smpGate = "closed" -> 0

\* In the stop loop the device only comes nearer to its stop, and nobody else runs; a round
\* of the loop gives the command, or ends it.
StopAdvances ==
  \A p \in SmpProcs : smpPc[p] = "stopping" =>
    /\ GateLeft' <= GateLeft
    /\ \A q \in SmpProcs \ {p} : smpPc'[q] = smpPc[q]
    /\ StopLoop(p) => GateLeft' <= 1 /\ (smpPc'[p] = "stopping" => GateLeft' = 1)
    /\ smpPc'[p] # "stopping" => GateLeft = 0

SmpStep(p) ==
  \/ StartAi(p) \/ StartTimeout(p) \/ StartPoll(p) \/ StartPulse(p)
  \/ StopAi(p) \/ InStatus(p) \/ StopLoop(p)
  \/ ResetStatus(p) \/ ResetMemory(p) \/ InitDevice(p) \/ InitFlags(p)
  \/ SetCalibration(p) \/ CalibrationPoll(p)
  \/ ReadAi(p) \/ ReadPoll(p) \/ ReadTimeout(p) \/ ReadTake(p) \/ WriteAo(p)

ReadStep(p) == ReadPoll(p) \/ ReadTimeout(p) \/ ReadTake(p)

SmpStays(p) ==
  smpPc'[p] = smpPc[p] /\ smpPolls'[p] = smpPolls[p] /\ smpWant'[p] = smpWant[p] /\ smpCnt'[p] = smpCnt[p]

\* A step of one process leaves the others where they are.
LEMMA SmpOthersStay ==
  ASSUME SmpTypeOK, NEW q \in SmpProcs, SmpStep(q), NEW p \in SmpProcs \ {q}
  PROVE  SmpStays(p)
<1> USE DEF SmpTypeOK, SmpStays, SmpGoto, SmpAgain, smpReader
<1>1. CASE StartAi(q) \/ StartTimeout(q) \/ StartPoll(q) \/ StartPulse(q)
  BY <1>1 DEF StartAi, StartTimeout, StartPoll, StartPulse
<1>2. CASE StopAi(q) \/ InStatus(q) \/ StopLoop(q) \/ ResetStatus(q) \/ InitFlags(q)
  BY <1>2 DEF StopAi, InStatus, StopLoop, ResetStatus, InitFlags
<1>3. CASE ResetMemory(q) \/ InitDevice(q) \/ SetCalibration(q) \/ CalibrationPoll(q) \/ WriteAo(q)
  BY <1>3 DEF ResetMemory, InitDevice, SetCalibration, CalibrationPoll, WriteAo
<1>4. CASE ReadAi(q) \/ ReadPoll(q) \/ ReadTimeout(q)
  BY <1>4 DEF ReadAi, ReadPoll, ReadTimeout
<1>5. CASE ReadTake(q)
  <2>1. (smpCnt' = [smpCnt EXCEPT ![q] = (smpCnt[q] + 1) % CountSpan] /\ smpWant' = smpWant)
        \/ ReadEnds(q)
    BY <1>5 DEF ReadTake
  <2>2. smpCnt'[p] = smpCnt[p] /\ smpWant'[p] = smpWant[p]
    BY <2>1 DEF ReadEnds
  <2> QED BY <1>5, <2>2 DEF ReadTake
<1> QED BY <1>1, <1>2, <1>3, <1>4, <1>5 DEF SmpStep

\* The steps of the device leave every process where it is.
LEMMA SmpDeviceStays ==
  ASSUME GateOpens \/ Sample \/ GateCloses \/ Calibrated \/ UNCHANGED smpVars, NEW p \in SmpProcs
  PROVE  SmpStays(p)
BY DEF GateOpens, Sample, GateCloses, Calibrated, SmpStays, smpReader, smpVars

LEMMA SmpSteps ==
  ASSUME [SmpNext]_smpVars
  PROVE  \/ GateOpens \/ Sample \/ GateCloses \/ Calibrated \/ UNCHANGED smpVars
         \/ \E q \in SmpProcs : SmpStep(q)
BY DEF SmpNext, SmpStep

\* A process in a read takes the steps of the read only.
LEMMA ReaderSteps ==
  ASSUME NEW p \in SmpProcs, SmpStep(p), smpPc[p] \in {"poll", "take"}
  PROVE  ReadStep(p)
BY DEF SmpStep, ReadStep, SmpGoto, SmpAgain, StartAi, StartTimeout, StartPoll, StartPulse, StopAi,
       InStatus, StopLoop, ResetStatus, ResetMemory, InitDevice, InitFlags, SetCalibration,
       CalibrationPoll, ReadAi, WriteAo

\* Whoever is not in a read reads nothing, or begins to.
LEMMA ReaderBegins ==
  ASSUME SmpTypeOK, NEW p \in SmpProcs, SmpStep(p), ~ReadStep(p)
  PROVE  smpPc'[p] \notin {"poll", "take"} \/ (smpWant'[p] > 0 /\ smpCnt'[p] = 0)
<1> USE DEF SmpTypeOK, SmpGoto, SmpAgain
<1>1. CASE ReadAi(p)
  BY <1>1, SmpAssumption DEF ReadAi
<1>2. CASE ~ReadAi(p)
  BY <1>2 DEF SmpStep, ReadStep, StartAi, StartTimeout, StartPoll, StartPulse, StopAi,
       InStatus, StopLoop, ResetStatus, ResetMemory, InitDevice, InitFlags, SetCalibration,
       CalibrationPoll, WriteAo
<1> QED BY <1>1, <1>2

\* A take that does not end the read counts one value more, without a wrap.
LEMMA TakeCounts ==
  ASSUME SmpTypeOK, NEW p \in SmpProcs, ReadTake(p), Reading(p), smpCnt[p] < smpWant[p]
  PROVE  \/ smpPc'[p] = "idle"
         \/ /\ smpPc'[p] = "poll" /\ smpPolls'[p] = 0 /\ smpWant'[p] = smpWant[p]
            /\ smpCnt'[p] = smpCnt[p] + 1 /\ smpCnt[p] + 1 < smpWant[p]
<1> DEFINE cnt == (smpCnt[p] + 1) % CountSpan
<1>1. smpWant[p] \in Nat /\ smpCnt[p] \in Nat /\ smpWant[p] < CountSpan /\ CountSpan \in Nat
  BY SmpAssumption DEF SmpTypeOK, Reading
<1>2. cnt = smpCnt[p] + 1
  BY <1>1
<1> HIDE DEF cnt
<1>3. \/ cnt < smpWant[p] /\ SmpGoto(p, "take", "poll") /\ smpCnt' = [smpCnt EXCEPT ![p] = cnt] /\ smpWant' = smpWant
      \/ SmpGoto(p, "take", "idle")
  BY DEF ReadTake, cnt
<1> QED BY <1>2, <1>3 DEF SmpGoto, SmpTypeOK

LEMMA ReadShortStep ==
  ASSUME SmpTypeOK, ReadIsShort, [SmpNext]_smpVars
  PROVE  ReadIsShort'
<1> SUFFICES ASSUME NEW p \in SmpProcs, Reading(p)'
             PROVE  smpCnt'[p] < smpWant'[p]
  BY DEF ReadIsShort
<1>1. CASE SmpStays(p)
  BY <1>1 DEF SmpStays, Reading, ReadIsShort
<1>2. CASE SmpStep(p) /\ ~ReadStep(p)
  BY <1>2, ReaderBegins DEF Reading
<1>3. CASE ReadPoll(p)
  BY <1>3 DEF ReadPoll, SmpGoto, SmpAgain, Reading, ReadIsShort, SmpTypeOK
<1>4. CASE ReadTimeout(p)
  BY <1>4 DEF ReadTimeout, SmpGoto, Reading, SmpTypeOK
<1>5. CASE ReadTake(p)
  <2>1. smpPc[p] = "take"
    BY <1>5 DEF ReadTake, SmpGoto
  <2>2. CASE smpWant[p] < CountSpan
    <3>1. Reading(p)
      BY <2>1, <2>2 DEF Reading
    <3>2. smpCnt[p] < smpWant[p]
      BY <3>1 DEF ReadIsShort
    <3> QED BY <3>1, <3>2, <1>5, TakeCounts DEF Reading
  <2>3. CASE smpWant[p] >= CountSpan
    <3>1. smpWant' = smpWant \/ smpPc'[p] = "idle"
      BY <1>5 DEF ReadTake, SmpGoto, SmpTypeOK
    <3> QED BY <2>3, <3>1, SmpAssumption DEF Reading, SmpTypeOK
  <2>4. smpWant[p] \in Nat /\ CountSpan \in Nat
    BY SmpAssumption DEF SmpTypeOK
  <2> QED BY <2>2, <2>3, <2>4
<1>6. SmpStays(p) \/ SmpStep(p)
  BY SmpSteps, SmpDeviceStays, SmpOthersStay
<1> QED BY <1>1, <1>2, <1>3, <1>4, <1>5, <1>6 DEF ReadStep

\* Multiplication by one less.
LEMMA OneValueLess ==
  ASSUME NEW n \in Nat, NEW s \in Nat
  PROVE  (n + 1) * s = n * s + s
OBVIOUS

LEMMA ReaderAdvances ==
  ASSUME SmpTypeOK, ReadIsShort, NEW p \in SmpProcs, Reading(p), ReadStep(p)
  PROVE  ReadLeft(p)' < ReadLeft(p)
<1> DEFINE more == smpWant[p] - smpCnt[p] - 1
<1>1. /\ smpWant[p] \in Nat /\ smpCnt[p] \in Nat /\ smpPolls[p] \in Nat /\ smpCnt[p] < smpWant[p]
      /\ PollLimit \in Nat /\ ValueSteps \in Nat /\ ValueSteps = PollLimit + 3
      /\ smpPolls[p] <= PollLimit + 1
  BY SmpAssumption DEF SmpTypeOK, ReadIsShort, ValueSteps
<1>2. more \in Nat
  BY <1>1
<1>3. ReadLeft(p) = more * ValueSteps + ThisValue(p)
  BY DEF ReadLeft
<1> HIDE DEF more
<1>4. more * ValueSteps \in Nat
  BY <1>1, <1>2
<1>5. ThisValue(p) \in Nat /\ ThisValue(p) > 0
  BY <1>1 DEF ThisValue
<1>6. CASE ~Reading(p)'
  <2>1. ReadLeft(p)' = 0
    BY <1>6 DEF ReadLeft
  <2> QED BY <1>3, <1>4, <1>5, <2>1
<1>7. CASE Reading(p)' /\ ReadPoll(p)
  <2>1. /\ smpPolls[p] <= PollLimit /\ smpWant'[p] = smpWant[p] /\ smpCnt'[p] = smpCnt[p] /\ smpPc[p] = "poll"
        /\ \/ smpPc'[p] = "poll" /\ smpPolls'[p] = smpPolls[p] + 1
           \/ smpPc'[p] = "take"
    BY <1>7 DEF ReadPoll, SmpGoto, SmpAgain, SmpTypeOK
  <2>2. ReadLeft(p)' = more * ValueSteps + ThisValue(p)'
    BY <1>7, <2>1 DEF ReadLeft, more, ValueSteps
  <2>3. ThisValue(p)' \in Nat /\ ThisValue(p)' < ThisValue(p)
    BY <1>1, <2>1 DEF ThisValue
  <2> QED BY <1>3, <1>4, <1>5, <2>2, <2>3
<1>8. CASE Reading(p)' /\ ReadTake(p)
  <2>1. /\ smpPc'[p] = "poll" /\ smpPolls'[p] = 0 /\ smpWant'[p] = smpWant[p]
        /\ smpCnt'[p] = smpCnt[p] + 1 /\ smpCnt[p] + 1 < smpWant[p]
    BY <1>1, <1>8, TakeCounts DEF Reading
  <2>2. smpPc[p] = "take"
    BY <1>8 DEF ReadTake, SmpGoto
  <2> DEFINE less == smpWant[p] - (smpCnt[p] + 1) - 1
  <2>3. less \in Nat /\ more = less + 1
    BY <1>1, <2>1 DEF more
  <2>4. ReadLeft(p)' = less * ValueSteps + ThisValue(p)'
    BY <1>8, <2>1 DEF ReadLeft, ValueSteps
  <2> HIDE DEF less
  <2>5. more * ValueSteps = less * ValueSteps + ValueSteps
    BY <2>3, <1>1, OneValueLess
  <2>6. ThisValue(p)' = ValueSteps /\ ThisValue(p) = 1
    BY <2>1, <2>2, <1>1 DEF ThisValue
  <2>7. less * ValueSteps \in Nat
    BY <2>3, <1>1
  <2> QED BY <1>1, <1>3, <2>4, <2>5, <2>6, <2>7
<1>9. CASE ReadTimeout(p)
  <2>1. ~Reading(p)'
    BY <1>9 DEF ReadTimeout, SmpGoto, Reading, SmpTypeOK
  <2> QED BY <1>6, <2>1
<1> QED BY <1>6, <1>7, <1>8, <1>9 DEF ReadStep

LEMMA ReadsAdvance ==
  ASSUME SmpTypeOK, ReadIsShort, [SmpNext]_smpVars
  PROVE  ReadAdvances
<1> SUFFICES ASSUME NEW p \in SmpProcs, Reading(p)
             PROVE  /\ ReadStep(p) => ReadLeft(p)' < ReadLeft(p)
                    /\ ~ReadStep(p) => ReadLeft(p)' = ReadLeft(p)
  BY Zenon DEF ReadAdvances, ReadStep
<1>1. ReadStep(p) => ReadLeft(p)' < ReadLeft(p)
  BY ReaderAdvances
<1>2. ASSUME ~ReadStep(p) PROVE ReadLeft(p)' = ReadLeft(p)
  <2>1. smpPc[p] \in {"poll", "take"}
    BY DEF Reading
  <2>2. SmpStays(p)
    BY <1>2, <2>1, SmpSteps, SmpDeviceStays, SmpOthersStay, ReaderSteps
  <2> QED BY <2>2 DEF SmpStays, ReadLeft, Reading, ThisValue, ValueSteps
<1> QED BY <1>1, <1>2

\* While a process is in the stop loop nobody else has a step.
LEMMA StopAlone ==
  ASSUME NEW p \in SmpProcs, smpPc[p] = "stopping", NEW q \in SmpProcs, SmpStep(q), q # p
  PROVE  StopLoop(q) /\ UNCHANGED smpPc /\ smpGate # "closed"
<1>1. ~SmpRuns(q)
  BY DEF SmpRuns
<1>2. StopLoop(q)
  BY <1>1 DEF SmpStep, SmpGoto, SmpAgain, StartAi, StartTimeout, StartPoll, StartPulse, StopAi,
       InStatus, ResetStatus, ResetMemory, InitDevice, InitFlags, SetCalibration,
       CalibrationPoll, ReadAi, ReadPoll, ReadTimeout, ReadTake, WriteAo
<1> QED BY <1>1, <1>2 DEF StopLoop, SmpGoto

LEMMA StopsAdvance ==
  ASSUME SmpTypeOK, [SmpNext]_smpVars
  PROVE  StopAdvances
<1> SUFFICES ASSUME NEW p \in SmpProcs, smpPc[p] = "stopping"
             PROVE  /\ GateLeft' <= GateLeft
                    /\ \A q \in SmpProcs \ {p} : smpPc'[q] = smpPc[q]
                    /\ StopLoop(p) => GateLeft' <= 1 /\ (smpPc'[p] = "stopping" => GateLeft' = 1)
                    /\ smpPc'[p] # "stopping" => GateLeft = 0
  BY Zenon DEF StopAdvances
<1>1. smpGate \in {"closed", "opening", "armed", "running", "stopping"}
  BY DEF SmpTypeOK
<1>2. CASE GateOpens \/ Sample \/ GateCloses \/ Calibrated \/ UNCHANGED smpVars
  <2>1. smpPc' = smpPc
    BY <1>2 DEF GateOpens, Sample, GateCloses, Calibrated, smpReader, smpVars
  <2>2. smpGate' = smpGate \/ (smpGate = "opening" /\ smpGate' = "armed")
        \/ (smpGate \in {"running", "stopping"} /\ smpGate' = "closed")
    BY <1>2 DEF GateOpens, Sample, GateCloses, Calibrated, smpDevice, smpVars
  <2>3. GateLeft' <= GateLeft
    BY <1>1, <2>2 DEF GateLeft
  <2>4. StopLoop(p) => (smpGate = "closed" /\ smpPc'[p] = "idle") \/ smpGate' = "stopping"
    BY DEF StopLoop, StopCommand, SmpGoto, SmpTypeOK
  <2>5. smpPc'[p] = "stopping" /\ \A q \in SmpProcs \ {p} : smpPc'[q] = smpPc[q]
    BY <2>1
  <2>6. StopLoop(p) => GateLeft' = 1
    <3>1. StopLoop(p) => smpGate' = "stopping"
      BY <2>4, <2>5
    <3> QED BY <3>1 DEF GateLeft
  <2> QED BY <2>3, <2>5, <2>6
<1>3. ASSUME NEW q \in SmpProcs, SmpStep(q), q # p
      PROVE  /\ GateLeft' <= GateLeft /\ smpPc' = smpPc /\ smpGate' = "stopping"
  <2>1. StopLoop(q) /\ UNCHANGED smpPc /\ smpGate # "closed"
    BY <1>3, StopAlone
  <2>2. smpGate' = "stopping"
    BY <2>1 DEF StopLoop, StopCommand
  <2> QED BY <1>1, <2>1, <2>2 DEF GateLeft
<1>4. ASSUME SmpStep(p)
      PROVE  /\ GateLeft' <= GateLeft
             /\ \A q \in SmpProcs \ {p} : smpPc'[q] = smpPc[q]
             /\ GateLeft' <= 1 /\ (smpPc'[p] = "stopping" => GateLeft' = 1)
             /\ smpPc'[p] # "stopping" => GateLeft = 0
  <2>1. StopLoop(p)
    BY <1>4 DEF SmpStep, SmpGoto, SmpAgain, StartAi, StartTimeout, StartPoll, StartPulse, StopAi,
       InStatus, ResetStatus, ResetMemory, InitDevice, InitFlags, SetCalibration,
       CalibrationPoll, ReadAi, ReadPoll, ReadTimeout, ReadTake, WriteAo
  <2>2. \A q \in SmpProcs \ {p} : smpPc'[q] = smpPc[q]
    BY <1>4, SmpOthersStay DEF SmpStays
  <2>3. \/ smpGate = "closed" /\ smpGate' = "closed" /\ smpPc'[p] = "idle"
        \/ smpGate # "closed" /\ smpGate' = "stopping" /\ smpPc' = smpPc
    BY <2>1 DEF StopLoop, StopCommand, SmpGoto, SmpTypeOK
  <2> QED BY <1>1, <2>2, <2>3 DEF GateLeft
<1>5. CASE \E q \in SmpProcs : SmpStep(q) /\ q # p
  <2>1. /\ GateLeft' <= GateLeft /\ smpPc' = smpPc /\ smpGate' = "stopping"
    BY <1>3, <1>5
  <2>2. GateLeft' = 1
    BY <2>1 DEF GateLeft
  <2> QED BY <2>1, <2>2
<1> QED BY <1>2, <1>4, <1>5, SmpSteps

\* A read of less than 65536 bytes takes a bounded number of steps of its own, whatever the
\* device and the others do, a value at a time up to its last poll; and in the loop in which
\* cpsaio_get_status stops the device with the interrupts off the device only comes nearer to
\* its stop (cpsaio.c:809, 2519).
THEOREM LoopsBounded == SmpSpec => []ReadIsShort /\ [][ReadAdvances /\ StopAdvances]_smpVars
<1>1. SmpInit => SmpTypeOK /\ ReadIsShort
  BY SmpTypeInit DEF SmpInit, ReadIsShort, Reading
<1>2. SmpTypeOK /\ ReadIsShort /\ [SmpNext]_smpVars => (SmpTypeOK /\ ReadIsShort)'
  BY SmpTypeStep, ReadShortStep
<1>3. SmpTypeOK /\ ReadIsShort /\ [SmpNext]_smpVars => [ReadAdvances /\ StopAdvances]_smpVars
  BY ReadsAdvance, StopsAdvance
<1> QED BY <1>1, <1>2, <1>3, PTL DEF SmpSpec

-----------------------------------------------------------------------------
(***************************************************************************)
(* SensorInput.  ReadCorrected looks at the reads there were; the next one *)
(* is right because a known channel has in the device the wiring that the  *)
(* list has (WireInv), whoever opens and closes in between.                *)
(***************************************************************************)

Bytes == 0..255
Values == {n \in Nat : n < 16777216}

SsiShape ==
  /\ ssiWire \in [SsiChannels -> Wires] /\ ssiDevWire \in [SsiChannels -> Wires]
  /\ ssiOffset \in [SsiChannels -> [{"w3", "w4"} -> Bytes]]

\* A channel that was set has the wiring that the driver thinks it has.
WireInv ==
  \A c \in SsiChannels \cap ssiKnown : ssiWire[c] = ssiDevWire[c] /\ ssiWire[c] \in {"w3", "w4"}

SsiInv == SsiShape /\ WireInv /\ ReadCorrected

\* The code's two branches are one addition of a byte with a sign.
LEMMA AddSubIsSigned ==
  ASSUME NEW raw \in Values, NEW b \in Bytes
  PROVE  AddSub(raw, b) = (raw + 32 * Signed(b)) % 16777216
<1>1. CASE b >= 128
  <2>1. b % 128 = b - 128
    BY SMT, <1>1 DEF Bytes
  <2>2. raw - 32 * (128 - (b % 128)) = raw + 32 * (b - 256)
    BY SMT, <2>1 DEF Bytes, Values
  <2> QED BY SMT, <1>1, <2>2 DEF AddSub, Signed, Bytes
<1>2. CASE b < 128
  <2>1. b % 128 = b
    BY SMT, <1>2 DEF Bytes
  <2> QED BY SMT, <1>2, <2>1 DEF AddSub, Signed, Bytes
<1> QED BY <1>1, <1>2 DEF Bytes

\* At the start no channel is known and nothing is corrected.
LEMMA SensorInit == SsiInit => SsiInv
BY SMT DEF SsiInit, SsiInv, SsiShape, WireInv, ReadCorrected, NoOffsets, Wires, Bytes

\* Nothing is read, and nothing of the wiring and the corrections changes.
LEMMA SensorKept ==
  ASSUME SsiInv, UNCHANGED <<ssiWire, ssiDevWire, ssiOffset, ssiKnown>>, ssiRead' = {}
  PROVE  SsiInv'
BY SMT DEF SsiInv, SsiShape, WireInv, ReadCorrected

\* A channel that becomes known, or is set, gets the wiring that the driver keeps.
LEMMA SensorStep == SsiInv /\ [SsiNext]_ssiVars => SsiInv'
<1> SUFFICES ASSUME SsiInv, [SsiNext]_ssiVars PROVE SsiInv'
  OBVIOUS
<1> USE DEF ssiOpen, ssiData
<1>1. CASE \/ SsiLoad \/ SsiInStatus \/ StartChannel \/ StartBusy \/ SenseResistance
           \/ GetChannel \/ GetOffset \/ SsiEeprom \/ DirectInput \/ Names \/ SsiInterrupt
           \/ \E p \in SsiProcs : SsiClose(p)
  <2>1. UNCHANGED <<ssiWire, ssiDevWire, ssiOffset, ssiKnown>> /\ ssiRead' = {}
    BY <1>1 DEF SsiLoad, SsiInStatus, StartChannel, StartBusy, SenseResistance,
           GetChannel, GetOffset, SsiEeprom, DirectInput, Names, SsiInterrupt, SsiClose, Unchanged
  <2> QED BY <2>1, SensorKept
<1>2. CASE UNCHANGED ssiVars
  BY SMT, <1>2 DEF ssiVars, SsiInv, SsiShape, WireInv, ReadCorrected
<1>3. CASE SsiUnload
  BY SMT, <1>3 DEF SsiUnload, SsiInv, SsiShape, WireInv, ReadCorrected, NoOffsets, Bytes
<1>4. CASE SsiReset
  BY SMT, <1>4 DEF SsiReset, SsiInv, SsiShape, WireInv, ReadCorrected, Wires
<1>5. ASSUME NEW p \in SsiProcs, SsiOpen(p)
      PROVE  SsiInv'
  BY SMT, <1>5 DEF SsiOpen, SsiInv, SsiShape, WireInv, ReadCorrected, Wires
<1>6. ASSUME NEW c \in SsiChannels, SetChannel(c) \/ DirectOutput(c)
      PROVE  SsiInv'
  BY SMT, <1>6 DEF SetChannel, DirectOutput, SsiInv, SsiShape, WireInv, ReadCorrected, Wires
<1>7. ASSUME NEW c \in SsiChannels, SetOffset(c)
      PROVE  SsiInv'
  <2>1. PICK b \in SsiOffsets : ssiOffset' = [ssiOffset EXCEPT ![c][WireOf(c)] = b]
    BY <1>7 DEF SetOffset
  <2>2. b \in Bytes /\ WireOf(c) \in {"w3", "w4"}
    BY SMT, SsiAssumption DEF WireOf, Bytes
  <2>3. ssiOffset' \in [SsiChannels -> [{"w3", "w4"} -> Bytes]]
    BY <2>1, <2>2 DEF SsiInv, SsiShape
  <2> QED BY SMT, <1>7, <2>3 DEF SetOffset, SsiInv, SsiShape, WireInv, ReadCorrected
<1>8. ASSUME NEW c \in SsiChannels, InData(c)
      PROVE  SsiInv'
  <2>1. PICK raw \in SsiTemps :
          ssiRead' = {[ch |-> c, raw |-> raw, value |-> AddSub(raw, OffsetOf(c))]}
    BY <1>8 DEF InData
  <2>2. UNCHANGED <<ssiWire, ssiDevWire, ssiOffset, ssiKnown>>
    BY <1>8 DEF InData
  <2>3. raw \in Values /\ OffsetOf(c) \in Bytes
    BY SMT, SsiAssumption DEF Values, OffsetOf, WireOf, SsiInv, SsiShape
  <2>4. c \in ssiKnown => OffsetOf(c) = ssiOffset[c][ssiDevWire[c]]
    BY DEF OffsetOf, WireOf, SsiInv, WireInv
  <2>5. AddSub(raw, OffsetOf(c)) = (raw + 32 * Signed(OffsetOf(c))) % 16777216
    BY SMT, <2>3, AddSubIsSigned
  <2>6. ReadCorrected'
    BY SMT, <2>1, <2>2, <2>4, <2>5 DEF ReadCorrected
  <2> QED BY SMT, <2>2, <2>6 DEF SsiInv, SsiShape, WireInv
<1> QED BY <1>1, <1>2, <1>3, <1>4, <1>5, <1>6, <1>7, <1>8 DEF SsiNext

\* A read of a channel that was set since the first open is corrected for the wiring
\* of the device, in 24 bits (cpsssi.c:845, 1414), for every set of channels, of
\* temperatures and of callers.
THEOREM ReadCorrectedAlways == SsiSpec => []ReadCorrected
<1>1. SsiInv => ReadCorrected
  BY DEF SsiInv
<1> QED BY SensorInit, SensorStep, <1>1, PTL DEF SsiSpec

\* A corrected value has 24 bits again.
LEMMA AddSubIsValue ==
  ASSUME NEW raw \in Values, NEW b \in Bytes
  PROVE  AddSub(raw, b) \in Nat /\ AddSub(raw, b) < 16777216
<1>1. \A n \in Int : n % 16777216 \in Nat /\ n % 16777216 < 16777216
  BY SMT
<1>2. raw - 32 * (128 - (b % 128)) \in Int /\ raw + 32 * (b % 128) \in Int
  BY SMT DEF Values, Bytes
<1> QED BY SMT, <1>1, <1>2 DEF AddSub

\* Every step keeps the types.
LEMMA SensorTypeStep ==
  ASSUME SsiTypeOK, [SsiNext]_ssiVars
  PROVE  SsiTypeOK'
<1> USE DEF ssiOpen, ssiData
<1>0. /\ ssiLoaded \in BOOLEAN /\ ssiFiles \subseteq SsiProcs
      /\ ssiWire \in [SsiChannels -> Wires] /\ ssiDevWire \in [SsiChannels -> Wires]
      /\ ssiStatus \subseteq SsiChannels
      /\ ssiOffset \in [SsiChannels -> [{"w3", "w4"} -> SsiOffsets \cup {0}]]
      /\ ssiKnown \subseteq SsiChannels
  BY SMT DEF SsiTypeOK
<1>1. CASE \/ SsiLoad \/ SsiInStatus \/ StartChannel \/ StartBusy \/ SenseResistance
           \/ GetChannel \/ GetOffset \/ SsiEeprom \/ DirectInput \/ Names \/ SsiInterrupt
  <2>1. /\ UNCHANGED <<ssiFiles, ssiWire, ssiDevWire, ssiOffset, ssiKnown>> /\ ssiRead' = {}
        /\ ssiStatus' = ssiStatus \/ ssiStatus' = {}
        /\ ssiLoaded' = ssiLoaded \/ ssiLoaded' = TRUE
    BY <1>1 DEF SsiLoad, SsiInStatus, StartChannel, StartBusy, SenseResistance,
         GetChannel, GetOffset, SsiEeprom, DirectInput, Names, SsiInterrupt, Unchanged
  <2>2. ssiLoaded' \in BOOLEAN /\ ssiStatus' \subseteq SsiChannels
    BY <1>0, <2>1
  <2> QED BY SMT, <1>0, <2>1, <2>2 DEF SsiTypeOK
<1>2. CASE UNCHANGED ssiVars
  BY SMT, <1>2 DEF ssiVars, SsiTypeOK
<1>3. CASE SsiUnload \/ SsiReset
  <2>1. /\ ssiOffset' \in {ssiOffset, NoOffsets}
        /\ ssiDevWire' \in {ssiDevWire, [c \in SsiChannels |-> "none"]}
        /\ ssiKnown' \in {ssiKnown, {}} /\ UNCHANGED <<ssiFiles, ssiData>> /\ ssiRead' = {}
        /\ ssiLoaded' = ssiLoaded \/ ssiLoaded' = FALSE
    BY <1>3 DEF SsiUnload, SsiReset
  <2>2. NoOffsets \in [SsiChannels -> [{"w3", "w4"} -> SsiOffsets \cup {0}]]
    BY DEF NoOffsets
  <2>3. ssiLoaded' \in BOOLEAN /\ ssiKnown' \subseteq SsiChannels
    BY <1>0, <2>1
  <2>4. ssiDevWire' \in [SsiChannels -> Wires]
    BY <1>0, <2>1 DEF Wires
  <2>5. ssiOffset' \in [SsiChannels -> [{"w3", "w4"} -> SsiOffsets \cup {0}]]
    BY <1>0, <2>1, <2>2
  <2> QED BY SMT, <1>0, <2>1, <2>3, <2>4, <2>5 DEF SsiTypeOK
<1>4. ASSUME NEW p \in SsiProcs, SsiOpen(p) \/ SsiClose(p)
      PROVE  SsiTypeOK'
  <2>1. ssiFiles' \subseteq SsiProcs /\ ssiStatus' \subseteq SsiChannels /\ ssiKnown' \subseteq SsiChannels
    <3>1. ssiFiles \subseteq SsiProcs /\ ssiStatus \subseteq SsiChannels /\ ssiKnown \subseteq SsiChannels
      BY SMT DEF SsiTypeOK
    <3> QED BY Zenon, <1>4, <3>1 DEF SsiOpen, SsiClose
  <2> QED BY SMT, <1>4, <2>1 DEF SsiOpen, SsiClose, SsiTypeOK, Wires
<1>5. ASSUME NEW c \in SsiChannels, SetChannel(c) \/ DirectOutput(c)
      PROVE  SsiTypeOK'
  <2>1. ssiKnown' \subseteq SsiChannels
    BY SMT, <1>5 DEF SetChannel, DirectOutput, SsiTypeOK
  <2>2. PICK w \in Wires : ssiDevWire' = [ssiDevWire EXCEPT ![c] = w]
                           /\ ssiWire' \in {ssiWire, [ssiWire EXCEPT ![c] = w]}
    BY <1>5 DEF SetChannel, DirectOutput, Wires
  <2> QED BY SMT, <1>5, <2>1, <2>2 DEF SetChannel, DirectOutput, SsiTypeOK
<1>6. ASSUME NEW c \in SsiChannels, SetOffset(c)
      PROVE  SsiTypeOK'
  <2>1. PICK b \in SsiOffsets : ssiOffset' = [ssiOffset EXCEPT ![c][WireOf(c)] = b]
    BY <1>6 DEF SetOffset
  <2>2. WireOf(c) \in {"w3", "w4"}
    BY DEF WireOf
  <2>3. ssiOffset' \in [SsiChannels -> [{"w3", "w4"} -> SsiOffsets \cup {0}]]
    BY SMT, <2>1, <2>2 DEF SsiTypeOK
  <2> QED BY SMT, <1>6, <2>3 DEF SetOffset, SsiTypeOK
<1>7. ASSUME NEW c \in SsiChannels, InData(c)
      PROVE  SsiTypeOK'
  <2>1. PICK raw \in SsiTemps :
          ssiRead' = {[ch |-> c, raw |-> raw, value |-> AddSub(raw, OffsetOf(c))]}
    BY <1>7 DEF InData
  <2>2. raw \in Values /\ OffsetOf(c) \in Bytes
    <3>1. raw \in Values
      BY SMT, SsiAssumption DEF Values
    <3>2. WireOf(c) \in {"w3", "w4"}
      BY DEF WireOf
    <3>3. OffsetOf(c) \in SsiOffsets \cup {0}
      BY SMT, <3>2 DEF OffsetOf, SsiTypeOK
    <3>4. SsiOffsets \cup {0} \subseteq Bytes
      BY SMT, SsiAssumption DEF Bytes
    <3> QED BY <3>1, <3>3, <3>4
  <2>3. \A r \in ssiRead' : r.ch \in SsiChannels /\ r.raw \in SsiTemps /\ r.value \in Nat /\ r.value < 16777216
    BY SMT, <2>1, <2>2, AddSubIsValue
  <2>4. ssiStatus' \subseteq SsiChannels
    BY SMT, <1>7 DEF InData, SsiTypeOK
  <2> QED BY SMT, <1>7, <2>3, <2>4 DEF InData, SsiTypeOK
<1> QED BY <1>1, <1>2, <1>3, <1>4, <1>5, <1>6, <1>7 DEF SsiNext

\* The sensor input keeps its types; what a read returns has 24 bits whatever the offset
\* and the measured value are (cpsssi.c:845), for every set of channels and of callers.
THEOREM SensorTyped == SsiSpec => []SsiTypeOK
<1>1. ASSUME SsiInit PROVE SsiTypeOK
  <2>1. ssiOffset \in [SsiChannels -> [{"w3", "w4"} -> SsiOffsets \cup {0}]]
    BY <1>1 DEF SsiInit, NoOffsets
  <2>2. ssiWire \in [SsiChannels -> Wires] /\ ssiDevWire \in [SsiChannels -> Wires]
    BY <1>1 DEF SsiInit, Wires
  <2>3. ssiLoaded \in BOOLEAN /\ ssiFiles \subseteq SsiProcs /\ ssiStatus \subseteq SsiChannels
        /\ ssiKnown \subseteq SsiChannels
    BY <1>1 DEF SsiInit
  <2>4. ssiRead = {}
    BY <1>1 DEF SsiInit
  <2> QED BY SMT, <2>1, <2>2, <2>3, <2>4 DEF SsiTypeOK
<1>2. SsiTypeOK /\ [SsiNext]_ssiVars => SsiTypeOK'
  BY SensorTypeStep
<1> QED BY <1>1, <1>2, PTL DEF SsiSpec
=============================================================================
