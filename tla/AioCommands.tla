---------------------------- MODULE AioCommands ----------------------------
(***************************************************************************)
(* The command channel of an analog device (cpsaio.c).  A command is       *)
(* selected first and its data is written next, between an unlock and a    *)
(* lock of the data registers; the EEPROM uses the same data lock.  Most   *)
(* ioctls do all of it with dev->lock held and interrupts off, which on    *)
(* one core is one step.  The start of sampling, INIT and the EEPROM       *)
(* ioctls hold no lock, and what is between their steps is modelled here.  *)
(***************************************************************************)
EXTENDS Naturals, FiniteSets

CONSTANTS
  AioProcs,    \* processes, each with one file of the node at most
  EepromTries  \* attempts of cpsaio_write_eeprom (6 in the code)

ASSUME CmdAssumption == EepromTries \in Nat \ {0}

VARIABLES
  cmdPc,       \* where each process is
  cmdSelected, \* command that the ECU command register names
  cmdUnlocked, \* the data registers take writes
  cmdTries,    \* failed attempts of each EEPROM write
  cmdLost,     \* history: since the first open, data went nowhere or to
               \* another command
  cmdAlone,    \* history: since the first open, one process and no interrupt
  aioClock,    \* the setting as dev->data.*.user has it
  aioDevClock, \* the setting of the device
  aioKnown,    \* history: set or initialised since the first open
  aioFlag      \* an interrupt flag of the device is set

cmdChannel == <<cmdSelected, cmdUnlocked>>
aioSetting == <<aioClock, aioDevClock, aioKnown>>
cmdHistory == <<cmdLost, cmdAlone>>
cmdVars == <<cmdPc, cmdChannel, cmdTries, cmdHistory, aioSetting, aioFlag>>

\* A setting: after the reset of the device, of INIT, of a process.
Clocks == {"reset", "init", "user"}
\* The steps of an unlocked write of one command's data.
Writing == {"unlock", "low", "high", "lock"}
\* The steps of an EEPROM ioctl.
Eeprom == {"e_unlock", "e_write", "e_clear", "e_read", "e_lock"}

CmdTypeOK ==
  /\ cmdPc \in [AioProcs -> {"closed", "open", "init"} \cup Writing \cup Eeprom]
  /\ cmdSelected \in {"none", "stop", "signal", "flag", "irqmask", "call"}
  /\ cmdUnlocked \in BOOLEAN
  /\ cmdTries \in [AioProcs -> 0..EepromTries]
  /\ cmdLost \in BOOLEAN /\ cmdAlone \in BOOLEAN
  /\ aioClock \in Clocks /\ aioDevClock \in Clocks
  /\ aioKnown \in BOOLEAN /\ aioFlag \in BOOLEAN

CmdInit ==
  /\ cmdPc = [p \in AioProcs |-> "closed"]
  /\ cmdSelected = "none" /\ cmdUnlocked = FALSE
  /\ cmdTries = [p \in AioProcs |-> 0] /\ cmdLost = FALSE /\ cmdAlone = TRUE
  /\ aioClock = "reset" /\ aioDevClock = "reset"
  /\ aioKnown = FALSE /\ aioFlag = FALSE

CmdGoto(p, from, to) == cmdPc[p] = from /\ cmdPc' = [cmdPc EXCEPT ![p] = to]
CmdOpen == \E p \in AioProcs : cmdPc[p] # "closed"

-----------------------------------------------------------------------------
\* The first open copies the defaults into dev->data; the device keeps what it
\* was set to.
AioOpen(p) ==
  /\ CmdGoto(p, "closed", "open")
  /\ IF CmdOpen THEN cmdAlone' = FALSE /\ UNCHANGED <<cmdLost, aioSetting>>
     ELSE /\ aioClock' = "reset" /\ aioKnown' = FALSE /\ UNCHANGED aioDevClock
          /\ cmdAlone' = TRUE /\ cmdLost' = FALSE
  /\ UNCHANGED <<cmdChannel, cmdTries, aioFlag>>

AioClose(p) ==
  /\ CmdGoto(p, "open", "closed")
  /\ UNCHANGED <<cmdChannel, cmdTries, cmdHistory, aioSetting, aioFlag>>

\* A command under dev->lock: a read or a call leaves the data lock alone.
LockedRead(p, command) ==
  /\ cmdPc[p] = "open" /\ cmdSelected' = command
  /\ UNCHANGED <<cmdPc, cmdUnlocked, cmdTries, cmdHistory, aioSetting, aioFlag>>

LockedWrite(p, command) ==
  /\ cmdPc[p] = "open" /\ cmdSelected' = command /\ cmdUnlocked' = FALSE

\* GET_INTERRUPT_FLAG_AI and _AO
GetFlag(p) == LockedRead(p, "flag")

\* SET_OUTPULSE0, and the calls of EXIT: one write, no data.
CallCommand(p) == LockedRead(p, "call")

\* SET_INTERRUPT_FLAG_AI, _AO, RESET_STATUS, RESET_MEMORY: the flags that are
\* written are cleared.
ClearFlag(p) ==
  /\ LockedWrite(p, "flag") /\ aioFlag' = FALSE
  /\ UNCHANGED <<cmdPc, cmdTries, cmdHistory, aioSetting>>

\* SETECU_SIGNAL, and DIRECT_COMMAND_OUTPUT to it
SetSignal(p) ==
  /\ LockedWrite(p, "signal")
  /\ UNCHANGED <<cmdPc, cmdTries, cmdHistory, aioSetting, aioFlag>>

\* Wrong: the copy that GET_CLOCK answers with is forgotten, as the channel
\* and the number of samples of the analog output are.
SetClockDeviceOnly(p) ==
  /\ cmdPc[p] = "open" /\ cmdUnlocked' = FALSE
  /\ aioDevClock' = "user" /\ aioKnown' = TRUE
  /\ UNCHANGED <<cmdPc, cmdSelected, cmdTries, cmdHistory, aioClock, aioFlag>>

\* SET_CLOCK_AI, SETCHANNEL_AI, SET_SAMPNUM_AI: the copy and the device, over
\* the other command channel.
SetClock(p) ==
  /\ cmdPc[p] = "open" /\ cmdUnlocked' = FALSE
  /\ aioClock' = "user" /\ aioDevClock' = "user" /\ aioKnown' = TRUE
  /\ UNCHANGED <<cmdPc, cmdSelected, cmdTries, cmdHistory, aioFlag>>

\* The device is set and the copy does not follow.
SetDevice(p) ==
  /\ cmdPc[p] = "open" /\ cmdUnlocked' = FALSE
  /\ aioDevClock' = "user" /\ aioKnown' = (aioKnown /\ aioClock = "user")
  /\ UNCHANGED <<cmdPc, cmdSelected, cmdTries, cmdHistory, aioClock, aioFlag>>

\* DIRECT_COMMAND_OUTPUT of the setting
DirectCommand(p) == SetDevice(p)

\* SETCHANNEL_AO, SET_SAMPNUM_AO
SetOutputChannel(p) == SetDevice(p)

\* GET_CLOCK, GET_SAMPNUM, GETCHANNEL: the answer is the copy.
GetSetting(p) == cmdPc[p] = "open" /\ UNCHANGED cmdVars

\* STOPTRIGGER_TYPE, MEMORY_TYPE: the driver keeps them and the device is not
\* told.
HostSetting(p) == cmdPc[p] = "open" /\ UNCHANGED cmdVars

\* INIT: the calls that reset the device hold no lock ...
InitCalls(p) ==
  /\ CmdGoto(p, "open", "init")
  /\ cmdSelected' = "call" /\ aioDevClock' = "reset"
  /\ UNCHANGED <<cmdUnlocked, cmdTries, cmdHistory, aioClock, aioKnown, aioFlag>>

\* ... and the settings that follow do.
InitSettings(p) ==
  /\ CmdGoto(p, "init", "open")
  /\ cmdSelected' = "flag" /\ cmdUnlocked' = FALSE /\ aioFlag' = FALSE
  /\ aioClock' = "init" /\ aioDevClock' = "init" /\ aioKnown' = TRUE
  /\ UNCHANGED <<cmdTries, cmdHistory>>

-----------------------------------------------------------------------------
\* START_AI and START_AO write the causes that stop the sampling, unlocked.

\* Wrong: the data registers are not opened.
StartSelectNoUnlock(p) ==
  /\ CmdGoto(p, "open", "low") /\ cmdSelected' = "stop"
  /\ UNCHANGED <<cmdUnlocked, cmdTries, cmdHistory, aioSetting, aioFlag>>

StartSelect(p) ==
  /\ CmdGoto(p, "open", "unlock") /\ cmdSelected' = "stop"
  /\ UNCHANGED <<cmdUnlocked, cmdTries, cmdHistory, aioSetting, aioFlag>>

WriteUnlock(p) ==
  /\ CmdGoto(p, "unlock", "low") /\ cmdUnlocked' = TRUE
  /\ UNCHANGED <<cmdSelected, cmdTries, cmdHistory, aioSetting, aioFlag>>

\* Half of the data is taken by the command that is selected by now.
WriteData(p) ==
  /\ CmdGoto(p, "low", "high") \/ CmdGoto(p, "high", "lock")
  /\ cmdLost' = (cmdLost \/ ~cmdUnlocked \/ cmdSelected # "stop")
  /\ UNCHANGED <<cmdChannel, cmdTries, cmdAlone, aioSetting, aioFlag>>

WriteLock(p) ==
  /\ CmdGoto(p, "lock", "open") /\ cmdUnlocked' = FALSE
  /\ UNCHANGED <<cmdSelected, cmdTries, cmdHistory, aioSetting, aioFlag>>

-----------------------------------------------------------------------------
\* EEPROM ioctls: the data lock is opened and closed around the whole of them.

EepromUnlock(p) ==
  /\ CmdGoto(p, "open", "e_unlock")
  /\ cmdUnlocked' = TRUE /\ cmdTries' = [cmdTries EXCEPT ![p] = 0]
  /\ UNCHANGED <<cmdSelected, cmdHistory, aioSetting, aioFlag>>

EepromChoose(p) ==
  /\ \E next \in {"e_write", "e_clear", "e_read"} : CmdGoto(p, "e_unlock", next)
  /\ UNCHANGED <<cmdChannel, cmdTries, cmdHistory, aioSetting, aioFlag>>

\* cpsaio_write_eeprom: written and read back until it is there; that it was
\* not is forgotten.
EepromWrite(p) ==
  /\ \/ cmdUnlocked /\ CmdGoto(p, "e_write", "e_lock") /\ UNCHANGED <<cmdTries, cmdLost>>
     \/ /\ ~cmdUnlocked /\ cmdTries[p] + 1 = EepromTries
        /\ CmdGoto(p, "e_write", "e_lock") /\ cmdLost' = TRUE /\ UNCHANGED cmdTries
     \/ /\ ~cmdUnlocked /\ cmdTries[p] + 1 < EepromTries /\ cmdPc[p] = "e_write"
        /\ cmdTries' = [cmdTries EXCEPT ![p] = @ + 1] /\ UNCHANGED <<cmdPc, cmdLost>>
  /\ UNCHANGED <<cmdChannel, cmdAlone, aioSetting, aioFlag>>

\* CLEAR_EEPROM: every value is written once and nothing is read back.
EepromClear(p) ==
  /\ CmdGoto(p, "e_clear", "e_lock")
  /\ cmdLost' = (cmdLost \/ ~cmdUnlocked)
  /\ UNCHANGED <<cmdChannel, cmdTries, cmdAlone, aioSetting, aioFlag>>

EepromRead(p) ==
  /\ CmdGoto(p, "e_read", "e_lock")
  /\ UNCHANGED <<cmdChannel, cmdTries, cmdHistory, aioSetting, aioFlag>>

EepromLock(p) ==
  /\ CmdGoto(p, "e_lock", "open")
  /\ cmdUnlocked' = FALSE /\ cmdTries' = [cmdTries EXCEPT ![p] = 0]
  /\ UNCHANGED <<cmdSelected, cmdHistory, aioSetting, aioFlag>>

-----------------------------------------------------------------------------
\* The device raises an interrupt.
AioEvent ==
  /\ aioFlag' = TRUE
  /\ UNCHANGED <<cmdPc, cmdChannel, cmdTries, cmdHistory, aioSetting>>

\* cpsaio_isr_func reads the flags with commands of the same channel and
\* leaves the mask command selected; it clears no flag.
AioInterrupt ==
  /\ CmdOpen /\ aioFlag /\ cmdSelected' = "irqmask" /\ cmdAlone' = FALSE
  /\ UNCHANGED <<cmdPc, cmdUnlocked, cmdTries, cmdLost, aioSetting, aioFlag>>

CmdNext ==
  \/ AioEvent \/ AioInterrupt
  \/ \E p \in AioProcs :
       \/ AioOpen(p) \/ AioClose(p)
       \/ GetFlag(p) \/ CallCommand(p) \/ ClearFlag(p) \/ SetSignal(p)
       \/ SetClock(p) \/ DirectCommand(p) \/ SetOutputChannel(p)
       \/ GetSetting(p) \/ HostSetting(p)
       \/ InitCalls(p) \/ InitSettings(p)
       \/ StartSelect(p) \/ WriteUnlock(p) \/ WriteData(p) \/ WriteLock(p)
       \/ EepromUnlock(p) \/ EepromChoose(p) \/ EepromWrite(p) \/ EepromClear(p)
       \/ EepromRead(p) \/ EepromLock(p)

CmdSpec == CmdInit /\ [][CmdNext]_cmdVars

-----------------------------------------------------------------------------
\* What the ioctls GET_CLOCK, GET_SAMPNUM and GETCHANNEL answer for the analog
\* input (cpsaio.c:1942) is what the device is set to, once it was set since
\* the first open: except while an INIT is between its two halves (1784).
SettingReported ==
  (aioKnown /\ \A p \in AioProcs : cmdPc[p] # "init") => aioClock = aioDevClock

\* What START and the EEPROM ioctls write without a lock (cpsaio.c:1373, 2185)
\* reaches the command and the page it is meant for as long as one process has
\* the node open and no interrupt came, and whoever races: no path out of them
\* leaves the data registers and the EEPROM open to writes (524, 2180).
WritesLand ==
  /\ cmdAlone => ~cmdLost
  /\ cmdUnlocked => \E p \in AioProcs : cmdPc[p] \in {"low", "high", "lock"} \cup Eeprom
=============================================================================
