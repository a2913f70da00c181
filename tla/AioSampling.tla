---------------------------- MODULE AioSampling ----------------------------
(***************************************************************************)
(* Sampling with an analog input device (cpsaio.c): start and stop, the    *)
(* status call that stops a device by itself, the reader that empties the  *)
(* FIFO, calibration and INIT.  dev->lock is taken with interrupts off, so *)
(* what is done under it is one step, but for the stop loop of             *)
(* cpsaio_get_status, during which only the device goes on.                *)
(***************************************************************************)
EXTENDS Naturals, FiniteSets

CONSTANTS
  SmpProcs,   \* processes with the node open
  FifoSize,   \* values the FIFO holds
  CountSpan,  \* values after which the unsigned short cnt of read is 0 again
  PollLimit   \* polls before START and read give up (1000, 1000000)

ASSUME SmpAssumption == FifoSize \in Nat /\ PollLimit \in Nat /\ CountSpan \in Nat \ {0}

VARIABLES
  smpGate,    \* device: whether it samples
  smpFifo,    \* device: values in the FIFO
  smpFlags,   \* device: error flags
  smpBusy,    \* device: it calibrates
  smpPc,      \* where each process is
  smpPolls,   \* polls since the process began to wait
  smpWant,    \* values that the reader asked for
  smpCnt,     \* values that the reader has, as far as cnt counts
  smpTorn     \* history: the FIFO was emptied behind the back of the reader

smpDevice == <<smpGate, smpFifo, smpFlags, smpBusy>>
smpReader == <<smpWant, smpCnt, smpTorn>>
smpVars == <<smpDevice, smpPc, smpPolls, smpReader>>

SmpTypeOK ==
  /\ smpGate \in {"closed", "opening", "armed", "running", "stopping"}
  /\ smpFifo \in 0..FifoSize /\ smpFlags \subseteq {"overflow", "clock"}
  /\ smpBusy \in BOOLEAN
  /\ smpPc \in [SmpProcs -> {"idle", "opening", "pulse", "stopping", "poll",
                             "take", "calibrate", "init"}]
  /\ smpPolls \in [SmpProcs -> 0..PollLimit + 1]
  /\ smpWant \in [SmpProcs -> 0..CountSpan]
  /\ smpCnt \in [SmpProcs -> 0..CountSpan - 1]
  /\ smpTorn \in [SmpProcs -> BOOLEAN]

SmpInit ==
  /\ smpGate = "closed" /\ smpFifo = 0 /\ smpFlags = {} /\ smpBusy = FALSE
  /\ smpPc = [p \in SmpProcs |-> "idle"]
  /\ smpPolls = [p \in SmpProcs |-> 0]
  /\ smpWant = [p \in SmpProcs |-> 0] /\ smpCnt = [p \in SmpProcs |-> 0]
  /\ smpTorn = [p \in SmpProcs |-> FALSE]

\* No process runs while another is in the stop loop with interrupts off.
SmpRuns(p) == \A q \in SmpProcs \ {p} : smpPc[q] # "stopping"

SmpGoto(p, from, to) ==
  /\ SmpRuns(p) /\ smpPc[p] = from
  /\ smpPc' = [smpPc EXCEPT ![p] = to]
  /\ smpPolls' = [smpPolls EXCEPT ![p] = 0]

SmpAgain(p, from) ==
  /\ SmpRuns(p) /\ smpPc[p] = from
  /\ smpPolls' = [smpPolls EXCEPT ![p] = @ + 1]
  /\ UNCHANGED smpPc

\* The others that wait to take a value find the FIFO changed.
Tear(p) == smpTorn' = [q \in SmpProcs |-> q # p /\ smpPc[q] = "take"]

-----------------------------------------------------------------------------
\* START_AI: the gate is opened, waited for and then triggered.
StartAi(p) ==
  /\ SmpGoto(p, "idle", "opening")
  /\ smpGate' = IF smpGate = "closed" THEN "opening" ELSE smpGate
  /\ UNCHANGED <<smpFifo, smpFlags, smpBusy, smpReader>>

\* -ETIMEDOUT leaves the gate as it is.
StartTimeout(p) ==
  /\ smpPolls[p] = PollLimit /\ SmpGoto(p, "opening", "idle")
  /\ UNCHANGED <<smpDevice, smpReader>>

StartPoll(p) ==
  /\ smpPolls[p] < PollLimit
  /\ \/ smpGate = "opening" /\ SmpAgain(p, "opening")
     \/ smpGate # "opening" /\ SmpGoto(p, "opening", "pulse")
  /\ UNCHANGED <<smpDevice, smpReader>>

StartPulse(p) ==
  /\ SmpGoto(p, "pulse", "idle")
  /\ smpGate' = IF smpGate = "armed" THEN "running" ELSE smpGate
  /\ UNCHANGED <<smpFifo, smpFlags, smpBusy, smpReader>>

StopCommand == smpGate' = IF smpGate = "closed" THEN "closed" ELSE "stopping"

\* STOP_AI, EXIT
StopAi(p) ==
  /\ SmpGoto(p, "idle", "idle") /\ StopCommand
  /\ UNCHANGED <<smpFifo, smpFlags, smpBusy, smpReader>>

\* INSTATUS: cpsaio_get_status finds an error flag while the device is enabled.
InStatus(p) ==
  /\ smpFlags # {} /\ smpGate # "closed"
  /\ SmpGoto(p, "idle", "stopping")
  /\ UNCHANGED <<smpDevice, smpReader>>

\* Wrong: the stop command is not given.
StopLoopSilent(p) ==
  /\ smpPc[p] = "stopping"
  /\ IF smpGate = "closed" THEN SmpGoto(p, "stopping", "idle")
     ELSE UNCHANGED <<smpPc, smpPolls>>
  /\ UNCHANGED <<smpDevice, smpReader>>

\* The stop command, and the status read after it.
StopLoop(p) ==
  /\ smpPc[p] = "stopping"
  /\ IF smpGate = "closed" THEN SmpGoto(p, "stopping", "idle") /\ UNCHANGED smpGate
     ELSE StopCommand /\ UNCHANGED <<smpPc, smpPolls>>
  /\ UNCHANGED <<smpFifo, smpFlags, smpBusy, smpReader>>

-----------------------------------------------------------------------------
\* RESET_STATUS clears all but the overflow.
ResetStatus(p) ==
  /\ SmpGoto(p, "idle", "idle") /\ smpFlags' = smpFlags \cap {"overflow"}
  /\ UNCHANGED <<smpGate, smpFifo, smpBusy, smpReader>>

\* RESET_MEMORY clears the flags of the memory and the memory.
ResetMemory(p) ==
  /\ SmpGoto(p, "idle", "idle")
  /\ smpFlags' = smpFlags \ {"overflow"} /\ smpFifo' = 0 /\ Tear(p)
  /\ UNCHANGED <<smpGate, smpBusy, smpWant, smpCnt>>

\* INIT: the device is reset without the lock ...
InitDevice(p) ==
  /\ SmpGoto(p, "idle", "init")
  /\ smpGate' = "closed" /\ smpFifo' = 0 /\ Tear(p)
  /\ UNCHANGED <<smpFlags, smpBusy, smpWant, smpCnt>>

\* ... and the flags are cleared with it.
InitFlags(p) ==
  /\ SmpGoto(p, "init", "idle") /\ smpFlags' = {}
  /\ UNCHANGED <<smpGate, smpFifo, smpBusy, smpReader>>

\* SET_CALIBRATION_AI waits without a limit until the device is done.
SetCalibration(p) ==
  /\ SmpGoto(p, "idle", "calibrate") /\ smpBusy' = TRUE
  /\ UNCHANGED <<smpGate, smpFifo, smpFlags, smpReader>>

CalibrationPoll(p) ==
  /\ ~smpBusy /\ SmpGoto(p, "calibrate", "idle")
  /\ UNCHANGED <<smpDevice, smpReader>>

-----------------------------------------------------------------------------
\* read: cpsaio_get_sampling_data_ai

ReadAi(p) ==
  /\ SmpGoto(p, "idle", "poll")
  /\ \E want \in 1..CountSpan : smpWant' = [smpWant EXCEPT ![p] = want]
  /\ smpCnt' = [smpCnt EXCEPT ![p] = 0]
  /\ UNCHANGED <<smpDevice, smpTorn>>

ReadEnds(p) ==
  /\ smpWant' = [smpWant EXCEPT ![p] = 0]
  /\ smpCnt' = [smpCnt EXCEPT ![p] = 0]

\* Wrong: the reader waits for the value that is there to go away.
ReadPollInverted(p) ==
  /\ smpPolls[p] <= PollLimit
  /\ \/ smpFifo > 0 /\ SmpAgain(p, "poll") /\ UNCHANGED smpTorn
     \/ /\ smpFifo = 0 /\ SmpGoto(p, "poll", "take")
        /\ smpTorn' = [smpTorn EXCEPT ![p] = FALSE]
  /\ UNCHANGED <<smpDevice, smpWant, smpCnt>>

ReadPoll(p) ==
  /\ smpPolls[p] <= PollLimit
  /\ \/ smpFifo = 0 /\ SmpAgain(p, "poll") /\ UNCHANGED smpTorn
     \/ /\ smpFifo > 0 /\ SmpGoto(p, "poll", "take")
        /\ smpTorn' = [smpTorn EXCEPT ![p] = FALSE]
  /\ UNCHANGED <<smpDevice, smpWant, smpCnt>>

\* Too many polls: the FIFO is cleared and -EFAULT returned.
ReadTimeout(p) ==
  /\ smpPolls[p] > PollLimit /\ SmpGoto(p, "poll", "idle")
  /\ smpFifo' = 0 /\ Tear(p)
  /\ smpWant' = [smpWant EXCEPT ![p] = 0] /\ smpCnt' = [smpCnt EXCEPT ![p] = 0]
  /\ UNCHANGED <<smpGate, smpFlags, smpBusy>>

\* The value that was seen is taken, whatever happened since; the copy to the
\* caller may fail.
ReadTake(p) ==
  /\ smpFifo' = IF smpFifo = 0 THEN 0 ELSE smpFifo - 1
  /\ Tear(p)
  /\ LET cnt == (smpCnt[p] + 1) % CountSpan IN
     \/ /\ cnt < smpWant[p] /\ SmpGoto(p, "take", "poll")
        /\ smpCnt' = [smpCnt EXCEPT ![p] = cnt] /\ UNCHANGED smpWant
     \/ SmpGoto(p, "take", "idle") /\ cnt >= smpWant[p] /\ ReadEnds(p)
     \/ SmpGoto(p, "take", "idle") /\ cnt < smpWant[p] /\ ReadEnds(p)
  /\ UNCHANGED <<smpGate, smpFlags, smpBusy>>

\* write: cpsaio_set_sampling_data_ao copies the wrong way round and answers
\* -EFAULT before anything is put out.
WriteAo(p) ==
  /\ SmpGoto(p, "idle", "idle") /\ UNCHANGED <<smpDevice, smpReader>>

-----------------------------------------------------------------------------
\* The device

GateOpens ==
  /\ smpGate = "opening" /\ smpGate' = "armed"
  /\ UNCHANGED <<smpFifo, smpFlags, smpBusy, smpPc, smpPolls, smpReader>>

\* An overflow does not stop the device.
Sample ==
  /\ smpGate = "running"
  /\ \/ smpFifo < FifoSize /\ smpFifo' = smpFifo + 1 /\ UNCHANGED smpFlags
     \/ smpFifo = FifoSize /\ smpFlags' = smpFlags \cup {"overflow"} /\ UNCHANGED smpFifo
     \/ smpFlags' = smpFlags \cup {"clock"} /\ UNCHANGED smpFifo
  /\ UNCHANGED <<smpGate, smpBusy, smpPc, smpPolls, smpReader>>

\* All samples are taken, or the device obeys the stop command.
GateCloses ==
  /\ smpGate \in {"running", "stopping"} /\ smpGate' = "closed"
  /\ UNCHANGED <<smpFifo, smpFlags, smpBusy, smpPc, smpPolls, smpReader>>

Calibrated ==
  /\ smpBusy /\ smpBusy' = FALSE
  /\ UNCHANGED <<smpGate, smpFifo, smpFlags, smpPc, smpPolls, smpReader>>

SmpNext ==
  \/ GateOpens \/ Sample \/ GateCloses \/ Calibrated
  \/ \E p \in SmpProcs :
       \/ StartAi(p) \/ StartTimeout(p) \/ StartPoll(p) \/ StartPulse(p)
       \/ StopAi(p) \/ InStatus(p) \/ StopLoop(p)
       \/ ResetStatus(p) \/ ResetMemory(p) \/ InitDevice(p) \/ InitFlags(p)
       \/ SetCalibration(p) \/ CalibrationPoll(p)
       \/ ReadAi(p) \/ ReadPoll(p) \/ ReadTimeout(p) \/ ReadTake(p) \/ WriteAo(p)

\* The scheduler gives every process that is ready its turn again and again,
\* and the device obeys the stop command.
SmpFairness ==
  /\ WF_smpVars(smpGate = "stopping" /\ GateCloses)
  /\ \A p \in SmpProcs :
       /\ WF_smpVars(StopLoop(p))
       /\ SF_smpVars(ReadPoll(p) \/ ReadTimeout(p) \/ ReadTake(p))

Looping(p) ==
  smpPc[p] = "stopping" \/ (smpPc[p] \in {"poll", "take"} /\ smpWant[p] < CountSpan)

SmpSpec == SmpInit /\ [][SmpNext]_smpVars
SmpFairSpec == SmpSpec /\ SmpFairness

-----------------------------------------------------------------------------
\* The two loops that wait for the device end: the one in which
\* cpsaio_get_status stops it with the interrupts off (cpsaio.c:809), and the
\* polls of a read of less than 65536 bytes (2519), whatever the device does.
LoopsEnd ==
  \A p \in SmpProcs : Looping(p) ~> ~Looping(p)

\* A value is taken from the empty FIFO only when another reader or a reset
\* emptied it after the check (cpsaio.c:2546, 2548).
FifoChecked ==
  \A p \in SmpProcs : (smpPc[p] = "take" /\ smpFifo = 0) => smpTorn[p]
=============================================================================
