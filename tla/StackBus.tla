------------------------------ MODULE StackBus ------------------------------
(***************************************************************************)
(* The stack bus of the MCS341 controller as cps-driver.c drives it: the   *)
(* initialisation sequence that numbers the stacked devices, the 20 ms     *)
(* timer that watches the bus, resets it and initialises it again, the     *)
(* reset button, and the error LED that tells that recovery was given up.  *)
(*                                                                         *)
(* Actors: the module's own load (Loader), the device drivers that call    *)
(* the exported contec_mcs341_controller_cpsDevicesInit when they are      *)
(* loaded (Callers), and the timer softirq (Timer).  The controller has a  *)
(* single core: while the softirq runs no process does, and a process is   *)
(* interleaved with it at its sleeps.  The FPGA runs by itself.            *)
(***************************************************************************)
EXTENDS Integers

CONSTANTS
  Callers,              \* device drivers that call the exported init
  MaxDevices,           \* CPS_DEVICE_MAX_NUM (40)
  Counts,               \* what the device counter of the FPGA may show
  Hz,                   \* timer ticks per second (50)
  FailedMax,            \* mcs341_stackbus_failed_max (65535)
  FpgaVer,              \* the FPGA revision, fpga_ver once it was read
  ChildUnit,            \* module parameter child_unit
  DriverResetHardware,  \* module parameter: 0 report, 1 reboot, 2 bus reset
  AutoRecovery,         \* auto_recovery_stackbus_mode_enable # 0
  ButtonCheckMode,      \* reset_button_check_mode # 0
  PushShutdown,         \* push_reset_button_shutdown_enable # 0
  ButtonReads,          \* what the reset button's GPIO may read at a tick
  AllocFails,           \* whether a device window may fail to be mapped
  MaxFaults,            \* bound of the model: faults in a behaviour
  MaxFailures           \* bound of the model: no call after that many failures

Loader == "cps-driver"
Timer == "timer"

ASSUME ConstantsAssumption ==
  /\ Callers \cap {Loader, Timer} = {}
  /\ MaxDevices \in Nat \ {0}
  /\ Counts \subseteq Nat /\ Counts # {}
  /\ Hz \in Nat \ {0}
  /\ FailedMax \in Nat
  /\ FpgaVer \in Nat
  /\ DriverResetHardware \in 0..2
  /\ AutoRecovery \in BOOLEAN
  /\ ButtonCheckMode \in BOOLEAN
  /\ PushShutdown \in BOOLEAN
  /\ ButtonReads \subseteq BOOLEAN /\ ButtonReads # {}
  /\ AllocFails \in BOOLEAN
  /\ MaxFaults \in Nat
  /\ MaxFailures \in Nat

\* The child units told apart by what their initialisation leaves set.
ChildUnits == {"NONE", "GENERIC", "40", "90", "A0"}
ASSUME ChildAssumption == ChildUnit \in ChildUnits

VARIABLES
  \* cps-driver.c
  module,             \* state of the cps-driver module
  pc,                 \* where each actor is in the initialisation
  deviceNumber,       \* the number of stacked devices last read
  mapped,             \* slots with map_devbaseaddr[slot] # NULL
  systeminit_reg,     \* shadow of the system-init register: its set bits
  lvds_reg,           \* LVDS_PWR bit of mcs341_fpga_reset_reg
  failed_count,       \* mcs341_stackbus_failed_count
  bus_state,          \* bus_reseting_state
  bus_count,          \* bus_reseting_count
  keepcheck_count,
  reset_count,
  shutdown_sequence,
  led,                \* the ERR LED: ledEnable, led_timer_count, ledState
  poweroff,           \* orderly_poweroff was called
  pout,               \* RESET_POUT was driven: the board is being reset
  \* the FPGA and the stack
  line,               \* GPIO FPGA_RESET: "low" holds the FPGA in reset
  status,             \* what the system status register shows
  hw_init,            \* system-init register as last written
  hw_lvds,            \* LVDS power as last written
  hw_count,           \* devices physically attached (device counter)
  numbered,           \* device count the devices were last told
  hw_ok,              \* the bus and its devices answer correctly
  faults,             \* faults so far (bound)
  low_ticks,          \* history: ticks since the line went low
  resets              \* history: resets the timer has started

driverVars == <<deviceNumber, mapped, systeminit_reg, lvds_reg, failed_count>>
buttonVars == <<reset_count, shutdown_sequence, poweroff>>
busVars    == <<bus_state, bus_count, keepcheck_count>>
timerVars  == <<buttonVars, busVars, led>>
resetVars  == <<line, status, hw_init, hw_lvds, numbered>>
envVars    == <<hw_count, hw_ok, faults>>
histVars   == <<low_ticks, resets>>
vars == <<module, pc, driverVars, timerVars, pout, resetVars, envVars,
          histVars>>

-----------------------------------------------------------------------------
Actors == Callers \cup {Loader, Timer}

\* 0x3f in the device counter: no stacked device.
NoStack == 63

InitBits == {"SETRESET", "SETINTERRUPT", "POWER", "RESET", "3G3", "3G4"}

\* The stages of _contec_mcs341_controller_cpsDevicesInit, its results, and
\* the two sleeps of the bus reset that the exported wrapper may run.
Stages == {"status", "setreset", "poll_init", "num", "recheck", "idsel",
           "poll_int", "alive", "num_up", "recheck_up"}
Results == {"ok", "err", "enomem"}     \* "err": -EIO or -ENXIO
Waits == {"bus_low", "bus_high"}
PCs == {"idle"} \cup Stages \cup Results \cup Waits

\* System status register: numbering not done, done, done with interrupts;
\* "bad" is any other value (a broken bus, or an FPGA held in reset).
Statuses == {"busy", "init_end", "int_end", "bad"}

\* The saturation bound of the history counter.
LowCap == 2 * Hz + 2

TypeOK ==
  /\ module \in {"absent", "loading", "loaded", "failed", "removed"}
  /\ pc \in [Actors -> PCs]
  /\ deviceNumber \in Nat
  /\ mapped \subseteq 0..(MaxDevices - 1)
  /\ systeminit_reg \subseteq InitBits
  /\ hw_init \subseteq InitBits
  /\ lvds_reg \in BOOLEAN /\ hw_lvds \in BOOLEAN
  /\ failed_count \in Nat
  /\ bus_state \in 0..4
  /\ bus_count \in 0..(2 * Hz + 1)
  /\ keepcheck_count \in 0..Hz
  /\ reset_count \in Nat
  /\ shutdown_sequence \in {0, 1}
  /\ led \in [enable : {0, 2}, count : 0..Hz, lit : BOOLEAN]
  /\ poweroff \in BOOLEAN
  /\ pout \in BOOLEAN
  /\ line \in {"low", "high"}
  /\ status \in Statuses
  /\ hw_count \in Nat
  /\ numbered \in Nat
  /\ hw_ok \in BOOLEAN
  /\ faults \in 0..MaxFaults
  /\ low_ticks \in 0..LowCap
  /\ resets \in Nat

Init ==
  /\ module = "absent"
  /\ pc = [a \in Actors |-> "idle"]
  /\ deviceNumber = 0
  /\ mapped = {}
  /\ systeminit_reg = {} /\ lvds_reg = FALSE
  /\ failed_count = 0
  /\ bus_state = 0 /\ bus_count = 0 /\ keepcheck_count = 0
  /\ reset_count = 0 /\ shutdown_sequence = 0
  /\ led = [enable |-> 0, count |-> 0, lit |-> FALSE]
  /\ poweroff = FALSE /\ pout = FALSE
  /\ line \in {"low", "high"}
  /\ status = IF line = "low" THEN "bad" ELSE "busy"
  /\ hw_init = {} /\ hw_lvds = FALSE
  /\ hw_count \in Counts
  /\ numbered = 0
  /\ hw_ok \in BOOLEAN
  /\ faults = 0
  /\ low_ticks = 0 /\ resets = 0

-----------------------------------------------------------------------------
(***************************************************************************)
(* The FPGA (external: how the driver uses it).  Holding FPGA_RESET low    *)
(* clears it; released, it comes up busy and waits for SETRESET, numbers   *)
(* the devices, and enables their interrupts after SETINTERRUPT.           *)
(***************************************************************************)
Numberable  == line = "high" /\ status = "busy" /\ "SETRESET" \in hw_init
Interruptible ==
  line = "high" /\ status = "init_end" /\ "SETINTERRUPT" \in hw_init

HwNumber ==
  /\ Numberable
  /\ status' = "init_end"
  /\ UNCHANGED <<line, hw_init, hw_lvds, numbered>>

HwInterrupt ==
  /\ Interruptible
  /\ status' = "int_end"
  /\ UNCHANGED <<line, hw_init, hw_lvds, numbered>>

\* The bus breaks, or its devices are changed; the status may be corrupted.
HwFault ==
  /\ faults < MaxFaults
  /\ faults' = faults + 1
  /\ hw_ok' = FALSE
  /\ hw_count' \in Counts
  /\ status' \in {status, "bad"}
  /\ UNCHANGED <<line, hw_init, hw_lvds, numbered>>

HwRepair ==
  /\ ~hw_ok /\ hw_ok' = TRUE
  /\ UNCHANGED <<hw_count, faults, resetVars>>

Hw ==
  /\ \/ (HwNumber \/ HwInterrupt) /\ UNCHANGED envVars
     \/ HwFault
     \/ HwRepair
  /\ UNCHANGED <<module, pc, driverVars, timerVars, pout, histVars>>

\* gpio_direction_output(FPGA_RESET, 0) and (FPGA_RESET, 1)
LowerLine ==
  /\ line' = "low" /\ status' = "bad"
  /\ hw_init' = {} /\ hw_lvds' = FALSE /\ numbered' = 0
RaiseLine ==
  /\ line' = "high"
  /\ status' \in IF line = "high" THEN {status}
                 ELSE IF hw_ok THEN {"busy"} ELSE {"busy", "bad"}
  /\ UNCHANGED <<hw_init, hw_lvds, numbered>>

\* A register write reaches an FPGA that is not held in reset.
WriteInit(bits) == hw_init' = IF line = "high" THEN bits ELSE hw_init
WriteLvds(on)   == hw_lvds' = IF line = "high" THEN on ELSE hw_lvds

\* The device counter is steady once the devices are numbered.
CountReads ==
  IF hw_ok /\ status \in {"init_end", "int_end"} THEN {hw_count} ELSE Counts

-----------------------------------------------------------------------------
(***************************************************************************)
(* _contec_mcs341_controller_cpsDevicesInit, one action per stretch        *)
(* between two sleeps (two delays, when the timer runs it).                *)
(***************************************************************************)
Running(a) == ~pout /\ (a # Timer => pc[Timer] = "idle")
At(a, stage) == Running(a) /\ pc[a] = stage
Goto(a, stage) == pc' = [pc EXCEPT ![a] = stage]
KeepTimer == UNCHANGED <<module, timerVars, pout, envVars, histVars>>

ReadStatus(a) ==
  /\ At(a, "status")
  /\ Goto(a, CASE status = "bad" -> "err"
               [] status = "busy" -> "setreset"
               [] OTHER -> "num_up")
  /\ KeepTimer /\ UNCHANGED <<driverVars, resetVars>>

\* Wrong: both bits of the register in one write.
SetResetBoth(a) ==
  /\ At(a, "setreset")
  /\ lvds_reg' = (lvds_reg \/ FpgaVer > 1)
  /\ IF FpgaVer > 1 THEN WriteLvds(lvds_reg') ELSE UNCHANGED hw_lvds
  /\ systeminit_reg' = systeminit_reg \cup {"SETRESET", "SETINTERRUPT"}
  /\ WriteInit(systeminit_reg')
  /\ Goto(a, "poll_init")
  /\ KeepTimer
  /\ UNCHANGED <<deviceNumber, mapped, failed_count, line, status, numbered>>

SetReset(a) ==
  /\ At(a, "setreset")
  /\ lvds_reg' = (lvds_reg \/ FpgaVer > 1)
  /\ IF FpgaVer > 1 THEN WriteLvds(lvds_reg') ELSE UNCHANGED hw_lvds
  /\ systeminit_reg' = systeminit_reg \cup {"SETRESET"}
  /\ WriteInit(systeminit_reg')
  /\ Goto(a, "poll_init")
  /\ KeepTimer
  /\ UNCHANGED <<deviceNumber, mapped, failed_count, line, status, numbered>>

\* The polls after SETRESET and after SETINTERRUPT.  A bad status can carry
\* the INTERRUPT_END bit, never INIT_END without a BUSY bit.
PollDone(a) ==
  \/ pc[a] = "poll_init" /\ status \in {"init_end", "int_end"}
  \/ pc[a] = "poll_int" /\ status \in {"int_end", "bad"}

Poll(a) ==
  /\ Running(a)
  /\ PollDone(a)
  /\ Goto(a, IF pc[a] = "poll_init" THEN "num" ELSE "alive")
  /\ KeepTimer /\ UNCHANGED <<driverVars, resetVars>>

\* CPS_DEVICE_INIT_TIMEOUT polls went by.  The last poll's answer is thrown
\* away, so a late FPGA times out even when it has just finished.
PollTimeout(a) ==
  /\ Running(a) /\ pc[a] \in {"poll_init", "poll_int"}
  /\ ~hw_ok \/ ~(PollDone(a) \/ Numberable \/ Interruptible)
  /\ Goto(a, "err")
  /\ KeepTimer /\ UNCHANGED <<driverVars, resetVars>>

ReadCount(a) ==
  /\ Running(a) /\ pc[a] \in {"num", "num_up"}
  /\ deviceNumber' \in CountReads
  /\ Goto(a, IF pc[a] = "num" THEN "recheck" ELSE "recheck_up")
  /\ KeepTimer
  /\ UNCHANGED <<mapped, systeminit_reg, lvds_reg, failed_count, resetVars>>

\* The counter is read again (three times) and must agree.
RecheckFails(a) ==
  /\ Running(a) /\ pc[a] \in {"recheck", "recheck_up"}
  /\ CountReads # {deviceNumber}
  /\ Goto(a, "err")
  /\ KeepTimer /\ UNCHANGED <<driverVars, resetVars>>

\* __contec_mcs341_device_memory: the slots it covers, none without a stack
Stacked == deviceNumber \notin {0, NoStack}
Slots == IF Stacked /\ deviceNumber <= MaxDevices
         THEN 0..(deviceNumber - 1) ELSE {}
Alloc(got) ==
  /\ got \subseteq Slots
  /\ mapped' = mapped \cup got
  /\ \/ Slots \subseteq mapped' /\ UNCHANGED faults
     \/ /\ ~(Slots \subseteq mapped')
        /\ AllocFails /\ faults < MaxFaults /\ faults' = faults + 1
AllocOk == Stacked => deviceNumber <= MaxDevices /\ Slots \subseteq mapped'

\* The devices are mapped; on a bus that was just numbered, IDSEL_COMPLETE
\* tells their number to them through the first one.
MapDevices(a) ==
  /\ Running(a) /\ pc[a] \in {"recheck", "recheck_up"}
  /\ deviceNumber \in CountReads
  /\ \E got \in SUBSET Slots : Alloc(got)
  /\ Goto(a, CASE ~AllocOk -> "enomem"
               [] AllocOk /\ pc[a] = "recheck" -> "idsel"
               [] OTHER -> "ok")
  /\ IF AllocOk /\ pc[a] = "recheck" /\ Stacked
     THEN numbered' \in IF hw_ok /\ line = "high" THEN {deviceNumber}
                        ELSE {deviceNumber, numbered}
     ELSE UNCHANGED numbered
  /\ UNCHANGED <<module, timerVars, pout, hw_count, hw_ok, histVars,
                 deviceNumber, systeminit_reg, lvds_reg, failed_count,
                 line, status, hw_init, hw_lvds>>

SetInterruptLine(a) ==
  /\ At(a, "idsel")
  /\ systeminit_reg' = systeminit_reg \cup {"SETINTERRUPT"}
  /\ WriteInit(systeminit_reg')
  /\ Goto(a, "poll_int")
  /\ KeepTimer
  /\ UNCHANGED <<deviceNumber, mapped, lvds_reg, failed_count,
                 line, status, hw_lvds, numbered>>

(***************************************************************************)
(* contec_mcs341_is_alive_stack_devices reads every device's copy of the   *)
(* number.  A slot that is not mapped is not read at all: the function     *)
(* returns an uninitialised byte, so it may go either way there, as it may *)
(* on a broken bus.                                                        *)
(***************************************************************************)
Expected == 0..(deviceNumber - 1)
Readable == hw_ok /\ line = "high"
MayLookAlive ==
  (Readable /\ Expected \cap mapped # {}) => numbered = deviceNumber
MayLookDead ==
  /\ deviceNumber > 0
  /\ ~Readable \/ numbered # deviceNumber \/ ~(Expected \subseteq mapped)

CheckAlive(a) ==
  /\ At(a, "alive")
  /\ \/ MayLookAlive /\ Goto(a, "ok") /\ UNCHANGED mapped
     \/ MayLookDead /\ Goto(a, "err") /\ mapped' = mapped \ Slots
  /\ KeepTimer
  /\ UNCHANGED <<deviceNumber, systeminit_reg, lvds_reg, failed_count, resetVars>>

DevicesInit(a) ==
  \/ ReadStatus(a) \/ SetReset(a) \/ Poll(a) \/ PollTimeout(a) \/ ReadCount(a)
  \/ RecheckFails(a) \/ MapDevices(a) \/ SetInterruptLine(a) \/ CheckAlive(a)

-----------------------------------------------------------------------------
(***************************************************************************)
(* contec_mcs341_controller_cpsDevicesInit, exported: what a process does  *)
(* with the result.  -ENOMEM is not retried.                               *)
(***************************************************************************)
Processes == Callers \cup {Loader}

CallInit(c) ==
  /\ module = "loaded" /\ At(c, "idle")
  /\ failed_count <= MaxFailures
  /\ Goto(c, "status")
  /\ KeepTimer /\ UNCHANGED <<driverVars, resetVars>>

\* Wrong: a bus reset after every failure, without the limit.
InitFailedNoLimit(p) ==
  /\ At(p, "err")
  /\ failed_count' = failed_count + 1
  /\ LowerLine
  /\ Goto(p, "bus_low")
  /\ UNCHANGED <<module, pout, deviceNumber, mapped, systeminit_reg, lvds_reg,
                 timerVars, envVars, histVars>>

\* Failure: counted, then reported (0), or answered by a reboot (1) or a bus
\* reset (2) as DriverResetHardware says; past the limit 2 reboots as well.
InitFailed(p) ==
  /\ At(p, "err")
  /\ failed_count' = failed_count + 1
  /\ \/ /\ DriverResetHardware = 0
        /\ Goto(p, "idle")
        /\ module' = IF p = Loader THEN "failed" ELSE module
        /\ UNCHANGED <<pout, resetVars>>
     \/ /\ \/ DriverResetHardware = 1
           \/ DriverResetHardware = 2 /\ failed_count' > FailedMax
        /\ pout' = TRUE
        /\ UNCHANGED <<pc, module, resetVars>>
     \/ /\ DriverResetHardware = 2 /\ failed_count' <= FailedMax
        /\ LowerLine
        /\ Goto(p, "bus_low")
        /\ UNCHANGED <<module, pout>>
  /\ UNCHANGED <<deviceNumber, mapped, systeminit_reg, lvds_reg,
                 timerVars, envVars, histVars>>

\* __contec_mcs341_device_bus_reset: 2 s low (a signal can cut the sleep
\* short), 1 s high, and the initialisation is tried again.
BusResetRelease(p) ==
  /\ At(p, "bus_low")
  /\ RaiseLine
  /\ Goto(p, "bus_high")
  /\ KeepTimer /\ UNCHANGED driverVars
BusResetRetry(p) ==
  /\ At(p, "bus_high")
  /\ Goto(p, "status")
  /\ KeepTimer /\ UNCHANGED <<driverVars, resetVars>>

CallReturns(c) ==
  /\ pc[c] \in {"ok", "enomem"} /\ Running(c)
  /\ Goto(c, "idle")
  /\ KeepTimer /\ UNCHANGED <<driverVars, resetVars>>

\* What _contec_mcs341_controller_cpsChildUnitInit leaves in the shadow, and
\* what _contec_mcs341_controller_cpsChildUnitExit leaves.
ChildInit(bits) ==
  CASE ChildUnit = "NONE"    -> bits
    [] ChildUnit = "GENERIC" -> bits \cup {"POWER", "RESET"}
    [] ChildUnit = "40"      -> bits \cup {"POWER", "RESET", "3G4"}
    [] ChildUnit = "90"      -> (bits \ {"3G3", "RESET"}) \cup {"POWER", "3G4"}
    [] ChildUnit = "A0"      -> (bits \ {"3G3", "RESET"}) \cup {"POWER"}
ChildExit(bits) ==
  CASE ChildUnit = "NONE"    -> bits
    [] ChildUnit = "GENERIC" -> bits \ {"POWER", "RESET"}
    [] ChildUnit = "40"      -> bits \ {"POWER", "RESET", "3G4"}
    [] ChildUnit = "90"      -> (bits \ {"POWER", "3G4"}) \cup {"3G3", "RESET"}
    [] ChildUnit = "A0"      -> bits \ {"POWER", "3G3"}
SetShadow(bits) ==
  /\ systeminit_reg' = bits
  /\ IF bits = systeminit_reg THEN UNCHANGED hw_init ELSE WriteInit(bits)

\* contec_mcs341_controller_init: up to the initialisation, and after it
Load ==
  /\ module = "absent" /\ At(Loader, "idle")
  /\ module' = "loading"
  /\ Goto(Loader, "status")
  /\ RaiseLine
  /\ UNCHANGED <<driverVars, timerVars, pout, envVars, histVars>>

LoadReturns ==
  /\ pc[Loader] \in {"ok", "enomem"} /\ Running(Loader)
  /\ Goto(Loader, "idle")
  /\ IF pc[Loader] = "ok"
     THEN module' = "loaded" /\ SetShadow(ChildInit(systeminit_reg))
     ELSE module' = "failed" /\ UNCHANGED <<systeminit_reg, hw_init>>
  /\ UNCHANGED <<deviceNumber, mapped, lvds_reg, failed_count, line, status,
                 hw_lvds, numbered, timerVars, pout, envVars, histVars>>

\* contec_mcs341_controller_exit: possible once no other driver is using the
\* module; the timer is stopped first.
Unload ==
  /\ module = "loaded" /\ ~pout
  /\ \A a \in Actors : pc[a] = "idle"
  /\ module' = "removed"
  /\ SetShadow(ChildExit(systeminit_reg))
  /\ mapped' = mapped \ Slots
  /\ UNCHANGED <<pc, deviceNumber, lvds_reg, failed_count, line, status,
                 hw_lvds, numbered, timerVars, pout, envVars, histVars>>

-----------------------------------------------------------------------------
(***************************************************************************)
(* mcs341_controller_timer_function, every 20 ms: the LED, the button and, *)
(* unless a shutdown began, the recovery.  Only the recovery's call of the *)
(* initialisation takes several steps; no process runs before it is over.  *)
(***************************************************************************)
Ticking ==
  /\ module = "loaded" /\ At(Timer, "idle")
  /\ low_ticks' = IF line = "high" THEN 0
                  ELSE IF low_ticks < LowCap THEN low_ticks + 1 ELSE LowCap
  /\ UNCHANGED <<module, envVars>>

\* A blinking LED (ledEnable 2) changes about once a second.
Blink == IF led.enable # 2 THEN led
         ELSE IF led.count >= Hz THEN [led EXCEPT !.lit = ~@, !.count = 0]
         ELSE [led EXCEPT !.count = @ + 1]

\* The button is down: interrupts are taken off the bus and the shutdown
\* sequence starts.  `mcs341_fpga_reset_reg &= LVDS_PWR' keeps the LVDS bit.
ButtonDown ==
  /\ Ticking /\ led' = Blink
  /\ ~ButtonCheckMode /\ TRUE \in ButtonReads
  /\ IF reset_count = 0 /\ FpgaVer > 1
     THEN /\ WriteLvds(lvds_reg)
          /\ systeminit_reg' = systeminit_reg \ {"SETINTERRUPT"}
          /\ WriteInit(systeminit_reg')
     ELSE UNCHANGED <<systeminit_reg, hw_lvds, hw_init>>
  /\ shutdown_sequence' = 1
  /\ reset_count' = reset_count + 1
  /\ pout' = (reset_count' > 5 * Hz)
  /\ UNCHANGED <<pc, deviceNumber, mapped, lvds_reg, failed_count, busVars,
                 poweroff, line, status, numbered, resets>>

\* The rest of a tick that finds the button up (or does not look at it).
ButtonUp ==
  /\ Ticking
  /\ \/ ButtonCheckMode /\ UNCHANGED buttonVars
     \/ /\ ~ButtonCheckMode /\ FALSE \in ButtonReads
        /\ poweroff' = (poweroff \/ (reset_count > 0 /\ PushShutdown))
        /\ reset_count' = 0
        /\ UNCHANGED shutdown_sequence
  /\ UNCHANGED pout

Recovering == shutdown_sequence = 0 /\ AutoRecovery
Watching == Recovering /\ failed_count <= FailedMax

TickIdle ==
  /\ ButtonUp /\ ~Recovering
  /\ led' = Blink
  /\ UNCHANGED <<pc, driverVars, busVars, resetVars, resets>>

TickGivenUp ==
  /\ ButtonUp /\ Recovering /\ failed_count > FailedMax
  /\ led' = [Blink EXCEPT !.enable = 2]
  /\ UNCHANGED <<pc, driverVars, busVars, resetVars, resets>>

\* bus_reseting_state 1: as for the button, then the FPGA is held in reset.
TickLower ==
  /\ ButtonUp /\ Watching /\ led' = Blink
  /\ bus_state = 1 /\ bus_state' = 2
  /\ systeminit_reg' = IF FpgaVer > 1 THEN systeminit_reg \ {"SETINTERRUPT"}
                       ELSE systeminit_reg
  /\ LowerLine
  /\ resets' = resets + 1
  /\ UNCHANGED <<pc, deviceNumber, mapped, lvds_reg, failed_count,
                 bus_count, keepcheck_count>>

\* Wrong: the wait of the state is never set.
BusTimeUnset == 0

\* States 2 and 4 wait two seconds and one second.
BusTime == IF bus_state = 2 THEN 2 ELSE 1

\* Wrong: the end of the wait goes back to the watch; the state does not move
\* on.
TickWaitSkipsRelease ==
  /\ ButtonUp /\ Watching /\ led' = Blink
  /\ bus_state \in {2, 4}
  /\ IF bus_count <= BusTime * Hz
     THEN bus_count' = bus_count + 1 /\ UNCHANGED bus_state
     ELSE bus_count' = 0 /\ bus_state' = 0
  /\ UNCHANGED <<pc, driverVars, keepcheck_count, resetVars, resets>>
TickWaitForEver ==
  /\ ButtonUp /\ Watching /\ led' = Blink
  /\ bus_state \in {2, 4}
  /\ bus_count' = IF bus_count <= BusTime * Hz THEN bus_count + 1 ELSE 0
  /\ UNCHANGED <<pc, driverVars, bus_state, keepcheck_count, resetVars, resets>>

TickWait ==
  /\ ButtonUp /\ Watching /\ led' = Blink
  /\ bus_state \in {2, 4}
  /\ IF bus_count <= BusTime * Hz
     THEN bus_count' = bus_count + 1 /\ UNCHANGED bus_state
     ELSE bus_count' = 0 /\ bus_state' = IF bus_state = 2 THEN 3 ELSE 0
  /\ UNCHANGED <<pc, driverVars, keepcheck_count, resetVars, resets>>

\* Wrong: the state moves on and the line stays low.
TickRaiseForgets ==
  /\ ButtonUp /\ Watching /\ led' = Blink
  /\ bus_state = 3 /\ bus_state' = 4
  /\ UNCHANGED <<pc, driverVars, bus_count, keepcheck_count, resetVars, resets>>

TickRaise ==
  /\ ButtonUp /\ Watching /\ led' = Blink
  /\ bus_state = 3 /\ bus_state' = 4
  /\ RaiseLine
  /\ UNCHANGED <<pc, driverVars, bus_count, keepcheck_count, resets>>

\* State 0 looks at the bus once a second (keepcheck_count = 0).
Checking == ButtonUp /\ Watching /\ led' = Blink /\ bus_state = 0

TickSkip ==
  /\ Checking /\ keepcheck_count > 0
  /\ keepcheck_count' = IF keepcheck_count >= Hz THEN 0 ELSE keepcheck_count + 1
  /\ UNCHANGED <<pc, driverVars, bus_state, bus_count, resetVars, resets>>
TickAlive ==
  /\ Checking /\ keepcheck_count = 0
  /\ status # "busy" /\ MayLookAlive
  /\ keepcheck_count' = 1
  /\ UNCHANGED <<pc, driverVars, bus_state, bus_count, resetVars, resets>>
\* Wrong: the bus is reset but the failure is not counted; nothing is done.
TickDeadUncounted ==
  /\ Checking /\ keepcheck_count = 0
  /\ status # "busy" /\ MayLookDead
  /\ keepcheck_count' = 1
  /\ bus_state' = 1
  /\ UNCHANGED <<pc, driverVars, bus_count, resetVars, resets>>
TickDeadIgnored ==
  /\ Checking /\ keepcheck_count = 0
  /\ status # "busy" /\ MayLookDead
  /\ keepcheck_count' = 1
  /\ UNCHANGED <<pc, driverVars, bus_state, bus_count, resetVars, resets>>

TickDead ==
  /\ Checking /\ keepcheck_count = 0
  /\ status # "busy" /\ MayLookDead
  /\ keepcheck_count' = 1
  /\ bus_state' = 1
  /\ failed_count' = failed_count + 1
  /\ UNCHANGED <<pc, deviceNumber, mapped, systeminit_reg, lvds_reg,
                 bus_count, resetVars, resets>>
\* A busy FPGA was reset and is to be initialised again.
TickRestart ==
  /\ Checking /\ keepcheck_count = 0
  /\ status \in {"busy", "bad"}
  /\ systeminit_reg' = {}
  /\ Goto(Timer, "status")
  /\ UNCHANGED <<deviceNumber, mapped, lvds_reg, failed_count, busVars, resetVars, resets>>

\* Wrong: the child unit is not initialised again.
RestartEndsNoChild ==
  /\ pc[Timer] \in Results /\ Running(Timer)
  /\ Goto(Timer, "idle")
  /\ keepcheck_count' = keepcheck_count + 1
  /\ IF pc[Timer] = "err"
     THEN bus_state' = 1 /\ failed_count' = failed_count + 1
     ELSE UNCHANGED <<bus_state, failed_count>>
  /\ UNCHANGED <<module, deviceNumber, mapped, systeminit_reg, lvds_reg, bus_count,
                 buttonVars, led, pout, resetVars, envVars, histVars>>

\* The end of the tick whose initialisation returned.
RestartEnds ==
  /\ pc[Timer] \in Results /\ Running(Timer)
  /\ Goto(Timer, "idle")
  /\ keepcheck_count' = keepcheck_count + 1
  /\ IF pc[Timer] = "ok" THEN SetShadow(ChildInit(systeminit_reg))
                         ELSE UNCHANGED <<systeminit_reg, hw_init>>
  /\ IF pc[Timer] = "err"
     THEN bus_state' = 1 /\ failed_count' = failed_count + 1
     ELSE UNCHANGED <<bus_state, failed_count>>
  /\ UNCHANGED <<module, deviceNumber, mapped, lvds_reg, bus_count, buttonVars,
                 led, pout, line, status, hw_lvds, numbered, envVars, histVars>>

Tick == \/ ButtonDown \/ TickIdle \/ TickGivenUp \/ TickLower \/ TickWait
        \/ TickRaise \/ TickSkip \/ TickAlive \/ TickDead \/ TickRestart

-----------------------------------------------------------------------------
Process(p) ==
  \/ DevicesInit(p) \/ InitFailed(p) \/ BusResetRelease(p) \/ BusResetRetry(p)
  \/ p \in Callers /\ (CallInit(p) \/ CallReturns(p))
  \/ p = Loader /\ (Load \/ LoadReturns)

Next ==
  \/ \E p \in Processes : Process(p)
  \/ Tick \/ DevicesInit(Timer) \/ RestartEnds
  \/ Unload
  \/ Hw

Spec == Init /\ [][Next]_vars

-----------------------------------------------------------------------------
\* Fairness: the timer re-arms itself (mod_timer) and a softirq runs to its
\* end; a process asleep in the initialisation wakes up; a healthy FPGA
\* answers, a broken bus is repaired; and the uninitialised byte compared
\* with deviceNumber for a slot that is not mapped is not for ever equal to it.
TimerFairness ==
  /\ WF_vars(Tick) /\ WF_vars(DevicesInit(Timer) \/ RestartEnds)
  /\ SF_vars(TickDead)
HwFairness ==
  /\ WF_vars(Hw /\ HwNumber) /\ WF_vars(Hw /\ HwInterrupt)
  /\ WF_vars(Hw /\ HwRepair)
ProcessFairness ==
  \A p \in Processes :
    WF_vars(/\ pc[p] # "idle" /\ Process(p))
FairSpec == Spec /\ TimerFairness /\ HwFairness /\ ProcessFairness

\* The timer's resets keep the promise of BusRecovery, as long as no process
\* resets the bus on its own (DriverResetHardware # 2).
Phase == CASE module = "absent"    -> "off"
           [] module # "absent" /\ bus_state = 0 -> "watch"
           [] bus_state = 1        -> "failed"
           [] bus_state \in {2, 3} -> "held"
           [] bus_state = 4        -> "released"
Recovery == INSTANCE BusRecovery WITH phase <- Phase, failures <- failed_count
ImplementsRecovery == Recovery!Spec
ResetsAnswerFailures == Recovery!ResetsAnswerFailures

\* While the module is loaded and no process resets the bus by itself, the
\* line is low exactly in the states 2 and 3 of the timer's reset sequence.
ResetLineInv ==
  module = "loaded" => (line = "low" <=> bus_state \in {2, 3})

\* The inductive invariant behind it.
RecoveryInv ==
  /\ ResetsAnswerFailures
  /\ \A a \in Actors :
       pc[a] \notin Waits /\ (pc[a] # "idle" => module # "absent")
  /\ pc[Timer] # "idle" => bus_state = 0
  /\ module = "absent" => bus_state = 0 /\ resets = 0
  /\ bus_state \notin {2, 4} => bus_count = 0
  /\ bus_state = 2 => low_ticks >= bus_count
  /\ bus_state = 3 => low_ticks >= 2 * Hz

\* The timer holds the FPGA in reset for two seconds at least, whatever
\* happens between the tick that lowers the line and the one that raises it.
FullResetPulse ==
  [][module = "loaded" /\ line = "low" /\ line' = "high"
       => low_ticks >= 2 * Hz]_vars

\* The FPGA numbers the devices with their interrupt line off.
InterruptOffWhileNumbering == Numberable => "SETINTERRUPT" \notin hw_init

\* With DriverResetHardware = 2 the failures counted by the timer and by the
\* loading drivers together pass the limit by two at most: the timer's last
\* one and the one that makes a process reboot the controller.
FailuresBounded ==
  DriverResetHardware = 2 => failed_count <= FailedMax + 2

\* The bus works: the reset sequence is over, every device is mapped and
\* holds the number that the driver read.
Up == /\ bus_state = 0 /\ line = "high"
      /\ Expected \subseteq mapped
      /\ Stacked => numbered = deviceNumber
GivenUp == failed_count > FailedMax \/ shutdown_sequence = 1 \/ pout

\* When no initialisation runs, a controller that was numbered shows the bits
\* of the driver's shadow, and the child unit is powered and initialised.
Quiet == module = "loaded" /\ \A a \in Actors : pc[a] = "idle"
ChildUnitOn ==
  Quiet /\ Up /\ status = "int_end" /\ shutdown_sequence = 0
    => hw_init = systeminit_reg /\ ChildInit(hw_init) = hw_init

\* A bus whose faults end works again for good, or recovery was given up.
Recovers == <>[](module = "loaded" => Up \/ GivenUp)

\* A reset that began ends, unless recovery is given up or the module goes.
ResetEnds ==
  module = "loaded" /\ line = "low"
    ~> (line = "high" \/ GivenUp \/ module = "removed")

\* "LVDS OFF" (the comment on the button's first tick): on a new FPGA the
\* LVDS power is off once the shutdown sequence began.
LvdsOffInShutdown == shutdown_sequence = 1 /\ FpgaVer > 1 => ~hw_lvds

\* "reset_button_check_mode enable only" (the description of the parameter
\* push_reset_button_shutdown_enable): a button push shuts the controller
\* down only in the check mode.
PoweroffOnlyInCheckMode == poweroff => ButtonCheckMode

\* "If the controller IC is not repaired, cps-driver reboots own controller"
\* (Readme, Ver 1.6.1.0): past the failure limit the controller is rebooted.
RebootsUnrepaired ==
  module = "loaded" /\ failed_count > FailedMax ~> pout \/ module = "removed"

=============================================================================
