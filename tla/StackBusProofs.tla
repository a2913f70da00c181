--------------------------- MODULE StackBusProofs ---------------------------
(***************************************************************************)
(* Proofs about StackBus for every stack size, tick rate, failure limit    *)
(* and child unit, and for every set of calling drivers unless it says     *)
(* otherwise: its type, the timer's reset sequence and what it refines,    *)
(* how many failures there can be, the bits that the register shows, and   *)
(* how long a recovery takes.                                              *)
(***************************************************************************)
EXTENDS StackBus, TLAPS

USE DEF Loader, Timer

(***************************************************************************)
(* Type correctness.                                                       *)
(***************************************************************************)

\* keepcheck_count stays within Hz only because a tick that runs the
\* initialisation started it at 0, and nothing counts until it returns.
TypeInv == TypeOK /\ (pc[Timer] # "idle" => keepcheck_count = 0)

LEMMA InitType == Init => TypeInv
<1> SUFFICES ASSUME Init PROVE TypeInv
  OBVIOUS
<1> USE ConstantsAssumption DEF Init
<1>1. Counts \subseteq Nat /\ hw_count \in Nat
  OBVIOUS
<1>2. pc \in [Actors -> PCs] /\ (pc[Timer] # "idle" => keepcheck_count = 0)
  BY DEF Actors, PCs
<1>3. 0 \in 0..Hz /\ 0 \in 0..(2 * Hz + 1) /\ 0 \in 0..LowCap /\ 0 \in 0..MaxFaults
  BY DEF LowCap
<1>4. status \in Statuses
  BY DEF Statuses
<1>5. led \in [enable : {0, 2}, count : 0..Hz, lit : BOOLEAN]
  BY <1>3
<1>6. mapped \subseteq 0..(MaxDevices - 1) /\ systeminit_reg \subseteq InitBits
      /\ hw_init \subseteq InitBits
  OBVIOUS
<1>7. /\ module = "absent" /\ line \in {"low", "high"}
      /\ deviceNumber \in Nat /\ failed_count \in Nat /\ bus_state \in 0..4
      /\ bus_count \in 0..(2 * Hz + 1) /\ keepcheck_count \in 0..Hz
      /\ reset_count \in Nat /\ shutdown_sequence \in {0, 1}
      /\ numbered \in Nat /\ faults \in 0..MaxFaults
      /\ low_ticks \in 0..LowCap /\ resets \in Nat
  BY <1>3
<1>8. /\ lvds_reg \in BOOLEAN /\ hw_lvds \in BOOLEAN /\ poweroff \in BOOLEAN
      /\ pout \in BOOLEAN /\ hw_ok \in BOOLEAN
  OBVIOUS
<1> HIDE DEF Init
<1>9. TypeOK
  BY <1>1, <1>2, <1>4, <1>5, <1>6, <1>7, <1>8 DEF TypeOK
<1>10. QED
  BY <1>2, <1>9 DEF TypeInv

\* Moving one actor keeps pc well typed, and the timer where it was unless
\* the timer is the one that moves.
LEMMA GotoType ==
  ASSUME NEW a \in Actors, NEW stage \in PCs, pc \in [Actors -> PCs],
         Goto(a, stage)
  PROVE  /\ pc' \in [Actors -> PCs]
         /\ pc'[a] = stage
         /\ \A b \in Actors : b # a => pc'[b] = pc[b]
BY DEF Goto

LEMMA TimerIsActor == Timer \in Actors /\ Loader \in Actors /\ Timer \notin Processes
BY ConstantsAssumption DEF Actors, Processes

LEMMA StepsOfInit == \A a \in Actors : DevicesInit(a) =>
         UNCHANGED <<module, timerVars, pout, hw_count, hw_ok, histVars,
                     failed_count, line>>
BY DEF DevicesInit, ReadStatus, SetReset, Poll, PollTimeout, ReadCount,
       RecheckFails, MapDevices, SetInterruptLine, CheckAlive,
       KeepTimer, driverVars, resetVars, envVars

LEMMA DevicesInitType ==
  ASSUME TypeInv, NEW a \in Actors, DevicesInit(a)
  PROVE  TypeInv'
<1> USE DEF TypeInv
<1>1. pc \in [Actors -> PCs]
  BY DEF TypeOK
<1>2. UNCHANGED <<module, timerVars, pout, hw_count, hw_ok, histVars,
                  failed_count, line>>
  BY StepsOfInit
<1>3. /\ pc' \in [Actors -> PCs]
      /\ pc[a] # "idle" /\ \A b \in Actors : b # a => pc'[b] = pc[b]
  BY <1>1 DEF DevicesInit, ReadStatus, SetReset, Poll, PollTimeout, ReadCount,
       RecheckFails, MapDevices, SetInterruptLine, CheckAlive, Goto, At,
       PollDone, PCs, Stages, Results
<1>4. deviceNumber' \in Nat
  BY ConstantsAssumption DEF DevicesInit, ReadStatus, SetReset, Poll,
       PollTimeout, ReadCount, RecheckFails, MapDevices, SetInterruptLine,
       CheckAlive, driverVars, CountReads, TypeOK
<1>5. mapped' \subseteq 0..(MaxDevices - 1)
  BY ConstantsAssumption DEF DevicesInit, ReadStatus, SetReset, Poll,
       PollTimeout, ReadCount, RecheckFails, MapDevices, SetInterruptLine,
       CheckAlive, driverVars, TypeOK, Alloc, Slots
<1>6. systeminit_reg' \subseteq InitBits /\ hw_init' \subseteq InitBits
  BY DEF DevicesInit, ReadStatus, SetReset, Poll,
       PollTimeout, ReadCount, RecheckFails, MapDevices, SetInterruptLine,
       CheckAlive, driverVars, resetVars, TypeOK, InitBits, WriteInit
<1>7. lvds_reg' \in BOOLEAN /\ hw_lvds' \in BOOLEAN
  BY DEF DevicesInit, ReadStatus, SetReset, Poll,
       PollTimeout, ReadCount, RecheckFails, MapDevices, SetInterruptLine,
       CheckAlive, driverVars, resetVars, TypeOK, WriteLvds
<1>8. status' \in Statuses /\ numbered' \in Nat
  BY DEF DevicesInit, ReadStatus, SetReset, Poll,
       PollTimeout, ReadCount, RecheckFails, MapDevices, SetInterruptLine,
       CheckAlive, resetVars, TypeOK
<1>9. faults' \in 0..MaxFaults
  BY ConstantsAssumption DEF DevicesInit, ReadStatus, SetReset, Poll,
       PollTimeout, ReadCount, RecheckFails, MapDevices, SetInterruptLine,
       CheckAlive, TypeOK, KeepTimer, envVars, Alloc
<1>10. QED
  BY <1>1, <1>2, <1>3, <1>4, <1>5, <1>6, <1>7, <1>8, <1>9, TimerIsActor
  DEF TypeOK, timerVars, busVars, buttonVars, histVars

\* The child unit's programs only touch the bits of the register.
LEMMA ChildInitBits ==
  ASSUME NEW bits \in SUBSET InitBits PROVE ChildInit(bits) \subseteq InitBits
BY ChildAssumption DEF ChildInit, ChildUnits, InitBits

LEMMA ChildExitBits ==
  ASSUME NEW bits \in SUBSET InitBits PROVE ChildExit(bits) \subseteq InitBits
BY ChildAssumption DEF ChildExit, ChildUnits, InitBits

LEMMA InitFailedType ==
  ASSUME TypeInv, NEW p \in Processes, InitFailed(p)
  PROVE  TypeInv'
<1>1. p \in Actors /\ p # Timer
  BY ConstantsAssumption DEF Processes, Actors
<1>2. /\ failed_count' = failed_count + 1
      /\ UNCHANGED <<deviceNumber, mapped, systeminit_reg, lvds_reg,
                     timerVars, envVars, histVars>>
  BY DEF InitFailed
<1>3. pc' = pc \/ Goto(p, "idle") \/ Goto(p, "bus_low")
  BY DEF InitFailed
<1>4. pc' \in [Actors -> PCs] /\ pc'[Timer] = pc[Timer]
  BY <1>1, <1>3, TimerIsActor DEF Goto, PCs, Waits, TypeInv, TypeOK
<1>5. failed_count' \in Nat
  BY <1>2 DEF TypeInv, TypeOK
<1>6. UNCHANGED resetVars \/ LowerLine
  BY DEF InitFailed
<1>7. /\ line' \in {"low", "high"} /\ status' \in Statuses /\ numbered' \in Nat
      /\ hw_init' \subseteq InitBits /\ hw_lvds' \in BOOLEAN
  <2>1. CASE LowerLine
    BY <2>1 DEF LowerLine, Statuses
  <2>2. CASE UNCHANGED resetVars
    BY <2>2 DEF resetVars, TypeInv, TypeOK
  <2>3. QED
    BY <1>6, <2>1, <2>2
<1>8. module' \in {"absent", "loading", "loaded", "failed", "removed"}
  BY DEF InitFailed, TypeInv, TypeOK
<1>9. pout' \in BOOLEAN
  <2>1. pout' = pout \/ pout'
    BY DEF InitFailed, resetVars
  <2>2. QED
    BY <2>1, Zenon DEF TypeInv, TypeOK
<1>10. QED
  BY <1>2, <1>4, <1>5, <1>7, <1>8, <1>9
  DEF TypeInv, TypeOK, timerVars, buttonVars, busVars, envVars, histVars

\* What the processes do around the initialisation.
LEMMA ProcessType ==
  ASSUME TypeInv, NEW p \in Processes, Process(p)
  PROVE  TypeInv'
<1> USE ConstantsAssumption DEF TypeInv, TypeOK
<1>1. p \in Actors /\ p # Timer /\ Loader \in Actors
  BY DEF Processes, Actors
<1>2. CASE DevicesInit(p)
  BY <1>1, <1>2, DevicesInitType
<1> USE DEF PCs, Stages, Results, Waits, Goto, At, Running, KeepTimer,
            driverVars, resetVars, timerVars, buttonVars, busVars, envVars, histVars
<1>3. CASE InitFailed(p)
  BY <1>1, <1>3, InitFailedType
<1>4. CASE BusResetRelease(p)
  <2>1. status' \in Statuses
    BY <1>4 DEF BusResetRelease, RaiseLine, Statuses
  <2>2. pc' \in [Actors -> PCs] /\ pc'[Timer] = pc[Timer]
    BY <1>1, <1>4 DEF BusResetRelease
  <2>3. QED
    BY <1>4, <2>1, <2>2 DEF BusResetRelease, RaiseLine
<1>5. CASE BusResetRetry(p)
  BY <1>1, <1>5 DEF BusResetRetry
<1>6. CASE CallInit(p)
  BY <1>1, <1>6 DEF CallInit
<1>7. CASE CallReturns(p)
  BY <1>1, <1>7 DEF CallReturns
<1>8. CASE p = Loader /\ Load
  <2>1. status' \in Statuses
    BY <1>8 DEF Load, RaiseLine, Statuses
  <2>2. pc' \in [Actors -> PCs] /\ pc'[Timer] = pc[Timer]
    BY <1>1, <1>8 DEF Load
  <2>3. QED
    BY <1>8, <2>1, <2>2 DEF Load, RaiseLine
<1>9. CASE p = Loader /\ LoadReturns
  <2>1. systeminit_reg' \subseteq InitBits /\ hw_init' \subseteq InitBits
    BY <1>9, ChildInitBits DEF LoadReturns, SetShadow, WriteInit
  <2>2. pc' \in [Actors -> PCs] /\ pc'[Timer] = pc[Timer]
    BY <1>1, <1>9 DEF LoadReturns
  <2>3. module' \in {"absent", "loading", "loaded", "failed", "removed"}
    BY <1>9 DEF LoadReturns
  <2>4. QED
    BY <1>9, <2>1, <2>2, <2>3 DEF LoadReturns
<1>10. QED
  BY <1>2, <1>3, <1>4, <1>5, <1>6, <1>7, <1>8, <1>9 DEF Process

LEMMA UnloadType == TypeInv /\ Unload => TypeInv'
<1> SUFFICES ASSUME TypeInv, Unload PROVE TypeInv'
  OBVIOUS
<1>1. systeminit_reg' \subseteq InitBits /\ hw_init' \subseteq InitBits
  BY ChildExitBits DEF TypeInv, TypeOK, Unload, SetShadow, WriteInit
<1>2. QED
  BY <1>1 DEF TypeInv, TypeOK, Unload, timerVars, buttonVars, busVars, envVars, histVars

LEMMA HwType == TypeInv /\ Hw => TypeInv'
<1> SUFFICES ASSUME TypeInv, Hw PROVE TypeInv'
  OBVIOUS
<1> USE ConstantsAssumption DEF TypeInv, TypeOK
<1>1. status' \in Statuses
  BY DEF Hw, HwNumber, HwInterrupt, HwFault, HwRepair, Statuses, resetVars
<1>2. faults' \in 0..MaxFaults /\ hw_count' \in Nat
  <2>1. CASE HwFault
    BY <2>1 DEF HwFault
  <2>2. CASE ~HwFault
    BY <2>2 DEF Hw, HwRepair, envVars
  <2>3. QED
    BY <2>1, <2>2
<1>3. hw_ok' \in BOOLEAN
  BY DEF Hw, HwNumber, HwInterrupt, HwFault, HwRepair, envVars
<1>4. UNCHANGED <<line, hw_init, hw_lvds, numbered>>
  BY DEF Hw, HwNumber, HwInterrupt, HwFault, HwRepair, resetVars
<1>5. QED
  BY <1>1, <1>2, <1>3, <1>4
  DEF Hw, driverVars, timerVars, buttonVars, busVars, histVars

\* Every tick moves the history counter and the LED within their ranges.
LEMMA TickingType ==
  ASSUME TypeInv, Ticking
  PROVE  low_ticks' \in 0..LowCap /\ keepcheck_count \in 0..Hz /\ pc[Timer] = "idle"
<1>1. LowCap \in Nat /\ low_ticks \in 0..LowCap /\ keepcheck_count \in 0..Hz
  BY ConstantsAssumption DEF LowCap, TypeInv, TypeOK
<1>2. low_ticks' = 0 \/ (low_ticks < LowCap /\ low_ticks' = low_ticks + 1)
                    \/ low_ticks' = LowCap
  BY DEF Ticking
<1>3. low_ticks' \in 0..LowCap
  BY <1>1, <1>2
<1>4. QED
  BY <1>1, <1>3 DEF Ticking, At

LEMMA BlinkType ==
  ASSUME TypeInv
  PROVE  /\ Blink \in [enable : {0, 2}, count : 0..Hz, lit : BOOLEAN]
         /\ [Blink EXCEPT !.enable = 2] \in [enable : {0, 2}, count : 0..Hz, lit : BOOLEAN]
<1>1. led \in [enable : {0, 2}, count : 0..Hz, lit : BOOLEAN] /\ Hz \in Nat
  BY ConstantsAssumption DEF TypeInv, TypeOK
<1>2. Blink \in [enable : {0, 2}, count : 0..Hz, lit : BOOLEAN]
  <2>1. CASE led.enable # 2
    BY <1>1, <2>1 DEF Blink
  <2>2. CASE led.enable = 2 /\ led.count >= Hz
    <3>1. Blink = [led EXCEPT !.lit = ~@, !.count = 0]
      BY <2>2 DEF Blink
    <3>2. (~led.lit) \in BOOLEAN
      OBVIOUS
    <3>3. Blink = [enable |-> led.enable, count |-> 0, lit |-> ~led.lit]
      BY <1>1, <3>1
    <3>4. QED
      BY <1>1, <3>2, <3>3
  <2>3. CASE led.enable = 2 /\ ~(led.count >= Hz)
    <3>1. Blink = [led EXCEPT !.count = @ + 1] /\ led.count + 1 \in 0..Hz
      BY <1>1, <2>3 DEF Blink
    <3>2. QED
      BY <1>1, <3>1
  <2>4. QED
    BY <2>1, <2>2, <2>3
<1>3. QED
  BY <1>2

\* The part of the type that a tick with the button up can disturb by itself.
LEMMA ButtonUpType ==
  ASSUME TypeInv, ButtonUp
  PROVE  /\ reset_count' \in Nat /\ shutdown_sequence' \in {0, 1}
         /\ poweroff' \in BOOLEAN /\ pout' \in BOOLEAN
         /\ low_ticks' \in 0..LowCap /\ pc[Timer] = "idle"
         /\ UNCHANGED <<module, envVars>>
<1>1. Ticking
  BY DEF ButtonUp
<1>2. reset_count' \in Nat /\ shutdown_sequence' \in {0, 1}
  <2>1. reset_count' \in {0, reset_count} /\ shutdown_sequence' = shutdown_sequence
    BY DEF ButtonUp, buttonVars
  <2>2. QED
    BY <2>1 DEF TypeInv, TypeOK
<1>3. poweroff' \in BOOLEAN
  BY DEF ButtonUp, buttonVars, TypeInv, TypeOK
<1>4. pout' \in BOOLEAN
  BY DEF ButtonUp, TypeInv, TypeOK
<1>5. QED
  BY <1>1, <1>2, <1>3, <1>4, TickingType DEF Ticking

LEMMA TickType == TypeInv /\ Tick => TypeInv'
<1> SUFFICES ASSUME TypeInv, Tick PROVE TypeInv'
  OBVIOUS
<1> USE ConstantsAssumption
<1> USE DEF driverVars, resetVars, busVars, envVars
<1>1. CASE ButtonDown
  <2>1. low_ticks' \in 0..LowCap /\ pc[Timer] = "idle"
    BY <1>1, TickingType DEF ButtonDown
  <2>2. led' \in [enable : {0, 2}, count : 0..Hz, lit : BOOLEAN]
    BY <1>1, BlinkType DEF ButtonDown
  <2>3. /\ systeminit_reg' \subseteq InitBits /\ hw_init' \subseteq InitBits
        /\ hw_lvds' \in BOOLEAN
    BY <1>1 DEF ButtonDown, WriteInit, WriteLvds, TypeInv, TypeOK
  <2>4. pout' \in BOOLEAN /\ poweroff' \in BOOLEAN
    BY <1>1 DEF ButtonDown, TypeInv, TypeOK
  <2>5. reset_count' \in Nat
    BY <1>1 DEF ButtonDown, TypeInv, TypeOK
  <2>6. /\ UNCHANGED <<module, pc, deviceNumber, mapped, lvds_reg, failed_count>>
        /\ UNCHANGED <<bus_state, bus_count, keepcheck_count>>
        /\ UNCHANGED <<line, status, numbered, resets, hw_count, hw_ok, faults>>
        /\ shutdown_sequence' = 1
    BY <1>1 DEF ButtonDown, Ticking
  <2>7. lvds_reg' \in BOOLEAN /\ hw_ok' \in BOOLEAN
    BY <2>6 DEF TypeInv, TypeOK
  <2>8. pc' \in [Actors -> PCs] /\ (pc'[Timer] # "idle" => keepcheck_count' = 0)
    BY <2>1, <2>6 DEF TypeInv, TypeOK
  <2>9. TypeOK'
    BY <2>1, <2>2, <2>3, <2>4, <2>5, <2>6, <2>7, <2>8 DEF TypeInv, TypeOK
  <2>10. QED
    BY <2>8, <2>9 DEF TypeInv
<1>2. CASE TickIdle
  BY <1>2, ButtonUpType, BlinkType DEF TickIdle, TypeInv, TypeOK
<1>3. CASE TickGivenUp
  BY <1>3, ButtonUpType, BlinkType DEF TickGivenUp, TypeInv, TypeOK
<1>4. CASE TickLower
  <2>1. /\ systeminit_reg' \subseteq InitBits /\ hw_init' \subseteq InitBits
        /\ status' \in Statuses
    BY <1>4 DEF TickLower, LowerLine, Statuses, TypeInv, TypeOK
  <2>2. ButtonUp /\ led' = Blink /\ bus_state' = 2 /\ resets' = resets + 1
    BY <1>4 DEF TickLower
  <2>3. line' = "low" /\ hw_lvds' = FALSE /\ numbered' = 0
    BY <1>4 DEF TickLower, LowerLine
  <2>4. UNCHANGED <<pc, deviceNumber, mapped, lvds_reg, failed_count,
                    bus_count, keepcheck_count>>
    BY <1>4 DEF TickLower
  <2>5. /\ bus_state' \in 0..4 /\ resets' \in Nat /\ numbered' \in Nat
        /\ line' \in {"low", "high"}
    BY <2>2, <2>3 DEF TypeInv, TypeOK
  <2>6. /\ led' \in [enable : {0, 2}, count : 0..Hz, lit : BOOLEAN]
        /\ hw_ok' \in BOOLEAN
    BY <2>2, BlinkType, ButtonUpType DEF TypeInv, TypeOK
  <2>7. hw_lvds' \in BOOLEAN /\ lvds_reg' \in BOOLEAN
    BY <2>3, <2>4 DEF TypeInv, TypeOK
  <2>8. QED
    BY <2>1, <2>2, <2>4, <2>5, <2>6, <2>7, ButtonUpType DEF TypeInv, TypeOK
<1>5. CASE TickWait
  <2>1. bus_count' \in 0..(2 * Hz + 1) /\ bus_state' \in 0..4
    <3>1. CASE bus_state = 2
      BY <1>5, <3>1 DEF TickWait, BusTime, TypeInv, TypeOK
    <3>2. CASE bus_state = 4
      BY <1>5, <3>2 DEF TickWait, BusTime, TypeInv, TypeOK
    <3>3. QED
      BY <1>5, <3>1, <3>2 DEF TickWait
  <2>2. QED
    BY <1>5, <2>1, ButtonUpType, BlinkType DEF TickWait, TypeInv, TypeOK
<1>6. CASE TickRaise
  <2>1. status' \in Statuses
    BY <1>6 DEF TickRaise, RaiseLine, Statuses, TypeInv, TypeOK
  <2>2. QED
    BY <1>6, <2>1, ButtonUpType, BlinkType DEF TickRaise, RaiseLine, TypeInv, TypeOK
<1>7. CASE TickSkip
  <2>1. keepcheck_count' \in 0..Hz
    BY <1>7 DEF TickSkip, TypeInv, TypeOK
  <2>2. QED
    BY <1>7, <2>1, ButtonUpType, BlinkType DEF TickSkip, Checking, TypeInv, TypeOK
<1>8. CASE TickAlive
  BY <1>8, ButtonUpType, BlinkType DEF TickAlive, Checking, TypeInv, TypeOK
<1>9. CASE TickDead
  <2>1. failed_count' \in Nat /\ keepcheck_count' \in 0..Hz
    BY <1>9 DEF TickDead, TypeInv, TypeOK
  <2>2. QED
    BY <1>9, <2>1, ButtonUpType, BlinkType DEF TickDead, Checking, TypeInv, TypeOK
<1>10. CASE TickRestart
  <2>1. pc' \in [Actors -> PCs]
    BY <1>10 DEF TickRestart, Goto, PCs, Stages, TypeInv, TypeOK
  <2>2. systeminit_reg' \subseteq InitBits /\ keepcheck_count' = 0
    BY <1>10 DEF TickRestart
  <2>3. QED
    BY <1>10, <2>1, <2>2, ButtonUpType, BlinkType DEF TickRestart, Checking, TypeInv, TypeOK
<1>11. QED
  BY <1>1, <1>2, <1>3, <1>4, <1>5, <1>6, <1>7, <1>8, <1>9, <1>10 DEF Tick

LEMMA RestartEndsType == TypeInv /\ RestartEnds => TypeInv'
<1> SUFFICES ASSUME TypeInv, RestartEnds PROVE TypeInv'
  OBVIOUS
<1>1. pc' \in [Actors -> PCs] /\ pc'[Timer] = "idle" /\ keepcheck_count = 0
  BY TimerIsActor DEF RestartEnds, Goto, PCs, Results, TypeInv, TypeOK
<1>2. keepcheck_count' \in 0..Hz
  BY <1>1, ConstantsAssumption DEF RestartEnds
<1>3. systeminit_reg' \subseteq InitBits /\ hw_init' \subseteq InitBits
  BY ChildInitBits DEF RestartEnds, SetShadow, WriteInit, TypeInv, TypeOK
<1>4. bus_state' \in 0..4 /\ failed_count' \in Nat
  BY DEF RestartEnds, TypeInv, TypeOK
<1>5. QED
  BY <1>1, <1>2, <1>3, <1>4
  DEF RestartEnds, TypeInv, TypeOK, buttonVars, envVars, histVars

LEMMA TypeStep == TypeInv /\ [Next]_vars => TypeInv'
<1> SUFFICES ASSUME TypeInv, [Next]_vars PROVE TypeInv'
  OBVIOUS
<1>1. CASE \E p \in Processes : Process(p)
  BY <1>1, ProcessType
<1>2. CASE Tick
  BY <1>2, TickType
<1>3. CASE DevicesInit(Timer)
  BY <1>3, DevicesInitType, TimerIsActor
<1>4. CASE RestartEnds
  BY <1>4, RestartEndsType
<1>5. CASE Unload
  BY <1>5, UnloadType
<1>6. CASE Hw
  BY <1>6, HwType
<1>7. CASE UNCHANGED vars
  BY <1>7 DEF TypeInv, TypeOK, vars, driverVars, timerVars, buttonVars,
              busVars, resetVars, envVars, histVars
<1>8. QED
  BY <1>1, <1>2, <1>3, <1>4, <1>5, <1>6, <1>7 DEF Next

\* Every variable of the driver and of the FPGA keeps its type whatever the
\* stack, the tick rate, the child unit and the calling drivers are; the
\* counters the timer compares with Hz stay within its limits.
THEOREM TypeCorrect == Spec => []TypeOK
<1>1. Init => TypeInv
  BY InitType
<1>2. TypeInv => TypeOK
  BY DEF TypeInv
<1>3. QED
  BY <1>1, <1>2, TypeStep, PTL DEF Spec

-----------------------------------------------------------------------------
(***************************************************************************)
(* The resets of the timer, when no process resets the bus on its own.     *)
(***************************************************************************)

\* The phase that a state of the timer's reset sequence stands for.
LEMMA PhaseOf ==
  ASSUME bus_state \in 0..4, module = "absent" => bus_state = 0
  PROVE  Phase = IF module = "absent" THEN "off"
                 ELSE IF bus_state = 0 THEN "watch"
                 ELSE IF bus_state = 1 THEN "failed"
                 ELSE IF bus_state = 4 THEN "released" ELSE "held"
BY DEF Phase

\* RecoveryInv without the abstraction.
Sequence ==
  /\ resets <= failed_count /\ resets <= FailedMax
  /\ bus_state = 1 => resets < failed_count
  /\ module # "absent" => (line = "low" <=> bus_state \in {2, 3})

LEMMA SequenceIs ==
  ASSUME bus_state \in 0..4, module = "absent" => bus_state = 0
  PROVE  ResetsAnswerFailures <=> Sequence
BY PhaseOf DEF ResetsAnswerFailures, Recovery!ResetsAnswerFailures, Sequence

\* The same of the state after a step.
LEMMA PhaseOfNext ==
  ASSUME bus_state' \in 0..4, module' = "absent" => bus_state' = 0
  PROVE  Phase' = IF module' = "absent" THEN "off"
                  ELSE IF bus_state' = 0 THEN "watch"
                  ELSE IF bus_state' = 1 THEN "failed"
                  ELSE IF bus_state' = 4 THEN "released" ELSE "held"
BY DEF Phase

LEMMA SequenceIsNext ==
  ASSUME bus_state' \in 0..4, module' = "absent" => bus_state' = 0
  PROVE  ResetsAnswerFailures' <=> Sequence'
BY PhaseOfNext DEF ResetsAnswerFailures, Recovery!ResetsAnswerFailures, Sequence

\* What the timer's reset sequence reads and writes.
sequenceVars == <<bus_state, bus_count, line, low_ticks, failed_count, resets>>

LEMMA DevicesInitPc ==
  ASSUME TypeInv, NEW a \in Actors, DevicesInit(a)
  PROVE  /\ pc[a] # "idle" /\ pc'[a] \notin Waits
         /\ \A b \in Actors : b # a => pc'[b] = pc[b]
BY DEF DevicesInit, ReadStatus, SetReset, Poll, PollTimeout, ReadCount,
       RecheckFails, MapDevices, SetInterruptLine, CheckAlive, Goto, At,
       PollDone, Waits, Stages, TypeInv, TypeOK

LEMMA InitDoesRecovery == Init => RecoveryInv
<1> SUFFICES ASSUME Init PROVE RecoveryInv
  OBVIOUS
<1>1. bus_state = 0 /\ module = "absent" /\ Sequence
  BY ConstantsAssumption DEF Init, Sequence
<1>2. ResetsAnswerFailures
  BY <1>1, SequenceIs
<1>3. \A a \in Actors : pc[a] = "idle"
  BY DEF Init
<1>4. QED
  BY <1>2, <1>3, TimerIsActor DEF Init, RecoveryInv, Waits

\* A step that leaves the reset sequence and the presence of the module
\* alone, and keeps the timer idle unless it was already at work.
LEMMA QuietStep ==
  ASSUME TypeInv, RecoveryInv, UNCHANGED sequenceVars,
         module' = "absent" <=> module = "absent",
         \A a \in Actors :
           pc'[a] \notin Waits /\ (pc'[a] # "idle" => module # "absent"),
         pc'[Timer] # "idle" => bus_state = 0
  PROVE  RecoveryInv'
<1>1. bus_state \in 0..4
  BY DEF TypeInv, TypeOK
<1>2. Sequence
  BY <1>1, SequenceIs DEF RecoveryInv
<1>3. Sequence'
  BY <1>2 DEF Sequence, sequenceVars
<1>4. bus_state' \in 0..4 /\ (module' = "absent" => bus_state' = 0)
  BY <1>1 DEF RecoveryInv, sequenceVars
<1>5. ResetsAnswerFailures'
  BY <1>3, <1>4, SequenceIsNext
<1>6. QED
  BY <1>5 DEF RecoveryInv, sequenceVars

LEMMA ProcessRecovery ==
  ASSUME DriverResetHardware # 2, TypeInv, RecoveryInv,
         NEW p \in Processes, Process(p)
  PROVE  RecoveryInv'
<1>1. p \in Actors /\ p # Timer /\ Loader \in Actors /\ Timer \in Actors
      /\ pc \in [Actors -> PCs]
  BY ConstantsAssumption DEF Processes, Actors, TypeInv, TypeOK
<1>2. \A a \in Actors : pc[a] \notin Waits /\ (pc[a] # "idle" => module # "absent")
  BY DEF RecoveryInv
<1>3. CASE DevicesInit(p)
  <2>1. UNCHANGED <<module, sequenceVars>>
    BY <1>1, <1>3, StepsOfInit DEF sequenceVars, timerVars, busVars, histVars
  <2>2. /\ \A a \in Actors :
             pc'[a] \notin Waits /\ (pc'[a] # "idle" => pc[a] # "idle")
        /\ pc'[Timer] = pc[Timer]
    BY <1>1, <1>2, <1>3, DevicesInitPc
  <2>3. QED
    BY <2>1, <2>2, QuietStep DEF RecoveryInv
<1>4. CASE InitFailed(p)
  <2>1. /\ pc' = pc \/ Goto(p, "idle")
        /\ line' = line /\ failed_count' = failed_count + 1
        /\ UNCHANGED <<bus_state, bus_count, low_ticks, resets>>
        /\ module' \in {module, "failed"} /\ pc[p] = "err"
    BY <1>4 DEF InitFailed, At, resetVars, timerVars, busVars, histVars
  <2>2. module # "absent"
    BY <1>1, <2>1 DEF RecoveryInv
  <2>3. /\ \A a \in Actors :
             pc'[a] \notin Waits /\ (pc'[a] # "idle" => pc[a] # "idle")
        /\ pc'[Timer] = pc[Timer]
    BY <1>1, <1>2, <2>1 DEF Goto, Waits
  <2>4. bus_state \in 0..4 /\ failed_count \in Nat /\ resets \in Nat
    BY DEF TypeInv, TypeOK
  <2>5. Sequence
    BY <2>4, SequenceIs DEF RecoveryInv
  <2>6. Sequence'
    BY <2>1, <2>2, <2>4, <2>5 DEF Sequence
  <2>7. bus_state' \in 0..4 /\ (module' = "absent" => bus_state' = 0)
    BY <2>1, <2>4 DEF RecoveryInv
  <2>8. ResetsAnswerFailures'
    BY <2>6, <2>7, SequenceIsNext
  <2>9. QED
    BY <2>1, <2>2, <2>3, <2>8 DEF RecoveryInv
<1>5. CASE BusResetRelease(p) \/ BusResetRetry(p)
  BY <1>1, <1>2, <1>5 DEF BusResetRelease, BusResetRetry, At, Waits
<1>6. CASE p \in Callers /\ (CallInit(p) \/ CallReturns(p))
  <2>1. UNCHANGED <<module, sequenceVars>>
    BY <1>6 DEF CallInit, CallReturns, KeepTimer, driverVars, resetVars,
                sequenceVars, timerVars, busVars, histVars
  <2>2. Goto(p, "status") \/ Goto(p, "idle")
    BY <1>6 DEF CallInit, CallReturns
  <2>3. module = "loaded" \/ pc[p] \in {"ok", "enomem"}
    BY <1>6 DEF CallInit, CallReturns
  <2>4. module # "absent"
    BY <1>1, <1>2, <2>3
  <2>5. /\ \A a \in Actors : pc'[a] \notin Waits
        /\ pc'[Timer] = pc[Timer]
    BY <1>1, <1>2, <2>2 DEF Goto, Waits
  <2>6. QED
    BY <2>1, <2>4, <2>5, QuietStep DEF RecoveryInv
<1>7. CASE p = Loader /\ Load
  <2>1. /\ module = "absent" /\ module' = "loading" /\ line' = "high"
        /\ UNCHANGED <<bus_state, bus_count, low_ticks, failed_count, resets>>
        /\ Goto(p, "status")
    BY <1>7 DEF Load, RaiseLine, driverVars, timerVars, busVars, histVars
  <2>2. bus_state = 0 /\ resets = 0
    BY <2>1 DEF RecoveryInv
  <2>3. Sequence
    BY <2>2, SequenceIs DEF RecoveryInv
  <2>4. Sequence'
    BY <2>1, <2>2, <2>3 DEF Sequence
  <2>5. ResetsAnswerFailures'
    BY <2>1, <2>2, <2>4, SequenceIsNext
  <2>6. /\ \A a \in Actors : pc'[a] \notin Waits
        /\ pc'[Timer] = pc[Timer]
    BY <1>1, <1>2, <2>1 DEF Goto, Waits
  <2>7. QED
    BY <2>1, <2>2, <2>5, <2>6 DEF RecoveryInv
<1>8. CASE p = Loader /\ LoadReturns
  <2>1. UNCHANGED sequenceVars /\ module' \in {"loaded", "failed"}
        /\ pc[Loader] # "idle" /\ Goto(p, "idle")
    BY <1>8 DEF LoadReturns, sequenceVars, timerVars, busVars, histVars
  <2>2. /\ \A a \in Actors : pc'[a] \notin Waits
        /\ pc'[Timer] = pc[Timer]
    BY <1>1, <1>2, <2>1 DEF Goto, Waits
  <2>3. module # "absent"
    BY <1>1, <1>2, <2>1
  <2>4. QED
    BY <2>1, <2>2, <2>3, QuietStep DEF RecoveryInv
<1>9. QED
  BY <1>3, <1>4, <1>5, <1>6, <1>7, <1>8 DEF Process

\* A tick counts the time the line has been low.
LEMMA TickCounts ==
  ASSUME TypeInv, Ticking
  PROVE  /\ line = "low" => low_ticks' > low_ticks \/ low_ticks' >= 2 * Hz + 1
         /\ module = "loaded" /\ module' = "loaded" /\ pc[Timer] = "idle"
BY ConstantsAssumption DEF Ticking, At, LowCap, TypeInv, TypeOK

LEMMA TickRecovery ==
  ASSUME TypeInv, RecoveryInv, Tick
  PROVE  RecoveryInv'
<1>1. Ticking
  BY DEF Tick, ButtonDown, TickIdle, TickGivenUp, TickLower, TickWait, TickRaise,
         TickSkip, TickAlive, TickDead, TickRestart, Checking, ButtonUp
<1>2. /\ line = "low" => low_ticks' > low_ticks \/ low_ticks' >= 2 * Hz + 1
      /\ module = "loaded" /\ module' = "loaded" /\ pc[Timer] = "idle"
  BY <1>1, TickCounts
<1>3. /\ bus_state \in 0..4 /\ bus_count \in 0..(2 * Hz + 1) /\ Hz \in Nat
      /\ failed_count \in Nat /\ resets \in Nat /\ FailedMax \in Nat
      /\ low_ticks \in Nat /\ low_ticks' \in Nat /\ line \in {"low", "high"}
      /\ pc \in [Actors -> PCs]
  BY <1>1, ConstantsAssumption DEF Ticking, LowCap, TypeInv, TypeOK
<1>4. Sequence
  BY <1>3, SequenceIs DEF RecoveryInv
<1>5. line = "low" <=> bus_state \in {2, 3}
  BY <1>2, <1>4 DEF Sequence
\* What the inductive invariant says of the counters in the next state.
<1> DEFINE Counters == /\ bus_state \notin {2, 4} => bus_count = 0
                       /\ bus_state = 2 => low_ticks >= bus_count
                       /\ bus_state = 3 => low_ticks >= 2 * Hz
<1>6. Counters
  BY DEF RecoveryInv
<1>7. SUFFICES /\ Sequence' /\ Counters' /\ bus_state' \in 0..4
               /\ \/ pc' = pc
                  \/ pc' = [pc EXCEPT ![Timer] = "status"] /\ bus_state' = 0
  <2>1. ResetsAnswerFailures'
    BY <1>2, <1>7, SequenceIsNext
  <2>2. /\ \A a \in Actors : pc'[a] \notin Waits
        /\ pc'[Timer] # "idle" => bus_state' = 0
    BY <1>2, <1>3, <1>7, TimerIsActor DEF RecoveryInv, Waits
  <2>3. QED
    BY <1>2, <1>7, <2>1, <2>2 DEF RecoveryInv
<1>8. CASE /\ UNCHANGED <<bus_state, bus_count, line, failed_count, resets>>
           /\ \/ pc' = pc
              \/ pc' = [pc EXCEPT ![Timer] = "status"] /\ bus_state = 0
  BY <1>2, <1>3, <1>4, <1>5, <1>6, <1>8 DEF Sequence
<1> USE DEF driverVars, resetVars, busVars
<1>9. CASE ButtonDown
  BY <1>8, <1>9 DEF ButtonDown
<1>10. CASE TickIdle \/ TickGivenUp
  BY <1>8, <1>10 DEF TickIdle, TickGivenUp
<1>11. CASE TickLower
  <2>1. /\ bus_state = 1 /\ bus_state' = 2 /\ line' = "low" /\ resets' = resets + 1
        /\ failed_count <= FailedMax
        /\ UNCHANGED <<pc, failed_count, bus_count>>
    BY <1>11 DEF TickLower, LowerLine, Watching
  <2>2. QED
    BY <1>2, <1>3, <1>4, <1>6, <2>1 DEF Sequence
<1>12. CASE TickWait
  <2>1. CASE bus_state = 2
    BY <1>2, <1>3, <1>4, <1>5, <1>6, <1>12, <2>1 DEF TickWait, BusTime, Sequence
  <2>2. CASE bus_state = 4
    BY <1>2, <1>3, <1>4, <1>5, <1>6, <1>12, <2>2 DEF TickWait, BusTime, Sequence
  <2>3. QED
    BY <1>12, <2>1, <2>2 DEF TickWait
<1>13. CASE TickRaise
  BY <1>2, <1>3, <1>4, <1>5, <1>6, <1>13 DEF TickRaise, RaiseLine, Sequence
<1>14. CASE TickSkip \/ TickAlive
  BY <1>8, <1>14 DEF TickSkip, TickAlive, Checking
<1>15. CASE TickDead
  <2>1. /\ bus_state = 0 /\ bus_state' = 1 /\ failed_count' = failed_count + 1
        /\ UNCHANGED <<pc, bus_count, line, resets>>
    BY <1>15 DEF TickDead, Checking
  <2>2. QED
    BY <1>2, <1>3, <1>4, <1>5, <1>6, <2>1 DEF Sequence
<1>16. CASE TickRestart
  BY <1>8, <1>16 DEF TickRestart, Checking, Goto
<1>17. QED
  BY <1>9, <1>10, <1>11, <1>12, <1>13, <1>14, <1>15, <1>16 DEF Tick

LEMMA RestartRecovery ==
  ASSUME TypeInv, RecoveryInv, DevicesInit(Timer) \/ RestartEnds
  PROVE  RecoveryInv'
<1>1. pc \in [Actors -> PCs] /\ Timer \in Actors /\ Loader \in Actors
      /\ \A a \in Actors : pc[a] \notin Waits
  BY TimerIsActor DEF RecoveryInv, TypeInv, TypeOK
<1>2. CASE DevicesInit(Timer)
  <2>1. UNCHANGED <<module, sequenceVars>>
    BY <1>1, <1>2, StepsOfInit DEF sequenceVars, timerVars, busVars, histVars
  <2>2. /\ \A a \in Actors : pc'[a] \notin Waits
        /\ \A a \in Actors : pc'[a] # "idle" => pc[a] # "idle"
        /\ pc[Timer] # "idle"
    BY <1>1, <1>2, DevicesInitPc
  <2>3. QED
    BY <2>1, <2>2, QuietStep DEF RecoveryInv
<1>3. CASE RestartEnds
  <2>1. /\ pc[Timer] # "idle" /\ Goto(Timer, "idle")
        /\ UNCHANGED <<module, bus_count, line, low_ticks, resets>>
        /\ \/ UNCHANGED <<bus_state, failed_count>>
           \/ bus_state' = 1 /\ failed_count' = failed_count + 1
    BY <1>3 DEF RestartEnds, Results, histVars
  <2>2. /\ \A a \in Actors : pc'[a] \notin Waits
        /\ \A a \in Actors : pc'[a] # "idle" => pc[a] # "idle"
        /\ pc'[Timer] = "idle"
    BY <1>1, <2>1 DEF Goto, Waits
  <2>3. bus_state = 0 /\ bus_count = 0 /\ failed_count \in Nat /\ resets \in Nat
    BY <2>1 DEF RecoveryInv, TypeInv, TypeOK
  <2>4. Sequence
    BY <2>3, SequenceIs DEF RecoveryInv
  <2>5. CASE UNCHANGED <<bus_state, failed_count>>
    BY <2>1, <2>2, <2>3, <2>5, QuietStep DEF RecoveryInv, sequenceVars
  <2>6. CASE bus_state' = 1 /\ failed_count' = failed_count + 1
    <3>1. module # "absent"
      BY <1>1, <2>1 DEF RecoveryInv
    <3>2. Sequence'
      BY <2>1, <2>3, <2>4, <2>6 DEF Sequence
    <3>3. ResetsAnswerFailures'
      BY <2>1, <2>6, <3>1, <3>2, SequenceIsNext
    <3>4. QED
      BY <2>1, <2>2, <2>3, <2>6, <3>1, <3>3 DEF RecoveryInv
  <2>7. QED
    BY <2>1, <2>5, <2>6
<1>4. QED
  BY <1>2, <1>3

LEMMA RecoveryStep ==
  ASSUME DriverResetHardware # 2, TypeInv, RecoveryInv, [Next]_vars
  PROVE  RecoveryInv'
<1>1. pc \in [Actors -> PCs]
  BY DEF TypeInv, TypeOK
<1>2. CASE \E p \in Processes : Process(p)
  BY <1>2, ProcessRecovery
<1>3. CASE Tick
  BY <1>3, TickRecovery
<1>4. CASE DevicesInit(Timer) \/ RestartEnds
  BY <1>4, RestartRecovery
<1>5. CASE Unload
  <2>1. /\ UNCHANGED <<pc, sequenceVars>> /\ module # "absent" /\ module' # "absent"
    BY <1>5 DEF Unload, sequenceVars, timerVars, busVars, histVars
  <2>2. QED
    BY <2>1, QuietStep DEF RecoveryInv
<1>6. CASE Hw
  <2>1. UNCHANGED <<pc, module, sequenceVars>>
    BY <1>6 DEF Hw, HwNumber, HwInterrupt, HwFault, HwRepair, sequenceVars,
                resetVars, driverVars, timerVars, busVars, histVars
  <2>2. QED
    BY <2>1, QuietStep DEF RecoveryInv
<1>7. CASE UNCHANGED vars
  <2>1. UNCHANGED <<pc, module, sequenceVars>>
    BY <1>7 DEF vars, sequenceVars, driverVars, timerVars, busVars, resetVars, histVars
  <2>2. QED
    BY <2>1, QuietStep DEF RecoveryInv
<1>8. QED
  BY <1>2, <1>3, <1>4, <1>5, <1>6, <1>7 DEF Next

\* The invariant of the reset sequence, for any stack, tick rate and limit.
THEOREM RecoveryInvariant ==
  ASSUME DriverResetHardware # 2 PROVE Spec => [](TypeInv /\ RecoveryInv)
<1>1. Init => TypeInv /\ RecoveryInv
  BY InitType, InitDoesRecovery
<1>2. TypeInv /\ RecoveryInv /\ [Next]_vars => (TypeInv /\ RecoveryInv)'
  BY TypeStep, RecoveryStep
<1>3. QED
  BY <1>1, <1>2, PTL DEF Spec

\* The timer starts at most one reset for each counted failure and none past
\* mcs341_stackbus_failed_max, and the FPGA is held in reset in no other
\* phase than the one in which the timer waits for its two seconds.
THEOREM ResetsBounded ==
  ASSUME DriverResetHardware # 2 PROVE Spec => []ResetsAnswerFailures
<1>1. TypeInv /\ RecoveryInv => ResetsAnswerFailures
  BY DEF RecoveryInv
<1>2. QED
  BY <1>1, RecoveryInvariant, PTL

\* While the module is loaded the line is low in the states 2 and 3 of
\* bus_reseting_state, and in no other.
THEOREM ResetLineFollowsState ==
  ASSUME DriverResetHardware # 2 PROVE Spec => []ResetLineInv
<1>1. TypeInv /\ RecoveryInv => ResetLineInv
  BY SequenceIs DEF RecoveryInv, Sequence, ResetLineInv, TypeInv, TypeOK
<1>2. QED
  BY <1>1, RecoveryInvariant, PTL

-----------------------------------------------------------------------------
(***************************************************************************)
(* The steps of the driver are steps of BusRecovery.                       *)
(***************************************************************************)

\* The steps that the abstract specification sees, and what they do.
Loading  == /\ module = "absent" /\ module' # "absent"
            /\ bus_state' = bus_state /\ line' = "high"
            /\ UNCHANGED <<failed_count, resets>>
Failing  == /\ module # "absent" /\ module' # "absent"
            /\ failed_count' = failed_count + 1
            /\ bus_state' = bus_state \/ (bus_state = 0 /\ bus_state' = 1)
            /\ UNCHANGED <<line, resets>>
Lowering == /\ module # "absent" /\ module' # "absent"
            /\ bus_state = 1 /\ bus_state' = 2 /\ failed_count <= FailedMax
            /\ line' = "low" /\ resets' = resets + 1
            /\ UNCHANGED failed_count
Raising  == /\ module # "absent" /\ module' # "absent"
            /\ bus_state = 3 /\ bus_state' = 4 /\ failed_count <= FailedMax
            /\ line' = "high" /\ low_ticks >= 2 * Hz
            /\ UNCHANGED <<failed_count, resets>>
Waiting  == /\ module # "absent" /\ module' # "absent"
            /\ \/ bus_state' = bus_state
               \/ bus_state = 2 /\ bus_state' = 3
               \/ bus_state = 4 /\ bus_state' = 0
            /\ UNCHANGED <<line, failed_count, resets>>
Unseen   == /\ module' = module
            /\ UNCHANGED <<bus_state, line, failed_count, resets>>

LEMMA SeenStep ==
  ASSUME DriverResetHardware # 2, TypeInv, RecoveryInv, [Next]_vars
  PROVE  Loading \/ Failing \/ Lowering \/ Raising \/ Waiting \/ Unseen
<1> USE DEF driverVars, timerVars, buttonVars, busVars, resetVars, envVars, histVars
<1>1. ASSUME NEW p \in Processes, Process(p)
      PROVE  Loading \/ Failing \/ Waiting \/ Unseen
  <2>1. p \in Actors
    BY DEF Processes, Actors
  <2>2. CASE DevicesInit(p)
    BY <2>1, <2>2, StepsOfInit DEF Unseen
  <2>3. CASE InitFailed(p)
    <3>1. /\ line' = line /\ failed_count' = failed_count + 1
          /\ UNCHANGED <<bus_state, resets>>
          /\ module' = module \/ (p = Loader /\ module' = "failed")
      BY <2>3 DEF InitFailed
    <3>2. module # "absent"
      BY <2>1, <2>3 DEF InitFailed, At, RecoveryInv
    <3>3. QED
      BY <3>1, <3>2 DEF Failing
  <2>4. CASE BusResetRelease(p) \/ BusResetRetry(p)
    BY <2>1, <2>4 DEF BusResetRelease, BusResetRetry, At, RecoveryInv, Waits
  <2>5. CASE p \in Callers /\ (CallInit(p) \/ CallReturns(p))
    BY <2>5 DEF CallInit, CallReturns, KeepTimer, Unseen
  <2>6. CASE p = Loader /\ Load
    BY <2>6 DEF Load, RaiseLine, Loading
  <2>7. CASE p = Loader /\ LoadReturns
    <3>1. module # "absent"
      BY <2>1, <2>7 DEF LoadReturns, RecoveryInv
    <3>2. QED
      BY <2>7, <3>1 DEF LoadReturns, Waiting
  <2>8. QED
    BY <1>1, <2>2, <2>3, <2>4, <2>5, <2>6, <2>7 DEF Process
<1>2. CASE Tick
  <2>1. Ticking
    BY <1>2 DEF Tick, ButtonDown, TickIdle, TickGivenUp, TickLower, TickWait,
           TickRaise, TickSkip, TickAlive, TickDead, TickRestart, Checking, ButtonUp
  <2>2. module # "absent" /\ module' = module
    BY <2>1 DEF Ticking
  <2>3. CASE ButtonDown \/ TickIdle \/ TickGivenUp
    BY <2>2, <2>3 DEF ButtonDown, TickIdle, TickGivenUp, Unseen
  <2>4. CASE TickLower
    BY <2>2, <2>4 DEF TickLower, LowerLine, Watching, Lowering
  <2>5. CASE TickWait
    BY <2>2, <2>5 DEF TickWait, Waiting
  <2>6. CASE TickRaise
    BY <2>2, <2>6 DEF TickRaise, RaiseLine, Watching, Raising, RecoveryInv
  <2>7. CASE TickSkip \/ TickAlive \/ TickRestart
    BY <2>2, <2>7 DEF TickSkip, TickAlive, TickRestart, Checking, Unseen
  <2>8. CASE TickDead
    BY <2>2, <2>8 DEF TickDead, Checking, Failing
  <2>9. QED
    BY <1>2, <2>3, <2>4, <2>5, <2>6, <2>7, <2>8 DEF Tick
<1>3. CASE DevicesInit(Timer)
  BY <1>3, StepsOfInit, TimerIsActor DEF Unseen
<1>4. CASE RestartEnds
  <2>1. module # "absent" /\ bus_state = 0
    BY <1>4, TimerIsActor DEF RestartEnds, Results, RecoveryInv
  <2>2. QED
    BY <1>4, <2>1 DEF RestartEnds, Failing, Unseen
<1>5. CASE Unload
  BY <1>5 DEF Unload, Waiting
<1>6. CASE Hw
  BY <1>6 DEF Hw, HwNumber, HwInterrupt, HwFault, HwRepair, Unseen
<1>7. CASE UNCHANGED vars
  BY <1>7 DEF vars, Unseen
<1>8. QED
  BY <1>1, <1>2, <1>3, <1>4, <1>5, <1>6, <1>7 DEF Next

\* The timer never releases the FPGA before two seconds have passed, whatever
\* is interleaved with its ticks.
THEOREM FullPulse == ASSUME DriverResetHardware # 2 PROVE Spec => FullResetPulse
<1>1. /\ TypeInv /\ RecoveryInv /\ [Next]_vars
      => (module = "loaded" /\ line = "low" /\ line' = "high" => low_ticks >= 2 * Hz)
  BY SeenStep DEF Loading, Failing, Lowering, Raising, Waiting, Unseen
<1>2. QED
  BY <1>1, RecoveryInvariant, PTL DEF Spec, FullResetPulse

\* The timer's recovery implements BusRecovery: resets answer failures, one
\* by one, and end before the bus is watched again.
THEOREM RecoveryRefines ==
  ASSUME DriverResetHardware # 2 PROVE Spec => ImplementsRecovery
<1>1. Init => Recovery!Init
  BY PhaseOf DEF Init, Recovery!Init
<1>2. TypeInv /\ RecoveryInv /\ TypeInv' /\ RecoveryInv' /\ [Next]_vars
      => [Recovery!Next]_(Recovery!vars)
  <2> SUFFICES ASSUME TypeInv, RecoveryInv, TypeInv', RecoveryInv', [Next]_vars
               PROVE  [Recovery!Next]_(Recovery!vars)
    OBVIOUS
  <2>1. /\ bus_state \in 0..4 /\ (module = "absent" => bus_state = 0)
        /\ bus_state' \in 0..4 /\ (module' = "absent" => bus_state' = 0)
    BY DEF TypeInv, TypeOK, RecoveryInv
  <2>2. Phase = IF module = "absent" THEN "off"
                ELSE IF bus_state = 0 THEN "watch"
                ELSE IF bus_state = 1 THEN "failed"
                ELSE IF bus_state = 4 THEN "released" ELSE "held"
    BY <2>1, PhaseOf
  <2>3. Phase' = IF module' = "absent" THEN "off"
                 ELSE IF bus_state' = 0 THEN "watch"
                 ELSE IF bus_state' = 1 THEN "failed"
                 ELSE IF bus_state' = 4 THEN "released" ELSE "held"
    BY <2>1, PhaseOfNext
  <2>4. CASE Loading
    BY <2>1, <2>2, <2>3, <2>4 DEF Loading, Recovery!Next, Recovery!Start
  <2>5. CASE Failing
    BY <2>1, <2>2, <2>3, <2>5 DEF Failing, Recovery!Next, Recovery!Fail
  <2>6. CASE Lowering
    BY <2>1, <2>2, <2>3, <2>6 DEF Lowering, Recovery!Next, Recovery!Hold
  <2>7. CASE Raising
    BY <2>1, <2>2, <2>3, <2>7 DEF Raising, Recovery!Next, Recovery!Release
  <2>8. CASE Waiting
    BY <2>1, <2>2, <2>3, <2>8 DEF Waiting, Recovery!Next, Recovery!Resume, Recovery!vars
  <2>9. CASE Unseen
    BY <2>1, <2>2, <2>3, <2>9 DEF Unseen, Recovery!vars
  <2>10. QED
    BY <2>4, <2>5, <2>6, <2>7, <2>8, <2>9, SeenStep
<1>3. QED
  BY <1>1, <1>2, RecoveryInvariant, PTL DEF Spec, ImplementsRecovery, Recovery!Spec

-----------------------------------------------------------------------------
(***************************************************************************)
(* The failures, when a process that fails resets the bus.                 *)
(***************************************************************************)

\* FailuresBounded is not inductive: nobody runs any more after the failure that
\* reboots the controller, the timer looks at the bus only below the limit, and
\* no process counts while it initialises the devices.
FailuresInv ==
  /\ failed_count <= FailedMax + 2
  /\ ~pout => failed_count <= FailedMax + 1
  /\ pc[Timer] # "idle" => failed_count <= FailedMax

\* A step that counts no failure and leaves the timer and the board alone.
LEMMA FailuresKept ==
  ASSUME FailuresInv, UNCHANGED failed_count, pout => pout',
         pc'[Timer] # "idle" => pc[Timer] # "idle" \/ failed_count <= FailedMax
  PROVE  FailuresInv'
BY DEF FailuresInv

LEMMA ProcessFailures ==
  ASSUME DriverResetHardware = 2, TypeInv, FailuresInv, NEW p \in Processes, Process(p)
  PROVE  FailuresInv'
<1>1. p \in Actors /\ p # Timer /\ Timer \in Actors /\ pc \in [Actors -> PCs]
      /\ failed_count \in Nat /\ FailedMax \in Nat
  BY ConstantsAssumption DEF Processes, Actors, TypeInv, TypeOK
<1>2. CASE DevicesInit(p)
  <2>1. UNCHANGED <<pout, failed_count>>
    BY <1>1, <1>2, StepsOfInit
  <2>2. pc'[Timer] = pc[Timer]
    BY <1>1, <1>2, DevicesInitPc
  <2> QED BY <2>1, <2>2, FailuresKept
<1>3. CASE InitFailed(p)
  <2>1. ~pout /\ pc[Timer] = "idle" /\ failed_count' = failed_count + 1
    BY <1>1, <1>3 DEF InitFailed, At, Running
  <2>2. failed_count <= FailedMax + 1
    BY <2>1 DEF FailuresInv
  <2>3. pc'[Timer] = pc[Timer]
    BY <1>1, <1>3 DEF InitFailed, Goto
  <2>4. pout' \/ failed_count' <= FailedMax
    BY <1>3 DEF InitFailed
  <2> QED BY <1>1, <2>1, <2>2, <2>3, <2>4 DEF FailuresInv
<1>4. CASE \/ BusResetRelease(p) \/ BusResetRetry(p)
           \/ p \in Callers /\ (CallInit(p) \/ CallReturns(p))
           \/ p = Loader /\ (Load \/ LoadReturns)
  <2>1. UNCHANGED <<pout, failed_count>>
    BY <1>4 DEF BusResetRelease, BusResetRetry, CallInit, CallReturns, Load, LoadReturns,
                KeepTimer, driverVars
  <2>2. Goto(p, "bus_high") \/ Goto(p, "status") \/ Goto(p, "idle")
    BY <1>4 DEF BusResetRelease, BusResetRetry, CallInit, CallReturns, Load, LoadReturns
  <2>3. pc'[Timer] = pc[Timer]
    BY <1>1, <2>2 DEF Goto
  <2> QED BY <2>1, <2>3, FailuresKept
<1> QED BY <1>2, <1>3, <1>4 DEF Process

LEMMA TickFailures ==
  ASSUME TypeInv, FailuresInv, Tick
  PROVE  FailuresInv'
<1>1. Ticking
  BY DEF Tick, ButtonDown, TickIdle, TickGivenUp, TickLower, TickWait, TickRaise,
         TickSkip, TickAlive, TickDead, TickRestart, Checking, ButtonUp
<1>2. ~pout /\ pc[Timer] = "idle" /\ failed_count \in Nat /\ FailedMax \in Nat
      /\ pc \in [Actors -> PCs] /\ Timer \in Actors
  BY <1>1, ConstantsAssumption, TimerIsActor DEF Ticking, At, Running, TypeInv, TypeOK
<1>3. CASE TickDead
  <2>1. failed_count <= FailedMax /\ failed_count' = failed_count + 1 /\ pc' = pc
    BY <1>3 DEF TickDead, Checking, Watching
  <2> QED BY <1>2, <2>1 DEF FailuresInv
<1>4. CASE TickRestart
  <2>1. failed_count <= FailedMax /\ UNCHANGED failed_count
    BY <1>4 DEF TickRestart, Checking, Watching
  <2> QED BY <1>2, <2>1, FailuresKept
<1>5. CASE \/ ButtonDown \/ TickIdle \/ TickGivenUp \/ TickLower \/ TickWait
           \/ TickRaise \/ TickSkip \/ TickAlive
  <2>1. UNCHANGED <<pc, failed_count>>
    BY <1>5 DEF ButtonDown, TickIdle, TickGivenUp, TickLower, TickWait, TickRaise,
                TickSkip, TickAlive, driverVars
  <2> QED BY <1>2, <2>1, FailuresKept
<1> QED BY <1>3, <1>4, <1>5 DEF Tick

LEMMA FailuresStep ==
  ASSUME DriverResetHardware = 2, TypeInv, FailuresInv, [Next]_vars
  PROVE  FailuresInv'
<1>1. pc \in [Actors -> PCs] /\ Timer \in Actors
      /\ failed_count \in Nat /\ FailedMax \in Nat
  BY ConstantsAssumption, TimerIsActor DEF TypeInv, TypeOK
<1>2. CASE \E p \in Processes : Process(p)
  BY <1>2, ProcessFailures
<1>3. CASE Tick
  BY <1>3, TickFailures
<1>4. CASE DevicesInit(Timer)
  <2>1. UNCHANGED <<pout, failed_count>> /\ pc[Timer] # "idle"
    BY <1>1, <1>4, StepsOfInit, DevicesInitPc
  <2> QED BY <2>1, FailuresKept
<1>5. CASE RestartEnds
  <2>1. /\ pc[Timer] # "idle" /\ pc'[Timer] = "idle"
        /\ failed_count' \in {failed_count, failed_count + 1}
    BY <1>1, <1>5 DEF RestartEnds, Results, Goto
  <2>2. failed_count <= FailedMax
    BY <2>1 DEF FailuresInv
  <2> QED BY <1>1, <2>1, <2>2 DEF FailuresInv
<1>6. CASE Unload \/ Hw \/ UNCHANGED vars
  <2>1. UNCHANGED <<pc, pout, failed_count>>
    BY <1>6 DEF Unload, Hw, vars, driverVars
  <2> QED BY <2>1, FailuresKept
<1> QED BY <1>2, <1>3, <1>4, <1>5, <1>6 DEF Next

\* With DriverResetHardware = 2 the failures of the timer and of the loading drivers
\* together pass the limit by two at most, for every limit and set of drivers and
\* however their failures mix (cps-driver.c:1387, 1399, 1992).
THEOREM FailuresAreBounded == Spec => []FailuresBounded
<1>1. Init /\ DriverResetHardware = 2 => FailuresInv
  BY ConstantsAssumption, TimerIsActor DEF Init, FailuresInv
<1>2. TypeInv /\ FailuresInv /\ [Next]_vars /\ DriverResetHardware = 2 => FailuresInv'
  BY FailuresStep
<1>3. FailuresInv => FailuresBounded
  BY DEF FailuresInv, FailuresBounded
<1>4. CASE DriverResetHardware = 2
  BY <1>1, <1>2, <1>3, <1>4, InitType, TypeStep, PTL DEF Spec
<1>5. CASE DriverResetHardware # 2
  <2>1. FailuresBounded
    BY <1>5 DEF FailuresBounded
  <2> QED BY <2>1, PTL
<1> QED BY <1>4, <1>5

-----------------------------------------------------------------------------
(***************************************************************************)
(* What the register shows, when the module alone initialises the devices: *)
(* no driver calls the exported initialisation, and a failure does not     *)
(* reset the bus.                                                          *)
(***************************************************************************)
Solo == Callers = {} /\ DriverResetHardware # 2

\* The stages that come after the devices were numbered.
Past == {"num", "recheck", "idsel", "poll_int", "alive", "num_up", "recheck_up",
         "ok", "enomem"}
Numbered == {"init_end", "int_end"}

\* One initialisation runs at a time, on a released FPGA, and past the numbering the
\* FPGA is not busy.
SoloInv ==
  /\ pc[Loader] # "idle" => module = "loading"
  /\ pc[Timer] # "idle" => module = "loaded"
  /\ module \in {"absent", "loading"} => bus_state = 0
  /\ \A a \in Actors : pc[a] # "idle" => line = "high"
  /\ \A a \in Actors : pc[a] \in Past => status # "busy"

\* What was known before a step.
Known == TypeInv /\ RecoveryInv /\ SoloInv

LEMMA SoloActors == Solo => Actors = {Loader, Timer} /\ Processes = {Loader}
BY DEF Solo, Actors, Processes

\* Where a step of the initialisation leads.
LEMMA InitStages ==
  ASSUME TypeInv, NEW a \in Actors, DevicesInit(a)
  PROVE  /\ UNCHANGED <<module, bus_state, shutdown_sequence, line, status>>
         /\ pc'[a] # "idle"
         /\ pc'[a] \in Past => status # "busy" \/ pc[a] \in Past
<1>1. pc \in [Actors -> PCs]
  BY DEF TypeInv, TypeOK
<1>2. UNCHANGED <<module, bus_state, shutdown_sequence, line, status>>
  BY DEF DevicesInit, ReadStatus, SetReset, Poll, PollTimeout, ReadCount,
         RecheckFails, MapDevices, SetInterruptLine, CheckAlive,
         KeepTimer, timerVars, busVars, buttonVars, resetVars
<1>3. /\ pc'[a] # "idle"
      /\ pc'[a] \in Past => status # "busy" \/ pc[a] \in Past
  BY <1>1 DEF DevicesInit, ReadStatus, SetReset, Poll, PollTimeout, ReadCount,
         RecheckFails, MapDevices, SetInterruptLine, CheckAlive, Goto, At,
         PollDone, Past
<1> QED BY <1>2, <1>3

\* Between the steps of the timer nobody runs.
LEMMA TickAllIdle ==
  ASSUME Solo, Known, Tick
  PROVE  /\ \A a \in Actors : pc[a] = "idle"
         /\ module = "loaded" /\ module' = "loaded"
         /\ line = "low" <=> bus_state \in {2, 3}
<1>1. Ticking
  BY DEF Tick, ButtonDown, TickIdle, TickGivenUp, TickLower, TickWait, TickRaise,
         TickSkip, TickAlive, TickDead, TickRestart, Checking, ButtonUp
<1>2. module = "loaded" /\ module' = "loaded" /\ pc[Timer] = "idle"
  BY <1>1 DEF Ticking, At
<1>3. pc[Loader] = "idle"
  BY <1>2 DEF Known, SoloInv
<1>4. line = "low" <=> bus_state \in {2, 3}
  BY <1>2, SequenceIs DEF Known, RecoveryInv, Sequence, TypeInv, TypeOK
<1> QED BY <1>2, <1>3, <1>4, SoloActors

LEMMA SoloStep ==
  ASSUME Solo, Known, [Next]_vars
  PROVE  SoloInv'
<1>1. /\ Actors = {Loader, Timer} /\ Processes = {Loader} /\ Loader # Timer
      /\ pc \in [Actors -> PCs] /\ \A a \in Actors : pc[a] \notin Waits
  BY SoloActors DEF Known, TypeInv, TypeOK, RecoveryInv
<1>2. SoloInv
  BY DEF Known
<1>3. ASSUME NEW a \in Actors, DevicesInit(a) PROVE SoloInv'
  <2>1. /\ UNCHANGED <<module, bus_state, line, status>>
        /\ pc[a] # "idle" /\ \A b \in Actors : b # a => pc'[b] = pc[b]
        /\ pc'[a] \in Past => status # "busy" \/ pc[a] \in Past
    BY <1>3, InitStages, DevicesInitPc DEF Known
  <2> QED BY <1>1, <1>2, <2>1 DEF SoloInv
<1>4. CASE InitFailed(Loader)
  <2>1. /\ UNCHANGED <<bus_state, line, status>> /\ pc[Loader] = "err"
        /\ \/ Goto(Loader, "idle") /\ module' = "failed"
           \/ UNCHANGED <<pc, module>>
    BY <1>4 DEF Solo, InitFailed, At, resetVars, timerVars, busVars
  <2> QED BY <1>1, <1>2, <2>1 DEF SoloInv, Goto
<1>5. CASE Load
  <2>1. /\ module = "absent" /\ module' = "loading" /\ line' = "high"
        /\ UNCHANGED bus_state /\ Goto(Loader, "status")
    BY <1>5 DEF Load, RaiseLine, timerVars, busVars
  <2> QED BY <1>1, <1>2, <2>1 DEF SoloInv, Goto, Past
<1>6. CASE LoadReturns
  <2>1. /\ pc[Loader] # "idle" /\ Goto(Loader, "idle") /\ module' \in {"loaded", "failed"}
        /\ UNCHANGED <<bus_state, line, status>>
    BY <1>6 DEF LoadReturns, timerVars, busVars
  <2> QED BY <1>1, <1>2, <2>1 DEF SoloInv, Goto
<1>7. CASE BusResetRelease(Loader) \/ BusResetRetry(Loader)
  BY <1>1, <1>7 DEF BusResetRelease, BusResetRetry, At, Waits
<1>8. CASE Tick
  <2>1. /\ \A a \in Actors : pc[a] = "idle"
        /\ module' = "loaded" /\ (line = "low" <=> bus_state \in {2, 3})
    BY <1>8, TickAllIdle
  <2>2. CASE TickRestart
    <3>1. bus_state = 0 /\ UNCHANGED <<bus_state, line>> /\ Goto(Timer, "status")
      BY <2>2 DEF TickRestart, Checking, busVars, resetVars
    <3>2. line = "high"
      BY <2>1, <3>1 DEF Known, TypeInv, TypeOK
    <3> QED BY <1>1, <2>1, <3>1, <3>2 DEF SoloInv, Goto, Past
  <2>3. CASE ~TickRestart
    <3>1. pc' = pc
      BY <1>8, <2>3 DEF Tick, ButtonDown, TickIdle, TickGivenUp, TickLower, TickWait,
                        TickRaise, TickSkip, TickAlive, TickDead
    <3> QED BY <1>1, <2>1, <3>1 DEF SoloInv, Past
  <2> QED BY <2>2, <2>3
<1>9. CASE RestartEnds
  <2>1. /\ pc[Timer] # "idle" /\ Goto(Timer, "idle")
        /\ UNCHANGED <<module, line, status>>
    BY <1>9 DEF RestartEnds, Results
  <2> QED BY <1>1, <1>2, <2>1 DEF SoloInv, Goto
<1>10. CASE Unload
  <2>1. module' = "removed" /\ UNCHANGED pc /\ \A a \in Actors : pc[a] = "idle"
    BY <1>10 DEF Unload
  <2> QED BY <1>1, <2>1 DEF SoloInv, Past
<1>11. CASE Hw \/ UNCHANGED vars
  <2>1. UNCHANGED <<pc, module, bus_state, line>> /\ (status' = "busy" => status = "busy")
    BY <1>11 DEF Hw, HwNumber, HwInterrupt, HwFault, HwRepair, vars, timerVars, busVars,
                 resetVars
  <2> QED BY <1>2, <2>1 DEF SoloInv
<1>12. CASE \E p \in Processes : Process(p)
  BY <1>1, <1>3, <1>4, <1>5, <1>6, <1>7, <1>12 DEF Process, Solo
<1> QED BY <1>1, <1>3, <1>8, <1>9, <1>10, <1>11, <1>12 DEF Next

-----------------------------------------------------------------------------
\* InterruptOffWhileNumbering is not inductive: a register that is cleared by the reset
\* line is written from the shadow, so the shadow has the interrupts off from the tick
\* that lowers the line on.
OffInv ==
  line = "low" \/ status = "busy" => "SETINTERRUPT" \notin systeminit_reg \cup hw_init

\* The child unit's programs leave the two bits of the initialisation alone.
LEMMA ChildLeaves ==
  ASSUME NEW bits, NEW bit \in {"SETRESET", "SETINTERRUPT"}
  PROVE  (bit \in ChildInit(bits) <=> bit \in bits) /\ (bit \in ChildExit(bits) <=> bit \in bits)
BY ChildAssumption DEF ChildInit, ChildExit, ChildUnits

\* The shadow changes, and is written to the register or not.
LEMMA OffWritten ==
  ASSUME OffInv, UNCHANGED <<line, status>>, hw_init' \in {hw_init, systeminit_reg'},
         line = "low" \/ status = "busy" =>
           ("SETINTERRUPT" \in systeminit_reg' => "SETINTERRUPT" \in systeminit_reg)
  PROVE  OffInv'
BY DEF OffInv

LEMMA OffStep ==
  ASSUME Solo, FpgaVer > 1, Known, OffInv, [Next]_vars
  PROVE  OffInv'
<1>1. /\ Actors = {Loader, Timer} /\ Processes = {Loader}
      /\ pc \in [Actors -> PCs] /\ \A a \in Actors : pc[a] \notin Waits
      /\ line \in {"low", "high"}
  BY SoloActors DEF Known, TypeInv, TypeOK, RecoveryInv
<1>2. SoloInv
  BY DEF Known
<1>3. ASSUME NEW a \in Actors, DevicesInit(a) PROVE OffInv'
  <2>1. UNCHANGED <<line, status>> /\ pc[a] # "idle"
    BY <1>3, InitStages, DevicesInitPc DEF Known
  <2>2. hw_init' \in {hw_init, systeminit_reg'}
    BY <1>3 DEF DevicesInit, ReadStatus, SetReset, Poll, PollTimeout, ReadCount,
       RecheckFails, MapDevices, SetInterruptLine, CheckAlive, resetVars, WriteInit
  <2>3. CASE SetInterruptLine(a)
    <3>1. pc[a] = "idsel"
      BY <2>3 DEF SetInterruptLine, At
    <3>2. line = "high" /\ status # "busy"
      BY <1>1, <1>2, <2>1, <3>1 DEF SoloInv, Past
    <3> QED BY <2>1, <3>2 DEF OffInv
  <2>4. CASE ~SetInterruptLine(a)
    <3>1. "SETINTERRUPT" \in systeminit_reg' => "SETINTERRUPT" \in systeminit_reg
      BY <1>3, <2>4 DEF DevicesInit, ReadStatus, SetReset, Poll, PollTimeout, ReadCount,
         RecheckFails, MapDevices, CheckAlive, driverVars
    <3> QED BY <2>1, <2>2, <3>1, OffWritten
  <2> QED BY <2>3, <2>4
<1>4. CASE InitFailed(Loader)
  BY <1>4 DEF InitFailed, Solo, resetVars, OffInv
<1>5. CASE Load
  BY <1>1, <1>5 DEF Load, RaiseLine, driverVars, OffInv
<1>6. CASE LoadReturns
  <2>1. UNCHANGED <<line, status>> /\ hw_init' \in {hw_init, systeminit_reg'}
    BY <1>6 DEF LoadReturns, SetShadow, WriteInit
  <2>2. systeminit_reg' \in {systeminit_reg, ChildInit(systeminit_reg)}
    BY <1>6 DEF LoadReturns, SetShadow
  <2> QED BY <2>1, <2>2, ChildLeaves, OffWritten
<1>7. CASE BusResetRelease(Loader) \/ BusResetRetry(Loader)
  BY <1>1, <1>7 DEF BusResetRelease, BusResetRetry, At, Waits
<1>8. CASE Tick
  <2>1. CASE ButtonDown
    <3>1. UNCHANGED <<line, status>> /\ hw_init' \in {hw_init, systeminit_reg'}
      BY <2>1 DEF ButtonDown, WriteInit
    <3>2. systeminit_reg' \in {systeminit_reg, systeminit_reg \ {"SETINTERRUPT"}}
      BY <2>1 DEF ButtonDown
    <3> QED BY <3>1, <3>2, OffWritten
  <2>2. CASE TickLower
    BY <2>2 DEF TickLower, LowerLine, OffInv
  <2>3. CASE TickRaise
    BY <1>1, <2>3 DEF TickRaise, RaiseLine, driverVars, OffInv
  <2>4. CASE TickRestart
    BY <2>4 DEF TickRestart, resetVars, OffInv
  <2>5. CASE TickIdle \/ TickGivenUp \/ TickWait \/ TickSkip \/ TickAlive \/ TickDead
    BY <2>5 DEF TickIdle, TickGivenUp, TickWait, TickSkip, TickAlive, TickDead, driverVars,
                resetVars, OffInv
  <2> QED BY <1>8, <2>1, <2>2, <2>3, <2>4, <2>5 DEF Tick
<1>9. CASE RestartEnds
  <2>1. UNCHANGED <<line, status>> /\ hw_init' \in {hw_init, systeminit_reg'}
    BY <1>9 DEF RestartEnds, SetShadow, WriteInit
  <2>2. systeminit_reg' \in {systeminit_reg, ChildInit(systeminit_reg)}
    BY <1>9 DEF RestartEnds, SetShadow
  <2> QED BY <2>1, <2>2, ChildLeaves, OffWritten
<1>10. CASE Unload
  <2>1. UNCHANGED <<line, status>> /\ hw_init' \in {hw_init, systeminit_reg'}
    BY <1>10 DEF Unload, SetShadow, WriteInit
  <2>2. systeminit_reg' = ChildExit(systeminit_reg)
    BY <1>10 DEF Unload, SetShadow
  <2> QED BY <2>1, <2>2, ChildLeaves, OffWritten
<1>11. CASE Hw \/ UNCHANGED vars
  BY <1>11 DEF Hw, HwNumber, HwInterrupt, HwFault, HwRepair, vars, driverVars, resetVars, OffInv
<1>12. CASE \E p \in Processes : Process(p)
  BY <1>1, <1>3, <1>4, <1>5, <1>6, <1>7, <1>12 DEF Process, Solo
<1> QED BY <1>1, <1>3, <1>8, <1>9, <1>10, <1>11, <1>12 DEF Next

-----------------------------------------------------------------------------
\* The bits of the register and of the shadow agree once the devices are numbered, or
\* are being numbered.
AgreeInv ==
  /\ line = "low" => hw_init = {}
  /\ line = "high" /\ (status \in Numbered \/ (status = "busy" /\ "SETRESET" \in hw_init))
       => hw_init = systeminit_reg

\* A reset that the timer has begun ends with an FPGA that waits for the timer.
WaitInv ==
  module = "loaded" /\ shutdown_sequence = 0 =>
    /\ pc[Timer] = "idle" /\ bus_state # 1 /\ status = "busy" => "SETRESET" \notin hw_init
    /\ bus_state \in {2, 3, 4} => status \in {"busy", "bad"}

\* The child unit was initialised after the devices were, or those are not all mapped.
ChildInv ==
  /\ \A a \in Actors : pc[a] = "enomem" => ~(Expected \subseteq mapped)
  /\ module = "loaded" /\ shutdown_sequence = 0 /\ pc[Timer] = "idle" /\ bus_state = 0
     /\ status \in Numbered
       => ChildInit(systeminit_reg) = systeminit_reg \/ ~(Expected \subseteq mapped)

ShadowInv == AgreeInv /\ WaitInv /\ ChildInv

\* The child unit's program is the same the second time.
LEMMA ChildInitTwice ==
  ASSUME NEW bits
  PROVE  ChildInit(ChildInit(bits)) = ChildInit(bits)
<1>1. CASE ChildUnit = "NONE"
  BY <1>1 DEF ChildInit
<1>2. CASE ChildUnit = "GENERIC"
  BY <1>2 DEF ChildInit
<1>3. CASE ChildUnit = "40"
  BY <1>3 DEF ChildInit
<1>4. CASE ChildUnit = "90"
  BY <1>4 DEF ChildInit
<1>5. CASE ChildUnit = "A0"
  BY <1>5 DEF ChildInit
<1> QED BY <1>1, <1>2, <1>3, <1>4, <1>5, ChildAssumption DEF ChildUnits

\* The shadow is written to the register if it changes.
LEMMA AgreeWritten ==
  ASSUME AgreeInv, line \in {"low", "high"}, NEW bits, SetShadow(bits), UNCHANGED <<line, status>>
  PROVE  AgreeInv'
BY DEF AgreeInv, SetShadow, WriteInit, Numbered

\* The FPGA was reset by the timer, or not at all.
LEMMA AgreeRaised ==
  ASSUME AgreeInv, line \in {"low", "high"}, RaiseLine, UNCHANGED systeminit_reg
  PROVE  AgreeInv'
BY DEF AgreeInv, RaiseLine, Numbered

\* The devices that are expected are not mapped when the mapping fails.
LEMMA NotMapped ==
  ASSUME TypeInv, ~AllocOk, mapped' \subseteq 0..(MaxDevices - 1), UNCHANGED deviceNumber
  PROVE  ~(Expected \subseteq mapped')
<1>1. deviceNumber \in Nat /\ MaxDevices \in Nat
  BY ConstantsAssumption DEF TypeInv, TypeOK
<1>2. CASE deviceNumber > MaxDevices
  <2>1. MaxDevices \in Expected /\ MaxDevices \notin mapped'
    BY <1>1, <1>2 DEF Expected
  <2> QED BY <2>1
<1>3. CASE deviceNumber <= MaxDevices
  BY <1>1, <1>3 DEF AllocOk, Slots, Expected
<1> QED BY <1>1, <1>2, <1>3

\* A step of the initialisation, which the module or the timer makes alone.
LEMMA InitShadow ==
  ASSUME Solo, Known, ShadowInv, TypeInv', NEW a \in Actors, DevicesInit(a)
  PROVE  ShadowInv'
<1>1. /\ Actors = {Loader, Timer} /\ pc \in [Actors -> PCs] /\ SoloInv
      /\ line \in {"low", "high"}
  BY SoloActors DEF Known, TypeInv, TypeOK
<1>2. /\ UNCHANGED <<module, bus_state, shutdown_sequence, line, status>>
      /\ pc[a] # "idle" /\ pc'[a] # "idle" /\ \A b \in Actors : b # a => pc'[b] = pc[b]
  BY InitStages, DevicesInitPc DEF Known
<1>3. /\ line = "high"
      /\ a = Loader => module = "loading" /\ pc[Timer] = "idle"
      /\ a = Timer => module = "loaded" /\ pc[Loader] = "idle" /\ bus_state = 0
  BY <1>1, <1>2 DEF SoloInv, Known, RecoveryInv
<1>4. AgreeInv'
  <2>1. CASE SetReset(a) \/ SetInterruptLine(a)
    BY <1>2, <1>3, <2>1 DEF SetReset, SetInterruptLine, WriteInit, AgreeInv
  <2>2. CASE ~(SetReset(a) \/ SetInterruptLine(a))
    <3>1. UNCHANGED <<systeminit_reg, hw_init>>
      BY <2>2 DEF DevicesInit, ReadStatus, Poll, PollTimeout, ReadCount, RecheckFails,
                  MapDevices, CheckAlive, driverVars, resetVars
    <3> QED BY <1>2, <3>1 DEF ShadowInv, AgreeInv
  <2> QED BY <2>1, <2>2
<1>5. WaitInv'
  BY <1>1, <1>2, <1>3 DEF WaitInv
<1>6. pc'[a] = "enomem" => ~(Expected \subseteq mapped)'
  <2>1. SUFFICES ASSUME pc'[a] = "enomem" PROVE ~(Expected \subseteq mapped)'
    OBVIOUS
  <2>2. MapDevices(a) /\ ~AllocOk
    BY <1>1, <2>1 DEF DevicesInit, ReadStatus, SetReset, Poll, PollTimeout, ReadCount,
       RecheckFails, MapDevices, SetInterruptLine, CheckAlive, Goto
  <2>3. UNCHANGED deviceNumber
    BY <2>2 DEF MapDevices
  <2>4. mapped' \subseteq 0..(MaxDevices - 1)
    BY DEF TypeInv, TypeOK
  <2>5. ~(Expected \subseteq mapped')
    BY <2>2, <2>3, <2>4, NotMapped DEF Known
  <2> QED BY <2>3, <2>5 DEF Expected
<1>7. ChildInv'
  BY <1>1, <1>2, <1>3, <1>6 DEF ChildInv
<1> QED BY <1>4, <1>5, <1>7 DEF ShadowInv

\* What the module does around its initialisation.
LEMMA LoadShadow ==
  ASSUME Solo, Known, ShadowInv, InitFailed(Loader) \/ Load \/ LoadReturns
  PROVE  ShadowInv'
<1>1. /\ Actors = {Loader, Timer} /\ pc \in [Actors -> PCs] /\ SoloInv
      /\ line \in {"low", "high"} /\ Loader # Timer
  BY SoloActors DEF Known, TypeInv, TypeOK
<1>2. CASE InitFailed(Loader)
  <2>1. /\ UNCHANGED <<line, status, hw_init, systeminit_reg, mapped, deviceNumber>>
        /\ module' # "loaded" /\ (pc' = pc \/ Goto(Loader, "idle"))
    BY <1>1, <1>2 DEF Solo, InitFailed, At, resetVars, SoloInv
  <2> QED BY <1>1, <2>1 DEF ShadowInv, AgreeInv, WaitInv, ChildInv, Goto, Expected
<1>3. CASE Load
  <2>1. /\ RaiseLine /\ UNCHANGED <<systeminit_reg, mapped, deviceNumber>>
        /\ module' = "loading" /\ Goto(Loader, "status")
    BY <1>3 DEF Load, driverVars
  <2>2. AgreeInv'
    BY <1>1, <2>1, AgreeRaised DEF ShadowInv
  <2> QED BY <1>1, <2>1, <2>2 DEF ShadowInv, WaitInv, ChildInv, Goto, Expected
<1>4. CASE LoadReturns
  <2>1. /\ UNCHANGED <<line, status, bus_state, mapped, deviceNumber>>
        /\ Goto(Loader, "idle") /\ pc[Loader] \in {"ok", "enomem"}
        /\ pc[Timer] = "idle" /\ bus_state = 0
    BY <1>1, <1>4 DEF LoadReturns, Running, timerVars, busVars, SoloInv
  <2>2. CASE pc[Loader] = "ok"
    <3>1. SetShadow(ChildInit(systeminit_reg)) /\ status # "busy"
      BY <1>1, <1>4, <2>2 DEF LoadReturns, SoloInv, Past
    <3>2. AgreeInv'
      BY <1>1, <2>1, <3>1, AgreeWritten DEF ShadowInv
    <3>3. WaitInv'
      BY <2>1, <3>1 DEF WaitInv
    <3>4. systeminit_reg' = ChildInit(systeminit_reg)
      BY <3>1 DEF SetShadow
    <3>5. ChildInit(systeminit_reg') = systeminit_reg'
      BY <3>4, ChildInitTwice
    <3>6. \A b \in Actors : pc'[b] = "idle"
      BY <1>1, <2>1 DEF Goto
    <3>7. ChildInit(systeminit_reg)' = ChildInit(systeminit_reg')
      BY DEF ChildInit
    <3>8. ChildInv'
      BY <3>5, <3>6, <3>7 DEF ChildInv
    <3> QED BY <3>2, <3>3, <3>8 DEF ShadowInv
  <2>3. CASE pc[Loader] # "ok"
    <3>1. module' = "failed" /\ UNCHANGED <<systeminit_reg, hw_init>>
      BY <1>4, <2>3 DEF LoadReturns
    <3> QED BY <1>1, <2>1, <3>1 DEF ShadowInv, AgreeInv, WaitInv, ChildInv, Goto, Expected
  <2> QED BY <2>2, <2>3
<1> QED BY <1>2, <1>3, <1>4

\* The shadow after a change that leaves it and the mapping alone.
LEMMA SameChild ==
  ASSUME UNCHANGED <<systeminit_reg, mapped, deviceNumber>>
  PROVE  /\ ChildInit(systeminit_reg)' = ChildInit(systeminit_reg)
         /\ (Expected \subseteq mapped)' <=> Expected \subseteq mapped
BY DEF ChildInit, Expected

LEMMA TickShadow ==
  ASSUME Solo, Known, ShadowInv, Tick
  PROVE  ShadowInv'
<1>1. /\ \A a \in Actors : pc[a] = "idle"
      /\ module = "loaded" /\ (line = "low" <=> bus_state \in {2, 3})
  BY TickAllIdle
<1>2. /\ Actors = {Loader, Timer} /\ pc \in [Actors -> PCs] /\ Loader # Timer
      /\ line \in {"low", "high"} /\ bus_state \in 0..4
  BY SoloActors DEF Known, TypeInv, TypeOK
<1> USE DEF driverVars, resetVars, busVars
<1>3. CASE ButtonDown
  <2>1. UNCHANGED <<pc, line, status>> /\ shutdown_sequence' = 1
    BY <1>3 DEF ButtonDown
  <2>2. \/ UNCHANGED <<systeminit_reg, hw_init>>
        \/ hw_init' = IF line = "high" THEN systeminit_reg' ELSE hw_init
    BY <1>3 DEF ButtonDown, WriteInit
  <2>3. AgreeInv'
    BY <1>2, <2>1, <2>2 DEF ShadowInv, AgreeInv
  <2> QED BY <1>1, <2>1, <2>3 DEF ShadowInv, WaitInv, ChildInv
<1>4. CASE TickIdle \/ TickGivenUp \/ TickSkip \/ TickAlive
  <2>1. /\ UNCHANGED <<pc, line, status, hw_init, systeminit_reg, mapped, deviceNumber,
                       bus_state, shutdown_sequence>>
    BY <1>4 DEF TickIdle, TickGivenUp, TickSkip, TickAlive, Checking, ButtonUp, buttonVars
  <2> QED BY <1>1, <2>1, SameChild DEF ShadowInv, AgreeInv, WaitInv, ChildInv
<1>5. CASE TickDead
  <2>1. UNCHANGED <<pc, line, status, hw_init, systeminit_reg>> /\ bus_state' = 1
    BY <1>5 DEF TickDead
  <2> QED BY <1>1, <2>1 DEF ShadowInv, AgreeInv, WaitInv, ChildInv
<1>6. CASE TickLower
  BY <1>1, <1>6 DEF TickLower, LowerLine, ShadowInv, AgreeInv, WaitInv, ChildInv, Numbered
<1>7. CASE TickWait
  <2>1. /\ UNCHANGED <<pc, line, status, hw_init, systeminit_reg>>
        /\ bus_state \in {2, 4}
    BY <1>7 DEF TickWait
  <2>2. UNCHANGED shutdown_sequence
    BY <1>7 DEF TickWait, ButtonUp, buttonVars
  <2>3. shutdown_sequence = 0 => status \in {"busy", "bad"}
    BY <1>1, <2>1 DEF ShadowInv, WaitInv
  <2> QED BY <1>1, <2>1, <2>2, <2>3 DEF ShadowInv, AgreeInv, WaitInv, ChildInv, Numbered
<1>8. CASE TickRaise
  <2>1. /\ RaiseLine /\ UNCHANGED <<pc, systeminit_reg>> /\ bus_state = 3 /\ bus_state' = 4
    BY <1>8 DEF TickRaise
  <2>2. AgreeInv'
    BY <1>2, <2>1, AgreeRaised DEF ShadowInv
  <2>3. hw_init' = {} /\ status' \in {"busy", "bad"}
    BY <1>1, <2>1 DEF ShadowInv, AgreeInv, RaiseLine
  <2> QED BY <1>1, <2>1, <2>2, <2>3 DEF ShadowInv, WaitInv, ChildInv
<1>9. CASE TickRestart
  <2>1. /\ UNCHANGED <<line, status, hw_init, bus_state>> /\ Goto(Timer, "status")
        /\ bus_state = 0 /\ status \in {"busy", "bad"} /\ shutdown_sequence = 0
    BY <1>9 DEF TickRestart, Checking, Watching, Recovering
  <2>2. status = "busy" => "SETRESET" \notin hw_init
    BY <1>1, <1>2, <2>1 DEF ShadowInv, WaitInv
  <2>3. AgreeInv'
    BY <2>1, <2>2 DEF ShadowInv, AgreeInv, Numbered
  <2> QED BY <1>1, <1>2, <2>1, <2>3 DEF ShadowInv, WaitInv, ChildInv, Goto
<1> QED BY <1>3, <1>4, <1>5, <1>6, <1>7, <1>8, <1>9 DEF Tick

LEMMA RestartShadow ==
  ASSUME Solo, Known, ShadowInv, RestartEnds
  PROVE  ShadowInv'
<1>1. /\ Actors = {Loader, Timer} /\ pc \in [Actors -> PCs] /\ SoloInv
      /\ line \in {"low", "high"} /\ Loader # Timer
  BY SoloActors DEF Known, TypeInv, TypeOK
<1>2. /\ UNCHANGED <<line, status, mapped, deviceNumber>>
      /\ Goto(Timer, "idle") /\ pc[Timer] \in {"ok", "err", "enomem"}
      /\ pc[Loader] = "idle" /\ bus_state = 0
  BY <1>1 DEF RestartEnds, Results, SoloInv, Known, RecoveryInv
<1>3. \A b \in Actors : pc'[b] = "idle"
  BY <1>1, <1>2 DEF Goto
<1>4. CASE pc[Timer] = "ok"
  <2>1. /\ SetShadow(ChildInit(systeminit_reg)) /\ status # "busy"
        /\ UNCHANGED bus_state
    BY <1>1, <1>4 DEF RestartEnds, SoloInv, Past
  <2>2. AgreeInv'
    BY <1>1, <1>2, <2>1, AgreeWritten DEF ShadowInv
  <2>3. systeminit_reg' = ChildInit(systeminit_reg)
    BY <2>1 DEF SetShadow
  <2>4. ChildInit(systeminit_reg') = systeminit_reg'
    BY <2>3, ChildInitTwice
  <2>5. ChildInit(systeminit_reg)' = ChildInit(systeminit_reg')
    BY DEF ChildInit
  <2> QED BY <1>2, <1>3, <2>1, <2>2, <2>4, <2>5 DEF ShadowInv, WaitInv, ChildInv
<1>5. CASE pc[Timer] = "err"
  <2>1. UNCHANGED <<systeminit_reg, hw_init>> /\ bus_state' = 1
    BY <1>5 DEF RestartEnds
  <2> QED BY <1>2, <1>3, <2>1 DEF ShadowInv, AgreeInv, WaitInv, ChildInv
<1>6. CASE pc[Timer] = "enomem"
  <2>1. UNCHANGED <<systeminit_reg, hw_init, bus_state>> /\ status # "busy"
    BY <1>1, <1>6 DEF RestartEnds, SoloInv, Past
  <2>2. ~(Expected \subseteq mapped)
    BY <1>1, <1>6 DEF ShadowInv, ChildInv
  <2> QED BY <1>2, <1>3, <2>1, <2>2, SameChild DEF ShadowInv, AgreeInv, WaitInv, ChildInv
<1> QED BY <1>2, <1>4, <1>5, <1>6

LEMMA HwShadow ==
  ASSUME Known, ShadowInv, Hw
  PROVE  ShadowInv'
<1>1. UNCHANGED <<module, pc, bus_state, shutdown_sequence, line, hw_init, systeminit_reg,
                  mapped, deviceNumber>>
  BY DEF Hw, HwNumber, HwInterrupt, HwFault, HwRepair, driverVars, timerVars, buttonVars,
         busVars, resetVars
<1>2. CASE HwNumber
  <2>1. status = "busy" /\ status' = "init_end" /\ line = "high" /\ "SETRESET" \in hw_init
    BY <1>2 DEF HwNumber, Numberable
  <2>2. module = "loaded" /\ shutdown_sequence = 0 /\ pc[Timer] = "idle" => bus_state = 1
    BY <2>1 DEF ShadowInv, WaitInv
  <2>3. bus_state # 0 => pc[Timer] = "idle"
    BY DEF Known, RecoveryInv
  <2> QED BY <1>1, <2>1, <2>2, <2>3 DEF ShadowInv, AgreeInv, WaitInv, ChildInv, Numbered, Expected
<1>3. CASE HwInterrupt
  <2>1. status = "init_end" /\ status' = "int_end" /\ line = "high"
    BY <1>3 DEF HwInterrupt, Interruptible
  <2> QED BY <1>1, <2>1, SameChild DEF ShadowInv, AgreeInv, WaitInv, ChildInv, Numbered
<1>4. CASE HwFault \/ HwRepair
  <2>1. status' \in {status, "bad"}
    BY <1>4 DEF HwFault, HwRepair, resetVars
  <2> QED BY <1>1, <2>1, SameChild DEF ShadowInv, AgreeInv, WaitInv, ChildInv, Numbered
<1> QED BY <1>2, <1>3, <1>4 DEF Hw

LEMMA ShadowStep ==
  ASSUME Solo, Known, ShadowInv, TypeInv', [Next]_vars
  PROVE  ShadowInv'
<1>1. /\ Actors = {Loader, Timer} /\ Processes = {Loader} /\ line \in {"low", "high"}
      /\ \A a \in Actors : pc[a] \notin Waits
  BY SoloActors DEF Known, RecoveryInv, TypeInv, TypeOK
<1>2. CASE BusResetRelease(Loader) \/ BusResetRetry(Loader)
  BY <1>1, <1>2 DEF BusResetRelease, BusResetRetry, At, Waits
<1>3. CASE \E p \in Processes : Process(p)
  BY <1>1, <1>2, <1>3, InitShadow, LoadShadow DEF Process, Solo
<1>4. CASE Tick
  BY <1>4, TickShadow
<1>5. CASE DevicesInit(Timer)
  BY <1>1, <1>5, InitShadow
<1>6. CASE RestartEnds
  BY <1>6, RestartShadow
<1>7. CASE Unload
  <2>1. /\ SetShadow(ChildExit(systeminit_reg)) /\ UNCHANGED <<line, status, pc>>
        /\ module' = "removed" /\ \A a \in Actors : pc[a] = "idle"
    BY <1>7 DEF Unload
  <2>2. AgreeInv'
    BY <1>1, <2>1, AgreeWritten DEF ShadowInv
  <2> QED BY <2>1, <2>2 DEF ShadowInv, WaitInv, ChildInv
<1>8. CASE Hw
  BY <1>8, HwShadow
<1>9. CASE UNCHANGED vars
  BY <1>9, SameChild DEF vars, driverVars, timerVars, buttonVars, busVars, resetVars,
                         ShadowInv, AgreeInv, WaitInv, ChildInv
<1> QED BY <1>3, <1>4, <1>5, <1>6, <1>7, <1>8, <1>9 DEF Next

LEMMA SoloInit == Init => SoloInv /\ OffInv /\ ShadowInv
<1> SUFFICES ASSUME Init PROVE SoloInv /\ OffInv /\ ShadowInv
  OBVIOUS
<1>1. /\ \A a \in Actors : pc[a] = "idle"
      /\ Loader \in Actors /\ Timer \in Actors
      /\ module = "absent" /\ bus_state = 0 /\ status \in {"busy", "bad"}
      /\ systeminit_reg = {} /\ hw_init = {}
  BY TimerIsActor DEF Init
<1> QED BY <1>1 DEF SoloInv, OffInv, ShadowInv, AgreeInv, WaitInv, ChildInv, Past, Numbered

\* The FPGA numbers the devices with their interrupt line off: on a new FPGA, when no
\* other driver runs the initialisation and a failed one does not reset the bus, for
\* every stack and child unit (cps-driver.c:1284, 1327, 1889, 1926).
THEOREM InterruptIsOff ==
  ASSUME Solo, FpgaVer > 1 PROVE Spec => []InterruptOffWhileNumbering
<1>1. Init => TypeInv /\ RecoveryInv /\ SoloInv /\ OffInv
  BY InitType, InitDoesRecovery, SoloInit
<1>2. TypeInv /\ RecoveryInv /\ SoloInv /\ OffInv /\ [Next]_vars
        => (TypeInv /\ RecoveryInv /\ SoloInv /\ OffInv)'
  BY TypeStep, RecoveryStep, SoloStep, OffStep DEF Known, Solo
<1>3. OffInv => InterruptOffWhileNumbering
  BY DEF OffInv, InterruptOffWhileNumbering, Numberable
<1> QED BY <1>1, <1>2, <1>3, PTL DEF Spec

\* Whenever no initialisation runs, a controller that works shows the bits of the shadow
\* and has its child unit initialised, after every recovery too: when no other driver
\* runs the initialisation and a failed one does not reset the bus, for every FPGA,
\* stack and child unit (cps-driver.c:1549, 1966, 1970, 3701).
THEOREM ChildUnitIsOn ==
  ASSUME Solo PROVE Spec => []ChildUnitOn
<1>1. Init => TypeInv /\ RecoveryInv /\ SoloInv /\ ShadowInv
  BY InitType, InitDoesRecovery, SoloInit
<1>2. TypeInv /\ RecoveryInv /\ SoloInv /\ ShadowInv /\ [Next]_vars
        => (TypeInv /\ RecoveryInv /\ SoloInv /\ ShadowInv)'
  BY TypeStep, RecoveryStep, SoloStep, ShadowStep DEF Known, Solo
<1>3. ASSUME ShadowInv PROVE ChildUnitOn
  <2> SUFFICES ASSUME Quiet, Up, status = "int_end", shutdown_sequence = 0
               PROVE  hw_init = systeminit_reg /\ ChildInit(hw_init) = hw_init
    BY DEF ChildUnitOn
  <2>1. /\ module = "loaded" /\ pc[Timer] = "idle" /\ bus_state = 0 /\ line = "high"
        /\ Expected \subseteq mapped
    BY TimerIsActor DEF Quiet, Up
  <2>2. hw_init = systeminit_reg /\ ChildInit(systeminit_reg) = systeminit_reg
    BY <1>3, <2>1 DEF ShadowInv, AgreeInv, ChildInv, Numbered
  <2> QED BY <2>2
<1> QED BY <1>1, <1>2, <1>3, PTL DEF Spec

-----------------------------------------------------------------------------
(***************************************************************************)
(* How long a recovery takes.  That it ends needs fairness; that it cannot *)
(* last is a matter of the timer's own counters: from the tick that found  *)
(* a failure there is a fixed number of ticks to go until the bus is       *)
(* watched again, and nothing but a tick changes that number.  This holds  *)
(* whatever the drivers that load meanwhile do to the line.                *)
(***************************************************************************)

\* Ticks until the timer watches the bus again: two seconds with the line low
\* and one second after it, each with the tick that notices that they are over,
\* and the ticks that lower and raise it.
TicksLeft ==
  CASE bus_state = 0 -> 0
    [] bus_state = 1 -> 3 * Hz + 6
    [] bus_state = 2 -> 3 * Hz + 5 - bus_count
    [] bus_state = 3 -> Hz + 3
    [] bus_state = 4 -> Hz + 2 - bus_count

\* The counter is used in the waits only, each within its own limit.
WaitsInv ==
  /\ bus_state \notin {2, 4} => bus_count = 0
  /\ bus_state = 4 => bus_count <= Hz + 1
  /\ pc[Timer] # "idle" => bus_state = 0

\* A step does not touch the sequence, or is a failure, or a tick that moves it.
LEMMA WaitsStep ==
  ASSUME TypeInv, WaitsInv, [Next]_vars
  PROVE  /\ WaitsInv'
         /\ bus_state # 0 /\ ~Tick => UNCHANGED <<bus_state, bus_count>>
<1>1. /\ bus_state \in 0..4 /\ bus_count \in 0..(2 * Hz + 1) /\ Hz \in Nat
      /\ pc \in [Actors -> PCs] /\ Timer \in Actors
  BY ConstantsAssumption, TimerIsActor DEF TypeInv, TypeOK
<1>2. CASE \E p \in Processes : Process(p)
  <2>1. PICK p \in Processes : Process(p)
    BY <1>2
  <2>2. p \in Actors /\ p # Timer
    BY TimerIsActor DEF Processes, Actors
  <2>3. UNCHANGED <<bus_state, bus_count>>
    BY <2>1, <2>2, StepsOfInit
    DEF Process, InitFailed, BusResetRelease, BusResetRetry, CallInit, CallReturns, Load,
        LoadReturns, KeepTimer, timerVars, busVars
  <2>4. pc'[Timer] = pc[Timer]
    BY <1>1, <2>1, <2>2
    DEF Process, DevicesInit, ReadStatus, SetReset, Poll, PollTimeout, ReadCount, RecheckFails,
        MapDevices, SetInterruptLine, CheckAlive, InitFailed, BusResetRelease, BusResetRetry,
        CallInit, CallReturns, Load, LoadReturns, Goto
  <2> QED BY <2>3, <2>4 DEF WaitsInv
<1>3. CASE Tick
  <2> USE DEF Checking
  <2>1. CASE ButtonDown \/ TickIdle \/ TickGivenUp \/ TickSkip \/ TickAlive
    BY <1>3, <2>1 DEF ButtonDown, TickIdle, TickGivenUp, TickSkip, TickAlive, WaitsInv, busVars
  <2>2. CASE TickLower \/ TickRaise
    <3>1. bus_state \in {1, 3} /\ bus_state' \in {2, 4} /\ UNCHANGED <<bus_count, pc>>
      BY <2>2 DEF TickLower, TickRaise
    <3>2. bus_count' = 0 /\ pc'[Timer] = "idle"
      BY <2>2, <3>1 DEF TickLower, TickRaise, WaitsInv, ButtonUp, Ticking, At
    <3> QED BY <1>1, <1>3, <3>1, <3>2 DEF WaitsInv
  <2>3. CASE TickWait
    <3>1. /\ bus_state \in {2, 4}
          /\ IF bus_count <= (IF bus_state = 2 THEN 2 * Hz ELSE Hz)
             THEN bus_count' = bus_count + 1 /\ bus_state' = bus_state
             ELSE bus_count' = 0 /\ bus_state' = IF bus_state = 2 THEN 3 ELSE 0
      BY <1>1, <2>3 DEF TickWait, BusTime
    <3>2. pc'[Timer] = "idle"
      BY <2>3 DEF TickWait, ButtonUp, Ticking, At
    <3>3. bus_state' \notin {2, 4} => bus_count' = 0
      BY <3>1
    <3>4. bus_state' = 4 => bus_count' <= Hz + 1
      BY <1>1, <3>1
    <3> QED BY <1>3, <3>2, <3>3, <3>4 DEF WaitsInv
  <2>4. CASE TickDead
    <3>1. bus_state = 0 /\ bus_state' = 1 /\ bus_count' = 0 /\ pc'[Timer] = "idle"
      BY <2>4 DEF TickDead, WaitsInv, ButtonUp, Ticking, At
    <3> QED BY <1>3, <3>1 DEF WaitsInv
  <2>5. CASE TickRestart
    <3>1. bus_state = 0 /\ UNCHANGED <<bus_state, bus_count>>
      BY <2>5 DEF TickRestart, busVars
    <3> QED BY <1>3, <3>1 DEF WaitsInv
  <2> QED BY <1>3, <2>1, <2>2, <2>3, <2>4, <2>5 DEF Tick
<1>4. CASE DevicesInit(Timer)
  <2>1. UNCHANGED <<bus_state, bus_count>> /\ pc[Timer] # "idle"
    BY <1>1, <1>4, StepsOfInit
    DEF timerVars, busVars, DevicesInit, ReadStatus, SetReset, Poll, PollTimeout, ReadCount,
        RecheckFails, MapDevices, SetInterruptLine, CheckAlive, At, PollDone
  <2> QED BY <2>1 DEF WaitsInv
<1>5. CASE RestartEnds
  <2>1. bus_state = 0 /\ bus_count = 0
    BY <1>5 DEF RestartEnds, WaitsInv, Results
  <2>2. bus_state' \in {0, 1} /\ bus_count' = 0 /\ pc'[Timer] = "idle"
    BY <1>1, <1>5, <2>1 DEF RestartEnds, Goto
  <2> QED BY <2>1, <2>2 DEF WaitsInv
<1>6. CASE Unload
  BY <1>6 DEF Unload, WaitsInv, timerVars, busVars
<1>7. CASE Hw
  BY <1>7 DEF Hw, WaitsInv, timerVars, busVars
<1>8. CASE UNCHANGED vars
  BY <1>8 DEF vars, WaitsInv, timerVars, busVars
<1> QED BY <1>2, <1>3, <1>4, <1>5, <1>6, <1>7, <1>8 DEF Next

\* What is left of a recovery in each state of it.
LEMMA LeftIs ==
  ASSUME TypeInv, WaitsInv
  PROVE  /\ TicksLeft \in 0..(3 * Hz + 6) /\ (TicksLeft = 0 <=> bus_state = 0)
         /\ TicksLeft = IF bus_state = 0 THEN 0 ELSE IF bus_state = 1 THEN 3 * Hz + 6
                        ELSE IF bus_state = 2 THEN 3 * Hz + 5 - bus_count
                        ELSE IF bus_state = 3 THEN Hz + 3 ELSE Hz + 2 - bus_count
<1>1. bus_state \in 0..4 /\ bus_count \in 0..(2 * Hz + 1) /\ Hz \in Nat
  BY ConstantsAssumption DEF TypeInv, TypeOK
<1>2. TicksLeft = IF bus_state = 0 THEN 0 ELSE IF bus_state = 1 THEN 3 * Hz + 6
                  ELSE IF bus_state = 2 THEN 3 * Hz + 5 - bus_count
                  ELSE IF bus_state = 3 THEN Hz + 3 ELSE Hz + 2 - bus_count
  BY <1>1 DEF TicksLeft
<1> QED BY <1>1, <1>2 DEF WaitsInv

\* The same of the next state.
LEMMA LeftWillBe ==
  ASSUME TypeInv', WaitsInv'
  PROVE  TicksLeft' = IF bus_state' = 0 THEN 0 ELSE IF bus_state' = 1 THEN 3 * Hz + 6
                      ELSE IF bus_state' = 2 THEN 3 * Hz + 5 - bus_count'
                      ELSE IF bus_state' = 3 THEN Hz + 3 ELSE Hz + 2 - bus_count'
<1>1. bus_state' \in 0..4
  BY DEF TypeInv, TypeOK
<1> QED BY <1>1 DEF TicksLeft

\* A recovery that is not given up: every tick brings the watch one tick
\* nearer, and nothing else moves it.
RecoveryAdvances ==
  [][bus_state # 0 /\ Watching'
       => TicksLeft' = IF Tick THEN TicksLeft - 1 ELSE TicksLeft]_vars

\* mcs341_controller_timer_function, states 1 to 4 of bus_reseting_state: a
\* recovery takes 3 Hz + 6 ticks from the failure that asked for it, no more and
\* no fewer, unless the limit of the failures or the reset button ends it.
THEOREM RecoveryTakes ==
  Spec => [](TicksLeft \in 0..(3 * Hz + 6) /\ (TicksLeft = 0 <=> bus_state = 0))
          /\ RecoveryAdvances
<1>1. Init => TypeInv /\ WaitsInv
  BY InitType, TimerIsActor DEF Init, WaitsInv
<1>2. TypeInv /\ WaitsInv /\ [Next]_vars => TypeInv' /\ WaitsInv'
  BY TypeStep, WaitsStep
<1>3. TypeInv /\ WaitsInv => TicksLeft \in 0..(3 * Hz + 6) /\ (TicksLeft = 0 <=> bus_state = 0)
  BY LeftIs
<1>4. TypeInv /\ WaitsInv /\ [Next]_vars
      => [bus_state # 0 /\ Watching'
            => TicksLeft' = IF Tick THEN TicksLeft - 1 ELSE TicksLeft]_vars
  <2> SUFFICES ASSUME TypeInv, WaitsInv, [Next]_vars, bus_state # 0, Watching'
               PROVE  TicksLeft' = IF Tick THEN TicksLeft - 1 ELSE TicksLeft
    OBVIOUS
  <2>1. TypeInv' /\ WaitsInv'
    BY <1>2
  <2>2. bus_state \in 0..4 /\ bus_count \in 0..(2 * Hz + 1) /\ Hz \in Nat
        /\ (bus_state \notin {2, 4} => bus_count = 0)
    BY ConstantsAssumption DEF TypeInv, TypeOK, WaitsInv
  <2>3. CASE ~Tick
    <3>1. UNCHANGED <<bus_state, bus_count>>
      BY <2>3, WaitsStep
    <3> QED BY <2>1, <2>3, <3>1, LeftIs, LeftWillBe
  <2>4. CASE Tick
    <3> SUFFICES TicksLeft' = TicksLeft - 1
      BY <2>4
    <3>1. shutdown_sequence' = 0 /\ AutoRecovery /\ failed_count' <= FailedMax
      BY DEF Watching, Recovering
    <3>2. ~ButtonDown /\ ~TickIdle /\ ~TickGivenUp
      <4>1. ~ButtonDown
        BY <3>1 DEF ButtonDown
      <4>2. ButtonUp => shutdown_sequence = 0
        BY <3>1 DEF ButtonUp, buttonVars
      <4>3. ~TickIdle
        BY <3>1, <4>2 DEF TickIdle, Recovering
      <4>4. ~TickGivenUp
        BY <3>1, ConstantsAssumption DEF TickGivenUp, driverVars, TypeInv, TypeOK
      <4> QED BY <4>1, <4>3, <4>4
    <3>3. TickLower \/ TickWait \/ TickRaise
      BY <2>4, <3>2 DEF Tick, TickSkip, TickAlive, TickDead, TickRestart, Checking
    <3>4. CASE TickLower
      <4>1. bus_state = 1 /\ bus_state' = 2 /\ bus_count' = bus_count
        BY <3>4 DEF TickLower
      <4> QED BY <2>1, <2>2, <4>1, LeftIs, LeftWillBe
    <3>5. CASE TickWait
      <4>1. /\ bus_state \in {2, 4}
            /\ IF bus_count <= (IF bus_state = 2 THEN 2 * Hz ELSE Hz)
               THEN bus_count' = bus_count + 1 /\ bus_state' = bus_state
               ELSE bus_count' = 0 /\ bus_state' = IF bus_state = 2 THEN 3 ELSE 0
        BY <2>2, <3>5 DEF TickWait, BusTime
      <4>2. bus_state = 4 => bus_count <= Hz + 1
        BY DEF WaitsInv
      <4> QED BY <2>1, <2>2, <4>1, <4>2, LeftIs, LeftWillBe
    <3>6. CASE TickRaise
      <4>1. bus_state = 3 /\ bus_state' = 4 /\ bus_count' = bus_count
        BY <3>6 DEF TickRaise
      <4> QED BY <2>1, <2>2, <4>1, LeftIs, LeftWillBe
    <3> QED BY <3>3, <3>4, <3>5, <3>6
  <2> QED BY <2>3, <2>4
<1> QED BY <1>1, <1>2, <1>3, <1>4, PTL DEF Spec, RecoveryAdvances
=============================================================================
