----------------------------- MODULE ChildUnit -----------------------------
(***************************************************************************)
(* The child unit of the controller: the programs of cps-driver.c that     *)
(* switch it on and off, and the sysfs files, the module's load and unload *)
(* and the timer that run them.  They all change mcs341_systeminit_reg,    *)
(* the shadow of one register, and sleep for seconds between two changes;  *)
(* no lock keeps another file's program out meanwhile.  Nor is a change    *)
(* between two sleeps one step: the shadow is loaded, stored with other    *)
(* bits and then written to the register, and only the last of the three   *)
(* takes a lock.  The timer neither sleeps nor is interrupted: nobody else *)
(* runs until it has ended.  Several changes without a sleep between them  *)
(* are one change here.  The register's bits of the stack bus are left out:*)
(* StackBus has them.                                                      *)
(***************************************************************************)
EXTENDS Naturals, Sequences

CONSTANTS
  Stores,     \* processes that write to sysfs files
  Module,     \* the load and the unload of cps-driver
  Timer,
  None,
  Units,      \* values of child_unit
  MaxResets,  \* bound on the resets of the FPGA
  MaxCuts     \* bound on the changes that are interrupted

\* "00" stands for the units that share its program (00, 10, 20, 50, the test
\* jig), "other" for a number that no unit has.
Known == {"00", "40", "90", "A0"}

ASSUME UnitAssumption ==
  /\ Units \subseteq Known \cup {"NONE", "other"}
  /\ "NONE" \in Units /\ None \notin Units
  /\ Module # Timer /\ {Module, Timer} \cap Stores = {}
  /\ MaxResets \in Nat /\ MaxCuts \in Nat

VARIABLES
  module,             \* "loading", "loaded", "leaving" or "removed"
  child_unit,
  child_unit_enable,  \* child_unit_enable = 1
  systeminit_reg,     \* shadow of the register: the bits that are 1
  hw_init,            \* the register itself
  bus,                \* "up", or "down" from a reset to the next restart
  resets,             \* resets of the FPGA so far
  job, step,          \* what each actor runs, and the stretch that comes next
  stage,              \* how far each is in it: "asleep" before it, or interrupted
                      \* with the shadow "loaded" or "stored"
  word,               \* the shadow as it loaded or stored it
  cuts,               \* interruptions so far
  modem,              \* an EC25 is "on" or "off", as long as nothing is mixed
  powered_by,         \* history: the unit whose program switched POWER on, also
                      \* as long as nothing is mixed
  torn,               \* history: the last change of the shadow was interrupted
                      \* between its store and its write, or by one that was
  mixed,              \* history: two programs overlapped, one was interrupted, or
                      \* the pins or the number of a running unit were changed
  faulted             \* the registers were used after they were unmapped

bits == <<systeminit_reg, hw_init, modem, powered_by>>
change == <<stage, word, cuts, torn>>
vars == <<module, child_unit, child_unit_enable, bits, bus, resets, job, step,
          change, mixed, faulted>>

Actors == Stores \cup {Module, Timer}
\* 3G3 is PWR_ON of an EC25 and of a LARA-R2, 3G4 is LDO_SHUTDOWN.
Bits == {"POWER", "RESET", "3G3", "3G4"}
Pins == {"io3_on", "io3_off", "io4_on", "io4_off"}
Jobs == [does : {"init", "exit", "reset"} \cup Pins, unit : Units,
         next : Units \cup {None}]

ASSUME NoneAssumption == None \notin Jobs

-----------------------------------------------------------------------------
\* The programs, one entry for each stretch between two sleeps.

Stretch(on, off) == [on |-> on, off |-> off, write |-> TRUE]
Nothing == [on |-> {}, off |-> {}, write |-> FALSE]

InitProgram(unit) ==
  CASE unit = "90" -> << Stretch({"3G3", "RESET", "POWER"}, {"3G4"}),
                         Stretch({"3G4"}, {"3G3", "RESET"}) >>
    [] unit = "A0" -> << Stretch({"POWER"}, {"RESET", "3G3"}),
                         Stretch({"3G3"}, {}), Stretch({}, {"3G3"}) >>
    [] unit = "40" -> << Stretch({"POWER"}, {}), Stretch({"RESET"}, {}),
                         Stretch({"3G4"}, {}) >>
    [] unit = "NONE" -> << Nothing >>
    [] OTHER -> << Stretch({"POWER"}, {}), Stretch({"RESET"}, {}) >>

\* Wrong: the last change of the shadow is not written.
ExitProgramNoWrite(unit) ==
  CASE unit = "90" -> << Stretch({"3G3"}, {}), Stretch({}, {"3G3"}),
                         Stretch({"3G3"}, {}),
                         Stretch({"RESET"}, {"3G4", "POWER"}) >>
    [] unit = "A0" -> << Stretch({"3G3"}, {}), Stretch({}, {"3G3"}),
                         [Nothing EXCEPT !.off = {"POWER"}] >>
    [] unit = "40" -> << [Nothing EXCEPT !.off = {"3G4"}],
                         Stretch({}, {"RESET"}), Stretch({}, {"POWER"}) >>
    [] unit = "NONE" -> << Nothing >>
    [] OTHER -> << Stretch({}, {"RESET"}), Stretch({}, {"POWER"}) >>

\* Unit 40 sleeps between a change of the shadow and its write.
ExitProgram(unit) ==
  CASE unit = "90" -> << Stretch({"3G3"}, {}), Stretch({}, {"3G3"}),
                         Stretch({"3G3"}, {}),
                         Stretch({"RESET"}, {"3G4", "POWER"}) >>
    [] unit = "A0" -> << Stretch({"3G3"}, {}), Stretch({}, {"3G3"}),
                         Stretch({}, {"POWER"}) >>
    [] unit = "40" -> << [Nothing EXCEPT !.off = {"3G4"}],
                         Stretch({}, {"RESET"}), Stretch({}, {"POWER"}) >>
    [] unit = "NONE" -> << Nothing >>
    [] OTHER -> << Stretch({}, {"RESET"}), Stretch({}, {"POWER"}) >>

PinProgram(pin) ==
  CASE pin = "io3_on"  -> << Stretch({"3G3"}, {}) >>
    [] pin = "io3_off" -> << Stretch({}, {"3G3"}) >>
    [] pin = "io4_on"  -> << Stretch({"3G4"}, {}) >>
    [] pin = "io4_off" -> << Stretch({}, {"3G4"}) >>

Program(j) ==
  CASE j.does = "init"  -> InitProgram(j.unit)
    [] j.does = "exit"  -> ExitProgram(j.unit)
    [] j.does = "reset" -> << Stretch({"RESET"}, {}), Stretch({}, {"RESET"}) >>
    [] OTHER -> PinProgram(j.does)

-----------------------------------------------------------------------------
TypeOK ==
  /\ module \in {"loading", "loaded", "leaving", "removed"}
  /\ child_unit \in Units /\ child_unit_enable \in BOOLEAN
  /\ systeminit_reg \subseteq Bits /\ hw_init \subseteq Bits
  /\ bus \in {"up", "down"} /\ resets \in 0..MaxResets
  /\ job \in [Actors -> Jobs \cup {None}]
  /\ step \in [Actors -> 1..4]
  /\ \A a \in Actors :
       step[a] <= IF job[a] = None THEN 1 ELSE Len(Program(job[a]))
  /\ stage \in [Actors -> {"asleep", "loaded", "stored"}]
  /\ \A a \in Actors :
       stage[a] # "asleep" => job[a] # None /\ Program(job[a])[step[a]] # Nothing
  /\ word \in [Actors -> SUBSET Bits] /\ cuts \in 0..MaxCuts /\ torn \in BOOLEAN
  /\ modem \in {"on", "off"}
  /\ powered_by \in Units
  /\ mixed \in BOOLEAN /\ faulted \in BOOLEAN

\* The initialisation of the bus is done; the load has the unit's program to
\* run before the timer is started and the sysfs files appear.
Init ==
  /\ module = "loading"
  /\ child_unit \in Units /\ child_unit_enable = FALSE
  /\ systeminit_reg = {} /\ hw_init = {}
  /\ bus = "up" /\ resets = 0
  /\ job = [a \in Actors |-> None] /\ step = [a \in Actors |-> 1]
  /\ stage = [a \in Actors |-> "asleep"] /\ word = [a \in Actors |-> {}]
  /\ modem = "off" /\ powered_by = "NONE"
  /\ cuts = 0 /\ torn = FALSE /\ mixed = FALSE /\ faulted = FALSE

Busy(a) == job[a] # None
Alone(a) == \A b \in Actors \ {a} : ~Busy(b)
Idle == \A a \in Actors : ~Busy(a)
Running(a) == ~faulted /\ (Busy(Timer) => a = Timer)
Free(a) == Running(a) /\ ~Busy(a)

\* What a write of the register does to the modem: it is off without POWER,
\* and PWR_ON, pressed and let go, switches it on or off.
ModemAfter(new) ==
  CASE "POWER" \notin hw_init \cap new -> "off"
    [] "POWER" \in hw_init \cap new /\ "3G3" \in hw_init \ new ->
         IF modem = "on" THEN "off" ELSE "on"
    [] OTHER -> modem

NoPower == modem' = "off"

\* The shadow w after stretch s
Changed(w, s) == (w \ s.off) \cup s.on

\* The register takes a word, and the unit with it.
Write(j, k, new) ==
  /\ hw_init' = new
  /\ IF mixed THEN modem' = "off" /\ powered_by' = "NONE"
     ELSE /\ modem' = ModemAfter(new)
          /\ powered_by' = IF "POWER" \in Program(j)[k].on THEN j.unit ELSE powered_by
NoWrite == UNCHANGED <<hw_init, modem, powered_by>>

Last(j, k) == k = Len(Program(j))

\* What follows the last stretch.
Result(j) ==
  /\ child_unit_enable' = CASE j.does = "exit" -> FALSE
                            [] j.does = "init" /\ j.unit \in Known -> TRUE
                            [] OTHER -> child_unit_enable
  /\ child_unit' = IF j.next = None THEN child_unit ELSE j.next

\* Stretch k of job j ends: actor a goes to sleep, or its program is through.
Finish(a, j, k) ==
  /\ IF Last(j, k)
     THEN /\ Result(j)
          /\ job' = [job EXCEPT ![a] = None] /\ step' = [step EXCEPT ![a] = 1]
     ELSE /\ UNCHANGED <<child_unit, child_unit_enable>>
          /\ job' = [job EXCEPT ![a] = j] /\ step' = [step EXCEPT ![a] = k + 1]
  /\ stage' = [stage EXCEPT ![a] = "asleep"] /\ word' = [word EXCEPT ![a] = {}]
  /\ UNCHANGED cuts

\* Somebody else has stored the shadow and not yet written it.
Pending(a) == \E b \in Actors \ {a} : stage[b] = "stored"

\* The stretch, or what is left of it once w was loaded: the shadow is changed,
\* and written.
Perform(a, j, k, w) ==
  LET s == Program(j)[k] IN
  /\ systeminit_reg' = Changed(w, s)
  /\ IF s.write THEN Write(j, k, Changed(w, s)) ELSE NoWrite
  /\ torn' = IF s = Nothing THEN torn ELSE Pending(a)
  /\ Finish(a, j, k)

\* It is interrupted where the shadow is w.
Interrupt(a, j, k, where, w) ==
  /\ a # Timer /\ cuts < MaxCuts /\ cuts' = cuts + 1
  /\ job' = [job EXCEPT ![a] = j] /\ step' = [step EXCEPT ![a] = k]
  /\ stage' = [stage EXCEPT ![a] = where] /\ word' = [word EXCEPT ![a] = w]
  /\ modem' = "off" /\ powered_by' = "NONE"
  /\ UNCHANGED <<child_unit, child_unit_enable, hw_init>>

\* mcs341_systeminit_reg |= or &= is a load ...
LoadWord(a, j, k) ==
  /\ Program(j)[k] # Nothing
  /\ Interrupt(a, j, k, "loaded", systeminit_reg)
  /\ UNCHANGED <<systeminit_reg, torn>>

\* ... and a store, and setSystemInit has yet to take the lock of outb.
StoreWord(a, j, k, w) ==
  /\ Program(j)[k].write
  /\ systeminit_reg' = Changed(w, Program(j)[k])
  /\ torn' = Pending(a)
  /\ Interrupt(a, j, k, "stored", systeminit_reg')

\* It then writes what it stored, or the shadow if it loads it only now.
WriteWord(a, j, k) ==
  /\ \E new \in {word[a], systeminit_reg} : Write(j, k, new)
  /\ torn' = (torn \/ Pending(a))
  /\ Finish(a, j, k)
  /\ UNCHANGED systeminit_reg

\* An actor that is awake at stretch k of job j, the shadow not yet loaded
Awake(a, j, k) ==
  \/ Perform(a, j, k, systeminit_reg)
  \/ LoadWord(a, j, k)
  \/ StoreWord(a, j, k, systeminit_reg)

Begin(a, what, unit, next) ==
  Awake(a, [does |-> what, unit |-> unit, next |-> next], 1)

\* Two programs overlap, or one is interrupted (an interruption in which nobody
\* else does anything is none).
Mixes(a) == mixed' = (mixed \/ ~Alone(a) \/ stage'[a] # "asleep")
\* The pins or the number of a unit that has power are changed.
Powered == "POWER" \in systeminit_reg \cup hw_init
Disturbs(a) ==
  mixed' = (mixed \/ child_unit_enable \/ Powered \/ ~Idle \/ stage'[a] # "asleep")

-----------------------------------------------------------------------------
\* contec_mcs341_controller_init and exit.  The exit stops the timer, runs the
\* unit's program, unmaps the registers and then takes the sysfs files away.

Load ==
  /\ module = "loading" /\ Free(Module)
  /\ Begin(Module, "init", child_unit, None) /\ Mixes(Module)
  /\ module' = IF Busy(Module)' THEN "loading" ELSE "loaded"
  /\ UNCHANGED <<bus, resets, faulted>>

\* Wrong: the registers are unmapped first.
UnloadUnmapsFirst ==
  /\ module = "loaded" /\ Free(Module)
  /\ module' = "removed"
  /\ IF child_unit # "NONE" THEN Begin(Module, "exit", child_unit, None)
     ELSE UNCHANGED <<child_unit, child_unit_enable, bits, job, step, change>>
  /\ Mixes(Module)
  /\ UNCHANGED <<bus, resets, faulted>>

Unload ==
  /\ module = "loaded" /\ Free(Module)
  /\ IF child_unit # "NONE"
     THEN /\ Begin(Module, "exit", child_unit, None)
          /\ module' = "leaving"
     ELSE /\ module' = "removed"
          /\ UNCHANGED <<child_unit, child_unit_enable, bits, job, step, change>>
  /\ Mixes(Module)
  /\ UNCHANGED <<bus, resets, faulted>>

\* The parameter of the module: no program runs.
SetParameter ==
  /\ module # "removed" /\ Running(Module)
  /\ child_unit' \in Units \ {child_unit}
  /\ UNCHANGED <<module, child_unit_enable, bits, bus, resets, job, step, change,
                 faulted>>
  /\ Disturbs(Module)

-----------------------------------------------------------------------------
\* The sysfs files

Store(p) == module \in {"loaded", "leaving"} /\ Free(p)
AfterStore == UNCHANGED <<module, bus, resets, faulted>>

\* child_unit_enable
Disable(p) ==
  /\ Store(p) /\ child_unit # "NONE" /\ child_unit_enable
  /\ Begin(p, "exit", child_unit, None) /\ Mixes(p) /\ AfterStore
Enable(p) ==
  /\ Store(p) /\ child_unit # "NONE" /\ ~child_unit_enable
  /\ Begin(p, "init", child_unit, None) /\ Mixes(p) /\ AfterStore

\* child_unit_number
\* Wrong: a unit that is on is not switched off.
StoreNumberKeepsOn(p) ==
  /\ Store(p)
  /\ child_unit' \in Units
  /\ child_unit_enable' = FALSE
  /\ UNCHANGED <<bits, job, step, change>>
  /\ Mixes(p) /\ AfterStore

StoreNumber(p) ==
  /\ Store(p)
  /\ \E unit \in Units :
       IF child_unit_enable THEN Begin(p, "exit", child_unit, unit) /\ Mixes(p)
       ELSE /\ child_unit' = unit
            /\ UNCHANGED <<child_unit_enable, bits, job, step, change>>
            /\ Disturbs(p)
  /\ AfterStore

\* extend_reset
StoreReset(p) ==
  /\ Store(p) /\ child_unit = "A0"
  /\ Begin(p, "reset", child_unit, None) /\ Mixes(p) /\ AfterStore

\* extend_3g_io3_value, extend_3g_io4_value
StorePin(p) ==
  /\ Store(p)
  /\ \E pin \in Pins : Begin(p, pin, child_unit, None)
  /\ Disturbs(p) /\ AfterStore

-----------------------------------------------------------------------------
\* An actor wakes up.

\* "2-fold initialisation is suppressed": the program of unit A0 ends here.
Suppressed(a) ==
  /\ stage[a] = "asleep" /\ job[a].does = "init" /\ job[a].unit = "A0"
  /\ step[a] = 2 /\ child_unit_enable

GiveUp(a) ==
  /\ Running(a) /\ Busy(a) /\ Suppressed(a)
  /\ job' = [job EXCEPT ![a] = None] /\ step' = [step EXCEPT ![a] = 1]
  /\ module' = IF a = Module THEN "loaded" ELSE module
  /\ UNCHANGED <<child_unit, child_unit_enable, bits, bus, resets, change, mixed,
                 faulted>>

\* It goes on from a sleep, or from an interruption.
Continue(a, j, k) ==
  \/ stage[a] = "asleep" /\ Awake(a, j, k)
  \/ stage[a] = "loaded" /\ (Perform(a, j, k, word[a]) \/ StoreWord(a, j, k, word[a]))
  \/ stage[a] = "stored" /\ WriteWord(a, j, k)

Advance(a) ==
  /\ Running(a) /\ Busy(a) /\ ~Suppressed(a)
  /\ Continue(a, job[a], step[a])
  /\ mixed' = (mixed \/ stage'[a] # "asleep")
  /\ faulted' = (/\ module = "removed" /\ stage'[a] = "asleep"
                 /\ Program(job[a])[step[a]].write)
  /\ module' = CASE a = Module /\ ~Busy(a)' /\ module = "loading" -> "loaded"
                 [] a = Module /\ ~Busy(a)' /\ module = "leaving" -> "removed"
                 [] OTHER -> module
  /\ UNCHANGED <<bus, resets>>

-----------------------------------------------------------------------------
\* The bus

\* The FPGA is reset, and with it the register: by the timer, by a driver that
\* loads, or by a fault.
BusReset ==
  /\ Running(Module) /\ module # "removed"
  /\ resets < MaxResets /\ resets' = resets + 1
  /\ bus' = "down" /\ hw_init' = {} /\ NoPower
  /\ mixed' = (mixed \/ ~Idle)
  /\ UNCHANGED <<module, child_unit, child_unit_enable, systeminit_reg, powered_by, job,
                 step, change, faulted>>

\* Wrong: the unit's program does not follow.
RestartNoUnit ==
  /\ module = "loaded" /\ bus = "down" /\ Free(Timer)
  /\ systeminit_reg' = {} /\ hw_init' = {} /\ NoPower
  /\ bus' = "up"
  /\ torn' = Pending(Timer)
  /\ UNCHANGED <<module, child_unit, child_unit_enable, powered_by,
                 resets, job, step, stage, word, cuts, mixed, faulted>>

\* The timer restarts the bus: it clears the shadow, and the initialisation
\* of the bus writes the register.  The unit's program follows, whether or not
\* the unit was switched on.
Restart ==
  /\ module = "loaded" /\ bus = "down" /\ Free(Timer)
  /\ systeminit_reg' = {} /\ hw_init' = {} /\ NoPower
  /\ bus' = "up"
  /\ job' = [job EXCEPT ![Timer] = [does |-> "init", unit |-> child_unit,
                                    next |-> None]]
  /\ torn' = Pending(Timer) /\ mixed' = (mixed \/ ~Alone(Timer))
  /\ UNCHANGED <<module, child_unit, child_unit_enable, powered_by,
                 resets, step, stage, word, cuts, faulted>>

\* The initialisation fails, before or after its first write.
RestartFails ==
  /\ module = "loaded" /\ bus = "down" /\ Free(Timer)
  /\ systeminit_reg' = {}
  /\ \/ UNCHANGED <<hw_init, modem>>
     \/ hw_init' = {} /\ modem' = "off"
  /\ torn' = (torn \/ Pending(Timer)) /\ mixed' = (mixed \/ ~Alone(Timer))
  /\ UNCHANGED <<module, child_unit, child_unit_enable, powered_by, bus,
                 resets, job, step, stage, word, cuts, faulted>>

StoreAny(p) == Disable(p) \/ Enable(p) \/ StoreNumber(p) \/ StoreReset(p) \/ StorePin(p)
Next ==
  \/ Load \/ Unload \/ SetParameter
  \/ \E p \in Stores : StoreAny(p)
  \/ \E a \in Actors : GiveUp(a) \/ Advance(a)
  \/ BusReset \/ Restart \/ RestartFails

Spec == Init /\ [][Next]_vars

-----------------------------------------------------------------------------
\* The bits that a unit needs while it is in use.
Ready(unit) ==
  /\ "POWER" \in hw_init
  /\ CASE unit = "00" -> "RESET" \in hw_init
       [] unit = "40" -> {"RESET", "3G4"} \subseteq hw_init
       [] unit = "90" -> "3G4" \in hw_init /\ hw_init \cap {"RESET", "3G3"} = {}
       [] unit = "A0" -> hw_init \cap {"RESET", "3G3"} = {}

\* A unit that child_unit_enable reports as switched on has its power and is out
\* of its reset, through changes of its number, resets and restarts of the bus,
\* and it is the unit whose program ran (_contec_mcs341_controller_cpsChildUnitInit).
\* A modem was also started, unless the FPGA was reset meanwhile.
EnabledReady ==
  ~mixed /\ bus = "up" /\ Idle /\ child_unit_enable =>
    /\ powered_by = child_unit /\ child_unit \in Known
    /\ Ready(child_unit)
    /\ child_unit = "A0" /\ resets = 0 => modem = "on"

\* A unit that child_unit_enable reports as switched off has no power, unless
\* its number was unknown when it was powered: the program of an unknown number
\* powers it and returns before child_unit_enable is set (line 1622).
DisabledOff ==
  ~mixed /\ Idle /\ ~child_unit_enable /\ "POWER" \in hw_init
    => powered_by \notin Known

\* Actor a sleeps in the exit of unit 40, between a change of the shadow and its
\* write.
InGap(a) ==
  Busy(a) /\ job[a].does = "exit" /\ job[a].unit = "40" /\ step[a] = 2

\* What the sysfs files show is what the register holds
\* (contec_mcs341_extend_reset_show reads the shadow), also when programs of
\* several actors overlap in their sleeps.  Where one interrupts another between
\* its store of the shadow and its write, the two may differ, but no longer than
\* to the next change that meets none such: a file's, the module's or the timer's.
ShadowWritten ==
  bus = "up" /\ ~torn /\ (\A a \in Actors : stage[a] # "stored" /\ ~InGap(a))
    => systeminit_reg = hw_init

\* The registers are not used after contec_mcs341_controller_exit unmapped
\* them, unless a file's program overlaps with the exit.
NoWildWrite == faulted => mixed

\* The inductive invariants of the proofs.  While nothing tore the last change,
\* the only one that is stored and not yet written is what its actor will write.
ShadowInv ==
  /\ ShadowWritten
  /\ ~torn => \A a \in Actors : stage[a] = "stored" =>
       ~Pending(a) /\ systeminit_reg = word[a]

\* Rest holds while nothing is mixed and
\* no program runs, Progress(a) while actor a runs one.
Rest ==
  /\ bus = "up" => systeminit_reg = hw_init
  /\ IF child_unit_enable
     THEN /\ powered_by = child_unit
          /\ bus = "up" => Ready(child_unit)
          /\ child_unit = "A0" /\ resets = 0 => modem = "on"
     ELSE Powered => powered_by = child_unit /\ child_unit \notin Known

InitProgress(a) ==
  /\ child_unit_enable => resets > 0
  /\ step[a] = 1 => /\ systeminit_reg = {} /\ hw_init = {}
                    /\ a = Timer /\ resets > 0
  /\ step[a] > 1 => /\ "POWER" \in hw_init /\ systeminit_reg = hw_init
                    /\ powered_by = child_unit
  /\ child_unit = "40" /\ step[a] = 3 => "RESET" \in hw_init
  /\ child_unit = "A0" /\ step[a] > 1 =>
       /\ "RESET" \notin hw_init /\ ("3G3" \in hw_init <=> step[a] = 3)
       /\ resets = 0 => modem = "off"

ResetProgress(a) ==
  /\ child_unit = "A0" /\ step[a] = 2
  /\ bus = "up" => systeminit_reg = hw_init
  /\ IF child_unit_enable
     THEN /\ powered_by = "A0"
          /\ bus = "up" => "POWER" \in hw_init /\ "3G3" \notin hw_init
          /\ resets = 0 => modem = "on"
     ELSE ~Powered

Progress(a) ==
  /\ job[a].unit = child_unit
  /\ job[a].does # "exit" => job[a].next = None
  /\ a = Module => module \in {"loading", "leaving"}
  /\ \/ job[a].does = "init" /\ InitProgress(a)
     \/ job[a].does = "exit" /\ child_unit # "NONE"
     \/ job[a].does = "reset" /\ ResetProgress(a)

UnmixedInv ==
  /\ module = "removed" => Idle
  /\ module = "loading" => ~child_unit_enable /\ \A a \in Actors \ {Module} : ~Busy(a)
  /\ \A a, b \in Actors : Busy(a) /\ Busy(b) => a = b
  /\ child_unit_enable => child_unit \in Known
  /\ "POWER" \notin hw_init => modem = "off"
  /\ Idle => Rest
  /\ \A a \in Actors : Busy(a) => Progress(a)

\* While nothing is mixed, one program at most runs, and what it has left to do
\* completes what the bits of the register and the modem show.
UnitInv ==
  /\ bus = "down" => resets > 0
  /\ faulted => mixed
  /\ ~mixed => UnmixedInv /\ \A a \in Actors : stage[a] = "asleep"

\* "USB devices (/dev/ttyUSB0 - /dev/ttyUSB3) appear after 13 sec"
\* (cps-driver.c:1530): a modem that is reported as switched on was started.
ModemStarted ==
  ~mixed /\ bus = "up" /\ Idle /\ child_unit_enable /\ child_unit = "A0"
    => modem = "on"
=============================================================================
