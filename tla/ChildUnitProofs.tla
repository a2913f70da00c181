-------------------------- MODULE ChildUnitProofs --------------------------
(* Theorems about ChildUnit, for any number of processes and any units.    *)
EXTENDS ChildUnit, TLAPS

\* Every program is one to four stretches long, and a stretch names bits.
LEMMA ProgramShape ==
  ASSUME NEW j \in Jobs
  PROVE  /\ Len(Program(j)) \in 1..4
         /\ \A k \in 1..Len(Program(j)) :
              /\ Program(j)[k].on \subseteq Bits
              /\ Program(j)[k].off \subseteq Bits
<1> USE DEF Stretch, Nothing, Bits
<1>1. j.does \in {"init", "exit", "reset"} \cup Pins BY DEF Jobs
<1>2. CASE j.does = "init"
  <2>1. Program(j) = InitProgram(j.unit) BY <1>2 DEF Program
  <2>2. CASE j.unit = "90" BY <2>1, <2>2 DEF InitProgram
  <2>3. CASE j.unit = "A0" BY <2>1, <2>3 DEF InitProgram
  <2>4. CASE j.unit = "40" BY <2>1, <2>4 DEF InitProgram
  <2>5. CASE j.unit = "NONE" BY <2>1, <2>5 DEF InitProgram
  <2>6. CASE j.unit \notin {"90", "A0", "40", "NONE"}
    BY <2>1, <2>6 DEF InitProgram
  <2> QED BY <2>2, <2>3, <2>4, <2>5, <2>6
<1>3. CASE j.does = "exit"
  <2>1. Program(j) = ExitProgram(j.unit) BY <1>3 DEF Program
  <2>2. CASE j.unit = "90" BY <2>1, <2>2 DEF ExitProgram
  <2>3. CASE j.unit = "A0" BY <2>1, <2>3 DEF ExitProgram
  <2>4. CASE j.unit = "40" BY <2>1, <2>4 DEF ExitProgram
  <2>5. CASE j.unit = "NONE" BY <2>1, <2>5 DEF ExitProgram
  <2>6. CASE j.unit \notin {"90", "A0", "40", "NONE"}
    BY <2>1, <2>6 DEF ExitProgram
  <2> QED BY <2>2, <2>3, <2>4, <2>5, <2>6
<1>4. CASE j.does = "reset" BY <1>4 DEF Program
<1>5. CASE j.does \in Pins
  <2>1. Program(j) = PinProgram(j.does) BY <1>5 DEF Program, Pins
  <2> QED BY <2>1, <1>5 DEF PinProgram, Pins
<1> QED BY <1>1, <1>2, <1>3, <1>4, <1>5

-----------------------------------------------------------------------------
(* Types. *)

\* The step of an actor is one of its program, and a stretch that is interrupted
\* changes something.
StepFits(a) == step[a] <= IF job[a] = None THEN 1 ELSE Len(Program(job[a]))
StageFits(a) ==
  stage[a] # "asleep" => job[a] # None /\ Program(job[a])[step[a]] # Nothing

\* The parts of TypeOK that a stretch of a program changes.
ControlTypes ==
  /\ child_unit \in Units /\ child_unit_enable \in BOOLEAN
  /\ job \in [Actors -> Jobs \cup {None}]
  /\ step \in [Actors -> 1..4]
  /\ \A a \in Actors : StepFits(a)
  /\ stage \in [Actors -> {"asleep", "loaded", "stored"}]
  /\ \A a \in Actors : StageFits(a)
  /\ word \in [Actors -> SUBSET Bits] /\ cuts \in 0..MaxCuts

BitTypes ==
  /\ systeminit_reg \subseteq Bits /\ hw_init \subseteq Bits
  /\ modem \in {"on", "off"} /\ powered_by \in Units
  /\ torn \in BOOLEAN

OtherTypes ==
  /\ module \in {"loading", "loaded", "leaving", "removed"}
  /\ bus \in {"up", "down"} /\ resets \in 0..MaxResets
  /\ mixed \in BOOLEAN /\ faulted \in BOOLEAN

\* TypeOK consists of the three.
LEMMA TypeParts ==
  /\ TypeOK <=> ControlTypes /\ BitTypes /\ OtherTypes
  /\ TypeOK' <=> ControlTypes' /\ BitTypes' /\ OtherTypes'
  BY DEF TypeOK, ControlTypes, BitTypes, OtherTypes, StepFits, StageFits

\* The initial states have their types.
LEMMA TypeInit == Init => TypeOK
<1> SUFFICES ASSUME Init PROVE TypeOK OBVIOUS
<1>1. resets \in 0..MaxResets /\ cuts \in 0..MaxCuts BY UnitAssumption DEF Init
<1>2. OtherTypes BY <1>1 DEF Init, OtherTypes
<1>3. "NONE" \in Units BY UnitAssumption
<1>4. job \in [Actors -> Jobs \cup {None}] BY DEF Init
<1>5. step \in [Actors -> 1..4] BY DEF Init
<1>6. \A a \in Actors : StepFits(a) /\ StageFits(a)
  <2> SUFFICES ASSUME NEW a \in Actors PROVE StepFits(a) /\ StageFits(a) OBVIOUS
  <2>1. job[a] = None /\ step[a] = 1 /\ stage[a] = "asleep" BY DEF Init
  <2> QED BY <2>1 DEF StepFits, StageFits
<1>7. stage \in [Actors -> {"asleep", "loaded", "stored"}] BY DEF Init
<1>8. word \in [Actors -> SUBSET Bits] BY DEF Init
<1>9. ControlTypes
  BY <1>1, <1>4, <1>5, <1>6, <1>7, <1>8 DEF Init, ControlTypes
<1>10. BitTypes BY <1>3 DEF Init, BitTypes
<1> QED BY <1>2, <1>9, <1>10, TypeParts

\* An actor at rest is asleep; one that runs is at a stretch of its program.
LEMMA Position ==
  ASSUME TypeOK, NEW a \in Actors
  PROVE  /\ ~Busy(a) => stage[a] = "asleep"
         /\ Busy(a) => job[a] \in Jobs /\ step[a] \in 1..Len(Program(job[a]))
<1>1. ControlTypes BY TypeParts
<1>2. ~Busy(a) => stage[a] = "asleep"
  <2>1. StageFits(a) BY <1>1 DEF ControlTypes
  <2> QED BY <2>1 DEF StageFits, Busy
<1>3. ASSUME Busy(a) PROVE job[a] \in Jobs /\ step[a] \in 1..Len(Program(job[a]))
  <2>1. job[a] \in Jobs /\ job[a] # None /\ step[a] \in 1..4 /\ StepFits(a)
    BY <1>1, <1>3 DEF ControlTypes, Busy
  <2>2. Len(Program(job[a])) \in 1..4 BY <2>1, ProgramShape
  <2> QED BY <2>1, <2>2 DEF StepFits
<1> QED BY <1>2, <1>3

\* The end of a stretch preserves the types.
LEMMA FinishType ==
  ASSUME TypeOK, NEW a \in Actors, NEW j \in Jobs,
         NEW k \in 1..Len(Program(j)), Finish(a, j, k)
  PROVE  ControlTypes'
<1>1. j.unit \in Units /\ j.next \in Units \cup {None} BY DEF Jobs
<1>2. ControlTypes BY TypeParts
<1>3. Len(Program(j)) \in 1..4 BY ProgramShape
<1>4. /\ stage' = [stage EXCEPT ![a] = "asleep"]
      /\ word' = [word EXCEPT ![a] = {}] /\ cuts' = cuts
  BY DEF Finish
<1>5. /\ stage' \in [Actors -> {"asleep", "loaded", "stored"}]
      /\ word' \in [Actors -> SUBSET Bits] /\ cuts' \in 0..MaxCuts
  BY <1>2, <1>4 DEF ControlTypes
<1>6. /\ child_unit' \in Units /\ child_unit_enable' \in BOOLEAN
  <2>1. CASE Last(j, k)
    <3>1. Result(j) BY <2>1 DEF Finish
    <3>2. child_unit' \in Units BY <3>1, <1>1, <1>2 DEF ControlTypes, Result
    <3>3. child_unit_enable' \in BOOLEAN BY <3>1, <1>2 DEF ControlTypes, Result
    <3> QED BY <3>2, <3>3
  <2>2. CASE ~Last(j, k) BY <2>2, <1>2 DEF Finish, ControlTypes
  <2> QED BY <2>1, <2>2
<1>7. PICK next \in Jobs \cup {None}, n \in 1..4 :
        /\ job' = [job EXCEPT ![a] = next] /\ step' = [step EXCEPT ![a] = n]
        /\ n <= IF next = None THEN 1 ELSE Len(Program(next))
  <2>1. CASE Last(j, k)
    <3>1. job' = [job EXCEPT ![a] = None] /\ step' = [step EXCEPT ![a] = 1]
      BY <2>1 DEF Finish
    <3>2. /\ None \in Jobs \cup {None} /\ 1 \in 1..4
          /\ 1 <= IF None = None THEN 1 ELSE Len(Program(None))
      OBVIOUS
    <3> QED BY <3>1, <3>2
  <2>2. CASE ~Last(j, k)
    <3>1. job' = [job EXCEPT ![a] = j] /\ step' = [step EXCEPT ![a] = k + 1]
      BY <2>2 DEF Finish
    <3>2. k + 1 \in 1..4 /\ k + 1 <= Len(Program(j))
      <4> DEFINE n == Len(Program(j))
      <4>1. n \in 1..4 BY <1>3
      <4>2. k \in 1..n /\ k # n BY <2>2 DEF Last
      <4> HIDE DEF n
      <4>3. k + 1 \in 1..4 /\ k + 1 <= n BY <4>1, <4>2
      <4> QED BY <4>3 DEF n
    <3>3. j # None BY NoneAssumption
    <3> QED BY <3>1, <3>2, <3>3
  <2> QED BY <2>1, <2>2
<1>8. job' \in [Actors -> Jobs \cup {None}] /\ step' \in [Actors -> 1..4]
  BY <1>2, <1>7 DEF ControlTypes
<1>9. ASSUME NEW b \in Actors PROVE StepFits(b)' /\ StageFits(b)'
  <2>1. CASE b = a
    <3>1. job'[b] = next /\ step'[b] = n /\ stage'[b] = "asleep"
      BY <2>1, <1>2, <1>4, <1>7 DEF ControlTypes
    <3> QED BY <3>1, <1>7 DEF StepFits, StageFits
  <2>2. CASE b # a
    <3>1. job'[b] = job[b] /\ step'[b] = step[b] /\ stage'[b] = stage[b]
      BY <2>2, <1>2, <1>4, <1>7 DEF ControlTypes
    <3>2. StepFits(b) /\ StageFits(b) BY <1>2 DEF ControlTypes
    <3> QED BY <3>1, <3>2 DEF StepFits, StageFits
  <2> QED BY <2>1, <2>2
<1> QED BY <1>5, <1>6, <1>8, <1>9 DEF ControlTypes

\* So does an interruption of one that changes something.
LEMMA InterruptType ==
  ASSUME TypeOK, NEW a \in Actors, NEW j \in Jobs, NEW k \in 1..Len(Program(j)),
         Program(j)[k] # Nothing, NEW where \in {"loaded", "stored"},
         NEW w \in SUBSET Bits, Interrupt(a, j, k, where, w)
  PROVE  /\ ControlTypes'
         /\ hw_init' \subseteq Bits /\ modem' \in {"on", "off"} /\ powered_by' \in Units
<1>1. ControlTypes BY TypeParts
<1>2. k \in 1..4 /\ k <= Len(Program(j))
  <2> DEFINE n == Len(Program(j))
  <2>1. n \in 1..4 /\ k \in 1..n BY ProgramShape
  <2> HIDE DEF n
  <2>2. k \in 1..4 /\ k <= n BY <2>1
  <2> QED BY <2>2 DEF n
<1>3. /\ job' = [job EXCEPT ![a] = j] /\ step' = [step EXCEPT ![a] = k]
      /\ stage' = [stage EXCEPT ![a] = where] /\ word' = [word EXCEPT ![a] = w]
      /\ UNCHANGED <<child_unit, child_unit_enable>>
  BY DEF Interrupt
<1>4. cuts' \in 0..MaxCuts
  <2>1. cuts < MaxCuts /\ cuts' = cuts + 1 BY DEF Interrupt
  <2>2. cuts \in 0..MaxCuts /\ MaxCuts \in Nat
    BY <1>1, UnitAssumption DEF ControlTypes
  <2> QED BY <2>1, <2>2
<1>5. /\ job' \in [Actors -> Jobs \cup {None}] /\ step' \in [Actors -> 1..4]
      /\ stage' \in [Actors -> {"asleep", "loaded", "stored"}]
      /\ word' \in [Actors -> SUBSET Bits]
  <2>1. job' \in [Actors -> Jobs \cup {None}] BY <1>1, <1>3 DEF ControlTypes
  <2>2. step' \in [Actors -> 1..4] BY <1>1, <1>2, <1>3 DEF ControlTypes
  <2>3. stage' \in [Actors -> {"asleep", "loaded", "stored"}]
    BY <1>1, <1>3 DEF ControlTypes
  <2>4. word' \in [Actors -> SUBSET Bits] BY <1>1, <1>3 DEF ControlTypes
  <2> QED BY <2>1, <2>2, <2>3, <2>4
<1>6. ASSUME NEW b \in Actors PROVE StepFits(b)' /\ StageFits(b)'
  <2>1. CASE b = a
    <3>1. job'[b] = j /\ step'[b] = k BY <2>1, <1>1, <1>3 DEF ControlTypes
    <3>2. j # None BY NoneAssumption
    <3> QED BY <3>1, <3>2, <1>2 DEF StepFits, StageFits
  <2>2. CASE b # a
    <3>1. job'[b] = job[b] /\ step'[b] = step[b] /\ stage'[b] = stage[b]
      BY <2>2, <1>1, <1>3 DEF ControlTypes
    <3>2. StepFits(b) /\ StageFits(b) BY <1>1 DEF ControlTypes
    <3> QED BY <3>1, <3>2 DEF StepFits, StageFits
  <2> QED BY <2>1, <2>2
<1>7. ControlTypes' BY <1>1, <1>3, <1>4, <1>5, <1>6 DEF ControlTypes
<1>8. hw_init' \subseteq Bits /\ modem' \in {"on", "off"} /\ powered_by' \in Units
  BY UnitAssumption DEF Interrupt, TypeOK
<1> QED BY <1>7, <1>8

\* A write of the register keeps its type and the unit's.
LEMMA WriteType ==
  ASSUME TypeOK, NEW j \in Jobs, NEW k, NEW new \in SUBSET Bits, Write(j, k, new)
  PROVE  hw_init' \subseteq Bits /\ modem' \in {"on", "off"} /\ powered_by' \in Units
<1>1. j.unit \in Units BY DEF Jobs
<1>2. hw_init' \subseteq Bits BY DEF Write
<1>3. CASE mixed BY <1>2, <1>3, UnitAssumption DEF Write
<1>4. CASE ~mixed
  <2>1. modem' = ModemAfter(new) BY <1>4 DEF Write
  <2>2. modem' \in {"on", "off"} BY <2>1 DEF ModemAfter, TypeOK
  <2>3. powered_by' \in Units BY <1>1, <1>4 DEF Write, TypeOK
  <2> QED BY <1>2, <2>2, <2>3
<1> QED BY <1>3, <1>4

\* The rest of a stretch preserves the types,
LEMMA PerformType ==
  ASSUME TypeOK, NEW a \in Actors, NEW j \in Jobs, NEW k \in 1..Len(Program(j)),
         NEW w \in SUBSET Bits, Perform(a, j, k, w)
  PROVE  ControlTypes' /\ BitTypes'
<1>1. Finish(a, j, k) /\ systeminit_reg' = Changed(w, Program(j)[k]) BY DEF Perform
<1>2. Changed(w, Program(j)[k]) \in SUBSET Bits BY ProgramShape DEF Changed
<1>3. hw_init' \subseteq Bits /\ modem' \in {"on", "off"} /\ powered_by' \in Units
  <2>1. CASE Program(j)[k].write
    <3>1. Write(j, k, Changed(w, Program(j)[k])) BY <2>1 DEF Perform
    <3> QED BY <3>1, <1>2, WriteType
  <2>2. CASE ~Program(j)[k].write BY <2>2 DEF Perform, NoWrite, TypeOK
  <2> QED BY <2>1, <2>2
<1>4. torn' \in BOOLEAN
  <2>1. torn' = (IF Program(j)[k] = Nothing THEN torn ELSE Pending(a))
    BY DEF Perform
  <2> QED BY <2>1 DEF TypeOK, Pending
<1>5. ControlTypes' BY <1>1, FinishType
<1> QED BY <1>1, <1>2, <1>3, <1>4, <1>5 DEF BitTypes

\* its load of the shadow,
LEMMA LoadWordType ==
  ASSUME TypeOK, NEW a \in Actors, NEW j \in Jobs, NEW k \in 1..Len(Program(j)),
         LoadWord(a, j, k)
  PROVE  ControlTypes' /\ BitTypes'
<1>1. /\ Program(j)[k] # Nothing /\ Interrupt(a, j, k, "loaded", systeminit_reg)
      /\ UNCHANGED <<systeminit_reg, torn>>
  BY DEF LoadWord
<1>2. systeminit_reg \in SUBSET Bits /\ torn \in BOOLEAN BY DEF TypeOK
<1>3. /\ ControlTypes'
      /\ hw_init' \subseteq Bits /\ modem' \in {"on", "off"} /\ powered_by' \in Units
  BY <1>1, <1>2, InterruptType
<1> QED BY <1>1, <1>2, <1>3 DEF BitTypes

\* its store
LEMMA StoreWordType ==
  ASSUME TypeOK, NEW a \in Actors, NEW j \in Jobs, NEW k \in 1..Len(Program(j)),
         NEW w \in SUBSET Bits, StoreWord(a, j, k, w)
  PROVE  ControlTypes' /\ BitTypes'
<1>1. /\ Program(j)[k].write /\ systeminit_reg' = Changed(w, Program(j)[k])
      /\ torn' = Pending(a) /\ Interrupt(a, j, k, "stored", systeminit_reg')
  BY DEF StoreWord
<1>2. systeminit_reg' \in SUBSET Bits BY <1>1, ProgramShape DEF Changed
<1>3. Program(j)[k] # Nothing BY <1>1 DEF Nothing
<1>4. /\ ControlTypes'
      /\ hw_init' \subseteq Bits /\ modem' \in {"on", "off"} /\ powered_by' \in Units
  BY <1>1, <1>2, <1>3, InterruptType
<1>5. torn' \in BOOLEAN BY <1>1 DEF Pending
<1> QED BY <1>2, <1>4, <1>5 DEF BitTypes

\* and its write.
LEMMA WriteWordType ==
  ASSUME TypeOK, NEW a \in Actors, NEW j \in Jobs, NEW k \in 1..Len(Program(j)),
         WriteWord(a, j, k)
  PROVE  ControlTypes' /\ BitTypes'
<1>1. PICK new \in {word[a], systeminit_reg} : Write(j, k, new) BY DEF WriteWord
<1>2. new \in SUBSET Bits BY DEF TypeOK
<1>3. hw_init' \subseteq Bits /\ modem' \in {"on", "off"} /\ powered_by' \in Units
  BY <1>1, <1>2, WriteType
<1>4. /\ Finish(a, j, k) /\ torn' = (torn \/ Pending(a))
      /\ systeminit_reg' = systeminit_reg
  BY DEF WriteWord
<1>5. ControlTypes' BY <1>4, FinishType
<1>6. torn' \in BOOLEAN BY <1>4 DEF TypeOK
<1>7. systeminit_reg' \subseteq Bits BY <1>4 DEF TypeOK
<1> QED BY <1>3, <1>5, <1>6, <1>7 DEF BitTypes

\* An actor that comes to a stretch.
LEMMA AwakeType ==
  ASSUME TypeOK, NEW a \in Actors, NEW j \in Jobs, NEW k \in 1..Len(Program(j)),
         Awake(a, j, k)
  PROVE  ControlTypes' /\ BitTypes'
<1>1. systeminit_reg \in SUBSET Bits BY DEF TypeOK
<1> QED BY <1>1, PerformType, LoadWordType, StoreWordType DEF Awake

LEMMA BeginType ==
  ASSUME TypeOK, NEW a \in Actors, NEW what \in {"init", "exit", "reset"} \cup Pins,
         NEW unit \in Units, NEW next \in Units \cup {None},
         Begin(a, what, unit, next)
  PROVE  ControlTypes' /\ BitTypes'
<1> DEFINE j == [does |-> what, unit |-> unit, next |-> next]
<1>1. j \in Jobs BY DEF Jobs
<1>2. 1 \in 1..Len(Program(j)) BY <1>1, ProgramShape
<1>3. Awake(a, j, 1) BY DEF Begin
<1> HIDE DEF j
<1> QED BY <1>1, <1>2, <1>3, AwakeType

LEMMA ContinueType ==
  ASSUME TypeOK, NEW a \in Actors, NEW j \in Jobs, NEW k \in 1..Len(Program(j)),
         Continue(a, j, k)
  PROVE  ControlTypes' /\ BitTypes'
<1>1. word[a] \in SUBSET Bits BY DEF TypeOK
<1>2. CASE stage[a] = "asleep" BY <1>2, AwakeType DEF Continue
<1>3. CASE stage[a] = "loaded" BY <1>1, <1>3, PerformType, StoreWordType DEF Continue
<1>4. CASE stage[a] = "stored" BY <1>4, WriteWordType DEF Continue
<1> QED BY <1>2, <1>3, <1>4 DEF Continue

\* What no program changes keeps its type.
LEMMA SameTypes ==
  ASSUME TypeOK, UNCHANGED <<child_unit_enable, bits, job, step, change>>,
         child_unit' \in Units
  PROVE  ControlTypes' /\ BitTypes'
<1>1. ControlTypes /\ BitTypes BY TypeParts
<1>2. ControlTypes' BY <1>1 DEF ControlTypes, StepFits, StageFits, change
<1>3. BitTypes' BY <1>1 DEF BitTypes, bits, change
<1> QED BY <1>2, <1>3

\* A write to a sysfs file preserves the types.
LEMMA StoreType ==
  ASSUME TypeOK, NEW p \in Stores, StoreAny(p)
  PROVE  TypeOK'
<1>1. p \in Actors /\ child_unit \in Units /\ None \in Units \cup {None}
  BY DEF TypeOK, Actors
<1>2. OtherTypes BY TypeParts
<1>3. AfterStore
  BY DEF StoreAny, Disable, Enable, StoreNumber, StoreReset, StorePin
<1>4. mixed' \in BOOLEAN
  <2>1. Mixes(p) \/ Disturbs(p)
    BY DEF StoreAny, Disable, Enable, StoreNumber, StoreReset, StorePin
  <2> QED BY <2>1 DEF Mixes, Disturbs, TypeOK
<1>5. OtherTypes' BY <1>2, <1>3, <1>4 DEF OtherTypes, AfterStore
<1>6. ASSUME NEW what \in {"init", "exit", "reset"} \cup Pins,
             NEW next \in Units \cup {None}, Begin(p, what, child_unit, next)
      PROVE  ControlTypes' /\ BitTypes'
  BY <1>1, <1>6, BeginType
<1>7. ASSUME Disable(p) \/ Enable(p) \/ StoreReset(p) \/ StorePin(p)
      PROVE  ControlTypes' /\ BitTypes'
  BY <1>1, <1>6, <1>7 DEF Disable, Enable, StoreReset, StorePin
<1>8. ASSUME StoreNumber(p) PROVE ControlTypes' /\ BitTypes'
  <2>1. PICK unit \in Units :
          IF child_unit_enable THEN Begin(p, "exit", child_unit, unit)
          ELSE /\ child_unit' = unit
               /\ UNCHANGED <<child_unit_enable, bits, job, step, change>>
    BY <1>8 DEF StoreNumber
  <2>2. CASE child_unit_enable BY <1>1, <1>6, <2>1, <2>2
  <2>3. CASE ~child_unit_enable BY <2>1, <2>3, SameTypes
  <2> QED BY <2>2, <2>3
<1>9. ControlTypes' /\ BitTypes' BY <1>7, <1>8 DEF StoreAny
<1> QED BY <1>5, <1>9, TypeParts

\* Every step preserves the types.
LEMMA TypeStep == TypeOK /\ [Next]_vars => TypeOK'
<1> SUFFICES ASSUME TypeOK, [Next]_vars
             PROVE  (ControlTypes' /\ BitTypes') /\ OtherTypes'
  BY TypeParts
<1>1. /\ Module \in Actors /\ Timer \in Actors /\ child_unit \in Units
      /\ None \in Units \cup {None}
  BY DEF Actors, TypeOK
<1>2. ControlTypes /\ BitTypes /\ OtherTypes BY TypeParts
<1>3. CASE Load
  <2>1. ControlTypes' /\ BitTypes' BY <1>1, <1>3, BeginType DEF Load
  <2>2. module' \in {"loading", "loaded"} /\ UNCHANGED <<bus, resets, faulted>>
    BY <1>3 DEF Load
  <2>3. mixed' \in BOOLEAN BY <1>3 DEF Load, Mixes, TypeOK
  <2> QED BY <1>2, <2>1, <2>2, <2>3 DEF OtherTypes
<1>4. CASE Unload
  <2>1. module' \in {"leaving", "removed"} /\ UNCHANGED <<bus, resets, faulted>>
    BY <1>4 DEF Unload
  <2>2. mixed' \in BOOLEAN BY <1>4 DEF Unload, Mixes, TypeOK
  <2>3. ControlTypes' /\ BitTypes'
    <3>1. CASE child_unit # "NONE" BY <1>1, <1>4, <3>1, BeginType DEF Unload
    <3>2. CASE child_unit = "NONE"
      <4>1. UNCHANGED <<child_unit, child_unit_enable, bits, job, step, change>>
        BY <1>4, <3>2 DEF Unload
      <4> QED BY <1>1, <4>1, SameTypes
    <3> QED BY <3>1, <3>2
  <2>4. OtherTypes' BY <1>2, <2>1, <2>2 DEF OtherTypes
  <2> QED BY <2>3, <2>4
<1>5. CASE SetParameter
  <2>1. /\ child_unit' \in Units
        /\ UNCHANGED <<child_unit_enable, bits, job, step, change>>
        /\ UNCHANGED <<module, bus, resets, faulted>>
    BY <1>5 DEF SetParameter
  <2>2. mixed' \in BOOLEAN BY <1>5 DEF SetParameter, Disturbs, TypeOK
  <2>3. OtherTypes' BY <1>2, <2>1, <2>2 DEF OtherTypes
  <2>4. ControlTypes' /\ BitTypes' BY <2>1, SameTypes
  <2> QED BY <2>3, <2>4
<1>6. CASE \E p \in Stores : StoreAny(p) BY <1>6, StoreType, TypeParts
<1>7. ASSUME NEW a \in Actors, GiveUp(a)
      PROVE  (ControlTypes' /\ BitTypes') /\ OtherTypes'
  <2>1. /\ job' = [job EXCEPT ![a] = None] /\ step' = [step EXCEPT ![a] = 1]
        /\ UNCHANGED <<child_unit, child_unit_enable, bits, change>>
        /\ module' \in {module, "loaded"} /\ stage[a] = "asleep"
        /\ UNCHANGED <<bus, resets, mixed, faulted>>
    BY <1>7 DEF GiveUp, Suppressed
  <2>2. OtherTypes' BY <1>2, <2>1 DEF OtherTypes
  <2>3. job' \in [Actors -> Jobs \cup {None}] /\ step' \in [Actors -> 1..4]
    BY <2>1, <1>2 DEF ControlTypes
  <2>4. ASSUME NEW b \in Actors PROVE StepFits(b)' /\ StageFits(b)'
    <3>1. stage'[b] = stage[b] BY <2>1 DEF change
    <3>2. CASE b = a
      <4>1. job'[b] = None /\ step'[b] = 1 BY <3>2, <2>1, <1>2 DEF ControlTypes
      <4> QED BY <4>1, <2>1, <3>1, <3>2 DEF StepFits, StageFits
    <3>3. CASE b # a
      <4>1. job'[b] = job[b] /\ step'[b] = step[b]
        BY <3>3, <2>1, <1>2 DEF ControlTypes
      <4>2. StepFits(b) /\ StageFits(b) BY <1>2 DEF ControlTypes
      <4> QED BY <4>1, <4>2, <3>1 DEF StepFits, StageFits
    <3> QED BY <3>2, <3>3
  <2>5. ControlTypes' BY <1>2, <2>1, <2>3, <2>4 DEF ControlTypes, change
  <2>6. BitTypes' BY <1>2, <2>1 DEF BitTypes, bits, change
  <2> QED BY <2>2, <2>5, <2>6
<1>8. ASSUME NEW a \in Actors, Advance(a)
      PROVE  (ControlTypes' /\ BitTypes') /\ OtherTypes'
  <2>1. Continue(a, job[a], step[a]) /\ Busy(a) BY <1>8 DEF Advance
  <2>2. job[a] \in Jobs /\ step[a] \in 1..Len(Program(job[a])) BY <2>1, Position
  <2>3. ControlTypes' /\ BitTypes' BY <2>1, <2>2, ContinueType
  <2>4. module' \in {"loaded", "removed", module} BY <1>8 DEF Advance
  <2>5. faulted' \in BOOLEAN BY <1>8 DEF Advance
  <2>6. mixed' \in BOOLEAN BY <1>8 DEF Advance, TypeOK
  <2>7. UNCHANGED <<bus, resets>> BY <1>8 DEF Advance
  <2> QED BY <1>2, <2>3, <2>4, <2>5, <2>6, <2>7 DEF OtherTypes
<1>9. CASE BusReset
  <2>1. mixed' \in BOOLEAN /\ modem' \in {"on", "off"}
    BY <1>9 DEF BusReset, NoPower, TypeOK
  <2>2. resets' \in 0..MaxResets
    BY <1>9, UnitAssumption DEF BusReset, TypeOK
  <2>3. /\ UNCHANGED <<module, faulted>> /\ bus' = "down" /\ hw_init' = {}
        /\ UNCHANGED <<child_unit, child_unit_enable, job, step, change>>
        /\ UNCHANGED <<systeminit_reg, powered_by>>
    BY <1>9 DEF BusReset
  <2>4. OtherTypes' BY <1>2, <2>1, <2>2, <2>3 DEF OtherTypes
  <2>5. ControlTypes' BY <1>2, <2>3 DEF ControlTypes, StepFits, StageFits, change
  <2>6. BitTypes' BY <1>2, <2>1, <2>3 DEF BitTypes, change
  <2> QED BY <2>4, <2>5, <2>6
<1>10. CASE Restart
  <2> DEFINE j == [does |-> "init", unit |-> child_unit, next |-> None]
  <2>1. mixed' \in BOOLEAN /\ modem' \in {"on", "off"} /\ torn' \in BOOLEAN
    BY <1>10 DEF Restart, NoPower, TypeOK, Pending
  <2>2. j \in Jobs BY <1>1 DEF Jobs
  <2>3. Len(Program(j)) \in 1..4 /\ j # None BY <2>2, ProgramShape, NoneAssumption
  <2>4. /\ job' = [job EXCEPT ![Timer] = j] /\ job[Timer] = None
        /\ bus' = "up" /\ systeminit_reg' = {} /\ hw_init' = {}
        /\ UNCHANGED <<child_unit, child_unit_enable, powered_by, step>>
        /\ UNCHANGED <<module, resets, faulted, stage, word, cuts>>
    BY <1>10 DEF Restart, Free, Busy
  <2> HIDE DEF j
  <2>5. OtherTypes' BY <1>2, <2>1, <2>4 DEF OtherTypes
  <2>6. job' \in [Actors -> Jobs \cup {None}]
    BY <1>2, <2>2, <2>4 DEF ControlTypes
  <2>7. ASSUME NEW b \in Actors PROVE StepFits(b)' /\ StageFits(b)'
    <3>1. step[b] \in 1..4 /\ StepFits(b) /\ StageFits(b) BY <1>2 DEF ControlTypes
    <3>2. CASE b = Timer
      <4>1. job'[b] = j BY <3>2, <1>1, <1>2, <2>4 DEF ControlTypes
      <4>2. step'[b] = 1 BY <3>1, <3>2, <2>4 DEF StepFits
      <4>3. stage'[b] = "asleep" BY <3>1, <3>2, <2>4 DEF StageFits
      <4> QED BY <4>1, <4>2, <4>3, <2>3 DEF StepFits, StageFits
    <3>3. CASE b # Timer
      <4>1. job'[b] = job[b] /\ step'[b] = step[b] /\ stage'[b] = stage[b]
        BY <3>3, <1>2, <2>4 DEF ControlTypes
      <4> QED BY <4>1, <3>1 DEF StepFits, StageFits
    <3> QED BY <3>2, <3>3
  <2>8. ControlTypes' BY <1>2, <2>4, <2>6, <2>7 DEF ControlTypes
  <2>9. BitTypes' BY <1>2, <2>1, <2>4 DEF BitTypes
  <2> QED BY <2>5, <2>8, <2>9
<1>11. CASE RestartFails
  <2>1. mixed' \in BOOLEAN /\ torn' \in BOOLEAN BY <1>11 DEF RestartFails, TypeOK
  <2>2. modem' \in {"on", "off"} /\ hw_init' \subseteq Bits
    BY <1>11 DEF RestartFails, TypeOK
  <2>3. /\ systeminit_reg' = {} /\ UNCHANGED <<module, bus, resets, faulted>>
        /\ UNCHANGED <<child_unit, child_unit_enable, powered_by, job, step>>
        /\ UNCHANGED <<stage, word, cuts>>
    BY <1>11 DEF RestartFails
  <2>4. OtherTypes' BY <1>2, <2>1, <2>3 DEF OtherTypes
  <2>5. ControlTypes' BY <1>2, <2>3 DEF ControlTypes, StepFits, StageFits
  <2>6. BitTypes' BY <1>2, <2>1, <2>2, <2>3 DEF BitTypes
  <2> QED BY <2>4, <2>5, <2>6
<1>12. CASE UNCHANGED vars
  <2>1. UNCHANGED <<child_unit, child_unit_enable, bits, job, step, change>>
    BY <1>12 DEF vars
  <2>2. OtherTypes' BY <1>2, <1>12 DEF vars, OtherTypes
  <2> QED BY <1>1, <2>1, <2>2, SameTypes
<1> QED
  BY <1>3, <1>4, <1>5, <1>6, <1>7, <1>8, <1>9, <1>10, <1>11, <1>12 DEF Next

\* Every state has its type, and an actor's step is one of its program
\* (_contec_mcs341_controller_cpsChildUnitInit and Exit).
THEOREM TypeCorrect == Spec => []TypeOK
  BY TypeInit, TypeStep, PTL DEF Spec

-----------------------------------------------------------------------------
(* The shadow and the register. *)

\* The program of a unit NONE changes nothing.
LEMMA NothingShape ==
  ASSUME NEW p, p = << Nothing >>, NEW k \in 1..Len(p)
  PROVE  p[k] = Nothing /\ ~p[k].write /\ p[k].on = {}
<1>1. k = 1 BY Z3
<1>2. p[k] = Nothing BY <1>1
<1>3. ~Nothing.write /\ Nothing.on = {} BY DEF Nothing
<1> QED BY <1>2, <1>3

\* A stretch that changes the shadow writes it, but for the first of the exit of
\* unit 40.
LEMMA WriteShape ==
  ASSUME NEW j \in Jobs, NEW k \in 1..Len(Program(j))
  PROVE  /\ Program(j)[k].write => Program(j)[k] # Nothing
         /\ ~Program(j)[k].write =>
              /\ Program(j)[k].on = {}
              /\ \/ Program(j)[k] = Nothing
                 \/ j.does = "exit" /\ j.unit = "40" /\ k = 1 /\ k # Len(Program(j))
<1> USE DEF Stretch, Nothing
<1>1. j.does \in {"init", "exit", "reset"} \cup Pins BY DEF Jobs
<1>2. CASE j.does = "init"
  <2>1. Program(j) = InitProgram(j.unit) BY <1>2 DEF Program
  <2>2. CASE j.unit = "90" BY <2>1, <2>2 DEF InitProgram
  <2>3. CASE j.unit = "A0" BY <2>1, <2>3 DEF InitProgram
  <2>4. CASE j.unit = "40" BY <2>1, <2>4 DEF InitProgram
  <2>5. CASE j.unit = "NONE"
    <3>1. Program(j) = << Nothing >> BY <2>1, <2>5 DEF InitProgram
    <3> QED BY <3>1, NothingShape
  <2>6. CASE j.unit \notin {"90", "A0", "40", "NONE"}
    BY <2>1, <2>6 DEF InitProgram
  <2> QED BY <2>2, <2>3, <2>4, <2>5, <2>6
<1>3. CASE j.does = "exit"
  <2>1. Program(j) = ExitProgram(j.unit) BY <1>3 DEF Program
  <2>2. CASE j.unit = "90" BY <2>1, <2>2, <1>3 DEF ExitProgram
  <2>3. CASE j.unit = "A0" BY <2>1, <2>3, <1>3 DEF ExitProgram
  <2>4. CASE j.unit = "40" BY <2>1, <2>4, <1>3 DEF ExitProgram
  <2>5. CASE j.unit = "NONE"
    <3>1. Program(j) = << Nothing >> BY <2>1, <2>5 DEF ExitProgram
    <3> QED BY <3>1, NothingShape
  <2>6. CASE j.unit \notin {"90", "A0", "40", "NONE"}
    BY <2>1, <2>6 DEF ExitProgram
  <2> QED BY <2>2, <2>3, <2>4, <2>5, <2>6
<1>4. CASE j.does = "reset" BY <1>4 DEF Program
<1>5. CASE j.does \in Pins
  <2>1. Program(j) = PinProgram(j.does) BY <1>5 DEF Program, Pins
  <2> QED BY <2>1, <1>5 DEF PinProgram, Pins
<1> QED BY <1>1, <1>2, <1>3, <1>4, <1>5

\* The second stretch of that exit writes the shadow.
LEMMA ExitWrites ==
  ASSUME NEW j \in Jobs, j.does = "exit", j.unit = "40", 2 \in 1..Len(Program(j))
  PROVE  Program(j)[2].write
<1>1. Program(j) = ExitProgram(j.unit) BY DEF Program
<1> QED BY <1>1 DEF ExitProgram, Stretch, Nothing

\* What other actors have stored stays as it is,
Others(a) ==
  \A b \in Actors \ {a} : /\ job'[b] = job[b] /\ step'[b] = step[b]
                           /\ stage'[b] = stage[b] /\ word'[b] = word[b]

\* at the end of a stretch,
LEMMA FinishOthers ==
  ASSUME TypeOK, NEW a \in Actors, NEW j, NEW k, Finish(a, j, k)
  PROVE  /\ Others(a) /\ stage'[a] = "asleep"
         /\ Last(j, k) => job'[a] = None
         /\ ~Last(j, k) => job'[a] = j /\ step'[a] = k + 1
<1>1. /\ job \in [Actors -> Jobs \cup {None}] /\ step \in [Actors -> 1..4]
      /\ stage \in [Actors -> {"asleep", "loaded", "stored"}]
      /\ word \in [Actors -> SUBSET Bits]
  BY DEF TypeOK
<1>2. /\ stage' = [stage EXCEPT ![a] = "asleep"] /\ word' = [word EXCEPT ![a] = {}]
  BY DEF Finish
<1>3. CASE Last(j, k)
  <2>1. job' = [job EXCEPT ![a] = None] /\ step' = [step EXCEPT ![a] = 1]
    BY <1>3 DEF Finish
  <2> QED BY <1>1, <1>2, <1>3, <2>1 DEF Others
<1>4. CASE ~Last(j, k)
  <2>1. job' = [job EXCEPT ![a] = j] /\ step' = [step EXCEPT ![a] = k + 1]
    BY <1>4 DEF Finish
  <2> QED BY <1>1, <1>2, <1>4, <2>1 DEF Others
<1> QED BY <1>3, <1>4

\* and where one is interrupted.
LEMMA InterruptOthers ==
  ASSUME TypeOK, NEW a \in Actors, NEW j, NEW k, NEW where, NEW w,
         Interrupt(a, j, k, where, w)
  PROVE  /\ Others(a) /\ job'[a] = j /\ step'[a] = k
         /\ stage'[a] = where /\ word'[a] = w /\ hw_init' = hw_init
<1>1. /\ job \in [Actors -> Jobs \cup {None}] /\ step \in [Actors -> 1..4]
      /\ stage \in [Actors -> {"asleep", "loaded", "stored"}]
      /\ word \in [Actors -> SUBSET Bits]
  BY DEF TypeOK
<1>2. /\ job' = [job EXCEPT ![a] = j] /\ step' = [step EXCEPT ![a] = k]
      /\ stage' = [stage EXCEPT ![a] = where] /\ word' = [word EXCEPT ![a] = w]
      /\ hw_init' = hw_init
  BY DEF Interrupt
<1> QED BY <1>1, <1>2 DEF Others

\* What ShadowInv says of the actors that stored the shadow
Stored ==
  \A b \in Actors : stage[b] = "stored" => ~Pending(b) /\ systeminit_reg = word[b]

\* Nobody has stored it without writing it but, perhaps, a.
LEMMA StoredAlone ==
  ASSUME NEW a \in Actors, ~Pending(a), Others(a),
         stage'[a] = "stored" => systeminit_reg' = word'[a]
  PROVE  Stored'
<1>1. ASSUME NEW b \in Actors, stage'[b] = "stored" PROVE b = a
  BY <1>1 DEF Others, Pending
<1>2. ~Pending(a)' BY DEF Others, Pending
<1> QED BY <1>1, <1>2 DEF Stored

\* A step that leaves the shadow alone and stores nothing.
LEMMA StoredSame ==
  ASSUME NEW a \in Actors, Stored, Others(a), systeminit_reg' = systeminit_reg,
         stage'[a] # "stored"
  PROVE  Stored'
<1> SUFFICES ASSUME NEW b \in Actors, stage'[b] = "stored"
             PROVE  ~Pending(b)' /\ systeminit_reg' = word'[b]
  BY DEF Stored
<1>1. b # a /\ stage[b] = "stored" /\ word'[b] = word[b] BY DEF Others
<1>2. ~Pending(b) /\ systeminit_reg = word[b] BY <1>1 DEF Stored
<1>3. ~Pending(b)' BY <1>2 DEF Others, Pending
<1> QED BY <1>1, <1>2, <1>3

\* The rest of a stretch keeps the shadow and the register together.
LEMMA PerformShadow ==
  ASSUME TypeOK, ShadowInv, NEW a \in Actors, NEW j \in Jobs,
         NEW k \in 1..Len(Program(j)), NEW w, Perform(a, j, k, w), bus' = bus,
         stage[a] # "stored", InGap(a) => j = job[a] /\ k = step[a],
         Program(j)[k] = Nothing => w = systeminit_reg
  PROVE  ShadowInv'
<1> DEFINE s == Program(j)[k]
<1>1. /\ systeminit_reg' = Changed(w, s) /\ Finish(a, j, k)
      /\ torn' = IF s = Nothing THEN torn ELSE Pending(a)
  BY DEF Perform
<1>2. /\ Others(a) /\ stage'[a] = "asleep"
      /\ ~Last(j, k) => job'[a] = j /\ step'[a] = k + 1
  BY <1>1, FinishOthers
<1>3. CASE s = Nothing
  <2>1. systeminit_reg' = systeminit_reg /\ torn' = torn
    BY <1>1, <1>3 DEF Changed, Nothing
  <2>2. hw_init' = hw_init BY <1>3 DEF Perform, NoWrite, Nothing
  <2>3. ~torn' => Stored' BY <1>2, <2>1, StoredSame DEF ShadowInv, Stored
  <2>4. ~InGap(a)
    <3> SUFFICES ASSUME InGap(a) PROVE FALSE OBVIOUS
    <3>1. j.does = "exit" /\ j.unit = "40" /\ k = 2 BY DEF InGap
    <3> QED BY <3>1, <1>3, ExitWrites DEF Nothing
  <2>5. ASSUME bus' = "up", ~torn',
               \A b \in Actors : stage'[b] # "stored" /\ ~InGap(b)'
        PROVE  systeminit_reg' = hw_init'
    <3>1. \A b \in Actors : stage[b] # "stored" /\ ~InGap(b)
      BY <1>2, <2>4, <2>5 DEF Others, InGap, Busy
    <3> QED BY <2>1, <2>2, <2>5, <3>1 DEF ShadowInv, ShadowWritten
  <2> QED BY <2>3, <2>5 DEF ShadowInv, ShadowWritten, Stored
<1>4. CASE s # Nothing
  <2>1. ~torn' => Stored' BY <1>1, <1>2, <1>4, StoredAlone
  <2>2. CASE s.write
    <3>1. hw_init' = systeminit_reg' BY <1>1, <2>2 DEF Perform, Write
    <3> QED BY <2>1, <3>1 DEF ShadowInv, ShadowWritten, Stored
  <2>3. CASE ~s.write
    <3>1. j.does = "exit" /\ j.unit = "40" /\ k = 1 /\ ~Last(j, k)
      BY <1>4, <2>3, WriteShape DEF Last
    <3>2. j # None BY NoneAssumption
    <3>3. InGap(a)' BY <1>2, <3>1, <3>2 DEF InGap, Busy
    <3> QED BY <2>1, <3>3 DEF ShadowInv, ShadowWritten, Stored
  <2> QED BY <2>2, <2>3
<1> QED BY <1>3, <1>4

\* A load changes neither of the two,
LEMMA LoadWordShadow ==
  ASSUME TypeOK, ShadowInv, NEW a \in Actors, NEW j, NEW k, LoadWord(a, j, k),
         bus' = bus, stage[a] # "stored", InGap(a) => j = job[a] /\ k = step[a]
  PROVE  ShadowInv'
<1>1. /\ Interrupt(a, j, k, "loaded", systeminit_reg)
      /\ UNCHANGED <<systeminit_reg, torn>>
  BY DEF LoadWord
<1>2. /\ Others(a) /\ job'[a] = j /\ step'[a] = k /\ stage'[a] = "loaded"
      /\ hw_init' = hw_init
  BY <1>1, InterruptOthers
<1>3. ~torn' => Stored' BY <1>1, <1>2, StoredSame DEF ShadowInv, Stored
<1>4. ASSUME bus' = "up", ~torn',
             \A b \in Actors : stage'[b] # "stored" /\ ~InGap(b)'
      PROVE  systeminit_reg' = hw_init'
  <2>1. \A b \in Actors : stage[b] # "stored" /\ ~InGap(b)
    BY <1>2, <1>4 DEF Others, InGap, Busy
  <2> QED BY <1>1, <1>2, <1>4, <2>1 DEF ShadowInv, ShadowWritten
<1> QED BY <1>3, <1>4 DEF ShadowInv, ShadowWritten, Stored

\* a store leaves its actor with what it will write,
LEMMA StoreWordShadow ==
  ASSUME TypeOK, ShadowInv, NEW a \in Actors, NEW j, NEW k, NEW w,
         StoreWord(a, j, k, w)
  PROVE  ShadowInv'
<1>1. Interrupt(a, j, k, "stored", systeminit_reg') /\ torn' = Pending(a)
  BY DEF StoreWord
<1>2. Others(a) /\ stage'[a] = "stored" /\ word'[a] = systeminit_reg'
  BY <1>1, InterruptOthers
<1>3. ~torn' => Stored' BY <1>1, <1>2, StoredAlone
<1> QED BY <1>2, <1>3 DEF ShadowInv, ShadowWritten, Stored

\* and its write brings the two together, if nobody stored meanwhile.
LEMMA WriteWordShadow ==
  ASSUME TypeOK, ShadowInv, NEW a \in Actors, NEW j, NEW k,
         stage[a] = "stored", WriteWord(a, j, k)
  PROVE  ShadowInv'
<1>1. /\ Finish(a, j, k) /\ torn' = (torn \/ Pending(a))
      /\ systeminit_reg' = systeminit_reg
  BY DEF WriteWord
<1>2. Others(a) /\ stage'[a] = "asleep" BY <1>1, FinishOthers
<1>3. PICK new \in {word[a], systeminit_reg} : hw_init' = new
  BY DEF WriteWord, Write
<1>4. ASSUME ~torn' PROVE systeminit_reg' = hw_init' /\ Stored'
  <2>1. ~torn /\ ~Pending(a) BY <1>1, <1>4
  <2>2. systeminit_reg = word[a] BY <2>1 DEF ShadowInv
  <2>3. Stored' BY <1>2, <2>1, StoredAlone
  <2> QED BY <1>1, <1>3, <2>2, <2>3
<1> QED BY <1>4 DEF ShadowInv, ShadowWritten, Stored

\* An actor that comes to a stretch.
LEMMA AwakeShadow ==
  ASSUME TypeOK, ShadowInv, NEW a \in Actors, NEW j \in Jobs,
         NEW k \in 1..Len(Program(j)), Awake(a, j, k), bus' = bus,
         stage[a] # "stored", InGap(a) => j = job[a] /\ k = step[a]
  PROVE  ShadowInv'
<1>1. CASE Perform(a, j, k, systeminit_reg) BY <1>1, PerformShadow
<1>2. CASE LoadWord(a, j, k) BY <1>2, LoadWordShadow
<1>3. CASE StoreWord(a, j, k, systeminit_reg) BY <1>3, StoreWordShadow
<1> QED BY <1>1, <1>2, <1>3 DEF Awake

\* The first stretch, of an actor that ran nothing.
LEMMA BeginShadow ==
  ASSUME TypeOK, ShadowInv, NEW a \in Actors, ~Busy(a), bus' = bus,
         NEW what \in {"init", "exit", "reset"} \cup Pins, NEW unit \in Units,
         NEW next \in Units \cup {None}, Begin(a, what, unit, next)
  PROVE  ShadowInv'
<1> DEFINE j == [does |-> what, unit |-> unit, next |-> next]
<1>1. j \in Jobs BY DEF Jobs
<1>2. 1 \in 1..Len(Program(j)) BY <1>1, ProgramShape
<1>3. Awake(a, j, 1) BY DEF Begin
<1>4. ~InGap(a) BY DEF InGap
<1>5. stage[a] # "stored" BY Position
<1> HIDE DEF j
<1> QED BY <1>1, <1>2, <1>3, <1>4, <1>5, AwakeShadow

\* Every step keeps the invariant.
LEMMA ShadowStep == TypeOK /\ ShadowInv /\ [Next]_vars => ShadowInv'
<1> SUFFICES ASSUME TypeOK, ShadowInv, [Next]_vars PROVE ShadowInv'
  OBVIOUS
<1>1. /\ Module \in Actors /\ Timer \in Actors /\ child_unit \in Units
      /\ None \in Units \cup {None}
  BY DEF Actors, TypeOK
<1>2. ASSUME UNCHANGED <<systeminit_reg, hw_init, bus, job, step>>,
             UNCHANGED <<stage, word, torn>>
      PROVE  ShadowInv'
  BY <1>2 DEF ShadowInv, ShadowWritten, InGap, Busy, Pending
<1>3. CASE Load BY <1>1, <1>3, BeginShadow DEF Load, Free
<1>4. CASE Unload
  <2>1. CASE child_unit # "NONE" BY <1>1, <1>4, <2>1, BeginShadow DEF Unload, Free
  <2>2. CASE child_unit = "NONE" BY <1>2, <1>4, <2>2 DEF Unload, bits, change
  <2> QED BY <2>1, <2>2
<1>5. CASE SetParameter BY <1>2, <1>5 DEF SetParameter, bits, change
<1>6. ASSUME NEW p \in Stores, StoreAny(p) PROVE ShadowInv'
  <2>1. p \in Actors /\ ~Busy(p) /\ bus' = bus
    BY <1>6 DEF Actors, StoreAny, Disable, Enable, StoreNumber, StoreReset,
                StorePin, Store, Free, AfterStore
  <2>2. ASSUME NEW what \in {"init", "exit", "reset"} \cup Pins,
               NEW next \in Units \cup {None}, Begin(p, what, child_unit, next)
        PROVE  ShadowInv'
    BY <1>1, <2>1, <2>2, BeginShadow
  <2>3. CASE Disable(p) \/ Enable(p) \/ StoreReset(p) \/ StorePin(p)
    BY <1>1, <2>2, <2>3 DEF Disable, Enable, StoreReset, StorePin
  <2>4. CASE StoreNumber(p)
    <3>1. PICK unit \in Units :
            IF child_unit_enable THEN Begin(p, "exit", child_unit, unit)
            ELSE UNCHANGED <<bits, job, step, change>>
      BY <2>4 DEF StoreNumber
    <3>2. CASE child_unit_enable BY <2>2, <3>1, <3>2
    <3>3. CASE ~child_unit_enable BY <1>2, <2>1, <3>1, <3>3 DEF bits, change
    <3> QED BY <3>2, <3>3
  <2> QED BY <1>6, <2>3, <2>4 DEF StoreAny
<1>7. ASSUME NEW a \in Actors, GiveUp(a) PROVE ShadowInv'
  <2>1. /\ job' = [job EXCEPT ![a] = None] /\ step' = [step EXCEPT ![a] = 1]
        /\ UNCHANGED <<bits, change>> /\ bus' = bus /\ job[a].does = "init"
    BY <1>7 DEF GiveUp, Suppressed
  <2>2. job \in [Actors -> Jobs \cup {None}] /\ step \in [Actors -> 1..4]
    BY DEF TypeOK
  <2>3. ASSUME NEW b \in Actors, InGap(b) PROVE InGap(b)'
    <3>1. b # a BY <2>1, <2>3 DEF InGap
    <3>2. job'[b] = job[b] /\ step'[b] = step[b] BY <2>1, <2>2, <3>1
    <3> QED BY <2>3, <3>2 DEF InGap, Busy
  <2>4. UNCHANGED <<systeminit_reg, hw_init>> BY <2>1 DEF bits
  <2>5. UNCHANGED <<stage, word, torn>> BY <2>1 DEF change
  <2>6. ShadowWritten' BY <2>1, <2>3, <2>4, <2>5 DEF ShadowInv, ShadowWritten
  <2> QED BY <2>4, <2>5, <2>6 DEF ShadowInv, Pending
<1>8. ASSUME NEW a \in Actors, Advance(a) PROVE ShadowInv'
  <2>1. Continue(a, job[a], step[a]) /\ bus' = bus /\ Busy(a) BY <1>8 DEF Advance
  <2>2. job[a] \in Jobs /\ step[a] \in 1..Len(Program(job[a])) BY <2>1, Position
  <2>3. CASE stage[a] = "asleep" BY <2>1, <2>2, <2>3, AwakeShadow DEF Continue
  <2>4. CASE stage[a] = "loaded"
    <3>1. Program(job[a])[step[a]] # Nothing
      <4>1. StageFits(a) BY TypeParts DEF ControlTypes
      <4> QED BY <2>4, <4>1 DEF StageFits
    <3>2. CASE Perform(a, job[a], step[a], word[a])
      BY <2>1, <2>2, <2>4, <3>1, <3>2, PerformShadow
    <3>3. CASE StoreWord(a, job[a], step[a], word[a]) BY <3>3, StoreWordShadow
    <3> QED BY <2>1, <2>4, <3>2, <3>3 DEF Continue
  <2>5. CASE stage[a] = "stored" BY <2>1, <2>5, WriteWordShadow DEF Continue
  <2> QED BY <2>1, <2>3, <2>4, <2>5 DEF Continue
<1>9. CASE BusReset
  <2>1. bus' = "down" /\ UNCHANGED <<systeminit_reg, stage, word, torn>>
    BY <1>9 DEF BusReset, change
  <2> QED BY <2>1 DEF ShadowInv, ShadowWritten, Pending
<1>10. CASE Restart
  <2>1. /\ systeminit_reg' = {} /\ hw_init' = {} /\ torn' = Pending(Timer)
        /\ UNCHANGED <<stage, word>> /\ ~Busy(Timer)
    BY <1>10 DEF Restart, Free
  <2>2. stage[Timer] # "stored" BY <1>1, <2>1, Position
  <2>3. ~torn' => \A b \in Actors : stage'[b] # "stored"
    BY <2>1, <2>2 DEF Pending
  <2> QED BY <2>1, <2>3 DEF ShadowInv, ShadowWritten
<1>11. CASE RestartFails
  <2>1. /\ bus' = "down" /\ torn' = (torn \/ Pending(Timer))
        /\ UNCHANGED <<stage, word>> /\ ~Busy(Timer)
    BY <1>11 DEF RestartFails, Free
  <2>2. stage[Timer] # "stored" BY <1>1, <2>1, Position
  <2>3. ~torn' => \A b \in Actors : stage'[b] # "stored"
    BY <2>1, <2>2 DEF Pending
  <2> QED BY <2>1, <2>3 DEF ShadowInv, ShadowWritten
<1>12. CASE UNCHANGED vars BY <1>2, <1>12 DEF vars, bits, change
<1> QED
  BY <1>3, <1>4, <1>5, <1>6, <1>7, <1>8, <1>9, <1>10, <1>11, <1>12 DEF Next

\* What the sysfs files show is what the register holds, for any number of
\* sysfs processes, interruptions and resets and however their programs, the
\* module's and the timer's overlap, except from a change that was interrupted
\* between its store and its write to the next that was not
\* (contec_mcs341_controller_setSystemInit and its callers).
THEOREM ShadowCorrect == Spec => []ShadowWritten
<1>1. Init => ShadowInv BY DEF Init, ShadowInv, ShadowWritten
<1>2. ShadowInv => ShadowWritten BY DEF ShadowInv
<1> QED BY <1>1, <1>2, TypeInit, TypeStep, ShadowStep, PTL DEF Spec

-----------------------------------------------------------------------------
(* The invariant of an unmixed state. *)

ModemOff == "POWER" \notin hw_init => modem = "off"

\* What stretch k of a program does, while nothing is mixed.
LEMMA Effect ==
  ASSUME TypeOK, ~mixed, NEW a \in Actors, NEW j \in Jobs,
         NEW k \in 1..Len(Program(j)), Perform(a, j, k, systeminit_reg), ModemOff
  PROVE  /\ systeminit_reg' = (systeminit_reg \ Program(j)[k].off) \cup Program(j)[k].on
         /\ hw_init' = IF Program(j)[k].write THEN systeminit_reg' ELSE hw_init
         /\ modem' = ModemAfter(hw_init')
         /\ powered_by' = IF "POWER" \in Program(j)[k].on THEN j.unit ELSE powered_by
         /\ "POWER" \notin hw_init' => modem' = "off"
         /\ Others(a)
         /\ Last(j, k) => Result(j) /\ job'[a] = None
         /\ ~Last(j, k) => /\ UNCHANGED <<child_unit, child_unit_enable>>
                           /\ job'[a] = j /\ step'[a] = k + 1 /\ Busy(a)'
<1>1. /\ systeminit_reg' = (systeminit_reg \ Program(j)[k].off) \cup Program(j)[k].on
      /\ Finish(a, j, k)
  BY DEF Perform, Changed
<1>2. /\ hw_init' = IF Program(j)[k].write THEN systeminit_reg' ELSE hw_init
      /\ modem' = ModemAfter(hw_init')
      /\ powered_by' = IF "POWER" \in Program(j)[k].on THEN j.unit ELSE powered_by
  <2>1. CASE Program(j)[k].write
    <3>1. Write(j, k, systeminit_reg') BY <2>1 DEF Perform
    <3> QED BY <2>1, <3>1 DEF Write
  <2>2. CASE ~Program(j)[k].write
    <3>1. UNCHANGED <<hw_init, modem, powered_by>> BY <2>2 DEF Perform, NoWrite
    <3>2. "POWER" \notin Program(j)[k].on BY <2>2, WriteShape
    <3>3. modem' = ModemAfter(hw_init') BY <3>1 DEF ModemAfter, ModemOff
    <3> QED BY <2>2, <3>1, <3>2, <3>3
  <2> QED BY <2>1, <2>2
<1>3. "POWER" \notin hw_init' => modem' = "off" BY <1>2 DEF ModemAfter
<1>4. /\ Others(a) /\ (Last(j, k) => job'[a] = None)
      /\ ~Last(j, k) => job'[a] = j /\ step'[a] = k + 1
  BY <1>1, FinishOthers
<1>5. /\ Last(j, k) => Result(j)
      /\ ~Last(j, k) => UNCHANGED <<child_unit, child_unit_enable>>
  BY <1>1 DEF Finish
<1>6. ~Last(j, k) => Busy(a)' BY <1>4, NoneAssumption DEF Busy
<1> QED BY <1>1, <1>2, <1>3, <1>4, <1>5, <1>6

\* What holds before stretch k of the program that switches the unit on.
InitReady(k) ==
  /\ child_unit_enable => resets > 0 /\ child_unit \in Known
  /\ k = 1 => /\ Powered => powered_by = child_unit /\ child_unit \notin Known
              /\ bus = "up" => systeminit_reg = hw_init
  /\ k > 1 => /\ "POWER" \in hw_init /\ systeminit_reg = hw_init
              /\ powered_by = child_unit
  /\ child_unit = "40" /\ k = 3 => "RESET" \in hw_init
  /\ child_unit = "A0" /\ k > 1 =>
       /\ "RESET" \notin hw_init /\ ("3G3" \in hw_init <=> k = 3)
       /\ resets = 0 => modem = "off"

\* That program makes the unit ready.
LEMMA InitEffect ==
  ASSUME TypeOK, ~mixed, NEW a \in Actors, NEW j \in Jobs,
         NEW k \in 1..Len(Program(j)), Perform(a, j, k, systeminit_reg), ModemOff,
         UNCHANGED <<bus, resets>>,
         j.does = "init", j.unit = child_unit, j.next = None, InitReady(k),
         ~(child_unit = "A0" /\ k = 2 /\ child_unit_enable)
  PROVE  /\ Last(j, k) => Rest' /\ (child_unit_enable' => child_unit' \in Known)
         /\ ~Last(j, k) => InitProgress(a)'
<1>1. Program(j) = InitProgram(child_unit) BY DEF Program
<1>2. Last(j, k) => /\ child_unit_enable' = (IF child_unit \in Known THEN TRUE ELSE child_unit_enable)
                    /\ child_unit' = child_unit
  BY Effect DEF Result
<1>3. child_unit \notin Known => ~child_unit_enable BY DEF InitReady
<1>4. child_unit_enable \in BOOLEAN /\ child_unit \in Units BY DEF TypeOK
<1> USE DEF Stretch, Nothing
<1>5. CASE child_unit = "NONE"
  <2>1. Program(j) = << Nothing >> BY <1>1, <1>5 DEF InitProgram
  <2>2. k = 1 /\ Last(j, k) BY <2>1 DEF Last
  <2>3. UNCHANGED <<systeminit_reg, hw_init, powered_by>>
    <3>1. Program(j)[k].on = {} /\ Program(j)[k].off = {} /\ ~Program(j)[k].write
      BY <2>1, <2>2
    <3>2. hw_init' = hw_init
      <4>1. hw_init' = IF Program(j)[k].write THEN systeminit_reg' ELSE hw_init
        BY Effect
      <4> QED BY <3>1, <4>1
    <3>3. systeminit_reg' = systeminit_reg
      <4>1. systeminit_reg' = (systeminit_reg \ Program(j)[k].off) \cup Program(j)[k].on
        BY Effect
      <4> QED BY <3>1, <4>1
    <3>4. powered_by' = powered_by
      <4>1. powered_by' = IF "POWER" \in Program(j)[k].on THEN j.unit ELSE powered_by
        BY Effect
      <4> QED BY <3>1, <4>1
    <3> QED BY <3>2, <3>3, <3>4
  <2>4. ~child_unit_enable' /\ child_unit' = child_unit /\ child_unit \notin Known
    BY <1>2, <1>3, <1>5, <2>2 DEF Known
  <2> QED BY <2>2, <2>3, <2>4 DEF Rest, InitReady, Powered
<1>6. CASE child_unit \notin {"NONE", "40", "90", "A0"}
  <2>1. Program(j) = << Stretch({"POWER"}, {}), Stretch({"RESET"}, {}) >>
    BY <1>1, <1>6 DEF InitProgram
  <2>2. CASE k = 1
    <3>1. ~Last(j, k) BY <2>1, <2>2 DEF Last
    <3>2. /\ systeminit_reg' = systeminit_reg \cup {"POWER"}
          /\ hw_init' = systeminit_reg' /\ powered_by' = child_unit
      <4>1. /\ Program(j)[k].on = {"POWER"}
            /\ Program(j)[k].off = {} /\ Program(j)[k].write
        BY <2>1, <2>2
      <4> QED BY <4>1, Effect
    <3>3. /\ UNCHANGED <<child_unit, child_unit_enable>> /\ step'[a] = 2
      BY <2>2, <3>1, Effect
    <3> QED BY <1>6, <3>1, <3>2, <3>3 DEF InitProgress, InitReady
  <2>3. CASE k = 2
    <3>1. Last(j, k) BY <2>1, <2>3 DEF Last
    <3>2. /\ systeminit_reg' = systeminit_reg \cup {"RESET"}
          /\ hw_init' = systeminit_reg' /\ powered_by' = powered_by
      <4>1. /\ Program(j)[k].on = {"RESET"}
            /\ Program(j)[k].off = {} /\ Program(j)[k].write
        BY <2>1, <2>3
      <4> QED BY <4>1, Effect
    <3>3. "POWER" \in hw_init' /\ "RESET" \in hw_init' /\ powered_by' = child_unit
      BY <2>3, <3>2 DEF InitReady
    <3>4. child_unit \in Known => child_unit = "00" BY <1>6 DEF Known
    <3> QED BY <1>2, <1>3, <1>6, <3>1, <3>2, <3>3, <3>4 DEF Rest, Ready, Powered
  <2> QED BY <2>1, <2>2, <2>3
<1>7. CASE child_unit = "40"
  <2>1. Program(j) = << Stretch({"POWER"}, {}), Stretch({"RESET"}, {}),
                        Stretch({"3G4"}, {}) >>
    BY <1>1, <1>7 DEF InitProgram
  <2>2. CASE k = 1
    <3>1. ~Last(j, k) BY <2>1, <2>2 DEF Last
    <3>2. /\ systeminit_reg' = systeminit_reg \cup {"POWER"}
          /\ hw_init' = systeminit_reg' /\ powered_by' = child_unit
      <4>1. /\ Program(j)[k].on = {"POWER"}
            /\ Program(j)[k].off = {} /\ Program(j)[k].write
        BY <2>1, <2>2
      <4> QED BY <4>1, Effect
    <3>3. /\ UNCHANGED <<child_unit, child_unit_enable>> /\ step'[a] = 2
      BY <2>2, <3>1, Effect
    <3> QED BY <1>7, <3>1, <3>2, <3>3 DEF InitProgress, InitReady
  <2>3. CASE k = 2
    <3>1. ~Last(j, k) BY <2>1, <2>3 DEF Last
    <3>2. /\ systeminit_reg' = systeminit_reg \cup {"RESET"}
          /\ hw_init' = systeminit_reg' /\ powered_by' = powered_by
      <4>1. /\ Program(j)[k].on = {"RESET"}
            /\ Program(j)[k].off = {} /\ Program(j)[k].write
        BY <2>1, <2>3
      <4> QED BY <4>1, Effect
    <3>3. /\ UNCHANGED <<child_unit, child_unit_enable>> /\ step'[a] = 3
      BY <2>3, <3>1, Effect
    <3> QED BY <1>7, <2>3, <3>1, <3>2, <3>3 DEF InitProgress, InitReady
  <2>4. CASE k = 3
    <3>1. Last(j, k) BY <2>1, <2>4 DEF Last
    <3>2. /\ systeminit_reg' = systeminit_reg \cup {"3G4"}
          /\ hw_init' = systeminit_reg' /\ powered_by' = powered_by
      <4>1. /\ Program(j)[k].on = {"3G4"}
            /\ Program(j)[k].off = {} /\ Program(j)[k].write
        BY <2>1, <2>4
      <4> QED BY <4>1, Effect
    <3>3. /\ "POWER" \in hw_init' /\ {"RESET", "3G4"} \subseteq hw_init'
          /\ powered_by' = child_unit
      BY <1>7, <2>4, <3>2 DEF InitReady
    <3> QED BY <1>2, <1>7, <3>1, <3>2, <3>3 DEF Rest, Ready, Known
  <2> QED BY <2>1, <2>2, <2>3, <2>4
<1>8. CASE child_unit = "90"
  <2>1. Program(j) = << Stretch({"3G3", "RESET", "POWER"}, {"3G4"}),
                        Stretch({"3G4"}, {"3G3", "RESET"}) >>
    BY <1>1, <1>8 DEF InitProgram
  <2>2. CASE k = 1
    <3>1. ~Last(j, k) BY <2>1, <2>2 DEF Last
    <3>2. /\ systeminit_reg' = (systeminit_reg \ {"3G4"}) \cup {"3G3", "RESET", "POWER"}
          /\ hw_init' = systeminit_reg' /\ powered_by' = child_unit
      <4>1. /\ Program(j)[k].on = {"3G3", "RESET", "POWER"}
            /\ Program(j)[k].off = {"3G4"} /\ Program(j)[k].write
        BY <2>1, <2>2
      <4> QED BY <4>1, Effect
    <3>3. /\ UNCHANGED <<child_unit, child_unit_enable>> /\ step'[a] = 2
      BY <2>2, <3>1, Effect
    <3> QED BY <1>8, <3>1, <3>2, <3>3 DEF InitProgress, InitReady
  <2>3. CASE k = 2
    <3>1. Last(j, k) BY <2>1, <2>3 DEF Last
    <3>2. /\ systeminit_reg' = (systeminit_reg \ {"3G3", "RESET"}) \cup {"3G4"}
          /\ hw_init' = systeminit_reg' /\ powered_by' = powered_by
      <4>1. /\ Program(j)[k].on = {"3G4"}
            /\ Program(j)[k].off = {"3G3", "RESET"} /\ Program(j)[k].write
        BY <2>1, <2>3
      <4> QED BY <4>1, Effect
    <3>3. /\ "POWER" \in hw_init' /\ "3G4" \in hw_init'
          /\ hw_init' \cap {"RESET", "3G3"} = {} /\ powered_by' = child_unit
      BY <2>3, <3>2 DEF InitReady
    <3> QED BY <1>2, <1>8, <3>1, <3>2, <3>3 DEF Rest, Ready, Known
  <2> QED BY <2>1, <2>2, <2>3
<1>9. CASE child_unit = "A0"
  <2>1. Program(j) = << Stretch({"POWER"}, {"RESET", "3G3"}),
                        Stretch({"3G3"}, {}), Stretch({}, {"3G3"}) >>
    BY <1>1, <1>9 DEF InitProgram
  <2>2. CASE k = 1
    <3>1. ~Last(j, k) BY <2>1, <2>2 DEF Last
    <3>2. /\ systeminit_reg' = (systeminit_reg \ {"RESET", "3G3"}) \cup {"POWER"}
          /\ hw_init' = systeminit_reg' /\ powered_by' = child_unit
          /\ modem' = ModemAfter(hw_init')
      <4>1. /\ Program(j)[k].on = {"POWER"}
            /\ Program(j)[k].off = {"RESET", "3G3"} /\ Program(j)[k].write
        BY <2>1, <2>2
      <4> QED BY <4>1, Effect
    <3>3. /\ UNCHANGED <<child_unit, child_unit_enable>> /\ step'[a] = 2
      BY <2>2, <3>1, Effect
    <3>4. "POWER" \notin hw_init BY <1>9, <2>2 DEF InitReady, Powered, Known
    <3>5. modem' = "off" BY <3>2, <3>4 DEF ModemAfter
    <3> QED BY <1>9, <3>1, <3>2, <3>3, <3>5 DEF InitProgress, InitReady
  <2>3. CASE k = 2
    <3>1. ~Last(j, k) BY <2>1, <2>3 DEF Last
    <3>2. /\ systeminit_reg' = systeminit_reg \cup {"3G3"}
          /\ hw_init' = systeminit_reg' /\ powered_by' = powered_by
          /\ modem' = ModemAfter(hw_init')
      <4>1. /\ Program(j)[k].on = {"3G3"}
            /\ Program(j)[k].off = {} /\ Program(j)[k].write
        BY <2>1, <2>3
      <4> QED BY <4>1, Effect
    <3>3. /\ UNCHANGED <<child_unit, child_unit_enable>> /\ step'[a] = 3
      BY <2>3, <3>1, Effect
    <3>4. "POWER" \in hw_init /\ "3G3" \notin hw_init /\ "RESET" \notin hw_init
          /\ systeminit_reg = hw_init /\ (resets = 0 => modem = "off")
      BY <1>9, <2>3 DEF InitReady
    <3>5. "POWER" \in hw_init' /\ "RESET" \notin hw_init' /\ "3G3" \in hw_init'
      BY <3>2, <3>4
    <3>6. modem' = modem BY <3>2, <3>4, <3>5 DEF ModemAfter
    <3> QED BY <1>9, <2>3, <3>1, <3>2, <3>3, <3>4, <3>5, <3>6 DEF InitProgress, InitReady
  <2>4. CASE k = 3
    <3>1. Last(j, k) BY <2>1, <2>4 DEF Last
    <3>2. /\ systeminit_reg' = systeminit_reg \ {"3G3"}
          /\ hw_init' = systeminit_reg' /\ powered_by' = powered_by
          /\ modem' = ModemAfter(hw_init')
      <4>1. /\ Program(j)[k].on = {}
            /\ Program(j)[k].off = {"3G3"} /\ Program(j)[k].write
        BY <2>1, <2>4
      <4> QED BY <4>1, Effect
    <3>3. "POWER" \in hw_init /\ "3G3" \in hw_init /\ "RESET" \notin hw_init
          /\ systeminit_reg = hw_init /\ (resets = 0 => modem = "off")
          /\ powered_by = child_unit
      BY <1>9, <2>4 DEF InitReady
    <3>4. "POWER" \in hw_init' /\ hw_init' \cap {"RESET", "3G3"} = {}
      BY <3>2, <3>3
    <3>5. resets = 0 => modem' = "on"
      BY <3>2, <3>3, <3>4 DEF ModemAfter
    <3> QED BY <1>2, <1>9, <3>1, <3>2, <3>3, <3>4, <3>5 DEF Rest, Ready, Known
  <2> QED BY <2>1, <2>2, <2>3, <2>4
<1> QED BY <1>5, <1>6, <1>7, <1>8, <1>9

\* What holds before each stretch of contec_mcs341_controller_setExtend_Reset.
ResetReady ==
  /\ child_unit = "A0"
  /\ bus = "up" => systeminit_reg = hw_init
  /\ IF child_unit_enable
     THEN /\ powered_by = "A0"
          /\ bus = "up" => "POWER" \in hw_init /\ "3G3" \notin hw_init
          /\ resets = 0 => modem = "on"
     ELSE ~Powered

\* A reset leaves the power and the modem as they are.
LEMMA ResetEffect ==
  ASSUME TypeOK, ~mixed, NEW a \in Actors, NEW j \in Jobs,
         NEW k \in 1..Len(Program(j)), Perform(a, j, k, systeminit_reg), ModemOff,
         UNCHANGED <<bus, resets>>,
         j.does = "reset", j.unit = child_unit, j.next = None, ResetReady,
         bus = "down" => resets > 0
  PROVE  /\ child_unit_enable' = child_unit_enable /\ child_unit' = child_unit
         /\ Last(j, k) => Rest'
         /\ ~Last(j, k) => ResetProgress(a)'
<1> USE DEF Stretch
<1>1. Program(j) = << Stretch({"RESET"}, {}), Stretch({}, {"RESET"}) >>
  BY DEF Program
<1>2. child_unit_enable' = child_unit_enable /\ child_unit' = child_unit
  BY Effect DEF Result
<1>3. k = 1 \/ k = 2 BY <1>1
<1>4. /\ Program(j)[k].write /\ "POWER" \notin Program(j)[k].on \cup Program(j)[k].off
      /\ "3G3" \notin Program(j)[k].on \cup Program(j)[k].off
      /\ k = 2 => "RESET" \in Program(j)[k].off /\ "RESET" \notin Program(j)[k].on
      /\ Last(j, k) <=> k = 2
  <2>1. CASE k = 1 BY <1>1, <2>1 DEF Last
  <2>2. CASE k = 2 BY <1>1, <2>2 DEF Last
  <2> QED BY <1>3, <2>1, <2>2
<1>5. /\ systeminit_reg' = (systeminit_reg \ Program(j)[k].off) \cup Program(j)[k].on
      /\ modem' = ModemAfter(hw_init')
      /\ powered_by' = IF "POWER" \in Program(j)[k].on THEN j.unit ELSE powered_by
  BY Effect
<1>6. hw_init' = systeminit_reg' /\ powered_by' = powered_by
  <2>1. hw_init' = IF Program(j)[k].write THEN systeminit_reg' ELSE hw_init BY Effect
  <2> QED BY <2>1, <1>4, <1>5
<1>7. /\ "POWER" \in hw_init' <=> "POWER" \in systeminit_reg
      /\ "3G3" \in hw_init' <=> "3G3" \in systeminit_reg
      /\ k = 2 => "RESET" \notin hw_init'
  BY <1>4, <1>5, <1>6
<1>8. CASE child_unit_enable
  <2>1. /\ powered_by' = "A0"
        /\ bus = "up" => /\ systeminit_reg = hw_init
                         /\ "POWER" \in hw_init /\ "3G3" \notin hw_init
        /\ resets = 0 => modem = "on"
    BY <1>6, <1>8 DEF ResetReady
  <2>2. bus = "up" => "POWER" \in hw_init' /\ "3G3" \notin hw_init'
    BY <1>7, <2>1
  <2>3. ASSUME resets = 0 PROVE modem' = "on"
    <3>1. bus = "up" BY <2>3 DEF TypeOK
    <3>2. modem' = modem BY <1>5, <2>1, <2>2, <3>1 DEF ModemAfter
    <3> QED BY <2>1, <2>3, <3>2
  <2>4. ASSUME ~Last(j, k) PROVE ResetProgress(a)'
    <3>1. step'[a] = 2 BY <1>3, <1>4, <2>4, Effect
    <3> QED BY <1>2, <1>6, <1>8, <2>1, <2>2, <2>3, <3>1 DEF ResetProgress, ResetReady
  <2>5. ASSUME Last(j, k) PROVE Rest'
    <3>1. child_unit' = "A0" BY <1>2 DEF ResetReady
    <3>2. bus = "up" => Ready(child_unit)'
      BY <1>4, <1>7, <2>2, <2>5, <3>1 DEF Ready
    <3> QED BY <1>2, <1>6, <1>8, <2>1, <2>3, <3>1, <3>2 DEF Rest
  <2> QED BY <1>2, <2>4, <2>5
<1>9. CASE ~child_unit_enable
  <2>1. "POWER" \notin systeminit_reg BY <1>9 DEF ResetReady, Powered
  <2>2. ~Powered' BY <1>6, <1>7, <2>1 DEF Powered
  <2>3. ASSUME ~Last(j, k) PROVE ResetProgress(a)'
    <3>1. step'[a] = 2 BY <1>3, <1>4, <2>3, Effect
    <3> QED BY <1>2, <1>6, <1>9, <2>2, <3>1 DEF ResetProgress, ResetReady
  <2>4. Rest' BY <1>2, <1>6, <1>9, <2>2 DEF Rest
  <2> QED BY <1>2, <2>3, <2>4
<1> QED BY <1>8, <1>9

\* The last stretch of an exit takes the power away.
LEMMA ExitShape ==
  ASSUME NEW j \in Jobs, j.does = "exit", j.unit # "NONE",
         NEW k, k = Len(Program(j))
  PROVE  /\ Program(j)[k].write
         /\ "POWER" \in Program(j)[k].off /\ "POWER" \notin Program(j)[k].on
<1> USE DEF Stretch, Nothing
<1>1. Program(j) = ExitProgram(j.unit) BY DEF Program
<1>2. CASE j.unit = "40" BY <1>1, <1>2 DEF ExitProgram
<1>3. CASE j.unit = "90" BY <1>1, <1>3 DEF ExitProgram
<1>4. CASE j.unit = "A0" BY <1>1, <1>4 DEF ExitProgram
<1>5. CASE j.unit \notin {"90", "A0", "40", "NONE"} BY <1>1, <1>5 DEF ExitProgram
<1> QED BY <1>2, <1>3, <1>4, <1>5

\* The program that switches the unit off ends with the unit at rest.
LEMMA ExitEffect ==
  ASSUME TypeOK, ~mixed, NEW a \in Actors, NEW j \in Jobs,
         NEW k \in 1..Len(Program(j)), Perform(a, j, k, systeminit_reg), ModemOff,
         j.does = "exit", j.unit # "NONE", Last(j, k)
  PROVE  Rest' /\ ~child_unit_enable'
<1>1. /\ Program(j)[k].write
      /\ "POWER" \in Program(j)[k].off /\ "POWER" \notin Program(j)[k].on
  BY ExitShape DEF Last
<1>2. systeminit_reg' = (systeminit_reg \ Program(j)[k].off) \cup Program(j)[k].on
  BY Effect
<1>3. hw_init' = systeminit_reg'
  <2>1. hw_init' = IF Program(j)[k].write THEN systeminit_reg' ELSE hw_init BY Effect
  <2> QED BY <1>1, <2>1
<1>4. ~Powered' BY <1>1, <1>2, <1>3 DEF Powered
<1>5. ~child_unit_enable' BY Effect DEF Result
<1> QED BY <1>3, <1>4, <1>5 DEF Rest

\* The pins of a unit without power.
LEMMA PinEffect ==
  ASSUME TypeOK, ~mixed, NEW a \in Actors, NEW j \in Jobs,
         NEW k \in 1..Len(Program(j)), Perform(a, j, k, systeminit_reg), ModemOff,
         j.does \in Pins, j.next = None, ~child_unit_enable, ~Powered
  PROVE  Last(j, k) /\ Rest' /\ ~child_unit_enable' /\ child_unit' = child_unit
<1> USE DEF Stretch
<1>1. Program(j) = PinProgram(j.does) BY DEF Program, Pins
<1>2. /\ k = 1 /\ Len(Program(j)) = 1 /\ Program(j)[1].write
      /\ "POWER" \notin Program(j)[1].on
  <2>1. CASE j.does = "io3_on"  BY <1>1, <2>1 DEF PinProgram
  <2>2. CASE j.does = "io3_off" BY <1>1, <2>2 DEF PinProgram
  <2>3. CASE j.does = "io4_on"  BY <1>1, <2>3 DEF PinProgram
  <2>4. CASE j.does = "io4_off" BY <1>1, <2>4 DEF PinProgram
  <2> QED BY <2>1, <2>2, <2>3, <2>4 DEF Pins
<1>3. Last(j, k) BY <1>2 DEF Last
<1>4. systeminit_reg' = (systeminit_reg \ Program(j)[k].off) \cup Program(j)[k].on
  BY Effect
<1>5. hw_init' = systeminit_reg'
  <2>1. hw_init' = IF Program(j)[k].write THEN systeminit_reg' ELSE hw_init BY Effect
  <2> QED BY <1>2, <2>1
<1>6. ~Powered' BY <1>2, <1>4, <1>5 DEF Powered
<1>7. ~child_unit_enable' /\ child_unit' = child_unit
  <2>1. Result(j) BY <1>3, Effect
  <2> QED BY <2>1 DEF Result, Pins
<1> QED BY <1>3, <1>5, <1>6, <1>7 DEF Rest

\* What holds before stretch k of program j.
Prepared(j, k) ==
  /\ j.unit = child_unit
  /\ j.does # "exit" => j.next = None
  /\ \/ /\ j.does = "init" /\ InitReady(k)
        /\ ~(child_unit = "A0" /\ k = 2 /\ child_unit_enable)
     \/ j.does = "exit" /\ child_unit # "NONE"
     \/ j.does = "reset" /\ ResetReady
     \/ j.does \in Pins /\ ~child_unit_enable /\ ~Powered

\* A stretch of a prepared program, run alone, keeps the invariant.
LEMMA RunUnmixed ==
  ASSUME TypeOK, ~mixed, UNCHANGED <<bus, resets>>, bus = "down" => resets > 0,
         child_unit_enable => child_unit \in Known,
         NEW a \in Actors, Alone(a), NEW j \in Jobs,
         NEW k \in 1..Len(Program(j)), Perform(a, j, k, systeminit_reg), ModemOff, Prepared(j, k),
         module' = "removed" => Last(j, k),
         module' = "loading" => ~Last(j, k) /\ a = Module /\ ~child_unit_enable,
         a = Module /\ ~Last(j, k) => module' \in {"loading", "leaving"}
  PROVE  UnmixedInv'
<1>1. \A b \in Actors \ {a} : ~Busy(b)'
  BY Effect DEF Alone, Busy, Others
<1>2. Last(j, k) => ~Busy(a)' BY Effect DEF Busy
<1>3. ~Last(j, k) => Busy(a)' BY Effect
<1>4. /\ Last(j, k) => Rest'
      /\ child_unit_enable' => child_unit' \in Known
      /\ ~Last(j, k) => /\ child_unit' = child_unit
                        /\ child_unit_enable' = child_unit_enable
                        /\ job'[a] = j
                        /\ \/ j.does = "init" /\ InitProgress(a)'
                           \/ j.does = "exit" /\ child_unit # "NONE"
                           \/ j.does = "reset" /\ ResetProgress(a)'
  <2>1. ~Last(j, k) => /\ child_unit' = child_unit
                       /\ child_unit_enable' = child_unit_enable
                       /\ job'[a] = j
    BY Effect
  <2>2. CASE j.does = "init"
    <3>1. /\ j.unit = child_unit /\ j.next = None /\ InitReady(k)
          /\ ~(child_unit = "A0" /\ k = 2 /\ child_unit_enable)
      BY <2>2 DEF Prepared, Pins
    <3> QED BY <2>1, <2>2, <3>1, InitEffect
  <2>3. CASE j.does = "exit"
    <3>1. j.unit = child_unit /\ child_unit # "NONE"
      BY <2>3 DEF Prepared, Pins
    <3> QED BY <2>1, <2>3, <3>1, ExitEffect
  <2>4. CASE j.does = "reset"
    <3>1. j.unit = child_unit /\ j.next = None /\ ResetReady
      BY <2>4 DEF Prepared, Pins
    <3> QED BY <2>1, <2>4, <3>1, ResetEffect
  <2>5. CASE j.does \in Pins
    <3>1. j.next = None /\ ~child_unit_enable /\ ~Powered
      BY <2>5 DEF Prepared, Pins
    <3> QED BY <2>5, <3>1, PinEffect
  <2> QED BY <2>2, <2>3, <2>4, <2>5 DEF Jobs
<1>5. "POWER" \notin hw_init' => modem' = "off" BY Effect
<1>6. ~Last(j, k) => Progress(a)'
  <2> SUFFICES ASSUME ~Last(j, k) PROVE Progress(a)' OBVIOUS
  <2>1. job'[a].unit = child_unit' /\ (job'[a].does # "exit" => job'[a].next = None)
    BY <1>4 DEF Prepared
  <2>2. \/ job'[a].does = "init" /\ InitProgress(a)'
        \/ job'[a].does = "exit" /\ child_unit' # "NONE"
        \/ job'[a].does = "reset" /\ ResetProgress(a)'
    BY <1>4
  <2>3. a = Module => module' \in {"loading", "leaving"} OBVIOUS
  <2> QED BY <2>1, <2>2, <2>3 DEF Progress
<1>7. Idle' => Rest' BY <1>3, <1>4 DEF Idle
<1>8. \A b \in Actors : Busy(b)' => Progress(b)'
  BY <1>1, <1>2, <1>6
<1>9. \A b, c \in Actors : Busy(b)' /\ Busy(c)' => b = c BY <1>1
<1>10. module' = "removed" => Idle' BY <1>1, <1>2 DEF Idle
<1>11. module' = "loading" => /\ ~child_unit_enable'
                              /\ \A b \in Actors \ {Module} : ~Busy(b)'
  BY <1>1, <1>4
<1> QED BY <1>4, <1>5, <1>7, <1>8, <1>9, <1>10, <1>11 DEF UnmixedInv

\* An actor that is still asleep afterwards was not interrupted.
LEMMA AwakeAsleep ==
  ASSUME TypeOK, NEW a \in Actors, NEW j, NEW k, Awake(a, j, k), stage'[a] = "asleep"
  PROVE  Perform(a, j, k, systeminit_reg)
<1>1. ASSUME NEW where, NEW w, Interrupt(a, j, k, where, w) PROVE stage'[a] = where
  BY <1>1, InterruptOthers
<1>2. ~LoadWord(a, j, k) BY <1>1 DEF LoadWord
<1>3. ~StoreWord(a, j, k, systeminit_reg) BY <1>1 DEF StoreWord
<1> QED BY <1>2, <1>3 DEF Awake

\* The first stretch of a program, of an actor that ran nothing.
LEMMA BeginUnmixed ==
  ASSUME TypeOK, ~mixed, UNCHANGED <<bus, resets>>, bus = "down" => resets > 0,
         UnmixedInv, NEW a \in Actors, Idle,
         NEW what \in {"init", "exit", "reset"} \cup Pins,
         NEW next \in Units \cup {None}, Begin(a, what, child_unit, next),
         stage'[a] = "asleep", what # "exit" => next = None,
         \/ what = "init" /\ ~child_unit_enable
         \/ what = "exit" /\ child_unit # "NONE"
         \/ what = "reset" /\ child_unit = "A0"
         \/ what \in Pins /\ ~child_unit_enable /\ ~Powered,
         module' # "removed",
         module' = "loading" => Busy(a)' /\ a = Module /\ ~child_unit_enable,
         a = Module /\ Busy(a)' => module' \in {"loading", "leaving"}
  PROVE  UnmixedInv'
<1> DEFINE j == [does |-> what, unit |-> child_unit, next |-> next]
<1>1. j \in Jobs BY DEF Jobs, TypeOK
<1>2. 1 \in 1..Len(Program(j)) BY <1>1, ProgramShape
<1>3. Perform(a, j, 1, systeminit_reg) /\ ModemOff
  <2>1. Awake(a, j, 1) BY DEF Begin
  <2>2. Perform(a, j, 1, systeminit_reg) BY <2>1, AwakeAsleep
  <2> QED BY <2>2 DEF UnmixedInv, ModemOff
<1>4. Rest /\ (child_unit_enable => child_unit \in Known)
  BY DEF UnmixedInv
<1>5. Alone(a) BY DEF Alone, Idle
<1>6. j.does = what /\ j.unit = child_unit /\ j.next = next OBVIOUS
<1> HIDE DEF j
<1>7. Prepared(j, 1)
  <2>1. CASE what = "init" /\ ~child_unit_enable
    <3>1. InitReady(1) BY <1>4, <2>1 DEF InitReady, Rest
    <3> QED BY <1>6, <2>1, <3>1 DEF Prepared
  <2>2. CASE what = "exit" /\ child_unit # "NONE" BY <1>6, <2>2 DEF Prepared
  <2>3. CASE what = "reset" /\ child_unit = "A0"
    <3>1. child_unit \in Known BY <2>3 DEF Known
    <3>2. CASE child_unit_enable
      BY <1>4, <2>3, <3>2, <1>6 DEF Rest, Ready, ResetReady, Prepared
    <3>3. CASE ~child_unit_enable
      BY <1>4, <2>3, <3>1, <3>3, <1>6 DEF Rest, ResetReady, Prepared
    <3> QED BY <3>2, <3>3
  <2>4. CASE what \in Pins /\ ~child_unit_enable /\ ~Powered
    BY <1>6, <2>4 DEF Prepared, Pins
  <2> QED BY <2>1, <2>2, <2>3, <2>4
<1>8. Busy(a)' <=> ~Last(j, 1)
  BY <1>1, <1>2, <1>3, Effect DEF Busy
<1> QED BY <1>1, <1>2, <1>3, <1>4, <1>5, <1>7, <1>8, RunUnmixed

\* The number, the pins and the parameters of a unit without power at rest.
LEMMA RestUnmixed ==
  ASSUME ~mixed, UnmixedInv, Idle, ~child_unit_enable, ~Powered,
         UNCHANGED <<module, child_unit_enable, bits, bus, resets, job>>
  PROVE  UnmixedInv'
<1>1. Idle' /\ \A a \in Actors : ~Busy(a)' BY DEF Idle, Busy
<1>2. Rest' BY DEF UnmixedInv, Rest, Powered, bits
<1>3. "POWER" \notin hw_init' => modem' = "off" BY DEF UnmixedInv, bits
<1> QED BY <1>1, <1>2, <1>3 DEF UnmixedInv

\* A write to a sysfs file keeps the invariant.
LEMMA StoreUnmixed ==
  ASSUME TypeOK, ~mixed, ~mixed', UnmixedInv, bus = "down" => resets > 0,
         NEW p \in Stores, StoreAny(p)
  PROVE  UnmixedInv'
<1>1. /\ p \in Actors /\ p # Module /\ None \in Units \cup {None}
      /\ UNCHANGED <<module, bus, resets>> /\ module \in {"loaded", "leaving"}
      /\ ~Busy(p)
  BY UnitAssumption DEF Actors, StoreAny, Disable, Enable, StoreNumber, StoreReset,
                        StorePin, Store, Free, AfterStore
<1>2. Mixes(p) => Idle /\ stage'[p] = "asleep" BY <1>1 DEF Mixes, Alone, Idle
<1>3. ASSUME Idle, NEW what \in {"init", "exit", "reset"} \cup Pins,
             NEW next \in Units \cup {None}, Begin(p, what, child_unit, next),
             stage'[p] = "asleep", what # "exit" => next = None,
             \/ what = "init" /\ ~child_unit_enable
             \/ what = "exit" /\ child_unit # "NONE"
             \/ what = "reset" /\ child_unit = "A0"
             \/ what \in Pins /\ ~child_unit_enable /\ ~Powered
      PROVE  UnmixedInv'
  BY <1>1, <1>3, BeginUnmixed
<1>4. CASE Disable(p) BY <1>1, <1>2, <1>3, <1>4 DEF Disable
<1>5. CASE Enable(p) BY <1>1, <1>2, <1>3, <1>5 DEF Enable
<1>6. CASE StoreNumber(p)
  <2>1. PICK unit \in Units :
          IF child_unit_enable THEN Begin(p, "exit", child_unit, unit) /\ Mixes(p)
          ELSE /\ child_unit' = unit /\ Disturbs(p)
               /\ UNCHANGED <<child_unit_enable, bits, job, step, change>>
    BY <1>6 DEF StoreNumber
  <2>2. CASE child_unit_enable
    <3>1. child_unit # "NONE" BY <2>2 DEF UnmixedInv, Known
    <3> QED BY <1>1, <1>2, <1>3, <2>1, <2>2, <3>1
  <2>3. CASE ~child_unit_enable
    <3>1. Idle /\ ~Powered BY <2>1, <2>3 DEF Disturbs
    <3> QED BY <1>1, <2>1, <2>3, <3>1, RestUnmixed
  <2> QED BY <2>2, <2>3
<1>7. CASE StoreReset(p) BY <1>1, <1>2, <1>3, <1>7 DEF StoreReset
<1>8. CASE StorePin(p)
  <2>1. Idle /\ ~Powered /\ ~child_unit_enable /\ stage'[p] = "asleep"
    BY <1>8 DEF StorePin, Disturbs
  <2> QED BY <1>1, <1>3, <1>8, <2>1 DEF StorePin
<1> QED BY <1>4, <1>5, <1>6, <1>7, <1>8 DEF StoreAny

\* An actor that wakes up keeps the invariant.
LEMMA AdvanceUnmixed ==
  ASSUME TypeOK, ~mixed, ~mixed', UnmixedInv, bus = "down" => resets > 0,
         NEW a \in Actors, stage[a] = "asleep", Advance(a)
  PROVE  UnmixedInv' /\ ~faulted'
<1> DEFINE j == job[a]
           k == step[a]
<1>1. /\ Perform(a, j, k, systeminit_reg) /\ ModemOff
      /\ UNCHANGED <<bus, resets>> /\ Busy(a) /\ ~Suppressed(a)
  <2>1. stage'[a] = "asleep" BY DEF Advance
  <2>2. Awake(a, j, k) BY DEF Advance, Continue
  <2>3. Perform(a, j, k, systeminit_reg) BY <2>1, <2>2, AwakeAsleep
  <2> QED BY <2>3 DEF Advance, UnmixedInv, ModemOff
<1>2. j \in Jobs /\ k \in 1..Len(Program(j)) BY <1>1, Position
<1>3. Alone(a) BY <1>1 DEF UnmixedInv, Alone
<1>4. Progress(a) /\ module # "removed"
  BY <1>1 DEF UnmixedInv, Idle
<1>5. child_unit_enable => child_unit \in Known BY DEF UnmixedInv
<1>6. Prepared(j, k)
  <2>1. j.unit = child_unit /\ (j.does # "exit" => j.next = None)
    BY <1>4 DEF Progress
  <2>2. CASE j.does = "init" /\ InitProgress(a)
    <3>1. ~(child_unit = "A0" /\ k = 2 /\ child_unit_enable)
      BY <1>1, <2>1, <2>2 DEF Suppressed
    <3>2. k = 1 => systeminit_reg = hw_init /\ ~Powered
      BY <2>2 DEF InitProgress, Powered
    <3>3. k # 1 => k > 1 BY <1>2 DEF TypeOK
    <3>4. InitReady(k) BY <1>5, <2>2, <3>2, <3>3 DEF InitProgress, InitReady
    <3> QED BY <2>1, <2>2, <3>1, <3>4 DEF Prepared
  <2>3. CASE j.does = "exit" /\ child_unit # "NONE" BY <2>1, <2>3 DEF Prepared
  <2>4. CASE j.does = "reset" /\ ResetProgress(a)
    <3>1. ResetReady BY <2>4 DEF ResetProgress, ResetReady
    <3> QED BY <2>1, <2>4, <3>1 DEF Prepared
  <2> QED BY <1>4, <2>2, <2>3, <2>4 DEF Progress
<1>7. Busy(a)' <=> ~Last(j, k) BY <1>1, <1>2, Effect DEF Busy
<1>8. module' = CASE a = Module /\ ~Busy(a)' /\ module = "loading" -> "loaded"
                  [] a = Module /\ ~Busy(a)' /\ module = "leaving" -> "removed"
                  [] OTHER -> module
  BY DEF Advance
<1>9. module = "loading" => a = Module /\ ~child_unit_enable
  BY <1>1 DEF UnmixedInv
<1>10. a = Module => module \in {"loading", "leaving"} BY <1>4 DEF Progress
<1>11. /\ module' = "removed" => Last(j, k)
       /\ module' = "loading" => ~Last(j, k) /\ a = Module /\ ~child_unit_enable
       /\ a = Module /\ ~Last(j, k) => module' \in {"loading", "leaving"}
  BY <1>4, <1>7, <1>8, <1>9, <1>10
<1>12. ~faulted' BY <1>4 DEF Advance
<1> HIDE DEF j, k
<1> QED BY <1>1, <1>2, <1>3, <1>5, <1>6, <1>11, <1>12, RunUnmixed

\* A modem that is on already keeps its power when its program ends early.
LEMMA GiveUpUnmixed ==
  ASSUME TypeOK, ~mixed, UnmixedInv, NEW a \in Actors, GiveUp(a)
  PROVE  UnmixedInv'
<1>1. /\ Busy(a) /\ job[a].does = "init" /\ job[a].unit = "A0" /\ step[a] = 2
      /\ child_unit_enable
      /\ job' = [job EXCEPT ![a] = None]
      /\ module' = IF a = Module THEN "loaded" ELSE module
      /\ UNCHANGED <<child_unit, child_unit_enable, bits, bus, resets>>
  BY DEF GiveUp, Suppressed
<1>2. Progress(a) BY <1>1 DEF UnmixedInv
<1>3. child_unit = "A0" /\ InitProgress(a) BY <1>1, <1>2 DEF Progress
<1>4. \A b \in Actors : ~Busy(b)'
  <2>1. \A b \in Actors \ {a} : ~Busy(b) BY <1>1 DEF UnmixedInv
  <2>2. job \in [Actors -> Jobs \cup {None}] BY DEF TypeOK
  <2> QED BY <1>1, <2>1, <2>2 DEF Busy
<1>5. /\ "POWER" \in hw_init /\ systeminit_reg = hw_init /\ powered_by = child_unit
      /\ "RESET" \notin hw_init /\ "3G3" \notin hw_init /\ resets > 0
  BY <1>1, <1>3 DEF InitProgress
<1>6. Rest' 
  <2>1. Ready(child_unit)' BY <1>1, <1>3, <1>5 DEF Ready, bits
  <2>2. ~(resets' = 0) BY <1>1, <1>5
  <2> QED BY <1>1, <1>5, <2>1, <2>2 DEF Rest, bits
<1>7. module' # "loading" /\ module' # "removed"
  BY <1>1 DEF UnmixedInv, Idle
<1>8. child_unit_enable' => child_unit' \in Known BY <1>1, <1>3 DEF Known
<1>9. "POWER" \notin hw_init' => modem' = "off" BY <1>1, <1>5 DEF bits
<1> QED BY <1>4, <1>6, <1>7, <1>8, <1>9 DEF UnmixedInv

\* Only an interruption, which mixes, takes an actor out of its sleep.
LEMMA StageStep ==
  ASSUME TypeOK, [Next]_vars, ~mixed', \A a \in Actors : stage[a] = "asleep"
  PROVE  \A a \in Actors : stage'[a] = "asleep"
<1>1. ASSUME NEW a \in Actors, Others(a), stage'[a] = "asleep"
      PROVE  \A b \in Actors : stage'[b] = "asleep"
  BY <1>1 DEF Others
<1>2. ASSUME NEW a \in Actors, NEW j, NEW k, Awake(a, j, k), stage'[a] = "asleep"
      PROVE  \A b \in Actors : stage'[b] = "asleep"
  <2>1. Perform(a, j, k, systeminit_reg) BY <1>2, AwakeAsleep
  <2>2. Others(a) BY <2>1, FinishOthers DEF Perform
  <2> QED BY <1>1, <1>2, <2>2
<1>3. Module \in Actors BY DEF Actors
<1>4. CASE UNCHANGED stage BY <1>4
<1>5. CASE Load BY <1>2, <1>3, <1>5 DEF Load, Begin, Mixes
<1>6. CASE Unload
  <2>1. CASE child_unit # "NONE" BY <1>2, <1>3, <1>6, <2>1 DEF Unload, Begin, Mixes
  <2>2. CASE child_unit = "NONE" BY <1>4, <1>6, <2>2 DEF Unload, change
  <2> QED BY <2>1, <2>2
<1>7. ASSUME NEW p \in Stores, StoreAny(p)
      PROVE  \A a \in Actors : stage'[a] = "asleep"
  <2>1. p \in Actors BY DEF Actors
  <2>2. stage'[p] = "asleep"
    BY <1>7 DEF StoreAny, Disable, Enable, StoreNumber, StoreReset, StorePin, Mixes,
                Disturbs
  <2>3. ASSUME NEW what, NEW next, Begin(p, what, child_unit, next)
        PROVE  \A a \in Actors : stage'[a] = "asleep"
    BY <1>2, <2>1, <2>2, <2>3 DEF Begin
  <2>4. CASE Disable(p) \/ Enable(p) \/ StoreReset(p) \/ StorePin(p)
    BY <2>3, <2>4 DEF Disable, Enable, StoreReset, StorePin
  <2>5. CASE StoreNumber(p)
    <3>1. PICK unit \in Units :
            IF child_unit_enable THEN Begin(p, "exit", child_unit, unit)
            ELSE UNCHANGED <<bits, job, step, change>>
      BY <2>5 DEF StoreNumber
    <3>2. CASE child_unit_enable BY <2>3, <3>1, <3>2
    <3>3. CASE ~child_unit_enable BY <1>4, <3>1, <3>3 DEF change
    <3> QED BY <3>2, <3>3
  <2> QED BY <1>7, <2>4, <2>5 DEF StoreAny
<1>8. ASSUME NEW a \in Actors, Advance(a)
      PROVE  \A b \in Actors : stage'[b] = "asleep"
  <2>1. stage'[a] = "asleep" /\ Awake(a, job[a], step[a])
    BY <1>8 DEF Advance, Continue
  <2> QED BY <1>2, <2>1
<1>9. CASE SetParameter \/ (\E a \in Actors : GiveUp(a)) \/ BusReset
  BY <1>4, <1>9 DEF SetParameter, GiveUp, BusReset, change
<1>10. CASE Restart \/ RestartFails BY <1>4, <1>10 DEF Restart, RestartFails
<1>11. CASE UNCHANGED vars BY <1>4, <1>11 DEF vars, change
<1> QED BY <1>5, <1>6, <1>7, <1>8, <1>9, <1>10, <1>11 DEF Next

\* Every step keeps the invariant.
LEMMA InvStep == TypeOK /\ UnitInv /\ [Next]_vars => UnitInv'
<1> SUFFICES ASSUME TypeOK, UnitInv, [Next]_vars PROVE UnitInv' OBVIOUS
<1>1. mixed => mixed'
  BY DEF Next, Load, Unload, SetParameter, StoreAny, Disable, Enable, StoreNumber,
         StoreReset, StorePin, GiveUp, Advance, BusReset, Restart, RestartFails,
         Mixes, Disturbs, vars
<1>2. bus' = "down" => resets' > 0
  <2>1. CASE BusReset
    <3>1. resets' = resets + 1 /\ resets \in 0..MaxResets /\ MaxResets \in Nat
      BY <2>1, UnitAssumption DEF BusReset, TypeOK
    <3> QED BY <3>1
  <2>2. CASE Restart BY <2>2 DEF Restart
  <2>3. CASE ~BusReset /\ ~Restart
    <3>1. bus' = bus /\ resets' = resets
      BY <2>3 DEF Next, Load, Unload, SetParameter, StoreAny, Disable, Enable,
                  StoreNumber, StoreReset, StorePin, AfterStore, GiveUp, Advance,
                  RestartFails, vars
    <3> QED BY <3>1 DEF UnitInv
  <2> QED BY <2>1, <2>2, <2>3
<1>3. ASSUME mixed PROVE UnitInv' BY <1>1, <1>2, <1>3 DEF UnitInv
<1>4. SUFFICES ASSUME ~mixed, ~mixed' PROVE UnmixedInv' /\ ~faulted'
  <2>1. ~mixed /\ ~mixed' => \A a \in Actors : stage'[a] = "asleep"
    BY StageStep DEF UnitInv
  <2> QED BY <1>1, <1>2, <1>3, <2>1 DEF UnitInv
<1>5. /\ UnmixedInv /\ ~faulted /\ (bus = "down" => resets > 0)
      /\ \A a \in Actors : stage[a] = "asleep"
  BY <1>4 DEF UnitInv
<1>6. /\ Module \in Actors /\ Timer \in Actors /\ Module # Timer
      /\ None \in Units \cup {None} /\ child_unit \in Units
      /\ job \in [Actors -> Jobs \cup {None}]
  BY UnitAssumption DEF Actors, TypeOK
<1>7. CASE Load
  <2>1. /\ module = "loading" /\ ~Busy(Module) /\ ~child_unit_enable
        /\ Begin(Module, "init", child_unit, None)
        /\ module' = IF Busy(Module)' THEN "loading" ELSE "loaded"
        /\ UNCHANGED <<bus, resets, faulted>> /\ stage'[Module] = "asleep"
    BY <1>4, <1>5, <1>7 DEF Load, Free, Mixes, UnmixedInv
  <2>2. Idle BY <1>5, <2>1 DEF UnmixedInv, Idle
  <2> QED BY <1>4, <1>5, <1>6, <2>1, <2>2, BeginUnmixed
<1>8. CASE Unload
  <2>1. /\ Mixes(Module) /\ ~Busy(Module) /\ module = "loaded"
        /\ UNCHANGED <<bus, resets, faulted>>
    BY <1>8 DEF Unload, Free
  <2>2. Idle /\ stage'[Module] = "asleep" BY <1>4, <2>1 DEF Mixes, Alone, Idle
  <2>3. CASE child_unit # "NONE"
    <3>1. Begin(Module, "exit", child_unit, None) /\ module' = "leaving"
      BY <1>8, <2>3 DEF Unload
    <3> QED BY <1>4, <1>5, <1>6, <2>1, <2>2, <2>3, <3>1, BeginUnmixed
  <2>4. CASE child_unit = "NONE"
    <3>1. /\ module' = "removed"
          /\ UNCHANGED <<child_unit, child_unit_enable, bits, job, step, change>>
      BY <1>8, <2>4 DEF Unload
    <3>2. Idle' /\ \A a \in Actors : ~Busy(a)' BY <2>2, <3>1 DEF Idle, Busy
    <3>3. Rest' BY <1>5, <2>1, <2>2, <3>1 DEF UnmixedInv, Rest, Ready, Powered, bits
    <3>4. /\ child_unit_enable' => child_unit' \in Known
          /\ "POWER" \notin hw_init' => modem' = "off"
      BY <1>5, <3>1 DEF UnmixedInv, bits
    <3> QED BY <1>5, <2>1, <3>1, <3>2, <3>3, <3>4 DEF UnmixedInv
  <2> QED BY <2>3, <2>4
<1>9. CASE SetParameter
  <2>1. /\ Disturbs(Module)
        /\ UNCHANGED <<module, child_unit_enable, bits, bus, resets, job, faulted>>
    BY <1>9 DEF SetParameter
  <2>2. Idle /\ ~Powered /\ ~child_unit_enable BY <1>4, <2>1 DEF Disturbs
  <2> QED BY <1>4, <1>5, <2>1, <2>2, RestUnmixed
<1>10. ASSUME NEW p \in Stores, StoreAny(p) PROVE UnmixedInv' /\ ~faulted'
  <2>1. faulted' = faulted
    BY <1>10 DEF StoreAny, Disable, Enable, StoreNumber, StoreReset, StorePin, AfterStore
  <2> QED BY <1>4, <1>5, <1>10, <2>1, StoreUnmixed
<1>11. ASSUME NEW a \in Actors, GiveUp(a) PROVE UnmixedInv' /\ ~faulted'
  <2>1. faulted' = faulted BY <1>11 DEF GiveUp
  <2> QED BY <1>4, <1>5, <1>11, <2>1, GiveUpUnmixed
<1>12. ASSUME NEW a \in Actors, Advance(a) PROVE UnmixedInv' /\ ~faulted'
  BY <1>4, <1>5, <1>12, AdvanceUnmixed
<1>13. CASE BusReset
  <2>1. /\ Idle /\ bus' = "down" /\ hw_init' = {} /\ modem' = "off"
        /\ UNCHANGED <<child_unit, child_unit_enable, systeminit_reg, powered_by>>
        /\ UNCHANGED <<module, job, faulted>>
    BY <1>4, <1>13 DEF BusReset, NoPower
  <2>2. Idle' /\ \A a \in Actors : ~Busy(a)' BY <2>1 DEF Idle, Busy
  <2>3. resets' # 0 BY <1>2, <2>1
  <2>4. Rest' BY <1>5, <2>1, <2>3 DEF UnmixedInv, Rest, Powered
  <2> QED BY <1>5, <2>1, <2>2, <2>4 DEF UnmixedInv
<1>14. CASE Restart
  <2> DEFINE j == [does |-> "init", unit |-> child_unit, next |-> None]
  <2>1. /\ Alone(Timer) /\ ~Busy(Timer) /\ bus = "down" /\ bus' = "up"
        /\ systeminit_reg' = {} /\ hw_init' = {} /\ modem' = "off"
        /\ job' = [job EXCEPT ![Timer] = j] /\ module = "loaded"
        /\ UNCHANGED <<child_unit, child_unit_enable, powered_by, resets, step>>
        /\ UNCHANGED <<module, faulted>>
    BY <1>4, <1>14 DEF Restart, NoPower, Free
  <2>2. \A b \in Actors : ~Busy(b) BY <2>1 DEF Alone
  <2>3. job'[Timer] = j /\ \A b \in Actors \ {Timer} : ~Busy(b)'
    BY <1>6, <2>1, <2>2 DEF Busy
  <2>4. step'[Timer] = 1
    <3>1. StepFits(Timer) /\ step[Timer] \in 1..4
      BY <1>6, TypeParts DEF ControlTypes
    <3>2. job[Timer] = None BY <1>6, <2>2 DEF Busy
    <3>3. step[Timer] = 1 BY <3>1, <3>2 DEF StepFits
    <3> QED BY <2>1, <3>3
  <2>5. j \in Jobs BY <1>6 DEF Jobs
  <2>6. Busy(Timer)' BY <2>3, <2>5, NoneAssumption DEF Busy
  <2>7. resets' > 0 BY <1>5, <2>1
  <2>8. InitProgress(Timer)'
    BY <2>1, <2>4, <2>7 DEF InitProgress
  <2>9. Progress(Timer)' BY <1>6, <2>1, <2>3, <2>8 DEF Progress
  <2>10. ~Idle' BY <1>6, <2>6 DEF Idle
  <2>11. /\ child_unit_enable' => child_unit' \in Known
         /\ module' # "removed" /\ module' # "loading"
    BY <1>5, <2>1 DEF UnmixedInv
  <2> QED BY <1>5, <2>1, <2>3, <2>9, <2>10, <2>11 DEF UnmixedInv
<1>15. CASE RestartFails
  <2>1. /\ Alone(Timer) /\ ~Busy(Timer) /\ bus = "down" /\ bus' = bus
        /\ systeminit_reg' = {} /\ module = "loaded"
        /\ UNCHANGED <<hw_init, modem>> \/ (hw_init' = {} /\ modem' = "off")
        /\ UNCHANGED <<child_unit, child_unit_enable, powered_by, resets, job>>
        /\ UNCHANGED <<module, faulted>>
    BY <1>4, <1>15 DEF RestartFails, Free
  <2>2. Idle BY <2>1 DEF Alone, Idle
  <2>3. Idle' /\ \A a \in Actors : ~Busy(a)' BY <2>1, <2>2 DEF Idle, Busy
  <2>4. resets' # 0 BY <1>5, <2>1
  <2>5. Powered' => Powered BY <2>1 DEF Powered
  <2>6. Rest' BY <1>5, <2>1, <2>2, <2>4, <2>5 DEF UnmixedInv, Rest
  <2>7. "POWER" \notin hw_init' => modem' = "off" BY <1>5, <2>1 DEF UnmixedInv
  <2> QED BY <1>5, <2>1, <2>3, <2>6, <2>7 DEF UnmixedInv
<1>16. CASE UNCHANGED vars
  <2>1. /\ UNCHANGED <<module, child_unit, child_unit_enable, systeminit_reg,
                        hw_init, modem, powered_by>>
        /\ UNCHANGED <<bus, resets, job, step, faulted>>
    BY <1>16 DEF vars, bits
  <2>2. \A a \in Actors : Busy(a)' = Busy(a) BY <2>1 DEF Busy
  <2>3. Idle' = Idle BY <2>2 DEF Idle
  <2>4. Rest' = Rest BY <2>1 DEF Rest, Ready, Powered
  <2>5. \A a \in Actors : Progress(a)' = Progress(a)
    <3> SUFFICES ASSUME NEW a \in Actors PROVE Progress(a)' = Progress(a) OBVIOUS
    <3>1. InitProgress(a)' = InitProgress(a) BY <2>1 DEF InitProgress
    <3>2. ResetProgress(a)' = ResetProgress(a) BY <2>1 DEF ResetProgress, Powered
    <3> QED BY <2>1, <3>1, <3>2 DEF Progress
  <2>6. UnmixedInv' BY <1>5, <2>1, <2>2, <2>3, <2>4, <2>5 DEF UnmixedInv
  <2> QED BY <1>5, <2>1, <2>6
<1> QED
  BY <1>7, <1>8, <1>9, <1>10, <1>11, <1>12, <1>13, <1>14, <1>15, <1>16 DEF Next

\* The invariant holds in the initial states.
LEMMA InvInit == Init => UnitInv
<1> SUFFICES ASSUME Init PROVE UnitInv OBVIOUS
<1>1. \A a \in Actors : ~Busy(a) BY DEF Init, Busy
<1>2. Rest BY DEF Init, Rest, Powered
<1>3. UnmixedInv BY <1>1, <1>2 DEF Init, UnmixedInv, Idle
<1> QED BY <1>3 DEF Init, UnitInv

\* The inductive invariant holds for any number of sysfs processes, any units
\* and any number of resets.
THEOREM InvCorrect == Spec => [](TypeOK /\ UnitInv)
  BY TypeInit, TypeStep, InvInit, InvStep, PTL DEF Spec

\* A unit that child_unit_enable reports as on has its power, is out of its
\* reset and is the unit whose program ran, and its modem was started unless
\* the FPGA was reset (_contec_mcs341_controller_cpsChildUnitInit).
THEOREM EnabledCorrect == Spec => []EnabledReady
<1>1. UnitInv => EnabledReady
  BY DEF UnitInv, UnmixedInv, Rest, EnabledReady
<1> QED BY <1>1, InvCorrect, PTL

\* A unit that child_unit_enable reports as off has no power, but for one whose
\* number was unknown (_contec_mcs341_controller_cpsChildUnitExit).
THEOREM DisabledCorrect == Spec => []DisabledOff
<1>1. UnitInv => DisabledOff
  BY DEF UnitInv, UnmixedInv, Rest, Powered, DisabledOff
<1> QED BY <1>1, InvCorrect, PTL

\* Without an overlap nothing writes to the registers after the exit of the
\* module unmapped them (contec_mcs341_controller_exit).
THEOREM NoWildWriteCorrect == Spec => []NoWildWrite
<1>1. UnitInv => NoWildWrite BY DEF UnitInv, NoWildWrite
<1> QED BY <1>1, InvCorrect, PTL
=============================================================================
