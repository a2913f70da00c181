------------------------- MODULE ControllerRegisters -------------------------
(***************************************************************************)
(* The LED register and the digital I/O register of the controller         *)
(* (cps-driver.c).  Each holds several settings that have sysfs files of   *)
(* their own: a store reads the register, changes its part and writes the  *)
(* whole back, without a lock around the two accesses.  The timer blinks   *)
(* LEDs in between; it is a softirq and runs as one step.                  *)
(***************************************************************************)
EXTENDS Naturals

CONSTANTS
  CtlProcs,   \* processes that write the sysfs files
  Leds,       \* LEDs that have a file
  ErrorLed,   \* the one that the timer sets to blink
  DioBits,    \* direction bits, 0 to some bound (0 to 3 in the code)
  Filter,     \* the filter beside them, as one value of 0 and 1
  LedTicks    \* ticks between two changes of a blinking LED (50)

ASSUME CtlAssumption ==
  ErrorLed \in Leds /\ LedTicks \in Nat /\ DioBits \subseteq Nat /\ 0 \in DioBits
  /\ Leds \cap (DioBits \cup {Filter}) = {} /\ Filter \notin DioBits

VARIABLES
  ctlRegisterOf, \* the register that a behaviour is about: they share nothing
  ledEnable,  \* 0 off, 1 on, 2 blinks
  ledState,   \* what the timer wrote last for each LED
  ledCount,   \* led_timer_count
  ctlRegister,\* the bits of the two registers
  dioAsked,   \* history: what was last written for each part of the DIO register
  ctlPc,      \* where each store is
  ctlRaced    \* history: parts written by a store that overlapped another

ctlVars == <<ctlRegisterOf, ledEnable, ledState, ledCount, ctlRegister, dioAsked, ctlPc, ctlRaced>>

DioParts == DioBits \cup {Filter}
CtlParts == Leds \cup DioParts
\* Parts in the register of a part.
Beside(part) == IF part \in Leds THEN Leds ELSE DioParts

CtlIdle == [at |-> "idle"]
\* A store: it checks the LED, reads the register, or writes a word to it.
CtlBusy ==
  [at : {"check"}, part : Leds] \cup [at : {"read"}, part : CtlParts, arg : {0, 1}]
  \cup UNION {[at : {"write"}, part : {x}, word : [Beside(x) -> {0, 1}]] : x \in CtlParts}

CtlTypeOK ==
  /\ ctlRegisterOf \in {"led", "dio"}
  /\ ledEnable \in [Leds -> 0..2] /\ ledState \in [Leds -> {0, 1}]
  /\ ledCount \in [Leds -> 0..LedTicks]
  /\ ctlRegister \in [CtlParts -> {0, 1}] /\ dioAsked \in [DioParts -> {0, 1}]
  /\ \A p \in CtlProcs : ctlPc[p] = CtlIdle \/ ctlPc[p] \in CtlBusy
  /\ ctlRaced \subseteq CtlParts

CtlInit ==
  /\ ctlRegisterOf \in {"led", "dio"}
  /\ ledEnable = [l \in Leds |-> 0] /\ ledState = [l \in Leds |-> 0]
  /\ ledCount = [l \in Leds |-> 0]
  /\ ctlRegister = [x \in CtlParts |-> 0] /\ dioAsked = [x \in DioParts |-> 0]
  /\ ctlPc = [p \in CtlProcs |-> CtlIdle] /\ ctlRaced = {}

\* Parts that other stores work on.
Working(p) ==
  {ctlPc[q].part : q \in {r \in CtlProcs \ {p} : ctlPc[r].at \in {"read", "write"}}}

\* A store of a part meets the stores of others on the same register.
Meets(p, part) ==
  LET others == Working(p) \cap Beside(part) IN
  ctlRaced' = IF others = {} THEN ctlRaced \ {part}
              ELSE ctlRaced \cup others \cup {part}

-----------------------------------------------------------------------------
\* led_status1, led_status2, led_error: the request is noted first.
LedStore(p, l) ==
  /\ ctlRegisterOf = "led" /\ ctlPc[p] = CtlIdle
  /\ \E v \in 0..2 : ledEnable' = [ledEnable EXCEPT ![l] = v]
  /\ ctlPc' = [ctlPc EXCEPT ![p] = [at |-> "check", part |-> l]]
  /\ UNCHANGED <<ctlRegisterOf, ledState, ledCount, ctlRegister, dioAsked, ctlRaced>>

\* setLed, setDioDirection and setDioFilter begin.
SetPart(p, part, v) ==
  /\ ctlPc' = [ctlPc EXCEPT ![p] = [at |-> "read", part |-> part, arg |-> v]]
  /\ Meets(p, part)

\* The variable is read again, and set now unless it is to blink.
LedSet(p) ==
  LET l == ctlPc[p].part IN
  /\ ctlPc[p].at = "check"
  /\ IF ledEnable[l] < 2 THEN SetPart(p, l, ledEnable[l])
     ELSE ctlPc' = [ctlPc EXCEPT ![p] = CtlIdle] /\ UNCHANGED ctlRaced
  /\ UNCHANGED <<ctlRegisterOf, ledEnable, ledState, ledCount, ctlRegister, dioAsked>>

DioSet(p, part) ==
  \E v \in {0, 1} :
    SetPart(p, part, v) /\ dioAsked' = [dioAsked EXCEPT ![part] = v]

\* dio0_direction: one bit after the other, from the first.
DirectionStore(p) ==
  /\ ctlRegisterOf = "dio" /\ ctlPc[p] = CtlIdle /\ DioSet(p, 0)
  /\ UNCHANGED <<ctlRegisterOf, ledEnable, ledState, ledCount, ctlRegister>>

FilterStore(p) ==
  /\ ctlRegisterOf = "dio" /\ ctlPc[p] = CtlIdle /\ DioSet(p, Filter)
  /\ UNCHANGED <<ctlRegisterOf, ledEnable, ledState, ledCount, ctlRegister>>

\* Wrong: the parts beside the one that is set are cleared.
WordCleared(part, arg) ==
  [x \in Beside(part) |-> IF x = part THEN arg ELSE 0]

\* The register with one part changed.
Word(part, arg) ==
  [x \in Beside(part) |-> IF x = part THEN arg ELSE ctlRegister[x]]

ReadRegister(p) ==
  LET part == ctlPc[p].part IN
  /\ ctlPc[p].at = "read"
  /\ ctlPc' = [ctlPc EXCEPT ![p] = [at |-> "write", part |-> part,
                                    word |-> Word(part, ctlPc[p].arg)]]
  /\ UNCHANGED <<ctlRegisterOf, ledEnable, ledState, ledCount, ctlRegister, dioAsked, ctlRaced>>

WriteRegister(p) ==
  LET part == ctlPc[p].part IN
  /\ ctlPc[p].at = "write"
  /\ ctlRegister' = [x \in CtlParts |-> IF x \in Beside(part) THEN ctlPc[p].word[x]
                                        ELSE ctlRegister[x]]
  /\ IF part \in DioBits /\ part + 1 \in DioBits THEN DioSet(p, part + 1)
     ELSE ctlPc' = [ctlPc EXCEPT ![p] = CtlIdle] /\ UNCHANGED <<dioAsked, ctlRaced>>
  /\ UNCHANGED <<ctlRegisterOf, ledEnable, ledState, ledCount>>

-----------------------------------------------------------------------------
BlinkDue == {l \in Leds : ledEnable[l] = 2 /\ ledCount[l] >= LedTicks}

\* A tick of the timer: each LED that blinks changes when its time has come.
BlinkTick ==
  /\ ctlRegisterOf = "led" /\ \E l \in Leds : ledEnable[l] = 2
  /\ ledState' = [l \in Leds |-> IF l \in BlinkDue THEN 1 - ledState[l] ELSE ledState[l]]
  /\ ctlRegister' = [x \in CtlParts |-> IF x \in BlinkDue THEN ledState'[x]
                                        ELSE ctlRegister[x]]
  /\ ledCount' = [l \in Leds |-> IF l \in BlinkDue THEN 0
                                 ELSE IF ledEnable[l] = 2 THEN ledCount[l] + 1
                                 ELSE ledCount[l]]
  /\ UNCHANGED <<ctlRegisterOf, ledEnable, dioAsked, ctlPc, ctlRaced>>

\* The timer has given up the stack bus.
ErrorBlinks ==
  /\ ctlRegisterOf = "led" /\ ledEnable[ErrorLed] # 2
  /\ ledEnable' = [ledEnable EXCEPT ![ErrorLed] = 2]
  /\ UNCHANGED <<ctlRegisterOf, ledState, ledCount, ctlRegister, dioAsked, ctlPc, ctlRaced>>

CtlNext ==
  \/ BlinkTick \/ ErrorBlinks
  \/ \E p \in CtlProcs :
       \/ \E l \in Leds : LedStore(p, l)
       \/ LedSet(p) \/ DirectionStore(p) \/ FilterStore(p)
       \/ ReadRegister(p) \/ WriteRegister(p)

CtlSpec == CtlInit /\ [][CtlNext]_ctlVars

-----------------------------------------------------------------------------
\* A part of the register is as asked once nobody works on it, unless a store of it met
\* another store of the same register between their reads and writes
\* (cps-driver.c:619, 690, 713).  Neither the timer nor two stores of one LED that
\* only overlap elsewhere change what was asked for.
PartsAsAsked ==
  \A x \in CtlParts \ ctlRaced :
    (\A p \in CtlProcs : ctlPc[p] # CtlIdle => ctlPc[p].part # x)
      => IF x \in Leds THEN ledEnable[x] \in {2, ctlRegister[x]}
         ELSE ctlRegister[x] = dioAsked[x]
=============================================================================
