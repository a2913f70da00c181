-------------------------- MODULE RegisterProofs ----------------------------
(***************************************************************************)
(* Proofs about the drivers that share registers between callers: the      *)
(* counter (Counter, cpscnt.c), the registers of the controller            *)
(* (ControllerRegisters, cps-driver.c), the EEPROM of the devices          *)
(* (DeviceRom, cps-driver.c) and the I/O library (IoLib, cps-iolib.c),     *)
(* each for any processes.                                                 *)
(***************************************************************************)
EXTENDS Counter, ControllerRegisters, DeviceRom, IoLib, TLAPS, SequenceTheorems,
        FiniteSetTheorems

-----------------------------------------------------------------------------
(***************************************************************************)
(* Counter.  CountsAsAsked speaks of the device; what START and STOP write *)
(* there comes from the list entry, so the inductive invariant says the    *)
(* same of the list (CompareInv and ResetInv), whoever opens, closes, sets *)
(* and selects in between.                                                 *)
(***************************************************************************)

\* The comparison of a channel: the last value that was set is in the list, from
\* where START writes it, and in the device.
CompareInv(c) == cntSet[c] \subseteq {cntData[c].compare} \cap {cntDevice[c].compare}

\* The reset bit of a channel: always on with the parameter, and the one that
\* the last command wrote.
ResetInv(c) ==
  ~cntChanged =>
    /\ cntAlways => cntData[c].reset
    /\ cntAsked[c] = "start" => cntDevice[c].reset
    /\ (cntAsked[c] = "stop" /\ ~cntAlways) => ~cntDevice[c].reset
    /\ (cntAsked[c] = "stop" /\ cntAlways) => cntDevice[c].reset

CntInv ==
  /\ CntTypeOK
  /\ cntLoaded => \A c \in CntChannels : CompareInv(c) /\ ResetInv(c)
  /\ cntFiles # {} => cntLoaded

-----------------------------------------------------------------------------
LEMMA CntFreshList ==
  ASSUME NEW on \in BOOLEAN
  PROVE  /\ Fresh(on) \in [CntChannels -> CntSettings]
         /\ \A c \in CntChannels : Fresh(on)[c].reset = on
BY DEF Fresh, CntSettings

LEMMA CntInitHolds == CntInit => CntInv
<1> SUFFICES ASSUME CntInit PROVE CntInv
  OBVIOUS
<1>1. Fresh(FALSE) \in [CntChannels -> CntSettings]
  BY CntFreshList
<1>2. CntTypeOK
  BY <1>1 DEF CntInit, CntTypeOK
<1> QED BY <1>2 DEF CntInit, CntInv

\* Whether the module is loaded, and its parameter, are as before; nothing of
\* the settings changes.
LEMMA SettingsKept ==
  ASSUME CntInv, UNCHANGED <<cntLoaded, cntAlways, cntChanged, cntData, cntDevice,
                             cntAsked, cntSet>>
  PROVE  cntLoaded' => \A c \in CntChannels : CompareInv(c)' /\ ResetInv(c)'
BY DEF CntInv, CompareInv, ResetInv

\* What a START or STOP of some channels leaves in the list.
ListAfter(enabled, on) ==
  [c \in CntChannels |->
     IF c \in enabled /\ ~cntAlways THEN [cntData[c] EXCEPT !.reset = on] ELSE cntData[c]]

LEMMA CntListTyped ==
  ASSUME CntTypeOK, NEW enabled \in SUBSET CntChannels, NEW on \in BOOLEAN
  PROVE  /\ ListAfter(enabled, on) \in [CntChannels -> CntSettings]
         /\ \A c \in CntChannels : ListAfter(enabled, on)[c].compare = cntData[c].compare
         /\ \A c \in CntChannels :
              ListAfter(enabled, on)[c].reset
                = IF c \in enabled /\ ~cntAlways THEN on ELSE cntData[c].reset
<1>1. \A c \in CntChannels : /\ cntData[c] \in CntSettings
                             /\ ListAfter(enabled, on)[c] =
                                  IF c \in enabled /\ ~cntAlways
                                  THEN [cntData[c] EXCEPT !.reset = on] ELSE cntData[c]
  BY DEF ListAfter, CntTypeOK
<1>2. ASSUME NEW c \in CntChannels
      PROVE  /\ ListAfter(enabled, on)[c] \in CntSettings
             /\ ListAfter(enabled, on)[c].compare = cntData[c].compare
             /\ ListAfter(enabled, on)[c].reset
                  = IF c \in enabled /\ ~cntAlways THEN on ELSE cntData[c].reset
  BY <1>1 DEF CntSettings
<1> QED BY <1>2 DEF ListAfter

-----------------------------------------------------------------------------
LEMMA SetCompareHolds ==
  ASSUME CntInv, NEW k \in CntChannels, SetCompare(k)
  PROVE  CntInv'
<1>1. PICK v \in 0..1 : /\ cntData' = [cntData EXCEPT ![k].compare = v]
                        /\ cntDevice' = [cntDevice EXCEPT ![k].compare = v]
                        /\ cntSet' = [cntSet EXCEPT ![k] = {v}]
  BY DEF SetCompare
<1>2. /\ cntLoaded' = cntLoaded /\ cntAlways' = cntAlways /\ cntChanged' = cntChanged
      /\ cntFiles' = cntFiles /\ cntPending' = cntPending /\ cntPulse' = cntPulse
      /\ cntInput' = cntInput /\ cntAsked' = cntAsked
  BY DEF SetCompare, cntModule, cntShared
<1>3. CntTypeOK'
  <2>1. /\ cntData' \in [CntChannels -> CntSettings]
        /\ cntDevice' \in [CntChannels -> CntSettings]
    BY <1>1 DEF CntInv, CntTypeOK, CntSettings
  <2>2. cntSet' \in [CntChannels -> {{}, {0}, {1}}]
    BY <1>1 DEF CntInv, CntTypeOK
  <2> QED BY <1>2, <2>1, <2>2 DEF CntInv, CntTypeOK
<1>4. ASSUME NEW c \in CntChannels, cntLoaded' PROVE CompareInv(c)'
  <2>1. CompareInv(c)
    BY <1>2, <1>4 DEF CntInv
  <2>2. CASE c = k
    <3>1. cntData'[c].compare = v /\ cntDevice'[c].compare = v /\ cntSet'[c] = {v}
      BY <1>1, <2>2 DEF CntInv, CntTypeOK, CntSettings
    <3> QED BY <3>1 DEF CompareInv
  <2>3. CASE c # k
    <3>1. cntData'[c] = cntData[c] /\ cntDevice'[c] = cntDevice[c] /\ cntSet'[c] = cntSet[c]
      BY <1>1, <2>3 DEF CntInv, CntTypeOK
    <3> QED BY <2>1, <3>1 DEF CompareInv
  <2> QED BY <2>2, <2>3
<1>5. ASSUME NEW c \in CntChannels, cntLoaded' PROVE ResetInv(c)'
  <2>1. ResetInv(c)
    BY <1>2, <1>5 DEF CntInv
  <2>2. cntData'[c].reset = cntData[c].reset /\ cntDevice'[c].reset = cntDevice[c].reset
    BY <1>1 DEF CntInv, CntTypeOK, CntSettings
  <2> QED BY <1>2, <2>1, <2>2 DEF ResetInv
<1> QED BY <1>2, <1>3, <1>4, <1>5 DEF CntInv

LEMMA StartHolds ==
  ASSUME CntInv, NEW enabled \in SUBSET CntChannels, StartCount(enabled)
  PROVE  CntInv'
<1> DEFINE data == ListAfter(enabled, TRUE)
<1>1. /\ cntData' = data
      /\ cntDevice' = [c \in CntChannels |-> IF c \in enabled THEN data[c] ELSE cntDevice[c]]
      /\ cntPending' = cntPending \ (enabled \X Waiting)
      /\ cntPulse' = FALSE /\ cntInput' = {}
      /\ cntAsked' = [c \in CntChannels |-> IF c \in enabled THEN "start" ELSE cntAsked[c]]
      /\ cntLoaded' = cntLoaded /\ cntAlways' = cntAlways /\ cntChanged' = cntChanged
      /\ cntFiles' = cntFiles /\ cntSet' = cntSet
  BY DEF StartCount, cntModule, ListAfter
<1>2. CntTypeOK
  BY DEF CntInv
<1>3. /\ data \in [CntChannels -> CntSettings]
      /\ \A c \in CntChannels : data[c].compare = cntData[c].compare
      /\ \A c \in CntChannels :
           data[c].reset = IF c \in enabled /\ ~cntAlways THEN TRUE ELSE cntData[c].reset
  BY <1>2, CntListTyped
<1> HIDE DEF data
<1>4. CntTypeOK'
  <2>1. cntDevice' \in [CntChannels -> CntSettings]
    BY <1>1, <1>2, <1>3 DEF CntTypeOK
  <2>2. cntAsked' \in [CntChannels -> {"none", "start", "stop"}]
    BY <1>1, <1>2 DEF CntTypeOK
  <2> QED BY <1>1, <1>2, <1>3, <2>1, <2>2 DEF CntTypeOK
<1>5. ASSUME NEW c \in CntChannels, cntLoaded' PROVE CompareInv(c)'
  <2>1. CompareInv(c)
    BY <1>1, <1>5 DEF CntInv
  <2> QED BY <1>1, <1>3, <2>1 DEF CompareInv
<1>6. ASSUME NEW c \in CntChannels, cntLoaded' PROVE ResetInv(c)'
  <2>1. ResetInv(c)
    BY <1>1, <1>6 DEF CntInv
  <2>2. CASE c \in enabled
    <3>1. /\ cntDevice'[c].reset = cntData'[c].reset /\ cntAsked'[c] = "start"
          /\ cntData'[c].reset = IF ~cntAlways THEN TRUE ELSE cntData[c].reset
      BY <1>1, <1>3, <2>2
    <3> QED BY <1>1, <2>1, <3>1 DEF ResetInv
  <2>3. CASE c \notin enabled
    <3>1. /\ cntDevice'[c] = cntDevice[c] /\ cntAsked'[c] = cntAsked[c]
          /\ cntData'[c].reset = cntData[c].reset
      BY <1>1, <1>3, <2>3
    <3> QED BY <1>1, <2>1, <3>1 DEF ResetInv
  <2> QED BY <2>2, <2>3
<1> QED BY <1>1, <1>4, <1>5, <1>6 DEF CntInv

LEMMA StopHolds ==
  ASSUME CntInv, NEW enabled \in SUBSET CntChannels, StopCount(enabled)
  PROVE  CntInv'
<1> DEFINE data == ListAfter(enabled, FALSE)
<1>1. /\ cntData' = data
      /\ cntDevice' = [c \in CntChannels |->
                         IF c \in enabled THEN [cntDevice[c] EXCEPT !.reset = data[c].reset]
                         ELSE cntDevice[c]]
      /\ cntAsked' = [c \in CntChannels |-> IF c \in enabled THEN "stop" ELSE cntAsked[c]]
      /\ cntPending' = cntPending \ (enabled \X {"mode"})
      /\ cntLoaded' = cntLoaded /\ cntAlways' = cntAlways /\ cntChanged' = cntChanged
      /\ cntFiles' = cntFiles /\ cntSet' = cntSet
      /\ cntPulse' = cntPulse /\ cntInput' = cntInput
  BY DEF StopCount, cntModule, cntShared, ListAfter
<1>2. CntTypeOK
  BY DEF CntInv
<1>3. /\ data \in [CntChannels -> CntSettings]
      /\ \A c \in CntChannels : data[c].compare = cntData[c].compare
      /\ \A c \in CntChannels :
           data[c].reset = IF c \in enabled /\ ~cntAlways THEN FALSE ELSE cntData[c].reset
  BY <1>2, CntListTyped
<1> HIDE DEF data
<1>4. CntTypeOK'
  <2>1. cntDevice' \in [CntChannels -> CntSettings]
    BY <1>1, <1>2, <1>3 DEF CntTypeOK, CntSettings
  <2>2. cntAsked' \in [CntChannels -> {"none", "start", "stop"}]
    BY <1>1, <1>2 DEF CntTypeOK
  <2> QED BY <1>1, <1>2, <1>3, <2>1, <2>2 DEF CntTypeOK
<1>5. ASSUME NEW c \in CntChannels, cntLoaded' PROVE CompareInv(c)'
  <2>1. CompareInv(c)
    BY <1>1, <1>5 DEF CntInv
  <2>2. cntDevice'[c].compare = cntDevice[c].compare
    BY <1>1, <1>2, <1>3 DEF CntTypeOK, CntSettings
  <2> QED BY <1>1, <1>3, <2>1, <2>2 DEF CompareInv
<1>6. ASSUME NEW c \in CntChannels, cntLoaded' PROVE ResetInv(c)'
  <2>1. ResetInv(c)
    BY <1>1, <1>6 DEF CntInv
  <2>2. CASE c \in enabled
    <3>1. cntDevice[c] \in CntSettings
      BY <1>2 DEF CntTypeOK
    <3>2. cntDevice'[c] = [cntDevice[c] EXCEPT !.reset = data[c].reset]
      BY <1>1, <2>2
    <3>3. cntDevice'[c].reset = cntData'[c].reset
      BY <1>1, <3>1, <3>2 DEF CntSettings
    <3>4. cntAsked'[c] = "stop"
      BY <1>1, <2>2
    <3>5. cntData'[c].reset = IF ~cntAlways THEN FALSE ELSE cntData[c].reset
      BY <1>1, <1>3, <2>2
    <3> QED BY <1>1, <2>1, <3>3, <3>4, <3>5 DEF ResetInv
  <2>3. CASE c \notin enabled
    <3>1. /\ cntDevice'[c] = cntDevice[c] /\ cntAsked'[c] = cntAsked[c]
          /\ cntData'[c].reset = cntData[c].reset
      BY <1>1, <1>3, <2>3
    <3> QED BY <1>1, <2>1, <3>1 DEF ResetInv
  <2> QED BY <2>2, <2>3
<1> QED BY <1>1, <1>4, <1>5, <1>6 DEF CntInv

-----------------------------------------------------------------------------
LEMMA CntLoadHolds == CntInv /\ CntLoad => CntInv'
<1> SUFFICES ASSUME CntInv, CntLoad PROVE CntInv'
  OBVIOUS
<1>1. /\ cntLoaded' /\ cntAlways' \in BOOLEAN /\ cntChanged' = FALSE
      /\ cntData' = Fresh(cntAlways') /\ cntPending' = CntChannels \X Waiting
      /\ cntPulse' = TRUE /\ cntInput' = {}
      /\ cntAsked' = [c \in CntChannels |-> "none"]
      /\ cntSet' = [c \in CntChannels |-> {}]
      /\ cntFiles' = cntFiles /\ cntDevice' = cntDevice
      /\ cntLoaded' = TRUE
  BY DEF CntLoad
<1>2. /\ cntData' \in [CntChannels -> CntSettings]
      /\ \A c \in CntChannels : cntData'[c].reset = cntAlways'
  BY <1>1, CntFreshList
<1>3. CntTypeOK'
  BY <1>1, <1>2 DEF CntInv, CntTypeOK
<1>4. \A c \in CntChannels : CompareInv(c)'
  BY <1>1 DEF CompareInv
<1>5. \A c \in CntChannels : ResetInv(c)'
  BY <1>1, <1>2 DEF ResetInv
<1> QED BY <1>1, <1>3, <1>4, <1>5 DEF CntInv

LEMMA CntUnloadHolds == CntInv /\ CntUnload => CntInv'
<1> SUFFICES ASSUME CntInv, CntUnload PROVE CntInv'
  OBVIOUS
<1>1. Fresh(FALSE) \in [CntChannels -> CntSettings]
  BY CntFreshList
<1>2. CntTypeOK'
  BY <1>1 DEF CntUnload, CntInv, CntTypeOK
<1> QED BY <1>2 DEF CntUnload, CntInv

LEMMA CntStepHolds == CntInv /\ [CntNext]_cntVars => CntInv'
<1> SUFFICES ASSUME CntInv, [CntNext]_cntVars PROVE CntInv'
  OBVIOUS
<1>1. CASE CntLoad
  BY <1>1, CntLoadHolds
<1>2. CASE CntUnload
  BY <1>2, CntUnloadHolds
<1>3. CASE ChangeParameter
  <2>1. CntTypeOK'
    BY <1>3 DEF ChangeParameter, CntInv, CntTypeOK, cntShared, cntHistory
  <2>2. ASSUME NEW c \in CntChannels, cntLoaded' PROVE CompareInv(c)' /\ ResetInv(c)'
    BY <1>3, <2>2 DEF ChangeParameter, CntInv, CompareInv, ResetInv, cntHistory
  <2> QED BY <1>3, <2>1, <2>2 DEF ChangeParameter, CntInv
<1>4. ASSUME UNCHANGED <<cntLoaded, cntAlways, cntChanged, cntData, cntDevice,
                         cntAsked, cntSet>>,
             CntTypeOK', cntFiles' # {} => cntLoaded
      PROVE  CntInv'
  BY <1>4, SettingsKept DEF CntInv
<1>5. CASE SetPulseWidth
  <2>1. CntTypeOK'
    BY <1>5 DEF SetPulseWidth, CntInv, CntTypeOK, cntModule, cntHistory
  <2> QED BY <1>4, <1>5, <2>1 DEF SetPulseWidth, cntModule, cntHistory, CntInv
<1>6. CASE CountAccess \/ SharedRegister \/ GetAnswer \/ CntInterrupt \/ UNCHANGED cntVars
  <2>1. UNCHANGED <<cntModule, cntFiles, cntData, cntDevice, cntPending, cntShared, cntHistory>>
    BY <1>6 DEF CountAccess, SharedRegister, GetAnswer, CntInterrupt, cntVars
  <2>2. CntTypeOK'
    BY <2>1 DEF CntInv, CntTypeOK, cntModule, cntShared, cntHistory
  <2> QED BY <1>4, <2>1, <2>2 DEF cntModule, cntHistory, CntInv
<1>7. ASSUME NEW p \in CntProcs, CntOpen(p) \/ CntClose(p) PROVE CntInv'
  <2>1. /\ UNCHANGED <<cntModule, cntData, cntDevice, cntPending, cntShared, cntHistory>>
        /\ cntFiles' \subseteq CntProcs /\ (cntFiles' # {} => cntLoaded)
    BY <1>7 DEF CntOpen, CntClose, CntInv, CntTypeOK
  <2>2. CntTypeOK'
    BY <2>1 DEF CntInv, CntTypeOK, cntModule, cntShared, cntHistory
  <2> QED BY <1>4, <2>1, <2>2 DEF cntModule, cntHistory
<1>8. ASSUME NEW c \in CntChannels, NEW s \in Waiting, SetInList(c, s) PROVE CntInv'
  <2>1. CntTypeOK'
    BY <1>8 DEF SetInList, CntInv, CntTypeOK, cntModule, cntShared, cntHistory
  <2> QED BY <1>4, <1>8, <2>1 DEF SetInList, cntModule, cntHistory, CntInv
<1>9. ASSUME NEW c \in CntChannels,
             SetMode(c) \/ SetDirection(c) \/ SetZLogic(c) \/ SetZPhase(c) \/ SetFilter(c)
      PROVE  CntInv'
  BY <1>8, <1>9 DEF SetMode, SetDirection, SetZLogic, SetZPhase, SetFilter, Waiting
<1>10. ASSUME NEW c \in CntChannels, SelectInput(c) PROVE CntInv'
  <2>1. CntTypeOK'
    BY <1>10 DEF SelectInput, CntInv, CntTypeOK, cntModule, cntHistory
  <2> QED BY <1>4, <1>10, <2>1 DEF SelectInput, cntModule, cntHistory, CntInv
<1>11. ASSUME NEW c \in CntChannels, SetCompare(c) PROVE CntInv'
  BY <1>11, SetCompareHolds
<1>12. ASSUME NEW enabled \in SUBSET CntChannels, StartCount(enabled) \/ StopCount(enabled)
       PROVE  CntInv'
  BY <1>12, StartHolds, StopHolds
<1> QED
  BY <1>1, <1>2, <1>3, <1>5, <1>6, <1>7, <1>9, <1>10, <1>11, <1>12 DEF CntNext

LEMMA InvariantCounts == CntInv => CountsAsAsked
<1> SUFFICES ASSUME CntInv, cntLoaded, NEW c \in CntChannels
    PROVE  /\ cntSet[c] \subseteq {cntDevice[c].compare}
           /\ (cntAsked[c] # "none" /\ ~cntChanged) =>
                cntDevice[c].reset = (cntAsked[c] = "start" \/ cntAlways)
  BY DEF CountsAsAsked
<1>1. CompareInv(c) /\ ResetInv(c)
  BY DEF CntInv
<1>2. /\ cntAsked[c] \in {"none", "start", "stop"}
      /\ cntDevice[c].reset \in BOOLEAN /\ cntAlways \in BOOLEAN
  BY DEF CntInv, CntTypeOK, CntSettings
<1>3. cntSet[c] \subseteq {cntDevice[c].compare}
  BY <1>1 DEF CompareInv
<1>4. (cntAsked[c] # "none" /\ ~cntChanged) =>
        cntDevice[c].reset = (cntAsked[c] = "start" \/ cntAlways)
  BY <1>1, <1>2 DEF ResetInv
<1> QED BY <1>3, <1>4

-----------------------------------------------------------------------------
\* A channel of the device counts, is held and compares as it was last asked to
\* (cpscnt.c:1005, 1035, 1283).
THEOREM CountsAsAskedAlways == CntSpec => []CountsAsAsked
<1>1. CntSpec => []CntInv
  BY CntInitHolds, CntStepHolds, PTL DEF CntSpec
<1> QED BY <1>1, InvariantCounts, PTL


\* The settings of the counter keep their types, in the list and in the device (part of CntInv).
THEOREM CountersTyped == CntSpec => []CntTypeOK
<1>1. CntSpec => []CntInv
  BY CntInitHolds, CntStepHolds, PTL DEF CntSpec
<1>2. CntInv => CntTypeOK
  BY DEF CntInv
<1> QED BY <1>1, <1>2, PTL

-----------------------------------------------------------------------------
(***************************************************************************)
(* ControllerRegisters.  A store reads the register and writes it back     *)
(* with its part changed.  What it holds for the other parts is what was   *)
(* asked of them, or it met a store of theirs (MetInv, StoreInv).          *)
(***************************************************************************)

Bits == {0, 1}
CtlPlaces == {"idle", "check", "read", "write"}

CtlShape ==
  /\ ledEnable \in [Leds -> 0..2] /\ ledState \in [Leds -> {0, 1}]
  /\ ctlRegister \in [CtlParts -> {0, 1}]
  /\ dioAsked \in [DioParts -> {0, 1}] /\ ctlRaced \subseteq CtlParts
  /\ DOMAIN ctlPc = CtlProcs
  /\ \A p \in CtlProcs :
       /\ ctlPc[p] = CtlIdle \/ ctlPc[p].at \in {"check", "read", "write"}
       /\ ctlPc[p].at = "check" => ctlPc[p].part \in Leds
       /\ ctlPc[p].at \in {"read", "write"} => ctlPc[p].part \in CtlParts
       /\ ctlPc[p].at = "read" => ctlPc[p].arg \in {0, 1}
       /\ ctlPc[p].at = "write" => ctlPc[p].word \in [Beside(ctlPc[p].part) -> {0, 1}]

\* What a part is asked to be, when v is what it is.
AsAsked(x, v) == IF x \in Leds THEN ledEnable[x] \in {2, v} ELSE dioAsked[x] = v

\* Nobody but p works on a part.
Alone(p, x) == \A q \in CtlProcs \ {p} : ctlPc[q] # CtlIdle => ctlPc[q].part # x

\* Two stores that are between their reads and writes of one register have met.
MetInv ==
  \A p, q \in CtlProcs :
    /\ p # q /\ ctlPc[p].at \in {"read", "write"} /\ ctlPc[q].at \in {"read", "write"}
    /\ Beside(ctlPc[p].part) = Beside(ctlPc[q].part)
    => ctlPc[p].part \in ctlRaced

\* What a store will write to a part.
Writes(p, x, v) ==
  \/ ctlPc[p].at = "read" /\ x = ctlPc[p].part /\ v = ctlPc[p].arg
  \/ ctlPc[p].at = "write" /\ x \in Beside(ctlPc[p].part) /\ v = ctlPc[p].word[x]

\* A store writes what was asked for to a part that nobody else works on.
StoreInv ==
  \A p \in CtlProcs, x \in CtlParts \ ctlRaced, v \in {0, 1} :
    Alone(p, x) /\ Writes(p, x, v) => AsAsked(x, v)

CtlInv == CtlShape /\ MetInv /\ StoreInv /\ PartsAsAsked

\* Parts of one register are beside each other, those of two are not.
LEMMA BesideFacts ==
  /\ \A x \in CtlParts : x \in Beside(x) /\ Beside(x) \subseteq CtlParts
  /\ \A x, y \in CtlParts : y \in Beside(x) => Beside(y) = Beside(x)
  /\ \A x, y \in CtlParts : y \notin Beside(x) => Beside(x) \cap Beside(y) = {}
BY CtlAssumption DEF Beside, CtlParts, DioParts

\* At the start nobody works on a part, and nothing is asked.
LEMMA CtlInitHolds == CtlInit => CtlInv
<1> SUFFICES ASSUME CtlInit PROVE CtlInv
  OBVIOUS
<1>1. \A p \in CtlProcs : ctlPc[p] = CtlIdle /\ ctlPc[p].at = "idle"
  BY DEF CtlInit, CtlIdle
<1>2. CtlShape
  BY <1>1 DEF CtlInit, CtlShape
<1>3. MetInv /\ StoreInv
  BY <1>1 DEF MetInv, StoreInv, Writes
<1>4. PartsAsAsked
  BY DEF CtlInit, PartsAsAsked, CtlParts, DioParts
<1> QED BY <1>2, <1>3, <1>4 DEF CtlInv

\* Where a store can be.
LEMMA CtlWhere ==
  ASSUME CtlShape, NEW p \in CtlProcs
  PROVE  /\ ctlPc[p] = CtlIdle <=> ctlPc[p].at = "idle"
         /\ ctlPc[p].at \in CtlPlaces
         /\ ctlPc[p] # CtlIdle => ctlPc[p].part \in CtlParts
BY DEF CtlShape, CtlIdle, CtlPlaces, CtlParts

\* The parts that nobody works on, in the words of the invariant.
LEMMA CtlIdleParts ==
  ASSUME CtlShape
  PROVE  PartsAsAsked <=> \A x \in CtlParts \ ctlRaced :
           (\A q \in CtlProcs : ctlPc[q] # CtlIdle => ctlPc[q].part # x) => AsAsked(x, ctlRegister[x])
BY DEF PartsAsAsked, AsAsked, CtlParts

\* LedStore: the LED is worked on, and nothing was asked of the others.
LEMMA CtlLedStore ==
  ASSUME CtlInv, NEW p \in CtlProcs, NEW l \in Leds, LedStore(p, l)
  PROVE  CtlInv'
<1> USE CtlWhere DEF CtlInv
<1>1. PICK v \in 0..2 : ledEnable' = [ledEnable EXCEPT ![l] = v]
  BY DEF LedStore
<1>2. /\ ctlPc[p] = CtlIdle /\ ctlPc' = [ctlPc EXCEPT ![p] = [at |-> "check", part |-> l]]
      /\ UNCHANGED <<ctlRegister, dioAsked, ctlRaced, ledState>>
  BY DEF LedStore
<1>3. /\ ctlPc'[p] = [at |-> "check", part |-> l]
      /\ \A q \in CtlProcs \ {p} : ctlPc'[q] = ctlPc[q]
  BY <1>2 DEF CtlShape
<1>4. ctlPc'[p].at = "check" /\ ctlPc'[p].part = l /\ ctlPc'[p] # CtlIdle
  BY <1>3 DEF CtlIdle
<1>5. CtlShape'
  BY <1>1, <1>2, <1>3, <1>4 DEF CtlShape, CtlIdle
<1>6. MetInv'
  BY <1>2, <1>3, <1>4 DEF MetInv
<1>7. \A x \in CtlParts, w \in {0, 1} : x # l /\ AsAsked(x, w) => AsAsked(x, w)'
  BY <1>1, <1>2 DEF AsAsked, CtlShape
<1>8. StoreInv'
  <2> SUFFICES ASSUME NEW q \in CtlProcs, NEW x \in CtlParts \ ctlRaced', NEW w \in {0, 1},
                      Alone(q, x)', Writes(q, x, w)'
               PROVE  AsAsked(x, w)'
    BY DEF StoreInv
  <2>1. q # p /\ Writes(q, x, w)
    BY <1>3, <1>4 DEF Writes
  <2>2. x # l /\ Alone(q, x)
    BY <1>2, <1>3, <1>4, <2>1 DEF Alone
  <2> QED BY <1>2, <1>7, <2>1, <2>2 DEF StoreInv
<1>9. PartsAsAsked'
  <2> SUFFICES ASSUME NEW x \in CtlParts \ ctlRaced',
                      \A q \in CtlProcs : ctlPc'[q] # CtlIdle => ctlPc'[q].part # x
               PROVE  AsAsked(x, ctlRegister[x])'
    BY <1>5 DEF PartsAsAsked, AsAsked, CtlParts
  <2>1. x # l /\ \A q \in CtlProcs : ctlPc[q] # CtlIdle => ctlPc[q].part # x
    BY <1>2, <1>3, <1>4
  <2>2. AsAsked(x, ctlRegister[x]) /\ ctlRegister[x] \in {0, 1}
    BY <1>2, <2>1, CtlIdleParts DEF CtlShape
  <2> QED BY <1>2, <2>1, <2>2, <1>7 DEF AsAsked
<1> QED BY <1>5, <1>6, <1>8, <1>9

\* A step that asks a part to be v, and nothing of the others.
AsksFor(part, v) ==
  /\ UNCHANGED <<ctlRegister, ledEnable, ledState>>
  /\ dioAsked' \in [DioParts -> Bits] /\ AsAsked(part, v)'
  /\ \A x \in CtlParts : \A w : x # part /\ AsAsked(x, w) => AsAsked(x, w)'

\* A part is set: the store meets those that work on the same register.
LEMMA CtlSetPart ==
  ASSUME CtlInv, NEW p \in CtlProcs, NEW part \in CtlParts, NEW v \in Bits,
         SetPart(p, part, v),
         ctlPc[p].at = "idle" \/ (ctlPc[p].at = "check" /\ ctlPc[p].part = part),
         AsksFor(part, v)
  PROVE  CtlInv'
<1> USE CtlWhere DEF CtlInv, Bits
<1> DEFINE others == Working(p) \cap Beside(part)
<1>0. /\ UNCHANGED <<ctlRegister, ledEnable, ledState>> /\ dioAsked' \in [DioParts -> {0, 1}]
  BY DEF AsksFor
<1>1. /\ ctlPc' = [ctlPc EXCEPT ![p] = [at |-> "read", part |-> part, arg |-> v]]
      /\ ctlRaced' = IF others = {} THEN ctlRaced \ {part} ELSE ctlRaced \cup others \cup {part}
  BY DEF SetPart, Meets
<1>2. /\ ctlPc'[p] = [at |-> "read", part |-> part, arg |-> v]
      /\ \A q \in CtlProcs \ {p} : ctlPc'[q] = ctlPc[q]
  BY <1>1 DEF CtlShape
<1>3. /\ ctlPc'[p].at = "read" /\ ctlPc'[p].part = part /\ ctlPc'[p].arg = v
      /\ ctlPc'[p] # CtlIdle
  BY <1>2 DEF CtlIdle
<1>4. others \subseteq CtlParts
  BY BesideFacts
<1>5. CtlShape'
  <2>1. ctlRaced' \subseteq CtlParts
    BY <1>1, <1>4 DEF CtlShape
  <2> QED BY <1>0, <1>1, <1>2, <1>3, <2>1 DEF CtlShape
<1>6. \A q \in CtlProcs \ {p} : ctlPc[q].at \in {"read", "write"} => ctlPc[q].part \in Working(p)
  BY DEF Working
<1>7. \A q \in CtlProcs \ {p} :
        /\ ctlPc[q].at \in {"read", "write"} /\ Beside(ctlPc[q].part) = Beside(part)
        => ctlPc[q].part \in others
  BY <1>6, BesideFacts DEF CtlShape
<1>8. MetInv'
  <2> SUFFICES ASSUME NEW q \in CtlProcs, NEW r \in CtlProcs, q # r,
                      ctlPc'[q].at \in {"read", "write"}, ctlPc'[r].at \in {"read", "write"},
                      Beside(ctlPc'[q].part) = Beside(ctlPc'[r].part)
               PROVE  ctlPc'[q].part \in ctlRaced'
    BY DEF MetInv, Beside
  <2>1. CASE q = p
    BY <1>1, <1>2, <1>3, <1>7, <2>1
  <2>2. CASE r = p
    BY <1>1, <1>2, <1>3, <1>7, <2>2
  <2>3. CASE q # p /\ r # p
    <3>1. ctlPc[q].part \in ctlRaced
      BY <1>2, <2>3 DEF MetInv
    <3>2. CASE ctlPc[q].part = part
      BY <1>1, <1>2, <1>7, <2>3, <3>2
    <3> QED BY <1>1, <1>2, <2>3, <3>1, <3>2
  <2> QED BY <2>1, <2>2, <2>3
<1>9. \A x \in CtlParts \ ctlRaced' : x # part => x \notin ctlRaced
  BY <1>1
<1> HIDE DEF others
<1>10. StoreInv'
  <2> SUFFICES ASSUME NEW q \in CtlProcs, NEW x \in CtlParts \ ctlRaced', NEW w \in {0, 1},
                      Alone(q, x)', Writes(q, x, w)'
               PROVE  AsAsked(x, w)'
    BY DEF StoreInv
  <2>1. CASE q = p
    BY <1>3, <2>1 DEF Writes, AsksFor
  <2>2. CASE q # p
    <3>1. Writes(q, x, w)
      BY <1>2, <2>2 DEF Writes
    <3>2. x # part /\ Alone(q, x)
      BY <1>2, <1>3, <2>2 DEF Alone
    <3> QED BY <1>9, <3>1, <3>2 DEF StoreInv, AsksFor
  <2> QED BY <2>1, <2>2
<1>11. PartsAsAsked'
  <2> SUFFICES ASSUME NEW x \in CtlParts \ ctlRaced',
                      \A q \in CtlProcs : ctlPc'[q] # CtlIdle => ctlPc'[q].part # x
               PROVE  AsAsked(x, ctlRegister[x])'
    BY <1>5 DEF PartsAsAsked, AsAsked, CtlParts
  <2>1. x # part /\ \A q \in CtlProcs : ctlPc[q] # CtlIdle => ctlPc[q].part # x
    BY <1>2, <1>3
  <2>2. AsAsked(x, ctlRegister[x]) /\ ctlRegister[x] \in {0, 1}
    BY <1>9, <2>1, CtlIdleParts DEF CtlShape
  <2> QED BY <2>1, <2>2 DEF AsAsked, AsksFor
<1> QED BY <1>5, <1>8, <1>10, <1>11

\* An LED that is to blink is not set.
LEMMA CtlLedBlinks ==
  ASSUME CtlInv, NEW p \in CtlProcs, ctlPc[p].at = "check", ledEnable[ctlPc[p].part] = 2,
         ctlPc' = [ctlPc EXCEPT ![p] = CtlIdle],
         UNCHANGED <<ctlRegister, ledEnable, ledState, dioAsked, ctlRaced>>
  PROVE  CtlInv'
<1> USE CtlWhere DEF CtlInv
<1>1. /\ ctlPc'[p] = CtlIdle /\ ctlPc'[p].at = "idle"
      /\ \A q \in CtlProcs \ {p} : ctlPc'[q] = ctlPc[q]
  BY DEF CtlShape, CtlIdle
<1>2. CtlShape'
  BY <1>1 DEF CtlShape
<1>3. MetInv'
  BY <1>1 DEF MetInv
<1>4. \A x \in CtlParts, w \in {0, 1} : AsAsked(x, w)' <=> AsAsked(x, w)
  BY DEF AsAsked
<1>5. \A w \in {0, 1} : AsAsked(ctlPc[p].part, w)
  BY DEF AsAsked, CtlShape
<1>6. StoreInv'
  <2> SUFFICES ASSUME NEW q \in CtlProcs, NEW x \in CtlParts \ ctlRaced', NEW w \in {0, 1},
                      Alone(q, x)', Writes(q, x, w)'
               PROVE  AsAsked(x, w)
    BY <1>4 DEF StoreInv
  <2>1. q # p /\ Writes(q, x, w)
    BY <1>1 DEF Writes
  <2>2. x = ctlPc[p].part \/ Alone(q, x)
    BY <1>1, <2>1 DEF Alone
  <2> QED BY <1>5, <2>1, <2>2 DEF StoreInv
<1>7. PartsAsAsked'
  <2> SUFFICES ASSUME NEW x \in CtlParts \ ctlRaced',
                      \A q \in CtlProcs : ctlPc'[q] # CtlIdle => ctlPc'[q].part # x
               PROVE  AsAsked(x, ctlRegister[x])
    BY <1>2 DEF PartsAsAsked, AsAsked, CtlParts
  <2>1. ctlRegister[x] \in {0, 1}
    BY DEF CtlShape
  <2>2. CASE x = ctlPc[p].part
    BY <1>5, <2>1, <2>2
  <2>3. CASE x # ctlPc[p].part
    BY <1>1, <2>3, CtlIdleParts
  <2> QED BY <2>2, <2>3
<1> QED BY <1>2, <1>3, <1>6, <1>7

\* The register is read: from now on a store beside it is met.
LEMMA CtlRead ==
  ASSUME CtlInv, NEW p \in CtlProcs, ReadRegister(p)
  PROVE  CtlInv'
<1> USE CtlWhere DEF CtlInv
<1> DEFINE part == ctlPc[p].part
           word == Word(part, ctlPc[p].arg)
<1>1. /\ ctlPc[p].at = "read" /\ part \in CtlParts /\ ctlPc[p].arg \in {0, 1}
      /\ ctlPc' = [ctlPc EXCEPT ![p] = [at |-> "write", part |-> part, word |-> word]]
      /\ UNCHANGED <<ctlRegister, ledEnable, ledState, dioAsked, ctlRaced>>
  BY DEF ReadRegister, CtlShape
<1>2. /\ ctlPc'[p] = [at |-> "write", part |-> part, word |-> word]
      /\ \A q \in CtlProcs \ {p} : ctlPc'[q] = ctlPc[q]
  BY <1>1 DEF CtlShape
<1>3. word \in [Beside(part) -> {0, 1}]
  BY <1>1, BesideFacts DEF Word, CtlShape
<1>4. \A x \in Beside(part) : word[x] = IF x = part THEN ctlPc[p].arg ELSE ctlRegister[x]
  BY DEF Word
<1> HIDE DEF word
<1>5. /\ ctlPc'[p].at = "write" /\ ctlPc'[p].part = part /\ ctlPc'[p].word = word
      /\ ctlPc'[p] # CtlIdle /\ ctlPc[p] # CtlIdle
  BY <1>1, <1>2 DEF CtlIdle
<1>6. CtlShape'
  BY <1>1, <1>2, <1>3, <1>5 DEF CtlShape, Beside
<1>7. MetInv'
  <2> SUFFICES ASSUME NEW q \in CtlProcs, NEW r \in CtlProcs, q # r,
                      ctlPc'[q].at \in {"read", "write"}, ctlPc'[r].at \in {"read", "write"},
                      Beside(ctlPc'[q].part) = Beside(ctlPc'[r].part)
               PROVE  ctlPc'[q].part \in ctlRaced'
    BY DEF MetInv, Beside
  <2> QED BY <1>1, <1>2, <1>5 DEF MetInv
<1>8. \A x \in CtlParts, w \in {0, 1} : AsAsked(x, w)' <=> AsAsked(x, w)
  BY <1>1 DEF AsAsked
<1>9. \A q \in CtlProcs, x \in CtlParts : Alone(q, x)' <=> Alone(q, x)
  BY <1>1, <1>2, <1>5 DEF Alone
<1>10. StoreInv'
  <2> SUFFICES ASSUME NEW q \in CtlProcs, NEW x \in CtlParts \ ctlRaced', NEW w \in {0, 1},
                      Alone(q, x)', Writes(q, x, w)'
               PROVE  AsAsked(x, w)
    BY <1>8 DEF StoreInv
  <2>1. Alone(q, x) /\ x \notin ctlRaced
    BY <1>1, <1>9
  <2>2. CASE q # p
    <3>1. Writes(q, x, w)
      BY <1>2, <2>2 DEF Writes, Beside
    <3> QED BY <2>1, <3>1 DEF StoreInv
  <2>3. CASE q = p
    <3>1. x \in Beside(part) /\ w = word[x]
      BY <1>5, <2>3 DEF Writes, Beside
    <3>2. CASE x = part
      <4>1. Writes(p, x, w)
        BY <1>1, <1>4, <3>1, <3>2 DEF Writes
      <4> QED BY <2>1, <2>3, <4>1 DEF StoreInv
    <3>3. CASE x # part
      <4>1. \A r \in CtlProcs : ctlPc[r] # CtlIdle => ctlPc[r].part # x
        BY <2>1, <2>3, <3>3 DEF Alone
      <4> QED BY <1>4, <2>1, <3>1, <3>3, <4>1, CtlIdleParts
    <3> QED BY <3>2, <3>3
  <2> QED BY <2>2, <2>3
<1>11. PartsAsAsked'
  <2> SUFFICES ASSUME NEW x \in CtlParts \ ctlRaced',
                      \A q \in CtlProcs : ctlPc'[q] # CtlIdle => ctlPc'[q].part # x
               PROVE  AsAsked(x, ctlRegister[x])
    BY <1>1, <1>6 DEF PartsAsAsked, AsAsked, CtlParts
  <2> QED BY <1>1, <1>2, <1>5, CtlIdleParts
<1> QED BY <1>6, <1>7, <1>10, <1>11

\* The word goes to the register; the store ends, or goes on with the next bit.
LEMMA CtlWrite ==
  ASSUME CtlInv, NEW p \in CtlProcs, WriteRegister(p)
  PROVE  CtlInv'
<1> USE CtlWhere DEF CtlInv
<1> DEFINE part == ctlPc[p].part
           word == ctlPc[p].word
           on == part \in DioBits /\ part + 1 \in DioBits
<1>1. /\ ctlPc[p].at = "write" /\ part \in CtlParts /\ word \in [Beside(part) -> {0, 1}]
      /\ UNCHANGED <<ledEnable, ledState>>
  BY DEF WriteRegister, CtlShape
<1>2. ctlRegister' = [x \in CtlParts |-> IF x \in Beside(part) THEN word[x] ELSE ctlRegister[x]]
  BY DEF WriteRegister
<1>4. CASE ~on
  <2>1. /\ ctlPc' = [ctlPc EXCEPT ![p] = CtlIdle] /\ UNCHANGED <<dioAsked, ctlRaced>>
    BY <1>4 DEF WriteRegister
  <2>2. /\ ctlPc'[p] = CtlIdle /\ ctlPc'[p].at = "idle"
        /\ \A q \in CtlProcs \ {p} : ctlPc'[q] = ctlPc[q]
    BY <2>1 DEF CtlShape, CtlIdle
  <2>3. CtlShape'
    <3>1. ctlRegister' \in [CtlParts -> {0, 1}]
      BY <1>1, <1>2 DEF CtlShape
    <3>2. /\ ledEnable' \in [Leds -> 0..2] /\ ledState' \in [Leds -> {0, 1}] /\ dioAsked' \in [DioParts -> {0, 1}]
          /\ ctlRaced' \subseteq CtlParts /\ DOMAIN ctlPc' = CtlProcs
      BY <1>1, <2>1 DEF CtlShape
    <3> QED BY <2>2, <3>1, <3>2 DEF CtlShape, Beside
  <2>4. MetInv'
    BY <2>1, <2>2 DEF MetInv, Beside
  <2>5. \A x \in CtlParts, w \in {0, 1} : AsAsked(x, w)' <=> AsAsked(x, w)
    BY <1>1, <2>1 DEF AsAsked
  <2>6. StoreInv'
    <3> SUFFICES ASSUME NEW q \in CtlProcs, NEW x \in CtlParts \ ctlRaced', NEW w \in {0, 1},
                        Alone(q, x)', Writes(q, x, w)'
                 PROVE  AsAsked(x, w)
      BY <2>5 DEF StoreInv
    <3>1. q # p /\ Writes(q, x, w) /\ x \notin ctlRaced
      BY <2>1, <2>2 DEF Writes, Beside
    <3>2. x # part
      BY <1>1, <3>1, BesideFacts DEF Writes, MetInv
    <3>3. Alone(q, x)
      BY <2>2, <3>2, <3>1 DEF Alone
    <3> QED BY <3>1, <3>3 DEF StoreInv
  <2>7. PartsAsAsked'
    <3> SUFFICES ASSUME NEW x \in CtlParts \ ctlRaced',
                        \A q \in CtlProcs : ctlPc'[q] # CtlIdle => ctlPc'[q].part # x
                 PROVE  AsAsked(x, ctlRegister'[x])
      BY <1>1, <2>1, <2>3 DEF PartsAsAsked, AsAsked, CtlParts
    <3>1. CASE x \in Beside(part)
      <4>1. Alone(p, x)
        BY <2>2 DEF Alone
      <4>2. Writes(p, x, word[x]) /\ word[x] \in {0, 1}
        BY <1>1, <3>1 DEF Writes
      <4> QED BY <1>2, <2>1, <3>1, <4>1, <4>2 DEF StoreInv
    <3>2. CASE x \notin Beside(part)
      <4>1. x # part
        BY <1>1, <3>2, BesideFacts
      <4>2. \A q \in CtlProcs : ctlPc[q] # CtlIdle => ctlPc[q].part # x
        BY <2>2, <4>1
      <4> QED BY <1>2, <2>1, <3>2, <4>2, CtlIdleParts
    <3> QED BY <3>1, <3>2
  <2> QED BY <2>3, <2>4, <2>6, <2>7
<1>5. ASSUME NEW next \in DioBits, part \in DioBits, next = part + 1
      PROVE  CtlInv'
  <2> DEFINE others == Working(p) \cap Beside(next)
  <2>0. /\ Beside(next) = DioParts /\ Beside(part) = DioParts /\ next \in DioParts
        /\ next \notin Leds
    BY <1>5, CtlAssumption DEF Beside, DioParts
  <2>1. PICK v \in {0, 1} :
          SetPart(p, next, v) /\ dioAsked' = [dioAsked EXCEPT ![next] = v]
    BY <1>5 DEF WriteRegister, DioSet
  <2>2. /\ ctlPc' = [ctlPc EXCEPT ![p] = [at |-> "read", part |-> next, arg |-> v]]
        /\ ctlRaced' = IF others = {} THEN ctlRaced \ {next} ELSE ctlRaced \cup others \cup {next}
    BY <2>1 DEF SetPart, Meets
  <2>3. /\ ctlPc'[p] = [at |-> "read", part |-> next, arg |-> v]
        /\ \A q \in CtlProcs \ {p} : ctlPc'[q] = ctlPc[q]
    BY <2>2 DEF CtlShape
  <2>4. /\ ctlPc'[p].at = "read" /\ ctlPc'[p].part = next /\ ctlPc'[p].arg = v
        /\ ctlPc'[p] # CtlIdle
    BY <2>3 DEF CtlIdle
  <2>5. next \in CtlParts /\ part # next
    <3>1. part \in Nat
      BY <1>5, CtlAssumption
    <3> QED BY <1>5, <2>0, <3>1 DEF CtlParts
  <2>6. CtlShape'
    <3>1. ctlRegister' \in [CtlParts -> {0, 1}]
      BY <1>1, <1>2 DEF CtlShape
    <3>2. ctlRaced' \subseteq CtlParts
      BY <2>2, <2>5, BesideFacts DEF CtlShape
    <3>3. /\ ledEnable' \in [Leds -> 0..2] /\ ledState' \in [Leds -> {0, 1}] /\ dioAsked' \in [DioParts -> {0, 1}]
          /\ DOMAIN ctlPc' = CtlProcs
      BY <1>1, <2>1, <2>2 DEF CtlShape
    <3> QED BY <2>3, <2>4, <2>5, <3>1, <3>2, <3>3 DEF CtlShape, Beside
  <2>7. \A q \in CtlProcs \ {p} :
          /\ ctlPc[q].at \in {"read", "write"} /\ Beside(ctlPc[q].part) = Beside(part)
          => ctlPc[q].part \in others
    <3>1. \A q \in CtlProcs \ {p} : ctlPc[q].at \in {"read", "write"} => ctlPc[q].part \in Working(p)
      BY DEF Working
    <3> QED BY <2>0, <3>1, BesideFacts DEF CtlShape
  <2> HIDE DEF others
  <2>8. MetInv'
    <3> SUFFICES ASSUME NEW q \in CtlProcs, NEW r \in CtlProcs, q # r,
                        ctlPc'[q].at \in {"read", "write"}, ctlPc'[r].at \in {"read", "write"},
                        Beside(ctlPc'[q].part) = Beside(ctlPc'[r].part)
                 PROVE  ctlPc'[q].part \in ctlRaced'
      BY DEF MetInv, Beside
    <3>1. CASE q = p
      BY <2>0, <2>2, <2>3, <2>4, <2>7, <3>1
    <3>2. CASE r = p
      BY <2>0, <2>2, <2>3, <2>4, <2>7, <3>2
    <3>3. CASE q # p /\ r # p
      <4>1. ctlPc[q].part \in ctlRaced
        BY <2>3, <3>3 DEF MetInv
      <4>2. CASE ctlPc[q].part = next
        BY <2>0, <2>2, <2>3, <2>7, <3>3, <4>2
      <4> QED BY <2>2, <2>3, <3>3, <4>1, <4>2
    <3> QED BY <3>1, <3>2, <3>3
  <2>9. \A x \in CtlParts \ ctlRaced' : x # next => x \notin ctlRaced
    BY <2>2
  <2>10. \A x \in CtlParts, w \in {0, 1} : x # next /\ AsAsked(x, w) => AsAsked(x, w)'
    BY <1>1, <2>1 DEF AsAsked, CtlShape, CtlParts
  <2>11. AsAsked(next, v)'
    BY <2>0, <2>1 DEF AsAsked, CtlShape
  <2>12. StoreInv'
    <3> SUFFICES ASSUME NEW q \in CtlProcs, NEW x \in CtlParts \ ctlRaced', NEW w \in {0, 1},
                        Alone(q, x)', Writes(q, x, w)'
                 PROVE  AsAsked(x, w)'
      BY DEF StoreInv
    <3>1. CASE q = p
      BY <2>4, <2>11, <3>1 DEF Writes
    <3>2. CASE q # p
      <4>1. Writes(q, x, w)
        BY <2>3, <3>2 DEF Writes, Beside
      <4>2. x # next
        BY <2>3, <2>4, <3>2 DEF Alone
      <4>3. x # part
        BY <1>1, <2>5, <2>7, <2>9, <3>2, <4>1, <4>2, BesideFacts DEF Writes, MetInv
      <4>4. Alone(q, x)
        BY <2>3, <3>2, <4>3 DEF Alone
      <4> QED BY <2>9, <2>10, <4>1, <4>2, <4>4 DEF StoreInv
    <3> QED BY <3>1, <3>2
  <2>13. PartsAsAsked'
    <3> SUFFICES ASSUME NEW x \in CtlParts \ ctlRaced',
                        \A q \in CtlProcs : ctlPc'[q] # CtlIdle => ctlPc'[q].part # x
                 PROVE  AsAsked(x, ctlRegister[x])'
      BY <2>6 DEF PartsAsAsked, AsAsked, CtlParts
    <3>1. x # next /\ x \notin ctlRaced
      BY <2>3, <2>4, <2>9
    <3>2. AsAsked(x, ctlRegister'[x]) /\ ctlRegister'[x] \in {0, 1}
      <4>1. CASE x \in Beside(part)
        <5>1. Alone(p, x)
          BY <2>3 DEF Alone
        <5>2. Writes(p, x, word[x]) /\ word[x] \in {0, 1}
          BY <1>1, <4>1 DEF Writes
        <5> QED BY <1>2, <3>1, <4>1, <5>1, <5>2 DEF StoreInv
      <4>2. CASE x \notin Beside(part)
        <5>1. x # part
          BY <1>1, <4>2, BesideFacts
        <5>2. \A q \in CtlProcs : ctlPc[q] # CtlIdle => ctlPc[q].part # x
          BY <2>3, <5>1
        <5> QED BY <1>2, <3>1, <4>2, <5>2, CtlIdleParts DEF CtlShape
      <4> QED BY <4>1, <4>2
    <3> QED BY <2>10, <3>1, <3>2 DEF AsAsked
  <2> QED BY <2>6, <2>8, <2>12, <2>13
<1> QED BY <1>4, <1>5

\* The timer changes LEDs that blink, and lets one blink.
LEMMA CtlTimer ==
  ASSUME CtlInv, BlinkTick \/ ErrorBlinks
  PROVE  CtlInv'
<1> USE CtlWhere DEF CtlInv
<1>1. UNCHANGED <<dioAsked, ctlPc, ctlRaced>>
  BY DEF BlinkTick, ErrorBlinks
<1>2. /\ ctlRegister' \in [CtlParts -> {0, 1}] /\ ledEnable' \in [Leds -> 0..2]
      /\ ledState' \in [Leds -> {0, 1}]
      /\ \A x \in Leds : ledEnable'[x] # 2 =>
           ledEnable'[x] = ledEnable[x] /\ ctlRegister'[x] = ctlRegister[x]
      /\ \A x \in DioParts : ctlRegister'[x] = ctlRegister[x]
  <2>1. CASE BlinkTick
    <3>1. /\ \A l \in BlinkDue : l \in Leds /\ ledEnable[l] = 2
          /\ ledEnable' = ledEnable
          /\ ledState' = [l \in Leds |-> IF l \in BlinkDue THEN 1 - ledState[l] ELSE ledState[l]]
          /\ ctlRegister' = [x \in CtlParts |-> IF x \in BlinkDue THEN ledState'[x]
                                        ELSE ctlRegister[x]]
      BY <2>1 DEF BlinkTick, BlinkDue
    <3>2. ledState' \in [Leds -> {0, 1}]
      BY <3>1 DEF CtlShape
    <3>3. BlinkDue \cap DioParts = {}
      BY <3>1, CtlAssumption DEF DioParts
    <3> QED BY <3>1, <3>2, <3>3 DEF CtlShape, CtlParts
  <2>2. CASE ErrorBlinks
    BY <2>2, CtlAssumption DEF ErrorBlinks, CtlShape
  <2> QED BY <2>1, <2>2
<1>3. CtlShape'
  BY <1>1, <1>2 DEF CtlShape, Beside
<1>4. MetInv'
  BY <1>1 DEF MetInv, Beside
<1>5. \A x \in CtlParts, w \in {0, 1} : AsAsked(x, w) => AsAsked(x, w)'
  BY <1>1, <1>2 DEF AsAsked
<1>6. StoreInv'
  <2> SUFFICES ASSUME NEW q \in CtlProcs, NEW x \in CtlParts \ ctlRaced', NEW w \in {0, 1},
                      Alone(q, x)', Writes(q, x, w)'
               PROVE  AsAsked(x, w)'
    BY DEF StoreInv
  <2>1. Alone(q, x) /\ Writes(q, x, w) /\ x \notin ctlRaced
    BY <1>1 DEF Alone, Writes, Beside
  <2> QED BY <1>5, <2>1 DEF StoreInv
<1>7. PartsAsAsked'
  <2> SUFFICES ASSUME NEW x \in CtlParts \ ctlRaced',
                      \A q \in CtlProcs : ctlPc'[q] # CtlIdle => ctlPc'[q].part # x
               PROVE  AsAsked(x, ctlRegister[x])'
    BY <1>3 DEF PartsAsAsked, AsAsked, CtlParts
  <2>1. AsAsked(x, ctlRegister[x])
    BY <1>1, CtlIdleParts
  <2> QED BY <1>1, <1>2, <2>1 DEF AsAsked, CtlParts
<1> QED BY <1>3, <1>4, <1>6, <1>7

\* DirectionStore and FilterStore: what is asked is noted, and the part is set.
LEMMA CtlDioStore ==
  ASSUME CtlInv, NEW p \in CtlProcs, NEW part \in CtlParts, part \in DioParts, ctlPc[p].at = "idle",
         DioSet(p, part), UNCHANGED <<ctlRegister, ledEnable, ledState>>
  PROVE  CtlInv'
<1>1. part \notin Leds
  BY CtlAssumption DEF DioParts
<1>2. SUFFICES ASSUME NEW v \in Bits, SetPart(p, part, v), dioAsked' = [dioAsked EXCEPT ![part] = v]
               PROVE  CtlInv'
  BY DEF DioSet, Bits
<1>3. dioAsked' \in [DioParts -> {0, 1}]
  BY <1>2 DEF CtlInv, Bits, CtlShape
<1>4. AsksFor(part, v)
  BY <1>1, <1>2, <1>3 DEF Bits, AsksFor, AsAsked, CtlInv, CtlShape, CtlParts
<1>5. SetPart(p, part, v)
  BY <1>2
<1> QED BY <1>4, <1>5, CtlSetPart

\* Every step of the stores and of the timer.
LEMMA CtlStep == CtlInv /\ [CtlNext]_ctlVars => CtlInv'
<1> SUFFICES ASSUME CtlInv, [CtlNext]_ctlVars PROVE CtlInv'
  OBVIOUS
<1>1. CASE UNCHANGED ctlVars
  BY <1>1 DEF ctlVars, CtlInv, CtlShape, MetInv, StoreInv, PartsAsAsked, Alone, Writes, AsAsked,
              Beside
<1>2. CASE BlinkTick \/ ErrorBlinks
  BY <1>2, CtlTimer
<1>3. ASSUME NEW p \in CtlProcs, NEW l \in Leds, LedStore(p, l)
      PROVE  CtlInv'
  BY <1>3, CtlLedStore
<1>4. ASSUME NEW p \in CtlProcs, LedSet(p)
      PROVE  CtlInv'
  <2> DEFINE l == ctlPc[p].part
  <2>1. ctlPc[p].at = "check" /\ l \in Leds /\ ledEnable[l] \in 0..2
    BY <1>4 DEF LedSet, CtlInv, CtlShape
  <2>2. UNCHANGED <<ctlRegister, ledEnable, ledState, dioAsked>>
    BY <1>4 DEF LedSet
  <2>3. CASE ledEnable[l] < 2
    <3>1. SetPart(p, l, ledEnable[l]) /\ ledEnable[l] \in {0, 1} /\ l \in CtlParts
      BY <1>4, <2>1, <2>3 DEF LedSet, CtlParts
    <3>2. \A x \in CtlParts : \A w : AsAsked(x, w)' <=> AsAsked(x, w)
      BY <2>2 DEF AsAsked
    <3>3. \A part \in CtlParts, v \in Bits :
            part = l /\ v = ledEnable[l] => CtlInv'
      <4> SUFFICES ASSUME NEW part \in CtlParts, NEW v \in Bits, part = l, v = ledEnable[l]
                   PROVE  CtlInv'
        OBVIOUS
      <4>1. AsksFor(part, v)
        BY <2>1, <2>2, <3>2 DEF AsAsked, AsksFor, Bits, CtlInv, CtlShape
      <4> QED BY <2>1, <3>1, <4>1, CtlSetPart
    <3> QED BY <3>1, <3>3 DEF Bits
  <2>4. CASE ledEnable[l] = 2
    <3>1. ctlPc' = [ctlPc EXCEPT ![p] = CtlIdle] /\ ctlRaced' = ctlRaced
      BY <1>4, <2>4 DEF LedSet
    <3> QED BY <2>1, <2>2, <2>4, <3>1, CtlLedBlinks
  <2> QED BY <2>1, <2>3, <2>4
<1>5. ASSUME NEW p \in CtlProcs, DirectionStore(p) \/ FilterStore(p)
      PROVE  CtlInv'
  <2>1. PICK part \in CtlParts : part \in DioParts /\ DioSet(p, part)
    BY <1>5, CtlAssumption DEF DirectionStore, FilterStore, DioParts, CtlParts
  <2>2. UNCHANGED <<ctlRegister, ledEnable, ledState>> /\ ctlPc[p].at = "idle"
    BY <1>5 DEF DirectionStore, FilterStore, CtlIdle
  <2> QED BY <2>1, <2>2, CtlDioStore
<1>6. ASSUME NEW p \in CtlProcs, ReadRegister(p) \/ WriteRegister(p)
      PROVE  CtlInv'
  BY <1>6, CtlRead, CtlWrite
<1> QED BY <1>1, <1>2, <1>3, <1>4, <1>5, <1>6 DEF CtlNext

\* A part of the register is as asked once nobody works on it, unless a store of it met
\* another one of the same register between their reads and writes (cps-driver.c:619,
\* 690, 713), for every set of processes and of LEDs.
THEOREM PartsAsAskedAlways == CtlSpec => []PartsAsAsked
<1>1. CtlInv => PartsAsAsked
  BY DEF CtlInv
<1> QED BY CtlInitHolds, CtlStep, <1>1, PTL DEF CtlSpec


\* A counter of a LED is started again when it reaches its limit.
CountsInv == ctlRegisterOf \in {"led", "dio"} /\ ledCount \in [Leds -> 0..LedTicks]
\* A store, with what it holds.
BusyInv == \A p \in CtlProcs : ctlPc[p] = CtlIdle \/ ctlPc[p] \in CtlBusy

\* A tick counts up to the limit.
LEMMA CtlCounts ==
  ASSUME CountsInv, [CtlNext]_ctlVars
  PROVE  CountsInv'
<1>1. CASE BlinkTick
  <2>1. ASSUME NEW l \in Leds PROVE ledCount'[l] \in 0..LedTicks
    BY <1>1, CtlAssumption DEF BlinkTick, BlinkDue, CountsInv
  <2> QED BY <1>1, <2>1 DEF BlinkTick, CountsInv
<1>2. CASE \/ ErrorBlinks \/ UNCHANGED ctlVars
           \/ \E p \in CtlProcs :
                \/ \E l \in Leds : LedStore(p, l)
                \/ LedSet(p) \/ DirectionStore(p) \/ FilterStore(p)
                \/ ReadRegister(p) \/ WriteRegister(p)
  BY <1>2 DEF ErrorBlinks, ctlVars, LedStore, LedSet, DirectionStore, FilterStore, ReadRegister,
              WriteRegister, CountsInv
<1> QED BY <1>1, <1>2 DEF CtlNext

\* A store moves on.
LEMMA BusyMoves ==
  ASSUME CtlShape, BusyInv, NEW p \in CtlProcs, NEW c, c = CtlIdle \/ c \in CtlBusy,
         ctlPc' = [ctlPc EXCEPT ![p] = c]
  PROVE  BusyInv'
<1>1. \A q \in CtlProcs : ctlPc'[q] = IF q = p THEN c ELSE ctlPc[q]
  BY DEF CtlShape
<1>2. CtlBusy' = CtlBusy
  BY DEF CtlBusy, Beside
<1> QED BY <1>1, <1>2 DEF BusyInv

\* A store that begins holds its part and what it is to write.
LEMMA BusyPart ==
  ASSUME CtlShape, BusyInv, NEW p \in CtlProcs, NEW part \in CtlParts, NEW v \in {0, 1},
         SetPart(p, part, v)
  PROVE  BusyInv'
<1> DEFINE c == [at |-> "read", part |-> part, arg |-> v]
<1>1. c \in CtlBusy
  BY DEF CtlBusy
<1>2. ctlPc' = [ctlPc EXCEPT ![p] = c]
  BY DEF SetPart
<1> HIDE DEF c
<1> QED BY <1>1, <1>2, BusyMoves

\* So does one of a direction or a filter.
LEMMA BusyDio ==
  ASSUME CtlShape, BusyInv, NEW p \in CtlProcs, NEW part \in DioParts, DioSet(p, part)
  PROVE  BusyInv'
BY BusyPart DEF DioSet, CtlParts

\* Every step keeps what the stores hold.
LEMMA CtlBusyStep ==
  ASSUME CtlShape, BusyInv, [CtlNext]_ctlVars
  PROVE  BusyInv'
<1>1. CASE UNCHANGED ctlPc
  BY <1>1 DEF BusyInv, CtlBusy, Beside
<1>2. CASE BlinkTick \/ ErrorBlinks \/ UNCHANGED ctlVars
  BY <1>1, <1>2 DEF BlinkTick, ErrorBlinks, ctlVars
<1>3. ASSUME NEW p \in CtlProcs, NEW l \in Leds, LedStore(p, l)
      PROVE  BusyInv'
  <2> DEFINE c == [at |-> "check", part |-> l]
  <2>1. c \in CtlBusy
    BY DEF CtlBusy
  <2>2. ctlPc' = [ctlPc EXCEPT ![p] = c]
    BY <1>3 DEF LedStore
  <2> HIDE DEF c
  <2> QED BY <2>1, <2>2, BusyMoves
<1>4. ASSUME NEW p \in CtlProcs, LedSet(p)
      PROVE  BusyInv'
  <2> DEFINE l == ctlPc[p].part
  <2>1. l \in Leds /\ ledEnable[l] \in 0..2
    BY <1>4 DEF LedSet, CtlShape
  <2>2. CASE ledEnable[l] < 2
    <3>1. SetPart(p, l, ledEnable[l]) /\ ledEnable[l] \in {0, 1} /\ l \in CtlParts
      BY <1>4, <2>1, <2>2 DEF LedSet, CtlParts
    <3> HIDE DEF l
    <3> QED BY <3>1, BusyPart
  <2>3. CASE ~(ledEnable[l] < 2)
    BY <1>4, <2>3, BusyMoves DEF LedSet
  <2> QED BY <2>2, <2>3
<1>5. ASSUME NEW p \in CtlProcs, DirectionStore(p) \/ FilterStore(p)
      PROVE  BusyInv'
  BY <1>5, BusyDio, CtlAssumption DEF DirectionStore, FilterStore, DioParts
<1>6. ASSUME NEW p \in CtlProcs, ReadRegister(p)
      PROVE  BusyInv'
  <2> DEFINE part == ctlPc[p].part
             c == [at |-> "write", part |-> part, word |-> Word(part, ctlPc[p].arg)]
  <2>1. part \in CtlParts /\ ctlPc[p].arg \in {0, 1} /\ ctlRegister \in [CtlParts -> {0, 1}]
    BY <1>6 DEF ReadRegister, CtlShape
  <2>2. Beside(part) \subseteq CtlParts
    BY DEF Beside, CtlParts
  <2>3. Word(part, ctlPc[p].arg) \in [Beside(part) -> {0, 1}]
    BY <2>1, <2>2 DEF Word
  <2>4. c \in [at : {"write"}, part : {part}, word : [Beside(part) -> {0, 1}]]
    BY <2>3
  <2>5. ctlPc' = [ctlPc EXCEPT ![p] = c]
    BY <1>6 DEF ReadRegister
  <2>6. c \in CtlBusy
    BY <2>1, <2>4 DEF CtlBusy
  <2> HIDE DEF c
  <2> QED BY <2>5, <2>6, BusyMoves
<1>7. ASSUME NEW p \in CtlProcs, WriteRegister(p)
      PROVE  BusyInv'
  <2>1. \/ \E part \in DioParts : DioSet(p, part)
        \/ ctlPc' = [ctlPc EXCEPT ![p] = CtlIdle]
    BY <1>7 DEF WriteRegister, DioParts
  <2> QED BY <2>1, BusyDio, BusyMoves
<1> QED BY <1>2, <1>3, <1>4, <1>5, <1>6, <1>7 DEF CtlNext

\* The registers of the controller keep their types: a blink counter never passes LedTicks,
\* and a store holds a part and a word of its own register (cps-driver.c:619, 713, 1868), for
\* every set of processes and of LEDs.
THEOREM RegistersTyped == CtlSpec => []CtlTypeOK
<1>1. CtlInit => CountsInv /\ BusyInv
  BY CtlAssumption DEF CtlInit, CountsInv, BusyInv
<1>2. CtlInv /\ CountsInv /\ BusyInv => CtlTypeOK
  BY DEF CtlInv, CtlShape, CountsInv, BusyInv, CtlTypeOK
<1>3. CtlInv /\ CountsInv /\ BusyInv /\ [CtlNext]_ctlVars => (CtlInv /\ CountsInv /\ BusyInv)'
  <2>1. CtlInv => CtlShape
    BY DEF CtlInv
  <2> QED BY <2>1, CtlStep, CtlCounts, CtlBusyStep
<1> QED BY CtlInitHolds, <1>1, <1>2, <1>3, PTL DEF CtlSpec

-----------------------------------------------------------------------------
(***************************************************************************)
(* DeviceRom.  A call is a program of commands that other calls come       *)
(* between. Which command a step is follows from the length of the parts   *)
(* of the program (CommandPlaces), so the invariant can say at each step   *)
(* what a caller that is alone has reached (ServedInv), and that whoever   *)
(* opened the EEPROM still has the command that closes it before it        *)
(* (OpenInv).                                                              *)
(***************************************************************************)

Commands == {"latch", "enable", "address", "write", "read", "disable", "fetch", "erase", "compare"}

\* The calls that begin with a set, that read, and that erase.
Sets(op) == op \in {"set", "write", "clear"}
Reads(op) == op \in {"get", "read", "write"}
Erases(op) == op \in {"erase", "clear"}
\* Commands before the reads or the erase, and how far a read is at step i.
Before(op) == IF op \in {"write", "clear"} THEN 5 ELSE 0
Turn(op, i) == (i - Before(op) - 1) % 5

Length(op) ==
  CASE op \in {"get", "set"} -> 5 [] op = "erase" -> 3 [] op = "clear" -> 8
    [] op = "read" -> 5 * RomReads [] op = "write" -> 5 * RomReads + 6
CommandAt(op, i) ==
  IF Sets(op) /\ i <= 5 THEN SetValue[i]
  ELSE IF op = "write" /\ i = 5 * RomReads + 6 THEN "compare"
  ELSE IF Reads(op) THEN GetValue[Turn(op, i) + 1]
  ELSE EraseAll[i - Before(op)]

\* Two sequences of commands, one after the other.
LEMMA Joined ==
  ASSUME NEW s \in Seq(Commands), NEW t \in Seq(Commands)
  PROVE  /\ s \o t \in Seq(Commands) /\ Len(s \o t) = Len(s) + Len(t)
         /\ \A i \in 1..Len(s) : (s \o t)[i] = s[i]
         /\ \A i \in (Len(s) + 1)..(Len(s) + Len(t)) : (s \o t)[i] = t[i - Len(s)]
OBVIOUS

\* How long the programs are.
LEMMA ReadLength ==
  /\ ReadEeprom \in Seq(Commands) /\ Len(ReadEeprom) = 5 * RomReads
  /\ \A i \in 1..(5 * RomReads) : ReadEeprom[i] = GetValue[((i - 1) % 5) + 1]
<1>1. Len(GetValue) = 5 /\ \A i \in 1..5 : GetValue[i] \in Commands
  BY DEF GetValue, Commands
<1>2. RomReads \in Nat \ {0} /\ RomReads * 5 = 5 * RomReads /\ 5 * RomReads \in Nat
  BY RomAssumption
<1>3. \A i \in 1..(5 * RomReads) : ((i - 1) % 5) + 1 \in 1..5
  BY <1>2
<1>4. ReadEeprom = [i \in 1..(5 * RomReads) |-> GetValue[((i - 1) % 5) + 1]]
  BY <1>1, <1>2 DEF ReadEeprom
<1>5. ReadEeprom \in [1..(5 * RomReads) -> Commands]
  BY <1>1, <1>3, <1>4
<1> QED BY <1>2, <1>4, <1>5, LenProperties

\* A set is five commands.
LEMMA SetLength ==
  SetValue \in Seq(Commands) /\ Len(SetValue) = 5
BY DEF SetValue, Commands

\* A verified write: a set, the reads and the end of the last one.
LEMMA WriteLength ==
  /\ Len(WriteEeprom) = 5 * RomReads + 6
  /\ \A i \in 1..5 : WriteEeprom[i] = SetValue[i]
  /\ \A i \in 6..(5 * RomReads + 5) : WriteEeprom[i] = GetValue[((i - 6) % 5) + 1]
  /\ WriteEeprom[5 * RomReads + 6] = "compare"
<1> DEFINE n == 5 * RomReads
           S == SetValue \o ReadEeprom
           C == <<"compare">>
<1>1. n \in Nat /\ n >= 5
  BY RomAssumption
<1>2. C \in Seq(Commands) /\ Len(C) = 1 /\ C[1] = "compare"
  BY DEF Commands
<1>3. ReadEeprom \in Seq(Commands) /\ Len(ReadEeprom) = n
  BY ReadLength
<1>4. \A i \in 1..n : ReadEeprom[i] = GetValue[((i - 1) % 5) + 1]
  BY ReadLength
<1>5. WriteEeprom = S \o C
  BY DEF WriteEeprom
<1> HIDE DEF n, C
<1>6a. /\ SetValue \o ReadEeprom \in Seq(Commands) /\ Len(SetValue \o ReadEeprom) = Len(SetValue) + Len(ReadEeprom)
       /\ \A i \in 1..Len(SetValue) : (SetValue \o ReadEeprom)[i] = SetValue[i]
       /\ \A i \in (Len(SetValue) + 1)..(Len(SetValue) + Len(ReadEeprom)) : (SetValue \o ReadEeprom)[i] = ReadEeprom[i - Len(SetValue)]
  BY <1>3, SetLength, Joined
<1>6. /\ S \in Seq(Commands) /\ Len(S) = 5 + n
      /\ \A i \in 1..5 : S[i] = SetValue[i]
      /\ \A i \in (5 + 1)..(5 + n) : S[i] = ReadEeprom[i - 5]
  BY <1>3, <1>6a, SetLength
<1> HIDE DEF S
<1>7. 5 + n \in Nat
  BY <1>1
<1>8a. /\ S \o C \in Seq(Commands) /\ Len(S \o C) = Len(S) + Len(C)
       /\ \A i \in 1..Len(S) : (S \o C)[i] = S[i]
       /\ \A i \in (Len(S) + 1)..(Len(S) + Len(C)) : (S \o C)[i] = C[i - Len(S)]
  BY <1>2, <1>6, Joined
<1>8. /\ Len(S \o C) = 5 + n + 1
      /\ \A i \in 1..(5 + n) : (S \o C)[i] = S[i]
      /\ \A i \in (5 + n + 1)..(5 + n + 1) : (S \o C)[i] = C[i - (5 + n)]
  BY <1>2, <1>6, <1>7, <1>8a
<1>9. Len(WriteEeprom) = n + 6
  BY <1>1, <1>5, <1>8
<1>10. \A i \in 1..5 : WriteEeprom[i] = SetValue[i]
  <2> TAKE i \in 1..5
  <2>1. i \in 1..(5 + n)
    BY <1>1
  <2> QED BY <1>5, <1>6, <1>8, <2>1
<1>11. \A i \in 6..(n + 5) : WriteEeprom[i] = GetValue[((i - 6) % 5) + 1]
  <2> TAKE i \in 6..(n + 5)
  <2>1. i - 5 \in 1..n /\ (i - 5) - 1 = i - 6 /\ i \in (5 + 1)..(5 + n) /\ i \in 1..(5 + n)
    BY <1>1
  <2>2. WriteEeprom[i] = ReadEeprom[i - 5]
    BY <1>5, <1>6, <1>8, <2>1
  <2> QED BY <1>4, <2>1, <2>2
<1>12. WriteEeprom[n + 6] = "compare"
  <2>1. n + 6 \in (5 + n + 1)..(5 + n + 1) /\ (n + 6) - (5 + n) = 1
    BY <1>1
  <2> QED BY <1>2, <1>5, <1>8, <2>1
<1> QED BY <1>9, <1>10, <1>11, <1>12 DEF n

\* A clear is a latch, an enable, and the erase.
LEMMA ClearLength ==
  /\ Len(ClearEeprom) = 8
  /\ \A i \in 1..5 : ClearEeprom[i] = SetValue[i]
  /\ \A i \in 6..8 : ClearEeprom[i] = EraseAll[i - 5]
<1>1. EraseAll \in Seq(Commands) /\ Len(EraseAll) = 3
  BY DEF EraseAll, Commands
<1>1a. /\ SetValue \o EraseAll \in Seq(Commands) /\ Len(SetValue \o EraseAll) = Len(SetValue) + Len(EraseAll)
       /\ \A i \in 1..Len(SetValue) : (SetValue \o EraseAll)[i] = SetValue[i]
       /\ \A i \in (Len(SetValue) + 1)..(Len(SetValue) + Len(EraseAll)) : (SetValue \o EraseAll)[i] = EraseAll[i - Len(SetValue)]
  BY <1>1, SetLength, Joined
<1>2. /\ Len(SetValue \o EraseAll) = 5 + 3
      /\ \A i \in 1..5 : (SetValue \o EraseAll)[i] = SetValue[i]
      /\ \A i \in (5 + 1)..(5 + 3) : (SetValue \o EraseAll)[i] = EraseAll[i - 5]
  BY <1>1, <1>1a, SetLength
<1> QED BY <1>2 DEF ClearEeprom

\* Where each command is in the programs.
LEMMA ProgramCommands ==
  ASSUME NEW op \in RomCalls
  PROVE  /\ Length(op) \in Nat \ {0} /\ Len(Program(op)) = Length(op)
         /\ \A i \in 1..Length(op) : Program(op)[i] = CommandAt(op, i)
<1> USE DEF Program, Length, CommandAt, Sets, Reads, Before, Turn
<1>1. CASE op = "get"
  <2>1. \A i \in 1..5 : ((i - 0 - 1) % 5) + 1 = i
    OBVIOUS
  <2>2. Len(GetValue) = 5
    BY DEF GetValue
  <2> QED BY <1>1, <2>1, <2>2
<1>2. CASE op = "set"
  BY <1>2, SetLength
<1>3. CASE op = "erase"
  <2>1. Len(EraseAll) = 3
    BY DEF EraseAll
  <2> QED BY <1>3, <2>1
<1>4. CASE op = "read"
  <2>1. \A i \in 1..(5 * RomReads) : i - 0 - 1 = i - 1
    BY RomAssumption
  <2>2. 5 * RomReads \in Nat \ {0}
    BY RomAssumption
  <2> QED BY <1>4, <2>1, <2>2, ReadLength
<1>5. CASE op = "write"
  <2>1. 5 * RomReads \in Nat /\ 5 * RomReads >= 5
    BY RomAssumption
  <2>2. \A i \in 1..(5 * RomReads + 6) :
          /\ i <= 5 => i \in 1..5
          /\ ~(i <= 5) /\ i # 5 * RomReads + 6 =>
               i \in 6..(5 * RomReads + 5) /\ i - 5 - 1 = i - 6
    BY <2>1
  <2> QED BY <1>5, <2>1, <2>2, WriteLength
<1>6. CASE op = "clear"
  <2>1. \A i \in 1..8 : (i <= 5 => i \in 1..5) /\ (~(i <= 5) => i \in 6..8)
    OBVIOUS
  <2> QED BY <1>6, <2>1, ClearLength
<1> QED BY <1>1, <1>2, <1>3, <1>4, <1>5, <1>6 DEF RomCalls

\* The steps of a program that are in its reads.
ReadsAt(op, i) == Reads(op) /\ i > Before(op) /\ ~(op = "write" /\ i = 5 * RomReads + 6)

\* Where each command of a program is.
LEMMA CommandPlaces ==
  ASSUME NEW op \in RomCalls, NEW i \in 1..Length(op)
  PROVE  /\ CommandAt(op, i) \in Commands
         /\ CommandAt(op, i) = "latch" => Sets(op) /\ i = 1
         /\ CommandAt(op, i) = "enable" =>
              \/ Sets(op) /\ i = 2
              \/ ReadsAt(op, i) /\ Turn(op, i) = 0
              \/ Erases(op) /\ i - Before(op) = 1
         /\ CommandAt(op, i) = "address" =>
              (Sets(op) /\ i = 3) \/ (ReadsAt(op, i) /\ Turn(op, i) = 1)
         /\ CommandAt(op, i) = "write" => Sets(op) /\ i = 4
         /\ CommandAt(op, i) = "read" => ReadsAt(op, i) /\ Turn(op, i) = 2
         /\ CommandAt(op, i) = "erase" => Erases(op) /\ i - Before(op) = 2
         /\ CommandAt(op, i) = "disable" =>
              \/ Sets(op) /\ i = 5
              \/ ReadsAt(op, i) /\ Turn(op, i) = 3
              \/ Erases(op) /\ i - Before(op) = 3
         /\ CommandAt(op, i) = "fetch" => ReadsAt(op, i) /\ Turn(op, i) = 4
         /\ CommandAt(op, i) = "compare" => op = "write" /\ i = 5 * RomReads + 6
<1>1. 5 * RomReads \in Nat /\ 5 * RomReads >= 5
  BY RomAssumption
<1>2. CASE Sets(op) /\ i <= 5
  <2>1. i \in 1..5 /\ CommandAt(op, i) = SetValue[i]
    BY <1>2 DEF CommandAt
  <2> QED BY <1>2, <2>1 DEF SetValue, Commands
<1>3. CASE ~(Sets(op) /\ i <= 5) /\ op = "write" /\ i = 5 * RomReads + 6
  BY <1>3 DEF CommandAt, Commands
<1>4. CASE ~(Sets(op) /\ i <= 5) /\ ~(op = "write" /\ i = 5 * RomReads + 6) /\ Reads(op)
  <2>1. ReadsAt(op, i) /\ CommandAt(op, i) = GetValue[Turn(op, i) + 1]
    BY <1>4 DEF CommandAt, ReadsAt, Before, Sets, Reads, Length
  <2>2. i \in Nat /\ i - Before(op) - 1 \in Int
    BY <1>1 DEF Length, Before, RomCalls
  <2>3. Turn(op, i) \in 0..4
    BY <2>2 DEF Turn
  <2> QED BY <2>1, <2>3 DEF GetValue, Commands
<1>5. CASE ~(Sets(op) /\ i <= 5) /\ ~Reads(op)
  <2>1. Erases(op) /\ i - Before(op) \in 1..3 /\ CommandAt(op, i) = EraseAll[i - Before(op)]
    BY <1>5 DEF RomCalls, CommandAt, Sets, Reads, Erases, Before, Length
  <2> QED BY <2>1 DEF EraseAll, Commands
<1> QED BY <1>2, <1>3, <1>4, <1>5

\* From one step to the next.
LEMMA NextTurn ==
  ASSUME NEW op \in RomCalls, NEW i \in 1..Length(op)
  PROVE  /\ ReadsAt(op, i) /\ ReadsAt(op, i + 1) => Turn(op, i + 1) = (Turn(op, i) + 1) % 5
         /\ i < Length(op) /\ ~ReadsAt(op, i) /\ ReadsAt(op, i + 1) => Turn(op, i + 1) = 0
         /\ Reads(op) /\ i - Before(op) \in 1..5 => Turn(op, i) = i - Before(op) - 1
         /\ ReadsAt(op, i) /\ Turn(op, i) < 4 => i + 1 <= Length(op) /\ ReadsAt(op, i + 1)
<1>1. 5 * RomReads \in Nat /\ 5 * RomReads >= 5 /\ RomReads \in Nat
  BY RomAssumption
<1>2. i \in Nat /\ i >= 1 /\ Before(op) \in {0, 5}
  BY <1>1 DEF Length, Before, RomCalls
<1>3. \A k \in Nat : (k + 1) % 5 = ((k % 5) + 1) % 5
  OBVIOUS
<1>4. ReadsAt(op, i) => i - Before(op) - 1 \in Nat /\ i + 1 - Before(op) - 1 = (i - Before(op) - 1) + 1
  BY <1>2 DEF ReadsAt
<1>5. ASSUME ReadsAt(op, i)
      PROVE  Turn(op, i + 1) = (Turn(op, i) + 1) % 5
  <2>1. PICK k \in Nat : k = i - Before(op) - 1
    BY <1>4, <1>5
  <2>2. Turn(op, i) = k % 5 /\ Turn(op, i + 1) = (k + 1) % 5
    BY <1>2, <1>4, <1>5, <2>1 DEF Turn
  <2> QED BY <1>3, <2>2
<1>6. ASSUME i < Length(op), ~ReadsAt(op, i), ReadsAt(op, i + 1)
      PROVE  Turn(op, i + 1) = 0
  <2>1. i + 1 - Before(op) - 1 = 0
    <3>1. CASE op = "write"
      BY <1>1, <1>2, <1>6, <3>1 DEF ReadsAt, Length, Before, Reads
    <3>2. CASE op \in {"get", "read"}
      BY <1>1, <1>2, <1>6, <3>2 DEF ReadsAt, Length, Before, Reads
    <3> QED BY <1>6, <3>1, <3>2 DEF ReadsAt, Reads
  <2>2. 0 % 5 = 0
    OBVIOUS
  <2> QED BY <1>2, <2>1, <2>2 DEF Turn
<1>7. ASSUME Reads(op), i - Before(op) \in 1..5
      PROVE  Turn(op, i) = i - Before(op) - 1
  BY <1>2, <1>7 DEF Turn
<1>8. ASSUME ReadsAt(op, i), Turn(op, i) < 4
      PROVE  i + 1 <= Length(op) /\ ReadsAt(op, i + 1)
  <2>1. ASSUME NEW k \in Nat, NEW n \in Nat, k % 5 < 4, k < 5 * n
        PROVE  k + 1 < 5 * n
    BY <2>1
  <2>2. CASE op = "get"
    BY <1>2, <1>8, <2>2 DEF ReadsAt, Turn, Before, Length, Reads
  <2>3. CASE op = "read"
    <3>1. i - 1 \in Nat /\ (i - 1) % 5 < 4 /\ i - 1 < 5 * RomReads
      BY <1>1, <1>2, <1>8, <2>3 DEF Turn, Before, Length
    <3>2. i - 1 + 1 < 5 * RomReads
      BY <1>1, <2>1, <3>1
    <3> QED BY <1>1, <1>2, <2>3, <3>2 DEF ReadsAt, Before, Length, Reads
  <2>4. CASE op = "write"
    <3>1. i - 6 \in Nat /\ (i - 6) % 5 < 4 /\ i - 6 < 5 * RomReads
      BY <1>1, <1>2, <1>8, <2>4 DEF Turn, Before, Length, ReadsAt
    <3>2. i - 6 + 1 < 5 * RomReads
      BY <1>1, <2>1, <3>1
    <3> QED BY <1>1, <1>2, <2>4, <3>1, <3>2 DEF ReadsAt, Before, Length, Reads
  <2> QED BY <1>8, <2>2, <2>3, <2>4 DEF ReadsAt, Reads
<1> QED BY <1>5, <1>6, <1>7, <1>8

\* After access was enabled, the program disables it.
LEMMA DisableFollows ==
  ASSUME NEW op \in RomCalls, NEW i \in 1..Length(op), CommandAt(op, i) = "enable"
  PROVE  \E j \in (i + 1)..Length(op) : CommandAt(op, j) = "disable"
<1>1. 5 * RomReads \in Nat /\ 5 * RomReads >= 5 /\ i \in Nat
  BY RomAssumption DEF Length, RomCalls
<1>2. CASE Sets(op) /\ i = 2
  <2>1. 5 \in (i + 1)..Length(op)
    BY <1>1, <1>2 DEF Sets, Length
  <2>2. CommandAt(op, 5) = "disable"
    BY <1>2 DEF CommandAt, SetValue
  <2> QED BY <2>1, <2>2
<1>3. CASE ReadsAt(op, i) /\ Turn(op, i) = 0
  <2>1. i + 1 \in 1..Length(op) /\ ReadsAt(op, i + 1) /\ Turn(op, i + 1) = 1
    BY <1>1, <1>3, NextTurn
  <2>2. i + 1 + 1 \in 1..Length(op) /\ ReadsAt(op, i + 1 + 1) /\ Turn(op, i + 1 + 1) = 2
    BY <1>1, <2>1, NextTurn
  <2>3. i + 1 + 1 + 1 \in 1..Length(op) /\ ReadsAt(op, i + 1 + 1 + 1) /\ Turn(op, i + 1 + 1 + 1) = 3
    BY <1>1, <2>2, NextTurn
  <2>4. CommandAt(op, i + 1 + 1 + 1) = "disable"
    BY <1>1, <2>3 DEF CommandAt, ReadsAt, GetValue, Before, Sets, Reads
  <2> QED BY <1>1, <2>3, <2>4
<1>4. CASE Erases(op) /\ i - Before(op) = 1
  <2>1. i + 2 \in (i + 1)..Length(op)
    BY <1>1, <1>4 DEF Erases, Length, Before
  <2>2. CommandAt(op, i + 2) = "disable"
    BY <1>1, <1>4 DEF CommandAt, EraseAll, Erases, Sets, Reads, Before
  <2> QED BY <2>1, <2>2
<1> QED BY <1>2, <1>3, <1>4, CommandPlaces

Calls == [op : RomCalls \cup RomEnds, step : Nat, val : RomValues, seen : RomValues, tries : Nat]

\* A call that goes on is still a call.
LEMMA CallsChange ==
  ASSUME NEW c \in Calls, NEW n \in Nat, NEW v \in RomValues
  PROVE  /\ [c EXCEPT !.step = n, !.seen = v] \in Calls
         /\ [c EXCEPT !.step = 1, !.tries = n] \in Calls
         /\ [c EXCEPT !.step = 1, !.tries = n].op = c.op
         /\ [c EXCEPT !.step = 1, !.tries = n].step = 1
<1>1. [c EXCEPT !.step = n, !.seen = v] \in Calls
  BY DEF Calls
<1>2. [c EXCEPT !.step = 1, !.tries = n] \in Calls
  BY DEF Calls
<1>3. [c EXCEPT !.step = 1, !.tries = n].op = c.op /\ [c EXCEPT !.step = 1, !.tries = n].step = 1
  BY DEF Calls
<1> QED BY <1>1, <1>2, <1>3

RomShape ==
  /\ romCall \in [RomUsers -> Calls]
  /\ \A p \in Active : romCall[p].step \in 1..Length(romCall[p].op)
  /\ romRegister \in RomValues /\ romCell \in RomValues
  /\ romOpen \in BOOLEAN /\ romAddress \in BOOLEAN

\* Who is inside a call and will disable access.
OpenInv ==
  romOpen => \E p \in Active : \E j \in romCall[p].step..Length(romCall[p].op) :
               CommandAt(romCall[p].op, j) = "disable"

\* What the device holds at each step of a call that nobody meets.
Holds(op, i, val, seen) ==
  /\ Sets(op) =>
       /\ i \in {2, 3, 4} => romRegister = val
       /\ i \in {3, 4} => romOpen
       /\ i = 4 => romAddress
       /\ i >= 5 => romCell = val
  /\ ReadsAt(op, i) =>
       /\ Turn(op, i) \in {1, 2} => romOpen
       /\ Turn(op, i) = 2 => romAddress
       /\ Turn(op, i) \in {3, 4} => romRegister = romCell
  /\ Reads(op) /\ i - Before(op) >= 6 => seen = romCell
  /\ Erases(op) =>
       /\ i - Before(op) = 2 => romOpen
       /\ i - Before(op) >= 3 => romCell = 0
  /\ op \notin {"set", "write"} => val = 0

\* A call that nobody met is the only one, and its end is the last thing that was done.
ServedInv ==
  \A p \in RomUsers \ romMixed :
    /\ romCall[p].op # "failed"
    /\ romCall[p].op = "ok" => Active = {} /\ romCell = romCall[p].val
    /\ p \in Active => Active = {p} /\ Holds(romCall[p].op, romCall[p].step, romCall[p].val, romCall[p].seen)

RomInv == RomShape /\ OpenInv /\ ServedInv

\* What a command does to the device.
RomEffect(cmd, v) ==
  /\ romRegister' = IF cmd = "latch" THEN v
                    ELSE IF cmd = "read" /\ romOpen /\ romAddress THEN romCell ELSE romRegister
  /\ romCell' = IF cmd = "write" /\ romOpen /\ romAddress THEN romRegister
                ELSE IF cmd = "erase" /\ romOpen THEN 0 ELSE romCell
  /\ romOpen' <=> (cmd = "enable" \/ (cmd # "disable" /\ romOpen))
  /\ romAddress' <=> IF cmd = "address" THEN romOpen ELSE cmd \notin {"enable", "disable"} /\ romAddress

\* A call that is alone goes on as it should, or ends with what was asked for.
LEMMA Served ==
  ASSUME NEW op \in RomCalls, NEW i \in 1..Length(op), NEW val, NEW seen, NEW next,
         NEW cmd \in Commands, cmd = CommandAt(op, i), cmd # "compare",
         Holds(op, i, val, seen), RomEffect(cmd, val),
         next = IF cmd = "fetch" THEN romRegister ELSE seen
  PROVE  /\ i < Length(op) => Holds(op, i + 1, val, next)'
         /\ i = Length(op) => romCell' = IF cmd = "fetch" THEN romRegister ELSE val
<1>1. 5 * RomReads \in Nat /\ 5 * RomReads >= 5
  BY RomAssumption
<1>2. i \in Nat /\ i >= 1 /\ Length(op) \in Nat /\ Before(op) \in {0, 5}
  BY ProgramCommands DEF Before
<1>3. /\ cmd = "latch" => Sets(op) /\ i = 1
      /\ cmd = "enable" =>
            \/ Sets(op) /\ i = 2
            \/ ReadsAt(op, i) /\ Turn(op, i) = 0
            \/ Erases(op) /\ i - Before(op) = 1
      /\ cmd = "address" =>
            (Sets(op) /\ i = 3) \/ (ReadsAt(op, i) /\ Turn(op, i) = 1)
      /\ cmd = "write" => Sets(op) /\ i = 4
      /\ cmd = "read" => ReadsAt(op, i) /\ Turn(op, i) = 2
      /\ cmd = "erase" => Erases(op) /\ i - Before(op) = 2
      /\ cmd = "disable" =>
            \/ Sets(op) /\ i = 5
            \/ ReadsAt(op, i) /\ Turn(op, i) = 3
            \/ Erases(op) /\ i - Before(op) = 3
      /\ cmd = "fetch" => ReadsAt(op, i) /\ Turn(op, i) = 4
  BY <1>2, CommandPlaces
<1>4. /\ ReadsAt(op, i) => Reads(op) /\ i > Before(op)
      /\ ReadsAt(op, i + 1) => Reads(op) /\ i + 1 > Before(op)
      /\ Reads(op) /\ Sets(op) => op = "write" /\ Before(op) = 5
      /\ Reads(op) => ~Erases(op)
      /\ Erases(op) => op \notin {"set", "write"}
      /\ Erases(op) /\ Sets(op) => Before(op) = 5
      /\ Erases(op) /\ ~Sets(op) => Before(op) = 0
      /\ op = "set" => Sets(op) /\ ~Reads(op) /\ ~Erases(op) /\ Length(op) = 5
  BY DEF ReadsAt, Reads, Sets, Erases, Before, Length
<1>5. ASSUME i < Length(op)
      PROVE  Holds(op, i + 1, val, next)'
  <2>1. \/ ~ReadsAt(op, i + 1)
        \/ ReadsAt(op, i) /\ Turn(op, i + 1) = (Turn(op, i) + 1) % 5
        \/ ~ReadsAt(op, i) /\ Turn(op, i + 1) = 0
    BY <1>5, NextTurn
  <2>2. Reads(op) /\ i - Before(op) \in 1..5 => Turn(op, i) = i - Before(op) - 1
    BY NextTurn
  <2>3. CASE cmd = "latch"
    BY <1>2, <1>3, <1>4, <1>5, <2>1, <2>2, <2>3, SMTT(30) DEF RomEffect, Holds
  <2>4. CASE cmd = "enable"
    BY <1>2, <1>3, <1>4, <1>5, <2>1, <2>2, <2>4, SMTT(30) DEF RomEffect, Holds
  <2>5. CASE cmd = "address"
    BY <1>2, <1>3, <1>4, <1>5, <2>1, <2>2, <2>5, SMTT(30) DEF RomEffect, Holds
  <2>6. CASE cmd = "write"
    BY <1>2, <1>3, <1>4, <1>5, <2>1, <2>2, <2>6, SMTT(30) DEF RomEffect, Holds
  <2>7. CASE cmd = "read"
    BY <1>2, <1>3, <1>4, <1>5, <2>1, <2>2, <2>7, SMTT(30) DEF RomEffect, Holds
  <2>8. CASE cmd = "erase"
    BY <1>2, <1>3, <1>4, <1>5, <2>1, <2>2, <2>8, SMTT(30) DEF RomEffect, Holds
  <2>9. CASE cmd = "disable"
    BY <1>2, <1>3, <1>4, <1>5, <2>1, <2>2, <2>9, SMTT(30) DEF RomEffect, Holds
  <2>10. CASE cmd = "fetch"
    BY <1>2, <1>3, <1>4, <1>5, <2>1, <2>2, <2>10, SMTT(30) DEF RomEffect, Holds
  <2> QED BY <2>3, <2>4, <2>5, <2>6, <2>7, <2>8, <2>9, <2>10 DEF Commands
<1>6. ASSUME i = Length(op)
      PROVE  romCell' = IF cmd = "fetch" THEN romRegister ELSE val
  <2>1. CASE op = "set"
    <3>1. cmd = "disable"
      BY <1>6, <2>1 DEF CommandAt, Sets, Length, SetValue
    <3>2. romCell = val
      BY <1>6, <2>1 DEF Holds, Sets, Length
    <3> QED BY <3>1, <3>2 DEF RomEffect
  <2>2. CASE op \in {"get", "read"}
    <3>1. ASSUME NEW n \in Nat, n >= 1
          PROVE  (5 * n - 0 - 1) % 5 = 4
      BY <3>1
    <3>2. (5 - 0 - 1) % 5 = 4
      OBVIOUS
    <3>3. Turn(op, i) = 4
      BY <1>1, <1>6, <2>2, <3>1, <3>2, RomAssumption DEF Turn, Length, Before
    <3>4. ReadsAt(op, i)
      BY <1>1, <1>6, <2>2 DEF ReadsAt, Reads, Length, Before
    <3>5. cmd = "fetch"
      BY <2>2, <3>3 DEF CommandAt, Sets, Reads, GetValue
    <3>6. romRegister = romCell
      BY <3>3, <3>4 DEF Holds
    <3> QED BY <3>5, <3>6 DEF RomEffect
  <2>3. CASE op \in {"erase", "clear"}
    <3>1. i - Before(op) = 3 /\ ~(Sets(op) /\ i <= 5)
      BY <1>6, <2>3 DEF Length, Before, Sets
    <3>2. cmd = "disable"
      BY <2>3, <3>1 DEF CommandAt, Reads, EraseAll
    <3>3. romCell = 0 /\ val = 0
      BY <2>3, <3>1 DEF Holds, Erases
    <3> QED BY <3>2, <3>3 DEF RomEffect
  <2>4. CASE op = "write"
    BY <1>1, <1>6, <2>4 DEF CommandAt, Length, Sets
  <2> QED BY <2>1, <2>2, <2>3, <2>4 DEF RomCalls
<1> QED BY <1>5, <1>6

\* A command of a caller keeps the invariant.
LEMMA RomActs ==
  ASSUME RomInv, NEW p \in Active, NEW cmd \in Commands \ {"compare"}, NEW next \in RomValues,
         cmd = CommandAt(romCall[p].op, romCall[p].step),
         RomEffect(cmd, romCall[p].val), romMixed' = romMixed,
         next = IF cmd = "fetch" THEN romRegister ELSE romCall[p].seen,
         romRegister' \in RomValues, romCell' \in RomValues,
         romOpen' \in BOOLEAN, romAddress' \in BOOLEAN,
         romCall' = [romCall EXCEPT ![p] =
                       IF romCall[p].step < Length(romCall[p].op)
                       THEN [romCall[p] EXCEPT !.step = @ + 1, !.seen = next]
                       ELSE RomCallOf("ok", IF cmd = "fetch" THEN romRegister ELSE romCall[p].val)]
  PROVE  RomInv'
<1> DEFINE c == romCall[p]
           last == IF cmd = "fetch" THEN romRegister ELSE c.val
<1>1. /\ p \in RomUsers /\ c \in Calls /\ c.op \in RomCalls /\ c.step \in 1..Length(c.op)
      /\ Length(c.op) \in Nat /\ last \in RomValues /\ 0 \in RomValues
  BY ProgramCommands, RomAssumption DEF RomInv, RomShape, Active, Calls
<1>2. /\ \A q \in RomUsers : q # p => romCall'[q] = romCall[q]
      /\ c.step < Length(c.op) =>
           /\ romCall'[p] \in Calls /\ romCall'[p].op = c.op /\ romCall'[p].step = c.step + 1
           /\ romCall'[p].val = c.val /\ romCall'[p].seen = next
      /\ c.step = Length(c.op) =>
           /\ romCall'[p] \in Calls /\ romCall'[p].op = "ok" /\ romCall'[p].val = last
      /\ romCall' \in [RomUsers -> Calls]
  <2>1. romCall \in [RomUsers -> Calls] /\ c.step \in Nat
    BY <1>1 DEF RomInv, RomShape
  <2>2. ASSUME c.step < Length(c.op)
        PROVE  /\ romCall'[p] = [c EXCEPT !.step = c.step + 1, !.seen = next]
               /\ romCall' = [romCall EXCEPT ![p] = [c EXCEPT !.step = c.step + 1, !.seen = next]]
    BY <1>1, <2>1, <2>2
  <2>3. ASSUME c.step = Length(c.op)
        PROVE  /\ romCall'[p] = RomCallOf("ok", last)
               /\ romCall' = [romCall EXCEPT ![p] = RomCallOf("ok", last)]
    <3>1. ~(c.step < Length(c.op))
      BY <1>1, <2>1, <2>3
    <3>2. romCall' = [romCall EXCEPT ![p] = IF c.step < Length(c.op)
                                            THEN [c EXCEPT !.step = c.step + 1, !.seen = next]
                                            ELSE RomCallOf("ok", last)]
      OBVIOUS
    <3>3. (IF c.step < Length(c.op) THEN [c EXCEPT !.step = c.step + 1, !.seen = next]
           ELSE RomCallOf("ok", last)) = RomCallOf("ok", last)
      BY <3>1
    <3>4. romCall' = [romCall EXCEPT ![p] = RomCallOf("ok", last)]
      BY <3>2, <3>3
    <3> QED BY <1>1, <2>1, <3>4
  <2>4. [c EXCEPT !.step = c.step + 1, !.seen = next] \in Calls
    <3>1. c \in Calls /\ c.step + 1 \in Nat /\ next \in RomValues
      BY <1>1, <2>1
    <3> HIDE DEF c
    <3> QED BY <3>1, CallsChange
  <2>5. RomCallOf("ok", last) \in Calls
    BY <1>1 DEF Calls, RomCallOf, RomEnds
  <2>6. c.step < Length(c.op) \/ c.step = Length(c.op)
    BY <1>1
  <2>7. RomCallOf("ok", last).op = "ok" /\ RomCallOf("ok", last).val = last
    BY DEF RomCallOf
  <2>8. \A q \in RomUsers : q # p => romCall'[q] = romCall[q]
    BY <2>1
  <2>9. \A x \in Calls : [romCall EXCEPT ![p] = x] \in [RomUsers -> Calls]
    BY <2>1
  <2>10. LET x == [c EXCEPT !.step = c.step + 1, !.seen = next]
         IN  x.op = c.op /\ x.step = c.step + 1 /\ x.val = c.val /\ x.seen = next
    BY <1>1 DEF Calls
  <2> QED BY <2>2, <2>3, <2>4, <2>5, <2>6, <2>7, <2>8, <2>9, <2>10
<1>3. /\ c.step < Length(c.op) => Active' = Active
      /\ c.step = Length(c.op) => Active' = Active \ {p}
  BY <1>1, <1>2 DEF Active, RomEnds, RomCalls
<1>4. RomShape'
  <2>1. ASSUME NEW q \in Active'
        PROVE  romCall'[q].step \in 1..Length(romCall'[q].op)
    BY <1>1, <1>2, <1>3, <2>1 DEF RomInv, RomShape, Active
  <2> QED BY <1>2, <2>1 DEF RomShape
<1>5. OpenInv'
  <2> SUFFICES ASSUME romOpen'
               PROVE  \E q \in Active' : \E j \in romCall'[q].step..Length(romCall'[q].op) :
                        CommandAt(romCall'[q].op, j) = "disable"
    BY DEF OpenInv, CommandAt, Length, Sets, Reads, Turn, Before
  <2>1. CASE cmd = "enable"
    <3>1. PICK j \in (c.step + 1)..Length(c.op) : CommandAt(c.op, j) = "disable"
      BY <1>1, <2>1, DisableFollows
    <3>2. c.step < Length(c.op)
      BY <1>1, <3>1
    <3> QED BY <1>2, <1>3, <3>1, <3>2
  <2>2. CASE cmd # "enable"
    <3>1. romOpen /\ cmd # "disable"
      BY <2>2 DEF RomEffect
    <3>2. PICK q \in Active : \E j \in romCall[q].step..Length(romCall[q].op) :
                 CommandAt(romCall[q].op, j) = "disable"
      BY <3>1 DEF RomInv, OpenInv
    <3>3. CASE q = p
      <4>1. PICK j \in c.step..Length(c.op) : CommandAt(c.op, j) = "disable"
        BY <3>2, <3>3
      <4>2. j \in (c.step + 1)..Length(c.op) /\ c.step < Length(c.op)
        BY <1>1, <3>1, <4>1
      <4> QED BY <1>2, <1>3, <4>1, <4>2
    <3>4. CASE q # p
      <4>1. q \in Active' /\ romCall'[q] = romCall[q]
        BY <1>1, <1>2, <1>3, <3>4 DEF Active
      <4> QED BY <3>2, <4>1
    <3> QED BY <3>3, <3>4
  <2> QED BY <2>1, <2>2
<1>6. ServedInv'
  <2> SUFFICES ASSUME NEW q \in RomUsers \ romMixed
               PROVE  /\ romCall'[q].op # "failed"
                      /\ romCall'[q].op = "ok" => Active' = {} /\ romCell' = romCall'[q].val
                      /\ q \in Active' =>
                           /\ Active' = {q}
                           /\ Holds(romCall[q].op, romCall[q].step, romCall[q].val, romCall[q].seen)'
    BY DEF ServedInv
  <2>1. CASE q = p
    <3>1. Active = {p} /\ Holds(c.op, c.step, c.val, c.seen)
      BY <2>1 DEF RomInv, ServedInv
    <3>2. \A op \in RomCalls : \A i \in 1..Length(op) : \A val, seen :
             /\ cmd = CommandAt(op, i) /\ Holds(op, i, val, seen) /\ RomEffect(cmd, val)
             /\ next = IF cmd = "fetch" THEN romRegister ELSE seen
             => /\ i < Length(op) => Holds(op, i + 1, val, next)'
                /\ i = Length(op) => romCell' = IF cmd = "fetch" THEN romRegister ELSE val
      BY Served
    <3>3. CASE c.step < Length(c.op)
      <4>1. Active' = {q} /\ romCall'[q].op = c.op
        BY <1>2, <1>3, <2>1, <3>1, <3>3
      <4>2. PICK op, i, val, seen : op = c.op /\ i = c.step /\ val = c.val /\ seen = c.seen
        OBVIOUS
      <4>3. Holds(op, i + 1, val, next)'
        BY <1>1, <3>1, <3>2, <3>3, <4>2
      <4>4. /\ op = romCall'[q].op /\ i + 1 = romCall'[q].step
            /\ val = romCall'[q].val /\ next = romCall'[q].seen
        BY <1>2, <2>1, <3>3, <4>2
      <4>5. Holds(romCall[q].op, romCall[q].step, romCall[q].val, romCall[q].seen)'
        BY <4>3, <4>4 DEF Holds, ReadsAt, Turn, Sets, Reads, Erases, Before
      <4> QED BY <1>1, <4>1, <4>5 DEF RomCalls
    <3>4. CASE c.step = Length(c.op)
      <4>1. romCell' = last
        BY <1>1, <3>1, <3>2, <3>4
      <4>2. Active' = {} /\ romCall'[q].op = "ok" /\ romCall'[q].val = last
        BY <1>2, <1>3, <2>1, <3>1, <3>4
      <4> QED BY <4>1, <4>2
    <3> QED BY <1>1, <3>3, <3>4
  <2>2. CASE q # p
    <3>1. q \notin Active /\ romCall[q].op \notin {"ok", "failed"}
      BY <2>2 DEF RomInv, ServedInv
    <3>2. romCall'[q] = romCall[q] /\ q \notin Active'
      BY <1>2, <2>2, <3>1 DEF Active
    <3> QED BY <3>1, <3>2
  <2> QED BY <2>1, <2>2
<1> QED BY <1>4, <1>5, <1>6 DEF RomInv

\* The end of a verified write.
LEMMA RomCompares ==
  ASSUME RomInv, NEW p \in Active, Compare(p)
  PROVE  RomInv'
<1> DEFINE c == romCall[p]
<1>1. /\ p \in RomUsers /\ c \in Calls /\ c.op \in RomCalls /\ c.step \in 1..Length(c.op)
      /\ Length(c.op) \in Nat /\ 1 \in 1..Length(c.op)
  <2>1. p \in RomUsers /\ c \in Calls /\ c.op \in RomCalls /\ c.step \in 1..Length(c.op)
    BY DEF RomInv, RomShape, Active, Calls
  <2>2. Length(c.op) \in Nat \ {0}
    BY <2>1, ProgramCommands
  <2> QED BY <2>1, <2>2
<1>2. CommandAt(c.op, c.step) = "compare"
  BY <1>1, ProgramCommands DEF Compare, Command
<1>3. c.op = "write" /\ c.step = 5 * RomReads + 6 /\ Length(c.op) = 5 * RomReads + 6
  BY <1>1, <1>2, CommandPlaces DEF Length
<1>4. /\ \A q \in RomUsers : q # p => romCall'[q] = romCall[q]
      /\ romCall' \in [RomUsers -> Calls]
      /\ \/ c.seen = c.val /\ romCall'[p].op = "ok" /\ romCall'[p].val = c.val
         \/ c.seen # c.val /\ romCall'[p].op = "failed"
         \/ c.seen # c.val /\ romCall'[p].op = c.op /\ romCall'[p].step = 1
  <2>1. romCall \in [RomUsers -> Calls]
    BY DEF RomInv, RomShape
  <2>2. /\ RomCallOf("ok", c.val) \in Calls /\ RomCallOf("failed", c.val) \in Calls
        /\ RomCallOf("ok", c.val).op = "ok" /\ RomCallOf("ok", c.val).val = c.val
        /\ RomCallOf("failed", c.val).op = "failed"
    BY <1>1, RomAssumption DEF Calls, RomCallOf, RomEnds
  <2>3. LET x == [c EXCEPT !.step = 1, !.tries = c.tries + 1]
        IN  x \in Calls /\ x.op = c.op /\ x.step = 1
    <3>1. c \in Calls /\ c.tries + 1 \in Nat /\ c.val \in RomValues
      BY <1>1 DEF Calls
    <3> HIDE DEF c
    <3> QED BY <3>1, CallsChange
  <2>4. \/ c.seen = c.val /\ romCall' = [romCall EXCEPT ![p] = RomCallOf("ok", c.val)]
        \/ c.seen # c.val /\ romCall' = [romCall EXCEPT ![p] = RomCallOf("failed", c.val)]
        \/ c.seen # c.val /\ romCall' = [romCall EXCEPT ![p] = [c EXCEPT !.step = 1, !.tries = c.tries + 1]]
    BY DEF Compare
  <2>5. \A x : [romCall EXCEPT ![p] = x][p] = x /\ \A q \in RomUsers : q # p => [romCall EXCEPT ![p] = x][q] = romCall[q]
    BY <1>1, <2>1
  <2>6. \A x \in Calls : [romCall EXCEPT ![p] = x] \in [RomUsers -> Calls]
    BY <2>1
  <2> QED BY <2>2, <2>3, <2>4, <2>5, <2>6
<1>5. /\ UNCHANGED <<romRegister, romCell, romOpen, romAddress, romMixed>>
      /\ romCall'[p].op = c.op => Active' = Active
      /\ romCall'[p].op # c.op => Active' = Active \ {p}
  BY <1>1, <1>3, <1>4 DEF Compare, Active, RomEnds
<1>6. RomShape'
  <2>1. ASSUME NEW q \in Active'
        PROVE  romCall'[q].step \in 1..Length(romCall'[q].op)
    BY <1>1, <1>3, <1>4, <1>5, <2>1 DEF RomInv, RomShape, Active, RomEnds
  <2> QED BY <1>4, <1>5, <2>1 DEF RomShape, RomInv
<1>7. OpenInv'
  <2> SUFFICES ASSUME romOpen
               PROVE  \E q \in Active' : \E j \in romCall'[q].step..Length(romCall'[q].op) :
                        CommandAt(romCall'[q].op, j) = "disable"
    BY <1>5 DEF OpenInv, CommandAt, Length, Sets, Reads, Turn, Before
  <2>1. PICK q \in Active : \E j \in romCall[q].step..Length(romCall[q].op) :
               CommandAt(romCall[q].op, j) = "disable"
    BY DEF RomInv, OpenInv
  <2>2. q # p
    <3> SUFFICES ASSUME q = p PROVE FALSE
      OBVIOUS
    <3>1. PICK j \in c.step..Length(c.op) : CommandAt(c.op, j) = "disable"
      BY <2>1
    <3>2. j = c.step
      BY <1>1, <1>3, <3>1
    <3> QED BY <1>2, <3>1, <3>2
  <2>3. q \in Active' /\ romCall'[q] = romCall[q]
    BY <1>4, <1>5, <2>2 DEF Active
  <2> QED BY <2>1, <2>3
<1>8. ServedInv'
  <2> SUFFICES ASSUME NEW q \in RomUsers \ romMixed
               PROVE  /\ romCall'[q].op # "failed"
                      /\ romCall'[q].op = "ok" => Active' = {} /\ romCell = romCall'[q].val
                      /\ q \notin Active'
    BY <1>5 DEF ServedInv
  <2>1. CASE q = p
    <3>1. Active = {p} /\ Holds(c.op, c.step, c.val, c.seen)
      BY <2>1 DEF RomInv, ServedInv
    <3>2. 5 * RomReads \in Nat /\ 5 * RomReads >= 5
      BY RomAssumption
    <3>3. c.seen = romCell /\ romCell = c.val
      BY <1>3, <3>1, <3>2 DEF Holds, Sets, Reads, Before
    <3> QED BY <1>3, <1>4, <1>5, <2>1, <3>1, <3>3
  <2>2. CASE q # p
    <3>1. q \notin Active /\ romCall[q].op \notin {"ok", "failed"}
      BY <2>2 DEF RomInv, ServedInv
    <3> QED BY <1>4, <1>5, <2>2, <3>1
  <2> QED BY <2>1, <2>2
<1> QED BY <1>6, <1>7, <1>8 DEF RomInv

\* A call begins.
LEMMA RomBegins ==
  ASSUME RomInv, NEW p \in RomUsers, RomBegin(p)
  PROVE  RomInv'
<1>1. PICK op \in RomCalls, v \in RomValues :
        /\ op \in {"get", "read", "erase", "clear"} => v = 0
        /\ romCall' = [q \in RomUsers |->
                         IF q = p THEN RomCallOf(op, v)
                         ELSE IF q \in Active THEN romCall[q] ELSE RomCallOf("idle", 0)]
  BY DEF RomBegin
<1>2. /\ p \notin Active /\ UNCHANGED <<romRegister, romCell, romOpen, romAddress>>
      /\ romMixed' = IF Active = {} THEN romMixed \ {p} ELSE romMixed \cup Active \cup {p}
  BY DEF RomBegin
<1>3. /\ romCall'[p] = RomCallOf(op, v)
      /\ \A q \in Active : romCall'[q] = romCall[q]
      /\ \A q \in RomUsers \ Active : q # p => romCall'[q] = RomCallOf("idle", 0)
  BY <1>1, <1>2 DEF Active
<1>4. /\ RomCallOf(op, v) \in Calls /\ RomCallOf("idle", 0) \in Calls
      /\ RomCallOf(op, v).op = op /\ RomCallOf(op, v).step = 1 /\ RomCallOf(op, v).val = v
      /\ RomCallOf("idle", 0).op = "idle"
  BY RomAssumption DEF Calls, RomCallOf, RomEnds
<1>5. Active' = Active \cup {p}
  BY <1>3, <1>4 DEF Active, RomEnds, RomCalls
<1>6. RomShape'
  <2>1. romCall' \in [RomUsers -> Calls]
    BY <1>1, <1>4 DEF RomInv, RomShape
  <2>2. 1 \in 1..Length(op)
    BY ProgramCommands
  <2>3. \A q \in Active' : romCall'[q].step \in 1..Length(romCall'[q].op)
    BY <1>3, <1>4, <1>5, <2>2 DEF RomInv, RomShape
  <2> QED BY <1>2, <2>1, <2>3 DEF RomShape, RomInv
<1>7. OpenInv'
  <2> SUFFICES ASSUME romOpen
               PROVE  \E q \in Active' : \E j \in romCall'[q].step..Length(romCall'[q].op) :
                        CommandAt(romCall'[q].op, j) = "disable"
    BY <1>2 DEF OpenInv, CommandAt, Length, Sets, Reads, Turn, Before
  <2>1. PICK q \in Active : \E j \in romCall[q].step..Length(romCall[q].op) :
               CommandAt(romCall[q].op, j) = "disable"
    BY DEF RomInv, OpenInv
  <2> QED BY <1>3, <1>5, <2>1
<1>8. ServedInv'
  <2> SUFFICES ASSUME NEW q \in RomUsers \ romMixed'
               PROVE  /\ romCall'[q].op \notin {"ok", "failed"}
                      /\ q \in Active' =>
                           /\ Active' = {q}
                           /\ Holds(romCall[q].op, romCall[q].step, romCall[q].val, romCall[q].seen)'
    BY DEF ServedInv
  <2>1. CASE q = p
    <3>1. Active' = {q}
      BY <1>2, <1>5, <2>1
    <3>2. PICK i, seen : i = romCall'[q].step /\ seen = romCall'[q].seen
      OBVIOUS
    <3>3. i = 1 /\ romCall'[q].op = op /\ romCall'[q].val = v
      BY <1>3, <1>4, <2>1, <3>2
    <3>4. Holds(op, i, v, seen)'
      <4>1. Before(op) \in {0, 5} /\ (Before(op) = 5 <=> op \in {"write", "clear"})
        BY DEF Before
      <4>2. op \in {"get", "read"} => Turn(op, i) = 0
        BY <3>3 DEF Turn, Before
      <4>3. op \notin {"set", "write"} => v = 0
        BY <1>1 DEF RomCalls
      <4>4. ReadsAt(op, i) => op \in {"get", "read"}
        BY <3>3, <4>1 DEF ReadsAt, Reads
      <4> QED BY <3>3, <4>1, <4>2, <4>3, <4>4 DEF Holds, Sets, Erases
    <3>5. Holds(romCall[q].op, romCall[q].step, romCall[q].val, romCall[q].seen)'
      BY <3>2, <3>3, <3>4 DEF Holds, ReadsAt, Turn, Sets, Reads, Erases, Before
    <3> QED BY <1>3, <1>4, <2>1, <3>1, <3>5 DEF RomCalls
  <2>2. CASE q # p
    <3>1. q \notin Active
      BY <1>2
    <3> QED BY <1>3, <1>4, <1>5, <2>2, <3>1
  <2> QED BY <2>1, <2>2
<1> QED BY <1>6, <1>7, <1>8 DEF RomInv

\* Every command, from whichever caller.
LEMMA RomStep ==
  ASSUME RomInv, [RomNext]_romVars
  PROVE  RomInv'
<1>1. CASE UNCHANGED romVars
  <2>1. /\ romCall' = romCall /\ romRegister' = romRegister /\ romCell' = romCell
        /\ romOpen' = romOpen /\ romAddress' = romAddress /\ romMixed' = romMixed
        /\ Active' = Active
    BY <1>1 DEF romVars, Active
  <2>2. RomShape'
    BY <2>1 DEF RomInv, RomShape, Length
  <2>3. OpenInv'
    <3> SUFFICES ASSUME romOpen'
                 PROVE  \E q \in Active' : \E j \in romCall'[q].step..Length(romCall'[q].op) :
                          CommandAt(romCall'[q].op, j) = "disable"
      BY DEF OpenInv, CommandAt, Length, Sets, Reads, Turn, Before
    <3>1. PICK q \in Active : \E j \in romCall[q].step..Length(romCall[q].op) :
                 CommandAt(romCall[q].op, j) = "disable"
      BY <2>1 DEF RomInv, OpenInv
    <3>2. q \in Active' /\ romCall'[q] = romCall[q]
      BY <2>1
    <3> QED BY <3>1, <3>2
  <2>4. ASSUME NEW p \in RomUsers
        PROVE  Holds(romCall[p].op, romCall[p].step, romCall[p].val, romCall[p].seen)' =
               Holds(romCall[p].op, romCall[p].step, romCall[p].val, romCall[p].seen)
    BY <2>1, Zenon DEF Holds, ReadsAt, Turn, Sets, Reads, Erases, Before
  <2>5. ServedInv'
    BY <2>1, <2>4 DEF RomInv, ServedInv
  <2> QED BY <2>2, <2>3, <2>5 DEF RomInv
<1>2. ASSUME NEW p \in RomUsers, RomBegin(p)
      PROVE  RomInv'
  BY <1>2, RomBegins
<1>3. ASSUME NEW p \in RomUsers, Compare(p)
      PROVE  RomInv'
  BY <1>3, RomCompares DEF Compare, Command
<1>4. ASSUME NEW p \in RomUsers, NEW cmd \in Commands, cmd # "compare", Command(p) = cmd,
             RomEffect(cmd, romCall[p].val), romMixed' = romMixed,
             romRegister' \in RomValues, romCell' \in RomValues,
             romOpen' \in BOOLEAN, romAddress' \in BOOLEAN,
             IF cmd = "fetch" THEN Fetch(p) ELSE Advance(p)
      PROVE  RomInv'
  <2>1. p \in Active /\ Program(romCall[p].op)[romCall[p].step] = cmd
    BY <1>4 DEF Command, Commands
  <2>2. romCall[p].op \in RomCalls /\ romCall[p].step \in 1..Length(romCall[p].op) /\ romCall[p] \in Calls
    BY <2>1 DEF RomInv, RomShape, Active, Calls
  <2>3. /\ cmd = CommandAt(romCall[p].op, romCall[p].step)
        /\ Len(Program(romCall[p].op)) = Length(romCall[p].op)
    BY <2>1, <2>2, ProgramCommands
  <2>4. CASE cmd = "fetch"
    <3>1. romCall' = [romCall EXCEPT ![p] =
                        IF romCall[p].step < Length(romCall[p].op)
                        THEN [romCall[p] EXCEPT !.step = @ + 1, !.seen = romRegister]
                        ELSE RomCallOf("ok", romRegister)]
      BY <1>4, <2>3, <2>4 DEF Fetch
    <3>2. romRegister \in RomValues
      BY DEF RomInv, RomShape
    <3> QED BY <1>4, <2>1, <2>3, <2>4, <3>1, <3>2, RomActs
  <2>5. CASE cmd # "fetch"
    <3>1. [romCall[p] EXCEPT !.step = @ + 1] = [romCall[p] EXCEPT !.step = @ + 1, !.seen = romCall[p].seen]
      BY <2>2 DEF Calls
    <3>2. romCall' = [romCall EXCEPT ![p] =
                        IF romCall[p].step < Length(romCall[p].op)
                        THEN [romCall[p] EXCEPT !.step = @ + 1, !.seen = romCall[p].seen]
                        ELSE RomCallOf("ok", romCall[p].val)]
      BY <1>4, <2>3, <2>5, <3>1 DEF Advance
    <3>3. romCall[p].seen \in RomValues
      BY <2>2 DEF Calls
    <3> QED BY <1>4, <2>1, <2>3, <2>5, <3>2, <3>3, RomActs
  <2> QED BY <2>4, <2>5
<1>5. /\ romRegister \in RomValues /\ romCell \in RomValues /\ 0 \in RomValues
      /\ romOpen \in BOOLEAN /\ romAddress \in BOOLEAN
      /\ \A p \in RomUsers : romCall[p].val \in RomValues
  BY RomAssumption DEF RomInv, RomShape, Calls
<1> USE DEF RomWriteCommand, RomEffect, Commands
<1>6. ASSUME NEW p \in RomUsers, Latch(p) PROVE RomInv'
  BY <1>4, <1>5, <1>6 DEF Latch
<1>7. ASSUME NEW p \in RomUsers, Fetch(p) PROVE RomInv'
  <2>1. Command(p) = "fetch" /\ UNCHANGED <<romRegister, romCell, romOpen, romAddress, romMixed>>
    BY <1>7 DEF Fetch
  <2> QED BY <1>4, <1>5, <1>7, <2>1
<1>8. ASSUME NEW p \in RomUsers, Enable(p) PROVE RomInv'
  BY <1>4, <1>5, <1>8 DEF Enable
<1>9. ASSUME NEW p \in RomUsers, Address(p) PROVE RomInv'
  BY <1>4, <1>5, <1>9 DEF Address
<1>10. ASSUME NEW p \in RomUsers, Write(p) PROVE RomInv'
  BY <1>4, <1>5, <1>10 DEF Write
<1>11. ASSUME NEW p \in RomUsers, Read(p) PROVE RomInv'
  BY <1>4, <1>5, <1>11 DEF Read
<1>12. ASSUME NEW p \in RomUsers, Erase(p) PROVE RomInv'
  BY <1>4, <1>5, <1>12 DEF Erase
<1>13. ASSUME NEW p \in RomUsers, Disable(p) PROVE RomInv'
  BY <1>4, <1>5, <1>13 DEF Disable
<1> QED BY <1>1, <1>2, <1>3, <1>6, <1>7, <1>8, <1>9, <1>10, <1>11, <1>12, <1>13 DEF RomNext

\* At the start nobody calls and the EEPROM is closed.
LEMMA RomStart ==
  ASSUME RomInit
  PROVE  RomInv
<1>1. RomCallOf("idle", 0) \in Calls /\ RomCallOf("idle", 0).op = "idle"
  BY RomAssumption DEF RomCallOf, Calls, RomEnds
<1>2. Active = {}
  BY <1>1 DEF RomInit, Active, RomEnds
<1> QED BY <1>1, <1>2, RomAssumption DEF RomInit, RomInv, RomShape, OpenInv, ServedInv

\* However the callers' sequences mix, nobody leaves the EEPROM open, and a caller that
\* nobody met gets what it asked for, for every set of callers, every number of reads of
\* a verify and every number of attempts of a verified write.
THEOREM RomKeptAlways == RomSpec => []RomKept
<1>1. RomInv => RomKept
  BY DEF RomInv, OpenInv, ServedInv, RomKept, RomClosed, RomServed
<1> QED BY RomStart, RomStep, <1>1, PTL DEF RomSpec


\* A verified write has attempts left as long as it runs, and whoever met another caller
\* is one.
TriesInv ==
  /\ \A p \in RomUsers : romCall[p].tries \in Nat /\ romCall[p].tries < RomTries
  /\ romMixed \subseteq RomUsers

\* Every step keeps the attempts.
LEMMA TriesStep ==
  ASSUME RomInv, TriesInv, [RomNext]_romVars
  PROVE  TriesInv'
<1>1. romCall \in [RomUsers -> Calls] /\ RomTries \in Nat /\ 0 < RomTries
  BY RomAssumption DEF RomInv, RomShape
<1>2. CASE UNCHANGED romVars
  BY <1>2 DEF romVars, TriesInv
<1>3. ASSUME NEW p \in RomUsers, RomBegin(p)
      PROVE  TriesInv'
  <2>1. PICK op \in RomCalls, v \in RomValues :
          romCall' = [q \in RomUsers |-> IF q = p THEN RomCallOf(op, v)
                        ELSE IF q \in Active THEN romCall[q] ELSE RomCallOf("idle", 0)]
    BY <1>3 DEF RomBegin
  <2>2. romMixed' \subseteq RomUsers
    BY <1>3 DEF RomBegin, TriesInv, Active
  <2>3. \A q \in RomUsers : romCall'[q].tries = 0 \/ romCall'[q].tries = romCall[q].tries
    BY <2>1 DEF RomCallOf
  <2> QED BY <1>1, <2>2, <2>3 DEF TriesInv
<1>4. ASSUME NEW p \in RomUsers, NEW c, romCall' = [romCall EXCEPT ![p] = c],
             c.tries \in Nat, c.tries < RomTries, romMixed' = romMixed
      PROVE  TriesInv'
  BY <1>1, <1>4 DEF TriesInv
<1>5. ASSUME NEW p \in RomUsers, Advance(p), romMixed' = romMixed
      PROVE  TriesInv'
  <2> DEFINE c == IF romCall[p].step < Len(Program(romCall[p].op))
                  THEN [romCall[p] EXCEPT !.step = @ + 1] ELSE RomCallOf("ok", romCall[p].val)
  <2>1. romCall' = [romCall EXCEPT ![p] = c]
    BY <1>5 DEF Advance
  <2>2. c.tries = romCall[p].tries \/ c.tries = 0
    BY <1>1 DEF RomCallOf, Calls
  <2> HIDE DEF c
  <2> QED BY <1>1, <1>4, <1>5, <2>1, <2>2 DEF TriesInv
<1>6. ASSUME NEW p \in RomUsers, Fetch(p)
      PROVE  TriesInv'
  <2> DEFINE c == IF romCall[p].step < Len(Program(romCall[p].op))
                  THEN [romCall[p] EXCEPT !.step = @ + 1, !.seen = romRegister]
                  ELSE RomCallOf("ok", romRegister)
  <2>1. romCall' = [romCall EXCEPT ![p] = c] /\ romMixed' = romMixed
    BY <1>6 DEF Fetch
  <2>2. c.tries = romCall[p].tries \/ c.tries = 0
    BY <1>1 DEF RomCallOf, Calls
  <2> HIDE DEF c
  <2> QED BY <1>1, <1>4, <2>1, <2>2 DEF TriesInv
<1>7. ASSUME NEW p \in RomUsers, Compare(p)
      PROVE  TriesInv'
  <2> DEFINE c == IF romCall[p].seen = romCall[p].val THEN RomCallOf("ok", romCall[p].val)
                  ELSE IF romCall[p].tries + 1 = RomTries THEN RomCallOf("failed", romCall[p].val)
                  ELSE [romCall[p] EXCEPT !.step = 1, !.tries = @ + 1]
  <2>1. romCall' = [romCall EXCEPT ![p] = c] /\ romMixed' = romMixed
    BY <1>7 DEF Compare
  <2>2. c.tries = 0 \/ (romCall[p].tries + 1 # RomTries /\ c.tries = romCall[p].tries + 1)
    BY <1>1 DEF RomCallOf, Calls
  <2> HIDE DEF c
  <2>3. c.tries \in Nat /\ c.tries < RomTries
    BY <1>1, <2>2 DEF TriesInv
  <2> QED BY <1>4, <2>1, <2>3
<1>8. ASSUME NEW p \in RomUsers,
             Latch(p) \/ Enable(p) \/ Address(p) \/ Write(p) \/ Read(p) \/ Erase(p) \/ Disable(p)
      PROVE  TriesInv'
  BY <1>5, <1>8 DEF Latch, Enable, Address, Write, Read, Erase, Disable, RomWriteCommand
<1> QED BY <1>2, <1>3, <1>6, <1>7, <1>8 DEF RomNext

\* The EEPROM calls keep their types: a call is at a command of its own program, and a
\* verified write never starts more attempts than it has, for every set of callers.
THEOREM RomTyped == RomSpec => []RomTypeOK
<1>1. RomInit => TriesInv
  BY RomAssumption DEF RomInit, TriesInv, RomCallOf
<1>2. ASSUME RomInv, TriesInv PROVE RomTypeOK
  <2>1. ASSUME NEW p \in RomUsers
        PROVE  /\ \/ romCall[p].op \in RomEnds
                  \/ /\ romCall[p].op \in RomCalls
                     /\ romCall[p].step \in 1..Len(Program(romCall[p].op))
                     /\ romCall[p].tries < RomTries
               /\ {romCall[p].val, romCall[p].seen} \subseteq RomValues
    <3>1. romCall[p] \in Calls
      BY <1>2 DEF RomInv, RomShape
    <3>2. romCall[p].op \in RomCalls \cup RomEnds /\ romCall[p].val \in RomValues
          /\ romCall[p].seen \in RomValues
      BY <3>1 DEF Calls
    <3>3. CASE romCall[p].op \notin RomEnds
      <4>1. romCall[p].op \in RomCalls /\ romCall[p].step \in 1..Length(romCall[p].op)
        BY <1>2, <3>2, <3>3 DEF RomInv, RomShape, Active
      <4>2. Len(Program(romCall[p].op)) = Length(romCall[p].op)
        BY <4>1, ProgramCommands
      <4> QED BY <1>2, <3>2, <4>1, <4>2 DEF TriesInv
    <3> QED BY <3>2, <3>3
  <2>2. {romRegister, romCell} \subseteq RomValues
    BY <1>2 DEF RomInv, RomShape
  <2>3. romOpen \in BOOLEAN /\ romAddress \in BOOLEAN
    BY <1>2 DEF RomInv, RomShape
  <2>4. {romOpen, romAddress} \subseteq BOOLEAN
    BY <2>3, Zenon
  <2> QED BY <1>2, <2>1, <2>2, <2>4 DEF TriesInv, RomTypeOK
<1>3. RomInv /\ TriesInv /\ [RomNext]_romVars => (RomInv /\ TriesInv)'
  BY RomStep, TriesStep
<1>4. RomInit => RomInv
  BY RomStart
<1> QED BY <1>1, <1>2, <1>3, <1>4, PTL DEF RomSpec

-----------------------------------------------------------------------------
(***************************************************************************)
(* IoLib.  A file that was not opened early keeps the library loaded, a    *)
(* library that is loaded is mapped, and while a file is open the count of *)
(* the devices stays (LateInv).                                            *)
(***************************************************************************)

IoShape ==
  /\ ioStage \in Stages /\ ioFile \in [IoFiles -> {"closed", "null", "set"}]
  /\ ioEarly \subseteq IoFiles /\ ioWild \subseteq IoFiles
  /\ ioDevs \in Nat

\* A library that is loaded is mapped, and stays so as long as a file is open
\* that was not opened early.  A load begins, and counts the devices, when no file
\* is open, and only open files went past the mapping.
LateInv ==
  /\ ioStage = "loaded" => ioMapped
  /\ \A f \in OpenIo \ ioEarly : ioStage = "loaded"
  /\ ioStage = "none" => OpenIo = {}
  /\ ioPast \subseteq OpenIo

IoInv == IoShape /\ LateInv /\ RegistersMapped

\* At the start nothing is loaded and no file is open.
LEMMA LibraryInit == IoInit => IoInv
BY DEF IoInit, IoInv, IoShape, LateInv, RegistersMapped, OpenIo, Stages

\* A step of the load opens no file and uses no register.
LEMMA LibraryLoads ==
  ASSUME IoInv, LoadNode \/ LoadClass \/ LoadFpga \/ LoadDevice
  PROVE  IoInv'
<1> USE DEF IoInv, IoShape, LateInv, OpenIo
<1>1. /\ UNCHANGED <<ioKind, ioFile, ioEarly, ioWild, ioPast, ioMapped>>
      /\ ioStage # "loaded" /\ ioStage' \in Stages \ {"loaded"}
      /\ ioStage' = "none" => OpenIo = {}
      /\ OpenIo' = OpenIo
  BY DEF LoadNode, LoadClass, LoadFpga, LoadDevice, LoadStep, ioUse, Stages
<1>2. ioDevs' \in Nat /\ (ioDevs' = ioDevs \/ ioStage = "none")
  BY IoAssumption DEF LoadNode, LoadClass, LoadFpga, LoadDevice, LoadStep
<1>3. RegistersMapped'
  BY <1>1, <1>2 DEF RegistersMapped
<1>4. LateInv'
  BY <1>1
<1> QED BY <1>1, <1>2, <1>3, <1>4

\* An access of a file that is open: inside the mapping, if the count leaves room.
LEMMA LibraryUsed ==
  ASSUME IoInv, NEW f \in IoFiles, AccessDriver(f) \/ AccessAlone(f)
  PROVE  IoInv'
<1> USE DEF IoInv, IoShape, LateInv, OpenIo
<1>1. PICK area \in IoAddresses, areas \in {DriverAreas, AloneAreas} :
        /\ Access(f, area, areas)
        /\ ioKind = "driver" => areas = DriverAreas /\ area < ioDevs + 1
  BY DEF AccessDriver, AccessAlone
<1>2. UNCHANGED <<ioKind, ioDevs, ioStage, ioMapped, ioClass, ioRefs, ioFile, ioEarly>>
  BY <1>1 DEF Access, ioLoad
<1>3. f \in OpenIo /\ ioPast' \subseteq ioPast \cup {f}
  BY <1>1 DEF Access
<1>4. ioWild' \subseteq IoFiles /\ ioWild' \subseteq ioEarly
  <2>1. CASE ioMapped
    BY <1>1, <2>1 DEF Access, RegistersMapped
  <2>2. CASE ~ioMapped
    BY <1>1, <1>3, <2>2 DEF Access, RegistersMapped
  <2> QED BY <2>1, <2>2
<1>5. ASSUME ioKind = "driver", ioDevs + 1 < DriverAreas
      PROVE  ioPast' = {}
  <2>1. PICK last \in {area, area + 1} :
          ioPast' = IF last < DriverAreas THEN ioPast ELSE ioPast \cup {f}
    BY <1>1, <1>5 DEF Access
  <2>2. last < DriverAreas
    BY <1>1, <1>5, <2>1, IoAssumption
  <2> QED BY <1>5, <2>1, <2>2 DEF RegistersMapped
<1>6. RegistersMapped'
  BY <1>2, <1>4, <1>5 DEF RegistersMapped
<1>7. LateInv'
  BY <1>2, <1>3
<1> QED BY <1>2, <1>4, <1>6, <1>7

\* Opens, closes and accesses, while the library loads and after it.
LEMMA LibraryStep ==
  ASSUME IoInv, [IoNext]_ioVars
  PROVE  IoInv'
<1> USE DEF IoInv, IoShape, LateInv, RegistersMapped, OpenIo
<1>1. CASE UNCHANGED ioVars
  BY <1>1 DEF ioVars, ioLoad, ioUse
<1>2. CASE LoadNode \/ LoadClass \/ LoadFpga \/ LoadDevice
  BY <1>2, LibraryLoads
<1>3. CASE LoadMap
  BY <1>3 DEF LoadMap, Stages
<1>4. CASE IoUnload
  BY <1>4 DEF IoUnload, ioUse, Stages
<1>5. ASSUME NEW f \in IoFiles, OpenDriver(f) \/ OpenAlone(f)
      PROVE  IoInv'
  BY <1>5 DEF OpenDriver, OpenAlone, Opened, Live, ioLoad
<1>6. ASSUME NEW f \in IoFiles, CloseDriver(f) \/ CloseAlone(f) \/ LockFault(f)
      PROVE  IoInv'
  BY <1>6 DEF CloseDriver, CloseAlone, LockFault, Closed, Live, ioLoad
<1>7. ASSUME NEW f \in IoFiles, AccessDriver(f) \/ AccessAlone(f)
      PROVE  IoInv'
  BY <1>7, LibraryUsed
<1> QED BY <1>1, <1>2, <1>3, <1>4, <1>5, <1>6, <1>7 DEF IoNext

\* Only a file that was opened while the library was loading can use map_baseaddr
\* before it is mapped (io/cps-iolib.c:321, 351; cps-iolib.c:354, 395), and with
\* cps-driver no file goes past the end of the mapping when the count of devices
\* leaves one area unused (io/cps-iolib.c:82, 132, 305, 351): for any files, any
\* addresses, any counts and any sizes of the mappings.
THEOREM RegistersMappedAlways == IoSpec => []RegistersMapped
<1>1. IoInv => RegistersMapped
  BY DEF IoInv
<1> QED BY LibraryInit, LibraryStep, <1>1, PTL DEF IoSpec

\* The files are finitely many, and so are those that are open.
LEMMA OpenIoFinite == IsFiniteSet(OpenIo) /\ Cardinality(OpenIo) \in Nat
                      /\ Cardinality(OpenIo) <= Cardinality(IoFiles)
<1>1. OpenIo \subseteq IoFiles
  BY DEF OpenIo
<1> QED BY <1>1, IoAssumption, FS_Subset, FS_CardinalityType

\* ref_count is never ahead of the files that are open.
LibraryRefs == IoTypeOK /\ ioRefs <= Cardinality(OpenIo)

\* An open counts one.
LEMMA RefsOpened ==
  ASSUME LibraryRefs, NEW f \in IoFiles, NEW data \in {"null", "set"}, Opened(f, data)
  PROVE  LibraryRefs'
<1>1. OpenIo' = OpenIo \cup {f} /\ f \notin OpenIo
  BY DEF LibraryRefs, IoTypeOK, Opened, OpenIo
<1>2. Cardinality(OpenIo') = Cardinality(OpenIo) + 1
  BY <1>1, OpenIoFinite, FS_AddElement
<1>3. OpenIo' \subseteq IoFiles
  BY DEF OpenIo
<1>4. Cardinality(OpenIo') <= Cardinality(IoFiles)
  BY <1>3, IoAssumption, FS_Subset
<1>5. Cardinality(OpenIo) \in Nat /\ Cardinality(IoFiles) \in Nat
  BY OpenIoFinite, IoAssumption, FS_CardinalityType
<1>6. ioRefs' \in 0..Cardinality(IoFiles) /\ ioRefs' <= Cardinality(OpenIo')
  BY <1>2, <1>4, <1>5 DEF LibraryRefs, IoTypeOK, Opened
<1>7. ioFile' \in [IoFiles -> {"closed", "null", "set"}]
  BY DEF LibraryRefs, IoTypeOK, Opened
<1>8. ioEarly' \subseteq IoFiles /\ ioWild' \subseteq IoFiles /\ ioPast' \subseteq IoFiles
  BY DEF LibraryRefs, IoTypeOK, Opened
<1> QED BY <1>6, <1>7, <1>8 DEF LibraryRefs, IoTypeOK, Opened, ioLoad

\* A close counts one down, but never below zero.
LEMMA RefsClosed ==
  ASSUME LibraryRefs, NEW f \in IoFiles, Closed(f), ioRefs' = IF ioRefs > 0 THEN ioRefs - 1 ELSE 0
  PROVE  LibraryRefs'
<1>1. OpenIo' = OpenIo \ {f} /\ f \in OpenIo
  BY DEF LibraryRefs, IoTypeOK, Closed, OpenIo
<1>2. Cardinality(OpenIo') = Cardinality(OpenIo) - 1
  BY <1>1, OpenIoFinite, FS_RemoveElement
<1>3. Cardinality(OpenIo') \in Nat
  <2>1. IsFiniteSet(OpenIo')
    BY <1>1, OpenIoFinite, FS_Subset
  <2> QED BY <2>1, FS_CardinalityType
<1>4. Cardinality(OpenIo) \in Nat /\ Cardinality(IoFiles) \in Nat
  BY OpenIoFinite, IoAssumption, FS_CardinalityType
<1>5. ioRefs' \in 0..Cardinality(IoFiles) /\ ioRefs' <= Cardinality(OpenIo')
  BY <1>2, <1>3, <1>4 DEF LibraryRefs, IoTypeOK
<1>6. ioFile' \in [IoFiles -> {"closed", "null", "set"}]
  BY DEF LibraryRefs, IoTypeOK, Closed
<1>7. ioEarly' \subseteq IoFiles /\ ioWild' \subseteq IoFiles /\ ioPast' \subseteq IoFiles
  BY DEF LibraryRefs, IoTypeOK, Closed
<1> QED BY <1>5, <1>6, <1>7 DEF LibraryRefs, IoTypeOK, Closed, ioLoad

\* Every step keeps the count behind the files.
LEMMA RefsStep == LibraryRefs /\ [IoNext]_ioVars => LibraryRefs'
<1> SUFFICES ASSUME LibraryRefs, [IoNext]_ioVars PROVE LibraryRefs'
  OBVIOUS
<1>1. CASE UNCHANGED ioVars
  BY <1>1 DEF ioVars, ioLoad, ioUse, LibraryRefs, IoTypeOK, OpenIo
<1>2. CASE LoadNode \/ LoadClass \/ LoadFpga \/ LoadDevice
  <2>1. /\ UNCHANGED <<ioKind, ioRefs, ioFile, ioEarly, ioWild, ioPast, ioMapped>>
        /\ ioStage' \in Stages
    BY <1>2 DEF LoadNode, LoadClass, LoadFpga, LoadDevice, LoadStep, ioUse, Stages
  <2>2. ioClass' \in BOOLEAN
    BY <1>2 DEF LoadNode, LoadClass, LoadFpga, LoadDevice, LoadStep, LibraryRefs, IoTypeOK
  <2>3. ioDevs' \in IoNumbers \cup {0}
    BY <1>2 DEF LoadNode, LoadClass, LoadFpga, LoadDevice, LoadStep, LibraryRefs, IoTypeOK
  <2> QED BY <2>1, <2>2, <2>3 DEF LibraryRefs, IoTypeOK, OpenIo
<1>3. CASE LoadMap
  <2>1. UNCHANGED <<ioKind, ioDevs, ioClass, ioFile, ioEarly, ioWild, ioPast>>
        /\ ioStage' \in Stages
        /\ ioRefs' \in {0, ioRefs}
    BY <1>3 DEF LoadMap, Stages
  <2>2. ioMapped' \in BOOLEAN
    BY <1>3 DEF LoadMap, LibraryRefs, IoTypeOK
  <2>3. OpenIo' = OpenIo
    BY <2>1 DEF OpenIo
  <2>4. ioRefs' \in 0..Cardinality(IoFiles) /\ ioRefs' <= Cardinality(OpenIo')
    BY <2>1, <2>3, OpenIoFinite, IoAssumption, FS_CardinalityType DEF LibraryRefs, IoTypeOK
  <2> QED BY <2>1, <2>2, <2>4 DEF LibraryRefs, IoTypeOK
<1>4. CASE IoUnload
  BY <1>4 DEF IoUnload, ioUse, LibraryRefs, IoTypeOK, OpenIo, Stages
<1>5. ASSUME NEW f \in IoFiles, OpenDriver(f) \/ OpenAlone(f)
      PROVE  LibraryRefs'
  BY <1>5, RefsOpened DEF OpenDriver, OpenAlone
<1>6. ASSUME NEW f \in IoFiles, CloseDriver(f) \/ CloseAlone(f) \/ LockFault(f)
      PROVE  LibraryRefs'
  BY <1>6, RefsClosed DEF CloseDriver, CloseAlone, LockFault
<1>7. ASSUME NEW f \in IoFiles, AccessDriver(f) \/ AccessAlone(f)
      PROVE  LibraryRefs'
  <2>1. UNCHANGED <<ioLoad, ioRefs, ioFile, ioEarly>>
    BY <1>7 DEF AccessDriver, AccessAlone, Access
  <2>2. ioWild' \subseteq IoFiles /\ ioPast' \subseteq IoFiles
    BY <1>7 DEF AccessDriver, AccessAlone, Access, LibraryRefs, IoTypeOK
  <2> QED BY <2>1, <2>2 DEF LibraryRefs, IoTypeOK, OpenIo, ioLoad
<1> QED BY <1>1, <1>2, <1>3, <1>4, <1>5, <1>6, <1>7 DEF IoNext

\* The library keeps its types, and ref_count of the one inside cps-drivers never runs ahead
\* of the open files, also when the load zeroes it under files that are open and a close then
\* finds it at zero (io/cps-iolib.c:251, 269, 358), for every finite set of files.
THEOREM LibraryTyped == IoSpec => []IoTypeOK
<1>1. ASSUME IoInit PROVE LibraryRefs
  <2>1. OpenIo = {} /\ ioRefs = 0
    BY <1>1 DEF IoInit, OpenIo
  <2>2. ioRefs \in 0..Cardinality(IoFiles) /\ ioRefs <= Cardinality(OpenIo)
    BY <2>1, OpenIoFinite, IoAssumption, FS_CardinalityType
  <2> QED BY <1>1, <2>2 DEF IoInit, LibraryRefs, IoTypeOK, Stages
<1>2. LibraryRefs => IoTypeOK
  BY DEF LibraryRefs
<1> QED BY <1>1, <1>2, RefsStep, PTL DEF IoSpec
=============================================================================
