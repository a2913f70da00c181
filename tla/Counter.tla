------------------------------ MODULE Counter ------------------------------
(***************************************************************************)
(* The counter driver (cpscnt.c).  Most settings of a channel go to a list *)
(* entry that lives as long as the module and reach the device when the    *)
(* channel is started; the mode register is also written when it is        *)
(* stopped.  Its reset bit says whether the channel counts.  Every ioctl   *)
(* does its work with dev->lock held and interrupts off: one step.         *)
(***************************************************************************)
EXTENDS Naturals, FiniteSets

CONSTANTS
  CntChannels,  \* channels of the device
  CntProcs      \* processes, each with one file of the node at most

VARIABLES
  cntLoaded,    \* the module is loaded
  cntAlways,    \* module parameter reset_flag_always_on
  cntChanged,   \* history: the parameter was changed since the load
  cntFiles,     \* processes that have the node open
  cntData,      \* list entry: [reset, compare] of each channel
  cntDevice,    \* registers of each channel, as cntData
  cntPending,   \* <<c, s>>: the list may have another setting s of channel c
                \* than the device
  cntPulse,     \* the list may have another pulse width than the device
  cntInput,     \* list entry: input_sig, the channels with the input selected
  cntAsked,     \* history: last command to each channel since the load
  cntSet        \* history: {the last value of SET_COMPARE_REG since the load}

cntModule == <<cntLoaded, cntAlways, cntChanged>>
cntShared == <<cntPulse, cntInput>>
cntHistory == <<cntAsked, cntSet>>
cntVars == <<cntModule, cntFiles, cntData, cntDevice, cntPending, cntShared, cntHistory>>

\* What only waits in the list: the bits of the mode register (operation mode,
\* direction, Z logic), the Z phase and the digital filter.
Waiting == {"mode", "phase and filter"}

\* 0 is the value after kzalloc, 1 any other.
CntSettings == [reset : BOOLEAN, compare : 0..1]

CntTypeOK ==
  /\ cntLoaded \in BOOLEAN /\ cntAlways \in BOOLEAN /\ cntChanged \in BOOLEAN
  /\ cntFiles \subseteq CntProcs
  /\ cntData \in [CntChannels -> CntSettings]
  /\ cntDevice \in [CntChannels -> CntSettings]
  /\ cntPending \subseteq CntChannels \X Waiting
  /\ cntPulse \in BOOLEAN /\ cntInput \subseteq CntChannels
  /\ cntAsked \in [CntChannels -> {"none", "start", "stop"}]
  /\ cntSet \in [CntChannels -> {{}, {0}, {1}}]

Fresh(on) == [c \in CntChannels |-> [reset |-> on, compare |-> 0]]

CntInit ==
  /\ cntLoaded = FALSE /\ cntAlways = FALSE /\ cntChanged = FALSE
  /\ cntFiles = {}
  /\ cntData = Fresh(FALSE) /\ cntDevice = Fresh(FALSE) /\ cntPending = {}
  /\ cntPulse = FALSE /\ cntInput = {}
  /\ cntAsked = [c \in CntChannels |-> "none"]
  /\ cntSet = [c \in CntChannels |-> {}]

\* insmod, with a value for the parameter: cpscnt_32xxI_allocate_list.  The
\* device keeps its registers.
CntLoad ==
  /\ ~cntLoaded /\ cntLoaded' = TRUE
  /\ cntAlways' \in BOOLEAN /\ cntChanged' = FALSE
  /\ cntData' = Fresh(cntAlways') /\ cntPending' = CntChannels \X Waiting
  /\ cntPulse' = TRUE /\ cntInput' = {}
  /\ cntAsked' = [c \in CntChannels |-> "none"]
  /\ cntSet' = [c \in CntChannels |-> {}]
  /\ UNCHANGED <<cntFiles, cntDevice>>

CntUnload ==
  /\ cntLoaded /\ cntFiles = {} /\ cntLoaded' = FALSE
  /\ cntAlways' = FALSE /\ cntChanged' = FALSE
  /\ cntData' = Fresh(FALSE) /\ cntPending' = {}
  /\ cntPulse' = FALSE /\ cntInput' = {}
  /\ cntAsked' = [c \in CntChannels |-> "none"]
  /\ cntSet' = [c \in CntChannels |-> {}]
  /\ UNCHANGED <<cntFiles, cntDevice>>

\* The parameter can be written in /sys/module at any time.
ChangeParameter ==
  /\ cntLoaded /\ cntAlways' = ~cntAlways /\ cntChanged' = TRUE
  /\ UNCHANGED <<cntLoaded, cntFiles, cntData, cntDevice, cntPending, cntShared, cntHistory>>

\* Wrong: the first open makes the list entry anew.
CntOpenFresh(p) ==
  /\ cntLoaded /\ p \notin cntFiles /\ cntFiles' = cntFiles \cup {p}
  /\ cntData' = IF cntFiles = {} THEN Fresh(cntAlways) ELSE cntData
  /\ UNCHANGED <<cntModule, cntDevice, cntPending, cntShared, cntHistory>>

\* The list entry of before is taken.
CntOpen(p) ==
  /\ cntLoaded /\ p \notin cntFiles /\ cntFiles' = cntFiles \cup {p}
  /\ UNCHANGED <<cntModule, cntData, cntDevice, cntPending, cntShared, cntHistory>>

CntClose(p) ==
  /\ p \in cntFiles /\ cntFiles' = cntFiles \ {p}
  /\ UNCHANGED <<cntModule, cntData, cntDevice, cntPending, cntShared, cntHistory>>

-----------------------------------------------------------------------------
\* ioctl

\* A setter of the list entry.  SET_MODE keeps the bits of the mode that are
\* not its own: the reset bit is START's and STOP's.
SetInList(c, s) ==
  /\ cntFiles # {} /\ cntPending' = cntPending \cup {<<c, s>>}
  /\ UNCHANGED <<cntModule, cntFiles, cntData, cntDevice, cntShared, cntHistory>>

SetMode(c) == SetInList(c, "mode")

SetDirection(c) == SetInList(c, "mode")

SetZLogic(c) == SetInList(c, "mode")

SetZPhase(c) == SetInList(c, "phase and filter")

SetFilter(c) == SetInList(c, "phase and filter")

SetPulseWidth ==
  /\ cntFiles # {} /\ cntPulse' = TRUE
  /\ UNCHANGED <<cntModule, cntFiles, cntData, cntDevice, cntPending, cntInput, cntHistory>>

\* cpscnt_32xxi_set_selectsignal: what was selected for the other channels is
\* gone, and nothing reaches the device.
SelectInput(c) ==
  /\ cntFiles # {} /\ cntInput' \in {{}, {c}}
  /\ UNCHANGED <<cntModule, cntFiles, cntData, cntDevice, cntPending, cntPulse, cntHistory>>

\* SET_COMPARE_REG: the list entry and the device.
SetCompare(c) ==
  /\ cntFiles # {}
  /\ \E v \in 0..1 : /\ cntData' = [cntData EXCEPT ![c].compare = v]
                     /\ cntDevice' = [cntDevice EXCEPT ![c].compare = v]
                     /\ cntSet' = [cntSet EXCEPT ![c] = {v}]
  /\ UNCHANGED <<cntModule, cntFiles, cntPending, cntShared, cntAsked>>

\* READ_COUNT, INIT_COUNT and GET_STATUS: the count itself.
CountAccess ==
  /\ cntFiles # {}
  /\ UNCHANGED cntVars

\* The latch, the interrupt mask, the sence and the timer: registers that no
\* START and no STOP writes, but for the sence, which START resets.
SharedRegister ==
  /\ cntFiles # {}
  /\ UNCHANGED cntVars

\* What is asked of the list entry or of the table of products.
GetAnswer ==
  /\ cntFiles # {}
  /\ UNCHANGED cntVars

\* The handler answers for every interrupt of the line, and does nothing.
CntInterrupt ==
  /\ cntFiles # {}
  /\ UNCHANGED cntVars

\* START_COUNT: __cpscnt_32xxi_start_by_channel.  The pulse width is written
\* and the selection of the device, which nobody changes, read into the list.
StartCount(enabled) ==
  LET data == [c \in CntChannels |->
                IF c \in enabled /\ ~cntAlways THEN [cntData[c] EXCEPT !.reset = TRUE]
                ELSE cntData[c]] IN
  /\ cntFiles # {}
  /\ cntData' = data
  /\ cntDevice' = [c \in CntChannels |-> IF c \in enabled THEN data[c] ELSE cntDevice[c]]
  /\ cntPending' = cntPending \ (enabled \X Waiting)
  /\ cntPulse' = FALSE /\ cntInput' = {}
  /\ cntAsked' = [c \in CntChannels |-> IF c \in enabled THEN "start" ELSE cntAsked[c]]
  /\ UNCHANGED <<cntModule, cntFiles, cntSet>>

\* STOP_COUNT: __cpscnt_32xxi_stop_by_channel writes the mode register.
StopCount(enabled) ==
  LET data == [c \in CntChannels |->
                IF c \in enabled /\ ~cntAlways THEN [cntData[c] EXCEPT !.reset = FALSE]
                ELSE cntData[c]] IN
  /\ cntFiles # {}
  /\ cntData' = data
  /\ cntDevice' = [c \in CntChannels |->
                    IF c \in enabled THEN [cntDevice[c] EXCEPT !.reset = data[c].reset]
                    ELSE cntDevice[c]]
  /\ cntAsked' = [c \in CntChannels |-> IF c \in enabled THEN "stop" ELSE cntAsked[c]]
  /\ cntPending' = cntPending \ (enabled \X {"mode"})
  /\ UNCHANGED <<cntModule, cntFiles, cntShared, cntSet>>

CntNext ==
  \/ CntLoad \/ CntUnload \/ ChangeParameter \/ SetPulseWidth
  \/ CountAccess \/ SharedRegister \/ GetAnswer \/ CntInterrupt
  \/ \E p \in CntProcs : CntOpen(p) \/ CntClose(p)
  \/ \E c \in CntChannels :
       \/ SetMode(c) \/ SetDirection(c) \/ SetZLogic(c) \/ SetZPhase(c)
       \/ SetFilter(c) \/ SelectInput(c) \/ SetCompare(c)
  \/ \E enabled \in SUBSET CntChannels : StartCount(enabled) \/ StopCount(enabled)

CntSpec == CntInit /\ [][CntNext]_cntVars

-----------------------------------------------------------------------------
\* A channel counts when the last command to it was START and is held in reset
\* when it was STOP, or counts after either with the parameter set at the load
\* (cpscnt.c:1005, 1035; not so when the parameter is changed under way), and
\* it compares with the last value that was set (1283, 1001): whatever was
\* started and set in between, and also after the node was closed and opened.
CountsAsAsked ==
  cntLoaded =>
    \A c \in CntChannels :
      /\ cntSet[c] \subseteq {cntDevice[c].compare}
      /\ (cntAsked[c] # "none" /\ ~cntChanged) =>
           cntDevice[c].reset = (cntAsked[c] = "start" \/ cntAlways)
=============================================================================
