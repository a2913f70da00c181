---------------------------- MODULE DioInterrupt ----------------------------
(***************************************************************************)
(* The digital I/O driver (cpsdio.c) from the load of the module to its    *)
(* interrupts: the nodes it makes, its ioctls, and the way from an input   *)
(* event over the interrupt line that all devices share to the process     *)
(* that asked to be told.  Opens, closes and ioctls are whole calls here;  *)
(* DeviceNode has the steps of open and close.  The processor has one core *)
(* and the handlers run with its interrupts off, so a dispatch of the line *)
(* runs all handlers in one step.                                          *)
(***************************************************************************)
EXTENDS Naturals, FiniteSets

CONSTANTS
  DioSlots,       \* numbers of the stacked devices, 0 to some bound
  DioTasks,       \* processes; each has at most one file of the driver
  DioNone,
  UnhandledLimit  \* bound: dispatches in a row without an owner, after which
                  \* Linux switches the line off

ASSUME DioAssumption ==
  /\ IsFiniteSet(DioSlots) /\ DioSlots \subseteq Nat
  /\ \A s \in DioSlots : 0..s \subseteq DioSlots
  /\ IsFiniteSet(DioTasks) /\ UnhandledLimit \in Nat \ {0}
  /\ DioNone \notin DioSlots \cup DioTasks
  /\ DioNone \notin [ref : Nat, int_callback : DioTasks \cup {DioNone}]

VARIABLES
  dioLoaded,    \* the module is loaded
  dioKind,      \* category of each slot, found out at the first load
  dioFlags,     \* length of notFirstOpenFlg
  dioFile,      \* node of the file of each task
  dioDev,       \* device data of each node: DioNone or [ref, int_callback]
  dioMask,      \* device register: nodes with their interrupt enabled
  dioStatus,    \* device register: nodes with an event that nobody has read
  dioTold,      \* who the last step told of an event, or refused
  taskAlive,    \* tasks that run
  taskHeld,     \* tasks that get_pid_task took a reference on
  lineOff,      \* Linux gave up on the interrupt line
  lineIdle      \* dispatches in a row that no handler answered

dioNodes == <<dioLoaded, dioKind, dioFlags>>
dioRegisters == <<dioMask, dioStatus>>
dioTasks == <<taskAlive, taskHeld>>
dioLine == <<lineOff, lineIdle>>
dioVars == <<dioNodes, dioFile, dioDev, dioRegisters, dioTold, dioTasks, dioLine>>

DioTypeOK ==
  /\ dioLoaded \in BOOLEAN
  /\ dioKind \in [DioSlots -> {"none", "dio", "other"}]
  /\ dioFlags \in 0..Cardinality(DioSlots)
  /\ dioFile \in [DioTasks -> DioSlots \cup {DioNone}]
  /\ \A s \in DioSlots : dioDev[s] = DioNone \/
       dioDev[s] \in [ref : 1..Cardinality(DioTasks),
                      int_callback : DioTasks \cup {DioNone}]
  /\ dioMask \subseteq DioSlots /\ dioStatus \subseteq DioSlots
  /\ dioTold \subseteq DioTasks \cup {"status", "EFAULT"}
  /\ taskAlive \subseteq DioTasks /\ taskHeld \subseteq DioTasks
  /\ lineOff \in BOOLEAN /\ lineIdle \in 0..UnhandledLimit

DioInit ==
  /\ dioLoaded = FALSE
  /\ dioKind = [s \in DioSlots |-> "none"] /\ dioFlags = 0
  /\ dioFile = [t \in DioTasks |-> DioNone]
  /\ dioDev = [s \in DioSlots |-> DioNone]
  /\ dioMask = {} /\ dioStatus = {} /\ dioTold = {}
  /\ taskAlive = DioTasks /\ taskHeld = {}
  /\ lineOff = FALSE /\ lineIdle = 0

\* Nodes that cpsdio_init gives a device file.
DioNodes == {s \in DioSlots : dioLoaded /\ dioKind[s] = "dio"}

\* notFirstOpenFlg is as long as there are nodes.
FlagsFor(kind) == Cardinality({s \in DioSlots : kind[s] = "dio"})

\* insmod: the devices are looked up, their nodes are created, the flags are
\* allocated.
DioLoad ==
  /\ ~dioLoaded /\ dioLoaded' = TRUE
  /\ dioKind' \in [DioSlots -> {"dio", "other"}]
  /\ \A s \in DioSlots : dioKind[s] \in {"none", dioKind'[s]}
  /\ dioFlags' = FlagsFor(dioKind') /\ dioTold' = {}
  /\ UNCHANGED <<dioFile, dioDev, dioRegisters, dioTasks, dioLine>>

\* rmmod, which waits until no file is open.  The interrupt masks of the
\* devices stay as they are.
DioUnload ==
  /\ dioLoaded /\ \A t \in DioTasks : dioFile[t] = DioNone
  /\ dioLoaded' = FALSE /\ dioFlags' = 0 /\ dioTold' = {}
  /\ UNCHANGED <<dioKind, dioFile, dioDev, dioRegisters, dioTasks, dioLine>>

\* The device data of a node after another open: made by the first, counted by all.
AfterOpen(data) ==
  IF data = DioNone THEN [ref |-> 1, int_callback |-> DioNone]
  ELSE [data EXCEPT !.ref = @ + 1]

\* And after a close: the last one frees it.
AfterClose(data) ==
  IF data.ref > 1 THEN [data EXCEPT !.ref = @ - 1] ELSE DioNone

DioOpen(t, s) ==
  /\ t \in taskAlive /\ dioFile[t] = DioNone /\ s \in DioNodes
  /\ dioFile' = [dioFile EXCEPT ![t] = s]
  /\ dioDev' = [dioDev EXCEPT ![s] = AfterOpen(@)]
  /\ dioTold' = {}
  /\ UNCHANGED <<dioNodes, dioRegisters, dioTasks, dioLine>>

DioClose(t) ==
  LET s == dioFile[t] IN
  /\ s # DioNone
  /\ dioFile' = [dioFile EXCEPT ![t] = DioNone]
  /\ dioDev' = [dioDev EXCEPT ![s] = AfterClose(@)]
  /\ dioTold' = {}
  /\ UNCHANGED <<dioNodes, dioRegisters, dioTasks, dioLine>>

-----------------------------------------------------------------------------
\* ioctl

\* The arguments cannot be copied in, or an answer that changes nothing cannot
\* be copied out.
ArgumentFault(t) ==
  /\ dioFile[t] # DioNone /\ dioTold' = {"EFAULT"}
  /\ UNCHANGED <<dioNodes, dioFile, dioDev, dioRegisters, dioTasks, dioLine>>

Unchanging(t) ==
  /\ dioFile[t] # DioNone /\ dioTold' = {}
  /\ UNCHANGED <<dioNodes, dioFile, dioDev, dioRegisters, dioTasks, dioLine>>

\* The inputs, the outputs and their echo, the power supply, the filter.
PortIoctl(t) == Unchanging(t)
\* The edges, the numbers of ports and the name.
TableIoctl(t) == Unchanging(t)
VersionIoctl(t) == Unchanging(t)

\* A write has nothing to copy out and does not fail behind its back.
SetIntMask(t) ==
  /\ dioFile[t] # DioNone
  /\ \E on \in BOOLEAN : dioMask' = IF on THEN dioMask \cup {dioFile[t]}
                                    ELSE dioMask \ {dioFile[t]}
  /\ dioTold' = {}
  /\ UNCHANGED <<dioNodes, dioFile, dioDev, dioStatus, dioTasks,
                 dioLine>>

\* Reading the status acknowledges it; the copy to the caller may fail then.
GetIntStatus(t) ==
  /\ dioFile[t] # DioNone
  /\ dioStatus' = dioStatus \ {dioFile[t]}
  /\ dioTold' \in {{"status"}, {"EFAULT"}}
  /\ UNCHANGED <<dioNodes, dioFile, dioDev, dioMask, dioTasks,
                 dioLine>>

\* Wrong: the task is looked up and no reference is taken, as the line that
\* is commented out did.
SetCallbackUnheld(t) ==
  /\ dioFile[t] # DioNone
  /\ \E c \in DioTasks :
       dioDev' = [dioDev EXCEPT ![dioFile[t]].int_callback =
                    IF c \in taskAlive THEN c ELSE DioNone]
  /\ dioTold' \in {{}, {"EFAULT"}}
  /\ UNCHANGED <<dioNodes, dioFile, dioRegisters, dioTasks, dioLine>>

\* The reference on the task of before is not given back.
SetCallbackProcess(t) ==
  /\ dioFile[t] # DioNone
  /\ \E c \in DioTasks :
       /\ dioDev' = [dioDev EXCEPT ![dioFile[t]].int_callback =
                       IF c \in taskAlive THEN c ELSE DioNone]
       /\ taskHeld' = taskHeld \cup ({c} \cap taskAlive)
  /\ dioTold' \in {{}, {"EFAULT"}}
  /\ UNCHANGED <<dioNodes, dioFile, dioRegisters, taskAlive,
                 dioLine>>

DioIoctl(t) ==
  \/ ArgumentFault(t) \/ PortIoctl(t) \/ TableIoctl(t) \/ VersionIoctl(t)
  \/ SetIntMask(t) \/ GetIntStatus(t) \/ SetCallbackProcess(t)

-----------------------------------------------------------------------------
\* Devices, interrupt line, processes

InputEvent(s) ==
  /\ s \in dioMask
  /\ dioStatus' = dioStatus \cup {s}
  /\ dioTold' = {}
  /\ UNCHANGED <<dioNodes, dioFile, dioDev, dioMask, dioTasks, dioLine>>

LineActive == dioMask \cap dioStatus # {}
Registered == {s \in DioSlots : dioDev[s] # DioNone}

\* Wrong: without a callback the handler says the interrupt is not its own.
HandledCallbackOnly ==
  {s \in Registered \cap dioStatus : dioDev[s].int_callback # DioNone}

\* Handlers that find a status and answer IRQ_HANDLED.
Handled == Registered \cap dioStatus

\* Wrong: an event whose interrupt has been masked since is thrown away.
SignalledMasked == {dioDev[s].int_callback : s \in Handled \cap dioMask} \ {DioNone}

\* Tasks that cpsdio_isr_func sends SIGUSR2.
Signalled == {dioDev[s].int_callback : s \in Handled} \ {DioNone}

\* All handlers of the line run.
Dispatch ==
  /\ LineActive /\ ~lineOff
  /\ dioStatus' = dioStatus \ Handled
  /\ dioTold' = Signalled
  /\ lineIdle' = IF Handled # {} THEN 0 ELSE lineIdle + 1
  /\ lineOff' = (lineIdle' = UnhandledLimit)
  /\ UNCHANGED <<dioNodes, dioFile, dioDev, dioMask, dioTasks>>

\* A process ends; Linux has closed its file before.
TaskExits(t) ==
  /\ t \in taskAlive /\ dioFile[t] = DioNone
  /\ taskAlive' = taskAlive \ {t}
  /\ dioTold' = {}
  /\ UNCHANGED <<dioNodes, dioFile, dioDev, dioRegisters, taskHeld, dioLine>>

DioNext ==
  \/ DioLoad \/ DioUnload \/ Dispatch
  \/ \E s \in DioSlots : InputEvent(s)
  \/ \E t \in DioTasks :
       \/ \E s \in DioSlots : DioOpen(t, s)
       \/ DioClose(t) \/ DioIoctl(t) \/ TaskExits(t)

DioSpec == DioInit /\ [][DioNext]_dioVars

\* A line that is up is dispatched.
DioFairSpec == DioSpec /\ WF_dioVars(Dispatch)

-----------------------------------------------------------------------------
\* What the handler and an open reach in memory is there: the task that a node
\* names, and gets its signal (cpsdio.c:527, 834), runs or is held by a
\* reference, and notFirstOpenFlg, as long as there are devices (1106) and
\* indexed by their slot (899), is used past its end only where a device of
\* another kind sits before one of this kind.
MemoryReached ==
  \A d \in Registered :
    /\ dioDev[d].int_callback \in taskAlive \cup taskHeld \cup {DioNone}
    /\ d >= dioFlags => \E s \in DioSlots \ DioNodes : s < d

\* Linux switches the shared line off, for every device on it, only when the
\* last close of some node left its interrupt enabled (cpsdio.c:1009).
LineKept == [][~lineOff /\ lineOff' => dioMask \ Registered # {}]_dioVars

\* An event of a node whose process asked to be told is never consumed in
\* silence: that process gets its signal, or a caller of GET_INT_STATUS gets
\* the status or an error (cpsdio.c:519, 716).
EventTold ==
  [][\A s \in Registered :
       (s \in dioStatus \ dioStatus' /\ dioDev[s].int_callback \in taskAlive)
         => dioTold' \cap {dioDev[s].int_callback, "status", "EFAULT"} # {}]_dioVars

\* An event of an open node does not stay unread: the handler or a caller
\* reads it, the interrupt is masked, the node is closed, or Linux has given
\* up on the line.
EventServed ==
  \A s \in DioSlots :
    (s \in dioStatus \cap dioMask \cap Registered)
      ~> (s \notin dioStatus \cap dioMask \cap Registered \/ lineOff)
=============================================================================
