----------------------------- MODULE DeviceNode -----------------------------
(***************************************************************************)
(* The life of one device node of a device driver: open, close, ioctl and  *)
(* the interrupt handler of cpsdio.c, which cpsaio.c, cpscnt.c and         *)
(* cpsssi.c repeat.  The first open of the node allocates the device data, *)
(* hangs it at inode->i_private, claims and maps the register window and   *)
(* requests the interrupt; later opens share it and count themselves in    *)
(* ref; the last close takes everything back.  No lock protects any of     *)
(* it: a process may lose the CPU in every call that can sleep.            *)
(***************************************************************************)
EXTENDS Naturals, FiniteSets

CONSTANTS
  Files,    \* open files of the node, each with the process that uses it
  Objects,  \* memory that kzalloc may return
  None

ASSUME NodeAssumption == IsFiniteSet(Files) /\ None \notin Objects

VARIABLES
  flags,         \* notFirstOpenFlg is allocated
  notFirstOpen,  \* notFirstOpenFlg of the node is not zero
  i_private,     \* inode->i_private
  private_data,  \* filp->private_data of each file
  dev,           \* the local variable of each process in open or close
  pc,            \* where each process is
  alive,         \* device data allocated and not freed
  ref,           \* dev->ref
  base,          \* dev->baseAddr: NULL, mapped, or unmapped again
  region,        \* the register window is claimed (request_mem_region)
  handlers,      \* device data registered with request_irq
  faulted,       \* a wild pointer was used
  raced          \* history: a first open met another one, or the module's init

memory == <<alive, ref, base, region>>
vars == <<raced, flags, notFirstOpen, i_private, private_data, dev, pc,
          memory, handlers, faulted>>

Opening == {"alloc", "claim", "map", "product", "irq", "finish", "unmap", "undo"}
Closing == {"free_irq", "release", "kfree"}
PCs == {"closed", "open"} \cup Opening \cup Closing

TypeOK ==
  /\ flags \in BOOLEAN /\ notFirstOpen \in BOOLEAN
  /\ region \in BOOLEAN /\ faulted \in BOOLEAN /\ raced \in BOOLEAN
  /\ i_private \in Objects \cup {None}
  /\ private_data \in [Files -> Objects \cup {None}]
  /\ dev \in [Files -> Objects \cup {None}]
  /\ pc \in [Files -> PCs]
  /\ alive \subseteq Objects /\ handlers \subseteq Objects
  /\ base \in [Objects -> {"null", "mapped", "unmapped"}]
  /\ ref \in [Objects -> 0..Cardinality(Files)]

Init ==
  /\ flags = FALSE /\ notFirstOpen = FALSE
  /\ i_private = None
  /\ private_data = [f \in Files |-> None]
  /\ dev = [f \in Files |-> None]
  /\ pc = [f \in Files |-> "closed"]
  /\ alive = {} /\ handlers = {}
  /\ ref = [d \in Objects |-> 0]
  /\ base = [d \in Objects |-> "null"]
  /\ region = FALSE /\ faulted = FALSE /\ raced = FALSE

At(f, where) == ~faulted /\ pc[f] = where
Goto(f, where) == pc' = [pc EXCEPT ![f] = where]
\* Device data that is freed, or registers that are not mapped, are used.
Uses(ds) == faulted' = ~(ds \subseteq alive)
UsesRegisters(d) == faulted' = ~(d \in alive /\ base[d] = "mapped")

\* The module's init allocates notFirstOpenFlg when the nodes are there.
InitEnds ==
  /\ ~faulted /\ ~flags /\ flags' = TRUE
  /\ UNCHANGED <<raced, notFirstOpen, i_private, private_data, dev, pc,
                 memory, handlers, faulted>>

-----------------------------------------------------------------------------
\* open

MayOpen(f) == At(f, "closed") /\ flags

\* notFirstOpenFlg is still NULL.
OpenEarly(f) ==
  /\ At(f, "closed") /\ ~flags
  /\ faulted' = TRUE /\ raced' = TRUE
  /\ UNCHANGED <<flags, notFirstOpen, i_private, private_data, dev, pc,
                 memory, handlers>>

Shared == notFirstOpen /\ i_private # None

OpenShared(f) ==
  /\ MayOpen(f) /\ Shared
  /\ Uses({i_private})
  /\ ref[i_private] > 0
  /\ ref' = [ref EXCEPT ![i_private] = @ + 1]
  /\ private_data' = [private_data EXCEPT ![f] = i_private]
  /\ Goto(f, "open")
  /\ UNCHANGED <<raced, flags, notFirstOpen, i_private, dev, alive, base, region,
                 handlers>>

\* -EFAULT: another process is in the first open or in the last close.
OpenRefused(f) ==
  /\ MayOpen(f) /\ Shared
  /\ Uses({i_private})
  /\ ref[i_private] = 0
  /\ UNCHANGED <<raced, flags, notFirstOpen, i_private, private_data, dev, pc,
                 memory, handlers>>

OpenFirst(f) ==
  /\ MayOpen(f) /\ ~Shared
  /\ raced' = (raced \/ \E g \in Files : pc[g] \in Opening)
  /\ Goto(f, "alloc")
  /\ UNCHANGED <<flags, notFirstOpen, i_private, private_data, dev, memory,
                 handlers, faulted>>

AllocFails(f) ==
  /\ At(f, "alloc") /\ Goto(f, "closed")
  /\ i_private' = None
  /\ private_data' = [private_data EXCEPT ![f] = None]
  /\ UNCHANGED <<raced, flags, notFirstOpen, dev, memory, handlers, faulted>>

Alloc(f) ==
  /\ At(f, "alloc") /\ Goto(f, "claim")
  /\ \E d \in Objects \ alive :
       /\ alive' = alive \cup {d}
       /\ ref' = [ref EXCEPT ![d] = 0]
       /\ base' = [base EXCEPT ![d] = "null"]
       /\ i_private' = d
       /\ private_data' = [private_data EXCEPT ![f] = d]
       /\ dev' = [dev EXCEPT ![f] = d]
  /\ UNCHANGED <<raced, flags, notFirstOpen, region, handlers, faulted>>

\* Wrong: the window is mapped without a claim.
ClaimNot(f) ==
  /\ At(f, "claim")
  /\ Uses({dev[f]})
  /\ Goto(f, "map")
  /\ region' = TRUE
  /\ UNCHANGED <<raced, flags, notFirstOpen, i_private, private_data, dev, alive,
                 ref, base, handlers>>

\* cps_common_mem_alloc claims the window, then maps it.
Claim(f) ==
  /\ At(f, "claim")
  /\ Uses({dev[f]})
  /\ Goto(f, IF region THEN "undo" ELSE "map")
  /\ region' = TRUE
  /\ UNCHANGED <<raced, flags, notFirstOpen, i_private, private_data, dev, alive,
                 ref, base, handlers>>

MapFails(f) ==
  /\ At(f, "map") /\ Goto(f, "undo")
  /\ region' = FALSE
  /\ UNCHANGED <<raced, flags, notFirstOpen, i_private, private_data, dev, alive,
                 ref, base, handlers, faulted>>

Map(f) ==
  /\ At(f, "map") /\ Goto(f, "product")
  /\ Uses({dev[f]})
  /\ base' = [base EXCEPT ![dev[f]] = "mapped"]
  /\ UNCHANGED <<raced, flags, notFirstOpen, i_private, private_data, dev, alive,
                 ref, region, handlers>>

\* The product is looked up in the driver's table.
Product(f) ==
  /\ At(f, "product")
  /\ Uses({dev[f]})
  /\ Goto(f, "irq") \/ Goto(f, "unmap")
  /\ UNCHANGED <<raced, flags, notFirstOpen, i_private, private_data, dev, memory,
                 handlers>>

\* A failed request_irq is ignored.
RequestIrq(f) ==
  /\ At(f, "irq") /\ Goto(f, "finish")
  /\ handlers' \in {handlers, handlers \cup {dev[f]}}
  /\ UNCHANGED <<raced, flags, notFirstOpen, i_private, private_data, dev, memory,
                 faulted>>

Finish(f) ==
  /\ At(f, "finish") /\ Goto(f, "open")
  /\ Uses({dev[f]})
  /\ ref' = [ref EXCEPT ![dev[f]] = 1]
  /\ notFirstOpen' = TRUE
  /\ dev' = [dev EXCEPT ![f] = None]
  /\ UNCHANGED <<raced, flags, i_private, private_data, alive, base, region,
                 handlers>>

\* Wrong: the window stays claimed.
ReleaseMemoryKeepsRegion(d) ==
  /\ faulted' = ~(d \in alive /\ base[d] # "unmapped")
  /\ base' = IF base[d] = "mapped" THEN [base EXCEPT ![d] = "unmapped"] ELSE base
  /\ UNCHANGED <<alive, ref, region>>

\* cps_common_mem_release does nothing for a NULL address.
ReleaseMemory(d) ==
  /\ faulted' = ~(d \in alive /\ base[d] # "unmapped")
  /\ base' = IF base[d] = "mapped" THEN [base EXCEPT ![d] = "unmapped"] ELSE base
  /\ region' = (region /\ base[d] = "null")
  /\ UNCHANGED <<alive, ref>>

Unmap(f) ==
  /\ At(f, "unmap") /\ Goto(f, "undo")
  /\ ReleaseMemory(dev[f])
  /\ UNCHANGED <<raced, flags, notFirstOpen, i_private, private_data, dev, handlers>>

FreeDevice(f) ==
  /\ Uses({dev[f]})
  /\ alive' = alive \ {dev[f]}
  /\ i_private' = None
  /\ private_data' = [private_data EXCEPT ![f] = None]
  /\ dev' = [dev EXCEPT ![f] = None]
  /\ Goto(f, "closed")
  /\ UNCHANGED <<raced, flags, notFirstOpen, ref, base, region, handlers>>

Undo(f) == At(f, "undo") /\ FreeDevice(f)

-----------------------------------------------------------------------------
\* close

\* Without i_private there is nothing to take back.
CloseNothing(f) ==
  /\ At(f, "open") /\ i_private = None
  /\ private_data' = [private_data EXCEPT ![f] = None]   \* the file is gone
  /\ Goto(f, "closed")
  /\ UNCHANGED <<raced, flags, notFirstOpen, i_private, dev, memory, handlers, faulted>>

\* Wrong: the file stays counted.
CloseUncounted(f) ==
  LET d == i_private  r == ref[d] IN
  /\ At(f, "open") /\ d # None
  /\ Uses({d})
  /\ r > 1
  /\ private_data' = [private_data EXCEPT ![f] = None]
  /\ Goto(f, "closed")
  /\ UNCHANGED <<raced, flags, notFirstOpen, i_private, dev, memory, handlers>>

Close(f) ==
  LET d == i_private  r == ref[d] IN
  /\ At(f, "open") /\ d # None
  /\ Uses({d})
  /\ r > 1
  /\ ref' = [ref EXCEPT ![d] = r - 1]
  /\ private_data' = [private_data EXCEPT ![f] = None]
  /\ Goto(f, "closed")
  /\ UNCHANGED <<raced, flags, notFirstOpen, i_private, dev, alive, base, region,
                 handlers>>

CloseLast(f) ==
  LET d == i_private IN
  /\ At(f, "open") /\ d # None
  /\ Uses({d})
  /\ ref[d] \in {0, 1}
  /\ ref' = [ref EXCEPT ![d] = 0]
  /\ dev' = [dev EXCEPT ![f] = d]
  /\ Goto(f, "free_irq")
  /\ UNCHANGED <<raced, flags, notFirstOpen, i_private, private_data, alive, base,
                 region, handlers>>

\* Wrong: the handler stays registered.
FreeIrqNot(f) ==
  /\ At(f, "free_irq") /\ Goto(f, "release")
  /\ UNCHANGED <<raced, flags, notFirstOpen, i_private, private_data, dev, memory,
                 handlers, faulted>>

\* free_irq waits for a handler that runs.
FreeIrq(f) ==
  /\ At(f, "free_irq") /\ Goto(f, "release")
  /\ handlers' = handlers \ {dev[f]}
  /\ UNCHANGED <<raced, flags, notFirstOpen, i_private, private_data, dev, memory,
                 faulted>>

Release(f) ==
  /\ At(f, "release") /\ Goto(f, "kfree")
  /\ ReleaseMemory(dev[f])
  /\ UNCHANGED <<raced, flags, notFirstOpen, i_private, private_data, dev, handlers>>

Kfree(f) == At(f, "kfree") /\ FreeDevice(f)

-----------------------------------------------------------------------------
\* An ioctl of an open file, and the interrupt handler: both take dev->lock
\* and read or write the registers.  The line is shared: the handler of every
\* registered device runs, whoever interrupts.
Ioctl(f) ==
  /\ At(f, "open") /\ private_data[f] # None
  /\ UsesRegisters(private_data[f])
  /\ UNCHANGED <<raced, flags, notFirstOpen, i_private, private_data, dev, pc,
                 memory, handlers>>

Isr(d) ==
  /\ ~faulted /\ d \in handlers
  /\ UsesRegisters(d)
  /\ UNCHANGED <<raced, flags, notFirstOpen, i_private, private_data, dev, pc,
                 memory, handlers>>

Open(f) ==
  \/ OpenEarly(f) \/ OpenShared(f) \/ OpenRefused(f) \/ OpenFirst(f)
  \/ AllocFails(f) \/ Alloc(f) \/ Claim(f) \/ MapFails(f) \/ Map(f)
  \/ Product(f) \/ RequestIrq(f) \/ Finish(f) \/ Unmap(f) \/ Undo(f)
CloseFile(f) ==
  \/ CloseNothing(f) \/ Close(f) \/ CloseLast(f)
  \/ FreeIrq(f) \/ Release(f) \/ Kfree(f)

Next ==
  \/ InitEnds
  \/ \E f \in Files : Open(f) \/ CloseFile(f) \/ Ioctl(f)
  \/ \E d \in Objects : Isr(d)

Spec == Init /\ [][Next]_vars

-----------------------------------------------------------------------------
\* The note at cpsdio_open: i_private is one for the node, and every process
\* that has the node open has it as its private_data.
OneObject ==
  \A f \in Files : pc[f] = "open" => private_data[f] = i_private /\ i_private # None

\* The opens keep to the note, as long as no two processes meet in the first
\* open of the node.
SharedObject == raced \/ OneObject

\* So long, no ioctl, interrupt, open or close uses device data that another
\* process freed or registers that it unmapped.
NoFault == raced \/ ~faulted

\* So long, a node that nobody has open, and nobody is opening or closing,
\* holds no memory, no window and no handler: it can be opened again.
NothingLeft ==
  raced \/ ((\A f \in Files : pc[f] = "closed") =>
              alive = {} /\ handlers = {} /\ ~region /\ i_private = None)

\* The inductive invariant behind them: nobody has the node open, or some have
\* and share one object that counts them, or one process alone is opening or
\* closing.
OpenFiles == {f \in Files : pc[f] = "open"}
Idle ==
  /\ \A f \in Files : pc[f] = "closed"
  /\ i_private = None /\ alive = {} /\ handlers = {} /\ ~region
InUse ==
  /\ OpenFiles # {} /\ flags /\ notFirstOpen /\ region
  /\ \A f \in Files : pc[f] \in {"open", "closed"}
  /\ \A f \in OpenFiles : private_data[f] = i_private
  /\ i_private \in Objects /\ alive = {i_private} /\ handlers \subseteq alive
  /\ base[i_private] = "mapped" /\ ref[i_private] = Cardinality(OpenFiles)
Busy(f) ==
  /\ pc[f] \in Opening \cup Closing /\ flags
  /\ \A g \in Files \ {f} : pc[g] = "closed"
  /\ pc[f] = "alloc" => i_private = None /\ alive = {} /\ handlers = {} /\ ~region
  /\ pc[f] # "alloc" =>
       /\ i_private \in Objects /\ dev[f] = i_private /\ private_data[f] = i_private
       /\ alive = {i_private} /\ ref[i_private] = 0
       /\ handlers \subseteq (IF pc[f] \in {"finish", "free_irq"} THEN alive ELSE {})
       /\ region <=> pc[f] \notin {"claim", "undo", "kfree"}
       /\ base[i_private] = "mapped" <=> region /\ pc[f] # "map"
       /\ pc[f] = "claim" => base[i_private] = "null"
  /\ pc[f] \in Closing => notFirstOpen
Orderly ==
  /\ TypeOK /\ ~faulted /\ ~raced
  /\ Idle \/ InUse \/ \E f \in Files : Busy(f)
NodeInv == raced \/ Orderly

\* Whatever opens and closes race, and until a wild pointer is used, the claim
\* of the window keeps two device data from driving the same registers.
OneWindow ==
  \A d, e \in Objects :
    ~faulted /\ base[d] = "mapped" /\ base[e] = "mapped" => d = e /\ region

\* The inductive invariant behind it: a process that is about to map the
\* window is the only one, and finds it claimed and not mapped.
ToMap(f) ==
  pc[f] = "map" =>
    /\ region /\ \A d \in Objects : base[d] # "mapped"
    /\ \A g \in Files : pc[g] = "map" => g = f
WindowInv ==
  /\ pc \in [Files -> PCs] /\ base \in [Objects -> {"null", "mapped", "unmapped"}]
  /\ alive \subseteq Objects /\ region \in BOOLEAN
  /\ OneWindow
  /\ ~faulted => \A f \in Files : ToMap(f)
=============================================================================
