-------------------------- MODULE DeviceNodeProofs --------------------------
(***************************************************************************)
(* Proofs about DeviceNode, for any number of files and objects, and about *)
(* DioInterrupt, for any number of slots and processes.                    *)
(***************************************************************************)
EXTENDS DeviceNode, DioInterrupt, FiniteSetTheorems, TLAPS

(***************************************************************************)
(* Counting the files that have the node open.                             *)
(***************************************************************************)
LEMMA OpenCount ==
  /\ IsFiniteSet(OpenFiles)
  /\ Cardinality(OpenFiles) \in 0..Cardinality(Files)
  /\ Cardinality(Files) \in Nat
<1>1. IsFiniteSet(Files) /\ OpenFiles \subseteq Files
  BY NodeAssumption DEF OpenFiles
<1>2. IsFiniteSet(OpenFiles) /\ Cardinality(OpenFiles) <= Cardinality(Files)
  BY <1>1, FS_Subset
<1>3. Cardinality(OpenFiles) \in Nat /\ Cardinality(Files) \in Nat
  BY <1>1, <1>2, FS_CardinalityType
<1>4. QED
  BY <1>2, <1>3

\* A file that opens is one more.
LEMMA OneMore ==
  ASSUME TypeOK, NEW f \in Files, pc[f] = "closed", Goto(f, "open")
  PROVE  /\ OpenFiles' = OpenFiles \cup {f}
         /\ Cardinality(OpenFiles') = Cardinality(OpenFiles) + 1
         /\ Cardinality(OpenFiles') <= Cardinality(Files)
<1>1. OpenFiles' = OpenFiles \cup {f} /\ f \notin OpenFiles /\ OpenFiles' \subseteq Files
  BY DEF TypeOK, Goto, OpenFiles
<1>2. Cardinality(OpenFiles') = Cardinality(OpenFiles) + 1
  BY <1>1, OpenCount, FS_AddElement
<1>3. Cardinality(OpenFiles') <= Cardinality(Files)
  BY <1>1, NodeAssumption, FS_Subset
<1>4. QED
  BY <1>1, <1>2, <1>3

\* A file that closes is one less, and when it was the only one none is left.
LEMMA OneLess ==
  ASSUME TypeOK, NEW f \in Files, pc[f] = "open", NEW where, where # "open",
         Goto(f, where)
  PROVE  /\ OpenFiles' = OpenFiles \ {f}
         /\ Cardinality(OpenFiles') = Cardinality(OpenFiles) - 1
         /\ Cardinality(OpenFiles) = 1 => OpenFiles = {f}
         /\ Cardinality(OpenFiles) > 1 => OpenFiles' # {}
         /\ Cardinality(OpenFiles) > 0
<1>1. OpenFiles' = OpenFiles \ {f} /\ f \in OpenFiles
  BY DEF TypeOK, Goto, OpenFiles
<1>2. Cardinality(OpenFiles') = Cardinality(OpenFiles) - 1 /\ IsFiniteSet(OpenFiles')
  BY <1>1, OpenCount, FS_RemoveElement
<1>3. Cardinality(OpenFiles) \in Nat /\ Cardinality(OpenFiles') \in Nat
  BY <1>2, OpenCount, FS_CardinalityType
<1>4. Cardinality(OpenFiles') = 0 <=> OpenFiles' = {}
  BY <1>2, FS_EmptySet
<1>5. QED
  BY <1>1, <1>2, <1>3, <1>4

(***************************************************************************)
(* The initial state, and the steps.                                       *)
(***************************************************************************)
LEMMA InitNode == Init => Orderly
<1> SUFFICES ASSUME Init PROVE Orderly
  OBVIOUS
<1>1. Idle
  BY DEF Init, Idle
<1>2. TypeOK
  <2>1. 0 \in 0..Cardinality(Files)
    BY OpenCount
  <2>2. ref \in [Objects -> 0..Cardinality(Files)]
    BY <2>1 DEF Init
  <2>3. faulted \in BOOLEAN /\ flags \in BOOLEAN /\ notFirstOpen \in BOOLEAN
        /\ region \in BOOLEAN /\ raced \in BOOLEAN
    BY DEF Init
  <2>4. QED
    BY <2>2, <2>3 DEF Init, TypeOK, PCs
<1>3. QED
  BY <1>1, <1>2 DEF Init, Orderly

\* The state of the node that a process finds when it opens or uses it.
LEMMA Found ==
  ASSUME Orderly, NEW f \in Files
  PROVE  /\ pc[f] = "closed" /\ Shared => i_private \in alive
         /\ pc[f] = "closed" /\ Shared /\ ref[i_private] > 0 => InUse
         /\ pc[f] = "open" => InUse
         /\ pc[f] \in Opening \cup Closing => Busy(f)
<1>1. CASE Idle
  BY <1>1 DEF Idle, Shared, Opening, Closing
<1>2. CASE InUse
  BY <1>2 DEF InUse, Opening, Closing
<1>3. CASE \E g \in Files : Busy(g)
  <2>1. PICK g \in Files : Busy(g)
    BY <1>3
  <2>2. pc[g] # "open" /\ pc[g] # "closed"
    BY <2>1 DEF Busy, Opening, Closing
  <2>3. pc[f] = "open" => FALSE
    BY <2>1, <2>2 DEF Busy
  <2>4. pc[f] \in Opening \cup Closing => f = g
    BY <2>1 DEF Busy, Opening, Closing
  <2>5. Shared => i_private \in alive /\ ref[i_private] = 0
    BY <2>1 DEF Busy, Shared
  <2>6. QED
    BY <2>1, <2>3, <2>4, <2>5
<1>4. QED
  BY <1>1, <1>2, <1>3 DEF Orderly

\* A file is opened while others have the node open.
LEMMA OpenSharedNode ==
  ASSUME Orderly, NEW f \in Files, OpenShared(f)
  PROVE  Orderly'
<1>1. /\ pc[f] = "closed" /\ i_private # None /\ ref[i_private] > 0
      /\ Shared /\ Goto(f, "open")
      /\ ref' = [ref EXCEPT ![i_private] = @ + 1]
      /\ private_data' = [private_data EXCEPT ![f] = i_private]
      /\ faulted' = ~({i_private} \subseteq alive)
      /\ UNCHANGED <<raced, flags, notFirstOpen, i_private, dev, alive, base, region, handlers>>
  BY DEF OpenShared, MayOpen, At, Shared, Uses
<1>2. InUse /\ TypeOK
  BY <1>1, Found DEF Orderly
<1>3. ~faulted'
  BY <1>1, <1>2 DEF InUse
<1>4. /\ OpenFiles' = OpenFiles \cup {f}
      /\ Cardinality(OpenFiles') = Cardinality(OpenFiles) + 1
      /\ Cardinality(OpenFiles') <= Cardinality(Files)
  BY <1>1, <1>2, OneMore
<1>5. ref'[i_private] = Cardinality(OpenFiles') /\ ref' \in [Objects -> 0..Cardinality(Files)]
  <2>1. ref \in [Objects -> 0..Cardinality(Files)] /\ i_private \in Objects
        /\ ref[i_private] = Cardinality(OpenFiles)
    BY <1>2 DEF InUse, TypeOK
  <2>2. ref[i_private] + 1 \in 0..Cardinality(Files)
    BY <1>4, <2>1, OpenCount
  <2>3. QED
    BY <1>1, <1>4, <2>1, <2>2
<1>6. pc' = [pc EXCEPT ![f] = "open"]
  BY <1>1 DEF Goto
<1>7. InUse'
  <2>1. \A g \in OpenFiles' : private_data'[g] = i_private'
    BY <1>1, <1>2, <1>4 DEF InUse, TypeOK
  <2>2. \A g \in Files : pc'[g] \in {"open", "closed"}
    BY <1>2, <1>6 DEF InUse, TypeOK
  <2>3. QED
    BY <1>1, <1>2, <1>4, <1>5, <2>1, <2>2 DEF InUse
<1>8. TypeOK'
  BY <1>1, <1>2, <1>3, <1>5, <1>6 DEF InUse, TypeOK, PCs
<1>9. QED
  BY <1>1, <1>3, <1>7, <1>8 DEF Orderly

\* An open that is refused, an ioctl and the interrupt handler change nothing.
LEMMA UsesNode ==
  ASSUME Orderly, UNCHANGED <<raced, flags, notFirstOpen, i_private, private_data, dev,
                              pc, memory, handlers>>,
         faulted' \in BOOLEAN, ~faulted'
  PROVE  Orderly'
<1>1. /\ flags' = flags /\ notFirstOpen' = notFirstOpen /\ i_private' = i_private
      /\ private_data' = private_data /\ dev' = dev /\ pc' = pc
      /\ alive' = alive /\ ref' = ref /\ base' = base /\ region' = region
      /\ handlers' = handlers
  BY DEF memory
<1>2. TypeOK'
  BY <1>1 DEF Orderly, TypeOK
<1>3. (Idle => Idle') /\ (InUse => InUse')
  BY <1>1 DEF Idle, InUse, OpenFiles
<1>4. \A f \in Files : Busy(f) => Busy(f)'
  BY <1>1 DEF Busy
<1>5. QED
  BY <1>2, <1>3, <1>4 DEF Orderly

LEMMA OpenRefusedNode ==
  ASSUME Orderly, NEW f \in Files, OpenRefused(f)
  PROVE  Orderly'
<1>1. i_private \in alive
  BY Found DEF OpenRefused, MayOpen, At
<1>2. QED
  BY <1>1, UsesNode DEF OpenRefused, Uses

LEMMA IoctlNode ==
  ASSUME Orderly, NEW f \in Files, Ioctl(f)
  PROVE  Orderly'
<1>1. private_data[f] \in alive /\ base[private_data[f]] = "mapped"
  BY Found DEF Ioctl, At, InUse, OpenFiles
<1>2. QED
  BY <1>1, UsesNode DEF Ioctl, UsesRegisters

LEMMA IsrNode ==
  ASSUME Orderly, NEW d \in Objects, Isr(d)
  PROVE  Orderly'
<1>1. d \in alive /\ base[d] = "mapped"
  <2>1. d \in handlers
    BY DEF Isr
  <2>2. CASE InUse
    BY <2>1, <2>2 DEF InUse
  <2>3. ASSUME NEW f \in Files, Busy(f)
        PROVE  d \in alive /\ base[d] = "mapped"
    BY <2>1, <2>3 DEF Busy, Opening, Closing
  <2>4. QED
    BY <2>1, <2>2, <2>3 DEF Orderly, Idle
<1>2. QED
  BY <1>1, UsesNode DEF Isr, UsesRegisters

LEMMA InitEndsNode ==
  ASSUME Orderly, InitEnds
  PROVE  Orderly'
BY DEF Orderly, TypeOK, Idle, InUse, OpenFiles, Busy, memory, PCs, InitEnds

(***************************************************************************)
(* A process alone in open or close: its step keeps the others closed.     *)
(***************************************************************************)
LEMMA BusyStep ==
  ASSUME Orderly, NEW f \in Files, pc[f] \in Opening \cup Closing,
         NEW where \in Opening \cup Closing, Goto(f, where)
  PROVE  /\ Busy(f) /\ TypeOK
         /\ pc' \in [Files -> PCs] /\ pc'[f] = where
         /\ \A g \in Files \ {f} : pc'[g] = "closed"
<1>1. Busy(f) /\ TypeOK
  BY Found DEF Orderly
<1>2. QED
  BY <1>1 DEF Busy, Goto, TypeOK, PCs

LEMMA OpenFirstNode ==
  ASSUME Orderly, NEW f \in Files, OpenFirst(f), ~raced'
  PROVE  Orderly'
<1>1. /\ pc[f] = "closed" /\ ~Shared /\ flags /\ Goto(f, "alloc")
      /\ \A g \in Files : pc[g] \notin Opening
      /\ raced' \in BOOLEAN
      /\ UNCHANGED <<flags, notFirstOpen, i_private, private_data, dev, alive,
                     ref, base, region, handlers, faulted>>
  BY DEF Orderly, OpenFirst, MayOpen, At, memory
<1>2. Idle
  <2>1. ~InUse
    BY <1>1, NodeAssumption DEF InUse, Shared
  <2>2. ASSUME NEW g \in Files, Busy(g)
        PROVE  FALSE
    <3>1. pc[g] \in Closing /\ pc[g] # "alloc"
      BY <1>1, <2>2 DEF Busy, Closing
    <3>2. QED
      BY <1>1, <2>2, <3>1, NodeAssumption DEF Busy, Shared
  <2>3. QED
    BY <2>1, <2>2 DEF Orderly
<1>3. pc' = [pc EXCEPT ![f] = "alloc"]
  BY <1>1 DEF Goto
<1>4. TypeOK' /\ ~faulted'
  BY <1>1, <1>3 DEF Orderly, TypeOK, PCs, Opening
<1>5. Busy(f)'
  <2>1. pc'[f] = "alloc" /\ \A g \in Files \ {f} : pc'[g] = "closed"
    BY <1>2, <1>3 DEF Idle, Orderly, TypeOK
  <2>2. QED
    BY <1>1, <1>2, <2>1 DEF Busy, Idle, Opening, Closing
<1>6. QED
  BY <1>4, <1>5 DEF Orderly

LEMMA AllocFailsNode ==
  ASSUME Orderly, NEW f \in Files, AllocFails(f)
  PROVE  Orderly'
<1>1. /\ pc[f] = "alloc" /\ pc' = [pc EXCEPT ![f] = "closed"]
      /\ i_private' = None
      /\ private_data' = [private_data EXCEPT ![f] = None]
      /\ UNCHANGED <<raced, flags, notFirstOpen, dev, alive, ref, base, region,
                     handlers, faulted>>
  BY DEF AllocFails, At, Goto, memory
<1>2. Busy(f) /\ TypeOK
  BY <1>1, Found DEF Orderly, Opening
<1>3. TypeOK' /\ ~faulted'
  BY <1>1, <1>2 DEF Orderly, TypeOK, PCs
<1>4. Idle'
  BY <1>1, <1>2 DEF Busy, Idle, TypeOK
<1>5. QED
  BY <1>1, <1>3, <1>4 DEF Orderly

LEMMA AllocNode ==
  ASSUME Orderly, NEW f \in Files, Alloc(f)
  PROVE  Orderly'
<1>1. PICK d \in Objects \ alive :
      /\ pc[f] = "alloc" /\ Goto(f, "claim")
      /\ alive' = alive \cup {d}
      /\ ref' = [ref EXCEPT ![d] = 0]
      /\ base' = [base EXCEPT ![d] = "null"]
      /\ i_private' = d
      /\ private_data' = [private_data EXCEPT ![f] = d]
      /\ dev' = [dev EXCEPT ![f] = d]
      /\ UNCHANGED <<raced, flags, notFirstOpen, region, handlers, faulted>>
  BY DEF Alloc, At
<1>2. /\ Busy(f) /\ TypeOK
      /\ pc' \in [Files -> PCs] /\ pc'[f] = "claim"
      /\ \A g \in Files \ {f} : pc'[g] = "closed"
  BY <1>1, BusyStep DEF Opening
<1>3. TypeOK' /\ ~faulted'
  BY <1>1, <1>2, OpenCount DEF Orderly, TypeOK
<1>4. Busy(f)'
  <2>1. alive' = {d} /\ ref'[d] = 0 /\ base'[d] = "null" /\ dev'[f] = d
        /\ private_data'[f] = d /\ handlers' = {} /\ ~region' /\ flags'
    BY <1>1, <1>2 DEF Busy, TypeOK
  <2>2. QED
    BY <1>1, <1>2, <2>1 DEF Busy, Opening, Closing
<1>5. QED
  BY <1>1, <1>3, <1>4 DEF Orderly

LEMMA ClaimNode ==
  ASSUME Orderly, NEW f \in Files, Claim(f)
  PROVE  Orderly'
<1>1. /\ pc[f] = "claim" /\ Goto(f, IF region THEN "undo" ELSE "map")
      /\ faulted' = ~({dev[f]} \subseteq alive) /\ region' = TRUE
      /\ UNCHANGED <<raced, flags, notFirstOpen, i_private, private_data, dev, alive,
                     ref, base, handlers>>
  BY DEF Claim, At, Uses
<1>2. Busy(f) /\ TypeOK /\ ~region
  BY <1>1, Found DEF Orderly, Opening, Busy
<1>3. /\ pc' \in [Files -> PCs] /\ pc'[f] = "map"
      /\ \A g \in Files \ {f} : pc'[g] = "closed"
  BY <1>1, <1>2, BusyStep DEF Opening
<1>4. ~faulted' /\ TypeOK'
  BY <1>1, <1>2, <1>3 DEF Busy, TypeOK
<1>5. Busy(f)'
  BY <1>1, <1>2, <1>3 DEF Busy, Opening, Closing
<1>6. QED
  BY <1>1, <1>4, <1>5 DEF Orderly

LEMMA MapFailsNode ==
  ASSUME Orderly, NEW f \in Files, MapFails(f)
  PROVE  Orderly'
<1>1. /\ pc[f] = "map" /\ Goto(f, "undo") /\ region' = FALSE
      /\ UNCHANGED <<raced, flags, notFirstOpen, i_private, private_data, dev, alive,
                     ref, base, handlers, faulted>>
  BY DEF MapFails, At
<1>2. /\ Busy(f) /\ TypeOK
      /\ pc' \in [Files -> PCs] /\ pc'[f] = "undo"
      /\ \A g \in Files \ {f} : pc'[g] = "closed"
  BY <1>1, BusyStep DEF Opening
<1>3. ~faulted' /\ TypeOK'
  BY <1>1, <1>2 DEF Orderly, TypeOK
<1>4. Busy(f)'
  BY <1>1, <1>2 DEF Busy, Opening, Closing
<1>5. QED
  BY <1>1, <1>3, <1>4 DEF Orderly

LEMMA MapNode ==
  ASSUME Orderly, NEW f \in Files, Map(f)
  PROVE  Orderly'
<1>1. /\ pc[f] = "map" /\ Goto(f, "product")
      /\ faulted' = ~({dev[f]} \subseteq alive)
      /\ base' = [base EXCEPT ![dev[f]] = "mapped"]
      /\ UNCHANGED <<raced, flags, notFirstOpen, i_private, private_data, dev, alive,
                     ref, region, handlers>>
  BY DEF Map, At, Uses
<1>2. /\ Busy(f) /\ TypeOK
      /\ pc' \in [Files -> PCs] /\ pc'[f] = "product"
      /\ \A g \in Files \ {f} : pc'[g] = "closed"
  BY <1>1, BusyStep DEF Opening
<1>3. base'[i_private] = "mapped" /\ base' \in [Objects -> {"null", "mapped", "unmapped"}]
  BY <1>1, <1>2 DEF Busy, TypeOK
<1>4. ~faulted' /\ TypeOK'
  BY <1>1, <1>2, <1>3 DEF Busy, TypeOK
<1>5. Busy(f)'
  BY <1>1, <1>2, <1>3 DEF Busy, Opening, Closing
<1>6. QED
  BY <1>1, <1>4, <1>5 DEF Orderly

LEMMA ProductNode ==
  ASSUME Orderly, NEW f \in Files, Product(f)
  PROVE  Orderly'
<1>1. PICK where \in {"irq", "unmap"} :
      /\ pc[f] = "product" /\ Goto(f, where)
      /\ faulted' = ~({dev[f]} \subseteq alive)
      /\ UNCHANGED <<raced, flags, notFirstOpen, i_private, private_data, dev, alive,
                     ref, base, region, handlers>>
  BY DEF Product, At, Uses, memory
<1>2. /\ Busy(f) /\ TypeOK
      /\ pc' \in [Files -> PCs] /\ pc'[f] = where
      /\ \A g \in Files \ {f} : pc'[g] = "closed"
  BY <1>1, BusyStep DEF Opening
<1>3. ~faulted' /\ TypeOK'
  BY <1>1, <1>2 DEF Busy, TypeOK
<1>4. Busy(f)'
  BY <1>1, <1>2 DEF Busy, Opening, Closing
<1>5. QED
  BY <1>1, <1>3, <1>4 DEF Orderly

LEMMA RequestIrqNode ==
  ASSUME Orderly, NEW f \in Files, RequestIrq(f)
  PROVE  Orderly'
<1>1. /\ pc[f] = "irq" /\ Goto(f, "finish")
      /\ handlers' \subseteq handlers \cup {dev[f]}
      /\ UNCHANGED <<raced, flags, notFirstOpen, i_private, private_data, dev, alive,
                     ref, base, region, faulted>>
  BY DEF RequestIrq, At, memory
<1>2. /\ Busy(f) /\ TypeOK
      /\ pc' \in [Files -> PCs] /\ pc'[f] = "finish"
      /\ \A g \in Files \ {f} : pc'[g] = "closed"
  BY <1>1, BusyStep DEF Opening
<1>3. handlers' \subseteq alive' /\ i_private \in Objects
  BY <1>1, <1>2 DEF Busy
<1>4. ~faulted' /\ TypeOK'
  BY <1>1, <1>2, <1>3 DEF Orderly, TypeOK
<1>5. Busy(f)'
  BY <1>1, <1>2, <1>3 DEF Busy, Opening, Closing
<1>6. QED
  BY <1>1, <1>4, <1>5 DEF Orderly

LEMMA FinishNode ==
  ASSUME Orderly, NEW f \in Files, Finish(f)
  PROVE  Orderly'
<1>1. /\ pc[f] = "finish" /\ pc' = [pc EXCEPT ![f] = "open"]
      /\ faulted' = ~({dev[f]} \subseteq alive)
      /\ ref' = [ref EXCEPT ![dev[f]] = 1]
      /\ notFirstOpen' = TRUE /\ dev' = [dev EXCEPT ![f] = None]
      /\ UNCHANGED <<raced, flags, i_private, private_data, alive, base, region, handlers>>
  BY DEF Finish, At, Uses, Goto
<1>2. Busy(f) /\ TypeOK
  BY <1>1, Found DEF Orderly, Opening
<1>3. OpenFiles' = {f} /\ Cardinality(OpenFiles') = 1
  <2>1. OpenFiles' = {f}
    BY <1>1, <1>2 DEF OpenFiles, Busy, TypeOK
  <2>2. QED
    BY <2>1, FS_Singleton
<1>4. 1 \in 0..Cardinality(Files)
  <2>1. Cardinality({f}) <= Cardinality(Files) /\ Cardinality({f}) = 1
    BY NodeAssumption, FS_Subset, FS_Singleton
  <2>2. QED
    BY <2>1, OpenCount
<1>5. ref' \in [Objects -> 0..Cardinality(Files)] /\ ref'[i_private] = 1
  BY <1>1, <1>2, <1>4 DEF Busy, TypeOK
<1>6. ~faulted' /\ TypeOK'
  BY <1>1, <1>2, <1>5 DEF Busy, TypeOK, PCs
<1>7. InUse'
  BY <1>1, <1>2, <1>3, <1>5 DEF Busy, InUse, TypeOK
<1>8. QED
  BY <1>1, <1>6, <1>7 DEF Orderly

LEMMA UnmapNode ==
  ASSUME Orderly, NEW f \in Files, Unmap(f)
  PROVE  Orderly'
<1>1. /\ pc[f] = "unmap" /\ Goto(f, "undo")
      /\ ReleaseMemory(dev[f])
      /\ UNCHANGED <<raced, flags, notFirstOpen, i_private, private_data, dev, handlers>>
  BY DEF Unmap, At
<1>2. /\ Busy(f) /\ TypeOK
      /\ pc' \in [Files -> PCs] /\ pc'[f] = "undo"
      /\ \A g \in Files \ {f} : pc'[g] = "closed"
  BY <1>1, BusyStep DEF Opening
<1>3. dev[f] = i_private /\ i_private \in alive /\ i_private \in Objects
      /\ base[i_private] = "mapped"
  BY <1>1, <1>2 DEF Busy
<1>4. /\ base' \in [Objects -> {"null", "mapped", "unmapped"}]
      /\ base'[i_private] = "unmapped" /\ ~region' /\ ~faulted'
      /\ alive' = alive /\ ref' = ref
  BY <1>1, <1>2, <1>3 DEF ReleaseMemory, TypeOK
<1>5. TypeOK'
  <2>1. region' \in BOOLEAN /\ faulted' \in BOOLEAN
    BY <1>1 DEF ReleaseMemory
  <2>2. QED
    BY <1>1, <1>2, <1>4, <2>1 DEF TypeOK
<1>6. Busy(f)'
  BY <1>1, <1>2, <1>3, <1>4 DEF Busy, Opening, Closing
<1>7. QED
  BY <1>1, <1>4, <1>5, <1>6 DEF Orderly

\* The last step of a failed open and of the last close.
LEMMA FreeDeviceNode ==
  ASSUME Orderly, NEW f \in Files, pc[f] \in {"undo", "kfree"}, FreeDevice(f)
  PROVE  Orderly'
<1>1. /\ pc' = [pc EXCEPT ![f] = "closed"]
      /\ faulted' = ~({dev[f]} \subseteq alive)
      /\ alive' = alive \ {dev[f]} /\ i_private' = None
      /\ private_data' = [private_data EXCEPT ![f] = None]
      /\ dev' = [dev EXCEPT ![f] = None]
      /\ UNCHANGED <<raced, flags, notFirstOpen, ref, base, region, handlers>>
  BY DEF FreeDevice, Uses, Goto
<1>2. Busy(f) /\ TypeOK
  BY Found DEF Orderly, Opening, Closing
<1>3. ~faulted' /\ TypeOK'
  BY <1>1, <1>2 DEF Busy, TypeOK, PCs
<1>4. Idle'
  BY <1>1, <1>2 DEF Busy, Idle, TypeOK
<1>5. QED
  BY <1>1, <1>3, <1>4 DEF Orderly

LEMMA CloseNode ==
  ASSUME Orderly, NEW f \in Files, Close(f)
  PROVE  Orderly'
<1>1. /\ pc[f] = "open" /\ Goto(f, "closed")
      /\ faulted' = ~({i_private} \subseteq alive)
      /\ ref[i_private] > 1
      /\ ref' = [ref EXCEPT ![i_private] = ref[i_private] - 1]
      /\ private_data' = [private_data EXCEPT ![f] = None]
      /\ UNCHANGED <<raced, flags, notFirstOpen, i_private, dev, alive, base, region,
                     handlers>>
  BY DEF Close, At, Uses
<1>2. InUse /\ TypeOK
  BY <1>1, Found DEF Orderly
<1>3. /\ OpenFiles' = OpenFiles \ {f}
      /\ Cardinality(OpenFiles') = Cardinality(OpenFiles) - 1
      /\ Cardinality(OpenFiles) > 1 => OpenFiles' # {}
  BY <1>1, <1>2, OneLess
<1>4. i_private \in Objects /\ ref[i_private] = Cardinality(OpenFiles)
      /\ ref \in [Objects -> 0..Cardinality(Files)]
  BY <1>2 DEF InUse, TypeOK
<1>5. ref'[i_private] = Cardinality(OpenFiles') /\ OpenFiles' # {}
      /\ ref' \in [Objects -> 0..Cardinality(Files)]
  <2>1. ref[i_private] - 1 \in 0..Cardinality(Files)
    BY <1>1, <1>4, OpenCount
  <2>2. QED
    BY <1>1, <1>3, <1>4, <2>1
<1>6. pc' = [pc EXCEPT ![f] = "closed"]
  BY <1>1 DEF Goto
<1>7. ~faulted' /\ TypeOK'
  BY <1>1, <1>2, <1>5, <1>6 DEF InUse, TypeOK, PCs
<1>8. InUse'
  <2>1. \A g \in OpenFiles' : private_data'[g] = i_private'
    BY <1>1, <1>2, <1>3 DEF InUse, TypeOK, OpenFiles
  <2>2. \A g \in Files : pc'[g] \in {"open", "closed"}
    BY <1>2, <1>6 DEF InUse, TypeOK
  <2>3. QED
    BY <1>1, <1>2, <1>5, <2>1, <2>2 DEF InUse
<1>9. QED
  BY <1>1, <1>7, <1>8 DEF Orderly

LEMMA CloseLastNode ==
  ASSUME Orderly, NEW f \in Files, CloseLast(f)
  PROVE  Orderly'
<1>1. /\ pc[f] = "open" /\ Goto(f, "free_irq")
      /\ faulted' = ~({i_private} \subseteq alive)
      /\ ref[i_private] \in {0, 1}
      /\ ref' = [ref EXCEPT ![i_private] = 0]
      /\ dev' = [dev EXCEPT ![f] = i_private]
      /\ UNCHANGED <<raced, flags, notFirstOpen, i_private, private_data, alive, base,
                     region, handlers>>
  BY DEF CloseLast, At, Uses
<1>2. InUse /\ TypeOK
  BY <1>1, Found DEF Orderly
<1>3. OpenFiles = {f}
  <2>1. /\ Cardinality(OpenFiles) = 1 => OpenFiles = {f}
        /\ Cardinality(OpenFiles) > 0
    BY <1>1, <1>2, OneLess
  <2>2. QED
    BY <1>1, <1>2, <2>1 DEF InUse
<1>4. pc' = [pc EXCEPT ![f] = "free_irq"]
  BY <1>1 DEF Goto
<1>5. \A g \in Files \ {f} : pc'[g] = "closed"
  BY <1>2, <1>3, <1>4 DEF InUse, OpenFiles, TypeOK
<1>6. ref' \in [Objects -> 0..Cardinality(Files)] /\ ref'[i_private] = 0
  BY <1>1, <1>2, OpenCount DEF InUse, TypeOK
<1>7. ~faulted' /\ TypeOK'
  BY <1>1, <1>2, <1>4, <1>6 DEF InUse, TypeOK, PCs, Closing
<1>8. Busy(f)'
  <2>1. pc'[f] = "free_irq" /\ private_data[f] = i_private /\ dev'[f] = i_private
    BY <1>1, <1>2, <1>3, <1>4 DEF InUse, TypeOK
  <2>2. QED
    BY <1>1, <1>2, <1>5, <1>6, <2>1 DEF InUse, Busy, Opening, Closing
<1>9. QED
  BY <1>1, <1>7, <1>8 DEF Orderly

LEMMA FreeIrqNode ==
  ASSUME Orderly, NEW f \in Files, FreeIrq(f)
  PROVE  Orderly'
<1>1. /\ pc[f] = "free_irq" /\ Goto(f, "release")
      /\ handlers' = handlers \ {dev[f]}
      /\ UNCHANGED <<raced, flags, notFirstOpen, i_private, private_data, dev, alive,
                     ref, base, region, faulted>>
  BY DEF FreeIrq, At, memory
<1>2. /\ Busy(f) /\ TypeOK
      /\ pc' \in [Files -> PCs] /\ pc'[f] = "release"
      /\ \A g \in Files \ {f} : pc'[g] = "closed"
  BY <1>1, BusyStep DEF Closing
<1>3. handlers' = {}
  BY <1>1, <1>2 DEF Busy
<1>4. ~faulted' /\ TypeOK'
  BY <1>1, <1>2, <1>3 DEF Orderly, TypeOK
<1>5. Busy(f)'
  BY <1>1, <1>2, <1>3 DEF Busy, Opening, Closing
<1>6. QED
  BY <1>1, <1>4, <1>5 DEF Orderly

LEMMA ReleaseNode ==
  ASSUME Orderly, NEW f \in Files, Release(f)
  PROVE  Orderly'
<1>1. /\ pc[f] = "release" /\ Goto(f, "kfree")
      /\ ReleaseMemory(dev[f])
      /\ UNCHANGED <<raced, flags, notFirstOpen, i_private, private_data, dev, handlers>>
  BY DEF Release, At
<1>2. /\ Busy(f) /\ TypeOK
      /\ pc' \in [Files -> PCs] /\ pc'[f] = "kfree"
      /\ \A g \in Files \ {f} : pc'[g] = "closed"
  BY <1>1, BusyStep DEF Closing
<1>3. dev[f] = i_private /\ i_private \in alive /\ i_private \in Objects
      /\ base[i_private] = "mapped"
  BY <1>1, <1>2 DEF Busy
<1>4. /\ base' \in [Objects -> {"null", "mapped", "unmapped"}]
      /\ base'[i_private] = "unmapped" /\ ~region' /\ ~faulted'
      /\ alive' = alive /\ ref' = ref
  BY <1>1, <1>2, <1>3 DEF ReleaseMemory, TypeOK
<1>5. TypeOK'
  <2>1. region' \in BOOLEAN /\ faulted' \in BOOLEAN
    BY <1>1 DEF ReleaseMemory
  <2>2. QED
    BY <1>1, <1>2, <1>4, <2>1 DEF TypeOK
<1>6. Busy(f)'
  BY <1>1, <1>2, <1>3, <1>4 DEF Busy, Opening, Closing
<1>7. QED
  BY <1>1, <1>4, <1>5, <1>6 DEF Orderly

LEMMA NextNode ==
  ASSUME Orderly, [Next]_vars, ~raced'
  PROVE  Orderly'
<1>1. CASE UNCHANGED vars
  <2>1. UNCHANGED <<raced, flags, notFirstOpen, i_private, private_data, dev, pc,
                    memory, handlers>> /\ faulted' = faulted
    BY <1>1 DEF vars
  <2>2. faulted' \in BOOLEAN /\ ~faulted'
    BY <2>1 DEF Orderly, TypeOK
  <2>3. QED
    BY <2>1, <2>2, UsesNode
<1>2. CASE InitEnds
  BY <1>2, InitEndsNode
<1>3. ASSUME NEW d \in Objects, Isr(d)
      PROVE  Orderly'
  BY <1>3, IsrNode
<1>4. ASSUME NEW f \in Files, Open(f)
      PROVE  Orderly'
  <2>1. ~OpenEarly(f)
    BY DEF OpenEarly
  <2>2. Undo(f) => Orderly'
    BY FreeDeviceNode DEF Undo, At
  <2>3. QED
    BY <1>4, <2>1, <2>2, OpenSharedNode, OpenRefusedNode, OpenFirstNode,
       AllocFailsNode, AllocNode, ClaimNode, MapFailsNode, MapNode, ProductNode,
       RequestIrqNode, FinishNode, UnmapNode DEF Open
<1>5. ASSUME NEW f \in Files, CloseFile(f)
      PROVE  Orderly'
  <2>1. ~CloseNothing(f)
    BY Found, NodeAssumption DEF CloseNothing, At, InUse
  <2>2. Kfree(f) => Orderly'
    BY FreeDeviceNode DEF Kfree, At
  <2>3. QED
    BY <1>5, <2>1, <2>2, CloseNode, CloseLastNode, FreeIrqNode, ReleaseNode
       DEF CloseFile
<1>6. ASSUME NEW f \in Files, Ioctl(f)
      PROVE  Orderly'
  BY <1>6, IoctlNode
<1>7. QED
  BY <1>1, <1>2, <1>3, <1>4, <1>5, <1>6 DEF Next

\* A race is not forgotten.
LEMMA RacedStays ==
  ASSUME raced, [Next]_vars
  PROVE  raced'
<1>1. ASSUME NEW f \in Files, Open(f)
      PROVE  raced'
  BY <1>1 DEF Open, OpenEarly, OpenShared, OpenRefused, OpenFirst, AllocFails,
              Alloc, Claim, MapFails, Map, Product, RequestIrq, Finish, Unmap,
              Undo, FreeDevice
<1>2. ASSUME NEW f \in Files, CloseFile(f)
      PROVE  raced'
  BY <1>2 DEF CloseFile, CloseNothing, Close, CloseLast, FreeIrq, Release,
              Kfree, FreeDevice
<1>3. QED
  BY <1>1, <1>2 DEF Next, vars, InitEnds, Ioctl, Isr

-----------------------------------------------------------------------------
(***************************************************************************)
(* The types, whatever opens and closes race.  That ref is no more than    *)
(* the files there are needs to know that the object at i_private counts   *)
(* no more than the open files; one that was overwritten counts on with    *)
(* the value it had.  A process in open or close has its device data in    *)
(* its own variable, once it has any.                                      *)
(***************************************************************************)
OwnDev(f) == pc[f] \in (Opening \ {"alloc"}) \cup Closing => dev[f] \in Objects
Counted == i_private # None => ref[i_private] <= Cardinality(OpenFiles)
NodeTypeInv == TypeOK /\ (\A f \in Files : OwnDev(f)) /\ Counted

LEMMA NodeTypeInit == Init => NodeTypeInv
<1>1. Init => TypeOK
  BY InitNode DEF Orderly
<1>2. QED
  BY <1>1 DEF Init, NodeTypeInv, OwnDev, Counted, Opening, Closing

\* Where a process goes.
LEMMA GoesTo ==
  ASSUME TypeOK, NEW f \in Files, NEW where \in PCs, Goto(f, where)
  PROVE  /\ pc' \in [Files -> PCs] /\ pc'[f] = where
         /\ \A g \in Files \ {f} : pc'[g] = pc[g]
         /\ pc[f] # "open" /\ where # "open" => OpenFiles' = OpenFiles
BY DEF TypeOK, Goto, OpenFiles

\* A step that keeps who has the node open and what is counted.
LEMMA Uncounted ==
  ASSUME NodeTypeInv, NEW f \in Files,
         NEW where \in PCs \ {"open"}, pc[f] # "open", Goto(f, where),
         where \in (Opening \ {"alloc"}) \cup Closing => dev[f] \in Objects,
         ref' = ref, i_private' \in {i_private, None}, dev' = dev,
         flags' \in BOOLEAN, region' \in BOOLEAN, faulted' \in BOOLEAN, raced' \in BOOLEAN,
         notFirstOpen' = notFirstOpen, private_data' \in [Files -> Objects \cup {None}],
         alive' \subseteq Objects, handlers' \subseteq Objects,
         base' \in [Objects -> {"null", "mapped", "unmapped"}]
  PROVE  NodeTypeInv'
<1>1. /\ pc' \in [Files -> PCs] /\ pc'[f] = where
      /\ \A g \in Files \ {f} : pc'[g] = pc[g]
      /\ OpenFiles' = OpenFiles
  BY GoesTo DEF NodeTypeInv
<1>2. TypeOK'
  BY <1>1 DEF NodeTypeInv, TypeOK
<1>3. \A g \in Files : OwnDev(g)'
  BY <1>1 DEF NodeTypeInv, OwnDev
<1>4. Counted'
  BY <1>1 DEF NodeTypeInv, Counted
<1>5. QED
  BY <1>2, <1>3, <1>4 DEF NodeTypeInv

\* A step that moves nobody.
LEMMA Standing ==
  ASSUME NodeTypeInv,
         UNCHANGED <<notFirstOpen, i_private, private_data, dev, pc, memory, handlers>>,
         flags' \in BOOLEAN, faulted' \in BOOLEAN, raced' \in BOOLEAN
  PROVE  NodeTypeInv'
<1>1. /\ notFirstOpen' = notFirstOpen /\ i_private' = i_private
      /\ private_data' = private_data /\ dev' = dev /\ pc' = pc
      /\ alive' = alive /\ ref' = ref /\ base' = base /\ region' = region
      /\ handlers' = handlers
  BY DEF memory
<1>2. TypeOK'
  BY <1>1 DEF NodeTypeInv, TypeOK
<1>3. (\A f \in Files : OwnDev(f)') /\ Counted'
  BY <1>1 DEF NodeTypeInv, OwnDev, Counted, OpenFiles
<1>4. QED
  BY <1>2, <1>3 DEF NodeTypeInv

\* The device data of a process that gives up or closes is freed.
LEMMA FreeDeviceType ==
  ASSUME NodeTypeInv, NEW f \in Files, pc[f] # "open", FreeDevice(f)
  PROVE  NodeTypeInv'
<1>1. TypeOK
  BY DEF NodeTypeInv
<1>2. /\ Goto(f, "closed") /\ i_private' = None
      /\ faulted' \in BOOLEAN /\ alive' = alive \ {dev[f]}
      /\ private_data' = [private_data EXCEPT ![f] = None]
      /\ dev' = [dev EXCEPT ![f] = None]
      /\ UNCHANGED <<raced, flags, notFirstOpen, ref, base, region, handlers>>
  BY DEF FreeDevice, Uses
<1>3. /\ pc' \in [Files -> PCs] /\ pc'[f] = "closed"
      /\ \A g \in Files \ {f} : pc'[g] = pc[g]
  BY <1>1, <1>2, GoesTo DEF PCs
<1>4. TypeOK'
  BY <1>1, <1>2, <1>3 DEF TypeOK
<1>5. (\A g \in Files : OwnDev(g)') /\ Counted'
  BY <1>1, <1>2, <1>3 DEF NodeTypeInv, OwnDev, Counted, TypeOK, Opening, Closing
<1>6. QED
  BY <1>4, <1>5 DEF NodeTypeInv

LEMMA NodeTypeOpen ==
  ASSUME NodeTypeInv, NEW f \in Files, Open(f)
  PROVE  NodeTypeInv'
<1> USE DEF At
<1>1. TypeOK /\ OwnDev(f)
  BY DEF NodeTypeInv
<1>2. CASE OpenEarly(f) \/ OpenRefused(f)
  BY <1>1, <1>2, Standing DEF OpenEarly, OpenRefused, Uses, TypeOK
<1>3. CASE OpenShared(f)
  <2>1. /\ pc[f] = "closed" /\ Goto(f, "open") /\ i_private # None
        /\ ref' = [ref EXCEPT ![i_private] = @ + 1]
        /\ private_data' = [private_data EXCEPT ![f] = i_private]
        /\ faulted' \in BOOLEAN
        /\ UNCHANGED <<raced, flags, notFirstOpen, i_private, dev, alive, base, region,
                       handlers>>
    BY <1>3 DEF OpenShared, MayOpen, Shared, Uses
  <2>2. /\ Cardinality(OpenFiles') = Cardinality(OpenFiles) + 1
        /\ Cardinality(OpenFiles') <= Cardinality(Files)
    BY <1>1, <2>1, OneMore
  <2>3. /\ pc' \in [Files -> PCs] /\ pc'[f] = "open"
        /\ \A g \in Files \ {f} : pc'[g] = pc[g]
    BY <1>1, <2>1, GoesTo DEF PCs
  <2>4. i_private \in Objects /\ ref[i_private] \in Nat
        /\ ref[i_private] <= Cardinality(OpenFiles)
    BY <1>1, <2>1, OpenCount DEF NodeTypeInv, TypeOK, Counted
  <2>5. ref[i_private] + 1 \in 0..Cardinality(Files)
        /\ ref[i_private] + 1 <= Cardinality(OpenFiles')
    BY <2>2, <2>4, OpenCount
  <2>6. TypeOK'
    BY <1>1, <2>1, <2>3, <2>4, <2>5 DEF TypeOK
  <2>7. \A g \in Files : OwnDev(g)'
    BY <2>1, <2>3 DEF NodeTypeInv, OwnDev, Opening, Closing
  <2>8. Counted'
    BY <1>1, <2>1, <2>4, <2>5 DEF Counted, TypeOK
  <2>9. QED
    BY <2>6, <2>7, <2>8 DEF NodeTypeInv
<1>4. CASE OpenFirst(f)
  <2>1. raced' \in BOOLEAN
    BY <1>1, <1>4 DEF OpenFirst, TypeOK
  <2>2. QED
    BY <1>1, <1>4, <2>1, Uncounted DEF OpenFirst, MayOpen, memory, TypeOK, PCs, Opening, Closing
<1>5. CASE AllocFails(f)
  BY <1>1, <1>5, Uncounted DEF AllocFails, memory, TypeOK, PCs, Closing, Opening
<1>6. CASE Alloc(f)
  <2>1. PICK d \in Objects \ alive :
        /\ pc[f] = "alloc" /\ Goto(f, "claim")
        /\ alive' = alive \cup {d}
        /\ ref' = [ref EXCEPT ![d] = 0]
        /\ base' = [base EXCEPT ![d] = "null"]
        /\ i_private' = d
        /\ private_data' = [private_data EXCEPT ![f] = d]
        /\ dev' = [dev EXCEPT ![f] = d]
        /\ UNCHANGED <<raced, flags, notFirstOpen, region, handlers, faulted>>
    BY <1>6 DEF Alloc
  <2>2. /\ pc' \in [Files -> PCs] /\ pc'[f] = "claim"
        /\ \A g \in Files \ {f} : pc'[g] = pc[g]
        /\ OpenFiles' = OpenFiles
    BY <1>1, <2>1, GoesTo DEF PCs, Opening
  <2>3. TypeOK'
    <3>1. ref' \in [Objects -> 0..Cardinality(Files)]
      BY <1>1, <2>1, OpenCount DEF TypeOK
    <3>2. QED
      BY <1>1, <2>1, <2>2, <3>1 DEF TypeOK
  <2>4. \A g \in Files : OwnDev(g)'
    BY <1>1, <2>1, <2>2 DEF NodeTypeInv, OwnDev, TypeOK
  <2>5. Counted'
    BY <1>1, <2>1, <2>2, OpenCount DEF Counted, TypeOK
  <2>6. QED
    BY <2>3, <2>4, <2>5 DEF NodeTypeInv
<1>7. CASE Claim(f)
  <2>1. PICK where \in {"undo", "map"} : Goto(f, where)
    BY <1>7 DEF Claim
  <2>2. QED
    BY <1>1, <1>7, <2>1, Uncounted DEF Claim, Uses, OwnDev, TypeOK, PCs, Opening
<1>8. CASE MapFails(f)
  BY <1>1, <1>8, Uncounted DEF MapFails, OwnDev, TypeOK, PCs, Opening
<1>9. CASE Map(f)
  BY <1>1, <1>9, Uncounted DEF Map, Uses, OwnDev, TypeOK, PCs, Opening
<1>10. CASE Product(f)
  <2>1. PICK where \in {"irq", "unmap"} : Goto(f, where)
    BY <1>10 DEF Product
  <2>2. QED
    BY <1>1, <1>10, <2>1, Uncounted DEF Product, Uses, memory, OwnDev, TypeOK, PCs, Opening
<1>11. CASE RequestIrq(f)
  <2>1. dev[f] \in Objects
    BY <1>1, <1>11 DEF RequestIrq, OwnDev, Opening
  <2>2. QED
    BY <1>1, <1>11, <2>1, Uncounted DEF RequestIrq, memory, TypeOK, PCs, Opening
<1>12. CASE Finish(f)
  <2>1. /\ pc[f] = "finish" /\ Goto(f, "open")
        /\ ref' = [ref EXCEPT ![dev[f]] = 1]
        /\ notFirstOpen' = TRUE /\ dev' = [dev EXCEPT ![f] = None]
        /\ faulted' \in BOOLEAN
        /\ UNCHANGED <<raced, flags, i_private, private_data, alive, base, region, handlers>>
    BY <1>12 DEF Finish, Uses
  <2>2. /\ pc' \in [Files -> PCs] /\ pc'[f] = "open"
        /\ \A g \in Files \ {f} : pc'[g] = pc[g]
    BY <1>1, <2>1, GoesTo DEF PCs
  <2>3. OpenFiles' = OpenFiles \cup {f} /\ f \notin OpenFiles /\ OpenFiles' \subseteq Files
    BY <2>1, <2>2 DEF OpenFiles
  <2>4. /\ Cardinality(OpenFiles') = Cardinality(OpenFiles) + 1
        /\ Cardinality(OpenFiles') <= Cardinality(Files)
    BY <2>3, OpenCount, NodeAssumption, FS_AddElement, FS_Subset
  <2>5. 1 \in 0..Cardinality(Files) /\ 1 <= Cardinality(OpenFiles')
    BY <2>4, OpenCount
  <2>6. TypeOK'
    BY <1>1, <2>1, <2>2, <2>5 DEF TypeOK
  <2>7. \A g \in Files : OwnDev(g)'
    BY <1>1, <2>1, <2>2 DEF NodeTypeInv, OwnDev, TypeOK, Opening, Closing
  <2>8. ASSUME i_private # None
        PROVE  ref'[i_private] <= Cardinality(OpenFiles')
    <3>1. i_private \in Objects /\ ref[i_private] \in Nat
          /\ ref[i_private] <= Cardinality(OpenFiles)
      BY <1>1, <2>8, OpenCount DEF NodeTypeInv, TypeOK, Counted
    <3>2. ref'[i_private] = 1 \/ ref'[i_private] = ref[i_private]
      BY <1>1, <2>1, <3>1 DEF TypeOK
    <3>3. QED
      BY <2>4, <2>5, <3>1, <3>2, OpenCount
  <2>9. QED
    BY <2>1, <2>6, <2>7, <2>8 DEF NodeTypeInv, Counted
<1>13. CASE Unmap(f)
  <2>1. /\ base' \in [Objects -> {"null", "mapped", "unmapped"}]
        /\ region' \in BOOLEAN /\ faulted' \in BOOLEAN
    BY <1>1, <1>13 DEF Unmap, ReleaseMemory, TypeOK
  <2>2. QED
    BY <1>1, <1>13, <2>1, Uncounted DEF Unmap, ReleaseMemory, OwnDev, TypeOK, PCs, Opening
<1>14. CASE Undo(f)
  BY <1>1, <1>14, FreeDeviceType DEF Undo
<1>15. QED
  BY <1>2, <1>3, <1>4, <1>5, <1>6, <1>7, <1>8, <1>9, <1>10, <1>11, <1>12, <1>13, <1>14
     DEF Open

LEMMA NodeTypeClose ==
  ASSUME NodeTypeInv, NEW f \in Files, CloseFile(f)
  PROVE  NodeTypeInv'
<1> USE DEF At
<1>1. TypeOK /\ OwnDev(f)
  BY DEF NodeTypeInv
<1>2. CASE CloseNothing(f)
  <2>1. /\ Goto(f, "closed") /\ i_private = None
        /\ private_data' = [private_data EXCEPT ![f] = None]
        /\ UNCHANGED <<raced, flags, notFirstOpen, i_private, dev, alive, ref, base,
                       region, handlers, faulted>>
    BY <1>2 DEF CloseNothing, memory
  <2>2. /\ pc' \in [Files -> PCs] /\ pc'[f] = "closed"
        /\ \A g \in Files \ {f} : pc'[g] = pc[g]
    BY <1>1, <2>1, GoesTo DEF PCs
  <2>3. TypeOK'
    BY <1>1, <2>1, <2>2 DEF TypeOK
  <2>4. (\A g \in Files : OwnDev(g)') /\ Counted'
    BY <2>1, <2>2 DEF NodeTypeInv, OwnDev, Counted, Opening, Closing
  <2>5. QED
    BY <2>3, <2>4 DEF NodeTypeInv
<1>3. ASSUME NEW where \in {"closed", "free_irq"}, NEW r \in 0..Cardinality(Files),
             pc[f] = "open", Goto(f, where), i_private # None,
             r <= ref[i_private] - 1 \/ r = 0,
             ref' = [ref EXCEPT ![i_private] = r],
             private_data' \in [Files -> Objects \cup {None}],
             dev' \in [Files -> Objects \cup {None}],
             \A g \in Files \ {f} : dev'[g] = dev[g],
             where = "free_irq" => dev'[f] \in Objects,
             faulted' \in BOOLEAN,
             UNCHANGED <<raced, flags, notFirstOpen, i_private, alive, base, region,
                         handlers>>
      PROVE  NodeTypeInv'
  <2>1. /\ pc' \in [Files -> PCs] /\ pc'[f] = where
        /\ \A g \in Files \ {f} : pc'[g] = pc[g]
    BY <1>1, <1>3, GoesTo DEF PCs, Closing
  <2>2. Cardinality(OpenFiles') = Cardinality(OpenFiles) - 1 /\ Cardinality(OpenFiles) > 0
    BY <1>1, <1>3, OneLess
  <2>3. i_private \in Objects /\ ref[i_private] \in Nat
        /\ ref[i_private] <= Cardinality(OpenFiles)
    BY <1>1, <1>3, OpenCount DEF NodeTypeInv, TypeOK, Counted
  <2>4. ref'[i_private] = r /\ r <= Cardinality(OpenFiles')
    BY <1>1, <1>3, <2>2, <2>3, OpenCount DEF TypeOK
  <2>5. TypeOK'
    BY <1>1, <1>3, <2>1 DEF TypeOK
  <2>6. \A g \in Files : OwnDev(g)'
    BY <1>3, <2>1 DEF NodeTypeInv, OwnDev, Opening, Closing
  <2>7. Counted'
    BY <1>3, <2>4 DEF Counted
  <2>8. QED
    BY <2>5, <2>6, <2>7 DEF NodeTypeInv
<1>4. CASE Close(f)
  <2>1. ref[i_private] - 1 \in 0..Cardinality(Files)
    BY <1>1, <1>4, OpenCount DEF Close, TypeOK
  <2>2. PICK r \in 0..Cardinality(Files) : r <= ref[i_private] - 1
                                           /\ ref' = [ref EXCEPT ![i_private] = r]
    <3>1. ref[i_private] - 1 <= ref[i_private] - 1
      BY <2>1
    <3>2. QED
      BY <1>4, <2>1, <3>1 DEF Close
  <2>3. /\ pc[f] = "open" /\ Goto(f, "closed") /\ i_private # None
        /\ private_data' \in [Files -> Objects \cup {None}]
        /\ dev' \in [Files -> Objects \cup {None}] /\ dev' = dev
        /\ faulted' \in BOOLEAN
        /\ UNCHANGED <<raced, flags, notFirstOpen, i_private, alive, base, region,
                       handlers>>
    BY <1>1, <1>4 DEF Close, Uses, TypeOK
  <2>4. QED
    BY <1>3, <2>2, <2>3
<1>5. CASE CloseLast(f)
  <2>1. 0 \in 0..Cardinality(Files)
    BY OpenCount
  <2>2. /\ dev' \in [Files -> Objects \cup {None}] /\ dev'[f] \in Objects
        /\ \A g \in Files \ {f} : dev'[g] = dev[g]
    BY <1>1, <1>5 DEF CloseLast, TypeOK
  <2>3. QED
    BY <1>1, <1>3, <1>5, <2>1, <2>2 DEF CloseLast, Uses, TypeOK
<1>6. CASE FreeIrq(f)
  BY <1>1, <1>6, Uncounted DEF FreeIrq, memory, OwnDev, TypeOK, PCs, Closing
<1>7. CASE Release(f)
  <2>1. /\ base' \in [Objects -> {"null", "mapped", "unmapped"}]
        /\ region' \in BOOLEAN /\ faulted' \in BOOLEAN
    BY <1>1, <1>7 DEF Release, ReleaseMemory, TypeOK
  <2>2. QED
    BY <1>1, <1>7, <2>1, Uncounted DEF Release, ReleaseMemory, OwnDev, TypeOK, PCs, Closing
<1>8. CASE Kfree(f)
  BY <1>1, <1>8, FreeDeviceType DEF Kfree
<1>9. QED
  BY <1>2, <1>4, <1>5, <1>6, <1>7, <1>8 DEF CloseFile

LEMMA NodeTypeStep == NodeTypeInv /\ [Next]_vars => NodeTypeInv'
<1> SUFFICES ASSUME NodeTypeInv, [Next]_vars PROVE NodeTypeInv'
  OBVIOUS
<1>1. TypeOK
  BY DEF NodeTypeInv
<1>2. CASE UNCHANGED vars
  BY <1>1, <1>2, Standing DEF vars, TypeOK
<1>3. CASE InitEnds
  BY <1>1, <1>3, Standing DEF InitEnds, TypeOK
<1>4. ASSUME NEW f \in Files, Ioctl(f) PROVE NodeTypeInv'
  BY <1>1, <1>4, Standing DEF Ioctl, UsesRegisters, TypeOK
<1>5. ASSUME NEW d \in Objects, Isr(d) PROVE NodeTypeInv'
  BY <1>1, <1>5, Standing DEF Isr, UsesRegisters, TypeOK
<1>6. QED
  BY <1>2, <1>3, <1>4, <1>5, NodeTypeOpen, NodeTypeClose DEF Next

\* The node keeps its types whatever opens and closes race, for any files and
\* objects: in particular ref is never less than zero and never more than the
\* files there are (cpsdio.c:907, 964, 968).
THEOREM NodeTyped == Spec => []TypeOK
<1>1. NodeTypeInv => TypeOK
  BY DEF NodeTypeInv
<1>2. QED
  BY NodeTypeInit, NodeTypeStep, <1>1, PTL DEF Spec

-----------------------------------------------------------------------------
\* While no two processes meet in the first open: nobody has the node open, or
\* some share one object that counts them, or one process alone opens or
\* closes it.
THEOREM NodeInvariant == Spec => []NodeInv
<1>1. Init => NodeInv
  BY InitNode DEF NodeInv
<1>2. NodeInv /\ [Next]_vars => NodeInv'
  BY NextNode, RacedStays DEF NodeInv
<1>3. QED
  BY <1>1, <1>2, PTL DEF Spec

\* cpsdio_open and the opens of the other drivers: so long, every process that
\* has the node open works on the one object at inode->i_private.
THEOREM SharedObjectAlways == Spec => []SharedObject
<1>1. NodeInv => SharedObject
  <2>1. ASSUME Orderly, NEW f \in Files, pc[f] = "open"
        PROVE  private_data[f] = i_private /\ i_private # None
    BY <2>1, Found, NodeAssumption DEF InUse, OpenFiles
  <2>2. QED
    BY <2>1 DEF NodeInv, SharedObject, OneObject
<1>2. QED
  BY <1>1, NodeInvariant, PTL

\* So long, no ioctl, interrupt handler, open or close uses freed device data
\* or unmapped registers.
THEOREM NoFaultEver == Spec => []NoFault
<1>1. NodeInv => NoFault
  BY DEF NodeInv, Orderly, NoFault
<1>2. QED
  BY <1>1, NodeInvariant, PTL

\* So long, the last close and a failed open give everything back.
THEOREM NothingLeftBehind == Spec => []NothingLeft
<1>1. NodeInv => NothingLeft
  <2>1. ASSUME Orderly, \A f \in Files : pc[f] = "closed"
        PROVE  Idle
    <3>1. ~InUse
      BY <2>1 DEF InUse, OpenFiles
    <3>2. \A f \in Files : ~Busy(f)
      BY <2>1 DEF Busy, Opening, Closing
    <3>3. QED
      BY <2>1, <3>1, <3>2 DEF Orderly
  <2>2. QED
    BY <2>1 DEF NodeInv, NothingLeft, Idle
<1>2. QED
  BY <1>1, NodeInvariant, PTL

(***************************************************************************)
(* The claim of the window, with and without races.                        *)
(***************************************************************************)
LEMMA InitWindow == Init => WindowInv
BY DEF Init, WindowInv, OneWindow, ToMap, PCs

\* A step that leaves the window alone and brings no process to "map".
LEMMA WindowKept ==
  ASSUME WindowInv, base' = base, region' = region, alive' \subseteq Objects,
         pc' \in [Files -> PCs], faulted' \/ ~faulted,
         \A f \in Files : pc'[f] = "map" => pc[f] = "map"
  PROVE  WindowInv'
BY DEF WindowInv, OneWindow, ToMap

\* A process that moves, and not to "map".
LEMMA Moves ==
  ASSUME WindowInv, NEW f \in Files, NEW where \in PCs \ {"map"}, Goto(f, where)
  PROVE  /\ pc' \in [Files -> PCs]
         /\ \A g \in Files : pc'[g] = "map" => pc[g] = "map" /\ g # f
BY DEF WindowInv, Goto

LEMMA AllocWindow ==
  ASSUME WindowInv, NEW f \in Files, Alloc(f)
  PROVE  WindowInv'
<1>1. PICK d \in Objects :
        /\ alive' = alive \cup {d} /\ base' = [base EXCEPT ![d] = "null"]
        /\ region' = region /\ ~faulted
  BY DEF Alloc, At
<1>2. /\ pc' \in [Files -> PCs]
      /\ \A g \in Files : pc'[g] = "map" => pc[g] = "map"
  BY Moves DEF Alloc, PCs, Opening
<1>3. \A e \in Objects : base'[e] = "mapped" => base[e] = "mapped"
  BY <1>1 DEF WindowInv
<1>4. QED
  BY <1>1, <1>2, <1>3 DEF WindowInv, OneWindow, ToMap

\* A process that finds the window free claims it: nobody else maps it.
LEMMA ClaimWindow ==
  ASSUME WindowInv, NEW f \in Files, Claim(f)
  PROVE  WindowInv'
<1>1. /\ ~faulted /\ pc' = [pc EXCEPT ![f] = IF region THEN "undo" ELSE "map"]
      /\ region' = TRUE /\ base' = base /\ alive' = alive
  BY DEF Claim, At, Goto
<1>2. CASE region
  <2>1. Goto(f, "undo")
    BY <1>1, <1>2 DEF Goto
  <2>2. /\ pc' \in [Files -> PCs]
        /\ \A g \in Files : pc'[g] = "map" => pc[g] = "map"
    BY <2>1, Moves DEF PCs, Opening
  <2>3. region' = region
    BY <1>1, <1>2 DEF WindowInv
  <2>4. QED
    BY <1>1, <2>2, <2>3, WindowKept DEF WindowInv
<1>3. CASE ~region
  <2>1. \A d \in Objects : base[d] # "mapped"
    BY <1>1, <1>3 DEF WindowInv, OneWindow
  <2>2. \A g \in Files : pc[g] # "map"
    BY <1>1, <1>3 DEF WindowInv, ToMap
  <2>3. pc' \in [Files -> PCs] /\ \A g \in Files : pc'[g] = "map" => g = f
    BY <1>1, <1>3, <2>2 DEF WindowInv, PCs, Opening
  <2>4. QED
    BY <1>1, <2>1, <2>3 DEF WindowInv, OneWindow, ToMap
<1>4. QED
  BY <1>2, <1>3

LEMMA MapFailsWindow ==
  ASSUME WindowInv, NEW f \in Files, MapFails(f)
  PROVE  WindowInv'
<1>1. /\ ~faulted /\ pc[f] = "map" /\ Goto(f, "undo")
      /\ region' = FALSE /\ base' = base /\ alive' = alive
  BY DEF MapFails, At
<1>2. /\ pc' \in [Files -> PCs]
      /\ \A g \in Files : pc'[g] = "map" => pc[g] = "map" /\ g # f
  BY <1>1, Moves DEF PCs, Opening
<1>3. /\ \A d \in Objects : base[d] # "mapped"
      /\ \A g \in Files : pc[g] = "map" => g = f
  BY <1>1 DEF WindowInv, ToMap
<1>4. QED
  BY <1>1, <1>2, <1>3 DEF WindowInv, OneWindow, ToMap

LEMMA MapWindow ==
  ASSUME WindowInv, NEW f \in Files, Map(f)
  PROVE  WindowInv'
<1>1. /\ ~faulted /\ pc[f] = "map" /\ Goto(f, "product")
      /\ region' = region /\ alive' = alive
      /\ base' = [base EXCEPT ![dev[f]] = "mapped"]
  BY DEF Map, At
<1>2. /\ pc' \in [Files -> PCs]
      /\ \A g \in Files : pc'[g] = "map" => pc[g] = "map" /\ g # f
  BY <1>1, Moves DEF PCs, Opening
<1>3. /\ region /\ \A d \in Objects : base[d] # "mapped"
      /\ \A g \in Files : pc[g] = "map" => g = f
  BY <1>1 DEF WindowInv, ToMap
<1>4. /\ base' \in [Objects -> {"null", "mapped", "unmapped"}]
      /\ \A d \in Objects : base'[d] = "mapped" => d = dev[f]
  BY <1>1, <1>3 DEF WindowInv
<1>5. QED
  BY <1>1, <1>2, <1>3, <1>4 DEF WindowInv, OneWindow, ToMap

\* The window is released by the device data that maps it, or not at all.
LEMMA ReleaseWindow ==
  ASSUME WindowInv, NEW f \in Files, NEW d, ReleaseMemory(d), ~faulted,
         NEW where \in PCs \ {"map"}, Goto(f, where)
  PROVE  WindowInv'
<1>1. /\ alive' = alive /\ region' \in BOOLEAN
      /\ base' \in [Objects -> {"null", "mapped", "unmapped"}]
  BY DEF ReleaseMemory, WindowInv
<1>2. /\ pc' \in [Files -> PCs]
      /\ \A g \in Files : pc'[g] = "map" => pc[g] = "map"
  BY Moves
<1>3. ASSUME ~faulted'
      PROVE  OneWindow' /\ \A g \in Files : ToMap(g)'
  <2>1. d \in Objects /\ base[d] \in {"null", "mapped"}
    BY <1>3 DEF ReleaseMemory, WindowInv
  <2>2. CASE base[d] = "null"
    <3>1. base' = base /\ region' = region
      BY <2>2 DEF ReleaseMemory, WindowInv
    <3>2. QED
      BY <1>2, <3>1 DEF WindowInv, OneWindow, ToMap
  <2>3. CASE base[d] = "mapped"
    <3>1. \A e \in Objects : base'[e] # "mapped"
      BY <2>1, <2>3 DEF ReleaseMemory, WindowInv, OneWindow
    <3>2. \A g \in Files : pc'[g] # "map"
      BY <1>2, <2>1, <2>3 DEF WindowInv, ToMap
    <3>3. QED
      BY <3>1, <3>2 DEF OneWindow, ToMap
  <2>4. QED
    BY <2>1, <2>2, <2>3
<1>4. OneWindow'
  BY <1>3 DEF OneWindow
<1>5. QED
  BY <1>1, <1>2, <1>3, <1>4 DEF WindowInv

LEMMA OpenWindow ==
  ASSUME WindowInv, NEW f \in Files, Open(f)
  PROVE  WindowInv'
<1>1. CASE OpenEarly(f)
  BY <1>1, WindowKept DEF OpenEarly, memory, WindowInv
<1>2. CASE OpenShared(f)
  <2>1. Goto(f, "open") /\ ~faulted
        /\ base' = base /\ region' = region /\ alive' = alive
    BY <1>2 DEF OpenShared, MayOpen, At
  <2>2. QED
    BY <2>1, Moves, WindowKept DEF WindowInv, PCs
<1>3. CASE OpenRefused(f)
  BY <1>3, WindowKept DEF OpenRefused, MayOpen, At, memory, WindowInv
<1>4. CASE OpenFirst(f)
  <2>1. Goto(f, "alloc") /\ ~faulted
        /\ base' = base /\ region' = region /\ alive' = alive
    BY <1>4 DEF OpenFirst, MayOpen, At, memory
  <2>2. QED
    BY <2>1, Moves, WindowKept DEF WindowInv, PCs, Opening
<1>5. CASE AllocFails(f)
  <2>1. Goto(f, "closed") /\ ~faulted
        /\ base' = base /\ region' = region /\ alive' = alive
    BY <1>5 DEF AllocFails, At, memory
  <2>2. QED
    BY <2>1, Moves, WindowKept DEF WindowInv, PCs
<1>6. CASE Product(f)
  <2>1. PICK where \in {"irq", "unmap"} :
          /\ Goto(f, where) /\ ~faulted
          /\ base' = base /\ region' = region /\ alive' = alive
    BY <1>6 DEF Product, At, memory
  <2>2. QED
    BY <2>1, Moves, WindowKept DEF WindowInv, PCs, Opening
<1>7. CASE RequestIrq(f)
  <2>1. Goto(f, "finish") /\ ~faulted
        /\ base' = base /\ region' = region /\ alive' = alive
    BY <1>7 DEF RequestIrq, At, memory
  <2>2. QED
    BY <2>1, Moves, WindowKept DEF WindowInv, PCs, Opening
<1>8. CASE Finish(f)
  <2>1. Goto(f, "open") /\ ~faulted
        /\ base' = base /\ region' = region /\ alive' = alive
    BY <1>8 DEF Finish, At
  <2>2. QED
    BY <2>1, Moves, WindowKept DEF WindowInv, PCs
<1>9. CASE Unmap(f)
  BY <1>9, ReleaseWindow DEF Unmap, At, PCs, Opening
<1>10. CASE Undo(f)
  <2>1. Goto(f, "closed") /\ ~faulted
        /\ base' = base /\ region' = region /\ alive' \subseteq alive
    BY <1>10 DEF Undo, FreeDevice, At
  <2>2. QED
    BY <2>1, Moves, WindowKept DEF WindowInv, PCs
<1>11. QED
  BY <1>1, <1>2, <1>3, <1>4, <1>5, <1>6, <1>7, <1>8, <1>9, <1>10,
     AllocWindow, ClaimWindow, MapFailsWindow, MapWindow DEF Open

LEMMA CloseWindow ==
  ASSUME WindowInv, NEW f \in Files, CloseFile(f)
  PROVE  WindowInv'
<1>1. CASE CloseNothing(f)
  <2>1. Goto(f, "closed") /\ ~faulted
        /\ base' = base /\ region' = region /\ alive' = alive
    BY <1>1 DEF CloseNothing, At, memory
  <2>2. QED
    BY <2>1, Moves, WindowKept DEF WindowInv, PCs
<1>2. CASE Close(f)
  <2>1. Goto(f, "closed") /\ ~faulted
        /\ base' = base /\ region' = region /\ alive' = alive
    BY <1>2 DEF Close, At
  <2>2. QED
    BY <2>1, Moves, WindowKept DEF WindowInv, PCs
<1>3. CASE CloseLast(f)
  <2>1. Goto(f, "free_irq") /\ ~faulted
        /\ base' = base /\ region' = region /\ alive' = alive
    BY <1>3 DEF CloseLast, At
  <2>2. QED
    BY <2>1, Moves, WindowKept DEF WindowInv, PCs, Closing
<1>4. CASE FreeIrq(f)
  <2>1. Goto(f, "release") /\ ~faulted
        /\ base' = base /\ region' = region /\ alive' = alive
    BY <1>4 DEF FreeIrq, At, memory
  <2>2. QED
    BY <2>1, Moves, WindowKept DEF WindowInv, PCs, Closing
<1>5. CASE Release(f)
  BY <1>5, ReleaseWindow DEF Release, At, PCs, Closing
<1>6. CASE Kfree(f)
  <2>1. Goto(f, "closed") /\ ~faulted
        /\ base' = base /\ region' = region /\ alive' \subseteq alive
    BY <1>6 DEF Kfree, FreeDevice, At
  <2>2. QED
    BY <2>1, Moves, WindowKept DEF WindowInv, PCs
<1>7. QED
  BY <1>1, <1>2, <1>3, <1>4, <1>5, <1>6 DEF CloseFile

\* cps_common_mem_alloc: whatever opens and closes race, the claim of the
\* window keeps two device data from driving the same registers.
THEOREM OneWindowAlways == Spec => []OneWindow
<1>1. WindowInv /\ [Next]_vars => WindowInv'
  <2> SUFFICES ASSUME WindowInv, [Next]_vars PROVE WindowInv'
    OBVIOUS
  <2>1. CASE InitEnds
    BY <2>1, WindowKept DEF InitEnds, memory, WindowInv
  <2>2. ASSUME NEW f \in Files, Ioctl(f)
        PROVE  WindowInv'
    BY <2>2, WindowKept DEF Ioctl, At, memory, WindowInv
  <2>3. ASSUME NEW d \in Objects, Isr(d)
        PROVE  WindowInv'
    BY <2>3, WindowKept DEF Isr, memory, WindowInv
  <2>4. CASE UNCHANGED vars
    <3>1. base' = base /\ region' = region /\ alive' = alive /\ pc' = pc
          /\ faulted' = faulted
      BY <2>4 DEF vars, memory
    <3>2. QED
      BY <3>1 DEF WindowInv, OneWindow, ToMap
  <2>5. QED
    BY <2>1, <2>2, <2>3, <2>4, OpenWindow, CloseWindow DEF Next
<1>2. WindowInv => OneWindow
  BY DEF WindowInv
<1>3. QED
  BY <1>1, <1>2, InitWindow, PTL DEF Spec

(***************************************************************************)
(* DioInterrupt.  MemoryReached needs more than it says: that the task a   *)
(* node names is held even while it runs (HeldInv), and, for the length of *)
(* notFirstOpenFlg, that a node with device data is one the module made,   *)
(* which an unload would break if the count of the opens were ever wrong   *)
(* (RefInv).  The two action properties follow from the types alone.       *)
(***************************************************************************)
DevData == [ref : Nat, int_callback : DioTasks \cup {DioNone}]

Shape ==
  /\ dioFile \in [DioTasks -> DioSlots \cup {DioNone}]
  /\ dioDev \in [DioSlots -> DevData \cup {DioNone}]
  /\ dioKind \in [DioSlots -> {"none", "dio", "other"}]
  /\ taskAlive \subseteq DioTasks /\ dioLoaded \in BOOLEAN

FilesOf(s) == {t \in DioTasks : dioFile[t] = s}

\* A node has device data while some file of it is open, and counts its files.
RefInv(s) ==
  /\ dioDev[s] = DioNone => FilesOf(s) = {}
  /\ dioDev[s] # DioNone => /\ dioDev[s].ref = Cardinality(FilesOf(s))
                            /\ FilesOf(s) # {}

\* The task that a node names was taken a reference on.
HeldInv(s) ==
  dioDev[s] # DioNone => dioDev[s].int_callback \in taskHeld \cup {DioNone}

\* Files are open of nodes that the module made, and the flags are as many.
LoadInv ==
  /\ \A t \in DioTasks : dioFile[t] \in DioNodes \cup {DioNone}
  /\ dioLoaded => dioFlags = FlagsFor(dioKind)

DioInv ==
  /\ Shape /\ LoadInv
  /\ \A s \in DioSlots : RefInv(s) /\ HeldInv(s)

-----------------------------------------------------------------------------
LEMMA DataIsNotNone == \A d \in DevData : d # DioNone
BY DioAssumption DEF DevData

LEMMA FilesFinite == \A s : IsFiniteSet(FilesOf(s)) /\ Cardinality(FilesOf(s)) \in Nat
<1>1. \A s : FilesOf(s) \in SUBSET DioTasks
  BY DEF FilesOf
<1> QED BY <1>1, DioAssumption, FS_Subset, FS_CardinalityType

LEMMA InitHolds == DioInit => DioInv
<1> SUFFICES ASSUME DioInit PROVE DioInv
  OBVIOUS
<1>1. Shape /\ LoadInv
  BY DEF DioInit, Shape, LoadInv
<1>2. \A s \in DioSlots : RefInv(s) /\ HeldInv(s)
  BY DioAssumption DEF DioInit, RefInv, HeldInv, FilesOf
<1> QED BY <1>1, <1>2 DEF DioInv

\* Nothing that the invariant speaks of changes but who is held.
LEMMA OnlyHeld ==
  ASSUME DioInv, UNCHANGED <<dioNodes, dioFile, dioDev>>, taskHeld \subseteq taskHeld',
         taskAlive' \subseteq DioTasks
  PROVE  DioInv'
<1>1. UNCHANGED <<dioLoaded, dioKind, dioFlags>>
  BY DEF dioNodes
<1>2. Shape' /\ LoadInv'
  BY <1>1 DEF DioInv, Shape, LoadInv, DioNodes
<1>3. \A s \in DioSlots : RefInv(s)' /\ HeldInv(s)'
  BY DEF DioInv, RefInv, HeldInv, FilesOf
<1> QED BY <1>2, <1>3 DEF DioInv

LEMMA LoadHolds == DioInv /\ DioLoad => DioInv'
<1> SUFFICES ASSUME DioInv, DioLoad PROVE DioInv'
  OBVIOUS
<1>1. /\ ~dioLoaded /\ dioLoaded' = TRUE /\ dioFlags' = FlagsFor(dioKind')
      /\ dioKind' \in [DioSlots -> {"none", "dio", "other"}]
      /\ UNCHANGED <<dioFile, dioDev, taskAlive, taskHeld>>
  BY DEF DioLoad, dioTasks
<1>2. \A t \in DioTasks : dioFile[t] = DioNone
  BY <1>1 DEF DioInv, LoadInv, DioNodes
<1>3. Shape' /\ LoadInv'
  BY <1>1, <1>2 DEF DioInv, Shape, LoadInv
<1>4. \A s \in DioSlots : RefInv(s)' /\ HeldInv(s)'
  BY <1>1 DEF DioInv, RefInv, HeldInv, FilesOf
<1> QED BY <1>3, <1>4 DEF DioInv

LEMMA UnloadHolds == DioInv /\ DioUnload => DioInv'
<1> SUFFICES ASSUME DioInv, DioUnload PROVE DioInv'
  OBVIOUS
<1>1. /\ dioLoaded' = FALSE /\ \A t \in DioTasks : dioFile[t] = DioNone
      /\ UNCHANGED <<dioKind, dioFile, dioDev, taskAlive, taskHeld>>
  BY DEF DioUnload, dioTasks
<1>2. Shape' /\ LoadInv'
  BY <1>1 DEF DioInv, Shape, LoadInv
<1>3. \A s \in DioSlots : RefInv(s)' /\ HeldInv(s)'
  BY <1>1 DEF DioInv, RefInv, HeldInv, FilesOf
<1> QED BY <1>2, <1>3 DEF DioInv

-----------------------------------------------------------------------------
LEMMA OpenHolds ==
  ASSUME DioInv, NEW t \in DioTasks, NEW n \in DioSlots, DioOpen(t, n)
  PROVE  DioInv'
<1>1. /\ dioFile[t] = DioNone /\ n \in DioNodes
      /\ dioFile' = [dioFile EXCEPT ![t] = n]
      /\ dioDev' = [dioDev EXCEPT ![n] = AfterOpen(@)]
      /\ UNCHANGED <<dioLoaded, dioKind, dioFlags, taskAlive, taskHeld>>
  BY DEF DioOpen, dioNodes, dioTasks
<1>2. Shape /\ n # DioNone
  BY DioAssumption DEF DioInv
<1>3. FilesOf(n)' = FilesOf(n) \cup {t} /\ t \notin FilesOf(n)
  BY <1>1, <1>2 DEF FilesOf, Shape
<1>4. Cardinality(FilesOf(n)') = Cardinality(FilesOf(n)) + 1
  BY <1>3, FilesFinite, FS_AddElement
<1>5. \A s \in DioSlots : s # n => FilesOf(s)' = FilesOf(s) /\ dioDev'[s] = dioDev[s]
  BY <1>1, <1>2, DioAssumption DEF FilesOf, Shape
<1>a. dioDev'[n] = AfterOpen(dioDev[n])
  BY <1>1, <1>2 DEF Shape
<1>6. /\ dioDev'[n] \in DevData
      /\ dioDev'[n].ref = Cardinality(FilesOf(n)')
      /\ dioDev'[n].int_callback \in taskHeld \cup {DioNone}
  <2>1. RefInv(n) /\ HeldInv(n)
    BY DEF DioInv
  <2>2. CASE dioDev[n] = DioNone
    <3>1. dioDev'[n] = [ref |-> 1, int_callback |-> DioNone]
      BY <1>a, <2>2 DEF AfterOpen
    <3>2. Cardinality(FilesOf(n)) = 0
      BY <2>1, <2>2, FS_EmptySet DEF RefInv
    <3> QED BY <1>4, <3>1, <3>2 DEF DevData
  <2>3. CASE dioDev[n] # DioNone
    <3>1. dioDev[n] \in DevData
      BY <1>2, <2>3 DEF Shape
    <3>2. dioDev'[n] = [dioDev[n] EXCEPT !.ref = @ + 1]
      BY <1>a, <2>3 DEF AfterOpen
    <3>3. /\ dioDev'[n] \in DevData /\ dioDev'[n].ref = dioDev[n].ref + 1
          /\ dioDev'[n].int_callback = dioDev[n].int_callback
      BY <3>1, <3>2 DEF DevData
    <3> QED BY <1>4, <2>1, <2>3, <3>3 DEF RefInv, HeldInv
  <2> QED BY <2>2, <2>3
<1>7. Shape'
  <2>1. dioDev' \in [DioSlots -> DevData \cup {DioNone}]
    BY <1>1, <1>2, <1>5, <1>6 DEF Shape
  <2>2. dioFile' \in [DioTasks -> DioSlots \cup {DioNone}]
    BY <1>1, <1>2 DEF Shape
  <2> QED BY <1>1, <1>2, <2>1, <2>2 DEF Shape
<1>8. LoadInv'
  BY <1>1, <1>2 DEF DioInv, LoadInv, DioNodes, Shape
<1>9. ASSUME NEW s \in DioSlots PROVE RefInv(s)' /\ HeldInv(s)'
  <2>1. CASE s = n
    <3>1. dioDev'[n] # DioNone /\ FilesOf(n)' # {}
      BY <1>3, <1>6, DataIsNotNone
    <3>2. RefInv(n)'
      BY <1>6, <3>1 DEF RefInv
    <3>3. HeldInv(n)'
      BY <1>1, <1>6 DEF HeldInv
    <3> QED BY <2>1, <3>2, <3>3
  <2>2. CASE s # n
    <3>1. FilesOf(s)' = FilesOf(s) /\ dioDev'[s] = dioDev[s] /\ RefInv(s) /\ HeldInv(s)
      BY <1>5, <2>2 DEF DioInv
    <3> QED BY <1>1, <3>1 DEF RefInv, HeldInv
  <2> QED BY <2>1, <2>2
<1> QED BY <1>7, <1>8, <1>9 DEF DioInv

LEMMA CloseHolds ==
  ASSUME DioInv, NEW t \in DioTasks, DioClose(t)
  PROVE  DioInv'
<1>0. PICK n \in DioSlots : dioFile[t] = n
  BY DEF DioInv, Shape, DioClose
<1>1. /\ dioFile' = [dioFile EXCEPT ![t] = DioNone]
      /\ dioDev' = [dioDev EXCEPT ![n] = AfterClose(@)]
      /\ UNCHANGED <<dioLoaded, dioKind, dioFlags, taskAlive, taskHeld>>
  BY <1>0 DEF DioClose, dioNodes, dioTasks
<1>2. Shape /\ n # DioNone
  BY DioAssumption DEF DioInv
<1>3. t \in FilesOf(n)
  BY <1>0 DEF FilesOf
<1>4. FilesOf(n)' = FilesOf(n) \ {t}
  BY <1>1, <1>2 DEF FilesOf, Shape
<1>5. /\ Cardinality(FilesOf(n)') = Cardinality(FilesOf(n)) - 1
      /\ IsFiniteSet(FilesOf(n)')
  BY <1>3, <1>4, FilesFinite, FS_RemoveElement
<1>6. \A s \in DioSlots : s # n => FilesOf(s)' = FilesOf(s) /\ dioDev'[s] = dioDev[s]
  <2> SUFFICES ASSUME NEW s \in DioSlots, s # n
      PROVE  FilesOf(s)' = FilesOf(s) /\ dioDev'[s] = dioDev[s]
    OBVIOUS
  <2>1. t \notin FilesOf(s) /\ s # DioNone
    BY <1>0, DioAssumption DEF FilesOf
  <2>2. FilesOf(s)' = FilesOf(s)
    BY <1>1, <1>2, <2>1 DEF FilesOf, Shape
  <2> QED BY <1>1, <1>2, <2>2 DEF Shape
<1>7. RefInv(n) /\ HeldInv(n)
  BY <1>2 DEF DioInv
<1>8. /\ dioDev[n] \in DevData /\ dioDev[n].ref = Cardinality(FilesOf(n))
      /\ Cardinality(FilesOf(n)) \in Nat \ {0}
  <2>1. dioDev[n] # DioNone
    BY <1>3, <1>7 DEF RefInv
  <2>2. Cardinality(FilesOf(n)) # 0
    BY <1>3, FilesFinite, FS_EmptySet
  <2> QED BY <1>2, <1>7, <2>1, <2>2, FilesFinite DEF RefInv, Shape
<1>a. dioDev'[n] = AfterClose(dioDev[n])
  BY <1>1, <1>2 DEF Shape
<1>9. dioDev'[n] = IF dioDev[n].ref > 1 THEN [dioDev[n] EXCEPT !.ref = @ - 1] ELSE DioNone
  BY <1>a DEF AfterClose
<1>10. dioDev'[n] \in DevData \cup {DioNone} /\ RefInv(n)' /\ HeldInv(n)'
  <2>1. CASE dioDev[n].ref > 1
    <3>1. /\ dioDev'[n] \in DevData /\ dioDev'[n].ref = dioDev[n].ref - 1
          /\ dioDev'[n].int_callback = dioDev[n].int_callback
      BY <1>8, <1>9, <2>1 DEF DevData
    <3>2. dioDev'[n] # DioNone /\ dioDev[n] # DioNone
      BY <1>8, <3>1, DataIsNotNone
    <3>3. FilesOf(n)' # {} /\ dioDev'[n].ref = Cardinality(FilesOf(n)')
      BY <1>5, <1>8, <2>1, <3>1, FS_EmptySet
    <3>4. RefInv(n)'
      BY <3>2, <3>3 DEF RefInv
    <3>5. HeldInv(n)'
      BY <1>1, <1>7, <3>1, <3>2 DEF HeldInv
    <3> QED BY <3>1, <3>4, <3>5
  <2>2. CASE ~(dioDev[n].ref > 1)
    <3>1. dioDev'[n] = DioNone
      BY <1>9, <2>2
    <3>2. FilesOf(n)' = {}
      BY <1>5, <1>8, <2>2, FS_EmptySet
    <3> QED BY <3>1, <3>2 DEF RefInv, HeldInv
  <2> QED BY <2>1, <2>2
<1>11. Shape'
  <2>1. dioDev' \in [DioSlots -> DevData \cup {DioNone}]
    BY <1>1, <1>2, <1>6, <1>10 DEF Shape
  <2>2. dioFile' \in [DioTasks -> DioSlots \cup {DioNone}]
    BY <1>1, <1>2 DEF Shape
  <2> QED BY <1>1, <1>2, <2>1, <2>2 DEF Shape
<1>12. LoadInv'
  BY <1>1, <1>2 DEF DioInv, LoadInv, DioNodes, Shape
<1>13. ASSUME NEW s \in DioSlots PROVE RefInv(s)' /\ HeldInv(s)'
  <2>1. CASE s = n
    BY <1>10, <2>1
  <2>2. CASE s # n
    <3>1. FilesOf(s)' = FilesOf(s) /\ dioDev'[s] = dioDev[s] /\ RefInv(s) /\ HeldInv(s)
      BY <1>6, <2>2 DEF DioInv
    <3> QED BY <1>1, <3>1 DEF RefInv, HeldInv
  <2> QED BY <2>1, <2>2
<1> QED BY <1>11, <1>12, <1>13 DEF DioInv

LEMMA SetCallbackHolds ==
  ASSUME DioInv, NEW t \in DioTasks, SetCallbackProcess(t)
  PROVE  DioInv'
<1>1. PICK n \in DioSlots : dioFile[t] = n
  BY DEF DioInv, Shape, SetCallbackProcess
<1>2. PICK c \in DioTasks :
        /\ dioDev' = [dioDev EXCEPT ![n].int_callback =
                         IF c \in taskAlive THEN c ELSE DioNone]
        /\ taskHeld' = taskHeld \cup ({c} \cap taskAlive)
  BY <1>1 DEF SetCallbackProcess
<1>3. UNCHANGED <<dioLoaded, dioKind, dioFlags, dioFile, taskAlive>>
  BY DEF SetCallbackProcess, dioNodes
<1>4. Shape /\ RefInv(n) /\ \A s : FilesOf(s)' = FilesOf(s)
  BY <1>3 DEF DioInv, FilesOf
<1>5. dioDev[n] \in DevData /\ dioDev[n] # DioNone
  BY <1>1, <1>4 DEF RefInv, FilesOf, Shape
<1> DEFINE told == IF c \in taskAlive THEN c ELSE DioNone
<1>6. told \in DioTasks \cup {DioNone} /\ told \in taskHeld' \cup {DioNone}
  BY <1>2
<1>7. dioDev'[n] = [dioDev[n] EXCEPT !.int_callback = told]
  BY <1>2, <1>4 DEF Shape
<1> HIDE DEF told
<1>8. /\ dioDev'[n] \in DevData /\ dioDev'[n].ref = dioDev[n].ref
      /\ dioDev'[n].int_callback = told
  BY <1>5, <1>6, <1>7 DEF DevData
<1>9. \A s \in DioSlots : s # n => dioDev'[s] = dioDev[s]
  BY <1>2, <1>4 DEF Shape
<1>10. Shape'
  <2>1. dioDev' \in [DioSlots -> DevData \cup {DioNone}]
    BY <1>2, <1>4, <1>8, <1>9 DEF Shape
  <2> QED BY <1>3, <1>4, <2>1 DEF Shape
<1>11. LoadInv'
  BY <1>3 DEF DioInv, LoadInv, DioNodes
<1>12. ASSUME NEW s \in DioSlots PROVE RefInv(s)' /\ HeldInv(s)'
  <2>1. CASE s = n
    <3>1. dioDev'[n] # DioNone
      BY <1>8, DataIsNotNone
    <3>2. RefInv(n)'
      BY <1>4, <1>5, <1>8, <3>1 DEF RefInv
    <3>3. HeldInv(n)'
      BY <1>6, <1>8 DEF HeldInv
    <3> QED BY <2>1, <3>2, <3>3
  <2>2. CASE s # n
    <3>1. FilesOf(s)' = FilesOf(s) /\ dioDev'[s] = dioDev[s] /\ RefInv(s) /\ HeldInv(s)
      BY <1>4, <1>9, <2>2 DEF DioInv
    <3> QED BY <1>2, <3>1 DEF RefInv, HeldInv
  <2> QED BY <2>1, <2>2
<1> QED BY <1>10, <1>11, <1>12 DEF DioInv

LEMMA StepHolds == DioInv /\ [DioNext]_dioVars => DioInv'
<1> SUFFICES ASSUME DioInv, [DioNext]_dioVars PROVE DioInv'
  OBVIOUS
<1>1. taskAlive \subseteq DioTasks
  BY DEF DioInv, Shape
<1>2. CASE Dispatch \/ UNCHANGED dioVars
  BY <1>1, <1>2, OnlyHeld DEF Dispatch, dioVars, dioTasks
<1>3. ASSUME NEW s \in DioSlots, InputEvent(s) PROVE DioInv'
  BY <1>1, <1>3, OnlyHeld DEF InputEvent, dioTasks
<1>4. ASSUME NEW t \in DioTasks, DioIoctl(t) PROVE DioInv'
  <2>1. CASE SetCallbackProcess(t)
    BY <2>1, SetCallbackHolds
  <2>2. CASE ~SetCallbackProcess(t)
    <3>1. UNCHANGED <<dioNodes, dioFile, dioDev, dioTasks>>
      BY <1>4, <2>2 DEF DioIoctl, ArgumentFault, PortIoctl, TableIoctl, VersionIoctl,
                        Unchanging, SetIntMask, GetIntStatus
    <3> QED BY <1>1, <3>1, OnlyHeld DEF dioTasks
  <2> QED BY <2>1, <2>2
<1>5. ASSUME NEW t \in DioTasks, TaskExits(t) PROVE DioInv'
  BY <1>1, <1>5, OnlyHeld DEF TaskExits
<1> QED
  BY <1>2, <1>3, <1>4, <1>5, LoadHolds, UnloadHolds, OpenHolds, CloseHolds DEF DioNext

LEMMA DioCorrect == DioSpec => []DioInv
BY InitHolds, StepHolds, PTL DEF DioSpec

-----------------------------------------------------------------------------
\* With nothing but nodes of the kind below it, a slot is inside the flags.
LEMMA FlagsReach ==
  ASSUME DioInv, NEW d \in DioNodes, \A s \in DioSlots \ DioNodes : ~(s < d)
  PROVE  d < dioFlags
<1>1. d \in Nat /\ 0..d \subseteq DioSlots /\ dioFlags = FlagsFor(dioKind)
  BY DioAssumption DEF DioNodes, DioInv, LoadInv
<1> DEFINE nodes == {s \in DioSlots : dioKind[s] = "dio"}
<1>2. 0..d \subseteq nodes
  <2> SUFFICES ASSUME NEW s \in 0..d PROVE s \in DioNodes
    BY DEF DioNodes
  <2>1. s = d \/ s < d
    BY <1>1
  <2> QED BY <1>1, <2>1
<1>3. IsFiniteSet(nodes)
  BY DioAssumption, FS_Subset
<1>4. Cardinality(0..d) = d + 1
  BY <1>1, FS_Interval
<1>5. Cardinality(0..d) <= Cardinality(nodes) /\ Cardinality(nodes) \in Nat
  BY <1>2, <1>3, FS_Subset, FS_CardinalityType
<1>6. dioFlags = Cardinality(nodes)
  BY <1>1 DEF FlagsFor
<1> QED BY <1>1, <1>4, <1>5, <1>6

LEMMA InvariantReaches == DioInv => MemoryReached
<1> SUFFICES ASSUME DioInv, NEW d \in Registered
    PROVE  /\ dioDev[d].int_callback \in taskAlive \cup taskHeld \cup {DioNone}
           /\ d >= dioFlags => \E s \in DioSlots \ DioNodes : s < d
  BY DEF MemoryReached
<1>1. d \in DioSlots /\ dioDev[d] # DioNone /\ RefInv(d) /\ HeldInv(d)
  BY DEF Registered, DioInv
<1>2. dioDev[d].int_callback \in taskAlive \cup taskHeld \cup {DioNone}
  BY <1>1 DEF HeldInv
<1>3. d \in DioNodes
  <2>1. PICK t \in DioTasks : dioFile[t] = d
    BY <1>1 DEF RefInv, FilesOf
  <2> QED BY <1>1, <2>1, DioAssumption DEF DioInv, LoadInv
<1>4. d \in Nat /\ dioFlags \in Nat
  <2>1. dioFlags = Cardinality({s \in DioSlots : dioKind[s] = "dio"})
    BY <1>3 DEF DioNodes, DioInv, LoadInv, FlagsFor
  <2>2. IsFiniteSet({s \in DioSlots : dioKind[s] = "dio"})
    BY DioAssumption, FS_Subset
  <2> QED BY <1>1, <2>1, <2>2, DioAssumption, FS_CardinalityType
<1>5. d >= dioFlags => \E s \in DioSlots \ DioNodes : s < d
  <2> SUFFICES ASSUME \A s \in DioSlots \ DioNodes : ~(s < d) PROVE d < dioFlags
    BY <1>4
  <2> QED BY <1>3, FlagsReach
<1> QED BY <1>2, <1>5

-----------------------------------------------------------------------------
\* What the interrupt handler and an open reach in memory is there
\* (cpsdio.c:527, 834, 899, 1106).
THEOREM MemoryReachedAlways == DioSpec => []MemoryReached
BY DioCorrect, InvariantReaches, PTL

\* The line is switched off only with an interrupt enabled at a device that
\* nobody has open (cpsdio.c:1009).
THEOREM LineKeptAlways == DioSpec => LineKept
<1>1. [DioNext]_dioVars => [~lineOff /\ lineOff' => dioMask \ Registered # {}]_dioVars
  <2> SUFFICES ASSUME DioNext, ~lineOff, lineOff' PROVE dioMask \ Registered # {}
    OBVIOUS
  <2>1. Dispatch
    BY DEF DioNext, DioLoad, DioUnload, InputEvent, DioOpen, DioClose, DioIoctl, TaskExits,
           ArgumentFault, PortIoctl, TableIoctl, VersionIoctl, Unchanging, SetIntMask,
           GetIntStatus, SetCallbackProcess, dioLine
  <2>2. lineIdle' = UnhandledLimit /\ LineActive
    BY <2>1 DEF Dispatch
  <2>3. Handled = {}
    BY <2>1, <2>2, DioAssumption DEF Dispatch
  <2> QED BY <2>2, <2>3 DEF LineActive, Handled
<1> QED BY <1>1, PTL DEF DioSpec, LineKept

\* No event of a process that asked to be told is read in silence
\* (cpsdio.c:519, 716).
THEOREM EventToldAlways == DioSpec => EventTold
<1> DEFINE
  Told == \A s \in Registered :
            (s \in dioStatus \ dioStatus' /\ dioDev[s].int_callback \in taskAlive)
              => dioTold' \cap {dioDev[s].int_callback, "status", "EFAULT"} # {}
<1>1. DioInv /\ [DioNext]_dioVars => [Told]_dioVars
  <2> SUFFICES ASSUME DioInv, DioNext, NEW s \in Registered,
                      s \in dioStatus \ dioStatus', dioDev[s].int_callback \in taskAlive
      PROVE  dioTold' \cap {dioDev[s].int_callback, "status", "EFAULT"} # {}
    OBVIOUS
  <2>1. CASE Dispatch
    <3>1. s \in Handled /\ dioDev[s].int_callback # DioNone
      BY DioAssumption DEF Handled, DioInv, Shape
    <3> QED BY <2>1, <3>1 DEF Dispatch, Signalled
  <2>2. CASE \E t \in DioTasks : GetIntStatus(t)
    BY <2>2 DEF GetIntStatus
  <2>3. CASE ~Dispatch /\ ~\E t \in DioTasks : GetIntStatus(t)
    <3>1. dioStatus \subseteq dioStatus'
      BY <2>3 DEF DioNext, DioLoad, DioUnload, InputEvent, DioOpen, DioClose, DioIoctl,
                  TaskExits, ArgumentFault, PortIoctl, TableIoctl, VersionIoctl, Unchanging,
                  SetIntMask, SetCallbackProcess, dioRegisters
    <3> QED BY <3>1
  <2> QED BY <2>1, <2>2, <2>3
<1> QED BY DioCorrect, <1>1, PTL DEF DioSpec, EventTold

-----------------------------------------------------------------------------
\* The registers, the messages and the line; a line that was dispatched in vain as often as
\* Linux allows is off.
LineInv ==
  /\ dioMask \subseteq DioSlots /\ dioStatus \subseteq DioSlots
  /\ dioTold \subseteq DioTasks \cup {"status", "EFAULT"}
  /\ taskHeld \subseteq DioTasks
  /\ lineOff \in BOOLEAN /\ lineIdle \in 0..UnhandledLimit
  /\ lineIdle = UnhandledLimit => lineOff
  /\ ~dioLoaded => dioFlags = 0

\* The tasks that the handlers signal are tasks.
LEMMA SignalledTasks == DioInv => Signalled \subseteq DioTasks
<1> SUFFICES ASSUME DioInv, NEW s \in Handled, dioDev[s].int_callback # DioNone
    PROVE  dioDev[s].int_callback \in DioTasks
  BY DEF Signalled
<1>1. s \in DioSlots /\ dioDev[s] # DioNone
  BY DEF Handled, Registered
<1>2. dioDev[s] \in DevData
  BY <1>1 DEF DioInv, Shape
<1> QED BY <1>2 DEF DevData

\* Every step keeps the registers and the line.
LEMMA LineInvStep ==
  ASSUME DioInv, LineInv, [DioNext]_dioVars
  PROVE  LineInv'
<1> USE DEF LineInv, dioNodes, dioRegisters, dioTasks, dioLine
<1>1. CASE DioLoad \/ DioUnload \/ UNCHANGED dioVars
  BY <1>1 DEF DioLoad, DioUnload, dioVars
<1>2. CASE Dispatch
  <2>1. dioStatus' \subseteq DioSlots /\ dioTold' \subseteq DioTasks
    BY <1>2, SignalledTasks DEF Dispatch
  <2>2. lineIdle \in 0..UnhandledLimit /\ lineIdle # UnhandledLimit /\ UnhandledLimit \in Nat \ {0}
    BY <1>2, DioAssumption DEF Dispatch
  <2>3. lineIdle' = 0 \/ lineIdle' = lineIdle + 1
    BY <1>2 DEF Dispatch
  <2>4. lineIdle' \in 0..UnhandledLimit
    BY <2>2, <2>3
  <2>5. lineOff' = (lineIdle' = UnhandledLimit) /\ UNCHANGED <<dioLoaded, dioFlags, dioMask, taskHeld>>
    BY <1>2 DEF Dispatch
  <2> QED BY <2>1, <2>4, <2>5
<1>3. ASSUME NEW s \in DioSlots, InputEvent(s)
      PROVE  LineInv'
  BY <1>3 DEF InputEvent
<1>4. ASSUME NEW t \in DioTasks, NEW s \in DioSlots, DioOpen(t, s)
      PROVE  LineInv'
  BY <1>4 DEF DioOpen
<1>5. ASSUME NEW t \in DioTasks, DioClose(t) \/ TaskExits(t)
      PROVE  LineInv'
  BY <1>5 DEF DioClose, TaskExits
<1>6. ASSUME NEW t \in DioTasks, DioIoctl(t)
      PROVE  LineInv'
  <2>1. CASE ArgumentFault(t) \/ PortIoctl(t) \/ TableIoctl(t) \/ VersionIoctl(t)
    BY <2>1 DEF ArgumentFault, PortIoctl, TableIoctl, VersionIoctl, Unchanging
  <2>2. CASE SetIntMask(t)
    <3>1. dioFile[t] \in DioSlots
      BY <2>2 DEF SetIntMask, DioInv, Shape
    <3>2. dioMask' \subseteq DioSlots
      BY <2>2, <3>1 DEF SetIntMask
    <3> QED BY <2>2, <3>2 DEF SetIntMask
  <2>3. CASE GetIntStatus(t)
    BY <2>3 DEF GetIntStatus
  <2>4. CASE SetCallbackProcess(t)
    BY <2>4 DEF SetCallbackProcess
  <2> QED BY <1>6, <2>1, <2>2, <2>3, <2>4 DEF DioIoctl
<1> QED BY <1>1, <1>2, <1>3, <1>4, <1>5, <1>6 DEF DioNext

\* The digital I/O keeps its types: a node with device data counts at least one file and no
\* more than there are processes, notFirstOpenFlg is no longer than there are devices, and
\* the line is not tried again once Linux gave it up (cpsdio.c:907, 964, 1106), for every
\* finite set of slots and of processes.
THEOREM DioTyped == DioSpec => []DioTypeOK
<1>1. DioInit => LineInv
  <2> SUFFICES ASSUME DioInit PROVE LineInv
    OBVIOUS
  <2>1. dioMask = {} /\ dioStatus = {} /\ dioTold = {} /\ taskHeld = {} /\ dioFlags = 0
        /\ lineOff = FALSE /\ lineIdle = 0
    BY DEF DioInit
  <2>2. 0 \in 0..UnhandledLimit /\ 0 # UnhandledLimit
    BY DioAssumption
  <2> QED BY <2>1, <2>2 DEF LineInv
<1>2. ASSUME DioInv, LineInv PROVE DioTypeOK
  <2>1. ASSUME NEW s \in DioSlots, dioDev[s] # DioNone
        PROVE  dioDev[s] \in [ref : 1..Cardinality(DioTasks), int_callback : DioTasks \cup {DioNone}]
    <3>1. dioDev[s] \in DevData /\ dioDev[s].ref = Cardinality(FilesOf(s)) /\ FilesOf(s) # {}
      BY <1>2, <2>1 DEF DioInv, Shape, RefInv
    <3>2. IsFiniteSet(FilesOf(s)) /\ Cardinality(FilesOf(s)) \in Nat
      BY FilesFinite
    <3>3. Cardinality(FilesOf(s)) # 0
      BY <3>1, <3>2, FS_EmptySet
    <3>4. FilesOf(s) \in SUBSET DioTasks
      BY DEF FilesOf
    <3>5. Cardinality(FilesOf(s)) <= Cardinality(DioTasks) /\ Cardinality(DioTasks) \in Nat
      BY <3>4, DioAssumption, FS_Subset, FS_CardinalityType
    <3> QED BY <3>1, <3>2, <3>3, <3>5 DEF DevData
  <2>2. dioFlags \in 0..Cardinality(DioSlots)
    <3>1. FlagsFor(dioKind) \in 0..Cardinality(DioSlots)
      <4> DEFINE D == {s \in DioSlots : dioKind[s] = "dio"}
      <4>1. D \in SUBSET DioSlots
        OBVIOUS
      <4>2. Cardinality(D) \in Nat /\ Cardinality(D) <= Cardinality(DioSlots) /\ Cardinality(DioSlots) \in Nat
        BY <4>1, DioAssumption, FS_Subset, FS_CardinalityType
      <4> QED BY <4>2 DEF FlagsFor
    <3>2. Cardinality(DioSlots) \in Nat
      BY DioAssumption, FS_CardinalityType
    <3> QED BY <1>2, <3>1, <3>2 DEF DioInv, LoadInv, Shape, LineInv
  <2> QED BY <1>2, <2>1, <2>2 DEF DioInv, Shape, LineInv, DioTypeOK
<1>3. DioInv /\ LineInv /\ [DioNext]_dioVars => LineInv'
  BY LineInvStep
<1> QED BY DioCorrect, <1>1, <1>2, <1>3, PTL DEF DioSpec
=============================================================================
