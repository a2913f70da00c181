------------------------------- MODULE IoLib -------------------------------
(***************************************************************************)
(* The two I/O libraries, character devices through which a program reads  *)
(* and writes the registers of all devices: the one that uses cps-driver   *)
(* (io/cps-iolib.c, "driver") and the one that stands alone                *)
(* (cps-iolib/cps-iolib.c, "alone").  The node takes opens as soon as it is*)
(* added, steps before the registers are mapped.  Addresses are counted in *)
(* areas of 0x100 bytes, one for each device and one for the controller.   *)
(***************************************************************************)
EXTENDS Naturals, FiniteSets

CONSTANTS
  IoFiles,      \* files that can be open together
  IoAddresses,  \* areas a program asks for
  IoNumbers,    \* numbers of devices that the controller reports
  DriverAreas,  \* areas that "driver" maps, CPS_DEVICE_MAX_NUM
  AloneAreas    \* areas that "alone" maps

ASSUME IoAssumption ==
  /\ IsFiniteSet(IoFiles) /\ IoAddresses \subseteq Nat /\ IoNumbers \subseteq Nat
  /\ DriverAreas \in Nat /\ AloneAreas \in Nat

VARIABLES
  ioKind,    \* which of the two libraries
  ioDevs,    \* cpsio_max_devs, of "driver"
  ioStage,   \* the last step of the load that was done
  ioMapped,  \* map_baseaddr points to the registers
  ioClass,   \* a class with the name of the library exists
  ioRefs,    \* ref_count
  ioFile,    \* what private_data of each file is
  ioEarly,   \* history: files that were opened before the load ended
  ioWild,    \* open files that used map_baseaddr while it was not mapped
  ioPast     \* open files that used an address past the mapping

ioLoad == <<ioKind, ioDevs, ioStage, ioMapped, ioClass>>
ioUse == <<ioRefs, ioFile, ioEarly, ioWild, ioPast>>
ioVars == <<ioLoad, ioUse>>

\* "gone": the load failed, and an open file or the node itself outlives the
\* module.  What happens to who uses it is not modelled.
Stages == {"none", "node", "class", "fpga", "device", "loaded", "gone"}

IoTypeOK ==
  /\ ioKind \in {"driver", "alone"} /\ ioStage \in Stages
  /\ ioDevs \in IoNumbers \cup {0} /\ ioMapped \in BOOLEAN /\ ioClass \in BOOLEAN
  /\ ioRefs \in 0..Cardinality(IoFiles)
  /\ ioFile \in [IoFiles -> {"closed", "null", "set"}]
  /\ ioEarly \subseteq IoFiles /\ ioWild \subseteq IoFiles /\ ioPast \subseteq IoFiles

OpenIo == {f \in IoFiles : ioFile[f] # "closed"}

IoInit ==
  /\ ioKind \in {"driver", "alone"} /\ ioStage = "none"
  /\ ioDevs = 0 /\ ioMapped = FALSE /\ ioClass = FALSE /\ ioRefs = 0
  /\ ioFile = [f \in IoFiles |-> "closed"] /\ ioEarly = {} /\ ioWild = {} /\ ioPast = {}

-----------------------------------------------------------------------------
\* cpsio_init, one step for each call that can fail

\* A step that works, or one that fails and takes the node back.
LoadStep(from, to) ==
  /\ ioStage = from
  /\ ioStage' \in {to, IF OpenIo = {} THEN "none" ELSE "gone"}
  /\ UNCHANGED <<ioKind, ioUse>>

\* The number of devices is read, once; alloc_chrdev_region and cdev_add: files
\* can be opened from here on.
LoadNode ==
  /\ LoadStep("none", "node")
  /\ ioDevs' \in IF ioKind = "driver" THEN IoNumbers ELSE {ioDevs}
  /\ UNCHANGED <<ioMapped, ioClass>>

\* class_create: not twice under one name.
LoadClass ==
  /\ LoadStep("node", "class")
  /\ ioStage' = "class" => ~ioClass
  /\ ioClass' = (ioClass \/ ioStage' = "class")
  /\ UNCHANGED <<ioDevs, ioMapped>>

\* cps_fpga_init of the library that stands alone; the class stays.
LoadFpga ==
  /\ ioKind = "alone" /\ LoadStep("class", "fpga")
  /\ UNCHANGED <<ioDevs, ioMapped, ioClass>>

\* device_create; the class stays when it fails.
LoadDevice ==
  /\ LoadStep(IF ioKind = "alone" THEN "fpga" ELSE "class", "device")
  /\ UNCHANGED <<ioDevs, ioMapped, ioClass>>

\* Wrong: a mapping that failed is not looked at.
LoadMapUnchecked ==
  /\ ioStage = "device"
  /\ ioMapped' \in BOOLEAN /\ ioStage' = "loaded" /\ ioRefs' = 0
  /\ UNCHANGED <<ioKind, ioDevs, ioClass, ioFile, ioEarly, ioWild, ioPast>>

\* The mapping.  When it fails, the node, the class and the device stay while
\* the module goes.  ref_count is zeroed, whoever has opened the node already.
LoadMap ==
  /\ ioStage = "device"
  /\ \/ ioMapped' = TRUE /\ ioStage' = "loaded" /\ ioRefs' = 0
     \/ ioStage' = "gone" /\ UNCHANGED <<ioMapped, ioRefs>>
  /\ UNCHANGED <<ioKind, ioDevs, ioClass, ioFile, ioEarly, ioWild, ioPast>>

\* cpsio_exit, while no file is open and none can be opened
IoUnload ==
  /\ ioStage = "loaded" /\ OpenIo = {}
  /\ ioStage' = "none" /\ ioMapped' = FALSE /\ ioClass' = FALSE
  /\ UNCHANGED <<ioKind, ioDevs, ioUse>>

-----------------------------------------------------------------------------
\* file operations

Live == ioStage \in {"node", "class", "fpga", "device", "loaded"}

Opened(f, data) ==
  /\ Live /\ ioFile[f] = "closed" /\ ioFile' = [ioFile EXCEPT ![f] = data]
  /\ ioRefs' = ioRefs + 1
  /\ ioEarly' = IF ioStage = "loaded" THEN ioEarly ELSE ioEarly \cup {f}
  /\ UNCHANGED <<ioLoad, ioWild, ioPast>>

\* cpsio_open with cps-driver: private_data, where the ioctls look for their
\* lock, is set for the first file only.
OpenDriver(f) ==
  ioKind = "driver" /\ Opened(f, IF ioRefs = 0 THEN "set" ELSE "null")

\* cpsio_open of the library that stands alone: each file is its own lock.
OpenAlone(f) == ioKind = "alone" /\ Opened(f, "set")

Closed(f) ==
  /\ Live /\ ioFile[f] # "closed" /\ ioFile' = [ioFile EXCEPT ![f] = "closed"]
  /\ ioEarly' = ioEarly \ {f} /\ ioWild' = ioWild \ {f} /\ ioPast' = ioPast \ {f}
  /\ UNCHANGED ioLoad

CloseDriver(f) ==
  ioKind = "driver" /\ Closed(f) /\ ioRefs' = IF ioRefs > 0 THEN ioRefs - 1 ELSE 0

\* The count of the library that stands alone is never read: where it would
\* wrap it stays 0 here.
CloseAlone(f) ==
  ioKind = "alone" /\ Closed(f) /\ ioRefs' = IF ioRefs > 0 THEN ioRefs - 1 ELSE 0

\* INPWORD, OUTWORD, INPBYTE, OUTBYTE: registers of the mapping, of which so many
\* areas exist.  A word that begins at the last byte of an area ends in the next.
Access(f, area, areas) ==
  /\ Live /\ ioFile[f] # "closed"
  /\ ioWild' = IF ioMapped THEN ioWild ELSE ioWild \cup {f}
  /\ \E last \in {area, area + 1} :
       ioPast' = IF last < areas THEN ioPast ELSE ioPast \cup {f}
  /\ UNCHANGED <<ioLoad, ioRefs, ioFile, ioEarly>>

\* Wrong: the bound is taken for the last area.
AccessDriverOneMore(f) ==
  /\ ioKind = "driver"
  /\ \E area \in IoAddresses : area <= ioDevs + 1 /\ Access(f, area, DriverAreas)

\* With cps-driver, below CPS_IO_MAX_AREAS, the areas of the controller and of the
\* devices that were counted, and to write only with CAP_SYS_ADMIN: a refused one
\* changes nothing.
AccessDriver(f) ==
  /\ ioKind = "driver"
  /\ \E area \in IoAddresses : area < ioDevs + 1 /\ Access(f, area, DriverAreas)

\* Standing alone, any address.  The check for abnormal data before it asks for
\* the address before it is copied from the program: it never runs.
AccessAlone(f) ==
  ioKind = "alone" /\ \E area \in IoAddresses : Access(f, area, AloneAreas)

\* The lock of a file without private_data is at address 0.  A kernel whose
\* locks are not compiled away stops the process there, which closes the file.
LockFault(f) == ioFile[f] = "null" /\ CloseDriver(f)

IoNext ==
  \/ LoadNode \/ LoadClass \/ LoadFpga \/ LoadDevice \/ LoadMap \/ IoUnload
  \/ \E f \in IoFiles :
       \/ OpenDriver(f) \/ OpenAlone(f) \/ CloseDriver(f) \/ CloseAlone(f)
       \/ AccessDriver(f) \/ AccessAlone(f) \/ LockFault(f)

IoSpec == IoInit /\ [][IoNext]_ioVars

-----------------------------------------------------------------------------
\* Only a file that was opened while the library was loading can use map_baseaddr
\* before it is mapped (io/cps-iolib.c:321, 351; cps-iolib.c:354, 395).  With
\* cps-driver no file goes past the end of the mapping either, as long as the count
\* of devices that the load read before there was a node (io/cps-iolib.c:305)
\* leaves one area unused (io/cps-iolib.c:82, 132, 156): loads that fail, leave
\* things behind and are tried again, with another count, do not change that.
RegistersMapped ==
  /\ ioWild \subseteq ioEarly
  /\ (ioKind = "driver" /\ ioDevs + 1 < DriverAreas => ioPast = {})
=============================================================================
