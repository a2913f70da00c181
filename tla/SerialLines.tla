----------------------------- MODULE SerialLines -----------------------------
(***************************************************************************)
(* The serial lines of the COM boards (8250_cpscom.c): which lines exist,  *)
(* the detection of their chips, and the register window that a line with  *)
(* a known chip holds from its detection to its removal.  A slot has two   *)
(* lines; the serial core of Linux calls the driver back.                  *)
(***************************************************************************)
EXTENDS Naturals, FiniteSets

CONSTANT ComLines  \* lines 0 .. 63 in the code, two for each slot

ASSUME ComAssumption == ComLines \subseteq Nat

\* "gone": the load failed and left the tty driver or the lines behind.
VARIABLES
  comBoards,  \* lines whose slot has a COM board with that channel
  comStage,   \* of the load and the unload
  comType,    \* lines whose chip is known: port.type is not PORT_UNKNOWN
  comHeld,    \* lines whose window is held: claimed, and membase mapped
  comAdded,   \* lines that the serial core has
  comOpen,    \* lines that a process has open and started
  comStale    \* history: known lines whose window could not be mapped again

comWindow == <<comType, comHeld, comStale>>
comVars == <<comBoards, comStage, comWindow, comAdded, comOpen>>

ComTypeOK ==
  /\ comStage \in {"none", "driver", "ports", "loaded", "removing", "gone"}
  /\ comBoards \subseteq ComLines
  /\ comAdded \subseteq comBoards /\ comOpen \subseteq comAdded
  /\ comType \subseteq comBoards /\ comStale \subseteq comType
  /\ comHeld \subseteq comBoards

\* cpscom_getchannel_of_device: a board has its first channel or both.
Channels(lines) ==
  \A i \in lines : (i % 2 = 1 /\ i - 1 \in ComLines) => i - 1 \in lines

ComInit ==
  /\ comBoards \in {lines \in SUBSET ComLines : Channels(lines)}
  /\ comStage = "none"
  /\ comType = {} /\ comHeld = {}
  /\ comAdded = {} /\ comOpen = {} /\ comStale = {}

-----------------------------------------------------------------------------
\* The window of a line

\* autoconfig: which of the lines `asked' are known after it.  The chips decide;
\* a line whose window could not be mapped is not asked and stays as it was.
Detected(asked, failed, before) ==
  {found \in SUBSET asked : found \cap failed = before \cap failed}

\* Wrong: a line without a known chip keeps its window.
ConfigPortsHolding(asked, before) ==
  \E failed \in SUBSET asked : \E found \in Detected(asked, failed, before) :
    /\ comType' = (comType \ asked) \cup found
    /\ comHeld' = (comHeld \ asked) \cup (asked \ failed)
    /\ comStale' = (comStale \ asked) \cup (found \cap failed)

\* cpscom_config_port of the lines `asked', whose windows were released: claim
\* and map the window, detect the chip, let the window go if none is known.
\* `before' are the lines that were known.
ConfigPorts(asked, before) ==
  \E failed \in SUBSET asked : \E found \in Detected(asked, failed, before) :
    /\ comType' = (comType \ asked) \cup found
    /\ comHeld' = (comHeld \ asked) \cup (found \ failed)
    /\ comStale' = (comStale \ asked) \cup (found \cap failed)

-----------------------------------------------------------------------------
\* Load and unload

\* uart_register_driver, cps_fpga_init, cpscom_host_init.  Only the first one
\* that fails leaves nothing behind: the tty driver stays with the others.
RegisterDriver ==
  /\ comStage = "none" /\ comStage' \in {"driver", "none", "gone"}
  /\ UNCHANGED <<comBoards, comWindow, comAdded, comOpen>>

\* cpscom_init_ports: the lines of the boards, in one go, before anyone can
\* use them.
InitPorts ==
  /\ comStage = "driver" /\ comStage' = "ports"
  /\ ConfigPorts(comBoards, {})
  /\ UNCHANGED <<comBoards, comAdded, comOpen>>

\* cpscom_register_ports: line by line; an added line can be opened.
AddPort(i) ==
  /\ comStage = "ports" /\ i \in comBoards \ comAdded
  /\ {j \in comBoards : j < i} \subseteq comAdded
  /\ comAdded' = comAdded \cup {i}
  /\ UNCHANGED <<comBoards, comStage, comWindow, comOpen>>

\* platform_driver_register.  When it fails the tty driver goes and the lines
\* stay.
RegisterPlatform ==
  /\ comStage = "ports" /\ comAdded = comBoards
  /\ comStage' \in {"loaded", "gone"}
  /\ UNCHANGED <<comBoards, comWindow, comAdded, comOpen>>

\* cpscom_exit, while no line is open
ComUnload ==
  /\ comStage = "loaded" /\ comOpen = {} /\ comStage' = "removing"
  /\ UNCHANGED <<comBoards, comWindow, comAdded, comOpen>>

\* cpscom_unregister_port: the line is taken out and its chip forgotten.
Unregister(i) ==
  /\ comAdded' = comAdded \ {i} /\ comType' = comType \ {i}
  /\ comStale' = comStale \ {i}

\* cpscom_remove: the serial core releases the window of a known line when it
\* is taken out, and cpscom_release_port releases it once more.
RemovePort(i) ==
  /\ comStage = "removing" /\ i \in comAdded
  /\ {j \in comAdded : j < i} = {}
  /\ Unregister(i) /\ comHeld' = comHeld \ {i}
  /\ UNCHANGED <<comBoards, comStage, comOpen>>

\* uart_unregister_driver
ComRemoved ==
  /\ comStage = "removing" /\ comAdded = {} /\ comStage' = "none"
  /\ UNCHANGED <<comBoards, comWindow, comAdded, comOpen>>

-----------------------------------------------------------------------------
\* Use

Usable(i) == comStage \in {"ports", "loaded"} /\ i \in comAdded \ comOpen

\* The serial core starts a line with a known chip only.
OpenLine(i) ==
  /\ Usable(i) /\ i \in comType /\ comOpen' = comOpen \cup {i}
  /\ UNCHANGED <<comBoards, comStage, comWindow, comAdded>>

CloseLine(i) ==
  /\ comStage \in {"ports", "loaded"} /\ i \in comOpen
  /\ comOpen' = comOpen \ {i}
  /\ UNCHANGED <<comBoards, comStage, comWindow, comAdded>>

\* TIOCSERCONFIG: the serial core releases the window of a known line and lets
\* the driver detect again; it does not forget the type.
Autoconfigure(i) ==
  /\ Usable(i) /\ ConfigPorts({i}, comType)
  /\ UNCHANGED <<comBoards, comStage, comAdded, comOpen>>

\* cpscom_register_port for the window of a line that exists: the line is hung
\* up, taken out, and added and detected anew.
RegisterPort(i) ==
  /\ comStage = "loaded" /\ i \in comBoards
  /\ ConfigPorts({i}, {}) /\ comOpen' = comOpen \ {i}
  /\ UNCHANGED <<comBoards, comStage, comAdded>>

ComNext ==
  \/ RegisterDriver \/ InitPorts \/ RegisterPlatform \/ ComUnload \/ ComRemoved
  \/ \E i \in ComLines :
       \/ AddPort(i) \/ RemovePort(i) \/ OpenLine(i) \/ CloseLine(i)
       \/ Autoconfigure(i) \/ RegisterPort(i)

ComSpec == ComInit /\ [][ComNext]_comVars

-----------------------------------------------------------------------------
\* A line holds its window exactly while its chip is known, so that an open line
\* has its registers and no line that is gone keeps others from them: through
\* detections that find nothing, that are repeated, and the removal
\* (8250_cpscom.c:2963, 3753, 3574).  The driver does not keep this for a known
\* line whose window cannot be mapped again (2936).
WindowOfKnown ==
  comStage # "gone" =>
    /\ comHeld = comType \ comStale
    /\ comOpen \ comStale \subseteq comHeld
    /\ comStage = "none" => comHeld = {}
=============================================================================
