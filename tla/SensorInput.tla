---------------------------- MODULE SensorInput ----------------------------
(***************************************************************************)
(* The sensor input driver (cpsssi.c): temperatures of resistance          *)
(* thermometers that are wired with three or four wires, and a correction  *)
(* for each kind of wiring.  What the device is set to is kept twice: in   *)
(* the device, and in ChannelData, which lives from the first open of the  *)
(* node to its last close.  The corrections live as long as the module.    *)
(* Every ioctl works with dev->lock held and interrupts off: one step.     *)
(***************************************************************************)
EXTENDS Integers, FiniteSets

CONSTANTS
  SsiChannels,  \* channels of the device (4 in the code)
  SsiProcs,     \* processes, each with one file of the node at most
  SsiOffsets,   \* corrections that are tried, bytes
  SsiTemps      \* values that the device measures, 24 bits

ASSUME SsiAssumption ==
  /\ SsiOffsets \subseteq 0..255
  /\ \A t \in SsiTemps : t \in Nat /\ t < 16777216

VARIABLES
  ssiLoaded,    \* the module is loaded
  ssiFiles,     \* processes that have the node open
  ssiWire,      \* ChannelData: Current_Wire_Status
  ssiStatus,    \* ChannelData: lastStatus
  ssiOffset,    \* list entry of each channel: w3off and w4off
  ssiDevWire,   \* the device: wiring of each channel
  ssiKnown,     \* history: channels set since the first open, and only by
                \* SET_CHANNEL
  ssiRead       \* what the last step answered: {} or {[ch, raw, value]}

ssiOpen == <<ssiLoaded, ssiFiles>>
ssiData == <<ssiWire, ssiStatus>>
ssiVars == <<ssiOpen, ssiData, ssiOffset, ssiDevWire, ssiKnown, ssiRead>>

Wires == {"none", "w3", "w4"}

SsiTypeOK ==
  /\ ssiLoaded \in BOOLEAN /\ ssiFiles \subseteq SsiProcs
  /\ ssiWire \in [SsiChannels -> Wires] /\ ssiDevWire \in [SsiChannels -> Wires]
  /\ ssiStatus \subseteq SsiChannels
  /\ ssiOffset \in [SsiChannels -> [{"w3", "w4"} -> SsiOffsets \cup {0}]]
  /\ ssiKnown \subseteq SsiChannels
  /\ \A r \in ssiRead : r.ch \in SsiChannels /\ r.raw \in SsiTemps
                       /\ r.value \in Nat /\ r.value < 16777216

\* cpsssi_4p_allocate_offset_list
NoOffsets == [c \in SsiChannels |-> [w \in {"w3", "w4"} |-> 0]]

SsiInit ==
  /\ ssiLoaded = FALSE /\ ssiFiles = {}
  /\ ssiWire = [c \in SsiChannels |-> "none"] /\ ssiStatus = {}
  /\ ssiOffset = NoOffsets
  /\ ssiDevWire = [c \in SsiChannels |-> "none"]
  /\ ssiKnown = {} /\ ssiRead = {}

-----------------------------------------------------------------------------
\* insmod: the list of corrections is made; rmmod frees it.
SsiLoad ==
  /\ ~ssiLoaded /\ ssiLoaded' = TRUE /\ ssiRead' = {}
  /\ UNCHANGED <<ssiFiles, ssiData, ssiOffset, ssiDevWire, ssiKnown>>

SsiUnload ==
  /\ ssiLoaded /\ ssiFiles = {} /\ ssiLoaded' = FALSE /\ ssiRead' = {}
  /\ ssiOffset' = NoOffsets
  /\ UNCHANGED <<ssiFiles, ssiData, ssiDevWire, ssiKnown>>

\* The first open has zeroed ChannelData; the device is what it was set to.
SsiOpen(p) ==
  /\ ssiLoaded /\ p \notin ssiFiles /\ ssiFiles' = ssiFiles \cup {p}
  /\ IF ssiFiles # {} THEN UNCHANGED <<ssiData, ssiKnown>>
     ELSE /\ ssiWire' = [c \in SsiChannels |-> "none"] /\ ssiStatus' = {}
          /\ ssiKnown' = {}
  /\ ssiRead' = {}
  /\ UNCHANGED <<ssiLoaded, ssiOffset, ssiDevWire>>

SsiClose(p) ==
  /\ p \in ssiFiles /\ ssiFiles' = ssiFiles \ {p} /\ ssiRead' = {}
  /\ UNCHANGED <<ssiLoaded, ssiData, ssiOffset, ssiDevWire, ssiKnown>>

\* INIT resets the device, without the lock; ChannelData stays.
SsiReset ==
  /\ ssiFiles # {}
  /\ ssiDevWire' = [c \in SsiChannels |-> "none"] /\ ssiKnown' = {}
  /\ ssiRead' = {}
  /\ UNCHANGED <<ssiOpen, ssiData, ssiOffset>>

\* SET_CHANNEL: ChannelData, then four bytes to the device.
SetChannel(c) ==
  /\ ssiFiles # {}
  /\ \E w \in {"w3", "w4"} : /\ ssiWire' = [ssiWire EXCEPT ![c] = w]
                             /\ ssiDevWire' = [ssiDevWire EXCEPT ![c] = w]
  /\ ssiKnown' = ssiKnown \cup {c} /\ ssiRead' = {}
  /\ UNCHANGED <<ssiOpen, ssiStatus, ssiOffset>>

\* DIRECT_COMMAND_OUTPUT to the address of a channel.
DirectOutput(c) ==
  /\ ssiFiles # {}
  /\ \E w \in {"w3", "w4"} : ssiDevWire' = [ssiDevWire EXCEPT ![c] = w]
  /\ ssiKnown' = ssiKnown \ {c} /\ ssiRead' = {}
  /\ UNCHANGED <<ssiOpen, ssiData, ssiOffset>>

\* An ioctl that changes nothing of what is kept here.
Unchanged ==
  /\ ssiFiles # {} /\ ssiRead' = {}
  /\ UNCHANGED <<ssiOpen, ssiData, ssiOffset, ssiDevWire, ssiKnown>>

\* START: the device measures; every later command waits until it is done.
StartChannel == Unchanged

\* STARTBUSYSTATUS: the answer is of a command that has waited, not busy.
StartBusy == Unchanged

\* SET_SENSE_RESISTANCE and GET_SENSE_RESISTANCE: four bytes of the device.
SenseResistance == Unchanged

\* GET_CHANNEL: the four bytes of the device, not ChannelData.
GetChannel == Unchanged

\* The value and the answer of GET_OFFSET are not looked at here.
GetOffset == Unchanged

\* WRITE_EEPROM_SSI, READ_EEPROM_SSI and CLEAR_EEPROM, after dev->lock was
\* dropped: the values are stored for a program and never used by the driver,
\* and whether a write came through is not told.
SsiEeprom == Unchanged

\* DIRECT_COMMAND_INPUT
DirectInput == Unchanged

\* GET_DRIVER_VERSION and GET_DEVICE_NAME
Names == Unchanged

\* The handler answers for every interrupt of the line, and does nothing; its
\* request_irq is commented out (ssi/cpsssi.c:1437), so that it is never called.
SsiInterrupt == Unchanged

\* The wiring that the corrections of a channel are looked up for.
WireOf(c) == IF ssiWire[c] = "w3" THEN "w3" ELSE "w4"

\* cpsssi_4p_get_channeldata_offset
OffsetOf(c) == ssiOffset[c][WireOf(c)]

SetOffset(c) ==
  /\ ssiFiles # {} /\ ssiRead' = {}
  /\ \E b \in SsiOffsets : ssiOffset' = [ssiOffset EXCEPT ![c][WireOf(c)] = b]
  /\ UNCHANGED <<ssiOpen, ssiData, ssiDevWire, ssiKnown>>

\* Wrong: the sign is a sign bit.
AddSubSignBit(raw, offset) ==
  IF offset >= 128 THEN (raw - 32 * (offset % 128)) % 16777216
  ELSE (raw + 32 * offset) % 16777216

\* cpsssi_4p_addsub_channeldata_offset on the lower 24 bits.
AddSub(raw, offset) ==
  IF offset >= 128 THEN (raw - 32 * (128 - (offset % 128))) % 16777216
  ELSE (raw + 32 * (offset % 128)) % 16777216

\* INDATA: the temperature is read, corrected, and its status remembered.
InData(c) ==
  /\ ssiFiles # {}
  /\ \E raw \in SsiTemps :
       ssiRead' = {[ch |-> c, raw |-> raw, value |-> AddSub(raw, OffsetOf(c))]}
  /\ ssiStatus' \in {ssiStatus \ {c}, ssiStatus \cup {c}}
  /\ UNCHANGED <<ssiOpen, ssiWire, ssiOffset, ssiDevWire, ssiKnown>>

\* INSTATUS tells the remembered status of all channels and forgets it.
SsiInStatus ==
  /\ ssiFiles # {} /\ ssiStatus' = {} /\ ssiRead' = {}
  /\ UNCHANGED <<ssiOpen, ssiWire, ssiOffset, ssiDevWire, ssiKnown>>

SsiNext ==
  \/ SsiLoad \/ SsiUnload \/ SsiReset \/ SsiInStatus
  \/ StartChannel \/ StartBusy \/ SenseResistance \/ GetChannel \/ GetOffset
  \/ SsiEeprom \/ DirectInput \/ Names \/ SsiInterrupt
  \/ \E p \in SsiProcs : SsiOpen(p) \/ SsiClose(p)
  \/ \E c \in SsiChannels : SetChannel(c) \/ DirectOutput(c) \/ SetOffset(c) \/ InData(c)

SsiSpec == SsiInit /\ [][SsiNext]_ssiVars

-----------------------------------------------------------------------------
\* A byte as a number with a sign.
Signed(b) == IF b > 127 THEN b - 256 ELSE b

\* The temperature that INDATA answers is the measured one plus 32 times the
\* signed correction for the wiring that the device has, in 24 bits that wrap,
\* for a channel that was set since the first open (cpsssi.c:845): opens and
\* closes of other processes do not come between (1414).  After a new first
\* open the driver does not know what the device is still set to.
ReadCorrected ==
  \A r \in ssiRead :
    r.ch \in ssiKnown =>
      r.value = (r.raw + 32 * Signed(ssiOffset[r.ch][ssiDevWire[r.ch]])) % 16777216
=============================================================================
