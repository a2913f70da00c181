------------------------------ MODULE DeviceRom ------------------------------
(***************************************************************************)
(* The EEPROM of a stacked device (cps-driver.c, and the verified writes   *)
(* of cpsaio.c and cpsssi.c).  A value sits in a register; a sequence of   *)
(* commands moves it to or from the EEPROM.  The lock is taken for one     *)
(* register access at a time, and every command sleeps, so that the        *)
(* sequences of two callers mix.  What the device does with a command is   *)
(* external: it stores, loads or erases while access is enabled, at the    *)
(* address that was initialised since.                                     *)
(***************************************************************************)
EXTENDS Naturals, Sequences

CONSTANTS
  RomUsers,   \* callers for one device
  RomValues,  \* values of its page
  RomReads,   \* reads of a verify (3 in the code, the last one counts)
  RomTries    \* attempts of a verified write (6)

ASSUME RomAssumption == 0 \in RomValues /\ {RomReads, RomTries} \subseteq Nat \ {0}

VARIABLES
  romCall,    \* each caller: what it does, how far it is, its value and tries
  romRegister,\* the extension value (or the logical id) of the device
  romCell,    \* the EEPROM
  romOpen,    \* access is enabled
  romAddress, \* the address is initialised
  romMixed    \* history: callers whose call overlapped another's

romVars == <<romCall, romRegister, romCell, romOpen, romAddress, romMixed>>

\* How a call ended.
RomEnds == {"idle", "ok", "failed"}

-----------------------------------------------------------------------------
\* The commands of each call, in order.

GetValue == <<"enable", "address", "read", "disable", "fetch">>
\* Wrong: the address is not initialised.
SetNoAddress == <<"latch", "enable", "write", "disable">>

SetValue == <<"latch", "enable", "address", "write", "disable">>
EraseAll == <<"enable", "erase", "disable">>

\* cpsaio_read_eeprom, cpsssi_read_eeprom: read several times.
ReadEeprom == [i \in 1..(RomReads * Len(GetValue)) |->
                 GetValue[((i - 1) % Len(GetValue)) + 1]]
\* cpsaio_write_eeprom, cpsssi_write_eeprom: write, read back, compare.
WriteEeprom == SetValue \o ReadEeprom \o <<"compare">>
\* CLEAR_EEPROM: zero to the page, then erase.
ClearEeprom == SetValue \o EraseAll

\* The driver's own calls, and those of the analog and the sensor driver.
Program(op) ==
  CASE op = "get" -> GetValue [] op = "set" -> SetValue [] op = "erase" -> EraseAll
    [] op = "read" -> ReadEeprom [] op = "write" -> WriteEeprom
    [] op = "clear" -> ClearEeprom

RomCalls == {"get", "set", "erase", "read", "write", "clear"}

RomTypeOK ==
  /\ \A p \in RomUsers :
       \/ romCall[p].op \in RomEnds
       \/ /\ romCall[p].op \in RomCalls
          /\ romCall[p].step \in 1..Len(Program(romCall[p].op))
          /\ romCall[p].tries < RomTries
  /\ \A p \in RomUsers : {romCall[p].val, romCall[p].seen} \subseteq RomValues
  /\ {romRegister, romCell} \subseteq RomValues
  /\ {romOpen, romAddress} \subseteq BOOLEAN
  /\ romMixed \subseteq RomUsers

RomCallOf(op, v) == [op |-> op, step |-> 1, val |-> v, seen |-> 0, tries |-> 0]

RomInit ==
  /\ romCall = [p \in RomUsers |-> RomCallOf("idle", 0)]
  /\ romRegister = 0 /\ romCell \in RomValues
  /\ romOpen = FALSE /\ romAddress = FALSE /\ romMixed = {}

Active == {p \in RomUsers : romCall[p].op \notin RomEnds}

\* A call begins; how earlier ones ended is forgotten.
RomBegin(p) ==
  /\ p \notin Active
  /\ \E op \in RomCalls, v \in RomValues :
       /\ op \in {"get", "read", "erase", "clear"} => v = 0
       /\ romCall' = [q \in RomUsers |->
                        IF q = p THEN RomCallOf(op, v)
                        ELSE IF q \in Active THEN romCall[q] ELSE RomCallOf("idle", 0)]
  /\ romMixed' = IF Active = {} THEN romMixed \ {p} ELSE romMixed \cup Active \cup {p}
  /\ UNCHANGED <<romRegister, romCell, romOpen, romAddress>>

\* To the next command of the program, or out of it.
Advance(p) ==
  LET c == romCall[p] IN
  romCall' = [romCall EXCEPT ![p] =
                IF c.step < Len(Program(c.op)) THEN [c EXCEPT !.step = @ + 1]
                ELSE RomCallOf("ok", c.val)]

Command(p) == IF p \in Active THEN Program(romCall[p].op)[romCall[p].step] ELSE "none"

-----------------------------------------------------------------------------
\* The value goes into the register, with the extension page selected around it.
Latch(p) ==
  /\ Command(p) = "latch" /\ Advance(p) /\ romRegister' = romCall[p].val
  /\ UNCHANGED <<romCell, romOpen, romAddress, romMixed>>

\* The value is taken from the register.
Fetch(p) ==
  /\ Command(p) = "fetch"
  /\ LET c == romCall[p] IN
     romCall' = [romCall EXCEPT ![p] =
                   IF c.step < Len(Program(c.op))
                   THEN [c EXCEPT !.step = @ + 1, !.seen = romRegister]
                   ELSE RomCallOf("ok", romRegister)]
  /\ UNCHANGED <<romRegister, romCell, romOpen, romAddress, romMixed>>

\* rom_write_command: a command is given, the caller sleeps, and the command
\* is taken away.
RomWriteCommand(p, command) == Command(p) = command /\ Advance(p)

Enable(p) ==
  /\ RomWriteCommand(p, "enable")
  /\ romOpen' = TRUE /\ romAddress' = FALSE
  /\ UNCHANGED <<romRegister, romCell, romMixed>>

Address(p) ==
  /\ RomWriteCommand(p, "address") /\ romAddress' = romOpen
  /\ UNCHANGED <<romRegister, romCell, romOpen, romMixed>>

Write(p) ==
  /\ RomWriteCommand(p, "write")
  /\ romCell' = IF romOpen /\ romAddress THEN romRegister ELSE romCell
  /\ UNCHANGED <<romRegister, romOpen, romAddress, romMixed>>

Read(p) ==
  /\ RomWriteCommand(p, "read")
  /\ romRegister' = IF romOpen /\ romAddress THEN romCell ELSE romRegister
  /\ UNCHANGED <<romCell, romOpen, romAddress, romMixed>>

Erase(p) ==
  /\ RomWriteCommand(p, "erase")
  /\ romCell' = IF romOpen THEN 0 ELSE romCell
  /\ UNCHANGED <<romRegister, romOpen, romAddress, romMixed>>

Disable(p) ==
  /\ RomWriteCommand(p, "disable")
  /\ romOpen' = FALSE /\ romAddress' = FALSE
  /\ UNCHANGED <<romRegister, romCell, romMixed>>

\* The write is done, tried again, or given up.
Compare(p) ==
  /\ Command(p) = "compare"
  /\ LET c == romCall[p] IN
     romCall' = [romCall EXCEPT ![p] =
                   IF c.seen = c.val THEN RomCallOf("ok", c.val)
                   ELSE IF c.tries + 1 = RomTries THEN RomCallOf("failed", c.val)
                   ELSE [c EXCEPT !.step = 1, !.tries = @ + 1]]
  /\ UNCHANGED <<romRegister, romCell, romOpen, romAddress, romMixed>>

RomNext ==
  \E p \in RomUsers :
    \/ RomBegin(p) \/ Latch(p) \/ Fetch(p) \/ Compare(p)
    \/ Enable(p) \/ Address(p) \/ Write(p) \/ Read(p) \/ Erase(p) \/ Disable(p)

RomSpec == RomInit /\ [][RomNext]_romVars

-----------------------------------------------------------------------------
\* However the sequences of the callers mix, the EEPROM takes commands only while
\* some caller is inside its call: nobody leaves it open.
RomClosed == romOpen => Active # {}

\* A caller that nobody met inside its call has what it asked for until the next call
\* begins: a read answers what the EEPROM holds, a write or a set is in it, and no
\* verified write gives up.
RomServed ==
  \A p \in RomUsers \ romMixed :
    /\ romCall[p].op # "failed"
    /\ romCall[p].op = "ok" => romCell = romCall[p].val

\* The EEPROM's sequences (cps-driver.c:2410, 2562; cpsaio.c:964, cpsssi.c:218), which
\* are locked for one access at a time, serve a caller that is alone and leave the
\* EEPROM closed in every case.
RomKept == RomClosed /\ RomServed
=============================================================================
