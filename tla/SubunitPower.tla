---------------------------- MODULE SubunitPower ----------------------------
(***************************************************************************)
(* The sysfs files of a serial board that carries a radio module           *)
(* (8250_cpscom.c): power, manual power, manual reset and lights.  The     *)
(* module's registers are behind a pair of addresses, the index 0x30 and   *)
(* the data 0x34; the files write both without a lock, from variables that *)
(* they also change without one.                                           *)
(***************************************************************************)
EXTENDS Naturals

CONSTANTS
  SubUsers,    \* processes that write the files
  SubBoards,   \* products that the behaviours are about
  SubLeds      \* lights

ASSUME SubAssumption == SubBoards \subseteq {"COM1QL", "COM1LC", "other"} /\ SubBoards # {}

VARIABLES
  subBoard,    \* product of the board
  subIndex,    \* register that the index selects
  subReg,      \* the registers 0x5003 and 0x5004
  subVar,      \* subunit_powerreset and subunit_leds_status
  subRun,      \* the write of each user
  subMixed     \* history: registers whose last writes overlapped another's

subVars == <<subBoard, subIndex, subReg, subVar, subRun, subMixed>>

Parts == [power |-> {"power", "reset"}, leds |-> SubLeds]
NoRun == [at |-> "none", reg |-> "power", alone |-> TRUE]

SubTypeOK ==
  /\ subBoard \in SubBoards
  /\ subIndex \in {"none", "power", "leds"}
  /\ \A r \in {"power", "leds"} :
       subVar[r] \subseteq Parts[r] /\ subReg[r] \subseteq Parts[r] \cup {"foreign"}
  /\ DOMAIN subRun = SubUsers
  /\ subMixed \subseteq {"power", "leds"}

SubInit ==
  /\ subBoard \in SubBoards /\ subIndex = "none"
  /\ subReg = [power |-> {}, leds |-> {}] /\ subVar = subReg
  /\ subRun = [u \in SubUsers |-> NoRun] /\ subMixed = {}

\* A write begins; it is alone until another one runs at the same time.
Begins(u, run) ==
  LET others == {v \in SubUsers \ {u} : subRun[v].at # "none"} IN
  /\ subRun[u].at = "none"
  /\ subRun' = [v \in SubUsers |->
       IF v = u THEN [run EXCEPT !.alone = (others = {})]
       ELSE IF v \in others THEN [subRun[v] EXCEPT !.alone = FALSE] ELSE subRun[v]]
Step(u, at) == subRun' = [subRun EXCEPT ![u].at = at]
Ends(u) ==
  /\ subRun' = [subRun EXCEPT ![u] = NoRun]
  /\ subMixed' = IF subRun[u].alone THEN subMixed \ {subRun[u].reg} ELSE {"power", "leds"}

\* The data address writes the register that was selected last, which another
\* write may have changed since.
OutData(r, word) == subReg' = [subReg EXCEPT ![subIndex] = IF subIndex = r THEN word ELSE {"foreign"}]

-----------------------------------------------------------------------------
\* power_store: the file for both bits, with a pause between them

\* Bits 0x10 and 0x01 that the board has.
First == {"reset"}
Second == IF subBoard = "COM1QL" THEN {"power"} ELSE {}

\* The index is written first.
PowerStore(u) ==
  \E on \in BOOLEAN :
    /\ subBoard # "other" /\ subIndex' = "power"
    /\ Begins(u, [at |-> IF on THEN "onFirst" ELSE IF Second = {} THEN "offSecond" ELSE "offFirst",
                  reg |-> "power", alone |-> TRUE])
    /\ UNCHANGED <<subBoard, subReg, subVar, subMixed>>

\* The first bit alone, then the pause.
PowerFirst(u) ==
  /\ subRun[u].at \in {"onFirst", "offFirst"} /\ OutData("power", First)
  /\ Step(u, IF subRun[u].at = "offFirst" THEN "offSecond"
             ELSE IF Second = {} THEN "onVar" ELSE "onSecond")
  /\ UNCHANGED <<subBoard, subIndex, subVar, subMixed>>

PowerSecond(u) ==
  /\ subRun[u].at \in {"onSecond", "offSecond"}
  /\ OutData("power", IF subRun[u].at = "onSecond" THEN First \cup Second ELSE {})
  /\ Step(u, IF subRun[u].at = "onSecond" THEN "onVar" ELSE "offVar")
  /\ UNCHANGED <<subBoard, subIndex, subVar, subMixed>>

\* Wrong end: the variable of the manual files is left as it was.
PowerVarForgotten(u) ==
  /\ subRun[u].at \in {"onVar", "offVar"} /\ Ends(u)
  /\ UNCHANGED <<subBoard, subIndex, subReg, subVar>>

PowerVar(u) ==
  /\ subRun[u].at \in {"onVar", "offVar"} /\ Ends(u)
  /\ subVar' = [subVar EXCEPT !.power = IF subRun[u].at = "onVar" THEN First \cup Second ELSE {}]
  /\ UNCHANGED <<subBoard, subIndex, subReg>>

-----------------------------------------------------------------------------
\* The manual files and the lights: one part of a variable, then the register

ManualSet(u) ==
  \E r \in {"power", "leds"}, on \in BOOLEAN : \E part \in Parts[r] :
    /\ Begins(u, [at |-> "index", reg |-> r, alone |-> TRUE])
    /\ subVar' = [subVar EXCEPT ![r] = IF on THEN @ \cup {part} ELSE @ \ {part}]
    /\ UNCHANGED <<subBoard, subIndex, subReg, subMixed>>

ManualIndex(u) ==
  /\ subRun[u].at = "index" /\ subIndex' = subRun[u].reg
  /\ Step(u, "data") /\ UNCHANGED <<subBoard, subReg, subVar, subMixed>>

ManualData(u) ==
  /\ subRun[u].at = "data" /\ OutData(subRun[u].reg, subVar[subRun[u].reg]) /\ Ends(u)
  /\ UNCHANGED <<subBoard, subIndex, subVar>>

SubNext ==
  \E u \in SubUsers :
    \/ PowerStore(u) \/ PowerFirst(u) \/ PowerSecond(u) \/ PowerVar(u)
    \/ ManualSet(u) \/ ManualIndex(u) \/ ManualData(u)

SubSpec == SubInit /\ [][SubNext]_subVars

-----------------------------------------------------------------------------
\* Property

\* When no write is under way, a register of the module holds what its variable
\* says, from which the show functions answer and the next write starts, in any
\* order of the files -- unless its last write overlapped another one: then the
\* data may have gone to the other register.
SubunitAsAsked ==
  (\A u \in SubUsers : subRun[u].at = "none") =>
    \A r \in {"power", "leds"} \ subMixed : subReg[r] = subVar[r]
=============================================================================
