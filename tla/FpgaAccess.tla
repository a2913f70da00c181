----------------------------- MODULE FpgaAccess -----------------------------
(***************************************************************************)
(* How cps-driver.c and cps_common_io.h access a register of the FPGA.     *)
(* Two GPIO pins tell the FPGA which byte lanes an access enables: before  *)
(* a byte access one of them is raised, after it both are dropped again.   *)
(* The value of an output reaches its pin later, so cps_fpga_access reads  *)
(* the pins back until they agree, and panics when they never do.  An      *)
(* access to an extension page of a device selects the page and restores   *)
(* the common one.  All of it runs under mcs341_access_lock.               *)
(***************************************************************************)
EXTENDS Naturals, Sequences

CONSTANTS Users, Pages, Common, Words, Bytes, Requests, None, Done,
  PanicLimit     \* read-backs of the pins before the panic (1000)

VARIABLES
  regs, req, ans,   \* as in AtomicRegisters
  pc,        \* where each user is in the access
  step,      \* the step of its program
  lock,      \* holder of mcs341_access_lock, or None
  out,       \* lanes whose GPIO output is high
  pins,      \* lanes whose pin is high, as the FPGA sees them
  tries,     \* panic_count
  window,    \* page selected in the device
  panicked   \* the kernel panicked

Registers == INSTANCE AtomicRegisters
Lanes == {"low", "high"}   \* Registers!Lanes

ASSUME AccessAssumption ==
  /\ Common \in Pages
  /\ Requests \subseteq Registers!Operations
  /\ None \notin Requests \cup Registers!Answers \cup Users \cup {Done}
  /\ PanicLimit \in Nat

vars == <<regs, req, ans, pc, step, lock, out, pins, tries, window, panicked>>

\* Access modes: BYTE_LOW and BYTE_HIGH raise one pin, WORD none.
Word == {}
Mode(o) == IF o.lanes = Lanes THEN Word ELSE o.lanes
\* The lanes that an access enables.
Enabled == IF pins = Word THEN Lanes ELSE pins

\* What an access does under the lock: each step sets a mode, then acts.
Program(o) ==
  IF o.page # Common
  THEN <<[mode |-> Word, act |-> "open"], [mode |-> Word, act |-> "data"],
         [mode |-> Word, act |-> "close"]>>
  ELSE IF o.lanes = Lanes THEN <<[mode |-> Word, act |-> "data"]>>
  ELSE <<[mode |-> Mode(o), act |-> "data"], [mode |-> Word, act |-> "none"]>>
Now(u) == Program(req[u])[step[u]]

PCs == {"idle", "spin", "set_low", "set_high", "check", "act", "return"}
Inside == {"set_low", "set_high", "check", "act"}

TypeOK ==
  /\ regs \in [Pages -> [Words -> [Lanes -> Bytes]]]
  /\ req \in [Users -> Requests \cup {None}]
  /\ ans \in [Users -> Registers!Answers \cup {None, Done}]
  /\ pc \in [Users -> PCs]
  /\ step \in [Users -> 1..3]
  /\ lock \in Users \cup {None}
  /\ out \subseteq Lanes /\ pins \subseteq Lanes
  /\ tries \in 0..PanicLimit
  /\ window \in Pages
  /\ panicked \in BOOLEAN

Init ==
  /\ regs \in [Pages -> [Words -> [Lanes -> Bytes]]]
  /\ req = [u \in Users |-> None]
  /\ ans = [u \in Users |-> None]
  /\ pc = [u \in Users |-> "idle"]
  /\ step = [u \in Users |-> 1]
  /\ lock = None
  /\ out \in SUBSET Lanes /\ pins \in SUBSET Lanes
  /\ tries = 0
  /\ window = Common
  /\ panicked = FALSE

At(u, where) == ~panicked /\ pc[u] = where
Goto(u, where) == pc' = [pc EXCEPT ![u] = where]

\* A user calls contec_mcs341_inpb, outb, inpw, outw, or gets or sets an
\* extension value.
Call(u) ==
  /\ At(u, "idle") /\ Goto(u, "spin")
  /\ \E o \in Requests : req' = [req EXCEPT ![u] = o]
  /\ step' = [step EXCEPT ![u] = 1]
  /\ UNCHANGED <<regs, ans, lock, out, pins, tries, window, panicked>>

\* spin_lock_irqsave
Lock(u) ==
  /\ At(u, "spin") /\ Goto(u, "set_low")
  /\ lock = None /\ lock' = u
  /\ tries' = 0
  /\ UNCHANGED <<regs, req, ans, step, out, pins, window, panicked>>

\* One loop of cps_fpga_access: the outputs are set, LOW first, and the pins
\* are read back.
SetOutput(u, lane, from, to) ==
  /\ At(u, from) /\ Goto(u, to)
  /\ out' = IF lane \in Now(u).mode THEN out \cup {lane} ELSE out \ {lane}
  /\ UNCHANGED <<regs, req, ans, step, lock, pins, tries, window, panicked>>
SetLow(u)  == SetOutput(u, "low", "set_low", "set_high")
SetHigh(u) == SetOutput(u, "high", "set_high", "check")

\* Wrong: the pins are not read back.
CheckNothing(u) ==
  /\ At(u, "check") /\ tries < PanicLimit
  /\ tries' = tries + 1
  /\ Goto(u, "act")
  /\ UNCHANGED <<regs, req, ans, step, lock, out, pins, window, panicked>>

Check(u) ==
  /\ At(u, "check") /\ tries < PanicLimit
  /\ tries' = tries + 1
  /\ Goto(u, IF pins = Now(u).mode THEN "act" ELSE "set_low")
  /\ UNCHANGED <<regs, req, ans, step, lock, out, pins, window, panicked>>

Panic(u) ==
  /\ At(u, "check") /\ tries >= PanicLimit
  /\ panicked' = TRUE
  /\ UNCHANGED <<regs, req, ans, pc, step, lock, out, pins, tries, window>>

\* Wrong: the lock is not released.
AdvanceKeepsLock(u) ==
  IF step[u] < Len(Program(req[u]))
  THEN Goto(u, "set_low") /\ step' = [step EXCEPT ![u] = @ + 1] /\ lock' = lock
  ELSE Goto(u, "return") /\ step' = step /\ lock' = lock

\* After an act: the next step of the program, or the end of the access.
Advance(u) ==
  IF step[u] < Len(Program(req[u]))
  THEN Goto(u, "set_low") /\ step' = [step EXCEPT ![u] = @ + 1] /\ lock' = lock
  ELSE Goto(u, "return") /\ step' = step /\ lock' = None

\* readb, readw: a lane that is not enabled reads as anything.
Read(u) ==
  LET o == req[u] IN
  /\ At(u, "act") /\ Now(u).act = "data" /\ o.kind = "read"
  /\ \E junk \in [Lanes -> Bytes] :
       ans' = [ans EXCEPT ![u] =
                 [l \in o.lanes |-> IF l \in Enabled THEN regs[window][o.word][l]
                                    ELSE junk[l]]]
  /\ Advance(u) /\ tries' = 0
  /\ UNCHANGED <<regs, req, out, pins, window, panicked>>

\* writeb, writew: a lane that is enabled is written, with anything when the
\* access does not name it.
Write(u) ==
  LET o == req[u] IN
  /\ At(u, "act") /\ Now(u).act = "data" /\ o.kind = "write"
  /\ \E junk \in [Lanes -> Bytes] :
       regs' = [regs EXCEPT ![window][o.word] =
                  [l \in Lanes |-> IF l \notin Enabled THEN @[l]
                                   ELSE IF l \in o.lanes THEN o.val[l] ELSE junk[l]]]
  /\ ans' = [ans EXCEPT ![u] = Done]
  /\ Advance(u) /\ tries' = 0
  /\ UNCHANGED <<req, out, pins, window, panicked>>

\* The page of a device is written to its revision register.
Select(u) ==
  /\ At(u, "act") /\ Now(u).act \in {"open", "close"}
  /\ window' = IF Now(u).act = "open" THEN req[u].page ELSE Common
  /\ Advance(u) /\ tries' = 0
  /\ UNCHANGED <<regs, req, ans, out, pins, panicked>>

\* A byte access is over once the mode is WORD again.
Restored(u) ==
  /\ At(u, "act") /\ Now(u).act = "none"
  /\ Advance(u) /\ tries' = 0
  /\ UNCHANGED <<regs, req, ans, out, pins, window, panicked>>

Return(u) ==
  /\ At(u, "return") /\ Goto(u, "idle")
  /\ req' = [req EXCEPT ![u] = None]
  /\ ans' = [ans EXCEPT ![u] = None]
  /\ UNCHANGED <<regs, step, lock, out, pins, tries, window, panicked>>

\* An output reaches its pin (external).
Settle ==
  /\ ~panicked
  /\ \E l \in Lanes :
       /\ (l \in out) # (l \in pins)
       /\ pins' = IF l \in out THEN pins \cup {l} ELSE pins \ {l}
  /\ UNCHANGED <<regs, req, ans, pc, step, lock, out, tries, window, panicked>>

Access(u) ==
  \/ Lock(u) \/ SetLow(u) \/ SetHigh(u) \/ Check(u) \/ Panic(u)
  \/ Read(u) \/ Write(u) \/ Select(u) \/ Restored(u) \/ Return(u)

Next == Settle \/ \E u \in Users : Call(u) \/ Access(u)

Spec == Init /\ [][Next]_vars

\* With interrupts off nothing preempts the holder of the lock, and a pin
\* settles; a user that waits for the lock is scheduled while it is free.
FairSpec ==
  /\ Spec /\ WF_vars(Settle)
  /\ \A u \in Users : WF_vars(Access(u)) /\ SF_vars(Lock(u))

-----------------------------------------------------------------------------
\* Accesses of processes, of the timer and of interrupt handlers, to byte
\* lanes and to extension pages, are atomic register accesses.
ImplementsRegisters == Registers!Spec

\* The inductive invariant behind it: only the holder of the lock is inside
\* an access, its outputs are those of its mode once they are set, the pins
\* too when it acts, and the page selected is the one it is working on.
Opened(u) == IF req[u].page # Common /\ step[u] \in {2, 3} THEN req[u].page
             ELSE Common
Answered(u) == Now(u).act \in {"none", "close"}
UserInv(u) ==
  /\ pc[u] \in Inside <=> lock = u
  /\ req[u] = None <=> pc[u] = "idle"
  /\ pc[u] # "idle" => step[u] <= Len(Program(req[u]))
  /\ pc[u] = "spin" => step[u] = 1
  /\ ans[u] # None <=> pc[u] = "return" \/ (pc[u] \in Inside /\ Answered(u))
  /\ pc[u] = "set_high" => ("low" \in out <=> "low" \in Now(u).mode)
  /\ pc[u] \in {"check", "act"} => out = Now(u).mode
  /\ pc[u] = "act" => pins = Now(u).mode
  /\ pc[u] \in Inside => window = Opened(u)
AccessInv ==
  /\ \A u \in Users : UserInv(u)
  /\ lock = None => window = Common

\* An access that was asked for returns, unless the pins never settle.
Returns == \A u \in Users : pc[u] = "spin" ~> (pc[u] = "idle" \/ panicked)
=============================================================================
