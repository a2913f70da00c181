--------------------------- MODULE AtomicRegisters ---------------------------
(***************************************************************************)
(* What contec_mcs341_inpb, outb, inpw, outw and the access of a device's  *)
(* extension page promise to their callers: the registers are atomic.  An  *)
(* access takes effect at one instant between its call and its return, on  *)
(* the byte lanes it names and on no other.                                *)
(***************************************************************************)
CONSTANTS
  Users,     \* the contexts that call: processes, the timer, interrupts
  Pages,     \* register pages of a device
  Common,    \* the page that shows when no extension page is selected
  Words,     \* word addresses of a page
  Bytes,     \* values of a byte
  Requests,  \* the accesses that are asked for
  None,      \* no request, no answer
  Done       \* the answer to a write

Lanes == {"low", "high"}

\* A byte access names one lane of the common page, a word access both
\* lanes, an access to an extension page is a word access.
Operations ==
  [kind : {"read", "write"}, page : {Common}, word : Words,
   lanes : {{"low"}, {"high"}, Lanes}, val : [Lanes -> Bytes]]
  \cup
  [kind : {"read", "write"}, page : Pages, word : Words,
   lanes : {Lanes}, val : [Lanes -> Bytes]]

\* What is read on some lanes.
Answers == UNION {[ls -> Bytes] : ls \in SUBSET Lanes}

VARIABLES
  regs,      \* the registers, by page, word and lane
  req,       \* the access each user asked for
  ans        \* its answer, once it took effect

Init ==
  /\ regs \in [Pages -> [Words -> [Lanes -> Bytes]]]
  /\ req = [u \in Users |-> None]
  /\ ans = [u \in Users |-> None]

Call(u) ==
  /\ req[u] = None
  /\ \E o \in Requests : req' = [req EXCEPT ![u] = o]
  /\ UNCHANGED <<regs, ans>>

Read(u) ==
  LET o == req[u] IN
  /\ o # None /\ ans[u] = None
  /\ o.kind = "read"
  /\ ans' = [ans EXCEPT ![u] = [l \in o.lanes |-> regs[o.page][o.word][l]]]
  /\ UNCHANGED <<regs, req>>

Write(u) ==
  LET o == req[u] IN
  /\ o # None /\ ans[u] = None
  /\ o.kind = "write"
  /\ regs' = [regs EXCEPT ![o.page][o.word] =
                [l \in Lanes |-> IF l \in o.lanes THEN o.val[l] ELSE @[l]]]
  /\ ans' = [ans EXCEPT ![u] = Done]
  /\ UNCHANGED req

Return(u) ==
  /\ ans[u] # None
  /\ req' = [req EXCEPT ![u] = None]
  /\ ans' = [ans EXCEPT ![u] = None]
  /\ UNCHANGED regs

Next == \E u \in Users : Call(u) \/ Read(u) \/ Write(u) \/ Return(u)

Spec == Init /\ [][Next]_<<regs, req, ans>>
=============================================================================
