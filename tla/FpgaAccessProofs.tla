-------------------------- MODULE FpgaAccessProofs --------------------------
(***************************************************************************)
(* Proofs about FpgaAccess: for any set of users, pages, words and bytes   *)
(* the accesses of the driver are atomic register accesses, and each step  *)
(* of one brings it nearer to its end.                                     *)
(***************************************************************************)
EXTENDS FpgaAccess, Integers, TLAPS

Inv == TypeOK /\ AccessInv

\* The two modules name the same lanes.
LEMMA SameLanes == Lanes = Registers!Lanes
BY DEF Lanes, Registers!Lanes

(***************************************************************************)
(* The programs of the three kinds of access.                              *)
(***************************************************************************)
LEMMA RequestType ==
  ASSUME NEW o \in Requests
  PROVE  /\ o \in Registers!Operations /\ o # None
         /\ o.page \in Pages /\ o.word \in Words /\ o.val \in [Lanes -> Bytes]
         /\ o.kind \in {"read", "write"}
         /\ o.lanes \in {{"low"}, {"high"}, Lanes}
         /\ o.page # Common => o.lanes = Lanes
BY AccessAssumption, SameLanes DEF Registers!Operations

LEMMA Programs ==
  ASSUME NEW o \in Requests
  PROVE  \/ /\ o.page # Common /\ o.lanes = Lanes
            /\ Len(Program(o)) = 3
            /\ Program(o)[1].act = "open" /\ Program(o)[1].mode = {}
            /\ Program(o)[2].act = "data" /\ Program(o)[2].mode = {}
            /\ Program(o)[3].act = "close" /\ Program(o)[3].mode = {}
         \/ /\ o.page = Common /\ o.lanes = Lanes
            /\ Len(Program(o)) = 1
            /\ Program(o)[1].act = "data" /\ Program(o)[1].mode = {}
         \/ /\ o.page = Common /\ o.lanes # Lanes
            /\ Len(Program(o)) = 2
            /\ Program(o)[1].act = "data" /\ Program(o)[1].mode = o.lanes
            /\ Program(o)[2].act = "none" /\ Program(o)[2].mode = {}
<1>1. CASE o.page # Common
  BY <1>1, RequestType DEF Program, Word
<1>2. CASE o.page = Common /\ o.lanes = Lanes
  BY <1>2 DEF Program, Word
<1>3. CASE o.page = Common /\ o.lanes # Lanes
  BY <1>3 DEF Program, Word, Mode
<1>4. QED
  BY <1>1, <1>2, <1>3

\* What follows a step of a program.
LEMMA ProgramSteps ==
  ASSUME NEW o \in Requests, NEW s \in 1..3, s <= Len(Program(o))
  PROVE  /\ Len(Program(o)) \in 1..3
         /\ Program(o)[1].act \in {"open", "data"}
         /\ Program(o)[s].act \in {"open", "data", "close", "none"}
         /\ Program(o)[s].act = "open" => /\ s = 1 /\ o.page # Common
                                          /\ s < Len(Program(o))
                                          /\ Program(o)[s + 1].act = "data"
         /\ Program(o)[s].act = "data" =>
              /\ s < Len(Program(o)) => Program(o)[s + 1].act \in {"none", "close"}
              /\ o.page # Common => s = 2 /\ s < Len(Program(o))
         /\ Program(o)[s].act = "close" =>
              s = 3 /\ o.page # Common /\ s = Len(Program(o))
         /\ Program(o)[s].act = "none" =>
              o.page = Common /\ s = Len(Program(o))
<1>1. s = 1 \/ s = 2 \/ s = 3
  OBVIOUS
<1>2. CASE o.page # Common /\ Len(Program(o)) = 3
  <2>1. /\ Program(o)[1].act = "open" /\ Program(o)[2].act = "data"
        /\ Program(o)[3].act = "close"
    BY <1>2, Programs
  <2>2. QED
    BY <1>1, <1>2, <2>1
<1>3. CASE o.page = Common /\ Len(Program(o)) = 1
  <2>1. Program(o)[1].act = "data" /\ s = 1
    BY <1>3, Programs
  <2>2. QED
    BY <1>3, <2>1
<1>4. CASE o.page = Common /\ Len(Program(o)) = 2
  <2>1. Program(o)[1].act = "data" /\ Program(o)[2].act = "none" /\ s \in {1, 2}
    BY <1>4, Programs
  <2>2. QED
    BY <1>4, <2>1
<1>5. QED
  BY <1>2, <1>3, <1>4, Programs

\* The mode of a data step enables the lanes of the access.
LEMMA DataMode ==
  ASSUME NEW o \in Requests, NEW s \in 1..3, s <= Len(Program(o))
  PROVE  /\ Program(o)[s].mode \subseteq Lanes
         /\ Program(o)[s].act = "data" =>
              (IF Program(o)[s].mode = Word THEN Lanes ELSE Program(o)[s].mode)
                = o.lanes
<1>1. o.lanes \subseteq Lanes /\ o.lanes # {}
  <2>1. o.lanes \in {{"low"}, {"high"}, Lanes}
    BY RequestType
  <2>2. QED
    BY <2>1 DEF Lanes, Registers!Lanes
<1>2. s = 1 \/ s = 2 \/ s = 3
  OBVIOUS
<1>3. Program(o)[s].mode \in {{}, o.lanes}
  BY <1>2, Programs
<1>4. ASSUME Program(o)[s].act = "data"
      PROVE  Program(o)[s].mode = o.lanes \/ (Program(o)[s].mode = {} /\ o.lanes = Lanes)
  BY <1>2, <1>4, Programs
<1>5. QED
  BY <1>1, <1>3, <1>4 DEF Word

(***************************************************************************)
(* The inductive invariant.                                                *)
(***************************************************************************)
LEMMA InitInv == Init => Inv
<1> SUFFICES ASSUME Init PROVE Inv
  OBVIOUS
<1> USE AccessAssumption DEF Init
<1>1. TypeOK
  <2>1. /\ req \in [Users -> Requests \cup {None}]
        /\ ans \in [Users -> Registers!Answers \cup {None, Done}]
        /\ pc \in [Users -> PCs] /\ step \in [Users -> 1..3]
    BY DEF PCs
  <2>2. tries \in 0..PanicLimit /\ window \in Pages /\ lock \in Users \cup {None}
    OBVIOUS
  <2>3. panicked \in BOOLEAN /\ out \subseteq Lanes /\ pins \subseteq Lanes
    OBVIOUS
  <2>4. regs \in [Pages -> [Words -> [Lanes -> Bytes]]]
    OBVIOUS
  <2>5. QED
    BY <2>1, <2>2, <2>3, <2>4 DEF TypeOK
<1>2. \A u \in Users : UserInv(u)
  BY DEF UserInv, Inside
<1>3. QED
  BY <1>1, <1>2 DEF Inv, AccessInv

\* What Inv says of a user that is inside an access.
LEMMA InsideFacts ==
  ASSUME Inv, NEW u \in Users, pc[u] \in Inside
  PROVE  /\ req[u] \in Requests /\ lock = u /\ lock # None
         /\ step[u] \in 1..3 /\ step[u] <= Len(Program(req[u]))
         /\ window = Opened(u)
<1>1. UserInv(u)
  BY DEF Inv, AccessInv
<1>2. req[u] \in Requests \cup {None} /\ step[u] \in 1..3
  BY DEF Inv, TypeOK
<1>3. pc[u] # "idle"
  BY DEF Inside
<1>4. lock = u /\ req[u] # None /\ step[u] <= Len(Program(req[u])) /\ window = Opened(u)
  BY <1>1, <1>3 DEF UserInv
<1>5. QED
  BY <1>2, <1>4, AccessAssumption

\* A step of one user keeps what holds of another.
LEMMA Others ==
  ASSUME Inv, NEW u \in Users, NEW v \in Users, v # u,
         pc'[v] = pc[v], req'[v] = req[v], step'[v] = step[v], ans'[v] = ans[v],
         \/ lock' = lock
         \/ lock \in {u, None} /\ lock' \in {u, None},
         lock = u \/ UNCHANGED <<out, pins, window>>
  PROVE  UserInv(v)'
<1>1. UserInv(v)
  BY DEF Inv, AccessInv
<1>2. Now(v)' = Now(v) /\ (Answered(v) <=> Answered(v)') /\ Opened(v)' = Opened(v)
  BY DEF Now, Answered, Opened
<1>3. Program(req[v])' = Program(req[v])
  BY DEF Program, Mode
<1>4. v # None
  BY AccessAssumption
<1>5. (lock = v) <=> (lock' = v)
  BY <1>4
<1>6. CASE lock = u
  <2>1. pc[v] \notin Inside
    BY <1>1, <1>6 DEF UserInv
  <2>2. QED
    BY <1>1, <1>2, <1>3, <1>5, <2>1 DEF UserInv, Inside
<1>7. CASE UNCHANGED <<out, pins, window>>
  BY <1>1, <1>2, <1>3, <1>5, <1>7 DEF UserInv, Inside
<1>8. QED
  BY <1>6, <1>7

\* A call, the lock, and the pins being set and read back.
LEMMA CallInv ==
  ASSUME Inv, NEW u \in Users, Call(u)
  PROVE  Inv'
<1> USE DEF Call, At, Goto
<1>1. TypeOK'
  BY DEF Inv, TypeOK, PCs
<1>2. pc \in [Users -> PCs] /\ req \in [Users -> Requests \cup {None}]
      /\ step \in [Users -> 1..3]
  BY DEF Inv, TypeOK
<1>3. PICK o \in Requests : req' = [req EXCEPT ![u] = o]
  OBVIOUS
<1>4. UserInv(u) /\ o # None
  BY AccessAssumption DEF Inv, AccessInv
<1>5. req'[u] = o /\ step'[u] = 1 /\ pc'[u] = "spin"
  BY <1>2, <1>3
<1>6. 1 <= Len(Program(o))
  BY Programs
<1>7. Program(req[u])' = Program(o)
  BY <1>5 DEF Program, Mode
<1>8. UserInv(u)'
  BY <1>4, <1>5, <1>6, <1>7 DEF UserInv, Inside
<1>9. ASSUME NEW v \in Users, v # u PROVE UserInv(v)'
  BY <1>2, <1>9, Others
<1>10. QED
  BY <1>1, <1>8, <1>9 DEF Inv, AccessInv

LEMMA LockInv ==
  ASSUME Inv, NEW u \in Users, Lock(u)
  PROVE  Inv'
<1> USE DEF Lock, At, Goto
<1>1. TypeOK'
  BY AccessAssumption DEF Inv, TypeOK, PCs
<1>2. pc \in [Users -> PCs] /\ req \in [Users -> Requests \cup {None}]
      /\ step \in [Users -> 1..3]
  BY DEF Inv, TypeOK
<1>3. UserInv(u) /\ window = Common /\ u # None
  BY AccessAssumption DEF Inv, AccessInv
<1>4. req[u] \in Requests /\ step[u] = 1
  BY <1>2, <1>3 DEF UserInv
<1>5. Program(req[u])[1].act \in {"open", "data"}
  BY <1>4, Programs
<1>6. pc'[u] = "set_low" /\ Now(u)' = Now(u) /\ Program(req[u])' = Program(req[u])
  BY <1>2 DEF Now, Program, Mode
<1>7. ~Answered(u)' /\ Opened(u)' = Common
  BY <1>4, <1>5, <1>6 DEF Answered, Opened, Now
<1>8. UserInv(u)'
  BY <1>3, <1>4, <1>6, <1>7 DEF UserInv, Inside
<1>9. ASSUME NEW v \in Users, v # u PROVE UserInv(v)'
  BY <1>2, <1>9, Others
<1>10. QED
  BY <1>1, <1>3, <1>8, <1>9 DEF Inv, AccessInv

LEMMA SetLowInv ==
  ASSUME Inv, NEW u \in Users, SetLow(u)
  PROVE  Inv'
<1> USE DEF SetLow, SetOutput, At, Goto
<1>1. TypeOK'
  BY DEF Inv, TypeOK, PCs, Lanes, Registers!Lanes
<1>2. pc \in [Users -> PCs]
  BY DEF Inv, TypeOK
<1>3. UserInv(u) /\ lock = u /\ u # None
  BY AccessAssumption, InsideFacts DEF Inv, AccessInv, Inside
<1>4. /\ pc'[u] = "set_high" /\ Now(u)' = Now(u)
      /\ Program(req[u])' = Program(req[u])
      /\ (Answered(u)' <=> Answered(u)) /\ Opened(u)' = Opened(u)
  BY <1>2 DEF Now, Program, Mode, Answered, Opened
<1>5. "low" \in out' <=> "low" \in Now(u).mode
  OBVIOUS
<1>6. UserInv(u)'
  BY <1>3, <1>4, <1>5 DEF UserInv, Inside
<1>7. ASSUME NEW v \in Users, v # u PROVE UserInv(v)'
  BY <1>2, <1>3, <1>7, Others
<1>8. QED
  BY <1>1, <1>3, <1>6, <1>7 DEF Inv, AccessInv

LEMMA SetHighInv ==
  ASSUME Inv, NEW u \in Users, SetHigh(u)
  PROVE  Inv'
<1> USE DEF SetHigh, SetOutput, At, Goto
<1>1. TypeOK'
  BY DEF Inv, TypeOK, PCs, Lanes, Registers!Lanes
<1>2. pc \in [Users -> PCs]
  BY DEF Inv, TypeOK
<1>3. UserInv(u) /\ lock = u /\ u # None
  BY AccessAssumption, InsideFacts DEF Inv, AccessInv, Inside
<1>4. /\ pc'[u] = "check" /\ Now(u)' = Now(u)
      /\ Program(req[u])' = Program(req[u])
      /\ (Answered(u)' <=> Answered(u)) /\ Opened(u)' = Opened(u)
  BY <1>2 DEF Now, Program, Mode, Answered, Opened
<1>5. out' = Now(u).mode
  <2>1. Now(u).mode \subseteq {"low", "high"}
    BY InsideFacts, DataMode DEF Now, Inside, Lanes, Registers!Lanes
  <2>2. out' \subseteq {"low", "high"}
    BY <1>1 DEF TypeOK, Lanes, Registers!Lanes
  <2>3. "low" \in out <=> "low" \in Now(u).mode
    BY <1>3 DEF UserInv
  <2>4. ("low" \in out' <=> "low" \in out) /\ ("high" \in out' <=> "high" \in Now(u).mode)
    OBVIOUS
  <2>5. QED
    BY <2>1, <2>2, <2>3, <2>4
<1>6. UserInv(u)'
  BY <1>3, <1>4, <1>5 DEF UserInv, Inside
<1>7. ASSUME NEW v \in Users, v # u PROVE UserInv(v)'
  BY <1>2, <1>3, <1>7, Others
<1>8. QED
  BY <1>1, <1>3, <1>6, <1>7 DEF Inv, AccessInv

LEMMA CheckInv ==
  ASSUME Inv, NEW u \in Users, Check(u)
  PROVE  Inv'
<1> USE DEF Check, At, Goto
<1>1. TypeOK'
  BY AccessAssumption DEF Inv, TypeOK, PCs
<1>2. pc \in [Users -> PCs]
  BY DEF Inv, TypeOK
<1>3. UserInv(u) /\ lock = u /\ u # None
  BY AccessAssumption, InsideFacts DEF Inv, AccessInv, Inside
<1>4. /\ Now(u)' = Now(u) /\ Program(req[u])' = Program(req[u])
      /\ (Answered(u)' <=> Answered(u)) /\ Opened(u)' = Opened(u)
  BY DEF Now, Program, Mode, Answered, Opened
<1>5. pc'[u] = IF pins = Now(u).mode THEN "act" ELSE "set_low"
  BY <1>2
<1>6. UserInv(u)'
  BY <1>3, <1>4, <1>5 DEF UserInv, Inside
<1>7. ASSUME NEW v \in Users, v # u PROVE UserInv(v)'
  BY <1>2, <1>3, <1>7, Others
<1>8. QED
  BY <1>1, <1>3, <1>6, <1>7 DEF Inv, AccessInv

LEMMA PanicInv ==
  ASSUME Inv, NEW u \in Users, Panic(u)
  PROVE  Inv'
<1> USE DEF Panic
<1>1. TypeOK'
  BY DEF Inv, TypeOK
<1>2. \A v \in Users : UserInv(v) => UserInv(v)'
  BY DEF UserInv, Now, Answered, Opened, Program, Mode, Inside
<1>3. QED
  BY <1>1, <1>2 DEF Inv, AccessInv

(***************************************************************************)
(* The acts: the program goes on, or the lock is released.                 *)
(***************************************************************************)
LEMMA AdvanceFacts ==
  ASSUME Inv, NEW u \in Users, At(u, "act"), Advance(u)
  PROVE  /\ pc' \in [Users -> PCs] /\ step' \in [Users -> 1..3]
         /\ lock = u /\ lock' \in {u, None}
         /\ \A v \in Users : v # u => pc'[v] = pc[v] /\ step'[v] = step[v]
         /\ IF step[u] < Len(Program(req[u]))
            THEN pc'[u] = "set_low" /\ step'[u] = step[u] + 1 /\ lock' = u
            ELSE pc'[u] = "return" /\ step'[u] = step[u] /\ lock' = None
<1>1. pc \in [Users -> PCs] /\ step \in [Users -> 1..3]
  BY DEF Inv, TypeOK
<1>2. pc[u] \in Inside
  BY DEF At, Inside
<1>3. req[u] \in Requests /\ lock = u /\ step[u] \in 1..3 /\ step[u] <= Len(Program(req[u]))
  BY <1>2, InsideFacts
<1>4. Len(Program(req[u])) \in 1..3
  BY <1>3, ProgramSteps
<1>5. CASE step[u] < Len(Program(req[u]))
  <2>1. step[u] + 1 \in 1..3
    <3>1. \A a, b \in 1..3 : a < b => a + 1 \in 1..3
      OBVIOUS
    <3>2. QED
      BY <1>3, <1>4, <1>5, <3>1
  <2>2. Goto(u, "set_low") /\ step' = [step EXCEPT ![u] = @ + 1] /\ lock' = lock
    BY <1>5 DEF Advance
  <2>3. QED
    BY <1>1, <1>3, <1>5, <2>1, <2>2 DEF Goto, PCs
<1>6. CASE ~(step[u] < Len(Program(req[u])))
  <2>1. Goto(u, "return") /\ step' = step /\ lock' = None
    BY <1>6 DEF Advance
  <2>2. QED
    BY <1>1, <1>3, <1>6, <2>1 DEF Goto, PCs
<1>7. QED
  BY <1>5, <1>6

\* An act keeps the invariant of its user when it selects the right page and
\* answers exactly when it moves the data.
LEMMA ActInv ==
  ASSUME Inv, NEW u \in Users, At(u, "act"), Advance(u), req' = req,
         \A v \in Users : v # u => ans'[v] = ans[v],
         Now(u).act = "data" => ans'[u] # None,
         Now(u).act # "data" => ans'[u] = ans[u],
         window' = CASE Now(u).act = "open"  -> req[u].page
                     [] Now(u).act = "close" -> Common
                     [] OTHER -> window
  PROVE  AccessInv'
<1>1. pc[u] \in Inside /\ pc[u] = "act"
  BY DEF At, Inside
<1>2. /\ req[u] \in Requests /\ lock = u /\ step[u] \in 1..3
      /\ step[u] <= Len(Program(req[u])) /\ window = Opened(u)
  BY <1>1, InsideFacts
<1>3. UserInv(u) /\ req[u] # None /\ u # None
  BY <1>2, AccessAssumption DEF Inv, AccessInv
<1>4. (ans[u] # None <=> Answered(u)) /\ Now(u) = Program(req[u])[step[u]]
  BY <1>1, <1>3 DEF UserInv, Now
<1>5. Program(req[u])' = Program(req[u]) /\ req'[u] = req[u]
  BY DEF Program, Mode
<1>6. Len(Program(req[u])) \in 1..3
  BY <1>2, ProgramSteps
<1>7. ASSUME NEW v \in Users, v # u PROVE UserInv(v)'
  BY <1>2, <1>7, AdvanceFacts, Others
<1>8. CASE step[u] < Len(Program(req[u]))
  <2>1. pc'[u] = "set_low" /\ step'[u] = step[u] + 1 /\ lock' = u
    BY <1>8, AdvanceFacts
  <2>2. step'[u] <= Len(Program(req[u]))
    BY <1>2, <1>6, <1>8, <2>1
  <2>3. Now(u)' = Program(req[u])[step[u] + 1]
    BY <1>5, <2>1 DEF Now
  <2>4. ASSUME Now(u).act = "open" PROVE UserInv(u)'
    <3>1. step[u] = 1 /\ req[u].page # Common /\ Now(u)'.act = "data"
      BY <1>2, <1>4, <2>3, <2>4, ProgramSteps
    <3>2. ans'[u] = None /\ window' = req[u].page
      BY <1>4, <2>4 DEF Answered
    <3>3. ~Answered(u)' /\ Opened(u)' = req[u].page
      BY <1>5, <2>1, <3>1 DEF Answered, Opened
    <3>4. QED
      BY <1>3, <1>5, <2>1, <2>2, <3>2, <3>3 DEF UserInv, Inside
  <2>5. ASSUME Now(u).act = "data" PROVE UserInv(u)'
    <3>1. Now(u)'.act \in {"none", "close"} /\ (req[u].page # Common => step[u] = 2)
      BY <1>2, <1>4, <1>8, <2>3, <2>5, ProgramSteps
    <3>2. ans'[u] # None /\ window' = window
      BY <2>5
    <3>3. Opened(u)' = Opened(u)
      BY <1>5, <2>1, <3>1 DEF Opened
    <3>4. Answered(u)'
      BY <3>1 DEF Answered
    <3>5. QED
      BY <1>2, <1>3, <1>5, <2>1, <2>2, <3>2, <3>3, <3>4 DEF UserInv, Inside
  <2>6. Now(u).act \in {"open", "data"}
    <3>1. step[u] # Len(Program(req[u]))
      BY <1>2, <1>6, <1>8
    <3>2. Program(req[u])[step[u]].act \in {"open", "data", "close", "none"}
      BY <1>2, ProgramSteps
    <3>3. /\ Program(req[u])[step[u]].act # "close"
          /\ Program(req[u])[step[u]].act # "none"
      BY <1>2, <3>1, ProgramSteps
    <3>4. QED
      BY <1>4, <3>2, <3>3
  <2>7. UserInv(u)'
    BY <2>4, <2>5, <2>6
  <2>8. QED
    BY <1>3, <1>7, <2>1, <2>7 DEF AccessInv
<1>9. CASE ~(step[u] < Len(Program(req[u])))
  <2>1. pc'[u] = "return" /\ step'[u] = step[u] /\ lock' = None
    BY <1>9, AdvanceFacts
  <2>2. Now(u).act # "open" /\ (Now(u).act = "data" => req[u].page = Common)
    BY <1>2, <1>4, <1>9, ProgramSteps
  <2>3. ans'[u] # None
    <3>1. Now(u).act \in {"data", "none", "close"}
      BY <1>2, <1>4, <2>2, ProgramSteps
    <3>2. QED
      BY <1>4, <3>1 DEF Answered
  <2>4. window' = Common
    <3>1. CASE Now(u).act = "data"
      BY <1>2, <2>2, <3>1 DEF Opened
    <3>2. CASE Now(u).act = "none"
      <4>1. req[u].page = Common
        BY <1>2, <1>4, <3>2, ProgramSteps
      <4>2. QED
        BY <1>2, <3>2, <4>1 DEF Opened
    <3>3. CASE Now(u).act = "close"
      BY <3>3
    <3>4. QED
      BY <1>2, <1>4, <2>2, <3>1, <3>2, <3>3, ProgramSteps
  <2>5. UserInv(u)'
    BY <1>2, <1>3, <1>5, <2>1, <2>3 DEF UserInv, Inside
  <2>6. QED
    BY <1>7, <2>4, <2>5 DEF AccessInv
<1>10. QED
  BY <1>8, <1>9

LEMMA ActTypes ==
  ASSUME Inv, NEW u \in Users, At(u, "act"), Advance(u),
         UNCHANGED <<req, out, pins, panicked>>, tries' = 0,
         regs' \in [Pages -> [Words -> [Lanes -> Bytes]]],
         ans' \in [Users -> Registers!Answers \cup {None, Done}],
         window' \in Pages
  PROVE  TypeOK'
<1>1. /\ pc' \in [Users -> PCs] /\ step' \in [Users -> 1..3]
      /\ lock' \in Users \cup {None}
  BY AdvanceFacts
<1>2. req' \in [Users -> Requests \cup {None}] /\ tries' \in 0..PanicLimit
  BY AccessAssumption DEF Inv, TypeOK
<1>3. out' \subseteq Lanes /\ pins' \subseteq Lanes
  BY DEF Inv, TypeOK
<1>4. panicked' \in BOOLEAN
  BY DEF Inv, TypeOK
<1>5. QED
  BY <1>1, <1>2, <1>3, <1>4 DEF TypeOK

\* When a user moves its data, the pins enable the lanes it named and the
\* page it named is selected.
LEMMA DataFacts ==
  ASSUME Inv, NEW u \in Users, At(u, "act"), Now(u).act = "data"
  PROVE  /\ Enabled = req[u].lanes /\ window = req[u].page
         /\ req[u] \in Requests /\ req[u] # None /\ ans[u] = None
<1>1. pc[u] = "act" /\ pc[u] \in Inside
  BY DEF At, Inside
<1>2. /\ req[u] \in Requests /\ step[u] \in 1..3
      /\ step[u] <= Len(Program(req[u])) /\ window = Opened(u)
  BY <1>1, InsideFacts
<1>3. UserInv(u) /\ req[u] # None
  BY <1>2, AccessAssumption DEF Inv, AccessInv
<1>4. Now(u) = Program(req[u])[step[u]]
  BY DEF Now
<1>5. Enabled = req[u].lanes
  <2>1. pins = Now(u).mode
    BY <1>1, <1>3 DEF UserInv
  <2>2. QED
    BY <1>2, <1>4, <2>1, DataMode DEF Enabled
<1>6. window = req[u].page
  BY <1>2, <1>4, ProgramSteps DEF Opened
<1>7. ans[u] = None
  BY <1>1, <1>3 DEF UserInv, Answered
<1>8. QED
  BY <1>2, <1>3, <1>5, <1>6, <1>7

LEMMA ReadInv ==
  ASSUME Inv, NEW u \in Users, Read(u)
  PROVE  Inv' /\ Registers!Read(u)
<1> DEFINE value == [l \in req[u].lanes |-> regs[req[u].page][req[u].word][l]]
<1>1. /\ At(u, "act") /\ Now(u).act = "data" /\ req[u].kind = "read"
      /\ Advance(u) /\ tries' = 0
      /\ UNCHANGED <<regs, req, out, pins, window, panicked>>
  BY DEF Read
<1>2. /\ Enabled = req[u].lanes /\ window = req[u].page
      /\ req[u] \in Requests /\ req[u] # None /\ ans[u] = None
  BY <1>1, DataFacts
<1>3. ans' = [ans EXCEPT ![u] = value]
  <2>1. PICK junk \in [Lanes -> Bytes] :
          ans' = [ans EXCEPT ![u] =
                   [l \in req[u].lanes |-> IF l \in Enabled THEN regs[window][req[u].word][l]
                                           ELSE junk[l]]]
    BY DEF Read
  <2>2. [l \in req[u].lanes |-> IF l \in Enabled THEN regs[window][req[u].word][l]
                                ELSE junk[l]] = value
    BY <1>2
  <2>3. QED
    BY <2>1, <2>2
<1>4. value \in Registers!Answers
  <2>1. req[u].lanes \in {{"low"}, {"high"}, Lanes} /\ req[u].page \in Pages
        /\ req[u].word \in Words
    BY <1>2, RequestType
  <2>2. req[u].lanes \subseteq Lanes
    BY <2>1 DEF Lanes, Registers!Lanes
  <2>3. regs[req[u].page][req[u].word] \in [Lanes -> Bytes]
    BY <2>1 DEF Inv, TypeOK
  <2>4. value \in [req[u].lanes -> Bytes]
    BY <2>2, <2>3
  <2>5. QED
    BY <2>2, <2>4, SameLanes DEF Registers!Answers
<1> HIDE DEF value
<1>5. value # None
  BY <1>4, AccessAssumption
<1>6. ans \in [Users -> Registers!Answers \cup {None, Done}]
  BY DEF Inv, TypeOK
<1>7. ans'[u] = value /\ \A v \in Users : v # u => ans'[v] = ans[v]
  BY <1>3, <1>6
<1>8. ans' \in [Users -> Registers!Answers \cup {None, Done}]
  BY <1>3, <1>4, <1>6
<1>9. TypeOK'
  <2>1. regs' \in [Pages -> [Words -> [Lanes -> Bytes]]] /\ window' \in Pages
    BY <1>1 DEF Inv, TypeOK
  <2>2. QED
    BY <1>1, <1>8, <2>1, ActTypes
<1>10. AccessInv'
  BY <1>1, <1>5, <1>7, ActInv
<1>11. Registers!Read(u)
  BY <1>1, <1>2, <1>3 DEF Registers!Read, value
<1>12. QED
  BY <1>9, <1>10, <1>11 DEF Inv

LEMMA WriteInv ==
  ASSUME Inv, NEW u \in Users, Write(u)
  PROVE  Inv' /\ Registers!Write(u)
<1> DEFINE p == req[u].page
           w == req[u].word
           new == [l \in Lanes |-> IF l \in req[u].lanes THEN req[u].val[l]
                                   ELSE regs[p][w][l]]
<1>1. /\ At(u, "act") /\ Now(u).act = "data" /\ req[u].kind = "write"
      /\ Advance(u) /\ tries' = 0 /\ ans' = [ans EXCEPT ![u] = Done]
      /\ UNCHANGED <<req, out, pins, window, panicked>>
  BY DEF Write
<1>2. /\ Enabled = req[u].lanes /\ window = p
      /\ req[u] \in Requests /\ req[u] # None /\ ans[u] = None
  BY <1>1, DataFacts
<1>3. /\ p \in Pages /\ w \in Words /\ req[u].val \in [Lanes -> Bytes]
      /\ regs \in [Pages -> [Words -> [Lanes -> Bytes]]]
  BY <1>2, RequestType DEF Inv, TypeOK
<1>4. regs' = [regs EXCEPT ![p] = [regs[p] EXCEPT ![w] = new]]
  <2>1. PICK junk \in [Lanes -> Bytes] :
          regs' = [regs EXCEPT ![window][w] =
                     [l \in Lanes |-> IF l \notin Enabled THEN @[l]
                                      ELSE IF l \in req[u].lanes THEN req[u].val[l]
                                      ELSE junk[l]]]
    BY DEF Write
  <2>2. [l \in Lanes |-> IF l \notin Enabled THEN regs[p][w][l]
                         ELSE IF l \in req[u].lanes THEN req[u].val[l]
                         ELSE junk[l]] = new
    BY <1>2
  <2>3. QED
    BY <1>2, <1>3, <2>1, <2>2
<1>5. new \in [Lanes -> Bytes]
  BY <1>3
<1>6. regs' \in [Pages -> [Words -> [Lanes -> Bytes]]]
  BY <1>3, <1>4, <1>5
<1>7. ans \in [Users -> Registers!Answers \cup {None, Done}] /\ Done # None
  BY AccessAssumption DEF Inv, TypeOK
<1>8. /\ ans'[u] # None /\ ans' \in [Users -> Registers!Answers \cup {None, Done}]
      /\ \A v \in Users : v # u => ans'[v] = ans[v]
  BY <1>1, <1>7
<1>9. TypeOK'
  <2>1. window' \in Pages
    BY <1>1 DEF Inv, TypeOK
  <2>2. QED
    BY <1>1, <1>6, <1>8, <2>1, ActTypes
<1>10. AccessInv'
  BY <1>1, <1>8, ActInv
<1>11. Registers!Write(u)
  BY <1>1, <1>2, <1>3, <1>4, SameLanes DEF Registers!Write
<1>12. QED
  BY <1>9, <1>10, <1>11 DEF Inv

LEMMA SelectInv ==
  ASSUME Inv, NEW u \in Users, Select(u)
  PROVE  Inv'
<1>1. /\ At(u, "act") /\ Now(u).act \in {"open", "close"}
      /\ Advance(u) /\ tries' = 0
      /\ window' = IF Now(u).act = "open" THEN req[u].page ELSE Common
      /\ UNCHANGED <<regs, req, ans, out, pins, panicked>>
  BY DEF Select
<1>2. req[u] \in Requests
  BY <1>1, InsideFacts DEF At, Inside
<1>3. window' \in Pages
  BY <1>1, <1>2, RequestType, AccessAssumption
<1>4. /\ regs' \in [Pages -> [Words -> [Lanes -> Bytes]]]
      /\ ans' \in [Users -> Registers!Answers \cup {None, Done}]
  BY <1>1 DEF Inv, TypeOK
<1>5. TypeOK'
  BY <1>1, <1>3, <1>4, ActTypes
<1>6. AccessInv'
  BY <1>1, ActInv
<1>7. QED
  BY <1>5, <1>6 DEF Inv

LEMMA RestoredInv ==
  ASSUME Inv, NEW u \in Users, Restored(u)
  PROVE  Inv'
<1>1. /\ At(u, "act") /\ Now(u).act = "none" /\ Advance(u) /\ tries' = 0
      /\ UNCHANGED <<regs, req, ans, out, pins, window, panicked>>
  BY DEF Restored
<1>2. /\ regs' \in [Pages -> [Words -> [Lanes -> Bytes]]] /\ window' \in Pages
      /\ ans' \in [Users -> Registers!Answers \cup {None, Done}]
  BY <1>1 DEF Inv, TypeOK
<1>3. TypeOK'
  BY <1>1, <1>2, ActTypes
<1>4. AccessInv'
  BY <1>1, ActInv
<1>5. QED
  BY <1>3, <1>4 DEF Inv

LEMMA ReturnInv ==
  ASSUME Inv, NEW u \in Users, Return(u)
  PROVE  Inv' /\ Registers!Return(u)
<1> USE DEF Return, At, Goto
<1>1. TypeOK'
  BY DEF Inv, TypeOK, PCs
<1>2. /\ pc \in [Users -> PCs] /\ req \in [Users -> Requests \cup {None}]
      /\ ans \in [Users -> Registers!Answers \cup {None, Done}]
  BY DEF Inv, TypeOK
<1>3. UserInv(u) /\ lock # u
  <2>1. UserInv(u)
    BY DEF Inv, AccessInv
  <2>2. QED
    BY <2>1 DEF UserInv, Inside
<1>4. pc'[u] = "idle" /\ req'[u] = None /\ ans'[u] = None
  BY <1>2
<1>5. UserInv(u)'
  BY <1>3, <1>4 DEF UserInv, Inside
<1>6. ASSUME NEW v \in Users, v # u PROVE UserInv(v)'
  BY <1>2, <1>6, Others
<1>7. AccessInv'
  BY <1>5, <1>6 DEF Inv, AccessInv
<1>8. Registers!Return(u)
  BY <1>3 DEF Registers!Return, UserInv
<1>9. QED
  BY <1>1, <1>7, <1>8 DEF Inv

\* A pin that settles cannot be one that a user at "act" relies on.
LEMMA SettleInv == Inv /\ Settle => Inv'
<1> SUFFICES ASSUME Inv, Settle PROVE Inv'
  OBVIOUS
<1>1. TypeOK'
  BY DEF Settle, Inv, TypeOK
<1>2. pins # out
  BY DEF Settle
<1>3. ASSUME NEW v \in Users PROVE UserInv(v)'
  <2>1. UserInv(v) /\ pc[v] # "act"
    BY <1>2 DEF Inv, AccessInv, UserInv
  <2>2. /\ UNCHANGED <<pc, req, ans, step, lock, out, window>>
        /\ Now(v)' = Now(v) /\ (Answered(v)' <=> Answered(v))
        /\ Opened(v)' = Opened(v) /\ Program(req[v])' = Program(req[v])
    BY DEF Settle, Now, Answered, Opened, Program, Mode
  <2>3. QED
    BY <2>1, <2>2 DEF UserInv, Inside
<1>4. lock' = None => window' = Common
  BY DEF Settle, Inv, AccessInv
<1>5. QED
  BY <1>1, <1>3, <1>4 DEF Inv, AccessInv

LEMMA NextInv == Inv /\ [Next]_vars => Inv'
<1> SUFFICES ASSUME Inv, [Next]_vars PROVE Inv'
  OBVIOUS
<1>1. CASE UNCHANGED vars
  <2>1. UNCHANGED <<regs, req, ans, pc, step, lock, out, pins, tries, window, panicked>>
    BY <1>1 DEF vars
  <2>2. TypeOK'
    BY <2>1 DEF Inv, TypeOK
  <2>3. \A v \in Users : UserInv(v) => UserInv(v)'
    BY <2>1 DEF UserInv, Now, Answered, Opened, Program, Mode, Inside
  <2>4. QED
    BY <2>1, <2>2, <2>3 DEF Inv, AccessInv
<1>2. CASE Settle
  BY <1>2, SettleInv
<1>3. CASE \E u \in Users : Call(u) \/ Access(u)
  BY <1>3, CallInv, LockInv, SetLowInv, SetHighInv, CheckInv, PanicInv,
     ReadInv, WriteInv, SelectInv, RestoredInv, ReturnInv DEF Access
<1>4. QED
  BY <1>1, <1>2, <1>3 DEF Next

\* Every variable keeps its type: in particular the read-backs of the pins
\* never pass the limit (panic_count), and no answer is ever anything else
\* than bytes of the lanes that were asked for.
THEOREM TypeCorrect == Spec => []TypeOK
<1>1. Inv => TypeOK
  BY DEF Inv
<1>2. QED
  BY InitInv, NextInv, <1>1, PTL DEF Spec

\* Only the holder of mcs341_access_lock is inside an access, with its own
\* mode on the pins when it acts and its own page selected; when nobody is,
\* every device shows its common page.
THEOREM AccessInvariant == Spec => []AccessInv
<1>1. Inv => AccessInv
  BY DEF Inv
<1>2. QED
  BY InitInv, NextInv, <1>1, PTL DEF Spec

\* contec_mcs341_inpb, outb, inpw, outw and the accesses of extension pages
\* are atomic register accesses, whatever the number of callers.
THEOREM AccessIsAtomic == Spec => ImplementsRegisters
<1>1. Init => Registers!Init
  BY SameLanes DEF Init, Registers!Init
<1>2. ASSUME Inv, [Next]_vars
      PROVE  [Registers!Next]_<<regs, req, ans>>
  <2>1. CASE UNCHANGED vars
    BY <2>1 DEF vars
  <2>2. CASE Settle
    BY <2>2 DEF Settle
  <2>3. ASSUME NEW u \in Users, Call(u)
        PROVE  Registers!Call(u)
    <3>1. UserInv(u)
      BY <1>2 DEF Inv, AccessInv
    <3>2. req[u] = None
      BY <2>3, <3>1 DEF UserInv, Call, At
    <3>3. QED
      BY <2>3, <3>2 DEF Call, Registers!Call
  <2>4. ASSUME NEW u \in Users, Access(u)
        PROVE  \/ Registers!Read(u) \/ Registers!Write(u) \/ Registers!Return(u)
               \/ UNCHANGED <<regs, req, ans>>
    <3>1. CASE Lock(u) \/ SetLow(u) \/ SetHigh(u) \/ Check(u) \/ Panic(u)
      BY <3>1 DEF Lock, SetLow, SetHigh, SetOutput, Check, Panic
    <3>2. CASE Select(u) \/ Restored(u)
      BY <3>2 DEF Select, Restored
    <3>3. CASE Read(u) \/ Write(u) \/ Return(u)
      BY <1>2, <3>3, ReadInv, WriteInv, ReturnInv
    <3>4. QED
      BY <2>4, <3>1, <3>2, <3>3 DEF Access
  <2>5. QED
    BY <1>2, <2>1, <2>2, <2>3, <2>4 DEF Next, Registers!Next
<1>3. QED
  BY InitInv, NextInv, <1>1, <1>2, PTL DEF Spec, ImplementsRegisters, Registers!Spec

(***************************************************************************)
(* How long an access may hold the lock: the safety half of Returns.       *)
(***************************************************************************)
\* Steps left of the loop that sets the mode and reads the pins back.
Loop(u) == CASE pc[u] = "set_low" -> 3 * (PanicLimit - tries) + 3
             [] pc[u] = "set_high" -> 3 * (PanicLimit - tries) + 2
             [] pc[u] = "check" -> 3 * (PanicLimit - tries) + 1
             [] OTHER -> 0
\* Steps of a whole loop and its act, and the steps of the program after it.
Whole == 3 * PanicLimit + 4
After(u) == Len(Program(req[u])) - step[u]
\* Steps left of the access until the lock is released.
Left(u) == IF pc[u] \in Inside THEN Whole * After(u) + Loop(u) + 1 ELSE 0

\* An access takes at most three loops with their acts, and something is left
\* of it exactly while its user holds the lock.
AccessIsShort ==
  \A u \in Users : Left(u) \in 0..(3 * Whole) /\ (Left(u) = 0 <=> lock # u)

\* The holder of the lock comes nearer to the release with each of its steps
\* or panics, and no other user and no pin takes it further away.
AccessAdvances ==
  \A u \in Users : lock = u =>
    \/ Left(u)' < Left(u)
    \/ panicked'
    \/ Left(u)' = Left(u) /\ ~Access(u)

LEMMA LoopBounds ==
  ASSUME TypeOK, NEW u \in Users
  PROVE  /\ Loop(u) \in 0..(Whole - 1)
         /\ PanicLimit \in Nat /\ tries \in 0..PanicLimit
<1>1. PanicLimit \in Nat /\ tries \in 0..PanicLimit
  BY AccessAssumption DEF TypeOK
<1>2. QED
  BY <1>1 DEF Loop, Whole

LEMMA AfterCases ==
  ASSUME Inv, NEW u \in Users, pc[u] \in Inside
  PROVE  /\ After(u) \in {0, 1, 2}
         /\ Whole \in Nat /\ Whole * 0 = 0 /\ Whole * 1 = Whole
         /\ Whole * 2 = Whole + Whole
<1>1. /\ req[u] \in Requests /\ step[u] \in 1..3
      /\ step[u] <= Len(Program(req[u]))
  BY InsideFacts
<1>2. Len(Program(req[u])) \in 1..3
  BY <1>1, ProgramSteps
<1>3. After(u) \in {0, 1, 2}
  <2>1. \A m, n \in 1..3 : n <= m => m - n \in {0, 1, 2}
    OBVIOUS
  <2>2. QED
    BY <1>1, <1>2, <2>1 DEF After
<1>4. Whole \in Nat
  BY AccessAssumption DEF Whole
<1>5. Whole * 0 = 0
  BY <1>4
<1>6. Whole * 1 = Whole
  BY <1>4
<1>7. Whole * 2 = Whole + Whole
  BY <1>4
<1>8. QED
  BY <1>3, <1>4, <1>5, <1>6, <1>7

LEMMA LeftBounds ==
  ASSUME Inv, NEW u \in Users
  PROVE  Left(u) \in 0..(3 * Whole) /\ (Left(u) = 0 <=> lock # u)
<1>1. pc[u] \in Inside <=> lock = u
  BY DEF Inv, AccessInv, UserInv
<1>2. Whole \in Nat
  BY AccessAssumption DEF Whole
<1>3. CASE pc[u] \in Inside
  <2>1. Loop(u) \in 0..(Whole - 1)
    BY LoopBounds DEF Inv
  <2>2. /\ After(u) = 0 \/ After(u) = 1 \/ After(u) = 2
        /\ Whole * 0 = 0 /\ Whole * 1 = Whole /\ Whole * 2 = Whole + Whole
    BY <1>3, AfterCases
  <2>3. Whole * After(u) \in 0..(Whole + Whole)
    BY <1>2, <2>2
  <2>4. QED
    BY <1>1, <1>2, <1>3, <2>1, <2>3 DEF Left
<1>4. CASE pc[u] \notin Inside
  BY <1>1, <1>2, <1>4 DEF Left
<1>5. QED
  BY <1>3, <1>4

\* The steps of the loop.
LEMMA LoopSteps ==
  ASSUME Inv, NEW u \in Users, SetLow(u) \/ SetHigh(u) \/ Check(u)
  PROVE  Left(u)' < Left(u)
<1>1. pc \in [Users -> PCs] /\ TypeOK
  BY DEF Inv, TypeOK
<1>2. pc[u] \in Inside /\ pc'[u] \in Inside /\ req' = req /\ step' = step
  BY <1>1 DEF SetLow, SetHigh, SetOutput, Check, At, Goto, Inside
<1>3. After(u)' = After(u)
  BY <1>2 DEF After, Program, Mode
<1>4. Loop(u) \in Nat /\ PanicLimit \in Nat /\ tries \in 0..PanicLimit
  BY <1>1, LoopBounds
<1>5. Loop(u)' \in Int /\ Loop(u)' < Loop(u)
  <2>1. CASE SetLow(u)
    <3>1. pc[u] = "set_low" /\ pc'[u] = "set_high" /\ tries' = tries
      BY <1>1, <2>1 DEF SetLow, SetOutput, At, Goto
    <3>2. QED
      BY <1>4, <3>1 DEF Loop
  <2>2. CASE SetHigh(u)
    <3>1. pc[u] = "set_high" /\ pc'[u] = "check" /\ tries' = tries
      BY <1>1, <2>2 DEF SetHigh, SetOutput, At, Goto
    <3>2. QED
      BY <1>4, <3>1 DEF Loop
  <2>3. CASE Check(u)
    <3>1. /\ pc[u] = "check" /\ pc'[u] \in {"act", "set_low"}
          /\ tries < PanicLimit /\ tries' = tries + 1
      BY <1>1, <2>3 DEF Check, At, Goto
    <3>2. QED
      BY <1>4, <3>1 DEF Loop
  <2>4. QED
    BY <2>1, <2>2, <2>3
<1>6. Whole * After(u) \in Nat
  <2>1. /\ After(u) = 0 \/ After(u) = 1 \/ After(u) = 2
        /\ Whole \in Nat
        /\ Whole * 0 = 0 /\ Whole * 1 = Whole /\ Whole * 2 = Whole + Whole
    BY <1>2, AfterCases
  <2>2. QED
    BY <2>1
<1>7. Left(u) = Whole * After(u) + Loop(u) + 1
  BY <1>2 DEF Left
<1>8. Left(u)' = Whole * After(u) + Loop(u)' + 1
  BY <1>2, <1>3 DEF Left, Whole
<1>9. QED
  BY <1>4, <1>5, <1>6, <1>7, <1>8

\* An act ends a step of the program or the access.
LEMMA ActSteps ==
  ASSUME Inv, NEW u \in Users, Read(u) \/ Write(u) \/ Select(u) \/ Restored(u)
  PROVE  Left(u)' < Left(u)
<1>1. /\ pc[u] = "act" /\ At(u, "act") /\ Advance(u)
      /\ tries' = 0 /\ req' = req /\ pc[u] \in Inside
  BY DEF Read, Write, Select, Restored, At, Inside
<1>2. PanicLimit \in Nat /\ Whole \in Nat /\ Whole = 3 * PanicLimit + 4
  BY AccessAssumption DEF Whole
<1>3. /\ After(u) = 0 \/ After(u) = 1 \/ After(u) = 2
      /\ Whole * 0 = 0 /\ Whole * 1 = Whole /\ Whole * 2 = Whole + Whole
  BY <1>1, AfterCases
<1>4. /\ step[u] \in 1..3 /\ Len(Program(req[u])) \in 1..3
      /\ step[u] <= Len(Program(req[u]))
  BY <1>1, InsideFacts, ProgramSteps
<1>5. IF step[u] < Len(Program(req[u]))
      THEN pc'[u] = "set_low" /\ step'[u] = step[u] + 1
      ELSE pc'[u] = "return"
  BY <1>1, AdvanceFacts
<1>6. Left(u) = Whole * After(u) + 1
  BY <1>1, <1>2, <1>3 DEF Left, Loop
<1>7. CASE step[u] < Len(Program(req[u]))
  <2>1. pc'[u] = "set_low" /\ step'[u] = step[u] + 1
    BY <1>5, <1>7
  <2>2. After(u)' = After(u) - 1
    BY <1>1, <1>4, <2>1 DEF After, Program, Mode
  <2>3. Loop(u)' = Whole - 1
    BY <1>1, <1>2, <2>1 DEF Loop
  <2>4. Left(u)' = Whole * (After(u) - 1) + Loop(u)' + 1
    BY <2>1, <2>2 DEF Left, Whole, Inside
  <2>5. CASE After(u) = 1
    <3>1. Whole * (After(u) - 1) = 0 /\ Whole * After(u) = Whole
      BY <1>2, <1>3, <2>5
    <3>2. QED
      BY <1>2, <1>6, <2>3, <2>4, <3>1
  <2>6. CASE After(u) = 2
    <3>1. Whole * (After(u) - 1) = Whole /\ Whole * After(u) = Whole + Whole
      BY <1>2, <1>3, <2>6
    <3>2. QED
      BY <1>2, <1>6, <2>3, <2>4, <3>1
  <2>7. After(u) # 0
    BY <1>4, <1>7 DEF After
  <2>8. QED
    BY <1>3, <2>5, <2>6, <2>7
<1>8. CASE ~(step[u] < Len(Program(req[u])))
  <2>1. Left(u)' = 0
    BY <1>5, <1>8 DEF Left, Inside
  <2>2. Whole * After(u) \in Nat
    BY <1>2, <1>3
  <2>3. QED
    BY <1>6, <2>1, <2>2
<1>9. QED
  BY <1>7, <1>8

\* What is left of an access depends on its own place only.
LEMMA LeftKept ==
  ASSUME NEW u \in Users, pc'[u] = pc[u], req'[u] = req[u],
         step'[u] = step[u], tries' = tries
  PROVE  Left(u)' = Left(u)
BY DEF Left, Loop, After, Whole, Program, Mode

LEMMA HolderAdvances ==
  ASSUME Inv, [Next]_vars, NEW u \in Users, lock = u
  PROVE  \/ Left(u)' < Left(u)
         \/ panicked'
         \/ Left(u)' = Left(u) /\ ~Access(u)
<1>1. pc[u] \in Inside /\ lock # None
  BY AccessAssumption DEF Inv, AccessInv, UserInv
<1>2. CASE Access(u)
  <2>1. ~Lock(u)
    BY <1>1 DEF Lock
  <2>2. ~Return(u)
    BY <1>1 DEF Return, At, Inside
  <2>3. CASE Panic(u)
    BY <2>3 DEF Panic
  <2>4. QED
    BY <1>2, <2>1, <2>2, <2>3, LoopSteps, ActSteps DEF Access
<1>3. CASE ~Access(u)
  <2>1. CASE UNCHANGED vars \/ Settle
    <3>1. UNCHANGED <<pc, req, step, tries>>
      BY <2>1 DEF vars, Settle
    <3>2. QED
      BY <1>3, <3>1, LeftKept
  <2>2. ASSUME Call(u)
        PROVE  FALSE
    BY <1>1, <2>2 DEF Call, At, Inside
  <2>3. ASSUME NEW v \in Users, v # u, Call(v) \/ Access(v)
        PROVE  Left(u)' = Left(u)
    <3>1. pc[v] \notin Inside /\ TypeOK /\ UserInv(v)
      BY <2>3 DEF Inv, AccessInv, UserInv
    <3>2. Call(v) \/ Return(v) \/ Panic(v)
      <4>1. ~Lock(v)
        BY <1>1 DEF Lock
      <4>2. ~SetLow(v) /\ ~SetHigh(v) /\ ~Check(v)
        BY <3>1 DEF SetLow, SetHigh, SetOutput, Check, At, Inside
      <4>3. ~Read(v) /\ ~Write(v) /\ ~Select(v) /\ ~Restored(v)
        BY <3>1 DEF Read, Write, Select, Restored, At, Inside
      <4>4. QED
        BY <2>3, <4>1, <4>2, <4>3 DEF Access
    <3>3. pc'[u] = pc[u] /\ req'[u] = req[u] /\ step'[u] = step[u] /\ tries' = tries
      BY <2>3, <3>1, <3>2 DEF Call, Return, Panic, Goto, TypeOK
    <3>4. QED
      BY <3>3, LeftKept
  <2>4. QED
    BY <1>3, <2>1, <2>2, <2>3 DEF Next
<1>4. QED
  BY <1>2, <1>3

\* cps_fpga_access never holds mcs341_access_lock for longer than three
\* loops of PanicLimit read-backs: the holder of the lock counts down to
\* the release with every step it takes, or panics.
THEOREM AccessBounded == Spec => []AccessIsShort /\ [][AccessAdvances]_vars
<1>1. Inv => AccessIsShort
  BY LeftBounds DEF AccessIsShort
<1>2. Inv /\ [Next]_vars => AccessAdvances
  BY HolderAdvances DEF AccessAdvances
<1>3. QED
  BY InitInv, NextInv, <1>1, <1>2, PTL DEF Spec
=============================================================================
