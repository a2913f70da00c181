--------------------------- MODULE SerialProofs -----------------------------
(***************************************************************************)
(* Proofs about the serial ports (8250_cpscom.c).  Of SerialLines, for     *)
(* every set of lines: through the load, every detection, registration and *)
(* removal a line holds its window exactly while its chip is known.  Of    *)
(* SerialPort, for every size of FIFO, buffer and limit: whoever writes    *)
(* the interrupt register, a port that runs keeps what it counts on, and a *)
(* line error is counted once, and no wake-up of the transmitter is lost.  *)
(* Of SerialChain, for every set of ports: an open port is heard, and the  *)
(* handler leaves an idle line.  Of SubunitPower: the module is as asked.  *)
(***************************************************************************)
EXTENDS SerialLines, SerialPort, SerialChain, SubunitPower, TLAPS, SequenceTheorems,
        FiniteSetTheorems, FunctionTheorems

-----------------------------------------------------------------------------
\* SerialLines.  WindowOfKnown is not inductive: that nothing is held once the
\* module is gone needs what a stage of the load has done already, and that an
\* open line has a known chip.

\* What holds of the lines at each stage.
StageInv ==
  /\ comStage \in {"none", "driver"} => comAdded = {} /\ comType = {} /\ comHeld = {}
  /\ comStage = "loaded" => comAdded = comBoards
  /\ comStage = "removing" => comOpen = {} /\ comType \subseteq comAdded

\* What holds of the windows until a load fails half way.
WindowsHeld ==
  comStage # "gone" => comHeld = comType \ comStale /\ comOpen \subseteq comType

ComInv == ComTypeOK /\ StageInv /\ WindowsHeld

-----------------------------------------------------------------------------
\* A detection of lines that exist keeps the windows with the known chips,
\* and finds nothing out about the other lines.
LEMMA DetectionKeepsWindows ==
  ASSUME ComTypeOK, comHeld = comType \ comStale,
         NEW asked \in SUBSET comBoards, NEW before,
         ConfigPorts(asked, before)
  PROVE  /\ comHeld' = comType' \ comStale'
         /\ comType' \subseteq comBoards /\ comStale' \subseteq comType'
         /\ comHeld' \subseteq comBoards
         /\ comType \ asked \subseteq comType'
<1>1. PICK failed \in SUBSET asked : \E found \in Detected(asked, failed, before) :
        /\ comType' = (comType \ asked) \cup found
        /\ comHeld' = (comHeld \ asked) \cup (found \ failed)
        /\ comStale' = (comStale \ asked) \cup (found \cap failed)
  BY DEF ConfigPorts
<1>2. PICK found \in Detected(asked, failed, before) :
        /\ comType' = (comType \ asked) \cup found
        /\ comHeld' = (comHeld \ asked) \cup (found \ failed)
        /\ comStale' = (comStale \ asked) \cup (found \cap failed)
  BY <1>1
<1>3. found \subseteq asked /\ asked \subseteq comBoards
  BY <1>2 DEF Detected
<1>4. comType \subseteq comBoards /\ comStale \subseteq comType
  BY DEF ComTypeOK
<1> QED BY <1>2, <1>3, <1>4

LEMMA LinesInit == ComInit => ComInv
BY DEF ComInit, ComInv, ComTypeOK, StageInv, WindowsHeld

LEMMA LinesStep == ComInv /\ [ComNext]_comVars => ComInv'
<1> SUFFICES ASSUME ComInv, [ComNext]_comVars PROVE ComInv'
  OBVIOUS
<1> USE DEF ComInv
<1>1. CASE RegisterDriver
  BY <1>1 DEF RegisterDriver, ComTypeOK, StageInv, WindowsHeld, comWindow
<1>2. CASE InitPorts
  <2>1. /\ comHeld = comType \ comStale /\ comOpen = {}
        /\ comStage' = "ports" /\ comAdded' = comAdded /\ comOpen' = comOpen
        /\ comBoards' = comBoards /\ ConfigPorts(comBoards, {})
    BY <1>2 DEF InitPorts, ComTypeOK, StageInv, WindowsHeld
  <2>2. /\ comHeld' = comType' \ comStale'
        /\ comType' \subseteq comBoards /\ comStale' \subseteq comType'
        /\ comHeld' \subseteq comBoards
    BY <2>1, DetectionKeepsWindows
  <2> QED BY <2>1, <2>2 DEF ComTypeOK, StageInv, WindowsHeld
<1>3. CASE RegisterPlatform
  BY <1>3 DEF RegisterPlatform, ComTypeOK, StageInv, WindowsHeld, comWindow
<1>4. CASE ComUnload
  BY <1>4 DEF ComUnload, ComTypeOK, StageInv, WindowsHeld, comWindow
<1>5. CASE ComRemoved
  BY <1>5 DEF ComRemoved, ComTypeOK, StageInv, WindowsHeld, comWindow
<1>6. ASSUME NEW i \in ComLines, AddPort(i) PROVE ComInv'
  BY <1>6 DEF AddPort, ComTypeOK, StageInv, WindowsHeld, comWindow
<1>7. ASSUME NEW i \in ComLines, RemovePort(i) PROVE ComInv'
  BY <1>7 DEF RemovePort, Unregister, ComTypeOK, StageInv, WindowsHeld
<1>8. ASSUME NEW i \in ComLines, OpenLine(i) PROVE ComInv'
  BY <1>8 DEF OpenLine, Usable, ComTypeOK, StageInv, WindowsHeld, comWindow
<1>9. ASSUME NEW i \in ComLines, CloseLine(i) PROVE ComInv'
  BY <1>9 DEF CloseLine, ComTypeOK, StageInv, WindowsHeld, comWindow
<1>10. ASSUME NEW i \in ComLines, Autoconfigure(i) PROVE ComInv'
  <2>1. /\ comStage \in {"ports", "loaded"} /\ comStage' = comStage
        /\ comHeld = comType \ comStale /\ i \in comBoards /\ i \notin comOpen
        /\ comAdded' = comAdded /\ comOpen' = comOpen /\ comBoards' = comBoards
        /\ ConfigPorts({i}, comType) /\ comOpen \subseteq comType
    BY <1>10 DEF Autoconfigure, Usable, ComTypeOK, WindowsHeld
  <2>2. /\ comHeld' = comType' \ comStale'
        /\ comType' \subseteq comBoards /\ comStale' \subseteq comType'
        /\ comHeld' \subseteq comBoards /\ comType \ {i} \subseteq comType'
    BY <2>1, DetectionKeepsWindows
  <2> QED BY <2>1, <2>2 DEF ComTypeOK, StageInv, WindowsHeld
<1>11. ASSUME NEW i \in ComLines, RegisterPort(i) PROVE ComInv'
  <2>1. /\ comStage = "loaded" /\ comStage' = comStage
        /\ comHeld = comType \ comStale /\ i \in comBoards
        /\ comAdded' = comAdded /\ comOpen' = comOpen \ {i} /\ comBoards' = comBoards
        /\ ConfigPorts({i}, {}) /\ comOpen \subseteq comType
    BY <1>11 DEF RegisterPort, ComTypeOK, WindowsHeld
  <2>2. /\ comHeld' = comType' \ comStale'
        /\ comType' \subseteq comBoards /\ comStale' \subseteq comType'
        /\ comHeld' \subseteq comBoards /\ comType \ {i} \subseteq comType'
    BY <2>1, DetectionKeepsWindows
  <2> QED BY <2>1, <2>2 DEF ComTypeOK, StageInv, WindowsHeld
<1>12. CASE UNCHANGED comVars
  BY <1>12 DEF comVars, comWindow, ComTypeOK, StageInv, WindowsHeld
<1> QED
  BY <1>1, <1>2, <1>3, <1>4, <1>5, <1>6, <1>7, <1>8, <1>9, <1>10, <1>11, <1>12
  DEF ComNext

LEMMA LinesWindow == ComInv => WindowOfKnown
BY DEF ComInv, ComTypeOK, StageInv, WindowsHeld, WindowOfKnown

-----------------------------------------------------------------------------
\* Nothing is held of a line whose chip is unknown or that is gone, and a
\* known line holds its window (8250_cpscom.c:2963, 3753, 3574).
THEOREM WindowFollowsChip == ComSpec => []WindowOfKnown
<1>1. ComSpec => []ComInv
  BY LinesInit, LinesStep, PTL DEF ComSpec
<1> QED BY <1>1, LinesWindow, PTL

\* The lines that are open, added, known and held are lines of the boards.
THEOREM LinesTyped == ComSpec => []ComTypeOK
<1>1. ComSpec => []ComInv
  BY LinesInit, LinesStep, PTL DEF ComSpec
<1>2. ComInv => ComTypeOK
  BY DEF ComInv
<1> QED BY <1>1, <1>2, PTL

-----------------------------------------------------------------------------
\* SerialPort.  UartArmed says of the UART's register what the driver's copy of
\* it asks for; that receiving is always asked for is what makes it inductive.

IerInv == Running => "RDI" \in uartIer /\ uartIer \subseteq chipIer

\* Sending takes no interrupt away but the transmitter's, and adds none.
LEMMA SentInterrupts ==
  ASSUME NEW ier, NEW stopped, NEW x, NEW room
  PROVE  /\ Sent(ier, stopped, x, room).ier \subseteq ier
         /\ ier \ {"THRI"} \subseteq Sent(ier, stopped, x, room).ier
BY DEF Sent

\* The modem lines and the transmitter: IER is written where up->ier changes.
LEMMA TransmitKeepsInterrupts ==
  ASSUME uartIer \subseteq chipIer, "RDI" \in uartIer, NEW thre, NEW empty,
         ModemAndTransmit(thre, empty)
  PROVE  uartIer' \subseteq chipIer' /\ "RDI" \in uartIer'
<1>1. PICK stopped \in IF chipDelta /\ "MSI" \in uartIer THEN BOOLEAN ELSE {xmitStopped} :
        LET restarts == xmitStopped /\ ~stopped
            starts == restarts /\ "THRI" \notin uartIer
            ier == IF restarts THEN uartIer \cup {"THRI"}
                   ELSE IF stopped /\ ~xmitStopped THEN uartIer \ {"THRI"} ELSE uartIer
            room == (IF starts /\ "TXEN" \in uartBugs /\ chipThr = "idle" THEN TxLoad ELSE 0)
                    + (IF empty /\ chipThr # "loaded" THEN TxLoad ELSE 0)
            s == IF room = 0 THEN [left |-> xmit, out |-> FALSE, ier |-> ier]
                             ELSE Sent(ier, stopped, xmit, room) IN
        Effect(s, thre \/ Raises(chipIer, ier), starts \/ s.ier # uartIer)
  BY DEF ModemAndTransmit
<1> DEFINE
  restarts == xmitStopped /\ ~stopped
  starts == restarts /\ "THRI" \notin uartIer
  ier == IF restarts THEN uartIer \cup {"THRI"}
         ELSE IF stopped /\ ~xmitStopped THEN uartIer \ {"THRI"} ELSE uartIer
  room == (IF starts /\ "TXEN" \in uartBugs /\ chipThr = "idle" THEN TxLoad ELSE 0)
          + (IF empty /\ chipThr # "loaded" THEN TxLoad ELSE 0)
  s == IF room = 0 THEN [left |-> xmit, out |-> FALSE, ier |-> ier]
                   ELSE Sent(ier, stopped, xmit, room)
<1>2. Effect(s, thre \/ Raises(chipIer, ier), starts \/ s.ier # uartIer)
  BY <1>1
<1>3. uartIer' = s.ier /\ chipIer' = IF starts \/ s.ier # uartIer THEN s.ier ELSE chipIer
  BY <1>2 DEF Effect
<1>4. "RDI" \in ier
  OBVIOUS
<1>5. "RDI" \in s.ier
  <2> HIDE DEF ier, room
  <2>1. CASE room = 0
    BY <1>4, <2>1
  <2>2. CASE room # 0
    BY <1>4, <2>2, SentInterrupts
  <2> QED BY <2>1, <2>2
<1> HIDE DEF s, starts
<1> QED BY <1>3, <1>5

LEMMA StartTxKeepsInterrupts ==
  ASSUME uartIer \subseteq chipIer, "RDI" \in uartIer, NEW x, StartTx(x)
  PROVE  uartIer' \subseteq chipIer' /\ "RDI" \in uartIer'
<1> DEFINE
  ier == uartIer \cup {"THRI"}
  check == "TXEN" \in uartBugs /\ "THRI" \notin uartIer
  s == IF check /\ chipThr = "idle" THEN Sent(ier, FALSE, x, TxLoad)
                                    ELSE [left |-> x, out |-> FALSE, ier |-> ier]
<1>1. uartIer' = s.ier /\ chipIer' = IF "THRI" \notin uartIer THEN s.ier ELSE chipIer
  BY DEF StartTx, Effect
<1>2. CASE check /\ chipThr = "idle"
  <2>1. s.ier = Sent(ier, FALSE, x, TxLoad).ier /\ "THRI" \notin uartIer
    BY <1>2
  <2> QED BY <1>1, <2>1, SentInterrupts
<1>3. CASE ~(check /\ chipThr = "idle")
  <2>1. s.ier = ier
    BY <1>3
  <2> QED BY <1>1, <2>1
<1> QED BY <1>2, <1>3

LEMMA PortInit == SerialInit => IerInv
BY DEF SerialInit, IerInv, Running

LEMMA PortStep == IerInv /\ [SerialNext]_serialVars => IerInv'
<1> SUFFICES ASSUME IerInv, [SerialNext]_serialVars PROVE IerInv'
  OBVIOUS
<1>1. CASE uartIer' = uartIer /\ chipIer' = chipIer /\ (Running' => Running)
  BY <1>1 DEF IerInv
<1>2. CASE ChipShifts \/ ChipIdles \/ ChipReceives \/ ModemChanges \/ TxEmpty
  BY <1>1, <1>2 DEF ChipShifts, ChipIdles, ChipReceives, ModemChanges, TxEmpty, Running
<1>3. CASE StartupTest \/ StartupLink \/ StartupInit \/ ShutdownQuiet \/ ShutdownUnlink
  BY <1>3 DEF StartupTest, StartupLink, StartupInit, ShutdownQuiet, ShutdownUnlink,
              IerInv, Running
<1>4. CASE StopRx \/ SetModemInterrupt \/ Rs485
  BY <1>4 DEF StopRx, SetModemInterrupt, Rs485, IerInv, Running
<1>5. CASE UartWrite \/ TtyStart
  <2>1. Running /\ ((uartIer' = uartIer /\ chipIer' = chipIer) \/ \E x : StartTx(x))
    BY <1>5 DEF UartWrite, TtyStart, Running
  <2> QED BY <2>1, StartTxKeepsInterrupts DEF IerInv
<1>6. CASE TtyStop
  BY <1>6 DEF TtyStop, Effect, IerInv, Running
<1>7. CASE HandleStart
  <2>1. uartAt' = uartAt
    BY <1>7 DEF HandleStart
  <2>2. \/ uartIer' = uartIer /\ chipIer' = chipIer
        \/ \E thre, empty : ModemAndTransmit(thre, empty)
    BY <1>7 DEF HandleStart
  <2> QED BY <2>1, <2>2, TransmitKeepsInterrupts DEF IerInv, Running
<1>8. CASE ReceiveNext
  <2>1. uartAt' = uartAt
    BY <1>8 DEF ReceiveNext
  <2>2. \/ uartIer' = uartIer /\ chipIer' = chipIer
        \/ \E thre, empty : ModemAndTransmit(thre, empty)
    BY <1>8 DEF ReceiveNext
  <2> QED BY <2>1, <2>2, TransmitKeepsInterrupts DEF IerInv, Running
<1>9. CASE BackupTimeout
  <2>1. uartAt' = uartAt /\ chipIer' = chipIer
    BY <1>9 DEF BackupTimeout, Effect
  <2>2. uartIer' = uartIer \/ uartIer' = Sent(uartIer, xmitStopped, xmit, TxLoad).ier
    BY <1>9 DEF BackupTimeout, Effect
  <2> QED BY <2>1, <2>2, SentInterrupts DEF IerInv, Running
<1>10. CASE GetMctrl
  BY <1>10, TransmitKeepsInterrupts DEF GetMctrl, IerInv, Running
<1>11. CASE UNCHANGED serialVars
  BY <1>11 DEF serialVars, IerInv, Running
<1> QED
  BY <1>2, <1>3, <1>4, <1>5, <1>6, <1>7, <1>8, <1>9, <1>10, <1>11 DEF SerialNext

-----------------------------------------------------------------------------
\* A port that runs has its receive interrupt and every other one it counts on
\* enabled in the UART (8250_cpscom.c:1519, 1548, 1999, 2624, 3040).
THEOREM UartArmedAlways == SerialSpec => []UartArmed
<1>1. SerialSpec => []IerInv
  BY PortInit, PortStep, PTL DEF SerialSpec
<1>2. IerInv => UartArmed
  BY DEF IerInv, UartArmed
<1> QED BY <1>1, <1>2, PTL

-----------------------------------------------------------------------------
(***************************************************************************)
(* SerialPort, the receiver.  What was raised is what was counted and what *)
(* is still held: by the characters in the FIFO, by the driver as a saved  *)
(* status and by the pass of the handler (RxInv).                          *)
(***************************************************************************)

\* The characters of a FIFO that have a line error.
BadAt(fifo) == {i \in DOMAIN fifo : fifo[i] = "bad"}
Characters == {"good", "bad"}

\* The errors of a FIFO are finitely many.
LEMMA BadFinite ==
  ASSUME NEW s \in Seq(Characters)
  PROVE  IsFiniteSet(BadAt(s)) /\ Cardinality(BadAt(s)) \in Nat
<1>1. Len(s) \in Nat /\ DOMAIN s = 1..Len(s)
  OBVIOUS
<1>2. IsFiniteSet(1..Len(s))
  BY <1>1, FS_Interval
<1>3. BadAt(s) \in SUBSET (1..Len(s))
  BY <1>1 DEF BadAt
<1>4. IsFiniteSet(BadAt(s))
  BY <1>2, <1>3, FS_Subset
<1> QED BY <1>4, FS_CardinalityType

\* A character arrives.
LEMMA BadArrives ==
  ASSUME NEW s \in Seq(Characters), NEW c \in Characters
  PROVE  /\ Append(s, c) \in Seq(Characters)
         /\ Cardinality(BadAt(Append(s, c))) = Cardinality(BadAt(s)) + (IF c = "bad" THEN 1 ELSE 0)
         /\ s # <<>> => Append(s, c) # <<>> /\ Head(Append(s, c)) = Head(s)
<1> DEFINE n == Len(s)
           t == Append(s, c)
<1>1. /\ n \in Nat /\ DOMAIN s = 1..n /\ t \in Seq(Characters) /\ Len(t) = n + 1 /\ DOMAIN t = 1..(n + 1)
      /\ t[n + 1] = c /\ \A i \in 1..n : t[i] = s[i]
  OBVIOUS
<1> HIDE DEF n, t
<1>2. CASE c = "bad"
  <2>1. BadAt(t) = BadAt(s) \cup {n + 1} /\ n + 1 \notin BadAt(s)
    <3>1. ASSUME NEW i PROVE i \in BadAt(t) <=> i \in BadAt(s) \cup {n + 1}
      BY <1>1, <1>2 DEF BadAt
    <3> QED BY <1>1, <3>1 DEF BadAt
  <2>2. Cardinality(BadAt(t)) = Cardinality(BadAt(s)) + 1
    BY <2>1, BadFinite, FS_AddElement
  <2> QED BY <1>2, <2>2 DEF t
<1>3. CASE c # "bad"
  <2>1. BadAt(t) = BadAt(s)
    <3>1. ASSUME NEW i PROVE i \in BadAt(t) <=> i \in BadAt(s)
      BY <1>1, <1>3 DEF BadAt
    <3> QED BY <3>1
  <2> QED BY <1>3, <2>1, BadFinite DEF t
<1>4. s # <<>> => t # <<>> /\ Head(t) = Head(s)
  BY <1>1 DEF n, t
<1>5. t \in Seq(Characters)
  BY <1>1
<1> QED BY <1>2, <1>3, <1>4, <1>5 DEF t

\* Two sequences, one after the other.
LEMMA Chained ==
  ASSUME NEW s \in Seq(Characters), NEW t \in Seq(Characters)
  PROVE  /\ s \o t \in Seq(Characters) /\ Len(s \o t) = Len(s) + Len(t)
         /\ \A i \in 1..Len(s) : (s \o t)[i] = s[i]
         /\ \A i \in (Len(s) + 1)..(Len(s) + Len(t)) : (s \o t)[i] = t[i - Len(s)]
OBVIOUS

\* The line status is read.
LEMMA BadRead ==
  ASSUME NEW s \in Seq(Characters)
  PROVE  /\ Reread(s) \in Seq(Characters) /\ (Reread(s) = <<>> <=> s = <<>>)
         /\ s # <<>> => Head(Reread(s)) = "good"
         /\ Cardinality(BadAt(Reread(s))) =
              Cardinality(BadAt(s)) - (IF s # <<>> /\ Head(s) = "bad" THEN 1 ELSE 0)
<1>1. CASE s = <<>>
  <2>1. Reread(s) = s /\ Cardinality(BadAt(s)) \in Nat
    BY <1>1, BadFinite DEF Reread
  <2>2. Cardinality(BadAt(s)) = Cardinality(BadAt(s)) - 0
    BY <2>1
  <2>3. Reread(s) \in Seq(Characters) /\ (Reread(s) = <<>> <=> s = <<>>)
    BY <2>1
  <2>4. Cardinality(BadAt(Reread(s))) = Cardinality(BadAt(s)) - 0
    BY <2>1, <2>2
  <2> QED BY <1>1, <2>3, <2>4
<1>2. CASE s # <<>>
  <2> DEFINE n == Len(s)
             t == Reread(s)
             g == <<"good">>
             r == Tail(s)
  <2>1. n \in Nat \ {0} /\ DOMAIN s = 1..n /\ s[1] = Head(s)
    BY <1>2
  <2>2. g \in Seq(Characters) /\ Len(g) = 1 /\ g[1] = "good"
    BY DEF Characters
  <2>3. r \in Seq(Characters) /\ Len(r) = n - 1 /\ \A k \in 1..(n - 1) : r[k] = s[k + 1]
    BY <1>2, <2>1
  <2>4. t = g \o r
    BY <1>2 DEF Reread
  <2> HIDE DEF n, t, g, r
  <2>4a. /\ g \o r \in Seq(Characters) /\ Len(g \o r) = Len(g) + Len(r)
         /\ \A i \in 1..Len(g) : (g \o r)[i] = g[i]
         /\ \A i \in (Len(g) + 1)..(Len(g) + Len(r)) : (g \o r)[i] = r[i - Len(g)]
    BY <2>2, <2>3, Chained
  <2>5. t \in Seq(Characters) /\ Len(t) = n /\ DOMAIN t = 1..n /\ t[1] = "good"
    <3>1. t \in Seq(Characters) /\ Len(t) = Len(g) + Len(r)
      BY <2>4, <2>4a
    <3>2. 1 \in 1..Len(g) /\ Len(g) + Len(r) = n
      BY <2>1, <2>2, <2>3
    <3>3. t[1] = g[1]
      BY <2>4, <2>4a, <3>2
    <3> QED BY <2>1, <2>2, <3>1, <3>2, <3>3
  <2>6. \A k \in 2..n : t[k] = s[k]
    <3> TAKE k \in 2..n
    <3>1. k - 1 \in 1..(n - 1) /\ k - 1 + 1 = k
      BY <2>1
    <3>2. k \in (Len(g) + 1)..(Len(g) + Len(r)) /\ k - Len(g) = k - 1
      BY <2>1, <2>2, <2>3
    <3>3. t[k] = r[k - Len(g)]
      BY <2>4, <2>4a, <3>2
    <3>4. t[k] = r[k - 1]
      BY <3>2, <3>3
    <3> QED BY <2>3, <3>1, <3>4
  <2>7. BadAt(t) = BadAt(s) \ {1}
    <3>1. ASSUME NEW i PROVE i \in BadAt(t) <=> i \in BadAt(s) \ {1}
      BY <2>1, <2>5, <2>6 DEF BadAt
    <3> QED BY <3>1
  <2>8. 1 \in BadAt(s) <=> Head(s) = "bad"
    BY <2>1 DEF BadAt
  <2>9. Cardinality(BadAt(t)) = IF 1 \in BadAt(s) THEN Cardinality(BadAt(s)) - 1 ELSE Cardinality(BadAt(s))
    BY <2>7, BadFinite, FS_RemoveElement
  <2>10. t # <<>> /\ Head(t) = "good"
    BY <2>1, <2>5
  <2>11. Cardinality(BadAt(s)) \in Nat
    BY BadFinite
  <2> QED BY <1>2, <2>5, <2>8, <2>9, <2>10, <2>11 DEF t
<1> QED BY <1>1, <1>2

\* The first character, which has no error, is taken.
LEMMA BadTaken ==
  ASSUME NEW s \in Seq(Characters), s # <<>>, Head(s) = "good"
  PROVE  /\ Tail(s) \in Seq(Characters)
         /\ Cardinality(BadAt(Tail(s))) = Cardinality(BadAt(s))
<1> DEFINE n == Len(s)
           r == Tail(s)
<1>1. n \in Nat \ {0} /\ DOMAIN s = 1..n /\ s[1] = "good"
  OBVIOUS
<1>2. /\ r \in Seq(Characters) /\ Len(r) = n - 1 /\ DOMAIN r = 1..(n - 1)
      /\ \A k \in 1..(n - 1) : r[k] = s[k + 1]
  BY <1>1
<1> HIDE DEF n, r
<1> DEFINE f == [i \in BadAt(r) |-> i + 1]
<1>3. \A i \in BadAt(r) : i \in 1..(n - 1) /\ i + 1 \in BadAt(s)
  BY <1>1, <1>2 DEF BadAt
<1>4. \A j \in BadAt(s) : j - 1 \in BadAt(r) /\ j - 1 + 1 = j
  <2> TAKE j \in BadAt(s)
  <2>1. j \in 1..n /\ s[j] = "bad" /\ j # 1
    BY <1>1 DEF BadAt
  <2>2. j - 1 \in 1..(n - 1) /\ j - 1 + 1 = j
    BY <1>1, <2>1
  <2>3. r[j - 1] = s[j]
    BY <1>2, <2>2
  <2> QED BY <1>2, <2>1, <2>2, <2>3 DEF BadAt
<1>5. f \in Bijection(BadAt(r), BadAt(s))
  <2>1. f \in [BadAt(r) -> BadAt(s)]
    BY <1>3
  <2>2. \A i, j \in BadAt(r) : f[i] = f[j] => i = j
    BY <1>3
  <2>3. \A j \in BadAt(s) : \E i \in BadAt(r) : f[i] = j
    BY <1>4
  <2> QED BY <2>1, <2>2, <2>3, Fun_IsBij
<1>6. ExistsBijection(BadAt(r), BadAt(s))
  BY <1>5 DEF ExistsBijection
<1>7. Cardinality(BadAt(s)) = Cardinality(BadAt(r))
  BY <1>2, <1>6, BadFinite, FS_Bijection
<1> QED BY <1>2, <1>7 DEF r

-----------------------------------------------------------------------------
\* Never more errors are counted or held than were raised, and none is lost but by a pass
\* that ends at its limit.
Balance(raised, counted, bad, saved, err, cut) ==
  LET seen == counted + bad + (IF saved THEN 1 ELSE 0) + (IF err THEN 1 ELSE 0) IN
  seen <= raised /\ (~cut => raised = seen)

\* The port has been opened and its FIFO is not yet cleared.
Receiving == uartAt \in {"open", "closing", "quiet"}

\* Where an error is, and who has seen it.
RxInv ==
  /\ chipRx \in Seq(Characters) /\ rxRaised \in Nat /\ rxCounted \in Nat
  /\ uartSaved \in BOOLEAN /\ rxPass.on \in BOOLEAN /\ rxPass.err \in BOOLEAN /\ rxCut \in BOOLEAN
  /\ uartAt \in {"closed", "tested", "linked", "open", "closing", "quiet"}
  /\ uartAt \in {"closed", "tested", "linked"} => chipRx = <<>> /\ ~rxPass.on
  /\ rxPass.on => chipRx # <<>> /\ Head(chipRx) = "good"
  /\ rxPass.err => rxPass.on /\ ~uartSaved
  /\ Receiving /\ uartSaved => chipRx # <<>> /\ Head(chipRx) = "good"
  /\ Receiving =>
       Balance(rxRaised, rxCounted, Cardinality(BadAt(chipRx)), uartSaved, rxPass.err, rxCut)
  /\ ~Receiving => rxCounted <= rxRaised

\* At the start there are no characters.
LEMMA RxStart == SerialInit => RxInv
<1> SUFFICES ASSUME SerialInit PROVE RxInv
  OBVIOUS
<1>1. chipRx = <<>> /\ rxPass = NoPass /\ ~NoPass.on /\ ~NoPass.err /\ NoPass.on \in BOOLEAN /\ NoPass.err \in BOOLEAN
  BY DEF SerialInit, NoPass
<1>2. uartAt = "closed" /\ ~Receiving /\ <<>> \in Seq(Characters)
  BY DEF SerialInit, Receiving
<1>3. rxCounted = 0 /\ rxRaised = 0 /\ uartSaved = FALSE /\ rxCut = FALSE
  BY DEF SerialInit
<1>4. rxPass.on = FALSE /\ rxPass.err = FALSE
  BY <1>1, Zenon
<1>5. chipRx \in Seq(Characters) /\ rxRaised \in Nat /\ rxCounted \in Nat /\ rxCounted <= rxRaised
  BY <1>1, <1>2, <1>3
<1>6. /\ uartSaved \in BOOLEAN /\ rxPass.on \in BOOLEAN /\ rxPass.err \in BOOLEAN /\ rxCut \in BOOLEAN
      /\ ~rxPass.on /\ ~rxPass.err /\ chipRx = <<>>
  BY <1>1, <1>3, <1>4
<1> QED BY <1>2, <1>5, <1>6, Zenon DEF RxInv

\* Somebody who is not in the loop reads the line status and keeps its error.
LEMMA RxRead ==
  ASSUME RxInv, Free, UNCHANGED <<uartAt, rxPass, rxRaised, rxCounted, rxCut>>,
         \/ UNCHANGED <<chipRx, uartSaved>>
         \/ chipRx' = Reread(chipRx) /\ uartSaved' = (uartSaved \/ HeadBad)
  PROVE  RxInv'
<1>1. CASE UNCHANGED <<chipRx, uartSaved>>
  BY <1>1 DEF RxInv, Receiving, BadAt
<1>2. CASE chipRx' = Reread(chipRx) /\ uartSaved' = (uartSaved \/ HeadBad)
  <2>1. /\ chipRx' \in Seq(Characters) /\ (chipRx' = <<>> <=> chipRx = <<>>)
        /\ chipRx # <<>> => Head(chipRx') = "good"
        /\ Cardinality(BadAt(Reread(chipRx))) = Cardinality(BadAt(chipRx)) - (IF HeadBad THEN 1 ELSE 0)
    BY <1>2, BadRead DEF RxInv, HeadBad
  <2>2. Cardinality(BadAt(chipRx)) \in Nat
    BY BadFinite DEF RxInv
  <2>3. Cardinality(BadAt(chipRx))' = Cardinality(BadAt(Reread(chipRx)))
    BY <1>2 DEF BadAt
  <2>4. ~rxPass.on /\ ~rxPass.err /\ uartSaved \in BOOLEAN /\ uartSaved' \in BOOLEAN
    BY <1>2 DEF RxInv, Free, HeadBad
  <2>5. Receiving => ~(HeadBad /\ uartSaved)
    BY DEF RxInv, HeadBad
  <2>6. uartSaved' => uartSaved \/ HeadBad
    BY <1>2, <2>4
  <2>7. Receiving' =>
          Balance(rxRaised', rxCounted', Cardinality(BadAt(chipRx))', uartSaved', rxPass'.err, rxCut')
    <3> SUFFICES ASSUME Receiving
                 PROVE  Balance(rxRaised, rxCounted, Cardinality(BadAt(Reread(chipRx))), uartSaved',
                                rxPass.err, rxCut)
      BY <2>3 DEF Receiving
    <3>1. Balance(rxRaised, rxCounted, Cardinality(BadAt(chipRx)), uartSaved, rxPass.err, rxCut)
      BY DEF RxInv
    <3>2. rxRaised \in Nat /\ rxCounted \in Nat /\ HeadBad \in BOOLEAN
      BY DEF RxInv, HeadBad
    <3> QED BY <1>2, <2>1, <2>2, <2>4, <2>5, <3>1, <3>2 DEF Balance
  <2>8. uartAt' \in {"closed", "tested", "linked"} => chipRx' = <<>>
    BY <2>1 DEF RxInv
  <2>9. Receiving' /\ uartSaved' => chipRx' # <<>> /\ Head(chipRx') = "good"
    BY <2>1, <2>6 DEF RxInv, HeadBad, Receiving
  <2> QED BY <2>1, <2>4, <2>7, <2>8, <2>9 DEF RxInv, Receiving
<1> QED BY <1>1, <1>2

\* A character comes from the line, or is lost to a full FIFO.
LEMMA RxArrives ==
  ASSUME RxInv, ChipReceives
  PROVE  RxInv'
<1>1. PICK c \in Characters :
        /\ chipRx' = Append(chipRx, c) /\ rxRaised' = rxRaised + (IF c = "bad" THEN 1 ELSE 0)
  BY DEF ChipReceives, Characters, RxInv
<1>2. Receiving /\ UNCHANGED <<uartAt, uartSaved, rxPass, rxCounted, rxCut>>
  BY DEF ChipReceives, Running, Receiving
<1>3. /\ chipRx' \in Seq(Characters) /\ (chipRx # <<>> => chipRx' # <<>> /\ Head(chipRx') = Head(chipRx))
      /\ Cardinality(BadAt(Append(chipRx, c))) = Cardinality(BadAt(chipRx)) + (IF c = "bad" THEN 1 ELSE 0)
  BY <1>1, BadArrives DEF RxInv
<1>4. Cardinality(BadAt(chipRx))' = Cardinality(BadAt(Append(chipRx, c)))
  BY <1>1 DEF BadAt
<1>5. Cardinality(BadAt(chipRx)) \in Nat /\ rxRaised \in Nat /\ rxRaised' \in Nat /\ rxCounted \in Nat
  <2>1. Cardinality(BadAt(chipRx)) \in Nat
    BY BadFinite DEF RxInv
  <2>2. rxRaised \in Nat /\ rxCounted \in Nat
    BY DEF RxInv
  <2> QED BY <1>1, <2>1, <2>2
<1>6. Balance(rxRaised', rxCounted, Cardinality(BadAt(chipRx))', uartSaved, rxPass.err, rxCut)
  <2>1. Balance(rxRaised, rxCounted, Cardinality(BadAt(chipRx)), uartSaved, rxPass.err, rxCut)
    BY <1>2 DEF RxInv
  <2> QED BY <1>1, <1>3, <1>4, <1>5, <2>1 DEF Balance
<1> QED BY <1>2, <1>3, <1>5, <1>6 DEF RxInv, Receiving

\* The handler reads the status, and the loop begins.
LEMMA RxHandles ==
  ASSUME RxInv, HandleStart
  PROVE  RxInv'
<1>1. /\ Free /\ UNCHANGED <<uartAt, uartSaved, rxRaised, rxCounted, rxCut>>
      /\ uartAt \in {"linked", "open", "closing", "quiet"}
  BY DEF HandleStart
<1>2. CASE chipRx = <<>>
  <2>1. UNCHANGED <<chipRx, rxPass>>
    BY <1>2 DEF HandleStart
  <2> QED BY <1>1, <2>1, RxRead
<1>3. CASE chipRx # <<>>
  <2>1. chipRx' = Reread(chipRx) /\ rxPass' = [on |-> TRUE, left |-> RxLimit, err |-> HeadBad]
    BY <1>3 DEF HandleStart
  <2>2. rxPass'.on = TRUE /\ rxPass'.err = HeadBad /\ HeadBad \in BOOLEAN
    BY <2>1 DEF HeadBad
  <2>3. /\ chipRx' \in Seq(Characters) /\ chipRx' # <<>> /\ Head(chipRx') = "good"
        /\ Cardinality(BadAt(Reread(chipRx))) = Cardinality(BadAt(chipRx)) - (IF HeadBad THEN 1 ELSE 0)
    BY <1>3, <2>1, BadRead DEF RxInv, HeadBad
  <2>4. Cardinality(BadAt(chipRx))' = Cardinality(BadAt(Reread(chipRx)))
    BY <2>1 DEF BadAt
  <2>5. ~rxPass.on /\ ~rxPass.err /\ Receiving /\ ~(HeadBad /\ uartSaved)
    BY <1>1, <1>3 DEF RxInv, Free, HeadBad, Receiving
  <2>6. /\ Cardinality(BadAt(chipRx)) \in Nat /\ rxRaised \in Nat /\ rxCounted \in Nat
    <3>1. Cardinality(BadAt(chipRx)) \in Nat
      BY BadFinite DEF RxInv
    <3> QED BY <3>1 DEF RxInv
  <2>7. Balance(rxRaised, rxCounted, Cardinality(BadAt(chipRx))', uartSaved, HeadBad, rxCut)
    <3>1. Balance(rxRaised, rxCounted, Cardinality(BadAt(chipRx)), uartSaved, rxPass.err, rxCut)
      BY <2>5 DEF RxInv
    <3> QED BY <2>3, <2>4, <2>5, <2>6, <3>1 DEF Balance
  <2> QED BY <1>1, <2>2, <2>3, <2>5, <2>6, <2>7 DEF RxInv, Receiving
<1> QED BY <1>2, <1>3

\* The loop takes a character.
LEMMA RxTakes ==
  ASSUME RxInv, ReceiveNext
  PROVE  RxInv'
<1> DEFINE rest == Tail(chipRx)
           err == rest # <<>> /\ Head(rest) = "bad"
           goOn == rest # <<>> /\ rxPass.left > 0
<1>1. /\ rxPass.on /\ chipRx' = Reread(rest) /\ uartSaved' = FALSE
      /\ rxCounted' = IF rxPass.err \/ uartSaved THEN rxCounted + 1 ELSE rxCounted
      /\ UNCHANGED <<uartAt, rxRaised>>
      /\ \/ goOn /\ rxPass' = [on |-> TRUE, left |-> rxPass.left - 1, err |-> err] /\ rxCut' = rxCut
         \/ ~goOn /\ rxPass' = NoPass /\ rxCut' = (rxCut \/ err)
  BY DEF ReceiveNext
<1>2. /\ chipRx \in Seq(Characters) /\ chipRx # <<>> /\ Head(chipRx) = "good"
      /\ Receiving /\ ~(rxPass.err /\ uartSaved)
      /\ rxRaised \in Nat /\ rxCounted \in Nat /\ rxCounted' \in Nat /\ rxCut \in BOOLEAN /\ err \in BOOLEAN
  BY <1>1 DEF RxInv, NoPass, Receiving
<1>3. rest \in Seq(Characters) /\ Cardinality(BadAt(rest)) = Cardinality(BadAt(chipRx))
  BY <1>2, BadTaken
<1>4. /\ chipRx' \in Seq(Characters) /\ (rest # <<>> => chipRx' # <<>> /\ Head(chipRx') = "good")
      /\ Cardinality(BadAt(Reread(rest))) = Cardinality(BadAt(rest)) - (IF err THEN 1 ELSE 0)
  BY <1>1, <1>3, BadRead
<1>5. Cardinality(BadAt(chipRx))' = Cardinality(BadAt(Reread(rest)))
  BY <1>1 DEF BadAt
<1>6. Cardinality(BadAt(chipRx)) \in Nat /\ Cardinality(BadAt(rest)) \in Nat
  BY <1>2, <1>3, BadFinite
<1>6a. goOn => rest # <<>>
  OBVIOUS
<1> HIDE DEF rest, err, goOn
<1>7. \/ rxPass'.on = TRUE /\ rest # <<>> /\ rxPass'.err = err /\ rxCut' = rxCut
      \/ rxPass'.on = FALSE /\ rxPass'.err = FALSE /\ rxCut' = (rxCut \/ err)
  BY <1>1, <1>6a DEF NoPass
<1>8. Balance(rxRaised', rxCounted', Cardinality(BadAt(chipRx))', uartSaved', rxPass'.err, rxCut')
  <2>1. Balance(rxRaised, rxCounted, Cardinality(BadAt(chipRx)), uartSaved, rxPass.err, rxCut)
    BY <1>2 DEF RxInv
  <2>2. rxCounted' = rxCounted + (IF uartSaved THEN 1 ELSE 0) + (IF rxPass.err THEN 1 ELSE 0)
    BY <1>1, <1>2
  <2>3. /\ rxPass'.err => err
        /\ ~rxCut' => ~rxCut /\ (rxPass'.err <=> err)
    BY <1>2, <1>7
  <2> DEFINE held == Cardinality(BadAt(chipRx))
             left == Cardinality(BadAt(chipRx))'
  <2>4. left = held - (IF err THEN 1 ELSE 0) /\ held \in Nat
    BY <1>3, <1>4, <1>5, <1>6
  <2>5. Balance(rxRaised, rxCounted, held, uartSaved, rxPass.err, rxCut)
    BY <2>1
  <2> HIDE DEF held, left
  <2>6. Balance(rxRaised', rxCounted', left, FALSE, rxPass'.err, rxCut')
    BY <1>1, <1>2, <2>2, <2>3, <2>4, <2>5 DEF Balance
  <2> QED BY <1>1, <2>6 DEF left
<1>11. /\ chipRx' \in Seq(Characters) /\ rxRaised' \in Nat /\ rxCounted' \in Nat /\ uartSaved' \in BOOLEAN
       /\ rxPass'.on \in BOOLEAN /\ rxPass'.err \in BOOLEAN /\ rxCut' \in BOOLEAN
       /\ Receiving' /\ ~uartSaved'
       /\ rxPass'.on => chipRx' # <<>> /\ Head(chipRx') = "good"
       /\ rxPass'.err => rxPass'.on
  BY <1>1, <1>2, <1>4, <1>7 DEF Receiving
<1> QED BY <1>8, <1>11 DEF RxInv, Receiving

\* A step that touches no characters.
LEMMA RxSame ==
  ASSUME RxInv, UNCHANGED <<uartAt, uartSaved, chipRx, rxPass, rxRaised, rxCounted, rxCut>>
  PROVE  RxInv'
BY DEF RxInv, Receiving, BadAt

\* Every step of the port.
LEMMA RxStep ==
  ASSUME RxInv, [SerialNext]_serialVars
  PROVE  RxInv'
<1>1. CASE \/ ChipShifts \/ ChipIdles \/ ModemChanges \/ TtyStop \/ GetMctrl \/ SetModemInterrupt \/ Rs485
           \/ UNCHANGED serialVars
  <2>1. UNCHANGED <<uartAt, uartSaved, chipRx, rxPass, rxRaised, rxCounted, rxCut>>
    BY <1>1 DEF ChipShifts, ChipIdles, ModemChanges, TtyStop, GetMctrl, SetModemInterrupt, Rs485,
                serialVars, rxVars, sendVars, lineVars
  <2> QED BY <2>1, RxSame
<1>2. CASE UartWrite \/ TtyStart \/ BackupTimeout \/ TxEmpty
  <2>1. Free /\ UNCHANGED <<uartAt, rxPass, rxRaised, rxCounted, rxCut>>
    BY <1>2 DEF UartWrite, TtyStart, BackupTimeout, TxEmpty, rxVars
  <2>2. \/ UNCHANGED <<chipRx, uartSaved>>
        \/ chipRx' = Reread(chipRx) /\ uartSaved' = (uartSaved \/ HeadBad)
    <3>1. \A x : StartTx(x) => \/ chipRx' = chipRx /\ uartSaved' = (uartSaved \/ FALSE)
                               \/ chipRx' = Reread(chipRx) /\ uartSaved' = (uartSaved \/ HeadBad)
      BY DEF StartTx
    <3>2. uartSaved \in BOOLEAN
      BY DEF RxInv
    <3> QED BY <1>2, <3>1, <3>2 DEF UartWrite, TtyStart, BackupTimeout, TxEmpty
  <2> QED BY <2>1, <2>2, RxRead
<1>3. CASE StartupTest
  <2>1. /\ uartAt = "closed" /\ uartAt' = "tested" /\ chipRx' = <<>> /\ <<>> \in Seq(Characters)
        /\ UNCHANGED <<uartSaved, rxPass, rxRaised, rxCounted, rxCut>>
    BY <1>3 DEF StartupTest, rxVars
  <2>2. ~Receiving /\ ~Receiving' /\ ~rxPass.on /\ ~rxPass.err
    BY <2>1 DEF Receiving, RxInv
  <2> QED BY <2>1, <2>2 DEF RxInv
<1>4. CASE StartupLink
  BY <1>4 DEF StartupLink, RxInv, rxVars, Receiving
<1>5. CASE StartupInit
  <2>1. /\ uartAt = "linked" /\ uartAt' = "open" /\ uartSaved' = FALSE
        /\ rxRaised' = 0 /\ rxCounted' = 0 /\ rxCut' = FALSE /\ UNCHANGED <<chipRx, rxPass>>
    BY <1>5 DEF StartupInit
  <2>2. chipRx = <<>> /\ ~rxPass.on /\ ~rxPass.err
    BY <2>1 DEF RxInv
  <2>3. BadAt(chipRx)' = {}
    BY <2>1, <2>2 DEF BadAt
  <2>4. Cardinality(BadAt(chipRx))' = 0
    BY <2>3, FS_EmptySet
  <2>5. Balance(rxRaised', rxCounted', Cardinality(BadAt(chipRx))', uartSaved', rxPass'.err, rxCut')
    BY <2>1, <2>2, <2>4 DEF Balance
  <2> QED BY <2>1, <2>2, <2>5 DEF RxInv, Receiving
<1>6. CASE StopRx \/ ShutdownQuiet
  <2>1. /\ Receiving /\ uartAt' \in {"closing", "quiet"} /\ Free
        /\ UNCHANGED <<uartSaved, chipRx, rxPass, rxRaised, rxCounted, rxCut>>
    BY <1>6 DEF StopRx, ShutdownQuiet, rxVars, Running, Receiving
  <2> QED BY <2>1 DEF RxInv, Receiving, Free, BadAt
<1>7. CASE ShutdownUnlink
  <2>1. /\ uartAt = "quiet" /\ Free /\ uartAt' = "closed" /\ chipRx' = <<>> /\ <<>> \in Seq(Characters)
        /\ rxRaised' = 0 /\ rxCounted' = 0 /\ UNCHANGED <<uartSaved, rxPass, rxCut>>
    BY <1>7 DEF ShutdownUnlink
  <2>2. ~Receiving' /\ ~rxPass.on /\ ~rxPass.err
    BY <2>1 DEF Receiving, RxInv, Free
  <2> QED BY <2>1, <2>2 DEF RxInv
<1> QED BY <1>1, <1>2, <1>3, <1>4, <1>5, <1>6, <1>7, RxArrives, RxHandles, RxTakes DEF SerialNext

\* A line error is counted once, or is still held by one of those that see it, whichever
\* of the readers of the line status meet, for every size of FIFO and every limit of a pass.
THEOREM ErrorsCountedAlways == SerialSpec => []ErrorsCounted
<1>1. RxInv => ErrorsCounted
  BY DEF RxInv, Running, Receiving, Balance, ErrorsCounted, BadAt
<1> QED BY RxStart, RxStep, <1>1, PTL DEF SerialSpec


\* The sender, the registers and the lines.
SendInv ==
  /\ xmit \in 0..XmitMax /\ xmitStopped \in BOOLEAN
  /\ uartIer \subseteq Interrupts /\ chipIer \subseteq Interrupts
  /\ chipThr \in {"idle", "shifting", "loaded"} /\ chipThre \in BOOLEAN
  /\ chipReasserts \in BOOLEAN /\ chipDelta \in BOOLEAN
  /\ uartBugs \subseteq {"THRE", "TXEN"} /\ uartTimer \in BOOLEAN

\* The receiver: neither the FIFO nor the errors nor a pass is past its limit.
FifoInv ==
  /\ Len(chipRx) \in 0..RxFifo /\ rxRaised <= RxErrors
  /\ rxPass \in [on : BOOLEAN, left : 0..RxLimit, err : BOOLEAN]

\* No more is sent than there is.
LEMMA SentBounds ==
  ASSUME NEW ier \in SUBSET Interrupts, NEW stopped \in BOOLEAN, NEW x \in Nat, NEW room \in Nat
  PROVE  /\ Sent(ier, stopped, x, room).left \in 0..x
         /\ Sent(ier, stopped, x, room).out \in BOOLEAN
         /\ Sent(ier, stopped, x, room).ier \in SUBSET Interrupts
<1> DEFINE out == IF stopped THEN 0 ELSE IF x < room THEN x ELSE room
<1>1. out \in 0..x
  OBVIOUS
<1>2. Sent(ier, stopped, x, room) = [left |-> x - out, out |-> out > 0,
        ier |-> IF stopped \/ x = out THEN ier \ {"THRI"} ELSE ier]
  BY DEF Sent
<1> HIDE DEF out
<1>3. x - out \in 0..x /\ (out > 0) \in BOOLEAN
  BY <1>1
<1> QED BY <1>2, <1>3

\* What a sender leaves in the registers.
LEMMA EffectTypes ==
  ASSUME SendInv, NEW s, s.left \in 0..XmitMax, s.out \in BOOLEAN, s.ier \in SUBSET Interrupts,
         NEW thre \in BOOLEAN, NEW written \in BOOLEAN, Effect(s, thre, written)
  PROVE  /\ xmit' \in 0..XmitMax /\ uartIer' \subseteq Interrupts /\ chipIer' \subseteq Interrupts
         /\ chipThr' \in {"idle", "shifting", "loaded"} /\ chipThre' \in BOOLEAN
BY DEF Effect, SendInv

\* The modem lines and the transmitter.
LEMMA TransmitTypes ==
  ASSUME SendInv, NEW thre \in BOOLEAN, NEW empty \in BOOLEAN, ModemAndTransmit(thre, empty)
  PROVE  /\ xmit' \in 0..XmitMax /\ uartIer' \subseteq Interrupts /\ chipIer' \subseteq Interrupts
         /\ chipThr' \in {"idle", "shifting", "loaded"} /\ chipThre' \in BOOLEAN
         /\ xmitStopped' \in BOOLEAN /\ chipDelta' \in BOOLEAN
<1>1. PICK stopped \in IF chipDelta /\ "MSI" \in uartIer THEN BOOLEAN ELSE {xmitStopped} :
        LET restarts == xmitStopped /\ ~stopped
            starts == restarts /\ "THRI" \notin uartIer
            ier == IF restarts THEN uartIer \cup {"THRI"}
                   ELSE IF stopped /\ ~xmitStopped THEN uartIer \ {"THRI"} ELSE uartIer
            room == (IF starts /\ "TXEN" \in uartBugs /\ chipThr = "idle" THEN TxLoad ELSE 0)
                    + (IF empty /\ chipThr # "loaded" THEN TxLoad ELSE 0)
            s == IF room = 0 THEN [left |-> xmit, out |-> FALSE, ier |-> ier]
                             ELSE Sent(ier, stopped, xmit, room) IN
        /\ xmitStopped' = stopped /\ chipDelta' = FALSE
        /\ Effect(s, thre \/ Raises(chipIer, ier), starts \/ s.ier # uartIer)
  BY DEF ModemAndTransmit
<1> DEFINE
  restarts == xmitStopped /\ ~stopped
  starts == restarts /\ "THRI" \notin uartIer
  ier == IF restarts THEN uartIer \cup {"THRI"}
         ELSE IF stopped /\ ~xmitStopped THEN uartIer \ {"THRI"} ELSE uartIer
  room == (IF starts /\ "TXEN" \in uartBugs /\ chipThr = "idle" THEN TxLoad ELSE 0)
          + (IF empty /\ chipThr # "loaded" THEN TxLoad ELSE 0)
  s == IF room = 0 THEN [left |-> xmit, out |-> FALSE, ier |-> ier]
                   ELSE Sent(ier, stopped, xmit, room)
  called == thre \/ Raises(chipIer, ier)
  written == starts \/ s.ier # uartIer
<1>2. /\ xmitStopped' = stopped /\ chipDelta' = FALSE
      /\ Effect(s, called, written)
  BY <1>1
<1>3. stopped \in BOOLEAN
  BY DEF SendInv
<1>4. ier \in SUBSET Interrupts
  BY DEF SendInv, Interrupts
<1>5. room \in Nat
  BY SerialAssumption
<1>6. called \in BOOLEAN /\ written \in BOOLEAN
  BY DEF Raises
<1> HIDE DEF ier, room
<1>7. s.left \in 0..XmitMax /\ s.out \in BOOLEAN /\ s.ier \in SUBSET Interrupts
  <2>1. CASE room = 0
    <3>1. s.left = xmit /\ s.out = FALSE /\ s.ier = ier
      BY <2>1
    <3> QED BY <1>4, <3>1 DEF SendInv
  <2>2. CASE room # 0
    <3>1. s = Sent(ier, stopped, xmit, room) /\ xmit \in 0..XmitMax /\ xmit \in Nat
      BY <2>2 DEF SendInv
    <3> HIDE DEF s
    <3>2. s.left \in 0..xmit /\ s.out \in BOOLEAN /\ s.ier \in SUBSET Interrupts
      BY <1>3, <1>4, <1>5, <3>1, SentBounds
    <3>3. XmitMax \in Nat
      BY SerialAssumption
    <3>4. s.left \in 0..XmitMax
      BY <3>1, <3>2, <3>3
    <3> QED BY <3>2, <3>4
  <2> QED BY <2>1, <2>2
<1> HIDE DEF s, called, written
<1> QED BY <1>2, <1>3, <1>6, <1>7, EffectTypes

\* A sender begins with the characters that there are.
LEMMA StartTxTypes ==
  ASSUME SendInv, NEW x \in 0..XmitMax, StartTx(x)
  PROVE  /\ xmit' \in 0..XmitMax /\ uartIer' \subseteq Interrupts /\ chipIer' \subseteq Interrupts
         /\ chipThr' \in {"idle", "shifting", "loaded"} /\ chipThre' \in BOOLEAN
<1> DEFINE
  ier == uartIer \cup {"THRI"}
  check == "TXEN" \in uartBugs /\ "THRI" \notin uartIer
  s == IF check /\ chipThr = "idle" THEN Sent(ier, FALSE, x, TxLoad)
                                    ELSE [left |-> x, out |-> FALSE, ier |-> ier]
  called == chipThre \/ Raises(chipIer, ier)
  written == "THRI" \notin uartIer
<1>1. Effect(s, called, written)
  BY DEF StartTx
<1>2. ier \in SUBSET Interrupts
  BY DEF SendInv, Interrupts
<1>3. called \in BOOLEAN /\ written \in BOOLEAN
  BY DEF Raises
<1> HIDE DEF ier, check
<1>4. s.left \in 0..XmitMax /\ s.out \in BOOLEAN /\ s.ier \in SUBSET Interrupts
  <2>1. CASE ~(check /\ chipThr = "idle")
    <3>1. s.left = x /\ s.out = FALSE /\ s.ier = ier
      BY <2>1
    <3> QED BY <1>2, <3>1
  <2>2. CASE check /\ chipThr = "idle"
    <3> DEFINE out == IF x < TxLoad THEN x ELSE TxLoad
    <3>1. x \in Nat /\ TxLoad \in Nat /\ XmitMax \in Nat
      BY SerialAssumption
    <3>2. s = [left |-> x - out, out |-> out > 0,
               ier |-> IF x = out THEN ier \ {"THRI"} ELSE ier]
      BY <2>2 DEF Sent
    <3>3. out \in 0..x /\ x - out \in 0..XmitMax /\ (out > 0) \in BOOLEAN
      BY <3>1
    <3> HIDE DEF s, out
    <3> QED BY <1>2, <3>2, <3>3
  <2> QED BY <2>1, <2>2
<1> HIDE DEF s, called, written
<1> QED BY <1>1, <1>3, <1>4, EffectTypes

\* Every step keeps the sender in its bounds.
LEMMA SendStep ==
  ASSUME SendInv, [SerialNext]_serialVars
  PROVE  SendInv'
<1>1. CASE ChipShifts \/ ChipIdles \/ ChipReceives \/ ModemChanges \/ UNCHANGED serialVars
  BY <1>1 DEF ChipShifts, ChipIdles, ChipReceives, ModemChanges, serialVars, sendVars, lineVars, SendInv
<1>2. CASE StartupTest \/ StartupLink \/ ShutdownQuiet \/ ShutdownUnlink
  <2>1. /\ xmit' = xmit \/ xmit' = 0
        /\ xmitStopped' = xmitStopped /\ chipReasserts' = chipReasserts
        /\ uartIer' = uartIer \/ uartIer' = {}
        /\ chipIer' = chipIer \/ chipIer' = {}
        /\ chipThr' = chipThr \/ chipThr' = "idle"
        /\ chipThre' = chipThre \/ chipThre' = FALSE
        /\ chipDelta' = chipDelta \/ chipDelta' = FALSE
    BY <1>2 DEF StartupTest, StartupLink, ShutdownQuiet, ShutdownUnlink, sendVars, lineVars
  <2>2. /\ uartBugs' = uartBugs \/ uartBugs' = uartBugs \cup {"THRE"}
        /\ uartTimer' \in BOOLEAN
    BY <1>2 DEF StartupTest, StartupLink, ShutdownQuiet, ShutdownUnlink, SendInv
  <2>3. 0 \in 0..XmitMax
    BY SerialAssumption
  <2> QED BY <2>1, <2>2, <2>3 DEF SendInv
<1>3. CASE StartupInit
  <2>1. 0 \in 0..XmitMax
    BY SerialAssumption
  <2>2. /\ xmit' = 0 /\ xmitStopped' = FALSE /\ uartIer' = {"RDI", "RLSI"} /\ chipIer' = uartIer'
        /\ chipThre' = FALSE /\ UNCHANGED <<uartTimer, chipThr, chipReasserts, chipDelta>>
        /\ uartBugs' = uartBugs \ {"TXEN"} \/ uartBugs' = uartBugs \cup {"TXEN"}
    BY <1>3 DEF StartupInit
  <2> QED BY <2>1, <2>2 DEF SendInv, Interrupts
<1>4. CASE StopRx \/ SetModemInterrupt \/ Rs485
  <2>1. /\ UNCHANGED <<xmit, xmitStopped, chipThr, chipReasserts, chipDelta, uartBugs, uartTimer>>
        /\ uartIer' \subseteq uartIer \cup {"MSI"}
        /\ chipIer' \subseteq uartIer \cup {"MSI"}
    BY <1>4 DEF StopRx, SetModemInterrupt, Rs485, sendVars
  <2>2. chipThre' \in BOOLEAN
    BY <1>4 DEF StopRx, SetModemInterrupt, Rs485, lineVars, Raises, SendInv
  <2> QED BY <2>1, <2>2 DEF SendInv, Interrupts
<1>5. CASE UartWrite \/ TtyStart
  <2>1. /\ UNCHANGED <<uartBugs, uartTimer, chipReasserts, chipDelta>>
        /\ xmitStopped' = xmitStopped \/ xmitStopped' = FALSE
    BY <1>5 DEF UartWrite, TtyStart
  <2>2. \/ /\ xmit' \in 0..XmitMax /\ UNCHANGED <<uartIer, chipIer, chipThr, chipThre>>
        \/ \E x \in 0..XmitMax : StartTx(x)
    BY <1>5, SerialAssumption DEF UartWrite, TtyStart, SendInv
  <2> QED BY <2>1, <2>2, StartTxTypes DEF SendInv
<1>6. CASE TtyStop
  <2> DEFINE s == [left |-> xmit, out |-> FALSE, ier |-> uartIer \ {"THRI"}]
             written == "THRI" \in uartIer
  <2>1. /\ Effect(s, chipThre, written) /\ xmitStopped' = TRUE
        /\ UNCHANGED <<uartBugs, uartTimer, chipReasserts, chipDelta>>
    BY <1>6 DEF TtyStop
  <2>2. s.left \in 0..XmitMax /\ s.out \in BOOLEAN /\ s.ier \in SUBSET Interrupts
        /\ chipThre \in BOOLEAN /\ written \in BOOLEAN
    BY DEF SendInv
  <2> HIDE DEF s, written
  <2> QED BY <2>1, <2>2, EffectTypes DEF SendInv
<1>7. CASE HandleStart \/ ReceiveNext \/ GetMctrl
  <2>1. UNCHANGED <<uartBugs, uartTimer, chipReasserts>>
    BY <1>7 DEF HandleStart, ReceiveNext, GetMctrl
  <2>2. \/ \E thre, empty \in BOOLEAN : ModemAndTransmit(thre, empty)
        \/ /\ UNCHANGED <<uartIer, xmit, xmitStopped, chipIer, chipThr, chipDelta>>
           /\ chipThre' \in BOOLEAN
    BY <1>7 DEF HandleStart, ReceiveNext, GetMctrl, ThreRead, sendVars, SendInv
  <2> QED BY <2>1, <2>2, TransmitTypes DEF SendInv
<1>8. CASE BackupTimeout
  <2> DEFINE loads == "THRI" \in uartIer /\ xmit > 0 /\ chipThr # "loaded"
             s == IF loads THEN Sent(uartIer, xmitStopped, xmit, TxLoad)
                           ELSE [left |-> xmit, out |-> FALSE, ier |-> uartIer]
             called == chipThre \/ Raises({}, chipIer)
  <2>1. /\ Effect(s, called, FALSE)
        /\ UNCHANGED <<uartBugs, uartTimer, xmitStopped, chipReasserts, chipDelta>>
    BY <1>8 DEF BackupTimeout
  <2>2. called \in BOOLEAN
    BY DEF Raises
  <2> HIDE DEF loads
  <2>3. s.left \in 0..XmitMax /\ s.out \in BOOLEAN /\ s.ier \in SUBSET Interrupts
    <3>1. CASE ~loads
      <4>1. s.left = xmit /\ s.out = FALSE /\ s.ier = uartIer
        BY <3>1
      <4> QED BY <4>1 DEF SendInv
    <3>2. CASE loads
      <4>1. s = Sent(uartIer, xmitStopped, xmit, TxLoad) /\ xmit \in Nat /\ TxLoad \in Nat
        BY <3>2, SerialAssumption DEF SendInv
      <4> HIDE DEF s
      <4>2. s.left \in 0..xmit /\ s.out \in BOOLEAN /\ s.ier \in SUBSET Interrupts
        BY <4>1, SentBounds DEF SendInv
      <4>3. xmit \in 0..XmitMax
        BY DEF SendInv
      <4> QED BY <4>1, <4>2, <4>3, SerialAssumption
    <3> QED BY <3>1, <3>2
  <2> HIDE DEF s, called
  <2> QED BY <2>1, <2>2, <2>3, EffectTypes DEF SendInv
<1>9. CASE TxEmpty
  BY <1>9 DEF TxEmpty, sendVars, lineVars, SendInv
<1> QED BY <1>1, <1>2, <1>3, <1>4, <1>5, <1>6, <1>7, <1>8, <1>9 DEF SerialNext

\* A read of the line status leaves the characters where they are.
LEMMA RereadLength ==
  ASSUME NEW s \in Seq(Characters)
  PROVE  Len(Reread(s)) = Len(s)
<1>1. CASE s = <<>>
  BY <1>1 DEF Reread
<1>2. CASE s # <<>>
  <2> DEFINE g == <<"good">>
             r == Tail(s)
  <2>1. g \in Seq(Characters) /\ Len(g) = 1
    BY DEF Characters
  <2>2. r \in Seq(Characters) /\ Len(r) = Len(s) - 1 /\ Len(s) \in Nat
    BY <1>2
  <2>3. Reread(s) = g \o r
    BY <1>2 DEF Reread
  <2> HIDE DEF g, r
  <2>4. Len(g \o r) = Len(g) + Len(r)
    BY <2>1, <2>2, Chained
  <2> QED BY <2>1, <2>2, <2>3, <2>4
<1> QED BY <1>1, <1>2

\* Every step keeps the receiver in its bounds.
LEMMA FifoStep ==
  ASSUME RxInv, FifoInv, [SerialNext]_serialVars
  PROVE  FifoInv'
<1>0. chipRx \in Seq(Characters) /\ rxRaised \in Nat /\ RxErrors \in Nat /\ RxFifo \in Nat
      /\ Len(chipRx) \in Nat
  BY SerialAssumption DEF RxInv
<1>1. CASE \/ ChipShifts \/ ChipIdles \/ ModemChanges \/ TtyStop \/ GetMctrl \/ SetModemInterrupt \/ Rs485
           \/ StartupLink \/ StopRx \/ ShutdownQuiet \/ UNCHANGED serialVars
  <2>1. UNCHANGED <<chipRx, rxPass, rxRaised>>
    BY <1>1 DEF ChipShifts, ChipIdles, ModemChanges, TtyStop, GetMctrl, SetModemInterrupt, Rs485,
                StartupLink, StopRx, ShutdownQuiet, serialVars, rxVars
  <2> QED BY <2>1 DEF FifoInv
<1>2. CASE UartWrite \/ TtyStart \/ BackupTimeout \/ TxEmpty
  <2>1. UNCHANGED <<rxPass, rxRaised>> /\ (chipRx' = chipRx \/ chipRx' = Reread(chipRx))
    BY <1>2 DEF UartWrite, TtyStart, StartTx, BackupTimeout, TxEmpty, rxVars
  <2> QED BY <1>0, <2>1, RereadLength DEF FifoInv
<1>3. CASE ChipReceives
  <2>1. PICK c \in Characters : chipRx' = Append(chipRx, c)
    BY <1>3 DEF ChipReceives, Characters
  <2>2. Len(chipRx') = Len(chipRx) + 1 /\ Len(chipRx) < RxFifo
    BY <1>0, <1>3, <2>1 DEF ChipReceives
  <2>3. rxPass' = rxPass /\ rxRaised' <= RxErrors
    BY <1>0, <1>3 DEF ChipReceives, FifoInv
  <2> QED BY <1>0, <2>2, <2>3 DEF FifoInv
<1>4. CASE StartupTest \/ StartupInit \/ ShutdownUnlink
  <2>1. /\ rxPass' = rxPass /\ (chipRx' = chipRx \/ chipRx' = <<>>)
        /\ rxRaised' = rxRaised \/ rxRaised' = 0
    BY <1>4 DEF StartupTest, StartupInit, ShutdownUnlink, rxVars
  <2>2. Len(<<>>) = 0
    OBVIOUS
  <2> QED BY <1>0, <2>1, <2>2 DEF FifoInv
<1>5. CASE HandleStart
  <2>1. /\ rxRaised' = rxRaised
        /\ \/ UNCHANGED <<chipRx, rxPass>>
           \/ /\ chipRx' = Reread(chipRx)
              /\ rxPass' = [on |-> TRUE, left |-> RxLimit, err |-> HeadBad]
    BY <1>5 DEF HandleStart
  <2>2. [on |-> TRUE, left |-> RxLimit, err |-> HeadBad] \in [on : BOOLEAN, left : 0..RxLimit, err : BOOLEAN]
    BY SerialAssumption DEF HeadBad
  <2> QED BY <1>0, <2>1, <2>2, RereadLength DEF FifoInv
<1>6. CASE ReceiveNext
  <2> DEFINE rest == Tail(chipRx)
             err == rest # <<>> /\ Head(rest) = "bad"
  <2>1. /\ rxRaised' = rxRaised /\ rxPass.on /\ chipRx' = Reread(rest)
        /\ \/ rxPass.left > 0 /\ rxPass' = [on |-> TRUE, left |-> rxPass.left - 1, err |-> err]
           \/ rxPass' = NoPass
    BY <1>6 DEF ReceiveNext
  <2>2. chipRx # <<>>
    BY <2>1 DEF RxInv
  <2>3. rest \in Seq(Characters) /\ Len(rest) = Len(chipRx) - 1
    BY <1>0, <2>2
  <2>4. err \in BOOLEAN
    OBVIOUS
  <2> HIDE DEF rest, err
  <2>5. Len(chipRx') = Len(chipRx) - 1 /\ Len(chipRx') \in Nat
    BY <2>1, <2>3, RereadLength
  <2>6. rxPass' \in [on : BOOLEAN, left : 0..RxLimit, err : BOOLEAN]
    <3>1. CASE rxPass.left > 0 /\ rxPass' = [on |-> TRUE, left |-> rxPass.left - 1, err |-> err]
      <4>1. rxPass.left \in 0..RxLimit /\ RxLimit \in Nat
        BY SerialAssumption DEF FifoInv
      <4> QED BY <2>4, <3>1, <4>1
    <3>2. CASE rxPass' = NoPass
      BY <3>2, SerialAssumption DEF NoPass
    <3> QED BY <2>1, <3>1, <3>2
  <2> QED BY <1>0, <2>1, <2>5, <2>6 DEF FifoInv
<1> QED BY <1>1, <1>2, <1>3, <1>4, <1>5, <1>6 DEF SerialNext

\* The serial port keeps its types: neither FIFO nor buffer runs over, a pass of the receive
\* loop stops at its limit, and no error is counted that was not raised
\* (8250_cpscom.c:1590, 1661), for every size and every limit.
THEOREM PortTyped == SerialSpec => []SerialTypeOK
<1>1. SerialInit => SendInv /\ FifoInv
  <2> SUFFICES ASSUME SerialInit PROVE SendInv /\ FifoInv
    OBVIOUS
  <2>1. 0 \in 0..XmitMax /\ 0 \in 0..RxLimit /\ 0 \in 0..RxFifo /\ 0 <= RxErrors /\ Len(<<>>) = 0
    BY SerialAssumption
  <2>2. SendInv
    BY <2>1 DEF SerialInit, SendInv
  <2>3. rxPass \in [on : BOOLEAN, left : 0..RxLimit, err : BOOLEAN]
    BY <2>1 DEF SerialInit, NoPass
  <2>4. chipRx = <<>> /\ rxRaised = 0
    BY DEF SerialInit
  <2> QED BY <2>1, <2>2, <2>3, <2>4 DEF FifoInv
<1>2. ASSUME RxInv, SendInv, FifoInv PROVE SerialTypeOK
  <2>1. chipRx \in UNION {[1..n -> {"good", "bad"}] : n \in 0..RxFifo}
    <3>1. chipRx \in Seq(Characters) /\ Len(chipRx) \in 0..RxFifo
      BY <1>2 DEF RxInv, FifoInv
    <3>2. chipRx \in [1..Len(chipRx) -> {"good", "bad"}]
      BY <3>1 DEF Characters
    <3> QED BY <3>1, <3>2
  <2>2. rxCounted <= rxRaised
    <3>1. CASE Receiving
      <4>1. Balance(rxRaised, rxCounted, Cardinality(BadAt(chipRx)), uartSaved, rxPass.err, rxCut)
        BY <1>2, <3>1 DEF RxInv
      <4>2. rxRaised \in Nat /\ rxCounted \in Nat /\ chipRx \in Seq(Characters)
        BY <1>2 DEF RxInv
      <4>3. Cardinality(BadAt(chipRx)) \in Nat
        BY <4>2, BadFinite
      <4> QED BY <4>1, <4>2, <4>3 DEF Balance
    <3>2. CASE ~Receiving
      BY <1>2, <3>2 DEF RxInv
    <3> QED BY <3>1, <3>2
  <2>3. {rxRaised, rxCounted} \subseteq 0..RxErrors
    BY <1>2, <2>2, SerialAssumption DEF RxInv, FifoInv
  <2>4. {chipThre, chipReasserts, chipDelta, xmitStopped, uartTimer, uartSaved, rxCut} \subseteq BOOLEAN
    <3>1. /\ chipThre \in BOOLEAN /\ chipReasserts \in BOOLEAN /\ chipDelta \in BOOLEAN
          /\ xmitStopped \in BOOLEAN /\ uartTimer \in BOOLEAN /\ uartSaved \in BOOLEAN
          /\ rxCut \in BOOLEAN
      BY <1>2 DEF SendInv, RxInv
    <3> QED BY <3>1, Zenon
  <2>5. {uartIer, chipIer} \subseteq SUBSET Interrupts
    BY <1>2 DEF SendInv
  <2> QED BY <1>2, <2>1, <2>3, <2>4, <2>5 DEF RxInv, SendInv, FifoInv, SerialTypeOK
<1>3. RxInv /\ SendInv /\ FifoInv /\ [SerialNext]_serialVars => (RxInv /\ SendInv /\ FifoInv)'
  BY RxStep, SendStep, FifoStep
<1> QED BY RxStart, <1>1, <1>2, <1>3, PTL DEF SerialSpec

-----------------------------------------------------------------------------
(***************************************************************************)
(* SerialPort: no wake-up is lost, the safety half of NotIdle.  A UART     *)
(* that raises the transmitter's interrupt once only has the backup timer; *)
(* with any other one, an interrupt that is enabled is up whenever the     *)
(* transmitter can take a character, and up->ier says whether it is        *)
(* enabled.                                                                *)
(***************************************************************************)

\* The transmitter is idle and there is something to send.
Waits == Running /\ xmit > 0 /\ ~xmitStopped /\ chipThr = "idle"

\* Then its interrupt is enabled and up, or the backup timer runs, and either
\* finds in up->ier that there is something to send.
WakeUp == Waits => "THRI" \in uartIer \cap chipIer /\ (chipThre \/ uartTimer)

\* Whoever answers, sends: the timer, the handler that finds no character, and
\* the end of the receive loop.
WakeActs ==
  Waits /\ (BackupTimeout \/ (HandleStart /\ chipRx = <<>>) \/ (ReceiveNext /\ ~rxPass'.on))
    => chipThr' = "loaded" \/ xmitStopped'

\* A UART that does not repeat the interrupt is known after the first startup.
TimerInv ==
  /\ ~chipReasserts => "THRE" \in uartBugs \/ (uartAt = "closed" /\ chipThre)
  /\ "THRE" \in uartBugs /\ uartAt # "closed" => uartTimer
  /\ uartTimer => "THRE" \in uartBugs

ThriInv ==
  Running /\ ~uartTimer =>
    /\ "THRI" \in chipIer => "THRI" \in uartIer
    /\ "THRI" \in uartIer /\ chipThr # "loaded" => chipThre

AskedInv == Running /\ xmit > 0 /\ ~xmitStopped => "THRI" \in uartIer

WakeInv == RxInv /\ SendInv /\ IerInv /\ TimerInv /\ ThriInv /\ AskedInv

\* transmit_chars keeps its interrupt while something is left, and sends if it
\* keeps it.
LEMMA SentAsks ==
  ASSUME NEW ier, NEW stopped \in BOOLEAN, NEW x \in Nat, NEW room \in Nat \ {0}, NEW s,
         s = Sent(ier, stopped, x, room)
  PROVE  /\ "THRI" \in s.ier => "THRI" \in ier /\ s.out
         /\ s.left > 0 /\ ~stopped /\ "THRI" \in ier => "THRI" \in s.ier
         /\ x > 0 /\ ~stopped => s.out
<1> DEFINE out == IF stopped THEN 0 ELSE IF x < room THEN x ELSE room
<1>1. s = [left |-> x - out, out |-> out > 0,
           ier |-> IF stopped \/ x = out THEN ier \ {"THRI"} ELSE ier]
  BY DEF Sent
<1>2. out \in Nat /\ (~stopped /\ x # out => out > 0) /\ (x > 0 /\ ~stopped => out > 0)
  OBVIOUS
<1> HIDE DEF out
<1>3. s.left = x - out /\ s.out = (out > 0)
      /\ s.ier = IF stopped \/ x = out THEN ier \ {"THRI"} ELSE ier
  BY <1>1
<1>4. x - out > 0 => x # out
  BY <1>2
<1> QED BY <1>2, <1>3, <1>4

\* The modem lines and the transmitter keep what wakes it, and send when they
\* find it empty.
LEMMA TransmitWakes ==
  ASSUME SendInv, NEW thre \in BOOLEAN, NEW empty \in BOOLEAN, ModemAndTransmit(thre, empty)
  PROVE  /\ "THRI" \notin chipIer \/ "THRI" \in uartIer =>
              "THRI" \notin chipIer' \/ "THRI" \in uartIer'
         /\ chipReasserts /\ ("THRI" \notin chipIer \/ "THRI" \in uartIer)
              /\ (empty \/ "THRI" \notin uartIer \/ chipThr = "loaded" \/ thre) =>
              "THRI" \notin uartIer' \/ chipThr' = "loaded" \/ chipThre'
         /\ ("THRI" \in uartIer \/ xmit = 0 \/ xmitStopped) =>
              "THRI" \in uartIer' \/ xmit' = 0 \/ xmitStopped'
         /\ empty /\ xmit > 0 => chipThr' = "loaded" \/ xmitStopped'
<1>1. PICK stopped \in IF chipDelta /\ "MSI" \in uartIer THEN BOOLEAN ELSE {xmitStopped} :
        LET restarts == xmitStopped /\ ~stopped
            starts == restarts /\ "THRI" \notin uartIer
            ier == IF restarts THEN uartIer \cup {"THRI"}
                   ELSE IF stopped /\ ~xmitStopped THEN uartIer \ {"THRI"} ELSE uartIer
            room == (IF starts /\ "TXEN" \in uartBugs /\ chipThr = "idle" THEN TxLoad ELSE 0)
                    + (IF empty /\ chipThr # "loaded" THEN TxLoad ELSE 0)
            s == IF room = 0 THEN [left |-> xmit, out |-> FALSE, ier |-> ier]
                             ELSE Sent(ier, stopped, xmit, room) IN
        /\ xmitStopped' = stopped /\ chipDelta' = FALSE
        /\ Effect(s, thre \/ Raises(chipIer, ier), starts \/ s.ier # uartIer)
  BY DEF ModemAndTransmit
<1> DEFINE
  restarts == xmitStopped /\ ~stopped
  starts == restarts /\ "THRI" \notin uartIer
  ier == IF restarts THEN uartIer \cup {"THRI"}
         ELSE IF stopped /\ ~xmitStopped THEN uartIer \ {"THRI"} ELSE uartIer
  room == (IF starts /\ "TXEN" \in uartBugs /\ chipThr = "idle" THEN TxLoad ELSE 0)
          + (IF empty /\ chipThr # "loaded" THEN TxLoad ELSE 0)
  s == IF room = 0 THEN [left |-> xmit, out |-> FALSE, ier |-> ier]
                   ELSE Sent(ier, stopped, xmit, room)
<1>2. /\ xmitStopped' = stopped
      /\ Effect(s, thre \/ Raises(chipIer, ier), starts \/ s.ier # uartIer)
  BY <1>1
<1>3. stopped \in BOOLEAN /\ xmitStopped \in BOOLEAN /\ xmit \in Nat /\ xmit' \in Nat
  BY <1>2, TransmitTypes DEF SendInv
<1>4. /\ "THRI" \in ier => "THRI" \in uartIer \/ starts
      /\ ("THRI" \in uartIer \/ xmitStopped) /\ ~stopped => "THRI" \in ier
  BY <1>3
<1>5. room \in Nat /\ (empty /\ chipThr # "loaded" => room # 0)
  BY SerialAssumption
<1>6. /\ xmit' = s.left /\ uartIer' = s.ier
      /\ chipIer' = IF starts \/ s.ier # uartIer THEN s.ier ELSE chipIer
      /\ chipThr' = IF s.out THEN "loaded" ELSE chipThr
      /\ chipThre' = ((thre \/ Raises(chipIer, ier)) /\ ~s.out)
  BY <1>2 DEF Effect
<1>7. starts => "THRI" \notin uartIer
  OBVIOUS
<1> HIDE DEF ier, room, starts
<1>8. /\ "THRI" \in s.ier => "THRI" \in ier
      /\ s.left > 0 /\ ~stopped /\ "THRI" \in ier => "THRI" \in s.ier
      /\ room # 0 /\ "THRI" \in s.ier => s.out
      /\ room # 0 /\ xmit > 0 /\ ~stopped => s.out
      /\ s.left \in Nat /\ (s.left > 0 => xmit > 0)
  <2>1. CASE room = 0
    BY <1>3, <2>1
  <2>2. CASE room # 0
    <3>1. s = Sent(ier, stopped, xmit, room)
      BY <2>2
    <3> HIDE DEF s
    <3>2. s.left > 0 => xmit > 0
      BY <1>3, <1>5, <3>1 DEF Sent
    <3>3. s.left \in Nat
      BY <1>3, <1>6
    <3> QED BY <1>3, <1>5, <2>2, <3>1, <3>2, <3>3, SentAsks
  <2> QED BY <2>1, <2>2
<1> HIDE DEF s
<1>9. "THRI" \notin chipIer \/ "THRI" \in uartIer => "THRI" \notin chipIer' \/ "THRI" \in uartIer'
  BY <1>6
<1>10. ASSUME chipReasserts, "THRI" \notin chipIer \/ "THRI" \in uartIer,
              empty \/ "THRI" \notin uartIer \/ chipThr = "loaded" \/ thre
       PROVE  "THRI" \notin uartIer' \/ chipThr' = "loaded" \/ chipThre'
  <2>1. CASE s.out \/ room # 0 \/ "THRI" \notin s.ier
    BY <1>6, <1>8, <2>1
  <2>2. CASE ~s.out /\ room = 0 /\ "THRI" \in s.ier
    <3>1. chipThr' = chipThr /\ chipThre' = (thre \/ Raises(chipIer, ier)) /\ "THRI" \in ier
      BY <1>6, <1>8, <2>2
    <3>2. CASE "THRI" \in uartIer
      BY <1>5, <1>10, <2>2, <3>1, <3>2
    <3>3. CASE "THRI" \notin uartIer
      <4>1. chipThr # "loaded" => Raises(chipIer, ier)
        BY <1>10, <3>1, <3>3 DEF Raises
      <4> QED BY <3>1, <4>1
    <3> QED BY <3>2, <3>3
  <2> QED BY <2>1, <2>2
<1>11. ASSUME "THRI" \in uartIer \/ xmit = 0 \/ xmitStopped
       PROVE  "THRI" \in uartIer' \/ xmit' = 0 \/ xmitStopped'
  <2> SUFFICES ASSUME xmit' # 0, ~xmitStopped'
               PROVE  "THRI" \in uartIer'
    OBVIOUS
  <2>1. s.left > 0 /\ ~stopped
    BY <1>2, <1>3, <1>6
  <2>2. xmit > 0
    BY <1>8, <2>1
  <2> QED BY <1>3, <1>4, <1>6, <1>8, <1>11, <2>1, <2>2
<1>12. ASSUME empty, xmit > 0 PROVE chipThr' = "loaded" \/ xmitStopped'
  BY <1>2, <1>5, <1>6, <1>8, <1>12
<1> QED BY <1>9, <1>10, <1>11, <1>12

\* So does cpscom_start_tx, which asks for the interrupt.
LEMMA StartTxWakes ==
  ASSUME SendInv, NEW x \in 0..XmitMax, StartTx(x)
  PROVE  /\ "THRI" \notin chipIer \/ "THRI" \in uartIer =>
              "THRI" \notin chipIer' \/ "THRI" \in uartIer'
         /\ chipReasserts /\ ("THRI" \notin chipIer \/ "THRI" \in uartIer)
              /\ ("THRI" \notin uartIer \/ chipThr = "loaded" \/ chipThre) =>
              "THRI" \notin uartIer' \/ chipThr' = "loaded" \/ chipThre'
         /\ "THRI" \in uartIer' \/ xmit' = 0
<1> DEFINE
  ier == uartIer \cup {"THRI"}
  check == "TXEN" \in uartBugs /\ "THRI" \notin uartIer
  s == IF check /\ chipThr = "idle" THEN Sent(ier, FALSE, x, TxLoad)
                                    ELSE [left |-> x, out |-> FALSE, ier |-> ier]
<1>1. /\ xmit' = s.left /\ uartIer' = s.ier
      /\ chipIer' = IF "THRI" \notin uartIer THEN s.ier ELSE chipIer
      /\ chipThr' = IF s.out THEN "loaded" ELSE chipThr
      /\ chipThre' = ((chipThre \/ Raises(chipIer, ier)) /\ ~s.out)
  BY DEF StartTx, Effect
<1>2. xmit' \in Nat /\ x \in Nat /\ TxLoad \in Nat \ {0}
  BY StartTxTypes, SerialAssumption
<1>3. CASE check /\ chipThr = "idle"
  <2>1. s = Sent(ier, FALSE, x, TxLoad) /\ "THRI" \in ier /\ "THRI" \notin uartIer
    BY <1>3
  <2> HIDE DEF s, ier
  <2>2. ("THRI" \in s.ier => s.out) /\ (s.left > 0 => "THRI" \in s.ier)
    BY <1>2, <2>1, SentAsks
  <2>3. xmit' = s.left /\ uartIer' = s.ier /\ chipIer' = s.ier
    BY <1>1, <2>1
  <2>4. s.out => chipThr' = "loaded"
    BY <1>1
  <2>5. "THRI" \in uartIer' => chipThr' = "loaded"
    BY <2>2, <2>3, <2>4
  <2>6. "THRI" \in uartIer' \/ xmit' = 0
    BY <1>2, <2>2, <2>3
  <2> QED BY <2>3, <2>5, <2>6
<1>4. CASE ~(check /\ chipThr = "idle")
  <2>1. s.left = x /\ s.out = FALSE /\ s.ier = ier
    BY <1>4
  <2>2. uartIer' = ier /\ chipThr' = chipThr /\ chipThre' = (chipThre \/ Raises(chipIer, ier))
    <3> HIDE DEF s
    <3> QED BY <1>1, <2>1
  <2>3. "THRI" \in uartIer'
    BY <2>2
  <2>4. ASSUME chipReasserts, "THRI" \notin chipIer \/ "THRI" \in uartIer,
               "THRI" \notin uartIer \/ chipThr = "loaded" \/ chipThre
        PROVE  chipThr' = "loaded" \/ chipThre'
    <3>1. CASE "THRI" \in uartIer
      BY <2>2, <2>4, <3>1
    <3>2. CASE "THRI" \notin uartIer
      <4>1. chipThr # "loaded" => Raises(chipIer, ier)
        BY <2>4, <3>2 DEF Raises
      <4> QED BY <2>2, <4>1
    <3> QED BY <3>1, <3>2
  <2> QED BY <2>3, <2>4
<1> QED BY <1>3, <1>4

LEMMA TimerStep ==
  ASSUME RxInv, SendInv, TimerInv, [SerialNext]_serialVars
  PROVE  TimerInv'
<1>1. CASE StartupTest
  BY <1>1 DEF StartupTest, TimerInv
<1>2. CASE StartupLink \/ StartupInit \/ ShutdownUnlink
  BY <1>2 DEF StartupLink, StartupInit, ShutdownUnlink, TimerInv, lineVars
<1>3. CASE StopRx \/ ShutdownQuiet
  BY <1>3 DEF StopRx, ShutdownQuiet, TimerInv, lineVars, Running
<1>4. CASE /\ uartAt' = uartAt /\ uartBugs' = uartBugs /\ uartTimer' = uartTimer
           /\ chipReasserts' = chipReasserts /\ (uartAt # "closed" \/ chipThre' = chipThre)
  BY <1>4 DEF TimerInv
<1>5. CASE ChipShifts \/ ChipIdles \/ ChipReceives \/ ModemChanges \/ UNCHANGED serialVars
  BY <1>4, <1>5 DEF ChipShifts, ChipIdles, ChipReceives, ModemChanges, lineVars, serialVars, TimerInv
<1>6. CASE UartWrite \/ TtyStart \/ TtyStop \/ HandleStart
  BY <1>4, <1>6 DEF UartWrite, TtyStart, TtyStop, HandleStart, Running
<1>7. CASE ReceiveNext
  BY <1>7 DEF ReceiveNext, RxInv, TimerInv
<1>8. CASE BackupTimeout
  BY <1>8 DEF BackupTimeout, TimerInv
<1>9. CASE TxEmpty \/ GetMctrl \/ SetModemInterrupt \/ Rs485
  BY <1>4, <1>9 DEF TxEmpty, GetMctrl, SetModemInterrupt, Rs485, lineVars, Running
<1> QED BY <1>1, <1>2, <1>3, <1>5, <1>6, <1>7, <1>8, <1>9 DEF SerialNext

LEMMA ThriStep ==
  ASSUME RxInv, SendInv, SendInv', IerInv, TimerInv, ThriInv, [SerialNext]_serialVars
  PROVE  ThriInv'
<1> DEFINE
  Kept == "THRI" \notin chipIer \/ "THRI" \in uartIer
  Up == "THRI" \notin uartIer \/ chipThr = "loaded" \/ chipThre
<1> SUFFICES ASSUME Running', ~uartTimer'
             PROVE  Kept' /\ Up'
  BY DEF ThriInv
<1>1. CASE StartupInit
  BY <1>1 DEF StartupInit
<1>2. CASE ~StartupInit
  <2>1. Running /\ uartTimer' = uartTimer /\ chipReasserts' = chipReasserts
    BY <1>2 DEF SerialNext, serialVars, lineVars, Running, ChipShifts, ChipIdles, ChipReceives, ModemChanges,
         StartupTest, StartupLink, StopRx, ShutdownQuiet, ShutdownUnlink, UartWrite, TtyStart, TtyStop,
         HandleStart, ReceiveNext, BackupTimeout, TxEmpty, GetMctrl, SetModemInterrupt, Rs485
  <2>2. chipReasserts /\ Kept /\ Up /\ uartIer \subseteq chipIer /\ "RDI" \in chipIer
    BY <2>1 DEF TimerInv, ThriInv, IerInv, Running, SendInv
  <2> HIDE DEF Kept, Up
  <2>3. CASE ChipShifts \/ ChipIdles \/ ChipReceives \/ ModemChanges \/ TxEmpty \/ UNCHANGED serialVars
    BY <2>2, <2>3 DEF Kept, Up, ChipShifts, ChipIdles, ChipReceives, ModemChanges, TxEmpty, lineVars, serialVars
  <2>4. CASE StopRx \/ SetModemInterrupt \/ Rs485
    <3>1. /\ chipIer' = uartIer' /\ chipThr' = chipThr
          /\ "THRI" \in uartIer' => "THRI" \in uartIer
          /\ chipThre => chipThre'
      BY <2>4 DEF StopRx, SetModemInterrupt, Rs485
    <3> QED BY <2>2, <3>1 DEF Kept, Up
  <2>5. CASE UartWrite \/ TtyStart
    <3>1. \/ uartIer' = uartIer /\ chipIer' = chipIer /\ chipThr' = chipThr /\ chipThre' = chipThre
          \/ \E x \in 0..XmitMax : StartTx(x)
      BY <2>5, SerialAssumption DEF UartWrite, TtyStart, SendInv
    <3> QED BY <2>2, <3>1, StartTxWakes DEF Kept, Up
  <2>6. CASE TtyStop
    BY <2>2, <2>6 DEF TtyStop, Effect, Kept, Up
  <2>7. CASE HandleStart
    <3>1. CASE chipRx = <<>>
      <4>1. ModemAndTransmit(ThreRead, TRUE) /\ ThreRead \in BOOLEAN
        BY <2>7, <3>1 DEF HandleStart, ThreRead
      <4> QED BY <2>2, <4>1, TransmitWakes DEF Kept, Up
    <3>2. CASE chipRx # <<>>
      <4>1. chipThre' = ThreRead /\ UNCHANGED <<uartIer, chipIer, chipThr>>
        BY <2>7, <3>2 DEF HandleStart
      <4>2. "RDI" \in Asserted
        BY <2>2, <3>2 DEF Asserted
      <4>3. ThreRead = chipThre
        BY <4>2 DEF ThreRead, SendInv
      <4> QED BY <2>2, <4>1, <4>3 DEF Kept, Up
    <3> QED BY <3>1, <3>2
  <2>8. CASE ReceiveNext
    <3>1. \/ uartIer' = uartIer /\ chipIer' = chipIer /\ chipThr' = chipThr /\ chipThre' = chipThre
          \/ ModemAndTransmit(chipThre, TRUE)
      BY <2>8 DEF ReceiveNext
    <3>2. chipThre \in BOOLEAN
      BY DEF SendInv
    <3> QED BY <2>2, <3>1, <3>2, TransmitWakes DEF Kept, Up
  <2>9. CASE GetMctrl
    <3>1. ModemAndTransmit(chipThre, FALSE) /\ chipThre \in BOOLEAN
      BY <2>9 DEF GetMctrl, SendInv
    <3> QED BY <2>2, <3>1, TransmitWakes DEF Kept, Up
  <2>10. ~BackupTimeout
    BY <2>1 DEF BackupTimeout
  <2>11. ~(StartupTest \/ StartupLink \/ ShutdownQuiet \/ ShutdownUnlink)
    BY <2>1 DEF StartupTest, StartupLink, ShutdownQuiet, ShutdownUnlink, Running
  <2> QED BY <1>2, <2>3, <2>4, <2>5, <2>6, <2>7, <2>8, <2>9, <2>10, <2>11 DEF SerialNext
<1> QED BY <1>1, <1>2

LEMMA AskedStep ==
  ASSUME SendInv, SendInv', AskedInv, [SerialNext]_serialVars
  PROVE  AskedInv'
<1> SUFFICES ASSUME Running', xmit' # 0, ~xmitStopped'
             PROVE  "THRI" \in uartIer'
  BY DEF AskedInv, SendInv
<1>1. ~StartupInit
  BY DEF StartupInit
<1>2. Running
  BY <1>1 DEF SerialNext, serialVars, lineVars, Running, ChipShifts, ChipIdles, ChipReceives, ModemChanges,
       StartupTest, StartupLink, StopRx, ShutdownQuiet, ShutdownUnlink, UartWrite, TtyStart, TtyStop,
       HandleStart, ReceiveNext, BackupTimeout, TxEmpty, GetMctrl, SetModemInterrupt, Rs485
<1>3. "THRI" \in uartIer \/ xmit = 0 \/ xmitStopped
  BY <1>2, SerialAssumption DEF AskedInv, SendInv
<1>4. CASE /\ xmit' = xmit /\ xmitStopped' = xmitStopped
           /\ "THRI" \in uartIer => "THRI" \in uartIer'
  BY <1>3, <1>4
<1>5. CASE ChipShifts \/ ChipIdles \/ ChipReceives \/ ModemChanges \/ TxEmpty \/ UNCHANGED serialVars
  BY <1>4, <1>5 DEF ChipShifts, ChipIdles, ChipReceives, ModemChanges, TxEmpty, sendVars, serialVars
<1>6. CASE StopRx \/ SetModemInterrupt \/ Rs485
  BY <1>4, <1>6 DEF StopRx, SetModemInterrupt, Rs485, sendVars
<1>7. CASE UartWrite
  <2>1. CASE xmitStopped
    BY <1>7, <2>1 DEF UartWrite
  <2>2. CASE ~xmitStopped
    <3>1. StartTx(xmit + 1) /\ xmit + 1 \in 0..XmitMax
      BY <1>7, <2>2, SerialAssumption DEF UartWrite, SendInv
    <3> QED BY <3>1, StartTxWakes
  <2> QED BY <2>1, <2>2
<1>8. CASE TtyStart
  <2>1. xmit = 0 => xmit' = 0
    BY <1>8 DEF TtyStart
  <2>2. StartTx(xmit) /\ xmit \in 0..XmitMax
    BY <1>8, <2>1 DEF TtyStart, SendInv
  <2> QED BY <2>2, StartTxWakes
<1>9. CASE TtyStop
  BY <1>9 DEF TtyStop
<1>10. CASE HandleStart
  <2>1. \/ xmit' = xmit /\ xmitStopped' = xmitStopped /\ uartIer' = uartIer
        \/ ModemAndTransmit(ThreRead, TRUE)
    BY <1>10 DEF HandleStart, sendVars
  <2>2. ThreRead \in BOOLEAN
    BY DEF ThreRead
  <2> QED BY <1>3, <2>1, <2>2, TransmitWakes
<1>11. CASE ReceiveNext
  <2>1. \/ xmit' = xmit /\ xmitStopped' = xmitStopped /\ uartIer' = uartIer
        \/ ModemAndTransmit(chipThre, TRUE)
    BY <1>11 DEF ReceiveNext, sendVars
  <2>2. chipThre \in BOOLEAN
    BY DEF SendInv
  <2> QED BY <1>3, <2>1, <2>2, TransmitWakes
<1>12. CASE GetMctrl
  <2>1. ModemAndTransmit(chipThre, FALSE) /\ chipThre \in BOOLEAN
    BY <1>12 DEF GetMctrl, SendInv
  <2> QED BY <1>3, <2>1, TransmitWakes
<1>13. CASE BackupTimeout
  <2>1. xmitStopped' = xmitStopped
    BY <1>13 DEF BackupTimeout
  <2>2. CASE xmit' = xmit /\ uartIer' = uartIer
    BY <1>4, <2>1, <2>2
  <2>3. CASE ~(xmit' = xmit /\ uartIer' = uartIer)
    <3> DEFINE s == Sent(uartIer, xmitStopped, xmit, TxLoad)
    <3>1. xmit' = s.left /\ uartIer' = s.ier /\ "THRI" \in uartIer
      BY <1>13, <2>3 DEF BackupTimeout, Effect
    <3>2. xmit \in Nat /\ xmitStopped \in BOOLEAN /\ TxLoad \in Nat \ {0} /\ xmit' \in Nat
      BY SerialAssumption DEF SendInv
    <3>3. s.left > 0 /\ ~xmitStopped /\ "THRI" \in uartIer => "THRI" \in s.ier
      BY <3>2, SentAsks
    <3> HIDE DEF s
    <3> QED BY <2>1, <3>1, <3>2, <3>3
  <2> QED BY <2>2, <2>3
<1>14. ~(StartupTest \/ StartupLink \/ ShutdownQuiet \/ ShutdownUnlink)
  BY <1>2 DEF StartupTest, StartupLink, ShutdownQuiet, ShutdownUnlink, Running
<1> QED BY <1>1, <1>5, <1>6, <1>7, <1>8, <1>9, <1>10, <1>11, <1>12, <1>13, <1>14 DEF SerialNext

\* At the start there is nothing to send.
LEMMA SendStart ==
  ASSUME SerialInit
  PROVE  SendInv
<1>1. 0 \in 0..XmitMax
  BY SerialAssumption
<1> QED BY <1>1 DEF SerialInit, SendInv

LEMMA WakeStep ==
  ASSUME WakeInv, [SerialNext]_serialVars
  PROVE  WakeInv'
<1>1. SendInv'
  BY SendStep DEF WakeInv
<1>2. RxInv' /\ IerInv'
  BY RxStep, PortStep DEF WakeInv
<1>3. TimerInv' /\ ThriInv' /\ AskedInv'
  BY <1>1, TimerStep, ThriStep, AskedStep DEF WakeInv
<1> QED BY <1>1, <1>2, <1>3 DEF WakeInv

LEMMA WakersAct ==
  ASSUME WakeInv, [SerialNext]_serialVars
  PROVE  WakeActs
<1> SUFFICES ASSUME Waits, BackupTimeout \/ (HandleStart /\ chipRx = <<>>) \/ (ReceiveNext /\ ~rxPass'.on)
             PROVE  chipThr' = "loaded" \/ xmitStopped'
  BY Zenon DEF WakeActs
<1>1. /\ xmit > 0 /\ ~xmitStopped /\ chipThr = "idle" /\ "THRI" \in uartIer /\ SendInv
      /\ xmit \in Nat /\ TxLoad \in Nat \ {0}
  BY SerialAssumption DEF Waits, WakeInv, AskedInv, SendInv
<1>2. CASE BackupTimeout
  <2> DEFINE s == Sent(uartIer, xmitStopped, xmit, TxLoad)
  <2>1. chipThr' = IF s.out THEN "loaded" ELSE chipThr
    BY <1>1, <1>2 DEF BackupTimeout, Effect
  <2>2. xmitStopped \in BOOLEAN
    BY <1>1 DEF SendInv
  <2>3. s.out
    BY <1>1, <2>2, SentAsks
  <2> QED BY <2>1, <2>3
<1>3. CASE HandleStart /\ chipRx = <<>>
  <2>1. ModemAndTransmit(ThreRead, TRUE)
    BY <1>3 DEF HandleStart
  <2>2. ThreRead \in BOOLEAN
    BY DEF ThreRead
  <2> QED BY <1>1, <2>1, <2>2, TransmitWakes
<1>4. CASE ReceiveNext /\ ~rxPass'.on
  <2> DEFINE err == Tail(chipRx) # <<>> /\ Head(Tail(chipRx)) = "bad"
             next == [on |-> TRUE, left |-> rxPass.left - 1, err |-> err]
  <2>1. rxPass' = next \/ ModemAndTransmit(chipThre, TRUE)
    BY <1>4 DEF ReceiveNext
  <2>2. ModemAndTransmit(chipThre, TRUE)
    <3>1. next.on = TRUE
      OBVIOUS
    <3> HIDE DEF next
    <3> QED BY <1>4, <2>1, <3>1
  <2>3. chipThre \in BOOLEAN
    BY <1>1 DEF SendInv
  <2> QED BY <1>1, <2>2, <2>3, TransmitWakes
<1> QED BY <1>2, <1>3, <1>4

\* An idle transmitter with something to send has its interrupt enabled and up, or the backup
\* timer (8250_cpscom.c:1528, 2300, 2313), whoever rewrote IER, stopped the tty or read the
\* register that takes the interrupt back; and the timer, the handler and the end of a pass
\* then load it (1753, 1996).  What is left to the run is that one of them comes.
THEOREM WakeUpKept == SerialSpec => []WakeUp /\ [][WakeActs]_serialVars
<1>1. SerialInit => WakeInv
  <2> SUFFICES ASSUME SerialInit PROVE WakeInv
    OBVIOUS
  <2>1. RxInv /\ SendInv /\ IerInv
    BY RxStart, SendStart, PortInit
  <2>2. TimerInv /\ ThriInv /\ AskedInv
    BY DEF SerialInit, TimerInv, ThriInv, AskedInv, Running
  <2> QED BY <2>1, <2>2 DEF WakeInv
<1>2. WakeInv /\ [SerialNext]_serialVars => WakeInv'
  BY WakeStep
<1>3. WakeInv => WakeUp
  BY DEF WakeInv, AskedInv, ThriInv, IerInv, Waits, WakeUp, SendInv
<1>4. WakeInv /\ [SerialNext]_serialVars => [WakeActs]_serialVars
  BY WakersAct
<1> QED BY <1>1, <1>2, <1>3, <1>4, PTL DEF SerialSpec

-----------------------------------------------------------------------------
(***************************************************************************)
(* SerialChain.  PortsHeard and LineReleased speak of the list of an       *)
(* irq_info. That a list holds each port once, that a port is in it        *)
(* exactly in the states between its link and its unlink, and that an      *)
(* irq_info nobody has is freed, hold while no port met one that was given *)
(* up (FoundInv, JoinedInv, HeardInv); the shape of the state and the walk *)
(* of the handler hold always (ChainShape, WalkInv).                       *)
(***************************************************************************)

\* The ports of a chain, each once.
PortsOf(chain) == {chain[k] : k \in DOMAIN chain}
Once(chain) == \A j, k \in DOMAIN chain : chain[j] = chain[k] => j = k

ChainStates == {"closed", "found", "request", "open", "unlink", "failed", "drop"}

\* What every state has, after a race too.
ChainShape ==
  /\ chainPc \in [ChainPorts -> ChainStates]
  /\ portInfo \in [ChainPorts -> Infos \cup {NoInfo}]
  /\ hashInfo \in Infos \cup {NoInfo}
  /\ infoChain \in [Infos -> Seq(ChainPorts)]
  /\ infoLive \subseteq Infos /\ infoIrq \subseteq Infos
  /\ hashMutex \subseteq ChainPorts /\ pending \subseteq ChainPorts
  /\ \A p \in ChainPorts : chainPc[p] = "request" => portInfo[p] \in Infos

\* The positions from e round to the one before a, of n.
Round(e, a, n) == IF e < a THEN e..(a - 1) ELSE (e..n) \cup (1..(a - 1))

\* The handler: the ports found idle are those from the end of the round to here.
WalkInv ==
  /\ walk \in [info : Infos \cup {NoInfo}, at : Nat, end : Nat, pass : Nat,
               idle : SUBSET ChainPorts, cut : BOOLEAN]
  /\ walk.info # NoInfo =>
       LET chain == infoChain[walk.info] IN
       /\ walk.at \in 0..Len(chain) /\ walk.end \in 0..Len(chain)
       /\ walk.at # 0 =>
            /\ walk.at # walk.end /\ (walk.end = 0 => walk.idle = {})
            /\ walk.end # 0 => walk.idle = {chain[k] : k \in Round(walk.end, walk.at, Len(chain))}
       /\ walk.at = 0 /\ ~walk.cut => walk.idle = PortsOf(chain)

\* The device's chain, and a port that no other port shares it with.
HashChain == infoChain[hashInfo]
Only(p) == \A q \in ChainPorts : q # p => chainPc[q] = "closed"

\* Ports and the irq_info, as long as no port met one that was given up.
FoundInv ==
  /\ ~chainFault
  /\ infoLive = IF hashInfo = NoInfo THEN {} ELSE {hashInfo}
  /\ \A p \in ChainPorts :
       /\ chainPc[p] # "closed" => portInfo[p] = hashInfo /\ hashInfo # NoInfo
       /\ chainPc[p] = "closed" => portInfo[p] = NoInfo

\* The chain, and who may leave it empty.
JoinedInv ==
  hashInfo # NoInfo =>
    /\ Once(HashChain)
    /\ \A p \in ChainPorts :
         /\ p \in PortsOf(HashChain) <=> chainPc[p] \in {"request", "open", "unlink", "failed"}
         /\ chainPc[p] = "failed" => Only(p)
         /\ chainPc[p] = "unlink" => hashMutex = {p} /\ (Len(HashChain) = 1 => Only(p))
         /\ chainPc[p] = "drop" =>
              IF HashChain = <<>> THEN Only(p) ELSE hashMutex = {p}

\* Who registered the interrupt, or will, or gives the chain up.
HeardInv ==
  hashInfo # NoInfo /\ HashChain # <<>> =>
    \/ hashInfo \in infoIrq
    \/ \E q \in ChainPorts : chainPc[q] = "request"
    \/ \E q \in ChainPorts : chainPc[q] \in {"failed", "unlink"} /\ Only(q)

ChainInv ==
  /\ ChainShape /\ WalkInv
  /\ ~chainRace => FoundInv /\ JoinedInv /\ HeardInv

-----------------------------------------------------------------------------
\* A port behind the head of the list, or as the head.
LEMMA JoinChain ==
  ASSUME NEW s \in Seq(ChainPorts), NEW p \in ChainPorts, NEW t,
         t = IF s = <<>> THEN <<p>> ELSE <<Head(s), p>> \o Tail(s)
  PROVE  /\ t \in Seq(ChainPorts) /\ t # <<>> /\ PortsOf(t) = PortsOf(s) \cup {p}
         /\ Once(s) /\ p \notin PortsOf(s) => Once(t)
         /\ s # <<>> => Len(t) # 1
<1>1. CASE s = <<>>
  <2>1. t \in Seq(ChainPorts) /\ Len(t) = 1 /\ t[1] = p /\ t # <<>>
    BY <1>1
  <2>2. DOMAIN t = {1} /\ DOMAIN s = {}
    BY <1>1, <2>1
  <2> QED BY <1>1, <2>1, <2>2 DEF PortsOf, Once
<1>2. CASE s # <<>>
  <2> DEFINE n == Len(s)
             h == <<Head(s), p>>
             r == Tail(s)
  <2>1. n \in Nat /\ n >= 1 /\ DOMAIN s = 1..n /\ s[1] = Head(s) /\ \A k \in 1..n : s[k] \in ChainPorts
    BY <1>2
  <2>2. h \in Seq(ChainPorts) /\ Len(h) = 2 /\ h[1] = s[1] /\ h[2] = p
    BY <2>1
  <2>3. r \in Seq(ChainPorts) /\ Len(r) = n - 1 /\ \A k \in 1..(n - 1) : r[k] = s[k + 1]
    BY <1>2, <2>1
  <2>4. t = h \o r
    BY <1>2
  <2> HIDE DEF n, h, r
  <2>5. t \in Seq(ChainPorts) /\ Len(t) = n + 1 /\ DOMAIN t = 1..(n + 1)
    BY <2>1, <2>2, <2>3, <2>4
  <2>6. t[1] = s[1] /\ t[2] = p
    BY <2>1, <2>2, <2>3, <2>4
  <2>7. \A k \in 3..(n + 1) : t[k] = s[k - 1]
    <3> TAKE k \in 3..(n + 1)
    <3>1. k - 2 \in 1..(n - 1) /\ k - 2 + 1 = k - 1
      BY <2>1
    <3>2. t[k] = r[k - 2]
      BY <2>1, <2>2, <2>3, <2>4, <3>1
    <3> QED BY <2>3, <3>1, <3>2
  <2>8. PortsOf(t) = PortsOf(s) \cup {p}
    <3>1. \A k \in 1..(n + 1) : t[k] = p \/ \E j \in 1..n : t[k] = s[j]
      <4> TAKE k \in 1..(n + 1)
      <4>1. k = 1 \/ k = 2 \/ k \in 3..(n + 1)
        BY <2>1
      <4>2. k \in 3..(n + 1) => k - 1 \in 1..n
        BY <2>1
      <4>3. 1 \in 1..n
        BY <2>1
      <4> QED BY <2>6, <2>7, <4>1, <4>2, <4>3
    <3>2. \A j \in 1..n : \E k \in 1..(n + 1) : t[k] = s[j]
      <4> TAKE j \in 1..n
      <4>1. CASE j = 1
        BY <2>1, <2>6, <4>1
      <4>2. CASE j # 1
        <5>1. PICK i : i = j + 1
          OBVIOUS
        <5>2. i \in 3..(n + 1) /\ i - 1 = j /\ i \in 1..(n + 1)
          BY <2>1, <4>2, <5>1
        <5>3. t[i] = s[i - 1]
          BY <2>7, <5>2
        <5> QED BY <5>2, <5>3
      <4> QED BY <4>1, <4>2
    <3>3. 2 \in 1..(n + 1)
      BY <2>1
    <3>4. \A x : x \in PortsOf(t) <=> \E k \in 1..(n + 1) : t[k] = x
      BY <2>5 DEF PortsOf
    <3>5. \A x : x \in PortsOf(s) <=> \E k \in 1..n : s[k] = x
      BY <2>1 DEF PortsOf
    <3>6. \A x : x \in PortsOf(t) <=> x \in PortsOf(s) \cup {p}
      BY <2>6, <3>1, <3>2, <3>3, <3>4, <3>5
    <3> QED BY <3>6
  <2>9. ASSUME Once(s), p \notin PortsOf(s)
        PROVE  Once(t)
    <3>1. \A j \in 1..n : s[j] # p
      BY <2>1, <2>9 DEF PortsOf
    <3>2. \A j, k \in 1..n : s[j] = s[k] => j = k
      BY <2>1, <2>9 DEF Once
    <3> SUFFICES ASSUME NEW j \in 1..(n + 1), NEW k \in 1..(n + 1), t[j] = t[k], j # k
                 PROVE  FALSE
      BY <2>5 DEF Once
    <3>3. \A m \in 1..(n + 1) :
            \/ m = 2 /\ t[m] = p
            \/ \E i \in 1..n : t[m] = s[i] /\ m = IF i = 1 THEN 1 ELSE i + 1
      <4> TAKE m \in 1..(n + 1)
      <4>1. m = 1 \/ m = 2 \/ (m \in 3..(n + 1) /\ m - 1 \in 1..n /\ m - 1 # 1 /\ m = m - 1 + 1)
        BY <2>1
      <4>2. 1 \in 1..n
        BY <2>1
      <4> QED BY <2>6, <2>7, <4>1, <4>2
    <3>4. CASE j = 2 \/ k = 2
      <4>1. ASSUME NEW m \in 1..(n + 1), m # 2
            PROVE  t[m] # p
        <5>1. PICK i \in 1..n : t[m] = s[i]
          BY <3>3, <4>1
        <5> QED BY <3>1, <5>1
      <4> QED BY <2>6, <3>4, <4>1
    <3>5. CASE j # 2 /\ k # 2
      <4>1. PICK a \in 1..n : t[j] = s[a] /\ j = IF a = 1 THEN 1 ELSE a + 1
        BY <3>3, <3>5
      <4>2. PICK b \in 1..n : t[k] = s[b] /\ k = IF b = 1 THEN 1 ELSE b + 1
        BY <3>3, <3>5
      <4> QED BY <3>2, <4>1, <4>2
    <3> QED BY <3>4, <3>5
  <2>10. t # <<>> /\ Len(t) # 1
    BY <2>1, <2>5
  <2> QED BY <2>5, <2>8, <2>9, <2>10
<1> QED BY <1>1, <1>2

\* A port taken out of the list.
LEMMA UnlinkChain ==
  ASSUME NEW s \in Seq(ChainPorts), NEW p
  PROVE  /\ Unlinked(s, p) \in Seq(ChainPorts)
         /\ Once(s) => /\ Once(Unlinked(s, p))
                       /\ PortsOf(Unlinked(s, p)) = PortsOf(s) \ {p}
         /\ p \in PortsOf(s) => Len(Unlinked(s, p)) = Len(s) - 1
<1>1. CASE p \notin PortsOf(s)
  BY <1>1 DEF Unlinked, PortsOf
<1>2. CASE p \in PortsOf(s)
  <2> DEFINE n == Len(s)
             t == Unlinked(s, p)
  <2>1. n \in Nat /\ DOMAIN s = 1..n /\ \A j \in 1..n : s[j] \in ChainPorts
    OBVIOUS
  <2>2. PICK k \in DOMAIN s : k = CHOOSE j \in DOMAIN s : s[j] = p
    BY <1>2 DEF PortsOf
  <2>3. k \in 1..n /\ s[k] = p
    BY <1>2, <2>1, <2>2 DEF PortsOf
  <2>4. t = [j \in 1..(n - 1) |-> IF j < k THEN s[j] ELSE s[j + 1]]
    BY <1>2, <2>2 DEF Unlinked, PortsOf
  <2> HIDE DEF n, t
  <2>5. n - 1 \in Nat /\ \A j \in 1..(n - 1) : j \in 1..n /\ j + 1 \in 1..n
    BY <2>1, <2>3
  <2>6. t \in Seq(ChainPorts) /\ Len(t) = n - 1 /\ DOMAIN t = 1..(n - 1)
    <3>1. t \in [1..(n - 1) -> ChainPorts]
      BY <2>1, <2>4, <2>5
    <3> QED BY <2>5, <3>1
  <2>7. ASSUME Once(s)
        PROVE  Once(t) /\ PortsOf(t) = PortsOf(s) \ {p}
    <3>1. \A i, j \in 1..n : s[i] = s[j] => i = j
      BY <2>1, <2>7 DEF Once
    <3>2. \A j \in 1..(n - 1) : \E i \in 1..n : i # k /\ t[j] = s[i] /\ i = IF j < k THEN j ELSE j + 1
      BY <2>1, <2>3, <2>4, <2>5
    <3>3. Once(t)
      <4> SUFFICES ASSUME NEW i \in 1..(n - 1), NEW j \in 1..(n - 1), t[i] = t[j]
                   PROVE  i = j
        BY <2>6 DEF Once
      <4>1. PICK a \in 1..n : t[i] = s[a] /\ a = IF i < k THEN i ELSE i + 1
        BY <3>2
      <4>2. PICK b \in 1..n : t[j] = s[b] /\ b = IF j < k THEN j ELSE j + 1
        BY <3>2
      <4>3. a = b
        BY <3>1, <4>1, <4>2
      <4> QED BY <2>1, <2>3, <4>1, <4>2, <4>3
    <3>4. \A i \in 1..n : i # k => \E j \in 1..(n - 1) : t[j] = s[i]
      <4> TAKE i \in 1..n
      <4>1. CASE i < k
        <5>1. i \in 1..(n - 1)
          BY <2>1, <2>3, <4>1
        <5> QED BY <2>4, <4>1, <5>1
      <4>2. CASE i > k
        <5>1. i - 1 \in 1..(n - 1) /\ ~(i - 1 < k) /\ i - 1 + 1 = i
          BY <2>1, <2>3, <4>2
        <5> QED BY <2>4, <5>1
      <4> QED BY <2>1, <2>3, <4>1, <4>2
    <3>5. \A i \in 1..n : s[i] = p <=> i = k
      BY <2>3, <3>1
    <3>6. \A x : x \in PortsOf(t) <=> \E j \in 1..(n - 1) : t[j] = x
      BY <2>6 DEF PortsOf
    <3>7. \A x : x \in PortsOf(s) <=> \E j \in 1..n : s[j] = x
      BY <2>1 DEF PortsOf
    <3>8. ASSUME NEW x \in PortsOf(t)
          PROVE  x \in PortsOf(s) \ {p}
      <4>1. PICK j \in 1..(n - 1) : t[j] = x
        BY <3>6
      <4>2. PICK i \in 1..n : i # k /\ t[j] = s[i]
        BY <3>2
      <4> QED BY <3>5, <3>7, <4>1, <4>2
    <3>9. ASSUME NEW x \in PortsOf(s) \ {p}
          PROVE  x \in PortsOf(t)
      <4>1. PICK i \in 1..n : s[i] = x
        BY <3>7
      <4>2. PICK j \in 1..(n - 1) : t[j] = s[i]
        BY <3>4, <3>5, <4>1
      <4> QED BY <3>6, <4>1, <4>2
    <3> QED BY <3>3, <3>8, <3>9
  <2> QED BY <2>6, <2>7 DEF n, t
<1> QED BY <1>1, <1>2

-----------------------------------------------------------------------------
\* Where the handler is when nobody called it.
LEMMA NoWalkShape ==
  NoWalk \in [info : Infos \cup {NoInfo}, at : Nat, end : Nat, pass : Nat,
              idle : SUBSET ChainPorts, cut : BOOLEAN] /\ NoWalk.info = NoInfo
BY DEF NoWalk

\* At the start no port is linked.
LEMMA ChainInitHolds ==
  ASSUME ChainInit
  PROVE  ChainInv
<1>1. ChainShape
  BY DEF ChainInit, ChainShape, ChainStates
<1>2. WalkInv
  BY NoWalkShape DEF ChainInit, WalkInv
<1>3. FoundInv /\ JoinedInv /\ HeardInv
  BY DEF ChainInit, FoundInv, JoinedInv, HeardInv
<1> QED BY <1>1, <1>2, <1>3 DEF ChainInv

\* The shape of the state, in a step of a port or the handler, after a race too.
LEMMA ChainShapeStep ==
  ASSUME ChainShape, [ChainNext]_chainVars
  PROVE  ChainShape'
<1> USE DEF ChainShape, ChainStates, ChainAt, Go, Fault
<1>1. CASE UNCHANGED chainVars
  BY <1>1 DEF chainVars
<1>2. ASSUME NEW p \in ChainPorts, LinkFind(p) PROVE ChainShape'
  <2>1. /\ chainPc' = [chainPc EXCEPT ![p] = "found"] /\ UNCHANGED <<hashMutex, infoIrq, pending>>
        /\ \E i \in Infos \cup {NoInfo} :
             /\ portInfo' = [portInfo EXCEPT ![p] = i] /\ hashInfo' \in Infos \cup {NoInfo}
             /\ infoLive' \subseteq Infos
             /\ infoChain' = infoChain \/ infoChain' = [infoChain EXCEPT ![i] = <<>>]
    BY <1>2 DEF LinkFind
  <2>2. infoChain' \in [Infos -> Seq(ChainPorts)]
    <3>1. <<>> \in Seq(ChainPorts)
      OBVIOUS
    <3>2. \A i, c : c \in Seq(ChainPorts) => [infoChain EXCEPT ![i] = c] \in [Infos -> Seq(ChainPorts)]
      OBVIOUS
    <3> QED BY <2>1, <3>1, <3>2
  <2> QED BY <2>1, <2>2
<1>3. ASSUME NEW p \in ChainPorts, LinkJoin(p) PROVE ChainShape'
  <2> DEFINE i == portInfo[p]
             c == IF infoChain[i] = <<>> THEN <<p>> ELSE <<Head(infoChain[i]), p>> \o Tail(infoChain[i])
  <2>1. CASE i \notin infoLive
    BY <1>3, <2>1 DEF LinkJoin
  <2>2. CASE i \in infoLive
    <3>1. infoChain[i] \in Seq(ChainPorts) /\ i \in Infos
      BY <2>2
    <3>2. c \in Seq(ChainPorts)
      BY <3>1, JoinChain
    <3>3. /\ infoChain' = [infoChain EXCEPT ![i] = c]
          /\ \E to \in {"request", "open"} : chainPc' = [chainPc EXCEPT ![p] = to]
          /\ UNCHANGED <<portInfo, hashInfo, hashMutex, infoLive, infoIrq, pending>>
      BY <1>3, <2>2 DEF LinkJoin
    <3>4. infoChain' \in [Infos -> Seq(ChainPorts)]
      BY <3>1, <3>2, <3>3
    <3> HIDE DEF c
    <3> QED BY <3>1, <3>3, <3>4
  <2> QED BY <2>1, <2>2
<1>4. ASSUME NEW p \in ChainPorts, LinkRequest(p) PROVE ChainShape'
  BY <1>4 DEF LinkRequest
<1>5. ASSUME NEW p \in ChainPorts, UnlinkBegin(p) PROVE ChainShape'
  BY <1>5 DEF UnlinkBegin
<1>6. ASSUME NEW p \in ChainPorts, DoUnlink(p) PROVE ChainShape'
  <2> DEFINE i == portInfo[p]
  <2>1. CASE i \notin infoLive \/ infoChain[i] = <<>>
    BY <1>6, <2>1 DEF DoUnlink
  <2>2. CASE ~(i \notin infoLive \/ infoChain[i] = <<>>)
    <3>1. infoChain[i] \in Seq(ChainPorts) /\ i \in Infos
      BY <2>2
    <3>2. Unlinked(infoChain[i], p) \in Seq(ChainPorts)
      BY <3>1, UnlinkChain
    <3>3. /\ infoChain' = [infoChain EXCEPT ![i] = Unlinked(infoChain[i], p)]
          /\ pending' = pending \ {p} /\ chainPc' = [chainPc EXCEPT ![p] = "drop"]
          /\ UNCHANGED <<portInfo, hashInfo, hashMutex, infoLive, infoIrq>>
      BY <1>6, <2>2 DEF DoUnlink
    <3>4. infoChain' \in [Infos -> Seq(ChainPorts)]
      BY <3>1, <3>2, <3>3
    <3> QED BY <3>1, <3>3, <3>4
  <2> QED BY <2>1, <2>2
<1>7. ASSUME NEW p \in ChainPorts, DropInfo(p) PROVE ChainShape'
  BY <1>7 DEF DropInfo
<1>8. ASSUME NEW p \in ChainPorts, Raise(p) PROVE ChainShape'
  BY <1>8 DEF Raise
<1>9. CASE WalkStart \/ WalkPort \/ WalkEnd
  BY <1>9 DEF WalkStart, WalkPort, WalkEnd
<1>10. CASE ChainReboot
  BY <1>10 DEF ChainReboot
<1> QED BY <1>1, <1>2, <1>3, <1>4, <1>5, <1>6, <1>7, <1>8, <1>9, <1>10 DEF ChainNext

-----------------------------------------------------------------------------
\* One port further round the list of n.
LEMMA RoundOn ==
  ASSUME NEW n \in Nat \ {0}, NEW a \in 1..n, NEW e \in 1..n, NEW next \in 1..n,
         next = IF a = n THEN 1 ELSE a + 1
  PROVE  /\ next = a => Round(a, a, n) = 1..n /\ n = 1
         /\ next # a => Round(a, next, n) = {a}
         /\ a # e /\ next # e => Round(e, next, n) = Round(e, a, n) \cup {a}
         /\ a # e /\ next = e => 1..n = Round(e, a, n) \cup {a}
<1>1. ASSUME next = a
      PROVE  Round(a, a, n) = 1..n /\ n = 1
  <2>1. ASSUME NEW x PROVE x \in Round(a, a, n) <=> x \in 1..n
    BY <1>1, <2>1 DEF Round
  <2>2. n = 1
    BY <1>1
  <2> QED BY <2>1, <2>2
<1>2. next # a => Round(a, next, n) = {a}
  <2>1. ASSUME next # a, NEW x PROVE x \in Round(a, next, n) <=> x \in {a}
    BY <2>1 DEF Round
  <2> QED BY <2>1
<1>3. ASSUME a # e, next # e
      PROVE  Round(e, next, n) = Round(e, a, n) \cup {a}
  <2>1. ASSUME NEW x PROVE x \in Round(e, next, n) <=> x \in Round(e, a, n) \cup {a}
    BY <1>3, <2>1 DEF Round
  <2> QED BY <2>1
<1>4. ASSUME a # e, next = e
      PROVE  1..n = Round(e, a, n) \cup {a}
  <2>1. ASSUME NEW x PROVE x \in 1..n <=> x \in Round(e, a, n) \cup {a}
    BY <1>4, <2>1 DEF Round
  <2> QED BY <2>1
<1> QED BY <1>1, <1>2, <1>3, <1>4

\* The handler handles a port, or finds it idle.
LEMMA WalkPortStep ==
  ASSUME ChainShape, WalkInv, WalkPort
  PROVE  WalkInv'
<1> DEFINE chain == infoChain[walk.info]
           n == Len(chain)
           p == chain[walk.at]
           handled == p \in pending
           next == IF walk.at = n THEN 1 ELSE walk.at + 1
           end == IF handled THEN 0 ELSE IF walk.end = 0 THEN walk.at ELSE walk.end
           cut == next = 1 /\ walk.pass > PassLimit
           idle == IF handled THEN {} ELSE walk.idle \cup {p}
           pass == IF next = 1 /\ ~cut THEN walk.pass + 1 ELSE walk.pass
           at == IF cut \/ next = end THEN 0 ELSE next
<1>1. /\ walk.info # NoInfo /\ walk.at # 0 /\ infoChain' = infoChain
      /\ walk' = [walk EXCEPT !.at = at, !.end = end, !.pass = pass, !.cut = cut, !.idle = idle]
  BY DEF WalkPort
<1>2. /\ walk \in [info : Infos \cup {NoInfo}, at : Nat, end : Nat, pass : Nat,
                   idle : SUBSET ChainPorts, cut : BOOLEAN]
      /\ walk.info \in Infos /\ chain \in Seq(ChainPorts)
  BY <1>1 DEF WalkInv, ChainShape
<1>3. /\ n \in Nat \ {0} /\ walk.at \in 1..n /\ walk.end \in 0..n /\ DOMAIN chain = 1..n
      /\ walk.at # walk.end /\ (walk.end = 0 => walk.idle = {})
      /\ walk.end # 0 => walk.idle = {chain[k] : k \in Round(walk.end, walk.at, n)}
  BY <1>1, <1>2 DEF WalkInv
<1> HIDE DEF n, chain
<1>4. p \in ChainPorts
  BY <1>2, <1>3 DEF n
<1>5. next \in 1..n /\ end \in 0..n /\ at \in 0..n /\ idle \subseteq ChainPorts /\ pass \in Nat /\ cut \in BOOLEAN
  BY <1>2, <1>3, <1>4
<1>6. /\ walk' \in [info : Infos \cup {NoInfo}, at : Nat, end : Nat, pass : Nat,
                    idle : SUBSET ChainPorts, cut : BOOLEAN]
      /\ walk'.info = walk.info /\ walk'.at = at /\ walk'.end = end /\ walk'.idle = idle /\ walk'.cut = cut
  <2>1. at \in Nat /\ end \in Nat
    BY <1>3, <1>5
  <2> HIDE DEF at, end, pass, cut, idle
  <2>2. walk' \in [info : Infos \cup {NoInfo}, at : Nat, end : Nat, pass : Nat,
                   idle : SUBSET ChainPorts, cut : BOOLEAN]
    BY <1>1, <1>2, <1>5, <2>1
  <2>3. walk'.info = walk.info /\ walk'.at = at /\ walk'.end = end
    BY <1>1, <1>2
  <2>4. walk'.idle = idle /\ walk'.cut = cut
    BY <1>1, <1>2
  <2> QED BY <2>2, <2>3, <2>4
<1>7. ASSUME at # 0
      PROVE  /\ at # end /\ (end = 0 => idle = {})
             /\ end # 0 => idle = {chain[k] : k \in Round(end, at, n)}
  <2>1. at = next /\ next # end
    BY <1>7
  <2>2. CASE handled
    BY <1>5, <2>1, <2>2
  <2>3. CASE ~handled /\ walk.end = 0
    <3>1. end = walk.at /\ idle = {p} /\ walk.at # 0
      BY <1>3, <2>3
    <3>2. Round(walk.at, next, n) = {walk.at}
      BY <1>3, <1>5, <2>1, <3>1, RoundOn
    <3>3. {chain[k] : k \in Round(end, at, n)} = {chain[walk.at]}
      BY <2>1, <3>1, <3>2
    <3> QED BY <2>1, <3>1, <3>3
  <2>4. CASE ~handled /\ walk.end # 0
    <3>1. end = walk.end /\ idle = walk.idle \cup {p} /\ walk.end \in 1..n
      BY <1>3, <2>4
    <3>2. Round(walk.end, next, n) = Round(walk.end, walk.at, n) \cup {walk.at}
      BY <1>3, <1>5, <2>1, <3>1, RoundOn
    <3>3. {chain[k] : k \in Round(end, at, n)} = {chain[k] : k \in Round(walk.end, walk.at, n)} \cup {chain[walk.at]}
      BY <2>1, <3>1, <3>2
    <3> QED BY <1>3, <2>1, <2>4, <3>1, <3>3
  <2> QED BY <2>2, <2>3, <2>4
<1>8. ASSUME at = 0, ~cut
      PROVE  idle = PortsOf(chain)
  <2>1. next = end /\ ~handled
    BY <1>5, <1>8
  <2>2. PortsOf(chain) = {chain[k] : k \in 1..n}
    BY <1>3 DEF PortsOf
  <2>3. CASE walk.end = 0
    <3>1. next = walk.at /\ idle = {p}
      BY <1>3, <2>1, <2>3
    <3>2. n = 1
      BY <1>3, <1>5, <3>1, RoundOn
    <3>3. walk.at = 1 /\ 1..n = {1}
      BY <1>3, <3>2
    <3> QED BY <2>2, <3>1, <3>3
  <2>4. CASE walk.end # 0
    <3>1. next = walk.end /\ idle = walk.idle \cup {p} /\ walk.end \in 1..n
      BY <1>3, <2>1, <2>4
    <3>2. 1..n = Round(walk.end, walk.at, n) \cup {walk.at}
      BY <1>3, <1>5, <3>1, RoundOn
    <3>3. {chain[k] : k \in 1..n} = {chain[k] : k \in Round(walk.end, walk.at, n)} \cup {chain[walk.at]}
      BY <3>2
    <3> QED BY <1>3, <2>2, <2>4, <3>1, <3>3
  <2> QED BY <2>3, <2>4
<1>9. infoChain'[walk'.info] = chain /\ Len(chain) = n
  BY <1>1, <1>6 DEF chain, n
<1> HIDE DEF at, end, idle, cut, pass, next, handled
<1>10. walk'.info # NoInfo =>
         /\ walk'.at \in 0..Len(infoChain'[walk'.info])
         /\ walk'.end \in 0..Len(infoChain'[walk'.info])
         /\ walk'.at # 0 =>
              /\ walk'.at # walk'.end /\ (walk'.end = 0 => walk'.idle = {})
              /\ walk'.end # 0 =>
                   walk'.idle = {infoChain'[walk'.info][k] :
                                   k \in Round(walk'.end, walk'.at, Len(infoChain'[walk'.info]))}
         /\ walk'.at = 0 /\ ~walk'.cut => walk'.idle = PortsOf(infoChain'[walk'.info])
  BY <1>5, <1>6, <1>7, <1>8, <1>9
<1> QED BY <1>6, <1>10 DEF WalkInv, PortsOf, Round

\* The handler, while ports come and go.
LEMMA WalkStep ==
  ASSUME ChainShape, WalkInv, [ChainNext]_chainVars
  PROVE  WalkInv'
<1>1. ASSUME walk' = walk, walk.info = NoInfo \/ infoChain' = infoChain
      PROVE  WalkInv'
  <2>1. CASE walk.info = NoInfo
    BY <1>1, <2>1 DEF WalkInv
  <2>2. CASE infoChain' = infoChain
    BY <1>1, <2>2 DEF WalkInv, PortsOf, Round
  <2> QED BY <1>1, <2>1, <2>2
<1>2. CASE walk' = NoWalk
  BY <1>2, NoWalkShape DEF WalkInv
<1>3. CASE WalkStart
  <2>1. PICK i \in infoIrq : infoChain[i] # <<>> /\ walk' = [NoWalk EXCEPT !.info = i, !.at = 1]
    BY <1>3 DEF WalkStart
  <2>2. i \in Infos /\ infoChain'[i] \in Seq(ChainPorts) /\ infoChain'[i] # <<>>
    BY <1>3, <2>1 DEF ChainShape, WalkStart
  <2>3. walk' = [info |-> i, at |-> 1, end |-> 0, pass |-> 0, idle |-> {}, cut |-> FALSE]
    BY <2>1 DEF NoWalk
  <2>4. Len(infoChain'[i]) \in Nat /\ 1 \in 0..Len(infoChain'[i]) /\ 0 \in 0..Len(infoChain'[i])
    BY <2>2
  <2> QED BY <2>2, <2>3, <2>4 DEF WalkInv
<1>4. CASE WalkPort
  BY <1>4, WalkPortStep
<1>5. CASE WalkEnd \/ ChainReboot
  BY <1>2, <1>5 DEF WalkEnd, ChainReboot
<1>6. CASE UNCHANGED chainVars
  BY <1>1, <1>6 DEF chainVars
<1>7. ASSUME NEW p \in ChainPorts,
             LinkFind(p) \/ LinkJoin(p) \/ LinkRequest(p) \/ UnlinkBegin(p) \/ DoUnlink(p) \/ DropInfo(p)
      PROVE  walk' = walk /\ walk.info = NoInfo
  BY <1>7 DEF LinkFind, LinkJoin, LinkRequest, UnlinkBegin, DoUnlink, DropInfo, ChainAt, Fault
<1>8. ASSUME NEW p \in ChainPorts, Raise(p)
      PROVE  walk' = walk /\ infoChain' = infoChain
  BY <1>8 DEF Raise
<1> QED BY <1>1, <1>3, <1>4, <1>5, <1>6, <1>7, <1>8 DEF ChainNext

-----------------------------------------------------------------------------
\* The steps of a state where no port met an irq_info that was given up.
HashInv == FoundInv /\ JoinedInv /\ HeardInv

\* A port asks for the irq_info of the device.
LEMMA LinkFindStep ==
  ASSUME ChainShape, HashInv, NEW p \in ChainPorts, LinkFind(p), ~chainRace'
  PROVE  HashInv'
<1>1. /\ chainPc[p] = "closed" /\ hashMutex = {} /\ hashMutex' = {} /\ infoIrq' = infoIrq
      /\ chainFault' = chainFault /\ chainPc' = [chainPc EXCEPT ![p] = "found"]
      /\ chainPc \in [ChainPorts -> ChainStates] /\ portInfo \in [ChainPorts -> Infos \cup {NoInfo}]
  BY DEF LinkFind, ChainAt, Go, ChainShape
<1>2. /\ chainPc'[p] = "found" /\ \A q \in ChainPorts : q # p => chainPc'[q] = chainPc[q]
  BY <1>1
<1>3. CASE hashInfo # NoInfo
  <2>1. /\ portInfo' = [portInfo EXCEPT ![p] = hashInfo]
        /\ UNCHANGED <<hashInfo, infoLive, infoChain>>
        /\ ~ \E q \in ChainPorts : chainPc[q] \in {"failed", "drop"} /\ portInfo[q] = hashInfo
    BY <1>3 DEF LinkFind
  <2>2. \A q \in ChainPorts : chainPc[q] \notin {"failed", "drop", "unlink"}
    BY <1>1, <1>3, <2>1 DEF HashInv, FoundInv, JoinedInv
  <2>3. FoundInv'
    BY <1>1, <1>2, <1>3, <2>1 DEF HashInv, FoundInv
  <2>4. HashChain' = HashChain
    BY <2>1 DEF HashChain
  <2>5. JoinedInv'
    <3> SUFFICES /\ Once(HashChain)
                 /\ \A q \in ChainPorts :
                      /\ q \in PortsOf(HashChain) <=> chainPc'[q] \in {"request", "open", "unlink", "failed"}
                      /\ chainPc'[q] \notin {"failed", "unlink", "drop"}
      BY <2>1, <2>4 DEF JoinedInv, Once, PortsOf
    <3> QED BY <1>1, <1>2, <1>3, <2>2 DEF HashInv, JoinedInv
  <2>6. HeardInv'
    <3> SUFFICES ASSUME HashChain # <<>>
                 PROVE  hashInfo \in infoIrq \/ \E q \in ChainPorts : chainPc'[q] = "request"
      BY <1>1, <2>1, <2>4 DEF HeardInv
    <3> QED BY <1>1, <1>2, <1>3, <2>2 DEF HashInv, HeardInv
  <2> QED BY <2>3, <2>5, <2>6 DEF HashInv
<1>4. CASE hashInfo = NoInfo
  <2>1. PICK i \in Infos \ infoLive :
          /\ hashInfo' = i /\ infoLive' = infoLive \cup {i}
          /\ infoChain' = [infoChain EXCEPT ![i] = <<>>] /\ portInfo' = [portInfo EXCEPT ![p] = i]
    BY <1>4 DEF LinkFind
  <2>2. i # NoInfo /\ HashChain' = <<>>
    BY <2>1, ChainAssumption DEF ChainShape, HashChain
  <2>3. \A q \in ChainPorts : q # p => chainPc'[q] = "closed" /\ portInfo'[q] = NoInfo
    BY <1>1, <1>2, <1>4, <2>1 DEF HashInv, FoundInv
  <2>4. FoundInv'
    BY <1>1, <1>2, <1>4, <2>1, <2>2, <2>3 DEF HashInv, FoundInv
  <2>5. JoinedInv'
    <3> SUFFICES /\ Once(<<>>) /\ PortsOf(<<>>) = {}
                 /\ \A q \in ChainPorts :
                      chainPc'[q] \notin {"request", "open", "unlink", "failed", "drop"}
      BY <2>2 DEF JoinedInv, Once, PortsOf
    <3> QED BY <1>2, <2>3 DEF Once, PortsOf
  <2>6. HeardInv'
    BY <2>2 DEF HeardInv
  <2> QED BY <2>4, <2>5, <2>6 DEF HashInv
<1> QED BY <1>3, <1>4

\* A port joins the chain.
LEMMA LinkJoinStep ==
  ASSUME ChainShape, HashInv, NEW p \in ChainPorts, LinkJoin(p), ~chainRace'
  PROVE  HashInv'
<1> DEFINE s == HashChain
           t == IF s = <<>> THEN <<p>> ELSE <<Head(s), p>> \o Tail(s)
           to == IF s = <<>> THEN "request" ELSE "open"
<1>1. /\ chainPc[p] = "found" /\ portInfo[p] = hashInfo /\ hashInfo # NoInfo /\ hashInfo \in infoLive
      /\ hashInfo \in Infos /\ chainPc \in [ChainPorts -> ChainStates] /\ s \in Seq(ChainPorts)
  BY DEF LinkJoin, ChainAt, HashInv, FoundInv, ChainShape, HashChain
<1>2. /\ infoChain' = [infoChain EXCEPT ![hashInfo] = t] /\ chainPc' = [chainPc EXCEPT ![p] = to]
      /\ UNCHANGED <<portInfo, hashInfo, hashMutex, infoLive, infoIrq, chainFault>>
  BY <1>1 DEF LinkJoin, Go, HashChain
<1>3. HashChain' = t /\ t \in Seq(ChainPorts)
  BY <1>1, <1>2, JoinChain DEF HashChain, ChainShape
<1>4. /\ t # <<>> /\ PortsOf(t) = PortsOf(s) \cup {p} /\ (s # <<>> => Len(t) # 1)
      /\ Once(s) /\ p \notin PortsOf(s) => Once(t)
  <2>1. s \in Seq(ChainPorts) /\ t = IF s = <<>> THEN <<p>> ELSE <<Head(s), p>> \o Tail(s)
    BY <1>1
  <2> HIDE DEF s, t
  <2> QED BY <2>1, JoinChain
<1> HIDE DEF t
<1>5. chainPc'[p] = to /\ \A q \in ChainPorts : q # p => chainPc'[q] = chainPc[q]
  BY <1>1, <1>2
<1>6. \A q \in ChainPorts : Only(q) => q = p
  BY <1>1 DEF Only
<1>7. FoundInv'
  BY <1>1, <1>2, <1>5 DEF HashInv, FoundInv
<1>8. JoinedInv'
  <2>1. \A q \in ChainPorts : q # p /\ chainPc'[q] = "unlink" => hashMutex = {q} /\ Len(t) # 1
    <3> TAKE q \in ChainPorts
    <3> HAVE q # p /\ chainPc'[q] = "unlink"
    <3>1. chainPc[q] = "unlink" /\ q \in PortsOf(s)
      BY <1>1, <1>5 DEF HashInv, JoinedInv
    <3>2. s # <<>>
      BY <3>1 DEF PortsOf
    <3> QED BY <1>1, <1>4, <3>1, <3>2 DEF HashInv, JoinedInv
  <2>2. \A q \in ChainPorts : q # p /\ chainPc'[q] = "drop" => hashMutex = {q}
    BY <1>1, <1>5, <1>6 DEF HashInv, JoinedInv
  <2>3. \A q \in ChainPorts : chainPc'[q] # "failed"
    BY <1>1, <1>5, <1>6 DEF HashInv, JoinedInv
  <2>4. Once(t)
    BY <1>1, <1>4 DEF HashInv, JoinedInv
  <2>5. \A q \in ChainPorts : q \in PortsOf(t) <=> chainPc'[q] \in {"request", "open", "unlink", "failed"}
    BY <1>1, <1>4, <1>5 DEF HashInv, JoinedInv
  <2> SUFFICES /\ Once(t)
               /\ \A q \in ChainPorts :
                    /\ q \in PortsOf(t) <=> chainPc'[q] \in {"request", "open", "unlink", "failed"}
                    /\ chainPc'[q] # "failed"
                    /\ chainPc'[q] = "unlink" => hashMutex = {q} /\ Len(t) # 1
                    /\ chainPc'[q] = "drop" => t # <<>> /\ hashMutex = {q}
    BY <1>2, <1>3 DEF JoinedInv, Once, PortsOf
  <2> QED BY <1>4, <1>5, <2>1, <2>2, <2>3, <2>4, <2>5
<1>9. HeardInv'
  <2> SUFFICES hashInfo \in infoIrq \/ \E q \in ChainPorts : chainPc'[q] = "request"
    BY <1>2 DEF HeardInv
  <2>1. CASE s = <<>>
    BY <1>5, <2>1
  <2>2. CASE s # <<>>
    <3>1. \/ hashInfo \in infoIrq
          \/ \E q \in ChainPorts : chainPc[q] = "request"
          \/ \E q \in ChainPorts : chainPc[q] \in {"failed", "unlink"} /\ Only(q)
      BY <1>1, <2>2 DEF HashInv, HeardInv
    <3> QED BY <1>1, <1>5, <1>6, <3>1
  <2> QED BY <2>1, <2>2
<1> QED BY <1>7, <1>8, <1>9 DEF HashInv

\* The interrupt is registered, or the port gives up.
LEMMA LinkRequestStep ==
  ASSUME ChainShape, HashInv, NEW p \in ChainPorts, LinkRequest(p), ~chainRace'
  PROVE  HashInv'
<1>1. /\ chainPc[p] = "request" /\ portInfo[p] = hashInfo /\ hashInfo # NoInfo
      /\ chainPc \in [ChainPorts -> ChainStates]
      /\ UNCHANGED <<portInfo, hashInfo, hashMutex, infoChain, infoLive, chainFault>>
      /\ HashChain' = HashChain
  BY DEF LinkRequest, ChainAt, HashInv, FoundInv, ChainShape, HashChain
<1>2. PICK to \in {"open", "failed"} : /\ chainPc' = [chainPc EXCEPT ![p] = to]
                                       /\ to = "open" => infoIrq' = infoIrq \cup {hashInfo}
                                       /\ to = "failed" => ~HeldByOther(hashInfo, p) /\ infoIrq' = infoIrq
  BY <1>1 DEF LinkRequest, Go
<1>3. chainPc'[p] = to /\ \A q \in ChainPorts : q # p => chainPc'[q] = chainPc[q]
  BY <1>1, <1>2
<1>4. to = "failed" => \A q \in ChainPorts : q # p => chainPc[q] = "closed"
  BY <1>1, <1>2 DEF HeldByOther, HashInv, FoundInv
<1>5. \A q \in ChainPorts : Only(q) => q = p
  BY <1>1 DEF Only
<1>6. FoundInv'
  BY <1>1, <1>2, <1>3 DEF HashInv, FoundInv
<1>7. JoinedInv'
  <2> SUFFICES /\ Once(HashChain)
               /\ \A q \in ChainPorts :
                    /\ q \in PortsOf(HashChain) <=> chainPc'[q] \in {"request", "open", "unlink", "failed"}
                    /\ chainPc'[q] = "failed" => \A r \in ChainPorts : r # q => chainPc'[r] = "closed"
                    /\ chainPc'[q] = "unlink" => hashMutex = {q} /\ Len(HashChain) # 1
                    /\ chainPc'[q] = "drop" => HashChain # <<>> /\ hashMutex = {q}
    BY <1>1 DEF JoinedInv, Once, PortsOf, Only
  <2>1. \A q \in ChainPorts : chainPc'[q] = "failed" => \A r \in ChainPorts : r # q => chainPc'[r] = "closed"
    BY <1>1, <1>3, <1>4, <1>5 DEF HashInv, JoinedInv
  <2> QED BY <1>1, <1>2, <1>3, <1>5, <2>1 DEF HashInv, JoinedInv
<1>8. HeardInv'
  <2> SUFFICES ASSUME HashChain # <<>>
               PROVE  \/ hashInfo \in infoIrq'
                      \/ \E q \in ChainPorts : chainPc'[q] = "failed" /\ \A r \in ChainPorts : r # q => chainPc'[r] = "closed"
    BY <1>1 DEF HeardInv, Only
  <2> QED BY <1>2, <1>3, <1>4
<1> QED BY <1>6, <1>7, <1>8 DEF HashInv

\* A port begins to unlink itself; the last one gives the interrupt back.
LEMMA UnlinkBeginStep ==
  ASSUME ChainShape, HashInv, NEW p \in ChainPorts, UnlinkBegin(p), ~chainRace'
  PROVE  HashInv'
<1> DEFINE s == HashChain
           last == Len(s) = 1
<1>1. /\ chainPc[p] = "open" /\ portInfo[p] = hashInfo /\ hashInfo # NoInfo /\ hashMutex = {}
      /\ chainPc \in [ChainPorts -> ChainStates] /\ p \in PortsOf(s) /\ s # <<>>
  BY DEF UnlinkBegin, ChainAt, HashInv, FoundInv, JoinedInv, ChainShape, PortsOf
<1>2. /\ chainPc' = [chainPc EXCEPT ![p] = "unlink"] /\ hashMutex' = {p}
      /\ UNCHANGED <<portInfo, hashInfo, infoChain, infoLive, chainFault>>
      /\ infoIrq' = IF last THEN infoIrq \ {hashInfo} ELSE infoIrq
      /\ last => ~HeldByOther(hashInfo, p)
  BY <1>1 DEF UnlinkBegin, Go, HashChain
<1>3. HashChain' = s
  BY <1>2 DEF HashChain
<1>4. chainPc'[p] = "unlink" /\ \A q \in ChainPorts : q # p => chainPc'[q] = chainPc[q]
  BY <1>1, <1>2
<1>5. last => \A q \in ChainPorts : q # p => chainPc[q] = "closed"
  BY <1>1, <1>2 DEF HeldByOther, HashInv, FoundInv
<1>6. \A q \in ChainPorts : Only(q) => q = p
  BY <1>1 DEF Only
<1>7. \A q \in ChainPorts : chainPc[q] \notin {"failed", "unlink", "drop"}
  BY <1>1, <1>6 DEF HashInv, JoinedInv
<1> HIDE DEF s, last
<1>8. FoundInv'
  BY <1>1, <1>2, <1>4 DEF HashInv, FoundInv
<1>9. JoinedInv'
  <2> SUFFICES /\ Once(s)
               /\ \A q \in ChainPorts :
                    /\ q \in PortsOf(s) <=> chainPc'[q] \in {"request", "open", "unlink", "failed"}
                    /\ chainPc'[q] \notin {"failed", "drop"}
                    /\ chainPc'[q] = "unlink" =>
                         {p} = {q} /\ (Len(s) = 1 => \A r \in ChainPorts : r # q => chainPc'[r] = "closed")
    BY <1>2, <1>3 DEF JoinedInv, Once, PortsOf, Only
  <2> QED BY <1>1, <1>4, <1>5, <1>7 DEF HashInv, JoinedInv, s, last
<1>10. HeardInv'
  <2> SUFFICES \/ hashInfo \in infoIrq'
               \/ \E q \in ChainPorts : chainPc'[q] = "request"
               \/ \E q \in ChainPorts : chainPc'[q] = "unlink" /\ \A r \in ChainPorts : r # q => chainPc'[r] = "closed"
    BY <1>2 DEF HeardInv, Only
  <2>1. CASE last
    BY <1>4, <1>5, <2>1
  <2>2. CASE ~last
    <3>1. \/ hashInfo \in infoIrq
          \/ \E q \in ChainPorts : chainPc[q] = "request"
      BY <1>1, <1>7 DEF HashInv, HeardInv, s
    <3> QED BY <1>1, <1>2, <1>4, <2>2, <3>1
  <2> QED BY <2>1, <2>2
<1> QED BY <1>8, <1>9, <1>10 DEF HashInv

\* A port leaves the chain.
LEMMA DoUnlinkStep ==
  ASSUME ChainShape, HashInv, NEW p \in ChainPorts, DoUnlink(p), ~chainRace'
  PROVE  HashInv'
<1> DEFINE s == HashChain
           t == Unlinked(s, p)
<1>1. /\ chainPc[p] \in {"unlink", "failed"} /\ portInfo[p] = hashInfo /\ hashInfo # NoInfo
      /\ hashInfo \in infoLive /\ hashInfo \in Infos /\ s \in Seq(ChainPorts)
      /\ chainPc \in [ChainPorts -> ChainStates] /\ p \in PortsOf(s) /\ s # <<>> /\ Once(s)
  BY DEF DoUnlink, ChainAt, HashInv, FoundInv, JoinedInv, ChainShape, PortsOf, HashChain
<1>2. /\ infoChain' = [infoChain EXCEPT ![hashInfo] = t] /\ chainPc' = [chainPc EXCEPT ![p] = "drop"]
      /\ UNCHANGED <<portInfo, hashInfo, hashMutex, infoLive, infoIrq, chainFault>>
  BY <1>1 DEF DoUnlink, Go, HashChain
<1>3. HashChain' = t
  BY <1>1, <1>2 DEF HashChain, ChainShape
<1>4. Once(t) /\ PortsOf(t) = PortsOf(s) \ {p} /\ Len(t) = Len(s) - 1 /\ t \in Seq(ChainPorts)
  BY <1>1, UnlinkChain
<1>5. chainPc'[p] = "drop" /\ \A q \in ChainPorts : q # p => chainPc'[q] = chainPc[q]
  BY <1>1, <1>2
<1>6. \A q \in ChainPorts : Only(q) => q = p
  BY <1>1 DEF Only
<1>7. t # <<>> => chainPc[p] = "unlink" /\ hashMutex = {p}
  <2>1. CASE chainPc[p] = "failed"
    <3>1. \A q \in ChainPorts : q # p => chainPc[q] = "closed"
      BY <1>1, <2>1 DEF HashInv, JoinedInv, Only
    <3>2. PortsOf(t) = {}
      <4>1. \A q \in ChainPorts : q \in PortsOf(s) => q = p
        BY <1>1, <3>1 DEF HashInv, JoinedInv
      <4>2. PortsOf(s) \subseteq ChainPorts
        BY <1>1 DEF PortsOf
      <4> QED BY <1>4, <4>1, <4>2
    <3>3. t = <<>>
      BY <1>4, <3>2 DEF PortsOf
    <3> QED BY <3>3
  <2>2. CASE chainPc[p] = "unlink"
    BY <1>1, <2>2 DEF HashInv, JoinedInv
  <2> QED BY <1>1, <2>1, <2>2
<1>8. t = <<>> => \A q \in ChainPorts : q # p => chainPc[q] = "closed"
  <2> HAVE t = <<>>
  <2>1. Len(s) = 1
    <3>1. Len(t) = 0 /\ Len(s) \in Nat
      BY <1>1
    <3> QED BY <1>4, <3>1
  <2> QED BY <1>1, <2>1 DEF HashInv, JoinedInv, Only
<1>9. \A q \in ChainPorts : q # p => chainPc[q] \notin {"failed", "unlink"} /\ (chainPc[q] = "drop" => hashMutex = {q})
  <2>1. CASE chainPc[p] = "failed"
    BY <1>1, <2>1 DEF HashInv, JoinedInv, Only
  <2>2. CASE chainPc[p] = "unlink"
    BY <1>1, <1>6, <2>2 DEF HashInv, JoinedInv
  <2> QED BY <1>1, <2>1, <2>2
<1>10. \A q \in ChainPorts : q # p /\ chainPc[q] = "drop" => t # <<>>
  BY <1>8
<1> HIDE DEF t
<1>11. FoundInv'
  BY <1>1, <1>2, <1>5 DEF HashInv, FoundInv
<1>12. JoinedInv'
  <2>1. \A q \in ChainPorts : q \in PortsOf(t) <=> chainPc'[q] \in {"request", "open", "unlink", "failed"}
    BY <1>1, <1>4, <1>5 DEF HashInv, JoinedInv
  <2> SUFFICES /\ Once(t)
               /\ \A q \in ChainPorts :
                    /\ q \in PortsOf(t) <=> chainPc'[q] \in {"request", "open", "unlink", "failed"}
                    /\ chainPc'[q] \notin {"failed", "unlink"}
                    /\ chainPc'[q] = "drop" =>
                         IF t = <<>> THEN \A r \in ChainPorts : r # q => chainPc'[r] = "closed"
                         ELSE hashMutex = {q}
    BY <1>2, <1>3 DEF JoinedInv, Once, PortsOf, Only
  <2>2. \A q \in ChainPorts : chainPc'[q] = "drop" =>
                         IF t = <<>> THEN \A r \in ChainPorts : r # q => chainPc'[r] = "closed"
                         ELSE hashMutex = {q}
    BY <1>5, <1>7, <1>8, <1>9, <1>10
  <2> QED BY <1>4, <1>5, <1>9, <2>1, <2>2
<1>13. HeardInv'
  <2> SUFFICES ASSUME t # <<>>
               PROVE  hashInfo \in infoIrq \/ \E q \in ChainPorts : chainPc'[q] = "request"
    BY <1>2, <1>3 DEF HeardInv
  <2>1. \E q \in ChainPorts : q # p /\ chainPc[q] # "closed"
    <3>1. 1 \in DOMAIN t
      BY <1>4
    <3>2. t[1] \in PortsOf(t)
      BY <3>1 DEF PortsOf
    <3>3. t[1] \in ChainPorts /\ t[1] \in PortsOf(s) /\ t[1] # p
      BY <1>4, <3>1, <3>2
    <3> QED BY <1>1, <3>3 DEF HashInv, JoinedInv
  <2>2. ~Only(p)
    BY <2>1 DEF Only
  <2>3. \/ hashInfo \in infoIrq
        \/ \E q \in ChainPorts : chainPc[q] = "request"
    BY <1>1, <1>6, <2>2 DEF HashInv, HeardInv
  <2> QED BY <1>1, <1>5, <2>3
<1> QED BY <1>11, <1>12, <1>13 DEF HashInv

\* A port lets the irq_info go.
LEMMA DropInfoStep ==
  ASSUME ChainShape, HashInv, NEW p \in ChainPorts, DropInfo(p), ~chainRace'
  PROVE  HashInv'
<1>1. /\ chainPc[p] = "drop" /\ portInfo[p] = hashInfo /\ hashInfo # NoInfo
      /\ infoLive = {hashInfo} /\ hashInfo \in Infos
      /\ chainPc \in [ChainPorts -> ChainStates] /\ portInfo \in [ChainPorts -> Infos \cup {NoInfo}]
  BY DEF DropInfo, ChainAt, HashInv, FoundInv, ChainShape
<1>2. /\ chainPc' = [chainPc EXCEPT ![p] = "closed"] /\ hashMutex' = hashMutex \ {p}
      /\ portInfo' = [portInfo EXCEPT ![p] = NoInfo]
      /\ UNCHANGED <<infoChain, infoIrq, chainFault>>
      /\ IF HashChain = <<>> THEN infoLive' = {} /\ hashInfo' = NoInfo
         ELSE UNCHANGED <<infoLive, hashInfo>>
  BY <1>1 DEF DropInfo, Go, HashChain
<1>3. /\ chainPc'[p] = "closed" /\ portInfo'[p] = NoInfo
      /\ \A q \in ChainPorts : q # p => chainPc'[q] = chainPc[q] /\ portInfo'[q] = portInfo[q]
  BY <1>1, <1>2
<1>4. CASE HashChain = <<>>
  <2>1. \A q \in ChainPorts : q # p => chainPc[q] = "closed"
    BY <1>1, <1>4 DEF HashInv, JoinedInv, Only
  <2>2. FoundInv'
    BY <1>1, <1>2, <1>3, <1>4, <2>1 DEF HashInv, FoundInv
  <2> QED BY <1>2, <1>4, <2>2 DEF HashInv, JoinedInv, HeardInv
<1>5. CASE HashChain # <<>>
  <2>1. hashInfo' = hashInfo /\ infoLive' = infoLive /\ HashChain' = HashChain /\ hashMutex = {p}
    BY <1>1, <1>2, <1>5 DEF HashChain, HashInv, JoinedInv
  <2>2. FoundInv'
    BY <1>1, <1>2, <1>3, <2>1 DEF HashInv, FoundInv
  <2>3. \A q \in ChainPorts : Only(q) => q = p
    BY <1>1 DEF Only
  <2>4. \A q \in ChainPorts : q # p => chainPc[q] \notin {"failed", "unlink", "drop"}
    BY <1>1, <1>5, <2>1, <2>3 DEF HashInv, JoinedInv
  <2>5. JoinedInv'
    <3> SUFFICES /\ Once(HashChain)
                 /\ \A q \in ChainPorts :
                      /\ q \in PortsOf(HashChain) <=> chainPc'[q] \in {"request", "open", "unlink", "failed"}
                      /\ chainPc'[q] \notin {"failed", "unlink", "drop"}
      BY <2>1 DEF JoinedInv, Once, PortsOf
    <3> QED BY <1>1, <1>3, <2>4 DEF HashInv, JoinedInv
  <2>6. HeardInv'
    <3> SUFFICES hashInfo \in infoIrq \/ \E q \in ChainPorts : chainPc'[q] = "request"
      BY <1>2, <2>1 DEF HeardInv
    <3> QED BY <1>1, <1>3, <1>5, <2>4 DEF HashInv, HeardInv
  <2> QED BY <2>2, <2>5, <2>6 DEF HashInv
<1> QED BY <1>4, <1>5

\* Every step of the ports and the handler.
LEMMA ChainStep ==
  ASSUME ChainInv, [ChainNext]_chainVars
  PROVE  ChainInv'
<1>1. ChainShape' /\ WalkInv'
  BY ChainShapeStep, WalkStep DEF ChainInv
<1>2. CASE ChainReboot
  BY <1>1, <1>2 DEF ChainReboot, ChainInv, FoundInv, JoinedInv, HeardInv
<1>3. CASE ~ChainReboot /\ ~chainRace'
  <2>1. ~chainRace
    BY <1>3 DEF ChainNext, chainVars, LinkFind, LinkJoin, LinkRequest, UnlinkBegin, DoUnlink, DropInfo,
                Raise, WalkStart, WalkPort, WalkEnd, Fault
  <2>2. ChainShape /\ HashInv
    BY <2>1 DEF ChainInv, HashInv
  <2>3. ASSUME UNCHANGED <<chainPc, portInfo, hashInfo, hashMutex, infoChain, infoLive, infoIrq, chainFault>>
        PROVE  HashInv'
    <3>1. HashChain' = HashChain
      BY <2>3 DEF HashChain
    <3>2. FoundInv'
      BY <2>2, <2>3 DEF HashInv, FoundInv
    <3>3. JoinedInv'
      BY <2>2, <2>3, <3>1 DEF HashInv, JoinedInv, Only, Once, PortsOf
    <3>4. HeardInv'
      BY <2>2, <2>3, <3>1 DEF HashInv, HeardInv, Only
    <3> QED BY <3>2, <3>3, <3>4 DEF HashInv
  <2>4. ASSUME NEW p \in ChainPorts,
               LinkFind(p) \/ LinkJoin(p) \/ LinkRequest(p) \/ UnlinkBegin(p) \/ DoUnlink(p) \/ DropInfo(p)
        PROVE  HashInv'
    BY <1>3, <2>2, <2>4, LinkFindStep, LinkJoinStep, LinkRequestStep, UnlinkBeginStep, DoUnlinkStep, DropInfoStep
  <2>5. ASSUME (\E p \in ChainPorts : Raise(p)) \/ WalkStart \/ WalkPort \/ WalkEnd \/ UNCHANGED chainVars
        PROVE  HashInv'
    BY <2>3, <2>5 DEF Raise, WalkStart, WalkPort, WalkEnd, chainVars
  <2>6. HashInv'
    BY <1>3, <2>4, <2>5 DEF ChainNext
  <2> QED BY <1>1, <2>6 DEF ChainInv, HashInv
<1>4. CASE chainRace'
  BY <1>1, <1>4 DEF ChainInv
<1> QED BY <1>2, <1>3, <1>4

\* However the ports of a device open and close, an open port is in the list of the
\* irq_info of its device, whose interrupt is registered or being requested, and no
\* freed irq_info is used, unless a port met one that was given up; for every set of
\* ports and every amount of memory.
THEOREM PortsHeardAlways == ChainSpec => []PortsHeard
<1>1. ChainInv => PortsHeard
  <2> SUFFICES ASSUME ChainInv, ~chainRace
               PROVE  /\ ~chainFault
                      /\ \A p \in ChainPorts : chainPc[p] = "open" =>
                           /\ portInfo[p] = hashInfo /\ hashInfo \in infoLive
                           /\ p \in Members(hashInfo)
                           /\ hashInfo \in infoIrq
                                \/ \E q \in ChainPorts : chainPc[q] = "request" /\ portInfo[q] = hashInfo
    BY DEF PortsHeard
  <2>1. FoundInv /\ JoinedInv /\ HeardInv
    BY DEF ChainInv
  <2> SUFFICES ASSUME NEW p \in ChainPorts, chainPc[p] = "open"
               PROVE  /\ portInfo[p] = hashInfo /\ hashInfo \in infoLive
                      /\ p \in Members(hashInfo)
                      /\ hashInfo \in infoIrq
                           \/ \E q \in ChainPorts : chainPc[q] = "request" /\ portInfo[q] = hashInfo
    BY <2>1 DEF FoundInv
  <2>2. portInfo[p] = hashInfo /\ hashInfo # NoInfo /\ hashInfo \in infoLive
    BY <2>1 DEF FoundInv
  <2>3. p \in PortsOf(HashChain) /\ HashChain # <<>>
    BY <2>1, <2>2 DEF JoinedInv, PortsOf
  <2>4. \A q \in ChainPorts : chainPc[q] \in {"failed", "unlink"} => ~Only(q)
    BY DEF Only
  <2>5. hashInfo \in infoIrq \/ \E q \in ChainPorts : chainPc[q] = "request"
    BY <2>1, <2>2, <2>3, <2>4 DEF HeardInv
  <2> QED BY <2>1, <2>2, <2>3, <2>5 DEF FoundInv, Members, PortsOf, HashChain
<1> QED BY ChainInitHolds, ChainStep, <1>1, PTL DEF ChainSpec

\* The handler returns, other than at its limit, only after a round in which every port
\* of the list was idle, for every length of the list and every limit.
THEOREM LineReleasedAlways == ChainSpec => []LineReleased
<1>1. ChainInv => LineReleased
  BY DEF ChainInv, WalkInv, LineReleased, Members, PortsOf
<1> QED BY ChainInitHolds, ChainStep, <1>1, PTL DEF ChainSpec


\* The history flags.
FlagInv == chainRace \in BOOLEAN /\ chainFault \in BOOLEAN

\* Every step keeps the two history flags.
LEMMA FlagStep ==
  ASSUME FlagInv, [ChainNext]_chainVars
  PROVE  FlagInv'
<1> USE DEF FlagInv
<1>1. CASE WalkStart \/ WalkPort \/ WalkEnd \/ ChainReboot \/ UNCHANGED chainVars
  BY <1>1 DEF WalkStart, WalkPort, WalkEnd, ChainReboot, chainVars
<1>2. ASSUME NEW p \in ChainPorts,
             \/ LinkFind(p) \/ LinkJoin(p) \/ LinkRequest(p) \/ UnlinkBegin(p)
             \/ DoUnlink(p) \/ DropInfo(p) \/ Raise(p)
      PROVE  FlagInv'
  BY <1>2 DEF LinkFind, LinkJoin, LinkRequest, UnlinkBegin, DoUnlink, DropInfo, Raise, Fault
<1> QED BY <1>1, <1>2 DEF ChainNext

\* The interrupt chain keeps its types, after a race and a fault too, for every set of
\* ports and of memory (8250_cpscom.c:1795, 1863, 1915).
THEOREM ChainTyped == ChainSpec => []ChainTypeOK
<1>1. ChainInit => FlagInv
  BY DEF ChainInit, FlagInv
<1>2. ASSUME ChainInv, FlagInv PROVE ChainTypeOK
  <2>1. ChainShape
    BY <1>2 DEF ChainInv
  <2>2. {chainRace, chainFault} \subseteq BOOLEAN
    BY <1>2, Zenon DEF FlagInv
  <2>3. {infoLive, infoIrq} \subseteq SUBSET Infos /\ DOMAIN infoChain = Infos
    BY <2>1 DEF ChainShape
  <2> QED BY <2>1, <2>2, <2>3 DEF ChainShape, ChainStates, ChainTypeOK
<1>3. FlagInv /\ [ChainNext]_chainVars => FlagInv'
  BY FlagStep
<1> QED BY ChainInitHolds, ChainStep, <1>1, <1>2, <1>3, PTL DEF ChainSpec

-----------------------------------------------------------------------------
(***************************************************************************)
(* SubunitPower.  A write that is alone has its register selected and its  *)
(* variable set when it reaches the data (AloneInv, WriteInv).             *)
(***************************************************************************)

SubRegisters == {"power", "leds"}
SubPlaces == {"none", "onFirst", "onSecond", "onVar", "offFirst", "offSecond", "offVar",
              "index", "data"}

SubShape ==
  /\ subRun \in [SubUsers -> [at : SubPlaces, reg : SubRegisters, alone : BOOLEAN]]
  /\ DOMAIN subReg = SubRegisters /\ DOMAIN subVar = SubRegisters
  /\ subMixed \subseteq SubRegisters

\* Who is alone has no one beside him.
AloneInv ==
  \A u, v \in SubUsers :
    u # v /\ subRun[u].at # "none" /\ subRun[u].alone => subRun[v].at = "none"

\* What a write that is alone has done so far: the index is its register's, the
\* register has the last word, and the other register is as it was.
WriteInv ==
  \A u \in SubUsers : subRun[u].at # "none" /\ subRun[u].alone =>
    LET at == subRun[u].at  r == subRun[u].reg IN
    /\ \A o \in SubRegisters \ subMixed : o # r => subReg[o] = subVar[o]
    /\ at \notin {"index", "data"} => r = "power"
    /\ at # "index" => subIndex = r
    /\ at = "onVar" => subReg[r] = First \cup Second
    /\ at = "offVar" => subReg[r] = {}

SubInv == SubShape /\ AloneInv /\ WriteInv /\ SubunitAsAsked

\* At the start no write is under way.
LEMMA SubunitInit == SubInit => SubInv
BY DEF SubInit, SubInv, SubShape, AloneInv, WriteInv, SubunitAsAsked, NoRun, SubRegisters, SubPlaces

\* A write begins, and the other register is not touched.
LEMMA SubunitBegins ==
  ASSUME SubInv, NEW u \in SubUsers,
         NEW run \in [at : SubPlaces \ {"none"}, reg : SubRegisters, alone : BOOLEAN],
         Begins(u, run), UNCHANGED <<subReg, subMixed, subBoard>>, DOMAIN subVar' = SubRegisters,
         \A o \in SubRegisters : o # run.reg => subVar'[o] = subVar[o],
         run.at \notin {"onVar", "offVar"},
         \/ run.at = "index"
         \/ run.reg = "power" /\ subIndex' = "power" /\ run.at # "data"
  PROVE  SubInv'
<1>1. SubShape'
  BY DEF SubInv, SubShape, Begins
<1>2. AloneInv'
  BY DEF SubInv, SubShape, AloneInv, Begins
<1>3. WriteInv'
  <2>1. SUFFICES ASSUME NEW w \in SubUsers, subRun'[w].at # "none", subRun'[w].alone
               PROVE  LET at == subRun'[w].at  r == subRun'[w].reg IN
                      /\ \A o \in SubRegisters \ subMixed' : o # r => subReg'[o] = subVar'[o]
                      /\ at \notin {"index", "data"} => r = "power"
                      /\ at # "index" => subIndex' = r
                      /\ at = "onVar" => subReg'[r] = (First \cup Second)'
                      /\ at = "offVar" => subReg'[r] = {}
    BY DEF WriteInv
  <2>2. w = u /\ \A v \in SubUsers : subRun[v].at = "none"
    BY <2>1 DEF SubInv, SubShape, AloneInv, Begins
  <2>3. subRun'[w].at = run.at /\ subRun'[w].reg = run.reg
    BY <2>2 DEF Begins, SubInv, SubShape
  <2>4. \A o \in SubRegisters \ subMixed : subReg[o] = subVar[o]
    BY <2>2 DEF SubInv, SubunitAsAsked, SubRegisters
  <2> QED BY <2>3, <2>4
<1>4. subRun'[u].at # "none"
  BY DEF SubInv, SubShape, Begins
<1> QED BY <1>1, <1>2, <1>3, <1>4 DEF SubInv, SubunitAsAsked

\* A step of a write in the middle of it.
LEMMA SubunitMoves ==
  ASSUME SubInv, NEW u \in SubUsers, NEW at \in SubPlaces \ {"none"},
         subRun[u].at # "none", Step(u, at), UNCHANGED <<subVar, subMixed, subBoard>>,
         DOMAIN subReg' = SubRegisters,
         subRun[u].alone =>
           LET r == subRun[u].reg IN
           /\ \A o \in SubRegisters \ subMixed : o # r => subReg'[o] = subVar[o]
           /\ at \notin {"index", "data"} => r = "power"
           /\ at # "index" => subIndex' = r
           /\ at = "onVar" => subReg'[r] = First \cup Second
           /\ at = "offVar" => subReg'[r] = {}
  PROVE  SubInv'
<1>1. SubShape'
  BY DEF SubInv, SubShape, Step
<1>2. AloneInv'
  BY DEF SubInv, SubShape, AloneInv, Step
<1>3. /\ subRun'[u].at = at /\ subRun'[u].reg = subRun[u].reg
      /\ subRun'[u].alone = subRun[u].alone
      /\ \A v \in SubUsers \ {u} : subRun'[v] = subRun[v]
  BY DEF SubInv, SubShape, Step
<1>4. ASSUME NEW w \in SubUsers, subRun'[w].at # "none", subRun'[w].alone
      PROVE  w = u
  BY <1>3, <1>4 DEF SubInv, AloneInv
<1>5. WriteInv'
  BY <1>3, <1>4 DEF WriteInv, First, Second
<1> QED BY <1>1, <1>2, <1>3, <1>5 DEF SubInv, SubunitAsAsked

\* A write ends, with the register as its variable says if it was alone.
LEMMA SubunitEnds ==
  ASSUME SubInv, NEW u \in SubUsers, subRun[u].at # "none", Ends(u),
         DOMAIN subReg' = SubRegisters, DOMAIN subVar' = SubRegisters, subBoard' = subBoard,
         subRun[u].alone => \A o \in SubRegisters :
           o \notin subMixed \/ o = subRun[u].reg => subReg'[o] = subVar'[o]
  PROVE  SubInv'
<1>1. SubShape'
  BY DEF SubInv, SubShape, Ends, NoRun, SubRegisters, SubPlaces
<1>2. AloneInv'
  BY DEF SubInv, SubShape, AloneInv, Ends, NoRun
<1>3. subRun'[u].at = "none" /\ \A v \in SubUsers \ {u} : subRun'[v] = subRun[v]
  BY DEF SubInv, SubShape, Ends, NoRun
<1>4. ASSUME NEW w \in SubUsers, subRun'[w].at # "none", subRun'[w].alone
      PROVE  FALSE
  BY <1>3, <1>4 DEF SubInv, AloneInv
<1>5. WriteInv'
  BY <1>4 DEF WriteInv
<1>6. SubunitAsAsked'
  BY DEF SubunitAsAsked, Ends, SubRegisters
<1> QED BY <1>1, <1>2, <1>5, <1>6 DEF SubInv

\* Every step of the files.
LEMMA SubunitStep ==
  ASSUME SubInv, [SubNext]_subVars
  PROVE  SubInv'
<1>1. CASE UNCHANGED subVars
  BY <1>1 DEF subVars, SubInv, SubShape, AloneInv, WriteInv, SubunitAsAsked, First, Second
<1>2. ASSUME NEW u \in SubUsers, PowerStore(u)
      PROVE  SubInv'
  <2>1. PICK on \in BOOLEAN :
          Begins(u, [at |-> IF on THEN "onFirst" ELSE IF Second = {} THEN "offSecond" ELSE "offFirst",
                     reg |-> "power", alone |-> TRUE])
    BY <1>2 DEF PowerStore
  <2> DEFINE run == [at |-> IF on THEN "onFirst" ELSE IF Second = {} THEN "offSecond" ELSE "offFirst",
                     reg |-> "power", alone |-> TRUE]
  <2>2. /\ run \in [at : SubPlaces \ {"none"}, reg : SubRegisters, alone : BOOLEAN]
        /\ run.reg = "power" /\ run.at \notin {"onVar", "offVar", "data"}
    BY DEF SubPlaces, SubRegisters
  <2>3. UNCHANGED <<subReg, subVar, subMixed, subBoard>> /\ subIndex' = "power"
    BY <1>2 DEF PowerStore
  <2>4. Begins(u, run)
    BY <2>1
  <2> HIDE DEF run
  <2> QED BY <2>2, <2>3, <2>4, SubunitBegins DEF SubInv, SubShape
<1>3. ASSUME NEW u \in SubUsers, ManualSet(u)
      PROVE  SubInv'
  <2>1. PICK r \in SubRegisters :
          /\ Begins(u, [at |-> "index", reg |-> r, alone |-> TRUE])
          /\ \E s : subVar' = [subVar EXCEPT ![r] = s]
    BY <1>3 DEF ManualSet, SubRegisters
  <2> DEFINE run == [at |-> "index", reg |-> r, alone |-> TRUE]
  <2>2. /\ run \in [at : SubPlaces \ {"none"}, reg : SubRegisters, alone : BOOLEAN]
        /\ run.reg = r /\ run.at = "index"
    BY DEF SubPlaces
  <2>3. UNCHANGED <<subReg, subMixed, subBoard>>
    BY <1>3 DEF ManualSet
  <2>4. DOMAIN subVar' = SubRegisters /\ \A o \in SubRegisters : o # r => subVar'[o] = subVar[o]
    BY <2>1 DEF SubInv, SubShape
  <2>5. Begins(u, run)
    BY <2>1
  <2> HIDE DEF run
  <2> QED BY <2>2, <2>3, <2>4, <2>5, SubunitBegins
<1>4. ASSUME NEW u \in SubUsers, PowerFirst(u) \/ PowerSecond(u)
      PROVE  SubInv'
  <2>1. PICK at \in SubPlaces \ {"none"} : \E word :
          /\ Step(u, at) /\ OutData("power", word) /\ at \notin {"index", "data"}
          /\ at = "onVar" => word = First \cup Second
          /\ at = "offVar" => word = {}
    BY <1>4 DEF PowerFirst, PowerSecond, SubPlaces
  <2>2. PICK word :
          /\ Step(u, at) /\ OutData("power", word) /\ at \notin {"index", "data"}
          /\ at = "onVar" => word = First \cup Second
          /\ at = "offVar" => word = {}
    BY <2>1
  <2>3. /\ subRun[u].at \notin {"none", "index", "data"}
        /\ UNCHANGED <<subVar, subMixed, subBoard, subIndex>>
    BY <1>4 DEF PowerFirst, PowerSecond
  <2>4. DOMAIN subReg' = SubRegisters
    BY <2>2 DEF OutData, SubInv, SubShape
  <2>5. subRun[u].alone => /\ subRun[u].reg = "power" /\ subIndex = "power"
                           /\ \A o \in SubRegisters \ subMixed : o # "power" => subReg[o] = subVar[o]
    BY <2>3 DEF SubInv, WriteInv
  <2>6. subRun[u].alone => /\ subReg'["power"] = word
                           /\ \A o \in SubRegisters : o # "power" => subReg'[o] = subReg[o]
    BY <2>2, <2>5 DEF OutData, SubInv, SubShape, SubRegisters
  <2> QED BY <2>2, <2>3, <2>4, <2>5, <2>6, SubunitMoves
<1>5. ASSUME NEW u \in SubUsers, PowerVar(u)
      PROVE  SubInv'
  <2>1. /\ subRun[u].at \in {"onVar", "offVar"} /\ Ends(u) /\ UNCHANGED <<subBoard, subIndex, subReg>>
        /\ subVar' = [subVar EXCEPT !.power = IF subRun[u].at = "onVar" THEN First \cup Second ELSE {}]
    BY <1>5 DEF PowerVar
  <2>2. DOMAIN subVar' = SubRegisters /\ DOMAIN subReg' = SubRegisters
    BY <2>1 DEF SubInv, SubShape
  <2>3. subRun[u].alone => /\ subRun[u].reg = "power" /\ subReg["power"] = subVar'["power"]
                           /\ \A o \in SubRegisters \ subMixed : o # "power" => subReg[o] = subVar'[o]
    BY <2>1 DEF SubInv, SubShape, WriteInv, SubRegisters
  <2> QED BY <2>1, <2>2, <2>3, SubunitEnds
<1>6. ASSUME NEW u \in SubUsers, ManualIndex(u)
      PROVE  SubInv'
  <2>1. /\ subRun[u].at = "index" /\ subIndex' = subRun[u].reg
        /\ Step(u, "data") /\ UNCHANGED <<subBoard, subReg, subVar, subMixed>>
    BY <1>6 DEF ManualIndex
  <2> QED BY <2>1, SubunitMoves DEF SubInv, SubShape, WriteInv, SubPlaces
<1>7. ASSUME NEW u \in SubUsers, ManualData(u)
      PROVE  SubInv'
  <2> DEFINE r == subRun[u].reg
  <2>1. /\ subRun[u].at = "data" /\ OutData(r, subVar[r]) /\ Ends(u)
        /\ UNCHANGED <<subBoard, subIndex, subVar>>
    BY <1>7 DEF ManualData
  <2>2. r \in SubRegisters
    BY DEF SubInv, SubShape
  <2>3. DOMAIN subVar' = SubRegisters /\ DOMAIN subReg' = SubRegisters
    BY <2>1 DEF SubInv, SubShape, OutData
  <2>4. subRun[u].alone => /\ subIndex = r
                           /\ \A o \in SubRegisters \ subMixed : o # r => subReg[o] = subVar[o]
    BY <2>1 DEF SubInv, WriteInv
  <2>5. subRun[u].alone => /\ subReg'[r] = subVar[r]
                           /\ \A o \in SubRegisters : o # r => subReg'[o] = subReg[o]
    BY <2>1, <2>2, <2>4 DEF OutData, SubInv, SubShape
  <2> QED BY <2>1, <2>3, <2>4, <2>5, SubunitEnds
<1> QED BY <1>1, <1>2, <1>3, <1>4, <1>5, <1>6, <1>7 DEF SubNext

\* When no write is under way, a register of the module holds what its variable says,
\* unless its last write overlapped another one (the index and the data are written
\* without a lock), for every set of callers and of lights.
THEOREM SubunitAsAskedAlways == SubSpec => []SubunitAsAsked
<1>1. SubInv => SubunitAsAsked
  BY DEF SubInv
<1> QED BY SubunitInit, SubunitStep, <1>1, PTL DEF SubSpec

\* The values of a register, of the variables and of the index.
WordsInv ==
  /\ subBoard \in SubBoards /\ subIndex \in {"none", "power", "leds"}
  /\ \A r \in SubRegisters :
       subVar[r] \subseteq Parts[r] /\ subReg[r] \subseteq Parts[r] \cup {"foreign"}

\* Data goes to the register of the index, and is foreign to any other.
LEMMA OutDataWords ==
  ASSUME SubShape, WordsInv, NEW r \in SubRegisters, NEW word, word \subseteq Parts[r],
         OutData(r, word)
  PROVE  \A o \in SubRegisters : subReg'[o] \subseteq Parts[o] \cup {"foreign"}
<1> SUFFICES ASSUME NEW o \in SubRegisters PROVE subReg'[o] \subseteq Parts[o] \cup {"foreign"}
  OBVIOUS
<1>1. CASE o = subIndex
  <2>1. subReg'[o] = IF subIndex = r THEN word ELSE {"foreign"}
    BY <1>1 DEF SubShape, OutData
  <2> QED BY <1>1, <2>1
<1>2. CASE o # subIndex
  <2>1. subReg'[o] = subReg[o]
    BY <1>2 DEF SubShape, OutData
  <2> QED BY <2>1 DEF WordsInv
<1> QED BY <1>1, <1>2

\* Every step keeps the words.
LEMMA WordsStep ==
  ASSUME SubInv, WordsInv, [SubNext]_subVars
  PROVE  WordsInv'
<1>0. SubShape
  BY DEF SubInv
<1>1. CASE UNCHANGED subVars
  BY <1>1 DEF subVars, WordsInv
<1>2. First \cup Second \subseteq Parts["power"]
  BY DEF First, Second, Parts
<1>3. ASSUME NEW u \in SubUsers, PowerStore(u)
      PROVE  WordsInv'
  BY <1>3 DEF PowerStore, WordsInv
<1>4. ASSUME NEW u \in SubUsers, PowerFirst(u) \/ PowerSecond(u)
      PROVE  WordsInv'
  <2>1. PICK word : word \subseteq First \cup Second /\ OutData("power", word)
    BY <1>4 DEF PowerFirst, PowerSecond
  <2>2. UNCHANGED <<subBoard, subIndex, subVar>>
    BY <1>4 DEF PowerFirst, PowerSecond
  <2>3. word \subseteq Parts["power"]
    BY <1>2, <2>1
  <2>4. \A o \in SubRegisters : subReg'[o] \subseteq Parts[o] \cup {"foreign"}
    BY <1>0, <2>1, <2>3, OutDataWords DEF SubRegisters
  <2> QED BY <2>2, <2>4 DEF WordsInv
<1>5. ASSUME NEW u \in SubUsers, PowerVar(u)
      PROVE  WordsInv'
  <2>1. UNCHANGED <<subBoard, subIndex, subReg>> /\ \E s \in SUBSET (First \cup Second) : 
           subVar' = [subVar EXCEPT !.power = s]
    BY <1>5 DEF PowerVar
  <2>2. PICK s \in SUBSET (First \cup Second) : subVar' = [subVar EXCEPT !.power = s]
    BY <2>1
  <2>3. \A r \in SubRegisters : subVar'[r] \subseteq Parts[r]
    BY <1>0, <1>2, <2>2 DEF SubShape, WordsInv
  <2> QED BY <2>1, <2>3 DEF WordsInv
<1>6. ASSUME NEW u \in SubUsers, ManualSet(u)
      PROVE  WordsInv'
  <2>1. PICK r \in SubRegisters, on \in BOOLEAN : \E part \in Parts[r] :
          subVar' = [subVar EXCEPT ![r] = IF on THEN @ \cup {part} ELSE @ \ {part}]
    BY <1>6 DEF ManualSet, SubRegisters
  <2>2. PICK part \in Parts[r] :
          subVar' = [subVar EXCEPT ![r] = IF on THEN subVar[r] \cup {part} ELSE subVar[r] \ {part}]
    BY <2>1
  <2>3. UNCHANGED <<subBoard, subIndex, subReg>>
    BY <1>6 DEF ManualSet
  <2>4. ASSUME NEW o \in SubRegisters PROVE subVar'[o] \subseteq Parts[o]
    <3>1. o # r => subVar'[o] = subVar[o]
      BY <1>0, <2>2 DEF SubShape
    <3>2. o = r => subVar'[o] = IF on THEN subVar[o] \cup {part} ELSE subVar[o] \ {part}
      BY <1>0, <2>2 DEF SubShape
    <3>3. subVar[o] \subseteq Parts[o]
      BY DEF WordsInv
    <3> QED BY <3>1, <3>2, <3>3
  <2> QED BY <2>3, <2>4 DEF WordsInv
<1>7. ASSUME NEW u \in SubUsers, ManualIndex(u)
      PROVE  WordsInv'
  <2>1. UNCHANGED <<subBoard, subReg, subVar>> /\ subIndex' \in SubRegisters
    BY <1>0, <1>7 DEF ManualIndex, SubShape
  <2> QED BY <2>1 DEF WordsInv, SubRegisters
<1>8. ASSUME NEW u \in SubUsers, ManualData(u)
      PROVE  WordsInv'
  <2>1. UNCHANGED <<subBoard, subIndex, subVar>> /\ OutData(subRun[u].reg, subVar[subRun[u].reg])
    BY <1>8 DEF ManualData
  <2>2. subRun[u].reg \in SubRegisters
    BY <1>0 DEF SubShape
  <2>3. subVar[subRun[u].reg] \subseteq Parts[subRun[u].reg]
    BY <2>2 DEF WordsInv
  <2>4. \A o \in SubRegisters : subReg'[o] \subseteq Parts[o] \cup {"foreign"}
    BY <1>0, <2>1, <2>2, <2>3, OutDataWords
  <2> QED BY <2>1, <2>4 DEF WordsInv
<1> QED BY <1>1, <1>3, <1>4, <1>5, <1>6, <1>7, <1>8 DEF SubNext

\* The registers and variables of the module hold parts of their own, or data that was
\* meant for another register (cps-driver.c:2075), for every set of callers
\* and of lights.
THEOREM SubunitTyped == SubSpec => []SubTypeOK
<1>1. SubInit => WordsInv
  BY DEF SubInit, WordsInv, SubRegisters
<1>2. WordsInv /\ SubInv => SubTypeOK
  BY DEF WordsInv, SubInv, SubShape, SubTypeOK, SubRegisters
<1>3. SubInv /\ WordsInv /\ [SubNext]_subVars => (SubInv /\ WordsInv)'
  BY SubunitStep, WordsStep
<1> QED BY SubunitInit, <1>1, <1>2, <1>3, PTL DEF SubSpec
=============================================================================
