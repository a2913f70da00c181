----------------------------- MODULE SerialPort -----------------------------
(***************************************************************************)
(* One serial port of 8250_cpscom.c and its UART: startup and shutdown,    *)
(* sending, receiving, the interrupt handler and the backup timer.  What   *)
(* runs under port.lock has interrupts off and is one step on one core;    *)
(* the UART goes on in between, and the receive loop takes a step for each *)
(* character.  RDI, RLSI, THRI and MSI are the bits of the interrupt       *)
(* enable register (IER).                                                  *)
(***************************************************************************)
EXTENDS Naturals, Sequences, FiniteSets

CONSTANTS
  TxLoad,      \* characters that go out at once (tx_loadsz)
  XmitMax,     \* bound: characters that wait to be sent
  RxFifo,      \* bound: characters in the receive FIFO
  RxLimit,     \* characters that a pass takes after its first (256)
  RxErrors     \* bound: line errors in one opening of the port

ASSUME SerialAssumption ==
  {TxLoad, XmitMax, RxFifo, RxLimit} \subseteq Nat \ {0} /\ RxErrors \in Nat

VARIABLES
  uartAt,      \* where the port is
  uartIer,     \* up->ier
  uartBugs,    \* up->bugs
  uartTimer,   \* the backup timer runs
  uartSaved,   \* up->lsr_saved_flags shows an error
  xmit,        \* characters to send
  xmitStopped, \* by the tty, or by the modem lines
  chipIer,     \* the register IER
  chipThr,     \* transmitter: idle, its last character shifts out, or loaded
  chipThre,    \* the interrupt of an empty transmitter is up
  chipReasserts, \* enabling it at an empty transmitter raises it again
  chipRx,      \* receive FIFO: characters, with or without a line error
  chipDelta,   \* a modem line changed
  rxPass,      \* the loop of receive_chars: characters left, error in lsr
  rxRaised, rxCounted, \* history: line errors, and those that were counted
  rxCut        \* history: a pass ended at its limit with an error in lsr

sendVars == <<xmit, xmitStopped>>
lineVars == <<chipThr, chipThre, chipReasserts>>
rxVars == <<rxPass, rxRaised, rxCounted, rxCut>>
serialVars == <<uartAt, uartIer, uartBugs, uartTimer, uartSaved, sendVars, chipIer,
                lineVars, chipRx, chipDelta, rxVars>>

Interrupts == {"RDI", "RLSI", "THRI", "MSI"}
NoPass == [on |-> FALSE, left |-> 0, err |-> FALSE]

SerialTypeOK ==
  /\ uartAt \in {"closed", "tested", "linked", "open", "closing", "quiet"}
  /\ {uartIer, chipIer} \subseteq SUBSET Interrupts
  /\ uartBugs \subseteq {"THRE", "TXEN"}
  /\ chipThr \in {"idle", "shifting", "loaded"}
  /\ {chipThre, chipReasserts, chipDelta, xmitStopped, uartTimer, uartSaved, rxCut}
       \subseteq BOOLEAN
  /\ chipRx \in UNION {[1..n -> {"good", "bad"}] : n \in 0..RxFifo}
  /\ xmit \in 0..XmitMax
  /\ rxPass \in [on : BOOLEAN, left : 0..RxLimit, err : BOOLEAN]
  /\ {rxRaised, rxCounted} \subseteq 0..RxErrors

SerialInit ==
  /\ uartAt = "closed" /\ uartIer = {} /\ uartBugs = {} /\ uartTimer = FALSE
  /\ uartSaved = FALSE /\ xmit = 0 /\ xmitStopped = FALSE
  /\ chipIer = {} /\ chipThr = "idle" /\ chipThre = TRUE /\ chipReasserts \in BOOLEAN
  /\ chipRx = <<>> /\ chipDelta = FALSE
  /\ rxPass = NoPass /\ rxRaised = 0 /\ rxCounted = 0 /\ rxCut = FALSE

\* The processor is not in the receive loop.
Free == ~rxPass.on
Running == uartAt \in {"open", "closing"}

-----------------------------------------------------------------------------
\* The UART

\* A read of the line status shows an error of the first character, once.
HeadBad == chipRx # <<>> /\ Head(chipRx) = "bad"
Reread(fifo) == IF fifo = <<>> THEN fifo ELSE <<"good">> \o Tail(fifo)

\* Interrupts that are up, and the transmitter's after the register that names
\* the interrupt was read.
Asserted ==
  {b \in chipIer : CASE b = "RDI" -> chipRx # <<>> [] b = "RLSI" -> HeadBad
                     [] b = "THRI" -> chipThre [] b = "MSI" -> chipDelta}
ThreRead == chipThre /\ Asserted # {"THRI"}

\* Whether enabling the transmitter's interrupt raises it.
Raises(old, new) == chipReasserts /\ chipThr # "loaded" /\ "THRI" \in new \ old

\* The transmitter takes the next character into its shift register, and then
\* it is idle.
ChipShifts ==
  /\ chipThr = "loaded" /\ chipThr' = "shifting" /\ chipThre' = TRUE
  /\ UNCHANGED <<uartAt, uartIer, uartBugs, uartTimer, uartSaved, sendVars, chipIer,
                 chipReasserts, chipRx, chipDelta, rxVars>>
ChipIdles ==
  /\ chipThr = "shifting" /\ chipThr' = "idle"
  /\ UNCHANGED <<uartAt, uartIer, uartBugs, uartTimer, uartSaved, sendVars, chipIer,
                 chipThre, chipReasserts, chipRx, chipDelta, rxVars>>

\* A character arrives while there is room; a modem line changes.
ChipReceives ==
  /\ Running /\ Len(chipRx) < RxFifo
  /\ \/ chipRx' = Append(chipRx, "good") /\ UNCHANGED rxRaised
     \/ /\ rxRaised < RxErrors /\ rxRaised' = rxRaised + 1
        /\ chipRx' = Append(chipRx, "bad")
  /\ UNCHANGED <<uartAt, uartIer, uartBugs, uartTimer, uartSaved, sendVars, chipIer,
                 lineVars, chipDelta, rxPass, rxCounted, rxCut>>
ModemChanges ==
  /\ Running /\ ~chipDelta /\ chipDelta' = TRUE
  /\ UNCHANGED <<uartAt, uartIer, uartBugs, uartTimer, uartSaved, sendVars, chipIer,
                 lineVars, chipRx, rxVars>>

-----------------------------------------------------------------------------
\* Startup and shutdown

\* The FIFOs are cleared, the registers read, and the transmitter's interrupt is
\* enabled twice: a UART that raises it only once gets the backup timer.
StartupTest ==
  LET bugs == IF chipThre /\ ~chipReasserts THEN uartBugs \cup {"THRE"} ELSE uartBugs IN
  /\ uartAt = "closed" /\ uartAt' = "tested"
  /\ chipThr' = "idle" /\ chipThre' = FALSE /\ chipRx' = <<>> /\ chipDelta' = FALSE
  /\ chipIer' = {} /\ uartBugs' = bugs /\ uartTimer' = (uartTimer \/ "THRE" \in bugs)
  /\ UNCHANGED <<uartIer, uartSaved, sendVars, chipReasserts, rxVars>>

\* The port joins the chain of its interrupt, or the startup fails there and
\* leaves the timer.
StartupLink ==
  /\ uartAt = "tested" /\ uartAt' \in {"linked", "closed"}
  /\ UNCHANGED <<uartIer, uartBugs, uartTimer, uartSaved, sendVars, chipIer, lineVars,
                 chipRx, chipDelta, rxVars>>

\* A second test of the transmitter's interrupt, the registers are read again,
\* and receiving is enabled.
StartupInit ==
  /\ uartAt = "linked" /\ uartAt' = "open"
  /\ uartBugs' = IF chipReasserts THEN uartBugs \ {"TXEN"} ELSE uartBugs \cup {"TXEN"}
  /\ chipThre' = FALSE /\ uartSaved' = FALSE
  /\ uartIer' = {"RDI", "RLSI"} /\ chipIer' = uartIer'
  /\ xmit' = 0 /\ xmitStopped' = FALSE /\ rxRaised' = 0 /\ rxCounted' = 0 /\ rxCut' = FALSE
  /\ UNCHANGED <<uartTimer, chipThr, chipReasserts, chipRx, chipDelta, rxPass>>

\* A close stops receiving, waits for what is to be sent, and shuts down; a
\* hangup shuts down at once.
StopRx ==
  /\ uartAt = "open" /\ Free /\ uartAt' = "closing"
  /\ uartIer' = uartIer \ {"RLSI"} /\ chipIer' = uartIer'
  /\ chipThre' = (chipThre \/ Raises(chipIer, uartIer'))
  /\ UNCHANGED <<uartBugs, uartTimer, uartSaved, sendVars, chipThr, chipReasserts,
                 chipRx, chipDelta, rxVars>>
ShutdownQuiet ==
  /\ Running /\ Free /\ uartAt' = "quiet" /\ uartIer' = {} /\ chipIer' = {}
  /\ UNCHANGED <<uartBugs, uartTimer, uartSaved, sendVars, lineVars, chipRx, chipDelta, rxVars>>
ShutdownUnlink ==
  /\ uartAt = "quiet" /\ Free /\ uartAt' = "closed" /\ uartTimer' = FALSE
  /\ chipRx' = <<>> /\ chipThr' = "idle" /\ xmit' = 0 /\ rxRaised' = 0 /\ rxCounted' = 0
  /\ UNCHANGED <<uartIer, uartBugs, uartSaved, xmitStopped, chipIer, chipThre,
                 chipReasserts, chipDelta, rxPass, rxCut>>

-----------------------------------------------------------------------------
\* Sending

\* What transmit_chars leaves of x characters where there is room for so many,
\* and of the interrupts: the transmitter's goes when nothing more is to be sent.
Sent(ier, stopped, x, room) ==
  LET out == IF stopped THEN 0 ELSE IF x < room THEN x ELSE room IN
  [left |-> x - out, out |-> out > 0,
   ier |-> IF stopped \/ x = out THEN ier \ {"THRI"} ELSE ier]

\* Its effect on the port and the UART; thre is the transmitter's interrupt
\* before, and written says that IER is written.
Effect(s, thre, written) ==
  /\ xmit' = s.left /\ uartIer' = s.ier
  /\ chipIer' = IF written THEN s.ier ELSE chipIer
  /\ chipThr' = IF s.out THEN "loaded" ELSE chipThr
  /\ chipThre' = (thre /\ ~s.out)

\* cpscom_start_tx with x characters in the buffer: the interrupt is enabled if
\* it is not; for a UART that may not raise it the idle transmitter is loaded.
StartTx(x) ==
  LET ier == uartIer \cup {"THRI"}
      check == "TXEN" \in uartBugs /\ "THRI" \notin uartIer
      s == IF check /\ chipThr = "idle" THEN Sent(ier, FALSE, x, TxLoad)
                                        ELSE [left |-> x, out |-> FALSE, ier |-> ier] IN
  /\ Effect(s, chipThre \/ Raises(chipIer, ier), "THRI" \notin uartIer)
  /\ chipRx' = IF check THEN Reread(chipRx) ELSE chipRx
  /\ uartSaved' = (uartSaved \/ (check /\ HeadBad))

\* A writer's character; the tty is stopped, and started again.
UartWrite ==
  /\ uartAt = "open" /\ Free /\ xmit < XmitMax
  /\ IF xmitStopped
     THEN xmit' = xmit + 1
          /\ UNCHANGED <<uartIer, uartSaved, chipIer, chipThr, chipThre, chipRx>>
     ELSE StartTx(xmit + 1)
  /\ UNCHANGED <<uartAt, uartBugs, uartTimer, xmitStopped, chipReasserts, chipDelta, rxVars>>
TtyStart ==
  /\ Running /\ Free /\ xmitStopped /\ xmitStopped' = FALSE
  /\ IF xmit = 0 THEN UNCHANGED <<xmit, uartIer, uartSaved, chipIer, chipThr, chipThre, chipRx>>
                 ELSE StartTx(xmit)
  /\ UNCHANGED <<uartAt, uartBugs, uartTimer, chipReasserts, chipDelta, rxVars>>
TtyStop ==
  /\ Running /\ Free /\ ~xmitStopped /\ xmitStopped' = TRUE
  /\ Effect([left |-> xmit, out |-> FALSE, ier |-> uartIer \ {"THRI"}], chipThre,
            "THRI" \in uartIer)
  /\ UNCHANGED <<uartAt, uartBugs, uartTimer, uartSaved, chipReasserts, chipRx, chipDelta, rxVars>>

-----------------------------------------------------------------------------
\* The interrupt handler

\* The modem lines are read.  A change that is enabled may stop or restart the
\* transmitter; then, if its interrupt or the line status says so, it is loaded.
ModemAndTransmit(thre, empty) ==
  \E stopped \in IF chipDelta /\ "MSI" \in uartIer THEN BOOLEAN ELSE {xmitStopped} :
    LET restarts == xmitStopped /\ ~stopped
        starts == restarts /\ "THRI" \notin uartIer
        ier == IF restarts THEN uartIer \cup {"THRI"}
               ELSE IF stopped /\ ~xmitStopped THEN uartIer \ {"THRI"} ELSE uartIer
        room == (IF starts /\ "TXEN" \in uartBugs /\ chipThr = "idle" THEN TxLoad ELSE 0)
                + (IF empty /\ chipThr # "loaded" THEN TxLoad ELSE 0)
        s == IF room = 0 THEN [left |-> xmit, out |-> FALSE, ier |-> ier]
                         ELSE Sent(ier, stopped, xmit, room) IN
    /\ xmitStopped' = stopped /\ chipDelta' = FALSE
    /\ Effect(s, thre \/ Raises(chipIer, ier), starts \/ s.ier # uartIer)

\* The interrupt register and the line status are read.  With characters in the
\* FIFO the loop of receive_chars begins.
HandleStart ==
  /\ uartAt \in {"linked", "open", "closing", "quiet"} /\ Free /\ Asserted # {}
  /\ IF chipRx = <<>>
     THEN ModemAndTransmit(ThreRead, TRUE) /\ UNCHANGED <<chipRx, rxPass>>
     ELSE /\ chipRx' = Reread(chipRx)
          /\ rxPass' = [on |-> TRUE, left |-> RxLimit, err |-> HeadBad]
          /\ chipThre' = ThreRead
          /\ UNCHANGED <<uartIer, sendVars, chipIer, chipThr, chipDelta>>
  /\ UNCHANGED <<uartAt, uartBugs, uartTimer, uartSaved, chipReasserts,
                 rxRaised, rxCounted, rxCut>>

\* Wrong loop: it does not stop at its limit.
ReceiveNextUnlimited ==
  LET rest == Tail(chipRx)
      err == rest # <<>> /\ Head(rest) = "bad"
      goOn == rest # <<>> IN
  /\ rxPass.on /\ chipRx' = Reread(rest)
  /\ rxCounted' = IF rxPass.err \/ uartSaved THEN rxCounted + 1 ELSE rxCounted
  /\ uartSaved' = FALSE
  /\ IF goOn
     THEN /\ rxPass' = [on |-> TRUE, left |-> rxPass.left - 1, err |-> err]
          /\ UNCHANGED <<rxCut, uartIer, sendVars, chipIer, chipThr, chipThre, chipDelta>>
     ELSE rxPass' = NoPass /\ rxCut' = (rxCut \/ err) /\ ModemAndTransmit(chipThre, TRUE)
  /\ UNCHANGED <<uartAt, uartBugs, uartTimer, chipReasserts, rxRaised>>

\* One character is taken, with the error that its status showed, now or to an
\* earlier reader; then the status of the next one is read.
ReceiveNext ==
  LET rest == Tail(chipRx)
      err == rest # <<>> /\ Head(rest) = "bad"
      goOn == rest # <<>> /\ rxPass.left > 0 IN
  /\ rxPass.on /\ chipRx' = Reread(rest)
  /\ rxCounted' = IF rxPass.err \/ uartSaved THEN rxCounted + 1 ELSE rxCounted
  /\ uartSaved' = FALSE
  /\ IF goOn
     THEN /\ rxPass' = [on |-> TRUE, left |-> rxPass.left - 1, err |-> err]
          /\ UNCHANGED <<rxCut, uartIer, sendVars, chipIer, chipThr, chipThre, chipDelta>>
     ELSE rxPass' = NoPass /\ rxCut' = (rxCut \/ err) /\ ModemAndTransmit(chipThre, TRUE)
  /\ UNCHANGED <<uartAt, uartBugs, uartTimer, chipReasserts, rxRaised>>

\* Wrong timer: it waits for the transmitter to call.
BackupTimeoutIdle ==
  /\ uartTimer /\ Free
  /\ chipRx' = Reread(chipRx) /\ uartSaved' = (uartSaved \/ HeadBad)
  /\ UNCHANGED <<uartAt, uartIer, uartBugs, uartTimer, sendVars, chipIer, lineVars, chipDelta, rxVars>>

\* The backup timer turns the interrupts off, and loads an empty transmitter
\* that should have called.
BackupTimeout ==
  LET s == IF "THRI" \in uartIer /\ xmit > 0 /\ chipThr # "loaded"
           THEN Sent(uartIer, xmitStopped, xmit, TxLoad)
           ELSE [left |-> xmit, out |-> FALSE, ier |-> uartIer] IN
  /\ uartTimer /\ Free
  /\ Effect(s, chipThre \/ Raises({}, chipIer), FALSE)
  /\ chipRx' = Reread(chipRx) /\ uartSaved' = (uartSaved \/ HeadBad)
  /\ UNCHANGED <<uartAt, uartBugs, uartTimer, xmitStopped, chipReasserts, chipDelta, rxVars>>

-----------------------------------------------------------------------------
\* The other calls of the tty layer

\* Wrong tx_empty: the errors it reads are gone.
TxEmptyForgets ==
  /\ Running /\ Free /\ chipRx' = Reread(chipRx)
  /\ UNCHANGED <<uartAt, uartIer, uartBugs, uartTimer, uartSaved, sendVars, chipIer, lineVars,
                 chipDelta, rxVars>>

\* tx_empty reads the line status and keeps its errors; get_mctrl reads the
\* modem lines.
TxEmpty ==
  /\ Running /\ Free /\ chipRx' = Reread(chipRx) /\ uartSaved' = (uartSaved \/ HeadBad)
  /\ UNCHANGED <<uartAt, uartIer, uartBugs, uartTimer, sendVars, chipIer, lineVars, chipDelta, rxVars>>
GetMctrl ==
  /\ Running /\ Free /\ ModemAndTransmit(chipThre, FALSE)
  /\ UNCHANGED <<uartAt, uartBugs, uartTimer, uartSaved, chipReasserts, chipRx, rxVars>>

\* set_termios and enable_ms turn the modem interrupt on or off.
SetModemInterrupt ==
  /\ uartAt = "open" /\ Free
  /\ uartIer' \in {uartIer \ {"MSI"}, uartIer \cup {"MSI"}} /\ chipIer' = uartIer'
  /\ chipThre' = (chipThre \/ Raises(chipIer, uartIer'))
  /\ UNCHANGED <<uartAt, uartBugs, uartTimer, uartSaved, sendVars, chipThr, chipReasserts,
                 chipRx, chipDelta, rxVars>>

\* Wrong RS-485 call: the interrupts stay off.
Rs485Quiet ==
  /\ uartAt = "open" /\ Free /\ chipIer' = {}
  /\ UNCHANGED <<uartAt, uartIer, uartBugs, uartTimer, uartSaved, sendVars, lineVars,
                 chipRx, chipDelta, rxVars>>

\* The RS-485 calls turn every interrupt off while they are at other registers,
\* and on again.
Rs485 ==
  /\ uartAt = "open" /\ Free /\ chipIer' = uartIer
  /\ chipThre' = (chipThre \/ Raises({}, uartIer))
  /\ UNCHANGED <<uartAt, uartIer, uartBugs, uartTimer, uartSaved, sendVars, chipThr,
                 chipReasserts, chipRx, chipDelta, rxVars>>

SerialNext ==
  \/ ChipShifts \/ ChipIdles \/ ChipReceives \/ ModemChanges
  \/ StartupTest \/ StartupLink \/ StartupInit \/ StopRx \/ ShutdownQuiet \/ ShutdownUnlink
  \/ UartWrite \/ TtyStart \/ TtyStop \/ HandleStart \/ ReceiveNext \/ BackupTimeout
  \/ TxEmpty \/ GetMctrl \/ SetModemInterrupt \/ Rs485

\* The UART sends what it has, an interrupt that is up is handled, the loop goes
\* on, and the timer fires.
SerialFairness ==
  /\ WF_serialVars(ChipShifts) /\ WF_serialVars(ChipIdles)
  /\ WF_serialVars(HandleStart) /\ WF_serialVars(ReceiveNext) /\ WF_serialVars(BackupTimeout)

SerialSpec == SerialInit /\ [][SerialNext]_serialVars
SerialFairSpec == SerialSpec /\ SerialFairness

-----------------------------------------------------------------------------
\* Properties

\* While the port runs, every interrupt that the driver counts on is enabled in
\* the UART, and the receiver's always, whoever rewrites the register: the
\* senders, the handler, the backup timer, termios or the RS-485 calls.
UartArmed == Running => "RDI" \in chipIer /\ uartIer \subseteq chipIer

\* A line error is shown by one read of the status only, and counted once,
\* whichever of the readers saw it: it is in the counters, in lsr_saved_flags,
\* in the status that the loop holds, or still in the UART.  A pass that ends at
\* its limit drops the status it holds.
ErrorsCounted ==
  Running /\ ~rxCut =>
    rxRaised = rxCounted + Cardinality({i \in DOMAIN chipRx : chipRx[i] = "bad"})
               + (IF uartSaved THEN 1 ELSE 0) + (IF rxPass.err THEN 1 ELSE 0)

\* A transmitter does not stay idle while there is something to send, also where
\* the UART does not repeat its interrupt and the backup timer has to notice.
NotIdle ==
  (Running /\ xmit > 0 /\ ~xmitStopped /\ chipThr = "idle")
    ~> (~Running \/ xmitStopped \/ chipThr # "idle")
=============================================================================
