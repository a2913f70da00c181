----------------------------- MODULE SerialChain -----------------------------
(***************************************************************************)
(* The interrupt chain of 8250_cpscom.c: the ports of one device share an  *)
(* irq_info, found through a hash table, and the interrupt is requested by *)
(* the first port and given back by the last.  The table is under          *)
(* hash_mutex, the list of an irq_info under its own lock, and a port that *)
(* links itself leaves the mutex before it takes the lock.  The handler    *)
(* goes round the list until every port of it was found idle.              *)
(***************************************************************************)
EXTENDS Naturals, Sequences

CONSTANTS
  ChainPorts,  \* ports of the device
  Infos,       \* memory for irq_info
  NoInfo,
  PassLimit    \* rounds of the handler (512)

ASSUME ChainAssumption == NoInfo \notin Infos /\ PassLimit \in Nat

VARIABLES
  chainPc,     \* where each port is between uart_startup and uart_shutdown
  portInfo,    \* the irq_info it found
  hashInfo,    \* the one in the hash table
  hashMutex,   \* a port that unlinks holds it
  infoChain,   \* i->head and the ports after it
  infoLive,    \* allocated
  infoIrq,     \* registered with request_irq
  pending,     \* ports whose UART interrupts
  walk,        \* the handler
  chainRace,   \* history: an irq_info was given up while a port was about to join it
  chainFault   \* the kernel used freed memory or met BUG_ON

chainVars == <<chainPc, portInfo, hashInfo, hashMutex, infoChain, infoLive, infoIrq,
               pending, walk, chainRace, chainFault>>

NoWalk == [info |-> NoInfo, at |-> 0, end |-> 0, pass |-> 0, idle |-> {}, cut |-> FALSE]

ChainTypeOK ==
  /\ chainPc \in [ChainPorts -> {"closed", "found", "request", "open", "unlink", "failed", "drop"}]
  /\ portInfo \in [ChainPorts -> Infos \cup {NoInfo}] /\ hashInfo \in Infos \cup {NoInfo}
  /\ hashMutex \subseteq ChainPorts /\ {infoLive, infoIrq} \subseteq SUBSET Infos
  /\ DOMAIN infoChain = Infos /\ pending \subseteq ChainPorts
  /\ {chainRace, chainFault} \subseteq BOOLEAN

ChainInit ==
  /\ chainPc = [p \in ChainPorts |-> "closed"]
  /\ portInfo = [p \in ChainPorts |-> NoInfo]
  /\ hashInfo = NoInfo /\ hashMutex = {} /\ infoChain = [i \in Infos |-> <<>>]
  /\ infoLive = {} /\ infoIrq = {} /\ pending = {} /\ walk = NoWalk
  /\ chainRace = FALSE /\ chainFault = FALSE

Members(i) == {infoChain[i][k] : k \in DOMAIN infoChain[i]}

\* A process runs while the handler does not, and no fault stopped the kernel.
ChainAt(p, pc) == chainPc[p] = pc /\ walk.info = NoInfo /\ ~chainFault
Go(p, pc) == chainPc' = [chainPc EXCEPT ![p] = pc]

\* Another port has found the same irq_info.
HeldByOther(i, p) == \E q \in ChainPorts \ {p} : portInfo[q] = i

Fault == chainFault' = TRUE /\ UNCHANGED <<chainPc, portInfo, hashInfo, hashMutex,
           infoChain, infoLive, infoIrq, pending, walk, chainRace>>

-----------------------------------------------------------------------------
\* serial_link_irq_chain

\* Under the mutex the irq_info of the device is found or allocated; without
\* memory the startup fails.
LinkFind(p) ==
  /\ ChainAt(p, "closed") /\ hashMutex = {}
  /\ \/ /\ hashInfo # NoInfo /\ portInfo' = [portInfo EXCEPT ![p] = hashInfo]
        /\ chainRace' = (chainRace \/ \E q \in ChainPorts :
                           chainPc[q] \in {"failed", "drop"} /\ portInfo[q] = hashInfo)
        /\ UNCHANGED <<hashInfo, infoLive, infoChain>>
     \/ \E i \in Infos \ infoLive :
          /\ hashInfo = NoInfo /\ hashInfo' = i /\ infoLive' = infoLive \cup {i}
          /\ infoChain' = [infoChain EXCEPT ![i] = <<>>]
          /\ portInfo' = [portInfo EXCEPT ![p] = i] /\ UNCHANGED chainRace
  /\ Go(p, "found")
  /\ UNCHANGED <<hashMutex, infoIrq, pending, walk, chainFault>>

\* Under the lock: behind the head of the list, or as its head; then the
\* interrupt is to be requested.
LinkJoin(p) ==
  LET i == portInfo[p] IN
  /\ ChainAt(p, "found")
  /\ IF i \notin infoLive THEN Fault
     ELSE /\ infoChain' = [infoChain EXCEPT ![i] =
               IF @ = <<>> THEN <<p>> ELSE <<Head(@), p>> \o Tail(@)]
          /\ Go(p, IF infoChain[i] = <<>> THEN "request" ELSE "open")
          /\ UNCHANGED <<portInfo, hashInfo, hashMutex, infoLive, infoIrq, pending, walk,
                         chainRace, chainFault>>

\* request_irq, which may fail.
LinkRequest(p) ==
  LET i == portInfo[p] IN
  /\ ChainAt(p, "request")
  /\ \/ Go(p, "open") /\ infoIrq' = infoIrq \cup {i} /\ UNCHANGED chainRace
     \/ /\ Go(p, "failed") /\ UNCHANGED infoIrq
        /\ chainRace' = (chainRace \/ HeldByOther(i, p))
  /\ UNCHANGED <<portInfo, hashInfo, hashMutex, infoChain, infoLive, pending, walk, chainFault>>

-----------------------------------------------------------------------------
\* serial_unlink_irq_chain and serial_do_unlink

\* Wrong unlink: every port gives the interrupt back.
UnlinkBeginAlways(p) ==
  LET i == hashInfo IN
  /\ ChainAt(p, "open") /\ hashMutex = {}
  /\ IF i = NoInfo \/ infoChain[i] = <<>> THEN Fault
     ELSE /\ hashMutex' = {p} /\ Go(p, "unlink") /\ infoIrq' = infoIrq \ {i}
          /\ UNCHANGED <<portInfo, hashInfo, infoChain, infoLive, pending, walk,
                         chainRace, chainFault>>

\* Under the mutex; the last port of the list gives the interrupt back.
UnlinkBegin(p) ==
  LET i == hashInfo IN
  /\ ChainAt(p, "open") /\ hashMutex = {}
  /\ IF i = NoInfo \/ infoChain[i] = <<>> THEN Fault
     ELSE LET last == Len(infoChain[i]) = 1 IN
          /\ hashMutex' = {p} /\ Go(p, "unlink")
          /\ infoIrq' = IF last THEN infoIrq \ {i} ELSE infoIrq
          /\ chainRace' = (chainRace \/ (last /\ HeldByOther(i, p)))
          /\ UNCHANGED <<portInfo, hashInfo, infoChain, infoLive, pending, walk, chainFault>>

\* list_del, and the port after the head becomes the head.
Unlinked(chain, p) ==
  LET k == CHOOSE k \in DOMAIN chain : chain[k] = p IN
  IF \E j \in DOMAIN chain : chain[j] = p
  THEN [j \in 1..(Len(chain) - 1) |-> IF j < k THEN chain[j] ELSE chain[j + 1]]
  ELSE chain

\* serial_do_unlink, first under the lock; after a failed request without the
\* mutex.
DoUnlink(p) ==
  LET i == portInfo[p] IN
  /\ ChainAt(p, "unlink") \/ ChainAt(p, "failed")
  /\ IF i \notin infoLive \/ infoChain[i] = <<>> THEN Fault
     ELSE /\ infoChain' = [infoChain EXCEPT ![i] = Unlinked(@, p)]
          /\ pending' = pending \ {p} /\ Go(p, "drop")
          /\ UNCHANGED <<portInfo, hashInfo, hashMutex, infoLive, infoIrq, walk, chainRace, chainFault>>

\* Then, without it, an empty irq_info is thrown away.
DropInfo(p) ==
  LET i == portInfo[p] IN
  /\ ChainAt(p, "drop")
  /\ IF i \notin infoLive THEN Fault
     ELSE /\ IF infoChain[i] = <<>>
             THEN infoLive' = infoLive \ {i} /\ hashInfo' = NoInfo
             ELSE UNCHANGED <<infoLive, hashInfo>>
          /\ Go(p, "closed") /\ hashMutex' = hashMutex \ {p}
          /\ portInfo' = [portInfo EXCEPT ![p] = NoInfo]
          /\ UNCHANGED <<infoChain, infoIrq, pending, walk, chainRace, chainFault>>

-----------------------------------------------------------------------------
\* cpscom_interrupt

Raise(p) ==
  /\ chainPc[p] = "open" /\ p \notin pending /\ pending' = pending \cup {p}
  /\ UNCHANGED <<chainPc, portInfo, hashInfo, hashMutex, infoChain, infoLive, infoIrq,
                 walk, chainRace, chainFault>>

\* The line is shared with other devices: the handler may find nothing.
WalkStart ==
  /\ walk.info = NoInfo /\ ~chainFault
  /\ \E i \in infoIrq : infoChain[i] # <<>> /\ walk' = [NoWalk EXCEPT !.info = i, !.at = 1]
  /\ UNCHANGED <<chainPc, portInfo, hashInfo, hashMutex, infoChain, infoLive, infoIrq,
                 pending, chainRace, chainFault>>

\* Wrong round: it ends where the first idle port was.
WalkPortKeepsEnd ==
  LET chain == infoChain[walk.info]
      p == chain[walk.at]
      next == IF walk.at = Len(chain) THEN 1 ELSE walk.at + 1
      end == IF p \notin pending /\ walk.end = 0 THEN walk.at ELSE walk.end IN
  /\ walk.info # NoInfo /\ walk.at # 0
  /\ pending' = pending \ {p}
  /\ walk' = [walk EXCEPT !.at = IF next = end THEN 0 ELSE next, !.end = end,
                          !.pass = IF next = 1 /\ @ <= PassLimit THEN @ + 1 ELSE @,
                          !.idle = IF p \in pending THEN {} ELSE @ \cup {p}]
  /\ UNCHANGED <<chainPc, portInfo, hashInfo, hashMutex, infoChain, infoLive, infoIrq,
                 chainRace, chainFault>>

\* One port: handled, and the round begins again, or idle; then the next one.
\* idle is a history of the ports found idle since one was handled.
WalkPort ==
  LET chain == infoChain[walk.info]
      p == chain[walk.at]
      handled == p \in pending
      next == IF walk.at = Len(chain) THEN 1 ELSE walk.at + 1
      end == IF handled THEN 0 ELSE IF walk.end = 0 THEN walk.at ELSE walk.end IN
  /\ walk.info # NoInfo /\ walk.at # 0
  /\ pending' = pending \ {p}
  /\ LET cut == next = 1 /\ walk.pass > PassLimit IN
     walk' = [walk EXCEPT !.at = IF cut \/ next = end THEN 0 ELSE next, !.end = end,
                          !.pass = IF next = 1 /\ ~cut THEN @ + 1 ELSE @, !.cut = cut,
                          !.idle = IF handled THEN {} ELSE @ \cup {p}]
  /\ UNCHANGED <<chainPc, portInfo, hashInfo, hashMutex, infoChain, infoLive, infoIrq,
                 chainRace, chainFault>>

WalkEnd ==
  /\ walk.info # NoInfo /\ walk.at = 0 /\ walk' = NoWalk
  /\ UNCHANGED <<chainPc, portInfo, hashInfo, hashMutex, infoChain, infoLive, infoIrq,
                 pending, chainRace, chainFault>>

\* The machine restarts after a fault.
ChainReboot ==
  /\ chainFault
  /\ chainPc' = [p \in ChainPorts |-> "closed"]
  /\ portInfo' = [p \in ChainPorts |-> NoInfo]
  /\ hashInfo' = NoInfo /\ hashMutex' = {} /\ infoChain' = [i \in Infos |-> <<>>]
  /\ infoLive' = {} /\ infoIrq' = {} /\ pending' = {} /\ walk' = NoWalk
  /\ chainRace' = FALSE /\ chainFault' = FALSE

ChainNext ==
  \/ \E p \in ChainPorts : \/ LinkFind(p) \/ LinkJoin(p) \/ LinkRequest(p) \/ UnlinkBegin(p)
                           \/ DoUnlink(p) \/ DropInfo(p) \/ Raise(p)
  \/ WalkStart \/ WalkPort \/ WalkEnd \/ ChainReboot

ChainSpec == ChainInit /\ [][ChainNext]_chainVars

-----------------------------------------------------------------------------
\* Properties

\* An open port is in the list of the irq_info of its device and the interrupt
\* is registered, and no freed irq_info is used, in whatever order the ports of
\* the device open and close -- unless a port was between the mutex and the
\* lock, or behind a head whose request_irq was still out, when the irq_info it
\* had found was given up.
PortsHeard ==
  ~chainRace =>
    /\ ~chainFault
    /\ \A p \in ChainPorts : chainPc[p] = "open" =>
         /\ portInfo[p] = hashInfo /\ hashInfo \in infoLive
         /\ p \in Members(hashInfo)
         /\ hashInfo \in infoIrq
              \/ \E q \in ChainPorts : chainPc[q] = "request" /\ portInfo[q] = hashInfo

\* The handler returns, other than at its limit, only after a round in which it
\* found every port of the list idle: the comment before it asks for that.
LineReleased ==
  walk.info # NoInfo /\ walk.at = 0 /\ ~walk.cut => walk.idle = Members(walk.info)
=============================================================================
