-------------------------- MODULE HttpServerProofs --------------------------
(***************************************************************************)
(* Proofs about HttpServer, for every set of connections, threads of the   *)
(* queue and callers of stop(), and every limit: type correctness, and     *)
(* that every accepted connection is served and closed by one thread.      *)
(*                                                                         *)
(* ConnectionsAreServed counts the holders of a connection.  ServerInv     *)
(* says where they are: in one place of the listener, the queue or one     *)
(* thread (OnePlaceEach), what a thread may still serve (ServedAsCounted), *)
(* and that threads leave an empty queue only (QueueDrains).               *)
(***************************************************************************)
EXTENDS HttpServer, SequenceTheorems, FiniteSetTheorems, TLAPS

InHand == {"first", "check", "select", "request", "close"}
ServantStates == [pc : {"off", "lock", "asleep"} \cup InHand, sock : Conns \cup {NoConn},
                  count : 0 .. KeepAliveMaxCount]
ConnStates == [state : {"away", "backlog", "open", "closed"}, served : Nat, said : BOOLEAN]
OnWay == {w \in Servants : servant[w].pc = "lock"}

LEMMA Types ==
    ASSUME ServerInv
    PROVE  /\ servant \in [Servants -> ServantStates] /\ conn \in [Conns -> ConnStates]
           /\ jobs \in Seq(Conns) /\ listener.sock \in Conns \cup {NoConn}
           /\ KeepAliveMaxCount \in Nat \ {0} /\ NoConn \notin Conns
BY HttpServerAssumption DEF ServerInv, HSTypeOK, ServantStates, InHand, ConnStates

LEMMA OnWayCounted == IsFiniteSet(OnWay) /\ Cardinality(OnWay) \in Nat
<1>1. IsFiniteSet(OnWay)
  BY HttpServerAssumption, FS_Subset DEF OnWay
<1>. QED BY <1>1, FS_CardinalityType

LEMMA OnWayCountedNext == (IsFiniteSet(OnWay) /\ Cardinality(OnWay) \in Nat)'
BY OnWayCounted, PTL

-----------------------------------------------------------------------------
(* ServerInv implies the property *)

(* A set with one element or none *)
LEMMA AtMostOne ==
    ASSUME NEW S, \A x, y \in S : x = y
    PROVE  Cardinality(S) = IF S = {} THEN 0 ELSE 1
<1>1. CASE S = {}
  BY <1>1, FS_EmptySet
<1>2. CASE S # {}
  <2>1. PICK x : S = {x}
    BY <1>2
  <2>. QED BY <1>2, <2>1, FS_Singleton
<1>. QED BY <1>1, <1>2

LEMMA HoldersOfConnection ==
    ASSUME ServerInv, NEW c \in Conns
    PROVE  Holders(c) = IF conn[c].state = "open" THEN 1 ELSE 0
<1>. DEFINE J == {i \in DOMAIN jobs : jobs[i] = c}
            W == {w \in Servants : servant[w].sock = c}
<1>1. c # NoConn
  BY Types
<1>2. Cardinality(J) = IF J = {} THEN 0 ELSE 1
  <2>1. \A x, y \in J : x = y
    BY DEF ServerInv, OnePlaceEach
  <2>. QED BY <2>1, AtMostOne
<1>3. Cardinality(W) = IF W = {} THEN 0 ELSE 1
  <2>1. \A x, y \in W : x = y
    BY <1>1 DEF ServerInv, OnePlaceEach, Serving
  <2>. QED BY <2>1, AtMostOne
<1>4. Holders(c) = (IF listener.sock = c THEN 1 ELSE 0) + (IF J = {} THEN 0 ELSE 1) + (IF W = {} THEN 0 ELSE 1)
  BY <1>2, <1>3 DEF Holders
<1>5. \A w \in W : Serving(w)
  BY <1>1 DEF Serving
<1>6. CASE listener.sock = c
  <2>1. J = {} /\ W = {}
    BY <1>5, <1>6 DEF ServerInv, OnePlaceEach
  <2>2. conn[c].state = "open"
    BY <1>1, <1>6 DEF ServerInv, OnePlaceEach
  <2>. QED BY <1>4, <1>6, <2>1, <2>2
<1>7. CASE listener.sock # c /\ J # {}
  <2>1. W = {} /\ conn[c].state = "open"
    BY <1>5, <1>7 DEF ServerInv, OnePlaceEach
  <2>. QED BY <1>4, <1>7, <2>1
<1>8. CASE listener.sock # c /\ J = {} /\ W # {}
  <2>1. conn[c].state = "open"
    BY <1>5, <1>8 DEF ServerInv, OnePlaceEach
  <2>. QED BY <1>4, <1>8, <2>1
<1>9. CASE listener.sock # c /\ J = {} /\ W = {}
  <2>1. conn[c].state # "open"
    BY <1>9 DEF ServerInv, OnePlaceEach
  <2>. QED BY <1>4, <1>9, <2>1
<1>. QED BY <1>6, <1>7, <1>8, <1>9

LEMMA InvImpliesServed == ServerInv => ConnectionsAreServed
<1>. SUFFICES ASSUME ServerInv PROVE ConnectionsAreServed
  OBVIOUS
<1>1. \A c \in Conns : Holders(c) = IF conn[c].state = "open" THEN 1 ELSE 0
  BY HoldersOfConnection
<1>2. ASSUME listener.pc \in {"finish", "leave", "idle"}, NEW c \in Conns, conn[c].state = "open"
      PROVE  FALSE
  <2>1. jobs = <<>> /\ \A w \in Servants : servant[w].pc = "off"
    BY <1>2 DEF ServerInv, QueueDrains
  <2>2. listener.sock = NoConn /\ \A w \in Servants : servant[w].sock = NoConn
    BY <1>2, <2>1 DEF ServerInv, OnePlaceEach, Serving, At
  <2>3. c # NoConn
    BY Types
  <2>. QED BY <1>2, <2>1, <2>2, <2>3 DEF ServerInv, OnePlaceEach
<1>3. \A c \in Conns : /\ conn[c].served <= KeepAliveMaxCount
                       /\ conn[c].served = KeepAliveMaxCount => conn[c].said
  BY DEF ServerInv, ServedAsCounted
<1>4. ConnectionsAreHeld
  BY <1>1, <1>2, <1>3, Zenon DEF ConnectionsAreHeld
<1>. QED BY <1>4 DEF ConnectionsAreServed, ServerInv

LEMMA ServerInit == HSInit => ServerInv
<1>. SUFFICES ASSUME HSInit PROVE ServerInv
  OBVIOUS
<1>. USE HttpServerAssumption DEF HSInit
<1>1. /\ \A w \in Servants : servant[w] = Fresh
      /\ Fresh = [pc |-> "off", sock |-> NoConn, count |-> 0]
      /\ \A c \in Conns : conn[c].state = "away" /\ conn[c].served = 0
      /\ \A t \in Callers : caller[t].sock = 0
      /\ jobs = <<>> /\ DOMAIN jobs = {} /\ listener.sock = NoConn /\ listener.pc = "idle"
  BY DEF Fresh
<1>2. HSTypeOK
  <2>1. servant \in [Servants -> ServantStates]
    <3>1. "off" \in {"off", "lock", "asleep"} \cup InHand /\ NoConn \in Conns \cup {NoConn}
          /\ 0 \in 0 .. KeepAliveMaxCount
      OBVIOUS
    <3>2. Fresh \in ServantStates
      BY <3>1 DEF ServantStates, Fresh
    <3>. QED BY <3>2
  <2>2. lsock \in Seq([state : {"open", "shut", "closed"}, closes : Nat]) /\ jobs \in Seq(Conns)
    OBVIOUS
  <2>3. conn \in [Conns -> ConnStates]
    BY DEF ConnStates
  <2>4. caller \in [Callers -> [pc : {"idle", "exchange", "shutdown", "close", "clear", "waiting"},
                               sock : 0 .. MaxListens]]
    OBVIOUS
  <2>5. /\ listener.pc = "idle" /\ listener.sock = NoConn /\ listener = [pc |-> "idle", sock |-> NoConn]
        /\ svrSock \in 0 .. MaxListens
    OBVIOUS
  <2>6. listener \in [pc : {"idle", "bound", "entered", "loop", "accept", "error", "fail", "enqueue",
                           "notify", "drain", "wakeAll", "join", "finish", "leave"},
                     sock : Conns \cup {NoConn}]
    BY <2>5
  <2>. QED BY <2>1, <2>2, <2>3, <2>4, <2>5, <2>6 DEF HSTypeOK, ServantStates, InHand, ConnStates
<1>3. SocketsAreKnown
  BY <1>1 DEF SocketsAreKnown
<1>4. OnePlaceEach
  BY <1>1 DEF OnePlaceEach, Serving, At
<1>5. ServedAsCounted
  BY <1>1 DEF ServedAsCounted
<1>6. QueueDrains
  BY <1>1 DEF QueueDrains
<1>7. NoIdleServant
  BY <1>1 DEF NoIdleServant, Asleep
<1>. QED BY <1>2, <1>3, <1>4, <1>5, <1>6, <1>7 DEF ServerInv

-----------------------------------------------------------------------------
(* Steps of the callers and of the listener that touch no connection *)

(* Nothing but the listening sockets changes. *)
LEMMA QueueUntouched ==
    ASSUME ServerInv, UNCHANGED <<listener, jobs, shutdownFlag, servant, conn>>
    PROVE  OnePlaceEach' /\ ServedAsCounted' /\ QueueDrains' /\ NoIdleServant'
<1>1. OnePlaceEach'
  BY DEF ServerInv, OnePlaceEach, Serving, At
<1>2. ServedAsCounted'
  BY DEF ServerInv, ServedAsCounted
<1>3. QueueDrains'
  BY DEF ServerInv, QueueDrains
<1>4. NoIdleServant'
  BY DEF ServerInv, NoIdleServant, Asleep, At
<1>. QED BY <1>1, <1>2, <1>3, <1>4

(* The listener goes on without a connection, and without owing a notification. *)
LEMMA ListenerMoves ==
    ASSUME ServerInv, NEW q \in {"idle", "bound", "entered", "loop", "accept", "error", "fail",
                                 "drain", "wakeAll", "join", "finish", "leave"},
           GoTo(q), listener.pc # "enqueue", listener.pc # "notify", UNCHANGED <<jobs, servant, conn>>
    PROVE  OnePlaceEach' /\ ServedAsCounted' /\ NoIdleServant' /\ listener'.pc = q /\ listener'.sock = NoConn
<1>1. listener'.pc = q /\ listener'.sock = listener.sock /\ listener.sock = NoConn
  BY DEF GoTo, ServerInv, HSTypeOK, OnePlaceEach, At
<1>2. OnePlaceEach'
  BY <1>1 DEF ServerInv, OnePlaceEach, Serving, At
<1>3. ServedAsCounted'
  BY <1>1 DEF ServerInv, ServedAsCounted
<1>4. NoIdleServant'
  BY <1>1 DEF ServerInv, NoIdleServant, Asleep, At
<1>. QED BY <1>1, <1>2, <1>3, <1>4

LEMMA InvBind ==
    ASSUME ServerInv, Bind
    PROVE  ServerInv'
<1>. USE HttpServerAssumption DEF Bind, poolVars
<1>1. PICK q \in {"idle", "bound"} : GoTo(q)
  <2>1. CASE UNCHANGED listener
    <3>1. listener = [listener EXCEPT !.pc = "idle"]
      BY DEF At, ServerInv, HSTypeOK
    <3>. QED BY <2>1, <3>1 DEF GoTo
  <2>. QED BY <2>1
<1>2. OnePlaceEach' /\ ServedAsCounted' /\ NoIdleServant' /\ listener'.pc = q /\ listener'.sock = NoConn
  BY <1>1, ListenerMoves DEF At
<1>3. QueueDrains'
  BY <1>2 DEF ServerInv, QueueDrains, At
<1>4. /\ lsock' \in Seq([state : {"open", "shut", "closed"}, closes : Nat])
      /\ Len(lsock') \in Nat /\ Len(lsock) <= Len(lsock') /\ Len(lsock') <= MaxListens
      /\ svrSock' \in 0 .. MaxListens /\ svrSock' <= Len(lsock')
  <2>1. lsock \in Seq([state : {"open", "shut", "closed"}, closes : Nat])
    BY DEF ServerInv, HSTypeOK
  <2>2. CASE lsock' = Append(lsock, [state |-> "open", closes |-> 0]) /\ svrSock' = Len(lsock')
    <3>1. [state |-> "open", closes |-> 0] \in [state : {"open", "shut", "closed"}, closes : Nat]
      OBVIOUS
    <3>2. /\ lsock' \in Seq([state : {"open", "shut", "closed"}, closes : Nat])
          /\ Len(lsock') = Len(lsock) + 1 /\ Len(lsock) \in Nat
      BY <2>1, <2>2, <3>1
    <3>. QED BY <2>2, <3>2
  <2>3. CASE svrSock' = 0 /\ UNCHANGED lsock
    BY <2>1, <2>3 DEF ServerInv, SocketsAreKnown
  <2>. QED BY <2>2, <2>3
<1>5. HSTypeOK'
  <2>1. listener' = [listener EXCEPT !.pc = q]
    BY <1>1 DEF GoTo
  <2>2. isDecommissioned' \in BOOLEAN
    BY DEF ServerInv, HSTypeOK
  <2>. QED BY <1>4, <2>1, <2>2 DEF ServerInv, HSTypeOK
<1>6. SocketsAreKnown'
  BY <1>4 DEF ServerInv, SocketsAreKnown, HSTypeOK
<1>. QED BY <1>2, <1>3, <1>5, <1>6 DEF ServerInv

LEMMA InvListenTest ==
    ASSUME ServerInv, ListenTest
    PROVE  ServerInv'
<1>. USE HttpServerAssumption DEF ListenTest, listenVars, poolVars
<1>1. PICK q \in {"idle", "entered", "loop", "accept", "error", "fail", "drain", "finish"} :
        /\ GoTo(q)
        /\ \/ At("bound") /\ q \in {"idle", "entered"}
           \/ listener.pc \in {"loop", "accept", "error"} /\ q \in {"loop", "accept", "error", "fail", "drain"}
           \/ At("join") /\ q = "finish" /\ \A w \in Servants : servant[w].pc = "off"
  BY DEF At
<1>2. OnePlaceEach' /\ ServedAsCounted' /\ NoIdleServant' /\ listener'.pc = q /\ listener'.sock = NoConn
  BY <1>1, ListenerMoves DEF At
<1>3. QueueDrains'
  BY <1>1, <1>2 DEF ServerInv, QueueDrains, At
<1>4. HSTypeOK'
  BY <1>1 DEF ServerInv, HSTypeOK, GoTo
<1>5. SocketsAreKnown'
  BY DEF ServerInv, SocketsAreKnown
<1>. QED BY <1>2, <1>3, <1>4, <1>5 DEF ServerInv

LEMMA InvFinishListen ==
    ASSUME ServerInv, FinishListen
    PROVE  ServerInv'
<1>. USE HttpServerAssumption DEF FinishListen, poolVars
<1>1. PICK q \in {"idle", "leave"} : GoTo(q) /\ listener.pc \in {"finish", "leave"}
  BY DEF At
<1>2. OnePlaceEach' /\ ServedAsCounted' /\ NoIdleServant' /\ listener'.pc = q /\ listener'.sock = NoConn
  BY <1>1, ListenerMoves
<1>3. QueueDrains'
  BY <1>1, <1>2 DEF ServerInv, QueueDrains
<1>4. HSTypeOK'
  BY <1>1 DEF ServerInv, HSTypeOK, GoTo
<1>5. SocketsAreKnown'
  BY DEF ServerInv, SocketsAreKnown
<1>. QED BY <1>2, <1>3, <1>4, <1>5 DEF ServerInv

LEMMA InvShutdown ==
    ASSUME ServerInv, Shutdown
    PROVE  ServerInv'
<1>. USE HttpServerAssumption DEF Shutdown, listenVars
<1>1. OnePlaceEach' /\ ServedAsCounted' /\ NoIdleServant' /\ listener'.pc = "wakeAll" /\ listener'.sock = NoConn
  BY ListenerMoves DEF At
<1>2. QueueDrains'
  BY <1>1 DEF ServerInv, QueueDrains, At
<1>3. HSTypeOK'
  BY DEF ServerInv, HSTypeOK, GoTo
<1>4. SocketsAreKnown'
  BY DEF ServerInv, SocketsAreKnown
<1>. QED BY <1>1, <1>2, <1>3, <1>4 DEF ServerInv

(* Closing a listening socket keeps its number. *)
LEMMA ClosedProperties ==
    ASSUME ServerInv, NEW s \in 0 .. Len(lsock)
    PROVE  Closed(s) \in Seq([state : {"open", "shut", "closed"}, closes : Nat]) /\ Len(Closed(s)) = Len(lsock)
<1>1. lsock \in Seq([state : {"open", "shut", "closed"}, closes : Nat])
  BY DEF ServerInv, HSTypeOK
<1>2. CASE s = 0
  BY <1>1, <1>2 DEF Closed
<1>3. CASE s # 0
  <2>1. s \in 1 .. Len(lsock)
    BY <1>1, <1>3
  <2>2. PICK r : r = [state |-> "closed", closes |-> lsock[s].closes + 1]
    OBVIOUS
  <2>3. r \in [state : {"open", "shut", "closed"}, closes : Nat]
    <3>1. lsock[s] \in [state : {"open", "shut", "closed"}, closes : Nat]
      BY <1>1, <2>1, ElementOfSeq
    <3>2. lsock[s].closes + 1 \in Nat
      BY <3>1
    <3>. QED BY <2>2, <3>2
  <2>4. Closed(s) = [lsock EXCEPT ![s] = r]
    BY <1>3, <2>2 DEF Closed
  <2>. QED BY <1>1, <2>1, <2>3, <2>4
<1>. QED BY <1>2, <1>3

LEMMA InvCloseOnError ==
    ASSUME ServerInv, CloseOnError
    PROVE  ServerInv'
<1>. USE HttpServerAssumption DEF CloseOnError, poolVars
<1>1. OnePlaceEach' /\ ServedAsCounted' /\ NoIdleServant' /\ listener'.pc = "drain" /\ listener'.sock = NoConn
  BY ListenerMoves DEF At
<1>2. QueueDrains'
  BY <1>1 DEF ServerInv, QueueDrains, At
<1>3. svrSock \in 0 .. Len(lsock)
  BY DEF ServerInv, HSTypeOK, SocketsAreKnown
<1>4. lsock' \in Seq([state : {"open", "shut", "closed"}, closes : Nat]) /\ Len(lsock') = Len(lsock)
  BY <1>3, ClosedProperties
<1>5. HSTypeOK'
  BY <1>4 DEF ServerInv, HSTypeOK, GoTo
<1>6. SocketsAreKnown'
  BY <1>4 DEF ServerInv, SocketsAreKnown
<1>. QED BY <1>1, <1>2, <1>5, <1>6 DEF ServerInv

LEMMA InvStartListen ==
    ASSUME ServerInv, StartListen
    PROVE  ServerInv'
<1>. USE HttpServerAssumption DEF StartListen
<1>1. PICK r : r = [Fresh EXCEPT !.pc = "lock"]
  OBVIOUS
<1>2. r \in ServantStates /\ r.pc = "lock" /\ r.sock = NoConn
  BY <1>1 DEF ServantStates, InHand, Fresh
<1>3. servant' = [w \in Servants |-> r]
  BY <1>1
<1>4. jobs' = <<>> /\ DOMAIN jobs' = {} /\ Len(jobs') = 0 /\ jobs' \in Seq(Conns)
  OBVIOUS
<1>5. /\ listener.pc = "entered" /\ listener.sock = NoConn /\ jobs = <<>> /\ DOMAIN jobs = {}
      /\ \A w \in Servants : servant[w].pc = "off" /\ servant[w].sock = NoConn
  BY DEF At, ServerInv, QueueDrains, OnePlaceEach, Serving
<1>6. listener'.pc = "loop" /\ listener'.sock = NoConn
  BY <1>5 DEF GoTo, ServerInv, HSTypeOK
<1>7. /\ \A w \in Servants : servant'[w].pc = "lock" /\ servant'[w].sock = NoConn
      /\ servant' \in [Servants -> ServantStates]
  BY <1>2, <1>3
<1>8. HSTypeOK'
  BY <1>4, <1>7 DEF GoTo, ServerInv, HSTypeOK, ServantStates, InHand
<1>9. SocketsAreKnown'
  BY DEF ServerInv, SocketsAreKnown
<1>10. NoConn \notin Conns
  OBVIOUS
<1>11. \A c \in Conns : conn[c].state # "open"
  BY <1>5, <1>10 DEF ServerInv, OnePlaceEach
<1>12. OnePlaceEach'
  BY <1>4, <1>6, <1>7, <1>11 DEF OnePlaceEach, Serving, At
<1>13. ServedAsCounted'
  BY <1>4, <1>6, <1>7 DEF ServerInv, ServedAsCounted
<1>14. QueueDrains'
  BY <1>6, <1>7 DEF QueueDrains
<1>15. NoIdleServant'
  BY <1>7 DEF NoIdleServant, Asleep
<1>. QED BY <1>8, <1>9, <1>12, <1>13, <1>14, <1>15 DEF ServerInv

LEMMA InvAccept ==
    ASSUME ServerInv, Accept
    PROVE  ServerInv'
<1>. USE HttpServerAssumption
<1>1. PICK c \in Conns : /\ conn[c].state = "backlog" /\ conn' = [conn EXCEPT ![c].state = "open"]
                         /\ listener' = [pc |-> "enqueue", sock |-> c]
  BY DEF Accept
<1>2. listener.pc = "accept" /\ listener.sock = NoConn /\ UNCHANGED <<listenVars, jobs, shutdownFlag, servant, caller>>
  BY DEF Accept, At, poolVars, ServerInv, OnePlaceEach
<1>3. /\ conn' \in [Conns -> ConnStates] /\ conn'[c].state = "open" /\ conn'[c].served = 0
      /\ conn'[c].said = conn[c].said /\ \A d \in Conns : d # c => conn'[d] = conn[d]
  BY <1>1, Types DEF ConnStates, ServerInv, ServedAsCounted
<1>4. listener'.pc = "enqueue" /\ listener'.sock = c
  BY <1>1
<1>5. HSTypeOK'
  BY <1>1, <1>2, <1>3 DEF listenVars, ServerInv, HSTypeOK, ConnStates
<1>6. SocketsAreKnown'
  BY <1>2 DEF listenVars, ServerInv, SocketsAreKnown
<1>7. /\ \A i \in DOMAIN jobs : jobs[i] \in Conns /\ conn[jobs[i]].state = "open" /\ jobs[i] # c
      /\ \A w \in Servants : Serving(w) =>
            /\ servant[w].sock \in Conns /\ servant[w].sock # c /\ conn[servant[w].sock].state = "open"
  BY <1>1, Types DEF ServerInv, OnePlaceEach, Serving, ServantStates
<1>8. OnePlaceEach'
  BY <1>2, <1>3, <1>4, <1>7 DEF ServerInv, OnePlaceEach, Serving, At
<1>9. ServedAsCounted'
  <2>1. \A d \in Conns :
         /\ conn'[d].served <= KeepAliveMaxCount
         /\ conn'[d].served = KeepAliveMaxCount => conn'[d].said
         /\ conn'[d].state \in {"away", "backlog"} => conn'[d].served = 0
    BY <1>3 DEF ServerInv, ServedAsCounted
  <2>2. \A i \in DOMAIN jobs' : conn'[jobs'[i]].served = 0
    BY <1>2, <1>3, <1>7 DEF ServerInv, ServedAsCounted
  <2>3. \A w \in Servants : servant[w].pc \in {"first", "check", "select", "request"} => Serving(w)
    BY DEF ServerInv, OnePlaceEach
  <2>4. \A w \in Servants : servant'[w].pc \in {"first", "check", "select", "request"} =>
         servant'[w].count > 0 /\ conn'[servant'[w].sock].served = KeepAliveMaxCount - servant'[w].count
    BY <1>2, <1>3, <1>7, <2>3 DEF ServerInv, ServedAsCounted
  <2>. QED BY <1>3, <1>4, <2>1, <2>2, <2>4 DEF ServedAsCounted
<1>10. QueueDrains'
  BY <1>2, <1>4 DEF ServerInv, QueueDrains
<1>11. NoIdleServant'
  BY <1>2, <1>4 DEF ServerInv, NoIdleServant, Asleep, At
<1>. QED BY <1>5, <1>6, <1>8, <1>9, <1>10, <1>11 DEF ServerInv

LEMMA InvEnqueue ==
    ASSUME ServerInv, Enqueue
    PROVE  ServerInv'
<1>. USE HttpServerAssumption
<1>1. PICK c \in Conns : c = listener.sock /\ conn[c].state = "open" /\ conn[c].served = 0
  BY Types DEF Enqueue, ServerInv, OnePlaceEach, ServedAsCounted
<1>2. listener.pc = "enqueue" /\ UNCHANGED <<listenVars, shutdownFlag, servant, caller>>
  BY DEF Enqueue, At
<1>3. /\ \A i \in DOMAIN jobs : jobs[i] \in Conns /\ conn[jobs[i]].state = "open" /\ jobs[i] # c
      /\ \A w \in Servants : Serving(w) =>
            /\ servant[w].sock \in Conns /\ servant[w].sock # c /\ conn[servant[w].sock].state = "open"
      /\ jobs \in Seq(Conns)
  BY <1>1, Types DEF ServerInv, OnePlaceEach, Serving, ServantStates
<1>4. SocketsAreKnown'
  BY <1>2 DEF listenVars, ServerInv, SocketsAreKnown
<1>5. CASE jobs' = Append(jobs, c) /\ listener' = [pc |-> "notify", sock |-> NoConn] /\ UNCHANGED conn
  <2>1. /\ jobs' \in Seq(Conns) /\ Len(jobs') = Len(jobs) + 1 /\ DOMAIN jobs' = 1 .. Len(jobs) + 1
        /\ jobs'[Len(jobs) + 1] = c /\ \A i \in DOMAIN jobs : jobs'[i] = jobs[i]
        /\ DOMAIN jobs = 1 .. Len(jobs) /\ Len(jobs) \in Nat
    BY <1>3, <1>5
  <2>2. listener'.pc = "notify" /\ listener'.sock = NoConn /\ c # NoConn
    BY <1>5
  <2>3. HSTypeOK'
    BY <1>2, <1>5, <2>1 DEF listenVars, ServerInv, HSTypeOK
  <2>4. OnePlaceEach'
    <3>1. \A i \in DOMAIN jobs' : conn'[jobs'[i]].state = "open" /\ jobs'[i] # listener'.sock
      BY <1>1, <1>3, <1>5, <2>1, <2>2
    <3>2. \A i, j \in DOMAIN jobs' : jobs'[i] = jobs'[j] => i = j
      BY <1>3, <2>1 DEF ServerInv, OnePlaceEach
    <3>3. \A w \in Servants : Serving(w)' => \A i \in DOMAIN jobs' : jobs'[i] # servant'[w].sock
      BY <1>2, <1>3, <2>1 DEF ServerInv, OnePlaceEach, Serving
    <3>4. \A d \in Conns : conn'[d].state = "open" =>
             (\E i \in DOMAIN jobs' : jobs'[i] = d) \/ (\E w \in Servants : servant'[w].sock = d)
      BY <1>1, <1>2, <1>5, <2>1 DEF ServerInv, OnePlaceEach
    <3>5. \A w \in Servants : Serving(w)' => conn'[servant'[w].sock].state = "open" /\ servant'[w].sock # listener'.sock
      BY <1>2, <1>3, <1>5, <2>2 DEF Serving
    <3>6. /\ \A w \in Servants : Serving(w)' <=> servant'[w].pc \in {"first", "check", "select", "request", "close"}
          /\ \A v, w \in Servants : Serving(v)' /\ servant'[v].sock = servant'[w].sock => v = w
      BY <1>2 DEF ServerInv, OnePlaceEach, Serving
    <3>. QED BY <2>2, <3>1, <3>2, <3>3, <3>4, <3>5, <3>6 DEF OnePlaceEach, At
  <2>5. ServedAsCounted'
    <3>1. \A i \in DOMAIN jobs' : conn'[jobs'[i]].served = 0
      BY <1>1, <1>5, <2>1 DEF ServerInv, ServedAsCounted
    <3>. QED BY <1>2, <1>5, <2>2, <3>1 DEF ServerInv, ServedAsCounted
  <2>6. QueueDrains'
    BY <1>2, <2>2 DEF ServerInv, QueueDrains
  <2>7. NoIdleServant'
    <3>1. Cardinality(OnWay) \in Nat
      BY OnWayCounted
    <3>2. Asleep # {} => Len(jobs) <= Cardinality(OnWay)
      BY <1>2, <2>1, <3>1 DEF ServerInv, NoIdleServant, OnWay, At
    <3>3. OnWay' = OnWay /\ Asleep' = Asleep
      BY <1>2 DEF OnWay, Asleep
    <3>4. Cardinality({w \in Servants : servant'[w].pc = "lock"}) = Cardinality(OnWay)
      BY <3>3 DEF OnWay
    <3>. QED BY <2>1, <2>2, <3>1, <3>2, <3>3, <3>4 DEF NoIdleServant, At
  <2>. QED BY <1>4, <2>3, <2>4, <2>5, <2>6, <2>7 DEF ServerInv
<1>6. CASE conn' = [conn EXCEPT ![c].state = "closed"] /\ listener' = [pc |-> "loop", sock |-> NoConn] /\ UNCHANGED jobs
  <2>1. /\ conn' \in [Conns -> ConnStates] /\ conn'[c].state = "closed" /\ conn'[c].served = 0
        /\ \A d \in Conns : d # c => conn'[d] = conn[d]
        /\ conn'[c].said = conn[c].said
    BY <1>1, <1>6, Types DEF ConnStates
  <2>2. listener'.pc = "loop" /\ listener'.sock = NoConn /\ c # NoConn
    BY <1>6
  <2>3. HSTypeOK'
    BY <1>2, <1>6, <2>1 DEF listenVars, ServerInv, HSTypeOK, ConnStates
  <2>4. OnePlaceEach'
    <3>1. /\ \A i \in DOMAIN jobs' : conn'[jobs'[i]].state = "open" /\ jobs'[i] # listener'.sock
          /\ \A i, j \in DOMAIN jobs' : jobs'[i] = jobs'[j] => i = j
      BY <1>3, <1>6, <2>1, <2>2 DEF ServerInv, OnePlaceEach
    <3>2. \A w \in Servants : Serving(w)' => conn'[servant'[w].sock].state = "open" /\ servant'[w].sock # listener'.sock
      BY <1>2, <1>3, <2>1, <2>2 DEF Serving
    <3>3. /\ \A w \in Servants : Serving(w)' <=> servant'[w].pc \in {"first", "check", "select", "request", "close"}
          /\ \A w \in Servants : Serving(w)' => \A i \in DOMAIN jobs' : jobs'[i] # servant'[w].sock
          /\ \A v, w \in Servants : Serving(v)' /\ servant'[v].sock = servant'[w].sock => v = w
      BY <1>2, <1>6 DEF ServerInv, OnePlaceEach, Serving
    <3>4. \A d \in Conns : conn'[d].state = "open" =>
             (\E i \in DOMAIN jobs' : jobs'[i] = d) \/ (\E w \in Servants : servant'[w].sock = d)
      BY <1>1, <1>2, <1>6, <2>1 DEF ServerInv, OnePlaceEach
    <3>. QED BY <2>2, <3>1, <3>2, <3>3, <3>4 DEF OnePlaceEach, At
  <2>5. ServedAsCounted'
    <3>1. \A d \in Conns :
           /\ conn'[d].served <= KeepAliveMaxCount
           /\ conn'[d].served = KeepAliveMaxCount => conn'[d].said
           /\ conn'[d].state \in {"away", "backlog"} => conn'[d].served = 0
      BY <1>1, <2>1 DEF ServerInv, ServedAsCounted
    <3>2. \A i \in DOMAIN jobs' : conn'[jobs'[i]].served = 0
      BY <1>3, <1>6, <2>1 DEF ServerInv, ServedAsCounted
    <3>3. \A w \in Servants : servant[w].pc \in {"first", "check", "select", "request"} => Serving(w)
      BY DEF ServerInv, OnePlaceEach
    <3>4. \A w \in Servants : servant'[w].pc \in {"first", "check", "select", "request"} =>
           servant'[w].count > 0 /\ conn'[servant'[w].sock].served = KeepAliveMaxCount - servant'[w].count
      BY <1>2, <1>3, <2>1, <3>3 DEF ServerInv, ServedAsCounted
    <3>. QED BY <2>2, <3>1, <3>2, <3>4 DEF ServedAsCounted
  <2>6. QueueDrains'
    BY <1>2, <1>6, <2>2 DEF ServerInv, QueueDrains
  <2>7. NoIdleServant'
    BY <1>2, <1>6, <2>2 DEF ServerInv, NoIdleServant, Asleep, At
  <2>. QED BY <1>4, <2>3, <2>4, <2>5, <2>6, <2>7 DEF ServerInv
<1>. QED BY <1>1, <1>5, <1>6 DEF Enqueue

-----------------------------------------------------------------------------
(* Notifications *)

(* Threads that wake have nothing in hand, and are on their way to the queue. *)
LEMMA WakeKeeps ==
    ASSUME ServerInv, NEW ws \in SUBSET Asleep, servant' = Woken(ws), UNCHANGED <<jobs, conn>>,
           listener'.sock = listener.sock, listener'.pc = "enqueue" <=> listener.pc = "enqueue"
    PROVE  /\ servant' \in [Servants -> ServantStates] /\ OnePlaceEach' /\ ServedAsCounted'
           /\ \A w \in Servants : servant'[w].pc = "off" <=> servant[w].pc = "off"
           /\ OnWay' = OnWay \cup ws /\ Asleep' = Asleep \ ws
<1>1. \A w \in Servants : servant[w] \in ServantStates
  BY Types
<1>2. \A w \in ws : w \in Servants /\ servant[w].pc = "asleep" /\ servant[w].sock = NoConn
  BY DEF Asleep, ServerInv, OnePlaceEach, Serving
<1>3. \A w \in Servants : servant'[w] = IF w \in ws THEN [servant[w] EXCEPT !.pc = "lock"] ELSE servant[w]
  BY DEF Woken
<1>4. \A w \in Servants :
        /\ servant'[w] \in ServantStates /\ servant'[w].sock = servant[w].sock
        /\ servant'[w].count = servant[w].count
        /\ servant'[w].pc = IF w \in ws THEN "lock" ELSE servant[w].pc
  BY <1>1, <1>3 DEF ServantStates
<1>5. servant' \in [Servants -> ServantStates]
  BY <1>4 DEF Woken
<1>6. OnePlaceEach'
  <2>1. \A w \in Servants : Serving(w)' <=> servant'[w].pc \in {"first", "check", "select", "request", "close"}
    BY <1>2, <1>4 DEF ServerInv, OnePlaceEach, Serving
  <2>. QED BY <1>4, <2>1 DEF ServerInv, OnePlaceEach, Serving, At
<1>7. ServedAsCounted'
  BY <1>4 DEF ServerInv, ServedAsCounted
<1>8. OnWay' = OnWay \cup ws
  BY <1>2, <1>4 DEF OnWay
<1>9. Asleep' = Asleep \ ws
  BY <1>2, <1>4 DEF Asleep
<1>10. \A w \in Servants : servant'[w].pc = "off" <=> servant[w].pc = "off"
  BY <1>2, <1>4
<1>. QED BY <1>5, <1>6, <1>7, <1>8, <1>9, <1>10

(* One more thread is on its way. *)
LEMMA OneMoreOnWay ==
    ASSUME NEW w \in Servants, servant[w].pc # "lock", OnWay' = OnWay \cup {w}
    PROVE  Cardinality(OnWay') = Cardinality(OnWay) + 1
<1>1. w \notin OnWay
  BY DEF OnWay
<1>2. IsFiniteSet(OnWay)
  BY OnWayCounted
<1>3. Cardinality(OnWay \cup {w}) = Cardinality(OnWay) + 1
  BY <1>1, <1>2, FS_AddElement
<1>. QED BY <1>3

LEMMA InvNotifyOne ==
    ASSUME ServerInv, NotifyOne
    PROVE  ServerInv'
<1>. USE HttpServerAssumption
<1>1. /\ listener.pc = "notify" /\ listener'.pc = "loop" /\ listener'.sock = listener.sock /\ GoTo("loop")
      /\ UNCHANGED <<listenVars, jobs, shutdownFlag, caller, conn>>
  BY DEF NotifyOne, At, GoTo, ServerInv, HSTypeOK
<1>2. PICK ws \in SUBSET Asleep : /\ servant' = Woken(ws)
                                  /\ (ws = {} /\ Asleep = {}) \/ \E w \in Asleep : ws = {w}
  <2>1. CASE Asleep = {} /\ UNCHANGED servant
    <3>1. Woken({}) = servant
      BY Types DEF Woken
    <3>. QED BY <2>1, <3>1
  <2>. QED BY <2>1 DEF NotifyOne
<1>3. /\ servant' \in [Servants -> ServantStates] /\ OnePlaceEach' /\ ServedAsCounted'
      /\ \A w \in Servants : servant'[w].pc = "off" <=> servant[w].pc = "off"
      /\ OnWay' = OnWay \cup ws /\ Asleep' = Asleep \ ws
  BY <1>1, <1>2, WakeKeeps
<1>4. HSTypeOK'
  BY <1>1, <1>3 DEF listenVars, GoTo, ServerInv, HSTypeOK, ServantStates, InHand
<1>5. SocketsAreKnown'
  BY <1>1 DEF listenVars, ServerInv, SocketsAreKnown
<1>6. QueueDrains'
  BY <1>1, <1>3 DEF ServerInv, QueueDrains
<1>7. NoIdleServant'
  <2>1. CASE Asleep = {}
    BY <1>3, <2>1 DEF NoIdleServant
  <2>2. ASSUME NEW w \in Asleep, ws = {w}
        PROVE  NoIdleServant'
    <3>1. Len(jobs) <= Cardinality(OnWay) + 1
      BY <1>1, <2>2 DEF ServerInv, NoIdleServant, OnWay, At
    <3>2. Cardinality(OnWay') = Cardinality(OnWay) + 1
      BY <1>3, <2>2, OneMoreOnWay DEF Asleep
    <3>3. Cardinality(OnWay') = Cardinality({v \in Servants : servant'[v].pc = "lock"})
      BY DEF OnWay
    <3>4. Cardinality(OnWay) \in Nat /\ Len(jobs) \in Nat
      BY OnWayCounted, Types
    <3>. QED BY <1>1, <3>1, <3>2, <3>3, <3>4 DEF NoIdleServant, At
  <2>. QED BY <1>2, <2>1, <2>2
<1>. QED BY <1>3, <1>4, <1>5, <1>6, <1>7 DEF ServerInv

LEMMA InvWakeAll ==
    ASSUME ServerInv, WakeAll
    PROVE  ServerInv'
<1>. USE HttpServerAssumption
<1>1. /\ listener.pc = "wakeAll" /\ listener'.pc = "join" /\ listener'.sock = listener.sock /\ GoTo("join")
      /\ UNCHANGED <<listenVars, jobs, shutdownFlag, caller, conn>> /\ servant' = Woken(Asleep)
  BY DEF WakeAll, At, GoTo, ServerInv, HSTypeOK
<1>2. /\ servant' \in [Servants -> ServantStates] /\ OnePlaceEach' /\ ServedAsCounted'
      /\ \A w \in Servants : servant'[w].pc = "off" <=> servant[w].pc = "off"
      /\ Asleep' = Asleep \ Asleep
  BY <1>1, WakeKeeps
<1>3. HSTypeOK'
  BY <1>1, <1>2 DEF listenVars, GoTo, ServerInv, HSTypeOK, ServantStates, InHand
<1>4. SocketsAreKnown'
  BY <1>1 DEF listenVars, ServerInv, SocketsAreKnown
<1>5. QueueDrains'
  BY <1>1, <1>2 DEF ServerInv, QueueDrains
<1>6. NoIdleServant'
  BY <1>2 DEF NoIdleServant
<1>. QED BY <1>2, <1>3, <1>4, <1>5, <1>6 DEF ServerInv

LEMMA InvSpuriousWakeup ==
    ASSUME ServerInv, NEW w \in Servants, SpuriousWakeup(w)
    PROVE  ServerInv'
<1>. USE HttpServerAssumption
<1>1. /\ servant[w].pc = "asleep" /\ servant' = Woken({w}) /\ w \in Asleep
      /\ UNCHANGED <<listenVars, listener, jobs, shutdownFlag, caller, conn>>
  BY DEF SpuriousWakeup, Asleep
<1>2. /\ servant' \in [Servants -> ServantStates] /\ OnePlaceEach' /\ ServedAsCounted'
      /\ \A v \in Servants : servant'[v].pc = "off" <=> servant[v].pc = "off"
      /\ OnWay' = OnWay \cup {w} /\ Asleep' = Asleep \ {w}
  <2>1. {w} \in SUBSET Asleep
    BY <1>1
  <2>. QED BY <1>1, <2>1, WakeKeeps
<1>3. HSTypeOK'
  BY <1>1, <1>2 DEF listenVars, ServerInv, HSTypeOK, ServantStates, InHand
<1>4. SocketsAreKnown'
  BY <1>1 DEF listenVars, ServerInv, SocketsAreKnown
<1>5. QueueDrains'
  BY <1>1, <1>2 DEF ServerInv, QueueDrains
<1>6. NoIdleServant'
  <2>1. Cardinality(OnWay') = Cardinality(OnWay) + 1
    BY <1>1, <1>2, OneMoreOnWay
  <2>2. Cardinality(OnWay) \in Nat /\ Len(jobs) \in Nat
    BY OnWayCounted, Types
  <2>3. Len(jobs) <= Cardinality(OnWay) + (IF At("notify") THEN 1 ELSE 0)
    BY <1>1 DEF ServerInv, NoIdleServant, OnWay
  <2>4. Cardinality(OnWay') = Cardinality({v \in Servants : servant'[v].pc = "lock"})
    BY DEF OnWay
  <2>. QED BY <1>1, <2>1, <2>2, <2>3, <2>4 DEF NoIdleServant, At
<1>. QED BY <1>2, <1>3, <1>4, <1>5, <1>6 DEF ServerInv

-----------------------------------------------------------------------------
(* The threads of the queue *)

LEMMA InvTakeJob ==
    ASSUME ServerInv, NEW w \in Servants, TakeJob(w)
    PROVE  ServerInv'
<1>. USE HttpServerAssumption
<1>1. /\ servant[w].pc = "lock" /\ servant[w].sock = NoConn /\ servant[w] \in ServantStates
      /\ UNCHANGED <<listenVars, listener, shutdownFlag, caller, conn>>
  BY Types DEF TakeJob, ServerInv, OnePlaceEach, Serving
<1>2. SocketsAreKnown'
  BY <1>1 DEF listenVars, ServerInv, SocketsAreKnown
<1>3. ASSUME NEW p \in {"asleep", "off"}, servant' = [servant EXCEPT ![w].pc = p], jobs = <<>>, UNCHANGED jobs,
             p = "off" => shutdownFlag
      PROVE  ServerInv'
  <2>1. /\ servant' \in [Servants -> ServantStates] /\ servant'[w].pc = p /\ servant'[w].sock = NoConn
        /\ \A v \in Servants : v # w => servant'[v] = servant[v]
    BY <1>1, <1>3, Types DEF ServantStates
  <2>2. HSTypeOK'
    BY <1>1, <1>3, <2>1 DEF listenVars, ServerInv, HSTypeOK, ServantStates, InHand
  <2>3. OnePlaceEach'
    <3>1. \A v \in Servants : servant'[v].sock = servant[v].sock
      BY <1>1, <2>1
    <3>2. \A v \in Servants : Serving(v)' <=> servant'[v].pc \in {"first", "check", "select", "request", "close"}
      BY <2>1 DEF ServerInv, OnePlaceEach, Serving
    <3>. QED BY <1>1, <1>3, <3>1, <3>2 DEF ServerInv, OnePlaceEach, Serving, At
  <2>4. ServedAsCounted'
    BY <1>1, <1>3, <2>1 DEF ServerInv, ServedAsCounted
  <2>5. QueueDrains'
    BY <1>1, <1>3, <2>1 DEF ServerInv, QueueDrains, HSTypeOK
  <2>6. NoIdleServant'
    <3>1. Cardinality(OnWay') \in Nat /\ Len(jobs') = 0
      BY <1>3, OnWayCountedNext
    <3>2. Cardinality(OnWay') = Cardinality({v \in Servants : servant'[v].pc = "lock"})
      BY DEF OnWay
    <3>. QED BY <3>1, <3>2 DEF NoIdleServant
  <2>. QED BY <1>2, <2>2, <2>3, <2>4, <2>5, <2>6 DEF ServerInv
<1>4. ASSUME jobs # <<>>, jobs' = Tail(jobs),
             servant' = [servant EXCEPT ![w] = [pc |-> "first", sock |-> Head(jobs), count |-> KeepAliveMaxCount]]
      PROVE  ServerInv'
  <2>1. /\ jobs \in Seq(Conns) /\ Len(jobs) \in Nat \ {0} /\ DOMAIN jobs = 1 .. Len(jobs)
        /\ jobs' \in Seq(Conns) /\ Len(jobs') = Len(jobs) - 1 /\ DOMAIN jobs' = 1 .. Len(jobs) - 1
        /\ \A i \in 1 .. Len(jobs) - 1 : jobs'[i] = jobs[i + 1] /\ i + 1 \in DOMAIN jobs
    BY <1>4, Types
  <2>2. PICK c \in Conns : c = jobs[1] /\ c = Head(jobs)
    BY <2>1
  <2>3. conn[c].state = "open" /\ conn[c].served = 0 /\ c # listener.sock /\ c # NoConn
    BY <2>1, <2>2, Types DEF ServerInv, OnePlaceEach, ServedAsCounted
  <2>4. PICK r : r = [pc |-> "first", sock |-> c, count |-> KeepAliveMaxCount]
    OBVIOUS
  <2>5. r \in ServantStates /\ r.pc = "first" /\ r.sock = c /\ r.count = KeepAliveMaxCount
    BY <2>4 DEF ServantStates, InHand
  <2>6. /\ servant' \in [Servants -> ServantStates] /\ servant'[w] = r
        /\ \A v \in Servants : v # w => servant'[v] = servant[v]
    BY <1>4, <2>2, <2>4, <2>5, Types
  <2>7. HSTypeOK'
    BY <1>1, <2>1, <2>6 DEF listenVars, ServerInv, HSTypeOK, ServantStates, InHand
  <2>8. \A v \in Servants : Serving(v) => servant[v].sock # c
    BY <2>1, <2>2 DEF ServerInv, OnePlaceEach
  <2>9. \A i \in DOMAIN jobs' : jobs'[i] # c
    <3>1. ASSUME NEW i \in DOMAIN jobs', jobs'[i] = c
          PROVE  FALSE
      <4>1. i + 1 \in DOMAIN jobs /\ jobs[i + 1] = jobs[1] /\ 1 \in DOMAIN jobs /\ i + 1 # 1
        BY <2>1, <2>2, <3>1
      <4>. QED BY <4>1 DEF ServerInv, OnePlaceEach
    <3>. QED BY <3>1
  <2>10. OnePlaceEach'
    <3>1. /\ listener'.sock # NoConn <=> At("enqueue")'
          /\ listener'.sock # NoConn => conn'[listener'.sock].state = "open"
      BY <1>1 DEF ServerInv, OnePlaceEach, At
    <3>2. \A i \in DOMAIN jobs' : conn'[jobs'[i]].state = "open" /\ jobs'[i] # listener'.sock
      <4>1. ASSUME NEW i \in DOMAIN jobs'
            PROVE  conn'[jobs'[i]].state = "open" /\ jobs'[i] # listener'.sock
        <5>1. i + 1 \in DOMAIN jobs /\ jobs'[i] = jobs[i + 1]
          BY <2>1
        <5>2. conn[jobs[i + 1]].state = "open" /\ jobs[i + 1] # listener.sock
          BY <5>1 DEF ServerInv, OnePlaceEach
        <5>. QED BY <1>1, <5>1, <5>2
      <4>. QED BY <4>1
    <3>3. ASSUME NEW i \in DOMAIN jobs', NEW j \in DOMAIN jobs', jobs'[i] = jobs'[j]
          PROVE  i = j
      <4>1. i + 1 \in DOMAIN jobs /\ j + 1 \in DOMAIN jobs /\ jobs[i + 1] = jobs[j + 1]
        BY <2>1, <3>3
      <4>2. i + 1 = j + 1
        BY <4>1 DEF ServerInv, OnePlaceEach
      <4>. QED BY <2>1, <4>2
    <3>4. \A v \in Servants : Serving(v)' <=> servant'[v].pc \in {"first", "check", "select", "request", "close"}
      BY <2>3, <2>5, <2>6 DEF ServerInv, OnePlaceEach, Serving
    <3>5. \A v \in Servants : Serving(v)' =>
             /\ conn'[servant'[v].sock].state = "open" /\ servant'[v].sock # listener'.sock
             /\ \A i \in DOMAIN jobs' : jobs'[i] # servant'[v].sock
      <4>1. \A v \in Servants \ {w} : Serving(v) => \A i \in 1 .. Len(jobs) - 1 : jobs[i + 1] # servant[v].sock
        BY <2>1 DEF ServerInv, OnePlaceEach
      <4>. QED BY <1>1, <2>1, <2>3, <2>5, <2>6, <2>9, <4>1, SMTT(30) DEF ServerInv, OnePlaceEach, Serving
    <3>6. \A u, v \in Servants : Serving(u)' /\ servant'[u].sock = servant'[v].sock => u = v
      <4>1. ASSUME NEW u \in Servants, NEW v \in Servants, servant'[u].sock # NoConn,
                   servant'[u].sock = servant'[v].sock
            PROVE  u = v
        BY <2>3, <2>5, <2>6, <2>8, <4>1 DEF ServerInv, OnePlaceEach, Serving
      <4>. QED BY <4>1 DEF Serving
    <3>7. ASSUME NEW d \in Conns, conn'[d].state = "open", listener'.sock # d, \A v \in Servants : servant'[v].sock # d
          PROVE  \E i \in DOMAIN jobs' : jobs'[i] = d
      <4>1. d # c
        BY <2>5, <2>6, <3>7
      <4>2. \A v \in Servants : servant[v].sock # d
        BY <1>1, <2>6, <3>7, Types
      <4>3. PICK i \in DOMAIN jobs : jobs[i] = d
        BY <1>1, <3>7, <4>2 DEF ServerInv, OnePlaceEach
      <4>4. i # 1 /\ i \in 1 .. Len(jobs)
        BY <2>1, <2>2, <4>1, <4>3
      <4>5. i - 1 \in 1 .. Len(jobs) - 1 /\ (i - 1) + 1 = i
        BY <2>1, <4>4
      <4>6. jobs'[i - 1] = d
        BY <2>1, <4>3, <4>5
      <4>. QED BY <2>1, <4>5, <4>6
    <3>. QED BY <3>1, <3>2, <3>3, <3>4, <3>5, <3>6, <3>7 DEF OnePlaceEach
  <2>11. ServedAsCounted'
    <3>1. \A i \in DOMAIN jobs' : conn'[jobs'[i]].served = 0
      BY <1>1, <2>1 DEF ServerInv, ServedAsCounted
    <3>2. \A v \in Servants : servant'[v].pc \in {"first", "check", "select", "request"} =>
           servant'[v].count > 0 /\ conn'[servant'[v].sock].served = KeepAliveMaxCount - servant'[v].count
      BY <1>1, <2>3, <2>5, <2>6 DEF ServerInv, ServedAsCounted
    <3>. QED BY <1>1, <3>1, <3>2 DEF ServerInv, ServedAsCounted
  <2>12. QueueDrains'
    <3>1. listener.pc \notin {"idle", "bound", "entered", "finish", "leave"}
      BY <1>4 DEF ServerInv, QueueDrains
    <3>2. \A v \in Servants : servant'[v].pc # "off"
      BY <1>4, <2>5, <2>6 DEF ServerInv, QueueDrains, HSTypeOK
    <3>. QED BY <1>1, <3>1, <3>2 DEF ServerInv, QueueDrains
  <2>13. NoIdleServant'
    <3>1. w \in OnWay /\ OnWay' = OnWay \ {w} /\ Asleep' = Asleep
      BY <1>1, <2>5, <2>6 DEF OnWay, Asleep
    <3>2. Cardinality(OnWay \ {w}) = Cardinality(OnWay) - 1 /\ Cardinality(OnWay) \in Nat
      BY <3>1, OnWayCounted, FS_RemoveElement
    <3>3. Cardinality(OnWay') = Cardinality({v \in Servants : servant'[v].pc = "lock"})
      BY DEF OnWay
    <3>4. Asleep # {} => Len(jobs) <= Cardinality(OnWay) + (IF At("notify") THEN 1 ELSE 0)
      BY DEF ServerInv, NoIdleServant, OnWay
    <3>5. Cardinality(OnWay') = Cardinality(OnWay) - 1
      BY <3>1, <3>2
    <3>. QED BY <1>1, <2>1, <3>1, <3>2, <3>3, <3>4, <3>5 DEF NoIdleServant, At
  <2>. QED BY <1>2, <2>7, <2>10, <2>11, <2>12, <2>13 DEF ServerInv
<1>. QED BY <1>3, <1>4 DEF TakeJob

(* A thread that goes on with its connection disturbs nobody. *)
LEMMA ConnectionGoesOn ==
    ASSUME ServerInv, NEW w \in Servants, Serving(w),
           servant' \in [Servants -> ServantStates], conn' \in [Conns -> ConnStates],
           servant'[w].pc \in InHand, servant'[w].sock = servant[w].sock,
           \A v \in Servants : v # w => servant'[v] = servant[v],
           \A c \in Conns : conn'[c].state = conn[c].state,
           UNCHANGED <<listener, jobs, shutdownFlag>>
    PROVE  OnePlaceEach' /\ QueueDrains' /\ NoIdleServant'
<1>1. \A v \in Servants : servant'[v].sock = servant[v].sock
  OBVIOUS
<1>2. /\ listener.sock # NoConn => listener.sock \in Conns
      /\ \A i \in DOMAIN jobs : jobs[i] \in Conns
      /\ \A v \in Servants : Serving(v) => servant[v].sock \in Conns
  BY Types DEF ServantStates, Serving
<1>3. OnePlaceEach'
  <2>1. \A v \in Servants : Serving(v)' <=> servant'[v].pc \in {"first", "check", "select", "request", "close"}
    BY DEF ServerInv, OnePlaceEach, Serving, InHand
  <2>2. /\ listener'.sock # NoConn => conn'[listener'.sock].state = "open"
        /\ \A i \in DOMAIN jobs' : conn'[jobs'[i]].state = "open" /\ jobs'[i] # listener'.sock
        /\ \A v \in Servants : Serving(v)' => conn'[servant'[v].sock].state = "open"
    BY <1>1, <1>2 DEF ServerInv, OnePlaceEach, Serving
  <2>. QED BY <1>1, <2>1, <2>2 DEF ServerInv, OnePlaceEach, Serving, At
<1>4. servant[w].pc \in InHand
  BY DEF ServerInv, OnePlaceEach, InHand
<1>5. /\ \A v \in Servants : servant'[v].pc = "off" <=> servant[v].pc = "off"
      /\ \A v \in Servants : servant'[v].pc = "lock" <=> servant[v].pc = "lock"
      /\ \A v \in Servants : servant'[v].pc = "asleep" <=> servant[v].pc = "asleep"
  BY <1>4 DEF InHand
<1>6. QueueDrains'
  BY <1>5 DEF ServerInv, QueueDrains
<1>7. NoIdleServant'
  <2>1. Asleep' = Asleep /\ OnWay' = OnWay
    BY <1>5 DEF Asleep, OnWay
  <2>2. Cardinality({v \in Servants : servant'[v].pc = "lock"}) = Cardinality({v \in Servants : servant[v].pc = "lock"})
    BY <2>1 DEF OnWay
  <2>. QED BY <2>1, <2>2 DEF ServerInv, NoIdleServant, At
<1>. QED BY <1>3, <1>6, <1>7

LEMMA InvKeepAlive ==
    ASSUME ServerInv, NEW w \in Servants, KeepAlive(w)
    PROVE  ServerInv'
<1>. USE HttpServerAssumption
<1>1. /\ UNCHANGED <<listenVars, listener, jobs, shutdownFlag, caller, conn>>
      /\ servant[w].pc \in {"first", "check", "select"} /\ servant[w] \in ServantStates /\ Serving(w)
  BY Types DEF KeepAlive, ServerInv, OnePlaceEach
<1>2. PICK p \in InHand : servant' = [servant EXCEPT ![w].pc = p]
  BY DEF KeepAlive, InHand
<1>3. /\ servant' \in [Servants -> ServantStates] /\ servant'[w].pc = p
      /\ servant'[w].sock = servant[w].sock /\ servant'[w].count = servant[w].count
      /\ \A v \in Servants : v # w => servant'[v] = servant[v]
  BY <1>1, <1>2, Types DEF ServantStates
<1>4. OnePlaceEach' /\ QueueDrains' /\ NoIdleServant'
  <2>1. conn' \in [Conns -> ConnStates]
    BY <1>1, Types
  <2>. QED BY <1>1, <1>2, <1>3, <2>1, ConnectionGoesOn
<1>5. ServedAsCounted'
  BY <1>1, <1>3 DEF ServerInv, ServedAsCounted
<1>6. HSTypeOK'
  BY <1>1, <1>3 DEF listenVars, ServerInv, HSTypeOK, ServantStates, InHand
<1>7. SocketsAreKnown'
  BY <1>1 DEF listenVars, ServerInv, SocketsAreKnown
<1>. QED BY <1>4, <1>5, <1>6, <1>7 DEF ServerInv

LEMMA InvProcessRequest ==
    ASSUME ServerInv, NEW w \in Servants, ProcessRequest(w)
    PROVE  ServerInv'
<1>. USE HttpServerAssumption
<1>1. /\ UNCHANGED <<listenVars, listener, jobs, shutdownFlag, caller>>
      /\ servant[w].pc = "request" /\ servant[w] \in ServantStates /\ Serving(w)
  BY Types DEF ProcessRequest, ServerInv, OnePlaceEach
<1>2. PICK c \in Conns : c = servant[w].sock
  BY <1>1 DEF ServantStates, Serving
<1>3. PICK n \in 1 .. KeepAliveMaxCount : n = servant[w].count /\ conn[c].served = KeepAliveMaxCount - n
  BY <1>1, <1>2 DEF ServerInv, ServedAsCounted, ServantStates
<1>4. PICK r \in Requests :
        LET p == Processed(r, n) IN
        /\ servant' = [servant EXCEPT
              ![w].pc    = IF ~p.ret \/ p.closed \/ n = 1 THEN "close" ELSE "first",
              ![w].count = IF ~p.ret \/ p.closed THEN @ ELSE @ - 1]
        /\ conn' = IF p.served THEN [conn EXCEPT ![c].served = @ + 1, ![c].said = p.said] ELSE conn
  BY <1>2, <1>3 DEF ProcessRequest
<1>5. PICK ret, closed, said : /\ ret = (r \notin {"gone", "unwritable"}) /\ closed = (r \in {"close", "http10"})
                               /\ said = (n = 1 \/ r = "close")
  OBVIOUS
<1>6. /\ Processed(r, n).ret = ret /\ Processed(r, n).closed = closed /\ Processed(r, n).said = said
      /\ Processed(r, n).served = (r # "gone")
  BY <1>5 DEF Processed, CloseConnection
<1>7. PICK q, k : /\ q = IF ~ret \/ closed \/ n = 1 THEN "close" ELSE "first"
                  /\ k = IF ~ret \/ closed THEN n ELSE n - 1
  OBVIOUS
<1>8. q \in {"close", "first"} /\ k \in 0 .. KeepAliveMaxCount /\ q \in InHand
  BY <1>7 DEF InHand
<1>9. servant' = [servant EXCEPT ![w].pc = q, ![w].count = k]
  BY <1>3, <1>4, <1>6, <1>7, Types
<1>10. /\ servant' \in [Servants -> ServantStates] /\ servant'[w].pc = q
       /\ servant'[w].sock = c /\ servant'[w].count = k
       /\ \A v \in Servants : v # w => servant'[v] = servant[v]
  BY <1>1, <1>2, <1>8, <1>9, Types DEF ServantStates
<1>11. /\ conn' \in [Conns -> ConnStates] /\ \A d \in Conns : d # c => conn'[d] = conn[d]
       /\ conn'[c].state = conn[c].state
       /\ r # "gone" => conn'[c].served = KeepAliveMaxCount - n + 1 /\ conn'[c].said = said
       /\ r = "gone" => conn'[c] = conn[c]
  <2>1. CASE r = "gone"
    BY <1>4, <1>6, <2>1, Types
  <2>2. CASE r # "gone"
    <3>1. conn' = [conn EXCEPT ![c].served = @ + 1, ![c].said = said]
      BY <1>4, <1>6, <2>2
    <3>2. said \in BOOLEAN
      BY <1>5
    <3>3. conn \in [Conns -> ConnStates] /\ conn[c] \in ConnStates /\ KeepAliveMaxCount - n + 1 \in Nat
      BY Types
    <3>4. PICK s : s = [conn[c] EXCEPT !.served = KeepAliveMaxCount - n + 1, !.said = said]
      OBVIOUS
    <3>5. /\ s \in ConnStates /\ s.state = conn[c].state
          /\ s.served = KeepAliveMaxCount - n + 1 /\ s.said = said
      BY <3>2, <3>3, <3>4 DEF ConnStates
    <3>6. conn' = [conn EXCEPT ![c] = s]
      BY <1>3, <3>1, <3>3, <3>4 DEF ConnStates
    <3>. QED BY <2>2, <3>3, <3>5, <3>6
  <2>. QED BY <2>1, <2>2
<1>12. OnePlaceEach' /\ QueueDrains' /\ NoIdleServant'
  BY <1>1, <1>2, <1>8, <1>10, <1>11, ConnectionGoesOn
<1>13. ServedAsCounted'
  <2>1. conn'[c].served <= KeepAliveMaxCount /\ (conn'[c].served = KeepAliveMaxCount => conn'[c].said)
    <3>1. CASE r = "gone"
      BY <1>11, <3>1 DEF ServerInv, ServedAsCounted
    <3>2. CASE r # "gone"
      <4>1. conn'[c].served = KeepAliveMaxCount - n + 1 /\ conn'[c].said = said
        BY <1>11, <3>2
      <4>2. KeepAliveMaxCount \in Nat /\ n \in Nat /\ n >= 1
        BY <1>3
      <4>3. n = 1 => said = TRUE
        BY <1>5
      <4>4. KeepAliveMaxCount - n + 1 <= KeepAliveMaxCount /\ (KeepAliveMaxCount - n + 1 = KeepAliveMaxCount => n = 1)
        BY <4>2
      <4>5. conn'[c].served = KeepAliveMaxCount => conn'[c].said
        BY <4>1, <4>3, <4>4
      <4>. QED BY <4>1, <4>4, <4>5
    <3>. QED BY <3>1, <3>2
  <2>2. conn[c].state = "open"
    BY <1>1, <1>2 DEF ServerInv, OnePlaceEach
  <2>3. \A d \in Conns :
           /\ conn'[d].served <= KeepAliveMaxCount
           /\ conn'[d].served = KeepAliveMaxCount => conn'[d].said
           /\ conn'[d].state \in {"away", "backlog"} => conn'[d].served = 0
    BY <1>11, <2>1, <2>2 DEF ServerInv, ServedAsCounted
  <2>4. q = "first" => k = n - 1 /\ k > 0 /\ r # "gone"
    BY <1>5, <1>7
  <2>5. q = "first" => k > 0 /\ conn'[c].served = KeepAliveMaxCount - k
    BY <1>11, <2>4
  <2>6. /\ listener.sock # NoConn => listener.sock \in Conns /\ listener.sock # c
        /\ \A i \in DOMAIN jobs : jobs[i] \in Conns /\ jobs[i] # c
        /\ \A v \in Servants : v # w /\ Serving(v) => servant[v].sock \in Conns /\ servant[v].sock # c
    BY <1>1, <1>2, Types DEF ServerInv, OnePlaceEach, Serving, ServantStates
  <2>7. \A v \in Servants : servant[v].pc \in {"first", "check", "select", "request"} => Serving(v)
    BY DEF ServerInv, OnePlaceEach
  <2>8. \A v \in Servants : servant'[v].pc \in {"first", "check", "select", "request"} =>
         servant'[v].count > 0 /\ conn'[servant'[v].sock].served = KeepAliveMaxCount - servant'[v].count
    BY <1>8, <1>10, <1>11, <2>5, <2>6, <2>7 DEF ServerInv, ServedAsCounted
  <2>9. /\ listener'.sock # NoConn => conn'[listener'.sock].served = 0
        /\ \A i \in DOMAIN jobs' : conn'[jobs'[i]].served = 0
    BY <1>1, <1>11, <2>6 DEF ServerInv, ServedAsCounted
  <2>. QED BY <2>3, <2>8, <2>9 DEF ServedAsCounted
<1>14. HSTypeOK'
  BY <1>1, <1>10, <1>11 DEF listenVars, ServerInv, HSTypeOK, ServantStates, InHand, ConnStates
<1>15. SocketsAreKnown'
  BY <1>1 DEF listenVars, ServerInv, SocketsAreKnown
<1>. QED BY <1>12, <1>13, <1>14, <1>15 DEF ServerInv

LEMMA InvCloseConn ==
    ASSUME ServerInv, NEW w \in Servants, CloseConn(w)
    PROVE  ServerInv'
<1>. USE HttpServerAssumption
<1>1. /\ UNCHANGED <<listenVars, listener, jobs, shutdownFlag, caller>>
      /\ servant[w].pc = "close" /\ servant[w] \in ServantStates /\ Serving(w)
  BY Types DEF CloseConn, ServerInv, OnePlaceEach
<1>2. PICK c \in Conns : c = servant[w].sock
  BY <1>1 DEF ServantStates, Serving
<1>3. /\ conn' \in [Conns -> ConnStates] /\ \A d \in Conns : d # c => conn'[d] = conn[d]
      /\ conn'[c].state = "closed" /\ conn'[c].served = conn[c].served /\ conn'[c].said = conn[c].said
  <2>1. conn' = [conn EXCEPT ![c].state = "closed"]
    BY <1>2 DEF CloseConn
  <2>. QED BY <2>1, Types DEF ConnStates
<1>4. PICK r : r = [Fresh EXCEPT !.pc = "lock"]
  OBVIOUS
<1>5. r \in ServantStates /\ r.pc = "lock" /\ r.sock = NoConn
  BY <1>4 DEF ServantStates, InHand, Fresh
<1>6. /\ servant' \in [Servants -> ServantStates] /\ servant'[w] = r
      /\ \A v \in Servants : v # w => servant'[v] = servant[v]
  <2>1. servant' = [servant EXCEPT ![w] = r]
    BY <1>4 DEF CloseConn
  <2>. QED BY <1>5, <2>1, Types
<1>7. /\ listener.sock # NoConn => listener.sock \in Conns /\ listener.sock # c
      /\ \A i \in DOMAIN jobs : jobs[i] \in Conns /\ jobs[i] # c
      /\ \A v \in Servants : v # w /\ Serving(v) => servant[v].sock \in Conns /\ servant[v].sock # c
  BY <1>1, <1>2, Types DEF ServerInv, OnePlaceEach, Serving, ServantStates
<1>8. OnePlaceEach'
  <2>1. /\ listener'.sock # NoConn <=> At("enqueue")'
        /\ listener'.sock # NoConn => conn'[listener'.sock].state = "open"
        /\ \A i \in DOMAIN jobs' : conn'[jobs'[i]].state = "open" /\ jobs'[i] # listener'.sock
        /\ \A i, j \in DOMAIN jobs' : jobs'[i] = jobs'[j] => i = j
    BY <1>1, <1>3, <1>7 DEF ServerInv, OnePlaceEach, At
  <2>2. \A v \in Servants : Serving(v)' => v # w /\ Serving(v) /\ servant'[v] = servant[v]
    BY <1>5, <1>6 DEF Serving
  <2>3. \A v \in Servants : Serving(v)' <=> servant'[v].pc \in {"first", "check", "select", "request", "close"}
    BY <1>5, <1>6 DEF ServerInv, OnePlaceEach, Serving
  <2>4. \A v \in Servants : Serving(v)' => conn'[servant'[v].sock].state = "open" /\ servant'[v].sock # listener'.sock
    BY <1>1, <1>3, <1>7, <2>2 DEF ServerInv, OnePlaceEach
  <2>5. \A v \in Servants : Serving(v)' => \A i \in DOMAIN jobs' : jobs'[i] # servant'[v].sock
    BY <1>1, <2>2 DEF ServerInv, OnePlaceEach
  <2>6. \A u, v \in Servants : Serving(u)' /\ servant'[u].sock = servant'[v].sock => u = v
    <3>1. ASSUME NEW u \in Servants, NEW v \in Servants, Serving(u)', servant'[u].sock = servant'[v].sock
          PROVE  u = v
      <4>1. Serving(v)' /\ u # w /\ v # w
        BY <2>2, <3>1 DEF Serving
      <4>. QED BY <1>6, <2>2, <3>1, <4>1 DEF ServerInv, OnePlaceEach
    <3>. QED BY <3>1
  <2>7. \A d \in Conns : conn'[d].state = "open" =>
          \/ listener'.sock = d
          \/ \E i \in DOMAIN jobs' : jobs'[i] = d
          \/ \E v \in Servants : servant'[v].sock = d
    <3>1. ASSUME NEW d \in Conns, conn'[d].state = "open", listener'.sock # d, \A i \in DOMAIN jobs' : jobs'[i] # d
          PROVE  \E v \in Servants : servant'[v].sock = d
      <4>1. d # c /\ conn[d].state = "open"
        BY <1>3, <3>1
      <4>2. PICK v \in Servants : servant[v].sock = d
        BY <1>1, <3>1, <4>1 DEF ServerInv, OnePlaceEach
      <4>3. v # w
        BY <1>2, <4>1, <4>2
      <4>. QED BY <1>6, <4>2, <4>3
    <3>. QED BY <3>1
  <2>. QED BY <2>1, <2>3, <2>4, <2>5, <2>6, <2>7 DEF OnePlaceEach
<1>9. ServedAsCounted'
  <2>1. conn[c].state = "open"
    BY <1>1, <1>2 DEF ServerInv, OnePlaceEach
  <2>2. \A d \in Conns :
         /\ conn'[d].served <= KeepAliveMaxCount
         /\ conn'[d].served = KeepAliveMaxCount => conn'[d].said
         /\ conn'[d].state \in {"away", "backlog"} => conn'[d].served = 0
    BY <1>3 DEF ServerInv, ServedAsCounted
  <2>3. \A v \in Servants : servant[v].pc \in {"first", "check", "select", "request"} => Serving(v)
    BY DEF ServerInv, OnePlaceEach
  <2>4. \A v \in Servants : servant'[v].pc \in {"first", "check", "select", "request"} =>
         servant'[v].count > 0 /\ conn'[servant'[v].sock].served = KeepAliveMaxCount - servant'[v].count
    BY <1>3, <1>5, <1>6, <1>7, <2>3 DEF ServerInv, ServedAsCounted
  <2>5. /\ listener'.sock # NoConn => conn'[listener'.sock].served = 0
        /\ \A i \in DOMAIN jobs' : conn'[jobs'[i]].served = 0
    BY <1>1, <1>3, <1>7 DEF ServerInv, ServedAsCounted
  <2>. QED BY <2>2, <2>4, <2>5 DEF ServedAsCounted
<1>10. QueueDrains'
  <2>1. \A v \in Servants : servant'[v].pc = "off" <=> servant[v].pc = "off"
    BY <1>1, <1>5, <1>6
  <2>. QED BY <1>1, <2>1 DEF ServerInv, QueueDrains
<1>11. NoIdleServant'
  <2>1. OnWay' = OnWay \cup {w} /\ Asleep' = Asleep
    BY <1>1, <1>5, <1>6 DEF OnWay, Asleep
  <2>2. Cardinality(OnWay') = Cardinality(OnWay) + 1
    BY <1>1, <2>1, OneMoreOnWay
  <2>3. Cardinality(OnWay) \in Nat /\ Len(jobs) \in Nat
    BY OnWayCounted, Types
  <2>4. Asleep # {} => Len(jobs) <= Cardinality(OnWay) + (IF At("notify") THEN 1 ELSE 0)
    BY DEF ServerInv, NoIdleServant, OnWay
  <2>5. Cardinality(OnWay') = Cardinality({v \in Servants : servant'[v].pc = "lock"})
    BY DEF OnWay
  <2>. QED BY <1>1, <2>1, <2>2, <2>3, <2>4, <2>5 DEF NoIdleServant, At
<1>12. HSTypeOK'
  BY <1>1, <1>3, <1>6 DEF listenVars, ServerInv, HSTypeOK, ServantStates, InHand, ConnStates
<1>13. SocketsAreKnown'
  BY <1>1 DEF listenVars, ServerInv, SocketsAreKnown
<1>. QED BY <1>8, <1>9, <1>10, <1>11, <1>12, <1>13 DEF ServerInv

-----------------------------------------------------------------------------
(* The other threads, and the peers *)

CallerStates == [pc : {"idle", "exchange", "shutdown", "close", "clear", "waiting"}, sock : 0 .. MaxListens]

LEMMA InvCaller ==
    ASSUME ServerInv, NEW t \in Callers, BeginCall(t) \/ CallerStep(t)
    PROVE  ServerInv'
<1>. USE HttpServerAssumption
<1>1. /\ UNCHANGED <<isRunning, listenRet, listener, poolVars, conn>>
      /\ isDecommissioned' \in BOOLEAN
  BY DEF BeginCall, CallerStep, Exchange, ShutdownSocket, CloseSocket, ClearDecommissioned, Ready, listenVars,
         ServerInv, HSTypeOK
<1>2. OnePlaceEach' /\ ServedAsCounted' /\ QueueDrains' /\ NoIdleServant'
  BY <1>1, QueueUntouched DEF poolVars
<1>3. /\ caller \in [Callers -> CallerStates] /\ svrSock \in 0 .. Len(lsock) /\ Len(lsock) \in 0 .. MaxListens
      /\ lsock \in Seq([state : {"open", "shut", "closed"}, closes : Nat])
      /\ \A u \in Callers : caller[u].sock \in 0 .. Len(lsock)
  BY DEF ServerInv, HSTypeOK, CallerStates, SocketsAreKnown
<1>4. /\ lsock' \in Seq([state : {"open", "shut", "closed"}, closes : Nat])
      /\ Len(lsock') = Len(lsock)
  <2>1. CASE UNCHANGED lsock
    BY <1>3, <2>1
  <2>2. CASE CloseSocket(t)
    BY <1>3, <2>2, ClosedProperties DEF CloseSocket
  <2>3. CASE ShutdownSocket(t)
    <3>1. PICK s \in 0 .. Len(lsock) : s = caller[t].sock
      BY <1>3
    <3>2. CASE s # 0 /\ lsock[s].state = "open"
      <4>1. lsock' = [lsock EXCEPT ![s].state = "shut"]
        BY <2>3, <3>1, <3>2 DEF ShutdownSocket
      <4>2. s \in 1 .. Len(lsock)
        BY <1>3, <3>2
      <4>3. lsock[s] \in [state : {"open", "shut", "closed"}, closes : Nat]
        BY <1>3, <4>2, ElementOfSeq
      <4>4. PICK r : r = [lsock[s] EXCEPT !.state = "shut"]
        OBVIOUS
      <4>5. r \in [state : {"open", "shut", "closed"}, closes : Nat]
        BY <4>3, <4>4
      <4>6. lsock' = [lsock EXCEPT ![s] = r]
        BY <4>1, <4>4
      <4>. QED BY <1>3, <4>2, <4>5, <4>6
    <3>3. CASE ~(s # 0 /\ lsock[s].state = "open")
      BY <1>3, <2>3, <3>1, <3>3 DEF ShutdownSocket
    <3>. QED BY <3>2, <3>3
  <2>. QED BY <2>1, <2>2, <2>3 DEF BeginCall, CallerStep, Exchange, ClearDecommissioned, Ready, listenVars
<1>5. svrSock' \in {0, svrSock}
  BY DEF BeginCall, CallerStep, Exchange, ShutdownSocket, CloseSocket, ClearDecommissioned, Ready, listenVars
<1>6. PICK p \in {"idle", "exchange", "shutdown", "close", "clear", "waiting"}, s \in {0, svrSock, caller[t].sock} :
        caller' = [caller EXCEPT ![t] = [pc |-> p, sock |-> s]]
  <2>1. \A p : [caller[t] EXCEPT !.pc = p] = [pc |-> p, sock |-> caller[t].sock]
    BY <1>3 DEF CallerStates
  <2>2. caller[t] = [pc |-> caller[t].pc, sock |-> caller[t].sock]
        /\ caller[t].pc \in {"idle", "exchange", "shutdown", "close", "clear", "waiting"}
    BY <1>3 DEF CallerStates
  <2>3. CASE BeginCall(t)
    <3>1. CASE UNCHANGED caller
      <4>1. caller' = [caller EXCEPT ![t] = caller[t]]
        BY <1>3, <3>1
      <4>. QED BY <2>2, <4>1
    <3>2. CASE \E p \in {"waiting", "exchange", "clear"} : caller' = [caller EXCEPT ![t].pc = p]
      <4>1. PICK p \in {"waiting", "exchange", "clear"} : caller' = [caller EXCEPT ![t].pc = p]
        BY <3>2
      <4>2. caller' = [caller EXCEPT ![t] = [pc |-> p, sock |-> caller[t].sock]]
        BY <2>1, <4>1
      <4>. QED BY <4>2
    <3>. QED BY <2>3, <3>1, <3>2 DEF BeginCall
  <2>4. CASE Exchange(t)
    BY <2>4 DEF Exchange
  <2>5. CASE CloseSocket(t)
    BY <2>5 DEF CloseSocket
  <2>6. CASE ShutdownSocket(t) \/ ClearDecommissioned(t) \/ Ready(t)
    <3>1. PICK p \in {"close", "idle"} : caller' = [caller EXCEPT ![t].pc = p]
      BY <2>6 DEF ShutdownSocket, ClearDecommissioned, Ready
    <3>2. caller' = [caller EXCEPT ![t] = [pc |-> p, sock |-> caller[t].sock]]
      BY <2>1, <3>1
    <3>. QED BY <3>2
  <2>. QED BY <2>3, <2>4, <2>5, <2>6 DEF CallerStep
<1>7. s \in 0 .. Len(lsock) /\ s \in 0 .. MaxListens
  BY <1>3
<1>8. PICK r : r = [pc |-> p, sock |-> s]
  OBVIOUS
<1>9. r \in CallerStates /\ r.sock = s
  BY <1>7, <1>8 DEF CallerStates
<1>10. /\ caller' \in [Callers -> CallerStates]
       /\ \A u \in Callers : caller'[u].sock \in 0 .. Len(lsock)
  BY <1>3, <1>6, <1>7, <1>8, <1>9
<1>11. HSTypeOK'
  BY <1>1, <1>3, <1>4, <1>5, <1>10 DEF poolVars, ServerInv, HSTypeOK, CallerStates
<1>12. SocketsAreKnown'
  BY <1>3, <1>4, <1>5, <1>10 DEF SocketsAreKnown
<1>. QED BY <1>2, <1>11, <1>12 DEF ServerInv

LEMMA InvPeerConnects ==
    ASSUME ServerInv, NEW c \in Conns, PeerConnects(c)
    PROVE  ServerInv'
<1>. USE HttpServerAssumption
<1>1. /\ UNCHANGED <<listenVars, listener, jobs, shutdownFlag, servant, caller>> /\ conn[c].state = "away"
      /\ conn' = [conn EXCEPT ![c].state = "backlog"]
  BY DEF PeerConnects, poolVars
<1>2. /\ conn' \in [Conns -> ConnStates] /\ \A d \in Conns : d # c => conn'[d] = conn[d]
      /\ conn'[c].state = "backlog" /\ conn'[c].served = conn[c].served /\ conn'[c].said = conn[c].said
  BY <1>1, Types DEF ConnStates
<1>3. /\ listener.sock # NoConn => listener.sock \in Conns /\ listener.sock # c
      /\ \A i \in DOMAIN jobs : jobs[i] \in Conns /\ jobs[i] # c
      /\ \A v \in Servants : Serving(v) => servant[v].sock \in Conns /\ servant[v].sock # c
  BY <1>1, Types DEF ServerInv, OnePlaceEach, Serving, ServantStates
<1>4. OnePlaceEach'
  <2>1. /\ listener'.sock # NoConn => conn'[listener'.sock].state = "open"
        /\ \A i \in DOMAIN jobs' : conn'[jobs'[i]].state = "open" /\ jobs'[i] # listener'.sock
        /\ \A w \in Servants : Serving(w)' => conn'[servant'[w].sock].state = "open"
    BY <1>1, <1>2, <1>3 DEF ServerInv, OnePlaceEach, Serving
  <2>2. \A d \in Conns : conn'[d].state = "open" => conn[d].state = "open"
    BY <1>2
  <2>. QED BY <1>1, <2>1, <2>2 DEF ServerInv, OnePlaceEach, Serving, At
<1>5. ServedAsCounted'
  <2>1. \A d \in Conns :
         /\ conn'[d].served <= KeepAliveMaxCount
         /\ conn'[d].served = KeepAliveMaxCount => conn'[d].said
         /\ conn'[d].state \in {"away", "backlog"} => conn'[d].served = 0
    BY <1>1, <1>2 DEF ServerInv, ServedAsCounted
  <2>2. \A v \in Servants : servant[v].pc \in {"first", "check", "select", "request"} => Serving(v)
    BY DEF ServerInv, OnePlaceEach
  <2>3. \A v \in Servants : servant'[v].pc \in {"first", "check", "select", "request"} =>
         servant'[v].count > 0 /\ conn'[servant'[v].sock].served = KeepAliveMaxCount - servant'[v].count
    BY <1>1, <1>2, <1>3, <2>2 DEF ServerInv, ServedAsCounted
  <2>4. /\ listener'.sock # NoConn => conn'[listener'.sock].served = 0
        /\ \A i \in DOMAIN jobs' : conn'[jobs'[i]].served = 0
    BY <1>1, <1>2, <1>3 DEF ServerInv, ServedAsCounted
  <2>. QED BY <2>1, <2>3, <2>4 DEF ServedAsCounted
<1>6. QueueDrains'
  BY <1>1 DEF ServerInv, QueueDrains
<1>7. NoIdleServant'
  BY <1>1 DEF ServerInv, NoIdleServant, Asleep, At
<1>8. HSTypeOK'
  BY <1>1, <1>2 DEF listenVars, ServerInv, HSTypeOK, ConnStates
<1>9. SocketsAreKnown'
  BY <1>1 DEF listenVars, ServerInv, SocketsAreKnown
<1>. QED BY <1>4, <1>5, <1>6, <1>7, <1>8, <1>9 DEF ServerInv

-----------------------------------------------------------------------------
(* The theorems *)

LEMMA ServerStep == ServerInv /\ [HSNext]_HSvars => ServerInv'
<1>. SUFFICES ASSUME ServerInv, [HSNext]_HSvars PROVE ServerInv'
  OBVIOUS
<1>1. CASE Bind \/ ListenStep
  BY <1>1, InvBind, InvListenTest, InvStartListen, InvAccept, InvCloseOnError, InvEnqueue, InvNotifyOne,
     InvShutdown, InvWakeAll, InvFinishListen DEF ListenStep
<1>2. ASSUME NEW w \in Servants, ServantStep(w) \/ SpuriousWakeup(w)
      PROVE  ServerInv'
  BY <1>2, InvTakeJob, InvKeepAlive, InvProcessRequest, InvCloseConn, InvSpuriousWakeup DEF ServantStep
<1>3. ASSUME NEW t \in Callers, BeginCall(t) \/ CallerStep(t)
      PROVE  ServerInv'
  BY <1>3, InvCaller
<1>4. ASSUME NEW c \in Conns, PeerConnects(c)
      PROVE  ServerInv'
  BY <1>4, InvPeerConnects
<1>5. CASE UNCHANGED HSvars
  <2>. USE <1>5 DEF HSvars, listenVars, poolVars
  <2>1. OnePlaceEach' /\ ServedAsCounted' /\ QueueDrains' /\ NoIdleServant'
    BY QueueUntouched
  <2>2. HSTypeOK'
    BY DEF ServerInv, HSTypeOK
  <2>3. SocketsAreKnown'
    BY DEF ServerInv, SocketsAreKnown
  <2>. QED BY <2>1, <2>2, <2>3 DEF ServerInv
<1>. QED BY <1>1, <1>2, <1>3, <1>4, <1>5 DEF HSNext

(* The invariant of a server: where every accepted connection is, how      *)
(* often it was served, when the queue is empty, which sockets were made.  *)
THEOREM ServerInvHolds == HSSpec => []ServerInv
BY ServerInit, ServerStep, PTL DEF HSSpec

(* Every variable keeps its type, in every step of the listener, the       *)
(* threads of the queue, the callers of stop() and the peers.              *)
THEOREM ServerTypes == HSSpec => []HSTypeOK
<1>1. ServerInv => HSTypeOK
  BY DEF ServerInv
<1>. QED BY <1>1, ServerInvHolds, PTL

(* Every accepted connection is with one holder until it is closed, none   *)
(* is left when listen() leaves, nobody is served too often or without     *)
(* notice, and no thread sleeps while a connection waits for it.           *)
THEOREM ConnectionsServed == HSSpec => []ConnectionsAreServed
BY ServerInvHolds, InvImpliesServed, PTL

=============================================================================
