----------------------------- MODULE HttpServer -----------------------------
(***************************************************************************)
(* The life of a httplib::Server: one thread binds and listens, again and  *)
(* again; other threads call stop(), decommission() and wait_until_ready(); *)
(* the threads of the task queue serve the accepted connections, each with *)
(* the keep-alive loop of process_server_socket_core().                    *)
(*                                                                         *)
(* svr_sock_, is_running_ and is_decommissioned are atomics: every access  *)
(* to one of them is a step.  What the peers send, and when, is a free     *)
(* choice (Requests); so are the results of the system calls.              *)
(***************************************************************************)
EXTENDS Integers, Sequences, FiniteSets

CONSTANTS
    Conns,              \* connections that peers open
    Servants,           \* threads of the task queue
    Callers,            \* threads that call stop() and the like
    MaxQueuedRequests,  \* max_queued_requests_; 0 is no limit
    KeepAliveMaxCount,  \* keep_alive_max_count_
    MaxListens,         \* bound: calls of listen()
    AcceptErrors,       \* whether accept() may fail for good while the socket is open
    NoConn              \* no connection

ASSUME HttpServerAssumption ==
    /\ MaxQueuedRequests \in Nat /\ KeepAliveMaxCount \in Nat \ {0}
    /\ MaxListens \in Nat /\ AcceptErrors \in BOOLEAN /\ NoConn \notin Conns
    /\ IsFiniteSet(Servants) /\ Servants # {}

VARIABLES
    svrSock,         \* svr_sock_: the number of a listening socket, 0 for INVALID_SOCKET
    lsock,           \* per listening socket "open", "shut" or "closed", and the times it was closed
    isRunning,       \* is_running_
    isDecommissioned,
    listener,        \* the listening thread: where it is, and the socket it has in hand
    listenRet,       \* ret of listen_internal()
    jobs,            \* jobs_
    shutdownFlag,    \* shutdown_
    servant,         \* the threads of the task queue
    caller,          \* the other threads
    conn             \* per connection "away", "backlog", "open", "closed", the requests
                     \* served, and whether the last response announced the close

listenVars == <<svrSock, lsock, isRunning, isDecommissioned, listenRet>>
poolVars   == <<jobs, shutdownFlag, servant>>
HSvars     == <<listenVars, listener, poolVars, caller, conn>>

(* What a peer sends next: a request it keeps the connection for, one with   *)
(* "Connection: close", one of HTTP/1.0, one that cannot be parsed, nothing   *)
(* more, and one whose response cannot be written.                            *)
Requests == {"keep", "close", "http10", "bad", "gone", "unwritable"}

Fresh == [pc |-> "off", sock |-> NoConn, count |-> 0]

HSTypeOK ==
    /\ svrSock \in 0 .. MaxListens
    /\ lsock \in Seq([state : {"open", "shut", "closed"}, closes : Nat])
    /\ isRunning \in BOOLEAN /\ isDecommissioned \in BOOLEAN /\ listenRet \in BOOLEAN
    /\ listener \in [pc : {"idle", "bound", "entered", "loop", "accept", "error", "fail", "enqueue",
                           "notify", "drain", "wakeAll", "join", "finish", "leave"},
                     sock : Conns \cup {NoConn}]
    /\ jobs \in Seq(Conns) /\ shutdownFlag \in BOOLEAN
    /\ servant \in [Servants -> [pc : {"off", "lock", "asleep", "first", "check", "select", "request",
                                       "close"},
                                 sock : Conns \cup {NoConn}, count : 0 .. KeepAliveMaxCount]]
    /\ caller \in [Callers -> [pc : {"idle", "exchange", "shutdown", "close", "clear", "waiting"},
                               sock : 0 .. MaxListens]]
    /\ conn \in [Conns -> [state : {"away", "backlog", "open", "closed"}, served : Nat, said : BOOLEAN]]

HSInit ==
    /\ svrSock = 0 /\ lsock = <<>>
    /\ isRunning = FALSE /\ isDecommissioned = FALSE /\ listenRet = TRUE
    /\ listener = [pc |-> "idle", sock |-> NoConn]
    /\ jobs = <<>> /\ shutdownFlag = FALSE
    /\ servant = [w \in Servants |-> Fresh]
    /\ caller = [t \in Callers |-> [pc |-> "idle", sock |-> 0]]
    /\ conn = [c \in Conns |-> [state |-> "away", served |-> 0, said |-> FALSE]]

At(p) == listener.pc = p
GoTo(p) == listener' = [listener EXCEPT !.pc = p]

-----------------------------------------------------------------------------
(* The listening thread *)

(* bind_to_port(): a decommissioned server does not bind, and a failure     *)
(* decommissions it; bind_to_any_port() may fail after the socket was made. *)
Bind ==
    /\ At("idle") /\ Len(lsock) < MaxListens
    /\ \/ /\ ~isDecommissioned
          /\ lsock' = Append(lsock, [state |-> "open", closes |-> 0])
          /\ svrSock' = Len(lsock')
          /\ GoTo("bound") /\ UNCHANGED isDecommissioned
       \/ /\ ~isDecommissioned  \* getsockname() fails: the socket stays open
          /\ lsock' = Append(lsock, [state |-> "open", closes |-> 0])
          /\ svrSock' = Len(lsock')
          /\ isDecommissioned' = TRUE /\ UNCHANGED listener
       \/ /\ ~isDecommissioned  \* no socket, or ::bind() or ::listen() fail
          /\ svrSock' = 0 /\ isDecommissioned' = TRUE /\ UNCHANGED <<lsock, listener>>
    /\ UNCHANGED <<isRunning, listenRet, poolVars, caller, conn>>

Accepting == svrSock # 0 /\ lsock[svrSock].state = "open"

(* The tests of the loop: is_decommissioned before it, svr_sock_ at its      *)
(* head and after an error of accept(), the joins.  accept() goes round for  *)
(* EMFILE, EINTR, EAGAIN, or when select_read() timed out and on_idle() was  *)
(* called; it fails for good for any other errno, which it always gives for  *)
(* a socket that was shut down or closed.                                    *)
ListenTest ==
    /\ \/ At("bound")  /\ GoTo(IF isDecommissioned THEN "idle" ELSE "entered")
       \/ At("loop")   /\ GoTo(IF svrSock # 0 THEN "accept" ELSE "drain")
       \/ At("accept") /\ Accepting /\ GoTo("loop")
       \/ At("accept") /\ (AcceptErrors \/ ~Accepting) /\ GoTo("error")
       \/ At("error")  /\ GoTo(IF svrSock # 0 THEN "fail" ELSE "drain")
       \/ At("join")   /\ (\A w \in Servants : servant[w].pc = "off") /\ GoTo("finish")
    /\ UNCHANGED <<listenVars, poolVars, caller, conn>>

(* is_running_ = true, and the task queue with its threads *)
StartListen ==
    /\ At("entered") /\ GoTo("loop")
    /\ isRunning' = TRUE /\ listenRet' = TRUE
    /\ jobs' = <<>> /\ shutdownFlag' = FALSE
    /\ servant' = [w \in Servants |-> [Fresh EXCEPT !.pc = "lock"]]
    /\ UNCHANGED <<svrSock, lsock, isDecommissioned, caller, conn>>

Accept ==
    /\ At("accept") /\ Accepting
    /\ \E c \in Conns :
        /\ conn[c].state = "backlog"
        /\ conn' = [conn EXCEPT ![c].state = "open"]
        /\ listener' = [pc |-> "enqueue", sock |-> c]
    /\ UNCHANGED <<listenVars, poolVars, caller>>

Closed(s) == IF s = 0 THEN lsock ELSE [lsock EXCEPT ![s] = [state |-> "closed", closes |-> @.closes + 1]]

(* After an error of accept() svr_sock_ is closed, and keeps its value. *)
CloseOnError ==
    /\ At("fail") /\ GoTo("drain")
    /\ lsock' = Closed(svrSock)
    /\ listenRet' = FALSE
    /\ UNCHANGED <<svrSock, isRunning, isDecommissioned, poolVars, caller, conn>>

Full == MaxQueuedRequests > 0 /\ Len(jobs) >= MaxQueuedRequests

(* Mutant: a refused connection is closed and queued all the same. *)
EnqueueAlways ==
    /\ At("enqueue")
    /\ jobs' = Append(jobs, listener.sock)
    /\ listener' = [pc |-> "notify", sock |-> NoConn]
    /\ conn' = IF Full THEN [conn EXCEPT ![listener.sock].state = "closed"] ELSE conn
    /\ UNCHANGED <<listenVars, shutdownFlag, servant, caller>>

(* TaskQueue::enqueue(); the listener closes the connection that is refused. *)
Enqueue ==
    /\ At("enqueue")
    /\ \/ /\ ~Full
          /\ jobs' = Append(jobs, listener.sock)
          /\ listener' = [pc |-> "notify", sock |-> NoConn]
          /\ UNCHANGED conn
       \/ /\ Full
          /\ conn' = [conn EXCEPT ![listener.sock].state = "closed"]
          /\ listener' = [pc |-> "loop", sock |-> NoConn]
          /\ UNCHANGED jobs
    /\ UNCHANGED <<listenVars, shutdownFlag, servant, caller>>

Woken(ws) == [w \in Servants |-> IF w \in ws THEN [servant[w] EXCEPT !.pc = "lock"] ELSE servant[w]]
Asleep == {w \in Servants : servant[w].pc = "asleep"}

(* Mutant: nobody is notified. *)
NotifyNobody ==
    /\ At("notify") /\ GoTo("loop")
    /\ UNCHANGED <<listenVars, poolVars, caller, conn>>

(* cond_.notify_one(), after the unlock *)
NotifyOne ==
    /\ At("notify") /\ GoTo("loop")
    /\ \/ \E w \in Asleep : servant' = Woken({w})
       \/ Asleep = {} /\ UNCHANGED servant
    /\ UNCHANGED <<listenVars, jobs, shutdownFlag, caller, conn>>

(* ThreadPool::shutdown(): the flag, and then notify_all() *)
Shutdown ==
    /\ At("drain") /\ GoTo("wakeAll")
    /\ shutdownFlag' = TRUE
    /\ UNCHANGED <<listenVars, jobs, servant, caller, conn>>

WakeAll ==
    /\ At("wakeAll") /\ GoTo("join")
    /\ servant' = Woken(Asleep)
    /\ UNCHANGED <<listenVars, jobs, shutdownFlag, caller, conn>>

(* is_decommissioned = !ret, and then the scope_exit *)
FinishListen ==
    /\ \/ At("finish") /\ GoTo("leave") /\ isDecommissioned' = ~listenRet /\ UNCHANGED isRunning
       \/ At("leave")  /\ GoTo("idle")  /\ isRunning' = FALSE /\ UNCHANGED isDecommissioned
    /\ UNCHANGED <<svrSock, lsock, listenRet, poolVars, caller, conn>>

ListenStep ==
    \/ ListenTest \/ StartListen \/ Accept \/ CloseOnError \/ Enqueue \/ NotifyOne
    \/ Shutdown \/ WakeAll \/ FinishListen

-----------------------------------------------------------------------------
(* The threads of the task queue *)

(* Mutant: a thread leaves as soon as it sees the shutdown. *)
TakeJobEarlyExit(w) ==
    /\ servant[w].pc = "lock"
    /\ \/ /\ jobs = <<>> /\ ~shutdownFlag
          /\ servant' = [servant EXCEPT ![w].pc = "asleep"] /\ UNCHANGED jobs
       \/ /\ shutdownFlag
          /\ servant' = [servant EXCEPT ![w].pc = "off"] /\ UNCHANGED jobs
       \/ /\ jobs # <<>> /\ ~shutdownFlag
          /\ servant' = [servant EXCEPT ![w] = [pc |-> "first", sock |-> Head(jobs), count |-> KeepAliveMaxCount]]
          /\ jobs' = Tail(jobs)
    /\ UNCHANGED <<listenVars, listener, shutdownFlag, caller, conn>>

(* worker::operator(): with the mutex held, to sleep, to the end, or with *)
(* the next job to process_and_close_socket().                            *)
TakeJob(w) ==
    /\ servant[w].pc = "lock"
    /\ \/ /\ jobs = <<>> /\ ~shutdownFlag
          /\ servant' = [servant EXCEPT ![w].pc = "asleep"] /\ UNCHANGED jobs
       \/ /\ jobs = <<>> /\ shutdownFlag
          /\ servant' = [servant EXCEPT ![w].pc = "off"] /\ UNCHANGED jobs
       \/ /\ jobs # <<>>
          /\ servant' = [servant EXCEPT ![w] = [pc |-> "first", sock |-> Head(jobs), count |-> KeepAliveMaxCount]]
          /\ jobs' = Tail(jobs)
    /\ UNCHANGED <<listenVars, listener, shutdownFlag, caller, conn>>

SpuriousWakeup(w) ==
    /\ servant[w].pc = "asleep" /\ servant' = Woken({w})
    /\ UNCHANGED <<listenVars, listener, jobs, shutdownFlag, caller, conn>>

(* Mutant: svr_sock_ is not looked at. *)
KeepAliveBlindly(w) ==
    /\ \/ servant[w].pc = "first"  /\ \E p \in {"request", "check"} : servant' = [servant EXCEPT ![w].pc = p]
       \/ servant[w].pc = "check"  /\ servant' = [servant EXCEPT ![w].pc = "select"]
       \/ servant[w].pc = "select"
          /\ \E p \in {"request", "close", "check"} : servant' = [servant EXCEPT ![w].pc = p]
    /\ UNCHANGED <<listenVars, listener, jobs, shutdownFlag, caller, conn>>

(* keep_alive(): the first select_read() comes before svr_sock_ is looked    *)
(* at; in the loop the socket is readable, in error, past the timeout, or    *)
(* none of them and it goes round.                                           *)
KeepAlive(w) ==
    /\ \/ servant[w].pc = "first"  /\ \E p \in {"request", "check"} : servant' = [servant EXCEPT ![w].pc = p]
       \/ servant[w].pc = "check"
          /\ servant' = [servant EXCEPT ![w].pc = IF svrSock = 0 THEN "close" ELSE "select"]
       \/ servant[w].pc = "select"
          /\ \E p \in {"request", "close", "check"} : servant' = [servant EXCEPT ![w].pc = p]
    /\ UNCHANGED <<listenVars, listener, jobs, shutdownFlag, caller, conn>>

(* Mutant: the last request is not told of the close. *)
CloseConnectionNever(count) == FALSE

CloseConnection(count) == count = 1

(* process_request(): whether it returns true, connection_closed, and        *)
(* whether the response says "Connection: close"                             *)
Processed(r, count) ==
    [ret    |-> r \notin {"gone", "unwritable"},
     closed |-> r \in {"close", "http10"},
     served |-> r # "gone",
     said   |-> CloseConnection(count) \/ r = "close"]

ProcessRequest(w) ==
    /\ servant[w].pc = "request"
    /\ \E r \in Requests :
        LET p == Processed(r, servant[w].count) IN
        /\ servant' = [servant EXCEPT
              ![w].pc    = IF ~p.ret \/ p.closed \/ servant[w].count = 1 THEN "close" ELSE "first",
              ![w].count = IF ~p.ret \/ p.closed THEN @ ELSE @ - 1]
        /\ conn' = IF p.served THEN [conn EXCEPT ![servant[w].sock].served = @ + 1,
                                                 ![servant[w].sock].said = p.said]
                               ELSE conn
    /\ UNCHANGED <<listenVars, listener, jobs, shutdownFlag, caller>>

CloseConn(w) ==
    /\ servant[w].pc = "close"
    /\ conn' = [conn EXCEPT ![servant[w].sock].state = "closed"]
    /\ servant' = [servant EXCEPT ![w] = [Fresh EXCEPT !.pc = "lock"]]
    /\ UNCHANGED <<listenVars, listener, jobs, shutdownFlag, caller>>

ServantStep(w) == TakeJob(w) \/ KeepAlive(w) \/ ProcessRequest(w) \/ CloseConn(w)

-----------------------------------------------------------------------------
(* The other threads, and the peers *)

(* stop(): only a server that is_running_ has its socket taken away.  *)
(* The calls of wait_until_ready() and decommission() begin here too. *)
BeginCall(t) ==
    /\ caller[t].pc = "idle"
    /\ \/ \E p \in {"waiting", IF isRunning THEN "exchange" ELSE "clear"} :
             caller' = [caller EXCEPT ![t].pc = p] /\ UNCHANGED isDecommissioned
       \/ isDecommissioned' = TRUE /\ UNCHANGED caller
    /\ UNCHANGED <<svrSock, lsock, isRunning, listenRet, listener, poolVars, conn>>

Exchange(t) ==
    /\ caller[t].pc = "exchange"
    /\ caller' = [caller EXCEPT ![t] = [pc |-> "shutdown", sock |-> svrSock]]
    /\ svrSock' = 0
    /\ UNCHANGED <<lsock, isRunning, isDecommissioned, listenRet, listener, poolVars, conn>>

(* shutdown() of the listening socket, which ends an accept() *)
ShutdownSocket(t) ==
    /\ caller[t].pc = "shutdown"
    /\ LET s == caller[t].sock IN
       lsock' = IF s # 0 /\ lsock[s].state = "open" THEN [lsock EXCEPT ![s].state = "shut"] ELSE lsock
    /\ caller' = [caller EXCEPT ![t].pc = "close"]
    /\ UNCHANGED <<svrSock, isRunning, isDecommissioned, listenRet, listener, poolVars, conn>>

CloseSocket(t) ==
    /\ caller[t].pc = "close"
    /\ lsock' = Closed(caller[t].sock)
    /\ caller' = [caller EXCEPT ![t] = [pc |-> "clear", sock |-> 0]]
    /\ UNCHANGED <<svrSock, isRunning, isDecommissioned, listenRet, listener, poolVars, conn>>

ClearDecommissioned(t) ==
    /\ caller[t].pc = "clear"
    /\ isDecommissioned' = FALSE
    /\ caller' = [caller EXCEPT ![t].pc = "idle"]
    /\ UNCHANGED <<svrSock, lsock, isRunning, listenRet, listener, poolVars, conn>>

(* wait_until_ready() polls. *)
Ready(t) ==
    /\ caller[t].pc = "waiting" /\ (isRunning \/ isDecommissioned)
    /\ caller' = [caller EXCEPT ![t].pc = "idle"]
    /\ UNCHANGED <<listenVars, listener, poolVars, conn>>

CallerStep(t) == Exchange(t) \/ ShutdownSocket(t) \/ CloseSocket(t) \/ ClearDecommissioned(t) \/ Ready(t)

PeerConnects(c) ==
    /\ conn[c].state = "away" /\ Accepting
    /\ conn' = [conn EXCEPT ![c].state = "backlog"]
    /\ UNCHANGED <<listenVars, listener, poolVars, caller>>

HSNext ==
    \/ Bind \/ ListenStep
    \/ \E w \in Servants : ServantStep(w) \/ SpuriousWakeup(w)
    \/ \E t \in Callers : BeginCall(t) \/ CallerStep(t)
    \/ \E c \in Conns : PeerConnects(c)

HSSpec == HSInit /\ [][HSNext]_HSvars

(* Threads that can run do run.  That an idle connection times out is not    *)
(* assumed; nor that a request ends, which its peer decides (RequestsEnd).   *)
HSFairness ==
    /\ WF_HSvars(ListenStep)
    /\ \A w \in Servants : WF_HSvars(TakeJob(w) \/ KeepAlive(w) \/ CloseConn(w))
    /\ \A t \in Callers : WF_HSvars(CallerStep(t))

-----------------------------------------------------------------------------
(* Properties *)

Holders(c) ==
    (IF listener.sock = c THEN 1 ELSE 0)
    + Cardinality({i \in DOMAIN jobs : jobs[i] = c})
    + Cardinality({w \in Servants : servant[w].sock = c})

(* An accepted connection is open as long as exactly one of the listener,   *)
(* the queue and the threads has it, so that it is closed once and never    *)
(* used after that; when listen() leaves, also after a stop() at any time,  *)
(* none is left; and who is served as often as it is allowed was told so.   *)
ConnectionsAreHeld ==
    /\ \A c \in Conns : Holders(c) = IF conn[c].state = "open" THEN 1 ELSE 0
    /\ listener.pc \in {"finish", "leave", "idle"} => \A c \in Conns : conn[c].state # "open"
    /\ \A c \in Conns : /\ conn[c].served <= KeepAliveMaxCount
                        /\ conn[c].served = KeepAliveMaxCount => conn[c].said

(* The notification comes after the unlock, and threads fall asleep, wake   *)
(* up by themselves and return from a connection in between: while a thread *)
(* of the queue sleeps, every queued connection has a thread on its way.    *)
NoIdleServant ==
    Asleep # {} =>
        Len(jobs) <= Cardinality({w \in Servants : servant[w].pc = "lock"}) + (IF At("notify") THEN 1 ELSE 0)

(* Every accepted connection is served, and closed, by one thread. *)
ConnectionsAreServed == ConnectionsAreHeld /\ NoIdleServant

(* What makes ConnectionsAreServed inductive.  Numbers of listening sockets *)
(* are of sockets that were made.                                           *)
SocketsAreKnown ==
    /\ Len(lsock) <= MaxListens /\ svrSock <= Len(lsock)
    /\ \A t \in Callers : caller[t].sock <= Len(lsock)

(* A connection that is open is with the listener, in the queue or with a  *)
(* thread, in one place of one of them; and who has one is where it is used. *)
Serving(w) == servant[w].sock # NoConn

OnePlaceEach ==
    /\ listener.sock # NoConn <=> At("enqueue")
    /\ listener.sock # NoConn => conn[listener.sock].state = "open"
    /\ \A i \in DOMAIN jobs : conn[jobs[i]].state = "open" /\ jobs[i] # listener.sock
    /\ \A i, j \in DOMAIN jobs : jobs[i] = jobs[j] => i = j
    /\ \A w \in Servants : Serving(w) <=> servant[w].pc \in {"first", "check", "select", "request", "close"}
    /\ \A w \in Servants : Serving(w) =>
         /\ conn[servant[w].sock].state = "open" /\ servant[w].sock # listener.sock
         /\ \A i \in DOMAIN jobs : jobs[i] # servant[w].sock
    /\ \A v, w \in Servants : Serving(v) /\ servant[v].sock = servant[w].sock => v = w
    /\ \A c \in Conns : conn[c].state = "open" =>
         \/ listener.sock = c
         \/ \E i \in DOMAIN jobs : jobs[i] = c
         \/ \E w \in Servants : servant[w].sock = c

(* What a thread may still serve is what its connection was not served yet. *)
ServedAsCounted ==
    /\ \A c \in Conns :
         /\ conn[c].served <= KeepAliveMaxCount
         /\ conn[c].served = KeepAliveMaxCount => conn[c].said
         /\ conn[c].state \in {"away", "backlog"} => conn[c].served = 0
    /\ listener.sock # NoConn => conn[listener.sock].served = 0
    /\ \A i \in DOMAIN jobs : conn[jobs[i]].served = 0
    /\ \A w \in Servants : servant[w].pc \in {"first", "check", "select", "request"} =>
         servant[w].count > 0 /\ conn[servant[w].sock].served = KeepAliveMaxCount - servant[w].count

(* Threads leave once there is nothing to serve, and the listener waits for *)
(* them before it returns.                                                  *)
QueueDrains ==
    /\ listener.pc \in {"idle", "bound", "entered", "finish", "leave"} =>
         jobs = <<>> /\ \A w \in Servants : servant[w].pc = "off"
    /\ listener.pc \in {"loop", "accept", "error", "fail", "enqueue", "notify", "drain"} =>
         ~shutdownFlag /\ \A w \in Servants : servant[w].pc # "off"
    /\ listener.pc \in {"wakeAll", "join"} =>
         shutdownFlag /\ \A w \in Servants : servant[w].pc = "off" => jobs = <<>>

ServerInv ==
    /\ HSTypeOK /\ SocketsAreKnown /\ OnePlaceEach /\ ServedAsCounted /\ QueueDrains /\ NoIdleServant

(* What is assumed of the peers and the handlers: no thread is in           *)
(* process_request() for ever.  The code does not see to it: its timeouts   *)
(* are those of each read and write, and a peer that sends a byte now and   *)
(* then, or headers or chunks without an end, keeps a thread as long as it  *)
(* likes.                                                                    *)
RequestsEnd == \A w \in Servants : []<>(servant[w].pc # "request")

(* If every request ends, listen() returns once stop() found the server     *)
(* running: it does not wait for idle connections to time out, nor for      *)
(* peers that have another request to send, nor for peers that connect.     *)
StopEndsListen ==
    RequestsEnd =>
        \A t \in Callers, n \in 1 .. MaxListens :
            (caller[t].pc = "exchange" /\ Len(lsock) = n) ~> (At("idle") \/ Len(lsock) # n)

(* assert(svr_sock_ != INVALID_SOCKET) in stop() *)
StopFindsSocket == \A t \in Callers : caller[t].pc = "exchange" => svrSock # 0
=============================================================================
