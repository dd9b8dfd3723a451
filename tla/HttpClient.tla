----------------------------- MODULE HttpClient -----------------------------
(***************************************************************************)
(* One httplib::ClientImpl (or SSLClient) that several threads use: they   *)
(* call send() (every Get, Post, ... ends there), stop(), and at last the  *)
(* destructor.  request_mutex_ is recursive: a redirect or a digest answer *)
(* sends again, from within the request that it answers, so that the calls *)
(* of the thread that holds the mutex form a stack (frames).               *)
(*                                                                         *)
(* socket_mutex_ is taken for short sections, each a step, and is held all *)
(* through a connect.  What the network does is a free choice.             *)
(***************************************************************************)
EXTENDS Integers, Sequences, FiniteSets

CONSTANTS
    Users,         \* threads that call send() and stop()
    Settings,      \* is_ssl(), keep_alive_, follow_location_ and digest credentials
    MaxRedirects,  \* redirect_count_ of a fresh request
    MaxAuth,       \* the limit of authorization_count_, 5 in the code
    Polls,         \* the times the destructor looks, 10 in the code
    MaxCalls,      \* bound: calls of send()
    NoUser         \* no thread

ASSUME HttpClientAssumption ==
    /\ Settings \subseteq [ssl : BOOLEAN, keepAlive : BOOLEAN, follow : BOOLEAN, digest : BOOLEAN]
    /\ MaxRedirects \in Nat /\ MaxAuth \in Nat /\ Polls \in Nat /\ MaxCalls \in Nat
    /\ NoUser \notin Users

VARIABLES
    settings,
    sock,         \* socket_: "none", "live", "gone" (closed by the peer) or "shut"
    inFlight,     \* socket_requests_in_flight_
    fromThread,   \* socket_requests_are_from_thread_
    shouldClose,  \* socket_should_be_closed_when_request_is_done_
    owner,        \* who holds request_mutex_
    frames,       \* the calls of send() of the owner, the outermost first
    cpc,          \* where the owner is
    outcome,      \* ret and error, as the owner's innermost call has them
    res,          \* the response: its status, and whether it ends the connection
    user,         \* per thread "idle" or "waiting" for request_mutex_, or "sending"
    calls,        \* the calls of send() so far
    stopped,      \* history: stop() met a request of the current call in flight
    dtor          \* the destructor: how often it will still look, -1 once it is through

sockVars  == <<sock, inFlight, fromThread, shouldClose>>
ownerVars == <<owner, frames, cpc, outcome, res>>
HCvars    == <<settings, sockVars, ownerVars, user, calls, stopped, dtor>>

Statuses == {"ok", "here", "away", "nowhere", "401"}

(* One call of send(): redirect_count_, authorization_count_, the first or *)
(* second call of send_(), whether it counts in inFlight, and who called.  *)
Frame == [left : 0 .. MaxRedirects, auth : 0 .. MaxAuth, attempt : 1 .. 2, counted : BOOLEAN,
          why : {"call", "redirect", "digest"}]

HCTypeOK ==
    /\ settings \in Settings
    /\ sock \in {"none", "live", "gone", "shut"}
    /\ inFlight \in Nat /\ fromThread \in Users \cup {NoUser} /\ shouldClose \in BOOLEAN
    /\ owner \in Users \cup {NoUser} /\ frames \in Seq(Frame)
    /\ cpc \in {"free", "enter", "connect", "process", "respond", "elsewhere", "exit", "return"}
    /\ outcome \in [ret : BOOLEAN,
                    error : {"Success", "Connection", "ProxyConnection", "SSL", "Read", "SSLPeerCouldBeClosed_",
                             "ExceedRedirectCount", "Unknown"}]
    /\ res \in [status : Statuses, close : BOOLEAN]
    /\ user \in [Users -> {"idle", "waiting", "sending"}]
    /\ calls \in 0 .. MaxCalls /\ stopped \in BOOLEAN /\ dtor \in -1 .. Polls + 1

HCInit ==
    /\ settings \in Settings
    /\ sock = "none" /\ inFlight = 0 /\ fromThread = NoUser /\ shouldClose = FALSE
    /\ owner = NoUser /\ frames = <<>> /\ cpc = "free"
    /\ outcome = [ret |-> FALSE, error |-> "Success"] /\ res = [status |-> "ok", close |-> FALSE]
    /\ user = [u \in Users |-> "idle"] /\ calls = 0 /\ stopped = FALSE /\ dtor = Polls + 1

Top == frames[Len(frames)]
SetTop(f) == [frames EXCEPT ![Len(frames)] = f]
Usable == dtor = Polls + 1

-----------------------------------------------------------------------------
(* send(), as the thread that holds request_mutex_ executes it *)

Begin(u) ==
    /\ Usable /\ user[u] = "idle" /\ calls < MaxCalls
    /\ user' = [user EXCEPT ![u] = "waiting"] /\ calls' = calls + 1
    /\ UNCHANGED <<settings, sockVars, ownerVars, stopped, dtor>>

LockRequest(u) ==
    /\ user[u] = "waiting" /\ owner = NoUser
    /\ owner' = u /\ user' = [user EXCEPT ![u] = "sending"]
    /\ frames' = <<[left |-> MaxRedirects, auth |-> 0, attempt |-> 1, counted |-> FALSE, why |-> "call"]>>
    /\ cpc' = "enter" /\ outcome' = [ret |-> FALSE, error |-> "Success"]
    /\ stopped' = FALSE
    /\ UNCHANGED <<settings, sockVars, res, calls, dtor>>

Mark ==
    /\ inFlight' = inFlight + 1 /\ fromThread' = owner
    /\ frames' = SetTop([Top EXCEPT !.counted = TRUE])
    /\ cpc' = "process"

(* Mutant: the socket is used before it is marked as in use. *)
EnterUnmarked ==
    /\ cpc = "enter"
    /\ shouldClose' = FALSE
    /\ IF sock = "live"
       THEN cpc' = "process" /\ UNCHANGED <<sock, inFlight, fromThread, frames>>
       ELSE sock' = "none" /\ cpc' = "connect" /\ UNCHANGED <<inFlight, fromThread, frames>>
    /\ UNCHANGED <<settings, owner, outcome, res, user, calls, stopped, dtor>>

(* The section of send_(): the flag is reset; a socket that is alive is used *)
(* again, any other is closed before a connect.                              *)
Enter ==
    /\ cpc = "enter"
    /\ shouldClose' = FALSE
    /\ \/ sock = "live" /\ Mark /\ UNCHANGED sock
       \/ sock # "live" /\ sock' = "none" /\ cpc' = "connect" /\ UNCHANGED <<inFlight, fromThread, frames>>
    /\ UNCHANGED <<settings, owner, outcome, res, user, calls, stopped, dtor>>

(* create_and_connect_socket(), connect_with_proxy() and initialize_ssl(),   *)
(* in the same section.  A proxy that refuses has its answer returned as the *)
(* response, with an error.  An error that is already set is kept.           *)
Connect ==
    /\ cpc = "connect"
    /\ \/ /\ sock' = "live" /\ Mark
          /\ outcome' = [ret |-> FALSE, error |-> "Success"]
          /\ UNCHANGED res
       \/ /\ cpc' = "return"
          /\ \/ outcome' = [ret |-> FALSE, error |-> IF outcome.error = "Success" THEN "Connection" ELSE outcome.error]
                /\ UNCHANGED res
             \/ outcome' = [ret |-> FALSE, error |-> "Connection"] /\ UNCHANGED res
             \/ settings.ssl /\ outcome' = [ret |-> FALSE, error |-> "SSL"] /\ UNCHANGED res
             \/ settings.ssl /\ outcome' = [ret |-> TRUE, error |-> "ProxyConnection"]
                /\ \E s \in {"ok", "401"} : res' = [status |-> s, close |-> FALSE]
          /\ UNCHANGED <<sock, inFlight, fromThread, frames>>
    /\ UNCHANGED <<settings, shouldClose, owner, user, calls, stopped, dtor>>

(* process_request(): writing or reading fails (always, when the socket was  *)
(* shut down before the response came), a handler cancels, the peer of an    *)
(* SSL connection is found gone, or there is a response.                     *)
Process ==
    /\ cpc = "process"
    /\ \/ /\ outcome' = [ret |-> FALSE, error |-> "Read"]
          /\ cpc' = "exit" /\ UNCHANGED res
       \/ /\ settings.ssl /\ sock = "gone"
          /\ outcome' = [ret |-> FALSE, error |-> "SSLPeerCouldBeClosed_"]
          /\ cpc' = "exit" /\ UNCHANGED res
       \/ /\ res' \in [status : Statuses, close : BOOLEAN]
          /\ outcome' = [outcome EXCEPT !.ret = TRUE]
          /\ cpc' = "respond"
    /\ UNCHANGED <<settings, sockVars, owner, frames, user, calls, stopped, dtor>>

(* Mutant: a redirect is followed however many there were. *)
FollowsForever == settings.follow

Follows == settings.follow /\ Top.left > 0
Redirects == settings.follow /\ res.status \in {"here", "away", "nowhere"}

(* send() once more, from within the request of the innermost frame *)
Again(f, why) ==
    /\ frames' = Append(f, [f[Len(f)] EXCEPT
            !.left = IF why = "redirect" THEN @ - 1 ELSE @, !.auth = IF why = "digest" THEN @ + 1 ELSE @,
            !.attempt = 1, !.counted = FALSE, !.why = why])
    /\ cpc' = "enter"

Answers401(f) == settings.digest /\ res.status = "401" /\ f[Len(f)].auth < MaxAuth

(* The rest of handle_request(): "Connection: close" and HTTP/1.0 close the *)
(* socket at once; then a redirect, and then a digest authentication.       *)
Respond ==
    /\ cpc = "respond"
    /\ sock' = IF res.close THEN "none" ELSE sock
    /\ \/ /\ Redirects /\ Follows /\ res.status = "here"
          /\ Again(frames, "redirect") /\ UNCHANGED outcome
       \/ /\ Redirects /\ Follows /\ res.status = "away"
          /\ cpc' = "elsewhere" /\ UNCHANGED <<frames, outcome>>
       \/ /\ Redirects /\ (~Follows \/ res.status = "nowhere")
          /\ outcome' = [ret |-> FALSE, error |-> IF ~Follows THEN "ExceedRedirectCount" ELSE outcome.error]
          /\ cpc' = "exit" /\ UNCHANGED frames
       \/ /\ Answers401(frames)
          /\ Again(frames, "digest") /\ UNCHANGED outcome
       \/ /\ ~Redirects /\ ~Answers401(frames)
          /\ cpc' = "exit" /\ UNCHANGED <<frames, outcome>>
    /\ UNCHANGED <<settings, inFlight, fromThread, shouldClose, owner, res, user, calls, stopped, dtor>>

(* A redirect to another host or port goes through a client of its own. *)
Elsewhere ==
    /\ cpc = "elsewhere"
    /\ \/ outcome' = [outcome EXCEPT !.ret = TRUE] /\ res' = [status |-> "ok", close |-> FALSE]
       \/ outcome' = [ret |-> FALSE, error |-> "Read"] /\ UNCHANGED res
    /\ cpc' = "exit"
    /\ UNCHANGED <<settings, sockVars, owner, frames, user, calls, stopped, dtor>>

(* Mutant: the flag that stop() set is not looked at. *)
ClosesIfFailed == ~settings.keepAlive \/ ~outcome.ret

ClosesAtExit == shouldClose \/ ~settings.keepAlive \/ ~outcome.ret

(* The scope_exit of send_() *)
Exit ==
    /\ cpc = "exit"
    /\ inFlight' = inFlight - 1
    /\ fromThread' = IF inFlight = 1 THEN NoUser ELSE fromThread
    /\ sock' = IF ClosesAtExit THEN "none" ELSE sock
    /\ outcome' = IF ~outcome.ret /\ outcome.error = "Success" THEN [outcome EXCEPT !.error = "Unknown"] ELSE outcome
    /\ frames' = SetTop([Top EXCEPT !.counted = FALSE])
    /\ cpc' = "return"
    /\ UNCHANGED <<settings, shouldClose, owner, res, user, calls, stopped, dtor>>

(* Mutant: send() tries as long as the peer is found gone. *)
RetryAlways == outcome.error = "SSLPeerCouldBeClosed_"

Retry == outcome.error = "SSLPeerCouldBeClosed_" /\ Top.attempt = 1

(* The caller of the innermost send(), after it returned: a redirect that   *)
(* came through leaves its request, with the redirects that it has left.    *)
Outer == SubSeq(frames, 1, Len(frames) - 2)
         \o <<[frames[Len(frames) - 1] EXCEPT !.left = IF Top.why = "redirect" /\ outcome.ret THEN Top.left ELSE @]>>

(* send(), after send_(): once more, or back to the caller, which after a *)
(* redirect may find a 401, or out of the call.                           *)
Return ==
    /\ cpc = "return"
    /\ \/ /\ Retry
          /\ frames' = SetTop([Top EXCEPT !.attempt = 2]) /\ cpc' = "enter"
          /\ UNCHANGED <<owner, user>>
       \/ /\ ~Retry /\ Len(frames) > 1
          /\ IF Top.why = "redirect" /\ outcome.ret /\ Answers401(Outer)
             THEN Again(Outer, "digest")
             ELSE frames' = Outer /\ cpc' = "exit"
          /\ UNCHANGED <<owner, user>>
       \/ /\ ~Retry /\ Len(frames) = 1
          /\ frames' = <<>> /\ cpc' = "free"
          /\ owner' = NoUser /\ user' = [user EXCEPT ![owner] = "idle"]
    /\ UNCHANGED <<settings, sockVars, outcome, res, calls, stopped, dtor>>

OwnerStep == Enter \/ Connect \/ Process \/ Respond \/ Elsewhere \/ Exit \/ Return

-----------------------------------------------------------------------------
(* stop(), the destructor, and the peer *)

(* Mutant: the socket is closed although a request uses it. *)
StopClosing(u) ==
    /\ Usable /\ user[u] = "idle" /\ cpc # "connect"
    /\ sock' = "none" /\ shouldClose' = (inFlight > 0) /\ stopped' = (inFlight > 0 \/ stopped)
    /\ UNCHANGED <<settings, inFlight, fromThread, ownerVars, user, calls, dtor>>

(* stop() shuts a socket in use down and leaves the close to its user. *)
Stop(u) ==
    /\ Usable /\ user[u] = "idle" /\ cpc # "connect"
    /\ \/ /\ inFlight > 0
          /\ sock' = IF sock = "none" THEN "none" ELSE "shut"
          /\ shouldClose' = TRUE /\ stopped' = TRUE
       \/ /\ inFlight = 0
          /\ sock' = "none" /\ UNCHANGED <<shouldClose, stopped>>
    /\ UNCHANGED <<settings, inFlight, fromThread, ownerVars, user, calls, dtor>>

(* ~ClientImpl(), begun when nobody calls any more but requests may still be *)
(* in flight: it looks at most Polls times, and closes then all the same.    *)
Destroy ==
    /\ dtor >= 0 /\ cpc # "connect" /\ \A u \in Users : user[u] # "waiting"
    /\ IF inFlight = 0 \/ dtor = 0
       THEN dtor' = -1 /\ sock' = "none"
       ELSE dtor' = dtor - 1 /\ UNCHANGED sock
    /\ UNCHANGED <<settings, inFlight, fromThread, shouldClose, ownerVars, user, calls, stopped>>

PeerCloses ==
    /\ sock = "live" /\ sock' = "gone"
    /\ UNCHANGED <<settings, inFlight, fromThread, shouldClose, ownerVars, user, calls, stopped, dtor>>

HCNext ==
    \/ OwnerStep \/ Destroy \/ PeerCloses
    \/ \E u \in Users : Begin(u) \/ LockRequest(u) \/ Stop(u)

HCSpec == HCInit /\ [][HCNext]_HCvars

(* The thread that has the mutex goes on where it does not wait for a peer  *)
(* (AnswersEnd).  Who waits for the mutex gets it some time.                *)
HCFairness ==
    /\ WF_HCvars(Enter \/ Respond \/ Exit \/ Return)
    /\ \A u \in Users : SF_HCvars(LockRequest(u))

-----------------------------------------------------------------------------
(* Properties *)

Counted == {i \in DOMAIN frames : frames[i].counted}

(* The asserts of send_() and close_socket(): the requests in flight are    *)
(* those of the thread that holds request_mutex_, one per call it is in,    *)
(* and while a thread reads and writes, nobody closes the socket under it - *)
(* unless the destructor has lost its patience.                             *)
SocketInUseStaysOpen ==
    /\ inFlight = Cardinality(Counted)
    /\ fromThread = IF inFlight > 0 THEN owner ELSE NoUser
    /\ cpc = "process" /\ dtor >= 0 => sock # "none"

(* stop(): "we set a flag for the socket to be closed when we're done".  A   *)
(* plain request that stop() found in flight leaves no socket behind.        *)
StopClosesSocket ==
    ~settings.follow /\ ~settings.digest /\ ~settings.ssl /\ stopped /\ cpc = "return" => sock = "none"

(* The same for every request, also one that is redirected: violated. *)
StopAlwaysClosesSocket == stopped /\ cpc = "return" /\ Len(frames) = 1 => sock = "none"

(* assert(!ret) in send(): only what failed is sent again. *)
OnlyFailuresAreRetried == cpc = "return" /\ Retry => ~outcome.ret

(* What send_(), stop() and the destructor agree on about the socket. *)
SocketIsAgreedOn == SocketInUseStaysOpen /\ StopClosesSocket /\ OnlyFailuresAreRetried

(* What makes SocketIsAgreedOn inductive.  The calls of the owner form a    *)
(* stack in which all but the innermost are within their request, and so    *)
(* counted; the innermost is from process_request() to its scope_exit.      *)
InRequest == cpc \in {"process", "respond", "elsewhere", "exit"}

FramesStand ==
    /\ owner = NoUser <=> cpc = "free"
    /\ frames = <<>> <=> cpc = "free"
    /\ \A i \in DOMAIN frames : frames[i].counted <=> (i < Len(frames) \/ InRequest)
    /\ inFlight = IF frames = <<>> \/ InRequest THEN Len(frames) ELSE Len(frames) - 1
    /\ fromThread = IF inFlight > 0 THEN owner ELSE NoUser

(* The error that makes send() try again is that of a request that failed, *)
(* and whose socket is closed once the request is over.                    *)
LostPeerHasFailed ==
    outcome.error = "SSLPeerCouldBeClosed_" =>
        /\ ~outcome.ret
        /\ cpc \in {"exit", "return", "enter", "connect", "free"}
        /\ cpc # "exit" => sock = "none"

(* What stop() found in flight was one plain request, and it is over only  *)
(* after the flag was looked at.                                           *)
FlagOutlivesRequest ==
    ~settings.follow /\ ~settings.digest /\ ~settings.ssl =>
        /\ Len(frames) <= 1 /\ cpc # "elsewhere" /\ outcome.error # "SSLPeerCouldBeClosed_"
        /\ stopped => \/ cpc \in {"process", "respond", "exit"} /\ shouldClose
                      \/ cpc = "return" /\ sock = "none"
                      \/ cpc = "free"

ClientInv ==
    /\ HCTypeOK /\ FramesStand /\ LostPeerHasFailed /\ FlagOutlivesRequest
    /\ cpc = "process" /\ dtor >= 0 => sock # "none"

(* What is assumed of the peers: no connect and no answer takes for ever.   *)
(* The code does not see to it: its timeouts are those of each read and     *)
(* write, there is no limit to the whole unless the user sets max_timeout,  *)
(* and headers, chunks and content without a length may have no end.        *)
AnswersEnd == []<>(cpc \notin {"connect", "process", "elsewhere"})

(* If every answer ends, every call of send() returns, whatever the answers *)
(* are and the other threads do: redirects, digest answers and the second   *)
(* attempts all come to an end.                                             *)
CallsEnd == AnswersEnd => \A u \in Users : user[u] = "waiting" ~> user[u] = "idle"
=============================================================================
