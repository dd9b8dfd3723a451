--------------------------- MODULE HttpSocketProofs ---------------------------
(***************************************************************************)
(* Proofs about HttpClient, HttpConnect and HttpStream, for all settings,   *)
(* every number of addresses, every size of the buffers and every limit,    *)
(* and about MCHttp, which puts them into one run with the server.          *)
(*                                                                         *)
(* BytesAreReadInOrder compares sequences.  StreamInv says the same of each *)
(* byte: where those that were taken and those that were read ahead come    *)
(* from (BytesInPlace), in which buffer the line is, and what the reader    *)
(* knows of its last byte (LineInPlace).                                    *)
(*                                                                         *)
(* SocketIsAgreedOn is not inductive: it counts the frames that are         *)
(* counted, and does not say which they are.  ClientInv does: all below the *)
(* innermost, and that one while it is in its request.                      *)
(***************************************************************************)
EXTENDS MCHttp, HttpServerProofs

-----------------------------------------------------------------------------
(* HttpClient                                                              *)

PlainFrame == [left |-> MaxRedirects, auth |-> 0, attempt |-> 1, counted |-> FALSE, why |-> "call"]

-----------------------------------------------------------------------------
(* The stack of calls *)

(* The innermost frame, and replacing it. *)
LEMMA TopProperties ==
    ASSUME HCTypeOK, frames # <<>>
    PROVE  /\ Len(frames) \in Nat \ {0} /\ Top \in Frame
           /\ \A f \in Frame :
                /\ SetTop(f) \in Seq(Frame) /\ Len(SetTop(f)) = Len(frames)
                /\ SetTop(f)[Len(frames)] = f
                /\ \A i \in 1 .. Len(frames) - 1 : SetTop(f)[i] = frames[i]
<1>1. frames \in Seq(Frame)
  BY DEF HCTypeOK
<1>2. Len(frames) \in Nat \ {0}
  BY <1>1
<1>3. Top \in Frame
  BY <1>1, <1>2 DEF Top
<1>4. ASSUME NEW f \in Frame
      PROVE  /\ SetTop(f) \in Seq(Frame) /\ Len(SetTop(f)) = Len(frames)
             /\ SetTop(f)[Len(frames)] = f
             /\ \A i \in 1 .. Len(frames) - 1 : SetTop(f)[i] = frames[i]
  BY <1>1, <1>2, <1>4 DEF SetTop
<1>. QED BY <1>2, <1>3, <1>4

(* While the owner is somewhere, it has a call. *)
LEMMA OwnerHasFrame ==
    ASSUME ClientInv, cpc # "free"
    PROVE  frames # <<>> /\ owner \in Users
BY DEF ClientInv, FramesStand, HCTypeOK

(* The asserts of send_() and close_socket() follow from how the stack stands. *)
LEMMA InvImpliesAgreed == ClientInv => SocketIsAgreedOn
<1>. SUFFICES ASSUME ClientInv PROVE SocketIsAgreedOn
  OBVIOUS
<1>1. frames \in Seq(Frame) /\ inFlight \in Nat
  BY DEF ClientInv, HCTypeOK
<1>2. inFlight = Cardinality(Counted)
  <2>1. Counted = 1 .. inFlight
    <3>1. \A i \in 1 .. Len(frames) : frames[i].counted <=> (i < Len(frames) \/ InRequest)
      BY <1>1 DEF ClientInv, FramesStand
    <3>2. inFlight = IF frames = <<>> \/ InRequest THEN Len(frames) ELSE Len(frames) - 1
      BY DEF ClientInv, FramesStand
    <3>3. Counted = {i \in 1 .. Len(frames) : i < Len(frames) \/ InRequest}
      BY <1>1, <3>1 DEF Counted
    <3>. QED BY <1>1, <3>2, <3>3
  <2>2. Cardinality(1 .. inFlight) = inFlight
    BY <1>1, FS_Interval
  <2>. QED BY <2>1, <2>2
<1>3. SocketInUseStaysOpen
  BY <1>2 DEF SocketInUseStaysOpen, ClientInv, FramesStand
<1>4. StopClosesSocket
  BY DEF StopClosesSocket, ClientInv, FlagOutlivesRequest
<1>5. OnlyFailuresAreRetried
  BY DEF OnlyFailuresAreRetried, ClientInv, LostPeerHasFailed, Retry
<1>. QED BY <1>3, <1>4, <1>5 DEF SocketIsAgreedOn

LEMMA ClientInit == HCInit => ClientInv
<1>. SUFFICES ASSUME HCInit PROVE ClientInv
  OBVIOUS
<1>. USE HttpClientAssumption
<1>1. HCTypeOK
  <2>1. frames \in Seq(Frame)
    BY DEF HCInit
  <2>2. res \in [status : Statuses, close : BOOLEAN]
    BY DEF HCInit, Statuses
  <2>3. dtor \in -1 .. Polls + 1 /\ calls \in 0 .. MaxCalls
    BY DEF HCInit
  <2>. QED BY <2>1, <2>2, <2>3 DEF HCInit, HCTypeOK
<1>2. FramesStand
  BY DEF HCInit, FramesStand, InRequest
<1>. QED BY <1>1, <1>2 DEF HCInit, ClientInv, LostPeerHasFailed, FlagOutlivesRequest

-----------------------------------------------------------------------------
(* One lemma per action *)

LEMMA InvBegin ==
    ASSUME ClientInv, NEW u \in Users, Begin(u)
    PROVE  ClientInv'
<1>. USE HttpClientAssumption DEF Begin, sockVars, ownerVars
<1>1. HCTypeOK'
  BY DEF ClientInv, HCTypeOK
<1>2. FramesStand'
  BY DEF ClientInv, FramesStand, InRequest
<1>. QED BY <1>1, <1>2 DEF ClientInv, LostPeerHasFailed, FlagOutlivesRequest

LEMMA InvLockRequest ==
    ASSUME ClientInv, NEW u \in Users, LockRequest(u)
    PROVE  ClientInv'
<1>. USE HttpClientAssumption DEF LockRequest, sockVars
<1>1. frames' = <<PlainFrame>> /\ PlainFrame \in Frame /\ ~PlainFrame.counted
  BY DEF PlainFrame, Frame
<1>2. /\ frames' \in Seq(Frame) /\ Len(frames') = 1 /\ frames' # <<>> /\ DOMAIN frames' = {1}
      /\ ~frames'[1].counted
  <2>. PICK f : f = PlainFrame
    OBVIOUS
  <2>1. frames' = <<f>> /\ f \in Frame /\ ~f.counted
    BY <1>1
  <2>2. Len(<<f>>) = 1 /\ <<f>>[1] = f /\ <<f>> \in Seq(Frame) /\ <<f>> # <<>> /\ DOMAIN <<f>> = {1}
    BY <2>1
  <2>. QED BY <2>1, <2>2
<1>3. HCTypeOK'
  BY <1>2 DEF ClientInv, HCTypeOK
<1>4. owner = NoUser /\ cpc = "free" /\ frames = <<>> /\ inFlight = 0
  BY DEF ClientInv, FramesStand
<1>5. FramesStand'
  BY <1>2, <1>4 DEF ClientInv, FramesStand, InRequest
<1>. QED BY <1>2, <1>3, <1>5 DEF ClientInv, LostPeerHasFailed, FlagOutlivesRequest

(* A request that is marked as in flight *)
LEMMA FramesMark ==
    ASSUME ClientInv, Mark, cpc \in {"enter", "connect"}, UNCHANGED owner
    PROVE  /\ inFlight' \in Nat /\ fromThread' \in Users /\ frames' \in Seq(Frame)
           /\ Len(frames') = Len(frames) /\ FramesStand'
<1>1. frames # <<>> /\ owner \in Users
  BY OwnerHasFrame
<1>2. PICK f : f = [Top EXCEPT !.counted = TRUE]
  OBVIOUS
<1>3. f \in Frame /\ f.counted
  BY <1>1, <1>2, TopProperties DEF ClientInv, Frame
<1>4. frames' = SetTop(f)
  BY <1>2 DEF Mark
<1>5. /\ frames' \in Seq(Frame) /\ Len(frames') = Len(frames) /\ Len(frames) \in Nat \ {0}
      /\ frames'[Len(frames)] = f /\ \A i \in 1 .. Len(frames) - 1 : frames'[i] = frames[i]
  BY <1>1, <1>3, <1>4, TopProperties DEF ClientInv
<1>6. frames \in Seq(Frame)
  BY DEF ClientInv, HCTypeOK
<1>7. \A i \in 1 .. Len(frames) - 1 : frames[i].counted
  BY <1>6 DEF ClientInv, FramesStand
<1>8. inFlight = Len(frames) - 1
  BY <1>1 DEF ClientInv, FramesStand, InRequest
<1>9. \A i \in DOMAIN frames' : frames'[i].counted
  BY <1>3, <1>5, <1>7
<1>10. inFlight' = Len(frames') /\ fromThread' = owner /\ cpc' = "process" /\ frames' # <<>>
  BY <1>5, <1>8 DEF Mark
<1>11. FramesStand'
  BY HttpClientAssumption, <1>1, <1>5, <1>9, <1>10 DEF FramesStand, InRequest
<1>. QED BY <1>1, <1>5, <1>10, <1>11

LEMMA InvEnter ==
    ASSUME ClientInv, Enter
    PROVE  ClientInv'
<1>1. CASE sock = "live" /\ Mark /\ UNCHANGED sock
  <2>1. inFlight' \in Nat /\ fromThread' \in Users /\ frames' \in Seq(Frame)
        /\ Len(frames') = Len(frames) /\ FramesStand'
    BY <1>1, FramesMark DEF Enter
  <2>2. cpc' = "process"
    BY <1>1 DEF Mark
  <2>3. HCTypeOK'
    BY <1>1, <2>1, <2>2 DEF Enter, ClientInv, HCTypeOK
  <2>4. outcome.error # "SSLPeerCouldBeClosed_"
    BY <1>1 DEF Enter, ClientInv, LostPeerHasFailed
  <2>5. LostPeerHasFailed'
    BY <2>4 DEF Enter, LostPeerHasFailed
  <2>6. FlagOutlivesRequest'
    BY <2>1, <2>2, <2>4 DEF Enter, ClientInv, FlagOutlivesRequest
  <2>. QED BY <1>1, <2>1, <2>3, <2>5, <2>6 DEF ClientInv
<1>2. CASE sock # "live" /\ sock' = "none" /\ cpc' = "connect" /\ UNCHANGED <<inFlight, fromThread, frames>>
  <2>. USE <1>2 DEF Enter
  <2>1. HCTypeOK'
    BY DEF ClientInv, HCTypeOK
  <2>2. FramesStand'
    BY DEF ClientInv, FramesStand, InRequest
  <2>. QED BY <2>1, <2>2 DEF ClientInv, LostPeerHasFailed, FlagOutlivesRequest
<1>. QED BY <1>1, <1>2 DEF Enter

LEMMA InvConnect ==
    ASSUME ClientInv, Connect
    PROVE  ClientInv'
<1>1. CASE sock' = "live" /\ Mark /\ outcome' = [ret |-> FALSE, error |-> "Success"] /\ UNCHANGED res
  <2>1. inFlight' \in Nat /\ fromThread' \in Users /\ frames' \in Seq(Frame)
        /\ Len(frames') = Len(frames) /\ FramesStand'
    BY <1>1, FramesMark DEF Connect
  <2>2. cpc' = "process"
    BY <1>1 DEF Mark
  <2>3. HCTypeOK'
    BY <1>1, <2>1, <2>2 DEF Connect, ClientInv, HCTypeOK
  <2>4. LostPeerHasFailed' /\ FlagOutlivesRequest'
    BY <1>1, <2>1, <2>2 DEF Connect, ClientInv, LostPeerHasFailed, FlagOutlivesRequest
  <2>. QED BY <1>1, <2>1, <2>3, <2>4 DEF ClientInv
<1>2. ASSUME cpc' = "return", UNCHANGED <<sock, inFlight, fromThread, frames>>,
             \/ outcome'.ret = FALSE /\ outcome'.error \in {outcome.error, "Connection"} /\ UNCHANGED res
             \/ outcome'.ret = FALSE /\ outcome'.error = "SSL" /\ settings.ssl /\ UNCHANGED res
             \/ /\ outcome'.ret = TRUE /\ outcome'.error = "ProxyConnection" /\ settings.ssl
                /\ res' \in [status : Statuses, close : BOOLEAN],
             outcome' = [ret |-> outcome'.ret, error |-> outcome'.error]
      PROVE  ClientInv'
  <2>. USE <1>2 DEF Connect
  <2>1. outcome \in [ret : BOOLEAN, error : {"Success", "Connection", "ProxyConnection", "SSL", "Read",
                      "SSLPeerCouldBeClosed_", "ExceedRedirectCount", "Unknown"}]
    BY DEF ClientInv, HCTypeOK
  <2>2. outcome' \in [ret : BOOLEAN, error : {"Success", "Connection", "ProxyConnection", "SSL", "Read",
                      "SSLPeerCouldBeClosed_", "ExceedRedirectCount", "Unknown"}]
    BY <2>1
  <2>3. HCTypeOK'
    BY <2>2 DEF ClientInv, HCTypeOK
  <2>4. FramesStand'
    BY DEF ClientInv, FramesStand, InRequest
  <2>5. LostPeerHasFailed'
    BY DEF ClientInv, LostPeerHasFailed
  <2>6. FlagOutlivesRequest'
    BY DEF ClientInv, FlagOutlivesRequest
  <2>. QED BY <2>3, <2>4, <2>5, <2>6 DEF ClientInv
<1>3. CASE ~(sock' = "live" /\ Mark /\ outcome' = [ret |-> FALSE, error |-> "Success"] /\ UNCHANGED res)
  <2>1. cpc' = "return" /\ UNCHANGED <<sock, inFlight, fromThread, frames>>
    BY <1>3 DEF Connect
  <2>2. \/ /\ outcome' = [ret |-> FALSE, error |-> IF outcome.error = "Success" THEN "Connection" ELSE outcome.error]
           /\ UNCHANGED res
        \/ outcome' = [ret |-> FALSE, error |-> "Connection"] /\ UNCHANGED res
        \/ settings.ssl /\ outcome' = [ret |-> FALSE, error |-> "SSL"] /\ UNCHANGED res
        \/ settings.ssl /\ outcome' = [ret |-> TRUE, error |-> "ProxyConnection"]
           /\ \E s \in {"ok", "401"} : res' = [status |-> s, close |-> FALSE]
    BY <1>3 DEF Connect
  <2>3. \/ outcome'.ret = FALSE /\ outcome'.error \in {outcome.error, "Connection"} /\ UNCHANGED res
        \/ outcome'.ret = FALSE /\ outcome'.error = "SSL" /\ settings.ssl /\ UNCHANGED res
        \/ /\ outcome'.ret = TRUE /\ outcome'.error = "ProxyConnection" /\ settings.ssl
           /\ res' \in [status : Statuses, close : BOOLEAN]
    <3>1. CASE outcome' = [ret |-> FALSE, error |-> IF outcome.error = "Success" THEN "Connection" ELSE outcome.error]
               /\ UNCHANGED res
      BY <3>1
    <3>2. CASE outcome' = [ret |-> FALSE, error |-> "Connection"] /\ UNCHANGED res
      BY <3>2
    <3>3. CASE settings.ssl /\ outcome' = [ret |-> FALSE, error |-> "SSL"] /\ UNCHANGED res
      BY <3>3
    <3>4. CASE settings.ssl /\ outcome' = [ret |-> TRUE, error |-> "ProxyConnection"]
               /\ \E s \in {"ok", "401"} : res' = [status |-> s, close |-> FALSE]
      <4>1. PICK s \in {"ok", "401"} : res' = [status |-> s, close |-> FALSE]
        BY <3>4
      <4>2. res' \in [status : Statuses, close : BOOLEAN]
        BY <4>1 DEF Statuses
      <4>. QED BY <3>4, <4>2
    <3>. QED BY <2>2, <3>1, <3>2, <3>3, <3>4
  <2>4. outcome' = [ret |-> outcome'.ret, error |-> outcome'.error]
    BY <2>2
  <2>. QED BY <1>2, <2>1, <2>3, <2>4
<1>. QED BY <1>1, <1>3

LEMMA InvProcess ==
    ASSUME ClientInv, Process
    PROVE  ClientInv'
<1>. USE DEF Process, sockVars
<1>1. FramesStand'
  BY DEF ClientInv, FramesStand, InRequest
<1>2. CASE outcome' = [ret |-> FALSE, error |-> "Read"] /\ cpc' = "exit" /\ UNCHANGED res
  <2>1. HCTypeOK'
    BY <1>2 DEF ClientInv, HCTypeOK
  <2>. QED BY <1>1, <1>2, <2>1 DEF ClientInv, LostPeerHasFailed, FlagOutlivesRequest
<1>3. CASE /\ settings.ssl /\ outcome' = [ret |-> FALSE, error |-> "SSLPeerCouldBeClosed_"]
           /\ cpc' = "exit" /\ UNCHANGED res
  <2>1. HCTypeOK'
    BY <1>3 DEF ClientInv, HCTypeOK
  <2>. QED BY <1>1, <1>3, <2>1 DEF ClientInv, LostPeerHasFailed, FlagOutlivesRequest
<1>4. CASE /\ res' \in [status : Statuses, close : BOOLEAN]
           /\ outcome' = [outcome EXCEPT !.ret = TRUE] /\ cpc' = "respond"
  <2>1. outcome'.error = outcome.error
    BY <1>4 DEF ClientInv, HCTypeOK
  <2>2. HCTypeOK'
    BY <1>4 DEF ClientInv, HCTypeOK
  <2>3. outcome.error # "SSLPeerCouldBeClosed_"
    BY DEF ClientInv, LostPeerHasFailed
  <2>4. LostPeerHasFailed'
    BY <2>1, <2>3 DEF LostPeerHasFailed
  <2>. QED BY <1>1, <1>4, <2>1, <2>2, <2>4 DEF ClientInv, FlagOutlivesRequest
<1>. QED BY <1>2, <1>3, <1>4

(* A call of send() from within a request *)
LEMMA FramesAgain ==
    ASSUME ClientInv, NEW f \in Seq(Frame), NEW why \in {"redirect", "digest"}, Again(f, why),
           f # <<>>, \A i \in 1 .. Len(f) : f[i].counted,
           why = "redirect" => f[Len(f)].left > 0, why = "digest" => f[Len(f)].auth < MaxAuth,
           inFlight = Len(f), fromThread = owner, owner \in Users, UNCHANGED <<inFlight, fromThread, owner>>
    PROVE  frames' \in Seq(Frame) /\ FramesStand' /\ cpc' = "enter"
<1>. USE HttpClientAssumption
<1>1. Len(f) \in Nat \ {0}
  OBVIOUS
<1>2. PICK t : t = f[Len(f)]
  OBVIOUS
<1>3. t \in Frame
  BY <1>1, <1>2
<1>4. PICK left, auth : /\ left = IF why = "redirect" THEN t.left - 1 ELSE t.left
                        /\ auth = IF why = "digest" THEN t.auth + 1 ELSE t.auth
  OBVIOUS
<1>5. left \in 0 .. MaxRedirects /\ auth \in 0 .. MaxAuth
  BY <1>2, <1>3, <1>4 DEF Frame
<1>6. PICK g : g = [t EXCEPT !.left = left, !.auth = auth, !.attempt = 1, !.counted = FALSE, !.why = why]
  OBVIOUS
<1>7. g \in Frame /\ ~g.counted
  <2>1. g = [left |-> left, auth |-> auth, attempt |-> 1, counted |-> FALSE, why |-> why]
    BY <1>3, <1>6 DEF Frame
  <2>2. why \in {"call", "redirect", "digest"} /\ 1 \in 1 .. 2 /\ FALSE \in BOOLEAN
    OBVIOUS
  <2>. QED BY <1>5, <2>1, <2>2 DEF Frame
<1>8. frames' = Append(f, g) /\ cpc' = "enter"
  <2>1. g = [t EXCEPT !.left = IF why = "redirect" THEN @ - 1 ELSE @, !.auth = IF why = "digest" THEN @ + 1 ELSE @,
                      !.attempt = 1, !.counted = FALSE, !.why = why]
    BY <1>3, <1>4, <1>6 DEF Frame
  <2>. QED BY <1>2, <2>1 DEF Again
<1>9. /\ frames' \in Seq(Frame) /\ frames' # <<>> /\ Len(frames') = Len(f) + 1
      /\ \A i \in 1 .. Len(f) : frames'[i].counted
      /\ ~frames'[Len(f) + 1].counted
  BY <1>1, <1>7, <1>8
<1>10. \A i \in DOMAIN frames' : frames'[i].counted <=> i < Len(frames')
  BY <1>1, <1>9
<1>. QED BY <1>1, <1>8, <1>9, <1>10 DEF FramesStand, InRequest

LEMMA InvRespond ==
    ASSUME ClientInv, Respond
    PROVE  ClientInv'
<1>1. /\ frames # <<>> /\ owner \in Users /\ frames \in Seq(Frame) /\ Len(frames) \in Nat \ {0}
      /\ \A i \in 1 .. Len(frames) : frames[i].counted
      /\ inFlight = Len(frames) /\ fromThread = owner /\ Top \in Frame
  <2>1. frames # <<>> /\ owner \in Users
    BY OwnerHasFrame DEF Respond
  <2>2. Len(frames) \in Nat \ {0} /\ Top \in Frame /\ frames \in Seq(Frame)
    BY <2>1, TopProperties DEF ClientInv, HCTypeOK
  <2>. QED BY <2>1, <2>2 DEF Respond, ClientInv, FramesStand, InRequest
<1>2. outcome.error # "SSLPeerCouldBeClosed_"
  BY DEF Respond, ClientInv, LostPeerHasFailed
<1>3. sock' \in {"none", sock} /\ sock' \in {"none", "live", "gone", "shut"}
  BY DEF Respond, ClientInv, HCTypeOK
<1>4. ASSUME NEW why \in {"redirect", "digest"}, Again(frames, why), UNCHANGED outcome,
             why = "redirect" => Redirects /\ Follows, why = "digest" => Answers401(frames)
      PROVE  ClientInv'
  <2>1. frames' \in Seq(Frame) /\ FramesStand' /\ cpc' = "enter"
    BY <1>1, <1>4, FramesAgain DEF Respond, Follows, Answers401, Top
  <2>2. HCTypeOK'
    BY <1>3, <1>4, <2>1 DEF Respond, ClientInv, HCTypeOK
  <2>3. settings'.follow \/ settings'.digest
    BY <1>4 DEF Respond, Redirects, Answers401
  <2>. QED BY <1>2, <1>4, <2>1, <2>2, <2>3 DEF ClientInv, LostPeerHasFailed, FlagOutlivesRequest
<1>5. CASE Redirects /\ Follows /\ res.status = "away" /\ cpc' = "elsewhere" /\ UNCHANGED <<frames, outcome>>
  <2>1. HCTypeOK'
    BY <1>3, <1>5 DEF Respond, ClientInv, HCTypeOK
  <2>2. FramesStand'
    BY <1>1, <1>5 DEF Respond, ClientInv, FramesStand, InRequest
  <2>. QED BY <1>2, <1>5, <2>1, <2>2 DEF Respond, Redirects, ClientInv, LostPeerHasFailed, FlagOutlivesRequest
<1>6. ASSUME cpc' = "exit", UNCHANGED frames, outcome' \in [ret : BOOLEAN, error : {outcome.error, "ExceedRedirectCount"}]
      PROVE  ClientInv'
  <2>1. HCTypeOK'
    BY <1>3, <1>6 DEF Respond, ClientInv, HCTypeOK
  <2>2. FramesStand'
    BY <1>1, <1>6 DEF Respond, ClientInv, FramesStand, InRequest
  <2>3. LostPeerHasFailed'
    BY <1>2, <1>6 DEF LostPeerHasFailed
  <2>4. FlagOutlivesRequest'
    BY <1>2, <1>6 DEF Respond, ClientInv, FlagOutlivesRequest
  <2>. QED BY <1>6, <2>1, <2>2, <2>3, <2>4 DEF ClientInv
<1>7. outcome \in [ret : BOOLEAN, error : {outcome.error, "ExceedRedirectCount"}]
  BY DEF ClientInv, HCTypeOK
<1>8. CASE /\ Redirects /\ (~Follows \/ res.status = "nowhere") /\ cpc' = "exit" /\ UNCHANGED frames
           /\ outcome' = [ret |-> FALSE, error |-> IF ~Follows THEN "ExceedRedirectCount" ELSE outcome.error]
  BY <1>6, <1>8
<1>. QED BY <1>4, <1>5, <1>6, <1>7, <1>8 DEF Respond

LEMMA InvElsewhere ==
    ASSUME ClientInv, Elsewhere
    PROVE  ClientInv'
<1>. USE DEF Elsewhere, sockVars
<1>1. outcome.error # "SSLPeerCouldBeClosed_"
  BY DEF ClientInv, LostPeerHasFailed
<1>2. outcome' \in [ret : BOOLEAN, error : {outcome.error, "Read"}]
  <2>1. outcome \in [ret : BOOLEAN, error : {outcome.error}]
    BY DEF ClientInv, HCTypeOK
  <2>2. CASE outcome' = [outcome EXCEPT !.ret = TRUE]
    BY <2>1, <2>2
  <2>3. CASE outcome' = [ret |-> FALSE, error |-> "Read"]
    BY <2>3
  <2>. QED BY <2>2, <2>3
<1>3. res' \in [status : Statuses, close : BOOLEAN]
  <2>1. [status |-> "ok", close |-> FALSE] \in [status : Statuses, close : BOOLEAN]
    BY DEF Statuses
  <2>. QED BY <2>1 DEF ClientInv, HCTypeOK
<1>4. HCTypeOK'
  BY <1>2, <1>3 DEF ClientInv, HCTypeOK
<1>5. FramesStand'
  BY DEF ClientInv, FramesStand, InRequest
<1>6. LostPeerHasFailed'
  BY <1>1, <1>2 DEF LostPeerHasFailed
<1>7. FlagOutlivesRequest'
  BY <1>1, <1>2 DEF ClientInv, FlagOutlivesRequest
<1>. QED BY <1>4, <1>5, <1>6, <1>7 DEF ClientInv

LEMMA InvExit ==
    ASSUME ClientInv, Exit
    PROVE  ClientInv'
<1>1. /\ frames # <<>> /\ owner \in Users /\ frames \in Seq(Frame) /\ Len(frames) \in Nat \ {0}
      /\ \A i \in 1 .. Len(frames) : frames[i].counted
      /\ inFlight = Len(frames) /\ fromThread = owner /\ Top \in Frame
  <2>1. frames # <<>> /\ owner \in Users
    BY OwnerHasFrame DEF Exit
  <2>2. Len(frames) \in Nat \ {0} /\ Top \in Frame /\ frames \in Seq(Frame)
    BY <2>1, TopProperties DEF ClientInv, HCTypeOK
  <2>. QED BY <2>1, <2>2 DEF Exit, ClientInv, FramesStand, InRequest
<1>2. PICK f : f = [Top EXCEPT !.counted = FALSE]
  OBVIOUS
<1>3. f \in Frame /\ ~f.counted
  BY <1>1, <1>2 DEF Frame
<1>4. frames' = SetTop(f)
  BY <1>2 DEF Exit
<1>5. /\ frames' \in Seq(Frame) /\ Len(frames') = Len(frames)
      /\ frames'[Len(frames)] = f /\ \A i \in 1 .. Len(frames) - 1 : frames'[i] = frames[i]
  BY <1>1, <1>3, <1>4, TopProperties DEF ClientInv
<1>6. FramesStand'
  <2>1. \A i \in DOMAIN frames' : frames'[i].counted <=> i < Len(frames')
    BY <1>1, <1>3, <1>5
  <2>2. frames' # <<>>
    BY <1>1, <1>5
  <2>3. inFlight' = Len(frames') - 1 /\ fromThread' = IF inFlight' > 0 THEN owner' ELSE NoUser
    BY <1>1, <1>5 DEF Exit
  <2>4. cpc' = "return" /\ owner' # NoUser
    BY HttpClientAssumption, <1>1 DEF Exit
  <2>. QED BY <2>1, <2>2, <2>3, <2>4 DEF FramesStand, InRequest
<1>7. sock' = IF ClosesAtExit THEN "none" ELSE sock
  BY DEF Exit
<1>8. /\ outcome'.ret = outcome.ret /\ outcome'.error \in {outcome.error, "Unknown"}
      /\ outcome' \in [ret : BOOLEAN, error : {outcome.error, "Unknown"}]
  <2>1. outcome \in [ret : BOOLEAN, error : {outcome.error}]
    BY DEF ClientInv, HCTypeOK
  <2>2. CASE outcome' = [outcome EXCEPT !.error = "Unknown"]
    BY <2>1, <2>2
  <2>3. CASE outcome' = outcome
    BY <2>1, <2>3
  <2>. QED BY <2>2, <2>3 DEF Exit
<1>9. HCTypeOK'
  <2>1. inFlight' \in Nat /\ fromThread' \in Users \cup {NoUser}
    BY <1>1 DEF Exit, ClientInv, HCTypeOK
  <2>2. sock' \in {"none", "live", "gone", "shut"}
    BY <1>7 DEF ClientInv, HCTypeOK
  <2>3. outcome' \in [ret : BOOLEAN, error : {"Success", "Connection", "ProxyConnection", "SSL", "Read",
                      "SSLPeerCouldBeClosed_", "ExceedRedirectCount", "Unknown"}]
    BY <1>8 DEF ClientInv, HCTypeOK
  <2>. QED BY <1>5, <2>1, <2>2, <2>3 DEF Exit, ClientInv, HCTypeOK
<1>10. LostPeerHasFailed'
  <2>1. outcome'.error = "SSLPeerCouldBeClosed_" => ~outcome.ret /\ sock' = "none"
    BY <1>7, <1>8 DEF ClientInv, LostPeerHasFailed, ClosesAtExit
  <2>. QED BY <1>8, <2>1 DEF Exit, LostPeerHasFailed
<1>11. FlagOutlivesRequest'
  BY <1>5, <1>7, <1>8 DEF Exit, ClientInv, FlagOutlivesRequest, ClosesAtExit
<1>. QED BY <1>6, <1>9, <1>10, <1>11 DEF Exit, ClientInv

LEMMA InvReturn ==
    ASSUME ClientInv, Return
    PROVE  ClientInv'
<1>. USE HttpClientAssumption
<1>0. cpc = "return" /\ UNCHANGED <<settings, sockVars, outcome, res, calls, stopped, dtor>>
  BY DEF Return
<1>1. /\ frames # <<>> /\ owner \in Users /\ frames \in Seq(Frame) /\ Len(frames) \in Nat \ {0}
      /\ \A i \in 1 .. Len(frames) - 1 : frames[i].counted
      /\ ~frames[Len(frames)].counted
      /\ inFlight = Len(frames) - 1 /\ Top \in Frame
  <2>1. frames # <<>> /\ owner \in Users
    BY <1>0, OwnerHasFrame
  <2>2. Len(frames) \in Nat \ {0} /\ Top \in Frame /\ frames \in Seq(Frame)
    BY <2>1, TopProperties DEF ClientInv, HCTypeOK
  <2>. QED BY <2>1, <2>2, <1>0 DEF ClientInv, FramesStand, InRequest
<1>2. ASSUME Retry, frames' = SetTop([Top EXCEPT !.attempt = 2]), cpc' = "enter", UNCHANGED <<owner, user>>
      PROVE  ClientInv'
  <2>1. PICK f : f = [Top EXCEPT !.attempt = 2]
    OBVIOUS
  <2>2. f \in Frame /\ ~f.counted
    BY <1>1, <2>1, SMTT(30) DEF Frame, Top
  <2>3. frames' = SetTop(f)
    BY <1>2, <2>1
  <2>4. /\ frames' \in Seq(Frame) /\ Len(frames') = Len(frames)
        /\ frames'[Len(frames)] = f /\ \A i \in 1 .. Len(frames) - 1 : frames'[i] = frames[i]
    BY <1>1, <2>2, <2>3, TopProperties DEF ClientInv
  <2>5. FramesStand'
    <3>1. \A i \in DOMAIN frames' : frames'[i].counted <=> i < Len(frames')
      BY <1>1, <2>2, <2>4
    <3>2. frames' # <<>>
      BY <1>1, <2>4
    <3>. QED BY <1>0, <1>1, <1>2, <2>4, <3>1, <3>2 DEF sockVars, ClientInv, FramesStand, InRequest
  <2>6. HCTypeOK'
    BY <1>0, <1>2, <2>4 DEF sockVars, ClientInv, HCTypeOK
  <2>. QED BY <1>0, <1>2, <2>4, <2>5, <2>6 DEF sockVars, Retry, ClientInv, LostPeerHasFailed, FlagOutlivesRequest
<1>3. CASE ~Retry /\ Len(frames) > 1 /\ UNCHANGED <<owner, user>>
  <2>1. /\ Outer \in Seq(Frame) /\ Len(Outer) = Len(frames) - 1 /\ Outer # <<>>
        /\ \A i \in 1 .. Len(Outer) : Outer[i].counted
    <3>1. PICK n \in Nat \ {0} : n = Len(frames) - 1
      BY <1>1, <1>3
    <3>2. PICK left : left = IF Top.why = "redirect" /\ outcome.ret THEN Top.left ELSE frames[n].left
      OBVIOUS
    <3>3. PICK g : g = [frames[n] EXCEPT !.left = left]
      OBVIOUS
    <3>4. frames[n] \in Frame /\ frames[n].counted /\ left \in 0 .. MaxRedirects
      <4>1. n \in 1 .. Len(frames) - 1 /\ n \in 1 .. Len(frames)
        BY <1>1, <3>1
      <4>2. frames[n] \in Frame /\ frames[n].counted
        BY <1>1, <4>1
      <4>. QED BY <1>1, <3>2, <4>2 DEF Frame
    <3>5. g \in Frame /\ g.counted
      BY <3>3, <3>4 DEF Frame
    <3>6. PICK s : s = SubSeq(frames, 1, n - 1)
      OBVIOUS
    <3>7. s \in Seq(Frame) /\ Len(s) = n - 1 /\ \A i \in 1 .. n - 1 : s[i] = frames[i]
      BY <1>1, <3>1, <3>6
    <3>8. Outer = s \o <<g>>
      <4>1. Len(frames) - 2 = n - 1 /\ Len(frames) - 1 = n
        BY <1>1, <3>1
      <4>2. g = [frames[n] EXCEPT !.left = IF Top.why = "redirect" /\ outcome.ret THEN Top.left ELSE @]
        BY <3>2, <3>3, <3>4 DEF Frame
      <4>. QED BY <3>6, <4>1, <4>2 DEF Outer
    <3>9. <<g>> \in Seq(Frame) /\ Len(<<g>>) = 1 /\ <<g>>[1] = g
      BY <3>5
    <3>10. /\ s \o <<g>> \in Seq(Frame) /\ Len(s \o <<g>>) = n
           /\ (s \o <<g>>)[n] = g /\ \A i \in 1 .. n - 1 : (s \o <<g>>)[i] = s[i]
      BY <3>1, <3>7, <3>9
    <3>11. \A i \in 1 .. n : Outer[i].counted
      BY <1>1, <3>1, <3>5, <3>7, <3>8, <3>10
    <3>. QED BY <3>1, <3>8, <3>10, <3>11
  <2>2. fromThread = owner
    BY <1>0, <1>1, <1>3 DEF ClientInv, FramesStand
  <2>3. settings.follow \/ settings.digest \/ settings.ssl
    BY <1>1, <1>3 DEF ClientInv, FlagOutlivesRequest
  <2>4. CASE Top.why = "redirect" /\ outcome.ret /\ Answers401(Outer)
    <3>1. Again(Outer, "digest")
      BY <1>1, <1>3, <2>4 DEF Return
    <3>2. Outer[Len(Outer)].auth < MaxAuth
      BY <2>4 DEF Answers401
    <3>3. inFlight = Len(Outer) /\ UNCHANGED <<inFlight, fromThread, owner>>
      BY <1>0, <1>1, <1>3, <2>1 DEF sockVars
    <3>4. PICK f \in Seq(Frame) : f = Outer
      BY <2>1
    <3>5. frames' \in Seq(Frame) /\ FramesStand' /\ cpc' = "enter"
      BY <1>1, <2>1, <2>2, <3>1, <3>2, <3>3, <3>4, FramesAgain
    <3>6. HCTypeOK'
      BY <1>0, <1>3, <3>5 DEF sockVars, ClientInv, HCTypeOK
    <3>7. LostPeerHasFailed'
      BY <1>0, <2>4, <3>5 DEF sockVars, ClientInv, LostPeerHasFailed
    <3>. QED BY <1>0, <2>3, <3>5, <3>6, <3>7 DEF sockVars, ClientInv, FlagOutlivesRequest
  <2>5. CASE ~(Top.why = "redirect" /\ outcome.ret /\ Answers401(Outer))
    <3>1. frames' = Outer /\ cpc' = "exit"
      BY <1>1, <1>3, <2>5 DEF Return
    <3>2. HCTypeOK'
      BY <1>0, <1>3, <2>1, <3>1 DEF sockVars, ClientInv, HCTypeOK
    <3>3. FramesStand'
      BY <1>0, <1>1, <1>3, <2>1, <2>2, <3>1 DEF sockVars, ClientInv, FramesStand, InRequest
    <3>. QED BY <1>0, <2>3, <3>1, <3>2, <3>3 DEF sockVars, ClientInv, LostPeerHasFailed, FlagOutlivesRequest
  <2>. QED BY <2>4, <2>5
<1>4. CASE /\ ~Retry /\ Len(frames) = 1 /\ frames' = <<>> /\ cpc' = "free"
           /\ owner' = NoUser /\ user' = [user EXCEPT ![owner] = "idle"]
  <2>1. frames' \in Seq(Frame)
    BY <1>4
  <2>2. HCTypeOK'
    BY <1>0, <1>1, <1>4, <2>1 DEF sockVars, ClientInv, HCTypeOK
  <2>3. FramesStand'
    BY <1>0, <1>1, <1>4 DEF sockVars, ClientInv, FramesStand, InRequest
  <2>4. Len(frames') = 0
    BY <1>4
  <2>. QED BY <1>0, <1>4, <2>2, <2>3, <2>4 DEF sockVars, ClientInv, LostPeerHasFailed, FlagOutlivesRequest
<1>. QED BY <1>2, <1>3, <1>4 DEF Return

LEMMA InvStop ==
    ASSUME ClientInv, NEW u \in Users, Stop(u)
    PROVE  ClientInv'
<1>. USE DEF Stop, ownerVars
<1>1. HCTypeOK'
  BY ZenonT(40) DEF ClientInv, HCTypeOK
<1>2. FramesStand'
  BY DEF ClientInv, FramesStand, InRequest
<1>3. LostPeerHasFailed'
  BY DEF ClientInv, LostPeerHasFailed
<1>4. cpc = "process" => inFlight > 0
  BY DEF ClientInv, HCTypeOK, FramesStand, InRequest
<1>5. Len(frames) <= 1 /\ inFlight > 0 => cpc \in {"process", "respond", "elsewhere", "exit"}
  BY DEF ClientInv, HCTypeOK, FramesStand, InRequest
<1>6. FlagOutlivesRequest'
  BY <1>5 DEF ClientInv, FlagOutlivesRequest
<1>. QED BY <1>1, <1>2, <1>3, <1>4, <1>6 DEF ClientInv

LEMMA InvDestroy ==
    ASSUME ClientInv, Destroy
    PROVE  ClientInv'
<1>. USE HttpClientAssumption DEF Destroy, ownerVars
<1>1. HCTypeOK'
  BY DEF ClientInv, HCTypeOK
<1>2. FramesStand'
  BY DEF ClientInv, FramesStand, InRequest
<1>3. dtor' \in Int /\ (dtor' = -1 \/ UNCHANGED sock)
  BY DEF ClientInv, HCTypeOK
<1>. QED BY <1>1, <1>2, <1>3 DEF ClientInv, LostPeerHasFailed, FlagOutlivesRequest

LEMMA InvPeerCloses ==
    ASSUME ClientInv, PeerCloses
    PROVE  ClientInv'
<1>. USE DEF PeerCloses, ownerVars
<1>1. HCTypeOK'
  BY DEF ClientInv, HCTypeOK
<1>2. FramesStand'
  BY DEF ClientInv, FramesStand, InRequest
<1>. QED BY <1>1, <1>2 DEF ClientInv, LostPeerHasFailed, FlagOutlivesRequest

-----------------------------------------------------------------------------
(* The theorems *)

LEMMA ClientStep == ClientInv /\ [HCNext]_HCvars => ClientInv'
<1>. SUFFICES ASSUME ClientInv, [HCNext]_HCvars PROVE ClientInv'
  OBVIOUS
<1>1. CASE OwnerStep
  BY <1>1, InvEnter, InvConnect, InvProcess, InvRespond, InvElsewhere, InvExit, InvReturn DEF OwnerStep
<1>2. CASE Destroy \/ PeerCloses
  BY <1>2, InvDestroy, InvPeerCloses
<1>3. ASSUME NEW u \in Users, Begin(u) \/ LockRequest(u) \/ Stop(u)
      PROVE  ClientInv'
  BY <1>3, InvBegin, InvLockRequest, InvStop
<1>4. CASE UNCHANGED HCvars
  <2>. USE <1>4 DEF HCvars, sockVars, ownerVars
  <2>1. HCTypeOK'
    BY DEF ClientInv, HCTypeOK
  <2>2. FramesStand'
    BY DEF ClientInv, FramesStand, InRequest
  <2>. QED BY <2>1, <2>2 DEF ClientInv, LostPeerHasFailed, FlagOutlivesRequest
<1>. QED BY <1>1, <1>2, <1>3, <1>4 DEF HCNext

(* The invariant of a client: how the calls of send() stand, what an error *)
(* that is retried says of the socket, and what stop() can rely on.        *)
THEOREM ClientInvHolds == HCSpec => []ClientInv
BY ClientInit, ClientStep, PTL DEF HCSpec

(* Every variable keeps its type; in particular the redirects and the      *)
(* authorisations that are left never pass their limits.                   *)
THEOREM ClientTypes == HCSpec => []HCTypeOK
<1>1. ClientInv => HCTypeOK
  BY DEF ClientInv
<1>. QED BY <1>1, ClientInvHolds, PTL

(* The asserts of send_(), close_socket() and send(): the requests in      *)
(* flight are those of one thread, nobody closes the socket under it, what *)
(* stop() found in flight leaves no socket, only failures are sent again.  *)
THEOREM SocketAgreed == HCSpec => []SocketIsAgreedOn
BY ClientInvHolds, InvImpliesAgreed, PTL

-----------------------------------------------------------------------------
(* The making of a socket                                                  *)

LEMMA ConnectInit == CNInit => ConnectInv
  <1> SUFFICES ASSUME CNInit
               PROVE  ConnectInv
      OBVIOUS
  <1> USE HttpConnectAssumption DEF CNInit
  <1>1. ask \in [who : {"client", "server"}, unix : BOOLEAN, intf : BOOLEAN]
        OBVIOUS
  <1>2. /\ dpc \in {"idle", "lookup", "socket", "interface", "connect", "wait", "close"}
        /\ rp \in 0 .. MaxAddresses /\ nextFd \in Nat /\ fd \in 0 .. nextFd /\ ret \in 0 .. nextFd
        OBVIOUS
  <1>3. openFds \subseteq 1 .. nextFd /\ error \in Errors /\ quit \in BOOLEAN
        BY DEF Errors
  <1> QED
      BY <1>1, <1>2, <1>3 DEF ConnectInv, CNTypeOK, OnlyReturnedSocketIsOpen

LEMMA ConnectStep == ConnectInv /\ [CNNext]_CNvars => ConnectInv'
  <1> SUFFICES ASSUME ConnectInv, [CNNext]_CNvars
               PROVE  ConnectInv'
      OBVIOUS
  <1> USE HttpConnectAssumption DEF ConnectInv, CNTypeOK, OnlyReturnedSocketIsOpen, Errors
  <1>1. CASE Ask
        BY <1>1 DEF Ask
  <1>2. CASE Lookup
    <2>1. dpc = "lookup" /\ UNCHANGED <<ask, openFds, nextFd, quit>>
          BY <1>2 DEF Lookup
    <2>2. CASE Returns(0) /\ UNCHANGED rp
          BY <2>1, <2>2 DEF Returns
    <2>3. CASE rp' \in 1 .. MaxAddresses /\ dpc' = "socket" /\ UNCHANGED <<fd, error, ret>>
          BY <2>1, <2>3
    <2> QED
        BY <1>2, <2>2, <2>3 DEF Lookup
  <1>3. CASE NewSocket
    <2>1. dpc = "socket" /\ fd = 0 /\ UNCHANGED <<ask, quit>>
          BY <1>3 DEF NewSocket
    <2>2. CASE rp = 0
      <3>1. Returns(0) /\ UNCHANGED <<rp, openFds, nextFd>>
            BY <1>3, <2>2 DEF NewSocket
      <3> QED
          BY <3>1, <2>1 DEF Returns
    <2>3. CASE rp # 0 /\ UNCHANGED <<dpc, fd, openFds, nextFd>>
      <3>1. rp' = rp - 1 /\ UNCHANGED <<error, ret>>
            BY <1>3, <2>1, <2>3 DEF NewSocket
      <3>2. rp' \in 0 .. MaxAddresses
            BY <3>1, <2>3
      <3> QED
          BY <3>1, <3>2, <2>1, <2>3
    <2>4. CASE rp # 0 /\ fd' = nextFd
      <3>1. /\ rp' = rp - 1 /\ openFds' = openFds \cup {nextFd} /\ nextFd' = nextFd + 1
            /\ dpc' \in {"interface", "connect"} /\ UNCHANGED <<error, ret>>
            BY <1>3, <2>1, <2>4 DEF NewSocket
      <3>2. openFds' = {fd'}
            BY <3>1, <2>1, <2>4
      <3> QED
          BY <3>1, <3>2, <2>1, <2>4
    <2> QED
        BY <1>3, <2>2, <2>3, <2>4 DEF NewSocket
  <1>4. CASE BindInterface
        BY <1>4 DEF BindInterface, Fail
  <1>5. CASE ConnectOrBind
        BY <1>5 DEF ConnectOrBind, Returns, Fail
  <1>6. CASE WaitUntilReady
    <2>1. dpc = "wait" /\ ~quit /\ ask.who = "client" /\ UNCHANGED <<ask, rp, openFds, nextFd>>
          BY <1>6 DEF WaitUntilReady
    <2>2. CASE Returns(fd) /\ UNCHANGED quit
          BY <2>1, <2>2 DEF Returns
    <2>3. CASE Fail("Connection") /\ UNCHANGED <<fd, ret, quit>>
          BY <2>1, <2>3 DEF Fail
    <2>4. CASE Fail("ConnectionTimeout") /\ quit' = TRUE /\ UNCHANGED <<fd, ret>>
          BY <2>1, <2>4 DEF Fail
    <2> QED
        BY <1>6, <2>2, <2>3, <2>4 DEF WaitUntilReady
  <1>7. CASE CloseFailed
        BY <1>7 DEF CloseFailed, Returns
  <1>8. CASE UNCHANGED CNvars
        BY <1>8 DEF CNvars
  <1> QED
      BY <1>1, <1>2, <1>3, <1>4, <1>5, <1>6, <1>7, <1>8 DEF CNNext

-----------------------------------------------------------------------------
(* The stream                                                              *)

LEMMA PatienceIsLimited ==
    ASSUME SMTypeOK, ReadsEndInTime
    PROVE  Patience \in Nat /\ (MaxTimeout > 0 => elapsed + Patience <= MaxTimeout)
  BY HttpStreamAssumption DEF SMTypeOK, ReadsEndInTime, Patience, ActualTimeout, Least

(* What read(size) returns and leaves in the buffer, for whatever recv()   *)
(* delivers: the next bytes that the peer wrote, the kept ones after those *)
(* that are returned.                                                      *)
NextBytes(r, size) ==
    /\ r.n \in Int /\ r.n <= size /\ r.time \in {0, Patience}
    /\ r.got \in 0 .. Len(sent) - received
    /\ r.bytes \in Seq(Bytes) /\ Len(r.bytes) = IF r.n > 0 THEN r.n ELSE 0
    /\ r.n = 0 => ended /\ Len(taken) = Len(sent)
    /\ r.kept.buff \in Seq(Bytes) /\ Len(r.kept.buff) <= BufferSize
    /\ r.kept.off \in 0 .. Len(r.kept.buff)
    /\ Len(taken) + Len(r.bytes) + Len(r.kept.buff) - r.kept.off = received + r.got
    /\ \A i \in 1 .. Len(r.bytes) : r.bytes[i] = sent[Len(taken) + i]
    /\ \A i \in 1 .. Len(r.kept.buff) - r.kept.off :
          r.kept.buff[r.kept.off + i] = sent[Len(taken) + Len(r.bytes) + i]

LEMMA ReadsNextBytes ==
    ASSUME StreamInv, NEW size \in Nat \ {0}, NEW r \in Reads(size)
    PROVE  NextBytes(r, size)
  <1> USE HttpStreamAssumption
  <1>1. /\ sent \in Seq(Bytes) /\ Len(sent) \in Nat /\ received \in 0 .. Len(sent)
        /\ readBuff \in Seq(Bytes) /\ Len(readBuff) \in Nat /\ Len(readBuff) <= BufferSize
        /\ readOff \in 0 .. Len(readBuff) /\ taken \in Seq(Bytes) /\ Len(taken) \in Nat
        /\ Len(taken) + Len(readBuff) - readOff = received
        /\ \A i \in 1 .. Len(readBuff) - readOff : readBuff[readOff + i] = sent[Len(taken) + i]
        BY DEF StreamInv, SMTypeOK, BytesInPlace
  <1>2. Patience \in Nat
        BY PatienceIsLimited DEF StreamInv
  <1>3. <<>> \in Seq(Bytes) /\ Len(<<>>) = 0
        OBVIOUS
  <1>4. CASE readOff < Len(readBuff)
    <2> DEFINE n == Least(size, Len(readBuff) - readOff)
    <2>1. r = [n |-> n, bytes |-> SubSeq(readBuff, readOff + 1, readOff + n), got |-> 0,
               kept |-> [buff |-> readBuff, off |-> readOff + n], time |-> 0]
      <3>1. r = FromBuffer(size)
            BY <1>4 DEF Reads
      <3> QED
          BY <3>1 DEF FromBuffer
    <2>2. n \in Nat /\ n > 0 /\ n <= size /\ readOff + n <= Len(readBuff)
          BY <1>1, <1>4 DEF Least
    <2>3. /\ SubSeq(readBuff, readOff + 1, readOff + n) \in Seq(Bytes)
          /\ Len(SubSeq(readBuff, readOff + 1, readOff + n)) = n
          /\ \A i \in 1 .. n : SubSeq(readBuff, readOff + 1, readOff + n)[i] = readBuff[readOff + i]
      <3> HIDE DEF n
      <3> QED
          BY <1>1, <2>2
    <2> HIDE DEF n
    <2>4. /\ r.n = n /\ r.time = 0 /\ r.got = 0 /\ r.kept.buff = readBuff /\ r.kept.off = readOff + n
          /\ r.bytes \in Seq(Bytes) /\ Len(r.bytes) = n
          /\ \A i \in 1 .. n : r.bytes[i] = readBuff[readOff + i]
          BY <2>1, <2>3
    <2>5. ASSUME NEW i \in 1 .. Len(r.bytes)
          PROVE  r.bytes[i] = sent[Len(taken) + i]
      <3>1. i \in 1 .. n /\ i \in 1 .. Len(readBuff) - readOff
            BY <1>1, <2>2, <2>4
      <3> QED
          BY <1>1, <2>4, <3>1
    <2>6. ASSUME NEW i \in 1 .. Len(readBuff) - (readOff + n)
          PROVE  readBuff[readOff + n + i] = sent[Len(taken) + n + i]
      <3>1. n + i \in 1 .. Len(readBuff) - readOff
            BY <1>1, <2>2
      <3>2. readBuff[readOff + (n + i)] = sent[Len(taken) + (n + i)]
            BY <1>1, <3>1
      <3> QED
          BY <1>1, <2>2, <3>2
    <2> QED
      <3>1. Len(taken) + Len(r.bytes) + Len(r.kept.buff) - r.kept.off = received + r.got
        <4>1. Len(r.bytes) = n /\ Len(r.kept.buff) = Len(readBuff) /\ r.kept.off = readOff + n /\ r.got = 0
              BY <2>4
        <4>2. /\ Len(taken) \in Nat /\ n \in Nat /\ Len(readBuff) \in Nat /\ readOff \in Nat /\ received \in Nat
              /\ Len(taken) + Len(readBuff) - readOff = received
              BY <1>1, <2>2
        <4> QED
            BY <4>1, <4>2
      <3>2. \A i \in 1 .. Len(r.kept.buff) - r.kept.off :
               r.kept.buff[r.kept.off + i] = sent[Len(taken) + Len(r.bytes) + i]
            BY <2>4, <2>6
      <3>3. /\ r.kept.buff \in Seq(Bytes) /\ Len(r.kept.buff) <= BufferSize
            /\ r.kept.off \in 0 .. Len(r.kept.buff)
            BY <1>1, <2>2, <2>4
      <3>4. /\ r.n \in Int /\ r.n <= size /\ r.time \in {0, Patience}
            /\ r.got \in 0 .. Len(sent) - received
            /\ Len(r.bytes) = (IF r.n > 0 THEN r.n ELSE 0) /\ r.n # 0
            BY <1>1, <2>2, <2>4
      <3> QED
          BY <2>4, <2>5, <3>1, <3>2, <3>3, <3>4 DEF NextBytes
  <1>5. CASE readOff = Len(readBuff)
    <2> DEFINE most == Least(Len(sent) - received, IF size < BufferSize THEN BufferSize ELSE size)
               Piece(m) == SubSeq(sent, received + 1, received + m)
    <2>1. most \in Nat /\ most <= Len(sent) - received /\ (size < BufferSize => most <= BufferSize)
                       /\ (size >= BufferSize => most <= size)
          BY <1>1 DEF Least
    <2>2. \/ \E m \in 1 .. most, d \in {0, Patience} : r = FromSocket(Piece(m), size, d)
          \/ \E n \in IF received = Len(sent) /\ ended THEN {-1, 0} ELSE {-1}, d \in {0, Patience} :
                r = Nothing(n, [buff |-> <<>>, off |-> 0], d)
          \/ r = Nothing(-1, [buff |-> readBuff, off |-> readOff], Patience)
      <3>1. ~(readOff < Len(readBuff))
            BY <1>1, <1>5
      <3> QED
          BY <3>1 DEF Reads
    <2>3. ASSUME NEW m \in 1 .. most, NEW d \in {0, Patience}, r = FromSocket(Piece(m), size, d)
          PROVE  NextBytes(r, size)
      <3>1. PICK got : got = Piece(m)
            OBVIOUS
      <3>2. got \in Seq(Bytes) /\ Len(got) = m /\ \A i \in 1 .. m : got[i] = sent[received + i]
        <4> HIDE DEF most, Piece
        <4>1. m \in Nat /\ received \in Nat /\ received + m <= Len(sent)
              BY <1>1, <2>1
        <4>2. got = SubSeq(sent, received + 1, received + m)
              BY <3>1 DEF Piece
        <4>3. sent \in Seq(Bytes) /\ Len(sent) \in Nat
              BY <1>1
        <4>4. got \in Seq(Bytes) /\ Len(got) = m
              BY <4>1, <4>2, <4>3
        <4>5. \A i \in 1 .. m : got[i] = sent[received + i]
              BY <4>1, <4>2, <4>3
        <4> QED
            BY <4>3, <4>4, <4>5
      <3>3. PICK n : n = Least(size, Len(got))
            OBVIOUS
      <3>4. n \in Nat /\ n > 0 /\ n <= size /\ n <= m /\ (m > size => n = size) /\ (m <= size => n = m)
        <4> HIDE DEF most
        <4> QED
            BY <2>1, <3>2, <3>3 DEF Least
      <3>5. SubSeq(got, 1, n) \in Seq(Bytes) /\ Len(SubSeq(got, 1, n)) = n
            /\ \A i \in 1 .. n : SubSeq(got, 1, n)[i] = got[i]
        <4> HIDE DEF most
        <4> QED
            BY <2>1, <3>2, <3>4
      <3>6. r = [n |-> n, bytes |-> SubSeq(got, 1, n), got |-> m, kept |-> Kept(got, size), time |-> d]
            BY <2>3, <3>1, <3>2, <3>3 DEF FromSocket
      <3>7. /\ r.n = n /\ r.got = m /\ r.time = d /\ r.kept = Kept(got, size)
            /\ r.bytes \in Seq(Bytes) /\ Len(r.bytes) = n /\ \A i \in 1 .. n : r.bytes[i] = got[i]
            BY <3>5, <3>6
      <3> HIDE DEF most
      <3>8. ASSUME NEW i \in 1 .. Len(r.bytes)
            PROVE  r.bytes[i] = sent[Len(taken) + i]
        <4>1. i \in 1 .. n /\ i \in 1 .. m /\ received = Len(taken)
              BY <1>1, <1>5, <2>1, <3>4, <3>7
        <4> QED
            BY <3>2, <3>7, <4>1
      <3>9. CASE m > size
        <4>1. r.kept.buff = got /\ r.kept.off = size
              BY <3>2, <3>7, <3>9 DEF Kept
        <4>2. ASSUME NEW i \in 1 .. m - size
              PROVE  got[size + i] = sent[Len(taken) + n + i]
          <5>1. size + i \in 1 .. m
                BY <2>1, <3>9
          <5>2. got[size + i] = sent[received + (size + i)]
                BY <3>2, <5>1
          <5> QED
              BY <1>1, <1>5, <2>1, <3>4, <3>9, <5>2
        <4> QED
          <5>1. Len(taken) + Len(r.bytes) + Len(r.kept.buff) - r.kept.off = received + r.got
            <6>1. Len(r.bytes) = n /\ Len(r.kept.buff) = m /\ r.kept.off = size /\ r.got = m /\ n = size
                  BY <2>1, <3>2, <3>4, <3>7, <3>9, <4>1
            <6>2. Len(taken) \in Nat /\ m \in Nat /\ received = Len(taken)
                  BY <1>1, <1>5, <2>1
            <6> QED
                BY <6>1, <6>2
          <5>2. \A i \in 1 .. Len(r.kept.buff) - r.kept.off :
                   r.kept.buff[r.kept.off + i] = sent[Len(taken) + Len(r.bytes) + i]
                BY <3>2, <3>7, <4>1, <4>2
          <5>3. /\ r.kept.buff \in Seq(Bytes) /\ Len(r.kept.buff) <= BufferSize
                /\ r.kept.off \in 0 .. Len(r.kept.buff)
                BY <2>1, <3>2, <3>9, <4>1
          <5>4. /\ r.n \in Int /\ r.n <= size /\ r.time \in {0, Patience}
                /\ r.got \in 0 .. Len(sent) - received
                /\ Len(r.bytes) = (IF r.n > 0 THEN r.n ELSE 0) /\ r.n # 0
                BY <1>1, <1>2, <2>1, <3>4, <3>7
          <5> QED
              BY <3>7, <3>8, <5>1, <5>2, <5>3, <5>4 DEF NextBytes
      <3>10. CASE m <= size
        <4>1. r.kept.buff = <<>> /\ r.kept.off = 0
              BY <2>1, <3>2, <3>7, <3>10 DEF Kept
        <4> QED
            BY <1>1, <1>2, <1>3, <1>5, <2>1, <3>2, <3>4, <3>7, <3>8, <3>10, <4>1 DEF NextBytes
      <3> QED
          BY <2>1, <3>9, <3>10
    <2>4. ASSUME NEW n \in IF received = Len(sent) /\ ended THEN {-1, 0} ELSE {-1}, NEW d \in {0, Patience},
                 r = Nothing(n, [buff |-> <<>>, off |-> 0], d)
          PROVE  NextBytes(r, size)
      <3>1. /\ r.n = n /\ r.bytes = <<>> /\ r.got = 0 /\ r.time = d
            /\ r.kept.buff = <<>> /\ r.kept.off = 0
            BY <2>4 DEF Nothing
      <3>2. received = Len(taken) /\ n \in {-1, 0} /\ (n = 0 => received = Len(sent) /\ ended)
            BY <1>1, <1>5
      <3>3. Len(taken) + Len(r.bytes) + Len(r.kept.buff) - r.kept.off = received + r.got
            BY <1>1, <1>3, <3>1, <3>2
      <3>4. Len(r.bytes) = 0 /\ Len(r.kept.buff) = 0 /\ r.got \in 0 .. Len(sent) - received
            BY <1>1, <1>3, <3>1
      <3>5. /\ r.n \in Int /\ r.n <= size /\ r.time \in {0, Patience}
            /\ r.bytes \in Seq(Bytes) /\ r.kept.buff \in Seq(Bytes)
            BY <1>3, <3>1, <3>2
      <3>6. Len(r.kept.buff) <= BufferSize /\ r.kept.off \in 0 .. Len(r.kept.buff)
            BY <3>1, <3>4
      <3>7. 1 .. Len(r.bytes) = {} /\ 1 .. Len(r.kept.buff) - r.kept.off = {}
            BY <3>1, <3>4
      <3>8. Len(r.bytes) = (IF r.n > 0 THEN r.n ELSE 0) /\ (r.n = 0 => ended /\ Len(taken) = Len(sent))
            BY <3>1, <3>2, <3>4
      <3> QED
          BY <3>3, <3>4, <3>5, <3>6, <3>7, <3>8 DEF NextBytes
    <2>5. CASE r = Nothing(-1, [buff |-> readBuff, off |-> readOff], Patience)
      <3>1. /\ r.n = -1 /\ r.bytes = <<>> /\ r.got = 0 /\ r.time = Patience
            /\ r.kept.buff = readBuff /\ r.kept.off = readOff
            BY <2>5 DEF Nothing
      <3>2. received = Len(taken)
            BY <1>1, <1>5
      <3> QED
          BY <1>1, <1>2, <1>3, <1>5, <3>1, <3>2 DEF NextBytes
    <2> QED
        BY <2>2, <2>3, <2>4, <2>5
  <1> QED
      BY <1>1, <1>4, <1>5

(* read() leaves what is taken and what is read ahead in place, and ends in *)
(* time.                                                                    *)
LEMMA ReadKeepsPlace ==
    ASSUME StreamInv, NEW size \in Nat \ {0}, NEW r \in Reads(size), Read(r), UNCHANGED <<sent, ended>>
    PROVE  /\ BytesInPlace' /\ ReadsEndInTime' /\ elapsed' \in Nat
           /\ received' \in 0 .. Len(sent) /\ readOff' \in 0 .. Len(readBuff') /\ Len(readBuff') <= BufferSize
           /\ taken' \in Seq(Bytes) /\ Len(taken') = Len(taken) + Len(r.bytes)
           /\ \A i \in 1 .. Len(taken) : taken'[i] = taken[i]
           /\ \A i \in 1 .. Len(r.bytes) : taken'[Len(taken) + i] = r.bytes[i]
  <1>1. NextBytes(r, size)
        BY ReadsNextBytes
  <1>2. /\ received' = received + r.got /\ taken' = taken \o r.bytes /\ elapsed' = elapsed + r.time
        /\ readBuff' = r.kept.buff /\ readOff' = r.kept.off
        BY DEF Read
  <1>3. /\ sent \in Seq(Bytes) /\ Len(sent) \in Nat /\ Len(sent) <= MaxSent /\ received \in 0 .. Len(sent)
        /\ taken \in Seq(Bytes) /\ Len(taken) \in Nat /\ elapsed \in Nat
        /\ \A i \in 1 .. Len(taken) : taken[i] = sent[i]
        BY DEF StreamInv, SMTypeOK, BytesInPlace
  <1>4. r.bytes \in Seq(Bytes) /\ Len(r.bytes) \in Nat
        BY <1>1 DEF NextBytes
  <1>5. /\ taken' \in Seq(Bytes) /\ Len(taken') = Len(taken) + Len(r.bytes)
        /\ \A i \in 1 .. Len(taken) : taken'[i] = taken[i]
        /\ \A i \in 1 .. Len(r.bytes) : taken'[Len(taken) + i] = r.bytes[i]
        BY <1>2, <1>3, <1>4
  <1>6. received' \in 0 .. Len(sent) /\ readOff' \in 0 .. Len(readBuff') /\ Len(readBuff') <= BufferSize
    <2>1. /\ r.got \in 0 .. Len(sent) - received /\ r.kept.off \in 0 .. Len(r.kept.buff)
          /\ Len(r.kept.buff) <= BufferSize
          BY <1>1 DEF NextBytes
    <2> QED
        BY <1>2, <1>3, <2>1
  <1>7. elapsed' \in Nat /\ ReadsEndInTime'
    <2>1. Patience \in Nat /\ (MaxTimeout > 0 => elapsed + Patience <= MaxTimeout)
          BY PatienceIsLimited DEF StreamInv
    <2>2. r.time = 0 \/ r.time = Patience
          BY <1>1 DEF NextBytes
    <2>3. MaxTimeout > 0 => elapsed <= MaxTimeout
          BY DEF StreamInv, ReadsEndInTime
    <2> QED
        BY <1>2, <1>3, <2>1, <2>2, <2>3, HttpStreamAssumption DEF ReadsEndInTime
  <1>8. BytesInPlace'
    <2>1. readBuff' \in Seq(Bytes) /\ Len(taken') + Len(readBuff') - readOff' = received'
          BY <1>1, <1>2, <1>5 DEF NextBytes
    <2>2. ASSUME NEW i \in 1 .. Len(taken')
          PROVE  taken'[i] = sent[i]
      <3>1. CASE i <= Len(taken)
            BY <1>3, <1>5, <3>1
      <3>2. CASE i > Len(taken)
        <4>1. PICK k : k = i - Len(taken)
              OBVIOUS
        <4>2. k \in 1 .. Len(r.bytes) /\ i = Len(taken) + k
              BY <1>3, <1>4, <1>5, <3>2, <4>1
        <4>3. r.bytes[k] = sent[Len(taken) + k]
              BY <1>1, <4>2 DEF NextBytes
        <4> QED
            BY <1>5, <4>2, <4>3
      <3> QED
          BY <1>3, <3>1, <3>2
    <2>3. \A i \in 1 .. Len(readBuff') - readOff' : readBuff'[readOff' + i] = sent[Len(taken') + i]
          BY <1>1, <1>2, <1>5 DEF NextBytes
    <2> QED
        BY <1>3, <2>1, <2>2, <2>3 DEF BytesInPlace
  <1> QED
      BY <1>5, <1>6, <1>7, <1>8

(* append() puts the byte at the end of the line, in whichever buffer it is. *)
LEMMA LineGrows ==
    ASSUME StreamInv, NEW c \in Bytes, AppendByte(c)
    PROVE  /\ fixed' \in Seq(Bytes) /\ Len(fixed') < FixedSize /\ growable' \in Seq(Bytes)
           /\ growable' # <<>> => Len(fixed') = FixedSize - 1
           /\ Line' = Append(Line, c)
  <1> USE HttpStreamAssumption
  <1>1. /\ fixed \in Seq(Bytes) /\ growable \in Seq(Bytes) /\ Len(fixed) \in Nat /\ Len(fixed) < FixedSize
        /\ growable # <<>> => Len(fixed) = FixedSize - 1
        BY DEF StreamInv, SMTypeOK, LineInPlace
  <1>2. CASE Len(fixed) < FixedSize - 1
        BY <1>1, <1>2, SMTT(30) DEF AppendByte, Line
  <1>3. CASE ~(Len(fixed) < FixedSize - 1)
    <2>1. growable' = Append(IF growable = <<>> THEN fixed ELSE growable, c) /\ UNCHANGED fixed
          BY <1>3 DEF AppendByte
    <2>2. growable' \in Seq(Bytes) /\ growable' # <<>>
          BY <1>1, <2>1
    <2>3. Len(fixed) = FixedSize - 1
          BY <1>1, <1>3
    <2> QED
        BY <1>1, <2>1, <2>2, <2>3 DEF Line
  <1> QED
      BY <1>2, <1>3

(* A byte more makes a CRLF of a line without one only with the byte before. *)
LEMMA NextCRLF ==
    ASSUME NEW s \in Seq(Bytes), NEW c \in Bytes, CRLFAt(s) = {}
    PROVE  CRLFAt(Append(s, c)) = IF s # <<>> /\ s[Len(s)] = "r" /\ c = "l" THEN {Len(s)} ELSE {}
  <1>1. PICK t : t = Append(s, c)
        OBVIOUS
  <1>2. /\ Len(s) \in Nat /\ Len(t) = Len(s) + 1 /\ t[Len(s) + 1] = c
        /\ \A i \in 1 .. Len(s) : t[i] = s[i]
        /\ s # <<>> <=> Len(s) > 0
        BY <1>1
  <1>3. ASSUME NEW i \in 1 .. Len(t) - 1
        PROVE  t[i] = "r" /\ t[i + 1] = "l" <=> i = Len(s) /\ s[i] = "r" /\ c = "l"
    <2>1. CASE i = Len(s)
          BY <1>2, <2>1
    <2>2. CASE i < Len(s)
      <3>1. i \in 1 .. Len(s) - 1 /\ i \in 1 .. Len(s) /\ i + 1 \in 1 .. Len(s) /\ i # Len(s)
            BY <1>2, <2>2
      <3>2. ~(s[i] = "r" /\ s[i + 1] = "l")
            BY <3>1 DEF CRLFAt
      <3> QED
          BY <1>2, <3>1, <3>2
    <2> QED
        BY <1>2, <2>1, <2>2
  <1>4. CRLFAt(t) = {i \in 1 .. Len(t) - 1 : i = Len(s) /\ s[i] = "r" /\ c = "l"}
        BY <1>3 DEF CRLFAt
  <1>5. CASE s # <<>> /\ s[Len(s)] = "r" /\ c = "l"
        BY <1>1, <1>2, <1>4, <1>5
  <1>6. CASE ~(s # <<>> /\ s[Len(s)] = "r" /\ c = "l")
        BY <1>1, <1>2, <1>4, <1>6
  <1> QED
      BY <1>5, <1>6

LEMMA StreamInit == SMInit => StreamInv
  <1> SUFFICES ASSUME SMInit
               PROVE  StreamInv
      OBVIOUS
  <1> USE HttpStreamAssumption DEF SMInit
  <1>1. <<>> \in Seq(Bytes) /\ Len(<<>>) = 0
        OBVIOUS
  <1>2. reader \in [job : {"none", "line", "length", "all"}, left : 0 .. MaxSent]
        OBVIOUS
  <1>3. SMTypeOK
    <2>1. sent \in Seq(Bytes) /\ taken \in Seq(Bytes) /\ growable \in Seq(Bytes) /\ elapsed \in Nat
          BY <1>1
    <2>2. received \in 0 .. Len(sent) /\ start \in 0 .. Len(taken) /\ readOff \in 0 .. Len(readBuff)
          BY <1>1
    <2>3. Len(readBuff) <= BufferSize /\ Len(fixed) < FixedSize
          BY <1>1
    <2> QED
        BY <1>2, <2>1, <2>2, <2>3 DEF SMTypeOK
  <1>4. BytesInPlace
        BY <1>1 DEF BytesInPlace
  <1>5. LineInPlace
        BY <1>1 DEF LineInPlace, Line
  <1> QED
      BY <1>3, <1>4, <1>5 DEF StreamInv, ReadsEndInTime

(* The parts of StreamInv that a turn of a reader does not prove with       *)
(* ReadKeepsPlace.                                                          *)
LEMMA StreamTurn ==
    ASSUME StreamInv, NEW size \in Nat \ {0}, NEW r \in Reads(size), Read(r), UNCHANGED <<sent, ended, start>>,
           reader' \in [job : {"none", "line", "length", "all"}, left : 0 .. MaxSent],
           result' \in {"none", "true", "false"}, Len(fixed') < FixedSize, growable' \in Seq(Bytes), LineInPlace'
    PROVE  StreamInv'
  <1>1. /\ BytesInPlace' /\ ReadsEndInTime' /\ elapsed' \in Nat
        /\ received' \in 0 .. Len(sent) /\ readOff' \in 0 .. Len(readBuff') /\ Len(readBuff') <= BufferSize
        /\ taken' \in Seq(Bytes) /\ Len(taken') = Len(taken) + Len(r.bytes)
        BY ReadKeepsPlace
  <1>2. Len(r.bytes) \in Nat
        BY ReadsNextBytes DEF NextBytes
  <1>3. start' \in 0 .. Len(taken') /\ sent' \in Seq(Bytes) /\ ended' \in BOOLEAN
        BY <1>1, <1>2, SMTT(30) DEF StreamInv, SMTypeOK
  <1>4. SMTypeOK'
        BY <1>1, <1>3 DEF SMTypeOK
  <1> QED
      BY <1>1, <1>4 DEF StreamInv

LEMMA StreamReadByte == ASSUME StreamInv, ReadByte PROVE StreamInv'
  <1> USE HttpStreamAssumption
  <1>1. /\ reader.job = "line" /\ reader \in [job : {"none", "line", "length", "all"}, left : 0 .. MaxSent]
        /\ result = "none" /\ IsGot(Line) /\ CRLFAt(Line) = {} /\ Line \in Seq(Bytes)
        /\ reader.left = 1 <=> Line # <<>> /\ Line[Len(Line)] = "r"
        BY DEF StreamInv, SMTypeOK, LineInPlace, ReadByte, Line
  <1>2. /\ fixed \in Seq(Bytes) /\ Len(fixed) < FixedSize /\ growable \in Seq(Bytes)
        /\ growable # <<>> => Len(fixed) = FixedSize - 1
        /\ UNCHANGED <<sent, ended, start>> /\ start \in 0 .. Len(taken) /\ taken \in Seq(Bytes) /\ MaxSent \in Nat
        BY DEF StreamInv, SMTypeOK, LineInPlace, ReadByte
  <1>3. /\ [job |-> "none", left |-> 0] \in [job : {"none", "line", "length", "all"}, left : 0 .. MaxSent]
        /\ [job |-> "none", left |-> 0].job = "none"
        OBVIOUS
  <1>4. CASE Ends("false") /\ UNCHANGED <<received, readBuff, readOff, taken, elapsed, fixed, growable>>
    <2>1. SMTypeOK'
          BY <1>2, <1>3, <1>4 DEF StreamInv, SMTypeOK, Ends, Idle
    <2>2. LineInPlace'
          BY <1>2, <1>3, <1>4 DEF LineInPlace, Ends, Idle
    <2>3. BytesInPlace' /\ ReadsEndInTime'
          BY <1>2, <1>4 DEF StreamInv, BytesInPlace, ReadsEndInTime
    <2> QED
        BY <2>1, <2>2, <2>3 DEF StreamInv
  <1>5. CASE \E r \in Reads(1) :
                /\ Read(r)
                /\ \/ r.n < 0 /\ Ends("false") /\ UNCHANGED <<fixed, growable>>
                   \/ r.n = 0 /\ Ends(IF Line = <<>> THEN "false" ELSE "true") /\ UNCHANGED <<fixed, growable>>
                   \/ /\ r.n > 0 /\ AppendByte(r.bytes[1])
                      /\ IF reader.left = 1 /\ r.bytes[1] = "l" THEN Ends("true")
                         ELSE Goes(IF r.bytes[1] = "r" THEN 1 ELSE 0)
    <2>1. PICK r \in Reads(1) :
                /\ Read(r)
                /\ \/ r.n < 0 /\ Ends("false") /\ UNCHANGED <<fixed, growable>>
                   \/ r.n = 0 /\ Ends(IF Line = <<>> THEN "false" ELSE "true") /\ UNCHANGED <<fixed, growable>>
                   \/ /\ r.n > 0 /\ AppendByte(r.bytes[1])
                      /\ IF reader.left = 1 /\ r.bytes[1] = "l" THEN Ends("true")
                         ELSE Goes(IF r.bytes[1] = "r" THEN 1 ELSE 0)
          BY <1>5
    <2>2. 1 \in Nat \ {0}
          OBVIOUS
    <2>3. NextBytes(r, 1)
          BY <2>2, ReadsNextBytes
    <2>4. /\ taken' \in Seq(Bytes) /\ Len(taken') = Len(taken) + Len(r.bytes)
          /\ \A i \in 1 .. Len(taken) : taken'[i] = taken[i]
          /\ \A i \in 1 .. Len(r.bytes) : taken'[Len(taken) + i] = r.bytes[i]
          BY <1>2, <2>1, <2>2, ReadKeepsPlace
    <2>5. ASSUME reader' \in [job : {"none", "line", "length", "all"}, left : 0 .. MaxSent],
                 result' \in {"none", "true", "false"}, Len(fixed') < FixedSize, growable' \in Seq(Bytes), LineInPlace'
          PROVE  StreamInv'
          BY <1>2, <2>1, <2>2, <2>5, StreamTurn
    <2>6. CASE r.n < 0 /\ Ends("false") /\ UNCHANGED <<fixed, growable>>
      <3>1. LineInPlace'
            BY <1>2, <1>3, <2>6 DEF LineInPlace, Ends, Idle
      <3> QED
          BY <1>2, <1>3, <2>5, <2>6, <3>1 DEF Ends, Idle
    <2>7. CASE r.n = 0 /\ Ends(IF Line = <<>> THEN "false" ELSE "true") /\ UNCHANGED <<fixed, growable>>
      <3>1. ended /\ Len(taken) = Len(sent) /\ Len(r.bytes) = 0
            BY <2>3, <2>7 DEF NextBytes
      <3>2. Line' = Line /\ IsGot(Line)' /\ Len(taken') = Len(sent')
        <4>1. Len(taken') = Len(taken)
              BY <1>2, <2>4, <3>1
        <4>2. Line' = Line
              BY <2>7 DEF Line
        <4>3. Len(Line) = Len(taken) - start /\ \A i \in 1 .. Len(Line) : Line[i] = taken[start + i]
              BY <1>1 DEF IsGot
        <4>4. \A i \in 1 .. Len(Line) : start + i \in 1 .. Len(taken)
              BY <1>2, <4>3
        <4> QED
            BY <1>2, <2>4, <3>1, <4>1, <4>2, <4>3, <4>4 DEF IsGot
      <3>3. CRLFAt(Line)' = {}
            BY <1>1, <3>2 DEF CRLFAt
      <3>4. reader'.job = "none"
            BY <1>3, <2>7 DEF Ends, Idle
      <3>5. LineInPlace'
            BY <1>2, <2>7, <3>1, <3>2, <3>3, <3>4 DEF LineInPlace
      <3> QED
          BY <1>2, <1>3, <2>5, <2>7, <3>5 DEF Ends, Idle
    <2>8. CASE /\ r.n > 0 /\ AppendByte(r.bytes[1])
               /\ IF reader.left = 1 /\ r.bytes[1] = "l" THEN Ends("true")
                  ELSE Goes(IF r.bytes[1] = "r" THEN 1 ELSE 0)
      <3>1. Len(r.bytes) = 1 /\ r.bytes \in Seq(Bytes)
            BY <2>3, <2>8 DEF NextBytes
      <3>2. PICK c \in Bytes : c = r.bytes[1]
            BY <3>1
      <3>3. /\ fixed' \in Seq(Bytes) /\ Len(fixed') < FixedSize /\ growable' \in Seq(Bytes)
            /\ growable' # <<>> => Len(fixed') = FixedSize - 1
            /\ Line' = Append(Line, c)
            BY <2>8, <3>2, LineGrows
      <3>4. CRLFAt(Append(Line, c)) = IF Line # <<>> /\ Line[Len(Line)] = "r" /\ c = "l" THEN {Len(Line)} ELSE {}
            BY <1>1, NextCRLF
      <3>5. CRLFAt(Line)' = IF reader.left = 1 /\ c = "l" THEN {Len(Line)} ELSE {}
            BY <1>1, <3>3, <3>4 DEF CRLFAt
      <3>6. Len(Line') = Len(Line) + 1 /\ Line' # <<>> /\ Line'[Len(Line')] = c /\ Len(Line) \in Nat
            BY <1>1, <3>3
      <3>7. IsGot(Line)'
        <4>1. Len(Line) = Len(taken) - start /\ \A i \in 1 .. Len(Line) : Line[i] = taken[start + i]
              BY <1>1 DEF IsGot
        <4>2. Len(Line') = Len(taken') - start'
              BY <1>2, <2>4, <3>1, <3>6, <4>1
        <4>3. ASSUME NEW i \in 1 .. Len(Line')
              PROVE  Line'[i] = taken'[start + i]
          <5>1. CASE i \in 1 .. Len(Line)
            <6>1. Line'[i] = Line[i]
                  BY <1>1, <3>3, <5>1
            <6>2. start + i \in 1 .. Len(taken)
                  BY <1>2, <4>1, <5>1
            <6> QED
                BY <2>4, <4>1, <5>1, <6>1, <6>2
          <5>2. CASE i = Len(Line) + 1
            <6>1. start + i = Len(taken) + 1 /\ 1 \in 1 .. Len(r.bytes)
                  BY <1>2, <3>1, <4>1, <5>2
            <6> QED
                BY <2>4, <3>2, <3>6, <5>2, <6>1
          <5> QED
              BY <3>6, <5>1, <5>2
        <4> QED
            BY <1>2, <4>2, <4>3 DEF IsGot
      <3>8. CASE reader.left = 1 /\ c = "l"
        <4>1. reader' = [job |-> "none", left |-> 0] /\ result' = "true"
              BY <2>8, <3>2, <3>8 DEF Ends, Idle
        <4>2. CRLFAt(Line)' = {Len(Line') - 1} /\ CRLFAt(Line)' # {}
              BY <3>5, <3>6, <3>8
        <4>3. LineInPlace'
              BY <1>3, <3>3, <3>7, <4>1, <4>2 DEF LineInPlace
        <4> QED
            BY <1>3, <2>5, <3>3, <4>1, <4>3
      <3>9. CASE ~(reader.left = 1 /\ c = "l")
        <4>1. reader' = [reader EXCEPT !.left = IF c = "r" THEN 1 ELSE 0] /\ result' = result
              BY <2>8, <3>2, <3>9 DEF Goes
        <4>2. /\ reader'.job = "line" /\ reader'.left = (IF c = "r" THEN 1 ELSE 0)
              BY <1>1, <4>1
        <4>3. 1 \in 0 .. MaxSent
          <5>1. /\ Len(sent) \in Nat /\ Len(sent) <= MaxSent /\ received \in 0 .. Len(sent) /\ Len(taken) \in Nat
                BY DEF StreamInv, SMTypeOK, BytesInPlace
          <5>2. /\ r.got \in 0 .. Len(sent) - received /\ Len(r.kept.buff) \in Nat
                /\ r.kept.off \in 0 .. Len(r.kept.buff)
                /\ Len(taken) + Len(r.bytes) + Len(r.kept.buff) - r.kept.off = received + r.got
                BY <2>3 DEF NextBytes
          <5>3. Len(taken) + 1 <= received + r.got
                BY <3>1, <5>1, <5>2
          <5> QED
              BY <1>2, <5>1, <5>2, <5>3
        <4>4. reader' \in [job : {"none", "line", "length", "all"}, left : 0 .. MaxSent]
              BY <1>1, <1>2, <4>1, <4>3, SMTT(30)
        <4>5. CRLFAt(Line)' = {}
              BY <3>5, <3>9
        <4>6. LineInPlace'
              BY <1>1, <3>3, <3>6, <3>7, <4>1, <4>2, <4>5 DEF LineInPlace
        <4> QED
            BY <1>1, <2>5, <3>3, <4>1, <4>4, <4>6
      <3> QED
          BY <3>8, <3>9
    <2> QED
        BY <2>1, <2>6, <2>7, <2>8
  <1> QED
      BY <1>4, <1>5 DEF ReadByte

LEMMA StreamReadLength == ASSUME StreamInv, ReadLength PROVE StreamInv'
  <1> USE HttpStreamAssumption
  <1>1. /\ reader.job = "length" /\ reader \in [job : {"none", "line", "length", "all"}, left : 0 .. MaxSent]
        /\ result = "none" /\ Line = <<>> /\ fixed \in Seq(Bytes) /\ Len(fixed) < FixedSize /\ growable \in Seq(Bytes)
        /\ growable # <<>> => Len(fixed) = FixedSize - 1
        BY DEF StreamInv, SMTypeOK, LineInPlace, ReadLength
  <1>2. UNCHANGED <<sent, ended, start, fixed, growable>> /\ Line' = Line
        BY DEF ReadLength, Line
  <1>3. /\ [job |-> "none", left |-> 0] \in [job : {"none", "line", "length", "all"}, left : 0 .. MaxSent]
        /\ [job |-> "none", left |-> 0].job = "none"
        OBVIOUS
  <1>4. ASSUME NEW how \in {"true", "false"}, Ends(how)
        PROVE  /\ LineInPlace' /\ result' \in {"none", "true", "false"}
               /\ reader' \in [job : {"none", "line", "length", "all"}, left : 0 .. MaxSent]
        BY <1>1, <1>2, <1>3, <1>4 DEF LineInPlace, Ends, Idle
  <1>5. CASE Ends("true") /\ UNCHANGED <<received, readBuff, readOff, taken, elapsed>>
    <2>1. SMTypeOK'
          BY <1>2, <1>4, <1>5 DEF StreamInv, SMTypeOK
    <2>2. BytesInPlace' /\ ReadsEndInTime'
          BY <1>2, <1>5 DEF StreamInv, BytesInPlace, ReadsEndInTime
    <2> QED
        BY <1>4, <1>5, <2>1, <2>2 DEF StreamInv
  <1>6. CASE reader.left > 0 /\ \E r \in Reads(Least(reader.left, RecvSize)) :
                Read(r) /\ IF r.n <= 0 THEN Ends("false") ELSE Goes(reader.left - r.n)
    <2>1. PICK size : size = Least(reader.left, RecvSize)
          OBVIOUS
    <2>2. size \in Nat \ {0} /\ size <= reader.left
          BY <1>1, <1>6, <2>1 DEF Least
    <2>3. PICK r \in Reads(size) : Read(r) /\ IF r.n <= 0 THEN Ends("false") ELSE Goes(reader.left - r.n)
          BY <1>6, <2>1
    <2>4. r.n \in Int /\ r.n <= size
          BY <2>2, ReadsNextBytes DEF NextBytes
    <2>5. /\ LineInPlace' /\ result' \in {"none", "true", "false"}
          /\ reader' \in [job : {"none", "line", "length", "all"}, left : 0 .. MaxSent]
      <3>1. CASE r.n <= 0
            BY <1>4, <2>3, <3>1
      <3>2. CASE r.n > 0
        <4>1. reader' = [reader EXCEPT !.left = reader.left - r.n] /\ result' = result
              BY <2>3, <2>4, <3>2 DEF Goes
        <4>2. reader.left - r.n \in 0 .. MaxSent
              BY <1>1, <2>2, <2>4, <3>2
        <4>3. reader' \in [job : {"none", "line", "length", "all"}, left : 0 .. MaxSent] /\ reader'.job = "length"
              BY <1>1, <4>1, <4>2
        <4> QED
            BY <1>1, <1>2, <4>1, <4>3 DEF LineInPlace
      <3> QED
          BY <2>4, <3>1, <3>2
    <2> QED
        BY <1>1, <1>2, <2>2, <2>3, <2>5, StreamTurn
  <1> QED
      BY <1>5, <1>6 DEF ReadLength

LEMMA StreamReadAll == ASSUME StreamInv, ReadAll PROVE StreamInv'
  <1> USE HttpStreamAssumption
  <1>1. /\ reader.job = "all" /\ reader \in [job : {"none", "line", "length", "all"}, left : 0 .. MaxSent]
        /\ result = "none" /\ Line = <<>> /\ fixed \in Seq(Bytes) /\ Len(fixed) < FixedSize /\ growable \in Seq(Bytes)
        /\ growable # <<>> => Len(fixed) = FixedSize - 1
        BY DEF StreamInv, SMTypeOK, LineInPlace, ReadAll
  <1>2. UNCHANGED <<sent, ended, start, fixed, growable>> /\ Line' = Line
        BY DEF ReadAll, Line
  <1>3. /\ [job |-> "none", left |-> 0] \in [job : {"none", "line", "length", "all"}, left : 0 .. MaxSent]
        /\ [job |-> "none", left |-> 0].job = "none" /\ RecvSize \in Nat \ {0}
        OBVIOUS
  <1>4. PICK r \in Reads(RecvSize) :
           Read(r) /\ IF r.n = 0 THEN Ends("true") ELSE IF r.n < 0 THEN Ends("false") ELSE Goes(0)
        BY DEF ReadAll
  <1>5. CASE Ends("true") \/ Ends("false")
    <2>1. /\ LineInPlace' /\ result' \in {"none", "true", "false"}
          /\ reader' \in [job : {"none", "line", "length", "all"}, left : 0 .. MaxSent]
          BY <1>1, <1>2, <1>3, <1>5 DEF LineInPlace, Ends, Idle
    <2> QED
        BY <1>1, <1>2, <1>3, <1>4, <2>1, StreamTurn
  <1>6. CASE Goes(0)
    <2>1. reader' = [reader EXCEPT !.left = 0] /\ result' = result
          BY <1>6 DEF Goes
    <2>2. reader' \in [job : {"none", "line", "length", "all"}, left : 0 .. MaxSent] /\ reader'.job = "all"
          BY <1>1, <2>1
    <2>3. LineInPlace'
          BY <1>1, <1>2, <2>1, <2>2 DEF LineInPlace
    <2> QED
        BY <1>1, <1>2, <1>3, <1>4, <2>1, <2>2, <2>3, StreamTurn
  <1> QED
      BY <1>4, <1>5, <1>6

LEMMA StreamBeginRead == ASSUME StreamInv, BeginRead PROVE StreamInv'
  <1> USE HttpStreamAssumption
  <1>1. /\ result' = "none" /\ start' = Len(taken) /\ fixed' = <<>> /\ growable' = <<>>
        /\ UNCHANGED <<sent, ended, received, readBuff, readOff, taken, elapsed>>
        BY DEF BeginRead
  <1>2. reader' \in [job : {"none", "line", "length", "all"}, left : 0 .. MaxSent]
        BY DEF BeginRead
  <1>3. <<>> \in Seq(Bytes) /\ Len(<<>>) = 0 /\ Line' = <<>>
        BY <1>1 DEF Line
  <1>4. taken \in Seq(Bytes) /\ Len(taken) \in Nat
        BY DEF StreamInv, SMTypeOK
  <1>5. SMTypeOK'
    <2>1. start' \in 0 .. Len(taken') /\ Len(fixed') < FixedSize /\ growable' \in Seq(Bytes)
          BY <1>1, <1>3, <1>4
    <2> QED
        BY <1>1, <1>2, <2>1 DEF StreamInv, SMTypeOK
  <1>6. LineInPlace'
    <2>1. IsGot(Line)'
          BY <1>1, <1>3, <1>4 DEF IsGot
    <2>2. CRLFAt(Line)' = {}
          BY <1>3 DEF CRLFAt
    <2>3. fixed' \in Seq(Bytes)
          BY <1>1, <1>3
    <2>4. reader'.job = "line" => reader'.left # 1
          BY DEF BeginRead
    <2> QED
        BY <1>1, <1>3, <2>1, <2>2, <2>3, <2>4 DEF LineInPlace
  <1>7. BytesInPlace' /\ ReadsEndInTime'
        BY <1>1 DEF StreamInv, BytesInPlace, ReadsEndInTime
  <1> QED
      BY <1>5, <1>6, <1>7 DEF StreamInv

LEMMA StreamPeerWrites == ASSUME StreamInv, PeerWrites PROVE StreamInv'
  <1> USE HttpStreamAssumption
  <1>1. /\ UNCHANGED <<received, readBuff, readOff, taken, elapsed, reader, fixed, growable, start, result>>
        /\ ~ended /\ Line' = Line
        BY DEF PeerWrites, Line
  <1>2. /\ sent \in Seq(Bytes) /\ Len(sent) \in Nat /\ received \in 0 .. Len(sent) /\ taken \in Seq(Bytes)
        /\ readBuff \in Seq(Bytes) /\ readOff \in 0 .. Len(readBuff) /\ Len(taken) \in Nat /\ Len(readBuff) \in Nat
        /\ Len(taken) + Len(readBuff) - readOff = received /\ Len(sent) <= MaxSent
        BY DEF StreamInv, SMTypeOK, BytesInPlace
  <1>3. /\ sent' \in Seq(Bytes) /\ Len(sent') >= Len(sent) /\ Len(sent') <= MaxSent /\ ended' \in BOOLEAN
        /\ \A i \in 1 .. Len(sent) : sent'[i] = sent[i]
    <2>1. CASE ended' = TRUE /\ UNCHANGED sent
          BY <1>2, <2>1
    <2>2. CASE Len(sent) < MaxSent /\ UNCHANGED ended /\ \E b \in Bytes : sent' = Append(sent, b)
      <3>1. PICK b \in Bytes : sent' = Append(sent, b)
            BY <2>2
      <3>2. sent' \in Seq(Bytes) /\ Len(sent') = Len(sent) + 1 /\ \A i \in 1 .. Len(sent) : sent'[i] = sent[i]
            BY <1>2, <3>1
      <3>3. ended' \in BOOLEAN /\ Len(sent') <= MaxSent
        <4>1. ended' \in BOOLEAN
              BY <2>2 DEF StreamInv, SMTypeOK
        <4>2. Len(sent') <= MaxSent
              BY <1>2, <2>2, <3>2
        <4> QED
            BY <4>1, <4>2
      <3> QED
          BY <1>2, <3>2, <3>3
    <2> QED
        BY <2>1, <2>2 DEF PeerWrites
  <1>4. SMTypeOK'
    <2>1. received' \in 0 .. Len(sent')
          BY <1>1, <1>2, <1>3
    <2> QED
        BY <1>1, <1>3, <2>1 DEF StreamInv, SMTypeOK
  <1>5. BytesInPlace'
    <2>1. \A i \in 1 .. Len(taken) : i \in 1 .. Len(sent)
          BY <1>2
    <2>2. \A i \in 1 .. Len(readBuff) - readOff : Len(taken) + i \in 1 .. Len(sent)
          BY <1>2
    <2>3. /\ \A i \in 1 .. Len(taken) : taken[i] = sent[i]
          /\ \A i \in 1 .. Len(readBuff) - readOff : readBuff[readOff + i] = sent[Len(taken) + i]
          BY DEF StreamInv, BytesInPlace
    <2>4. \A i \in 1 .. Len(taken) : taken[i] = sent'[i]
          BY <1>3, <2>1, <2>3
    <2>5. \A i \in 1 .. Len(readBuff) - readOff : readBuff[readOff + i] = sent'[Len(taken) + i]
          BY <1>3, <2>2, <2>3
    <2> QED
        BY <1>1, <1>2, <1>3, <2>4, <2>5 DEF BytesInPlace
  <1>6. LineInPlace'
    <2>1. CRLFAt(Line)' = CRLFAt(Line) /\ (IsGot(Line) => IsGot(Line)')
          BY <1>1 DEF CRLFAt, IsGot
    <2> QED
        BY <1>1, <2>1 DEF StreamInv, LineInPlace
  <1>7. ReadsEndInTime'
        BY <1>1 DEF StreamInv, ReadsEndInTime
  <1> QED
      BY <1>4, <1>5, <1>6, <1>7 DEF StreamInv

LEMMA StreamStep == StreamInv /\ [SMNext]_SMvars => StreamInv'
  <1>1. ASSUME StreamInv, UNCHANGED SMvars
        PROVE  StreamInv'
        BY <1>1, SMTT(30) DEF SMvars, StreamInv, SMTypeOK, BytesInPlace, LineInPlace, ReadsEndInTime, Line, IsGot, CRLFAt
  <1> QED
      BY <1>1, StreamReadByte, StreamReadLength, StreamReadAll, StreamBeginRead, StreamPeerWrites DEF SMNext

(* What BytesAreReadInOrder says of the bytes as sequences.                 *)
LEMMA InPlaceInOrder == StreamInv => BytesAreReadInOrder
  <1> SUFFICES ASSUME StreamInv
               PROVE  BytesAreReadInOrder
      OBVIOUS
  <1>1. /\ sent \in Seq(Bytes) /\ Len(sent) \in Nat /\ received \in 0 .. Len(sent) /\ taken \in Seq(Bytes)
        /\ readBuff \in Seq(Bytes) /\ readOff \in 0 .. Len(readBuff) /\ Len(taken) \in Nat /\ Len(readBuff) \in Nat
        /\ Len(taken) + Len(readBuff) - readOff = received /\ start \in 0 .. Len(taken)
        BY DEF StreamInv, SMTypeOK, BytesInPlace
  <1>2. taken \o SubSeq(readBuff, readOff + 1, Len(readBuff)) = SubSeq(sent, 1, received)
    <2>1. PICK ahead : ahead = SubSeq(readBuff, readOff + 1, Len(readBuff))
          OBVIOUS
    <2>2. /\ ahead \in Seq(Bytes) /\ Len(ahead) = Len(readBuff) - readOff
          /\ \A i \in 1 .. Len(ahead) : ahead[i] = readBuff[readOff + i]
          BY <1>1, <2>1
    <2>3. PICK s : s = taken \o ahead
          OBVIOUS
    <2>4. PICK t : t = SubSeq(sent, 1, received)
          OBVIOUS
    <2>5. /\ s \in Seq(Bytes) /\ Len(s) = Len(taken) + Len(ahead)
          /\ \A i \in 1 .. Len(taken) : s[i] = taken[i]
          /\ \A i \in 1 .. Len(ahead) : s[Len(taken) + i] = ahead[i]
      <3>0. ahead \in Seq(Bytes) /\ taken \in Seq(Bytes) /\ s = taken \o ahead
            BY <1>1, <2>2, <2>3
      <3>1. s \in Seq(Bytes)
            BY <3>0
      <3>2. Len(s) = Len(taken) + Len(ahead)
            BY <3>0
      <3>3. \A i \in 1 .. Len(taken) : s[i] = taken[i]
            BY <3>0
      <3>4. \A i \in 1 .. Len(ahead) : s[Len(taken) + i] = ahead[i]
            BY <3>0
      <3> QED
          BY <3>1, <3>2, <3>3, <3>4
    <2>6. t \in Seq(Bytes) /\ Len(t) = received /\ \A i \in 1 .. received : t[i] = sent[i]
          BY <1>1, <2>4
    <2>7. Len(s) = Len(t)
          BY <1>1, <2>2, <2>5, <2>6
    <2>8. ASSUME NEW i \in 1 .. Len(s)
          PROVE  s[i] = t[i]
      <3>1. i \in 1 .. received /\ t[i] = sent[i]
            BY <1>1, <2>6, <2>7
      <3>2. CASE i \in 1 .. Len(taken)
            BY <2>5, <3>1, <3>2 DEF StreamInv, BytesInPlace
      <3>3. CASE i > Len(taken)
        <4>1. PICK k : k = i - Len(taken)
              OBVIOUS
        <4>2. k \in 1 .. Len(ahead) /\ i = Len(taken) + k
              BY <1>1, <2>2, <2>5, <3>3, <4>1
        <4>3. readBuff[readOff + k] = sent[Len(taken) + k]
              BY <2>2, <4>2 DEF StreamInv, BytesInPlace
        <4> QED
            BY <2>2, <2>5, <3>1, <4>2, <4>3
      <3> QED
          BY <1>1, <3>1, <3>2, <3>3
    <2>9. s = t
          BY <2>5, <2>6, <2>7, <2>8, SeqEqual
    <2> QED
        BY <2>1, <2>3, <2>4, <2>9
  <1>3. ASSUME IsGot(Line)
        PROVE  Line = Got
    <2>1. Line \in Seq(Bytes)
          BY DEF StreamInv, SMTypeOK, LineInPlace, Line
    <2>2. PICK t : t = Got
          OBVIOUS
    <2>3. /\ t \in Seq(Bytes) /\ Len(t) = Len(taken) - start
          /\ \A i \in 1 .. Len(t) : t[i] = taken[start + i]
          BY <1>1, <2>2, SMTT(30) DEF Got
    <2>4. Len(Line) = Len(t) /\ \A i \in 1 .. Len(Line) : Line[i] = t[i]
          BY <1>3, <2>3 DEF IsGot
    <2> QED
        BY <2>1, <2>2, <2>3, <2>4, SeqEqual
  <1> QED
      BY <1>2, <1>3 DEF StreamInv, LineInPlace, BytesAreReadInOrder

-----------------------------------------------------------------------------
(* Theorems                                                                *)

(* In every reachable state of create_socket() ConnectInv holds: the socket *)
(* in hand is the only one open, and after a timeout only the close is left. *)
THEOREM ConnectInvHolds == CNSpec => []ConnectInv
  <1> QED
      BY ConnectInit, ConnectStep, PTL DEF CNSpec

(* In every reachable state of a stream and its readers StreamInv holds.    *)
THEOREM StreamInvHolds == SMSpec => []StreamInv
  <1> QED
      BY StreamInit, StreamStep, PTL DEF SMSpec

(* The four components side by side, as the run exercises them.             *)
HttpInv == ServerInv /\ ClientInv /\ ConnectInv /\ StreamInv

LEMMA HttpInit == Init => HttpInv
  BY ServerInit, ClientInit, ConnectInit, StreamInit DEF Init, HttpInv

LEMMA HttpStep == HttpInv /\ [Next]_vars => HttpInv'
  <1>1. HttpInv /\ [Next]_vars
           => [HSNext]_HSvars /\ [HCNext]_HCvars /\ [CNNext]_CNvars /\ [SMNext]_SMvars
        BY DEF Next, vars
  <1> QED
      BY <1>1, ServerStep, ClientStep, ConnectStep, StreamStep DEF HttpInv

LEMMA HttpInvHolds == Spec => []HttpInv
  <1> QED
      BY HttpInit, HttpStep, PTL DEF Spec

(* Every variable of the server, the client, the making of a socket and the *)
(* stream keeps its type.                                                   *)
THEOREM HttpTypes == Spec => []TypeOK
  <1>1. HttpInv => TypeOK
        BY DEF HttpInv, TypeOK, ServerInv, ClientInv, ConnectInv, StreamInv
  <1> QED
      BY <1>1, HttpInvHolds, PTL

(* create_socket() leaves no socket open but the one it returns, however    *)
(* many addresses fail; each byte of the peer is read once and in order, in *)
(* whatever pieces recv() delivers, lines up to the first CRLF also when    *)
(* they outgrow their buffer; and all reads end in max_timeout_msec_.       *)
THEOREM StreamsDelivered == Spec => []StreamsDeliver
  <1>1. HttpInv => StreamsDeliver
        BY InPlaceInOrder DEF HttpInv, ConnectInv, StreamInv, StreamsDeliver
  <1> QED
      BY <1>1, HttpInvHolds, PTL
=============================================================================
