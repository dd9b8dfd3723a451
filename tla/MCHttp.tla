------------------------------- MODULE MCHttp -------------------------------
(***************************************************************************)
(* The threads and sockets of httplib.hpp.  The listening server, the      *)
(* client, the making of sockets and the reading from one touch no common  *)
(* state: they share a run, each behaviour of which exercises one of them. *)
(***************************************************************************)
EXTENDS HttpServer, HttpClient, HttpConnect, HttpStream

VARIABLE component  \* the component that is exercised

vars == <<HSvars, HCvars, CNvars, SMvars, component>>

Init ==
    /\ component \in {"server", "client", "connect", "stream"}
    /\ HSInit /\ HCInit /\ CNInit /\ SMInit
    /\ component # "client" => settings = CHOOSE s \in Settings : TRUE

Next ==
    /\ UNCHANGED component
    /\ \/ component = "server"  /\ HSNext /\ UNCHANGED <<HCvars, CNvars, SMvars>>
       \/ component = "client"  /\ HCNext /\ UNCHANGED <<HSvars, CNvars, SMvars>>
       \/ component = "connect" /\ CNNext /\ UNCHANGED <<HSvars, HCvars, SMvars>>
       \/ component = "stream"  /\ SMNext /\ UNCHANGED <<HSvars, HCvars, CNvars>>

(* A component that is not exercised stays in its initial state, where no  *)
(* action that its fairness speaks of is enabled.                          *)
Spec == Init /\ [][Next]_vars /\ HSFairness /\ HCFairness

(* The type invariants of the four modules. *)
TypeOK == HSTypeOK /\ HCTypeOK /\ CNTypeOK /\ SMTypeOK

(* The socket that create_socket() returns, the bytes that are read from   *)
(* one, and the time that takes.                                           *)
StreamsDeliver == OnlyReturnedSocketIsOpen /\ BytesAreReadInOrder /\ ReadsEndInTime

(* listen() returns after stop(), and every call of send() returns, if the  *)
(* peers let every request and every answer end.                            *)
CallsReturn == StopEndsListen /\ CallsEnd

MCSettings == {s \in [ssl : BOOLEAN, keepAlive : BOOLEAN, follow : BOOLEAN, digest : BOOLEAN] :
                  (s.ssl => s.follow /\ ~s.digest /\ ~s.keepAlive) /\ (s.digest => s.follow)}
=============================================================================
