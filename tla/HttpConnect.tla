----------------------------- MODULE HttpConnect -----------------------------
(***************************************************************************)
(* create_socket() and create_client_socket() of httplib.hpp: one address  *)
(* of a host after the other is tried, until one takes the connection.  A  *)
(* server binds and listens instead of connecting.  The results of the     *)
(* system calls are a free choice.                                         *)
(***************************************************************************)
EXTENDS Integers, Sequences, FiniteSets

CONSTANTS
    MaxAddresses,  \* bound: what getaddrinfo() finds
    MaxTries       \* bound: calls of create_socket()

(* An AF_UNIX path alone is an address. *)
ASSUME HttpConnectAssumption == MaxAddresses \in Nat \ {0} /\ MaxTries \in Nat

VARIABLES
    ask,      \* the call: by whom, whether the family is AF_UNIX, whether an interface is given
    dpc,      \* "idle", "lookup", "socket", "interface", "connect", "wait", "close"
    rp,       \* the addresses still to be tried
    fd,       \* sock: the socket in hand, 0 for none
    openFds,  \* the sockets that are open
    nextFd,   \* the number of the next socket
    error,
    quit,
    ret       \* what the call returned

CNvars == <<ask, dpc, rp, fd, openFds, nextFd, error, quit, ret>>

Errors == {"Success", "Connection", "BindIPAddress", "ConnectionTimeout"}

CNTypeOK ==
    /\ ask \in [who : {"client", "server"}, unix : BOOLEAN, intf : BOOLEAN]
    /\ dpc \in {"idle", "lookup", "socket", "interface", "connect", "wait", "close"}
    /\ rp \in 0 .. MaxAddresses /\ nextFd \in Nat
    /\ fd \in 0 .. nextFd /\ ret \in 0 .. nextFd /\ openFds \subseteq 1 .. nextFd
    /\ error \in Errors /\ quit \in BOOLEAN

CNInit ==
    /\ ask = [who |-> "client", unix |-> FALSE, intf |-> FALSE]
    /\ dpc = "idle" /\ rp = 0 /\ fd = 0 /\ openFds = {} /\ nextFd = 1
    /\ error = "Success" /\ quit = FALSE /\ ret = 0

(* The call ends with a socket or with 0; create_client_socket() then makes *)
(* sure that there is an error when there is no socket.                     *)
Returns(s) ==
    /\ dpc' = "idle" /\ ret' = s /\ fd' = 0
    /\ error' = IF ask.who = "server" THEN error
                ELSE IF s # 0 THEN "Success" ELSE IF error = "Success" THEN "Connection" ELSE error

(* A call begins: the socket of the one before is the caller's own business,*)
(* the error is what the caller's variable holds.                           *)
Ask ==
    /\ dpc = "idle" /\ nextFd <= MaxTries
    /\ ask' \in [who : {"client", "server"}, unix : BOOLEAN, intf : BOOLEAN]
    /\ dpc' = "lookup" /\ ret' = 0 /\ openFds' = {} /\ error' = "Success" /\ quit' = FALSE
    /\ UNCHANGED <<rp, fd, nextFd>>

(* getaddrinfo(); an AF_UNIX path that is too long is refused, any other is *)
(* the only address.                                                        *)
Lookup ==
    /\ dpc = "lookup"
    /\ \/ Returns(0) /\ UNCHANGED rp
       \/ rp' = 1 /\ ask.unix /\ dpc' = "socket" /\ UNCHANGED <<fd, error, ret>>
       \/ rp' \in 1 .. MaxAddresses /\ ~ask.unix /\ dpc' = "socket" /\ UNCHANGED <<fd, error, ret>>
    /\ UNCHANGED <<ask, openFds, nextFd, quit>>

NewSocket ==
    /\ dpc = "socket"
    /\ IF rp = 0 THEN Returns(0) /\ UNCHANGED <<rp, openFds, nextFd>>
       ELSE /\ rp' = rp - 1
            /\ \/ UNCHANGED <<dpc, fd, openFds, nextFd>>
               \/ /\ fd' = nextFd /\ openFds' = openFds \cup {nextFd} /\ nextFd' = nextFd + 1
                  /\ dpc' = IF ask.who = "client" /\ ask.intf THEN "interface" ELSE "connect"
            /\ UNCHANGED <<error, ret>>
    /\ UNCHANGED <<ask, quit>>

Fail(e) == error' = e /\ dpc' = "close"

(* if2ip() and bind_ip_address() *)
BindInterface ==
    /\ dpc = "interface"
    /\ \/ Fail("BindIPAddress")
       \/ dpc' = "connect" /\ UNCHANGED error
    /\ UNCHANGED <<ask, rp, fd, openFds, nextFd, quit, ret>>

(* ::connect() without blocking, or ::bind() and ::listen()                 *)
ConnectOrBind ==
    /\ dpc = "connect"
    /\ \/ Returns(fd)
       \/ UNCHANGED <<fd, ret>> /\ IF ask.who = "client" THEN Fail("Connection") ELSE Fail(error)
       \/ ask.who = "client" /\ dpc' = "wait" /\ UNCHANGED <<fd, error, ret>>
    /\ UNCHANGED <<ask, rp, openFds, nextFd, quit>>

(* wait_until_socket_is_ready(): after a timeout no other address is tried. *)
WaitUntilReady ==
    /\ dpc = "wait"
    /\ \/ Returns(fd) /\ UNCHANGED quit
       \/ Fail("Connection") /\ UNCHANGED <<fd, ret, quit>>
       \/ Fail("ConnectionTimeout") /\ quit' = TRUE /\ UNCHANGED <<fd, ret>>
    /\ UNCHANGED <<ask, rp, openFds, nextFd>>

(* Mutant: the socket is left open when no other address is tried. *)
CloseFailedUnlessQuit ==
    /\ dpc = "close"
    /\ openFds' = IF quit THEN openFds ELSE openFds \ {fd}
    /\ IF quit THEN Returns(0) ELSE dpc' = "socket" /\ fd' = 0 /\ UNCHANGED <<error, ret>>
    /\ UNCHANGED <<ask, rp, nextFd, quit>>

CloseFailed ==
    /\ dpc = "close"
    /\ openFds' = openFds \ {fd}
    /\ IF quit THEN Returns(0) ELSE dpc' = "socket" /\ fd' = 0 /\ UNCHANGED <<error, ret>>
    /\ UNCHANGED <<ask, rp, nextFd, quit>>

CNNext == Ask \/ Lookup \/ NewSocket \/ BindInterface \/ ConnectOrBind \/ WaitUntilReady \/ CloseFailed

CNSpec == CNInit /\ [][CNNext]_CNvars

-----------------------------------------------------------------------------
(* However many addresses fail, and wherever they do, the socket that is    *)
(* returned is the only one left open; a client has an error exactly when   *)
(* it has no socket, and a timeout is reported as one, not as what an       *)
(* address before it gave.                                                  *)
OnlyReturnedSocketIsOpen ==
    /\ dpc = "idle" => openFds = IF ret = 0 THEN {} ELSE {ret}
    /\ dpc # "idle" => openFds = IF fd = 0 THEN {} ELSE {fd}
    /\ dpc = "idle" /\ ask.who = "client" /\ nextFd > 1 => (error = "Success" <=> ret # 0)
    /\ dpc = "idle" /\ quit => error = "ConnectionTimeout"

(* What makes it inductive: where a socket is in hand, and that after a     *)
(* timeout there is only the close and the end.                             *)
ConnectInv ==
    /\ CNTypeOK /\ OnlyReturnedSocketIsOpen
    /\ nextFd > 0
    /\ dpc \in {"idle", "lookup", "socket"} <=> fd = 0
    /\ dpc = "wait" => ask.who = "client"
    /\ quit => error = "ConnectionTimeout" /\ dpc \in {"close", "idle"}
=============================================================================
