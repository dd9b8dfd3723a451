----------------------------- MODULE CallbackList -----------------------------
(***************************************************************************)
(* CallbackList<Args...>: threads subscribe, unsubscribe, notify and clear.*)
(* The list is a Synchronized<vector>: Apply and Visit run a function with *)
(* its mutex held.  An id is drawn before the mutex is taken.  Notify calls*)
(* the callbacks one by one with the mutex held, and a callback may throw. *)
(***************************************************************************)
EXTENDS Naturals, Sequences, FiniteSets, SequencesExt

CONSTANTS
    Callers,    \* the threads that use the list
    Callbacks,  \* the callbacks, each of which is subscribed once at most
    Handles,    \* the Handle variables of the program
    IDMax,      \* kIDMax, which bounds the number of subscriptions
    NoThread, NoCallback, NoHandle

ASSUME ListAssumption ==
    /\ IDMax \in Nat /\ IsFiniteSet(Callbacks) /\ Cardinality(Callbacks) <= IDMax
    /\ NoThread \notin Callers /\ NoCallback \notin Callbacks /\ NoHandle \notin Handles

VARIABLES
    nextId,  \* id_
    subs,    \* subs_, the vector
    mutex,   \* the thread that holds the mutex of subs_
    call,    \* where each thread is, and the locals of its call
    handle,  \* the id_ of each Handle
    ledger   \* history: what each handle stands for, what was subscribed,
             \* what was removed, and what the Notify in progress has called

CBvars == <<nextId, subs, mutex, call, handle, ledger>>

IDs == 0 .. IDMax - 1

Idle == [pc |-> "idle", id |-> IDMax, cb |-> NoCallback, handle |-> NoHandle, pos |-> 0]

Subscriber == [id : IDs, cb : Callbacks]

CallState == [pc : {"idle", "insert", "notify", "callback"}, id : 0 .. IDMax,
              cb : Callbacks \cup {NoCallback}, handle : Handles \cup {NoHandle}, pos : Nat]

Ledger == [stands : [Handles -> Callbacks \cup {NoCallback}], subscribed : SUBSET Callbacks,
           removed : SUBSET Callbacks, list : Seq(Callbacks), called : Seq(Callbacks)]

CBTypeOK ==
    /\ nextId \in Nat
    /\ subs \in Seq(Subscriber)
    /\ mutex \in Callers \cup {NoThread}
    /\ call \in [Callers -> CallState]
    /\ handle \in [Handles -> 0 .. IDMax]
    /\ ledger \in Ledger

CBInit ==
    /\ nextId = 0
    /\ subs = <<>>
    /\ mutex = NoThread
    /\ call = [t \in Callers |-> Idle]
    /\ handle = [h \in Handles |-> IDMax]
    /\ ledger = [stands |-> [h \in Handles |-> NoCallback], subscribed |-> {}, removed |-> {},
                 list |-> <<>>, called |-> <<>>]

CallbacksOf(s) == [i \in 1 .. Len(s) |-> s[i].cb]

Listed == {subs[i].cb : i \in 1 .. Len(subs)}

(* Two threads do not use one Handle at the same time. *)
MayUse(h) == \A t \in Callers : call[t].pc = "insert" => call[t].handle # h

-----------------------------------------------------------------------------
(* Subscribe *)

(* Mutant: the number of subscriptions as an id. *)
FreshIdBySize == Len(subs)

(* Mutant: ++id_, so that the last id is the invalid one. *)
FreshIdNext == nextId + 1

FreshId == nextId

(* id_.fetch_add(), without the mutex *)
Subscribe(t, cb, h) ==
    /\ call[t].pc = "idle" /\ MayUse(h)
    /\ cb \notin ledger.subscribed
    /\ nextId' = nextId + 1
    /\ call' = [call EXCEPT ![t] = [pc |-> "insert", id |-> FreshId, cb |-> cb, handle |-> h, pos |-> 0]]
    /\ ledger' = [ledger EXCEPT !.subscribed = @ \cup {cb}]
    /\ UNCHANGED <<subs, mutex, handle>>

(* Mutant: emplace_back() without the mutex. *)
InsertUnlocked(t) ==
    /\ call[t].pc = "insert"
    /\ subs' = Append(subs, [id |-> call[t].id, cb |-> call[t].cb])
    /\ handle' = [handle EXCEPT ![call[t].handle] = call[t].id]
    /\ call' = [call EXCEPT ![t] = Idle]
    /\ ledger' = [ledger EXCEPT !.stands[call[t].handle] = call[t].cb]
    /\ UNCHANGED <<nextId, mutex>>

(* emplace_back() with the mutex, and the Handle that is returned and      *)
(* assigned *)
Insert(t) ==
    /\ call[t].pc = "insert" /\ mutex = NoThread
    /\ subs' = Append(subs, [id |-> call[t].id, cb |-> call[t].cb])
    /\ handle' = [handle EXCEPT ![call[t].handle] = call[t].id]
    /\ call' = [call EXCEPT ![t] = Idle]
    /\ ledger' = [ledger EXCEPT !.stands[call[t].handle] = call[t].cb]
    /\ UNCHANGED <<nextId, mutex>>

(* A Handle is a value and can be copied. *)
CopyHandle(t, from, to) ==
    /\ call[t].pc = "idle" /\ MayUse(from) /\ MayUse(to)
    /\ handle' = [handle EXCEPT ![to] = handle[from]]
    /\ ledger' = [ledger EXCEPT !.stands[to] = ledger.stands[from]]
    /\ UNCHANGED <<nextId, subs, mutex, call>>

-----------------------------------------------------------------------------
(* Unsubscribe and Clear *)

Matches(id) == {i \in 1 .. Len(subs) : subs[i].id = id}

(* find and erase; an invalid handle and one that is not found are left    *)
(* as they are *)
Unsubscribe(t, h) ==
    /\ call[t].pc = "idle" /\ MayUse(h)
    /\ handle[h] # IDMax
    /\ mutex = NoThread
    /\ \E i \in Matches(handle[h]) :
        /\ \A j \in Matches(handle[h]) : i <= j
        /\ subs' = RemoveAt(subs, i)
    /\ handle' = [handle EXCEPT ![h] = IDMax]
    /\ ledger' = [ledger EXCEPT !.removed = @ \cup {ledger.stands[h]}]
    /\ UNCHANGED <<nextId, mutex, call>>

Clear(t) ==
    /\ call[t].pc = "idle"
    /\ mutex = NoThread
    /\ subs' = <<>>
    /\ ledger' = [ledger EXCEPT !.removed = @ \cup Listed]
    /\ UNCHANGED <<nextId, mutex, call, handle>>

-----------------------------------------------------------------------------
(* Notify *)

(* Mutant: the mutex is not kept while the callbacks are called. *)
NotifyUnlocked(t) ==
    /\ call[t].pc = "idle" /\ mutex = NoThread
    /\ call' = [call EXCEPT ![t] = [Idle EXCEPT !.pc = "notify", !.pos = 1]]
    /\ ledger' = [ledger EXCEPT !.list = CallbacksOf(subs), !.called = <<>>]
    /\ UNCHANGED <<nextId, subs, mutex, handle>>

Notify(t) ==
    /\ call[t].pc = "idle" /\ mutex = NoThread
    /\ mutex' = t
    /\ call' = [call EXCEPT ![t] = [Idle EXCEPT !.pc = "notify", !.pos = 1]]
    /\ ledger' = [ledger EXCEPT !.list = CallbacksOf(subs), !.called = <<>>]
    /\ UNCHANGED <<nextId, subs, handle>>

(* sub.cb(args...) begins *)
Invoke(t) ==
    /\ call[t].pc = "notify" /\ call[t].pos <= Len(subs)
    /\ call' = [call EXCEPT ![t].pc = "callback"]
    /\ ledger' = [ledger EXCEPT !.called = Append(@, subs[call[t].pos].cb)]
    /\ UNCHANGED <<nextId, subs, mutex, handle>>

CallbackReturns(t) ==
    /\ call[t].pc = "callback"
    /\ call' = [call EXCEPT ![t].pc = "notify", ![t].pos = @ + 1]
    /\ UNCHANGED <<nextId, subs, mutex, handle, ledger>>

(* Mutant: an exception leaves the mutex locked. *)
CallbackThrowsLocked(t) ==
    /\ call[t].pc = "callback"
    /\ call' = [call EXCEPT ![t] = Idle]
    /\ UNCHANGED <<nextId, subs, mutex, handle, ledger>>

(* The exception leaves Notify; the rest of the list is not called. *)
CallbackThrows(t) ==
    /\ call[t].pc = "callback"
    /\ mutex' = NoThread
    /\ call' = [call EXCEPT ![t] = Idle]
    /\ UNCHANGED <<nextId, subs, handle, ledger>>

NotifyReturns(t) ==
    /\ call[t].pc = "notify" /\ call[t].pos > Len(subs)
    /\ mutex' = NoThread
    /\ call' = [call EXCEPT ![t] = Idle]
    /\ UNCHANGED <<nextId, subs, handle, ledger>>

-----------------------------------------------------------------------------

CBNext == \E t \in Callers :
            \/ \E h \in Handles : \/ Unsubscribe(t, h)
                                  \/ \E cb \in Callbacks : Subscribe(t, cb, h)
                                  \/ \E from \in Handles : CopyHandle(t, from, h)
            \/ Insert(t) \/ Clear(t) \/ Notify(t)
            \/ Invoke(t) \/ CallbackReturns(t) \/ CallbackThrows(t) \/ NotifyReturns(t)

CBSpec == CBInit /\ [][CBNext]_CBvars

(* Threads run and callbacks end; nobody is made to call, and who waits    *)
(* for the mutex while others keep notifying may wait for ever.            *)
CBFairness == \A t \in Callers :
                WF_CBvars(Insert(t) \/ Invoke(t) \/ CallbackReturns(t) \/ NotifyReturns(t))

CBFairSpec == CBSpec /\ CBFairness

-----------------------------------------------------------------------------
(* Properties *)

(* The list holds exactly the callbacks that were inserted and not removed *)
(* by a handle that stands for them or by Clear, each once: ids drawn out  *)
(* of order, copied handles, and handles that survived a Clear never       *)
(* remove somebody else's callback.                                        *)
ExactlySubscribed ==
    LET pending == {call[t].cb : t \in {u \in Callers : call[u].pc = "insert"}}
    IN  /\ Listed = (ledger.subscribed \ pending) \ ledger.removed
        /\ \A i, j \in 1 .. Len(subs) : subs[i].cb = subs[j].cb => i = j

(* After Unsubscribe or Clear has returned the callback is not executing   *)
(* in any thread: what it captured may be destroyed.                       *)
RemovedIsQuiet ==
    \A t \in Callers : call[t].pc = "callback" =>
        /\ Last(ledger.called) \notin ledger.removed
        /\ call[t].pos <= Len(subs) /\ subs[call[t].pos].cb = Last(ledger.called)

(* A Notify calls the callbacks that were subscribed when it began, each   *)
(* once and in the order of subscription, whoever subscribes meanwhile; it *)
(* stops early only when one of them throws.                               *)
NotifiesAllInOrder ==
    [][\A t \in Callers :
          /\ Invoke(t) => IsPrefix(ledger'.called, ledger.list)
          /\ NotifyReturns(t) => ledger.called = ledger.list]_CBvars

(* Every Notify ends and releases the mutex, also when a callback throws.  *)
MutexIsReleased == \A t \in Callers : mutex = t ~> mutex # t /\ call[t].pc = "idle"
=============================================================================
