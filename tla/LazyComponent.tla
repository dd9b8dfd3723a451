---------------------------- MODULE LazyComponent ----------------------------
(***************************************************************************)
(* LazyComponent<T>: the value is made by a factory at the first access,   *)
(* under std::call_once, by whichever thread comes first.  The factory may *)
(* throw, and may be called again then.                                    *)
(***************************************************************************)
EXTENDS Naturals

CONSTANTS
    Threads,    \* the threads that use the component
    MaxThrows,  \* bound on the calls of the factory that throw
    Nothing     \* no value

ASSUME LazyAssumption == MaxThrows \in Nat /\ Nothing \notin Nat

VARIABLES
    createdFlag,  \* created_flag_: "unset", "running" or "set"
    value,        \* value_: Nothing, or the number of the call that made it
    user,         \* where each thread is, and what it got last
    calls,        \* history: the number of calls of the factory
    throws        \* history: how many of them threw

LCvars == <<createdFlag, value, user, calls, throws>>

LCTypeOK ==
    /\ createdFlag \in {"unset", "running", "set"}
    /\ value \in Nat \cup {Nothing}
    /\ user \in [Threads -> [pc : {"idle", "once", "factory", "assign", "get"}, got : Nat \cup {Nothing}]]
    /\ calls \in Nat /\ throws \in 0 .. MaxThrows

LCInit ==
    /\ createdFlag = "unset"
    /\ value = Nothing
    /\ user = [t \in Threads |-> [pc |-> "idle", got |-> Nothing]]
    /\ calls = 0 /\ throws = 0

GoTo(t, pc) == user' = [user EXCEPT ![t].pc = pc]

(* Get(), operator-> or operator*, once or again; Init() is the same and  *)
(* drops the pointer. *)
Get(t) ==
    /\ user[t].pc = "idle"
    /\ GoTo(t, "once")
    /\ UNCHANGED <<createdFlag, value, calls, throws>>

(* Mutant: "if (!value_)" in place of call_once. *)
EnterFactoryUnguarded(t) ==
    /\ user[t].pc = "once" /\ value = Nothing
    /\ createdFlag' = "running"
    /\ calls' = calls + 1
    /\ GoTo(t, "factory")
    /\ UNCHANGED <<value, throws>>

(* call_once: one thread executes the function, the others wait. *)
EnterFactory(t) ==
    /\ user[t].pc = "once" /\ createdFlag = "unset"
    /\ createdFlag' = "running"
    /\ calls' = calls + 1
    /\ GoTo(t, "factory")
    /\ UNCHANGED <<value, throws>>

FactoryReturns(t) ==
    /\ user[t].pc = "factory"
    /\ GoTo(t, "assign")
    /\ UNCHANGED <<createdFlag, value, calls, throws>>

(* Mutant: the exception leaves the flag as it is. *)
FactoryThrowsRunning(t) ==
    /\ user[t].pc = "factory" /\ throws < MaxThrows
    /\ throws' = throws + 1
    /\ GoTo(t, "idle")
    /\ UNCHANGED <<createdFlag, value, calls>>

(* The factory, or make_unique, throws: the flag stays unset, and one of   *)
(* the threads that wait is next. *)
FactoryThrows(t) ==
    /\ user[t].pc = "factory" /\ throws < MaxThrows
    /\ createdFlag' = "unset"
    /\ throws' = throws + 1
    /\ GoTo(t, "idle")
    /\ UNCHANGED <<value, calls>>

(* value_ = ...; the flag is set by call_once after that, in one step here *)
(* since only IsInitialized() reads value_ in between. *)
Assign(t) ==
    /\ user[t].pc = "assign"
    /\ value' = calls
    /\ createdFlag' = "set"
    /\ GoTo(t, "get")
    /\ UNCHANGED <<calls, throws>>

PassOnce(t) ==
    /\ user[t].pc = "once" /\ createdFlag = "set"
    /\ GoTo(t, "get")
    /\ UNCHANGED <<createdFlag, value, calls, throws>>

(* return value_.get() *)
ReturnPointer(t) ==
    /\ user[t].pc = "get"
    /\ user' = [user EXCEPT ![t] = [pc |-> "idle", got |-> value]]
    /\ UNCHANGED <<createdFlag, value, calls, throws>>

UserStep(t) == EnterFactory(t) \/ FactoryReturns(t) \/ Assign(t) \/ PassOnce(t) \/ ReturnPointer(t)

LCNext == \E t \in Threads : Get(t) \/ UserStep(t) \/ FactoryThrows(t)

LCSpec == LCInit /\ [][LCNext]_LCvars

(* A thread that has called Get() runs, and the factory ends. *)
LCFairness == \A t \in Threads : WF_LCvars(UserStep(t))

LCFairSpec == LCSpec /\ LCFairness

-----------------------------------------------------------------------------
(* Properties *)

(* However many threads come first and however often the factory throws,   *)
(* one value is made, by the only call of the factory that does not throw; *)
(* every Get() that returns gives a pointer to it, which stays valid.      *)
OneValueForAll ==
    /\ value # Nothing => value = calls /\ calls = throws + 1
    /\ \A t \in Threads : /\ user[t].got # Nothing => user[t].got = value
                          /\ user[t].pc = "get" => value # Nothing

(* Every Get() returns or throws: a factory that throws leaves no thread   *)
(* behind in call_once.                                                    *)
EveryGetEnds == \A t \in Threads : user[t].pc # "idle" ~> user[t].pc = "idle"
=============================================================================
