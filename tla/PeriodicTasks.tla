----------------------------- MODULE PeriodicTasks -----------------------------
(***************************************************************************)
(* What a PeriodicScheduler promises to its users, with its loop thread,   *)
(* its lock, its wakeups, the handles and the queue of the pool left out:  *)
(* which tasks are scheduled and when each of them is due, which of them   *)
(* are queued or executing, and which are being stopped.                   *)
(*                                                                         *)
(* A task is submitted when it is due and its last submission is over, and *)
(* is then due an interval after the time the scheduler has read; a period *)
(* in which it still runs is skipped.  What is stopped is not submitted    *)
(* again, and Stop returns to who waits when the last submission is over.  *)
(*                                                                         *)
(* PeriodicScheduler is shown to implement this module.                    *)
(***************************************************************************)
EXTENDS Naturals

CONSTANT Intervals  \* the intervals tasks are scheduled with

VARIABLES
    clock,     \* Clock::now()
    now,       \* the time the scheduler has read last
    alive,     \* somebody owns the scheduler, or is in a call that does
    issued,    \* the number of tasks that were ever scheduled
    tasks,     \* the tasks that are scheduled
    running,   \* the ids of the tasks that are queued or executing
    stopping   \* the tasks that are stopped by a call that has not returned

vars == <<clock, now, alive, issued, tasks, running, stopping>>

Policies == {"wait", "skip"}  \* kWaitForCompletion, kSkipWait

Init ==
    /\ clock = 0 /\ now = 0
    /\ alive = TRUE
    /\ issued = 0
    /\ tasks = {} /\ running = {} /\ stopping = {}

(* A new task is due at once. *)
Schedule(policy, interval) ==
    /\ alive
    /\ tasks' = tasks \cup {[id |-> issued, policy |-> policy, interval |-> interval, due |-> clock]}
    /\ issued' = issued + 1
    /\ UNCHANGED <<clock, now, alive, running, stopping>>

Look ==
    /\ now' = clock
    /\ UNCHANGED <<clock, alive, issued, tasks, running, stopping>>

(* The next period of t begins an interval after now. *)
PutOff(t) == tasks' = (tasks \ {t}) \cup {[t EXCEPT !.due = now + t.interval]}

Submit(t) ==
    /\ t.due <= now
    /\ t.id \notin running
    /\ running' = running \cup {t.id}
    /\ PutOff(t)
    /\ UNCHANGED <<clock, now, alive, issued, stopping>>

(* The last submission is not over. *)
Skip(t) ==
    /\ t.due <= now
    /\ t.id \in running
    /\ PutOff(t)
    /\ UNCHANGED <<clock, now, alive, issued, running, stopping>>

(* A body has returned or thrown, or the pool was purged. *)
Over ==
    /\ running' \in SUBSET running
    /\ UNCHANGED <<clock, now, alive, issued, tasks, stopping>>

Stop(t) ==
    /\ alive
    /\ tasks' = tasks \ {t}
    /\ stopping' = stopping \cup {[id |-> t.id, policy |-> t.policy]}
    /\ UNCHANGED <<clock, now, alive, issued, running>>

(* Stop() returns true.  It may have been the last to keep the scheduler.   *)
StopReturns(s) ==
    /\ s.policy = "wait" => s.id \notin running
    /\ stopping' = stopping \ {s}
    /\ alive' \in {alive, alive /\ stopping' # {}}
    /\ UNCHANGED <<clock, now, issued, tasks, running>>

(* The last owner lets go, and the destructor begins. *)
Release ==
    /\ stopping = {}
    /\ alive' = FALSE
    /\ UNCHANGED <<clock, now, issued, tasks, running, stopping>>

(* It ends, and the tasks are gone; what is queued in the pool is not.      *)
Destroy ==
    /\ ~alive
    /\ tasks' = {}
    /\ UNCHANGED <<clock, now, alive, issued, running, stopping>>

Tick ==
    /\ clock' = clock + 1
    /\ UNCHANGED <<now, alive, issued, tasks, running, stopping>>

Next ==
    \/ \E policy \in Policies, interval \in Intervals : Schedule(policy, interval)
    \/ \E t \in tasks : Submit(t) \/ Skip(t) \/ Stop(t)
    \/ \E s \in stopping : StopReturns(s)
    \/ Look \/ Over \/ Release \/ Destroy \/ Tick

Spec == Init /\ [][Next]_vars
=============================================================================
