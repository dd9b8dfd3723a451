------------------------------ MODULE TaskPool ------------------------------
(***************************************************************************)
(* What a BS::thread_pool<BS::tp::none> promises to the code that uses it, *)
(* with its mutex, its condition variables and its counters left out: a    *)
(* FIFO queue of submissions, workers that take from its head, and wait(), *)
(* which returns when nothing is queued and nothing is being executed.     *)
(*                                                                         *)
(* A submission is one call of submit_task(): the queued closure together  *)
(* with the shared state of the future the call returned.  The shared      *)
(* state needs no variable.  It becomes ready when the task body returned  *)
(* or threw (set_value, set_exception), or when the queued closure was     *)
(* purged and its promise destroyed with it (broken promise), hence it is  *)
(* pending exactly while the submission is queued or its body executes.    *)
(*                                                                         *)
(* ThreadPool is shown to implement this module, and PeriodicScheduler     *)
(* uses its actions for the pool it submits to.                            *)
(***************************************************************************)
EXTENDS Naturals, Sequences, SequencesExt

CONSTANTS
    Submission,  \* the submissions
    Workers,     \* the threads of the pool
    Waiters,     \* the threads outside the pool that call wait()
    NoTask       \* what an idle worker executes

VARIABLES
    queue,    \* the queued submissions, oldest first
    active,   \* what each worker holds, and how far its closure got
    waiters   \* the threads inside wait() (FALSE), or wait_for(), wait_until() (TRUE)

vars == <<queue, active, waiters>>

(* A worker's closure is in its "body" until the promise is set, then      *)
(* "closing" until the closure and what it captured have been destroyed.   *)
Slot == [sub : {NoTask}, phase : {"idle"}]
          \cup [sub : Submission, phase : {"body", "closing"}]

IdleSlot == [sub |-> NoTask, phase |-> "idle"]

TypeOK ==
    /\ queue \in Seq(Submission)
    /\ active \in [Workers -> Slot]
    /\ waiters \in SUBSET (Waiters \X BOOLEAN)

Executing(s) == \E w \in Workers : active[w] = [sub |-> s, phase |-> "body"]

(* future.wait_for(0s) == future_status::ready *)
Ready(s) == s \notin Range(queue) /\ ~Executing(s)

(* The condition wait() waits for: no task queued, no worker busy. *)
AllDone == queue = <<>> /\ \A w \in Workers : active[w] = IdleSlot

-----------------------------------------------------------------------------

Init ==
    /\ queue = <<>>
    /\ active = [w \in Workers |-> IdleSlot]
    /\ waiters = {}

Submit(s) ==
    /\ queue' = Append(queue, s)
    /\ UNCHANGED <<active, waiters>>

Start(w) ==
    /\ active[w] = IdleSlot
    /\ queue # <<>>
    /\ active' = [active EXCEPT ![w] = [sub |-> Head(queue), phase |-> "body"]]
    /\ queue' = Tail(queue)
    /\ UNCHANGED waiters

(* The body returns or throws; either way the future becomes ready. *)
Fulfil(w) ==
    /\ active[w].phase = "body"
    /\ active' = [active EXCEPT ![w].phase = "closing"]
    /\ UNCHANGED <<queue, waiters>>

(* The closure is destroyed and the worker asks for the next one. *)
Retire(w) ==
    /\ active[w].phase = "closing"
    /\ active' = [active EXCEPT ![w] = IdleSlot]
    /\ UNCHANGED <<queue, waiters>>

Purge ==
    /\ queue' = <<>>
    /\ UNCHANGED <<active, waiters>>

WaitCall(c, timed) ==
    /\ \A t \in BOOLEAN : <<c, t>> \notin waiters
    /\ waiters' = waiters \cup {<<c, timed>>}
    /\ UNCHANGED <<queue, active>>

(* wait() returns, or a timed wait returns true: only when all is done. *)
WaitReturn(c, timed) ==
    /\ <<c, timed>> \in waiters
    /\ AllDone
    /\ waiters' = waiters \ {<<c, timed>>}
    /\ UNCHANGED <<queue, active>>

(* A timed wait returns false: its time is over and not all is done. *)
WaitTimeout(c) ==
    /\ <<c, TRUE>> \in waiters
    /\ ~AllDone
    /\ waiters' = waiters \ {<<c, TRUE>>}
    /\ UNCHANGED <<queue, active>>

Next ==
    \/ \E s \in Submission : Ready(s) /\ Submit(s)
    \/ \E w \in Workers : Start(w) \/ Fulfil(w) \/ Retire(w)
    \/ Purge
    \/ \E c \in Waiters, timed \in BOOLEAN : WaitCall(c, timed) \/ WaitReturn(c, timed)
    \/ \E c \in Waiters : WaitTimeout(c)

Spec == Init /\ [][Next]_vars
=============================================================================
