-------------------------- MODULE PeriodicScheduler --------------------------
(***************************************************************************)
(* PeriodicSchedulerImpl<Clock>: tasks that a loop thread submits to a     *)
(* thread pool every interval, and the TaskHandles that stop them.         *)
(*                                                                         *)
(* Three kinds of thread act here: the clients, which schedule, stop, move *)
(* and destroy handles and own the scheduler through shared_ptrs; the      *)
(* loop thread; and the workers of the pool, whose task bodies may stop a  *)
(* handle themselves.  mtx_ is held over several steps only by the loop    *)
(* while it scans the tasks; every other critical section is one action.   *)
(***************************************************************************)
EXTENDS Naturals, Sequences, SequencesExt

CONSTANTS
    Clients,           \* threads that use the scheduler through a shared_ptr
    Workers,           \* threads of the pool
    Handles,           \* TaskHandle objects
    Intervals,         \* the intervals tasks are scheduled with
    BodyStopPolicies,  \* the policies of the tasks that a task body may stop
    TaskIDMax,         \* kTaskIDMax, the id of an invalid handle; bounds the tasks
    MaxTime,           \* bound on the clock
    TimePointMax,      \* TimePoint::max()
    NoTask,            \* what an idle worker executes
    NoHandle           \* the source of a call that is not a move assignment

Policies == {"wait", "skip"}  \* kWaitForCompletion, kSkipWait

ASSUME SchedulerAssumption ==
    /\ Clients # {} /\ Clients \cap Workers = {}
    /\ Intervals \subseteq Nat
    /\ BodyStopPolicies \subseteq Policies
    /\ TaskIDMax \in Nat
    /\ MaxTime \in Nat
    /\ TimePointMax \in Nat
    /\ \A interval \in Intervals : MaxTime + interval < TimePointMax
    /\ NoTask \notin Nat \X Nat
    /\ NoHandle \notin Handles

VARIABLES
    queue, active,  \* the pool (see TaskPool)
    tasks,          \* tasks_
    taskCounter,    \* task_counter_
    clock,          \* Clock::now()
    loopPc,         \* where ScheduleLoop is
    asleep,         \* the loop thread sleeps on cv_
    loopNow, wakeAt, scanIdx, idSeen,  \* locals of ScheduleLoop
    stopRequested,  \* the stop state of worker_
    owners,         \* the clients that hold a shared_ptr to the scheduler
    handle,         \* id_ of each TaskHandle
    call,           \* the call each client and each task body is in
    ledger          \* history: what became of every id that was given out

poolVars  == <<queue, active>>
loopVars  == <<loopPc, loopNow, wakeAt, scanIdx, idSeen>>
vars      == <<queue, active, tasks, taskCounter, clock, loopPc, asleep, loopNow,
               wakeAt, scanIdx, idSeen, stopRequested, owners, handle, call, ledger>>

Submission == Nat \X Nat  \* <<id, n>>: the n-th submission of task id

Pool == INSTANCE TaskPool WITH Waiters <- {}, waiters <- {}

Actors  == Clients \cup Workers
TaskIDs == 0 .. TaskIDMax - 1
NoID    == TaskIDMax

(* promise is the number of the task's last submission; 0 is a default     *)
(* constructed future, for which valid() is false.                         *)
Task == [id : TaskIDs, stop_policy : Policies, interval : Intervals,
         promise : Nat, next_execution : Nat]

NoCall == [op |-> "none", pc |-> "idle", handle |-> NoHandle, source |-> NoHandle,
           id |-> NoID, promise |-> 0]

Call ==
    {c \in [op : {"none", "schedule", "stop", "destroy", "move", "release"},
            pc : {"idle", "notify", "erase", "wait", "finish", "requestStop", "join", "return"},
            handle : Handles \cup {NoHandle}, source : Handles \cup {NoHandle},
            id : TaskIDs \cup {NoID}, promise : Nat] :
       c.op = "move" <=> c.source \in Handles}

(* policy is the policy the id was scheduled with, outcome what the last   *)
(* TaskHandle::Stop for it did, lastSubmit the scan time of its last       *)
(* submission.                                                             *)
LedgerEntry == [policy : Policies \cup {"none"},
                outcome : {"none", "stopped", "expired"},
                submitted : BOOLEAN, lastSubmit : Nat]

TypeOK ==
    /\ Pool!TypeOK
    /\ tasks \in Seq(Task)
    /\ taskCounter \in 0 .. TaskIDMax
    /\ clock \in 0 .. MaxTime
    /\ loopPc \in {"top", "lock", "idleWait", "scan", "timedWait", "exited"}
    /\ asleep \in BOOLEAN
    /\ loopNow \in Nat /\ wakeAt \in Nat /\ scanIdx \in Nat \ {0} /\ idSeen \in Nat
    /\ stopRequested \in BOOLEAN
    /\ owners \subseteq Clients
    /\ handle \in [Handles -> TaskIDs \cup {NoID}]
    /\ call \in [Actors -> Call]
    /\ ledger \in [TaskIDs -> LedgerEntry]

Init ==
    /\ Pool!Init
    /\ tasks = <<>>
    /\ taskCounter = 0
    /\ clock = 0
    /\ loopPc = "top"
    /\ asleep = FALSE
    /\ loopNow = 0 /\ wakeAt = TimePointMax /\ scanIdx = 1 /\ idSeen = 0
    /\ stopRequested = FALSE
    /\ owners = Clients
    /\ handle = [h \in Handles |-> NoID]
    /\ call = [a \in Actors |-> NoCall]
    /\ ledger = [id \in TaskIDs |-> [policy |-> "none", outcome |-> "none",
                                     submitted |-> FALSE, lastSubmit |-> 0]]

-----------------------------------------------------------------------------

MtxFree == loopPc # "scan"

(* The actors that hold the shared_ptr weak_ptr::lock() returned in Stop.  *)
Locked == {a \in Actors : call[a].pc \in {"erase", "wait", "finish"}}

(* The use count is not zero: weak_ptr::lock() succeeds. *)
Alive == owners # {} \/ Locked # {}

(* Mutant: a submission still in the queue does not count as running. *)
RunningIfStarted(task) == task.promise # 0 /\ Pool!Executing(<<task.id, task.promise>>)

(* A future of the task is valid and not ready. *)
Running(task) == task.promise # 0 /\ ~Pool!Ready(<<task.id, task.promise>>)

(* No call is using h, unless it is the Stop that waits for the very body  *)
(* that actor a executes: only then is a second call on h free of a race.  *)
MayUse(a, h) ==
    \A b \in Actors : call[b].handle = h \/ call[b].source = h =>
        /\ call[b].pc = "wait"
        /\ a \in Workers
        /\ active[a].sub = <<call[b].id, call[b].promise>>

-----------------------------------------------------------------------------
(* Schedule *)

Schedule(c, h, policy, interval) ==
    /\ call[c] = NoCall /\ c \in owners
    /\ handle[h] = NoID /\ MayUse(c, h)
    /\ MtxFree
    /\ taskCounter < TaskIDMax
    /\ tasks' = Append(tasks, [id |-> taskCounter, stop_policy |-> policy,
                               interval |-> interval, promise |-> 0,
                               next_execution |-> clock])
    /\ taskCounter' = taskCounter + 1
    /\ ledger' = [ledger EXCEPT ![taskCounter].policy = policy]
    /\ call' = [call EXCEPT ![c] = [NoCall EXCEPT !.op = "schedule", !.pc = "notify",
                                                  !.handle = h, !.id = taskCounter]]
    /\ UNCHANGED <<poolVars, clock, loopVars, asleep, stopRequested, owners, handle>>

(* Mutant: the loop is not notified. *)
ScheduleSilently(c) ==
    /\ call[c].pc = "notify"
    /\ handle' = [handle EXCEPT ![call[c].handle] = call[c].id]
    /\ call' = [call EXCEPT ![c] = NoCall]
    /\ UNCHANGED <<poolVars, tasks, taskCounter, clock, loopVars, asleep, stopRequested,
                   owners, ledger>>

(* cv_.notify_all() after the unlock, and the handle is returned. *)
ScheduleNotify(c) ==
    /\ call[c].pc = "notify"
    /\ asleep' = FALSE
    /\ handle' = [handle EXCEPT ![call[c].handle] = call[c].id]
    /\ call' = [call EXCEPT ![c] = NoCall]
    /\ UNCHANGED <<poolVars, tasks, taskCounter, clock, loopVars, stopRequested, owners,
                   ledger>>

-----------------------------------------------------------------------------
(* TaskHandle::Stop, called by itself, by ~TaskHandle and by move assignment *)

(* The pc after the last step of an actor that drops its shared_ptr: the   *)
(* one that drops the last also runs the scheduler's destructor.           *)
PcAfterDrop(a) == IF owners = {} /\ Locked = {a} THEN "requestStop" ELSE "return"

(* IsValid() and scheduler_.lock().  An operation that would leave an      *)
(* invalid handle invalid does nothing and is left out.                    *)
StopCall(a, op, h, src) ==
    /\ call[a] = NoCall
    /\ MayUse(a, h)
    /\ src # NoHandle => MayUse(a, src)
    /\ LET valid == handle[h] # NoID
       IN  /\ valid \/ (op = "move" /\ handle[src] # NoID)
           /\ call' = [call EXCEPT ![a] =
                         [NoCall EXCEPT !.op = op, !.handle = h, !.source = src,
                                        !.id = handle[h],
                                        !.pc = IF valid /\ Alive THEN "erase" ELSE "return"]]
           /\ ledger' = IF valid /\ ~Alive
                        THEN [ledger EXCEPT ![handle[h]].outcome = "expired"]
                        ELSE ledger
    /\ UNCHANGED <<poolVars, tasks, taskCounter, clock, loopVars, asleep, stopRequested,
                   owners, handle>>

ClientStop(c) ==
    \E h \in Handles :
        \/ \E op \in {"stop", "destroy"} : StopCall(c, op, h, NoHandle)
        \/ \E src \in Handles \ {h} : StopCall(c, "move", h, src)

(* A task body stops a handle. *)
BodyStop(w) ==
    /\ active[w].phase = "body"
    /\ \E h \in Handles :
        /\ handle[h] # NoID
        /\ ledger[handle[h]].policy \in BodyStopPolicies
        /\ StopCall(w, "stop", h, NoHandle)

Indices(id) == {i \in 1 .. Len(tasks) : tasks[i].id = id}

(* Mutant: pop_back() without moving the last task into the place of i. *)
WithoutLast(i) == RemoveAt(tasks, Len(tasks))

(* tasks_.erase(it) *)
WithoutTask(i) == RemoveAt(tasks, i)

(* StopTask: the task is moved out of tasks_ under the lock. *)
EraseTask(a) ==
    /\ call[a].pc = "erase"
    /\ MtxFree
    /\ \E i \in Indices(call[a].id) :
        LET waits == tasks[i].stop_policy = "wait" /\ tasks[i].promise # 0
        IN  /\ tasks' = WithoutTask(i)
            /\ call' = [call EXCEPT ![a].pc = IF waits THEN "wait" ELSE "finish",
                                    ![a].promise = tasks[i].promise]
    /\ UNCHANGED <<poolVars, taskCounter, clock, loopVars, asleep, stopRequested, owners,
                   handle, ledger>>

(* StopTask does not find the task; Stop invalidates the handle and returns false. *)
EraseMissing(a) ==
    /\ call[a].pc = "erase"
    /\ MtxFree
    /\ Indices(call[a].id) = {}
    /\ handle' = [handle EXCEPT ![call[a].handle] = NoID]
    /\ call' = [call EXCEPT ![a].pc = PcAfterDrop(a)]
    /\ UNCHANGED <<poolVars, tasks, taskCounter, clock, loopVars, asleep, stopRequested,
                   owners, ledger>>

(* Mutant: a timed wait that gives up. *)
WaitAtMost(a) ==
    /\ call[a].pc = "wait"
    /\ call' = [call EXCEPT ![a].pc = "finish"]
    /\ UNCHANGED <<poolVars, tasks, taskCounter, clock, loopVars, asleep, stopRequested,
                   owners, handle, ledger>>

(* task.promise.wait() *)
WaitForCompletion(a) ==
    /\ call[a].pc = "wait"
    /\ Pool!Ready(<<call[a].id, call[a].promise>>)
    /\ call' = [call EXCEPT ![a].pc = "finish"]
    /\ UNCHANGED <<poolVars, tasks, taskCounter, clock, loopVars, asleep, stopRequested,
                   owners, handle, ledger>>

(* handle.Reset(), and Stop returns true *)
FinishStop(a) ==
    /\ call[a].pc = "finish"
    /\ handle' = [handle EXCEPT ![call[a].handle] = NoID]
    /\ ledger' = [ledger EXCEPT ![call[a].id].outcome = "stopped"]
    /\ call' = [call EXCEPT ![a].pc = PcAfterDrop(a)]
    /\ UNCHANGED <<poolVars, tasks, taskCounter, clock, loopVars, asleep, stopRequested,
                   owners>>

(* Mutant: move assignment copies the id and leaves it in the source. *)
ReturnCopying(a) ==
    /\ call[a].pc = "return"
    /\ handle' = CASE call[a].op = "move" ->
                           [handle EXCEPT ![call[a].handle] = handle[call[a].source]]
                    [] call[a].op = "destroy" -> [handle EXCEPT ![call[a].handle] = NoID]
                    [] OTHER -> handle
    /\ call' = [call EXCEPT ![a] = NoCall]
    /\ UNCHANGED <<poolVars, tasks, taskCounter, clock, loopVars, asleep, stopRequested,
                   owners, ledger>>

(* The rest of the operation that called Stop. *)
Return(a) ==
    /\ call[a].pc = "return"
    /\ LET h == call[a].handle
           src == call[a].source
       IN  handle' = CASE call[a].op = "move" ->
                              [handle EXCEPT ![h] = handle[src], ![src] = NoID]
                       [] call[a].op = "destroy" -> [handle EXCEPT ![h] = NoID]
                       [] OTHER -> handle
    /\ call' = [call EXCEPT ![a] = NoCall]
    /\ UNCHANGED <<poolVars, tasks, taskCounter, clock, loopVars, asleep, stopRequested,
                   owners, ledger>>

-----------------------------------------------------------------------------
(* The scheduler's destructor: worker_ is stopped and joined, then tasks_ *)
(* is destroyed.                                                           *)

ReleaseOwner(c) ==
    /\ call[c] = NoCall
    /\ c \in owners
    /\ owners' = owners \ {c}
    /\ call' = IF owners = {c} /\ Locked = {}
               THEN [call EXCEPT ![c] = [NoCall EXCEPT !.op = "release", !.pc = "requestStop"]]
               ELSE call
    /\ UNCHANGED <<poolVars, tasks, taskCounter, clock, loopVars, asleep, stopRequested,
                   handle, ledger>>

RequestStop(a) ==
    /\ call[a].pc = "requestStop"
    /\ stopRequested' = TRUE
    /\ asleep' = FALSE
    /\ call' = [call EXCEPT ![a].pc = "join"]
    /\ UNCHANGED <<poolVars, tasks, taskCounter, clock, loopVars, owners, handle, ledger>>

Join(a) ==
    /\ call[a].pc = "join"
    /\ loopPc = "exited"
    /\ tasks' = <<>>
    /\ call' = [call EXCEPT ![a].pc = "return"]
    /\ UNCHANGED <<poolVars, taskCounter, clock, loopVars, asleep, stopRequested, owners,
                   handle, ledger>>

-----------------------------------------------------------------------------
(* ScheduleLoop *)

loopElse == <<taskCounter, clock, stopRequested, owners, handle, call>>

LoopTop ==
    /\ loopPc = "top"
    /\ loopPc' = IF stopRequested THEN "exited" ELSE "lock"
    /\ UNCHANGED <<poolVars, tasks, asleep, loopNow, wakeAt, scanIdx, idSeen, ledger, loopElse>>

(* Mutant: cv_.wait(lock, ...), which does not know of the stop token. *)
EnterIdleWaitNoToken ==
    /\ loopPc = "lock"
    /\ tasks = <<>>
    /\ loopPc' = "idleWait"
    /\ asleep' = TRUE
    /\ UNCHANGED <<poolVars, tasks, loopNow, wakeAt, scanIdx, idSeen, ledger, loopElse>>

(* cv_.wait(lock, stoken, ...) on an empty tasks_: it returns at once when *)
(* a stop was requested.                                                   *)
EnterIdleWait ==
    /\ loopPc = "lock"
    /\ tasks = <<>>
    /\ loopPc' = IF stopRequested THEN "top" ELSE "idleWait"
    /\ asleep' = ~stopRequested
    /\ UNCHANGED <<poolVars, tasks, loopNow, wakeAt, scanIdx, idSeen, ledger, loopElse>>

LeaveIdleWait ==
    /\ loopPc = "idleWait"
    /\ ~asleep
    /\ tasks # <<>> \/ stopRequested
    /\ loopPc' = "top"
    /\ UNCHANGED <<poolVars, tasks, asleep, loopNow, wakeAt, scanIdx, idSeen, ledger, loopElse>>

EnterScan ==
    /\ loopPc = "lock"
    /\ tasks # <<>>
    /\ loopPc' = "scan"
    /\ loopNow' = clock
    /\ wakeAt' = TimePointMax
    /\ scanIdx' = 1
    /\ UNCHANGED <<poolVars, tasks, asleep, idSeen, ledger, loopElse>>

(* Mutant: the wake time of the task that is scanned last. *)
LastOf(m, n) == n

Lesser(m, n) == IF m < n THEN m ELSE n

(* Mutants: on the grid of the first execution, catching up after a late   *)
(* scan; and with the wrong sign.                                          *)
NextOnGrid(task)  == task.next_execution + task.interval
NextInPast(task)  == loopNow - task.interval

(* now + task.interval: from the time of this scan, run or not. *)
NextExecution(task) == loopNow + task.interval

(* The task the loop looks at becomes task; on to the next one. *)
ScanAs(task) ==
    /\ tasks' = [tasks EXCEPT ![scanIdx] = task]
    /\ wakeAt' = Lesser(wakeAt, task.next_execution)
    /\ scanIdx' = scanIdx + 1
    /\ UNCHANGED <<loopPc, loopNow, idSeen, asleep, loopElse>>

Scanning == loopPc = "scan" /\ scanIdx <= Len(tasks)

Due(task) == loopNow >= task.next_execution

ScanNotDue ==
    /\ Scanning
    /\ ~Due(tasks[scanIdx])
    /\ ScanAs(tasks[scanIdx])
    /\ UNCHANGED <<poolVars, ledger>>

(* The last submission is not ready: this period is skipped. *)
ScanRunning ==
    /\ Scanning
    /\ Due(tasks[scanIdx])
    /\ Running(tasks[scanIdx])
    /\ ScanAs([tasks[scanIdx] EXCEPT !.next_execution = NextExecution(tasks[scanIdx])])
    /\ UNCHANGED <<poolVars, ledger>>

ScanSubmit ==
    /\ Scanning
    /\ LET task == tasks[scanIdx]
       IN  /\ Due(task)
           /\ ~Running(task)
           /\ Pool!Submit(<<task.id, task.promise + 1>>)
           /\ ScanAs([task EXCEPT !.promise = task.promise + 1,
                                  !.next_execution = NextExecution(task)])
           /\ ledger' = [ledger EXCEPT ![task.id].submitted = TRUE,
                                       ![task.id].lastSubmit = loopNow]

(* Mutant: cv_.wait_until(lock, ...), which does not know of the stop token. *)
EnterTimedWaitNoToken ==
    /\ loopPc = "scan"
    /\ scanIdx > Len(tasks)
    /\ idSeen' = taskCounter
    /\ loopPc' = "timedWait"
    /\ asleep' = TRUE
    /\ UNCHANGED <<poolVars, tasks, loopNow, wakeAt, scanIdx, ledger, loopElse>>

(* cv_.wait_until(lock, stoken, next_wake_time, ...) *)
EnterTimedWait ==
    /\ loopPc = "scan"
    /\ scanIdx > Len(tasks)
    /\ idSeen' = taskCounter
    /\ loopPc' = IF stopRequested THEN "top" ELSE "timedWait"
    /\ asleep' = ~stopRequested
    /\ UNCHANGED <<poolVars, tasks, loopNow, wakeAt, scanIdx, ledger, loopElse>>

LeaveTimedWait ==
    /\ loopPc = "timedWait"
    /\ clock >= wakeAt \/ (~asleep /\ (idSeen < taskCounter \/ stopRequested))
    /\ loopPc' = "top"
    /\ asleep' = FALSE
    /\ UNCHANGED <<poolVars, tasks, loopNow, wakeAt, scanIdx, idSeen, ledger, loopElse>>

(* Woken without a reason to go on, the loop waits again. *)
WaitAgain ==
    /\ ~asleep
    /\ \/ loopPc = "idleWait" /\ tasks = <<>> /\ ~stopRequested
       \/ loopPc = "timedWait" /\ clock < wakeAt /\ idSeen >= taskCounter /\ ~stopRequested
    /\ asleep' = TRUE
    /\ UNCHANGED <<poolVars, tasks, loopVars, ledger, loopElse>>

SpuriousWakeup ==
    /\ asleep
    /\ asleep' = FALSE
    /\ UNCHANGED <<poolVars, tasks, loopVars, ledger, loopElse>>

LoopStep == \/ LoopTop \/ EnterIdleWait \/ LeaveIdleWait \/ EnterScan
            \/ ScanNotDue \/ ScanRunning \/ ScanSubmit
            \/ EnterTimedWait \/ LeaveTimedWait \/ WaitAgain

-----------------------------------------------------------------------------
(* The pool, its other users and the clock *)

schedulerVars == <<tasks, taskCounter, clock, loopVars, asleep, stopRequested, owners,
                   handle, call, ledger>>

(* A task body ends only when the call it makes has returned. *)
WorkerStep(w) ==
    /\ \/ Pool!Start(w)
       \/ call[w] = NoCall /\ Pool!Fulfil(w)
       \/ Pool!Retire(w)
    /\ UNCHANGED schedulerVars

(* Somebody calls purge() on the pool. *)
PurgePool ==
    /\ queue # <<>>
    /\ Pool!Purge
    /\ UNCHANGED schedulerVars

Tick ==
    /\ clock < MaxTime
    /\ clock' = clock + 1
    /\ UNCHANGED <<poolVars, tasks, taskCounter, loopVars, asleep, stopRequested, owners,
                   handle, call, ledger>>

(* The steps of a call that has begun. *)
CallStep(a) == \/ ScheduleNotify(a)
               \/ EraseTask(a) \/ EraseMissing(a) \/ WaitForCompletion(a) \/ FinishStop(a)
               \/ RequestStop(a) \/ Join(a) \/ Return(a)

NewCall == \/ \E c \in Clients, h \in Handles, policy \in Policies, interval \in Intervals :
                  Schedule(c, h, policy, interval)
           \/ \E c \in Clients : ClientStop(c) \/ ReleaseOwner(c)
           \/ \E w \in Workers : BodyStop(w)

Next == \/ NewCall
        \/ \E a \in Actors : CallStep(a)
        \/ LoopStep
        \/ SpuriousWakeup
        \/ \E w \in Workers : WorkerStep(w)
        \/ PurgePool
        \/ Tick

Spec == Init /\ [][Next]_vars

(* The threads are scheduled, task bodies end and time passes; nothing     *)
(* makes anybody call.                                                     *)
Fairness == /\ WF_vars(LoopStep)
            /\ \A a \in Actors : WF_vars(CallStep(a))
            /\ \A w \in Workers : WF_vars(WorkerStep(w))
            /\ WF_vars(Tick)

FairSpec == Spec /\ Fairness

-----------------------------------------------------------------------------
(* Properties *)

QueuedFor(id)   == {i \in 1 .. Len(queue) : queue[i][1] = id}
ExecutedBy(id)  == {w \in Workers : active[w].phase = "body" /\ active[w].sub[1] = id}
Pending(id)     == {queue[k] : k \in QueuedFor(id)} \cup {active[w].sub : w \in ExecutedBy(id)}
Quiet(id)       == Pending(id) = {}

(* A task never overlaps itself: of all its submissions at most one is     *)
(* queued or executing, also after it was stopped without waiting.  (The   *)
(* is_running test of ScheduleLoop.)                                       *)
NoOverlap ==
    \A id \in TaskIDs :
        /\ \A i, j \in QueuedFor(id) : i = j
        /\ \A v, w \in ExecutedBy(id) : v = w
        /\ QueuedFor(id) = {} \/ ExecutedBy(id) = {}

(* What makes NoOverlap inductive: the ids in tasks_ are different and, as *)
(* those in the pool, have been given out; and whatever is pending of a    *)
(* task in tasks_ is the submission its future belongs to, so that the     *)
(* is_running test cannot overlook an older one.                           *)
IdsUnique == \A i, j \in 1 .. Len(tasks) : tasks[i].id = tasks[j].id => i = j

IdsIssued ==
    /\ \A i \in 1 .. Len(tasks) : tasks[i].id < taskCounter
    /\ \A i \in 1 .. Len(queue) : queue[i][1] < taskCounter
    /\ \A w \in Workers : active[w].phase = "body" => active[w].sub[1] < taskCounter

PendingIsLast ==
    \A i \in 1 .. Len(tasks) :
        /\ \A k \in QueuedFor(tasks[i].id) :
              tasks[i].promise # 0 /\ queue[k] = <<tasks[i].id, tasks[i].promise>>
        /\ \A w \in ExecutedBy(tasks[i].id) :
              tasks[i].promise # 0 /\ active[w].sub = <<tasks[i].id, tasks[i].promise>>

OverlapInv == TypeOK /\ IdsUnique /\ IdsIssued /\ PendingIsLast /\ NoOverlap

(* Once Stop returned true for a task with kWaitForCompletion, nothing of  *)
(* the task is queued or executing, then or later.  (StopTask erases the   *)
(* task before it waits, against a loop that may be submitting it.)        *)
StoppedIsQuiet ==
    \A id \in TaskIDs :
        ledger[id].policy = "wait" /\ ledger[id].outcome = "stopped" => Quiet(id)

(* What makes StoppedIsQuiet inductive: once StopTask has erased a task,   *)
(* it is not in tasks_ again, and whatever is pending of it is the         *)
(* submission whose future StopTask holds, and waits for.                  *)
Erased(id) == id < taskCounter /\ Indices(id) = {}

HoldsLast(a) ==
    /\ Erased(call[a].id)
    /\ Pending(call[a].id) \subseteq {<<call[a].id, call[a].promise>>}
    /\ call[a].pc = "finish" /\ ledger[call[a].id].policy = "wait" => Quiet(call[a].id)

ErasedStaysErased ==
    /\ \A i \in 1 .. Len(tasks) : tasks[i].stop_policy = ledger[tasks[i].id].policy
    /\ \A id \in TaskIDs : ledger[id].outcome = "stopped" => Erased(id)
    /\ \A a \in Actors : call[a].pc \in {"wait", "finish"} => HoldsLast(a)

StopInv == OverlapInv /\ ErasedStaysErased /\ StoppedIsQuiet

(* The loop never sleeps past work: while it sleeps on an empty tasks_ or  *)
(* until wakeAt, a task that is due earlier was added by a Schedule whose  *)
(* notify_all is still to come; and it never sleeps through a stop.        *)
NoMissedWakeup ==
    asleep =>
        /\ ~stopRequested
        /\ \/ \E c \in Clients : call[c].pc = "notify"
           \/ \A i \in 1 .. Len(tasks) :
                  loopPc = "timedWait" /\ wakeAt <= tasks[i].next_execution

(* While the scheduler lives, every task it holds can be stopped through   *)
(* exactly one handle, or is on its way to one; and every valid handle has *)
(* its task, or is being stopped.  (Move construction and assignment.)     *)
HandlesMatchTasks ==
    Alive =>
        /\ \A i \in 1 .. Len(tasks) :
              LET holders == {h \in Handles : handle[h] = tasks[i].id}
                  calls   == {c \in Clients : call[c].pc = "notify" /\ call[c].id = tasks[i].id}
              IN  \/ calls = {} /\ \E h \in Handles : holders = {h}
                  \/ holders = {} /\ \E c \in Clients : calls = {c}
        /\ \A h \in Handles : handle[h] # NoID =>
              \/ Indices(handle[h]) # {}
              \/ \E a \in Locked : call[a].handle = h /\ call[a].id = handle[h]

(* What makes NoMissedWakeup inductive: the loop sleeps only where it      *)
(* waits; the wake time is not after the next execution of the tasks the   *)
(* scan has passed, nor, during the timed wait, of those that were there   *)
(* when it began, which are those with an id below idSeen.                 *)
WakesInTime ==
    /\ asleep => loopPc \in {"idleWait", "timedWait"}
    /\ loopPc = "scan" =>
         \A i \in 1 .. Len(tasks) : i < scanIdx => wakeAt <= tasks[i].next_execution
    /\ loopPc = "timedWait" =>
         /\ idSeen <= taskCounter
         /\ \A i \in 1 .. Len(tasks) : tasks[i].id < idSeen => wakeAt <= tasks[i].next_execution

(* What makes HandlesMatchTasks inductive: no id is on two handles; a call *)
(* finds on its handles what it left there; and two calls use one handle   *)
(* only when one waits for the task body that makes the other.             *)
Uses(a, h) == call[a].handle = h \/ call[a].source = h

WaitsForBody(a, b) ==
    /\ call[a].pc = "wait"
    /\ b \in Workers
    /\ active[b].phase = "body" /\ active[b].sub = <<call[a].id, call[a].promise>>

HandlesHold ==
    /\ \A h \in Handles : handle[h] # NoID => handle[h] < taskCounter
    /\ \A g, h \in Handles : handle[g] = handle[h] /\ handle[h] # NoID => g = h

CallHolds(a) ==
    LET h == call[a].handle
    IN  /\ call[a].pc = "notify" => /\ a \in Clients /\ h \in Handles /\ handle[h] = NoID
                                    /\ call[a].id \in TaskIDs /\ Indices(call[a].id) # {}
        /\ call[a].pc = "erase" => h \in Handles /\ handle[h] = call[a].id
        /\ call[a].pc \in {"wait", "finish"} => h \in Handles /\ handle[h] \in {call[a].id, NoID}
        /\ call[a].pc = "return" /\ call[a].op \in {"move", "destroy"} =>
             h \in Handles /\ handle[h] = NoID
        /\ call[a].pc \notin {"requestStop", "join"}
        /\ call[a].op = "move" => a \in Clients /\ call[a].source # h
        /\ a \in Workers => call[a].op \in {"none", "stop"}

UsesShared ==
    \A a, b \in Actors, h \in Handles :
        a # b /\ Uses(a, h) /\ Uses(b, h) => WaitsForBody(a, b) \/ WaitsForBody(b, a)

CallsHold == HandlesHold /\ UsesShared /\ \A a \in Actors : CallHolds(a)

(* What makes SubmissionsSpaced inductive: a task that was submitted is    *)
(* not due before its interval has passed; an id that was not given out    *)
(* was not submitted.                                                      *)
PeriodsKept ==
    /\ \A i \in 1 .. Len(tasks) :
         LET entry == ledger[tasks[i].id]
         IN  entry.submitted => entry.lastSubmit + tasks[i].interval <= tasks[i].next_execution
    /\ \A id \in TaskIDs : taskCounter <= id => ~ledger[id].submitted

(* What makes the refinement of PeriodicTasks inductive: of the calls that  *)
(* stop a task, one gets hold of it.                                       *)
StopsDiffer ==
    \A a, b \in Actors :
        /\ call[a].pc \in {"wait", "finish"} /\ call[b].pc \in {"wait", "finish"}
        /\ call[a].id = call[b].id
        => a = b

SchedulerInv == /\ StopInv /\ StopsDiffer
                /\ WakesInTime /\ NoMissedWakeup
                /\ PeriodsKept
                /\ Alive => HandlesMatchTasks /\ CallsHold

SubmittedNow(id) == Len(queue') > Len(queue) /\ Last(queue')[1] = id

(* Two submissions of a task are at least its interval apart, in the time  *)
(* of the scans that made them: a late scan never catches up.              *)
SubmissionsSpaced ==
    [][\A i \in 1 .. Len(tasks) :
         LET entry == ledger[tasks[i].id]
         IN  SubmittedNow(tasks[i].id) /\ entry.submitted
                 => loopNow >= entry.lastSubmit + tasks[i].interval]_vars

(* A stopped task is never submitted again, whatever its policy.           *)
NeverSubmittedAgain ==
    [][\A id \in TaskIDs : ledger[id].outcome = "stopped" => ~SubmittedNow(id)]_vars

(* What the scheduler promises: tasks, their times and the calls that stop *)
(* them, whatever the loop, the handles and the pool do to get there.      *)
Promised(task) == [id |-> task.id, policy |-> task.stop_policy, interval |-> task.interval,
                   due |-> task.next_execution]

Held     == {Promised(tasks[i]) : i \in 1 .. Len(tasks)}
Unready  == {id \in TaskIDs : ~Quiet(id)}
Stoppers == {a \in Actors : call[a].pc \in {"wait", "finish"}}
Stopping == {[id |-> call[a].id, policy |-> ledger[call[a].id].policy] : a \in Stoppers}

Abstract == INSTANCE PeriodicTasks WITH
    now <- loopNow, alive <- Alive, issued <- taskCounter, tasks <- Held, running <- Unready,
    stopping <- Stopping

(* PeriodicScheduler implements PeriodicTasks.                             *)
ImplementsPeriodicTasks == Abstract!Spec

DueID(id) == \E i \in Indices(id) : clock >= tasks[i].next_execution

(* A task that is due is submitted, skipped because it still runs, or      *)
(* removed; in particular every task runs a first time.                    *)
DueIsServed == \A id \in TaskIDs : DueID(id) ~> ~DueID(id)

(* Stop, the handle's destructor and the scheduler's destructor return.    *)
CallsReturn == \A a \in Actors : call[a].pc # "idle" ~> call[a].pc = "idle"

(* Neither the tasks nor the callers wait for ever.                        *)
SchedulerIsLive == DueIsServed /\ CallsReturn
=============================================================================
