----------------------------- MODULE ThreadPool -----------------------------
(***************************************************************************)
(* BS::thread_pool as it is compiled here: std::jthread, std::stop_token   *)
(* and condition variables that know of the token.  Every critical section *)
(* under tasks_mutex is one action; a notification sent after the unlock   *)
(* is an action of its own.  A condition variable is the set of threads    *)
(* that sleep on it: the workers with pc "asleep" for task_available_cv,   *)
(* the clients with pc "asleep" for tasks_done_cv.  A notified thread is   *)
(* "awake" until it has the mutex again and evaluates its predicate.       *)
(***************************************************************************)
EXTENDS Naturals, Sequences, FiniteSets, SequencesExt

CONSTANTS
    Submission,    \* the submissions
    Workers,       \* the threads the pool may have
    Clients,       \* the threads outside the pool
    Owner,         \* the client that resets and destroys the pool
    Uses,          \* the pools: the flag BS::tp::pause, and the operations each client uses
    NoTask         \* what an idle worker executes

Operations == {"submit", "wait", "wait_for", "purge", "pause", "unpause", "reset", "destroy"}

ASSUME PoolAssumption ==
    /\ IsFiniteSet(Workers) /\ IsFiniteSet(Clients)
    /\ Workers \cap Clients = {}
    /\ Owner \in Clients
    /\ Uses \subseteq [pause : BOOLEAN, may : [Clients -> SUBSET Operations]]
    /\ \A u \in Uses : \A c \in Clients :
          /\ c # Owner => u.may[c] \cap {"reset", "destroy"} = {}
          /\ ~u.pause => u.may[c] \cap {"pause", "unpause"} = {}
    /\ NoTask \notin Submission

VARIABLES
    use,           \* the pool of this behaviour, and who calls what
    tasks,         \* tasks
    tasksRunning,  \* tasks_running
    waiting,       \* waiting
    paused,        \* paused
    threads,       \* the workers the array threads holds
    stopped,       \* the workers whose stop_source got request_stop()
    worker,        \* where each worker is, and what it executes
    client,        \* the call each client is in
    bodyNotify,    \* the workers whose task body is inside detach_task()
    reset          \* the progress of the owner's reset() or ~thread_pool()

pool == <<tasks, tasksRunning, waiting, paused, threads, stopped, worker, client,
          bodyNotify, reset>>

vars == <<use, pool>>

Awaiting == {"asleep", "awake"}  \* the pcs of a thread in a condition variable's wait

WorkerState == [pc : {"none", "enter", "exited"} \cup Awaiting, task : {NoTask}]
                 \cup [pc : {"run", "closing"}, task : Submission]

ClientState == [pc : {"idle", "notify", "notifyAll"} \cup Awaiting, timed : BOOLEAN]

Idle == [pc |-> "idle", timed |-> FALSE]

NoReset == [pc |-> "none", op |-> "none", wasPaused |-> FALSE, new |-> {}]

TypeOK ==
    /\ use \in Uses
    /\ tasks \in Seq(Submission)
    /\ tasksRunning \in 0 .. Cardinality(Workers)
    /\ waiting \in BOOLEAN
    /\ paused \in BOOLEAN
    /\ threads \in SUBSET Workers
    /\ stopped \in SUBSET Workers
    /\ worker \in [Workers -> WorkerState]
    /\ client \in [Clients -> ClientState]
    /\ bodyNotify \in SUBSET Workers
    /\ reset \in [pc : {"none", "wait", "waiting", "stop", "join", "create", "unpause", "dead"},
                  op : {"none", "reset", "destroy"}, wasPaused : BOOLEAN, new : SUBSET Workers]

WorkersAt(pcs) == {w \in Workers : worker[w].pc \in pcs}
ClientsAt(pcs) == {c \in Clients : client[c].pc \in pcs}

(* determine_thread_count() never returns 0. *)
ThreadSets == (SUBSET Workers) \ {{}}

Started(ws) == [w \in Workers |-> [pc |-> IF w \in ws THEN "enter" ELSE "none", task |-> NoTask]]

Init ==
    /\ use \in Uses
    /\ tasks = <<>>
    /\ threads \in ThreadSets
    /\ tasksRunning = Cardinality(threads)
    /\ waiting = FALSE /\ paused = FALSE
    /\ stopped = {}
    /\ worker = Started(threads)
    /\ client = [c \in Clients |-> Idle]
    /\ bodyNotify = {}
    /\ reset = NoReset

-----------------------------------------------------------------------------
(* The condition variables *)

NoTasks == tasks = <<>>

(* Mutant: queued tasks are forgotten. *)
DoneRunning(running) == running = 0

(* The predicate of wait() and of the notification it waits for, when      *)
(* running workers are left.                                               *)
Done(running) == running = 0 /\ (paused \/ NoTasks)

NotifyDone == client' = [c \in Clients |->
                 IF client[c].pc = "asleep" THEN [client[c] EXCEPT !.pc = "awake"] ELSE client[c]]

WakeWorker(w) == worker' = [worker EXCEPT ![w].pc = "awake"]

(* task_available_cv.notify_one() *)
NotifyOne == LET sleepers == WorkersAt({"asleep"})
             IN  IF sleepers = {} THEN UNCHANGED worker ELSE \E w \in sleepers : WakeWorker(w)

(* task_available_cv.notify_all() *)
NotifyAll == worker' = [w \in Workers |->
                IF worker[w].pc = "asleep" THEN [worker[w] EXCEPT !.pc = "awake"] ELSE worker[w]]

SpuriousWakeup ==
    /\ \/ \E w \in WorkersAt({"asleep"}) : WakeWorker(w) /\ UNCHANGED client
       \/ /\ \E c \in ClientsAt({"asleep"}) : client' = [client EXCEPT ![c].pc = "awake"]
          /\ UNCHANGED worker
    /\ UNCHANGED <<tasks, tasksRunning, waiting, paused, threads, stopped, bodyNotify, reset>>

-----------------------------------------------------------------------------
(* The worker threads *)

(* Where the worker goes from task_available_cv.wait(): out of the loop    *)
(* when it was stopped, to the front task, or to sleep.  running is        *)
(* tasks_running before.                                                   *)
TakeTask(w, running) ==
    \/ /\ w \in stopped
       /\ worker' = [worker EXCEPT ![w] = [pc |-> "exited", task |-> NoTask]]
       /\ tasksRunning' = running
       /\ UNCHANGED tasks
    \/ /\ w \notin stopped
       /\ ~paused /\ ~NoTasks
       /\ worker' = [worker EXCEPT ![w] = [pc |-> "run", task |-> Head(tasks)]]
       /\ tasks' = Tail(tasks)
       /\ tasksRunning' = running + 1
    \/ /\ w \notin stopped
       /\ paused \/ NoTasks
       /\ worker' = [worker EXCEPT ![w] = [pc |-> "asleep", task |-> NoTask]]
       /\ tasksRunning' = running
       /\ UNCHANGED tasks

(* Mutant: the counter is not decremented. *)
EnterNoDecrement(w) ==
    /\ worker[w].pc = "enter"
    /\ IF waiting /\ Done(tasksRunning) THEN NotifyDone ELSE UNCHANGED client
    /\ TakeTask(w, tasksRunning)
    /\ UNCHANGED <<waiting, paused, threads, stopped, bodyNotify, reset>>

(* Mutant: wait() is not notified. *)
EnterNoNotify(w) ==
    /\ worker[w].pc = "enter"
    /\ TakeTask(w, tasksRunning - 1)
    /\ UNCHANGED <<waiting, paused, threads, stopped, client, bodyNotify, reset>>

(* The top of the loop: after init_func, or with the last task destroyed. *)
Enter(w) ==
    /\ worker[w].pc = "enter"
    /\ IF waiting /\ Done(tasksRunning - 1) THEN NotifyDone ELSE UNCHANGED client
    /\ TakeTask(w, tasksRunning - 1)
    /\ UNCHANGED <<waiting, paused, threads, stopped, bodyNotify, reset>>

Wake(w) ==
    /\ worker[w].pc = "awake"
    /\ TakeTask(w, tasksRunning)
    /\ UNCHANGED <<waiting, paused, threads, stopped, client, bodyNotify, reset>>

(* task() returns or throws; the promise, if there is one, is set. *)
Fulfil(w) ==
    /\ worker[w].pc = "run"
    /\ w \notin bodyNotify
    /\ worker' = [worker EXCEPT ![w].pc = "closing"]
    /\ UNCHANGED <<tasks, tasksRunning, waiting, paused, threads, stopped, client, bodyNotify, reset>>

(* The task object goes out of scope. *)
Retire(w) ==
    /\ worker[w].pc = "closing"
    /\ worker' = [worker EXCEPT ![w] = [pc |-> "enter", task |-> NoTask]]
    /\ UNCHANGED <<tasks, tasksRunning, waiting, paused, threads, stopped, client, bodyNotify, reset>>

(* A task body submits: detach_task(), its notification apart. *)
BodySubmit(w, s) ==
    /\ worker[w].pc = "run" /\ w \notin bodyNotify
    /\ s \notin Range(tasks) /\ \A v \in WorkersAt({"run"}) : worker[v].task # s
    /\ tasks' = Append(tasks, s)
    /\ bodyNotify' = bodyNotify \cup {w}
    /\ UNCHANGED <<tasksRunning, waiting, paused, threads, stopped, worker, client, reset>>

BodyNotify(w) ==
    /\ w \in bodyNotify
    /\ NotifyOne
    /\ bodyNotify' = bodyNotify \ {w}
    /\ UNCHANGED <<tasks, tasksRunning, waiting, paused, threads, stopped, client, reset>>

WorkerStep(w) == Enter(w) \/ Wake(w) \/ Fulfil(w) \/ Retire(w) \/ BodyNotify(w)

-----------------------------------------------------------------------------
(* The clients.  Nobody but the owner uses a pool that is being destroyed. *)

MayBegin(c, op) ==
    /\ client[c] = Idle
    /\ op \in use.may[c]
    /\ c = Owner => reset.pc = "none"
    /\ reset.op # "destroy"

GoTo(c, pc) == client' = [client EXCEPT ![c].pc = pc]

Submit(c, s) ==
    /\ MayBegin(c, "submit")
    /\ s \notin Range(tasks) /\ \A w \in WorkersAt({"run"}) : worker[w].task # s
    /\ tasks' = Append(tasks, s)
    /\ GoTo(c, "notify")
    /\ UNCHANGED <<tasksRunning, waiting, paused, threads, stopped, worker, bodyNotify, reset>>

(* Mutant: no worker is notified. *)
SubmitSilently(c) ==
    /\ client[c].pc = "notify"
    /\ GoTo(c, "idle")
    /\ UNCHANGED <<tasks, tasksRunning, waiting, paused, threads, stopped, worker, bodyNotify, reset>>

SubmitNotify(c) ==
    /\ client[c].pc = "notify"
    /\ NotifyOne
    /\ GoTo(c, "idle")
    /\ UNCHANGED <<tasks, tasksRunning, waiting, paused, threads, stopped, bodyNotify, reset>>

Purge(c) ==
    /\ MayBegin(c, "purge")
    /\ tasks' = <<>>
    /\ UNCHANGED <<tasksRunning, waiting, paused, threads, stopped, worker, client, bodyNotify, reset>>

Pause(c) ==
    /\ MayBegin(c, "pause")
    /\ paused' = TRUE
    /\ UNCHANGED <<tasks, tasksRunning, waiting, threads, stopped, worker, client, bodyNotify, reset>>

Unpause(c) ==
    /\ MayBegin(c, "unpause")
    /\ paused' = FALSE
    /\ GoTo(c, "notifyAll")
    /\ UNCHANGED <<tasks, tasksRunning, waiting, threads, stopped, worker, bodyNotify, reset>>

(* Mutant: notify_one() where several tasks may be queued. *)
UnpauseOne(c) ==
    /\ client[c].pc = "notifyAll"
    /\ NotifyOne
    /\ GoTo(c, "idle")
    /\ UNCHANGED <<tasks, tasksRunning, waiting, paused, threads, stopped, bodyNotify, reset>>

UnpauseNotify(c) ==
    /\ client[c].pc = "notifyAll"
    /\ NotifyAll
    /\ GoTo(c, "idle")
    /\ UNCHANGED <<tasks, tasksRunning, waiting, paused, threads, stopped, bodyNotify, reset>>

(* What reset_pool() or the destructor does when its wait() returns. *)
AfterWait(c) == reset' = IF c = Owner /\ reset.pc = "waiting" THEN [reset EXCEPT !.pc = "stop"] ELSE reset

(* wait() with the mutex: it sets waiting, and returns or sleeps. *)
BeginWait(c, timed) ==
    /\ IF Done(tasksRunning)
       THEN /\ waiting' = FALSE
            /\ UNCHANGED client
       ELSE /\ waiting' = TRUE
            /\ client' = [client EXCEPT ![c] = [pc |-> "asleep", timed |-> timed]]
    /\ UNCHANGED <<tasks, tasksRunning, paused, threads, stopped, worker, bodyNotify>>

Wait(c) ==
    /\ \/ MayBegin(c, "wait") /\ BeginWait(c, FALSE)
       \/ MayBegin(c, "wait_for") /\ BeginWait(c, TRUE)
    /\ UNCHANGED reset

(* wait() returns, or wait_for() returns true; waiting is reset whoever    *)
(* else waits.                                                             *)
WaitReturn(c) ==
    /\ client[c].pc = "awake"
    /\ Done(tasksRunning)
    /\ waiting' = FALSE
    /\ client' = [client EXCEPT ![c] = Idle]
    /\ AfterWait(c)
    /\ UNCHANGED <<tasks, tasksRunning, paused, threads, stopped, worker, bodyNotify>>

WaitAgain(c) ==
    /\ client[c].pc = "awake"
    /\ ~Done(tasksRunning)
    /\ GoTo(c, "asleep")
    /\ UNCHANGED <<tasks, tasksRunning, waiting, paused, threads, stopped, worker, bodyNotify, reset>>

(* wait_for() or wait_until() is out of time. *)
WaitTimeout(c) ==
    /\ client[c].pc \in Awaiting /\ client[c].timed
    /\ waiting' = FALSE
    /\ client' = [client EXCEPT ![c] = Idle]
    /\ UNCHANGED <<tasks, tasksRunning, paused, threads, stopped, worker, bodyNotify, reset>>

-----------------------------------------------------------------------------
(* reset() and ~thread_pool() *)

(* Mutant: the pool is not paused while it waits for the running tasks. *)
ResetBeginRunning ==
    /\ MayBegin(Owner, "reset")
    /\ \E new \in ThreadSets :
        reset' = [pc |-> "wait", op |-> "reset", wasPaused |-> paused, new |-> new]
    /\ UNCHANGED <<tasks, tasksRunning, waiting, paused, threads, stopped, worker, client, bodyNotify>>

ResetBegin ==
    /\ MayBegin(Owner, "reset")
    /\ \E new \in ThreadSets :
        reset' = [pc |-> "wait", op |-> "reset", wasPaused |-> paused, new |-> new]
    /\ paused' = use.pause
    /\ UNCHANGED <<tasks, tasksRunning, waiting, threads, stopped, worker, client, bodyNotify>>

DestroyBegin ==
    /\ MayBegin(Owner, "destroy")
    /\ client = [c \in Clients |-> Idle]
    /\ reset' = [NoReset EXCEPT !.pc = "wait", !.op = "destroy"]
    /\ UNCHANGED <<tasks, tasksRunning, waiting, paused, threads, stopped, worker, client, bodyNotify>>

(* Mutant: the threads are stopped without waiting for the tasks. *)
ResetNoWait ==
    /\ reset.pc = "wait"
    /\ reset' = [reset EXCEPT !.pc = "stop"]
    /\ UNCHANGED <<tasks, tasksRunning, waiting, paused, threads, stopped, worker, client, bodyNotify>>

ResetWait ==
    /\ reset.pc = "wait"
    /\ reset' = [reset EXCEPT !.pc = IF Done(tasksRunning) THEN "stop" ELSE "waiting"]
    /\ BeginWait(Owner, FALSE)

(* Mutant: request_stop() does not wake a sleeping worker. *)
StopThreadSilently ==
    /\ reset.pc = "stop"
    /\ \E w \in threads \ stopped : stopped' = stopped \cup {w}
    /\ reset' = [reset EXCEPT !.pc = "join"]
    /\ UNCHANGED <<tasks, tasksRunning, waiting, paused, threads, worker, client, bodyNotify>>

(* The jthreads of the old array are destroyed one after the other:        *)
(* request_stop(), which also wakes the worker, and join().                *)
StopThread ==
    /\ reset.pc = "stop"
    /\ \E w \in threads \ stopped :
        /\ stopped' = stopped \cup {w}
        /\ IF worker[w].pc = "asleep" THEN WakeWorker(w) ELSE UNCHANGED worker
    /\ reset' = [reset EXCEPT !.pc = "join"]
    /\ UNCHANGED <<tasks, tasksRunning, waiting, paused, threads, client, bodyNotify>>

JoinThread ==
    /\ reset.pc = "join"
    /\ \A w \in stopped : worker[w].pc = "exited"
    /\ reset' = [reset EXCEPT !.pc = IF stopped # threads THEN "stop"
                                  ELSE IF reset.op = "destroy" THEN "dead" ELSE "create"]
    /\ UNCHANGED <<tasks, tasksRunning, waiting, paused, threads, stopped, worker, client, bodyNotify>>

(* Mutant: the counter is left as the old threads left it. *)
CreateThreadsNoCount ==
    /\ reset.pc = "create"
    /\ threads' = reset.new
    /\ stopped' = {}
    /\ worker' = Started(reset.new)
    /\ reset' = IF use.pause THEN [reset EXCEPT !.pc = "unpause"] ELSE NoReset
    /\ UNCHANGED <<tasks, tasksRunning, waiting, paused, client, bodyNotify>>

(* create_threads(): the counter is set under the mutex before the first   *)
(* thread is started.                                                      *)
CreateThreads ==
    /\ reset.pc = "create"
    /\ threads' = reset.new
    /\ stopped' = {}
    /\ tasksRunning' = Cardinality(reset.new)
    /\ worker' = Started(reset.new)
    /\ reset' = IF use.pause THEN [reset EXCEPT !.pc = "unpause"] ELSE NoReset
    /\ UNCHANGED <<tasks, waiting, paused, client, bodyNotify>>

RestorePause ==
    /\ reset.pc = "unpause"
    /\ paused' = reset.wasPaused
    /\ reset' = NoReset
    /\ UNCHANGED <<tasks, tasksRunning, waiting, threads, stopped, worker, client, bodyNotify>>

ResetStep == ResetWait \/ StopThread \/ JoinThread \/ CreateThreads \/ RestorePause

-----------------------------------------------------------------------------

ClientStep(c) == \/ SubmitNotify(c) \/ UnpauseNotify(c)
                 \/ WaitReturn(c) \/ WaitAgain(c) \/ WaitTimeout(c)

NewCall == \/ \E c \in Clients : Wait(c) \/ Purge(c) \/ Pause(c) \/ Unpause(c)
           \/ \E s \in Submission : \/ \E c \in Clients : Submit(c, s)
                                    \/ \E w \in Workers : BodySubmit(w, s)
           \/ ResetBegin
           \/ DestroyBegin

Next ==
    /\ UNCHANGED use
    /\ \/ NewCall
       \/ \E w \in Workers : WorkerStep(w)
       \/ \E c \in Clients : ClientStep(c)
       \/ ResetStep
       \/ SpuriousWakeup

Spec == Init /\ [][Next]_vars

(* Threads that can run do run, and a task body ends, whatever it submits  *)
(* before; nobody is made to call and no sleeper is made to wake by itself. *)
Fairness == /\ \A w \in Workers : WF_pool(WorkerStep(w)) /\ SF_pool(Fulfil(w))
            /\ \A c \in Clients : WF_pool(ClientStep(c))
            /\ WF_pool(ResetStep)

FairSpec == Spec /\ Fairness

-----------------------------------------------------------------------------
(* Properties *)

(* tasks_running counts the workers that have not come back to the mutex   *)
(* since they were started or given a task, through reset() too.           *)
RunningCount == tasksRunning = Cardinality(WorkersAt({"enter", "run", "closing"}))

(* No task is stranded: while a worker sleeps and the pool is not paused,  *)
(* every queued task has a worker on its way to the queue, or a            *)
(* notification still to be sent.  (notify_one after the unlock, against   *)
(* workers that go to sleep, that come back by themselves, and spurious    *)
(* wakeups.)  A reset() of a pool with the pause flag does strand tasks:   *)
(* QueuedOutlivesReset.                                                    *)
NoStrandedTask ==
    \/ use.pause /\ "reset" \in use.may[Owner]
    \/ WorkersAt({"asleep"}) = {} \/ paused \/ stopped # {} \/ ClientsAt({"notifyAll"}) # {}
    \/ Len(tasks) <= Cardinality(WorkersAt({"enter", "awake"}))
                         + Cardinality(ClientsAt({"notify"})) + Cardinality(bodyNotify)

(* The destructor of a pool that is not paused stops its threads only when *)
(* every submission has been executed.                                     *)
DestructorCompletesAll ==
    reset.op = "destroy" /\ reset.pc \in {"stop", "join", "dead"} /\ ~paused =>
        NoTasks /\ WorkersAt({"run", "closing"}) = {}

(* With the pause flag a reset() leaves the queue to the new threads: when *)
(* nobody else unpauses or purges, what was queued when it began is        *)
(* queued, in order, when it ends, however busy the old threads are.       *)
(* ("Any tasks that were waiting in the queue before the pool was reset    *)
(* will then be executed by the new threads".)                             *)
QueueIsTheOwners ==
    use.pause /\ \A c \in Clients \ {Owner} : use.may[c] \cap {"unpause", "purge"} = {}

ResetKeepsQueue ==
    [][QueueIsTheOwners /\ reset.op = "reset" => IsPrefix(tasks, tasks')]_vars

(* A pool without pause implements TaskPool: FIFO, every submission taken  *)
(* once, nothing lost by reset(), wait() returning only when all is done.  *)
(* (A pool with pause is left out: nothing happens in its TaskPool.)       *)
Queued == IF use.pause THEN <<>> ELSE tasks

Executed == [w \in Workers |->
    CASE ~use.pause /\ worker[w].pc = "run"     -> [sub |-> worker[w].task, phase |-> "body"]
      [] ~use.pause /\ worker[w].pc = "closing" -> [sub |-> worker[w].task, phase |-> "closing"]
      [] OTHER                                  -> [sub |-> NoTask, phase |-> "idle"]]

InWait == {<<c, client[c].timed>> : c \in {x \in ClientsAt(Awaiting) : ~use.pause}}

Abstract == INSTANCE TaskPool WITH
    queue <- Queued, active <- Executed, waiters <- InWait, Waiters <- Clients

ImplementsTaskPool == Abstract!Spec

(* Every queued submission is taken by a worker or purged. *)
QueuedIsTaken == \A s \in Submission : s \in Range(tasks) ~> s \notin Range(tasks)

(* "Any tasks that were waiting in the queue before the pool was reset     *)
(* will then be executed by the new threads": unless resets never end.     *)
QueuedOutlivesReset ==
    <>[](reset.pc = "none") => QueuedIsTaken

(* "Wait for tasks to be completed": when from some time on nothing is     *)
(* queued (or the pool is paused) and nothing runs, no wait() lasts.       *)
WaitReturns ==
    <>[]Done(tasksRunning) => \A c \in Clients : []<>(client[c].pc \notin Awaiting)

(* A reset() or destructor that has begun to stop threads gets them joined. *)
ThreadsAreJoined ==
    reset.pc \in {"stop", "join", "create"} ~> reset.pc \notin {"stop", "join", "create"}

(* Neither the tasks nor the owner of the pool wait for ever.              *)
PoolIsLive == QueuedIsTaken /\ ThreadsAreJoined
=============================================================================
