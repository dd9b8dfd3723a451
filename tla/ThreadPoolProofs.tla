-------------------------- MODULE ThreadPoolProofs --------------------------
(***************************************************************************)
(* Proofs about ThreadPool, for any number of workers, clients and         *)
(* submissions and every use of the pool: type correctness, RunningCount,  *)
(* NoStrandedTask, DestructorCompletesAll, ResetKeepsQueue and that a pool *)
(* without pause implements TaskPool.                                      *)
(***************************************************************************)
EXTENDS ThreadPool, FiniteSetTheorems, TLAPS

-----------------------------------------------------------------------------
(* Threads that move *)

LEMMA WorkersAreFinite ==
    ASSUME NEW pcs
    PROVE  /\ IsFiniteSet(WorkersAt(pcs))
           /\ Cardinality(WorkersAt(pcs)) \in 0 .. Cardinality(Workers)
           /\ Cardinality(WorkersAt(pcs)) = 0 <=> WorkersAt(pcs) = {}
<1>1. WorkersAt(pcs) \in SUBSET Workers /\ IsFiniteSet(Workers)
  BY PoolAssumption DEF WorkersAt
<1>2. IsFiniteSet(WorkersAt(pcs)) /\ Cardinality(WorkersAt(pcs)) <= Cardinality(Workers)
  BY <1>1, FS_Subset
<1>3. Cardinality(WorkersAt(pcs)) \in Nat /\ Cardinality(Workers) \in Nat
  BY <1>1, <1>2, FS_CardinalityType
<1>4. Cardinality(WorkersAt(pcs)) = 0 <=> WorkersAt(pcs) = {}
  BY <1>2, FS_EmptySet
<1>. QED BY <1>2, <1>3, <1>4

LEMMA ClientsAreFinite ==
    ASSUME NEW pcs
    PROVE  /\ IsFiniteSet(ClientsAt(pcs))
           /\ Cardinality(ClientsAt(pcs)) \in Nat
<1>1. ClientsAt(pcs) \in SUBSET Clients /\ IsFiniteSet(Clients)
  BY PoolAssumption DEF ClientsAt
<1>2. IsFiniteSet(ClientsAt(pcs))
  BY <1>1, FS_Subset
<1>. QED BY <1>2, FS_CardinalityType

(* No worker but w, no client but c moves. *)
OnlyMoves(w) == /\ worker' \in [Workers -> WorkerState]
                /\ \A v \in Workers \ {w} : worker'[v] = worker[v]

OnlyCalls(c) == /\ client' \in [Clients -> ClientState]
                /\ \A d \in Clients \ {c} : client'[d] = client[d]

(* One worker moves: it leaves, joins or stays in the workers at pcs. *)
LEMMA WorkerMoves ==
    ASSUME NEW w \in Workers, OnlyMoves(w), NEW pcs
    PROVE  /\ worker[w].pc \in pcs /\ worker'[w].pc \notin pcs =>
                Cardinality(WorkersAt(pcs)') = Cardinality(WorkersAt(pcs)) - 1
           /\ worker[w].pc \notin pcs /\ worker'[w].pc \in pcs =>
                Cardinality(WorkersAt(pcs)') = Cardinality(WorkersAt(pcs)) + 1
           /\ (worker[w].pc \in pcs <=> worker'[w].pc \in pcs) => WorkersAt(pcs)' = WorkersAt(pcs)
<1>1. IsFiniteSet(WorkersAt(pcs))
  BY WorkersAreFinite
<1>2. worker[w].pc \in pcs <=> w \in WorkersAt(pcs)
  BY DEF WorkersAt, OnlyMoves
<1>3. worker'[w].pc \in pcs => WorkersAt(pcs)' = WorkersAt(pcs) \cup {w}
  BY DEF WorkersAt, OnlyMoves
<1>4. worker'[w].pc \notin pcs => WorkersAt(pcs)' = WorkersAt(pcs) \ {w}
  BY DEF WorkersAt, OnlyMoves
<1>5. Cardinality(WorkersAt(pcs) \cup {w}) =
        IF w \in WorkersAt(pcs) THEN Cardinality(WorkersAt(pcs))
                                ELSE Cardinality(WorkersAt(pcs)) + 1
  BY <1>1, FS_AddElement
<1>6. Cardinality(WorkersAt(pcs) \ {w}) =
        IF w \in WorkersAt(pcs) THEN Cardinality(WorkersAt(pcs)) - 1
                                ELSE Cardinality(WorkersAt(pcs))
  BY <1>1, FS_RemoveElement
<1>7. (worker[w].pc \in pcs <=> worker'[w].pc \in pcs) => WorkersAt(pcs)' = WorkersAt(pcs)
  BY <1>2, <1>3, <1>4
<1>. QED BY <1>2, <1>3, <1>4, <1>5, <1>6, <1>7

(* One client moves. *)
LEMMA ClientMoves ==
    ASSUME NEW c \in Clients, OnlyCalls(c), NEW pcs
    PROVE  /\ client[c].pc \in pcs /\ client'[c].pc \notin pcs =>
                Cardinality(ClientsAt(pcs)') = Cardinality(ClientsAt(pcs)) - 1
           /\ client[c].pc \notin pcs /\ client'[c].pc \in pcs =>
                Cardinality(ClientsAt(pcs)') = Cardinality(ClientsAt(pcs)) + 1
           /\ (client[c].pc \in pcs <=> client'[c].pc \in pcs) => ClientsAt(pcs)' = ClientsAt(pcs)
<1>1. IsFiniteSet(ClientsAt(pcs))
  BY ClientsAreFinite
<1>2. client[c].pc \in pcs <=> c \in ClientsAt(pcs)
  BY DEF ClientsAt, OnlyCalls
<1>3. client'[c].pc \in pcs => ClientsAt(pcs)' = ClientsAt(pcs) \cup {c}
  BY DEF ClientsAt, OnlyCalls
<1>4. client'[c].pc \notin pcs => ClientsAt(pcs)' = ClientsAt(pcs) \ {c}
  BY DEF ClientsAt, OnlyCalls
<1>5. Cardinality(ClientsAt(pcs) \cup {c}) =
        IF c \in ClientsAt(pcs) THEN Cardinality(ClientsAt(pcs))
                                ELSE Cardinality(ClientsAt(pcs)) + 1
  BY <1>1, FS_AddElement
<1>6. Cardinality(ClientsAt(pcs) \ {c}) =
        IF c \in ClientsAt(pcs) THEN Cardinality(ClientsAt(pcs)) - 1
                                ELSE Cardinality(ClientsAt(pcs))
  BY <1>1, FS_RemoveElement
<1>7. (client[c].pc \in pcs <=> client'[c].pc \in pcs) => ClientsAt(pcs)' = ClientsAt(pcs)
  BY <1>2, <1>3, <1>4
<1>. QED BY <1>2, <1>3, <1>4, <1>5, <1>6, <1>7

-----------------------------------------------------------------------------
(* The inductive invariant *)

(* Without the flag BS::tp::pause there is no way to pause. *)
PauseIsAnOption == ~use.pause => ~paused

(* The owner is in one call at a time, and what it does in reset() and in  *)
(* the destructor is its own: it waits there like any client, untimed.     *)
OwnerInv ==
    /\ reset.pc = "none" <=> reset.op = "none"
    /\ reset.op = "reset" => "reset" \in use.may[Owner]
    /\ reset.pc \in {"create", "unpause"} => reset.op = "reset"
    /\ reset.pc = "unpause" => use.pause
    /\ reset.pc = "waiting" => client[Owner].pc \in Awaiting /\ ~client[Owner].timed
    /\ reset.pc \notin {"none", "waiting"} => client[Owner] = Idle

(* Only threads of the array run, and none is left when it is replaced. *)
ThreadsInv ==
    /\ stopped \subseteq threads
    /\ \A w \in Workers \ threads : worker[w].pc = "none"
    /\ reset.pc = "create" => \A w \in Workers : worker[w].pc \in {"none", "exited"}

(* Nobody unpauses a pool that the owner is resetting. *)
ResetIsPaused == QueueIsTheOwners /\ reset.op = "reset" => paused

PoolInv ==
    /\ TypeOK
    /\ RunningCount
    /\ PauseIsAnOption
    /\ OwnerInv
    /\ ThreadsInv
    /\ ResetIsPaused
    /\ NoStrandedTask
    /\ DestructorCompletesAll

-----------------------------------------------------------------------------
(* What the steps do to the threads *)

LEMMA ConstantsTyped ==
    /\ Owner \in Clients
    /\ Cardinality(Workers) \in Nat
BY PoolAssumption, FS_CardinalityType

LEMMA SlotsTyped ==
    /\ \A s \in WorkerState :
          /\ s.pc \in {"none", "enter", "exited", "asleep", "awake", "run", "closing"}
          /\ s = [pc |-> s.pc, task |-> s.task]
          /\ s.pc \in {"run", "closing"} => s.task \in Submission
          /\ s.pc \notin {"run", "closing"} => s.task = NoTask
    /\ \A pc \in {"none", "enter", "exited", "asleep", "awake"} :
          [pc |-> pc, task |-> NoTask] \in WorkerState
    /\ \A pc \in {"run", "closing"}, s \in Submission : [pc |-> pc, task |-> s] \in WorkerState
BY DEF WorkerState, Awaiting

LEMMA CallsTyped ==
    /\ \A s \in ClientState :
          /\ s.pc \in {"idle", "notify", "notifyAll", "asleep", "awake"}
          /\ s.timed \in BOOLEAN
          /\ s = [pc |-> s.pc, timed |-> s.timed]
    /\ \A pc \in {"idle", "notify", "notifyAll", "asleep", "awake"}, t \in BOOLEAN :
          [pc |-> pc, timed |-> t] \in ClientState
    /\ Idle \in ClientState /\ Idle.pc = "idle"
BY DEF ClientState, Awaiting, Idle

(* A worker goes to another place. *)
LEMMA MoveIsTyped ==
    ASSUME worker \in [Workers -> WorkerState], NEW w \in Workers, NEW s \in WorkerState,
           worker' = [worker EXCEPT ![w] = s]
    PROVE  OnlyMoves(w) /\ worker'[w] = s
BY DEF OnlyMoves

(* Where a worker goes from the mutex. *)
LEMMA TakeTaskMoves ==
    ASSUME TypeOK, NEW w \in Workers, NEW running, TakeTask(w, running)
    PROVE  /\ OnlyMoves(w)
           /\ \/ /\ w \in stopped
                 /\ worker'[w].pc = "exited" /\ tasksRunning' = running /\ UNCHANGED tasks
              \/ /\ w \notin stopped /\ ~paused /\ tasks # <<>>
                 /\ worker'[w].pc = "run" /\ worker'[w].task = Head(tasks)
                 /\ tasksRunning' = running + 1 /\ tasks' = Tail(tasks)
              \/ /\ w \notin stopped /\ (paused \/ tasks = <<>>)
                 /\ worker'[w].pc = "asleep" /\ tasksRunning' = running /\ UNCHANGED tasks
<1>1. worker \in [Workers -> WorkerState] /\ tasks \in Seq(Submission)
  BY DEF TypeOK
<1>2. /\ [pc |-> "exited", task |-> NoTask] \in WorkerState
      /\ [pc |-> "asleep", task |-> NoTask] \in WorkerState
      /\ tasks # <<>> => [pc |-> "run", task |-> Head(tasks)] \in WorkerState
  <2>1. tasks # <<>> => Head(tasks) \in Submission
    BY <1>1
  <2>. QED BY <2>1, SlotsTyped
<1>3. CASE w \in stopped
  BY <1>1, <1>2, <1>3, MoveIsTyped DEF TakeTask
<1>4. CASE w \notin stopped /\ ~paused /\ ~NoTasks
  BY <1>1, <1>2, <1>4, MoveIsTyped DEF TakeTask, NoTasks
<1>5. CASE w \notin stopped /\ (paused \/ NoTasks)
  BY <1>1, <1>2, <1>5, MoveIsTyped DEF TakeTask, NoTasks
<1>. QED BY <1>3, <1>4, <1>5

LEMMA FulfilMoves ==
    ASSUME TypeOK, NEW w \in Workers, Fulfil(w)
    PROVE  /\ OnlyMoves(w)
           /\ worker[w].pc = "run"
           /\ worker'[w].pc = "closing" /\ worker'[w].task = worker[w].task
<1>1. worker[w] \in WorkerState /\ worker[w].pc = "run"
  BY DEF TypeOK, Fulfil
<1>2. worker[w] = [pc |-> worker[w].pc, task |-> worker[w].task]
  BY <1>1, SlotsTyped
<1>3. [worker[w] EXCEPT !.pc = "closing"] = [pc |-> "closing", task |-> worker[w].task]
  BY <1>2
<1>4. worker' = [worker EXCEPT ![w] = [pc |-> "closing", task |-> worker[w].task]]
  BY <1>3 DEF Fulfil
<1>5. [pc |-> "closing", task |-> worker[w].task] \in WorkerState
  BY <1>1, SlotsTyped
<1>. QED BY <1>1, <1>4, <1>5, MoveIsTyped DEF TypeOK

LEMMA RetireMoves ==
    ASSUME TypeOK, NEW w \in Workers, Retire(w)
    PROVE  /\ OnlyMoves(w)
           /\ worker[w].pc = "closing" /\ worker'[w] = [pc |-> "enter", task |-> NoTask]
<1>1. [pc |-> "enter", task |-> NoTask] \in WorkerState
  BY SlotsTyped
<1>. QED BY <1>1, MoveIsTyped DEF TypeOK, Retire

(* A worker that is woken. *)
Woken(w) ==
    /\ OnlyMoves(w)
    /\ worker[w].pc = "asleep" /\ worker[w].task = NoTask
    /\ worker'[w] = [pc |-> "awake", task |-> NoTask]

LEMMA WakeMoves ==
    ASSUME TypeOK, NEW w \in WorkersAt({"asleep"}), WakeWorker(w)
    PROVE  w \in Workers /\ Woken(w)
<1>1. w \in Workers /\ worker[w].pc = "asleep" /\ worker[w] \in WorkerState
  BY DEF WorkersAt, TypeOK
<1>2. worker[w] = [pc |-> worker[w].pc, task |-> worker[w].task] /\ worker[w].task = NoTask
  BY <1>1, SlotsTyped
<1>3. [worker[w] EXCEPT !.pc = "awake"] = [pc |-> "awake", task |-> NoTask]
  BY <1>2
<1>4. worker' = [worker EXCEPT ![w] = [pc |-> "awake", task |-> NoTask]]
  BY <1>3 DEF WakeWorker
<1>5. [pc |-> "awake", task |-> NoTask] \in WorkerState
  BY SlotsTyped
<1>. QED BY <1>1, <1>2, <1>4, <1>5, MoveIsTyped DEF TypeOK, Woken

(* No worker sleeps, or one of those that do is woken. *)
LEMMA NotifyOneMoves ==
    ASSUME TypeOK, NotifyOne
    PROVE  \/ WorkersAt({"asleep"}) = {} /\ UNCHANGED worker
           \/ \E w \in Workers : Woken(w)
BY WakeMoves DEF NotifyOne

(* All of them are. *)
LEMMA NotifyAllMoves ==
    ASSUME worker \in [Workers -> WorkerState], NotifyAll
    PROVE  /\ worker' \in [Workers -> WorkerState]
           /\ \A w \in Workers :
                 /\ worker[w].pc = "asleep"  => worker'[w] = [pc |-> "awake", task |-> NoTask]
                 /\ worker[w].pc # "asleep" => worker'[w] = worker[w]
<1>1. ASSUME NEW w \in Workers
      PROVE  /\ worker'[w] \in WorkerState
             /\ worker[w].pc = "asleep"  => worker'[w] = [pc |-> "awake", task |-> NoTask]
             /\ worker[w].pc # "asleep" => worker'[w] = worker[w]
  <2>1. worker[w] \in WorkerState
    OBVIOUS
  <2>2. CASE worker[w].pc = "asleep"
    <3>1. worker[w] = [pc |-> worker[w].pc, task |-> NoTask]
      BY <2>1, <2>2, SlotsTyped
    <3>2. [worker[w] EXCEPT !.pc = "awake"] = [pc |-> "awake", task |-> NoTask]
      BY <3>1
    <3>3. worker'[w] = [pc |-> "awake", task |-> NoTask]
      BY <2>2, <3>2 DEF NotifyAll
    <3>. QED BY <2>2, <3>3, SlotsTyped
  <2>3. CASE worker[w].pc # "asleep"
    <3>1. worker'[w] = worker[w]
      BY <2>3 DEF NotifyAll
    <3>. QED BY <2>1, <2>3, <3>1
  <2>. QED BY <2>2, <2>3
<1>2. worker' = [w \in Workers |-> worker'[w]]
  BY DEF NotifyAll
<1>. QED BY <1>1, <1>2

(* A client that goes on. *)
LEMMA GoToMoves ==
    ASSUME client \in [Clients -> ClientState], NEW c \in Clients,
           NEW pc \in {"idle", "notify", "notifyAll", "asleep", "awake"},
           GoTo(c, pc)
    PROVE  OnlyCalls(c) /\ client'[c] = [pc |-> pc, timed |-> client[c].timed]
<1>1. client[c] \in ClientState
  OBVIOUS
<1>2. client[c] = [pc |-> client[c].pc, timed |-> client[c].timed] /\ client[c].timed \in BOOLEAN
  BY <1>1, CallsTyped
<1>3. [client[c] EXCEPT !.pc = pc] = [pc |-> pc, timed |-> client[c].timed]
  BY <1>2
<1>4. [pc |-> pc, timed |-> client[c].timed] \in ClientState
  BY <1>2, CallsTyped
<1>. QED BY <1>3, <1>4 DEF GoTo, OnlyCalls

(* The sleeping clients are woken; the others are not touched. *)
LEMMA NotifyDoneMoves ==
    ASSUME client \in [Clients -> ClientState], NotifyDone
    PROVE  /\ client' \in [Clients -> ClientState]
           /\ \A c \in Clients :
                 /\ client'[c].timed = client[c].timed
                 /\ client'[c].pc \in Awaiting <=> client[c].pc \in Awaiting
                 /\ client[c].pc # "asleep" => client'[c] = client[c]
<1>1. ASSUME NEW c \in Clients
      PROVE  /\ client'[c] \in ClientState
             /\ client'[c].timed = client[c].timed
             /\ client'[c].pc \in Awaiting <=> client[c].pc \in Awaiting
             /\ client[c].pc # "asleep" => client'[c] = client[c]
  <2>1. client[c] \in ClientState
    OBVIOUS
  <2>2. CASE client[c].pc = "asleep"
    <3>1. client[c] = [pc |-> client[c].pc, timed |-> client[c].timed] /\ client[c].timed \in BOOLEAN
      BY <2>1, CallsTyped
    <3>2. [client[c] EXCEPT !.pc = "awake"] = [pc |-> "awake", timed |-> client[c].timed]
      BY <3>1
    <3>3. client'[c] = [pc |-> "awake", timed |-> client[c].timed]
      BY <2>2, <3>2 DEF NotifyDone
    <3>. QED BY <2>2, <3>1, <3>3, CallsTyped DEF Awaiting
  <2>3. CASE client[c].pc # "asleep"
    <3>1. client'[c] = client[c]
      BY <2>3 DEF NotifyDone
    <3>. QED BY <2>1, <2>3, <3>1
  <2>. QED BY <2>2, <2>3
<1>2. client' = [c \in Clients |-> client'[c]]
  BY DEF NotifyDone
<1>. QED BY <1>1, <1>2

-----------------------------------------------------------------------------
(* RunningCount is preserved *)

InLoop == {"enter", "run", "closing"}

LEMMA CountUnmoved ==
    ASSUME RunningCount, UNCHANGED <<tasksRunning, worker>>
    PROVE  RunningCount'
BY DEF RunningCount, WorkersAt

(* A worker moves and the counter moves with it. *)
LEMMA CountMoves ==
    ASSUME RunningCount, NEW w \in Workers, OnlyMoves(w),
           \/ worker[w].pc \in InLoop /\ worker'[w].pc \notin InLoop /\ tasksRunning' = tasksRunning - 1
           \/ worker[w].pc \notin InLoop /\ worker'[w].pc \in InLoop /\ tasksRunning' = tasksRunning + 1
           \/ (worker[w].pc \in InLoop <=> worker'[w].pc \in InLoop) /\ tasksRunning' = tasksRunning
    PROVE  RunningCount'
<1>1. tasksRunning = Cardinality(WorkersAt(InLoop))
  BY DEF RunningCount, InLoop
<1>2. tasksRunning' = Cardinality(WorkersAt(InLoop)')
  BY <1>1, WorkerMoves
<1>. QED BY <1>2 DEF RunningCount, InLoop, WorkersAt

(* running is the count without the worker that has the mutex. *)
LEMMA CountTakes ==
    ASSUME TypeOK, RunningCount, NEW w \in Workers, NEW running, TakeTask(w, running),
           \/ worker[w].pc \in InLoop /\ running = tasksRunning - 1
           \/ worker[w].pc \notin InLoop /\ running = tasksRunning
    PROVE  RunningCount'
<1>1. tasksRunning \in Nat
  BY ConstantsTyped DEF TypeOK
<1>2. /\ OnlyMoves(w)
      /\ \/ worker'[w].pc \in {"exited", "asleep"} /\ tasksRunning' = running
         \/ worker'[w].pc = "run" /\ tasksRunning' = running + 1
  BY TakeTaskMoves
<1>. QED BY <1>1, <1>2, CountMoves DEF InLoop

LEMMA CountWakes ==
    ASSUME RunningCount, NEW w \in Workers, Woken(w), UNCHANGED tasksRunning
    PROVE  RunningCount'
BY CountMoves DEF Woken, InLoop

LEMMA CountNotifies ==
    ASSUME TypeOK, RunningCount, NotifyOne, UNCHANGED tasksRunning
    PROVE  RunningCount'
BY NotifyOneMoves, CountWakes, CountUnmoved

LEMMA CountStarts ==
    ASSUME NEW ws \in SUBSET Workers, worker' = Started(ws), tasksRunning' = Cardinality(ws)
    PROVE  RunningCount'
<1>1. WorkersAt({"enter", "run", "closing"})' = ws
  BY DEF WorkersAt, Started
<1>. QED BY <1>1 DEF RunningCount

LEMMA CountStep ==
    ASSUME TypeOK, RunningCount, Next
    PROVE  RunningCount'
<1>1. worker \in [Workers -> WorkerState]
  BY DEF TypeOK
<1>2. CASE NewCall
  <2>1. UNCHANGED <<tasksRunning, worker>>
    BY <1>2 DEF NewCall, Wait, BeginWait, Purge, Pause, Unpause, Submit, BodySubmit,
                ResetBegin, DestroyBegin
  <2>. QED BY <2>1, CountUnmoved
<1>3. ASSUME NEW w \in Workers, WorkerStep(w)
      PROVE  RunningCount'
  <2>1. CASE Enter(w)
    BY <2>1, CountTakes DEF Enter, InLoop
  <2>2. CASE Wake(w)
    BY <2>2, CountTakes DEF Wake, InLoop
  <2>3. CASE Fulfil(w)
    <3>1. OnlyMoves(w) /\ worker[w].pc = "run" /\ worker'[w].pc = "closing"
      BY <2>3, FulfilMoves
    <3>2. UNCHANGED tasksRunning
      BY <2>3 DEF Fulfil
    <3>. QED BY <3>1, <3>2, CountMoves DEF InLoop
  <2>4. CASE Retire(w)
    <3>1. OnlyMoves(w) /\ worker[w].pc = "closing" /\ worker'[w].pc = "enter"
      BY <2>4, RetireMoves
    <3>2. UNCHANGED tasksRunning
      BY <2>4 DEF Retire
    <3>. QED BY <3>1, <3>2, CountMoves DEF InLoop
  <2>5. CASE BodyNotify(w)
    BY <2>5, CountNotifies DEF BodyNotify
  <2>. QED BY <1>3, <2>1, <2>2, <2>3, <2>4, <2>5 DEF WorkerStep
<1>4. ASSUME NEW c \in Clients, ClientStep(c)
      PROVE  RunningCount'
  <2>1. CASE SubmitNotify(c)
    BY <2>1, CountNotifies DEF SubmitNotify
  <2>2. CASE UnpauseNotify(c)
    <3>1. \A w \in Workers : worker'[w].pc \in InLoop <=> worker[w].pc \in InLoop
      BY <1>1, <2>2, NotifyAllMoves DEF UnpauseNotify, InLoop
    <3>2. WorkersAt(InLoop)' = WorkersAt(InLoop) /\ UNCHANGED tasksRunning
      BY <2>2, <3>1 DEF WorkersAt, UnpauseNotify
    <3>. QED BY <3>2 DEF RunningCount, InLoop
  <2>3. CASE WaitReturn(c) \/ WaitAgain(c) \/ WaitTimeout(c)
    BY <2>3, CountUnmoved DEF WaitReturn, WaitAgain, WaitTimeout
  <2>. QED BY <1>4, <2>1, <2>2, <2>3 DEF ClientStep
<1>5. CASE ResetStep
  <2>1. CASE ResetWait \/ JoinThread \/ RestorePause
    BY <2>1, CountUnmoved DEF ResetWait, BeginWait, JoinThread, RestorePause
  <2>2. CASE StopThread
    <3>1. PICK w \in threads : IF worker[w].pc = "asleep" THEN WakeWorker(w) ELSE UNCHANGED worker
      BY <2>2 DEF StopThread
    <3>2. w \in Workers /\ UNCHANGED tasksRunning
      BY <2>2, <3>1 DEF TypeOK, StopThread
    <3>3. CASE worker[w].pc = "asleep"
      <4>1. w \in WorkersAt({"asleep"})
        BY <3>2, <3>3 DEF WorkersAt
      <4>. QED BY <1>1, <3>1, <3>2, <3>3, <4>1, WakeMoves, CountWakes
    <3>. QED BY <3>1, <3>2, <3>3, CountUnmoved
  <2>3. CASE CreateThreads
    <3>1. reset.new \in SUBSET Workers
      BY DEF TypeOK
    <3>. QED BY <2>3, <3>1, CountStarts DEF CreateThreads
  <2>. QED BY <1>5, <2>1, <2>2, <2>3 DEF ResetStep
<1>6. CASE SpuriousWakeup
  <2>1. CASE UNCHANGED worker
    BY <1>6, <2>1, CountUnmoved DEF SpuriousWakeup
  <2>2. ASSUME NEW w \in WorkersAt({"asleep"}), WakeWorker(w)
        PROVE  RunningCount'
    BY <1>1, <1>6, <2>2, WakeMoves, CountWakes DEF SpuriousWakeup
  <2>. QED BY <1>6, <2>1, <2>2 DEF SpuriousWakeup
<1>. QED BY <1>2, <1>3, <1>4, <1>5, <1>6 DEF Next

-----------------------------------------------------------------------------
(* TypeOK is preserved *)

(* A client goes to another call. *)
LEMMA CallIsTyped ==
    ASSUME TypeOK, NEW c \in Clients, NEW s \in ClientState,
           client' = [client EXCEPT ![c] = s]
    PROVE  OnlyCalls(c) /\ client'[c] = s
BY DEF OnlyCalls, TypeOK

LEMMA BeginWaitMoves ==
    ASSUME TypeOK, NEW c \in Clients, NEW timed \in BOOLEAN, BeginWait(c, timed)
    PROVE  \/ Done(tasksRunning) /\ waiting' = FALSE /\ UNCHANGED client
           \/ /\ ~Done(tasksRunning) /\ waiting' = TRUE
              /\ OnlyCalls(c) /\ client'[c].pc = "asleep" /\ client'[c].timed = timed
<1>1. CASE Done(tasksRunning)
  BY <1>1 DEF BeginWait
<1>2. CASE ~Done(tasksRunning)
  <2>1. [pc |-> "asleep", timed |-> timed] \in ClientState
    BY CallsTyped
  <2>2. OnlyCalls(c) /\ client'[c] = [pc |-> "asleep", timed |-> timed]
    BY <1>2, <2>1, CallIsTyped DEF BeginWait
  <2>3. client'[c].pc = "asleep" /\ client'[c].timed = timed
    BY <2>2
  <2>. QED BY <1>2, <2>2, <2>3 DEF BeginWait
<1>. QED BY <1>1, <1>2

(* wait() returns, or runs out of time. *)
LEMMA LeaveWaitMoves ==
    ASSUME TypeOK, NEW c \in Clients, client' = [client EXCEPT ![c] = Idle]
    PROVE  OnlyCalls(c) /\ client'[c] = Idle
BY CallsTyped, CallIsTyped

LEMMA GoToTyped ==
    ASSUME TypeOK, NEW c \in Clients,
           NEW pc \in {"idle", "notify", "notifyAll", "asleep", "awake"}, GoTo(c, pc)
    PROVE  /\ OnlyCalls(c)
           /\ client'[c].pc = pc /\ client'[c].timed = client[c].timed
<1>1. OnlyCalls(c) /\ client'[c] = [pc |-> pc, timed |-> client[c].timed]
  BY GoToMoves DEF TypeOK
<1>. QED BY <1>1

LEMMA EnterMoves ==
    ASSUME TypeOK, NEW w \in Workers, Enter(w)
    PROVE  /\ TakeTask(w, tasksRunning - 1) /\ worker[w].pc = "enter"
           /\ UNCHANGED <<waiting, paused, threads, stopped, bodyNotify, reset>>
           /\ NotifyDone \/ UNCHANGED client
BY DEF Enter

(* What a step does to the queue keeps it one of submissions. *)
LEMMA QueueStep ==
    ASSUME TypeOK, Next
    PROVE  \/ UNCHANGED tasks
           \/ tasks' = <<>>
           \/ tasks # <<>> /\ tasks' = Tail(tasks)
           \/ \E s \in Submission : tasks' = Append(tasks, s)
<1>1. CASE NewCall
  BY <1>1 DEF NewCall, Wait, BeginWait, Purge, Pause, Unpause, Submit, BodySubmit,
              ResetBegin, DestroyBegin
<1>2. ASSUME NEW w \in Workers, WorkerStep(w)
      PROVE  UNCHANGED tasks \/ (tasks # <<>> /\ tasks' = Tail(tasks))
  <2>1. CASE Enter(w) \/ Wake(w)
    <3>1. \/ TakeTask(w, tasksRunning - 1)
          \/ TakeTask(w, tasksRunning)
      BY <2>1 DEF Enter, Wake
    <3>. QED BY <3>1, TakeTaskMoves
  <2>. QED BY <1>2, <2>1 DEF WorkerStep, Fulfil, Retire, BodyNotify
<1>3. ASSUME NEW c \in Clients, ClientStep(c)
      PROVE  UNCHANGED tasks
  BY <1>3 DEF ClientStep, SubmitNotify, UnpauseNotify, WaitReturn, WaitAgain, WaitTimeout
<1>4. CASE ResetStep
  BY <1>4 DEF ResetStep, ResetWait, BeginWait, StopThread, JoinThread, CreateThreads, RestorePause
<1>5. CASE SpuriousWakeup
  BY <1>5 DEF SpuriousWakeup
<1>. QED BY <1>1, <1>2, <1>3, <1>4, <1>5 DEF Next

LEMMA WorkersStep ==
    ASSUME TypeOK, Next
    PROVE  worker' \in [Workers -> WorkerState]
<1>1. worker \in [Workers -> WorkerState]
  BY DEF TypeOK
<1>2. CASE NewCall
  BY <1>1, <1>2 DEF NewCall, Wait, BeginWait, Purge, Pause, Unpause, Submit, BodySubmit,
              ResetBegin, DestroyBegin
<1>3. ASSUME NEW w \in Workers, WorkerStep(w)
      PROVE  worker' \in [Workers -> WorkerState]
  <2>1. CASE Enter(w) \/ Wake(w)
    BY <2>1, TakeTaskMoves DEF Enter, Wake, OnlyMoves
  <2>2. CASE Fulfil(w)
    BY <2>2, FulfilMoves DEF OnlyMoves
  <2>3. CASE Retire(w)
    BY <2>3, RetireMoves DEF OnlyMoves
  <2>4. CASE BodyNotify(w)
    BY <1>1, <2>4, NotifyOneMoves DEF BodyNotify, OnlyMoves, Woken
  <2>. QED BY <1>3, <2>1, <2>2, <2>3, <2>4 DEF WorkerStep
<1>4. ASSUME NEW c \in Clients, ClientStep(c)
      PROVE  worker' \in [Workers -> WorkerState]
  <2>1. CASE SubmitNotify(c)
    BY <1>1, <2>1, NotifyOneMoves DEF SubmitNotify, OnlyMoves, Woken
  <2>2. CASE UnpauseNotify(c)
    BY <1>1, <2>2, NotifyAllMoves DEF UnpauseNotify
  <2>. QED BY <1>1, <1>4, <2>1, <2>2 DEF ClientStep, WaitReturn, WaitAgain, WaitTimeout
<1>5. CASE ResetStep
  <2>1. CASE StopThread
    <3>1. PICK w \in threads : IF worker[w].pc = "asleep" THEN WakeWorker(w) ELSE UNCHANGED worker
      BY <2>1 DEF StopThread
    <3>2. w \in Workers
      BY <3>1 DEF TypeOK
    <3>. QED BY <1>1, <3>1, <3>2, WakeMoves DEF WorkersAt, OnlyMoves, Woken
  <2>2. CASE CreateThreads
    <3>1. worker' = [w \in Workers |->
                        [pc |-> IF w \in reset.new THEN "enter" ELSE "none", task |-> NoTask]]
      BY <2>2 DEF CreateThreads, Started
    <3>. QED BY <3>1, SlotsTyped
  <2>. QED BY <1>1, <1>5, <2>1, <2>2 DEF ResetStep, ResetWait, BeginWait, JoinThread, RestorePause
<1>6. CASE SpuriousWakeup
  BY <1>1, <1>6, WakeMoves DEF SpuriousWakeup, OnlyMoves, Woken
<1>. QED BY <1>2, <1>3, <1>4, <1>5, <1>6 DEF Next

LEMMA ClientsStep ==
    ASSUME TypeOK, Next
    PROVE  client' \in [Clients -> ClientState]
<1>1. client \in [Clients -> ClientState]
  BY DEF TypeOK
<1>2. CASE NewCall
  <2>1. ASSUME NEW c \in Clients, Wait(c)
        PROVE  client' \in [Clients -> ClientState]
    BY <1>1, <2>1, BeginWaitMoves DEF Wait, OnlyCalls
  <2>2. ASSUME NEW c \in Clients, NEW s \in Submission, Submit(c, s)
        PROVE  client' \in [Clients -> ClientState]
    BY <2>2, GoToTyped DEF Submit, OnlyCalls
  <2>3. ASSUME NEW c \in Clients, Unpause(c)
        PROVE  client' \in [Clients -> ClientState]
    BY <2>3, GoToTyped DEF Unpause, OnlyCalls
  <2>. QED BY <1>1, <1>2, <2>1, <2>2, <2>3
           DEF NewCall, Purge, Pause, BodySubmit, ResetBegin, DestroyBegin
<1>3. ASSUME NEW w \in Workers, WorkerStep(w)
      PROVE  client' \in [Clients -> ClientState]
  BY <1>1, <1>3, NotifyDoneMoves DEF WorkerStep, Enter, Wake, Fulfil, Retire, BodyNotify
<1>4. ASSUME NEW c \in Clients, ClientStep(c)
      PROVE  client' \in [Clients -> ClientState]
  <2>1. CASE SubmitNotify(c)
    BY <2>1, GoToTyped DEF SubmitNotify, OnlyCalls
  <2>2. CASE UnpauseNotify(c)
    BY <2>2, GoToTyped DEF UnpauseNotify, OnlyCalls
  <2>3. CASE WaitAgain(c)
    BY <2>3, GoToTyped DEF WaitAgain, OnlyCalls
  <2>4. CASE WaitReturn(c) \/ WaitTimeout(c)
    BY <2>4, LeaveWaitMoves DEF WaitReturn, WaitTimeout, OnlyCalls
  <2>. QED BY <1>4, <2>1, <2>2, <2>3, <2>4 DEF ClientStep
<1>5. CASE ResetStep
  <2>1. CASE ResetWait
    BY <1>1, <2>1, ConstantsTyped, BeginWaitMoves DEF ResetWait, OnlyCalls
  <2>. QED BY <1>1, <1>5, <2>1 DEF ResetStep, StopThread, JoinThread, CreateThreads, RestorePause
<1>6. CASE SpuriousWakeup
  <2>1. ASSUME NEW c \in ClientsAt({"asleep"}), client' = [client EXCEPT ![c].pc = "awake"]
        PROVE  client' \in [Clients -> ClientState]
    BY <2>1, GoToTyped DEF ClientsAt, GoTo, OnlyCalls
  <2>. QED BY <1>1, <1>6, <2>1 DEF SpuriousWakeup
<1>. QED BY <1>2, <1>3, <1>4, <1>5, <1>6 DEF Next

ResetState == [pc : {"none", "wait", "waiting", "stop", "join", "create", "unpause", "dead"},
               op : {"none", "reset", "destroy"}, wasPaused : BOOLEAN, new : SUBSET Workers]

LEMMA ResetsTyped ==
    /\ NoReset \in ResetState
    /\ [NoReset EXCEPT !.pc = "wait", !.op = "destroy"] \in ResetState
    /\ \A b \in BOOLEAN, ws \in SUBSET Workers :
          [pc |-> "wait", op |-> "reset", wasPaused |-> b, new |-> ws] \in ResetState
    /\ \A r \in ResetState :
          \A pc \in {"none", "wait", "waiting", "stop", "join", "create", "unpause", "dead"} :
             [r EXCEPT !.pc = pc] \in ResetState
BY DEF ResetState, NoReset

LEMMA ResetsStep ==
    ASSUME TypeOK, Next
    PROVE  reset' \in ResetState
<1>1. reset \in ResetState /\ paused \in BOOLEAN
  BY DEF TypeOK, ResetState
<1>2. CASE NewCall
  <2>1. CASE ResetBegin
    <3>1. PICK new \in SUBSET Workers :
             reset' = [pc |-> "wait", op |-> "reset", wasPaused |-> paused, new |-> new]
      BY <2>1 DEF ResetBegin, ThreadSets
    <3>. QED BY <1>1, <3>1, ResetsTyped
  <2>2. CASE DestroyBegin
    BY <2>2, ResetsTyped DEF DestroyBegin
  <2>. QED BY <1>1, <1>2, <2>1, <2>2
           DEF NewCall, Wait, Purge, Pause, Unpause, Submit, BodySubmit
<1>3. ASSUME NEW w \in Workers, WorkerStep(w)
      PROVE  UNCHANGED reset
  BY <1>3 DEF WorkerStep, Enter, Wake, Fulfil, Retire, BodyNotify
<1>4. ASSUME NEW c \in Clients, ClientStep(c)
      PROVE  reset' \in ResetState
  <2>1. UNCHANGED reset \/ AfterWait(c)
    BY <1>4 DEF ClientStep, SubmitNotify, UnpauseNotify, WaitReturn, WaitAgain, WaitTimeout
  <2>2. reset' \in {reset, [reset EXCEPT !.pc = "stop"]}
    BY <2>1 DEF AfterWait
  <2>. QED BY <1>1, <2>2, ResetsTyped
<1>5. CASE ResetStep
  <2>1. ASSUME ResetWait PROVE reset' \in {[reset EXCEPT !.pc = "stop"], [reset EXCEPT !.pc = "waiting"]}
    BY <2>1 DEF ResetWait
  <2>2. ASSUME StopThread PROVE reset' = [reset EXCEPT !.pc = "join"]
    BY <2>2 DEF StopThread
  <2>3. ASSUME JoinThread
        PROVE  reset' \in {[reset EXCEPT !.pc = "stop"], [reset EXCEPT !.pc = "dead"],
                           [reset EXCEPT !.pc = "create"]}
    BY <2>3 DEF JoinThread
  <2>4. ASSUME CreateThreads \/ RestorePause
        PROVE  reset' \in {[reset EXCEPT !.pc = "unpause"], NoReset}
    BY <2>4 DEF CreateThreads, RestorePause
  <2>. QED BY <1>1, <1>5, <2>1, <2>2, <2>3, <2>4, ResetsTyped DEF ResetStep
<1>6. CASE SpuriousWakeup
  BY <1>1, <1>6 DEF SpuriousWakeup
<1>. QED BY <1>1, <1>2, <1>3, <1>4, <1>5, <1>6 DEF Next

LEMMA FlagsStep ==
    ASSUME TypeOK, Next
    PROVE  /\ paused' \in BOOLEAN /\ waiting' \in BOOLEAN
           /\ threads' \in SUBSET Workers /\ stopped' \in SUBSET Workers
           /\ bodyNotify' \in SUBSET Workers
<1>1. /\ paused \in BOOLEAN /\ waiting \in BOOLEAN
      /\ threads \in SUBSET Workers /\ stopped \in SUBSET Workers
      /\ bodyNotify \in SUBSET Workers
      /\ reset.new \in SUBSET Workers /\ reset.wasPaused \in BOOLEAN
  BY DEF TypeOK
<1>2. CASE NewCall
  <2>1. ASSUME NEW c \in Clients, Wait(c) \/ Purge(c) \/ Pause(c) \/ Unpause(c)
        PROVE  UNCHANGED <<threads, stopped, bodyNotify>> /\ paused' \in BOOLEAN /\ waiting' \in BOOLEAN
    BY <1>1, <2>1 DEF Wait, BeginWait, Purge, Pause, Unpause
  <2>2. ASSUME NEW s \in Submission, NEW c \in Clients, Submit(c, s)
        PROVE  UNCHANGED <<threads, stopped, bodyNotify, paused, waiting>>
    BY <2>2 DEF Submit
  <2>3. ASSUME NEW s \in Submission, NEW w \in Workers, BodySubmit(w, s)
        PROVE  UNCHANGED <<threads, stopped, paused, waiting>> /\ bodyNotify' \in SUBSET Workers
    BY <1>1, <2>3 DEF BodySubmit
  <2>4. CASE ResetBegin \/ DestroyBegin
    <3>1. use.pause \in BOOLEAN
      BY PoolAssumption DEF TypeOK
    <3>. QED BY <1>1, <2>4, <3>1 DEF ResetBegin, DestroyBegin
  <2>. QED BY <1>1, <1>2, <2>1, <2>2, <2>3, <2>4 DEF NewCall
<1>3. ASSUME NEW w \in Workers, WorkerStep(w)
      PROVE  UNCHANGED <<threads, stopped, paused, waiting>> /\ bodyNotify' \in SUBSET Workers
  BY <1>1, <1>3 DEF WorkerStep, Enter, Wake, Fulfil, Retire, BodyNotify
<1>4. ASSUME NEW c \in Clients, ClientStep(c)
      PROVE  UNCHANGED <<threads, stopped, paused, bodyNotify>> /\ waiting' \in BOOLEAN
  BY <1>1, <1>4 DEF ClientStep, SubmitNotify, UnpauseNotify, WaitReturn, WaitAgain, WaitTimeout
<1>5. CASE ResetStep
  <2>1. CASE ResetWait \/ JoinThread
    BY <1>1, <2>1 DEF ResetWait, BeginWait, JoinThread
  <2>2. CASE StopThread
    BY <1>1, <2>2 DEF StopThread
  <2>3. CASE CreateThreads \/ RestorePause
    BY <1>1, <2>3 DEF CreateThreads, RestorePause
  <2>. QED BY <1>5, <2>1, <2>2, <2>3 DEF ResetStep
<1>6. CASE SpuriousWakeup
  BY <1>1, <1>6 DEF SpuriousWakeup
<1>. QED BY <1>1, <1>2, <1>3, <1>4, <1>5, <1>6 DEF Next

LEMMA TypeStep ==
    ASSUME TypeOK, RunningCount', Next
    PROVE  TypeOK'
<1>1. use' \in Uses
  BY DEF TypeOK, Next
<1>2. tasks' \in Seq(Submission)
  <2>1. tasks \in Seq(Submission)
    BY DEF TypeOK
  <2>2. CASE UNCHANGED tasks
    BY <2>1, <2>2
  <2>3. CASE tasks' = <<>>
    BY <2>3
  <2>4. CASE tasks # <<>> /\ tasks' = Tail(tasks)
    BY <2>1, <2>4
  <2>5. ASSUME NEW s \in Submission, tasks' = Append(tasks, s)
        PROVE  tasks' \in Seq(Submission)
    BY <2>1, <2>5
  <2>. QED BY <2>2, <2>3, <2>4, <2>5, QueueStep
<1>3. tasksRunning' \in 0 .. Cardinality(Workers)
  <2>1. WorkersAt({"enter", "run", "closing"})' \in SUBSET Workers /\ IsFiniteSet(Workers)
    BY PoolAssumption DEF WorkersAt
  <2>2. IsFiniteSet(WorkersAt({"enter", "run", "closing"})')
    BY <2>1, FS_Subset
  <2>3. tasksRunning' = Cardinality(WorkersAt({"enter", "run", "closing"})')
    BY DEF RunningCount
  <2>4. tasksRunning' <= Cardinality(Workers)
    BY <2>1, <2>3, FS_Subset
  <2>5. tasksRunning' \in Nat
    BY <2>2, <2>3, FS_CardinalityType
  <2>. QED BY <2>4, <2>5, ConstantsTyped
<1>. QED BY <1>1, <1>2, <1>3, WorkersStep, ClientsStep, ResetsStep, FlagsStep DEF TypeOK, ResetState

-----------------------------------------------------------------------------
(* PauseIsAnOption, OwnerInv, ThreadsInv and ResetIsPaused are preserved *)

(* The owner's reset() or destructor does not go on, and if there is one   *)
(* the owner stays where it is, or in the same wait().                     *)
OwnerRests ==
    /\ UNCHANGED <<use, reset>>
    /\ \/ reset.pc = "none"
       \/ client'[Owner] = client[Owner]
       \/ /\ client[Owner].pc \in Awaiting /\ client'[Owner].pc \in Awaiting
          /\ client'[Owner].timed = client[Owner].timed

LEMMA OwnerRestsStep ==
    ASSUME OwnerInv, OwnerRests
    PROVE  OwnerInv'
<1>1. Idle.pc \notin Awaiting
  BY DEF Idle, Awaiting
<1>. QED BY <1>1 DEF OwnerInv, OwnerRests, Awaiting

(* A call that begins: the owner begins none while it resets. *)
LEMMA CallsRest ==
    ASSUME TypeOK, NEW c \in Clients, NEW op, MayBegin(c, op), UNCHANGED <<use, reset>>,
           OnlyCalls(c) \/ UNCHANGED client
    PROVE  OwnerRests
BY ConstantsTyped DEF MayBegin, OwnerRests, OnlyCalls

(* A client goes on that is not the owner in reset(): or it is, in wait(). *)
LEMMA ClientsRest ==
    ASSUME OwnerInv, NEW c \in Clients, UNCHANGED <<use, reset>>, OnlyCalls(c),
           \/ client[c].pc \in {"notify", "notifyAll"}
           \/ client[c].pc \in Awaiting /\ client[c].timed
           \/ /\ client[c].pc \in Awaiting /\ client'[c].pc \in Awaiting
              /\ client'[c].timed = client[c].timed
    PROVE  OwnerRests
<1>1. CASE c = Owner
  BY <1>1, ConstantsTyped DEF OwnerInv, OwnerRests, OnlyCalls, Idle, Awaiting
<1>2. CASE c # Owner
  BY <1>2, ConstantsTyped DEF OwnerRests, OnlyCalls
<1>. QED BY <1>1, <1>2

LEMMA NewCallsOfOwner ==
    ASSUME TypeOK, OwnerInv, NewCall, UNCHANGED use
    PROVE  \/ OwnerRests
           \/ /\ reset.pc = "none" /\ "reset" \in use.may[Owner]
              /\ reset'.pc = "wait" /\ reset'.op = "reset"
              /\ paused' = use.pause
              /\ client[Owner] = Idle /\ UNCHANGED client
           \/ /\ reset.pc = "none" /\ reset'.pc = "wait" /\ reset'.op = "destroy"
              /\ client[Owner] = Idle /\ UNCHANGED <<client, paused>>
<1>1. ASSUME NEW c \in Clients, Wait(c)
      PROVE  OwnerRests
  <2>1. PICK op \in Operations, timed \in BOOLEAN : MayBegin(c, op) /\ BeginWait(c, timed)
    BY <1>1 DEF Wait, Operations
  <2>2. OnlyCalls(c) \/ UNCHANGED client
    BY <2>1, BeginWaitMoves
  <2>. QED BY <1>1, <2>1, <2>2, CallsRest DEF Wait
<1>2. ASSUME NEW c \in Clients, NEW s \in Submission, Submit(c, s)
      PROVE  OwnerRests
  <2>1. OnlyCalls(c)
    BY <1>2, GoToTyped DEF Submit
  <2>. QED BY <1>2, <2>1, CallsRest DEF Submit
<1>3. ASSUME NEW c \in Clients, Unpause(c)
      PROVE  OwnerRests
  <2>1. OnlyCalls(c)
    BY <1>3, GoToTyped DEF Unpause
  <2>. QED BY <1>3, <2>1, CallsRest DEF Unpause
<1>4. ASSUME NEW c \in Clients, Purge(c) \/ Pause(c)
      PROVE  OwnerRests
  BY <1>4 DEF Purge, Pause, OwnerRests
<1>5. ASSUME NEW w \in Workers, NEW s \in Submission, BodySubmit(w, s)
      PROVE  OwnerRests
  BY <1>5 DEF BodySubmit, OwnerRests
<1>6. CASE ResetBegin
  BY <1>6, ConstantsTyped DEF ResetBegin, MayBegin
<1>7. CASE DestroyBegin
  <2>1. reset'.pc = "wait" /\ reset'.op = "destroy"
    BY <1>7 DEF DestroyBegin, NoReset
  <2>. QED BY <1>7, <2>1, ConstantsTyped DEF DestroyBegin, MayBegin
<1>. QED BY <1>1, <1>2, <1>3, <1>4, <1>5, <1>6, <1>7 DEF NewCall

LEMMA WorkersLetRest ==
    ASSUME TypeOK, NEW w \in Workers, WorkerStep(w), UNCHANGED use
    PROVE  OwnerRests
<1>1. UNCHANGED client \/ NotifyDone
  BY DEF WorkerStep, Enter, Wake, Fulfil, Retire, BodyNotify
<1>2. UNCHANGED reset
  BY DEF WorkerStep, Enter, Wake, Fulfil, Retire, BodyNotify
<1>3. CASE NotifyDone
  <2>1. client \in [Clients -> ClientState] /\ Owner \in Clients
    BY ConstantsTyped DEF TypeOK
  <2>2. /\ client'[Owner].timed = client[Owner].timed
        /\ client'[Owner].pc \in Awaiting <=> client[Owner].pc \in Awaiting
        /\ client[Owner].pc # "asleep" => client'[Owner] = client[Owner]
    BY <1>3, <2>1, NotifyDoneMoves
  <2>. QED BY <1>2, <2>2 DEF OwnerRests, Awaiting
<1>. QED BY <1>1, <1>2, <1>3 DEF OwnerRests

LEMMA ClientStepsOfOwner ==
    ASSUME TypeOK, OwnerInv, NEW c \in Clients, ClientStep(c), UNCHANGED use
    PROVE  \/ OwnerRests
           \/ /\ c = Owner /\ reset.pc = "waiting" /\ Done(tasksRunning)
              /\ reset' = [reset EXCEPT !.pc = "stop"]
              /\ client'[Owner] = Idle
<1>1. CASE SubmitNotify(c) \/ UnpauseNotify(c)
  <2>1. OnlyCalls(c) /\ UNCHANGED reset /\ client[c].pc \in {"notify", "notifyAll"}
    BY <1>1, GoToTyped DEF SubmitNotify, UnpauseNotify
  <2>. QED BY <2>1, ClientsRest
<1>2. CASE WaitAgain(c)
  <2>1. /\ OnlyCalls(c) /\ client'[c].pc = "asleep" /\ client'[c].timed = client[c].timed
        /\ UNCHANGED reset /\ client[c].pc = "awake"
    BY <1>2, GoToTyped DEF WaitAgain
  <2>. QED BY <2>1, ClientsRest DEF Awaiting
<1>3. CASE WaitTimeout(c)
  <2>1. OnlyCalls(c) /\ UNCHANGED reset /\ client[c].pc \in Awaiting /\ client[c].timed
    BY <1>3, LeaveWaitMoves DEF WaitTimeout
  <2>. QED BY <2>1, ClientsRest
<1>4. CASE WaitReturn(c)
  <2>1. OnlyCalls(c) /\ client'[c] = Idle /\ client[c].pc = "awake" /\ AfterWait(c) /\ Done(tasksRunning)
    BY <1>4, LeaveWaitMoves DEF WaitReturn
  <2>2. CASE c = Owner /\ reset.pc = "waiting"
    <3>1. reset' = [reset EXCEPT !.pc = "stop"]
      BY <2>1, <2>2 DEF AfterWait
    <3>. QED BY <2>1, <2>2, <3>1
  <2>3. CASE c = Owner /\ reset.pc # "waiting"
    <3>1. UNCHANGED reset
      BY <2>1, <2>3 DEF AfterWait
    <3>2. client[Owner] # Idle
      BY <2>1, <2>3 DEF Idle
    <3>3. reset.pc = "none"
      BY <2>3, <3>2 DEF OwnerInv
    <3>. QED BY <3>1, <3>3 DEF OwnerRests
  <2>4. CASE c # Owner
    BY <2>1, <2>4, ConstantsTyped DEF AfterWait, OwnerRests, OnlyCalls
  <2>. QED BY <2>2, <2>3, <2>4
<1>. QED BY <1>1, <1>2, <1>3, <1>4 DEF ClientStep

LEMMA SpuriousRests ==
    ASSUME TypeOK, OwnerInv, SpuriousWakeup, UNCHANGED use
    PROVE  OwnerRests
<1>1. CASE UNCHANGED client
  BY <1>1 DEF SpuriousWakeup, OwnerRests
<1>2. ASSUME NEW c \in ClientsAt({"asleep"}), client' = [client EXCEPT ![c].pc = "awake"]
      PROVE  OwnerRests
  <2>1. /\ c \in Clients /\ client[c].pc = "asleep"
        /\ OnlyCalls(c) /\ client'[c].pc = "awake" /\ client'[c].timed = client[c].timed
    BY <1>2, GoToTyped DEF ClientsAt, GoTo
  <2>2. UNCHANGED reset
    BY DEF SpuriousWakeup
  <2>. QED BY <2>1, <2>2, ClientsRest DEF Awaiting
<1>. QED BY <1>1, <1>2 DEF SpuriousWakeup

LEMMA OwnerStep ==
    ASSUME TypeOK, OwnerInv, Next
    PROVE  OwnerInv'
<1>1. UNCHANGED use /\ reset \in ResetState
  BY DEF Next, TypeOK, ResetState
<1>2. CASE NewCall
  <2>1. ASSUME reset'.pc = "wait", reset'.op \in {"reset", "destroy"},
               reset'.op = "reset" => "reset" \in use.may[Owner],
               client[Owner] = Idle, UNCHANGED client
        PROVE  OwnerInv'
    BY <1>1, <2>1 DEF OwnerInv
  <2>. QED BY <1>1, <1>2, <2>1, NewCallsOfOwner, OwnerRestsStep
<1>3. ASSUME NEW w \in Workers, WorkerStep(w)
      PROVE  OwnerInv'
  BY <1>1, <1>3, WorkersLetRest, OwnerRestsStep
<1>4. ASSUME NEW c \in Clients, ClientStep(c)
      PROVE  OwnerInv'
  <2>1. ASSUME reset.pc = "waiting", reset' = [reset EXCEPT !.pc = "stop"], client'[Owner] = Idle
        PROVE  OwnerInv'
    <3>1. reset'.pc = "stop" /\ reset'.op = reset.op
      BY <1>1, <2>1 DEF ResetState
    <3>. QED BY <1>1, <2>1, <3>1 DEF OwnerInv
  <2>. QED BY <1>1, <1>4, <2>1, ClientStepsOfOwner, OwnerRestsStep
<1>5. CASE ResetStep
  <2>1. CASE ResetWait
    <3>1. /\ reset.pc = "wait"
          /\ reset' = [reset EXCEPT !.pc = IF Done(tasksRunning) THEN "stop" ELSE "waiting"]
          /\ BeginWait(Owner, FALSE)
      BY <2>1 DEF ResetWait
    <3>2. reset'.op = reset.op /\ reset'.pc = IF Done(tasksRunning) THEN "stop" ELSE "waiting"
      BY <1>1, <3>1 DEF ResetState
    <3>3. client[Owner] = Idle
      BY <3>1 DEF OwnerInv
    <3>4. CASE Done(tasksRunning)
      <4>1. UNCHANGED client
        BY <3>1, <3>4, ConstantsTyped, BeginWaitMoves
      <4>. QED BY <1>1, <3>1, <3>2, <3>3, <3>4, <4>1 DEF OwnerInv
    <3>5. CASE ~Done(tasksRunning)
      <4>1. client'[Owner].pc = "asleep" /\ client'[Owner].timed = FALSE
        BY <3>1, <3>5, ConstantsTyped, BeginWaitMoves
      <4>2. client'[Owner].pc \in Awaiting /\ ~client'[Owner].timed
        BY <4>1 DEF Awaiting
      <4>. QED BY <1>1, <3>1, <3>2, <3>5, <4>2 DEF OwnerInv
    <3>. QED BY <3>4, <3>5
  <2>2. CASE StopThread
    <3>1. reset.pc = "stop" /\ reset' = [reset EXCEPT !.pc = "join"] /\ UNCHANGED client
      BY <2>2 DEF StopThread
    <3>2. reset'.pc = "join" /\ reset'.op = reset.op
      BY <1>1, <3>1 DEF ResetState
    <3>. QED BY <1>1, <3>1, <3>2 DEF OwnerInv
  <2>3. CASE JoinThread
    <3>1. /\ reset.pc = "join" /\ UNCHANGED client
          /\ \E pc \in {"stop", "dead", "create"} :
                /\ reset' = [reset EXCEPT !.pc = pc]
                /\ pc = "create" => reset.op # "destroy"
      BY <2>3 DEF JoinThread
    <3>2. PICK pc \in {"stop", "dead", "create"} :
                /\ reset' = [reset EXCEPT !.pc = pc]
                /\ pc = "create" => reset.op # "destroy"
      BY <3>1
    <3>3. reset'.pc = pc /\ reset'.op = reset.op /\ reset.op \in {"none", "reset", "destroy"}
      BY <1>1, <3>2 DEF ResetState
    <3>. QED BY <1>1, <3>1, <3>2, <3>3 DEF OwnerInv
  <2>4. CASE CreateThreads
    <3>1. /\ reset.pc = "create" /\ UNCHANGED client
          /\ reset' = IF use.pause THEN [reset EXCEPT !.pc = "unpause"] ELSE NoReset
      BY <2>4 DEF CreateThreads
    <3>2. CASE use.pause
      <4>1. reset'.pc = "unpause" /\ reset'.op = reset.op
        BY <1>1, <3>1, <3>2 DEF ResetState
      <4>. QED BY <1>1, <3>1, <3>2, <4>1 DEF OwnerInv
    <3>3. CASE ~use.pause
      BY <1>1, <3>1, <3>3 DEF OwnerInv, NoReset
    <3>. QED BY <3>2, <3>3
  <2>5. CASE RestorePause
    BY <1>1, <2>5 DEF RestorePause, OwnerInv, NoReset
  <2>. QED BY <1>5, <2>1, <2>2, <2>3, <2>4, <2>5 DEF ResetStep
<1>6. CASE SpuriousWakeup
  BY <1>1, <1>6, SpuriousRests, OwnerRestsStep
<1>. QED BY <1>2, <1>3, <1>4, <1>5, <1>6 DEF Next

(* Who may pause may do so in a pool with the flag only. *)
LEMMA PausersHaveTheFlag ==
    ASSUME TypeOK, NEW c \in Clients, "pause" \in use.may[c] \/ "unpause" \in use.may[c]
    PROVE  use.pause
<1>1. use \in Uses
  BY DEF TypeOK
<1>2. ~use.pause => use.may[c] \cap {"pause", "unpause"} = {}
  BY <1>1, PoolAssumption
<1>. QED BY <1>2

(* The steps that change the flag paused. *)
LEMMA PausedSteps ==
    ASSUME Next
    PROVE  \/ UNCHANGED paused
           \/ \E c \in Clients : Pause(c) \/ Unpause(c)
           \/ ResetBegin
           \/ RestorePause
<1>1. CASE NewCall
  BY <1>1 DEF NewCall, Wait, BeginWait, Purge, Submit, BodySubmit, DestroyBegin
<1>2. ASSUME NEW w \in Workers, WorkerStep(w)
      PROVE  UNCHANGED paused
  BY <1>2 DEF WorkerStep, Enter, Wake, Fulfil, Retire, BodyNotify
<1>3. ASSUME NEW c \in Clients, ClientStep(c)
      PROVE  UNCHANGED paused
  BY <1>3 DEF ClientStep, SubmitNotify, UnpauseNotify, WaitReturn, WaitAgain, WaitTimeout
<1>4. CASE ResetStep
  BY <1>4 DEF ResetStep, ResetWait, BeginWait, StopThread, JoinThread, CreateThreads
<1>5. CASE SpuriousWakeup
  BY <1>5 DEF SpuriousWakeup
<1>. QED BY <1>1, <1>2, <1>3, <1>4, <1>5 DEF Next

LEMMA PauseStep ==
    ASSUME TypeOK, PauseIsAnOption, OwnerInv, Next
    PROVE  PauseIsAnOption'
<1>1. UNCHANGED use
  BY DEF Next
<1>2. CASE UNCHANGED paused
  BY <1>1, <1>2 DEF PauseIsAnOption
<1>3. ASSUME NEW c \in Clients, Pause(c) \/ Unpause(c)
      PROVE  PauseIsAnOption'
  <2>1. "pause" \in use.may[c] \/ "unpause" \in use.may[c]
    BY <1>3 DEF Pause, Unpause, MayBegin
  <2>2. use.pause
    BY <2>1, PausersHaveTheFlag
  <2>. QED BY <1>1, <2>2 DEF PauseIsAnOption
<1>4. CASE ResetBegin
  BY <1>1, <1>4 DEF ResetBegin, PauseIsAnOption
<1>5. CASE RestorePause
  BY <1>1, <1>5 DEF RestorePause, OwnerInv, PauseIsAnOption
<1>. QED BY <1>2, <1>3, <1>4, <1>5, PausedSteps

(* The steps that change what the owner's reset() is for. *)
LEMMA OpSteps ==
    ASSUME TypeOK, Next
    PROVE  reset'.op = "reset" => reset.op = "reset" \/ ResetBegin
<1>1. reset \in ResetState
  BY DEF TypeOK, ResetState
<1>2. \A pc \in {"none", "wait", "waiting", "stop", "join", "create", "unpause", "dead"} :
         reset' = [reset EXCEPT !.pc = pc] => reset'.op = reset.op
  BY <1>1 DEF ResetState
<1>3. CASE NewCall
  <2>1. CASE DestroyBegin
    <3>1. reset'.op = "destroy"
      BY <2>1 DEF DestroyBegin, NoReset
    <3>. QED BY <3>1
  <2>. QED BY <1>3, <2>1 DEF NewCall, Wait, Purge, Pause, Unpause, Submit, BodySubmit
<1>4. ASSUME NEW w \in Workers, WorkerStep(w)
      PROVE  UNCHANGED reset
  BY <1>4 DEF WorkerStep, Enter, Wake, Fulfil, Retire, BodyNotify
<1>5. ASSUME NEW c \in Clients, ClientStep(c)
      PROVE  reset'.op = reset.op
  <2>1. UNCHANGED reset \/ AfterWait(c)
    BY <1>5 DEF ClientStep, SubmitNotify, UnpauseNotify, WaitReturn, WaitAgain, WaitTimeout
  <2>2. reset' \in {reset, [reset EXCEPT !.pc = "stop"]}
    BY <2>1 DEF AfterWait
  <2>. QED BY <1>2, <2>2
<1>6. CASE ResetStep
  <2>1. ASSUME ResetWait PROVE reset' \in {[reset EXCEPT !.pc = "stop"], [reset EXCEPT !.pc = "waiting"]}
    BY <2>1 DEF ResetWait
  <2>2. ASSUME StopThread PROVE reset' = [reset EXCEPT !.pc = "join"]
    BY <2>2 DEF StopThread
  <2>3. ASSUME JoinThread
        PROVE  reset' \in {[reset EXCEPT !.pc = "stop"], [reset EXCEPT !.pc = "dead"],
                           [reset EXCEPT !.pc = "create"]}
    BY <2>3 DEF JoinThread
  <2>4. ASSUME CreateThreads \/ RestorePause
        PROVE  reset' \in {[reset EXCEPT !.pc = "unpause"], NoReset}
    BY <2>4 DEF CreateThreads, RestorePause
  <2>5. NoReset.op = "none"
    BY DEF NoReset
  <2>. QED BY <1>2, <1>6, <2>1, <2>2, <2>3, <2>4, <2>5 DEF ResetStep
<1>7. CASE SpuriousWakeup
  BY <1>7 DEF SpuriousWakeup
<1>. QED BY <1>3, <1>4, <1>5, <1>6, <1>7 DEF Next

LEMMA ResetIsPausedStep ==
    ASSUME TypeOK, OwnerInv, ResetIsPaused, Next
    PROVE  ResetIsPaused'
<1>. SUFFICES ASSUME QueueIsTheOwners', reset'.op = "reset"
              PROVE  paused'
  BY DEF ResetIsPaused
<1>1. UNCHANGED use /\ QueueIsTheOwners
  BY DEF Next, QueueIsTheOwners
<1>2. CASE ResetBegin
  BY <1>1, <1>2 DEF ResetBegin, QueueIsTheOwners
<1>3. CASE ~ResetBegin
  <2>1. reset.op = "reset" /\ paused
    BY <1>1, <1>3, OpSteps DEF ResetIsPaused
  <2>2. ASSUME NEW c \in Clients, Unpause(c)
        PROVE  FALSE
    <3>1. "unpause" \in use.may[c] /\ (c = Owner => reset.pc = "none")
      BY <2>2 DEF Unpause, MayBegin
    <3>2. c = Owner
      BY <1>1, <3>1 DEF QueueIsTheOwners
    <3>. QED BY <2>1, <3>1, <3>2 DEF OwnerInv
  <2>3. ASSUME NEW c \in Clients, Pause(c)
        PROVE  paused'
    BY <2>3 DEF Pause
  <2>4. ~RestorePause
    BY DEF RestorePause, NoReset
  <2>. QED BY <1>3, <2>1, <2>2, <2>3, <2>4, PausedSteps
<1>. QED BY <1>2, <1>3

(* A worker that has ended or was never started does not move. *)
OnlyThreadsMove ==
    \A w \in Workers : worker'[w] = worker[w] \/ worker[w].pc \notin {"none", "exited"}

LEMMA ThreadsMove ==
    ASSUME ThreadsInv, OnlyThreadsMove, UNCHANGED threads, stopped' \subseteq threads,
           reset'.pc = "create" => reset.pc = "create"
    PROVE  ThreadsInv'
BY DEF ThreadsInv, OnlyThreadsMove

LEMMA MovesOfThreads ==
    /\ UNCHANGED worker => OnlyThreadsMove
    /\ \A w \in Workers :
          OnlyMoves(w) /\ worker[w].pc \notin {"none", "exited"} => OnlyThreadsMove
    /\ \A w \in Workers : Woken(w) => OnlyThreadsMove
BY DEF OnlyThreadsMove, OnlyMoves, Woken

LEMMA NotifiesThreads ==
    ASSUME TypeOK, NotifyOne \/ NotifyAll
    PROVE  OnlyThreadsMove
<1>1. CASE NotifyOne
  BY <1>1, NotifyOneMoves, MovesOfThreads
<1>2. CASE NotifyAll
  <2>1. worker \in [Workers -> WorkerState]
    BY DEF TypeOK
  <2>. QED BY <1>2, <2>1, NotifyAllMoves DEF OnlyThreadsMove
<1>. QED BY <1>1, <1>2

LEMMA ThreadsStep ==
    ASSUME TypeOK, OwnerInv, ThreadsInv, Next
    PROVE  ThreadsInv'
<1>1. reset \in ResetState
  BY DEF TypeOK, ResetState
<1>2. CASE NewCall
  <2>1. UNCHANGED <<worker, threads, stopped>>
    BY <1>2 DEF NewCall, Wait, BeginWait, Purge, Pause, Unpause, Submit, BodySubmit,
                ResetBegin, DestroyBegin
  <2>2. UNCHANGED reset \/ reset'.pc = "wait"
    <3>1. CASE DestroyBegin
      <4>1. reset'.pc = "wait"
        BY <3>1 DEF DestroyBegin, NoReset
      <4>. QED BY <4>1
    <3>2. CASE ResetBegin
      BY <3>2 DEF ResetBegin
    <3>. QED BY <1>2, <3>1, <3>2 DEF NewCall, Wait, Purge, Pause, Unpause, Submit, BodySubmit
  <2>3. stopped \subseteq threads
    BY DEF ThreadsInv
  <2>. QED BY <2>1, <2>2, <2>3, MovesOfThreads, ThreadsMove
<1>3. ASSUME NEW w \in Workers, WorkerStep(w)
      PROVE  ThreadsInv'
  <2>1. UNCHANGED <<threads, stopped, reset>>
    BY <1>3 DEF WorkerStep, Enter, Wake, Fulfil, Retire, BodyNotify
  <2>2. OnlyThreadsMove
    <3>1. CASE Enter(w)
      <4>1. OnlyMoves(w) /\ worker[w].pc = "enter"
        BY <3>1, TakeTaskMoves DEF Enter
      <4>. QED BY <4>1, MovesOfThreads
    <3>2. CASE Wake(w)
      <4>1. OnlyMoves(w) /\ worker[w].pc = "awake"
        BY <3>2, TakeTaskMoves DEF Wake
      <4>. QED BY <4>1, MovesOfThreads
    <3>3. CASE Fulfil(w)
      BY <3>3, FulfilMoves, MovesOfThreads
    <3>4. CASE Retire(w)
      BY <3>4, RetireMoves, MovesOfThreads
    <3>5. CASE BodyNotify(w)
      BY <3>5, NotifiesThreads DEF BodyNotify
    <3>. QED BY <1>3, <3>1, <3>2, <3>3, <3>4, <3>5 DEF WorkerStep
  <2>3. stopped \subseteq threads
    BY DEF ThreadsInv
  <2>. QED BY <2>1, <2>2, <2>3, ThreadsMove
<1>4. ASSUME NEW c \in Clients, ClientStep(c)
      PROVE  ThreadsInv'
  <2>1. UNCHANGED <<threads, stopped>> /\ (UNCHANGED reset \/ AfterWait(c))
    BY <1>4 DEF ClientStep, SubmitNotify, UnpauseNotify, WaitReturn, WaitAgain, WaitTimeout
  <2>2. OnlyThreadsMove
    <3>1. UNCHANGED worker \/ NotifyOne \/ NotifyAll
      BY <1>4 DEF ClientStep, SubmitNotify, UnpauseNotify, WaitReturn, WaitAgain, WaitTimeout
    <3>. QED BY <3>1, NotifiesThreads, MovesOfThreads
  <2>3. reset' \in {reset, [reset EXCEPT !.pc = "stop"]}
    BY <2>1 DEF AfterWait
  <2>4. reset'.pc = "create" => reset.pc = "create"
    BY <1>1, <2>3 DEF ResetState
  <2>5. stopped \subseteq threads
    BY DEF ThreadsInv
  <2>. QED BY <2>1, <2>2, <2>4, <2>5, ThreadsMove
<1>5. CASE ResetStep
  <2>1. CASE ResetWait
    <3>1. UNCHANGED <<worker, threads, stopped>> /\ reset'.pc # "create"
      BY <1>1, <2>1 DEF ResetWait, BeginWait, ResetState
    <3>. QED BY <3>1 DEF ThreadsInv
  <2>2. CASE StopThread
    <3>1. PICK w \in threads : /\ stopped' = stopped \cup {w}
                               /\ IF worker[w].pc = "asleep" THEN WakeWorker(w) ELSE UNCHANGED worker
      BY <2>2 DEF StopThread
    <3>2. UNCHANGED threads /\ reset'.pc = "join" /\ w \in Workers
      BY <1>1, <2>2, <3>1 DEF StopThread, ResetState, TypeOK
    <3>3. OnlyThreadsMove
      BY <3>1, <3>2, WakeMoves, MovesOfThreads DEF WorkersAt
    <3>4. stopped' \subseteq threads
      BY <3>1 DEF ThreadsInv
    <3>. QED BY <3>2, <3>3, <3>4, ThreadsMove
  <2>3. CASE JoinThread
    <3>1. /\ UNCHANGED <<threads, stopped, worker>>
          /\ \A w \in stopped : worker[w].pc = "exited"
      BY <2>3 DEF JoinThread
    <3>2. CASE stopped # threads
      <4>1. reset' = [reset EXCEPT !.pc = "stop"]
        BY <2>3, <3>2 DEF JoinThread
      <4>2. reset'.pc = "stop"
        BY <1>1, <4>1 DEF ResetState
      <4>. QED BY <3>1, <4>2 DEF ThreadsInv
    <3>3. CASE stopped = threads
      BY <3>1, <3>3 DEF ThreadsInv
    <3>. QED BY <3>2, <3>3
  <2>4. CASE CreateThreads
    <3>1. /\ threads' = reset.new /\ stopped' = {}
          /\ \A w \in Workers \ reset.new : worker'[w].pc = "none"
      BY <2>4 DEF CreateThreads, Started
    <3>2. reset' \in {[reset EXCEPT !.pc = "unpause"], NoReset}
      BY <2>4 DEF CreateThreads
    <3>3. reset'.pc # "create"
      BY <1>1, <3>2 DEF ResetState, NoReset
    <3>. QED BY <3>1, <3>3 DEF ThreadsInv
  <2>5. CASE RestorePause
    <3>1. UNCHANGED <<threads, stopped, worker>> /\ reset'.pc = "none"
      BY <2>5 DEF RestorePause, NoReset
    <3>. QED BY <3>1 DEF ThreadsInv
  <2>. QED BY <1>5, <2>1, <2>2, <2>3, <2>4, <2>5 DEF ResetStep
<1>6. CASE SpuriousWakeup
  <2>1. UNCHANGED <<threads, stopped, reset>>
    BY <1>6 DEF SpuriousWakeup
  <2>2. OnlyThreadsMove
    BY <1>6, WakeMoves, MovesOfThreads DEF SpuriousWakeup
  <2>3. stopped \subseteq threads
    BY DEF ThreadsInv
  <2>. QED BY <2>1, <2>2, <2>3, ThreadsMove
<1>. QED BY <1>2, <1>3, <1>4, <1>5, <1>6 DEF Next

-----------------------------------------------------------------------------
(* NoStrandedTask is preserved *)

(* The workers on their way to the queue, and those who will notify one. *)
Coming   == Cardinality(WorkersAt({"enter", "awake"}))
Promised == Cardinality(ClientsAt({"notify"}))
InBodies == Cardinality(bodyNotify)

LEMMA SupplyTyped ==
    TypeOK => Len(tasks) \in Nat /\ Coming \in Nat /\ Promised \in Nat /\ InBodies \in Nat
              /\ IsFiniteSet(bodyNotify)
<1>. SUFFICES ASSUME TypeOK
              PROVE  Len(tasks) \in Nat /\ Coming \in Nat /\ Promised \in Nat /\ InBodies \in Nat
                     /\ IsFiniteSet(bodyNotify)
  OBVIOUS
<1>1. Len(tasks) \in Nat
  BY DEF TypeOK
<1>2. IsFiniteSet(WorkersAt({"enter", "awake"}))
  BY WorkersAreFinite
<1>3. Coming \in Nat
  BY <1>2, FS_CardinalityType DEF Coming
<1>4. Promised \in Nat
  BY ClientsAreFinite DEF Promised
<1>5. IsFiniteSet(Workers) /\ bodyNotify \in SUBSET Workers
  BY PoolAssumption DEF TypeOK
<1>6. IsFiniteSet(bodyNotify)
  BY <1>5, FS_Subset
<1>7. InBodies \in Nat
  BY <1>6, FS_CardinalityType DEF InBodies
<1>. QED BY <1>1, <1>3, <1>4, <1>6, <1>7

LEMMA SupplyTypedNext ==
    (TypeOK => Len(tasks) \in Nat /\ Coming \in Nat /\ Promised \in Nat /\ InBodies \in Nat
              /\ IsFiniteSet(bodyNotify))'
BY SupplyTyped, PTL

(* The queue grows by no more than what was promised or is on its way. *)
LEMMA Balanced ==
    ASSUME TypeOK, TypeOK', NoStrandedTask, UNCHANGED <<use, paused, stopped>>,
           ClientsAt({"notifyAll"})' = ClientsAt({"notifyAll"}),
           WorkersAt({"asleep"})' \subseteq WorkersAt({"asleep"}),
           \/ WorkersAt({"asleep"}) = {}
           \/ Len(tasks') - (Coming' + Promised' + InBodies')
                <= Len(tasks) - (Coming + Promised + InBodies)
    PROVE  NoStrandedTask'
<1>1. /\ Len(tasks) \in Nat /\ Coming \in Nat /\ Promised \in Nat /\ InBodies \in Nat
      /\ Len(tasks') \in Nat /\ Coming' \in Nat /\ Promised' \in Nat /\ InBodies' \in Nat
  BY SupplyTyped, SupplyTypedNext
<1>2. CASE Len(tasks) <= Coming + Promised + InBodies /\ WorkersAt({"asleep"}) # {}
  <2>1. Len(tasks') <= Coming' + Promised' + InBodies'
    BY <1>1, <1>2
  <2>. QED BY <2>1 DEF NoStrandedTask, Coming, Promised, InBodies
<1>3. CASE ~(Len(tasks) <= Coming + Promised + InBodies) \/ WorkersAt({"asleep"}) = {}
  BY <1>3 DEF NoStrandedTask, Coming, Promised, InBodies
<1>. QED BY <1>2, <1>3

(* Nothing is left in the queue. *)
LEMMA EmptyIsNotStranded ==
    ASSUME TypeOK', tasks' = <<>>
    PROVE  NoStrandedTask'
<1>1. Coming' \in Nat /\ Promised' \in Nat /\ InBodies' \in Nat
  BY SupplyTypedNext
<1>2. Len(tasks') = 0
  <2>1. Len(<<>>) = 0
    OBVIOUS
  <2>. QED BY <2>1, Zenon
<1>3. Len(tasks') <= Coming' + Promised' + InBodies'
  <2>1. ASSUME NEW a \in Nat, NEW b \in Nat, NEW c \in Nat
        PROVE  0 <= a + b + c
    OBVIOUS
  <2>2. 0 <= Coming' + Promised' + InBodies'
    BY <1>1, <2>1, Zenon
  <2>. QED BY <1>2, <2>2, Zenon
<1>. QED BY <1>3 DEF NoStrandedTask, Coming, Promised, InBodies

(* A client that neither has nor gets a notification to send. *)
LEMMA PromisesKept ==
    ASSUME NEW c \in Clients, OnlyCalls(c),
           client[c].pc \notin {"notify", "notifyAll"}, client'[c].pc \notin {"notify", "notifyAll"}
    PROVE  ClientsAt({"notify"})' = ClientsAt({"notify"}) /\ ClientsAt({"notifyAll"})' = ClientsAt({"notifyAll"})
<1>1. ClientsAt({"notify"})' = ClientsAt({"notify"})
  BY ClientMoves
<1>2. ClientsAt({"notifyAll"})' = ClientsAt({"notifyAll"})
  BY ClientMoves
<1>. QED BY <1>1, <1>2

LEMMA PromisesUnchanged ==
    ASSUME UNCHANGED client
    PROVE  ClientsAt({"notify"})' = ClientsAt({"notify"}) /\ ClientsAt({"notifyAll"})' = ClientsAt({"notifyAll"})
BY DEF ClientsAt

LEMMA NotifyDoneKeepsPromises ==
    ASSUME TypeOK, NotifyDone
    PROVE  ClientsAt({"notify"})' = ClientsAt({"notify"}) /\ ClientsAt({"notifyAll"})' = ClientsAt({"notifyAll"})
<1>1. client \in [Clients -> ClientState]
  BY DEF TypeOK
<1>2. \A c \in Clients : /\ client'[c].pc \in Awaiting <=> client[c].pc \in Awaiting
                         /\ client[c].pc # "asleep" => client'[c] = client[c]
  BY <1>1, NotifyDoneMoves
<1>3. \A c \in Clients : /\ client'[c].pc = "notify" <=> client[c].pc = "notify"
                         /\ client'[c].pc = "notifyAll" <=> client[c].pc = "notifyAll"
  BY <1>2 DEF Awaiting
<1>. QED BY <1>3 DEF ClientsAt

LEMMA WorkersStay ==
    ASSUME UNCHANGED worker
    PROVE  WorkersAt({"asleep"})' = WorkersAt({"asleep"}) /\ Coming' = Coming
BY DEF WorkersAt, Coming

(* A sleeper is woken: one worker more is on its way. *)
LEMMA WokenIsComing ==
    ASSUME NEW w \in Workers, Woken(w)
    PROVE  WorkersAt({"asleep"})' \subseteq WorkersAt({"asleep"}) /\ Coming' = Coming + 1
<1>1. WorkersAt({"asleep"})' \subseteq WorkersAt({"asleep"})
  BY DEF WorkersAt, Woken, OnlyMoves
<1>2. Cardinality(WorkersAt({"enter", "awake"})') = Cardinality(WorkersAt({"enter", "awake"})) + 1
  BY WorkerMoves DEF Woken
<1>3. Coming' = Cardinality(WorkersAt({"enter", "awake"})')
  BY DEF Coming
<1>. QED BY <1>1, <1>2, <1>3 DEF Coming

(* notify_one() makes up for the notification that was promised. *)
LEMMA NotifyOneSupplies ==
    ASSUME TypeOK, NotifyOne
    PROVE  \/ WorkersAt({"asleep"}) = {} /\ WorkersAt({"asleep"})' = {}
           \/ WorkersAt({"asleep"})' \subseteq WorkersAt({"asleep"}) /\ Coming' = Coming + 1
<1>1. CASE WorkersAt({"asleep"}) = {} /\ UNCHANGED worker
  BY <1>1 DEF WorkersAt
<1>2. ASSUME NEW w \in Workers, Woken(w)
      PROVE  WorkersAt({"asleep"})' \subseteq WorkersAt({"asleep"}) /\ Coming' = Coming + 1
  BY <1>2, WokenIsComing
<1>. QED BY <1>1, <1>2, NotifyOneMoves

(* A step that leaves the workers, the queue and the promises alone. *)
LEMMA QuietBalance ==
    ASSUME TypeOK, TypeOK', NoStrandedTask,
           UNCHANGED <<use, tasks, paused, stopped, worker, bodyNotify>>,
           ClientsAt({"notify"})' = ClientsAt({"notify"}),
           ClientsAt({"notifyAll"})' = ClientsAt({"notifyAll"})
    PROVE  NoStrandedTask'
BY DEF NoStrandedTask, WorkersAt

LEMMA NewCallStep ==
    ASSUME TypeOK, TypeOK', PauseIsAnOption, NoStrandedTask, NewCall, UNCHANGED use
    PROVE  NoStrandedTask'
<1>0. Idle.pc \notin {"notify", "notifyAll"}
  BY DEF Idle
<1>1. ASSUME NEW c \in Clients, Wait(c)
      PROVE  NoStrandedTask'
  <2>1. PICK op \in Operations, timed \in BOOLEAN : MayBegin(c, op) /\ BeginWait(c, timed)
    BY <1>1 DEF Wait, Operations
  <2>2. client[c] = Idle
    BY <2>1 DEF MayBegin
  <2>3. \/ UNCHANGED client
        \/ OnlyCalls(c) /\ client'[c].pc \notin {"notify", "notifyAll"}
    BY <2>1, BeginWaitMoves
  <2>4. ClientsAt({"notify"})' = ClientsAt({"notify"}) /\ ClientsAt({"notifyAll"})' = ClientsAt({"notifyAll"})
    BY <1>0, <2>2, <2>3, PromisesKept, PromisesUnchanged
  <2>5. UNCHANGED <<tasks, paused, stopped, worker, bodyNotify>>
    BY <2>1 DEF BeginWait
  <2>. QED BY <2>4, <2>5, QuietBalance
<1>2. ASSUME NEW c \in Clients, Purge(c)
      PROVE  NoStrandedTask'
  BY <1>2, EmptyIsNotStranded DEF Purge
<1>3. ASSUME NEW c \in Clients, Pause(c)
      PROVE  NoStrandedTask'
  BY <1>3 DEF Pause, NoStrandedTask
<1>4. ASSUME NEW c \in Clients, Unpause(c)
      PROVE  NoStrandedTask'
  <2>1. client'[c].pc = "notifyAll"
    BY <1>4, GoToTyped DEF Unpause
  <2>2. c \in ClientsAt({"notifyAll"})'
    BY <2>1 DEF ClientsAt
  <2>. QED BY <2>2 DEF NoStrandedTask
<1>5. ASSUME NEW c \in Clients, NEW s \in Submission, Submit(c, s)
      PROVE  NoStrandedTask'
  <2>1. /\ tasks' = Append(tasks, s) /\ client[c] = Idle
        /\ UNCHANGED <<paused, stopped, worker, bodyNotify>>
    BY <1>5 DEF Submit, MayBegin
  <2>2. OnlyCalls(c) /\ client'[c].pc = "notify"
    BY <1>5, GoToTyped DEF Submit
  <2>3. ClientsAt({"notifyAll"})' = ClientsAt({"notifyAll"})
    BY <1>0, <2>1, <2>2, ClientMoves
  <2>4. Promised' = Promised + 1
    <3>1. Cardinality(ClientsAt({"notify"})') = Cardinality(ClientsAt({"notify"})) + 1
      BY <1>0, <2>1, <2>2, ClientMoves
    <3>. QED BY <3>1 DEF Promised
  <2>5. Len(tasks') = Len(tasks) + 1
    BY <2>1 DEF TypeOK
  <2>6. WorkersAt({"asleep"})' = WorkersAt({"asleep"}) /\ Coming' = Coming /\ InBodies' = InBodies
    BY <2>1, WorkersStay DEF InBodies
  <2>7. Len(tasks') - (Coming' + Promised' + InBodies') <= Len(tasks) - (Coming + Promised + InBodies)
    BY <2>4, <2>5, <2>6, SupplyTyped
  <2>. QED BY <2>1, <2>3, <2>6, <2>7, Balanced
<1>6. ASSUME NEW w \in Workers, NEW s \in Submission, BodySubmit(w, s)
      PROVE  NoStrandedTask'
  <2>1. /\ tasks' = Append(tasks, s) /\ w \notin bodyNotify /\ bodyNotify' = bodyNotify \cup {w}
        /\ UNCHANGED <<paused, stopped, worker, client>>
    BY <1>6 DEF BodySubmit
  <2>2. InBodies' = InBodies + 1
    <3>1. IsFiniteSet(bodyNotify)
      BY SupplyTyped
    <3>. QED BY <2>1, <3>1, FS_AddElement DEF InBodies
  <2>3. Len(tasks') = Len(tasks) + 1
    BY <2>1 DEF TypeOK
  <2>4. ClientsAt({"notifyAll"})' = ClientsAt({"notifyAll"}) /\ Promised' = Promised
    BY <2>1, PromisesUnchanged DEF Promised
  <2>5. WorkersAt({"asleep"})' = WorkersAt({"asleep"}) /\ Coming' = Coming
    BY <2>1, WorkersStay
  <2>6. Len(tasks') - (Coming' + Promised' + InBodies') <= Len(tasks) - (Coming + Promised + InBodies)
    BY <2>2, <2>3, <2>4, <2>5, SupplyTyped
  <2>. QED BY <2>1, <2>4, <2>5, <2>6, Balanced
<1>7. CASE ResetBegin
  <2>1. UNCHANGED <<tasks, stopped, worker, client, bodyNotify>> /\ paused' = use.pause
    BY <1>7 DEF ResetBegin
  <2>2. CASE use.pause
    BY <2>1, <2>2 DEF NoStrandedTask
  <2>3. CASE ~use.pause
    <3>1. ~paused /\ ~paused'
      BY <2>1, <2>3 DEF PauseIsAnOption
    <3>. QED BY <2>1, <3>1 DEF NoStrandedTask, WorkersAt, ClientsAt
  <2>. QED BY <2>2, <2>3
<1>8. CASE DestroyBegin
  BY <1>8, PromisesUnchanged, QuietBalance DEF DestroyBegin
<1>. QED BY <1>1, <1>2, <1>3, <1>4, <1>5, <1>6, <1>7, <1>8 DEF NewCall

(* A worker that has the mutex takes a task, or there is none for it. *)
LEMMA TakeBalances ==
    ASSUME TypeOK, TypeOK', NoStrandedTask, NEW w \in Workers, NEW running, TakeTask(w, running),
           worker[w].pc \in {"enter", "awake"}, UNCHANGED <<use, paused, stopped, bodyNotify>>,
           ClientsAt({"notify"})' = ClientsAt({"notify"}),
           ClientsAt({"notifyAll"})' = ClientsAt({"notifyAll"})
    PROVE  NoStrandedTask'
<1>1. OnlyMoves(w)
  BY TakeTaskMoves
<1>2. CASE w \in stopped
  BY <1>2 DEF NoStrandedTask
<1>3. CASE ~paused /\ tasks # <<>> /\ worker'[w].pc = "run" /\ tasks' = Tail(tasks)
  <2>1. Cardinality(WorkersAt({"enter", "awake"})') = Cardinality(WorkersAt({"enter", "awake"})) - 1
    BY <1>1, <1>3, WorkerMoves
  <2>2. Coming' = Coming - 1 /\ Promised' = Promised /\ InBodies' = InBodies
    BY <2>1 DEF Coming, Promised, InBodies
  <2>3. Len(tasks') = Len(tasks) - 1
    BY <1>3 DEF TypeOK
  <2>4. WorkersAt({"asleep"})' \subseteq WorkersAt({"asleep"})
    BY <1>1, <1>3 DEF WorkersAt, OnlyMoves
  <2>5. Len(tasks') - (Coming' + Promised' + InBodies') <= Len(tasks) - (Coming + Promised + InBodies)
    BY <2>2, <2>3, SupplyTyped
  <2>. QED BY <2>4, <2>5, Balanced
<1>4. CASE paused
  BY <1>4 DEF NoStrandedTask
<1>5. CASE tasks = <<>> /\ UNCHANGED tasks
  BY <1>5, EmptyIsNotStranded
<1>. QED BY <1>2, <1>3, <1>4, <1>5, TakeTaskMoves

LEMMA WorkerStepKeeps ==
    ASSUME TypeOK, TypeOK', NoStrandedTask, NEW w \in Workers, WorkerStep(w), UNCHANGED use
    PROVE  NoStrandedTask'
<1>1. CASE Enter(w)
  <2>1. ClientsAt({"notify"})' = ClientsAt({"notify"}) /\ ClientsAt({"notifyAll"})' = ClientsAt({"notifyAll"})
    BY <1>1, EnterMoves, NotifyDoneKeepsPromises, PromisesUnchanged
  <2>. QED BY <1>1, <2>1, EnterMoves, TakeBalances
<1>2. CASE Wake(w)
  BY <1>2, PromisesUnchanged, TakeBalances DEF Wake
<1>3. CASE Fulfil(w) \/ Retire(w)
  <2>1. /\ OnlyMoves(w) /\ worker[w].pc \in {"run", "closing"} /\ worker'[w].pc \in {"closing", "enter"}
        /\ UNCHANGED <<tasks, paused, stopped, client, bodyNotify>>
    <3>1. CASE Fulfil(w)
      BY <3>1, FulfilMoves DEF Fulfil
    <3>2. CASE Retire(w)
      <4>1. OnlyMoves(w) /\ worker[w].pc = "closing" /\ worker'[w].pc = "enter"
        BY <3>2, RetireMoves
      <4>. QED BY <3>2, <4>1 DEF Retire
    <3>. QED BY <1>3, <3>1, <3>2
  <2>2. WorkersAt({"asleep"})' = WorkersAt({"asleep"})
    BY <2>1, WorkerMoves
  <2>3. Coming' \in {Coming, Coming + 1}
    <3>1. \/ WorkersAt({"enter", "awake"})' = WorkersAt({"enter", "awake"})
          \/ Cardinality(WorkersAt({"enter", "awake"})') = Cardinality(WorkersAt({"enter", "awake"})) + 1
      BY <2>1, WorkerMoves
    <3>. QED BY <3>1 DEF Coming
  <2>4. ClientsAt({"notifyAll"})' = ClientsAt({"notifyAll"}) /\ Promised' = Promised /\ InBodies' = InBodies
    BY <2>1, PromisesUnchanged DEF Promised, InBodies
  <2>5. Len(tasks') - (Coming' + Promised' + InBodies') <= Len(tasks) - (Coming + Promised + InBodies)
    BY <2>1, <2>3, <2>4, SupplyTyped
  <2>. QED BY <2>1, <2>2, <2>4, <2>5, Balanced
<1>4. CASE BodyNotify(w)
  <2>1. /\ w \in bodyNotify /\ NotifyOne /\ bodyNotify' = bodyNotify \ {w}
        /\ UNCHANGED <<tasks, paused, stopped, client>>
    BY <1>4 DEF BodyNotify
  <2>2. InBodies' = InBodies - 1
    <3>1. IsFiniteSet(bodyNotify)
      BY SupplyTyped
    <3>. QED BY <2>1, <3>1, FS_RemoveElement DEF InBodies
  <2>3. ClientsAt({"notifyAll"})' = ClientsAt({"notifyAll"}) /\ Promised' = Promised
    BY <2>1, PromisesUnchanged DEF Promised
  <2>4. CASE WorkersAt({"asleep"}) = {} /\ WorkersAt({"asleep"})' = {}
    BY <2>4 DEF NoStrandedTask
  <2>5. CASE WorkersAt({"asleep"})' \subseteq WorkersAt({"asleep"}) /\ Coming' = Coming + 1
    <3>1. Len(tasks') - (Coming' + Promised' + InBodies') <= Len(tasks) - (Coming + Promised + InBodies)
      BY <2>1, <2>2, <2>3, <2>5, SupplyTyped
    <3>. QED BY <2>1, <2>3, <2>5, <3>1, Balanced
  <2>. QED BY <2>1, <2>4, <2>5, NotifyOneSupplies
<1>. QED BY <1>1, <1>2, <1>3, <1>4 DEF WorkerStep

LEMMA ClientStepKeeps ==
    ASSUME TypeOK, TypeOK', NoStrandedTask, NEW c \in Clients, ClientStep(c), UNCHANGED use
    PROVE  NoStrandedTask'
<1>1. CASE SubmitNotify(c)
  <2>1. /\ client[c].pc = "notify" /\ NotifyOne /\ UNCHANGED <<tasks, paused, stopped, bodyNotify>>
        /\ OnlyCalls(c) /\ client'[c].pc = "idle"
    BY <1>1, GoToTyped DEF SubmitNotify
  <2>2. Promised' = Promised - 1
    <3>1. Cardinality(ClientsAt({"notify"})') = Cardinality(ClientsAt({"notify"})) - 1
      BY <2>1, ClientMoves
    <3>. QED BY <3>1 DEF Promised
  <2>3. ClientsAt({"notifyAll"})' = ClientsAt({"notifyAll"}) /\ InBodies' = InBodies
    BY <2>1, ClientMoves DEF InBodies
  <2>4. CASE WorkersAt({"asleep"}) = {} /\ WorkersAt({"asleep"})' = {}
    BY <2>4 DEF NoStrandedTask
  <2>5. CASE WorkersAt({"asleep"})' \subseteq WorkersAt({"asleep"}) /\ Coming' = Coming + 1
    <3>1. Len(tasks') - (Coming' + Promised' + InBodies') <= Len(tasks) - (Coming + Promised + InBodies)
      BY <2>1, <2>2, <2>3, <2>5, SupplyTyped
    <3>. QED BY <2>1, <2>3, <2>5, <3>1, Balanced
  <2>. QED BY <2>1, <2>4, <2>5, NotifyOneSupplies
<1>2. CASE UnpauseNotify(c)
  <2>1. worker \in [Workers -> WorkerState] /\ NotifyAll
    BY <1>2 DEF TypeOK, UnpauseNotify
  <2>2. \A w \in Workers : worker'[w].pc # "asleep"
    BY <2>1, NotifyAllMoves
  <2>3. WorkersAt({"asleep"})' = {}
    BY <2>2 DEF WorkersAt
  <2>. QED BY <2>3 DEF NoStrandedTask
<1>3. CASE WaitReturn(c) \/ WaitAgain(c) \/ WaitTimeout(c)
  <2>1. UNCHANGED <<tasks, paused, stopped, worker, bodyNotify>> /\ client[c].pc \in Awaiting
    BY <1>3 DEF WaitReturn, WaitAgain, WaitTimeout, Awaiting
  <2>2. OnlyCalls(c) /\ client'[c].pc \in {"idle", "asleep"}
    BY <1>3, LeaveWaitMoves, GoToTyped DEF WaitReturn, WaitAgain, WaitTimeout, Idle
  <2>3. ClientsAt({"notify"})' = ClientsAt({"notify"}) /\ ClientsAt({"notifyAll"})' = ClientsAt({"notifyAll"})
    BY <2>1, <2>2, PromisesKept DEF Awaiting
  <2>. QED BY <2>1, <2>3, QuietBalance
<1>. QED BY <1>1, <1>2, <1>3 DEF ClientStep

LEMMA ResetStepKeeps ==
    ASSUME TypeOK, TypeOK', OwnerInv, NoStrandedTask, ResetStep, UNCHANGED use
    PROVE  NoStrandedTask'
<1>1. CASE ResetWait
  <2>1. /\ reset.pc = "wait" /\ BeginWait(Owner, FALSE)
        /\ UNCHANGED <<tasks, paused, stopped, worker, bodyNotify>>
    BY <1>1 DEF ResetWait, BeginWait
  <2>2. client[Owner].pc = "idle"
    BY <2>1 DEF OwnerInv, Idle
  <2>3. \/ UNCHANGED client
        \/ OnlyCalls(Owner) /\ client'[Owner].pc = "asleep"
    BY <2>1, ConstantsTyped, BeginWaitMoves
  <2>4. ClientsAt({"notify"})' = ClientsAt({"notify"}) /\ ClientsAt({"notifyAll"})' = ClientsAt({"notifyAll"})
    BY <2>2, <2>3, ConstantsTyped, PromisesKept, PromisesUnchanged
  <2>. QED BY <2>1, <2>4, QuietBalance
<1>2. CASE StopThread
  BY <1>2 DEF StopThread, NoStrandedTask
<1>3. CASE JoinThread
  BY <1>3, PromisesUnchanged, QuietBalance DEF JoinThread
<1>4. CASE CreateThreads
  <2>1. WorkersAt({"asleep"})' = {}
    BY <1>4 DEF CreateThreads, Started, WorkersAt
  <2>. QED BY <2>1 DEF NoStrandedTask
<1>5. CASE RestorePause
  BY <1>5 DEF RestorePause, OwnerInv, NoStrandedTask
<1>. QED BY <1>1, <1>2, <1>3, <1>4, <1>5 DEF ResetStep

LEMMA SpuriousKeeps ==
    ASSUME TypeOK, TypeOK', NoStrandedTask, SpuriousWakeup, UNCHANGED use
    PROVE  NoStrandedTask'
<1>1. UNCHANGED <<tasks, paused, stopped, bodyNotify>>
  BY DEF SpuriousWakeup
<1>2. ASSUME NEW w \in WorkersAt({"asleep"}), WakeWorker(w), UNCHANGED client
      PROVE  NoStrandedTask'
  <2>1. WorkersAt({"asleep"})' \subseteq WorkersAt({"asleep"}) /\ Coming' = Coming + 1
    BY <1>2, WakeMoves, WokenIsComing
  <2>2. ClientsAt({"notifyAll"})' = ClientsAt({"notifyAll"}) /\ Promised' = Promised /\ InBodies' = InBodies
    BY <1>1, <1>2, PromisesUnchanged DEF Promised, InBodies
  <2>3. Len(tasks') - (Coming' + Promised' + InBodies') <= Len(tasks) - (Coming + Promised + InBodies)
    BY <1>1, <2>1, <2>2, SupplyTyped
  <2>. QED BY <1>1, <2>1, <2>2, <2>3, Balanced
<1>3. ASSUME NEW c \in ClientsAt({"asleep"}), client' = [client EXCEPT ![c].pc = "awake"],
             UNCHANGED worker
      PROVE  NoStrandedTask'
  <2>1. c \in Clients /\ client[c].pc = "asleep" /\ OnlyCalls(c) /\ client'[c].pc = "awake"
    BY <1>3, GoToTyped DEF ClientsAt, GoTo
  <2>2. ClientsAt({"notify"})' = ClientsAt({"notify"}) /\ ClientsAt({"notifyAll"})' = ClientsAt({"notifyAll"})
    BY <2>1, PromisesKept
  <2>. QED BY <1>1, <1>3, <2>2, QuietBalance
<1>. QED BY <1>2, <1>3 DEF SpuriousWakeup

LEMMA StrandStep ==
    ASSUME TypeOK, TypeOK', PauseIsAnOption, OwnerInv, NoStrandedTask, Next
    PROVE  NoStrandedTask'
BY NewCallStep, WorkerStepKeeps, ClientStepKeeps, ResetStepKeeps, SpuriousKeeps DEF Next

-----------------------------------------------------------------------------
(* DestructorCompletesAll is preserved *)

Stopping == {"stop", "join", "dead"}

(* The destructor begins to stop threads when its wait() returns. *)
LEMMA DestroySteps ==
    ASSUME TypeOK, OwnerInv, Next, reset'.op = "destroy", reset'.pc \in Stopping
    PROVE  /\ reset.op = "destroy" /\ UNCHANGED paused
           /\ \/ reset.pc \in Stopping
              \/ Done(tasksRunning) /\ UNCHANGED <<tasks, worker>>
<1>1. reset \in ResetState /\ UNCHANGED use
  BY DEF TypeOK, ResetState, Next
<1>2. \A pc \in {"none", "wait", "waiting", "stop", "join", "create", "unpause", "dead"} :
         reset' = [reset EXCEPT !.pc = pc] => reset'.op = reset.op /\ reset'.pc = pc
  BY <1>1 DEF ResetState
<1>3. CASE NewCall
  <2>1. ~ResetBegin
    BY DEF ResetBegin
  <2>2. ~DestroyBegin
    <3>1. ASSUME DestroyBegin PROVE reset'.pc = "wait"
      BY <3>1 DEF DestroyBegin, NoReset
    <3>. QED BY <3>1 DEF Stopping
  <2>3. UNCHANGED reset
    BY <1>3, <2>1, <2>2 DEF NewCall, Wait, Purge, Pause, Unpause, Submit, BodySubmit
  <2>4. UNCHANGED paused
    BY <1>3, <2>1, <2>2, <2>3
       DEF NewCall, Wait, BeginWait, Purge, Pause, Unpause, Submit, BodySubmit, MayBegin
  <2>. QED BY <2>3, <2>4
<1>4. ASSUME NEW w \in Workers, WorkerStep(w)
      PROVE  UNCHANGED <<reset, paused>>
  BY <1>4 DEF WorkerStep, Enter, Wake, Fulfil, Retire, BodyNotify
<1>5. ASSUME NEW c \in Clients, ClientStep(c)
      PROVE  /\ reset.op = "destroy" /\ UNCHANGED paused
             /\ \/ reset.pc \in Stopping
                \/ Done(tasksRunning) /\ UNCHANGED <<tasks, worker>>
  <2>1. UNCHANGED paused
    BY <1>5 DEF ClientStep, SubmitNotify, UnpauseNotify, WaitReturn, WaitAgain, WaitTimeout
  <2>2. CASE WaitReturn(c)
    <3>1. /\ Done(tasksRunning) /\ UNCHANGED <<tasks, worker>>
          /\ reset' \in {reset, [reset EXCEPT !.pc = "stop"]}
      BY <2>2 DEF WaitReturn, AfterWait
    <3>. QED BY <1>2, <2>1, <3>1
  <2>3. CASE ~WaitReturn(c)
    <3>1. UNCHANGED reset
      BY <1>5, <2>3 DEF ClientStep, SubmitNotify, UnpauseNotify, WaitAgain, WaitTimeout
    <3>. QED BY <2>1, <3>1
  <2>. QED BY <2>2, <2>3
<1>6. CASE ResetStep
  <2>1. CASE ResetWait
    <3>1. UNCHANGED <<paused, tasks, worker>>
      BY <2>1 DEF ResetWait, BeginWait
    <3>2. \/ reset' = [reset EXCEPT !.pc = "stop"] /\ Done(tasksRunning)
          \/ reset' = [reset EXCEPT !.pc = "waiting"]
      BY <2>1 DEF ResetWait
    <3>. QED BY <1>2, <3>1, <3>2 DEF Stopping
  <2>2. CASE StopThread
    <3>1. reset.pc = "stop" /\ reset' = [reset EXCEPT !.pc = "join"] /\ UNCHANGED paused
      BY <2>2 DEF StopThread
    <3>. QED BY <1>2, <3>1 DEF Stopping
  <2>3. CASE JoinThread
    <3>1. /\ reset.pc = "join" /\ UNCHANGED paused
          /\ reset' \in {[reset EXCEPT !.pc = "stop"], [reset EXCEPT !.pc = "dead"],
                         [reset EXCEPT !.pc = "create"]}
      BY <2>3 DEF JoinThread
    <3>. QED BY <1>2, <3>1 DEF Stopping
  <2>4. CASE CreateThreads \/ RestorePause
    <3>1. reset' \in {[reset EXCEPT !.pc = "unpause"], NoReset}
      BY <2>4 DEF CreateThreads, RestorePause
    <3>2. NoReset.op = "none"
      BY DEF NoReset
    <3>. QED BY <1>2, <3>1, <3>2 DEF Stopping
  <2>. QED BY <1>6, <2>1, <2>2, <2>3, <2>4 DEF ResetStep
<1>7. CASE SpuriousWakeup
  BY <1>7 DEF SpuriousWakeup
<1>. QED BY <1>3, <1>4, <1>5, <1>6, <1>7 DEF Next

(* No worker has a task. *)
NobodyWorks == \A w \in Workers : worker[w].pc \notin {"run", "closing"}

(* With no task queued and none executed, none comes from the workers. *)
LEMMA NothingIsTaken ==
    ASSUME TypeOK, NEW w \in Workers, NobodyWorks, tasks = <<>>, WorkerStep(w)
    PROVE  UNCHANGED tasks /\ NobodyWorks'
<1>1. CASE Enter(w) \/ Wake(w)
  <2>1. \/ TakeTask(w, tasksRunning - 1)
        \/ TakeTask(w, tasksRunning)
    BY <1>1 DEF Enter, Wake
  <2>2. OnlyMoves(w) /\ worker'[w].pc \notin {"run", "closing"} /\ UNCHANGED tasks
    BY <2>1, TakeTaskMoves
  <2>. QED BY <2>2 DEF NobodyWorks, OnlyMoves
<1>2. CASE BodyNotify(w)
  <2>1. NotifyOne /\ UNCHANGED tasks
    BY <1>2 DEF BodyNotify
  <2>. QED BY <2>1, NotifyOneMoves DEF NobodyWorks, OnlyMoves, Woken
<1>3. ~Fulfil(w) /\ ~Retire(w)
  BY DEF Fulfil, Retire, NobodyWorks
<1>. QED BY <1>1, <1>2, <1>3 DEF WorkerStep

LEMMA DestructorStep ==
    ASSUME TypeOK, RunningCount, OwnerInv, DestructorCompletesAll, Next
    PROVE  DestructorCompletesAll'
<1>. SUFFICES ASSUME reset'.op = "destroy", reset'.pc \in Stopping, ~paused'
              PROVE  tasks' = <<>> /\ NobodyWorks'
  BY DEF DestructorCompletesAll, Stopping, NobodyWorks, NoTasks, WorkersAt
<1>1. reset.op = "destroy" /\ ~paused
  BY DestroySteps
<1>2. CASE reset.pc \in Stopping
  <2>1. tasks = <<>> /\ NobodyWorks
    BY <1>1, <1>2 DEF DestructorCompletesAll, Stopping, NobodyWorks, NoTasks, WorkersAt
  <2>2. CASE NewCall
    <3>1. ASSUME NEW w \in Workers, NEW s \in Submission, BodySubmit(w, s)
          PROVE  FALSE
      BY <2>1, <3>1 DEF BodySubmit, NobodyWorks
    <3>2. ASSUME NEW c \in Clients, NEW op, MayBegin(c, op)
          PROVE  FALSE
      BY <1>1, <3>2 DEF MayBegin
    <3>. QED BY <2>2, <3>1, <3>2, ConstantsTyped
             DEF NewCall, Wait, Purge, Pause, Unpause, Submit, ResetBegin, DestroyBegin
  <2>3. ASSUME NEW w \in Workers, WorkerStep(w)
        PROVE  tasks' = <<>> /\ NobodyWorks'
    BY <2>1, <2>3, NothingIsTaken
  <2>4. ASSUME NEW c \in Clients, ClientStep(c)
        PROVE  tasks' = <<>> /\ NobodyWorks'
    <3>1. UNCHANGED tasks /\ (UNCHANGED worker \/ NotifyOne \/ NotifyAll)
      BY <2>4 DEF ClientStep, SubmitNotify, UnpauseNotify, WaitReturn, WaitAgain, WaitTimeout
    <3>2. CASE UNCHANGED worker
      BY <2>1, <3>1, <3>2 DEF NobodyWorks
    <3>3. CASE NotifyOne
      BY <2>1, <3>1, <3>3, NotifyOneMoves DEF NobodyWorks, OnlyMoves, Woken
    <3>4. CASE NotifyAll
      <4>1. worker \in [Workers -> WorkerState]
        BY DEF TypeOK
      <4>. QED BY <2>1, <3>1, <3>4, <4>1, NotifyAllMoves DEF NobodyWorks
    <3>. QED BY <3>1, <3>2, <3>3, <3>4
  <2>5. CASE ResetStep
    <3>1. CASE StopThread
      <4>1. PICK w \in threads : IF worker[w].pc = "asleep" THEN WakeWorker(w) ELSE UNCHANGED worker
        BY <3>1 DEF StopThread
      <4>2. w \in Workers /\ UNCHANGED tasks
        BY <3>1, <4>1 DEF TypeOK, StopThread
      <4>. QED BY <2>1, <4>1, <4>2, WakeMoves DEF WorkersAt, NobodyWorks, OnlyMoves, Woken
    <3>2. CASE JoinThread
      BY <2>1, <3>2 DEF JoinThread, NobodyWorks
    <3>3. ~ResetWait /\ ~CreateThreads /\ ~RestorePause
      BY <1>2 DEF ResetWait, CreateThreads, RestorePause, Stopping
    <3>. QED BY <2>5, <3>1, <3>2, <3>3 DEF ResetStep
  <2>6. CASE SpuriousWakeup
    BY <2>1, <2>6, WakeMoves DEF SpuriousWakeup, NobodyWorks, OnlyMoves, Woken
  <2>. QED BY <2>2, <2>3, <2>4, <2>5, <2>6 DEF Next
<1>3. CASE Done(tasksRunning) /\ UNCHANGED <<tasks, worker>>
  <2>1. tasks = <<>> /\ Cardinality(WorkersAt({"enter", "run", "closing"})) = 0
    BY <1>1, <1>3 DEF Done, NoTasks, RunningCount
  <2>2. WorkersAt({"enter", "run", "closing"}) = {}
    BY <2>1, WorkersAreFinite
  <2>. QED BY <1>3, <2>1, <2>2 DEF NobodyWorks, WorkersAt
<1>. QED BY <1>2, <1>3, DestroySteps

-----------------------------------------------------------------------------
(* The invariant and the theorems *)

LEMMA InvInit == Init => PoolInv
<1>. SUFFICES ASSUME Init PROVE PoolInv
  OBVIOUS
<1>1. /\ threads \in SUBSET Workers /\ threads # {} /\ tasksRunning = Cardinality(threads)
      /\ worker = Started(threads) /\ use \in Uses /\ tasks = <<>> /\ bodyNotify = {}
      /\ waiting = FALSE /\ paused = FALSE /\ stopped = {}
      /\ client = [c \in Clients |-> Idle]
      /\ reset = NoReset
  BY DEF Init, ThreadSets
<1>2. \A w \in Workers : worker[w] = [pc |-> IF w \in threads THEN "enter" ELSE "none", task |-> NoTask]
  BY <1>1 DEF Started
<1>3. ASSUME NEW w \in Workers
      PROVE  worker[w].pc = IF w \in threads THEN "enter" ELSE "none"
  <2>1. PICK p : p = IF w \in threads THEN "enter" ELSE "none"
    OBVIOUS
  <2>2. worker[w] = [pc |-> p, task |-> NoTask]
    BY <1>2, <2>1
  <2>. QED BY <2>1, <2>2
<1>4. RunningCount
  <2>1. WorkersAt({"enter", "run", "closing"}) = threads
    BY <1>1, <1>3 DEF WorkersAt
  <2>. QED BY <1>1, <2>1 DEF RunningCount
<1>5. TypeOK
  <2>1. worker \in [Workers -> WorkerState]
    <3>1. worker = [w \in Workers |->
                       [pc |-> IF w \in threads THEN "enter" ELSE "none", task |-> NoTask]]
      BY <1>1 DEF Started
    <3>. QED BY <3>1, SlotsTyped
  <2>2. client \in [Clients -> ClientState]
    BY <1>1, CallsTyped
  <2>3. tasksRunning \in 0 .. Cardinality(Workers)
    <3>1. tasksRunning = Cardinality(WorkersAt({"enter", "run", "closing"}))
      BY <1>4 DEF RunningCount
    <3>. QED BY <3>1, WorkersAreFinite
  <2>4. reset \in ResetState
    BY <1>1, ResetsTyped
  <2>5. tasks \in Seq(Submission)
    BY <1>1
  <2>. QED BY <1>1, <2>1, <2>2, <2>3, <2>4, <2>5 DEF TypeOK, ResetState
<1>6. reset.pc = "none" /\ reset.op = "none"
  BY <1>1 DEF NoReset
<1>7. PauseIsAnOption /\ OwnerInv /\ ThreadsInv /\ ResetIsPaused /\ DestructorCompletesAll
  BY <1>1, <1>3, <1>6 DEF PauseIsAnOption, OwnerInv, ThreadsInv, ResetIsPaused, DestructorCompletesAll
<1>8. NoStrandedTask
  <2>1. WorkersAt({"asleep"}) = {}
    BY <1>3 DEF WorkersAt
  <2>. QED BY <2>1 DEF NoStrandedTask
<1>. QED BY <1>4, <1>5, <1>7, <1>8 DEF PoolInv

LEMMA InvUnchanged == PoolInv /\ UNCHANGED vars => PoolInv'
<1>. SUFFICES ASSUME PoolInv, UNCHANGED vars PROVE PoolInv'
  OBVIOUS
<1>1. /\ TypeOK /\ RunningCount /\ PauseIsAnOption /\ OwnerInv /\ ThreadsInv /\ ResetIsPaused
      /\ NoStrandedTask /\ DestructorCompletesAll
  BY DEF PoolInv
<1>2. UNCHANGED <<use, tasks, tasksRunning, waiting, paused, threads, stopped, worker, client,
                  bodyNotify, reset>>
  BY DEF vars, pool
<1>3. TypeOK'
  BY <1>1, <1>2 DEF TypeOK
<1>4. RunningCount'
  BY <1>1, <1>2, CountUnmoved
<1>5. PauseIsAnOption' /\ OwnerInv' /\ ThreadsInv'
  BY <1>1, <1>2 DEF PauseIsAnOption, OwnerInv, ThreadsInv
<1>6. ResetIsPaused'
  BY <1>1, <1>2 DEF ResetIsPaused, QueueIsTheOwners
<1>7. NoStrandedTask'
  BY <1>1, <1>2, <1>3, PromisesUnchanged, QuietBalance
<1>8. DestructorCompletesAll'
  BY <1>1, <1>2 DEF DestructorCompletesAll, NoTasks, WorkersAt
<1>. QED BY <1>3, <1>4, <1>5, <1>6, <1>7, <1>8 DEF PoolInv

LEMMA InvNext == PoolInv /\ [Next]_vars => PoolInv'
<1>. SUFFICES ASSUME PoolInv, Next PROVE PoolInv'
  BY InvUnchanged
<1>1. /\ TypeOK /\ RunningCount /\ PauseIsAnOption /\ OwnerInv /\ ThreadsInv /\ ResetIsPaused
      /\ NoStrandedTask /\ DestructorCompletesAll
  BY DEF PoolInv
<1>2. RunningCount'
  BY <1>1, CountStep
<1>3. TypeOK'
  BY <1>1, <1>2, TypeStep
<1>4. PauseIsAnOption' /\ OwnerInv' /\ ThreadsInv' /\ ResetIsPaused'
  BY <1>1, PauseStep, OwnerStep, ThreadsStep, ResetIsPausedStep
<1>5. NoStrandedTask'
  BY <1>1, <1>3, StrandStep
<1>6. DestructorCompletesAll'
  BY <1>1, DestructorStep
<1>. QED BY <1>2, <1>3, <1>4, <1>5, <1>6 DEF PoolInv

LEMMA InvHolds == Spec => []PoolInv
BY InvInit, InvNext, PTL DEF Spec

(* The variables have their types: the counter never leaves the range of   *)
(* the worker threads.                                                     *)
THEOREM TypeCorrect == Spec => []TypeOK
<1>1. PoolInv => TypeOK
  BY DEF PoolInv
<1>. QED BY <1>1, InvHolds, PTL

(* tasks_running is the number of workers between create_threads(), or a   *)
(* task taken, and the mutex.                                              *)
THEOREM RunningIsCounted == Spec => []RunningCount
<1>1. PoolInv => RunningCount
  BY DEF PoolInv
<1>. QED BY <1>1, InvHolds, PTL

(* No queued task waits for a worker that nobody will wake. *)
THEOREM NoTaskIsStranded == Spec => []NoStrandedTask
<1>1. PoolInv => NoStrandedTask
  BY DEF PoolInv
<1>. QED BY <1>1, InvHolds, PTL

(* ~thread_pool() of a pool that is not paused destroys no task. *)
THEOREM DestructorIsComplete == Spec => []DestructorCompletesAll
<1>1. PoolInv => DestructorCompletesAll
  BY DEF PoolInv
<1>. QED BY <1>1, InvHolds, PTL

-----------------------------------------------------------------------------
(* ResetKeepsQueue *)

LEMMA PrefixOfAppend ==
    ASSUME NEW s \in Seq(Submission), NEW e \in Submission
    PROVE  IsPrefix(s, Append(s, e))
<1>1. Len(s) <= Len(Append(s, e))
  OBVIOUS
<1>2. SubSeq(s, 1, Len(s)) = SubSeq(Append(s, e), 1, Len(s))
  OBVIOUS
<1>. QED BY <1>1, <1>2 DEF IsPrefix

(* While the owner resets a paused pool the queue only grows. *)
LEMMA ResetAppends ==
    ASSUME PoolInv, Next, QueueIsTheOwners, reset.op = "reset"
    PROVE  UNCHANGED tasks \/ \E s \in Submission : tasks' = Append(tasks, s)
<1>1. paused /\ reset.pc # "none" /\ TypeOK
  BY DEF PoolInv, ResetIsPaused, OwnerInv
<1>2. ASSUME NEW c \in Clients, Purge(c)
      PROVE  FALSE
  <2>1. "purge" \in use.may[c] /\ (c = Owner => reset.pc = "none")
    BY <1>2 DEF Purge, MayBegin
  <2>. QED BY <1>1, <2>1 DEF QueueIsTheOwners
<1>3. CASE NewCall
  BY <1>2, <1>3 DEF NewCall, Wait, BeginWait, Pause, Unpause, Submit, BodySubmit,
                    ResetBegin, DestroyBegin
<1>4. ASSUME NEW w \in Workers, WorkerStep(w)
      PROVE  UNCHANGED tasks
  <2>1. CASE Enter(w) \/ Wake(w)
    <3>1. \/ TakeTask(w, tasksRunning - 1)
          \/ TakeTask(w, tasksRunning)
      BY <2>1 DEF Enter, Wake
    <3>. QED BY <1>1, <3>1, TakeTaskMoves
  <2>. QED BY <1>4, <2>1 DEF WorkerStep, Fulfil, Retire, BodyNotify
<1>5. ASSUME NEW c \in Clients, ClientStep(c)
      PROVE  UNCHANGED tasks
  BY <1>5 DEF ClientStep, SubmitNotify, UnpauseNotify, WaitReturn, WaitAgain, WaitTimeout
<1>6. CASE ResetStep
  BY <1>6 DEF ResetStep, ResetWait, BeginWait, StopThread, JoinThread, CreateThreads, RestorePause
<1>7. CASE SpuriousWakeup
  BY <1>7 DEF SpuriousWakeup
<1>. QED BY <1>3, <1>4, <1>5, <1>6, <1>7 DEF Next

LEMMA ResetGrowsQueue ==
    ASSUME PoolInv, [Next]_vars
    PROVE  [QueueIsTheOwners /\ reset.op = "reset" => IsPrefix(tasks, tasks')]_vars
<1>. SUFFICES ASSUME Next, QueueIsTheOwners, reset.op = "reset"
              PROVE  IsPrefix(tasks, tasks')
  OBVIOUS
<1>1. tasks \in Seq(Submission)
  BY DEF PoolInv, TypeOK
<1>2. CASE UNCHANGED tasks
  <2>1. PICK s : s = tasks
    OBVIOUS
  <2>2. IsPrefix(s, s)
    <3>1. Len(s) <= Len(s)
      BY <1>1, <2>1
    <3>. QED BY <3>1 DEF IsPrefix
  <2>. QED BY <1>2, <2>1, <2>2
<1>3. ASSUME NEW s \in Submission, tasks' = Append(tasks, s)
      PROVE  IsPrefix(tasks, tasks')
  BY <1>1, <1>3, PrefixOfAppend
<1>. QED BY <1>2, <1>3, ResetAppends

(* With the pause flag, what was queued when reset() began is queued, in   *)
(* the same order, at every step of it.                                    *)
THEOREM QueueSurvivesReset == Spec => ResetKeepsQueue
<1>1. PoolInv /\ [Next]_vars =>
         [QueueIsTheOwners /\ reset.op = "reset" => IsPrefix(tasks, tasks')]_vars
  BY ResetGrowsQueue
<1>. QED BY <1>1, InvHolds, PTL DEF Spec, ResetKeepsQueue

-----------------------------------------------------------------------------
(* A pool without pause implements TaskPool *)

LEMMA ExecutedAt ==
    ASSUME NEW w \in Workers, ~use.pause
    PROVE  /\ worker[w].pc = "run" => Executed[w] = [sub |-> worker[w].task, phase |-> "body"]
           /\ worker[w].pc = "closing" => Executed[w] = [sub |-> worker[w].task, phase |-> "closing"]
           /\ worker[w].pc \notin {"run", "closing"} => Executed[w] = Abstract!IdleSlot
BY DEF Executed, Abstract!IdleSlot

LEMMA ExecutedNext ==
    (\A w \in Workers : ~use.pause =>
        /\ worker[w].pc = "run" => Executed[w] = [sub |-> worker[w].task, phase |-> "body"]
        /\ worker[w].pc = "closing" => Executed[w] = [sub |-> worker[w].task, phase |-> "closing"]
        /\ worker[w].pc \notin {"run", "closing"} => Executed[w] = Abstract!IdleSlot)'
<1>1. \A w \in Workers : ~use.pause =>
        /\ worker[w].pc = "run" => Executed[w] = [sub |-> worker[w].task, phase |-> "body"]
        /\ worker[w].pc = "closing" => Executed[w] = [sub |-> worker[w].task, phase |-> "closing"]
        /\ worker[w].pc \notin {"run", "closing"} => Executed[w] = Abstract!IdleSlot
  BY ExecutedAt
<1>. QED BY <1>1, PTL

(* Workers that neither have nor get a task. *)
LEMMA ExecutedStays ==
    ASSUME UNCHANGED use,
           \A w \in Workers : \/ worker'[w] = worker[w]
                              \/ /\ worker[w].pc \notin {"run", "closing"}
                                 /\ worker'[w].pc \notin {"run", "closing"}
    PROVE  UNCHANGED Executed
BY DEF Executed

LEMMA ExecutedMoves ==
    ASSUME NEW w \in Workers, OnlyMoves(w), UNCHANGED use
    PROVE  Executed' = [Executed EXCEPT ![w] = Executed'[w]]
<1>1. \A v \in Workers \ {w} : Executed'[v] = Executed[v]
  BY DEF Executed, OnlyMoves
<1>2. Executed' = [v \in Workers |-> Executed'[v]] /\ Executed = [v \in Workers |-> Executed[v]]
  BY DEF Executed
<1>. QED BY <1>1, <1>2

(* Nobody begins or leaves wait(). *)
LEMMA InWaitStays ==
    ASSUME UNCHANGED use,
           \A c \in Clients :
              \/ client'[c] = client[c]
              \/ client[c].pc \notin Awaiting /\ client'[c].pc \notin Awaiting
              \/ /\ client[c].pc \in Awaiting /\ client'[c].pc \in Awaiting
                 /\ client'[c].timed = client[c].timed
    PROVE  UNCHANGED InWait
BY DEF InWait, ClientsAt

LEMMA InWaitJoins ==
    ASSUME NEW c \in Clients, OnlyCalls(c), UNCHANGED use, ~use.pause,
           client[c].pc \notin Awaiting, client'[c].pc \in Awaiting
    PROVE  /\ \A t \in BOOLEAN : <<c, t>> \notin InWait
           /\ InWait' = InWait \cup {<<c, client'[c].timed>>}
BY DEF InWait, ClientsAt, OnlyCalls

LEMMA InWaitLeaves ==
    ASSUME NEW c \in Clients, OnlyCalls(c), UNCHANGED use, ~use.pause,
           client[c].pc \in Awaiting, client'[c].pc \notin Awaiting
    PROVE  /\ <<c, client[c].timed>> \in InWait
           /\ InWait' = InWait \ {<<c, client[c].timed>>}
BY DEF InWait, ClientsAt, OnlyCalls

(* What is queued, executed and awaited is as it was. *)
Stutters == UNCHANGED <<Queued, Executed, InWait>>

(* A step of a pool without pause. *)
PlainStep == PoolInv /\ Next /\ ~use.pause

LEMMA PlainPool ==
    ASSUME PlainStep
    PROVE  /\ TypeOK /\ RunningCount /\ OwnerInv /\ ThreadsInv
           /\ UNCHANGED use /\ ~use.pause /\ ~use.pause'
           /\ ~paused
           /\ Queued = tasks /\ Queued' = tasks'
BY DEF PlainStep, PoolInv, PauseIsAnOption, Next, Queued

LEMMA WokenStutters ==
    ASSUME PlainStep, UNCHANGED <<tasks, InWait>>, NotifyOne
    PROVE  Stutters
<1>1. \A w \in Workers : \/ worker'[w] = worker[w]
                         \/ /\ worker[w].pc \notin {"run", "closing"}
                            /\ worker'[w].pc \notin {"run", "closing"}
  BY PlainPool, NotifyOneMoves DEF Woken, OnlyMoves
<1>. QED BY <1>1, PlainPool, ExecutedStays DEF Stutters

(* A client goes on, outside of wait() or inside. *)
LEMMA CallStutters ==
    ASSUME PlainStep, NEW c \in Clients, OnlyCalls(c),
           \/ client[c].pc \notin Awaiting /\ client'[c].pc \notin Awaiting
           \/ /\ client[c].pc \in Awaiting /\ client'[c].pc \in Awaiting
              /\ client'[c].timed = client[c].timed
    PROVE  UNCHANGED InWait
BY PlainPool, InWaitStays DEF OnlyCalls

LEMMA SubmitRefines ==
    ASSUME PlainStep, NEW s \in Submission, s \notin Range(tasks),
           \A w \in WorkersAt({"run"}) : worker[w].task # s,
           tasks' = Append(tasks, s), UNCHANGED <<worker, InWait>>
    PROVE  Abstract!Ready(s) /\ Abstract!Submit(s)
<1>1. ASSUME NEW w \in Workers, Executed[w] = [sub |-> s, phase |-> "body"]
      PROVE  FALSE
  <2>1. Executed[w].sub = s /\ Executed[w].phase = "body"
    BY <1>1
  <2>2. ~use.pause
    BY PlainPool
  <2>3. CASE worker[w].pc = "run"
    <3>1. Executed[w] = [sub |-> worker[w].task, phase |-> "body"]
      BY <2>2, <2>3, ExecutedAt
    <3>2. worker[w].task = s
      BY <2>1, <3>1
    <3>. QED BY <2>3, <3>2 DEF WorkersAt
  <2>4. CASE worker[w].pc = "closing"
    <3>1. Executed[w] = [sub |-> worker[w].task, phase |-> "closing"]
      BY <2>2, <2>4, ExecutedAt
    <3>2. Executed[w].phase = "closing"
      BY <3>1
    <3>. QED BY <2>1, <3>2
  <2>5. CASE worker[w].pc \notin {"run", "closing"}
    <3>1. Executed[w] = Abstract!IdleSlot
      BY <2>2, <2>5, ExecutedAt
    <3>2. Executed[w].phase = "idle"
      BY <3>1 DEF Abstract!IdleSlot
    <3>. QED BY <2>1, <3>2
  <2>. QED BY <2>3, <2>4, <2>5
<1>2. Abstract!Ready(s)
  <2>1. s \notin Abstract!Range(Queued)
    BY PlainPool DEF Range, Abstract!Range
  <2>2. ~Abstract!Executing(s)
    BY <1>1 DEF Abstract!Executing
  <2>. QED BY <2>1, <2>2 DEF Abstract!Ready
<1>3. UNCHANGED Executed
  BY PlainPool, ExecutedStays
<1>. QED BY <1>2, <1>3, PlainPool DEF Abstract!Submit

(* The mutex is free: a task is taken, or nothing happens that a caller    *)
(* could see.                                                              *)
LEMMA TakeRefines ==
    ASSUME PlainStep, NEW w \in Workers, NEW running, TakeTask(w, running),
           worker[w].pc \in {"enter", "awake"}, UNCHANGED InWait
    PROVE  Stutters \/ Abstract!Start(w)
<1>1. TypeOK
  BY PlainPool
<1>2. OnlyMoves(w)
  BY <1>1, TakeTaskMoves
<1>3. Executed[w] = Abstract!IdleSlot
  BY PlainPool, ExecutedAt
<1>4. CASE worker'[w].pc \in {"exited", "asleep"} /\ UNCHANGED tasks
  <2>1. UNCHANGED Executed
    BY <1>2, <1>4, PlainPool, ExecutedStays DEF OnlyMoves
  <2>. QED BY <1>4, <2>1, PlainPool DEF Stutters
<1>5. CASE /\ tasks # <<>> /\ tasks' = Tail(tasks)
           /\ worker'[w].pc = "run" /\ worker'[w].task = Head(tasks)
  <2>1. Executed'[w] = [sub |-> Head(tasks), phase |-> "body"]
    BY <1>5, PlainPool, ExecutedNext
  <2>2. Executed' = [Executed EXCEPT ![w] = [sub |-> Head(tasks), phase |-> "body"]]
    BY <1>2, <2>1, PlainPool, ExecutedMoves
  <2>. QED BY <1>3, <1>5, <2>2, PlainPool DEF Abstract!Start
<1>. QED BY <1>1, <1>4, <1>5, TakeTaskMoves

LEMMA FulfilRefines ==
    ASSUME PlainStep, NEW w \in Workers, Fulfil(w)
    PROVE  Abstract!Fulfil(w)
<1>1. /\ OnlyMoves(w) /\ worker[w].pc = "run"
      /\ worker'[w].pc = "closing" /\ worker'[w].task = worker[w].task
  BY PlainPool, FulfilMoves
<1>2. Executed[w] = [sub |-> worker[w].task, phase |-> "body"]
  BY <1>1, PlainPool, ExecutedAt
<1>3. Executed'[w] = [sub |-> worker[w].task, phase |-> "closing"]
  BY <1>1, PlainPool, ExecutedNext
<1>4. [Executed[w] EXCEPT !.phase = "closing"] = [sub |-> worker[w].task, phase |-> "closing"]
  BY <1>2
<1>5. Executed' = [Executed EXCEPT ![w].phase = "closing"]
  BY <1>1, <1>3, <1>4, PlainPool, ExecutedMoves
<1>6. UNCHANGED <<Queued, InWait>>
  BY PlainPool, InWaitStays DEF Fulfil
<1>7. Executed[w].phase = "body"
  BY <1>2
<1>. QED BY <1>5, <1>6, <1>7 DEF Abstract!Fulfil

LEMMA RetireRefines ==
    ASSUME PlainStep, NEW w \in Workers, Retire(w)
    PROVE  Abstract!Retire(w)
<1>1. /\ OnlyMoves(w) /\ worker[w].pc = "closing" /\ worker'[w] = [pc |-> "enter", task |-> NoTask]
  BY PlainPool, RetireMoves
<1>2. Executed[w] = [sub |-> worker[w].task, phase |-> "closing"]
  BY <1>1, PlainPool, ExecutedAt
<1>3. worker'[w].pc = "enter"
  BY <1>1
<1>4. Executed'[w] = Abstract!IdleSlot
  BY <1>3, PlainPool, ExecutedNext
<1>5. Executed' = [Executed EXCEPT ![w] = Abstract!IdleSlot]
  BY <1>1, <1>4, PlainPool, ExecutedMoves
<1>6. UNCHANGED <<Queued, InWait>>
  BY PlainPool, InWaitStays DEF Retire
<1>7. Executed[w].phase = "closing"
  BY <1>2
<1>. QED BY <1>5, <1>6, <1>7 DEF Abstract!Retire

(* wait() with the mutex. *)
LEMMA BeginWaitRefines ==
    ASSUME PlainStep, NEW c \in Clients, NEW timed \in BOOLEAN, client[c] = Idle, BeginWait(c, timed)
    PROVE  Stutters \/ Abstract!WaitCall(c, timed)
<1>1. Idle.pc \notin Awaiting
  BY DEF Idle, Awaiting
<1>2. UNCHANGED <<Queued, Executed>>
  BY PlainPool, ExecutedStays DEF BeginWait
<1>3. CASE UNCHANGED client
  <2>1. UNCHANGED InWait
    BY <1>3, PlainPool, InWaitStays
  <2>. QED BY <1>2, <2>1 DEF Stutters
<1>4. CASE OnlyCalls(c) /\ client'[c].pc = "asleep" /\ client'[c].timed = timed
  <2>1. /\ \A t \in BOOLEAN : <<c, t>> \notin InWait
        /\ InWait' = InWait \cup {<<c, timed>>}
    BY <1>1, <1>4, PlainPool, InWaitJoins DEF Awaiting
  <2>. QED BY <1>2, <2>1 DEF Abstract!WaitCall
<1>. QED BY <1>3, <1>4, PlainPool, BeginWaitMoves

(* No task queued, no worker in the loop: all is done. *)
LEMMA DoneIsAllDone ==
    ASSUME PlainStep, Done(tasksRunning)
    PROVE  Abstract!AllDone
<1>1. tasks = <<>> /\ Cardinality(WorkersAt({"enter", "run", "closing"})) = 0
  BY PlainPool DEF Done, NoTasks, RunningCount
<1>2. WorkersAt({"enter", "run", "closing"}) = {}
  BY <1>1, WorkersAreFinite
<1>3. \A w \in Workers : worker[w].pc \notin {"run", "closing"}
  BY <1>2 DEF WorkersAt
<1>4. \A w \in Workers : Executed[w] = Abstract!IdleSlot
  BY <1>3, PlainPool, ExecutedAt
<1>. QED BY <1>1, <1>4, PlainPool DEF Abstract!AllDone

(* wait() is over, for whatever reason. *)
LEMMA LeaveWaitRefines ==
    ASSUME PlainStep, NEW c \in Clients, client[c].pc \in Awaiting,
           client' = [client EXCEPT ![c] = Idle], UNCHANGED <<tasks, worker>>,
           Done(tasksRunning) \/ client[c].timed
    PROVE  Abstract!WaitReturn(c, client[c].timed) \/ Abstract!WaitTimeout(c)
<1>1. OnlyCalls(c) /\ client'[c] = Idle
  BY PlainPool, LeaveWaitMoves
<1>2. client'[c].pc \notin Awaiting
  BY <1>1 DEF Idle, Awaiting
<1>3. /\ <<c, client[c].timed>> \in InWait
      /\ InWait' = InWait \ {<<c, client[c].timed>>}
  BY <1>1, <1>2, PlainPool, InWaitLeaves
<1>4. UNCHANGED <<Queued, Executed>>
  BY PlainPool, ExecutedStays
<1>5. CASE Abstract!AllDone
  BY <1>3, <1>4, <1>5 DEF Abstract!WaitReturn
<1>6. CASE ~Abstract!AllDone
  <2>1. client[c].timed
    BY <1>6, DoneIsAllDone
  <2>2. client[c].timed \in BOOLEAN
    <3>1. client[c] \in ClientState
      BY PlainPool DEF TypeOK
    <3>. QED BY <3>1, CallsTyped
  <2>3. client[c].timed = TRUE
    BY <2>1, <2>2
  <2>. QED BY <1>3, <1>4, <1>6, <2>3 DEF Abstract!WaitTimeout
<1>. QED BY <1>5, <1>6

(* A pool with the flag has an empty TaskPool. *)
LEMMA PausablePoolStutters ==
    ASSUME use.pause, UNCHANGED use
    PROVE  Stutters
<1>1. Queued = <<>> /\ Queued' = <<>>
  BY DEF Queued
<1>2. UNCHANGED Executed
  BY DEF Executed
<1>3. UNCHANGED InWait
  BY DEF InWait
<1>. QED BY <1>1, <1>2, <1>3 DEF Stutters

LEMMA NewCallRefines ==
    ASSUME PlainStep, NewCall
    PROVE  Stutters \/ Abstract!Next
<1>1. ASSUME NEW c \in Clients, Wait(c)
      PROVE  Stutters \/ Abstract!Next
  <2>1. PICK op \in Operations, timed \in BOOLEAN : MayBegin(c, op) /\ BeginWait(c, timed)
    BY <1>1 DEF Wait, Operations
  <2>2. client[c] = Idle
    BY <2>1 DEF MayBegin
  <2>3. Stutters \/ Abstract!WaitCall(c, timed)
    BY <2>1, <2>2, BeginWaitRefines
  <2>. QED BY <2>3 DEF Abstract!Next
<1>2. ASSUME NEW c \in Clients, Purge(c)
      PROVE  Abstract!Next
  <2>1. tasks' = <<>> /\ UNCHANGED <<worker, client>>
    BY <1>2 DEF Purge
  <2>2. UNCHANGED <<Executed, InWait>>
    BY <2>1, PlainPool, ExecutedStays, InWaitStays
  <2>3. Abstract!Purge
    BY <2>1, <2>2, PlainPool DEF Abstract!Purge
  <2>. QED BY <2>3 DEF Abstract!Next
<1>3. ASSUME NEW c \in Clients, Pause(c) \/ Unpause(c)
      PROVE  FALSE
  <2>1. "pause" \in use.may[c] \/ "unpause" \in use.may[c]
    BY <1>3 DEF Pause, Unpause, MayBegin
  <2>. QED BY <2>1, PlainPool, PausersHaveTheFlag
<1>4. ASSUME NEW c \in Clients, NEW s \in Submission, Submit(c, s)
      PROVE  Abstract!Next
  <2>1. /\ s \notin Range(tasks) /\ \A w \in WorkersAt({"run"}) : worker[w].task # s
        /\ tasks' = Append(tasks, s) /\ UNCHANGED worker
        /\ client[c] = Idle /\ GoTo(c, "notify")
    BY <1>4 DEF Submit, MayBegin
  <2>2. OnlyCalls(c) /\ client'[c].pc = "notify" /\ client[c].pc = "idle"
    BY <2>1, PlainPool, GoToTyped DEF Idle
  <2>3. UNCHANGED InWait
    BY <2>2, CallStutters DEF Awaiting
  <2>4. Abstract!Ready(s) /\ Abstract!Submit(s)
    BY <2>1, <2>3, SubmitRefines
  <2>. QED BY <2>4 DEF Abstract!Next
<1>5. ASSUME NEW w \in Workers, NEW s \in Submission, BodySubmit(w, s)
      PROVE  Abstract!Next
  <2>1. /\ s \notin Range(tasks) /\ \A v \in WorkersAt({"run"}) : worker[v].task # s
        /\ tasks' = Append(tasks, s) /\ UNCHANGED <<worker, client>>
    BY <1>5 DEF BodySubmit
  <2>2. UNCHANGED InWait
    BY <2>1, PlainPool, InWaitStays
  <2>3. Abstract!Ready(s) /\ Abstract!Submit(s)
    BY <2>1, <2>2, SubmitRefines
  <2>. QED BY <2>3 DEF Abstract!Next
<1>6. CASE ResetBegin \/ DestroyBegin
  <2>1. UNCHANGED <<tasks, worker, client>>
    BY <1>6 DEF ResetBegin, DestroyBegin
  <2>. QED BY <2>1, PlainPool, ExecutedStays, InWaitStays DEF Stutters
<1>. QED BY <1>1, <1>2, <1>3, <1>4, <1>5, <1>6 DEF NewCall

LEMMA WorkerStepRefines ==
    ASSUME PlainStep, NEW w \in Workers, WorkerStep(w)
    PROVE  Stutters \/ Abstract!Next
<1>1. CASE Enter(w)
  <2>1. NotifyDone \/ UNCHANGED client
    BY <1>1, PlainPool, EnterMoves
  <2>2. ASSUME NotifyDone
        PROVE  UNCHANGED InWait
    <3>1. client \in [Clients -> ClientState]
      BY PlainPool DEF TypeOK
    <3>2. \A c \in Clients : /\ client'[c].timed = client[c].timed
                             /\ client'[c].pc \in Awaiting <=> client[c].pc \in Awaiting
      BY <2>2, <3>1, NotifyDoneMoves
    <3>. QED BY <3>2, PlainPool, InWaitStays
  <2>3. ASSUME UNCHANGED client
        PROVE  UNCHANGED InWait
    BY <2>3, PlainPool, InWaitStays
  <2>4. UNCHANGED InWait
    BY <2>1, <2>2, <2>3
  <2>5. Stutters \/ Abstract!Start(w)
    BY <1>1, <2>4, PlainPool, EnterMoves, TakeRefines
  <2>. QED BY <2>5 DEF Abstract!Next
<1>2. CASE Wake(w)
  <2>1. TakeTask(w, tasksRunning) /\ worker[w].pc = "awake" /\ UNCHANGED client
    BY <1>2 DEF Wake
  <2>2. UNCHANGED InWait
    BY <2>1, PlainPool, InWaitStays
  <2>3. Stutters \/ Abstract!Start(w)
    BY <2>1, <2>2, TakeRefines
  <2>. QED BY <2>3 DEF Abstract!Next
<1>3. CASE Fulfil(w)
  BY <1>3, FulfilRefines DEF Abstract!Next
<1>4. CASE Retire(w)
  BY <1>4, RetireRefines DEF Abstract!Next
<1>5. CASE BodyNotify(w)
  <2>1. NotifyOne /\ UNCHANGED <<tasks, client>>
    BY <1>5 DEF BodyNotify
  <2>2. UNCHANGED InWait
    BY <2>1, PlainPool, InWaitStays
  <2>. QED BY <2>1, <2>2, WokenStutters
<1>. QED BY <1>1, <1>2, <1>3, <1>4, <1>5 DEF WorkerStep

LEMMA ClientStepRefines ==
    ASSUME PlainStep, NEW c \in Clients, ClientStep(c)
    PROVE  Stutters \/ Abstract!Next
<1>1. CASE SubmitNotify(c) \/ UnpauseNotify(c)
  <2>1. /\ UNCHANGED tasks /\ (NotifyOne \/ NotifyAll)
        /\ client[c].pc \in {"notify", "notifyAll"} /\ GoTo(c, "idle")
    BY <1>1 DEF SubmitNotify, UnpauseNotify
  <2>2. OnlyCalls(c) /\ client'[c].pc = "idle"
    BY <2>1, PlainPool, GoToTyped
  <2>3. UNCHANGED InWait
    BY <2>1, <2>2, CallStutters DEF Awaiting
  <2>4. CASE NotifyAll
    <3>1. worker \in [Workers -> WorkerState]
      BY PlainPool DEF TypeOK
    <3>2. \A w \in Workers : \/ worker'[w] = worker[w]
                             \/ /\ worker[w].pc \notin {"run", "closing"}
                                /\ worker'[w].pc \notin {"run", "closing"}
      BY <2>4, <3>1, NotifyAllMoves
    <3>. QED BY <2>1, <2>3, <3>2, PlainPool, ExecutedStays DEF Stutters
  <2>. QED BY <2>1, <2>3, <2>4, WokenStutters
<1>2. CASE WaitAgain(c)
  <2>1. client[c].pc = "awake" /\ GoTo(c, "asleep") /\ UNCHANGED <<tasks, worker>>
    BY <1>2 DEF WaitAgain
  <2>2. OnlyCalls(c) /\ client'[c].pc = "asleep" /\ client'[c].timed = client[c].timed
    BY <2>1, PlainPool, GoToTyped
  <2>3. UNCHANGED InWait
    BY <2>1, <2>2, CallStutters DEF Awaiting
  <2>. QED BY <2>1, <2>3, PlainPool, ExecutedStays DEF Stutters
<1>3. CASE WaitReturn(c) \/ WaitTimeout(c)
  <2>1. /\ client[c].pc \in Awaiting /\ client' = [client EXCEPT ![c] = Idle]
        /\ UNCHANGED <<tasks, worker>> /\ (Done(tasksRunning) \/ client[c].timed)
    BY <1>3 DEF WaitReturn, WaitTimeout, Awaiting
  <2>2. Abstract!WaitReturn(c, client[c].timed) \/ Abstract!WaitTimeout(c)
    BY <2>1, LeaveWaitRefines
  <2>3. client[c].timed \in BOOLEAN
    <3>1. client[c] \in ClientState
      BY PlainPool DEF TypeOK
    <3>. QED BY <3>1, CallsTyped
  <2>. QED BY <2>2, <2>3 DEF Abstract!Next
<1>. QED BY <1>1, <1>2, <1>3 DEF ClientStep

LEMMA ResetStepRefines ==
    ASSUME PlainStep, ResetStep
    PROVE  Stutters \/ Abstract!Next
<1>1. CASE ResetWait
  <2>1. reset.pc = "wait" /\ BeginWait(Owner, FALSE)
    BY <1>1 DEF ResetWait
  <2>2. client[Owner] = Idle
    BY <2>1, PlainPool DEF OwnerInv
  <2>3. Stutters \/ Abstract!WaitCall(Owner, FALSE)
    BY <2>1, <2>2, ConstantsTyped, BeginWaitRefines
  <2>. QED BY <2>3, ConstantsTyped DEF Abstract!Next
<1>2. CASE StopThread
  <2>1. PICK w \in threads : IF worker[w].pc = "asleep" THEN WakeWorker(w) ELSE UNCHANGED worker
    BY <1>2 DEF StopThread
  <2>2. w \in Workers /\ UNCHANGED <<tasks, client>> /\ TypeOK
    BY <1>2, <2>1, PlainPool DEF TypeOK, StopThread
  <2>3. UNCHANGED worker \/ Woken(w)
    BY <2>1, <2>2, WakeMoves DEF WorkersAt
  <2>4. \A v \in Workers : \/ worker'[v] = worker[v]
                           \/ /\ worker[v].pc \notin {"run", "closing"}
                              /\ worker'[v].pc \notin {"run", "closing"}
    BY <2>3 DEF Woken, OnlyMoves
  <2>. QED BY <2>2, <2>4, PlainPool, ExecutedStays, InWaitStays DEF Stutters
<1>3. CASE JoinThread \/ RestorePause
  <2>1. UNCHANGED <<tasks, worker, client>>
    BY <1>3 DEF JoinThread, RestorePause
  <2>. QED BY <2>1, PlainPool, ExecutedStays, InWaitStays DEF Stutters
<1>4. CASE CreateThreads
  <2>1. reset.pc = "create" /\ UNCHANGED <<tasks, client>> /\ worker' = Started(reset.new)
    BY <1>4 DEF CreateThreads
  <2>2. \A w \in Workers : worker[w].pc \notin {"run", "closing"}
    BY <2>1, PlainPool DEF ThreadsInv
  <2>3. \A w \in Workers : worker'[w].pc \notin {"run", "closing"}
    BY <2>1 DEF Started
  <2>. QED BY <2>1, <2>2, <2>3, PlainPool, ExecutedStays, InWaitStays DEF Stutters
<1>. QED BY <1>1, <1>2, <1>3, <1>4 DEF ResetStep

LEMMA SpuriousRefines ==
    ASSUME PlainStep, SpuriousWakeup
    PROVE  Stutters
<1>1. UNCHANGED tasks
  BY DEF SpuriousWakeup
<1>2. ASSUME NEW w \in WorkersAt({"asleep"}), WakeWorker(w), UNCHANGED client
      PROVE  Stutters
  <2>1. \A v \in Workers : \/ worker'[v] = worker[v]
                           \/ /\ worker[v].pc \notin {"run", "closing"}
                              /\ worker'[v].pc \notin {"run", "closing"}
    BY <1>2, PlainPool, WakeMoves DEF Woken, OnlyMoves
  <2>. QED BY <1>1, <1>2, <2>1, PlainPool, ExecutedStays, InWaitStays DEF Stutters
<1>3. ASSUME NEW c \in ClientsAt({"asleep"}), client' = [client EXCEPT ![c].pc = "awake"],
             UNCHANGED worker
      PROVE  Stutters
  <2>1. /\ c \in Clients /\ client[c].pc = "asleep" /\ OnlyCalls(c)
        /\ client'[c].pc = "awake" /\ client'[c].timed = client[c].timed
    BY <1>3, PlainPool, GoToTyped DEF ClientsAt, GoTo
  <2>2. UNCHANGED InWait
    BY <2>1, CallStutters DEF Awaiting
  <2>. QED BY <1>1, <1>3, <2>2, PlainPool, ExecutedStays DEF Stutters
<1>. QED BY <1>2, <1>3 DEF SpuriousWakeup

LEMMA StepRefines == PoolInv /\ [Next]_vars => [Abstract!Next]_(Abstract!vars)
<1>. SUFFICES ASSUME PoolInv, [Next]_vars
              PROVE  Stutters \/ Abstract!Next
  BY DEF Stutters, Abstract!vars
<1>1. CASE UNCHANGED vars
  BY <1>1 DEF vars, pool, Stutters, Queued, Executed, InWait, ClientsAt
<1>2. CASE Next /\ use.pause
  BY <1>2, PausablePoolStutters DEF Next
<1>3. CASE Next /\ ~use.pause
  <2>1. PlainStep
    BY <1>3 DEF PlainStep
  <2>. QED BY <1>3, <2>1, NewCallRefines, WorkerStepRefines, ClientStepRefines,
              ResetStepRefines, SpuriousRefines DEF Next
<1>. QED BY <1>1, <1>2, <1>3

LEMMA InitRefines == Init => Abstract!Init
<1>. SUFFICES ASSUME Init PROVE Abstract!Init
  OBVIOUS
<1>1. Queued = <<>>
  BY DEF Init, Queued
<1>2. \A w \in Workers : worker[w].pc \notin {"run", "closing"}
  BY DEF Init, Started
<1>3. Executed = [w \in Workers |-> Abstract!IdleSlot]
  BY <1>2 DEF Executed, Abstract!IdleSlot
<1>4. \A c \in Clients : client[c].pc = "idle"
  BY DEF Init, Idle
<1>5. InWait = {}
  BY <1>4 DEF InWait, ClientsAt, Awaiting
<1>. QED BY <1>1, <1>3, <1>5 DEF Abstract!Init

(* BS::thread_pool<BS::tp::none> is the TaskPool its users rely on. *)
THEOREM PoolIsTaskPool == Spec => ImplementsTaskPool
BY InvHolds, InitRefines, StepRefines, PTL DEF Spec, ImplementsTaskPool, Abstract!Spec
=============================================================================
