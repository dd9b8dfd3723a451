----------------------- MODULE PeriodicSchedulerProofs -----------------------
(***************************************************************************)
(* Theorems about PeriodicScheduler, for every set of clients, workers,    *)
(* handles and intervals and every bound.                                  *)
(***************************************************************************)
EXTENDS PeriodicScheduler, SequenceTheorems, TLAPS

(* tasks_.erase(it): the tasks that remain are tasks that were there, and  *)
(* two of them are two of the old ones.                                    *)
LEMMA RemoveAtProperties ==
    ASSUME NEW S, NEW s \in Seq(S), NEW i \in 1 .. Len(s)
    PROVE  /\ RemoveAt(s, i) \in Seq(S)
           /\ Len(RemoveAt(s, i)) = Len(s) - 1
           /\ \A j \in 1 .. Len(RemoveAt(s, i)) :
                 RemoveAt(s, i)[j] = IF j < i THEN s[j] ELSE s[j + 1]
<1> DEFINE a == SubSeq(s, 1, i - 1)
           b == SubSeq(s, i + 1, Len(s))
<1>1. a \in Seq(S) /\ Len(a) = i - 1 /\ \A j \in 1 .. i - 1 : a[j] = s[j]
  BY SubSeqProperties
<1>2. b \in Seq(S) /\ Len(b) = Len(s) - i /\ \A j \in 1 .. Len(s) - i : b[j] = s[i + j]
  BY SubSeqProperties
<1>. HIDE DEF a, b
<1>. Len(s) \in Nat
  BY LenProperties
<1>3. a \o b \in Seq(S) /\ Len(a \o b) = Len(s) - 1
  <2>1. a \o b \in Seq(S) /\ Len(a \o b) = Len(a) + Len(b)
    BY <1>1, <1>2, ConcatProperties, Zenon
  <2>. QED BY <1>1, <1>2, <2>1
<1>4. ASSUME NEW j \in 1 .. Len(s) - 1
      PROVE  (a \o b)[j] = IF j < i THEN s[j] ELSE s[j + 1]
  <2>1. (a \o b)[j] = IF j <= Len(a) THEN a[j] ELSE b[j - Len(a)]
    BY <1>1, <1>2, <1>3, ConcatProperties
  <2>. QED BY <1>1, <1>2, <2>1
<1>. QED BY <1>3, <1>4 DEF RemoveAt, a, b

-----------------------------------------------------------------------------
(* Type correctness *)

LEMMA InitType == Init => TypeOK
<1>. SUFFICES ASSUME Init PROVE TypeOK
  OBVIOUS
<1>1. Pool!TypeOK
  BY DEF Init, Pool!Init, Pool!TypeOK, Pool!IdleSlot, Pool!Slot
<1>2. call \in [Actors -> Call] /\ handle \in [Handles -> TaskIDs \cup {NoID}]
  BY SchedulerAssumption DEF Init, NoCall, Call, NoID
<1>3. ledger \in [TaskIDs -> LedgerEntry]
  BY DEF Init, LedgerEntry
<1>4. tasks \in Seq(Task)
  BY DEF Init
<1>5. /\ taskCounter \in 0 .. TaskIDMax /\ clock \in 0 .. MaxTime
      /\ loopNow \in Nat /\ wakeAt \in Nat /\ scanIdx \in Nat \ {0} /\ idSeen \in Nat
  BY SchedulerAssumption DEF Init
<1>6. /\ loopPc \in {"top", "lock", "idleWait", "scan", "timedWait", "exited"}
      /\ asleep \in BOOLEAN /\ stopRequested \in BOOLEAN /\ owners \subseteq Clients
  BY DEF Init
<1>. QED
  BY <1>1, <1>2, <1>3, <1>4, <1>5, <1>6 DEF TypeOK

LEMMA TypeSchedule ==
    ASSUME TypeOK, NEW c \in Clients, NEW h \in Handles, NEW policy \in Policies,
           NEW interval \in Intervals, Schedule(c, h, policy, interval)
    PROVE  TypeOK'
<1>1. taskCounter \in TaskIDs /\ taskCounter + 1 \in 0 .. TaskIDMax
  BY SchedulerAssumption DEF TypeOK, Schedule, TaskIDs
<1>2. tasks' \in Seq(Task)
  <2>1. [id |-> taskCounter, stop_policy |-> policy, interval |-> interval,
         promise |-> 0, next_execution |-> clock] \in Task
    BY <1>1 DEF TypeOK, Task
  <2>. QED BY <2>1, AppendProperties DEF TypeOK, Schedule
<1>3. call' \in [Actors -> Call]
  <2>1. [NoCall EXCEPT !.op = "schedule", !.pc = "notify", !.handle = h, !.id = taskCounter]
            \in Call
    BY <1>1, SchedulerAssumption DEF Call, NoCall
  <2>. HIDE DEF Call
  <2>. QED BY <2>1 DEF TypeOK, Schedule, Actors
<1>4. ledger' \in [TaskIDs -> LedgerEntry]
  BY <1>1 DEF TypeOK, Schedule, LedgerEntry
<1>5. Pool!TypeOK'
  BY DEF TypeOK, Schedule, Pool!TypeOK, poolVars
<1>. QED
  BY <1>1, <1>2, <1>3, <1>4, <1>5 DEF TypeOK, Schedule, poolVars, loopVars

(* An actor's next call record. *)
LEMMA TypeCall ==
    ASSUME TypeOK, NEW a \in Actors
    PROVE  /\ PcAfterDrop(a) \in {"requestStop", "return"}
           /\ call[a].id \in TaskIDs \cup {NoID}
           /\ \A pc \in {"wait", "finish", "requestStop", "join", "return"} :
                 [call EXCEPT ![a].pc = pc] \in [Actors -> Call]
           /\ \A pc \in {"wait", "finish"}, n \in Nat :
                 [call EXCEPT ![a].pc = pc, ![a].promise = n] \in [Actors -> Call]
           /\ [call EXCEPT ![a] = NoCall] \in [Actors -> Call]
<1>1. call \in [Actors -> Call] /\ call[a] \in Call
  BY DEF TypeOK
<1>2. NoCall \in Call
  BY SchedulerAssumption DEF NoCall, Call
<1>3. ASSUME NEW pc \in {"wait", "finish", "requestStop", "join", "return"}
      PROVE  [call[a] EXCEPT !.pc = pc] \in Call
  BY <1>1 DEF Call
<1>4. ASSUME NEW pc \in {"wait", "finish"}, NEW n \in Nat
      PROVE  [call[a] EXCEPT !.pc = pc, !.promise = n] \in Call
  BY <1>1 DEF Call
<1>5. call[a].id \in TaskIDs \cup {NoID}
  BY <1>1 DEF Call
<1>6. PcAfterDrop(a) \in {"requestStop", "return"}
  BY DEF PcAfterDrop
<1>. HIDE DEF Call
<1>. QED
  BY <1>1, <1>2, <1>3, <1>4, <1>5, <1>6

(* handle[h] of the actor's call is a handle, or [handle EXCEPT ...] changes nothing. *)
LEMMA TypeHandle ==
    ASSUME TypeOK, NEW h, NEW id \in TaskIDs \cup {NoID}
    PROVE  [handle EXCEPT ![h] = id] \in [Handles -> TaskIDs \cup {NoID}]
BY DEF TypeOK

LEMMA TypeLedger ==
    ASSUME TypeOK, NEW id, NEW outcome \in {"stopped", "expired"}
    PROVE  [ledger EXCEPT ![id].outcome = outcome] \in [TaskIDs -> LedgerEntry]
BY DEF TypeOK, LedgerEntry

LEMMA TypeScheduleNotify ==
    ASSUME TypeOK, NEW c \in Actors, ScheduleNotify(c)
    PROVE  TypeOK'
<1>1. handle' \in [Handles -> TaskIDs \cup {NoID}] /\ call' \in [Actors -> Call]
  BY TypeCall, TypeHandle DEF ScheduleNotify
<1>. QED
  BY <1>1 DEF TypeOK, ScheduleNotify, Pool!TypeOK, poolVars, loopVars

LEMMA TypeStopCall ==
    ASSUME TypeOK, NEW a \in Actors, NEW op \in {"stop", "destroy", "move"}, NEW h \in Handles,
           NEW src \in Handles \cup {NoHandle}, op = "move" <=> src \in Handles,
           StopCall(a, op, h, src)
    PROVE  TypeOK'
<1>1. call' \in [Actors -> Call]
  <2>1. \A pc \in {"erase", "return"} :
          [NoCall EXCEPT !.op = op, !.handle = h, !.source = src, !.id = handle[h], !.pc = pc]
              \in Call
    BY DEF TypeOK, Call, NoCall
  <2>. QED BY <2>1 DEF StopCall, TypeOK
<1>2. ledger' \in [TaskIDs -> LedgerEntry]
  BY TypeLedger DEF StopCall, TypeOK
<1>. QED
  BY <1>1, <1>2 DEF TypeOK, StopCall, Pool!TypeOK, poolVars, loopVars

LEMMA TypeEraseTask ==
    ASSUME TypeOK, NEW a \in Actors, EraseTask(a)
    PROVE  TypeOK'
<1>. PICK i \in Indices(call[a].id) :
        /\ tasks' = WithoutTask(i)
        /\ call' = [call EXCEPT ![a].pc = IF tasks[i].stop_policy = "wait" /\ tasks[i].promise # 0
                                         THEN "wait" ELSE "finish",
                                ![a].promise = tasks[i].promise]
  BY DEF EraseTask
<1>1. i \in 1 .. Len(tasks) /\ tasks[i] \in Task
  BY ElementOfSeq DEF Indices, TypeOK
<1>2. tasks' \in Seq(Task)
  BY <1>1, RemoveAtProperties DEF WithoutTask, TypeOK
<1>3. call' \in [Actors -> Call]
  BY <1>1, TypeCall DEF Task
<1>. QED
  BY <1>2, <1>3 DEF TypeOK, EraseTask, Pool!TypeOK, poolVars, loopVars

LEMMA TypeCallStep ==
    ASSUME TypeOK, NEW a \in Actors, CallStep(a)
    PROVE  TypeOK'
<1>. NoID \in TaskIDs \cup {NoID}
  OBVIOUS
<1>1. CASE ScheduleNotify(a)
  BY <1>1, TypeScheduleNotify
<1>2. CASE EraseTask(a)
  BY <1>2, TypeEraseTask
<1>3. CASE EraseMissing(a)
  <2>1. handle' \in [Handles -> TaskIDs \cup {NoID}] /\ call' \in [Actors -> Call]
    BY <1>3, TypeCall, TypeHandle DEF EraseMissing
  <2>. QED BY <1>3, <2>1 DEF TypeOK, EraseMissing, Pool!TypeOK, poolVars, loopVars
<1>4. CASE WaitForCompletion(a)
  <2>1. call' \in [Actors -> Call]
    BY <1>4, TypeCall DEF WaitForCompletion
  <2>. QED BY <1>4, <2>1 DEF TypeOK, WaitForCompletion, Pool!TypeOK, poolVars, loopVars
<1>5. CASE FinishStop(a)
  <2>1. handle' \in [Handles -> TaskIDs \cup {NoID}] /\ call' \in [Actors -> Call]
    BY <1>5, TypeCall, TypeHandle DEF FinishStop
  <2>2. ledger' \in [TaskIDs -> LedgerEntry]
    BY <1>5, TypeLedger DEF FinishStop
  <2>. QED BY <1>5, <2>1, <2>2 DEF TypeOK, FinishStop, Pool!TypeOK, poolVars, loopVars
<1>6. CASE RequestStop(a)
  <2>1. call' \in [Actors -> Call]
    BY <1>6, TypeCall DEF RequestStop
  <2>. QED BY <1>6, <2>1 DEF TypeOK, RequestStop, Pool!TypeOK, poolVars, loopVars
<1>7. CASE Join(a)
  <2>1. call' \in [Actors -> Call] /\ tasks' \in Seq(Task)
    BY <1>7, TypeCall, EmptySeq DEF Join
  <2>. QED BY <1>7, <2>1 DEF TypeOK, Join, Pool!TypeOK, poolVars, loopVars
<1>8. CASE Return(a)
  <2>1. call' \in [Actors -> Call]
    BY <1>8, TypeCall DEF Return
  <2>2. handle' \in [Handles -> TaskIDs \cup {NoID}]
    <3>1. call[a] \in Call
      BY DEF TypeOK
    <3>2. CASE call[a].op = "move"
      <4>1. call[a].source \in Handles
        BY <3>1, <3>2 DEF Call
      <4>2. handle[call[a].source] \in TaskIDs \cup {NoID}
        BY <4>1 DEF TypeOK
      <4>3. handle' = [handle EXCEPT ![call[a].handle] = handle[call[a].source],
                                     ![call[a].source] = NoID]
        BY <1>8, <3>2 DEF Return
      <4>. QED BY <4>2, <4>3 DEF TypeOK
    <3>3. CASE call[a].op # "move"
      BY <1>8, <3>3, TypeHandle DEF Return, TypeOK
    <3>. QED BY <3>2, <3>3
  <2>. QED BY <1>8, <2>1, <2>2 DEF TypeOK, Return, Pool!TypeOK, poolVars, loopVars
<1>. QED
  BY <1>1, <1>2, <1>3, <1>4, <1>5, <1>6, <1>7, <1>8 DEF CallStep

(* The task the scan writes back. *)
LEMMA TypeScanAs ==
    ASSUME TypeOK, NEW task \in Task, Scanning, ScanAs(task)
    PROVE  /\ tasks' \in Seq(Task) /\ Len(tasks') = Len(tasks)
           /\ \A i \in 1 .. Len(tasks) : tasks'[i] = IF i = scanIdx THEN task ELSE tasks[i]
           /\ wakeAt' \in Nat /\ scanIdx' \in Nat \ {0}
<1>1. scanIdx \in 1 .. Len(tasks)
  BY LenProperties DEF TypeOK, Scanning
<1>2. tasks' \in Seq(Task) /\ Len(tasks') = Len(tasks)
  BY <1>1, ExceptSeq DEF TypeOK, ScanAs
<1>3. \A i \in 1 .. Len(tasks) : tasks'[i] = IF i = scanIdx THEN task ELSE tasks[i]
  BY <1>1 DEF TypeOK, ScanAs
<1>4. wakeAt' \in Nat
  BY DEF TypeOK, ScanAs, Lesser, Task
<1>5. scanIdx' \in Nat \ {0}
  BY DEF TypeOK, ScanAs
<1>. QED
  BY <1>2, <1>3, <1>4, <1>5

(* The tasks a scan step may write back are tasks. *)
LEMMA TypeScanned ==
    ASSUME TypeOK, Scanning
    PROVE  /\ scanIdx \in 1 .. Len(tasks)
           /\ tasks[scanIdx] \in Task
           /\ [tasks[scanIdx] EXCEPT !.next_execution = NextExecution(tasks[scanIdx])] \in Task
           /\ [tasks[scanIdx] EXCEPT !.promise = tasks[scanIdx].promise + 1,
                                     !.next_execution = NextExecution(tasks[scanIdx])] \in Task
<1>1. scanIdx \in 1 .. Len(tasks)
  BY LenProperties DEF TypeOK, Scanning
<1>2. tasks[scanIdx] \in Task
  BY <1>1, ElementOfSeq DEF TypeOK
<1>3. NextExecution(tasks[scanIdx]) \in Nat
  <2>1. loopNow \in Nat
    BY DEF TypeOK
  <2>2. tasks[scanIdx].interval \in Nat
    BY <1>2, SchedulerAssumption DEF Task
  <2>. QED BY <2>1, <2>2 DEF NextExecution
<1>4. ASSUME NEW t \in Task, NEW n \in Nat, NEW p \in Nat
      PROVE  /\ [t EXCEPT !.next_execution = n] \in Task
             /\ [t EXCEPT !.promise = p, !.next_execution = n] \in Task
  BY DEF Task
<1>5. tasks[scanIdx].promise + 1 \in Nat
  <2>1. tasks[scanIdx].promise \in Nat
    BY <1>2 DEF Task
  <2>. QED BY <2>1
<1>. QED
  BY <1>1, <1>2, <1>3, <1>4, <1>5

(* A scan step writes back the task it read, with another promise or next  *)
(* execution at most.                                                      *)
LEMMA ScannedTask ==
    ASSUME TypeOK, ScanNotDue \/ ScanRunning \/ ScanSubmit
    PROVE  \E task \in Task : /\ ScanAs(task)
                              /\ task.id = tasks[scanIdx].id
                              /\ task.stop_policy = tasks[scanIdx].stop_policy
<1>1. Scanning
  BY DEF ScanNotDue, ScanRunning, ScanSubmit
<1>2. tasks[scanIdx] \in Task
  BY <1>1, TypeScanned
<1>3. CASE ScanNotDue
  BY <1>2, <1>3 DEF ScanNotDue
<1>4. CASE ScanRunning
  <2>. DEFINE task == [tasks[scanIdx] EXCEPT !.next_execution = NextExecution(tasks[scanIdx])]
  <2>1. task \in Task /\ ScanAs(task)
    BY <1>1, <1>4, TypeScanned DEF ScanRunning
  <2>2. task.id = tasks[scanIdx].id /\ task.stop_policy = tasks[scanIdx].stop_policy
    BY <1>2 DEF Task
  <2>. QED BY <2>1, <2>2
<1>5. CASE ScanSubmit
  <2>. DEFINE task == [tasks[scanIdx] EXCEPT !.promise = tasks[scanIdx].promise + 1,
                          !.next_execution = NextExecution(tasks[scanIdx])]
  <2>1. task \in Task /\ ScanAs(task)
    BY <1>1, <1>5, TypeScanned DEF ScanSubmit
  <2>2. task.id = tasks[scanIdx].id /\ task.stop_policy = tasks[scanIdx].stop_policy
    BY <1>2 DEF Task
  <2>. QED BY <2>1, <2>2
<1>. QED BY <1>3, <1>4, <1>5

LEMMA TypeLoopStep ==
    ASSUME TypeOK, LoopStep
    PROVE  TypeOK'
<1>. USE DEF poolVars, loopVars, loopElse
<1>1. CASE LoopTop
  BY <1>1 DEF TypeOK, LoopTop, Pool!TypeOK
<1>2. CASE EnterIdleWait
  BY <1>2 DEF TypeOK, EnterIdleWait, Pool!TypeOK
<1>3. CASE LeaveIdleWait
  BY <1>3 DEF TypeOK, LeaveIdleWait, Pool!TypeOK
<1>4. CASE EnterScan
  BY <1>4, SchedulerAssumption DEF TypeOK, EnterScan, Pool!TypeOK
<1>5. CASE ScanNotDue
  <2>1. /\ tasks' \in Seq(Task) /\ wakeAt' \in Nat /\ scanIdx' \in Nat \ {0}
    BY <1>5, TypeScanAs, TypeScanned DEF ScanNotDue
  <2>. QED BY <1>5, <2>1 DEF TypeOK, ScanNotDue, ScanAs, Pool!TypeOK
<1>6. CASE ScanRunning
  <2>1. /\ tasks' \in Seq(Task) /\ wakeAt' \in Nat /\ scanIdx' \in Nat \ {0}
    BY <1>6, TypeScanAs, TypeScanned DEF ScanRunning
  <2>. QED BY <1>6, <2>1 DEF TypeOK, ScanRunning, ScanAs, Pool!TypeOK
<1>7. CASE ScanSubmit
  <2>. DEFINE task == tasks[scanIdx]
  <2>1. Scanning
    BY <1>7 DEF ScanSubmit
  <2>2. task \in Task
    BY <2>1, TypeScanned
  <2>3. /\ tasks' \in Seq(Task) /\ wakeAt' \in Nat /\ scanIdx' \in Nat \ {0}
    BY <1>7, <2>1, TypeScanAs, TypeScanned DEF ScanSubmit
  <2>4. Pool!TypeOK'
    <3>1. <<task.id, task.promise + 1>> \in Submission
      BY <2>2 DEF Task, Submission, TaskIDs
    <3>2. queue' \in Seq(Submission)
      BY <1>7, <3>1, AppendProperties DEF TypeOK, ScanSubmit, Pool!Submit, Pool!TypeOK
    <3>. QED BY <1>7, <3>2 DEF TypeOK, ScanSubmit, Pool!Submit, Pool!TypeOK
  <2>5. ledger' \in [TaskIDs -> LedgerEntry]
    <3>. DEFINE entry == [ledger[task.id] EXCEPT !.submitted = TRUE, !.lastSubmit = loopNow]
    <3>1. task.id \in TaskIDs
      BY <2>2 DEF Task
    <3>2. ledger[task.id] \in LedgerEntry /\ loopNow \in Nat
      BY <3>1 DEF TypeOK
    <3>3. entry \in LedgerEntry
      BY <3>2 DEF LedgerEntry
    <3>4. ledger' = [ledger EXCEPT ![task.id] = entry]
      BY <1>7 DEF ScanSubmit
    <3>5. ledger \in [TaskIDs -> LedgerEntry]
      BY DEF TypeOK
    <3>. HIDE DEF task, entry
    <3>. QED BY <3>1, <3>3, <3>4, <3>5
  <2>. QED BY <1>7, <2>3, <2>4, <2>5 DEF TypeOK, ScanSubmit, ScanAs
<1>8. CASE EnterTimedWait
  BY <1>8 DEF TypeOK, EnterTimedWait, Pool!TypeOK
<1>9. CASE LeaveTimedWait
  BY <1>9 DEF TypeOK, LeaveTimedWait, Pool!TypeOK
<1>10. CASE WaitAgain
  BY <1>10 DEF TypeOK, WaitAgain, Pool!TypeOK
<1>. QED
  BY <1>1, <1>2, <1>3, <1>4, <1>5, <1>6, <1>7, <1>8, <1>9, <1>10 DEF LoopStep

LEMMA TypePool ==
    ASSUME Pool!TypeOK, NEW w \in Workers, Pool!Start(w) \/ Pool!Fulfil(w) \/ Pool!Retire(w)
    PROVE  Pool!TypeOK'
<1>. USE DEF Pool!TypeOK, Pool!Slot, Pool!IdleSlot
<1>1. CASE Pool!Start(w)
  <2>1. Head(queue) \in Submission /\ Tail(queue) \in Seq(Submission)
    BY <1>1, HeadTailProperties DEF Pool!Start
  <2>. QED BY <1>1, <2>1 DEF Pool!Start
<1>2. CASE Pool!Fulfil(w)
  BY <1>2 DEF Pool!Fulfil
<1>3. CASE Pool!Retire(w)
  BY <1>3 DEF Pool!Retire
<1>. QED
  BY <1>1, <1>2, <1>3

LEMMA TypeNext == TypeOK /\ [Next]_vars => TypeOK'
<1>. SUFFICES ASSUME TypeOK, [Next]_vars PROVE TypeOK'
  OBVIOUS
<1>. USE DEF poolVars, loopVars
<1>1. ASSUME NEW c \in Clients, NEW h \in Handles, NEW policy \in Policies,
             NEW interval \in Intervals, Schedule(c, h, policy, interval)
      PROVE  TypeOK'
  BY <1>1, TypeSchedule
<1>2. ASSUME NEW c \in Clients, ClientStop(c)
      PROVE  TypeOK'
  <2>1. c \in Actors
    BY DEF Actors
  <2>2. PICK h \in Handles : \/ \E op \in {"stop", "destroy"} : StopCall(c, op, h, NoHandle)
                              \/ \E src \in Handles \ {h} : StopCall(c, "move", h, src)
    BY <1>2 DEF ClientStop
  <2>. QED BY <2>1, <2>2, TypeStopCall, SchedulerAssumption
<1>3. ASSUME NEW c \in Clients, ReleaseOwner(c)
      PROVE  TypeOK'
  <2>1. [NoCall EXCEPT !.op = "release", !.pc = "requestStop"] \in Call
    BY SchedulerAssumption DEF Call, NoCall
  <2>2. call' \in [Actors -> Call]
    BY <1>3, <2>1 DEF ReleaseOwner, TypeOK
  <2>. QED BY <1>3, <2>2 DEF TypeOK, ReleaseOwner, Pool!TypeOK
<1>4. ASSUME NEW w \in Workers, BodyStop(w)
      PROVE  TypeOK'
  <2>1. w \in Actors
    BY DEF Actors
  <2>2. PICK h \in Handles : StopCall(w, "stop", h, NoHandle)
    BY <1>4 DEF BodyStop
  <2>. QED BY <2>1, <2>2, TypeStopCall, SchedulerAssumption
<1>5. ASSUME NEW a \in Actors, CallStep(a)
      PROVE  TypeOK'
  BY <1>5, TypeCallStep
<1>6. CASE LoopStep
  BY <1>6, TypeLoopStep
<1>7. CASE SpuriousWakeup
  BY <1>7 DEF TypeOK, SpuriousWakeup, Pool!TypeOK, loopElse
<1>8. ASSUME NEW w \in Workers, WorkerStep(w)
      PROVE  TypeOK'
  <2>1. Pool!TypeOK'
    BY <1>8, TypePool DEF WorkerStep, TypeOK
  <2>. QED BY <1>8, <2>1 DEF TypeOK, WorkerStep, schedulerVars
<1>9. CASE PurgePool
  <2>1. Pool!TypeOK'
    BY <1>9, EmptySeq DEF PurgePool, Pool!Purge, Pool!TypeOK, TypeOK
  <2>. QED BY <1>9, <2>1 DEF TypeOK, PurgePool, schedulerVars
<1>10. CASE Tick
  BY <1>10, SchedulerAssumption DEF TypeOK, Tick, Pool!TypeOK
<1>11. CASE UNCHANGED vars
  BY <1>11 DEF TypeOK, vars, Pool!TypeOK
<1>. QED
  BY <1>1, <1>2, <1>3, <1>4, <1>5, <1>6, <1>7, <1>8, <1>9, <1>10, <1>11 DEF Next, NewCall

(* Every variable keeps its type: ids stay below kTaskIDMax, futures refer *)
(* to submissions, and a move assignment has a source.                     *)
THEOREM TypeCorrect == Spec => []TypeOK
BY InitType, TypeNext, PTL DEF Spec

-----------------------------------------------------------------------------
(* No task overlaps itself *)

(* What the pool and the tasks hold is unchanged by most steps. *)
Submissions == <<queue, active, tasks, taskCounter>>

LEMMA OverlapUnchanged ==
    IdsUnique /\ IdsIssued /\ PendingIsLast /\ NoOverlap /\ UNCHANGED Submissions
        => (IdsUnique /\ IdsIssued /\ PendingIsLast /\ NoOverlap)'
BY DEF Submissions, IdsUnique, IdsIssued, PendingIsLast, NoOverlap, QueuedFor, ExecutedBy

(* The first component of a submission in the pool is a number. *)
LEMMA PoolIds ==
    ASSUME OverlapInv
    PROVE  /\ \A i \in 1 .. Len(queue) : queue[i] \in Nat \X Nat /\ queue[i][1] \in Nat
           /\ \A w \in Workers : active[w].phase = "body" =>
                 active[w].sub \in Nat \X Nat /\ active[w].sub[1] \in Nat
<1>1. queue \in Seq(Nat \X Nat)
  BY DEF OverlapInv, TypeOK, Pool!TypeOK, Submission
<1>2. active \in [Workers -> Pool!Slot]
  BY DEF OverlapInv, TypeOK, Pool!TypeOK
<1>3. \A i \in 1 .. Len(queue) : queue[i] \in Nat \X Nat
  BY <1>1, ElementOfSeq
<1>4. \A w \in Workers : active[w].phase = "body" => active[w].sub \in Nat \X Nat
  BY <1>2 DEF Pool!Slot, Submission
<1>. QED
  BY <1>3, <1>4

LEMMA OverlapSchedule ==
    ASSUME OverlapInv, NEW c \in Clients, NEW h \in Handles, NEW policy \in Policies,
           NEW interval \in Intervals, Schedule(c, h, policy, interval)
    PROVE  (IdsUnique /\ IdsIssued /\ PendingIsLast /\ NoOverlap)'
<1>. DEFINE task == [id |-> taskCounter, stop_policy |-> policy, interval |-> interval,
                     promise |-> 0, next_execution |-> clock]
<1>1. /\ tasks \in Seq(Task) /\ taskCounter \in Nat
      /\ tasks' = Append(tasks, task) /\ taskCounter' = taskCounter + 1
      /\ queue' = queue /\ active' = active
  BY SchedulerAssumption DEF OverlapInv, TypeOK, Schedule, poolVars
<1>2. /\ Len(tasks') = Len(tasks) + 1
      /\ \A i \in 1 .. Len(tasks) : tasks'[i] = tasks[i]
      /\ tasks'[Len(tasks) + 1] = task
  BY <1>1
<1>. HIDE DEF task
<1>3. \A i \in 1 .. Len(tasks) : tasks[i].id \in Nat /\ tasks[i].id < taskCounter
  <2>. TAKE i \in 1 .. Len(tasks)
  <2>1. tasks[i].id \in TaskIDs
    <3>1. tasks[i] \in Task
      BY <1>1, ElementOfSeq
    <3>. QED BY <3>1 DEF Task
  <2>2. tasks[i].id < taskCounter
    BY DEF OverlapInv, IdsIssued
  <2>. QED BY <2>1, <2>2 DEF TaskIDs
<1>4. task.id = taskCounter
  BY DEF task
<1>5. IdsUnique'
  BY <1>1, <1>2, <1>3, <1>4 DEF OverlapInv, IdsUnique
<1>6. IdsIssued'
  BY <1>1, <1>2, <1>3, <1>4, PoolIds DEF OverlapInv, IdsIssued
<1>7. QueuedFor(taskCounter) = {} /\ ExecutedBy(taskCounter) = {}
  BY <1>1 DEF OverlapInv, IdsIssued, QueuedFor, ExecutedBy
<1>8. PendingIsLast'
  BY <1>1, <1>2, <1>4, <1>7 DEF OverlapInv, PendingIsLast, QueuedFor, ExecutedBy
<1>9. NoOverlap'
  BY <1>1 DEF OverlapInv, NoOverlap, QueuedFor, ExecutedBy
<1>. QED
  BY <1>5, <1>6, <1>8, <1>9

(* Tasks may go, and the rest stays as it was. *)
LEMMA OverlapErase ==
    ASSUME OverlapInv, NEW a \in Actors, EraseTask(a) \/ Join(a)
    PROVE  (IdsUnique /\ IdsIssued /\ PendingIsLast /\ NoOverlap)'
<1>1. queue' = queue /\ active' = active /\ taskCounter' = taskCounter /\ tasks \in Seq(Task)
  BY DEF OverlapInv, TypeOK, EraseTask, Join, poolVars
<1>2. \E f \in [1 .. Len(tasks') -> 1 .. Len(tasks)] :
        /\ \A j \in 1 .. Len(tasks') : tasks'[j] = tasks[f[j]]
        /\ \A j, k \in 1 .. Len(tasks') : f[j] = f[k] => j = k
  <2>1. CASE Join(a)
    <3>1. Len(tasks') = 0
      BY <2>1 DEF Join
    <3>. DEFINE f == [j \in 1 .. Len(tasks') |-> 1]
    <3>2. f \in [1 .. Len(tasks') -> 1 .. Len(tasks)]
      BY <3>1
    <3>3. \A j \in 1 .. Len(tasks') : FALSE
      BY <3>1
    <3>. HIDE DEF f
    <3>. QED BY <3>2, <3>3
  <2>2. CASE EraseTask(a)
    <3>1. PICK i \in 1 .. Len(tasks) : tasks' = RemoveAt(tasks, i)
      BY <2>2 DEF EraseTask, Indices, WithoutTask
    <3>2. /\ Len(tasks) \in Nat
          /\ Len(tasks') = Len(tasks) - 1
          /\ \A j \in 1 .. Len(tasks') : tasks'[j] = IF j < i THEN tasks[j] ELSE tasks[j + 1]
      BY <1>1, <3>1, RemoveAtProperties, LenProperties
    <3>. DEFINE f == [j \in 1 .. Len(tasks') |-> IF j < i THEN j ELSE j + 1]
    <3>3. f \in [1 .. Len(tasks') -> 1 .. Len(tasks)]
      BY <3>2
    <3>4. \A j, k \in 1 .. Len(tasks') : f[j] = f[k] => j = k
      BY <3>2
    <3>5. \A j \in 1 .. Len(tasks') : tasks'[j] = tasks[f[j]]
      BY <3>2
    <3>. QED BY <3>3, <3>4, <3>5
  <2>. QED BY <2>1, <2>2
<1>3. PICK f \in [1 .. Len(tasks') -> 1 .. Len(tasks)] :
        /\ \A j \in 1 .. Len(tasks') : tasks'[j] = tasks[f[j]]
        /\ \A j, k \in 1 .. Len(tasks') : f[j] = f[k] => j = k
  BY <1>2
<1>4. IdsUnique'
  BY <1>3 DEF OverlapInv, IdsUnique
<1>5. IdsIssued'
  BY <1>1, <1>3 DEF OverlapInv, IdsIssued
<1>6. PendingIsLast'
  BY <1>1, <1>3 DEF OverlapInv, PendingIsLast, QueuedFor, ExecutedBy
<1>7. NoOverlap'
  BY <1>1 DEF OverlapInv, NoOverlap, QueuedFor, ExecutedBy
<1>. QED
  BY <1>4, <1>5, <1>6, <1>7

LEMMA OverlapScanSkip ==
    ASSUME OverlapInv, ScanNotDue \/ ScanRunning
    PROVE  (IdsUnique /\ IdsIssued /\ PendingIsLast /\ NoOverlap)'
<1>1. queue' = queue /\ active' = active /\ taskCounter' = taskCounter
  BY DEF ScanNotDue, ScanRunning, ScanAs, poolVars, loopElse
<1>2. TypeOK /\ Scanning
  BY DEF OverlapInv, ScanNotDue, ScanRunning
<1>3. PICK task \in Task : /\ ScanAs(task)
                           /\ task.id = tasks[scanIdx].id
                           /\ task.promise = tasks[scanIdx].promise
  <2>1. CASE ScanNotDue
    BY <1>2, <2>1, TypeScanned DEF ScanNotDue
  <2>2. CASE ScanRunning
    <3>1. tasks[scanIdx] \in Task
      BY <1>2, TypeScanned
    <3>. DEFINE task == [tasks[scanIdx] EXCEPT !.next_execution = NextExecution(tasks[scanIdx])]
    <3>2. task.id = tasks[scanIdx].id /\ task.promise = tasks[scanIdx].promise
      BY <3>1 DEF Task
    <3>3. task \in Task /\ ScanAs(task)
      BY <1>2, <2>2, TypeScanned DEF ScanRunning
    <3>. QED BY <3>2, <3>3
  <2>. QED BY <2>1, <2>2
<1>4. /\ Len(tasks') = Len(tasks)
      /\ \A i \in 1 .. Len(tasks) : tasks'[i] = IF i = scanIdx THEN task ELSE tasks[i]
  BY <1>2, <1>3, TypeScanAs
<1>5. \A i \in 1 .. Len(tasks) : /\ tasks'[i].id = tasks[i].id
                                 /\ tasks'[i].promise = tasks[i].promise
  BY <1>3, <1>4
<1>6. IdsUnique'
  BY <1>4, <1>5 DEF OverlapInv, IdsUnique
<1>7. IdsIssued'
  BY <1>1, <1>4, <1>5 DEF OverlapInv, IdsIssued
<1>8. PendingIsLast'
  BY <1>1, <1>4, <1>5 DEF OverlapInv, PendingIsLast, QueuedFor, ExecutedBy
<1>9. NoOverlap'
  BY <1>1 DEF OverlapInv, NoOverlap, QueuedFor, ExecutedBy
<1>. QED
  BY <1>6, <1>7, <1>8, <1>9

(* The is_running test: nothing is pending of a task whose future is ready. *)
LEMMA NotRunningIsQuiet ==
    ASSUME OverlapInv, NEW i \in 1 .. Len(tasks), ~Running(tasks[i])
    PROVE  QueuedFor(tasks[i].id) = {} /\ ExecutedBy(tasks[i].id) = {}
<1>. DEFINE sub == <<tasks[i].id, tasks[i].promise>>
<1>. HIDE DEF sub
<1>1. tasks[i].promise # 0 => \A k \in 1 .. Len(queue) : queue[k] # sub
  <2>1. DOMAIN queue = 1 .. Len(queue)
    BY LenProperties DEF OverlapInv, TypeOK, Pool!TypeOK
  <2>. QED BY <2>1 DEF Running, Pool!Ready, Pool!Range, sub
<1>2. tasks[i].promise # 0 =>
        \A w \in Workers : active[w].phase = "body" => active[w].sub # sub
  <2>1. \A w \in Workers : active[w].phase = "body" =>
          active[w] = [sub |-> active[w].sub, phase |-> "body"]
    BY DEF OverlapInv, TypeOK, Pool!TypeOK, Pool!Slot
  <2>. QED BY <2>1 DEF Running, Pool!Ready, Pool!Executing, sub
<1>3. \A k \in QueuedFor(tasks[i].id) : tasks[i].promise # 0 /\ queue[k] = sub
  BY DEF OverlapInv, PendingIsLast, sub
<1>4. \A w \in ExecutedBy(tasks[i].id) : tasks[i].promise # 0 /\ active[w].sub = sub
  BY DEF OverlapInv, PendingIsLast, sub
<1>5. QueuedFor(tasks[i].id) = {}
  BY <1>1, <1>3 DEF QueuedFor
<1>6. ExecutedBy(tasks[i].id) = {}
  BY <1>2, <1>4 DEF ExecutedBy
<1>. QED
  BY <1>5, <1>6

LEMMA OverlapScanSubmit ==
    ASSUME OverlapInv, ScanSubmit
    PROVE  (IdsUnique /\ IdsIssued /\ PendingIsLast /\ NoOverlap)'
<1>0. PICK sid \in TaskIDs : sid = tasks[scanIdx].id
  BY TypeScanned DEF OverlapInv, ScanSubmit, Task
<1>. DEFINE task == [tasks[scanIdx] EXCEPT !.promise = tasks[scanIdx].promise + 1,
                        !.next_execution = NextExecution(tasks[scanIdx])]
           n    == tasks[scanIdx].promise + 1
<1>1. active' = active /\ taskCounter' = taskCounter /\ queue' = Append(queue, <<sid, n>>)
  BY <1>0 DEF ScanSubmit, ScanAs, Pool!Submit, loopElse
<1>2. TypeOK /\ Scanning
  BY DEF OverlapInv, ScanSubmit
<1>3. scanIdx \in 1 .. Len(tasks) /\ tasks[scanIdx] \in Task /\ task \in Task
  BY <1>2, TypeScanned
<1>4. task.id = sid /\ task.promise = n /\ n # 0
  BY <1>0, <1>3 DEF Task
<1>5. ScanAs(task)
  BY DEF ScanSubmit
<1>6. QueuedFor(sid) = {} /\ ExecutedBy(sid) = {}
  BY <1>0, <1>3, NotRunningIsQuiet DEF ScanSubmit
<1>. HIDE DEF task, n
<1>7. /\ Len(tasks') = Len(tasks)
      /\ \A i \in 1 .. Len(tasks) : tasks'[i] = IF i = scanIdx THEN task ELSE tasks[i]
  BY <1>2, <1>3, <1>5, TypeScanAs
<1>8. \A i \in 1 .. Len(tasks) : tasks'[i].id = tasks[i].id
  BY <1>0, <1>4, <1>7
<1>9. \A i \in 1 .. Len(tasks) : i # scanIdx => tasks[i].id # sid
  BY <1>0, <1>3 DEF OverlapInv, IdsUnique
<1>10. /\ Len(queue) \in Nat /\ Len(queue') = Len(queue) + 1
       /\ \A k \in 1 .. Len(queue) : queue'[k] = queue[k]
       /\ queue'[Len(queue) + 1] = <<sid, n>>
  <2>1. queue \in Seq(Submission)
    BY <1>2 DEF TypeOK, Pool!TypeOK
  <2>. QED BY <1>1, <2>1
<1>11. queue'[Len(queue) + 1][1] = sid
  BY <1>10
<1>12. sid < taskCounter
  BY <1>0, <1>3 DEF OverlapInv, IdsIssued
<1>13. \A id : id # sid => QueuedFor(id)' = QueuedFor(id)
  BY <1>10, <1>11 DEF QueuedFor
<1>14. QueuedFor(sid)' = {Len(queue) + 1}
  BY <1>6, <1>10, <1>11 DEF QueuedFor
<1>15. \A id : ExecutedBy(id)' = ExecutedBy(id)
  BY <1>1 DEF ExecutedBy
<1>16. IdsUnique'
  BY <1>7, <1>8 DEF OverlapInv, IdsUnique
<1>17. IdsIssued'
  <2>1. \A i \in 1 .. Len(queue') : queue'[i][1] < taskCounter
    BY <1>10, <1>11, <1>12 DEF OverlapInv, IdsIssued
  <2>2. \A i \in 1 .. Len(tasks') : tasks'[i].id < taskCounter
    BY <1>7, <1>8 DEF OverlapInv, IdsIssued
  <2>. QED BY <1>1, <2>1, <2>2 DEF OverlapInv, IdsIssued
<1>18. PendingIsLast'
  <2>. SUFFICES ASSUME NEW i \in 1 .. Len(tasks), NEW id \in TaskIDs, id = tasks[i].id
                PROVE  /\ \A k \in QueuedFor(id)' :
                             tasks'[i].promise # 0 /\ queue'[k] = <<id, tasks'[i].promise>>
                       /\ \A w \in ExecutedBy(id)' :
                             tasks'[i].promise # 0 /\ active'[w].sub = <<id, tasks'[i].promise>>
    <3>1. \A i \in 1 .. Len(tasks) : tasks[i] \in Task
      BY <1>2, ElementOfSeq DEF TypeOK
    <3>2. \A i \in 1 .. Len(tasks) : tasks[i].id \in TaskIDs
      BY <3>1 DEF Task
    <3>. QED BY <1>7, <1>8, <3>2 DEF PendingIsLast, QueuedFor, ExecutedBy
  <2>1. CASE i = scanIdx
    <3>1. id = sid /\ tasks'[i].promise = n
      BY <1>0, <1>3, <1>4, <1>7, <2>1
    <3>2. ExecutedBy(id)' = {} /\ QueuedFor(id)' = {Len(queue) + 1}
      BY <1>6, <1>14, <1>15, <3>1
    <3>. QED BY <1>4, <1>10, <3>1, <3>2
  <2>2. CASE i # scanIdx
    <3>1. tasks'[i] = tasks[i] /\ id # sid
      BY <1>7, <1>9, <2>2
    <3>2. QueuedFor(id)' = QueuedFor(id) /\ ExecutedBy(id)' = ExecutedBy(id)
      BY <1>13, <1>15, <3>1
    <3>3. \A k \in QueuedFor(id) : queue'[k] = queue[k]
      BY <1>10 DEF QueuedFor
    <3>. QED BY <1>1, <3>1, <3>2, <3>3 DEF OverlapInv, PendingIsLast
  <2>. QED BY <2>1, <2>2
<1>19. NoOverlap'
  <2>. SUFFICES ASSUME NEW id \in TaskIDs
                PROVE  /\ \A i, j \in QueuedFor(id)' : i = j
                       /\ \A v, w \in ExecutedBy(id)' : v = w
                       /\ QueuedFor(id)' = {} \/ ExecutedBy(id)' = {}
    BY DEF NoOverlap
  <2>1. CASE id = sid
    BY <1>6, <1>14, <1>15, <2>1
  <2>2. CASE id # sid
    BY <1>13, <1>15, <2>2 DEF OverlapInv, NoOverlap
  <2>. QED BY <2>1, <2>2
<1>. QED
  BY <1>16, <1>17, <1>18, <1>19

(* A worker takes the oldest submission, and what it executes ends. *)
LEMMA OverlapWorker ==
    ASSUME OverlapInv, NEW w \in Workers, WorkerStep(w)
    PROVE  (IdsUnique /\ IdsIssued /\ PendingIsLast /\ NoOverlap)'
<1>1. tasks' = tasks /\ taskCounter' = taskCounter
  BY DEF WorkerStep, schedulerVars
<1>2. queue \in Seq(Submission) /\ active \in [Workers -> Pool!Slot]
  BY DEF OverlapInv, TypeOK, Pool!TypeOK
<1>3. IdsUnique'
  BY <1>1 DEF OverlapInv, IdsUnique
<1>4. CASE Pool!Start(w)
  <2>1. /\ Len(queue) \in Nat /\ Len(queue') = Len(queue) - 1
        /\ 1 \in 1 .. Len(queue)
        /\ \A k \in 1 .. Len(queue') : k + 1 \in 1 .. Len(queue) /\ queue'[k] = queue[k + 1]
    BY <1>2, <1>4 DEF Pool!Start
  <2>2. /\ active'[w].phase = "body" /\ active'[w].sub = queue[1]
        /\ \A v \in Workers : v # w => active'[v] = active[v]
    BY <1>2, <1>4 DEF Pool!Start
  <2>3. \A id : \A k \in QueuedFor(id)' : k + 1 \in QueuedFor(id) /\ queue'[k] = queue[k + 1]
    BY <2>1 DEF QueuedFor
  <2>4. \A id : \A v \in ExecutedBy(id)' :
          \/ v # w /\ v \in ExecutedBy(id) /\ active'[v] = active[v]
          \/ v = w /\ 1 \in QueuedFor(id)
    BY <2>1, <2>2 DEF QueuedFor, ExecutedBy
  <2>5. IdsIssued'
    <3>1. \A k \in 1 .. Len(queue') : queue'[k][1] < taskCounter
      BY <2>1 DEF OverlapInv, IdsIssued
    <3>2. \A v \in Workers : active'[v].phase = "body" => active'[v].sub[1] < taskCounter
      BY <2>1, <2>2 DEF OverlapInv, IdsIssued
    <3>. QED BY <1>1, <3>1, <3>2 DEF OverlapInv, IdsIssued
  <2>6. PendingIsLast'
    <3>. SUFFICES ASSUME NEW i \in 1 .. Len(tasks), NEW id, id = tasks[i].id
                  PROVE  /\ \A k \in QueuedFor(id)' :
                               tasks[i].promise # 0 /\ queue'[k] = <<id, tasks[i].promise>>
                         /\ \A v \in ExecutedBy(id)' :
                               tasks[i].promise # 0 /\ active'[v].sub = <<id, tasks[i].promise>>
      BY <1>1 DEF PendingIsLast, QueuedFor, ExecutedBy
    <3>. QED BY <2>2, <2>3, <2>4 DEF OverlapInv, PendingIsLast
  <2>7. NoOverlap'
    <3>. SUFFICES ASSUME NEW id \in TaskIDs
                  PROVE  /\ \A i, j \in QueuedFor(id)' : i = j
                         /\ \A u, v \in ExecutedBy(id)' : u = v
                         /\ QueuedFor(id)' = {} \/ ExecutedBy(id)' = {}
      BY DEF NoOverlap
    <3>1. /\ \A i, j \in QueuedFor(id) : i = j
          /\ \A u, v \in ExecutedBy(id) : u = v
          /\ QueuedFor(id) = {} \/ ExecutedBy(id) = {}
      BY DEF OverlapInv, NoOverlap
    <3>2. QueuedFor(id)' \subseteq Nat
      BY DEF QueuedFor
    <3>3. \A i, j \in QueuedFor(id)' : i = j
      BY <2>3, <3>1, <3>2
    <3>4. \A u, v \in ExecutedBy(id)' : u = v
      BY <2>4, <3>1
    <3>5. QueuedFor(id)' = {} \/ ExecutedBy(id)' = {}
      <4>1. ASSUME NEW k \in QueuedFor(id)', 1 \in QueuedFor(id) PROVE FALSE
        <5>1. k + 1 = 1 /\ k \in 1 .. Len(queue')
          BY <2>3, <3>1, <4>1 DEF QueuedFor
        <5>. QED BY <5>1
      <4>. QED BY <2>3, <2>4, <3>1, <4>1
    <3>. QED BY <3>3, <3>4, <3>5
  <2>. QED BY <1>3, <2>5, <2>6, <2>7
<1>5. CASE Pool!Fulfil(w) \/ Pool!Retire(w)
  <2>1. queue' = queue
    BY <1>5 DEF Pool!Fulfil, Pool!Retire
  <2>2. \A v \in Workers : active'[v].phase = "body" => active'[v] = active[v]
    <3>1. active[w] \in Pool!Slot /\ w \in DOMAIN active
      BY <1>2
    <3>2. [active[w] EXCEPT !.phase = "closing"].phase # "body"
      BY <3>1 DEF Pool!Slot
    <3>3. active'[w].phase # "body"
      <4>1. CASE Pool!Fulfil(w)
        <5>1. active'[w] = [active[w] EXCEPT !.phase = "closing"]
          BY <1>2, <4>1 DEF Pool!Fulfil
        <5>. QED BY <3>2, <5>1
      <4>2. CASE Pool!Retire(w)
        <5>1. active'[w] = [sub |-> NoTask, phase |-> "idle"]
          BY <1>2, <4>2 DEF Pool!Retire, Pool!IdleSlot
        <5>. QED BY <5>1
      <4>. QED BY <1>5, <4>1, <4>2
    <3>4. \A v \in Workers : v # w => active'[v] = active[v]
      BY <1>2, <1>5 DEF Pool!Fulfil, Pool!Retire
    <3>. QED BY <3>3, <3>4
  <2>3. \A id : QueuedFor(id)' = QueuedFor(id) /\ ExecutedBy(id)' \subseteq ExecutedBy(id)
    BY <2>1, <2>2 DEF QueuedFor, ExecutedBy
  <2>4. IdsIssued'
    BY <1>1, <2>1, <2>2 DEF OverlapInv, IdsIssued
  <2>5. PendingIsLast'
    BY <1>1, <2>1, <2>2 DEF OverlapInv, PendingIsLast, QueuedFor, ExecutedBy
  <2>6. NoOverlap'
    BY <2>3 DEF OverlapInv, NoOverlap
  <2>. QED BY <1>3, <2>4, <2>5, <2>6
<1>. QED
  BY <1>4, <1>5 DEF WorkerStep

LEMMA OverlapPurge ==
    ASSUME OverlapInv, PurgePool
    PROVE  (IdsUnique /\ IdsIssued /\ PendingIsLast /\ NoOverlap)'
<1>1. tasks' = tasks /\ taskCounter' = taskCounter /\ active' = active /\ Len(queue') = 0
  BY DEF PurgePool, Pool!Purge, schedulerVars
<1>2. \A id : QueuedFor(id)' = {} /\ ExecutedBy(id)' = ExecutedBy(id)
  BY <1>1 DEF QueuedFor, ExecutedBy
<1>3. IdsUnique' /\ IdsIssued'
  BY <1>1 DEF OverlapInv, IdsUnique, IdsIssued
<1>4. PendingIsLast'
  BY <1>1 DEF OverlapInv, PendingIsLast, QueuedFor, ExecutedBy
<1>5. NoOverlap'
  BY <1>2 DEF OverlapInv, NoOverlap
<1>. QED
  BY <1>3, <1>4, <1>5

LEMMA OverlapNext == OverlapInv /\ [Next]_vars => OverlapInv'
<1>. SUFFICES ASSUME OverlapInv, [Next]_vars
              PROVE  (IdsUnique /\ IdsIssued /\ PendingIsLast /\ NoOverlap)'
  BY TypeNext DEF OverlapInv
<1>1. CASE UNCHANGED Submissions
  BY <1>1, OverlapUnchanged DEF OverlapInv
<1>. USE DEF Submissions, poolVars, loopElse
<1>2. ASSUME NEW c \in Clients, NEW h \in Handles, NEW policy \in Policies,
             NEW interval \in Intervals, Schedule(c, h, policy, interval)
      PROVE  (IdsUnique /\ IdsIssued /\ PendingIsLast /\ NoOverlap)'
  BY <1>2, OverlapSchedule
<1>3. ASSUME NEW c \in Clients, ClientStop(c) \/ ReleaseOwner(c)
      PROVE  UNCHANGED Submissions
  BY <1>3 DEF ClientStop, StopCall, ReleaseOwner
<1>4. ASSUME NEW w \in Workers, BodyStop(w)
      PROVE  UNCHANGED Submissions
  BY <1>4 DEF BodyStop, StopCall
<1>5. ASSUME NEW a \in Actors, CallStep(a)
      PROVE  (IdsUnique /\ IdsIssued /\ PendingIsLast /\ NoOverlap)'
  <2>1. CASE EraseTask(a) \/ Join(a)
    BY <2>1, OverlapErase
  <2>2. CASE \/ ScheduleNotify(a) \/ EraseMissing(a) \/ WaitForCompletion(a)
             \/ FinishStop(a) \/ RequestStop(a) \/ Return(a)
    BY <1>1, <2>2 DEF ScheduleNotify, EraseMissing, WaitForCompletion, FinishStop,
                      RequestStop, Return
  <2>. QED BY <1>5, <2>1, <2>2 DEF CallStep
<1>6. CASE LoopStep
  <2>1. CASE ScanNotDue \/ ScanRunning
    BY <2>1, OverlapScanSkip
  <2>2. CASE ScanSubmit
    BY <2>2, OverlapScanSubmit
  <2>3. CASE \/ LoopTop \/ EnterIdleWait \/ LeaveIdleWait \/ EnterScan
             \/ EnterTimedWait \/ LeaveTimedWait \/ WaitAgain
    BY <1>1, <2>3 DEF LoopTop, EnterIdleWait, LeaveIdleWait, EnterScan,
                      EnterTimedWait, LeaveTimedWait, WaitAgain
  <2>. QED BY <1>6, <2>1, <2>2, <2>3 DEF LoopStep
<1>7. ASSUME NEW w \in Workers, WorkerStep(w)
      PROVE  (IdsUnique /\ IdsIssued /\ PendingIsLast /\ NoOverlap)'
  BY <1>7, OverlapWorker
<1>8. CASE PurgePool
  BY <1>8, OverlapPurge
<1>9. CASE SpuriousWakeup \/ Tick \/ UNCHANGED vars
  BY <1>1, <1>9 DEF SpuriousWakeup, Tick, vars
<1>. QED
  BY <1>1, <1>2, <1>3, <1>4, <1>5, <1>6, <1>7, <1>8, <1>9 DEF Next, NewCall

LEMMA OverlapInit == Init => OverlapInv
<1>. SUFFICES ASSUME Init PROVE OverlapInv
  OBVIOUS
<1>1. Len(tasks) = 0 /\ Len(queue) = 0 /\ \A w \in Workers : active[w].phase = "idle"
  BY DEF Init, Pool!Init, Pool!IdleSlot
<1>2. IdsUnique /\ IdsIssued
  BY <1>1 DEF IdsUnique, IdsIssued
<1>3. PendingIsLast
  BY <1>1 DEF PendingIsLast
<1>4. NoOverlap
  BY <1>1 DEF NoOverlap, QueuedFor, ExecutedBy
<1>. QED
  BY <1>2, <1>3, <1>4, InitType DEF OverlapInv

(* No task overlaps itself, for any number of threads and tasks: at most   *)
(* one submission of it is queued or executing.                            *)
THEOREM NoSelfOverlap == Spec => []NoOverlap
<1>1. Spec => []OverlapInv
  BY OverlapInit, OverlapNext, PTL DEF Spec
<1>2. OverlapInv => NoOverlap
  BY DEF OverlapInv
<1>. QED BY <1>1, <1>2, PTL

-----------------------------------------------------------------------------
(* A stopped task is quiet, and stays so *)

LEMMA CallIds ==
    ASSUME TypeOK, NEW a \in Actors, Erased(call[a].id)
    PROVE  call[a].id \in TaskIDs
<1>1. call[a].id \in TaskIDs \cup {NoID}
  BY DEF TypeOK, Call
<1>. QED
  BY <1>1, SchedulerAssumption DEF TypeOK, Erased, TaskIDs, NoID

(* What a step must do to keep a stopped task stopped: erased tasks stay   *)
(* erased and nothing is submitted for them, policies stay, and whatever   *)
(* is new in the calls and in the history is as the invariant says.        *)
LEMMA StopFrame ==
    ASSUME TypeOK, ErasedStaysErased, StoppedIsQuiet,
           \A id \in TaskIDs : Erased(id) => /\ Erased(id)'
                                             /\ Pending(id)' \subseteq Pending(id)
                                             /\ ledger'[id].policy = ledger[id].policy,
           \A i \in 1 .. Len(tasks') : tasks'[i].stop_policy = ledger'[tasks'[i].id].policy,
           \A id \in TaskIDs : ledger'[id].outcome = "stopped" =>
               \/ ledger[id].outcome = "stopped"
               \/ Erased(id)' /\ (ledger'[id].policy = "wait" => Quiet(id)'),
           \A a \in Actors : call'[a].pc \in {"wait", "finish"} =>
               \/ call'[a] = call[a]
               \/ HoldsLast(a)'
    PROVE  (ErasedStaysErased /\ StoppedIsQuiet)'
<1>1. ASSUME NEW id \in TaskIDs, ledger'[id].outcome = "stopped"
      PROVE  Erased(id)' /\ (ledger'[id].policy = "wait" => Quiet(id)')
  <2>1. CASE ledger[id].outcome = "stopped"
    BY <2>1 DEF ErasedStaysErased, StoppedIsQuiet, Quiet
  <2>. QED BY <1>1, <2>1
<1>2. ASSUME NEW a \in Actors, call'[a].pc \in {"wait", "finish"}
      PROVE  HoldsLast(a)'
  <2>. SUFFICES ASSUME call'[a] = call[a] PROVE HoldsLast(a)'
    BY <1>2
  <2>1. HoldsLast(a)
    BY <1>2 DEF ErasedStaysErased
  <2>2. PICK id \in TaskIDs : id = call[a].id
    BY <2>1, CallIds DEF HoldsLast
  <2>3. Erased(id)' /\ Pending(id)' \subseteq Pending(id) /\ ledger'[id].policy = ledger[id].policy
    BY <2>1, <2>2 DEF HoldsLast
  <2>4. /\ Pending(id)' \subseteq {<<id, call'[a].promise>>}
        /\ call'[a].pc = "finish" /\ ledger'[id].policy = "wait" => Quiet(id)'
    BY <2>1, <2>2, <2>3 DEF HoldsLast, Quiet
  <2>5. id = call'[a].id
    BY <2>2
  <2>. QED BY <2>3, <2>4, <2>5 DEF HoldsLast
<1>. QED
  BY <1>1, <1>2 DEF ErasedStaysErased, StoppedIsQuiet

(* Steps of the callers and of the loop that leave tasks_ and the pool alone. *)
LEMMA StopUnchanged ==
    ASSUME StopInv, UNCHANGED Submissions,
           \A id \in TaskIDs : /\ ledger'[id].policy = ledger[id].policy
                               /\ ledger'[id].outcome = "stopped" => ledger[id].outcome = "stopped",
           \A a \in Actors : call'[a].pc \in {"wait", "finish"} => call'[a] = call[a]
    PROVE  (ErasedStaysErased /\ StoppedIsQuiet)'
<1>1. \A id : Erased(id)' = Erased(id) /\ Pending(id)' = Pending(id)
  BY DEF Submissions, Erased, Indices, Pending, QueuedFor, ExecutedBy
<1>2. \A i \in 1 .. Len(tasks) : tasks[i].id \in TaskIDs
  <2>1. \A i \in 1 .. Len(tasks) : tasks[i] \in Task
    BY ElementOfSeq DEF StopInv, OverlapInv, TypeOK
  <2>. QED BY <2>1 DEF Task
<1>3. \A i \in 1 .. Len(tasks') : tasks'[i].stop_policy = ledger'[tasks'[i].id].policy
  BY <1>2 DEF StopInv, ErasedStaysErased, Submissions
<1>. QED
  BY <1>1, <1>3, StopFrame DEF StopInv, OverlapInv

LEMMA TaskAt ==
    ASSUME TypeOK
    PROVE  \A i \in 1 .. Len(tasks) : tasks[i].id \in TaskIDs /\ tasks[i].promise \in Nat
<1>1. \A i \in 1 .. Len(tasks) : tasks[i] \in Task
  BY ElementOfSeq DEF TypeOK
<1>. QED BY <1>1 DEF Task

LEMMA StopSchedule ==
    ASSUME StopInv, NEW c \in Clients, NEW h \in Handles, NEW policy \in Policies,
           NEW interval \in Intervals, Schedule(c, h, policy, interval)
    PROVE  (ErasedStaysErased /\ StoppedIsQuiet)'
<1>. DEFINE task == [id |-> taskCounter, stop_policy |-> policy, interval |-> interval,
                     promise |-> 0, next_execution |-> clock]
<1>1. /\ tasks \in Seq(Task) /\ taskCounter \in Nat /\ taskCounter \in TaskIDs
      /\ tasks' = Append(tasks, task) /\ taskCounter' = taskCounter + 1
      /\ queue' = queue /\ active' = active
      /\ ledger \in [TaskIDs -> LedgerEntry]
      /\ ledger' = [ledger EXCEPT ![taskCounter].policy = policy]
  BY SchedulerAssumption DEF StopInv, OverlapInv, TypeOK, Schedule, poolVars, TaskIDs
<1>2. /\ Len(tasks) \in Nat /\ Len(tasks') = Len(tasks) + 1
      /\ \A i \in 1 .. Len(tasks) : tasks'[i] = tasks[i]
      /\ tasks'[Len(tasks) + 1] = task
  BY <1>1
<1>3. task.id = taskCounter /\ task.stop_policy = policy
  OBVIOUS
<1>. HIDE DEF task
<1>4. /\ ledger'[taskCounter].policy = policy
      /\ \A id \in TaskIDs : ledger'[id].outcome = ledger[id].outcome
      /\ \A id \in TaskIDs : id # taskCounter => ledger'[id].policy = ledger[id].policy
  BY <1>1 DEF LedgerEntry
<1>5. \A id \in TaskIDs : id \in Nat
  BY DEF TaskIDs
<1>6. ASSUME NEW id \in TaskIDs, Erased(id)
      PROVE  Erased(id)' /\ Pending(id)' \subseteq Pending(id) /\ ledger'[id].policy = ledger[id].policy
  <2>1. id # taskCounter /\ id < taskCounter'
    BY <1>1, <1>5, <1>6 DEF Erased
  <2>2. Indices(id)' = {}
    BY <1>2, <1>3, <1>6, <2>1 DEF Erased, Indices
  <2>3. Pending(id)' = Pending(id)
    BY <1>1 DEF Pending, QueuedFor, ExecutedBy
  <2>. QED BY <1>4, <2>1, <2>2, <2>3 DEF Erased
<1>7. ASSUME NEW i \in 1 .. Len(tasks')
      PROVE  tasks'[i].stop_policy = ledger'[tasks'[i].id].policy
  <2>1. CASE i = Len(tasks) + 1
    BY <1>2, <1>3, <1>4, <2>1
  <2>2. CASE i \in 1 .. Len(tasks)
    <3>1. tasks[i].id \in TaskIDs /\ tasks[i].id # taskCounter
      BY <1>1, <1>5, <2>2, TaskAt DEF StopInv, OverlapInv, IdsIssued
    <3>. QED BY <1>2, <1>4, <2>2, <3>1 DEF StopInv, ErasedStaysErased
  <2>. QED BY <1>2, <2>1, <2>2
<1>8. ASSUME NEW a \in Actors, call'[a].pc \in {"wait", "finish"}
      PROVE  call'[a] = call[a]
  BY <1>8 DEF Schedule, StopInv, OverlapInv, TypeOK, NoCall
<1>. QED
  BY <1>4, <1>6, <1>7, <1>8, StopFrame DEF StopInv, OverlapInv

(* The task that is erased takes its future with it into the call. *)
LEMMA StopEraseTask ==
    ASSUME StopInv, NEW a \in Actors, EraseTask(a)
    PROVE  (ErasedStaysErased /\ StoppedIsQuiet)'
<1>1. TypeOK /\ tasks \in Seq(Task) /\ taskCounter \in Nat /\ call \in [Actors -> Call]
  BY DEF StopInv, OverlapInv, TypeOK
<1>2. PICK n \in Indices(call[a].id) :
        /\ tasks' = RemoveAt(tasks, n)
        /\ call' = [call EXCEPT ![a].pc = IF tasks[n].stop_policy = "wait" /\ tasks[n].promise # 0
                                         THEN "wait" ELSE "finish",
                                ![a].promise = tasks[n].promise]
  BY DEF EraseTask, WithoutTask
<1>3. UNCHANGED <<queue, active, taskCounter, ledger>>
  BY DEF EraseTask, poolVars
<1>4. n \in 1 .. Len(tasks) /\ tasks[n].id = call[a].id
  BY <1>2 DEF Indices
<1>5. PICK id \in TaskIDs : id = tasks[n].id
  BY <1>1, <1>4, TaskAt
<1>6. PICK m \in Nat : m = tasks[n].promise
  BY <1>1, <1>4, TaskAt
<1>7. /\ Len(tasks) \in Nat
      /\ Len(tasks') = Len(tasks) - 1
      /\ \A j \in 1 .. Len(tasks') : tasks'[j] = IF j < n THEN tasks[j] ELSE tasks[j + 1]
  BY <1>1, <1>2, <1>4, RemoveAtProperties, LenProperties
<1>8. \A j \in 1 .. Len(tasks') : \E k \in 1 .. Len(tasks) : k # n /\ tasks'[j] = tasks[k]
  <2>. TAKE j \in 1 .. Len(tasks')
  <2>1. CASE j < n
    BY <1>7, <2>1
  <2>2. CASE ~(j < n)
    BY <1>4, <1>7, <2>2
  <2>. QED BY <2>1, <2>2
<1>9. /\ call'[a].id = id /\ call'[a].promise = m
      /\ call'[a].pc = "finish" => ~(tasks[n].stop_policy = "wait" /\ m # 0)
      /\ \A b \in Actors : b # a => call'[b] = call[b]
  <2>1. call[a] \in Call
    BY <1>1
  <2>2. call'[a] = [call[a] EXCEPT !.pc = IF tasks[n].stop_policy = "wait" /\ tasks[n].promise # 0
                                          THEN "wait" ELSE "finish",
                                   !.promise = tasks[n].promise]
    BY <1>1, <1>2
  <2>3. call'[a].id = id /\ call'[a].promise = m
    BY <1>4, <1>5, <1>6, <2>1, <2>2 DEF Call
  <2>4. call'[a].pc = "finish" => ~(tasks[n].stop_policy = "wait" /\ m # 0)
    BY <1>6, <2>1, <2>2 DEF Call
  <2>. QED BY <1>1, <1>2, <2>3, <2>4
<1>10. \A q : Pending(q)' = Pending(q)
  BY <1>3 DEF Pending, QueuedFor, ExecutedBy
<1>11. Erased(id)'
  <2>1. id < taskCounter
    BY <1>4, <1>5 DEF StopInv, OverlapInv, IdsIssued
  <2>2. Indices(id)' = {}
    BY <1>4, <1>5, <1>8 DEF Indices, StopInv, OverlapInv, IdsUnique
  <2>. QED BY <1>3, <2>1, <2>2 DEF Erased
<1>12. Pending(id) \subseteq {<<id, m>>} /\ (m = 0 => Pending(id) = {})
  BY <1>4, <1>5, <1>6 DEF Pending, StopInv, OverlapInv, PendingIsLast
<1>13. HoldsLast(a)'
  <2>1. call'[a].pc = "finish" /\ ledger'[id].policy = "wait" => Pending(id) = {}
    <3>1. tasks[n].stop_policy = ledger[id].policy
      BY <1>4, <1>5 DEF StopInv, ErasedStaysErased
    <3>. QED BY <1>3, <1>9, <1>12, <3>1
  <2>. QED BY <1>9, <1>10, <1>11, <1>12, <2>1 DEF HoldsLast, Quiet
<1>14. \A i \in 1 .. Len(tasks') : tasks'[i].stop_policy = ledger'[tasks'[i].id].policy
  BY <1>3, <1>8 DEF StopInv, ErasedStaysErased
<1>15. \A q \in TaskIDs : Erased(q) => Erased(q)'
  BY <1>3, <1>8 DEF Erased, Indices
<1>. QED
  BY <1>1, <1>3, <1>9, <1>10, <1>13, <1>14, <1>15, StopFrame DEF StopInv

(* The wait for the future ends when nothing of the task is pending. *)
LEMMA StopWait ==
    ASSUME StopInv, NEW a \in Actors, WaitForCompletion(a)
    PROVE  (ErasedStaysErased /\ StoppedIsQuiet)'
<1>1. TypeOK /\ UNCHANGED <<queue, active, tasks, taskCounter, ledger>>
  BY DEF StopInv, OverlapInv, WaitForCompletion, poolVars
<1>2. call[a].pc = "wait" /\ Pool!Ready(<<call[a].id, call[a].promise>>) /\ HoldsLast(a)
  BY DEF WaitForCompletion, StopInv, ErasedStaysErased
<1>3. PICK id \in TaskIDs : id = call[a].id
  BY <1>1, <1>2, CallIds DEF HoldsLast
<1>4. PICK m \in Nat : m = call[a].promise
  BY <1>1 DEF TypeOK, Call
<1>5. call'[a].id = id /\ call'[a].promise = m /\ \A b \in Actors : b # a => call'[b] = call[b]
  BY <1>1, <1>3, <1>4 DEF WaitForCompletion, TypeOK, Call
<1>6. Pending(id) = {}
  <2>1. \A k \in 1 .. Len(queue) : queue[k] # <<id, m>>
    <3>1. DOMAIN queue = 1 .. Len(queue)
      BY <1>1, LenProperties DEF TypeOK, Pool!TypeOK
    <3>. QED BY <1>2, <1>3, <1>4, <3>1 DEF Pool!Ready, Pool!Range
  <2>2. \A w \in Workers : active[w].phase = "body" => active[w].sub # <<id, m>>
    <3>1. \A w \in Workers : active[w].phase = "body" =>
            active[w] = [sub |-> active[w].sub, phase |-> "body"]
      BY <1>1 DEF TypeOK, Pool!TypeOK, Pool!Slot
    <3>. QED BY <1>2, <1>3, <1>4, <3>1 DEF Pool!Ready, Pool!Executing
  <2>3. Pending(id) \subseteq {<<id, m>>}
    BY <1>2, <1>3, <1>4 DEF HoldsLast
  <2>. QED BY <2>1, <2>2, <2>3 DEF Pending, QueuedFor, ExecutedBy
<1>7. \A q : Erased(q)' = Erased(q) /\ Pending(q)' = Pending(q)
  BY <1>1 DEF Erased, Indices, Pending, QueuedFor, ExecutedBy
<1>8. HoldsLast(a)'
  BY <1>2, <1>3, <1>5, <1>6, <1>7 DEF HoldsLast, Quiet
<1>9. \A i \in 1 .. Len(tasks') : tasks'[i].stop_policy = ledger'[tasks'[i].id].policy
  BY <1>1 DEF StopInv, ErasedStaysErased
<1>. QED
  BY <1>1, <1>5, <1>7, <1>8, <1>9, StopFrame DEF StopInv

LEMMA StopFinish ==
    ASSUME StopInv, NEW a \in Actors, FinishStop(a)
    PROVE  (ErasedStaysErased /\ StoppedIsQuiet)'
<1>1. /\ TypeOK /\ UNCHANGED <<queue, active, tasks, taskCounter>>
      /\ ledger \in [TaskIDs -> LedgerEntry]
  BY DEF StopInv, OverlapInv, TypeOK, FinishStop, poolVars
<1>2. call[a].pc = "finish" /\ HoldsLast(a)
  BY DEF FinishStop, StopInv, ErasedStaysErased
<1>3. PICK id \in TaskIDs : id = call[a].id
  BY <1>1, <1>2, CallIds DEF HoldsLast
<1>4. /\ \A q \in TaskIDs : ledger'[q].policy = ledger[q].policy
      /\ \A q \in TaskIDs : q # id => ledger'[q].outcome = ledger[q].outcome
  BY <1>1, <1>3 DEF FinishStop, LedgerEntry
<1>5. \A q : Erased(q)' = Erased(q) /\ Pending(q)' = Pending(q)
  BY <1>1 DEF Erased, Indices, Pending, QueuedFor, ExecutedBy
<1>6. Erased(id)' /\ (ledger'[id].policy = "wait" => Quiet(id)')
  BY <1>2, <1>3, <1>4, <1>5 DEF HoldsLast, Quiet
<1>7. \A b \in Actors : call'[b].pc \in {"wait", "finish"} => call'[b] = call[b]
  <2>1. /\ call'[a].pc = PcAfterDrop(a)
        /\ \A b \in Actors : b # a => call'[b] = call[b]
    BY <1>1 DEF FinishStop, TypeOK, Call
  <2>. QED BY <2>1 DEF PcAfterDrop
<1>8. \A i \in 1 .. Len(tasks') : tasks'[i].stop_policy = ledger'[tasks'[i].id].policy
  BY <1>1, <1>4, TaskAt DEF StopInv, ErasedStaysErased
<1>. QED
  BY <1>1, <1>4, <1>5, <1>6, <1>7, <1>8, StopFrame DEF StopInv

LEMMA StopJoin ==
    ASSUME StopInv, NEW a \in Actors, Join(a)
    PROVE  (ErasedStaysErased /\ StoppedIsQuiet)'
<1>1. TypeOK /\ UNCHANGED <<queue, active, taskCounter, ledger>> /\ Len(tasks') = 0
  BY DEF StopInv, OverlapInv, Join, poolVars
<1>2. \A q : Pending(q)' = Pending(q) /\ (Erased(q) => Erased(q)')
  BY <1>1 DEF Erased, Indices, Pending, QueuedFor, ExecutedBy
<1>3. \A b \in Actors : call'[b].pc \in {"wait", "finish"} => call'[b] = call[b]
  BY <1>1 DEF Join, TypeOK, Call
<1>4. \A i \in 1 .. Len(tasks') : FALSE
  BY <1>1
<1>. QED
  BY <1>1, <1>2, <1>3, <1>4, StopFrame DEF StopInv

(* The loop submits only what is in tasks_. *)
LEMMA StopScan ==
    ASSUME StopInv, ScanNotDue \/ ScanRunning \/ ScanSubmit
    PROVE  (ErasedStaysErased /\ StoppedIsQuiet)'
<1>1. /\ TypeOK /\ Scanning /\ UNCHANGED <<taskCounter, call>>
      /\ ledger \in [TaskIDs -> LedgerEntry]
  BY DEF StopInv, OverlapInv, TypeOK, ScanNotDue, ScanRunning, ScanSubmit, ScanAs, loopElse
<1>2. scanIdx \in 1 .. Len(tasks) /\ tasks[scanIdx] \in Task
  BY <1>1, TypeScanned
<1>3. PICK sid \in TaskIDs : sid = tasks[scanIdx].id
  BY <1>1, <1>2, TaskAt
<1>4. PICK task \in Task : /\ ScanAs(task) /\ task.id = sid
                           /\ task.stop_policy = tasks[scanIdx].stop_policy
  BY <1>1, <1>3, ScannedTask
<1>5. /\ Len(tasks') = Len(tasks)
      /\ \A i \in 1 .. Len(tasks) : tasks'[i] = IF i = scanIdx THEN task ELSE tasks[i]
  BY <1>1, <1>4, TypeScanAs
<1>6. \A i \in 1 .. Len(tasks) : /\ tasks'[i].id = tasks[i].id
                                 /\ tasks'[i].stop_policy = tasks[i].stop_policy
  BY <1>3, <1>4, <1>5
<1>7. \A q : Indices(q)' = Indices(q)
  BY <1>5, <1>6 DEF Indices
<1>8. \A q : Erased(q)' = Erased(q)
  BY <1>1, <1>7 DEF Erased
<1>9. \A q \in TaskIDs : /\ ledger'[q].policy = ledger[q].policy
                         /\ ledger'[q].outcome = ledger[q].outcome
  <2>1. CASE ScanSubmit
    <3>1. ledger' = [ledger EXCEPT ![sid].submitted = TRUE, ![sid].lastSubmit = loopNow]
      BY <1>3, <2>1 DEF ScanSubmit
    <3>. QED BY <1>1, <3>1 DEF LedgerEntry
  <2>2. CASE ScanNotDue \/ ScanRunning
    BY <2>2 DEF ScanNotDue, ScanRunning
  <2>. QED BY <2>1, <2>2
<1>10. \A q \in TaskIDs : Erased(q) => Pending(q)' = Pending(q)
  <2>1. CASE ScanSubmit
    <3>1. active' = active /\ queue' = Append(queue, <<sid, tasks[scanIdx].promise + 1>>)
      BY <1>3, <2>1 DEF ScanSubmit, Pool!Submit
    <3>2. /\ Len(queue) \in Nat /\ Len(queue') = Len(queue) + 1
          /\ \A k \in 1 .. Len(queue) : queue'[k] = queue[k]
          /\ queue'[Len(queue) + 1][1] = sid
      <4>1. queue \in Seq(Submission)
        BY <1>1 DEF TypeOK, Pool!TypeOK
      <4>. QED BY <3>1, <4>1
    <3>3. \A q \in TaskIDs : Erased(q) => q # sid
      BY <1>2, <1>3 DEF Erased, Indices
    <3>4. \A q \in TaskIDs : q # sid => QueuedFor(q)' = QueuedFor(q)
      BY <3>2 DEF QueuedFor
    <3>5. \A q : \A k \in QueuedFor(q) : queue'[k] = queue[k]
      BY <3>2 DEF QueuedFor
    <3>6. \A q : ExecutedBy(q)' = ExecutedBy(q)
      BY <3>1 DEF ExecutedBy
    <3>. QED BY <3>1, <3>3, <3>4, <3>5, <3>6 DEF Pending
  <2>2. CASE ScanNotDue \/ ScanRunning
    BY <2>2 DEF ScanNotDue, ScanRunning, poolVars, Pending, QueuedFor, ExecutedBy
  <2>. QED BY <2>1, <2>2 DEF ScanNotDue, ScanRunning
<1>11. \A i \in 1 .. Len(tasks') : tasks'[i].stop_policy = ledger'[tasks'[i].id].policy
  BY <1>1, <1>5, <1>6, <1>9, TaskAt DEF StopInv, ErasedStaysErased
<1>. QED
  BY <1>1, <1>8, <1>9, <1>10, <1>11, StopFrame DEF StopInv

(* The pool never adds a submission by itself. *)
LEMMA PendingShrinks ==
    ASSUME TypeOK, PurgePool \/ \E w \in Workers : WorkerStep(w)
    PROVE  \A q : Pending(q)' \subseteq Pending(q)
<1>1. queue \in Seq(Submission) /\ active \in [Workers -> Pool!Slot]
  BY DEF TypeOK, Pool!TypeOK
<1>2. /\ \A k \in 1 .. Len(queue') : \E j \in 1 .. Len(queue) : queue'[k] = queue[j]
      /\ \A v \in Workers : active'[v].phase = "body" =>
           \/ active'[v] = active[v]
           \/ \E j \in 1 .. Len(queue) : active'[v].sub = queue[j]
  <2>1. ASSUME NEW w \in Workers, WorkerStep(w)
        PROVE  /\ \A k \in 1 .. Len(queue') : \E j \in 1 .. Len(queue) : queue'[k] = queue[j]
               /\ \A v \in Workers : active'[v].phase = "body" =>
                    \/ active'[v] = active[v]
                    \/ \E j \in 1 .. Len(queue) : active'[v].sub = queue[j]
    <3>1. CASE Pool!Start(w)
      <4>1. /\ Len(queue) \in Nat /\ Len(queue') = Len(queue) - 1 /\ 1 \in 1 .. Len(queue)
            /\ \A k \in 1 .. Len(queue') : k + 1 \in 1 .. Len(queue) /\ queue'[k] = queue[k + 1]
        BY <1>1, <3>1 DEF Pool!Start
      <4>2. active'[w].sub = queue[1] /\ \A v \in Workers : v # w => active'[v] = active[v]
        BY <1>1, <3>1 DEF Pool!Start
      <4>. QED BY <4>1, <4>2
    <3>2. CASE Pool!Fulfil(w)
      <4>1. active'[w].phase # "body"
        <5>1. active'[w] = [active[w] EXCEPT !.phase = "closing"]
          BY <1>1, <3>2 DEF Pool!Fulfil
        <5>2. active[w] \in Pool!Slot
          BY <1>1
        <5>. QED BY <5>1, <5>2 DEF Pool!Slot
      <4>2. queue' = queue /\ \A v \in Workers : v # w => active'[v] = active[v]
        BY <1>1, <3>2 DEF Pool!Fulfil
      <4>. QED BY <4>1, <4>2
    <3>3. CASE Pool!Retire(w)
      <4>1. active'[w].phase # "body"
        BY <1>1, <3>3 DEF Pool!Retire, Pool!IdleSlot
      <4>2. queue' = queue /\ \A v \in Workers : v # w => active'[v] = active[v]
        BY <1>1, <3>3 DEF Pool!Retire
      <4>. QED BY <4>1, <4>2
    <3>. QED BY <2>1, <3>1, <3>2, <3>3 DEF WorkerStep
  <2>2. CASE PurgePool
    <3>1. Len(queue') = 0 /\ active' = active
      BY <2>2 DEF PurgePool, Pool!Purge
    <3>. QED BY <3>1
  <2>. QED BY <2>1, <2>2
<1>. QED
  BY <1>2 DEF Pending, QueuedFor, ExecutedBy

LEMMA StopPool ==
    ASSUME StopInv, PurgePool \/ \E w \in Workers : WorkerStep(w)
    PROVE  (ErasedStaysErased /\ StoppedIsQuiet)'
<1>1. TypeOK /\ UNCHANGED <<tasks, taskCounter, call, ledger>>
  BY DEF StopInv, OverlapInv, WorkerStep, PurgePool, schedulerVars
<1>2. \A q : Erased(q)' = Erased(q)
  BY <1>1 DEF Erased, Indices
<1>3. \A q : Pending(q)' \subseteq Pending(q)
  BY <1>1, PendingShrinks
<1>4. \A i \in 1 .. Len(tasks') : tasks'[i].stop_policy = ledger'[tasks'[i].id].policy
  BY <1>1 DEF StopInv, ErasedStaysErased
<1>. QED
  BY <1>1, <1>2, <1>3, <1>4, StopFrame DEF StopInv

LEMMA StopNext == StopInv /\ [Next]_vars => StopInv'
<1>. SUFFICES ASSUME StopInv, [Next]_vars
              PROVE  (ErasedStaysErased /\ StoppedIsQuiet)'
  BY OverlapNext DEF StopInv
<1>0. /\ call \in [Actors -> Call]
      /\ ledger \in [TaskIDs -> LedgerEntry]
      /\ \A a \in Actors : PcAfterDrop(a) \in {"requestStop", "return"}
  BY DEF StopInv, OverlapInv, TypeOK, PcAfterDrop
<1>. USE DEF Submissions, poolVars, loopElse
<1>1. ASSUME UNCHANGED Submissions, UNCHANGED <<call, ledger>>
      PROVE  (ErasedStaysErased /\ StoppedIsQuiet)'
  BY <1>1, StopUnchanged
<1>2. ASSUME UNCHANGED Submissions, UNCHANGED ledger, NEW a \in Actors, NEW c,
             c.pc \notin {"wait", "finish"}, call' = [call EXCEPT ![a] = c]
      PROVE  (ErasedStaysErased /\ StoppedIsQuiet)'
  <2>1. \A b \in Actors : call'[b].pc \in {"wait", "finish"} => call'[b] = call[b]
    BY <1>0, <1>2
  <2>. QED BY <1>2, <2>1, StopUnchanged
<1>3. \A a \in Actors, pc \in {"requestStop", "join", "return"} :
        /\ [call EXCEPT ![a].pc = pc] = [call EXCEPT ![a] = [call[a] EXCEPT !.pc = pc]]
        /\ [call[a] EXCEPT !.pc = pc].pc = pc
  BY <1>0 DEF Call
<1>4. NoCall.pc \notin {"wait", "finish"}
  BY DEF NoCall
<1>5. ASSUME NEW c \in Clients, NEW h \in Handles, NEW policy \in Policies,
             NEW interval \in Intervals, Schedule(c, h, policy, interval)
      PROVE  (ErasedStaysErased /\ StoppedIsQuiet)'
  BY <1>5, StopSchedule
<1>6. ASSUME NEW a \in Actors, NEW op \in {"stop", "destroy", "move"}, NEW h, NEW src,
             StopCall(a, op, h, src)
      PROVE  (ErasedStaysErased /\ StoppedIsQuiet)'
  <2>1. UNCHANGED Submissions
    BY <1>6 DEF StopCall
  <2>2. \A b \in Actors : call'[b].pc \in {"wait", "finish"} => call'[b] = call[b]
    <3>1. call'[a].pc \in {"erase", "return"} /\ \A b \in Actors : b # a => call'[b] = call[b]
      BY <1>0, <1>6 DEF StopCall, NoCall
    <3>. QED BY <3>1
  <2>3. \A id \in TaskIDs : /\ ledger'[id].policy = ledger[id].policy
                            /\ ledger'[id].outcome = "stopped" => ledger[id].outcome = "stopped"
    <3>1. CASE ledger' = ledger
      BY <3>1
    <3>2. CASE ledger' = [ledger EXCEPT ![handle[h]].outcome = "expired"]
      BY <1>0, <3>2 DEF LedgerEntry
    <3>. QED BY <1>6, <3>1, <3>2 DEF StopCall
  <2>. QED BY <2>1, <2>2, <2>3, StopUnchanged
<1>7. ASSUME NEW c \in Clients, ClientStop(c)
      PROVE  (ErasedStaysErased /\ StoppedIsQuiet)'
  BY <1>6, <1>7 DEF ClientStop, Actors
<1>8. ASSUME NEW w \in Workers, BodyStop(w)
      PROVE  (ErasedStaysErased /\ StoppedIsQuiet)'
  BY <1>6, <1>8 DEF BodyStop, Actors
<1>9. ASSUME NEW c \in Clients, ReleaseOwner(c)
      PROVE  (ErasedStaysErased /\ StoppedIsQuiet)'
  <2>1. c \in Actors /\ UNCHANGED Submissions /\ UNCHANGED ledger
    BY <1>9 DEF ReleaseOwner, Actors
  <2>2. [NoCall EXCEPT !.op = "release", !.pc = "requestStop"].pc = "requestStop"
    BY DEF NoCall
  <2>3. CASE call' = call
    BY <1>1, <2>1, <2>3
  <2>4. CASE call' = [call EXCEPT ![c] = [NoCall EXCEPT !.op = "release", !.pc = "requestStop"]]
    BY <1>2, <2>1, <2>2, <2>4
  <2>. QED BY <1>9, <2>3, <2>4 DEF ReleaseOwner
<1>10. ASSUME NEW a \in Actors, CallStep(a)
       PROVE  (ErasedStaysErased /\ StoppedIsQuiet)'
  <2>1. CASE EraseTask(a)
    BY <2>1, StopEraseTask
  <2>2. CASE WaitForCompletion(a)
    BY <2>2, StopWait
  <2>3. CASE FinishStop(a)
    BY <2>3, StopFinish
  <2>4. CASE Join(a)
    BY <2>4, StopJoin
  <2>5. CASE ScheduleNotify(a) \/ Return(a)
    <3>1. UNCHANGED Submissions /\ UNCHANGED ledger /\ call' = [call EXCEPT ![a] = NoCall]
      BY <2>5 DEF ScheduleNotify, Return
    <3>. QED BY <1>2, <1>4, <3>1
  <2>6. CASE EraseMissing(a) \/ RequestStop(a)
    <3>1. /\ UNCHANGED Submissions /\ UNCHANGED ledger
          /\ \E pc \in {"requestStop", "join", "return"} : call' = [call EXCEPT ![a].pc = pc]
      BY <1>0, <2>6 DEF EraseMissing, RequestStop
    <3>2. PICK pc \in {"requestStop", "join", "return"} : call' = [call EXCEPT ![a].pc = pc]
      BY <3>1
    <3>3. [call[a] EXCEPT !.pc = pc].pc \notin {"wait", "finish"}
      BY <1>3
    <3>4. call' = [call EXCEPT ![a] = [call[a] EXCEPT !.pc = pc]]
      BY <1>3, <3>2
    <3>. QED BY <1>2, <3>1, <3>3, <3>4
  <2>. QED BY <1>10, <2>1, <2>2, <2>3, <2>4, <2>5, <2>6 DEF CallStep
<1>11. CASE LoopStep
  <2>1. CASE ScanNotDue \/ ScanRunning \/ ScanSubmit
    BY <2>1, StopScan
  <2>2. CASE \/ LoopTop \/ EnterIdleWait \/ LeaveIdleWait \/ EnterScan
             \/ EnterTimedWait \/ LeaveTimedWait \/ WaitAgain
    BY <1>1, <2>2 DEF LoopTop, EnterIdleWait, LeaveIdleWait, EnterScan,
                      EnterTimedWait, LeaveTimedWait, WaitAgain
  <2>. QED BY <1>11, <2>1, <2>2 DEF LoopStep
<1>12. ASSUME NEW w \in Workers, WorkerStep(w)
       PROVE  (ErasedStaysErased /\ StoppedIsQuiet)'
  BY <1>12, StopPool
<1>13. CASE PurgePool
  BY <1>13, StopPool
<1>14. CASE SpuriousWakeup \/ Tick \/ UNCHANGED vars
  BY <1>1, <1>14 DEF SpuriousWakeup, Tick, vars
<1>. QED
  BY <1>5, <1>7, <1>8, <1>9, <1>10, <1>11, <1>12, <1>13, <1>14 DEF Next, NewCall

LEMMA StopInit == Init => StopInv
<1>. SUFFICES ASSUME Init PROVE ErasedStaysErased /\ StoppedIsQuiet
  BY OverlapInit DEF StopInv
<1>1. /\ Len(tasks) = 0
      /\ \A id \in TaskIDs : ledger[id].outcome = "none"
      /\ \A a \in Actors : call[a].pc = "idle"
  BY DEF Init, NoCall
<1>. QED
  BY <1>1 DEF ErasedStaysErased, StoppedIsQuiet

LEMMA StopInvariant == Spec => []StopInv
BY StopInit, StopNext, PTL DEF Spec

(* After a Stop that returned true for a task with kWaitForCompletion,     *)
(* nothing of the task is queued or executing, ever.                       *)
THEOREM StopWaits == Spec => []StoppedIsQuiet
<1>1. StopInv => StoppedIsQuiet
  BY DEF StopInv
<1>. QED BY <1>1, StopInvariant, PTL

(* The only step that lengthens the queue is the scan of the task that is  *)
(* then its last.                                                          *)
LEMMA SubmitIsScan ==
    ASSUME TypeOK, [Next]_vars, NEW id, SubmittedNow(id)
    PROVE  ScanSubmit /\ scanIdx \in Indices(id)
<1>1. queue \in Seq(Submission) /\ Len(queue') > Len(queue)
  BY DEF TypeOK, Pool!TypeOK, SubmittedNow
<1>2. ScanSubmit
  <2>1. queue' # queue /\ ~PurgePool /\ \A w \in Workers : ~WorkerStep(w)
    <3>1. queue' # queue
      BY <1>1
    <3>2. ASSUME PurgePool PROVE FALSE
      BY <1>1, <3>2 DEF PurgePool, Pool!Purge
    <3>3. ASSUME NEW w \in Workers, WorkerStep(w) PROVE FALSE
      <4>1. CASE Pool!Start(w)
        BY <1>1, <4>1 DEF Pool!Start
      <4>. QED BY <3>1, <3>3, <4>1 DEF WorkerStep, Pool!Fulfil, Pool!Retire
    <3>. QED BY <3>1, <3>2, <3>3
  <2>2. \A c \in Clients : ~ClientStop(c) /\ ~ReleaseOwner(c)
    BY <2>1 DEF ClientStop, StopCall, ReleaseOwner, poolVars
  <2>3. \A c \in Clients, h \in Handles, policy \in Policies, interval \in Intervals :
          ~Schedule(c, h, policy, interval)
    BY <2>1 DEF Schedule, poolVars
  <2>4. \A w \in Workers : ~BodyStop(w)
    BY <2>1 DEF BodyStop, StopCall, poolVars
  <2>5. \A a \in Actors : ~CallStep(a)
    BY <2>1 DEF CallStep, ScheduleNotify, EraseTask, EraseMissing, WaitForCompletion,
                FinishStop, RequestStop, Join, Return, poolVars
  <2>6. LoopStep => ScanSubmit
    BY <2>1 DEF LoopStep, LoopTop, EnterIdleWait, LeaveIdleWait, EnterScan, ScanNotDue,
                ScanRunning, EnterTimedWait, LeaveTimedWait, WaitAgain, poolVars
  <2>7. ~(SpuriousWakeup \/ Tick \/ UNCHANGED vars)
    BY <2>1 DEF SpuriousWakeup, Tick, vars, poolVars
  <2>. QED BY <2>1, <2>2, <2>3, <2>4, <2>5, <2>6, <2>7 DEF Next, NewCall
<1>3. scanIdx \in 1 .. Len(tasks)
  BY <1>1, <1>2, TypeScanned DEF ScanSubmit
<1>4. Last(queue')[1] = tasks[scanIdx].id
  <2>1. queue' = Append(queue, <<tasks[scanIdx].id, tasks[scanIdx].promise + 1>>)
    BY <1>2 DEF ScanSubmit, Pool!Submit
  <2>2. /\ Len(queue') = Len(queue) + 1
        /\ queue'[Len(queue) + 1] = <<tasks[scanIdx].id, tasks[scanIdx].promise + 1>>
    BY <1>1, <2>1
  <2>. QED BY <2>2 DEF Last
<1>. QED BY <1>2, <1>3, <1>4 DEF SubmittedNow, Indices

(* After a Stop that returned true the loop never submits the task again,  *)
(* whatever its policy.                                                    *)
THEOREM StopIsFinal == Spec => NeverSubmittedAgain
<1>1. ASSUME StopInv, [Next]_vars
      PROVE  [\A id \in TaskIDs : ledger[id].outcome = "stopped" => ~SubmittedNow(id)]_vars
  <2>. SUFFICES ASSUME NEW id \in TaskIDs, ledger[id].outcome = "stopped", SubmittedNow(id)
                PROVE  FALSE
    OBVIOUS
  <2>1. Erased(id)
    BY <1>1 DEF StopInv, ErasedStaysErased
  <2>2. scanIdx \in Indices(id)
    BY <1>1, SubmitIsScan DEF StopInv, OverlapInv
  <2>. QED BY <2>1, <2>2 DEF Erased
<1>. QED BY <1>1, StopInvariant, PTL DEF Spec, NeverSubmittedAgain

-----------------------------------------------------------------------------
(* The loop misses no wakeup *)

(* Steps of the others: they leave the loop's locals alone, tasks only go, *)
(* and who clears asleep has woken the loop.                               *)
LEMMA WakeFrame ==
    ASSUME WakesInTime, NoMissedWakeup,
           UNCHANGED loopVars,
           taskCounter' = taskCounter,
           asleep' => asleep /\ stopRequested' = stopRequested,
           asleep' => \A c \in Clients : call[c].pc = "notify" => call'[c].pc = "notify",
           loopPc = "scan" => tasks' = tasks,
           \A j \in 1 .. Len(tasks') : \E i \in 1 .. Len(tasks) : tasks'[j] = tasks[i]
    PROVE  (WakesInTime /\ NoMissedWakeup)'
<1>1. WakesInTime'
  BY DEF WakesInTime, loopVars
<1>2. NoMissedWakeup'
  BY DEF NoMissedWakeup, loopVars
<1>. QED
  BY <1>1, <1>2

LEMMA WakeSchedule ==
    ASSUME OverlapInv, WakesInTime, NoMissedWakeup, NEW c \in Clients, NEW h \in Handles,
           NEW policy \in Policies, NEW interval \in Intervals, Schedule(c, h, policy, interval)
    PROVE  (WakesInTime /\ NoMissedWakeup)'
<1>. DEFINE task == [id |-> taskCounter, stop_policy |-> policy, interval |-> interval,
                     promise |-> 0, next_execution |-> clock]
<1>1. /\ tasks \in Seq(Task) /\ taskCounter \in Nat /\ idSeen \in Nat
      /\ tasks' = Append(tasks, task) /\ taskCounter' = taskCounter + 1
      /\ loopPc # "scan" /\ UNCHANGED <<loopVars, asleep, stopRequested>>
  BY SchedulerAssumption DEF OverlapInv, TypeOK, Schedule, MtxFree
<1>2. /\ Len(tasks) \in Nat /\ Len(tasks') = Len(tasks) + 1
      /\ \A i \in 1 .. Len(tasks) : tasks'[i] = tasks[i]
      /\ tasks'[Len(tasks) + 1] = task
  BY <1>1
<1>3. task.id = taskCounter
  OBVIOUS
<1>. HIDE DEF task
<1>4. WakesInTime'
  BY <1>1, <1>2, <1>3 DEF WakesInTime, loopVars
<1>5. call'[c].pc = "notify"
  BY DEF Schedule, OverlapInv, TypeOK, NoCall, Actors
<1>. QED
  BY <1>1, <1>4, <1>5 DEF NoMissedWakeup

(* The wake time is the least next execution of what was scanned. *)
LEMMA WakeScan ==
    ASSUME OverlapInv, WakesInTime, NoMissedWakeup, ScanNotDue \/ ScanRunning \/ ScanSubmit
    PROVE  (WakesInTime /\ NoMissedWakeup)'
<1>1. TypeOK /\ Scanning /\ loopPc = "scan" /\ ~asleep
  BY DEF OverlapInv, ScanNotDue, ScanRunning, ScanSubmit, Scanning, WakesInTime
<1>2. PICK task \in Task : ScanAs(task)
  BY <1>1, TypeScanned DEF ScanNotDue, ScanRunning, ScanSubmit
<1>3. /\ Len(tasks') = Len(tasks)
      /\ \A i \in 1 .. Len(tasks) : tasks'[i] = IF i = scanIdx THEN task ELSE tasks[i]
  BY <1>1, <1>2, TypeScanAs
<1>4. /\ wakeAt \in Nat /\ task.next_execution \in Nat /\ scanIdx \in Nat
      /\ \A i \in 1 .. Len(tasks) : tasks[i].next_execution \in Nat
  <2>1. \A i \in 1 .. Len(tasks) : tasks[i] \in Task
    BY <1>1, ElementOfSeq DEF TypeOK
  <2>. QED BY <1>1, <2>1 DEF Task, TypeOK
<1>5. wakeAt' <= wakeAt /\ wakeAt' <= task.next_execution /\ wakeAt' \in Nat
  BY <1>2, <1>4 DEF ScanAs, Lesser
<1>6. scanIdx' = scanIdx + 1 /\ UNCHANGED <<loopPc, asleep>>
  BY <1>2 DEF ScanAs
<1>7. ASSUME NEW i \in 1 .. Len(tasks'), i < scanIdx'
      PROVE  wakeAt' <= tasks'[i].next_execution
  <2>1. CASE i = scanIdx
    BY <1>3, <1>5, <2>1
  <2>2. CASE i # scanIdx
    <3>1. i \in 1 .. Len(tasks) /\ i < scanIdx
      BY <1>3, <1>4, <1>6, <1>7, <2>2
    <3>2. wakeAt <= tasks[i].next_execution /\ tasks'[i] = tasks[i]
      BY <1>1, <1>3, <2>2, <3>1 DEF WakesInTime
    <3>. QED BY <1>4, <1>5, <3>1, <3>2
  <2>. QED BY <2>1, <2>2
<1>. QED
  BY <1>1, <1>6, <1>7 DEF WakesInTime, NoMissedWakeup

LEMMA WakeLoop ==
    ASSUME OverlapInv, WakesInTime, NoMissedWakeup, LoopStep
    PROVE  (WakesInTime /\ NoMissedWakeup)'
<1>. TypeOK
  BY DEF OverlapInv
<1>0. /\ Len(tasks) \in Nat /\ scanIdx \in Nat /\ taskCounter \in Nat /\ idSeen \in Nat
      /\ \A i \in 1 .. Len(tasks) : tasks[i].id \in Nat /\ tasks[i].id < taskCounter
  <2>1. \A i \in 1 .. Len(tasks) : tasks[i].id \in Nat
    BY TaskAt DEF TaskIDs
  <2>. QED BY <2>1, LenProperties, SchedulerAssumption DEF TypeOK, OverlapInv, IdsIssued
<1>. USE DEF WakesInTime, NoMissedWakeup, loopElse
<1>1. CASE ScanNotDue \/ ScanRunning \/ ScanSubmit
  BY <1>1, WakeScan
<1>2. CASE LoopTop
  BY <1>2 DEF LoopTop
<1>3. CASE EnterIdleWait
  <2>1. /\ Len(tasks) = 0 /\ loopPc' \in {"top", "idleWait"}
        /\ UNCHANGED <<tasks, stopRequested>>
    BY <1>3 DEF EnterIdleWait
  <2>2. asleep' => loopPc' = "idleWait" /\ ~stopRequested
    BY <1>3 DEF EnterIdleWait
  <2>. QED BY <2>1, <2>2
<1>4. CASE LeaveIdleWait
  BY <1>4 DEF LeaveIdleWait
<1>5. CASE EnterScan
  BY <1>5 DEF EnterScan
<1>6. CASE EnterTimedWait
  <2>1. \A i \in 1 .. Len(tasks) : i < scanIdx
    BY <1>0, <1>6 DEF EnterTimedWait
  <2>2. \A i \in 1 .. Len(tasks) : wakeAt <= tasks[i].next_execution
    BY <1>6, <2>1 DEF EnterTimedWait
  <2>3. /\ loopPc' \in {"top", "timedWait"} /\ idSeen' = taskCounter
        /\ UNCHANGED <<tasks, wakeAt, taskCounter, stopRequested>>
    BY <1>6 DEF EnterTimedWait
  <2>4. asleep' => loopPc' = "timedWait" /\ ~stopRequested
    BY <1>6 DEF EnterTimedWait
  <2>. QED BY <1>0, <2>2, <2>3, <2>4
<1>7. CASE LeaveTimedWait
  BY <1>7 DEF LeaveTimedWait
<1>8. CASE WaitAgain
  <2>1. UNCHANGED <<tasks, loopVars, stopRequested, call, taskCounter>> /\ ~stopRequested
    BY <1>8 DEF WaitAgain
  <2>2. CASE loopPc = "idleWait"
    <3>1. Len(tasks) = 0
      BY <1>8, <2>2 DEF WaitAgain
    <3>. QED BY <2>1, <2>2, <3>1 DEF loopVars
  <2>3. CASE loopPc = "timedWait"
    <3>1. \A i \in 1 .. Len(tasks) : tasks[i].id < idSeen
      BY <1>0, <1>8, <2>3 DEF WaitAgain
    <3>. QED BY <2>1, <2>3, <3>1 DEF loopVars
  <2>. QED BY <1>8, <2>2, <2>3 DEF WaitAgain
<1>. QED
  BY <1>1, <1>2, <1>3, <1>4, <1>5, <1>6, <1>7, <1>8 DEF LoopStep

(* A call only takes tasks away, and none while the loop scans. *)
LEMMA TasksShrink ==
    ASSUME TypeOK, NEW a \in Actors, CallStep(a)
    PROVE  /\ loopPc = "scan" => tasks' = tasks
           /\ \A j \in 1 .. Len(tasks') : \E i \in 1 .. Len(tasks) : tasks'[j] = tasks[i]
<1>1. CASE EraseTask(a)
  <2>1. PICK n \in Indices(call[a].id) : tasks' = RemoveAt(tasks, n)
    BY <1>1 DEF EraseTask, WithoutTask
  <2>2. n \in 1 .. Len(tasks)
    BY DEF Indices
  <2>3. /\ Len(tasks) \in Nat
        /\ Len(tasks') = Len(tasks) - 1
        /\ \A j \in 1 .. Len(tasks') : tasks'[j] = IF j < n THEN tasks[j] ELSE tasks[j + 1]
    BY <2>1, <2>2, RemoveAtProperties, LenProperties DEF TypeOK
  <2>4. \A j \in 1 .. Len(tasks') : j \in 1 .. Len(tasks) /\ j + 1 \in 1 .. Len(tasks)
    BY <2>3
  <2>. QED BY <1>1, <2>3, <2>4 DEF EraseTask, MtxFree
<1>2. CASE Join(a)
  BY <1>2 DEF Join
<1>3. CASE ~EraseTask(a) /\ ~Join(a)
  <2>1. tasks' = tasks
    BY <1>3 DEF CallStep, ScheduleNotify, EraseMissing, WaitForCompletion, FinishStop,
                RequestStop, Return
  <2>. QED BY <2>1
<1>. QED BY <1>1, <1>2, <1>3

LEMMA WakeCall ==
    ASSUME OverlapInv, WakesInTime, NoMissedWakeup, NEW a \in Actors, CallStep(a)
    PROVE  (WakesInTime /\ NoMissedWakeup)'
<1>1. TypeOK /\ tasks \in Seq(Task) /\ call \in [Actors -> Call]
  BY DEF OverlapInv, TypeOK
<1>2. /\ UNCHANGED <<loopVars, taskCounter>>
      /\ asleep' => asleep /\ stopRequested' = stopRequested
  BY DEF CallStep, ScheduleNotify, EraseTask, EraseMissing, WaitForCompletion, FinishStop,
         RequestStop, Join, Return, loopVars
<1>3. asleep' => \A c \in Clients : call[c].pc = "notify" => call'[c].pc = "notify"
  <2>. SUFFICES ASSUME asleep', NEW c \in Clients, call[c].pc = "notify"
                PROVE  call'[c] = call[c]
    OBVIOUS
  <2>1. call[a].pc # "notify" /\ \A b \in Actors : b # a => call'[b] = call[b]
    BY <1>1 DEF CallStep, ScheduleNotify, EraseTask, EraseMissing, WaitForCompletion,
                FinishStop, RequestStop, Join, Return
  <2>. QED BY <2>1 DEF Actors
<1>. QED
  BY <1>1, <1>2, <1>3, TasksShrink, WakeFrame

LEMMA WakeNext ==
    ASSUME OverlapInv, WakesInTime, NoMissedWakeup, [Next]_vars
    PROVE  (WakesInTime /\ NoMissedWakeup)'
<1>1. ASSUME UNCHANGED <<loopVars, tasks, taskCounter>>, asleep' => asleep,
             stopRequested' = stopRequested,
             \A c \in Clients : call[c].pc = "notify" => call'[c].pc = "notify"
      PROVE  (WakesInTime /\ NoMissedWakeup)'
  <2>1. \A j \in 1 .. Len(tasks') : \E i \in 1 .. Len(tasks) : tasks'[j] = tasks[i]
    BY <1>1
  <2>. QED BY <1>1, <2>1, WakeFrame
<1>2. NoCall.pc # "notify"
  BY DEF NoCall
<1>3. ASSUME NEW a \in Actors, call[a] = NoCall, NEW r, call' = [call EXCEPT ![a] = r] \/ call' = call
      PROVE  \A c \in Clients : call[c].pc = "notify" => call'[c].pc = "notify"
  BY <1>2, <1>3 DEF OverlapInv, TypeOK, Actors
<1>4. ASSUME NEW c \in Clients, NEW h \in Handles, NEW policy \in Policies,
             NEW interval \in Intervals, Schedule(c, h, policy, interval)
      PROVE  (WakesInTime /\ NoMissedWakeup)'
  BY <1>4, WakeSchedule
<1>5. ASSUME NEW a \in Actors, NEW op, NEW h, NEW src, StopCall(a, op, h, src)
      PROVE  (WakesInTime /\ NoMissedWakeup)'
  <2>1. call[a] = NoCall /\ UNCHANGED <<loopVars, tasks, taskCounter, asleep, stopRequested>>
    BY <1>5 DEF StopCall
  <2>2. call' = [call EXCEPT ![a] =
                   [NoCall EXCEPT !.op = op, !.handle = h, !.source = src, !.id = handle[h],
                                  !.pc = IF handle[h] # NoID /\ Alive THEN "erase" ELSE "return"]]
    BY <1>5 DEF StopCall
  <2>3. \A c \in Clients : call[c].pc = "notify" => call'[c].pc = "notify"
    BY <1>3, <2>1, <2>2
  <2>. QED BY <1>1, <2>1, <2>3
<1>6. ASSUME NEW c \in Clients, ClientStop(c) \/ ReleaseOwner(c)
      PROVE  (WakesInTime /\ NoMissedWakeup)'
  <2>1. CASE ClientStop(c)
    BY <1>5, <2>1 DEF ClientStop, Actors
  <2>2. CASE ReleaseOwner(c)
    <3>1. /\ c \in Actors /\ call[c] = NoCall
          /\ UNCHANGED <<loopVars, tasks, taskCounter, asleep, stopRequested>>
      BY <2>2 DEF ReleaseOwner, Actors
    <3>2. \/ call' = [call EXCEPT ![c] = [NoCall EXCEPT !.op = "release", !.pc = "requestStop"]]
          \/ call' = call
      BY <2>2 DEF ReleaseOwner
    <3>3. \A b \in Clients : call[b].pc = "notify" => call'[b].pc = "notify"
      BY <1>3, <3>1, <3>2
    <3>. QED BY <1>1, <3>1, <3>3
  <2>. QED BY <1>6, <2>1, <2>2
<1>7. ASSUME NEW w \in Workers, BodyStop(w) \/ WorkerStep(w)
      PROVE  (WakesInTime /\ NoMissedWakeup)'
  <2>1. CASE BodyStop(w)
    BY <1>5, <2>1 DEF BodyStop, Actors
  <2>2. CASE WorkerStep(w)
    BY <1>1, <2>2 DEF WorkerStep, schedulerVars
  <2>. QED BY <1>7, <2>1, <2>2
<1>8. ASSUME NEW a \in Actors, CallStep(a)
      PROVE  (WakesInTime /\ NoMissedWakeup)'
  BY <1>8, WakeCall
<1>9. CASE LoopStep
  BY <1>9, WakeLoop
<1>10. CASE SpuriousWakeup \/ PurgePool \/ Tick \/ UNCHANGED vars
  BY <1>1, <1>10 DEF SpuriousWakeup, PurgePool, Tick, vars, loopVars, loopElse, schedulerVars
<1>. QED
  BY <1>4, <1>6, <1>7, <1>8, <1>9, <1>10 DEF Next, NewCall

-----------------------------------------------------------------------------
(* Two submissions of a task are an interval apart *)

(* Steps that neither schedule nor scan. *)
LEMMA PeriodsFrame ==
    ASSUME TypeOK, PeriodsKept, taskCounter' = taskCounter,
           \A j \in 1 .. Len(tasks') : \E i \in 1 .. Len(tasks) : tasks'[j] = tasks[i],
           \A id \in TaskIDs : /\ ledger'[id].submitted = ledger[id].submitted
                               /\ ledger'[id].lastSubmit = ledger[id].lastSubmit
    PROVE  PeriodsKept'
<1>1. ASSUME NEW j \in 1 .. Len(tasks'), ledger'[tasks'[j].id].submitted
      PROVE  ledger'[tasks'[j].id].lastSubmit + tasks'[j].interval <= tasks'[j].next_execution
  <2>1. PICK i \in 1 .. Len(tasks) : tasks'[j] = tasks[i]
    OBVIOUS
  <2>2. PICK id \in TaskIDs : id = tasks[i].id
    BY TaskAt
  <2>. QED BY <1>1, <2>1, <2>2 DEF PeriodsKept
<1>2. \A id \in TaskIDs : taskCounter' <= id => ~ledger'[id].submitted
  BY DEF PeriodsKept
<1>. QED
  BY <1>1, <1>2 DEF PeriodsKept

LEMMA PeriodsSchedule ==
    ASSUME OverlapInv, PeriodsKept, NEW c \in Clients, NEW h \in Handles,
           NEW policy \in Policies, NEW interval \in Intervals, Schedule(c, h, policy, interval)
    PROVE  PeriodsKept'
<1>. DEFINE task == [id |-> taskCounter, stop_policy |-> policy, interval |-> interval,
                     promise |-> 0, next_execution |-> clock]
<1>1. /\ TypeOK /\ tasks \in Seq(Task) /\ taskCounter \in Nat /\ taskCounter \in TaskIDs
      /\ tasks' = Append(tasks, task) /\ taskCounter' = taskCounter + 1
      /\ ledger \in [TaskIDs -> LedgerEntry]
      /\ ledger' = [ledger EXCEPT ![taskCounter].policy = policy]
  BY SchedulerAssumption DEF OverlapInv, TypeOK, Schedule, TaskIDs
<1>2. /\ Len(tasks) \in Nat /\ Len(tasks') = Len(tasks) + 1
      /\ \A i \in 1 .. Len(tasks) : tasks'[i] = tasks[i]
      /\ tasks'[Len(tasks) + 1] = task
  BY <1>1
<1>3. task.id = taskCounter
  OBVIOUS
<1>. HIDE DEF task
<1>4. \A id \in TaskIDs : /\ ledger'[id].submitted = ledger[id].submitted
                          /\ ledger'[id].lastSubmit = ledger[id].lastSubmit
  BY <1>1 DEF LedgerEntry
<1>5. ~ledger'[taskCounter].submitted
  BY <1>1, <1>4 DEF PeriodsKept
<1>6. ASSUME NEW i \in 1 .. Len(tasks'), ledger'[tasks'[i].id].submitted
      PROVE  ledger'[tasks'[i].id].lastSubmit + tasks'[i].interval <= tasks'[i].next_execution
  <2>1. CASE i = Len(tasks) + 1
    BY <1>2, <1>3, <1>5, <1>6, <2>1
  <2>2. CASE i \in 1 .. Len(tasks)
    <3>1. PICK id \in TaskIDs : id = tasks[i].id
      BY <1>1, <2>2, TaskAt
    <3>. QED BY <1>2, <1>4, <1>6, <2>2, <3>1 DEF PeriodsKept
  <2>. QED BY <1>2, <2>1, <2>2
<1>7. \A id \in TaskIDs : taskCounter' <= id => ~ledger'[id].submitted
  <2>1. \A id \in TaskIDs : taskCounter' <= id => taskCounter <= id
    BY <1>1 DEF TaskIDs
  <2>. QED BY <1>4, <2>1 DEF PeriodsKept
<1>. QED
  BY <1>6, <1>7 DEF PeriodsKept

(* The next execution is only ever put off, to an interval after this scan. *)
LEMMA PeriodsScan ==
    ASSUME OverlapInv, PeriodsKept, ScanNotDue \/ ScanRunning \/ ScanSubmit
    PROVE  PeriodsKept'
<1>1. /\ TypeOK /\ Scanning /\ taskCounter' = taskCounter /\ loopNow \in Nat
      /\ taskCounter \in Nat /\ ledger \in [TaskIDs -> LedgerEntry]
  BY SchedulerAssumption
     DEF OverlapInv, TypeOK, ScanNotDue, ScanRunning, ScanSubmit, ScanAs, loopElse
<1>2. scanIdx \in 1 .. Len(tasks) /\ tasks[scanIdx] \in Task
  BY <1>1, TypeScanned
<1>3. PICK sid \in TaskIDs : sid = tasks[scanIdx].id
  BY <1>1, <1>2, TaskAt
<1>4. PICK n \in Nat : n = tasks[scanIdx].next_execution
  BY <1>2 DEF Task
<1>5. PICK period \in Nat : period = tasks[scanIdx].interval
  BY <1>2, SchedulerAssumption DEF Task
<1>6. PICK last \in Nat : last = ledger[sid].lastSubmit
  BY <1>1 DEF LedgerEntry
<1>7. ledger[sid].submitted => last + period <= n
  BY <1>2, <1>3, <1>4, <1>5, <1>6 DEF PeriodsKept
<1>8. PICK task \in Task :
        /\ ScanAs(task) /\ task.id = sid /\ task.interval = period
        /\ ledger'[sid].submitted => ledger'[sid].lastSubmit + period <= task.next_execution
  <2>1. CASE ScanNotDue
    <3>1. ledger' = ledger /\ ScanAs(tasks[scanIdx])
      BY <2>1 DEF ScanNotDue
    <3>. QED BY <1>2, <1>3, <1>4, <1>5, <1>6, <1>7, <3>1
  <2>2. CASE ScanRunning
    <3>. DEFINE task == [tasks[scanIdx] EXCEPT !.next_execution = NextExecution(tasks[scanIdx])]
    <3>1. task \in Task /\ ScanAs(task) /\ ledger' = ledger /\ n <= loopNow
      BY <1>1, <1>4, <2>2, TypeScanned DEF ScanRunning, Due
    <3>2. task.id = sid /\ task.interval = period /\ task.next_execution = loopNow + period
      BY <1>2, <1>3, <1>5 DEF Task, NextExecution
    <3>. HIDE DEF task
    <3>3. last + period <= n => last + period <= loopNow + period
      BY <1>1, <3>1
    <3>. QED BY <1>6, <1>7, <3>1, <3>2, <3>3
  <2>3. CASE ScanSubmit
    <3>. DEFINE task == [tasks[scanIdx] EXCEPT !.promise = tasks[scanIdx].promise + 1,
                            !.next_execution = NextExecution(tasks[scanIdx])]
    <3>1. task \in Task /\ ScanAs(task)
      BY <1>1, <2>3, TypeScanned DEF ScanSubmit
    <3>2. task.id = sid /\ task.interval = period /\ task.next_execution = loopNow + period
      BY <1>2, <1>3, <1>5 DEF Task, NextExecution
    <3>3. ledger'[sid].lastSubmit = loopNow
      BY <1>1, <1>3, <2>3 DEF ScanSubmit, LedgerEntry
    <3>. HIDE DEF task
    <3>4. loopNow + period <= loopNow + period
      BY <1>1
    <3>. QED BY <3>1, <3>2, <3>3, <3>4
  <2>. QED BY <2>1, <2>2, <2>3
<1>9. /\ Len(tasks') = Len(tasks)
      /\ \A i \in 1 .. Len(tasks) : tasks'[i] = IF i = scanIdx THEN task ELSE tasks[i]
  BY <1>1, <1>8, TypeScanAs
<1>10. \A id \in TaskIDs : id # sid => ledger'[id] = ledger[id]
  <2>1. CASE ScanSubmit
    BY <1>1, <1>3, <2>1 DEF ScanSubmit
  <2>2. CASE ScanNotDue \/ ScanRunning
    BY <2>2 DEF ScanNotDue, ScanRunning
  <2>. QED BY <2>1, <2>2
<1>11. ASSUME NEW i \in 1 .. Len(tasks'), ledger'[tasks'[i].id].submitted
       PROVE  ledger'[tasks'[i].id].lastSubmit + tasks'[i].interval <= tasks'[i].next_execution
  <2>1. CASE i = scanIdx
    BY <1>8, <1>9, <1>11, <2>1
  <2>2. CASE i # scanIdx
    <3>1. PICK id \in TaskIDs : id = tasks[i].id
      BY <1>1, <1>9, TaskAt
    <3>2. id # sid
      BY <1>2, <1>3, <1>9, <2>2, <3>1 DEF OverlapInv, IdsUnique
    <3>. QED BY <1>9, <1>10, <1>11, <2>2, <3>1, <3>2 DEF PeriodsKept
  <2>. QED BY <2>1, <2>2
<1>12. ASSUME NEW id \in TaskIDs, taskCounter' <= id
       PROVE  ~ledger'[id].submitted
  <2>1. sid \in Nat /\ sid < taskCounter
    BY <1>2, <1>3 DEF TaskIDs, OverlapInv, IdsIssued
  <2>2. id # sid
    BY <1>1, <1>12, <2>1 DEF TaskIDs
  <2>. QED BY <1>1, <1>10, <1>12, <2>2 DEF PeriodsKept
<1>. QED
  BY <1>11, <1>12 DEF PeriodsKept

LEMMA PeriodsNext ==
    ASSUME OverlapInv, PeriodsKept, [Next]_vars
    PROVE  PeriodsKept'
<1>1. TypeOK /\ ledger \in [TaskIDs -> LedgerEntry]
  BY DEF OverlapInv, TypeOK
<1>2. ASSUME NEW id, NEW outcome, ledger' = [ledger EXCEPT ![id].outcome = outcome]
      PROVE  \A q \in TaskIDs : /\ ledger'[q].submitted = ledger[q].submitted
                                /\ ledger'[q].lastSubmit = ledger[q].lastSubmit
  BY <1>1, <1>2 DEF LedgerEntry
<1>3. ASSUME tasks' = tasks, taskCounter' = taskCounter,
             \/ ledger' = ledger
             \/ \E id, outcome : ledger' = [ledger EXCEPT ![id].outcome = outcome]
      PROVE  PeriodsKept'
  <2>1. \A q \in TaskIDs : /\ ledger'[q].submitted = ledger[q].submitted
                           /\ ledger'[q].lastSubmit = ledger[q].lastSubmit
    <3>1. CASE ledger' = ledger
      BY <3>1
    <3>2. CASE \E id, outcome : ledger' = [ledger EXCEPT ![id].outcome = outcome]
      <4>1. PICK id, outcome : ledger' = [ledger EXCEPT ![id].outcome = outcome]
        BY <3>2
      <4>. QED BY <1>2, <4>1
    <3>. QED BY <1>3, <3>1, <3>2
  <2>2. \A j \in 1 .. Len(tasks') : \E i \in 1 .. Len(tasks) : tasks'[j] = tasks[i]
    BY <1>3
  <2>. QED BY <1>1, <1>3, <2>1, <2>2, PeriodsFrame
<1>4. ASSUME NEW c \in Clients, NEW h \in Handles, NEW policy \in Policies,
             NEW interval \in Intervals, Schedule(c, h, policy, interval)
      PROVE  PeriodsKept'
  BY <1>4, PeriodsSchedule
<1>5. ASSUME NEW a, NEW op, NEW h, NEW src, StopCall(a, op, h, src)
      PROVE  PeriodsKept'
  <2>1. \/ ledger' = ledger
        \/ ledger' = [ledger EXCEPT ![handle[h]].outcome = "expired"]
    BY <1>5 DEF StopCall
  <2>. QED BY <1>3, <1>5, <2>1 DEF StopCall
<1>6. ASSUME NEW c \in Clients, ClientStop(c) \/ ReleaseOwner(c)
      PROVE  PeriodsKept'
  BY <1>3, <1>5, <1>6 DEF ClientStop, ReleaseOwner
<1>7. ASSUME NEW w \in Workers, BodyStop(w) \/ WorkerStep(w)
      PROVE  PeriodsKept'
  BY <1>3, <1>5, <1>7 DEF BodyStop, WorkerStep, schedulerVars
<1>8. ASSUME NEW a \in Actors, CallStep(a)
      PROVE  PeriodsKept'
  <2>1. CASE FinishStop(a)
    BY <1>3, <2>1 DEF FinishStop
  <2>2. CASE ~FinishStop(a)
    <3>1. ledger' = ledger /\ taskCounter' = taskCounter
      BY <1>8, <2>2 DEF CallStep, ScheduleNotify, EraseTask, EraseMissing, WaitForCompletion,
                        RequestStop, Join, Return
    <3>2. \A j \in 1 .. Len(tasks') : \E i \in 1 .. Len(tasks) : tasks'[j] = tasks[i]
      BY <1>1, <1>8, TasksShrink
    <3>. QED BY <1>1, <3>1, <3>2, PeriodsFrame
  <2>. QED BY <2>1, <2>2
<1>9. CASE LoopStep
  <2>1. CASE ScanNotDue \/ ScanRunning \/ ScanSubmit
    BY <2>1, PeriodsScan
  <2>2. CASE \/ LoopTop \/ EnterIdleWait \/ LeaveIdleWait \/ EnterScan
             \/ EnterTimedWait \/ LeaveTimedWait \/ WaitAgain
    BY <1>3, <2>2 DEF LoopTop, EnterIdleWait, LeaveIdleWait, EnterScan, EnterTimedWait,
                      LeaveTimedWait, WaitAgain, loopElse
  <2>. QED BY <1>9, <2>1, <2>2 DEF LoopStep
<1>10. CASE SpuriousWakeup \/ PurgePool \/ Tick \/ UNCHANGED vars
  BY <1>3, <1>10 DEF SpuriousWakeup, PurgePool, Tick, vars, loopElse, schedulerVars
<1>. QED
  BY <1>4, <1>6, <1>7, <1>8, <1>9, <1>10 DEF Next, NewCall

-----------------------------------------------------------------------------
(* Every task can be stopped through one handle *)

Notifies(c, id) == call[c].pc = "notify" /\ call[c].id = id

OnOneHandle(id) ==
    /\ \E h \in Handles : handle[h] = id /\ \A g \in Handles : handle[g] = id => g = h
    /\ \A c \in Clients : ~Notifies(c, id)

InOneCall(id) ==
    /\ \E c \in Clients : Notifies(c, id) /\ \A d \in Clients : Notifies(d, id) => d = c
    /\ \A h \in Handles : handle[h] # id

HasTask(h) ==
    \/ Indices(handle[h]) # {}
    \/ \E a \in Locked : call[a].handle = h /\ call[a].id = handle[h]

(* HandlesMatchTasks, task by task and handle by handle, with what makes   *)
(* it inductive.                                                           *)
HandleInv ==
    /\ \A id \in TaskIDs : Indices(id) # {} => OnOneHandle(id) \/ InOneCall(id)
    /\ \A h \in Handles : handle[h] # NoID => HasTask(h)
    /\ CallsHold

LEMMA MatchesByID ==
    ASSUME TypeOK, Alive
    PROVE  HandlesMatchTasks /\ CallsHold <=> HandleInv
<1>1. \A i \in 1 .. Len(tasks) : tasks[i].id \in TaskIDs
  BY TaskAt
<1>. DEFINE Holders(id) == {h \in Handles : handle[h] = id}
            Calls(id)   == {c \in Clients : call[c].pc = "notify" /\ call[c].id = id}
<1>2. ASSUME NEW id
      PROVE  /\ (Calls(id) = {} /\ \E h \in Handles : Holders(id) = {h}) <=> OnOneHandle(id)
             /\ (Holders(id) = {} /\ \E c \in Clients : Calls(id) = {c}) <=> InOneCall(id)
  <2>1. ASSUME NEW h \in Handles
        PROVE  Holders(id) = {h} <=> handle[h] = id /\ \A g \in Handles : handle[g] = id => g = h
    OBVIOUS
  <2>2. ASSUME NEW c \in Clients
        PROVE  Calls(id) = {c} <=> Notifies(c, id) /\ \A d \in Clients : Notifies(d, id) => d = c
    BY DEF Notifies
  <2>3. Calls(id) = {} <=> \A c \in Clients : ~Notifies(c, id)
    BY DEF Notifies
  <2>4. Holders(id) = {} <=> \A h \in Handles : handle[h] # id
    OBVIOUS
  <2>. HIDE DEF Holders, Calls
  <2>. QED BY <2>1, <2>2, <2>3, <2>4 DEF OnOneHandle, InOneCall
<1>3. HandlesMatchTasks <=>
        /\ \A i \in 1 .. Len(tasks) : OnOneHandle(tasks[i].id) \/ InOneCall(tasks[i].id)
        /\ \A h \in Handles : handle[h] # NoID => HasTask(h)
  <2>1. HandlesMatchTasks <=>
          /\ \A i \in 1 .. Len(tasks) :
               \/ Calls(tasks[i].id) = {} /\ \E h \in Handles : Holders(tasks[i].id) = {h}
               \/ Holders(tasks[i].id) = {} /\ \E c \in Clients : Calls(tasks[i].id) = {c}
          /\ \A h \in Handles : handle[h] # NoID => HasTask(h)
    BY DEF HandlesMatchTasks, HasTask
  <2>. HIDE DEF Holders, Calls
  <2>. QED BY <1>2, <2>1
<1>4. (\A i \in 1 .. Len(tasks) : OnOneHandle(tasks[i].id) \/ InOneCall(tasks[i].id))
        <=> \A id \in TaskIDs : Indices(id) # {} => OnOneHandle(id) \/ InOneCall(id)
  <2>1. \A id : Indices(id) # {} <=> \E i \in 1 .. Len(tasks) : tasks[i].id = id
    BY DEF Indices
  <2>. QED BY <1>1, <2>1
<1>. QED
  BY <1>3, <1>4 DEF HandleInv

(* Who has dropped the last shared_ptr cannot get one back. *)
LEMMA AliveBefore ==
    ASSUME TypeOK, [Next]_vars, Alive'
    PROVE  Alive
<1>. USE DEF Alive
<1>1. call \in [Actors -> Call]
  BY DEF TypeOK
<1>2. ASSUME owners' = owners, \A a \in Actors : call'[a].pc \in {"erase", "wait", "finish"} =>
                                  call[a].pc \in {"erase", "wait", "finish"}
      PROVE  Alive
  BY <1>2 DEF Locked
<1>3. ASSUME NEW c \in Clients, NEW h \in Handles, NEW policy \in Policies,
             NEW interval \in Intervals, Schedule(c, h, policy, interval)
      PROVE  Alive
  BY <1>3 DEF Schedule
<1>4. ASSUME NEW a \in Actors, NEW op, NEW h, NEW src, StopCall(a, op, h, src)
      PROVE  Alive
  <2>1. owners' = owners /\ \A b \in Actors : b # a => call'[b] = call[b]
    BY <1>1, <1>4 DEF StopCall
  <2>2. call'[a].pc = IF handle[h] # NoID /\ Alive THEN "erase" ELSE "return"
    BY <1>1, <1>4 DEF StopCall, NoCall
  <2>. HIDE DEF Alive
  <2>3. CASE Alive
    BY <2>3
  <2>4. CASE ~Alive
    BY <1>2, <2>1, <2>2, <2>4
  <2>. QED BY <2>3, <2>4
<1>5. ASSUME NEW c \in Clients, ClientStop(c) \/ ReleaseOwner(c)
      PROVE  Alive
  BY <1>4, <1>5 DEF ClientStop, ReleaseOwner, Actors
<1>6. ASSUME NEW w \in Workers, BodyStop(w) \/ WorkerStep(w)
      PROVE  Alive
  BY <1>2, <1>4, <1>6 DEF BodyStop, WorkerStep, schedulerVars, Actors
<1>7. ASSUME NEW a \in Actors, CallStep(a)
      PROVE  Alive
  <2>1. CASE call[a].pc \in {"erase", "wait", "finish"}
    BY <2>1 DEF Locked
  <2>2. CASE call[a].pc \notin {"erase", "wait", "finish"}
    <3>1. ScheduleNotify(a) \/ RequestStop(a) \/ Join(a) \/ Return(a)
      BY <1>7, <2>2 DEF CallStep, EraseTask, EraseMissing, WaitForCompletion, FinishStop
    <3>2. owners' = owners /\ \A b \in Actors : b # a => call'[b] = call[b]
      BY <1>1, <3>1 DEF ScheduleNotify, RequestStop, Join, Return
    <3>3. call'[a].pc \in {"idle", "join", "return"}
      BY <1>1, <3>1 DEF ScheduleNotify, RequestStop, Join, Return, NoCall, Call
    <3>. QED BY <1>2, <3>2, <3>3
  <2>. QED BY <2>1, <2>2
<1>8. CASE LoopStep
  BY <1>2, <1>8 DEF LoopStep, LoopTop, EnterIdleWait, LeaveIdleWait, EnterScan, ScanNotDue,
                    ScanRunning, ScanSubmit, ScanAs, EnterTimedWait, LeaveTimedWait, WaitAgain,
                    loopElse
<1>9. CASE SpuriousWakeup \/ PurgePool \/ Tick \/ UNCHANGED vars
  BY <1>2, <1>9 DEF SpuriousWakeup, PurgePool, Tick, vars, loopElse, schedulerVars
<1>. QED
  BY <1>3, <1>5, <1>6, <1>7, <1>8, <1>9 DEF Next, NewCall

(* A call keeps its hold when its handle keeps its id. *)
LEMMA CallFrame ==
    ASSUME NEW a \in Actors, CallHolds(a), call'[a] = call[a],
           call[a].pc = "notify" => Indices(call[a].id)' # {},
           \/ handle'[call[a].handle] = handle[call[a].handle]
           \/ handle'[call[a].handle] = NoID /\ call[a].pc = "wait"
           \/ call[a].handle \notin Handles
    PROVE  CallHolds(a)'
BY DEF CallHolds

(* Steps of the loop, the pool and the clock. *)
LEMMA HandleFrame ==
    ASSUME HandleInv, UNCHANGED <<call, handle, taskCounter>>,
           \A id : Indices(id)' = Indices(id),
           \A w \in Workers : call[w] # NoCall /\ active[w].phase = "body" => active'[w] = active[w]
    PROVE  HandleInv'
<1>1. NoCall.handle = NoHandle /\ NoCall.source = NoHandle
  BY DEF NoCall
<1>2. ASSUME NEW a \in Actors, NEW b \in Actors, NEW h \in Handles, Uses(b, h), WaitsForBody(a, b)
      PROVE  WaitsForBody(a, b)'
  BY <1>1, <1>2, SchedulerAssumption DEF WaitsForBody, Uses
<1>3. UsesShared'
  <2>1. \A a \in Actors, h \in Handles : Uses(a, h)' = Uses(a, h)
    BY DEF Uses
  <2>. QED BY <1>2, <2>1 DEF UsesShared, HandleInv, CallsHold
<1>4. HandlesHold' /\ \A a \in Actors : CallHolds(a)'
  BY CallFrame DEF HandleInv, CallsHold, HandlesHold, CallHolds
<1>5. \A id \in TaskIDs : Indices(id)' # {} => OnOneHandle(id)' \/ InOneCall(id)'
  BY DEF HandleInv, OnOneHandle, InOneCall, Notifies
<1>6. \A h \in Handles : handle'[h] # NoID => HasTask(h)'
  BY DEF HandleInv, HasTask, Locked
<1>. QED
  BY <1>3, <1>4, <1>5, <1>6 DEF HandleInv, CallsHold

(* A call that begins uses only handles that nobody uses, but for calls    *)
(* that wait for the body that begins it.                                  *)
LEMMA SharedBegin ==
    ASSUME UsesShared, NEW a \in Actors, active' = active,
           \A b \in Actors : b # a => call'[b] = call[b],
           \A b \in Actors, h \in Handles :
               b # a /\ Uses(a, h)' /\ Uses(b, h) => WaitsForBody(b, a)
    PROVE  UsesShared'
<1>. SUFFICES ASSUME NEW b \in Actors, NEW d \in Actors, NEW h \in Handles, b # d,
                     Uses(b, h)', Uses(d, h)'
              PROVE  WaitsForBody(b, d)' \/ WaitsForBody(d, b)'
  BY DEF UsesShared
<1>1. \A e \in Actors : e # a => (Uses(e, h) <=> Uses(e, h)')
  BY DEF Uses
<1>2. \A e, f \in Actors : e # a => WaitsForBody(e, f)' = WaitsForBody(e, f)
  BY DEF WaitsForBody
<1>3. CASE b = a
  BY <1>1, <1>2, <1>3
<1>4. CASE d = a
  BY <1>1, <1>2, <1>4
<1>5. CASE b # a /\ d # a
  BY <1>1, <1>2, <1>5 DEF UsesShared
<1>. QED
  BY <1>3, <1>4, <1>5

(* A call goes on with the handles it has, or ends; if it was waiting for  *)
(* a body that uses one of them it waits on.                               *)
LEMMA SharedGoOn ==
    ASSUME UsesShared, NEW a \in Actors, active' = active,
           \A b \in Actors : b # a => call'[b] = call[b],
           \A h \in Handles : Uses(a, h)' => Uses(a, h),
           \A b \in Actors : ~WaitsForBody(a, b)
    PROVE  UsesShared'
<1>1. ASSUME NEW b \in Actors, NEW h \in Handles, b # a, Uses(a, h)', Uses(b, h)
      PROVE  WaitsForBody(b, a)
  BY <1>1 DEF UsesShared
<1>. QED
  BY <1>1, SharedBegin

(* Nobody but who waits for it uses a handle of a call that does not wait. *)
LEMMA UsedAlone ==
    ASSUME SchedulerAssumption, UsesShared, NEW a \in Actors, NEW b \in Actors, NEW h \in Handles,
           a # b, Uses(a, h), Uses(b, h), call[a].pc # "wait"
    PROVE  a \in Workers /\ a \notin Clients /\ call[b].pc = "wait"
BY DEF UsesShared, WaitsForBody

LEMMA IssuedIds ==
    ASSUME OverlapInv, HandlesHold
    PROVE  /\ \A id : Indices(id) # {} => id \in TaskIDs /\ id < taskCounter
           /\ \A h \in Handles : handle[h] # taskCounter \/ taskCounter = NoID
<1>1. \A i \in 1 .. Len(tasks) : tasks[i].id \in TaskIDs /\ tasks[i].id < taskCounter
  BY TaskAt DEF OverlapInv, IdsIssued
<1>2. \A id : Indices(id) # {} => id \in TaskIDs /\ id < taskCounter
  BY <1>1 DEF Indices
<1>3. \A h \in Handles : handle[h] # taskCounter \/ taskCounter = NoID
  BY SchedulerAssumption DEF HandlesHold, OverlapInv, TypeOK
<1>. QED
  BY <1>2, <1>3

LEMMA HandleSchedule ==
    ASSUME OverlapInv, HandleInv, NEW c \in Clients, NEW h \in Handles, NEW policy \in Policies,
           NEW interval \in Intervals, Schedule(c, h, policy, interval)
    PROVE  HandleInv'
<1>. DEFINE task == [id |-> taskCounter, stop_policy |-> policy, interval |-> interval,
                     promise |-> 0, next_execution |-> clock]
<1>1. /\ TypeOK /\ tasks \in Seq(Task) /\ taskCounter \in Nat /\ taskCounter \in TaskIDs
      /\ taskCounter # NoID /\ call \in [Actors -> Call]
      /\ tasks' = Append(tasks, task) /\ taskCounter' = taskCounter + 1
      /\ UNCHANGED <<handle, active>>
  BY SchedulerAssumption DEF OverlapInv, TypeOK, Schedule, TaskIDs, NoID, poolVars
<1>2. /\ Len(tasks) \in Nat /\ Len(tasks') = Len(tasks) + 1
      /\ \A i \in 1 .. Len(tasks) : tasks'[i] = tasks[i]
      /\ tasks'[Len(tasks) + 1] = task
  BY <1>1
<1>3. task.id = taskCounter
  OBVIOUS
<1>. HIDE DEF task
<1>4. c \in Actors /\ c \notin Workers /\ h # NoHandle
  BY SchedulerAssumption DEF Actors
<1>5. /\ call[c] = NoCall /\ handle[h] = NoID
      /\ \A b \in Actors : b # c => call'[b] = call[b]
      /\ call'[c].pc = "notify" /\ call'[c].handle = h /\ call'[c].id = taskCounter
      /\ call'[c].op = "schedule" /\ call'[c].source = NoHandle
  BY <1>1, <1>4 DEF Schedule, NoCall
<1>6. CallsHold
  BY DEF HandleInv
<1>. PICK new \in TaskIDs : new = taskCounter
  BY <1>1
<1>7. Indices(new)' # {} /\ \A id : id # new => Indices(id)' = Indices(id)
  <2>1. Len(tasks) + 1 \in Indices(new)'
    BY <1>2, <1>3 DEF Indices
  <2>2. ASSUME NEW id, id # new
        PROVE  Indices(id)' = Indices(id)
    <3>1. \A i \in 1 .. Len(tasks') : tasks'[i].id = id => i \in 1 .. Len(tasks)
      BY <1>2, <1>3, <2>2
    <3>2. \A i \in 1 .. Len(tasks) : i \in 1 .. Len(tasks') /\ tasks'[i].id = tasks[i].id
      BY <1>2
    <3>. QED BY <3>1, <3>2 DEF Indices
  <2>. QED BY <2>1, <2>2
<1>8. \A g \in Handles : handle[g] # new
  BY <1>1, <1>6, IssuedIds DEF CallsHold
<1>9. \A d \in Clients : ~Notifies(d, new)
  <2>1. Indices(new) = {}
    BY <1>1, <1>6, IssuedIds DEF CallsHold
  <2>. QED BY <1>6, <2>1 DEF CallsHold, CallHolds, Notifies, Actors
<1>10. \A d \in Clients : \A id : id # new => (Notifies(d, id)' <=> Notifies(d, id))
  BY <1>4, <1>5 DEF Notifies, NoCall, Actors
<1>11. \A d \in Clients : Notifies(d, new)' <=> d = c
  <2>1. \A d \in Clients : d # c => ~Notifies(d, new)'
    BY <1>5, <1>9 DEF Notifies, Actors
  <2>2. Notifies(c, new)'
    BY <1>5 DEF Notifies
  <2>. QED BY <2>1, <2>2
<1>12. ASSUME NEW id \in TaskIDs, Indices(id)' # {}
       PROVE  OnOneHandle(id)' \/ InOneCall(id)'
  <2>1. CASE id = new
    BY <1>1, <1>8, <1>11, <2>1 DEF InOneCall
  <2>2. CASE id # new
    BY <1>1, <1>7, <1>10, <1>12, <2>2 DEF HandleInv, OnOneHandle, InOneCall
  <2>. QED BY <2>1, <2>2
<1>13. ASSUME NEW g \in Handles, handle'[g] # NoID
       PROVE  HasTask(g)'
  <2>1. Locked \subseteq Locked' /\ c \notin Locked
    BY <1>5 DEF Locked, NoCall
  <2>2. \A b \in Locked : call'[b] = call[b]
    BY <1>5, <2>1 DEF Locked
  <2>3. Indices(handle[g])' = Indices(handle[g]) /\ handle'[g] = handle[g]
    BY <1>1, <1>7, <1>8
  <2>4. HasTask(g)
    BY <1>1, <1>13 DEF HandleInv
  <2>. QED BY <2>1, <2>2, <2>3, <2>4 DEF HasTask
<1>14. HandlesHold'
  BY <1>1, <1>6 DEF CallsHold, HandlesHold, OverlapInv, TypeOK, TaskIDs
<1>15. ASSUME NEW b \in Actors, NEW g \in Handles, b # c, Uses(c, g)', Uses(b, g)
       PROVE  FALSE
  <2>1. g = h
    BY <1>5, <1>15, SchedulerAssumption DEF Uses
  <2>. QED BY <1>4, <1>15, <2>1 DEF Schedule, MayUse, Uses
<1>16. UsesShared'
  BY <1>1, <1>4, <1>5, <1>6, <1>15, SharedBegin DEF CallsHold
<1>17. ASSUME NEW a \in Actors
       PROVE  CallHolds(a)'
  <2>1. CASE a = c
    BY <1>1, <1>4, <1>5, <1>7, <2>1 DEF CallHolds
  <2>2. CASE a # c
    <3>1. CallHolds(a) /\ call'[a] = call[a]
      BY <1>5, <1>6, <2>2 DEF CallsHold
    <3>2. call[a].pc = "notify" => Indices(call[a].id)' # {}
      BY <1>7, <3>1 DEF CallHolds
    <3>. QED BY <1>1, <3>1, <3>2, CallFrame
  <2>. QED BY <2>1, <2>2
<1>. QED
  BY <1>12, <1>13, <1>14, <1>16, <1>17 DEF HandleInv, CallsHold

LEMMA HandleStopCall ==
    ASSUME OverlapInv, HandleInv, Alive, NEW a \in Actors, NEW h \in Handles, NEW op, NEW src,
           \/ op \in {"stop", "destroy"} /\ src = NoHandle
           \/ op = "move" /\ src \in Handles \ {h},
           a \in Workers => op = "stop" /\ active[a].phase = "body",
           a \in Clients \/ a \in Workers,
           StopCall(a, op, h, src)
    PROVE  HandleInv'
<1>1. /\ TypeOK /\ call \in [Actors -> Call] /\ handle \in [Handles -> TaskIDs \cup {NoID}]
      /\ UNCHANGED <<tasks, taskCounter, handle, active>>
  BY DEF OverlapInv, TypeOK, StopCall, poolVars
<1>2. CallsHold
  BY DEF HandleInv
<1>3. /\ call[a] = NoCall
      /\ \A b \in Actors : b # a => call'[b] = call[b]
      /\ call'[a].op = op /\ call'[a].handle = h /\ call'[a].source = src
      /\ call'[a].id = handle[h]
      /\ call'[a].pc = IF handle[h] # NoID THEN "erase" ELSE "return"
  BY <1>1 DEF StopCall, NoCall
<1>4. handle[h] # NoID \/ op = "move"
  BY DEF StopCall
<1>5. \A id : Indices(id)' = Indices(id)
  BY <1>1 DEF Indices
<1>6. \A c \in Clients : \A id : Notifies(c, id)' <=> Notifies(c, id)
  BY <1>3 DEF Notifies, NoCall, Actors
<1>7. \A id \in TaskIDs : Indices(id)' # {} => OnOneHandle(id)' \/ InOneCall(id)'
  BY <1>1, <1>5, <1>6 DEF HandleInv, OnOneHandle, InOneCall
<1>8. ASSUME NEW g \in Handles, handle'[g] # NoID
      PROVE  HasTask(g)'
  <2>1. \A b \in Locked : b \in Locked' /\ call'[b] = call[b]
    BY <1>3 DEF Locked, NoCall
  <2>. QED BY <1>1, <1>5, <1>8, <2>1 DEF HandleInv, HasTask
<1>9. HandlesHold'
  BY <1>1, <1>2 DEF CallsHold, HandlesHold
<1>10. ASSUME NEW b \in Actors, NEW g \in Handles, b # a, Uses(a, g)', Uses(b, g)
       PROVE  WaitsForBody(b, a)
  <2>1. MayUse(a, g)
    <3>1. g = h \/ (g = src /\ src # NoHandle)
      BY <1>3, <1>10, SchedulerAssumption DEF Uses
    <3>. QED BY <3>1 DEF StopCall
  <2>2. call[b].pc = "wait" /\ a \in Workers /\ active[a].sub = <<call[b].id, call[b].promise>>
    BY <1>10, <2>1 DEF MayUse, Uses
  <2>. QED BY <2>2 DEF WaitsForBody
<1>11. UsesShared'
  BY <1>1, <1>2, <1>3, <1>10, SharedBegin DEF CallsHold
<1>12. ASSUME NEW b \in Actors
       PROVE  CallHolds(b)'
  <2>1. CASE b = a
    <3>1. CASE handle[h] # NoID
      BY <1>1, <1>3, <2>1, <3>1, SchedulerAssumption DEF CallHolds
    <3>2. CASE handle[h] = NoID
      BY <1>1, <1>3, <1>4, <2>1, <3>2, SchedulerAssumption DEF CallHolds
    <3>. QED BY <3>1, <3>2
  <2>2. CASE b # a
    <3>1. CallHolds(b) /\ call'[b] = call[b]
      BY <1>2, <1>3, <2>2 DEF CallsHold
    <3>2. call[b].pc = "notify" => Indices(call[b].id)' # {}
      BY <1>5, <3>1 DEF CallHolds
    <3>. QED BY <1>1, <3>1, <3>2, CallFrame
  <2>. QED BY <2>1, <2>2
<1>. QED
  BY <1>7, <1>8, <1>9, <1>11, <1>12 DEF HandleInv, CallsHold

(* tasks_.erase(it) takes away the task of the call and no other. *)
LEMMA EraseIndices ==
    ASSUME OverlapInv, NEW a \in Actors, EraseTask(a), NEW id, id = call[a].id
    PROVE  /\ id \in TaskIDs
           /\ Indices(id) # {} /\ Indices(id)' = {}
           /\ \A q : q # id => (Indices(q)' # {} <=> Indices(q) # {})
<1>1. TypeOK /\ tasks \in Seq(Task)
  BY DEF OverlapInv, TypeOK
<1>2. PICK n \in Indices(id) : tasks' = RemoveAt(tasks, n)
  BY DEF EraseTask, WithoutTask
<1>3. n \in 1 .. Len(tasks) /\ tasks[n].id = id
  BY <1>2 DEF Indices
<1>4. /\ Len(tasks) \in Nat
      /\ Len(tasks') = Len(tasks) - 1
      /\ \A j \in 1 .. Len(tasks') : tasks'[j] = IF j < n THEN tasks[j] ELSE tasks[j + 1]
  BY <1>1, <1>2, <1>3, RemoveAtProperties, LenProperties
<1>5. \A j \in 1 .. Len(tasks') : \E k \in 1 .. Len(tasks) : k # n /\ tasks'[j] = tasks[k]
  <2>. TAKE j \in 1 .. Len(tasks')
  <2>1. CASE j < n
    BY <1>4, <2>1
  <2>2. CASE ~(j < n)
    BY <1>3, <1>4, <2>2
  <2>. QED BY <2>1, <2>2
<1>6. \A k \in 1 .. Len(tasks) : k # n => \E j \in 1 .. Len(tasks') : tasks'[j] = tasks[k]
  <2>. SUFFICES ASSUME NEW k \in 1 .. Len(tasks), k # n
                PROVE  \E j \in 1 .. Len(tasks') : tasks'[j] = tasks[k]
    OBVIOUS
  <2>1. CASE k < n
    BY <1>3, <1>4, <2>1
  <2>2. CASE n < k
    <3>1. k - 1 \in 1 .. Len(tasks') /\ ~(k - 1 < n) /\ (k - 1) + 1 = k
      BY <1>3, <1>4, <2>2
    <3>. QED BY <1>4, <3>1
  <2>. QED BY <1>3, <2>1, <2>2
<1>7. Indices(id)' = {}
  BY <1>3, <1>5 DEF Indices, OverlapInv, IdsUnique
<1>8. ASSUME NEW q, q # id
      PROVE  Indices(q)' # {} <=> Indices(q) # {}
  <2>1. Indices(q)' # {} => Indices(q) # {}
    BY <1>5 DEF Indices
  <2>2. Indices(q) # {} => Indices(q)' # {}
    BY <1>3, <1>6, <1>8 DEF Indices
  <2>. QED BY <2>1, <2>2
<1>9. id \in TaskIDs
  BY <1>1, <1>3, TaskAt
<1>. QED
  BY <1>2, <1>7, <1>8, <1>9

LEMMA HandleErase ==
    ASSUME OverlapInv, HandleInv, NEW a \in Actors, EraseTask(a)
    PROVE  HandleInv'
<1>1. /\ TypeOK /\ call \in [Actors -> Call] /\ CallsHold
      /\ UNCHANGED <<handle, active, taskCounter>>
  BY DEF OverlapInv, TypeOK, EraseTask, poolVars, HandleInv
<1>2. PICK h \in Handles : /\ h = call[a].handle /\ handle[h] = call[a].id
                           /\ call[a].pc = "erase" /\ CallHolds(a)
  BY <1>1 DEF EraseTask, CallsHold, CallHolds
<1>3. PICK id \in TaskIDs : /\ id = call[a].id /\ Indices(id) # {} /\ Indices(id)' = {}
                            /\ \A q : q # id => (Indices(q)' # {} <=> Indices(q) # {})
  BY EraseIndices
<1>4. /\ \A b \in Actors : b # a => call'[b] = call[b]
      /\ call'[a].pc \in {"wait", "finish"}
      /\ call'[a].handle = h /\ call'[a].source = call[a].source /\ call'[a].id = id
      /\ call'[a].op = call[a].op
  BY <1>1, <1>2, <1>3 DEF EraseTask, Call
<1>5. \A c \in Clients : ~Notifies(c, id)
  BY <1>2, <1>3 DEF HandleInv, OnOneHandle, InOneCall
<1>6. \A c \in Clients : \A q : Notifies(c, q)' <=> Notifies(c, q)
  <2>. SUFFICES ASSUME NEW c \in Clients, NEW q PROVE Notifies(c, q)' <=> Notifies(c, q)
    OBVIOUS
  <2>1. CASE c = a
    BY <1>2, <1>4, <2>1 DEF Notifies
  <2>2. CASE c # a
    BY <1>4, <2>2 DEF Notifies, Actors
  <2>. QED BY <2>1, <2>2
<1>7. \A q \in TaskIDs : Indices(q)' # {} => OnOneHandle(q)' \/ InOneCall(q)'
  BY <1>1, <1>3, <1>6 DEF HandleInv, OnOneHandle, InOneCall
<1>8. ASSUME NEW g \in Handles, handle'[g] # NoID
      PROVE  HasTask(g)'
  <2>1. \A b \in Locked : b \in Locked' /\ call'[b].handle = call[b].handle /\ call'[b].id = call[b].id
    BY <1>2, <1>3, <1>4 DEF Locked
  <2>2. a \in Locked'
    BY <1>4 DEF Locked
  <2>3. CASE handle[g] = id
    <3>1. g = h
      BY <1>1, <1>2, <1>3, <1>8, <2>3 DEF CallsHold, HandlesHold
    <3>. QED BY <1>1, <1>2, <1>3, <1>4, <2>2, <3>1 DEF HasTask
  <2>4. CASE handle[g] # id
    <3>1. HasTask(g)
      BY <1>1, <1>8 DEF HandleInv
    <3>. QED BY <1>1, <1>3, <2>1, <2>4, <3>1 DEF HasTask
  <2>. QED BY <2>3, <2>4
<1>9. HandlesHold'
  BY <1>1 DEF CallsHold, HandlesHold
<1>10. UsesShared'
  <2>1. \A g \in Handles : Uses(a, g)' => Uses(a, g)
    BY <1>2, <1>4 DEF Uses
  <2>2. \A b \in Actors : ~WaitsForBody(a, b)
    BY <1>2 DEF WaitsForBody
  <2>. QED BY <1>1, <1>4, <2>1, <2>2, SharedGoOn DEF CallsHold
<1>11. ASSUME NEW b \in Actors
       PROVE  CallHolds(b)'
  <2>1. CASE b = a
    BY <1>1, <1>2, <1>3, <1>4, <2>1 DEF CallHolds
  <2>2. CASE b # a
    <3>1. CallHolds(b) /\ call'[b] = call[b]
      BY <1>1, <1>4, <2>2 DEF CallsHold
    <3>2. call[b].pc = "notify" => Indices(call[b].id)' # {}
      BY <1>3, <1>5, <3>1 DEF CallHolds, Notifies
    <3>. QED BY <1>1, <3>1, <3>2, CallFrame
  <2>. QED BY <2>1, <2>2
<1>. QED
  BY <1>7, <1>8, <1>9, <1>10, <1>11 DEF HandleInv, CallsHold

LEMMA HandleWait ==
    ASSUME OverlapInv, HandleInv, NEW a \in Actors, WaitForCompletion(a)
    PROVE  HandleInv'
<1>1. /\ TypeOK /\ call \in [Actors -> Call] /\ CallsHold
      /\ UNCHANGED <<handle, active, taskCounter, tasks>>
  BY DEF OverlapInv, TypeOK, WaitForCompletion, poolVars, HandleInv
<1>2. call[a].pc = "wait" /\ CallHolds(a) /\ Pool!Ready(<<call[a].id, call[a].promise>>)
  BY <1>1 DEF WaitForCompletion, CallsHold
<1>3. /\ \A b \in Actors : b # a => call'[b] = call[b]
      /\ call'[a].pc = "finish" /\ call'[a].handle = call[a].handle
      /\ call'[a].source = call[a].source /\ call'[a].id = call[a].id
      /\ call'[a].op = call[a].op
  BY <1>1 DEF WaitForCompletion, Call
<1>4. \A b \in Actors : ~WaitsForBody(a, b)
  <2>. SUFFICES ASSUME NEW b \in Workers, active[b].phase = "body",
                       active[b].sub = <<call[a].id, call[a].promise>>
                PROVE  FALSE
    BY DEF WaitsForBody
  <2>1. active[b] = [sub |-> active[b].sub, phase |-> "body"]
    BY <1>1 DEF TypeOK, Pool!TypeOK, Pool!Slot
  <2>. QED BY <1>2, <2>1 DEF Pool!Ready, Pool!Executing
<1>5. \A id : Indices(id)' = Indices(id)
  BY <1>1 DEF Indices
<1>6. \A c \in Clients : \A q : Notifies(c, q)' <=> Notifies(c, q)
  <2>. SUFFICES ASSUME NEW c \in Clients, NEW q PROVE Notifies(c, q)' <=> Notifies(c, q)
    OBVIOUS
  <2>1. CASE c = a
    BY <1>2, <1>3, <2>1 DEF Notifies
  <2>2. CASE c # a
    BY <1>3, <2>2 DEF Notifies, Actors
  <2>. QED BY <2>1, <2>2
<1>7. \A q \in TaskIDs : Indices(q)' # {} => OnOneHandle(q)' \/ InOneCall(q)'
  BY <1>1, <1>5, <1>6 DEF HandleInv, OnOneHandle, InOneCall
<1>8. ASSUME NEW g \in Handles, handle'[g] # NoID
      PROVE  HasTask(g)'
  <2>1. \A b \in Locked : b \in Locked' /\ call'[b].handle = call[b].handle /\ call'[b].id = call[b].id
    BY <1>3 DEF Locked
  <2>. QED BY <1>1, <1>5, <1>8, <2>1 DEF HandleInv, HasTask
<1>9. HandlesHold'
  BY <1>1 DEF CallsHold, HandlesHold
<1>10. UsesShared'
  <2>1. \A g \in Handles : Uses(a, g)' => Uses(a, g)
    BY <1>3 DEF Uses
  <2>. QED BY <1>1, <1>3, <1>4, <2>1, SharedGoOn DEF CallsHold
<1>11. ASSUME NEW b \in Actors
       PROVE  CallHolds(b)'
  <2>1. CASE b = a
    BY <1>1, <1>2, <1>3, <2>1 DEF CallHolds
  <2>2. CASE b # a
    <3>1. CallHolds(b) /\ call'[b] = call[b]
      BY <1>1, <1>3, <2>2 DEF CallsHold
    <3>2. call[b].pc = "notify" => Indices(call[b].id)' # {}
      BY <1>5, <3>1 DEF CallHolds
    <3>. QED BY <1>1, <3>1, <3>2, CallFrame
  <2>. QED BY <2>1, <2>2
<1>. QED
  BY <1>7, <1>8, <1>9, <1>10, <1>11 DEF HandleInv, CallsHold

(* The call becomes the handle's. *)
LEMMA HandleNotify ==
    ASSUME OverlapInv, HandleInv, NEW a \in Actors, ScheduleNotify(a)
    PROVE  HandleInv'
<1>1. /\ TypeOK /\ call \in [Actors -> Call] /\ CallsHold
      /\ handle \in [Handles -> TaskIDs \cup {NoID}]
      /\ UNCHANGED <<tasks, active, taskCounter>>
  BY DEF OverlapInv, TypeOK, ScheduleNotify, poolVars, HandleInv
<1>2. call[a].pc = "notify" /\ CallHolds(a)
  BY <1>1 DEF ScheduleNotify, CallsHold
<1>3. PICK h \in Handles : h = call[a].handle /\ handle[h] = NoID
  BY <1>2 DEF CallHolds
<1>4. PICK id \in TaskIDs : id = call[a].id /\ Indices(id) # {}
  BY <1>2 DEF CallHolds
<1>5. a \in Clients /\ a \notin Workers
  BY <1>2, SchedulerAssumption DEF CallHolds
<1>6. /\ handle'[h] = id /\ \A g \in Handles : g # h => handle'[g] = handle[g]
      /\ call'[a] = NoCall /\ \A b \in Actors : b # a => call'[b] = call[b]
  BY <1>1, <1>3, <1>4 DEF ScheduleNotify
<1>7. id # NoID /\ \A q \in TaskIDs : q # NoID
  BY SchedulerAssumption DEF TaskIDs, NoID
<1>8. Notifies(a, id) /\ InOneCall(id)
  BY <1>2, <1>4, <1>5 DEF HandleInv, OnOneHandle, Notifies
<1>9. \A d \in Clients : \A q : Notifies(d, q)' <=> Notifies(d, q) /\ d # a
  BY <1>6 DEF Notifies, NoCall, Actors
<1>10. ASSUME NEW q \in TaskIDs, Indices(q)' # {}
       PROVE  OnOneHandle(q)' \/ InOneCall(q)'
  <2>1. CASE q = id
    <3>1. \A d \in Clients : ~Notifies(d, q)'
      <4>1. \A d \in Clients : Notifies(d, q) => d = a
        BY <1>5, <1>8, <2>1 DEF InOneCall
      <4>. QED BY <1>9, <4>1
    <3>2. handle'[h] = q /\ \A g \in Handles : handle'[g] = q => g = h
      BY <1>6, <1>8, <2>1 DEF InOneCall
    <3>. QED BY <3>1, <3>2 DEF OnOneHandle
  <2>2. CASE q # id
    <3>1. \A d \in Clients : Notifies(d, q)' <=> Notifies(d, q)
      BY <1>4, <1>9, <2>2 DEF Notifies
    <3>2. \A g \in Handles : handle'[g] = q <=> handle[g] = q
      BY <1>3, <1>6, <1>7, <2>2
    <3>3. Indices(q) # {}
      BY <1>1, <1>10 DEF Indices
    <3>. QED BY <3>1, <3>2, <3>3 DEF HandleInv, OnOneHandle, InOneCall
  <2>. QED BY <2>1, <2>2
<1>11. ASSUME NEW g \in Handles, handle'[g] # NoID
       PROVE  HasTask(g)'
  <2>1. \A q : Indices(q)' = Indices(q)
    BY <1>1 DEF Indices
  <2>2. \A b \in Locked : b \in Locked' /\ call'[b] = call[b]
    BY <1>2, <1>6 DEF Locked
  <2>3. CASE g = h
    BY <1>4, <1>6, <2>1, <2>3 DEF HasTask
  <2>4. CASE g # h
    <3>1. HasTask(g) /\ handle'[g] = handle[g]
      BY <1>6, <1>11, <2>4 DEF HandleInv
    <3>. QED BY <2>1, <2>2, <3>1 DEF HasTask
  <2>. QED BY <2>3, <2>4
<1>12. HandlesHold'
  <2>1. id < taskCounter
    BY <1>1, <1>4, IssuedIds DEF CallsHold
  <2>2. \A g \in Handles : handle[g] # id
    BY <1>8 DEF InOneCall
  <2>. QED BY <1>1, <1>6, <2>1, <2>2 DEF CallsHold, HandlesHold
<1>13. UsesShared'
  <2>1. \A g \in Handles : Uses(a, g)' => Uses(a, g)
    BY <1>6, SchedulerAssumption DEF Uses, NoCall
  <2>2. \A b \in Actors : ~WaitsForBody(a, b)
    BY <1>2 DEF WaitsForBody
  <2>. QED BY <1>1, <1>6, <2>1, <2>2, SharedGoOn DEF CallsHold
<1>14. ASSUME NEW b \in Actors
       PROVE  CallHolds(b)'
  <2>1. CASE b = a
    BY <1>6, <2>1 DEF CallHolds, NoCall
  <2>2. CASE b # a
    <3>1. CallHolds(b) /\ call'[b] = call[b]
      BY <1>1, <1>6, <2>2 DEF CallsHold
    <3>2. call[b].pc = "notify" => Indices(call[b].id)' # {}
      BY <1>1, <3>1 DEF CallHolds, Indices
    <3>3. call[b].handle # h
      BY <1>1, <1>2, <1>3, <1>5, <2>2, UsedAlone, SchedulerAssumption DEF Uses, CallsHold
    <3>. QED BY <1>6, <3>1, <3>2, <3>3, CallFrame
  <2>. QED BY <2>1, <2>2
<1>. QED
  BY <1>10, <1>11, <1>12, <1>13, <1>14 DEF HandleInv, CallsHold

(* A handle is invalidated when its task is gone. *)
LEMMA HandleInvalidate ==
    ASSUME StopInv, HandleInv, Alive', NEW a \in Actors, EraseMissing(a) \/ FinishStop(a)
    PROVE  HandleInv'
<1>1. /\ TypeOK /\ call \in [Actors -> Call] /\ CallsHold
      /\ handle \in [Handles -> TaskIDs \cup {NoID}]
      /\ UNCHANGED <<tasks, active, taskCounter, owners>>
  BY DEF StopInv, OverlapInv, TypeOK, EraseMissing, FinishStop, poolVars, HandleInv
<1>2. call[a].pc \in {"erase", "finish"} /\ CallHolds(a)
  BY <1>1 DEF EraseMissing, FinishStop, CallsHold
<1>3. PICK h \in Handles : h = call[a].handle /\ handle[h] \in {call[a].id, NoID}
  BY <1>2 DEF CallHolds
<1>4. Indices(call[a].id) = {}
  <2>1. CASE EraseMissing(a)
    BY <2>1 DEF EraseMissing
  <2>2. CASE FinishStop(a)
    BY <2>2 DEF FinishStop, StopInv, ErasedStaysErased, HoldsLast, Erased
  <2>. QED BY <2>1, <2>2
<1>5. /\ handle' = [handle EXCEPT ![call[a].handle] = NoID]
      /\ call' = [call EXCEPT ![a].pc = PcAfterDrop(a)]
  BY DEF EraseMissing, FinishStop
<1>6. /\ handle'[h] = NoID /\ \A g \in Handles : g # h => handle'[g] = handle[g]
      /\ \A b \in Actors : b # a => call'[b] = call[b]
  BY <1>1, <1>3, <1>5
<1>7. /\ call'[a].pc = PcAfterDrop(a) /\ call'[a].handle = h
      /\ call'[a].source = call[a].source /\ call'[a].op = call[a].op
  BY <1>1, <1>3, <1>5 DEF Call
<1>8. PcAfterDrop(a) = "return"
  <2>. SUFFICES ASSUME owners = {}, Locked = {a} PROVE FALSE
    BY DEF PcAfterDrop
  <2>1. call'[a].pc = "requestStop"
    BY <1>7 DEF PcAfterDrop
  <2>2. Locked' = {}
    BY <1>6, <2>1 DEF Locked
  <2>. QED BY <1>1, <2>2 DEF Alive
<1>9. \A d \in Clients : \A q : Notifies(d, q)' <=> Notifies(d, q)
  <2>. SUFFICES ASSUME NEW d \in Clients, NEW q PROVE Notifies(d, q)' <=> Notifies(d, q)
    OBVIOUS
  <2>1. CASE d = a
    BY <1>2, <1>7, <1>8, <2>1 DEF Notifies
  <2>2. CASE d # a
    BY <1>6, <2>2 DEF Notifies, Actors
  <2>. QED BY <2>1, <2>2
<1>10. \A q : Indices(q)' = Indices(q)
  BY <1>1 DEF Indices
<1>11. ASSUME NEW q \in TaskIDs, Indices(q)' # {}
       PROVE  OnOneHandle(q)' \/ InOneCall(q)'
  <2>1. q # NoID
    BY SchedulerAssumption DEF TaskIDs, NoID
  <2>2. handle[h] # q /\ handle'[h] # q
    BY <1>3, <1>4, <1>6, <1>10, <1>11, <2>1
  <2>3. \A g \in Handles : handle'[g] = q <=> handle[g] = q
    BY <1>6, <2>2
  <2>. QED BY <1>9, <1>10, <1>11, <2>3 DEF HandleInv, OnOneHandle, InOneCall
<1>12. ASSUME NEW g \in Handles, handle'[g] # NoID
       PROVE  HasTask(g)'
  <2>1. g # h /\ handle'[g] = handle[g]
    BY <1>6, <1>12
  <2>2. HasTask(g)
    BY <1>12, <2>1 DEF HandleInv
  <2>3. \A b \in Locked : call[b].handle = g => b \in Locked' /\ call'[b] = call[b]
    BY <1>3, <1>6, <2>1 DEF Locked
  <2>. QED BY <1>10, <2>1, <2>2, <2>3 DEF HasTask
<1>13. HandlesHold'
  BY <1>1, <1>6 DEF CallsHold, HandlesHold
<1>14. UsesShared'
  <2>1. \A g \in Handles : Uses(a, g)' => Uses(a, g)
    BY <1>3, <1>7 DEF Uses
  <2>2. \A b \in Actors : ~WaitsForBody(a, b)
    BY <1>2 DEF WaitsForBody
  <2>. QED BY <1>1, <1>6, <2>1, <2>2, SharedGoOn DEF CallsHold
<1>15. ASSUME NEW b \in Actors
       PROVE  CallHolds(b)'
  <2>1. CASE b = a
    BY <1>2, <1>3, <1>6, <1>7, <1>8, <2>1 DEF CallHolds
  <2>2. CASE b # a
    <3>1. CallHolds(b) /\ call'[b] = call[b]
      BY <1>1, <1>6, <2>2 DEF CallsHold
    <3>2. call[b].pc = "notify" => Indices(call[b].id)' # {}
      BY <1>10, <3>1 DEF CallHolds
    <3>3. CASE call[b].handle = h
      <4>1. call[b].pc = "wait"
        BY <1>1, <1>2, <1>3, <2>2, <3>3, UsedAlone, SchedulerAssumption DEF Uses, CallsHold
      <4>. QED BY <1>6, <3>1, <3>2, <3>3, <4>1, CallFrame
    <3>4. CASE call[b].handle # h
      BY <1>6, <3>1, <3>2, <3>4, CallFrame
    <3>. QED BY <3>3, <3>4
  <2>. QED BY <2>1, <2>2
<1>. QED
  BY <1>11, <1>12, <1>13, <1>14, <1>15 DEF HandleInv, CallsHold

(* A move hands the task of one handle to another that has none. *)
LEMMA HandleReturn ==
    ASSUME OverlapInv, HandleInv, NEW a \in Actors, Return(a)
    PROVE  HandleInv'
<1>1. /\ TypeOK /\ call \in [Actors -> Call] /\ CallsHold
      /\ handle \in [Handles -> TaskIDs \cup {NoID}]
      /\ UNCHANGED <<tasks, active, taskCounter>>
  BY DEF OverlapInv, TypeOK, Return, poolVars, HandleInv
<1>2. call[a].pc = "return" /\ CallHolds(a)
  BY <1>1 DEF Return, CallsHold
<1>3. call'[a] = NoCall /\ \A b \in Actors : b # a => call'[b] = call[b]
  BY <1>1 DEF Return
<1>4. \A q : Indices(q)' = Indices(q)
  BY <1>1 DEF Indices
<1>5. \A d \in Clients : \A q : Notifies(d, q)' <=> Notifies(d, q)
  BY <1>2, <1>3 DEF Notifies, NoCall, Actors
<1>6. \A b \in Locked : b \in Locked' /\ call'[b] = call[b] /\ b # a
  BY <1>2, <1>3 DEF Locked
<1>7. UsesShared'
  <2>1. \A g \in Handles : Uses(a, g)' => Uses(a, g)
    BY <1>3, SchedulerAssumption DEF Uses, NoCall
  <2>2. \A b \in Actors : ~WaitsForBody(a, b)
    BY <1>2 DEF WaitsForBody
  <2>. QED BY <1>1, <1>3, <2>1, <2>2, SharedGoOn DEF CallsHold
<1>8. ASSUME \A b \in Actors : b # a => \/ handle'[call[b].handle] = handle[call[b].handle]
                                        \/ call[b].handle \notin Handles
      PROVE  \A b \in Actors : CallHolds(b)'
  <2>. TAKE b \in Actors
  <2>1. CASE b = a
    BY <1>3, <2>1 DEF CallHolds, NoCall
  <2>2. CASE b # a
    <3>1. CallHolds(b) /\ call'[b] = call[b]
      BY <1>1, <1>3, <2>2 DEF CallsHold
    <3>2. call[b].pc = "notify" => Indices(call[b].id)' # {}
      BY <1>4, <3>1 DEF CallHolds
    <3>. QED BY <1>8, <2>2, <3>1, <3>2, CallFrame
  <2>. QED BY <2>1, <2>2
<1>9. CASE call[a].op = "move"
  <2>1. PICK h \in Handles : h = call[a].handle /\ handle[h] = NoID
    BY <1>2, <1>9 DEF CallHolds
  <2>2. PICK src \in Handles : src = call[a].source /\ src # h
    BY <1>1, <1>2, <1>9, <2>1 DEF CallHolds, Call
  <2>3. handle' = [handle EXCEPT ![h] = handle[src], ![src] = NoID]
    BY <1>9, <2>1, <2>2 DEF Return
  <2>4. /\ handle'[h] = handle[src] /\ handle'[src] = NoID
        /\ \A g \in Handles : g # h /\ g # src => handle'[g] = handle[g]
    BY <1>1, <2>2, <2>3
  <2>5. \A b \in Actors : b # a => ~Uses(b, h) /\ ~Uses(b, src)
    <3>1. a \in Clients /\ Uses(a, h) /\ Uses(a, src)
      BY <1>2, <1>9, <2>1, <2>2 DEF CallHolds, Uses
    <3>. QED BY <1>1, <1>2, <3>1, UsedAlone, SchedulerAssumption DEF CallsHold
  <2>6. ASSUME NEW q \in TaskIDs, Indices(q)' # {}
        PROVE  OnOneHandle(q)' \/ InOneCall(q)'
    <3>1. q # NoID /\ Indices(q) # {}
      BY <1>4, <2>6, SchedulerAssumption DEF TaskIDs, NoID
    <3>2. CASE InOneCall(q)
      <4>1. \A g \in Handles : handle'[g] # q
        BY <2>4, <3>1, <3>2 DEF InOneCall
      <4>. QED BY <1>5, <3>2, <4>1 DEF InOneCall
    <3>3. CASE OnOneHandle(q)
      <4>1. PICK k \in Handles : handle[k] = q /\ \A g \in Handles : handle[g] = q => g = k
        BY <3>3 DEF OnOneHandle
      <4>2. \E l \in Handles : handle'[l] = q /\ \A g \in Handles : handle'[g] = q => g = l
        <5>1. CASE k = src
          <6>1. handle'[h] = q /\ \A g \in Handles : handle'[g] = q => g = h
            BY <2>4, <3>1, <4>1, <5>1
          <6>. QED BY <6>1
        <5>2. CASE k # src
          <6>1. k # h
            BY <2>1, <3>1, <4>1
          <6>2. handle'[k] = q /\ \A g \in Handles : handle'[g] = q => g = k
            BY <2>4, <3>1, <4>1, <5>2, <6>1
          <6>. QED BY <6>2
        <5>. QED BY <5>1, <5>2
      <4>. QED BY <1>5, <3>3, <4>2 DEF OnOneHandle
    <3>. QED BY <3>1, <3>2, <3>3 DEF HandleInv
  <2>7. ASSUME NEW g \in Handles, handle'[g] # NoID
        PROVE  HasTask(g)'
    <3>1. CASE g = h
      <4>1. HasTask(src)
        BY <2>4, <2>7, <3>1 DEF HandleInv
      <4>2. \A b \in Locked : call[b].handle # src
        BY <1>6, <2>5 DEF Uses, Locked
      <4>. QED BY <1>4, <2>4, <3>1, <4>1, <4>2 DEF HasTask
    <3>2. CASE g # h
      <4>1. HasTask(g) /\ handle'[g] = handle[g]
        BY <2>4, <2>7, <3>2 DEF HandleInv
      <4>. QED BY <1>4, <1>6, <4>1 DEF HasTask
    <3>. QED BY <3>1, <3>2
  <2>8. HandlesHold'
    BY <1>1, <2>1, <2>2, <2>4 DEF CallsHold, HandlesHold
  <2>9. \A b \in Actors : CallHolds(b)'
    BY <1>8, <2>4, <2>5 DEF Uses
  <2>. QED BY <1>7, <2>6, <2>7, <2>8, <2>9 DEF HandleInv, CallsHold
<1>10. CASE call[a].op # "move"
  <2>1. handle' = handle
    <3>1. CASE call[a].op = "destroy"
      <4>1. handle' = [handle EXCEPT ![call[a].handle] = NoID]
        BY <3>1 DEF Return
      <4>2. handle[call[a].handle] = NoID
        BY <1>2, <3>1 DEF CallHolds
      <4>. QED BY <1>1, <4>1, <4>2
    <3>2. CASE call[a].op # "destroy"
      BY <1>10, <3>2 DEF Return
    <3>. QED BY <3>1, <3>2
  <2>2. \A q \in TaskIDs : Indices(q)' # {} => OnOneHandle(q)' \/ InOneCall(q)'
    BY <1>4, <1>5, <2>1 DEF HandleInv, OnOneHandle, InOneCall
  <2>3. \A g \in Handles : handle'[g] # NoID => HasTask(g)'
    BY <1>4, <1>6, <2>1 DEF HandleInv, HasTask
  <2>4. HandlesHold'
    BY <1>1, <2>1 DEF CallsHold, HandlesHold
  <2>5. \A b \in Actors : CallHolds(b)'
    BY <1>8, <2>1
  <2>. QED BY <1>7, <2>2, <2>3, <2>4, <2>5 DEF HandleInv, CallsHold
<1>. QED
  BY <1>9, <1>10

LEMMA HandleNext ==
    ASSUME StopInv, HandleInv, Alive, Alive', [Next]_vars
    PROVE  HandleInv'
<1>. OverlapInv /\ TypeOK
  BY DEF StopInv, OverlapInv
<1>. USE DEF poolVars
<1>1. ASSUME UNCHANGED <<call, handle, taskCounter, tasks, active>>
      PROVE  HandleInv'
  BY <1>1, HandleFrame DEF Indices
<1>2. ASSUME NEW c \in Clients, NEW h \in Handles, NEW policy \in Policies,
             NEW interval \in Intervals, Schedule(c, h, policy, interval)
      PROVE  HandleInv'
  BY <1>2, HandleSchedule
<1>3. ASSUME NEW c \in Clients, ClientStop(c)
      PROVE  HandleInv'
  <2>1. c \in Actors /\ c \notin Workers
    BY SchedulerAssumption DEF Actors
  <2>2. PICK h \in Handles : \/ \E op \in {"stop", "destroy"} : StopCall(c, op, h, NoHandle)
                              \/ \E src \in Handles \ {h} : StopCall(c, "move", h, src)
    BY <1>3 DEF ClientStop
  <2>. QED BY <2>1, <2>2, HandleStopCall
<1>4. ASSUME NEW w \in Workers, BodyStop(w)
      PROVE  HandleInv'
  <2>1. w \in Actors
    BY DEF Actors
  <2>2. PICK h \in Handles : StopCall(w, "stop", h, NoHandle)
    BY <1>4 DEF BodyStop
  <2>3. active[w].phase = "body"
    BY <1>4 DEF BodyStop
  <2>. QED BY <2>1, <2>2, <2>3, HandleStopCall
<1>5. ASSUME NEW c \in Clients, ReleaseOwner(c)
      PROVE  HandleInv'
  <2>1. call' = call
    <3>. SUFFICES ASSUME owners = {c}, Locked = {} PROVE FALSE
      BY <1>5 DEF ReleaseOwner
    <3>1. owners' = {} /\ c \in Actors
      BY <1>5 DEF ReleaseOwner, Actors
    <3>2. call'[c].pc = "requestStop" /\ \A b \in Actors : b # c => call'[b] = call[b]
      BY <1>5, <3>1 DEF ReleaseOwner, TypeOK, NoCall
    <3>3. Locked' = {}
      BY <3>1, <3>2 DEF Locked
    <3>. QED BY <3>1, <3>3 DEF Alive
  <2>. QED BY <1>1, <1>5, <2>1 DEF ReleaseOwner
<1>6. ASSUME NEW a \in Actors, CallStep(a)
      PROVE  HandleInv'
  <2>1. CASE ScheduleNotify(a)
    BY <2>1, HandleNotify
  <2>2. CASE EraseTask(a)
    BY <2>2, HandleErase
  <2>3. CASE EraseMissing(a) \/ FinishStop(a)
    BY <2>3, HandleInvalidate
  <2>4. CASE WaitForCompletion(a)
    BY <2>4, HandleWait
  <2>5. CASE RequestStop(a) \/ Join(a)
    BY <2>5 DEF RequestStop, Join, HandleInv, CallsHold, CallHolds
  <2>6. CASE Return(a)
    BY <2>6, HandleReturn
  <2>. QED BY <1>6, <2>1, <2>2, <2>3, <2>4, <2>5, <2>6 DEF CallStep
<1>7. CASE LoopStep
  <2>1. CASE ScanNotDue \/ ScanRunning \/ ScanSubmit
    <3>1. Scanning
      BY <2>1 DEF ScanNotDue, ScanRunning, ScanSubmit
    <3>2. scanIdx \in 1 .. Len(tasks) /\ tasks[scanIdx] \in Task
      BY <3>1, TypeScanned
    <3>3. PICK task \in Task : ScanAs(task) /\ task.id = tasks[scanIdx].id
      BY <2>1, ScannedTask
    <3>4. /\ Len(tasks') = Len(tasks)
          /\ \A i \in 1 .. Len(tasks) : tasks'[i] = IF i = scanIdx THEN task ELSE tasks[i]
      BY <3>1, <3>3, TypeScanAs
    <3>5. \A i \in 1 .. Len(tasks) : tasks'[i].id = tasks[i].id
      BY <3>3, <3>4
    <3>6. \A id : Indices(id)' = Indices(id)
      BY <3>4, <3>5 DEF Indices
    <3>7. UNCHANGED <<call, handle, taskCounter, active>>
      BY <2>1, <3>3 DEF ScanAs, loopElse, ScanNotDue, ScanRunning, ScanSubmit, Pool!Submit
    <3>. QED BY <3>6, <3>7, HandleFrame
  <2>2. CASE \/ LoopTop \/ EnterIdleWait \/ LeaveIdleWait \/ EnterScan
             \/ EnterTimedWait \/ LeaveTimedWait \/ WaitAgain
    BY <1>1, <2>2 DEF LoopTop, EnterIdleWait, LeaveIdleWait, EnterScan, EnterTimedWait,
                      LeaveTimedWait, WaitAgain, loopElse
  <2>. QED BY <1>7, <2>1, <2>2 DEF LoopStep
<1>8. ASSUME NEW w \in Workers, WorkerStep(w)
      PROVE  HandleInv'
  <2>1. UNCHANGED <<call, handle, taskCounter, tasks>>
    BY <1>8 DEF WorkerStep, schedulerVars
  <2>2. active \in [Workers -> Pool!Slot]
    BY DEF TypeOK, Pool!TypeOK
  <2>3. \A v \in Workers : call[v] # NoCall /\ active[v].phase = "body" => active'[v] = active[v]
    <3>1. CASE Pool!Start(w)
      BY <2>2, <3>1 DEF Pool!Start, Pool!IdleSlot
    <3>2. CASE call[w] = NoCall /\ Pool!Fulfil(w)
      BY <2>2, <3>2 DEF Pool!Fulfil
    <3>3. CASE Pool!Retire(w)
      BY <2>2, <3>3 DEF Pool!Retire
    <3>. QED BY <1>8, <3>1, <3>2, <3>3 DEF WorkerStep
  <2>. QED BY <2>1, <2>3, HandleFrame DEF Indices
<1>9. CASE SpuriousWakeup \/ PurgePool \/ Tick \/ UNCHANGED vars
  BY <1>1, <1>9 DEF SpuriousWakeup, PurgePool, Tick, vars, loopElse, schedulerVars, Pool!Purge
<1>. QED
  BY <1>2, <1>3, <1>4, <1>5, <1>6, <1>7, <1>8, <1>9 DEF Next, NewCall

-----------------------------------------------------------------------------
(* Each task is stopped by one call *)

(* The calls that stop a task are those that were, with the same id, and   *)
(* one that has just erased its task.                                      *)
LEMMA StoppersStay ==
    ASSUME TypeOK, [Next]_vars, NEW a \in Actors, a \in Stoppers'
    PROVE  \/ a \in Stoppers /\ call'[a].id = call[a].id
           \/ EraseTask(a)
<1>1. call \in [Actors -> Call] /\ \A b \in Actors : call[b] \in Call
  BY DEF TypeOK
<1>2. call'[a].pc \in {"wait", "finish"}
  BY DEF Stoppers
<1>. SUFFICES ASSUME ~EraseTask(a)
              PROVE  call[a].pc \in {"wait", "finish"} /\ call'[a].id = call[a].id
  BY DEF Stoppers
<1>3. CASE call' = call
  BY <1>2, <1>3
<1>4. ASSUME NEW b \in Actors, NEW pc, pc \notin {"wait", "finish"},
             call' = [call EXCEPT ![b].pc = pc]
      PROVE  call[a].pc \in {"wait", "finish"} /\ call'[a].id = call[a].id
  <2>1. CASE a = b
    <3>1. call'[a] = [call[a] EXCEPT !.pc = pc]
      BY <1>1, <1>4, <2>1
    <3>2. call'[a].pc = pc
      BY <1>1, <3>1 DEF Call
    <3>. QED BY <1>2, <1>4, <3>2
  <2>2. CASE a # b
    BY <1>1, <1>2, <1>4, <2>2
  <2>. QED BY <2>1, <2>2
<1>5. ASSUME NEW b \in Actors, NEW c, c.pc \notin {"wait", "finish"},
             call' = [call EXCEPT ![b] = c]
      PROVE  call[a].pc \in {"wait", "finish"} /\ call'[a].id = call[a].id
  BY <1>1, <1>2, <1>5
<1>6. NoCall.pc = "idle"
  BY DEF NoCall
<1>7. ASSUME NEW c \in Clients, NEW h \in Handles, NEW policy \in Policies,
             NEW interval \in Intervals, Schedule(c, h, policy, interval)
      PROVE  call[a].pc \in {"wait", "finish"} /\ call'[a].id = call[a].id
  <2>1. [NoCall EXCEPT !.op = "schedule", !.pc = "notify", !.handle = h, !.id = taskCounter].pc
            = "notify"
    BY DEF NoCall
  <2>. QED BY <1>5, <1>7, <2>1 DEF Schedule, Actors
<1>8. ASSUME NEW b \in Actors, NEW op, NEW h, NEW src, StopCall(b, op, h, src)
      PROVE  call[a].pc \in {"wait", "finish"} /\ call'[a].id = call[a].id
  <2>1. call'[b].pc \in {"erase", "return"} /\ \A d \in Actors : d # b => call'[d] = call[d]
    BY <1>1, <1>8 DEF StopCall, NoCall
  <2>. QED BY <1>2, <2>1
<1>9. ASSUME NEW c \in Clients, ClientStop(c) \/ ReleaseOwner(c)
      PROVE  call[a].pc \in {"wait", "finish"} /\ call'[a].id = call[a].id
  <2>1. c \in Actors
    BY DEF Actors
  <2>2. CASE ClientStop(c)
    BY <1>8, <2>1, <2>2 DEF ClientStop
  <2>3. CASE ReleaseOwner(c)
    <3>1. [NoCall EXCEPT !.op = "release", !.pc = "requestStop"].pc = "requestStop"
      BY DEF NoCall
    <3>. QED BY <1>3, <1>5, <2>1, <2>3, <3>1 DEF ReleaseOwner
  <2>. QED BY <1>9, <2>2, <2>3
<1>10. ASSUME NEW w \in Workers, BodyStop(w)
       PROVE  call[a].pc \in {"wait", "finish"} /\ call'[a].id = call[a].id
  BY <1>8, <1>10 DEF BodyStop, Actors
<1>11. ASSUME NEW b \in Actors, CallStep(b)
       PROVE  call[a].pc \in {"wait", "finish"} /\ call'[a].id = call[a].id
  <2>1. CASE ScheduleNotify(b) \/ Return(b)
    BY <1>5, <1>6, <2>1 DEF ScheduleNotify, Return
  <2>2. CASE EraseTask(b)
    <3>1. a # b
      BY <2>2
    <3>. QED BY <1>1, <1>2, <2>2, <3>1 DEF EraseTask
  <2>3. CASE EraseMissing(b) \/ FinishStop(b)
    <3>1. PcAfterDrop(b) \notin {"wait", "finish"}
      BY DEF PcAfterDrop
    <3>. QED BY <1>4, <2>3, <3>1 DEF EraseMissing, FinishStop
  <2>4. CASE WaitForCompletion(b)
    <3>1. \A d \in Actors : call'[d].id = call[d].id
      BY <1>1, <2>4 DEF WaitForCompletion, Call
    <3>2. call[b].pc = "wait" /\ \A d \in Actors : d # b => call'[d] = call[d]
      BY <1>1, <2>4 DEF WaitForCompletion
    <3>. QED BY <1>2, <3>1, <3>2
  <2>5. CASE RequestStop(b) \/ Join(b)
    <3>1. \E pc \in {"join", "return"} : call' = [call EXCEPT ![b].pc = pc]
      BY <2>5 DEF RequestStop, Join
    <3>. QED BY <1>4, <3>1
  <2>. QED BY <1>11, <2>1, <2>2, <2>3, <2>4, <2>5 DEF CallStep
<1>12. CASE LoopStep
  BY <1>3, <1>12 DEF LoopStep, LoopTop, EnterIdleWait, LeaveIdleWait, EnterScan, ScanNotDue,
       ScanRunning, ScanSubmit, ScanAs, EnterTimedWait, LeaveTimedWait, WaitAgain, loopElse
<1>13. CASE SpuriousWakeup \/ PurgePool \/ Tick \/ UNCHANGED vars
  BY <1>3, <1>13 DEF SpuriousWakeup, PurgePool, Tick, vars, loopElse, schedulerVars
<1>14. ASSUME NEW w \in Workers, WorkerStep(w)
       PROVE  call' = call
  BY <1>14 DEF WorkerStep, schedulerVars
<1>. QED
  BY <1>3, <1>7, <1>9, <1>10, <1>11, <1>12, <1>13, <1>14 DEF Next, NewCall

(* One call takes a task out of tasks_, and no other finds it there.       *)
LEMMA StopsDifferNext ==
    ASSUME StopInv, StopsDiffer, [Next]_vars
    PROVE  StopsDiffer'
<1>1. TypeOK /\ call \in [Actors -> Call]
  BY DEF StopInv, OverlapInv, TypeOK
<1>2. \A a \in Actors : a \in Stoppers <=> call[a].pc \in {"wait", "finish"}
  BY DEF Stoppers
<1>3. \A a \in Actors : a \in Stoppers' <=> call'[a].pc \in {"wait", "finish"}
  BY DEF Stoppers
<1>4. ASSUME NEW a \in Actors, NEW b \in Actors, EraseTask(a), b \in Stoppers', b # a
      PROVE  call'[a].id # call'[b].id
  <2>1. Indices(call[a].id) # {} /\ call'[b] = call[b]
    BY <1>1, <1>4 DEF EraseTask
  <2>2. call'[a].id = call[a].id
    BY <1>1, <1>4 DEF EraseTask, Call
  <2>3. call[b].pc \in {"wait", "finish"}
    BY <1>3, <1>4, <2>1
  <2>4. Indices(call[b].id) = {}
    BY <2>3 DEF StopInv, ErasedStaysErased, HoldsLast, Erased
  <2>. QED BY <2>1, <2>2, <2>4
<1>. SUFFICES ASSUME NEW a \in Actors, NEW b \in Actors, a \in Stoppers', b \in Stoppers',
                     call'[a].id = call'[b].id
              PROVE  a = b
  BY <1>3 DEF StopsDiffer
<1>5. CASE EraseTask(a) \/ EraseTask(b)
  BY <1>4, <1>5
<1>6. CASE ~EraseTask(a) /\ ~EraseTask(b)
  <2>1. a \in Stoppers /\ call'[a].id = call[a].id
    BY <1>1, <1>6, StoppersStay
  <2>2. b \in Stoppers /\ call'[b].id = call[b].id
    BY <1>1, <1>6, StoppersStay
  <2>. QED BY <1>2, <2>1, <2>2 DEF StopsDiffer
<1>. QED BY <1>5, <1>6

-----------------------------------------------------------------------------
(* The whole invariant *)

LEMMA MatchesByIDNext == (TypeOK /\ Alive => (HandlesMatchTasks /\ CallsHold <=> HandleInv))'
<1>1. TypeOK /\ Alive => (HandlesMatchTasks /\ CallsHold <=> HandleInv)
  BY MatchesByID
<1>. QED BY <1>1, PTL

LEMMA InvNext == SchedulerInv /\ [Next]_vars => SchedulerInv'
<1>. SUFFICES ASSUME SchedulerInv, [Next]_vars
              PROVE  SchedulerInv'
  OBVIOUS
<1>1. StopInv /\ OverlapInv /\ TypeOK
  BY DEF SchedulerInv, StopInv, OverlapInv
<1>2. StopInv' /\ TypeOK'
  <2>1. StopInv'
    BY <1>1, StopNext
  <2>2. TypeOK'
    BY <1>1, TypeNext
  <2>. QED BY <2>1, <2>2
<1>3. WakesInTime' /\ NoMissedWakeup' /\ StopsDiffer'
  BY <1>1, WakeNext, StopsDifferNext DEF SchedulerInv
<1>4. PeriodsKept'
  BY <1>1, PeriodsNext DEF SchedulerInv
<1>5. ASSUME Alive' PROVE HandlesMatchTasks' /\ CallsHold'
  <2>1. Alive
    BY <1>1, <1>5, AliveBefore
  <2>2. HandleInv
    BY <1>1, <2>1, MatchesByID DEF SchedulerInv
  <2>3. HandleInv'
    BY <1>1, <1>5, <2>1, <2>2, HandleNext
  <2>. QED BY <1>2, <1>5, <2>3, MatchesByIDNext
<1>. QED
  BY <1>2, <1>3, <1>4, <1>5 DEF SchedulerInv

LEMMA InvInit == Init => SchedulerInv
<1>. SUFFICES ASSUME Init PROVE SchedulerInv
  OBVIOUS
<1>1. StopInv
  BY StopInit
<1>2. /\ Len(tasks) = 0 /\ asleep = FALSE /\ loopPc = "top"
      /\ \A h \in Handles : handle[h] = NoID
      /\ \A a \in Actors : call[a] = NoCall
      /\ \A id \in TaskIDs : ledger[id].submitted = FALSE
  BY DEF Init
<1>3. WakesInTime /\ NoMissedWakeup /\ PeriodsKept /\ StopsDiffer
  BY <1>2 DEF WakesInTime, NoMissedWakeup, PeriodsKept, StopsDiffer, NoCall
<1>4. HandlesMatchTasks
  BY <1>2 DEF HandlesMatchTasks
<1>5. CallsHold
  <2>1. \A a \in Actors, h \in Handles : ~Uses(a, h)
    BY <1>2, SchedulerAssumption DEF Uses, NoCall
  <2>2. HandlesHold /\ UsesShared
    BY <1>2, <2>1 DEF HandlesHold, UsesShared
  <2>3. \A a \in Actors : CallHolds(a)
    BY <1>2 DEF CallHolds, NoCall
  <2>. QED BY <2>2, <2>3 DEF CallsHold
<1>. QED
  BY <1>1, <1>3, <1>4, <1>5 DEF SchedulerInv

(* The invariant that implies the others: tasks, pool, handles, calls, the *)
(* loop's locals and the history agree, as its parts say.                  *)
THEOREM InvHolds == Spec => []SchedulerInv
BY InvInit, InvNext, PTL DEF Spec

(* The loop thread never sleeps while a task it does not know of, or a     *)
(* stop, waits for it: whatever it misses is about to be notified.         *)
THEOREM NoWakeupIsMissed == Spec => []NoMissedWakeup
<1>1. SchedulerInv => NoMissedWakeup
  BY DEF SchedulerInv
<1>. QED BY <1>1, InvHolds, PTL

(* While the scheduler lives each task has one handle, or is about to be   *)
(* given to one, and each valid handle has its task, or is being stopped,  *)
(* however handles are moved, stopped and destroyed.                       *)
THEOREM OneHandleEach == Spec => []HandlesMatchTasks
<1>1. SchedulerInv => HandlesMatchTasks
  BY DEF SchedulerInv, HandlesMatchTasks
<1>. QED BY <1>1, InvHolds, PTL

(* The scans that submit a task are an interval apart at least, however    *)
(* late they come.                                                         *)
THEOREM PeriodsAreKept == Spec => SubmissionsSpaced
<1>1. ASSUME SchedulerInv, [Next]_vars
      PROVE  [\A i \in 1 .. Len(tasks) :
                LET entry == ledger[tasks[i].id]
                IN  SubmittedNow(tasks[i].id) /\ entry.submitted
                        => loopNow >= entry.lastSubmit + tasks[i].interval]_vars
  <2>1. TypeOK /\ IdsUnique
    BY <1>1 DEF SchedulerInv, StopInv, OverlapInv
  <2>. SUFFICES ASSUME NEW i \in 1 .. Len(tasks), SubmittedNow(tasks[i].id),
                       ledger[tasks[i].id].submitted
                PROVE  loopNow >= ledger[tasks[i].id].lastSubmit + tasks[i].interval
    OBVIOUS
  <2>2. ScanSubmit /\ scanIdx \in Indices(tasks[i].id)
    BY <1>1, <2>1, SubmitIsScan
  <2>3. scanIdx = i
    BY <2>1, <2>2 DEF Indices, IdsUnique
  <2>4. loopNow >= tasks[i].next_execution
    BY <2>2, <2>3 DEF ScanSubmit, Due
  <2>5. ledger[tasks[i].id].lastSubmit + tasks[i].interval <= tasks[i].next_execution
    BY <1>1 DEF SchedulerInv, PeriodsKept
  <2>6. /\ loopNow \in Nat /\ tasks[i].next_execution \in Nat
        /\ ledger[tasks[i].id].lastSubmit \in Nat /\ tasks[i].interval \in Nat
    <3>1. tasks[i] \in Task
      BY <2>1, ElementOfSeq DEF TypeOK
    <3>2. tasks[i].id \in TaskIDs /\ tasks[i].next_execution \in Nat /\ tasks[i].interval \in Nat
      BY <3>1, SchedulerAssumption DEF Task
    <3>3. ledger[tasks[i].id] \in LedgerEntry
      BY <2>1, <3>2 DEF TypeOK
    <3>. QED BY <2>1, <3>2, <3>3 DEF TypeOK, LedgerEntry
  <2>. QED BY <2>4, <2>5, <2>6
<1>. QED BY <1>1, InvHolds, PTL DEF Spec, SubmissionsSpaced

-----------------------------------------------------------------------------
(* The scheduler implements PeriodicTasks *)

(* Where the calls that stop tasks and their ids are the same, and so are  *)
(* the policies of these, the tasks that are being stopped are the same.   *)
LEMMA StoppingSame ==
    ASSUME Stoppers' = Stoppers,
           \A a \in Stoppers : /\ call'[a].id = call[a].id
                               /\ ledger'[call[a].id].policy = ledger[call[a].id].policy
    PROVE  Stopping' = Stopping
<1>. DEFINE entry(a) == [id |-> call[a].id, policy |-> ledger[call[a].id].policy]
<1>1. \A a \in Stoppers : entry(a)' = entry(a)
  OBVIOUS
<1>2. Stopping = {entry(a) : a \in Stoppers} /\ Stopping' = {entry(a)' : a \in Stoppers'}
  BY DEF Stopping
<1>. HIDE DEF entry
<1>. QED
  BY <1>1, <1>2

(* What is promised of the tasks when one is added, erased or scanned.     *)
LEMMA HeldAppend ==
    ASSUME TypeOK, NEW task \in Task, tasks' = Append(tasks, task)
    PROVE  Held' = Held \cup {Promised(task)}
<1>1. /\ Len(tasks) \in Nat /\ Len(tasks') = Len(tasks) + 1
      /\ \A i \in 1 .. Len(tasks) : tasks'[i] = tasks[i]
      /\ tasks'[Len(tasks) + 1] = task
  <2>1. tasks \in Seq(Task)
    BY DEF TypeOK
  <2>. QED BY <2>1
<1>2. \A p : p \in Held' <=> \E i \in 1 .. Len(tasks) + 1 : p = Promised(tasks'[i])
  BY <1>1 DEF Held, Promised
<1>3. \A p : p \in Held <=> \E i \in 1 .. Len(tasks) : p = Promised(tasks[i])
  BY DEF Held
<1>4. ASSUME NEW p \in Held' PROVE p \in Held \cup {Promised(task)}
  <2>1. PICK i \in 1 .. Len(tasks) + 1 : p = Promised(tasks'[i])
    BY <1>2, <1>4
  <2>2. CASE i = Len(tasks) + 1
    BY <1>1, <2>1, <2>2
  <2>3. CASE i \in 1 .. Len(tasks)
    BY <1>1, <1>3, <2>1, <2>3
  <2>. QED BY <1>1, <2>2, <2>3
<1>5. Promised(task) \in Held'
  BY <1>1, <1>2
<1>6. ASSUME NEW p \in Held PROVE p \in Held'
  BY <1>1, <1>2, <1>3, <1>6
<1>. QED
  BY <1>4, <1>5, <1>6

LEMMA HeldErase ==
    ASSUME TypeOK, IdsUnique, NEW n \in 1 .. Len(tasks), tasks' = RemoveAt(tasks, n)
    PROVE  Held' = Held \ {Promised(tasks[n])}
<1>1. tasks \in Seq(Task) /\ Len(tasks) \in Nat
  BY LenProperties DEF TypeOK
<1>2. /\ Len(tasks') = Len(tasks) - 1
      /\ \A j \in 1 .. Len(tasks') : tasks'[j] = IF j < n THEN tasks[j] ELSE tasks[j + 1]
  BY <1>1, RemoveAtProperties
<1>3. \A i \in 1 .. Len(tasks) : Promised(tasks[i]) = Promised(tasks[n]) => i = n
  BY DEF IdsUnique, Promised
<1>4. \A p : p \in Held' <=> \E i \in 1 .. Len(tasks') : p = Promised(tasks'[i])
  BY DEF Held, Promised
<1>5. \A p : p \in Held <=> \E i \in 1 .. Len(tasks) : p = Promised(tasks[i])
  BY DEF Held
<1>6. ASSUME NEW p \in Held' PROVE p \in Held \ {Promised(tasks[n])}
  <2>1. PICK i \in 1 .. Len(tasks') : p = Promised(tasks'[i])
    BY <1>4, <1>6
  <2>2. PICK k \in 1 .. Len(tasks) : k # n /\ tasks'[i] = tasks[k]
    <3>1. CASE i < n
      BY <1>1, <1>2, <3>1
    <3>2. CASE ~(i < n)
      BY <1>1, <1>2, <3>2
    <3>. QED BY <3>1, <3>2
  <2>. QED BY <1>3, <1>5, <2>1, <2>2
<1>7. ASSUME NEW p \in Held, p # Promised(tasks[n]) PROVE p \in Held'
  <2>1. PICK k \in 1 .. Len(tasks) : p = Promised(tasks[k])
    BY <1>5, <1>7
  <2>2. \E i \in 1 .. Len(tasks') : tasks'[i] = tasks[k]
    <3>1. k # n
      BY <1>7, <2>1
    <3>2. CASE k < n
      BY <1>1, <1>2, <3>2
    <3>3. CASE k > n
      <4>1. k - 1 \in 1 .. Len(tasks') /\ ~(k - 1 < n) /\ (k - 1) + 1 = k
        BY <1>1, <1>2, <3>3
      <4>. QED BY <1>2, <4>1
    <3>. QED BY <3>1, <3>2, <3>3
  <2>. QED BY <1>4, <2>1, <2>2
<1>. QED
  BY <1>6, <1>7

LEMMA HeldScan ==
    ASSUME TypeOK, IdsUnique, Scanning, NEW task \in Task, ScanAs(task)
    PROVE  Held' = (Held \ {Promised(tasks[scanIdx])}) \cup {Promised(task)}
<1>1. scanIdx \in 1 .. Len(tasks)
  BY TypeScanned
<1>2. /\ Len(tasks') = Len(tasks)
      /\ \A i \in 1 .. Len(tasks) : tasks'[i] = IF i = scanIdx THEN task ELSE tasks[i]
  BY TypeScanAs
<1>3. \A i \in 1 .. Len(tasks) : Promised(tasks[i]) = Promised(tasks[scanIdx]) => i = scanIdx
  BY <1>1 DEF IdsUnique, Promised
<1>4. \A p : p \in Held' <=> \E i \in 1 .. Len(tasks) : p = Promised(tasks'[i])
  BY <1>2 DEF Held, Promised
<1>5. \A p : p \in Held <=> \E i \in 1 .. Len(tasks) : p = Promised(tasks[i])
  BY DEF Held
<1>6. ASSUME NEW p \in Held'
      PROVE  p = Promised(task) \/ p \in Held \ {Promised(tasks[scanIdx])}
  <2>1. PICK i \in 1 .. Len(tasks) : p = Promised(tasks'[i])
    BY <1>4, <1>6
  <2>2. CASE i = scanIdx
    BY <1>2, <2>1, <2>2
  <2>3. CASE i # scanIdx
    BY <1>2, <1>3, <1>5, <2>1, <2>3
  <2>. QED BY <2>2, <2>3
<1>7. Promised(task) \in Held'
  BY <1>1, <1>2, <1>4
<1>8. ASSUME NEW p \in Held, p # Promised(tasks[scanIdx]) PROVE p \in Held'
  <2>1. PICK i \in 1 .. Len(tasks) : p = Promised(tasks[i])
    BY <1>5, <1>8
  <2>. QED BY <1>2, <1>4, <1>8, <2>1
<1>. QED
  BY <1>6, <1>7, <1>8

LEMMA UnreadyIds == \A id : id \in Unready <=> id \in TaskIDs /\ Pending(id) # {}
BY DEF Unready, Quiet

(* The pool ends what is pending, and adds nothing.                        *)
LEMMA UnreadyShrinks ==
    ASSUME TypeOK, PurgePool \/ \E w \in Workers : WorkerStep(w)
    PROVE  Unready' \subseteq Unready
<1>1. \A q : Pending(q)' \subseteq Pending(q)
  BY PendingShrinks
<1>. QED
  BY <1>1 DEF Unready, Quiet

LEMMA StopperIds ==
    ASSUME StopInv, NEW a \in Stoppers
    PROVE  a \in Actors /\ HoldsLast(a) /\ call[a].id \in TaskIDs /\ call[a].id < taskCounter
<1>1. a \in Actors /\ HoldsLast(a)
  BY DEF Stoppers, StopInv, ErasedStaysErased
<1>. QED
  BY <1>1, CallIds DEF StopInv, OverlapInv, HoldsLast, Erased

(* Steps that keep the calls that stop a task, their ids and the policies. *)
LEMMA StoppingKept ==
    ASSUME StopInv,
           \A id \in TaskIDs : id < taskCounter => ledger'[id].policy = ledger[id].policy,
           \A a \in Actors : /\ call'[a].pc \in {"wait", "finish"} <=> a \in Stoppers
                             /\ a \in Stoppers => call'[a].id = call[a].id
    PROVE  Stopping' = Stopping
<1>1. Stoppers' = Stoppers
  BY DEF Stoppers
<1>2. \A a \in Stoppers : /\ call'[a].id = call[a].id
                          /\ ledger'[call[a].id].policy = ledger[call[a].id].policy
  BY StopperIds
<1>. QED
  BY <1>1, <1>2, StoppingSame

(* What the users of the scheduler do not see. *)
LEMMA Unseen ==
    ASSUME UNCHANGED <<queue, active, tasks, clock, loopNow, taskCounter>>,
           Alive' <=> Alive, Stopping' = Stopping
    PROVE  UNCHANGED Abstract!vars
<1>1. Held' = Held
  BY DEF Held, Promised
<1>2. Unready' = Unready
  BY DEF Unready, Quiet, Pending, QueuedFor, ExecutedBy
<1>3. Alive' = Alive
  BY Zenon
<1>. QED
  BY <1>1, <1>2, <1>3 DEF Abstract!vars

LEMMA LockedIs == \A a : a \in Locked <=> a \in Actors /\ call[a].pc \in {"erase", "wait", "finish"}
BY DEF Locked

LEMMA StoppersAre == \A a : a \in Stoppers <=> a \in Actors /\ call[a].pc \in {"wait", "finish"}
BY DEF Stoppers

(* A step that changes the pc of one call, that neither was nor is stopping. *)
LEMMA StoppingElsewhere ==
    ASSUME StopInv, NEW a \in Actors, call[a].pc \notin {"wait", "finish"},
           call'[a].pc \notin {"wait", "finish"},
           \A b \in Actors : b # a => call'[b] = call[b],
           \A id \in TaskIDs : id < taskCounter => ledger'[id].policy = ledger[id].policy
    PROVE  Stopping' = Stopping
<1>1. \A b \in Actors : /\ call'[b].pc \in {"wait", "finish"} <=> b \in Stoppers
                        /\ b \in Stoppers => call'[b].id = call[b].id
  BY StoppersAre
<1>. QED
  BY <1>1, StoppingKept

LEMMA ScheduleRefines ==
    ASSUME StopInv, NEW c \in Clients, NEW h \in Handles, NEW policy \in Policies,
           NEW interval \in Intervals, Schedule(c, h, policy, interval)
    PROVE  Abstract!Schedule(policy, interval)
<1>. DEFINE task == [id |-> taskCounter, stop_policy |-> policy, interval |-> interval,
                     promise |-> 0, next_execution |-> clock]
<1>1. /\ TypeOK /\ call \in [Actors -> Call] /\ c \in Actors
      /\ ledger \in [TaskIDs -> LedgerEntry]
      /\ UNCHANGED <<queue, active, clock, loopNow, owners>>
      /\ taskCounter' = taskCounter + 1 /\ taskCounter \in Nat
      /\ tasks' = Append(tasks, task) /\ owners # {}
  BY SchedulerAssumption DEF StopInv, OverlapInv, TypeOK, Schedule, poolVars, loopVars, Actors
<1>2. Alive /\ Alive'
  BY <1>1 DEF Alive
<1>3. task \in Task
  <2>1. taskCounter \in TaskIDs
    BY <1>1, SchedulerAssumption DEF Schedule, TaskIDs
  <2>. QED BY <1>1, <2>1 DEF TypeOK, Task
<1>4. Promised(task) = [id |-> taskCounter, policy |-> policy, interval |-> interval, due |-> clock]
  BY DEF Promised
<1>. HIDE DEF task
<1>5. Held' = Held \cup {Promised(task)}
  BY <1>1, <1>3, HeldAppend
<1>6. Unready' = Unready
  BY <1>1 DEF Unready, Quiet, Pending, QueuedFor, ExecutedBy
<1>7. Stopping' = Stopping
  <2>1. call[c].pc = "idle"
    BY DEF Schedule, NoCall
  <2>2. call'[c].pc = "notify" /\ \A b \in Actors : b # c => call'[b] = call[b]
    BY <1>1 DEF Schedule, NoCall
  <2>3. \A id \in TaskIDs : id < taskCounter => ledger'[id].policy = ledger[id].policy
    <3>1. ledger' = [ledger EXCEPT ![taskCounter].policy = policy]
      BY DEF Schedule
    <3>2. \A id \in TaskIDs : id < taskCounter => id # taskCounter
      BY <1>1 DEF TaskIDs
    <3>. QED BY <1>1, <3>1, <3>2
  <2>. QED BY <1>1, <2>1, <2>2, <2>3, StoppingElsewhere
<1>8. Alive' = Alive
  <2>1. Alive' <=> Alive
    BY <1>2
  <2>. QED BY <2>1, Zenon
<1>. QED
  BY <1>1, <1>2, <1>4, <1>5, <1>6, <1>7, <1>8 DEF Abstract!Schedule

LEMMA StopCallRefines ==
    ASSUME StopInv, NEW a \in Actors, NEW op, NEW h, NEW src, StopCall(a, op, h, src)
    PROVE  UNCHANGED Abstract!vars
<1>1. /\ TypeOK /\ call \in [Actors -> Call] /\ ledger \in [TaskIDs -> LedgerEntry]
      /\ UNCHANGED <<queue, active, tasks, clock, loopNow, taskCounter, owners>>
  BY DEF StopInv, OverlapInv, TypeOK, StopCall, poolVars, loopVars
<1>2. call[a].pc = "idle"
  BY DEF StopCall, NoCall
<1>3. /\ call'[a].pc \in {"erase", "return"} /\ \A b \in Actors : b # a => call'[b] = call[b]
      /\ call'[a].pc = "erase" => Alive
  BY <1>1 DEF StopCall, NoCall
<1>4. \A id \in TaskIDs : ledger'[id].policy = ledger[id].policy
  <2>1. CASE ledger' = ledger
    BY <2>1
  <2>2. CASE ledger' = [ledger EXCEPT ![handle[h]].outcome = "expired"]
    BY <1>1, <2>2 DEF LedgerEntry
  <2>. QED BY <2>1, <2>2 DEF StopCall
<1>5. Stopping' = Stopping
  BY <1>2, <1>3, <1>4, StoppingElsewhere
<1>6. Alive' <=> Alive
  <2>1. \A b \in Actors : b # a => (b \in Locked' <=> b \in Locked)
    BY <1>3 DEF Locked
  <2>2. a \notin Locked /\ (a \in Locked' => Alive)
    BY <1>2, <1>3 DEF Locked
  <2>3. Locked \subseteq Actors /\ Locked' \subseteq Actors
    BY DEF Locked
  <2>. QED BY <1>1, <2>1, <2>2, <2>3 DEF Alive
<1>. QED
  BY <1>1, <1>5, <1>6, Unseen

(* Who drops the last shared_ptr begins the destructor. *)
LEMMA ReleaseRefines ==
    ASSUME StopInv, NEW a \in Actors, Alive, call[a].pc \in {"idle", "erase"},
           call'[a].pc \notin {"erase", "wait", "finish"},
           \A b \in Actors : b # a => call'[b] = call[b],
           UNCHANGED <<queue, active, tasks, clock, loopNow, taskCounter, ledger>>
    PROVE  Abstract!Release \/ UNCHANGED Abstract!vars
<1>1. Stopping' = Stopping
  BY StoppingElsewhere
<1>2. CASE Alive'
  BY <1>1, <1>2, Unseen
<1>3. CASE ~Alive'
  <2>1. Stoppers = {}
    <3>. SUFFICES ASSUME NEW b \in Stoppers PROVE FALSE
      OBVIOUS
    <3>1. b \in Actors /\ call[b].pc \in {"wait", "finish"} /\ b # a
      BY StoppersAre
    <3>2. b \in Locked'
      BY <3>1 DEF Locked
    <3>. QED BY <1>3, <3>2 DEF Alive
  <2>2. Stopping = {}
    BY <2>1 DEF Stopping
  <2>3. Held' = Held
    BY DEF Held, Promised
  <2>4. Unready' = Unready
    BY DEF Unready, Quiet, Pending, QueuedFor, ExecutedBy
  <2>5. Alive' = FALSE
    <3>1. Alive' <=> FALSE
      BY <1>3
    <3>. QED BY <3>1, Zenon
  <2>. QED BY <1>1, <2>2, <2>3, <2>4, <2>5 DEF Abstract!Release
<1>. QED
  BY <1>2, <1>3

LEMMA EraseRefines ==
    ASSUME StopInv, NEW a \in Actors, EraseTask(a)
    PROVE  \E t \in Held : Abstract!Stop(t)
<1>1. /\ TypeOK /\ call \in [Actors -> Call] /\ call[a] \in Call
      /\ UNCHANGED <<queue, active, clock, loopNow, taskCounter, owners, ledger>>
  BY DEF StopInv, OverlapInv, TypeOK, EraseTask, poolVars, loopVars
<1>2. PICK n \in Indices(call[a].id) :
        /\ tasks' = RemoveAt(tasks, n)
        /\ call' = [call EXCEPT ![a].pc = IF tasks[n].stop_policy = "wait" /\ tasks[n].promise # 0
                                         THEN "wait" ELSE "finish",
                                ![a].promise = tasks[n].promise]
  BY DEF EraseTask, WithoutTask
<1>3. n \in 1 .. Len(tasks) /\ tasks[n].id = call[a].id
  BY <1>2 DEF Indices
<1>. DEFINE t == Promised(tasks[n])
<1>4. t \in Held /\ t.id = call[a].id /\ t.policy = ledger[call[a].id].policy
  <2>1. tasks[n].stop_policy = ledger[call[a].id].policy
    BY <1>3 DEF StopInv, ErasedStaysErased
  <2>. QED BY <1>3, <2>1 DEF Held, Promised
<1>. HIDE DEF t
<1>5. Held' = Held \ {t}
  BY <1>1, <1>2, <1>3, HeldErase DEF t, StopInv, OverlapInv
<1>6. Unready' = Unready
  BY <1>1 DEF Unready, Quiet, Pending, QueuedFor, ExecutedBy
<1>7. /\ call'[a].id = call[a].id /\ call'[a].pc \in {"wait", "finish"}
      /\ \A b \in Actors : b # a => call'[b] = call[b]
  BY <1>1, <1>2 DEF Call
<1>8. a \in Locked /\ a \in Locked'
  BY <1>7 DEF Locked, EraseTask
<1>9. Alive /\ Alive' = Alive
  <2>1. Alive /\ Alive'
    BY <1>8 DEF Alive
  <2>. QED BY <2>1, Zenon
<1>10. Stopping' = Stopping \cup {[id |-> t.id, policy |-> t.policy]}
  <2>1. Stoppers' = Stoppers \cup {a}
    BY <1>7, StoppersAre DEF Stoppers
  <2>. DEFINE entry(b) == [id |-> call[b].id, policy |-> ledger[call[b].id].policy]
  <2>2. \A b \in Stoppers : entry(b)' = entry(b)
    <3>1. a \notin Stoppers
      BY DEF Stoppers, EraseTask
    <3>. QED BY <1>1, <1>7, <3>1, StoppersAre
  <2>3. entry(a)' = [id |-> t.id, policy |-> t.policy]
    BY <1>1, <1>4, <1>7
  <2>4. Stopping = {entry(b) : b \in Stoppers} /\ Stopping' = {entry(b)' : b \in Stoppers'}
    BY DEF Stopping
  <2>. HIDE DEF entry
  <2>. QED BY <2>1, <2>2, <2>3, <2>4
<1>11. Abstract!Stop(t)
  BY <1>1, <1>5, <1>6, <1>9, <1>10 DEF Abstract!Stop
<1>. QED
  BY <1>4, <1>11

LEMMA FinishRefines ==
    ASSUME StopInv, StopsDiffer, NEW a \in Actors, FinishStop(a)
    PROVE  \E s \in Stopping : Abstract!StopReturns(s)
<1>1. /\ TypeOK /\ call \in [Actors -> Call] /\ call[a] \in Call
      /\ ledger \in [TaskIDs -> LedgerEntry]
      /\ UNCHANGED <<queue, active, tasks, clock, loopNow, taskCounter, owners>>
  BY DEF StopInv, OverlapInv, TypeOK, FinishStop, poolVars, loopVars
<1>2. call[a].pc = "finish" /\ a \in Stoppers
  BY DEF FinishStop, Stoppers
<1>3. HoldsLast(a) /\ call[a].id \in TaskIDs
  BY <1>2, StopperIds
<1>. DEFINE s == [id |-> call[a].id, policy |-> ledger[call[a].id].policy]
<1>4. s \in Stopping
  BY <1>2 DEF Stopping
<1>5. s.policy = "wait" => s.id \notin Unready
  BY <1>2, <1>3 DEF HoldsLast, Unready
<1>6. Held' = Held
  BY <1>1 DEF Held, Promised
<1>7. Unready' = Unready
  BY <1>1 DEF Unready, Quiet, Pending, QueuedFor, ExecutedBy
<1>8. /\ call'[a].pc \in {"requestStop", "return"}
      /\ \A b \in Actors : b # a => call'[b] = call[b]
  BY <1>1 DEF FinishStop, PcAfterDrop, Call
<1>9. \A q \in TaskIDs : ledger'[q].policy = ledger[q].policy
  BY <1>1 DEF FinishStop, LedgerEntry
<1>10. Stopping' = Stopping \ {s}
  <2>. DEFINE entry(b) == [id |-> call[b].id, policy |-> ledger[call[b].id].policy]
  <2>1. Stoppers' = Stoppers \ {a}
    BY <1>8, StoppersAre DEF Stoppers
  <2>2. \A b \in Stoppers \ {a} : entry(b)' = entry(b)
    BY <1>8, <1>9, StopperIds
  <2>3. \A b \in Stoppers \ {a} : entry(b) # entry(a)
    BY <1>2, StoppersAre DEF StopsDiffer
  <2>4. Stopping = {entry(b) : b \in Stoppers} /\ Stopping' = {entry(b)' : b \in Stoppers'}
    BY DEF Stopping
  <2>5. s = entry(a)
    OBVIOUS
  <2>. HIDE DEF entry, s
  <2>. QED BY <1>2, <2>1, <2>2, <2>3, <2>4, <2>5
<1>11. Alive' \in {Alive, Alive /\ Stopping' # {}}
  <2>1. Alive
    BY <1>2 DEF Alive, Locked
  <2>2. CASE Alive'
    BY <2>1, <2>2, Zenon
  <2>3. CASE ~Alive'
    <3>1. Stoppers' = {}
      BY <2>3 DEF Alive, Locked, Stoppers
    <3>2. Stopping' = {}
      BY <3>1 DEF Stopping
    <3>3. Alive' <=> (Alive /\ Stopping' # {})
      BY <2>3, <3>2
    <3>4. Alive' = (Alive /\ Stopping' # {})
      BY <3>3, Zenon
    <3>. QED BY <3>4
  <2>. QED BY <2>2, <2>3
<1>. HIDE DEF s
<1>12. Abstract!StopReturns(s)
  BY <1>1, <1>5, <1>6, <1>7, <1>10, <1>11 DEF Abstract!StopReturns
<1>. QED
  BY <1>4, <1>12

(* A future that is not ready is that of a submission in the pool.         *)
LEMMA RunningIsUnready ==
    ASSUME OverlapInv, NEW i \in 1 .. Len(tasks)
    PROVE  Running(tasks[i]) <=> tasks[i].id \in Unready
<1>1. PICK id \in TaskIDs : id = tasks[i].id
  BY TaskAt DEF OverlapInv
<1>2. PICK m \in Nat : m = tasks[i].promise
  BY TaskAt DEF OverlapInv
<1>3. ASSUME Running(tasks[i]) PROVE Pending(id) # {}
  <2>1. (\E k \in 1 .. Len(queue) : queue[k] = <<id, m>>) \/ Pool!Executing(<<id, m>>)
    <3>1. DOMAIN queue = 1 .. Len(queue)
      BY LenProperties DEF OverlapInv, TypeOK, Pool!TypeOK
    <3>. QED BY <1>1, <1>2, <1>3, <3>1 DEF Running, Pool!Ready, Pool!Range
  <2>2. CASE \E k \in 1 .. Len(queue) : queue[k] = <<id, m>>
    BY <2>2 DEF Pending, QueuedFor
  <2>3. CASE Pool!Executing(<<id, m>>)
    BY <2>3 DEF Pool!Executing, Pending, ExecutedBy
  <2>. QED BY <2>1, <2>2, <2>3
<1>4. ASSUME ~Running(tasks[i]) PROVE Pending(id) = {}
  BY <1>1, <1>4, NotRunningIsQuiet DEF Pending
<1>. QED
  BY <1>1, <1>3, <1>4, UnreadyIds

(* Nothing is pending of a task that is neither queued nor executing. *)
LEMMA QuietIsEmpty ==
    /\ \A q : Quiet(q) <=> QueuedFor(q) = {} /\ ExecutedBy(q) = {}
    /\ \A q : Quiet(q)' <=> QueuedFor(q)' = {} /\ ExecutedBy(q)' = {}
BY DEF Quiet, Pending

(* A scan puts a due task off, and submits it or leaves its period out.    *)
LEMMA ScanRefines ==
    ASSUME StopInv, ScanNotDue \/ ScanRunning \/ ScanSubmit
    PROVE  \/ \E t \in Held : Abstract!Submit(t) \/ Abstract!Skip(t)
           \/ UNCHANGED Abstract!vars
<1>1. /\ OverlapInv /\ TypeOK /\ IdsUnique /\ Scanning
      /\ UNCHANGED <<clock, loopNow, taskCounter, owners, call>>
  BY DEF StopInv, OverlapInv, ScanNotDue, ScanRunning, ScanSubmit, ScanAs, loopElse
<1>2. scanIdx \in 1 .. Len(tasks) /\ tasks[scanIdx] \in Task
  BY <1>1, TypeScanned
<1>. DEFINE task == tasks[scanIdx]
            t    == Promised(task)
<1>3. /\ t \in Held /\ t.id = task.id /\ t.due = task.next_execution
      /\ \A n : [t EXCEPT !.due = n]
                  = [id |-> task.id, policy |-> task.stop_policy, interval |-> task.interval, due |-> n]
  BY <1>2 DEF Held, Promised
<1>4. Alive' = Alive
  <2>1. Alive' <=> Alive
    BY <1>1 DEF Alive, Locked
  <2>. QED BY <2>1, Zenon
<1>5. Stopping' = Stopping
  <2>1. Stoppers' = Stoppers
    BY <1>1 DEF Stoppers
  <2>2. \A a \in Stoppers : ledger'[call[a].id].policy = ledger[call[a].id].policy
    <3>1. CASE ledger' = ledger
      BY <3>1
    <3>2. CASE ScanSubmit
      <4>1. ledger' = [ledger EXCEPT ![task.id].submitted = TRUE, ![task.id].lastSubmit = loopNow]
        BY <3>2 DEF ScanSubmit
      <4>2. ledger \in [TaskIDs -> LedgerEntry]
        BY <1>1 DEF TypeOK
      <4>3. \A q \in TaskIDs : ledger'[q].policy = ledger[q].policy
        BY <4>1, <4>2 DEF LedgerEntry
      <4>. QED BY <4>3, StopperIds
    <3>. QED BY <3>1, <3>2 DEF ScanNotDue, ScanRunning
  <2>. QED BY <1>1, <2>1, <2>2, StoppingSame
<1>6. CASE ScanNotDue
  <2>1. tasks' = tasks
    BY <1>1, <1>6 DEF ScanNotDue, ScanAs, TypeOK
  <2>2. UNCHANGED <<queue, active, tasks, clock, loopNow, taskCounter>>
    BY <1>1, <1>6, <2>1 DEF ScanNotDue, poolVars
  <2>. QED BY <1>4, <1>5, <2>2, Unseen
<1>7. CASE ScanRunning
  <2>. DEFINE next == [task EXCEPT !.next_execution = NextExecution(task)]
  <2>1. ScanAs(next) /\ next \in Task
    BY <1>1, <1>7, TypeScanned DEF ScanRunning
  <2>2. Promised(next) = [t EXCEPT !.due = loopNow + t.interval]
    BY <1>2 DEF Promised, NextExecution, Task
  <2>. HIDE DEF next
  <2>3. Held' = (Held \ {t}) \cup {[t EXCEPT !.due = loopNow + t.interval]}
    BY <1>1, <2>1, <2>2, HeldScan
  <2>4. t.due <= loopNow
    BY <1>3, <1>7, <1>1, <1>2 DEF ScanRunning, Due, TypeOK, Task
  <2>5. t.id \in Unready
    BY <1>1, <1>2, <1>3, <1>7, RunningIsUnready DEF ScanRunning
  <2>6. Unready' = Unready
    BY <1>7 DEF ScanRunning, poolVars, Unready, Quiet, Pending, QueuedFor, ExecutedBy
  <2>. HIDE DEF t
  <2>7. Abstract!Skip(t)
    BY <1>1, <1>4, <1>5, <2>3, <2>4, <2>5, <2>6 DEF Abstract!Skip, Abstract!PutOff
  <2>. QED BY <1>3, <2>7
<1>8. CASE ScanSubmit
  <2>. DEFINE next == [task EXCEPT !.promise = task.promise + 1,
                                   !.next_execution = NextExecution(task)]
  <2>1. ScanAs(next) /\ next \in Task
    BY <1>1, <1>8, TypeScanned DEF ScanSubmit
  <2>2. Promised(next) = [t EXCEPT !.due = loopNow + t.interval]
    BY <1>2 DEF Promised, NextExecution, Task
  <2>. HIDE DEF next
  <2>3. Held' = (Held \ {t}) \cup {[t EXCEPT !.due = loopNow + t.interval]}
    BY <1>1, <2>1, <2>2, HeldScan
  <2>4. t.due <= loopNow
    BY <1>3, <1>8, <1>1, <1>2 DEF ScanSubmit, Due, TypeOK, Task
  <2>5. t.id \notin Unready
    BY <1>1, <1>2, <1>3, <1>8, RunningIsUnready DEF ScanSubmit
  <2>6. Unready' = Unready \cup {t.id}
    <3>1. PICK sid \in TaskIDs : sid = task.id
      BY <1>1, <1>2, TaskAt
    <3>2. active' = active /\ queue' = Append(queue, <<sid, task.promise + 1>>)
      BY <1>8, <3>1 DEF ScanSubmit, Pool!Submit
    <3>3. /\ Len(queue) \in Nat /\ Len(queue') = Len(queue) + 1
          /\ \A k \in 1 .. Len(queue) : queue'[k] = queue[k]
          /\ queue'[Len(queue) + 1][1] = sid
      <4>1. queue \in Seq(Submission)
        BY <1>1 DEF TypeOK, Pool!TypeOK
      <4>. QED BY <3>2, <4>1
    <3>4. \A q \in TaskIDs : q # sid => QueuedFor(q)' = QueuedFor(q)
      BY <3>3 DEF QueuedFor
    <3>5. Len(queue) + 1 \in QueuedFor(sid)'
      BY <3>3 DEF QueuedFor
    <3>6. \A q \in TaskIDs : q # sid => (Quiet(q)' <=> Quiet(q))
      <4>1. \A q : ExecutedBy(q)' = ExecutedBy(q)
        BY <3>2 DEF ExecutedBy
      <4>. QED BY <3>4, <4>1, QuietIsEmpty
    <3>7. ~Quiet(sid)'
      BY <3>5 DEF Quiet, Pending
    <3>8. sid = t.id
      BY <1>3, <3>1
    <3>. HIDE DEF t
    <3>. QED BY <3>6, <3>7, <3>8 DEF Unready
  <2>. HIDE DEF t
  <2>7. Abstract!Submit(t)
    BY <1>1, <1>4, <1>5, <2>3, <2>4, <2>5, <2>6 DEF Abstract!Submit, Abstract!PutOff
  <2>. QED BY <1>3, <2>7
<1>. QED
  BY <1>6, <1>7, <1>8

LEMMA CallStepRefines ==
    ASSUME SchedulerInv, NEW a \in Actors, CallStep(a)
    PROVE  [Abstract!Next]_(Abstract!vars)
<1>1. /\ StopInv /\ StopsDiffer /\ TypeOK /\ call \in [Actors -> Call] /\ call[a] \in Call
  BY DEF SchedulerInv, StopInv, OverlapInv, TypeOK
<1>. USE DEF poolVars, loopVars
<1>2. ASSUME call[a].pc \notin {"erase", "wait", "finish"},
             call'[a].pc \notin {"erase", "wait", "finish"},
             \A b \in Actors : b # a => call'[b] = call[b],
             UNCHANGED <<queue, active, tasks, clock, loopNow, taskCounter, owners, ledger>>
      PROVE  UNCHANGED Abstract!vars
  <2>1. Locked' = Locked
    BY <1>2 DEF Locked
  <2>2. Alive' <=> Alive
    BY <1>2, <2>1 DEF Alive
  <2>3. Stopping' = Stopping
    BY <1>1, <1>2, StoppingElsewhere
  <2>. QED BY <1>2, <2>2, <2>3, Unseen
<1>3. CASE ScheduleNotify(a)
  BY <1>1, <1>2, <1>3 DEF ScheduleNotify, NoCall
<1>4. CASE EraseTask(a)
  BY <1>1, <1>4, EraseRefines DEF Abstract!Next
<1>5. CASE EraseMissing(a)
  <2>1. Alive
    BY <1>5 DEF EraseMissing, Alive, Locked
  <2>2. call'[a].pc \in {"requestStop", "return"} /\ \A b \in Actors : b # a => call'[b] = call[b]
    BY <1>1, <1>5 DEF EraseMissing, PcAfterDrop, Call
  <2>. QED BY <1>1, <1>5, <2>1, <2>2, ReleaseRefines DEF EraseMissing, Abstract!Next
<1>6. CASE WaitForCompletion(a)
  <2>1. /\ call[a].pc = "wait" /\ call'[a].pc = "finish" /\ call'[a].id = call[a].id
        /\ \A b \in Actors : b # a => call'[b] = call[b]
        /\ UNCHANGED <<queue, active, tasks, clock, loopNow, taskCounter, owners, ledger>>
    BY <1>1, <1>6 DEF WaitForCompletion, Call
  <2>2. Locked' = Locked
    BY <2>1 DEF Locked
  <2>3. Alive' <=> Alive
    BY <2>1, <2>2 DEF Alive
  <2>4. Stopping' = Stopping
    BY <1>1, <2>1, StoppingKept, StoppersAre
  <2>. QED BY <2>1, <2>3, <2>4, Unseen
<1>7. CASE FinishStop(a)
  BY <1>1, <1>7, FinishRefines DEF Abstract!Next
<1>8. CASE RequestStop(a)
  <2>1. call'[a].pc = "join" /\ \A b \in Actors : b # a => call'[b] = call[b]
    BY <1>1, <1>8 DEF RequestStop, Call
  <2>. QED BY <1>2, <1>8, <2>1 DEF RequestStop
<1>9. CASE Join(a)
  <2>1. call[a].pc = "join" /\ tasks' = <<>>
    BY <1>9 DEF Join
  <2>2. ~Alive
    BY <2>1 DEF SchedulerInv, CallsHold, CallHolds
  <2>3. call'[a].pc = "return" /\ \A b \in Actors : b # a => call'[b] = call[b]
    BY <1>1, <1>9 DEF Join, Call
  <2>4. UNCHANGED <<queue, active, clock, loopNow, taskCounter, owners, ledger>>
    BY <1>9 DEF Join
  <2>5. Held' = {}
    BY <2>1 DEF Held
  <2>6. Stopping' = Stopping
    BY <1>1, <2>1, <2>3, <2>4, StoppingElsewhere
  <2>7. Unready' = Unready
    BY <2>4 DEF Unready, Quiet, Pending, QueuedFor, ExecutedBy
  <2>8. Alive' = Alive
    <3>1. Locked' = Locked
      BY <2>1, <2>3 DEF Locked
    <3>2. Alive' <=> Alive
      BY <2>4, <3>1 DEF Alive
    <3>. QED BY <3>2, Zenon
  <2>9. Abstract!Destroy
    BY <2>2, <2>4, <2>5, <2>6, <2>7, <2>8 DEF Abstract!Destroy
  <2>. QED BY <2>9 DEF Abstract!Next
<1>10. CASE Return(a)
  <2>1. call[a].pc = "return" /\ call'[a] = NoCall /\ \A b \in Actors : b # a => call'[b] = call[b]
    BY <1>1, <1>10 DEF Return
  <2>2. UNCHANGED <<queue, active, tasks, clock, loopNow, taskCounter, owners, ledger>>
    BY <1>10 DEF Return
  <2>. QED BY <1>2, <2>1, <2>2 DEF NoCall
<1>. QED
  BY <1>3, <1>4, <1>5, <1>6, <1>7, <1>8, <1>9, <1>10 DEF CallStep

LEMMA InitRefines == Init => Abstract!Init
<1>. SUFFICES ASSUME Init PROVE Abstract!Init
  OBVIOUS
<1>1. /\ tasks = <<>> /\ taskCounter = 0 /\ clock = 0 /\ loopNow = 0 /\ owners # {}
      /\ Len(queue) = 0 /\ \A w \in Workers : active[w].phase = "idle"
      /\ \A a \in Actors : call[a].pc = "idle"
  BY SchedulerAssumption DEF Init, Pool!Init, Pool!IdleSlot, NoCall
<1>2. Alive = TRUE
  <2>1. Alive <=> TRUE
    BY <1>1 DEF Alive
  <2>. QED BY <2>1, Zenon
<1>3. Held = {}
  BY <1>1 DEF Held
<1>4. Unready = {}
  BY <1>1 DEF Unready, Quiet, Pending, QueuedFor, ExecutedBy
<1>5. Stopping = {}
  BY <1>1 DEF Stopping, Stoppers
<1>. QED
  BY <1>1, <1>2, <1>3, <1>4, <1>5 DEF Abstract!Init

LEMMA StepRefines == SchedulerInv /\ [Next]_vars => [Abstract!Next]_(Abstract!vars)
<1>. SUFFICES ASSUME SchedulerInv, [Next]_vars
              PROVE  [Abstract!Next]_(Abstract!vars)
  OBVIOUS
<1>1. StopInv /\ OverlapInv /\ TypeOK /\ call \in [Actors -> Call]
  BY DEF SchedulerInv, StopInv, OverlapInv, TypeOK
<1>. USE DEF poolVars, loopVars, loopElse
<1>2. ASSUME UNCHANGED <<owners, call, ledger, tasks, taskCounter>>
      PROVE  (Alive' = Alive) /\ Stopping' = Stopping /\ Held' = Held
  <2>1. Alive' <=> Alive
    BY <1>2 DEF Alive, Locked
  <2>2. Stopping' = Stopping
    BY <1>2 DEF Stopping, Stoppers
  <2>3. Held' = Held
    BY <1>2 DEF Held, Promised
  <2>4. Alive' = Alive
    BY <2>1, Zenon
  <2>. QED BY <2>2, <2>3, <2>4
<1>3. ASSUME UNCHANGED <<owners, call, ledger, tasks, taskCounter, queue, active, clock, loopNow>>
      PROVE  UNCHANGED Abstract!vars
  BY <1>2, <1>3, Unseen
<1>4. ASSUME NEW c \in Clients, NEW h \in Handles, NEW policy \in Policies,
             NEW interval \in Intervals, Schedule(c, h, policy, interval)
      PROVE  Abstract!Next
  <2>1. Abstract!Schedule(policy, interval)
    BY <1>1, <1>4, ScheduleRefines
  <2>. QED BY <2>1 DEF Abstract!Next, Abstract!Policies, Policies
<1>5. ASSUME NEW c \in Clients, ClientStop(c)
      PROVE  UNCHANGED Abstract!vars
  BY <1>1, <1>5, StopCallRefines DEF ClientStop, Actors
<1>6. ASSUME NEW c \in Clients, ReleaseOwner(c)
      PROVE  [Abstract!Next]_(Abstract!vars)
  <2>1. /\ c \in Actors /\ Alive /\ call[c].pc = "idle"
        /\ UNCHANGED <<queue, active, tasks, clock, loopNow, taskCounter, ledger>>
    BY <1>6 DEF ReleaseOwner, Actors, Alive, NoCall
  <2>2. /\ call'[c].pc \in {"idle", "requestStop"}
        /\ \A b \in Actors : b # c => call'[b] = call[b]
    BY <1>1, <1>6, <2>1 DEF ReleaseOwner, NoCall
  <2>. QED BY <1>1, <2>1, <2>2, ReleaseRefines DEF Abstract!Next
<1>7. ASSUME NEW w \in Workers, BodyStop(w)
      PROVE  UNCHANGED Abstract!vars
  BY <1>1, <1>7, StopCallRefines DEF BodyStop, Actors
<1>8. CASE LoopStep
  <2>1. CASE ScanNotDue \/ ScanRunning \/ ScanSubmit
    BY <1>1, <2>1, ScanRefines DEF Abstract!Next
  <2>2. CASE EnterScan
    <3>1. UNCHANGED <<owners, call, ledger, tasks, taskCounter, queue, active, clock>> /\ loopNow' = clock
      BY <2>2 DEF EnterScan
    <3>2. Unready' = Unready
      BY <3>1 DEF Unready, Quiet, Pending, QueuedFor, ExecutedBy
    <3>3. Abstract!Look
      BY <1>2, <3>1, <3>2 DEF Abstract!Look
    <3>. QED BY <3>3 DEF Abstract!Next
  <2>3. CASE \/ LoopTop \/ EnterIdleWait \/ LeaveIdleWait
             \/ EnterTimedWait \/ LeaveTimedWait \/ WaitAgain
    BY <1>3, <2>3 DEF LoopTop, EnterIdleWait, LeaveIdleWait, EnterTimedWait, LeaveTimedWait,
                      WaitAgain
  <2>. QED BY <1>8, <2>1, <2>2, <2>3 DEF LoopStep
<1>9. CASE PurgePool \/ \E w \in Workers : WorkerStep(w)
  <2>1. UNCHANGED <<owners, call, ledger, tasks, taskCounter, clock, loopNow>>
    BY <1>9 DEF PurgePool, WorkerStep, schedulerVars
  <2>2. Unready' \subseteq Unready
    BY <1>1, <1>9, UnreadyShrinks
  <2>3. Abstract!Over
    BY <1>2, <2>1, <2>2 DEF Abstract!Over
  <2>. QED BY <2>3 DEF Abstract!Next
<1>10. CASE Tick
  <2>1. /\ UNCHANGED <<owners, call, ledger, tasks, taskCounter, queue, active, loopNow>>
        /\ clock' = clock + 1
    BY <1>10 DEF Tick
  <2>2. Unready' = Unready
    BY <2>1 DEF Unready, Quiet, Pending, QueuedFor, ExecutedBy
  <2>3. Abstract!Tick
    BY <1>2, <2>1, <2>2 DEF Abstract!Tick
  <2>. QED BY <2>3 DEF Abstract!Next
<1>11. CASE SpuriousWakeup \/ UNCHANGED vars
  BY <1>3, <1>11 DEF SpuriousWakeup, vars
<1>12. ASSUME NEW a \in Actors, CallStep(a)
       PROVE  [Abstract!Next]_(Abstract!vars)
  BY <1>12, CallStepRefines
<1>. QED
  BY <1>4, <1>5, <1>6, <1>7, <1>8, <1>9, <1>10, <1>11, <1>12 DEF Next, NewCall

(* PeriodicScheduler implements PeriodicTasks, for any number of clients,  *)
(* workers, handles and tasks: whatever its loop, its lock and its calls   *)
(* do in between, what its users see is tasks that are submitted when they *)
(* are due and their last submission is over, that are put off an interval *)
(* from the scan that found them due, and that are gone for good once they *)
(* are stopped.                                                            *)
THEOREM SchedulerIsPeriodicTasks == Spec => ImplementsPeriodicTasks
BY InvHolds, InitRefines, StepRefines, PTL DEF Spec, ImplementsPeriodicTasks, Abstract!Spec
=============================================================================
