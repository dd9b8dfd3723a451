----------------------------- MODULE ParallelLoop -----------------------------
(***************************************************************************)
(* A loop run on a pool: detach_loop() and wait(), or submit_loop() and    *)
(* get() on the multi_future it returns; detach_blocks() and               *)
(* submit_blocks() are the same with the inner loop in the user's          *)
(* function, the sequences the same with one index per block.  The pool is *)
(* TaskPool, a submission is the number of a block.  The function may      *)
(* throw, and another thread may purge the pool.                           *)
(***************************************************************************)
EXTENDS Blocks, Sequences, SequencesExt

CONSTANTS
    Workers,   \* the threads of the pool
    Indices,   \* the values of the index type the runs use
    Requests,  \* the values of the argument num_blocks
    NoBlock    \* what an idle worker executes

ASSUME LoopAssumption ==
    /\ IsFiniteSet(Workers) /\ Workers # {}
    /\ Indices \subseteq Int /\ Requests \subseteq Nat
    /\ \A i, j \in Indices : i .. j \subseteq Indices  \* an integer type has no gaps
    /\ NoBlock \notin Nat

VARIABLES
    loop,       \* the arguments, and whether it is detached or submitted
    queue,      \* the queue of the pool
    active,     \* what each worker executes
    index,      \* i, the index in each worker
    outcome,    \* what happened to each block
    submitter,  \* where the submitting thread is, and the next block
    executed    \* history: how often the function was called with an index

PLvars == <<loop, queue, active, index, outcome, submitter, executed>>

(* num_blocks ? num_blocks : thread_count *)
first == loop.first
last  == loop.last
num   == IF loop.request = 0 THEN Cardinality(Workers) ELSE loop.request

AllBlocks == 0 .. NumBlocks(first, last, num) - 1

Pool == INSTANCE TaskPool WITH Submission <- Nat, Waiters <- {}, waiters <- {}, NoTask <- NoBlock

Loops == [kind : {"detach", "submit"}, first : Indices, last : Indices, request : Requests]

PLTypeOK ==
    /\ loop \in Loops
    /\ Pool!TypeOK
    /\ index \in [Workers -> Int]
    /\ outcome \in [AllBlocks -> {"none", "value", "exception", "broken"}]
    /\ submitter \in [pc : {"submit", "get", "returned", "threw"}, next : Nat]
    /\ executed \in [Indices -> Nat]

PLInit ==
    /\ loop \in Loops
    /\ Pool!Init
    /\ index = [w \in Workers |-> 0]
    /\ outcome = [b \in AllBlocks |-> "none"]
    /\ submitter = [pc |-> "submit", next |-> 0]
    /\ executed = [i \in Indices |-> 0]

-----------------------------------------------------------------------------
(* The submitting thread *)

SubmitBlock ==
    /\ submitter.pc = "submit" /\ submitter.next \in AllBlocks
    /\ Pool!Submit(submitter.next)
    /\ submitter' = [submitter EXCEPT !.next = @ + 1]
    /\ UNCHANGED <<loop, index, outcome, executed>>

SubmitDone ==
    /\ submitter.pc = "submit" /\ submitter.next \notin AllBlocks
    /\ submitter' = [pc |-> "get", next |-> 0]
    /\ UNCHANGED <<loop, queue, active, index, outcome, executed>>

(* wait() after detach_loop() *)
WaitForPool ==
    /\ submitter.pc = "get" /\ loop.kind = "detach"
    /\ Pool!AllDone
    /\ submitter' = [submitter EXCEPT !.pc = "returned"]
    /\ UNCHANGED <<loop, queue, active, index, outcome, executed>>

(* Mutant: get() does not wait for the future. *)
GetFutureEarly ==
    /\ submitter.pc = "get" /\ loop.kind = "submit" /\ submitter.next \in AllBlocks
    /\ submitter' = [submitter EXCEPT !.next = @ + 1]
    /\ UNCHANGED <<loop, queue, active, index, outcome, executed>>

(* get() of the next future: it waits, and rethrows what the block threw   *)
(* or broken_promise; the futures after it are not waited for then.        *)
GetFuture ==
    /\ submitter.pc = "get" /\ loop.kind = "submit" /\ submitter.next \in AllBlocks
    /\ Pool!Ready(submitter.next)
    /\ submitter' = IF outcome[submitter.next] = "value"
                    THEN [submitter EXCEPT !.next = @ + 1]
                    ELSE [submitter EXCEPT !.pc = "threw"]
    /\ UNCHANGED <<loop, queue, active, index, outcome, executed>>

GetReturns ==
    /\ submitter.pc = "get" /\ loop.kind = "submit" /\ submitter.next \notin AllBlocks
    /\ submitter' = [submitter EXCEPT !.pc = "returned"]
    /\ UNCHANGED <<loop, queue, active, index, outcome, executed>>

-----------------------------------------------------------------------------
(* The workers, and a thread that purges *)

BlockOf(w) == active[w].sub

StartBlock(w) ==
    /\ Pool!Start(w)
    /\ index' = [index EXCEPT ![w] = BlockStart(first, last, num, Head(queue))]
    /\ UNCHANGED <<loop, outcome, submitter, executed>>

Running(w) == active[w].phase = "body" /\ index[w] < BlockEnd(first, last, num, BlockOf(w))

(* The function is called with the next index. *)
CallLoop(w) ==
    /\ Running(w)
    /\ executed' = [executed EXCEPT ![index[w]] = @ + 1]
    /\ index' = [index EXCEPT ![w] = @ + 1]
    /\ UNCHANGED <<loop, queue, active, outcome, submitter>>

(* The call throws: the rest of the block is not executed. *)
LoopThrows(w) ==
    /\ Running(w)
    /\ executed' = [executed EXCEPT ![index[w]] = @ + 1]
    /\ outcome' = [outcome EXCEPT ![BlockOf(w)] = "exception"]
    /\ Pool!Fulfil(w)
    /\ UNCHANGED <<loop, index, submitter>>

FinishBlock(w) ==
    /\ ~Running(w)
    /\ Pool!Fulfil(w)
    /\ outcome' = [outcome EXCEPT ![BlockOf(w)] = "value"]
    /\ UNCHANGED <<loop, index, submitter, executed>>

Retire(w) ==
    /\ Pool!Retire(w)
    /\ UNCHANGED <<loop, index, outcome, submitter, executed>>

Purge ==
    /\ queue # <<>>
    /\ Pool!Purge
    /\ outcome' = [b \in AllBlocks |-> IF b \in Pool!Range(queue) THEN "broken" ELSE outcome[b]]
    /\ UNCHANGED <<loop, index, submitter, executed>>

PLNext ==
    \/ SubmitBlock \/ SubmitDone \/ WaitForPool \/ GetFuture \/ GetReturns
    \/ \E w \in Workers : \/ StartBlock(w) \/ CallLoop(w) \/ LoopThrows(w)
                          \/ FinishBlock(w) \/ Retire(w)
    \/ Purge

PLSpec == PLInit /\ [][PLNext]_PLvars

-----------------------------------------------------------------------------
(* Properties *)

From(b) == BlockStart(first, last, num, b)
To(b)   == BlockEnd(first, last, num, b)
IndicesOf(b) == From(b) .. To(b) - 1

Submitted(b) == submitter.pc = "submit" => b < submitter.next

(* "equivalent to for (T i = first_index; i < index_after_last; ++i)": no  *)
(* index is executed twice, none outside the range; when get() returns all *)
(* were executed, and no worker is in the function any more; when wait()   *)
(* returns that is so for every block that neither threw nor was purged.   *)
(* The blocks are a partition of the range, for each number of blocks.     *)
LoopRunsAll ==
    /\ first < last => IsPartition(first, last, num)
    /\ \A i \in Indices : executed[i] <= IF i \in first .. last - 1 THEN 1 ELSE 0
    /\ submitter.pc = "returned" =>
         /\ \A w \in Workers : active[w].phase # "body"
         /\ \A b \in AllBlocks :
              /\ loop.kind = "submit" => outcome[b] = "value"
              /\ outcome[b] # "none"
              /\ outcome[b] = "value" => \A i \in IndicesOf(b) : executed[i] = 1

(* What makes it inductive: a block is in one place, and was submitted;    *)
BlocksInPlace ==
    /\ \A b \in Pool!Range(queue) : b \in AllBlocks /\ Submitted(b)
    /\ \A i, j \in 1 .. Len(queue) : queue[i] = queue[j] => i = j
    /\ \A w \in Workers : active[w].phase # "idle" =>
          BlockOf(w) \in AllBlocks \ Pool!Range(queue) /\ Submitted(BlockOf(w))
    /\ \A v, w \in Workers : active[v].phase # "idle" /\ BlockOf(v) = BlockOf(w) => v = w

(* it has an outcome when its future is ready, which is the value for the  *)
(* futures that get() is done with;                                        *)
OutcomesKnown ==
    /\ \A b \in AllBlocks : outcome[b] # "none" <=> Submitted(b) /\ Pool!Ready(b)
    /\ submitter.pc = "get" /\ loop.kind = "submit" =>
          \A b \in AllBlocks : b < submitter.next => outcome[b] = "value"
    /\ submitter.pc = "returned" =>
          \A b \in AllBlocks : outcome[b] # "none" /\ (loop.kind = "submit" => outcome[b] = "value")

(* and of its indices the function was called with those before index.     *)
CallsCounted ==
    /\ \A i \in Indices : executed[i] \in {0, 1} /\ (i \notin first .. last - 1 => executed[i] = 0)
    /\ \A b \in AllBlocks : \A i \in IndicesOf(b) :
          /\ outcome[b] = "none" /\ ~Pool!Executing(b) => executed[i] = 0
          /\ outcome[b] = "value" => executed[i] = 1
    /\ \A w \in Workers : active[w].phase = "body" =>
          /\ index[w] \in From(BlockOf(w)) .. To(BlockOf(w))
          /\ \A i \in IndicesOf(BlockOf(w)) : executed[i] = IF i < index[w] THEN 1 ELSE 0

LoopInv == PLTypeOK /\ BlocksInPlace /\ OutcomesKnown /\ CallsCounted
=============================================================================
