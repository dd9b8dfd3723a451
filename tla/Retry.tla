-------------------------------- MODULE Retry --------------------------------
(***************************************************************************)
(* ExponentialBackoff(config, retryable, predicate), with the predicate of *)
(* the overload that takes a stop token: another thread may request the    *)
(* stop at any time, also between the two evaluations of the predicate.    *)
(* Without a token the stop never comes.                                   *)
(***************************************************************************)
EXTENDS Naturals

CONSTANTS
    Durations,      \* values of start_backoff and max_backoff, in ms
    MaxRetries,     \* values of max_retries
    DurationMax,    \* the largest value of a Duration, 2^63 - 1 in the code
    Unset           \* a Result that was not assigned

ASSUME RetryAssumption ==
    /\ Durations \subseteq Nat /\ MaxRetries \subseteq Nat /\ DurationMax \in Nat
    /\ \A d \in Durations : 2 * d <= DurationMax  \* current_backoff * 2 does not overflow
    /\ Unset \notin BOOLEAN

VARIABLES
    config,          \* the configuration, with start_backoff and the others
    pc,              \* "test", "call", "retest", "sleep", "done" or "threw"
    currentBackoff,  \* current_backoff
    numRetries,      \* num_retries
    result,          \* whether result converts to true
    stopRequested,   \* the state of the stop source
    tally            \* history: the calls, those after the stop, where the loop was when
                     \* the stop was requested, and the time slept

RBvars == <<config, pc, currentBackoff, numRetries, result, stopRequested, tally>>

Configs == [start : Durations, max : Durations, retries : MaxRetries]

RBTypeOK ==
    /\ config \in Configs
    /\ pc \in {"test", "call", "retest", "sleep", "done", "threw"}
    /\ currentBackoff \in 0 .. DurationMax
    /\ numRetries \in 0 .. config.retries
    /\ result \in BOOLEAN \cup {Unset}
    /\ stopRequested \in BOOLEAN
    /\ tally \in [calls : Nat, late : Nat, slept : Nat,
                 stopAt : {"none", "test", "call", "retest", "sleep"}]

RBInit ==
    /\ config \in Configs
    /\ pc = "test"
    /\ currentBackoff = config.start
    /\ numRetries = 0
    /\ result = Unset
    /\ stopRequested = FALSE
    /\ tally = [calls |-> 0, late |-> 0, slept |-> 0, stopAt |-> "none"]

(* Mutant: <= in place of <. *)
LoopTestInclusive ==
    /\ pc = "test"
    /\ pc' = IF ~stopRequested /\ numRetries <= config.retries THEN "call" ELSE "done"
    /\ UNCHANGED <<config, currentBackoff, numRetries, result, stopRequested, tally>>

LoopTest ==
    /\ pc = "test"
    /\ pc' = IF ~stopRequested /\ numRetries < config.retries THEN "call" ELSE "done"
    /\ UNCHANGED <<config, currentBackoff, numRetries, result, stopRequested, tally>>

(* result = retryable(); a result that converts to true ends the loop *)
CallRetryable ==
    /\ pc = "call"
    /\ \E r \in BOOLEAN : result' = r /\ pc' = IF r THEN "done" ELSE "retest"
    /\ tally' = [tally EXCEPT !.calls = @ + 1, !.late = @ + (IF stopRequested THEN 1 ELSE 0)]
    /\ UNCHANGED <<config, currentBackoff, numRetries, stopRequested>>

(* retryable throws; the exception leaves ExponentialBackoff. *)
CallThrows ==
    /\ pc = "call"
    /\ pc' = "threw"
    /\ tally' = [tally EXCEPT !.calls = @ + 1, !.late = @ + (IF stopRequested THEN 1 ELSE 0)]
    /\ UNCHANGED <<config, currentBackoff, numRetries, result, stopRequested>>

Retest ==
    /\ pc = "retest"
    /\ pc' = IF stopRequested THEN "done" ELSE "sleep"
    /\ UNCHANGED <<config, currentBackoff, numRetries, result, stopRequested, tally>>

(* Mutant: the cap is compared before the doubling. *)
NextBackoffLate(d) == IF d > config.max THEN config.max ELSE d * 2

NextBackoff(d) == IF d * 2 > config.max THEN config.max ELSE d * 2

(* Mutant: the loop goes on with the next call. *)
SleepAndCall ==
    /\ pc = "sleep"
    /\ currentBackoff' = NextBackoff(currentBackoff)
    /\ numRetries' = numRetries + 1
    /\ tally' = [tally EXCEPT !.slept = @ + currentBackoff]
    /\ pc' = IF numRetries' < config.retries THEN "call" ELSE "done"
    /\ UNCHANGED <<config, result, stopRequested>>

(* sleep_for(), the doubling, and num_retries++ *)
Sleep ==
    /\ pc = "sleep"
    /\ currentBackoff' = NextBackoff(currentBackoff)
    /\ numRetries' = numRetries + 1
    /\ tally' = [tally EXCEPT !.slept = @ + currentBackoff]
    /\ pc' = "test"
    /\ UNCHANGED <<config, result, stopRequested>>

RequestStop ==
    /\ ~stopRequested /\ pc \notin {"done", "threw"}
    /\ stopRequested' = TRUE
    /\ tally' = [tally EXCEPT !.stopAt = pc]
    /\ UNCHANGED <<config, pc, currentBackoff, numRetries, result>>

LoopStep == LoopTest \/ CallRetryable \/ CallThrows \/ Retest \/ Sleep

RBNext == LoopStep \/ RequestStop

RBSpec == RBInit /\ [][RBNext]_RBvars

-----------------------------------------------------------------------------
(* Properties *)

TwoTo[n \in Nat] == IF n = 0 THEN 1 ELSE 2 * TwoTo[n - 1]

(* The sleep before retry n in closed form: start * 2^n, capped; the first *)
(* one is never capped.                                                    *)
Backoff(n) == IF n = 0 \/ config.start * TwoTo[n] <= config.max THEN config.start * TwoTo[n] ELSE config.max

TotalBackoff[n \in Nat] == IF n = 0 THEN 0 ELSE TotalBackoff[n - 1] + Backoff(n - 1)

(* "max_retries": retryable is called at most max_retries times, less only *)
(* when it succeeded or a stop came, and the time slept is the sum of the  *)
(* capped powers of two.  After the stop was requested, also while the     *)
(* loop sleeps, retryable is not called any more; only a call the loop had *)
(* decided on just before is still made, once.                             *)
RetriesAreBounded ==
    /\ tally.calls <= config.retries
    /\ tally.slept = TotalBackoff[numRetries]
    /\ pc = "done" /\ result # TRUE /\ ~stopRequested => tally.calls = config.retries
    /\ pc = "done" /\ result = Unset => tally.calls = 0
    /\ tally.late <= IF tally.stopAt = "call" THEN 1 ELSE 0

(* What makes it inductive: how many calls have been made, and with which  *)
(* result, at each place of the loop; that the next sleep is the one of    *)
(* the closed form; and that after the stop only a call that was decided   *)
(* on before is still to come.                                             *)
RetryInv ==
    /\ RBTypeOK /\ RetriesAreBounded
    /\ currentBackoff = Backoff(numRetries)
    /\ pc = "test" => tally.calls = numRetries
    /\ pc = "call" => tally.calls = numRetries /\ numRetries < config.retries
    /\ pc \in {"retest", "sleep"} => tally.calls = numRetries + 1 /\ numRetries < config.retries /\ result = FALSE
    /\ pc \in {"test", "call", "retest", "sleep"} => result # TRUE
    /\ result = Unset /\ pc # "threw" => tally.calls = 0
    /\ ~stopRequested => tally.late = 0
    /\ stopRequested /\ pc = "call" => tally.stopAt = "call" /\ tally.late = 0
=============================================================================
