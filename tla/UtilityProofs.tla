---------------------------- MODULE UtilityProofs ---------------------------
(***************************************************************************)
(* Theorems about LazyComponent, for any number of threads and throws,     *)
(* about Retry, for any durations and numbers of retries, about            *)
(* ParallelLoop, for any number of workers and blocks and any integers,    *)
(* and about the helpers of Tools, for any texts, arguments and times.     *)
(***************************************************************************)
EXTENDS LazyComponent, Retry, ParallelLoop, Tools,
        SequenceTheorems, WellFoundedInduction, FiniteSetTheorems, TLAPS

-----------------------------------------------------------------------------
(* LazyComponent                                                           *)

InFactory(t) == user[t].pc \in {"factory", "assign"}

(* The flag tells what the calls of the factory have come to, and one      *)
(* thread at a time is in the factory.                                     *)
FlagInv ==
    /\ \A t, u \in Threads : InFactory(t) /\ InFactory(u) => t = u
    /\ \A t \in Threads : InFactory(t) => createdFlag = "running"
    /\ createdFlag = "unset"   => value = Nothing /\ calls = throws
    /\ createdFlag = "running" => value = Nothing /\ calls = throws + 1
    /\ createdFlag = "set"     => value = calls /\ calls = throws + 1
    /\ \A t \in Threads : user[t].pc = "get" \/ user[t].got # Nothing => createdFlag = "set"
    /\ \A t \in Threads : user[t].got # Nothing => user[t].got = value

LazyInv == LCTypeOK /\ FlagInv

LEMMA LazyInvInit == LCInit => LazyInv
BY LazyAssumption DEF LCInit, LazyInv, LCTypeOK, FlagInv, InFactory

(* What GoTo does to the threads. *)
LEMMA GoToProperties ==
    ASSUME LCTypeOK, NEW t \in Threads,
           NEW place \in {"idle", "once", "factory", "assign", "get"}, GoTo(t, place)
    PROVE  /\ user' \in [Threads -> [pc : {"idle", "once", "factory", "assign", "get"},
                                     got : Nat \cup {Nothing}]]
           /\ user'[t].pc = place /\ user'[t].got = user[t].got
           /\ \A u \in Threads \ {t} : user'[u] = user[u]
BY DEF GoTo, LCTypeOK

LEMMA LazyInvNext == LazyInv /\ [LCNext]_LCvars => LazyInv'
<1> SUFFICES ASSUME LazyInv, [LCNext]_LCvars PROVE LazyInv'
    OBVIOUS
<1> USE DEF LazyInv
<1>1. ASSUME NEW t \in Threads, Get(t) PROVE LazyInv'
    <2>1. GoTo(t, "once") /\ user[t].pc = "idle" /\ UNCHANGED <<createdFlag, value, calls, throws>>
        BY <1>1 DEF Get
    <2>2. LCTypeOK'
        BY <2>1, GoToProperties DEF LCTypeOK
    <2>3. FlagInv'
        BY <2>1, GoToProperties DEF FlagInv, InFactory
    <2> QED BY <2>2, <2>3
<1>2. ASSUME NEW t \in Threads, EnterFactory(t) PROVE LazyInv'
    <2>1. /\ GoTo(t, "factory") /\ user[t].pc = "once" /\ UNCHANGED <<value, throws>>
          /\ createdFlag = "unset" /\ createdFlag' = "running" /\ calls' = calls + 1
        BY <1>2 DEF EnterFactory
    <2>2. LCTypeOK'
        BY <2>1, GoToProperties DEF LCTypeOK
    <2>3. FlagInv'
        BY <2>1, GoToProperties DEF FlagInv, InFactory
    <2> QED BY <2>2, <2>3
<1>3. ASSUME NEW t \in Threads, FactoryReturns(t) PROVE LazyInv'
    <2>1. /\ GoTo(t, "assign") /\ user[t].pc = "factory"
          /\ UNCHANGED <<createdFlag, value, calls, throws>>
        BY <1>3 DEF FactoryReturns
    <2>2. LCTypeOK'
        BY <2>1, GoToProperties DEF LCTypeOK
    <2>3. FlagInv'
        BY <2>1, GoToProperties DEF FlagInv, InFactory
    <2> QED BY <2>2, <2>3
<1>4. ASSUME NEW t \in Threads, FactoryThrows(t) PROVE LazyInv'
    <2>1. /\ GoTo(t, "idle") /\ user[t].pc = "factory" /\ throws < MaxThrows
          /\ createdFlag' = "unset" /\ throws' = throws + 1 /\ UNCHANGED <<value, calls>>
        BY <1>4 DEF FactoryThrows
    <2>2. LCTypeOK'
        BY <2>1, GoToProperties, LazyAssumption DEF LCTypeOK
    <2>3. createdFlag = "running" /\ InFactory(t)
        BY <2>1 DEF FlagInv, InFactory
    <2>4. FlagInv'
        BY <2>1, <2>3, GoToProperties DEF FlagInv, InFactory
    <2> QED BY <2>2, <2>4
<1>5. ASSUME NEW t \in Threads, Assign(t) PROVE LazyInv'
    <2>1. /\ GoTo(t, "get") /\ user[t].pc = "assign"
          /\ value' = calls /\ createdFlag' = "set" /\ UNCHANGED <<calls, throws>>
        BY <1>5 DEF Assign
    <2>2. LCTypeOK'
        BY <2>1, GoToProperties DEF LCTypeOK
    <2>3. createdFlag = "running" /\ InFactory(t)
        BY <2>1 DEF FlagInv, InFactory
    <2>4. FlagInv'
        BY <2>1, <2>3, GoToProperties DEF FlagInv, InFactory
    <2> QED BY <2>2, <2>4
<1>6. ASSUME NEW t \in Threads, PassOnce(t) PROVE LazyInv'
    <2>1. /\ GoTo(t, "get") /\ user[t].pc = "once" /\ createdFlag = "set"
          /\ UNCHANGED <<createdFlag, value, calls, throws>>
        BY <1>6 DEF PassOnce
    <2>2. LCTypeOK'
        BY <2>1, GoToProperties DEF LCTypeOK
    <2>3. FlagInv'
        BY <2>1, GoToProperties DEF FlagInv, InFactory
    <2> QED BY <2>2, <2>3
<1>7. ASSUME NEW t \in Threads, ReturnPointer(t) PROVE LazyInv'
    <2>1. /\ user[t].pc = "get" /\ user' = [user EXCEPT ![t] = [pc |-> "idle", got |-> value]]
          /\ UNCHANGED <<createdFlag, value, calls, throws>>
        BY <1>7 DEF ReturnPointer
    <2>2. LCTypeOK'
        BY <2>1 DEF LCTypeOK
    <2>3. FlagInv'
        BY <2>1 DEF FlagInv, InFactory, LCTypeOK
    <2> QED BY <2>2, <2>3
<1>8. CASE UNCHANGED LCvars
    BY <1>8 DEF LCvars, LCTypeOK, FlagInv, InFactory
<1> QED
    BY <1>1, <1>2, <1>3, <1>4, <1>5, <1>6, <1>7, <1>8 DEF LCNext, UserStep

LEMMA LazyInvAlways == LCSpec => []LazyInv
BY LazyInvInit, LazyInvNext, PTL DEF LCSpec

LEMMA LazyInvImpliesOneValue == LazyInv => OneValueForAll
BY LazyAssumption DEF LazyInv, LCTypeOK, FlagInv, OneValueForAll

(* One value is made, by the one call of the factory that does not throw,  *)
(* and every Get() that returns gives a pointer to it: call_once with a    *)
(* factory that throws any number of times, for any number of threads.     *)
THEOREM OneValue == LCSpec => []OneValueForAll
BY LazyInvAlways, LazyInvImpliesOneValue, PTL

-----------------------------------------------------------------------------
(* Natural numbers                                                         *)

(* Induction, as it is used below: a set of counterexamples has a least.   *)
LEMMA LeastElement ==
    ASSUME NEW T, T \subseteq Nat, T # {}
    PROVE  \E x \in T : \A y \in T : x <= y
<1>1. IsWellFoundedOn(OpToRel(<, Nat), Nat)
  BY NatLessThanWellFounded
<1>2. OpToRel(<, Nat) = {ss \in Nat \X Nat : ss[1] < ss[2]}
  BY DEF OpToRel
<1>3. PICK R : R = {ss \in Nat \X Nat : ss[1] < ss[2]}
  OBVIOUS
<1>4. IsWellFoundedOn(R, Nat)
  BY <1>1, <1>2, <1>3, Zenon
<1>5. \E x \in T : \A y \in T : ~ (<<y, x>> \in R)
  BY <1>4, WFMin, Zenon
<1>6. ASSUME NEW x \in Nat, NEW y \in Nat, <<y, x>> \notin R
      PROVE  x <= y
  <2>1. <<y, x>> \in Nat \X Nat /\ <<y, x>>[1] = y /\ <<y, x>>[2] = x
    OBVIOUS
  <2>2. ~(y < x)
    BY <1>3, <1>6, <2>1, Zenon
  <2> QED BY <2>2
<1> QED
  BY <1>5, <1>6

(* A recursive definition over the natural numbers has a solution.         *)
Steps(f, a, step) == f = [n \in Nat |-> IF n = 0 THEN a ELSE step[<<n - 1, f[n - 1]>>]]

LEMMA RecursiveFunction ==
    ASSUME NEW S, NEW a \in S, NEW step \in [Nat \X S -> S]
    PROVE  \E f \in [Nat -> S] : Steps(f, a, step)
<1> DEFINE Upto(n, h) == /\ h \in [0 .. n -> S] /\ h[0] = a
                         /\ \A k \in 0 .. n - 1 : h[k + 1] = step[<<k, h[k]>>]
<1>1. \A n \in Nat : \E h : Upto(n, h)
  <2> DEFINE T == {n \in Nat : ~ \E h : Upto(n, h)}
  <2>1. SUFFICES ASSUME T # {}
                 PROVE  FALSE
        OBVIOUS
  <2>2. PICK n \in T : \A m \in T : n <= m
        BY <2>1, LeastElement
  <2>3. n \in Nat /\ ~ \E h : Upto(n, h)
        OBVIOUS
  <2>4. n # 0
    <3>1. ASSUME n = 0 PROVE FALSE
      <4>1. PICK h : h = [k \in 0 .. 0 |-> a]
            OBVIOUS
      <4>2. h \in [0 .. n -> S] /\ h[0] = a
            BY <3>1, <4>1
      <4>3. Upto(n, h)
            BY <3>1, <4>2
      <4> QED
          BY <2>3, <4>3
    <3> QED BY <3>1
  <2>5. PICK m \in Nat : m + 1 = n
        BY <2>3, <2>4
  <2>6. m \notin T
        BY <2>2, <2>5
  <2>7. PICK h : Upto(m, h)
        BY <2>6
  <2>8. PICK g : g = [k \in 0 .. n |-> IF k = n THEN step[<<m, h[m]>>] ELSE h[k]]
        OBVIOUS
  <2>9. Upto(n, g)
    <3>1. g \in [0 .. n -> S]
          BY <2>5, <2>7, <2>8
    <3>2. g[0] = a
          BY <2>3, <2>4, <2>7, <2>8
    <3>3. ASSUME NEW k \in 0 .. n - 1 PROVE g[k + 1] = step[<<k, g[k]>>]
      <4>1. CASE k = m
        <5>1. m \in 0 .. n /\ m # n /\ n \in 0 .. n
              BY <2>5
        <5>2. g[m] = h[m] /\ g[n] = step[<<m, h[m]>>]
              BY <2>8, <5>1
        <5> QED BY <2>5, <4>1, <5>2
      <4>2. CASE k # m
        <5>1. k \in 0 .. m - 1 /\ k \in 0 .. n /\ k + 1 \in 0 .. n /\ k # n /\ k + 1 # n
              BY <2>5, <4>2
        <5>2. g[k] = h[k] /\ g[k + 1] = h[k + 1]
              BY <2>8, <5>1
        <5>3. \A i \in 0 .. m - 1 : h[i + 1] = step[<<i, h[i]>>]
              BY <2>7
        <5>4. h[k + 1] = step[<<k, h[k]>>]
              BY <5>1, <5>3
        <5> QED BY <5>2, <5>4
      <4> QED BY <4>1, <4>2
    <3> QED BY <3>1, <3>2, <3>3
  <2> QED BY <2>3, <2>9
<1>2. ASSUME NEW n \in Nat, NEW m \in Nat, n <= m, NEW g, NEW h, Upto(n, g), Upto(m, h)
      PROVE  g[n] = h[n]
  <2> DEFINE T == {k \in Nat : k <= n /\ g[k] # h[k]}
  <2>1. SUFFICES ASSUME T # {}
                 PROVE  FALSE
        OBVIOUS
  <2>2. PICK k \in T : \A j \in T : k <= j
        BY <2>1, LeastElement
  <2>3. k \in Nat /\ k <= n /\ g[k] # h[k]
        OBVIOUS
  <2>4. k # 0
        BY <1>2, <2>3
  <2>5. PICK j \in Nat : j + 1 = k
        BY <2>3, <2>4
  <2>6. g[j] = h[j]
        BY <2>2, <2>3, <2>5
  <2>7. j \in 0 .. n - 1 /\ j \in 0 .. m - 1
        BY <1>2, <2>3, <2>5
  <2>8. g[j + 1] = step[<<j, g[j]>>] /\ h[j + 1] = step[<<j, h[j]>>]
        BY <1>2, <2>7
  <2> QED BY <2>3, <2>5, <2>6, <2>8
<1>3. PICK f : f = [n \in Nat |-> (CHOOSE h : Upto(n, h))[n]]
      OBVIOUS
<1> DEFINE H(n) == CHOOSE h : Upto(n, h)
<1>4. \A n \in Nat : Upto(n, H(n)) /\ f[n] = H(n)[n]
      BY <1>1, <1>3
<1> HIDE DEF H
<1>5. f \in [Nat -> S]
  <2>1. \A n \in Nat : H(n)[n] \in S
        BY <1>4
  <2> QED BY <1>3, <1>4, <2>1
<1>6. f[0] = a
      BY <1>4
<1>7. ASSUME NEW n \in Nat
      PROVE  f[n + 1] = step[<<n, f[n]>>]
  <2>1. n + 1 \in Nat /\ n <= n + 1 /\ n \in 0 .. (n + 1) - 1
        OBVIOUS
  <2>2. Upto(n, H(n)) /\ Upto(n + 1, H(n + 1)) /\ f[n] = H(n)[n] /\ f[n + 1] = H(n + 1)[n + 1]
        BY <1>4, <2>1
  <2>3. H(n + 1)[n + 1] = step[<<n, H(n + 1)[n]>>]
        BY <2>1, <2>2
  <2>4. H(n)[n] = H(n + 1)[n]
    <3> HIDE DEF Upto
    <3> QED BY <1>2, <2>1, <2>2
  <2> QED BY <2>2, <2>3, <2>4
<1>8. ASSUME NEW n \in Nat
      PROVE  f[n] = IF n = 0 THEN a ELSE step[<<n - 1, f[n - 1]>>]
  <2>1. CASE n = 0
        BY <1>6, <2>1
  <2>2. CASE n # 0
    <3>1. PICK m \in Nat : m + 1 = n
          BY <2>2
    <3>2. n - 1 = m
          BY <3>1
    <3> QED BY <1>7, <2>2, <3>1, <3>2
  <2> QED BY <2>1, <2>2
<1>9. f = [n \in Nat |-> IF n = 0 THEN a ELSE step[<<n - 1, f[n - 1]>>]]
  <2>1. f = [n \in Nat |-> f[n]]
        BY <1>5
  <2> QED BY <1>8, <2>1
<1> QED BY <1>5, <1>9 DEF Steps

-----------------------------------------------------------------------------
(* Retry                                                                   *)

LEMMA PowersOfTwo ==
    /\ TwoTo[0] = 1
    /\ \A n \in Nat : TwoTo[n] \in Nat /\ TwoTo[n + 1] = 2 * TwoTo[n]
  <1>1. PICK step : step = [p \in Nat \X Nat |-> 2 * p[2]]
        OBVIOUS
  <1>2. step \in [Nat \X Nat -> Nat] /\ \A n, x \in Nat : step[<<n, x>>] = 2 * x
        BY <1>1
  <1>3. PICK f \in [Nat -> Nat] : Steps(f, 1, step)
    <2>1. step \in [Nat \X Nat -> Nat] /\ 1 \in Nat
          BY <1>2
    <2> QED
        BY <2>1, RecursiveFunction
  <1>4. \A n \in Nat : n # 0 => step[<<n - 1, f[n - 1]>>] = 2 * f[n - 1]
        BY <1>2
  <1>5. f = [n \in Nat |-> IF n = 0 THEN 1 ELSE 2 * f[n - 1]]
        BY <1>3, <1>4 DEF Steps
  <1>6. TwoTo = [n \in Nat |-> IF n = 0 THEN 1 ELSE 2 * TwoTo[n - 1]]
    <2> DEFINE Def(g) == g = [n \in Nat |-> IF n = 0 THEN 1 ELSE 2 * g[n - 1]]
    <2>1. Def(f)
          BY <1>5
    <2>2. TwoTo = CHOOSE g : Def(g)
          BY DEF TwoTo
    <2> HIDE DEF Def
    <2>3. Def(TwoTo)
          BY <2>1, <2>2
    <2> QED
        BY <2>3 DEF Def
  <1>7. TwoTo[0] = 1 /\ \A n \in Nat : TwoTo[n + 1] = 2 * TwoTo[n]
    <2>1. \A n \in Nat : TwoTo[n] = IF n = 0 THEN 1 ELSE 2 * TwoTo[n - 1]
      <3>1. PICK g : g = TwoTo
            OBVIOUS
      <3>2. g = [n \in Nat |-> IF n = 0 THEN 1 ELSE 2 * g[n - 1]]
            BY <1>6, <3>1
      <3> QED
          BY <3>1, <3>2
    <2> QED
        BY <2>1
  <1>8. ASSUME {n \in Nat : TwoTo[n] \notin Nat} # {}
        PROVE  FALSE
    <2>1. PICK n \in {m \in Nat : TwoTo[m] \notin Nat} : \A m \in {k \in Nat : TwoTo[k] \notin Nat} : n <= m
          BY <1>8, LeastElement
    <2>2. n # 0
          BY <1>7, <2>1
    <2>3. PICK m \in Nat : m + 1 = n
          BY <2>1, <2>2
    <2>4. TwoTo[m] \in Nat
          BY <2>1, <2>3
    <2> QED
        BY <1>7, <2>1, <2>3, <2>4
  <1> QED
      BY <1>7, <1>8

LEMMA BackoffValues ==
    ASSUME RBTypeOK
    PROVE  /\ Backoff(0) = config.start
           /\ \A n \in Nat : /\ Backoff(n) \in 0 .. DurationMax
                             /\ Backoff(n + 1) = NextBackoff(Backoff(n))
  <1>1. /\ config.start \in Nat /\ config.max \in Nat
        /\ 2 * config.start <= DurationMax /\ 2 * config.max <= DurationMax /\ DurationMax \in Nat
        BY RetryAssumption DEF RBTypeOK, Configs
  <1>2. Backoff(0) = config.start
        BY <1>1, PowersOfTwo DEF Backoff
  <1>3. ASSUME NEW n \in Nat
        PROVE  /\ Backoff(n) \in 0 .. DurationMax
               /\ Backoff(n + 1) = NextBackoff(Backoff(n))
    <2>1. PICK d : d = config.start * TwoTo[n]
          OBVIOUS
    <2>2. d \in Nat /\ config.start * TwoTo[n + 1] = 2 * d /\ n + 1 # 0
      <3>1. TwoTo[n] \in Nat /\ TwoTo[n + 1] = 2 * TwoTo[n]
            BY PowersOfTwo
      <3> QED
          BY <1>1, <2>1, <3>1
    <2>3. Backoff(n) = IF n = 0 \/ d <= config.max THEN d ELSE config.max
          BY <2>1 DEF Backoff
    <2>4. Backoff(n + 1) = IF 2 * d <= config.max THEN 2 * d ELSE config.max
          BY <2>2 DEF Backoff
    <2>5. n = 0 => d = config.start
          BY <1>1, <2>1, PowersOfTwo
    <2> QED
        BY <1>1, <2>2, <2>3, <2>4, <2>5 DEF NextBackoff
  <1> QED
      BY <1>2, <1>3

LEMMA TotalBackoffSums ==
    ASSUME RBTypeOK
    PROVE  /\ TotalBackoff[0] = 0
           /\ \A n \in Nat : TotalBackoff[n] \in Nat /\ TotalBackoff[n + 1] = TotalBackoff[n] + Backoff(n)
  <1>1. \A n \in Nat : Backoff(n) \in Nat
        BY BackoffValues, RetryAssumption
  <1>2. PICK step : step = [p \in Nat \X Nat |-> p[2] + Backoff(p[1])]
        OBVIOUS
  <1>3. step \in [Nat \X Nat -> Nat] /\ \A n, x \in Nat : step[<<n, x>>] = x + Backoff(n)
        BY <1>1, <1>2
  <1>4. PICK f \in [Nat -> Nat] : Steps(f, 0, step)
    <2>1. step \in [Nat \X Nat -> Nat] /\ 0 \in Nat
          BY <1>3
    <2> QED
        BY <2>1, RecursiveFunction
  <1>5. \A n \in Nat : n # 0 => step[<<n - 1, f[n - 1]>>] = f[n - 1] + Backoff(n - 1)
        BY <1>3
  <1>6. f = [n \in Nat |-> IF n = 0 THEN 0 ELSE f[n - 1] + Backoff(n - 1)]
        BY <1>4, <1>5 DEF Steps
  <1>7. TotalBackoff = [n \in Nat |-> IF n = 0 THEN 0 ELSE TotalBackoff[n - 1] + Backoff(n - 1)]
    <2> DEFINE Def(g) == g = [n \in Nat |-> IF n = 0 THEN 0 ELSE g[n - 1] + Backoff(n - 1)]
    <2>1. Def(f)
          BY <1>6
    <2>2. TotalBackoff = CHOOSE g : Def(g)
          BY DEF TotalBackoff
    <2> HIDE DEF Def
    <2>3. Def(TotalBackoff)
          BY <2>1, <2>2
    <2> QED
        BY <2>3 DEF Def
  <1>8. TotalBackoff[0] = 0 /\ \A n \in Nat : TotalBackoff[n + 1] = TotalBackoff[n] + Backoff(n)
    <2>1. \A n \in Nat : TotalBackoff[n] = IF n = 0 THEN 0 ELSE TotalBackoff[n - 1] + Backoff(n - 1)
      <3>1. PICK g : g = TotalBackoff
            OBVIOUS
      <3>2. g = [n \in Nat |-> IF n = 0 THEN 0 ELSE g[n - 1] + Backoff(n - 1)]
            BY <1>7, <3>1
      <3> QED
          BY <3>1, <3>2
    <2>2. ASSUME NEW n \in Nat
          PROVE  TotalBackoff[n + 1] = TotalBackoff[n] + Backoff(n)
      <3>1. n + 1 \in Nat /\ n + 1 # 0 /\ (n + 1) - 1 = n
            OBVIOUS
      <3>2. TotalBackoff[n + 1] = TotalBackoff[(n + 1) - 1] + Backoff((n + 1) - 1)
            BY <2>1, <3>1, Zenon
      <3> QED
          BY <3>1, <3>2
    <2> QED
        BY <2>1, <2>2
  <1>9. ASSUME {n \in Nat : TotalBackoff[n] \notin Nat} # {}
        PROVE  FALSE
    <2>1. PICK n \in {m \in Nat : TotalBackoff[m] \notin Nat} :
             \A m \in {k \in Nat : TotalBackoff[k] \notin Nat} : n <= m
          BY <1>9, LeastElement
    <2>2. n # 0
          BY <1>8, <2>1
    <2>3. PICK m \in Nat : m + 1 = n
          BY <2>1, <2>2
    <2>4. TotalBackoff[m] \in Nat
          BY <2>1, <2>3
    <2> QED
        BY <1>1, <1>8, <2>1, <2>3, <2>4
  <1> QED
      BY <1>8, <1>9

Tallies == [calls : Nat, late : Nat, slept : Nat, stopAt : {"none", "test", "call", "retest", "sleep"}]

LEMMA RetryInit == RBInit => RetryInv
  <1> SUFFICES ASSUME RBInit
               PROVE  RetryInv
      OBVIOUS
  <1> USE RetryAssumption DEF RBInit
  <1>1. /\ config \in Configs /\ config.start \in Durations /\ config.retries \in Nat
        /\ config.start \in Nat /\ 2 * config.start <= DurationMax
        BY DEF Configs
  <1>2. tally \in Tallies
        BY DEF Tallies
  <1>3. RBTypeOK
    <2>1. numRetries \in 0 .. config.retries /\ currentBackoff \in 0 .. DurationMax
          BY <1>1
    <2>2. result \in BOOLEAN \cup {Unset} /\ stopRequested \in BOOLEAN
          /\ pc \in {"test", "call", "retest", "sleep", "done", "threw"}
          OBVIOUS
    <2> QED
        BY <1>1, <1>2, <2>1, <2>2 DEF RBTypeOK, Tallies
  <1>4. currentBackoff = Backoff(numRetries) /\ tally.slept = TotalBackoff[numRetries]
        BY <1>3, BackoffValues, TotalBackoffSums
  <1>5. RetriesAreBounded
        BY <1>1, <1>4 DEF RetriesAreBounded
  <1> QED
      BY <1>3, <1>4, <1>5 DEF RetryInv

(* The closed forms speak of the configuration only. *)
LEMMA SameBackoff ==
    ASSUME UNCHANGED config
    PROVE  TotalBackoff' = TotalBackoff /\ \A n \in Nat : Backoff(n)' = Backoff(n)
  BY DEF TotalBackoff, Backoff

LEMMA RetryStep == RetryInv /\ [RBNext]_RBvars => RetryInv'
  <1> SUFFICES ASSUME RetryInv, [RBNext]_RBvars
               PROVE  RetryInv'
      OBVIOUS
  <1> USE RetryAssumption
  <1>1. /\ config \in Configs /\ config.retries \in Nat
        /\ pc \in {"test", "call", "retest", "sleep", "done", "threw"}
        /\ currentBackoff \in 0 .. DurationMax /\ numRetries \in 0 .. config.retries
        /\ result \in BOOLEAN \cup {Unset} /\ stopRequested \in BOOLEAN /\ tally \in Tallies
        BY DEF RetryInv, RBTypeOK, Configs, Tallies
  <1>2. /\ tally.calls \in Nat /\ tally.late \in Nat /\ tally.slept \in Nat
        /\ tally.stopAt \in {"none", "test", "call", "retest", "sleep"}
        BY <1>1 DEF Tallies
  <1>3. /\ tally.calls <= config.retries
        /\ tally.slept = TotalBackoff[numRetries]
        /\ pc = "done" /\ result # TRUE /\ ~stopRequested => tally.calls = config.retries
        /\ pc = "done" /\ result = Unset => tally.calls = 0
        /\ tally.late <= IF tally.stopAt = "call" THEN 1 ELSE 0
        /\ currentBackoff = Backoff(numRetries)
        /\ pc = "test" => tally.calls = numRetries
        /\ pc = "call" => tally.calls = numRetries /\ numRetries < config.retries
        /\ pc \in {"retest", "sleep"} => tally.calls = numRetries + 1 /\ numRetries < config.retries /\ result = FALSE
        /\ pc \in {"test", "call", "retest", "sleep"} => result # TRUE
        /\ result = Unset /\ pc # "threw" => tally.calls = 0
        /\ ~stopRequested => tally.late = 0
        /\ stopRequested /\ pc = "call" => tally.stopAt = "call" /\ tally.late = 0
        BY DEF RetryInv, RetriesAreBounded
  <1>4. config' = config
        BY DEF RBNext, LoopStep, LoopTest, CallRetryable, CallThrows, Retest, Sleep, RequestStop, RBvars
  <1>5. TotalBackoff' = TotalBackoff /\ \A n \in Nat : Backoff(n)' = Backoff(n)
        BY <1>4, SameBackoff
  <1>6. ASSUME numRetries' = numRetries /\ currentBackoff' = currentBackoff
        PROVE  currentBackoff' = Backoff(numRetries)' /\ TotalBackoff[numRetries]' = TotalBackoff[numRetries]
    <2>1. Backoff(numRetries)' = Backoff(numRetries)
          BY <1>4, <1>6 DEF Backoff
    <2> QED
        BY <1>3, <1>5, <1>6, <2>1
  <1>7. CASE LoopTest
    <2>1. /\ pc = "test" /\ pc' = (IF ~stopRequested /\ numRetries < config.retries THEN "call" ELSE "done")
          /\ UNCHANGED <<config, currentBackoff, numRetries, result, stopRequested, tally>>
          BY <1>7 DEF LoopTest
    <2>2. RBTypeOK'
          BY <1>1, <2>1 DEF RBTypeOK, Tallies
    <2>3. RetriesAreBounded'
      <3>1. tally'.slept = TotalBackoff[numRetries]' /\ tally' = tally
            BY <1>3, <1>6, <2>1
      <3> QED
          <4>1. pc' = "done" /\ result' # TRUE /\ ~stopRequested' => tally'.calls = config'.retries
                BY <1>1, <1>3, <2>1, <3>1
          <4>2. tally'.calls <= config'.retries /\ tally'.late <= IF tally'.stopAt = "call" THEN 1 ELSE 0
                BY <1>3, <2>1, <3>1
          <4>3. pc' = "done" /\ result' = Unset => tally'.calls = 0
                BY <1>3, <2>1, <3>1
          <4> QED
              BY <3>1, <4>1, <4>2, <4>3 DEF RetriesAreBounded
    <2> QED
        BY <1>1, <1>2, <1>3, <1>6, <2>1, <2>2, <2>3 DEF RetryInv
  <1>8. CASE CallRetryable \/ CallThrows
    <2>1. /\ pc = "call" /\ UNCHANGED <<config, currentBackoff, numRetries, stopRequested>>
          /\ \/ result' \in BOOLEAN /\ pc' = (IF result' THEN "done" ELSE "retest")
             \/ result' = result /\ pc' = "threw"
          /\ tally' = [tally EXCEPT !.calls = @ + 1, !.late = @ + (IF stopRequested THEN 1 ELSE 0)]
          BY <1>8 DEF CallRetryable, CallThrows
    <2>2. /\ tally'.calls = tally.calls + 1 /\ tally'.late = tally.late + (IF stopRequested THEN 1 ELSE 0)
          /\ tally'.slept = tally.slept /\ tally'.stopAt = tally.stopAt /\ tally' \in Tallies
      <3>1. PICK n : n = IF stopRequested THEN 1 ELSE 0
            OBVIOUS
      <3>2. n \in Nat /\ tally' = [tally EXCEPT !.calls = @ + 1, !.late = @ + n]
            BY <2>1, <3>1
      <3>3. tally \in Tallies
            BY <1>1
      <3>4. tally' \in Tallies
        <4>1. tally.calls + 1 \in Nat /\ tally.late + n \in Nat
              BY <1>2, <3>2
        <4>2. PICK x \in Nat : x = tally.calls + 1
              BY <4>1
        <4>3. PICK y \in Nat : y = tally.late + n
              BY <4>1
        <4>4. tally' = [tally EXCEPT !.calls = x, !.late = y]
              BY <3>2, <4>2, <4>3
        <4> QED
            BY <3>3, <4>4 DEF Tallies
      <3>5. /\ tally'.calls = tally.calls + 1 /\ tally'.late = tally.late + n
            /\ tally'.slept = tally.slept /\ tally'.stopAt = tally.stopAt
            BY <3>2, <3>3 DEF Tallies
      <3> QED
          BY <3>1, <3>4, <3>5
    <2>3. RBTypeOK'
          BY <1>1, <2>1, <2>2 DEF RBTypeOK, Tallies
    <2>4. tally.late = 0 /\ (stopRequested => tally.stopAt = "call")
          BY <1>1, <1>3, <2>1
    <2>5. RetriesAreBounded'
      <3>1. tally'.slept = TotalBackoff[numRetries]'
            BY <1>3, <1>6, <2>1, <2>2
      <3>2. tally'.calls <= config.retries /\ config'.retries = config.retries
            BY <1>1, <1>2, <1>3, <2>1, <2>2
      <3>3. tally'.late <= IF tally'.stopAt = "call" THEN 1 ELSE 0
            BY <1>1, <1>2, <2>2, <2>4
      <3>4. pc' = "done" => result' = TRUE
            BY <2>1
      <3> QED
          BY <1>4, <2>1, <3>1, <3>2, <3>3, <3>4 DEF RetriesAreBounded
    <2> QED
      <3>1. currentBackoff' = Backoff(numRetries)'
            BY <1>6, <2>1
      <3>2. pc' \in {"done", "retest", "threw"} /\ (pc' = "retest" => result' = FALSE)
            BY <2>1
      <3>3. tally'.calls = numRetries' + 1 /\ numRetries' < config'.retries
            BY <1>3, <2>1, <2>2
      <3>4. result' = Unset /\ pc' # "threw" => tally'.calls = 0
            BY <2>1, RetryAssumption
      <3>5. ~stopRequested' => tally'.late = 0
            BY <1>1, <2>1, <2>2, <2>4
      <3> QED
          BY <2>3, <2>5, <3>1, <3>2, <3>3, <3>4, <3>5 DEF RetryInv
  <1>9. CASE Retest
    <2>1. /\ pc = "retest" /\ pc' = (IF stopRequested THEN "done" ELSE "sleep")
          /\ UNCHANGED <<config, currentBackoff, numRetries, result, stopRequested, tally>>
          BY <1>9 DEF Retest
    <2>2. RBTypeOK'
          BY <1>1, <2>1 DEF RBTypeOK, Tallies
    <2>3. RetriesAreBounded'
      <3>1. tally'.slept = TotalBackoff[numRetries]' /\ tally' = tally
            BY <1>3, <1>6, <2>1
      <3> QED
          BY <1>1, <1>2, <1>3, <2>1, <3>1 DEF RetriesAreBounded
    <2> QED
        BY <1>1, <1>2, <1>3, <1>6, <2>1, <2>2, <2>3 DEF RetryInv
  <1>10. CASE Sleep
    <2>1. /\ pc = "sleep" /\ pc' = "test" /\ currentBackoff' = NextBackoff(currentBackoff)
          /\ numRetries' = numRetries + 1 /\ tally' = [tally EXCEPT !.slept = @ + currentBackoff]
          /\ UNCHANGED <<config, result, stopRequested>>
          BY <1>10 DEF Sleep
    <2>2. /\ tally'.calls = tally.calls /\ tally'.late = tally.late
          /\ tally'.slept = tally.slept + currentBackoff /\ tally'.stopAt = tally.stopAt /\ tally' \in Tallies
          BY <1>1, <2>1 DEF Tallies
    <2>3. numRetries \in Nat /\ numRetries + 1 \in 0 .. config.retries
          BY <1>1, <1>3, <2>1
    <2>4. Backoff(numRetries + 1) = NextBackoff(Backoff(numRetries)) /\ Backoff(numRetries + 1) \in 0 .. DurationMax
          BY <2>3, BackoffValues DEF RetryInv
    <2>5. currentBackoff' = Backoff(numRetries)' /\ currentBackoff' \in 0 .. DurationMax
          BY <1>3, <1>4, <2>1, <2>4 DEF Backoff
    <2>6. TotalBackoff[numRetries]' = TotalBackoff[numRetries] + Backoff(numRetries)
      <3>1. TotalBackoff[numRetries + 1] = TotalBackoff[numRetries] + Backoff(numRetries)
            BY <2>3, TotalBackoffSums DEF RetryInv
      <3> QED
          BY <1>5, <2>1, <3>1
    <2>7. tally'.slept = TotalBackoff[numRetries]'
          BY <1>3, <2>2, <2>6
    <2>8. RBTypeOK'
          BY <1>1, <2>1, <2>2, <2>3, <2>5 DEF RBTypeOK, Tallies
    <2>9. RetriesAreBounded'
          BY <1>1, <1>2, <1>3, <2>1, <2>2, <2>3, <2>7 DEF RetriesAreBounded
    <2> QED
        BY <1>1, <1>2, <1>3, <2>1, <2>2, <2>3, <2>5, <2>8, <2>9 DEF RetryInv
  <1>11. CASE RequestStop
    <2>1. /\ ~stopRequested /\ pc \notin {"done", "threw"} /\ stopRequested' = TRUE
          /\ tally' = [tally EXCEPT !.stopAt = pc]
          /\ UNCHANGED <<config, pc, currentBackoff, numRetries, result>>
          BY <1>11 DEF RequestStop
    <2>2. /\ tally'.calls = tally.calls /\ tally'.late = tally.late
          /\ tally'.slept = tally.slept /\ tally'.stopAt = pc /\ tally' \in Tallies
          BY <1>1, <2>1 DEF Tallies
    <2>3. RBTypeOK'
          BY <1>1, <2>1, <2>2 DEF RBTypeOK, Tallies
    <2>4. RetriesAreBounded'
          BY <1>1, <1>2, <1>3, <1>6, <2>1, <2>2 DEF RetriesAreBounded
    <2> QED
        BY <1>1, <1>2, <1>3, <1>6, <2>1, <2>2, <2>3, <2>4 DEF RetryInv
  <1>12. CASE UNCHANGED RBvars
    <2>1. UNCHANGED <<config, pc, currentBackoff, numRetries, result, stopRequested, tally>>
          BY <1>12 DEF RBvars
    <2>2. RBTypeOK'
          BY <1>1, <2>1 DEF RBTypeOK, Tallies
    <2>3. RetriesAreBounded'
          BY <1>3, <1>6, <2>1 DEF RetriesAreBounded
    <2> QED
        BY <1>3, <1>6, <2>1, <2>2, <2>3 DEF RetryInv
  <1> QED
      BY <1>7, <1>8, <1>9, <1>10, <1>11, <1>12 DEF RBNext, LoopStep

(* In every reachable state of ExponentialBackoff RetryInv holds.          *)
THEOREM RetryInvHolds == RBSpec => []RetryInv
  <1> QED
      BY RetryInit, RetryStep, PTL DEF RBSpec

(* Whatever the results and whenever the stop comes, retryable is called   *)
(* at most max_retries times and never after the stop but for one call     *)
(* that was decided on, and the time slept is the sum of the capped powers *)
(* of two: for every configuration that does not overflow.                 *)
THEOREM RetriesBounded == RBSpec => []RetriesAreBounded
  <1>1. RetryInv => RetriesAreBounded
        BY DEF RetryInv
  <1> QED
      BY <1>1, RetryInvHolds, PTL

-----------------------------------------------------------------------------
(* The class blocks                                                        *)

LEMMA DivisionProperties ==
    ASSUME NEW d \in Nat, NEW n \in Nat \ {0}, n <= d
    PROVE  /\ d \div n \in Nat \ {0} /\ d % n \in 0 .. n - 1
           /\ d = n * (d \div n) + (d % n)
  <1>1. d \div n \in Nat
        OBVIOUS
  <1>2. d % n \in 0 .. n - 1
        OBVIOUS
  <1>3. d = n * (d \div n) + (d % n)
        OBVIOUS
  <1>4. d \div n # 0
    <2>1. d \div n = 0 => n * (d \div n) = 0
          OBVIOUS
    <2> QED
        BY <1>2, <1>3, <2>1
  <1> QED
      BY <1>1, <1>2, <1>3, <1>4

(* Where the blocks of a range begin and end: one after the other, none is *)
(* empty, and the larger ones first.                                       *)
LEMMA BlockBounds ==
    ASSUME NEW lo \in Int, NEW hi \in Int, lo < hi, NEW parts \in Nat \ {0}
    PROVE  LET n == NumBlocks(lo, hi, parts)
               q == BlockSize(lo, hi, parts)
               r == Remainder(lo, hi, parts)
           IN  /\ n \in Nat \ {0} /\ q \in Nat \ {0} /\ r \in 0 .. n - 1
               /\ \A b \in 0 .. n - 1 :
                     /\ BlockStart(lo, hi, parts, b) \in Int /\ BlockEnd(lo, hi, parts, b) \in Int
                     /\ BlockEnd(lo, hi, parts, b) =
                           BlockStart(lo, hi, parts, b) + (IF b < r THEN q + 1 ELSE q)
               /\ \A b \in 0 .. n - 2 : BlockStart(lo, hi, parts, b + 1) = BlockEnd(lo, hi, parts, b)
               /\ BlockStart(lo, hi, parts, 0) = lo /\ BlockEnd(lo, hi, parts, n - 1) = hi
               /\ \A b, c \in 0 .. n - 1 : b < c => BlockEnd(lo, hi, parts, b) <= BlockStart(lo, hi, parts, c)
  <1> DEFINE n == NumBlocks(lo, hi, parts)
             q == BlockSize(lo, hi, parts)
             r == Remainder(lo, hi, parts)
             Larger(b) == IF b < r THEN b ELSE r
             Start(b) == BlockStart(lo, hi, parts, b)
             End(b) == BlockEnd(lo, hi, parts, b)
  <1>1. n \in Nat \ {0} /\ n <= hi - lo
        BY DEF NumBlocks
  <1>2. q = (hi - lo) \div n /\ r = (hi - lo) % n
        BY DEF BlockSize, Remainder
  <1>3. hi - lo \in Nat
        OBVIOUS
  <1>4. q \in Nat \ {0} /\ r \in 0 .. n - 1 /\ hi - lo = n * q + r
    <2> HIDE DEF n, q, r
    <2> QED
        BY <1>1, <1>2, <1>3, DivisionProperties
  <1>5. \A b : Start(b) = lo + b * q + Larger(b)
        BY DEF BlockStart
  <1>6. \A b \in 0 .. n - 1 : End(b) = IF b = n - 1 THEN hi ELSE Start(b + 1)
        BY DEF BlockEnd
  <1> HIDE DEF n, q, r, Start, End
  <1>7. \A b \in Nat : (b + 1) * q = b * q + q /\ b * q \in Nat
        BY <1>4
  <1>8. \A b \in 0 .. n : Start(b) \in Int
        BY <1>1, <1>4, <1>5, <1>7
  <1>9. Start(n) = hi
        BY <1>1, <1>4, <1>5
  <1>10. \A b \in 0 .. n - 1 : End(b) = Start(b + 1)
        BY <1>1, <1>6, <1>9
  <1>11. ASSUME NEW b \in 0 .. n - 1
         PROVE  Start(b + 1) = Start(b) + (IF b < r THEN q + 1 ELSE q)
    <2>1. Larger(b + 1) = Larger(b) + (IF b < r THEN 1 ELSE 0)
          BY <1>1, <1>4
    <2>2. Start(b + 1) = lo + (b * q + q) + Larger(b + 1)
          BY <1>1, <1>5, <1>7
    <2>3. Start(b) = lo + b * q + Larger(b) /\ b * q \in Nat /\ Larger(b) \in Int
      <3>1. b \in Nat /\ Larger(b) \in Int
            BY <1>1, <1>4
      <3> QED
          BY <1>5, <1>7, <3>1
    <2> QED
        BY <1>4, <2>1, <2>2, <2>3
  <1>12. Start(0) = lo
        BY <1>1, <1>4, <1>5
  <1>13. ASSUME NEW b \in 0 .. n - 1, NEW c \in 0 .. n - 1, b < c
         PROVE  End(b) <= Start(c)
    <2>1. (b + 1) * q <= c * q
      <3>1. PICK k \in Nat : c = b + 1 + k
        <4>1. c - b - 1 \in Nat /\ c = b + 1 + (c - b - 1)
              BY <1>1, <1>13
        <4> QED
            BY <4>1
      <3>2. c * q = (b + 1) * q + k * q /\ k * q \in Nat /\ (b + 1) * q \in Nat
            BY <1>1, <1>4, <3>1
      <3> QED
          BY <3>2
    <2>2. Larger(b + 1) <= Larger(c)
          BY <1>1, <1>4, <1>13
    <2>3. (b + 1) * q \in Nat /\ c * q \in Nat /\ Larger(b + 1) \in Int /\ Larger(c) \in Int
          BY <1>1, <1>4
    <2>4. End(b) = lo + (b + 1) * q + Larger(b + 1) /\ Start(c) = lo + c * q + Larger(c)
          BY <1>5, <1>10
    <2>5. PICK x \in Nat : x = (b + 1) * q
          BY <2>3
    <2>6. PICK y \in Nat : y = c * q
          BY <2>3
    <2>7. PICK j \in Int : j = Larger(b + 1)
          BY <2>3
    <2>8. PICK k \in Int : k = Larger(c)
          BY <2>3
    <2> HIDE DEF Larger
    <2>9. End(b) = lo + x + j /\ Start(c) = lo + y + k /\ x <= y /\ j <= k
          BY <2>1, <2>2, <2>4, <2>5, <2>6, <2>7, <2>8
    <2> QED
        BY <2>9
  <1>14. /\ n \in Nat \ {0} /\ q \in Nat \ {0} /\ r \in 0 .. n - 1
         /\ \A b \in 0 .. n - 1 : /\ Start(b) \in Int /\ End(b) \in Int
                                  /\ End(b) = Start(b) + (IF b < r THEN q + 1 ELSE q)
         /\ \A b \in 0 .. n - 2 : Start(b + 1) = End(b)
         /\ Start(0) = lo /\ End(n - 1) = hi
         /\ \A b, c \in 0 .. n - 1 : b < c => End(b) <= Start(c)
        BY <1>1, <1>4, <1>8, <1>9, <1>10, <1>11, <1>12, <1>13
  <1> QED
      BY <1>14 DEF n, q, r, Start, End

LEMMA BlocksPartition ==
    ASSUME NEW lo \in Int, NEW hi \in Int, lo < hi, NEW parts \in Nat \ {0}
    PROVE  IsPartition(lo, hi, parts)
  <1> DEFINE n == NumBlocks(lo, hi, parts)
             q == BlockSize(lo, hi, parts)
             r == Remainder(lo, hi, parts)
             Start(b) == BlockStart(lo, hi, parts, b)
             End(b) == BlockEnd(lo, hi, parts, b)
  <1>1. /\ n \in Nat \ {0} /\ q \in Nat \ {0} /\ r \in 0 .. n - 1
        /\ \A b \in 0 .. n - 1 : /\ Start(b) \in Int /\ End(b) \in Int
                                 /\ End(b) = Start(b) + (IF b < r THEN q + 1 ELSE q)
        /\ \A b \in 0 .. n - 2 : Start(b + 1) = End(b)
        /\ Start(0) = lo /\ End(n - 1) = hi
        /\ \A b, c \in 0 .. n - 1 : b < c => End(b) <= Start(c)
        BY BlockBounds
  <1> HIDE DEF n, q, r, Start, End
  <1>2. ASSUME NEW i \in lo .. hi - 1
        PROVE  \E b \in 0 .. n - 1 : /\ i \in Start(b) .. End(b) - 1
                                     /\ \A c \in (0 .. n - 1) \ {b} : i \notin Start(c) .. End(c) - 1
    <2> DEFINE T == {b \in 0 .. n - 1 : i < End(b)}
    <2>1. T # {} /\ T \subseteq Nat
      <3>1. n - 1 \in T
            BY <1>1
      <3> QED
          BY <1>1, <3>1
    <2>2. PICK b \in T : \A c \in T : b <= c
      <3> HIDE DEF T
      <3> QED
          BY <2>1, LeastElement
    <2>3. b \in 0 .. n - 1 /\ i < End(b)
          OBVIOUS
    <2>4. Start(b) <= i
      <3>1. CASE b = 0
            BY <1>1, <3>1
      <3>2. CASE b # 0
        <4>1. b - 1 \in 0 .. n - 2 /\ b - 1 \in 0 .. n - 1 /\ (b - 1) + 1 = b /\ ~(b <= b - 1)
              BY <1>1, <2>3, <3>2
        <4>2. End(b - 1) <= i
              BY <1>1, <2>2, <4>1
        <4> QED
            BY <1>1, <4>1, <4>2
      <3> QED
          BY <3>1, <3>2
    <2>5. ASSUME NEW c \in (0 .. n - 1) \ {b}
          PROVE  i \notin Start(c) .. End(c) - 1
      <3>1. CASE b < c
            BY <1>1, <2>3, <3>1
      <3>2. CASE c < b
            BY <1>1, <2>3, <2>4, <3>2
      <3> QED
          BY <1>1, <2>3, <3>1, <3>2
    <2>6. i \in Start(b) .. End(b) - 1
          BY <1>1, <2>3, <2>4
    <2> QED
        BY <2>3, <2>5, <2>6
  <1>3. ASSUME NEW b \in 0 .. n - 1, NEW c \in b .. n - 1
        PROVE  End(b) - Start(b) > 0 /\ (End(b) - Start(b)) - (End(c) - Start(c)) \in {0, 1}
    <2>1. c \in 0 .. n - 1 /\ b <= c
          BY <1>1
    <2>2. End(b) - Start(b) = (IF b < r THEN q + 1 ELSE q) /\ End(c) - Start(c) = IF c < r THEN q + 1 ELSE q
          BY <1>1, <2>1
    <2> QED
        BY <1>1, <2>1, <2>2
  <1>4. \A b \in 0 .. n - 1 : End(b) - Start(b) > 0
        BY <1>1
  <1> QED
      BY <1>2, <1>3, <1>4 DEF IsPartition, n, Start, End

-----------------------------------------------------------------------------
(* A loop on a pool                                                        *)

(* Each block is a part of its own of the loop's indices.                  *)
LEMMA BlockProperties ==
    ASSUME PLTypeOK
    PROVE  /\ AllBlocks \subseteq Nat
           /\ \A n \in Nat : n \notin AllBlocks => \A b \in AllBlocks : b < n
           /\ \A b \in AllBlocks : From(b) \in Int /\ To(b) \in Int /\ From(b) < To(b)
           /\ \A b \in AllBlocks : \A i \in IndicesOf(b) : i \in Indices /\ i \in first .. last - 1
           /\ \A b, c \in AllBlocks : \A i \in IndicesOf(b) : i \in IndicesOf(c) => b = c
           /\ first < last => IsPartition(first, last, num)
  <1>1. first \in Indices /\ last \in Indices /\ first \in Int /\ last \in Int /\ loop.request \in Nat
        BY LoopAssumption DEF PLTypeOK, Loops, first, last
  <1>2. num \in Nat \ {0}
    <2>1. Cardinality(Workers) \in Nat /\ Cardinality(Workers) # 0
          BY LoopAssumption, FS_CardinalityType, FS_EmptySet
    <2> QED
        BY <1>1, <2>1 DEF num
  <1>3. CASE last <= first
    <2>1. AllBlocks = {}
          BY <1>1, <1>3 DEF AllBlocks, NumBlocks
    <2>2. ~(first < last)
          BY <1>1, <1>3
    <2>3. \A n \in Nat : n \notin AllBlocks => \A b \in AllBlocks : b < n
          BY <2>1
    <2> QED
        BY <2>1, <2>2, <2>3
  <1>4. CASE first < last
    <2> DEFINE n == NumBlocks(first, last, num)
               q == BlockSize(first, last, num)
               r == Remainder(first, last, num)
    <2>1. /\ n \in Nat \ {0} /\ q \in Nat \ {0} /\ r \in 0 .. n - 1
          /\ \A b \in 0 .. n - 1 : /\ From(b) \in Int /\ To(b) \in Int
                                   /\ To(b) = From(b) + (IF b < r THEN q + 1 ELSE q)
          /\ \A b \in 0 .. n - 2 : From(b + 1) = To(b)
          /\ From(0) = first /\ To(n - 1) = last
          /\ \A b, c \in 0 .. n - 1 : b < c => To(b) <= From(c)
          BY <1>1, <1>2, <1>4, BlockBounds DEF From, To
    <2>2. AllBlocks = 0 .. n - 1
          BY DEF AllBlocks
    <2>3. IsPartition(first, last, num)
          BY <1>1, <1>2, <1>4, BlocksPartition
    <2> HIDE DEF n, q, r
    <2>4. AllBlocks \subseteq Nat /\ \A k \in Nat : k \notin AllBlocks => \A b \in AllBlocks : b < k
          BY <2>1, <2>2
    <2>5. ASSUME NEW b \in AllBlocks
          PROVE  From(b) \in Int /\ To(b) \in Int /\ From(b) < To(b)
      <3>1. From(b) \in Int /\ To(b) \in Int /\ To(b) = From(b) + (IF b < r THEN q + 1 ELSE q)
            BY <2>1, <2>2
      <3>2. q \in Nat \ {0}
            BY <2>1
      <3> QED
          BY <3>1, <3>2
    <2>6. ASSUME NEW b \in AllBlocks
          PROVE  first <= From(b) /\ To(b) <= last
      <3>1. b = 0 \/ (0 < b /\ 0 \in 0 .. n - 1)
            BY <2>1, <2>2
      <3>2. first <= From(b)
        <4>1. CASE b = 0
              BY <1>1, <2>1, <4>1
        <4>2. CASE 0 < b
          <5>1. To(0) <= From(b) /\ From(0) < To(0)
                BY <2>1, <2>2, <2>5, <3>1, <4>2
          <5> QED
              BY <1>1, <2>1, <2>2, <2>5, <3>1, <4>2, <5>1
        <4> QED
            BY <3>1, <4>1, <4>2
      <3>3. To(b) <= last
        <4>1. CASE b = n - 1
              BY <1>1, <2>1, <4>1
        <4>2. CASE b < n - 1
          <5>1. n - 1 \in 0 .. n - 1 /\ n - 1 \in AllBlocks
                BY <2>1, <2>2
          <5>2. To(b) <= From(n - 1) /\ From(n - 1) < To(n - 1)
                BY <2>1, <2>2, <2>5, <4>2, <5>1
          <5> QED
              BY <1>1, <2>1, <2>5, <5>1, <5>2
        <4> QED
            BY <2>1, <2>2, <4>1, <4>2
      <3> QED
          BY <3>2, <3>3
    <2>7. ASSUME NEW b \in AllBlocks, NEW i \in IndicesOf(b)
          PROVE  i \in Indices /\ i \in first .. last - 1
      <3>1. i \in first .. last - 1 /\ i \in first .. last
            BY <1>1, <2>5, <2>6 DEF IndicesOf
      <3> QED
          BY <1>1, <3>1, LoopAssumption
    <2>8. ASSUME NEW b \in AllBlocks, NEW c \in AllBlocks, NEW i \in IndicesOf(b), i \in IndicesOf(c)
          PROVE  b = c
      <3>1. From(b) <= i /\ i < To(b) /\ From(c) <= i /\ i < To(c) /\ i \in Int
            BY <2>5, <2>8 DEF IndicesOf
      <3>2. ~(b < c) /\ ~(c < b)
            BY <2>1, <2>2, <2>5, <3>1
      <3> QED
          BY <2>2, <3>2
    <2> QED
        BY <2>3, <2>4, <2>5, <2>7, <2>8
  <1> QED
      BY <1>1, <1>3, <1>4

LEMMA SameLoop ==
    ASSUME UNCHANGED loop
    PROVE  /\ first' = first /\ last' = last /\ num' = num /\ AllBlocks' = AllBlocks
           /\ \A b : From(b)' = From(b) /\ To(b)' = To(b) /\ IndicesOf(b)' = IndicesOf(b)
  BY DEF first, last, num, AllBlocks, From, To, IndicesOf

(* The queue holds each block once.                                        *)
Once(q) == \A i, j \in 1 .. Len(q) : q[i] = q[j] => i = j

LEMMA QueueAppend ==
    ASSUME NEW q \in Seq(Nat), NEW s \in Nat, Once(q), s \notin Pool!Range(q)
    PROVE  /\ Append(q, s) \in Seq(Nat) /\ Once(Append(q, s))
           /\ Pool!Range(Append(q, s)) = Pool!Range(q) \cup {s}
  <1>1. PICK t : t = Append(q, s)
        OBVIOUS
  <1>2. /\ t \in Seq(Nat) /\ Len(t) = Len(q) + 1 /\ t[Len(q) + 1] = s /\ Len(q) \in Nat
        /\ \A i \in 1 .. Len(q) : t[i] = q[i]
        BY <1>1
  <1>3. \A i \in 1 .. Len(q) : q[i] # s
        BY DEF Pool!Range
  <1>4. Once(t)
    <2>1. ASSUME NEW i \in 1 .. Len(t), NEW j \in 1 .. Len(t), t[i] = t[j]
          PROVE  i = j
      <3>1. CASE i \in 1 .. Len(q) /\ j \in 1 .. Len(q)
            BY <1>2, <2>1, <3>1 DEF Once
      <3>2. CASE i = Len(q) + 1
            BY <1>2, <1>3, <2>1, <3>2
      <3>3. CASE j = Len(q) + 1
            BY <1>2, <1>3, <2>1, <3>3
      <3> QED
          BY <1>2, <3>1, <3>2, <3>3
    <2> QED
        BY <2>1 DEF Once
  <1>5. Pool!Range(t) = Pool!Range(q) \cup {s}
    <2>1. DOMAIN t = 1 .. Len(q) + 1 /\ DOMAIN q = 1 .. Len(q)
          BY <1>2
    <2>2. 1 .. Len(q) + 1 = (1 .. Len(q)) \cup {Len(q) + 1}
          BY <1>2
    <2> QED
        BY <1>2, <2>1, <2>2 DEF Pool!Range
  <1> QED
      BY <1>1, <1>2, <1>4, <1>5

LEMMA QueueTail ==
    ASSUME NEW q \in Seq(Nat), q # <<>>, Once(q)
    PROVE  /\ Head(q) \in Nat /\ Head(q) \in Pool!Range(q) /\ Tail(q) \in Seq(Nat) /\ Once(Tail(q))
           /\ Pool!Range(Tail(q)) = Pool!Range(q) \ {Head(q)}
  <1>1. PICK t : t = Tail(q)
        OBVIOUS
  <1>2. /\ Len(q) \in Nat /\ Len(q) > 0 /\ t \in Seq(Nat) /\ Len(t) = Len(q) - 1
        /\ Head(q) = q[1] /\ Head(q) \in Nat
        /\ \A i \in 1 .. Len(q) - 1 : t[i] = q[i + 1]
        BY <1>1
  <1>3. DOMAIN t = 1 .. Len(q) - 1 /\ DOMAIN q = 1 .. Len(q)
        BY <1>2
  <1>4. Head(q) \in Pool!Range(q)
        BY <1>2, <1>3, SMTT(30) DEF Pool!Range
  <1>5. Once(t)
    <2>1. ASSUME NEW i \in 1 .. Len(t), NEW j \in 1 .. Len(t), t[i] = t[j]
          PROVE  i = j
      <3>1. i + 1 \in 1 .. Len(q) /\ j + 1 \in 1 .. Len(q) /\ q[i + 1] = q[j + 1]
            BY <1>2, <2>1, SMTT(30)
      <3>2. i + 1 = j + 1
            BY <3>1 DEF Once
      <3> QED
          BY <3>2
    <2> QED
        BY <2>1 DEF Once
  <1>6. ASSUME NEW x
        PROVE  x \in Pool!Range(t) <=> x \in Pool!Range(q) \ {Head(q)}
    <2>1. ASSUME x \in Pool!Range(t)
          PROVE  x \in Pool!Range(q) \ {Head(q)}
      <3>1. PICK i \in 1 .. Len(q) - 1 : x = t[i]
            BY <1>3, <2>1 DEF Pool!Range
      <3>2. i + 1 \in 1 .. Len(q) /\ 1 \in 1 .. Len(q) /\ i + 1 # 1 /\ x = q[i + 1]
            BY <1>2, <3>1
      <3>3. x # q[1]
            BY <3>2 DEF Once
      <3> QED
          BY <1>2, <1>3, <3>2, <3>3 DEF Pool!Range
    <2>2. ASSUME x \in Pool!Range(q), x # Head(q)
          PROVE  x \in Pool!Range(t)
      <3>1. PICK i \in 1 .. Len(q) : x = q[i]
            BY <1>3, <2>2 DEF Pool!Range
      <3>2. i # 1
            BY <1>2, <2>2, <3>1
      <3>3. i - 1 \in 1 .. Len(q) - 1 /\ t[i - 1] = q[(i - 1) + 1] /\ (i - 1) + 1 = i
            BY <1>2, <3>1, <3>2
      <3> QED
          BY <1>3, <3>1, <3>3 DEF Pool!Range
    <2> QED
        BY <2>1, <2>2
  <1>7. Pool!Range(t) = Pool!Range(q) \ {Head(q)}
        BY <1>6
  <1> QED
      BY <1>1, <1>2, <1>4, <1>5, <1>7

Submitters == [pc : {"submit", "get", "returned", "threw"}, next : Nat]

(* What a worker executes, in which form.                                  *)
LEMMA SlotForms ==
    ASSUME active \in [Workers -> Pool!Slot]
    PROVE  /\ \A w \in Workers :
                 \/ active[w] = Pool!IdleSlot /\ active[w].phase = "idle" /\ BlockOf(w) = NoBlock
                 \/ /\ active[w] = [sub |-> BlockOf(w), phase |-> active[w].phase]
                    /\ active[w].phase \in {"body", "closing"} /\ BlockOf(w) \in Nat
           /\ \A w \in Workers : \A b : active[w] = [sub |-> b, phase |-> "body"]
                                       <=> active[w].phase = "body" /\ BlockOf(w) = b
           /\ \A b : Pool!Executing(b) <=> \E w \in Workers : active[w].phase = "body" /\ BlockOf(w) = b
  <1>1. ASSUME NEW w \in Workers
        PROVE  \/ active[w] = Pool!IdleSlot /\ active[w].phase = "idle" /\ BlockOf(w) = NoBlock
               \/ /\ active[w] = [sub |-> BlockOf(w), phase |-> active[w].phase]
                  /\ active[w].phase \in {"body", "closing"} /\ BlockOf(w) \in Nat
    <2>1. active[w] \in Pool!Slot
          OBVIOUS
    <2>2. CASE active[w] \in [sub : {NoBlock}, phase : {"idle"}]
          BY <2>2 DEF Pool!IdleSlot, BlockOf
    <2>3. CASE active[w] \in [sub : Nat, phase : {"body", "closing"}]
          BY <2>3 DEF BlockOf
    <2> QED
        BY <2>1, <2>2, <2>3 DEF Pool!Slot
  <1>2. ASSUME NEW w \in Workers, NEW b
        PROVE  active[w] = [sub |-> b, phase |-> "body"] <=> active[w].phase = "body" /\ BlockOf(w) = b
    <2>1. ASSUME active[w] = [sub |-> b, phase |-> "body"]
          PROVE  active[w].phase = "body" /\ BlockOf(w) = b
          BY <2>1 DEF BlockOf
    <2>2. ASSUME active[w].phase = "body", BlockOf(w) = b
          PROVE  active[w] = [sub |-> b, phase |-> "body"]
          BY <1>1, <2>2
    <2> QED
        BY <2>1, <2>2
  <1>3. \A b : Pool!Executing(b) <=> \E w \in Workers : active[w].phase = "body" /\ BlockOf(w) = b
        BY <1>2 DEF Pool!Executing
  <1> QED
      BY <1>1, <1>2, <1>3

(* A worker's slot changes.                                                *)
LEMMA WorkerChanges ==
    ASSUME active \in [Workers -> Pool!Slot], NEW w \in Workers, NEW slot \in Pool!Slot,
           active' = [active EXCEPT ![w] = slot]
    PROVE  /\ active' \in [Workers -> Pool!Slot] /\ active'[w] = slot /\ BlockOf(w)' = slot.sub
           /\ \A v \in Workers \ {w} : active'[v] = active[v] /\ BlockOf(v)' = BlockOf(v)
           /\ \A b : Pool!Executing(b)' <=>
                 \/ slot = [sub |-> b, phase |-> "body"]
                 \/ \E v \in Workers \ {w} : active[v].phase = "body" /\ BlockOf(v) = b
  <1>1. active' \in [Workers -> Pool!Slot] /\ active'[w] = slot /\ \A v \in Workers \ {w} : active'[v] = active[v]
        OBVIOUS
  <1>2. BlockOf(w)' = slot.sub /\ \A v \in Workers \ {w} : BlockOf(v)' = BlockOf(v)
        BY <1>1 DEF BlockOf
  <1>3. \A b : Pool!Executing(b)' <=> \E v \in Workers : active'[v] = [sub |-> b, phase |-> "body"]
        BY DEF Pool!Executing
  <1>4. \A v \in Workers : \A b : active[v] = [sub |-> b, phase |-> "body"] <=> active[v].phase = "body" /\ BlockOf(v) = b
        BY SlotForms
  <1> QED
      BY <1>1, <1>2, <1>3, <1>4, ZenonT(40)

LEMMA LoopTyped ==
    ASSUME LoopInv
    PROVE  /\ loop \in Loops /\ queue \in Seq(Nat) /\ active \in [Workers -> Pool!Slot]
           /\ index \in [Workers -> Int] /\ submitter \in Submitters /\ executed \in [Indices -> Nat]
           /\ outcome \in [AllBlocks -> {"none", "value", "exception", "broken"}]
           /\ Once(queue)
  BY DEF LoopInv, PLTypeOK, Pool!TypeOK, Submitters, BlocksInPlace, Once

LEMMA LoopInvInit == PLInit => LoopInv
  <1> SUFFICES ASSUME PLInit
               PROVE  LoopInv
      OBVIOUS
  <1>1. /\ loop \in Loops /\ queue = <<>> /\ active = [w \in Workers |-> Pool!IdleSlot]
        /\ index = [w \in Workers |-> 0] /\ outcome = [b \in AllBlocks |-> "none"]
        /\ submitter = [pc |-> "submit", next |-> 0] /\ executed = [i \in Indices |-> 0]
        BY DEF PLInit, Pool!Init
  <1>2. Pool!IdleSlot \in Pool!Slot /\ Pool!IdleSlot.phase = "idle" /\ <<>> \in Seq(Nat)
        BY DEF Pool!IdleSlot, Pool!Slot
  <1>3. Pool!TypeOK
        BY <1>1, <1>2 DEF Pool!TypeOK
  <1>4. submitter \in Submitters /\ submitter.pc = "submit" /\ submitter.next = 0
        BY <1>1 DEF Submitters
  <1>5. PLTypeOK
        BY <1>1, <1>3, <1>4 DEF PLTypeOK, Submitters
  <1>6. Pool!Range(queue) = {} /\ Len(queue) = 0
        BY <1>1 DEF Pool!Range
  <1>7. \A w \in Workers : active[w].phase = "idle"
        BY <1>1, <1>2
  <1>8. BlocksInPlace
        BY <1>6, <1>7 DEF BlocksInPlace
  <1>9. OutcomesKnown
    <2>1. \A b \in AllBlocks : ~Submitted(b)
          BY <1>4, <1>5, BlockProperties DEF Submitted
    <2> QED
        BY <1>1, <1>4, <2>1 DEF OutcomesKnown
  <1>10. CallsCounted
    <2>1. \A i \in Indices : executed[i] = 0
          BY <1>1
    <2>2. \A b \in AllBlocks : \A i \in IndicesOf(b) : executed[i] = 0
          BY <1>5, <2>1, BlockProperties
    <2>3. \A b \in AllBlocks : outcome[b] # "value"
          BY <1>1
    <2> QED
        BY <1>7, <2>1, <2>2, <2>3 DEF CallsCounted
  <1> QED
      BY <1>5, <1>8, <1>9, <1>10 DEF LoopInv

(* The submitting thread goes on, and nothing else changes.                *)
LEMMA SubmitterMoves ==
    ASSUME LoopInv, UNCHANGED <<loop, queue, active, index, outcome, executed>>, submitter' \in Submitters,
           \A b \in AllBlocks : Submitted(b)' <=> Submitted(b),
           submitter'.pc = "get" /\ loop.kind = "submit" =>
              \A b \in AllBlocks : b < submitter'.next => outcome[b] = "value",
           submitter'.pc = "returned" =>
              \A b \in AllBlocks : outcome[b] # "none" /\ (loop.kind = "submit" => outcome[b] = "value")
    PROVE  LoopInv'
  <1>1. /\ first' = first /\ last' = last /\ num' = num /\ AllBlocks' = AllBlocks
        /\ \A b : From(b)' = From(b) /\ To(b)' = To(b) /\ IndicesOf(b)' = IndicesOf(b)
        BY SameLoop
  <1>2. /\ Pool!Range(queue)' = Pool!Range(queue)
        /\ \A b : Pool!Executing(b)' = Pool!Executing(b) /\ Pool!Ready(b)' = Pool!Ready(b)
        /\ \A w : BlockOf(w)' = BlockOf(w)
        BY DEF Pool!Range, Pool!Executing, Pool!Ready, BlockOf
  <1>3. PLTypeOK'
    <2>1. Pool!TypeOK'
          BY DEF LoopInv, PLTypeOK, Pool!TypeOK, Pool!Slot
    <2> QED
        BY <1>1, <2>1 DEF LoopInv, PLTypeOK, Submitters, Loops
  <1>4. BlocksInPlace'
        BY <1>1, <1>2 DEF LoopInv, BlocksInPlace
  <1>5. OutcomesKnown'
        BY <1>1, <1>2 DEF LoopInv, OutcomesKnown
  <1>6. CallsCounted'
        BY <1>1, <1>2 DEF LoopInv, CallsCounted
  <1> QED
      BY <1>3, <1>4, <1>5, <1>6 DEF LoopInv

LEMMA SubmitterAdvances ==
    ASSUME LoopInv, SubmitDone \/ WaitForPool \/ GetFuture \/ GetReturns
    PROVE  LoopInv'
  <1>1. submitter \in Submitters /\ submitter.next \in Nat /\ UNCHANGED <<loop, queue, active, index, outcome, executed>>
        BY LoopTyped DEF Submitters, SubmitDone, WaitForPool, GetFuture, GetReturns
  <1>2. \A n \in Nat : n \notin AllBlocks => \A b \in AllBlocks : b < n
        BY BlockProperties DEF LoopInv
  <1>3. AllBlocks \subseteq Nat
        BY BlockProperties DEF LoopInv
  <1>4. CASE SubmitDone
    <2>1. submitter.pc = "submit" /\ submitter.next \notin AllBlocks /\ submitter' = [pc |-> "get", next |-> 0]
          BY <1>4 DEF SubmitDone
    <2>2. submitter' \in Submitters /\ submitter'.pc = "get" /\ submitter'.next = 0
          BY <2>1 DEF Submitters
    <2>3. \A b \in AllBlocks : Submitted(b)' /\ Submitted(b)
          BY <1>1, <1>2, <2>1, <2>2 DEF Submitted
    <2>4. \A b \in AllBlocks : ~(b < submitter'.next)
          BY <1>3, <2>2
    <2> QED
        BY <1>1, <2>2, <2>3, <2>4, SubmitterMoves
  <1>5. CASE WaitForPool
    <2>1. submitter.pc = "get" /\ loop.kind = "detach" /\ Pool!AllDone /\ submitter' = [submitter EXCEPT !.pc = "returned"]
          BY <1>5 DEF WaitForPool
    <2>2. submitter' \in Submitters /\ submitter'.pc = "returned"
          BY <1>1, <2>1 DEF Submitters
    <2>3. \A b \in AllBlocks : Submitted(b)' /\ Submitted(b)
          BY <2>1, <2>2 DEF Submitted
    <2>4. \A b \in AllBlocks : Pool!Ready(b)
      <3>1. Pool!Range(queue) = {}
            BY <2>1 DEF Pool!AllDone, Pool!Range
      <3>2. \A w \in Workers : active[w].phase = "idle"
            BY <2>1 DEF Pool!AllDone, Pool!IdleSlot
      <3>3. \A b : ~Pool!Executing(b)
            BY <3>2, LoopTyped, SlotForms
      <3> QED
          BY <3>1, <3>3 DEF Pool!Ready
    <2>5. \A b \in AllBlocks : outcome[b] # "none"
          BY <2>3, <2>4 DEF LoopInv, OutcomesKnown
    <2> QED
        BY <1>1, <2>1, <2>2, <2>3, <2>5, SubmitterMoves
  <1>6. CASE GetFuture
    <2>1. /\ submitter.pc = "get" /\ loop.kind = "submit" /\ submitter.next \in AllBlocks
          /\ submitter' = IF outcome[submitter.next] = "value" THEN [submitter EXCEPT !.next = @ + 1]
                          ELSE [submitter EXCEPT !.pc = "threw"]
          BY <1>6 DEF GetFuture
    <2>2. CASE outcome[submitter.next] = "value"
      <3>1. submitter' = [submitter EXCEPT !.next = submitter.next + 1]
            BY <2>1, <2>2
      <3>2. submitter' \in Submitters /\ submitter'.pc = "get" /\ submitter'.next = submitter.next + 1
            BY <1>1, <2>1, <3>1 DEF Submitters
      <3>3. \A b \in AllBlocks : Submitted(b)' /\ Submitted(b)
            BY <2>1, <3>2 DEF Submitted
      <3>4. ASSUME NEW b \in AllBlocks, b < submitter'.next
            PROVE  outcome[b] = "value"
        <4>1. b < submitter.next \/ b = submitter.next
              BY <1>1, <1>3, <3>2, <3>4
        <4> QED
            BY <2>1, <2>2, <4>1 DEF LoopInv, OutcomesKnown
      <3> QED
          BY <1>1, <3>2, <3>3, <3>4, SubmitterMoves
    <2>3. CASE outcome[submitter.next] # "value"
      <3>1. submitter' = [submitter EXCEPT !.pc = "threw"]
            BY <2>1, <2>3
      <3>2. submitter' \in Submitters /\ submitter'.pc = "threw"
            BY <1>1, <3>1 DEF Submitters
      <3>3. \A b \in AllBlocks : Submitted(b)' /\ Submitted(b)
            BY <2>1, <3>2 DEF Submitted
      <3> QED
          BY <1>1, <3>2, <3>3, SubmitterMoves
    <2> QED
        BY <2>2, <2>3
  <1>7. CASE GetReturns
    <2>1. /\ submitter.pc = "get" /\ loop.kind = "submit" /\ submitter.next \notin AllBlocks
          /\ submitter' = [submitter EXCEPT !.pc = "returned"]
          BY <1>7 DEF GetReturns
    <2>2. submitter' \in Submitters /\ submitter'.pc = "returned"
          BY <1>1, <2>1 DEF Submitters
    <2>3. \A b \in AllBlocks : Submitted(b)' /\ Submitted(b)
          BY <2>1, <2>2 DEF Submitted
    <2>4. \A b \in AllBlocks : outcome[b] = "value"
          BY <1>1, <1>2, <2>1 DEF LoopInv, OutcomesKnown
    <2> QED
        BY <1>1, <2>2, <2>3, <2>4, SubmitterMoves
  <1> QED
      BY <1>4, <1>5, <1>6, <1>7

(* The invariant without its primes, for the steps that follow.            *)
LEMMA LoopFacts ==
    ASSUME LoopInv
    PROVE  /\ AllBlocks \subseteq Nat
           /\ \A b \in Pool!Range(queue) : b \in AllBlocks /\ Submitted(b)
           /\ \A w \in Workers : active[w].phase # "idle" =>
                 BlockOf(w) \in AllBlocks /\ BlockOf(w) \notin Pool!Range(queue) /\ Submitted(BlockOf(w))
           /\ \A v, w \in Workers : active[v].phase # "idle" /\ BlockOf(v) = BlockOf(w) => v = w
           /\ \A b \in AllBlocks : outcome[b] # "none" <=> Submitted(b) /\ Pool!Ready(b)
           /\ submitter.pc = "get" /\ loop.kind = "submit" =>
                 \A b \in AllBlocks : b < submitter.next => outcome[b] = "value"
           /\ submitter.pc = "returned" =>
                 \A b \in AllBlocks : outcome[b] # "none" /\ (loop.kind = "submit" => outcome[b] = "value")
  BY BlockProperties DEF LoopInv, BlocksInPlace, OutcomesKnown

LEMMA SubmitKeepsInv ==
    ASSUME LoopInv, SubmitBlock
    PROVE  LoopInv'
  <1> DEFINE s == submitter.next
  <1>1. /\ submitter.pc = "submit" /\ s \in AllBlocks /\ queue' = Append(queue, s)
        /\ submitter' = [submitter EXCEPT !.next = s + 1]
        /\ UNCHANGED <<loop, active, index, outcome, executed>>
        BY DEF SubmitBlock, Pool!Submit
  <1>2. /\ submitter \in Submitters /\ queue \in Seq(Nat) /\ Once(queue) /\ active \in [Workers -> Pool!Slot]
        BY LoopTyped
  <1>3. submitter' \in Submitters /\ submitter'.pc = "submit" /\ submitter'.next = s + 1 /\ s \in Nat
        BY <1>1, <1>2 DEF Submitters
  <1>4. AllBlocks \subseteq Nat /\ \A b \in AllBlocks : Submitted(b) <=> b < s
        BY <1>1, LoopFacts DEF Submitted
  <1>5. \A b \in AllBlocks : Submitted(b)' <=> b < s + 1
        BY <1>3 DEF Submitted
  <1> HIDE DEF s
  <1>6. \A b \in AllBlocks : Submitted(b)' <=> Submitted(b) \/ b = s
        BY <1>3, <1>4, <1>5
  <1>7. ~Submitted(s) /\ s \notin Pool!Range(queue)
        BY <1>1, <1>3, <1>4, LoopFacts
  <1>8. queue' \in Seq(Nat) /\ Once(queue') /\ Pool!Range(queue') = Pool!Range(queue) \cup {s}
        BY <1>1, <1>2, <1>3, <1>7, QueueAppend
  <1>9. Pool!Range(queue)' = Pool!Range(queue')
        BY DEF Pool!Range
  <1>10. /\ first' = first /\ last' = last /\ num' = num /\ AllBlocks' = AllBlocks
         /\ \A b : From(b)' = From(b) /\ To(b)' = To(b) /\ IndicesOf(b)' = IndicesOf(b)
         BY <1>1, SameLoop
  <1>11. /\ \A b : Pool!Executing(b)' = Pool!Executing(b)
         /\ \A w : BlockOf(w)' = BlockOf(w) /\ active'[w] = active[w]
         BY <1>1 DEF Pool!Executing, BlockOf
  <1>12. \A b : Pool!Ready(b)' <=> Pool!Ready(b) /\ b # s
         BY <1>8, <1>9, <1>11 DEF Pool!Ready
  <1>13. PLTypeOK'
         BY <1>1, <1>3, <1>8, <1>10 DEF LoopInv, PLTypeOK, Submitters, Loops, Pool!TypeOK, Pool!Slot
  <1>14. BlocksInPlace'
    <2>1. \A b \in Pool!Range(queue)' : b \in AllBlocks /\ Submitted(b)'
          BY <1>1, <1>6, <1>8, <1>9, LoopFacts
    <2>2. \A w \in Workers : active'[w].phase # "idle" =>
             BlockOf(w)' \in AllBlocks \ Pool!Range(queue)' /\ Submitted(BlockOf(w))'
      <3>1. ASSUME NEW w \in Workers, active[w].phase # "idle"
            PROVE  BlockOf(w) \in AllBlocks \ Pool!Range(queue)' /\ BlockOf(w) < s + 1
        <4>1. BlockOf(w) \in AllBlocks /\ BlockOf(w) \notin Pool!Range(queue) /\ Submitted(BlockOf(w))
              BY <3>1, LoopFacts
        <4>2. BlockOf(w) # s
              BY <1>7, <4>1
        <4>3. BlockOf(w) \in AllBlocks \ Pool!Range(queue)'
              BY <1>8, <1>9, <4>1, <4>2, Zenon
        <4>4. PICK b \in AllBlocks : b = BlockOf(w)
              BY <4>1
        <4>5. b \in Nat /\ b < s
              BY <1>4, <4>1, <4>4
        <4>6. b < s + 1
              BY <1>3, <4>5
        <4> QED
            BY <4>3, <4>4, <4>6
      <3> QED
          BY <1>3, <1>11, <3>1 DEF Submitted
    <2>3. \A v, w \in Workers : active'[v].phase # "idle" /\ BlockOf(v)' = BlockOf(w)' => v = w
          BY <1>11, LoopFacts
    <2>4. \A i, j \in 1 .. Len(queue') : queue'[i] = queue'[j] => i = j
          BY <1>8 DEF Once
    <2> QED
        BY <1>10, <2>1, <2>2, <2>3, <2>4 DEF BlocksInPlace
  <1>15. OutcomesKnown'
    <2>1. \A b \in AllBlocks : outcome[b] # "none" <=> Submitted(b)' /\ Pool!Ready(b)'
          BY <1>6, <1>7, <1>12, LoopFacts
    <2> QED
        BY <1>1, <1>3, <1>10, <2>1 DEF OutcomesKnown
  <1>16. CallsCounted'
         BY <1>1, <1>10, <1>11 DEF LoopInv, CallsCounted
  <1> QED
      BY <1>13, <1>14, <1>15, <1>16 DEF LoopInv

LEMMA StartKeepsInv ==
    ASSUME LoopInv, NEW w \in Workers, StartBlock(w)
    PROVE  LoopInv'
  <1> DEFINE h == Head(queue)
             slot == [sub |-> h, phase |-> "body"]
  <1>1. /\ active[w] = Pool!IdleSlot /\ queue # <<>>
        /\ active' = [active EXCEPT ![w] = slot] /\ queue' = Tail(queue)
        /\ index' = [index EXCEPT ![w] = From(h)]
        /\ UNCHANGED <<loop, outcome, submitter, executed>>
        BY DEF StartBlock, Pool!Start, From
  <1>2. /\ queue \in Seq(Nat) /\ Once(queue) /\ active \in [Workers -> Pool!Slot] /\ index \in [Workers -> Int]
        BY LoopTyped
  <1>3. /\ h \in Nat /\ h \in Pool!Range(queue) /\ queue' \in Seq(Nat) /\ Once(queue')
        /\ Pool!Range(queue') = Pool!Range(queue) \ {h}
        BY <1>1, <1>2, QueueTail
  <1>4. slot \in Pool!Slot /\ slot.sub = h /\ slot.phase = "body"
        BY <1>3 DEF Pool!Slot
  <1>5. /\ active' \in [Workers -> Pool!Slot] /\ active'[w] = slot /\ BlockOf(w)' = slot.sub
        /\ \A v \in Workers \ {w} : active'[v] = active[v] /\ BlockOf(v)' = BlockOf(v)
        /\ \A b : Pool!Executing(b)' <=>
              \/ slot = [sub |-> b, phase |-> "body"]
              \/ \E v \in Workers \ {w} : active[v].phase = "body" /\ BlockOf(v) = b
        BY <1>1, <1>2, <1>4, WorkerChanges
  <1>6. \A b : slot = [sub |-> b, phase |-> "body"] <=> b = h
    <2>1. ASSUME NEW b, slot = [sub |-> b, phase |-> "body"]
          PROVE  b = h
          BY <1>4, <2>1
    <2> QED
        BY <2>1
  <1> HIDE DEF slot, h
  <1>7. active[w].phase = "idle"
        BY <1>1 DEF Pool!IdleSlot
  <1>8. \A b : Pool!Executing(b)' <=> Pool!Executing(b) \/ b = h
    <2>1. \A b : Pool!Executing(b) <=> \E v \in Workers : active[v].phase = "body" /\ BlockOf(v) = b
          BY <1>2, SlotForms
    <2> QED
        BY <1>5, <1>6, <1>7, <2>1
  <1>9. Pool!Range(queue)' = Pool!Range(queue')
        BY DEF Pool!Range
  <1>10. /\ first' = first /\ last' = last /\ num' = num /\ AllBlocks' = AllBlocks
         /\ \A b : From(b)' = From(b) /\ To(b)' = To(b) /\ IndicesOf(b)' = IndicesOf(b)
         BY <1>1, SameLoop
  <1>11. \A b : Submitted(b)' <=> Submitted(b)
         BY <1>1 DEF Submitted
  <1>12. \A b : Pool!Ready(b)' <=> Pool!Ready(b)
         BY <1>3, <1>8, <1>9 DEF Pool!Ready
  <1>13. h \in AllBlocks /\ Submitted(h) /\ From(h) \in Int /\ To(h) \in Int /\ From(h) < To(h)
         BY <1>3, LoopFacts, BlockProperties DEF LoopInv
  <1>14. \A v \in Workers : active[v].phase # "idle" => BlockOf(v) # h
         BY <1>3, LoopFacts
  <1>15. ~Pool!Executing(h) /\ outcome[h] = "none"
    <2>1. ~Pool!Executing(h)
          BY <1>2, <1>14, SlotForms
    <2>2. ~Pool!Ready(h)
          BY <1>3 DEF Pool!Ready
    <2> QED
        BY <1>13, <2>1, <2>2, LoopFacts
  <1>16. index' \in [Workers -> Int] /\ index'[w] = From(h) /\ \A v \in Workers \ {w} : index'[v] = index[v]
         BY <1>1, <1>2, <1>13
  <1>17. PLTypeOK'
         BY <1>1, <1>3, <1>5, <1>10, <1>16 DEF LoopInv, PLTypeOK, Loops, Pool!TypeOK, Pool!Slot
  <1>18. BlocksInPlace'
    <2>1. \A b \in Pool!Range(queue)' : b \in AllBlocks /\ Submitted(b)'
          BY <1>3, <1>9, <1>11, LoopFacts
    <2>2. ASSUME NEW v \in Workers, active'[v].phase # "idle"
          PROVE  BlockOf(v)' \in AllBlocks \ Pool!Range(queue)' /\ Submitted(BlockOf(v))'
      <3>1. CASE v = w
            BY <1>3, <1>4, <1>5, <1>9, <1>11, <1>13, <3>1 DEF Submitted
      <3>2. CASE v # w
        <4>1. BlockOf(v) \in AllBlocks /\ BlockOf(v) \notin Pool!Range(queue) /\ Submitted(BlockOf(v))
              BY <1>5, <2>2, <3>2, LoopFacts
        <4>2. BlockOf(v)' = BlockOf(v) /\ submitter' = submitter
              BY <1>1, <1>5, <3>2
        <4>3. Submitted(BlockOf(v))'
              BY <4>1, <4>2 DEF Submitted
        <4> QED
            BY <1>3, <1>9, <4>1, <4>2, <4>3
      <3> QED
          BY <3>1, <3>2
    <2>3. ASSUME NEW v \in Workers, NEW u \in Workers, active'[v].phase # "idle", BlockOf(v)' = BlockOf(u)'
          PROVE  v = u
      <3>1. CASE v = w /\ u # w
        <4>1. BlockOf(u) = h
              BY <1>4, <1>5, <2>3, <3>1
        <4>2. active[u].phase # "idle"
          <5>1. \/ active[u].phase = "idle" /\ BlockOf(u) = NoBlock
                \/ active[u].phase \in {"body", "closing"}
                BY <1>2, SlotForms
          <5> QED
              BY <1>3, <4>1, <5>1, LoopAssumption
        <4> QED
            BY <1>14, <4>1, <4>2
      <3>2. CASE v # w /\ u = w
            BY <1>4, <1>5, <1>14, <2>3, <3>2
      <3>3. CASE v # w /\ u # w
            BY <1>5, <2>3, <3>3, LoopFacts
      <3> QED
          BY <3>1, <3>2, <3>3
    <2>4. \A i, j \in 1 .. Len(queue') : queue'[i] = queue'[j] => i = j
          BY <1>3 DEF Once
    <2> QED
        BY <1>10, <2>1, <2>2, <2>3, <2>4 DEF BlocksInPlace
  <1>19. OutcomesKnown'
         BY <1>1, <1>10, <1>11, <1>12 DEF LoopInv, OutcomesKnown
  <1>20. CallsCounted'
    <2>1. \A i \in IndicesOf(h) : executed[i] = 0
          BY <1>13, <1>15 DEF LoopInv, CallsCounted
    <2>2. \A b \in AllBlocks : \A i \in IndicesOf(b) :
             /\ outcome[b] = "none" /\ ~Pool!Executing(b)' => executed[i] = 0
             /\ outcome[b] = "value" => executed[i] = 1
          BY <1>8 DEF LoopInv, CallsCounted
    <2>3. ASSUME NEW v \in Workers, active'[v].phase = "body"
          PROVE  /\ index'[v] \in From(BlockOf(v)') .. To(BlockOf(v)')
                 /\ \A i \in IndicesOf(BlockOf(v)') : executed[i] = IF i < index'[v] THEN 1 ELSE 0
      <3>1. CASE v = w
        <4>1. BlockOf(v)' = h /\ index'[v] = From(h)
              BY <1>4, <1>5, <1>16, <3>1
        <4>2. From(h) \in From(h) .. To(h)
              BY <1>13
        <4>3. \A i \in IndicesOf(h) : ~(i < From(h))
              BY <1>13 DEF IndicesOf
        <4> QED
            BY <2>1, <4>1, <4>2, <4>3
      <3>2. CASE v # w
        <4>1. BlockOf(v)' = BlockOf(v) /\ active'[v] = active[v] /\ index'[v] = index[v]
              BY <1>5, <1>16, <3>2
        <4> QED
            BY <2>3, <4>1 DEF LoopInv, CallsCounted
      <3> QED
          BY <3>1, <3>2
    <2>4. \A i \in Indices : executed[i] \in {0, 1} /\ (i \notin first .. last - 1 => executed[i] = 0)
          BY DEF LoopInv, CallsCounted
    <2> QED
        BY <1>1, <1>10, <2>2, <2>3, <2>4 DEF CallsCounted, From, To, IndicesOf
  <1> QED
      BY <1>17, <1>18, <1>19, <1>20 DEF LoopInv

(* A worker that is in the function.                                       *)
LEMMA BodyFacts ==
    ASSUME LoopInv, NEW w \in Workers, active[w].phase = "body"
    PROVE  /\ BlockOf(w) \in AllBlocks /\ Submitted(BlockOf(w)) /\ outcome[BlockOf(w)] = "none"
           /\ active[w] = [sub |-> BlockOf(w), phase |-> "body"]
           /\ \A v \in Workers \ {w} : BlockOf(v) # BlockOf(w)
           /\ index[w] \in From(BlockOf(w)) .. To(BlockOf(w))
           /\ \A i \in IndicesOf(BlockOf(w)) : executed[i] = IF i < index[w] THEN 1 ELSE 0
           /\ Pool!Executing(BlockOf(w)) /\ BlockOf(w) \notin Pool!Range(queue)
  <1>1. active \in [Workers -> Pool!Slot]
        BY LoopTyped
  <1>2. BlockOf(w) \in AllBlocks /\ BlockOf(w) \notin Pool!Range(queue) /\ Submitted(BlockOf(w))
        BY LoopFacts
  <1>3. active[w] = [sub |-> BlockOf(w), phase |-> "body"] /\ Pool!Executing(BlockOf(w))
        BY <1>1, SlotForms
  <1>4. outcome[BlockOf(w)] = "none"
        BY <1>2, <1>3, LoopFacts DEF Pool!Ready
  <1>5. \A v \in Workers \ {w} : BlockOf(v) # BlockOf(w)
        BY LoopFacts
  <1>6. index[w] \in From(BlockOf(w)) .. To(BlockOf(w))
        BY DEF LoopInv, CallsCounted
  <1>7. \A i \in IndicesOf(BlockOf(w)) : executed[i] = IF i < index[w] THEN 1 ELSE 0
        BY DEF LoopInv, CallsCounted
  <1> QED
      BY <1>2, <1>3, <1>4, <1>5, <1>6, <1>7

(* The function is called with the worker's index, for the first time.     *)
LEMMA CallFacts ==
    ASSUME LoopInv, NEW w \in Workers, Running(w), executed' = [executed EXCEPT ![index[w]] = @ + 1]
    PROVE  /\ index[w] \in Int /\ index[w] \in IndicesOf(BlockOf(w)) /\ index[w] + 1 \in From(BlockOf(w)) .. To(BlockOf(w))
           /\ executed' \in [Indices -> Nat] /\ executed'[index[w]] = 1
           /\ \A i \in Indices \ {index[w]} : executed'[i] = executed[i]
           /\ \A b \in AllBlocks \ {BlockOf(w)} : \A i \in IndicesOf(b) : executed'[i] = executed[i]
           /\ \A i \in Indices : executed'[i] \in {0, 1} /\ (i \notin first .. last - 1 => executed'[i] = 0)
  <1> DEFINE b0 == BlockOf(w)
             i0 == index[w]
  <1>1. active[w].phase = "body" /\ i0 < To(b0)
        BY DEF Running, To
  <1>2. /\ b0 \in AllBlocks /\ i0 \in From(b0) .. To(b0)
        /\ \A i \in IndicesOf(b0) : executed[i] = IF i < i0 THEN 1 ELSE 0
        BY <1>1, BodyFacts
  <1>3. From(b0) \in Int /\ To(b0) \in Int
        BY <1>2, BlockProperties DEF LoopInv
  <1> HIDE DEF i0, b0
  <1>4. i0 \in Int /\ i0 \in IndicesOf(b0) /\ i0 + 1 \in From(b0) .. To(b0)
        BY <1>1, <1>2, <1>3 DEF IndicesOf
  <1>5. i0 \in Indices /\ i0 \in first .. last - 1
        BY <1>2, <1>4, BlockProperties DEF LoopInv
  <1>6. executed[i0] = 0
        BY <1>2, <1>4
  <1>7. executed' \in [Indices -> Nat] /\ executed'[i0] = 1 /\ \A i \in Indices \ {i0} : executed'[i] = executed[i]
    <2>1. executed \in [Indices -> Nat] /\ executed' = [executed EXCEPT ![i0] = @ + 1]
          BY LoopTyped DEF i0
    <2> QED
        BY <1>5, <1>6, <2>1
  <1>8. \A b \in AllBlocks \ {b0} : \A i \in IndicesOf(b) : i \in Indices \ {i0}
        BY <1>2, <1>4, BlockProperties DEF LoopInv
  <1>9. \A i \in Indices : executed[i] \in {0, 1} /\ (i \notin first .. last - 1 => executed[i] = 0)
        BY DEF LoopInv, CallsCounted
  <1>10. \A i \in Indices : executed'[i] \in {0, 1} /\ (i \notin first .. last - 1 => executed'[i] = 0)
         BY <1>5, <1>7, <1>9
  <1> QED
      BY <1>4, <1>7, <1>8, <1>10 DEF i0, b0

LEMMA CallKeepsInv ==
    ASSUME LoopInv, NEW w \in Workers, CallLoop(w)
    PROVE  LoopInv'
  <1>1. /\ Running(w) /\ executed' = [executed EXCEPT ![index[w]] = @ + 1]
        /\ index' = [index EXCEPT ![w] = @ + 1]
        /\ UNCHANGED <<loop, queue, active, outcome, submitter>>
        BY DEF CallLoop
  <1>2. active[w].phase = "body" /\ index \in [Workers -> Int]
        BY <1>1, LoopTyped DEF Running
  <1>3. /\ first' = first /\ last' = last /\ num' = num /\ AllBlocks' = AllBlocks
        /\ \A b : From(b)' = From(b) /\ To(b)' = To(b) /\ IndicesOf(b)' = IndicesOf(b)
        BY <1>1, SameLoop
  <1>4. /\ Pool!Range(queue)' = Pool!Range(queue)
        /\ \A b : Pool!Executing(b)' = Pool!Executing(b) /\ Pool!Ready(b)' = Pool!Ready(b)
        /\ \A v : BlockOf(v)' = BlockOf(v) /\ active'[v] = active[v]
        /\ \A b : Submitted(b)' = Submitted(b)
        BY <1>1 DEF Pool!Range, Pool!Executing, Pool!Ready, BlockOf, Submitted
  <1>5. /\ index[w] \in Int /\ index[w] \in IndicesOf(BlockOf(w)) /\ index[w] + 1 \in From(BlockOf(w)) .. To(BlockOf(w))
        /\ executed' \in [Indices -> Nat] /\ executed'[index[w]] = 1
        /\ \A i \in Indices \ {index[w]} : executed'[i] = executed[i]
        /\ \A b \in AllBlocks \ {BlockOf(w)} : \A i \in IndicesOf(b) : executed'[i] = executed[i]
        /\ \A i \in Indices : executed'[i] \in {0, 1} /\ (i \notin first .. last - 1 => executed'[i] = 0)
        BY <1>1, CallFacts
  <1>6. /\ BlockOf(w) \in AllBlocks /\ outcome[BlockOf(w)] = "none" /\ Pool!Executing(BlockOf(w))
        /\ \A v \in Workers \ {w} : BlockOf(v) # BlockOf(w)
        /\ \A i \in IndicesOf(BlockOf(w)) : executed[i] = IF i < index[w] THEN 1 ELSE 0
        BY <1>2, BodyFacts
  <1>7. index' \in [Workers -> Int] /\ index'[w] = index[w] + 1 /\ \A v \in Workers \ {w} : index'[v] = index[v]
        BY <1>1, <1>2, <1>5
  <1>8. PLTypeOK'
    <2>1. Pool!TypeOK'
          BY <1>1 DEF LoopInv, PLTypeOK, Pool!TypeOK, Pool!Slot
    <2> QED
        BY <1>1, <1>3, <1>5, <1>7, <2>1 DEF LoopInv, PLTypeOK, Loops
  <1>9. BlocksInPlace'
        BY <1>1, <1>3, <1>4 DEF LoopInv, BlocksInPlace
  <1>10. OutcomesKnown'
         BY <1>1, <1>3, <1>4 DEF LoopInv, OutcomesKnown
  <1>11. CallsCounted'
    <2>1. ASSUME NEW b \in AllBlocks, NEW i \in IndicesOf(b)
          PROVE  /\ outcome[b] = "none" /\ ~Pool!Executing(b) => executed'[i] = 0
                 /\ outcome[b] = "value" => executed'[i] = 1
      <3>1. CASE b = BlockOf(w)
            BY <1>6, <3>1
      <3>2. CASE b # BlockOf(w)
            BY <1>5, <2>1, <3>2 DEF LoopInv, CallsCounted
      <3> QED
          BY <3>1, <3>2
    <2>2. ASSUME NEW v \in Workers, active[v].phase = "body"
          PROVE  /\ index'[v] \in From(BlockOf(v)) .. To(BlockOf(v))
                 /\ \A i \in IndicesOf(BlockOf(v)) : executed'[i] = IF i < index'[v] THEN 1 ELSE 0
      <3>1. CASE v = w
        <4>1. ASSUME NEW i \in IndicesOf(BlockOf(w))
              PROVE  executed'[i] = IF i < index[w] + 1 THEN 1 ELSE 0
          <5>1. i \in Int /\ i \in Indices
                BY <1>6, <4>1, BlockProperties, LoopAssumption DEF LoopInv
          <5>2. CASE i = index[w]
                BY <1>5, <5>2
          <5>3. CASE i # index[w]
            <6>1. executed'[i] = IF i < index[w] THEN 1 ELSE 0
                  BY <1>5, <1>6, <5>1, <5>3
            <6> QED
                BY <1>5, <5>1, <5>3, <6>1
          <5> QED
              BY <5>2, <5>3
        <4> QED
            BY <1>5, <1>7, <3>1, <4>1
      <3>2. CASE v # w
        <4>1. BlockOf(v) \in AllBlocks \ {BlockOf(w)}
              BY <1>6, <2>2, <3>2, LoopFacts
        <4>2. \A i \in IndicesOf(BlockOf(v)) : executed'[i] = executed[i]
              BY <1>5, <4>1
        <4> QED
            BY <1>7, <2>2, <3>2, <4>2 DEF LoopInv, CallsCounted
      <3> QED
          BY <3>1, <3>2
    <2>3. \A i \in Indices : executed'[i] \in {0, 1} /\ (i \notin first .. last - 1 => executed'[i] = 0)
          BY <1>5
    <2> QED
        BY <1>1, <1>3, <1>4, <2>1, <2>2, <2>3 DEF CallsCounted
  <1> QED
      BY <1>8, <1>9, <1>10, <1>11 DEF LoopInv

(* A block ends, with a value or an exception, and its future is ready.    *)
LEMMA BlockEnds ==
    ASSUME LoopInv, NEW w \in Workers, active[w].phase = "body", Pool!Fulfil(w),
           NEW x \in {"value", "exception"}, outcome' = [outcome EXCEPT ![BlockOf(w)] = x],
           UNCHANGED <<loop, index, submitter>>, executed' \in [Indices -> Nat],
           \A i \in Indices : executed'[i] \in {0, 1} /\ (i \notin first .. last - 1 => executed'[i] = 0),
           \A b \in AllBlocks \ {BlockOf(w)} : \A i \in IndicesOf(b) : executed'[i] = executed[i],
           x = "value" => \A i \in IndicesOf(BlockOf(w)) : executed'[i] = 1
    PROVE  LoopInv'
  <1> DEFINE b0 == BlockOf(w)
             slot == [sub |-> b0, phase |-> "closing"]
  <1>1. /\ b0 \in AllBlocks /\ Submitted(b0) /\ outcome[b0] = "none"
        /\ active[w] = [sub |-> b0, phase |-> "body"]
        /\ \A v \in Workers \ {w} : BlockOf(v) # b0
        /\ b0 \notin Pool!Range(queue)
        BY BodyFacts
  <1>2. active \in [Workers -> Pool!Slot] /\ outcome \in [AllBlocks -> {"none", "value", "exception", "broken"}]
        BY LoopTyped
  <1>3. slot \in Pool!Slot /\ slot.sub = b0 /\ slot.phase = "closing"
        BY <1>1, LoopFacts DEF Pool!Slot
  <1>4. active' = [active EXCEPT ![w] = slot] /\ queue' = queue
    <2>1. active' = [active EXCEPT ![w].phase = "closing"] /\ queue' = queue
          BY DEF Pool!Fulfil
    <2>2. [active[w] EXCEPT !.phase = "closing"] = slot
          BY <1>1
    <2> QED
        BY <2>1, <2>2
  <1>5. /\ active' \in [Workers -> Pool!Slot] /\ active'[w] = slot /\ BlockOf(w)' = slot.sub
        /\ \A v \in Workers \ {w} : active'[v] = active[v] /\ BlockOf(v)' = BlockOf(v)
        /\ \A b : Pool!Executing(b)' <=>
              \/ slot = [sub |-> b, phase |-> "body"]
              \/ \E v \in Workers \ {w} : active[v].phase = "body" /\ BlockOf(v) = b
        BY <1>2, <1>3, <1>4, WorkerChanges
  <1>6. \A b : slot # [sub |-> b, phase |-> "body"]
    <2>1. \A b : [sub |-> b, phase |-> "body"].phase = "body"
          OBVIOUS
    <2> QED
        BY <1>3, <2>1
  <1>7. outcome' = [outcome EXCEPT ![b0] = x]
        OBVIOUS
  <1> HIDE DEF slot, b0
  <1>8. \A b : Pool!Executing(b)' <=> Pool!Executing(b) /\ b # b0
    <2>1. \A b : Pool!Executing(b) <=> \E v \in Workers : active[v].phase = "body" /\ BlockOf(v) = b
          BY <1>2, SlotForms
    <2>2. \A b : Pool!Executing(b)' <=> \E v \in Workers \ {w} : active[v].phase = "body" /\ BlockOf(v) = b
          BY <1>5, <1>6
    <2>3. BlockOf(w) = b0
          BY DEF b0
    <2> QED
        BY <1>1, <2>1, <2>2, <2>3
  <1>9. /\ Pool!Range(queue)' = Pool!Range(queue)
        /\ \A b : Submitted(b)' = Submitted(b)
        BY <1>4 DEF Pool!Range, Submitted
  <1>10. \A b : Pool!Ready(b)' <=> Pool!Ready(b) \/ b = b0
         BY <1>1, <1>8, <1>9 DEF Pool!Ready
  <1>11. /\ first' = first /\ last' = last /\ num' = num /\ AllBlocks' = AllBlocks
         /\ \A b : From(b)' = From(b) /\ To(b)' = To(b) /\ IndicesOf(b)' = IndicesOf(b)
         BY SameLoop
  <1>12. /\ outcome' \in [AllBlocks -> {"none", "value", "exception", "broken"}]
         /\ outcome'[b0] = x /\ \A b \in AllBlocks \ {b0} : outcome'[b] = outcome[b]
         BY <1>1, <1>2, <1>7
  <1>13. \A v \in Workers : /\ BlockOf(v)' = BlockOf(v)
                            /\ active'[v].phase # "idle" <=> active[v].phase # "idle"
                            /\ active'[v].phase = "body" <=> active[v].phase = "body" /\ v # w
    <2>1. BlockOf(w)' = BlockOf(w)
          BY <1>3, <1>5 DEF b0
    <2> QED
        BY <1>3, <1>5, <2>1
  <1>14. PLTypeOK'
         BY <1>4, <1>5, <1>11, <1>12 DEF LoopInv, PLTypeOK, Loops, Pool!TypeOK, Pool!Slot
  <1>15. BlocksInPlace'
    <2>1. \A b \in Pool!Range(queue)' : b \in AllBlocks /\ Submitted(b)'
          BY <1>9, LoopFacts
    <2>2. ASSUME NEW v \in Workers, active'[v].phase # "idle"
          PROVE  BlockOf(v)' \in AllBlocks \ Pool!Range(queue)' /\ Submitted(BlockOf(v))'
      <3>1. BlockOf(v) \in AllBlocks /\ BlockOf(v) \notin Pool!Range(queue) /\ Submitted(BlockOf(v))
            BY <1>13, <2>2, LoopFacts
      <3>2. Submitted(BlockOf(v))'
            BY <1>13, <3>1 DEF Submitted
      <3> QED
          BY <1>9, <1>13, <3>1, <3>2
    <2>3. \A v, u \in Workers : active'[v].phase # "idle" /\ BlockOf(v)' = BlockOf(u)' => v = u
          BY <1>13, LoopFacts
    <2>4. \A i, j \in 1 .. Len(queue') : queue'[i] = queue'[j] => i = j
          BY <1>4 DEF LoopInv, BlocksInPlace
    <2> QED
        BY <1>11, <2>1, <2>2, <2>3, <2>4 DEF BlocksInPlace
  <1>16. OutcomesKnown'
    <2>1. ASSUME NEW b \in AllBlocks
          PROVE  outcome'[b] # "none" <=> Submitted(b)' /\ Pool!Ready(b)'
      <3>1. CASE b = b0
            BY <1>1, <1>9, <1>10, <1>12, <3>1
      <3>2. CASE b # b0
            BY <1>9, <1>10, <1>12, <3>2, LoopFacts
      <3> QED
          BY <3>1, <3>2
    <2>2. submitter.pc = "get" /\ loop.kind = "submit" =>
             \A b \in AllBlocks : b < submitter.next => outcome'[b] = "value"
          BY <1>1, <1>12, LoopFacts
    <2>3. submitter.pc # "returned"
          BY <1>1, LoopFacts
    <2> QED
        BY <1>11, <2>1, <2>2, <2>3 DEF OutcomesKnown
  <1>17. CallsCounted'
    <2>1. ASSUME NEW b \in AllBlocks, NEW i \in IndicesOf(b)
          PROVE  /\ outcome'[b] = "none" /\ ~Pool!Executing(b)' => executed'[i] = 0
                 /\ outcome'[b] = "value" => executed'[i] = 1
      <3>1. CASE b = b0
        <4>1. \A j \in IndicesOf(b0) : x = "value" => executed'[j] = 1
              BY DEF b0
        <4> QED
            BY <1>12, <2>1, <3>1, <4>1
      <3>2. CASE b # b0
        <4>1. executed'[i] = executed[i]
              BY <2>1, <3>2 DEF b0
        <4> QED
            BY <1>8, <1>12, <2>1, <3>2, <4>1 DEF LoopInv, CallsCounted
      <3> QED
          BY <3>1, <3>2
    <2>2. ASSUME NEW v \in Workers, active'[v].phase = "body"
          PROVE  /\ index[v] \in From(BlockOf(v)) .. To(BlockOf(v))
                 /\ \A i \in IndicesOf(BlockOf(v)) : executed'[i] = IF i < index[v] THEN 1 ELSE 0
      <3>1. v # w /\ active[v].phase = "body"
            BY <1>13, <2>2
      <3>2. BlockOf(v) \in AllBlocks \ {b0}
            BY <1>1, <3>1, LoopFacts
      <3>3. \A i \in IndicesOf(BlockOf(v)) : executed'[i] = executed[i]
            BY <3>2 DEF b0
      <3> QED
          BY <3>1, <3>3 DEF LoopInv, CallsCounted
    <2>3. \A v \in Workers : active'[v].phase = "body" =>
             /\ index'[v] \in From(BlockOf(v)') .. To(BlockOf(v)')
             /\ \A i \in IndicesOf(BlockOf(v)') : executed'[i] = IF i < index'[v] THEN 1 ELSE 0
          BY <1>13, <2>2
    <2> QED
        BY <1>11, <2>1, <2>3 DEF CallsCounted, From, To, IndicesOf
  <1> QED
      BY <1>14, <1>15, <1>16, <1>17 DEF LoopInv

LEMMA ThrowKeepsInv ==
    ASSUME LoopInv, NEW w \in Workers, LoopThrows(w)
    PROVE  LoopInv'
  <1>1. /\ Running(w) /\ executed' = [executed EXCEPT ![index[w]] = @ + 1]
        /\ outcome' = [outcome EXCEPT ![BlockOf(w)] = "exception"]
        /\ Pool!Fulfil(w) /\ UNCHANGED <<loop, index, submitter>>
        BY DEF LoopThrows
  <1>2. active[w].phase = "body"
        BY <1>1 DEF Running
  <1> QED
      BY <1>1, <1>2, CallFacts, BlockEnds

LEMMA FinishKeepsInv ==
    ASSUME LoopInv, NEW w \in Workers, FinishBlock(w)
    PROVE  LoopInv'
  <1>1. /\ ~Running(w) /\ Pool!Fulfil(w) /\ outcome' = [outcome EXCEPT ![BlockOf(w)] = "value"]
        /\ UNCHANGED <<loop, index, submitter, executed>>
        BY DEF FinishBlock
  <1>2. active[w].phase = "body"
        BY <1>1 DEF Pool!Fulfil
  <1>3. ~(index[w] < To(BlockOf(w)))
        BY <1>1, <1>2 DEF Running, To
  <1>4. /\ BlockOf(w) \in AllBlocks /\ index[w] \in From(BlockOf(w)) .. To(BlockOf(w))
        /\ \A i \in IndicesOf(BlockOf(w)) : executed[i] = IF i < index[w] THEN 1 ELSE 0
        BY <1>2, BodyFacts
  <1>5. From(BlockOf(w)) \in Int /\ To(BlockOf(w)) \in Int
        BY <1>4, BlockProperties DEF LoopInv
  <1>6. index[w] = To(BlockOf(w))
        BY <1>3, <1>4, <1>5
  <1>7. \A i \in IndicesOf(BlockOf(w)) : i < To(BlockOf(w))
        BY <1>5 DEF IndicesOf
  <1>8. \A i \in IndicesOf(BlockOf(w)) : executed'[i] = 1
        BY <1>1, <1>4, <1>6, <1>7
  <1>9. executed' \in [Indices -> Nat] /\ \A b \in AllBlocks \ {BlockOf(w)} : \A i \in IndicesOf(b) : executed'[i] = executed[i]
        BY <1>1, LoopTyped
  <1>10. \A i \in Indices : executed'[i] \in {0, 1} /\ (i \notin first .. last - 1 => executed'[i] = 0)
         BY <1>1 DEF LoopInv, CallsCounted
  <1> QED
      BY <1>1, <1>2, <1>8, <1>9, <1>10, BlockEnds

LEMMA RetireKeepsInv ==
    ASSUME LoopInv, NEW w \in Workers, Retire(w)
    PROVE  LoopInv'
  <1>1. /\ active[w].phase = "closing" /\ active' = [active EXCEPT ![w] = Pool!IdleSlot]
        /\ UNCHANGED <<loop, queue, index, outcome, submitter, executed>>
        BY DEF Retire, Pool!Retire
  <1>2. active \in [Workers -> Pool!Slot]
        BY LoopTyped
  <1>3. Pool!IdleSlot \in Pool!Slot /\ Pool!IdleSlot.phase = "idle" /\ Pool!IdleSlot.sub = NoBlock
        BY DEF Pool!Slot, Pool!IdleSlot
  <1>4. /\ active' \in [Workers -> Pool!Slot] /\ active'[w] = Pool!IdleSlot /\ BlockOf(w)' = Pool!IdleSlot.sub
        /\ \A v \in Workers \ {w} : active'[v] = active[v] /\ BlockOf(v)' = BlockOf(v)
        /\ \A b : Pool!Executing(b)' <=>
              \/ Pool!IdleSlot = [sub |-> b, phase |-> "body"]
              \/ \E v \in Workers \ {w} : active[v].phase = "body" /\ BlockOf(v) = b
        BY <1>1, <1>2, <1>3, WorkerChanges
  <1>5. \A b : Pool!IdleSlot # [sub |-> b, phase |-> "body"]
    <2>1. \A b : [sub |-> b, phase |-> "body"].phase = "body"
          OBVIOUS
    <2> QED
        BY <1>3, <2>1
  <1>6. \A b : Pool!Executing(b)' <=> Pool!Executing(b)
    <2>1. \A b : Pool!Executing(b) <=> \E v \in Workers : active[v].phase = "body" /\ BlockOf(v) = b
          BY <1>2, SlotForms
    <2> QED
        BY <1>1, <1>4, <1>5, <2>1
  <1>7. /\ Pool!Range(queue)' = Pool!Range(queue)
        /\ \A b : Submitted(b)' = Submitted(b) /\ Pool!Ready(b)' = Pool!Ready(b)
    <2>1. Pool!Range(queue)' = Pool!Range(queue)
          BY <1>1 DEF Pool!Range
    <2>2. \A b : Submitted(b)' = Submitted(b)
          BY <1>1 DEF Submitted
    <2>3. \A b : Pool!Ready(b)' <=> Pool!Ready(b)
          BY <1>6, <2>1 DEF Pool!Ready
    <2>4. \A b : Pool!Ready(b)' \in BOOLEAN /\ Pool!Ready(b) \in BOOLEAN
          BY DEF Pool!Ready
    <2> QED
        BY <2>1, <2>2, <2>3, <2>4
  <1>8. /\ first' = first /\ last' = last /\ num' = num /\ AllBlocks' = AllBlocks
        /\ \A b : From(b)' = From(b) /\ To(b)' = To(b) /\ IndicesOf(b)' = IndicesOf(b)
        BY <1>1, SameLoop
  <1>9. PLTypeOK'
        BY <1>1, <1>4, <1>8 DEF LoopInv, PLTypeOK, Loops, Pool!TypeOK, Pool!Slot
  <1>10. BlocksInPlace'
    <2>1. \A b \in Pool!Range(queue)' : b \in AllBlocks /\ Submitted(b)'
          BY <1>7, LoopFacts
    <2>2. ASSUME NEW v \in Workers, active'[v].phase # "idle"
          PROVE  BlockOf(v)' \in AllBlocks \ Pool!Range(queue)' /\ Submitted(BlockOf(v))' /\ v # w /\ BlockOf(v) \in Nat
      <3>1. v # w
            BY <1>3, <1>4, <2>2
      <3>2. BlockOf(v) \in AllBlocks /\ BlockOf(v) \notin Pool!Range(queue) /\ Submitted(BlockOf(v)) /\ BlockOf(v) \in Nat
            BY <1>4, <2>2, <3>1, LoopFacts
      <3>3. Submitted(BlockOf(v))'
            BY <1>1, <1>4, <3>1, <3>2 DEF Submitted
      <3> QED
          BY <1>4, <1>7, <3>1, <3>2, <3>3
    <2>3. ASSUME NEW v \in Workers, NEW u \in Workers, active'[v].phase # "idle", BlockOf(v)' = BlockOf(u)'
          PROVE  v = u
      <3>1. v # w /\ BlockOf(v) \in Nat
            BY <2>2, <2>3
      <3>2. u # w
            BY <1>3, <1>4, <2>3, <3>1, LoopAssumption
      <3> QED
          BY <1>4, <2>3, <3>1, <3>2, LoopFacts
    <2>4. \A i, j \in 1 .. Len(queue') : queue'[i] = queue'[j] => i = j
          BY <1>1 DEF LoopInv, BlocksInPlace
    <2> QED
        BY <1>8, <2>1, <2>2, <2>3, <2>4 DEF BlocksInPlace
  <1>11. OutcomesKnown'
         BY <1>1, <1>7, <1>8 DEF LoopInv, OutcomesKnown
  <1>12. CallsCounted'
    <2>1. ASSUME NEW v \in Workers, active'[v].phase = "body"
          PROVE  /\ index'[v] \in From(BlockOf(v)') .. To(BlockOf(v)')
                 /\ \A i \in IndicesOf(BlockOf(v)') : executed'[i] = IF i < index'[v] THEN 1 ELSE 0
      <3>1. v # w
            BY <1>3, <1>4, <2>1
      <3> QED
          BY <1>1, <1>4, <2>1, <3>1 DEF LoopInv, CallsCounted
    <2>2. \A b \in AllBlocks : \A i \in IndicesOf(b) :
             /\ outcome[b] = "none" /\ ~Pool!Executing(b)' => executed[i] = 0
             /\ outcome[b] = "value" => executed[i] = 1
          BY <1>6 DEF LoopInv, CallsCounted
    <2>3. \A i \in Indices : executed[i] \in {0, 1} /\ (i \notin first .. last - 1 => executed[i] = 0)
          BY DEF LoopInv, CallsCounted
    <2> QED
        BY <1>1, <1>8, <2>1, <2>2, <2>3 DEF CallsCounted, From, To, IndicesOf
  <1> QED
      BY <1>9, <1>10, <1>11, <1>12 DEF LoopInv

LEMMA PurgeKeepsInv ==
    ASSUME LoopInv, Purge
    PROVE  LoopInv'
  <1>1. /\ queue' = <<>> /\ outcome' = [b \in AllBlocks |-> IF b \in Pool!Range(queue) THEN "broken" ELSE outcome[b]]
        /\ UNCHANGED <<loop, active, index, submitter, executed>>
        BY DEF Purge, Pool!Purge
  <1>2. queue' \in Seq(Nat) /\ Pool!Range(queue)' = {} /\ Len(queue') = 0
        BY <1>1 DEF Pool!Range
  <1>3. /\ first' = first /\ last' = last /\ num' = num /\ AllBlocks' = AllBlocks
        /\ \A b : From(b)' = From(b) /\ To(b)' = To(b) /\ IndicesOf(b)' = IndicesOf(b)
        BY <1>1, SameLoop
  <1>4. /\ \A b : Pool!Executing(b)' = Pool!Executing(b) /\ Submitted(b)' = Submitted(b)
        /\ \A v : BlockOf(v)' = BlockOf(v) /\ active'[v] = active[v]
        BY <1>1 DEF Pool!Executing, Submitted, BlockOf
  <1>5. \A b : Pool!Ready(b)' <=> ~Pool!Executing(b)
        BY <1>2, <1>4 DEF Pool!Ready
  <1>6. \A b \in Pool!Range(queue) : b \in AllBlocks /\ ~Pool!Executing(b) /\ Submitted(b) /\ outcome[b] = "none"
    <2>1. ASSUME NEW b \in Pool!Range(queue)
          PROVE  b \in AllBlocks /\ ~Pool!Executing(b) /\ Submitted(b) /\ outcome[b] = "none"
      <3>1. b \in AllBlocks /\ Submitted(b)
            BY LoopFacts
      <3>2. active \in [Workers -> Pool!Slot]
            BY LoopTyped
      <3>3. ~Pool!Executing(b)
            BY <3>2, LoopFacts, SlotForms
      <3>4. outcome[b] = "none"
            BY <3>1, LoopFacts DEF Pool!Ready
      <3> QED
          BY <3>1, <3>3, <3>4
    <2> QED
        BY <2>1
  <1>7. outcome' \in [AllBlocks -> {"none", "value", "exception", "broken"}]
        BY <1>1, LoopTyped
  <1>8. \A b \in AllBlocks : outcome'[b] = IF b \in Pool!Range(queue) THEN "broken" ELSE outcome[b]
        BY <1>1
  <1>9. PLTypeOK'
        BY <1>1, <1>2, <1>3, <1>7 DEF LoopInv, PLTypeOK, Loops, Pool!TypeOK, Pool!Slot
  <1>10. BlocksInPlace'
    <2>1. ASSUME NEW w \in Workers, active[w].phase # "idle"
          PROVE  BlockOf(w) \in AllBlocks /\ Submitted(BlockOf(w))'
          BY <1>4, <2>1, LoopFacts
    <2>2. ASSUME NEW w \in Workers, active'[w].phase # "idle"
          PROVE  BlockOf(w)' \in AllBlocks \ Pool!Range(queue)' /\ Submitted(BlockOf(w))'
      <3>1. BlockOf(w) \in AllBlocks /\ BlockOf(w)' = BlockOf(w) /\ Submitted(BlockOf(w))'
            BY <1>4, <2>1, <2>2
      <3> QED
          BY <1>2, <3>1
    <2>3. \A v, w \in Workers : active'[v].phase # "idle" /\ BlockOf(v)' = BlockOf(w)' => v = w
          BY <1>4, LoopFacts
    <2> QED
        BY <1>2, <1>3, <2>2, <2>3 DEF BlocksInPlace
  <1>11. OutcomesKnown'
    <2>1. ASSUME NEW b \in AllBlocks
          PROVE  /\ outcome'[b] # "none" <=> Submitted(b)' /\ Pool!Ready(b)'
                 /\ outcome[b] = "value" => outcome'[b] = "value"
                 /\ outcome[b] # "none" => outcome'[b] # "none"
      <3>1. CASE b \in Pool!Range(queue)
            BY <1>4, <1>5, <1>6, <1>8, <3>1
      <3>2. CASE b \notin Pool!Range(queue)
        <4>1. Pool!Ready(b) <=> ~Pool!Executing(b)
              BY <3>2 DEF Pool!Ready
        <4> QED
            BY <1>4, <1>5, <1>8, <3>2, <4>1, LoopFacts
      <3> QED
          BY <3>1, <3>2
    <2> QED
        BY <1>1, <1>3, <2>1, LoopFacts DEF OutcomesKnown
  <1>12. CallsCounted'
    <2>1. ASSUME NEW b \in AllBlocks, NEW i \in IndicesOf(b)
          PROVE  /\ outcome'[b] = "none" /\ ~Pool!Executing(b) => executed[i] = 0
                 /\ outcome'[b] = "value" => executed[i] = 1
          BY <1>8, <2>1 DEF LoopInv, CallsCounted
    <2> QED
        BY <1>1, <1>3, <1>4, <2>1 DEF LoopInv, CallsCounted
  <1> QED
      BY <1>9, <1>10, <1>11, <1>12 DEF LoopInv

LEMMA LoopInvNext == LoopInv /\ [PLNext]_PLvars => LoopInv'
  <1> SUFFICES ASSUME LoopInv, [PLNext]_PLvars
               PROVE  LoopInv'
      OBVIOUS
  <1>1. CASE SubmitBlock
        BY <1>1, SubmitKeepsInv
  <1>2. CASE SubmitDone \/ WaitForPool \/ GetFuture \/ GetReturns
        BY <1>2, SubmitterAdvances
  <1>3. ASSUME NEW w \in Workers, StartBlock(w) \/ CallLoop(w) \/ LoopThrows(w) \/ FinishBlock(w) \/ Retire(w)
        PROVE  LoopInv'
        BY <1>3, StartKeepsInv, CallKeepsInv, ThrowKeepsInv, FinishKeepsInv, RetireKeepsInv
  <1>4. CASE Purge
        BY <1>4, PurgeKeepsInv
  <1>5. CASE UNCHANGED PLvars
    <2>1. UNCHANGED <<loop, queue, active, index, outcome, submitter, executed>>
          BY <1>5 DEF PLvars
    <2>2. submitter' \in Submitters /\ \A b \in AllBlocks : Submitted(b)' <=> Submitted(b)
          BY <2>1, LoopTyped DEF Submitted
    <2> QED
        BY <2>1, <2>2, LoopFacts, SubmitterMoves
  <1> QED
      BY <1>1, <1>2, <1>3, <1>4, <1>5 DEF PLNext

LEMMA LoopInvImplies == LoopInv => LoopRunsAll
  <1> SUFFICES ASSUME LoopInv
               PROVE  LoopRunsAll
      OBVIOUS
  <1>1. first < last => IsPartition(first, last, num)
        BY BlockProperties DEF LoopInv
  <1>2. \A i \in Indices : executed[i] <= IF i \in first .. last - 1 THEN 1 ELSE 0
        BY DEF LoopInv, CallsCounted
  <1>3. ASSUME submitter.pc = "returned", NEW w \in Workers
        PROVE  active[w].phase # "body"
    <2>1. active[w].phase = "body" => BlockOf(w) \in AllBlocks /\ outcome[BlockOf(w)] = "none"
          BY BodyFacts
    <2> QED
        BY <1>3, <2>1, LoopFacts
  <1>4. ASSUME submitter.pc = "returned", NEW b \in AllBlocks
        PROVE  /\ loop.kind = "submit" => outcome[b] = "value"
               /\ outcome[b] # "none"
               /\ outcome[b] = "value" => \A i \in IndicesOf(b) : executed[i] = 1
    <2>1. outcome[b] # "none" /\ (loop.kind = "submit" => outcome[b] = "value")
          BY <1>4, LoopFacts
    <2>2. outcome[b] = "value" => \A i \in IndicesOf(b) : executed[i] = 1
          BY DEF LoopInv, CallsCounted
    <2> QED
        BY <2>1, <2>2
  <1> QED
      BY <1>1, <1>2, <1>3, <1>4 DEF LoopRunsAll

(* Each block is in one place, has an outcome when its future is ready,    *)
(* and the function was called with the indices before its worker's        *)
(* (detach_loop, submit_loop, multi_future::get).                          *)
THEOREM LoopInvHolds == PLSpec => []LoopInv
  <1> QED
      BY LoopInvInit, LoopInvNext, PTL DEF PLSpec

(* A parallel loop is equivalent to the sequential one, for every number   *)
(* of workers and blocks and every range of indices: no index is executed  *)
(* twice or outside of the range, and when get() returns all were.         *)
THEOREM LoopRuns == PLSpec => []LoopRunsAll
  <1> QED
      BY LoopInvHolds, LoopInvImplies, PTL

-----------------------------------------------------------------------------
(* StringSplit, the ArgumentParser and the CycleTimer                      *)

(* A recursive definition that goes up the positions, and ends at some.    *)
Descends(f, n, ends, end, part, next) ==
    f = [p \in 1 .. n |-> IF ends[p] THEN end[p] ELSE part[p] \o f[next[p]]]

LEMMA DescendingFunction ==
    ASSUME NEW n \in Nat, NEW ends, NEW end, NEW part, NEW next,
           \A p \in 1 .. n : ~ends[p] => next[p] \in p + 1 .. n
    PROVE  \E f : Descends(f, n, ends, end, part, next)
<1> DEFINE Rhs(f, p) == IF ends[p] THEN end[p] ELSE part[p] \o f[next[p]]
           Solves(k, f) == \A p \in 1 .. n : p > n - k => f[p] = Rhs(f, p)
<1>1. ASSUME NEW k \in Nat, NEW f, Solves(k, f) PROVE \E g : Solves(k + 1, g)
  <2>1. PICK g : g = [p \in 1 .. n |-> IF p = n - k THEN Rhs(f, p) ELSE f[p]]
    OBVIOUS
  <2>2. ASSUME NEW p \in 1 .. n, p > n - (k + 1) PROVE g[p] = Rhs(g, p)
    <3>1. g[p] = IF p = n - k THEN Rhs(f, p) ELSE f[p]
      BY <2>1
    <3>2. p # n - k => p > n - k
      BY <2>2
    <3>3. g[p] = Rhs(f, p)
      BY <1>1, <3>1, <3>2
    <3>4. CASE ends[p]
      BY <3>3, <3>4
    <3>5. CASE ~ends[p]
      <4>1. next[p] \in p + 1 .. n
        BY <3>5
      <4>2. PICK q \in 1 .. n : q = next[p] /\ q # n - k
        BY <2>2, <4>1
      <4>3. g[q] = f[q]
        BY <2>1, <4>2
      <4> QED BY <3>3, <3>5, <4>2, <4>3
    <3> QED BY <3>4, <3>5
  <2> QED BY <2>2
<1>2. Solves(0, <<>>)
  OBVIOUS
<1> HIDE DEF Solves
<1>3. \A k \in Nat : \E f : Solves(k, f)
  <2> DEFINE T == {k \in Nat : ~ \E f : Solves(k, f)}
  <2>1. SUFFICES ASSUME T # {} PROVE FALSE
    OBVIOUS
  <2>2. PICK k \in T : \A j \in T : k <= j
    BY <2>1, LeastElement
  <2>3. k # 0
    BY <1>2
  <2>4. PICK j \in Nat : j + 1 = k
    BY <2>3
  <2>5. j \notin T
    BY <2>2, <2>4
  <2> QED BY <1>1, <2>4, <2>5
<1>4. PICK f : Solves(n, f)
  BY <1>3
<1>5. \A p \in 1 .. n : f[p] = Rhs(f, p)
  BY <1>4 DEF Solves
<1>6. PICK g : g = [p \in 1 .. n |-> f[p]]
  OBVIOUS
<1>7. \A p \in 1 .. n : Rhs(g, p) = Rhs(f, p)
  <2>1. ASSUME NEW p \in 1 .. n, ~ends[p] PROVE g[next[p]] = f[next[p]]
    <3>1. next[p] \in 1 .. n
      BY <2>1
    <3> QED BY <1>6, <3>1
  <2> QED BY <2>1
<1>8. g = [p \in 1 .. n |-> Rhs(g, p)]
  BY <1>5, <1>6, <1>7
<1> QED BY <1>8 DEF Descends

(* Where the parts of a text begin. *)
Delimiters(input, delim, pos) == {i \in pos .. Len(input) : input[i] = delim}

(* What StringSplit says of the parts from a position on, and that there   *)
(* are parts of which it can be said.                                      *)
SplitsFrom(from, input, delim) ==
    \A p \in 1 .. Len(input) + 1 :
        IF Delimiters(input, delim, p) = {} THEN from[p] = <<SubSeq(input, p, Len(input))>>
        ELSE \E m \in p .. Len(input) :
                /\ input[m] = delim /\ \A i \in p .. m - 1 : input[i] # delim
                /\ from[p] = <<SubSeq(input, p, m - 1)>> \o from[m + 1]

LEMMA SplitDefined ==
    ASSUME NEW S, NEW input \in Seq(S), NEW delim
    PROVE  \E from : StringSplit(input, delim) = from[1] /\ SplitsFrom(from, input, delim)
<1> DEFINE Parts(p) == <<SubSeq(input, p, Min(Delimiters(input, delim, p)) - 1)>>
           Next(p)  == Min(Delimiters(input, delim, p)) + 1
           Rest(p)  == <<SubSeq(input, p, Len(input))>>
           Def(g)   == g = [pos \in 1 .. Len(input) + 1 |->
                              LET found == {i \in pos .. Len(input) : input[i] = delim}
                              IN  IF found = {} THEN <<SubSeq(input, pos, Len(input))>>
                                  ELSE <<SubSeq(input, pos, Min(found) - 1)>> \o g[Min(found) + 1]]
           Same(g)  == g = [p \in 1 .. Len(input) + 1 |->
                              IF Delimiters(input, delim, p) = {} THEN Rest(p) ELSE Parts(p) \o g[Next(p)]]
<1>1. Len(input) \in Nat
  OBVIOUS
<1>2. ASSUME NEW p \in 1 .. Len(input) + 1, Delimiters(input, delim, p) # {}
      PROVE  /\ Min(Delimiters(input, delim, p)) \in p .. Len(input)
             /\ input[Min(Delimiters(input, delim, p))] = delim
             /\ \A i \in p .. Min(Delimiters(input, delim, p)) - 1 : input[i] # delim
  <2>1. Delimiters(input, delim, p) \subseteq Nat
    BY DEF Delimiters
  <2>2. \E x \in Delimiters(input, delim, p) : \A y \in Delimiters(input, delim, p) : x <= y
    BY <1>2, <2>1, LeastElement, Zenon
  <2>3. PICK m \in Delimiters(input, delim, p) :
           m = Min(Delimiters(input, delim, p)) /\ \A y \in Delimiters(input, delim, p) : m <= y
    BY <2>2, Zenon DEF Min
  <2>4. m \in p .. Len(input) /\ input[m] = delim
    BY <2>3 DEF Delimiters
  <2>5. ASSUME NEW i \in p .. m - 1 PROVE input[i] # delim
    <3>1. i \in p .. Len(input) /\ ~(m <= i)
      BY <1>1, <2>4
    <3> QED BY <2>3, <3>1 DEF Delimiters
  <2> QED BY <2>3, <2>4, <2>5
<1>3. \E g : Same(g)
  <2>1. PICK n, ends, end, part, next :
           /\ n = Len(input) + 1
           /\ ends = [p \in 1 .. n |-> Delimiters(input, delim, p) = {}]
           /\ end = [p \in 1 .. n |-> Rest(p)] /\ part = [p \in 1 .. n |-> Parts(p)]
           /\ next = [p \in 1 .. n |-> Next(p)]
    OBVIOUS
  <2>2. n \in Nat
    BY <1>1, <2>1
  <2> HIDE DEF Rest, Parts, Next
  <2>3. \A p \in 1 .. n : ~ends[p] => next[p] \in p + 1 .. n
    <3>1. ASSUME NEW p \in 1 .. n, ~ends[p] PROVE next[p] \in p + 1 .. n
      <4>1. next[p] = Next(p) /\ Delimiters(input, delim, p) # {}
        BY <2>1, <3>1
      <4>2. Min(Delimiters(input, delim, p)) \in p .. Len(input)
        BY <1>2, <2>1, <4>1
      <4> QED BY <1>1, <2>1, <4>1, <4>2 DEF Next
    <3> QED BY <3>1
  <2>4. PICK f : Descends(f, n, ends, end, part, next)
    BY <2>2, <2>3, DescendingFunction
  <2>5. f = [p \in 1 .. n |-> IF ends[p] THEN end[p] ELSE part[p] \o f[next[p]]]
    BY <2>4 DEF Descends
  <2>6. ASSUME NEW p \in 1 .. n
        PROVE  (IF ends[p] THEN end[p] ELSE part[p] \o f[next[p]])
                  = IF Delimiters(input, delim, p) = {} THEN Rest(p) ELSE Parts(p) \o f[Next(p)]
    BY <2>1
  <2>7. f = [p \in 1 .. n |-> IF Delimiters(input, delim, p) = {} THEN Rest(p) ELSE Parts(p) \o f[Next(p)]]
    BY <2>5, <2>6
  <2> QED BY <2>1, <2>7
<1>4. \A g : Same(g) <=> Def(g)
  BY DEF Delimiters
<1>5. PICK from : from = CHOOSE g : Def(g)
  OBVIOUS
<1>6. StringSplit(input, delim) = from[1]
  BY <1>5 DEF StringSplit
<1>7. Same(from)
  <2> HIDE DEF Same, Def
  <2> QED BY <1>3, <1>4, <1>5
<1>8. ASSUME NEW p \in 1 .. Len(input) + 1
      PROVE  from[p] = IF Delimiters(input, delim, p) = {} THEN Rest(p) ELSE Parts(p) \o from[Next(p)]
  <2> HIDE DEF Rest, Parts, Next
  <2> QED BY <1>7
<1>9. SplitsFrom(from, input, delim)
  <2>1. SUFFICES ASSUME NEW p \in 1 .. Len(input) + 1, Delimiters(input, delim, p) # {}
                 PROVE  \E m \in p .. Len(input) :
                           /\ input[m] = delim /\ \A i \in p .. m - 1 : input[i] # delim
                           /\ from[p] = <<SubSeq(input, p, m - 1)>> \o from[m + 1]
    BY <1>8 DEF SplitsFrom
  <2>2. from[p] = Parts(p) \o from[Next(p)]
    BY <1>8, <2>1
  <2> QED BY <1>2, <2>1, <2>2
<1> QED BY <1>6, <1>9

(* A part and the rest, joined: with what is before a delimiter and what   *)
(* comes after it, the text is whole.                                      *)
LEMMA SplitInTwo ==
    ASSUME NEW S, NEW s \in Seq(S), NEW p \in 1 .. Len(s), NEW m \in p .. Len(s)
    PROVE  SubSeq(s, p, m - 1) \o <<s[m]>> \o SubSeq(s, m + 1, Len(s)) = SubSeq(s, p, Len(s))
<1>1. PICK n \in Nat : n = Len(s)
  OBVIOUS
<1>2. PICK a : a = SubSeq(s, p, m - 1)
  OBVIOUS
<1>3. a \in Seq(S) /\ Len(a) = m - p /\ \A i \in 1 .. m - p : a[i] = s[p + i - 1]
  BY <1>1, <1>2
<1>4. PICK b : b = SubSeq(s, m + 1, n)
  OBVIOUS
<1>5. b \in Seq(S) /\ Len(b) = n - m /\ \A i \in 1 .. n - m : b[i] = s[m + i]
  BY <1>1, <1>4
<1>6. PICK c : c = <<s[m]>>
  OBVIOUS
<1>7. c \in Seq(S) /\ Len(c) = 1 /\ c[1] = s[m]
  BY <1>1, <1>6
<1>8. PICK d : d = SubSeq(s, p, n)
  OBVIOUS
<1>9. d \in Seq(S) /\ Len(d) = n - p + 1 /\ \A i \in 1 .. n - p + 1 : d[i] = s[p + i - 1]
  BY <1>1, <1>8
<1>10. PICK f : f = a \o c
  OBVIOUS
<1>11. f \in Seq(S) /\ Len(f) = m - p + 1 /\ \A i \in 1 .. m - p + 1 : f[i] = IF i <= m - p THEN a[i] ELSE c[i - (m - p)]
  <2>1. /\ f \in Seq(S) /\ Len(f) = Len(a) + Len(c)
        /\ \A i \in 1 .. Len(a) + Len(c) : f[i] = IF i <= Len(a) THEN a[i] ELSE c[i - Len(a)]
    BY <1>3, <1>7, <1>10, ConcatProperties, Zenon
  <2>2. Len(a) = m - p /\ Len(c) = 1 /\ (m - p) + 1 = m - p + 1
    BY <1>3, <1>7
  <2> QED BY <2>1, <2>2
<1>12. PICK e : e = f \o b
  OBVIOUS
<1>13. /\ e \in Seq(S) /\ Len(e) = n - p + 1
       /\ \A i \in 1 .. n - p + 1 : e[i] = IF i <= m - p + 1 THEN f[i] ELSE b[i - (m - p + 1)]
  <2>1. /\ e \in Seq(S) /\ Len(e) = Len(f) + Len(b)
        /\ \A i \in 1 .. Len(f) + Len(b) : e[i] = IF i <= Len(f) THEN f[i] ELSE b[i - Len(f)]
    BY <1>5, <1>11, <1>12, ConcatProperties, Zenon
  <2>2. Len(f) + Len(b) = n - p + 1
    BY <1>1, <1>5, <1>11
  <2>3. Len(f) = m - p + 1
    BY <1>11
  <2> QED BY <2>1, <2>2, <2>3
<1>14. \A i \in 1 .. n - p + 1 : e[i] = d[i]
  <2> SUFFICES ASSUME NEW i \in 1 .. n - p + 1 PROVE e[i] = d[i]
    OBVIOUS
  <2>1. d[i] = s[p + i - 1]
    BY <1>9
  <2>2. CASE i <= m - p
    <3>1. i \in 1 .. m - p /\ i \in 1 .. m - p + 1
      BY <2>2
    <3>2. e[i] = a[i]
      BY <1>11, <1>13, <2>2, <3>1
    <3> QED BY <1>3, <2>1, <3>1, <3>2
  <2>3. CASE i = m - p + 1
    <3>1. i \in 1 .. m - p + 1 /\ ~(i <= m - p) /\ i - (m - p) = 1 /\ p + i - 1 = m
      BY <2>3
    <3>2. e[i] = c[1]
      BY <1>11, <1>13, <3>1
    <3> QED BY <1>7, <2>1, <3>1, <3>2
  <2>4. CASE i > m - p + 1
    <3>1. PICK k \in 1 .. n - m : k = i - (m - p + 1)
      BY <1>1, <2>4
    <3>2. e[i] = b[k] /\ p + i - 1 = m + k
      BY <1>1, <1>13, <2>4, <3>1
    <3> QED BY <1>5, <2>1, <3>1, <3>2
  <2> QED BY <1>1, <2>2, <2>3, <2>4
<1>15. e = d
  BY <1>9, <1>13, <1>14
<1> QED BY <1>1, <1>2, <1>4, <1>6, <1>8, <1>10, <1>12, <1>15

(* The parts joined again, as SplitAgrees joins them. *)
Joins(joined, parts, delim) ==
    joined = [i \in 1 .. Len(parts) |->
                 IF i = Len(parts) THEN parts[i] ELSE parts[i] \o <<delim>> \o joined[i + 1]]

(* What SplitAgrees says, of the parts of the text from a position on. *)
SplitFrom(parts, S, input, delim, p) ==
    /\ parts \in Seq(Seq(S)) /\ Len(parts) # 0
    /\ \A i \in 1 .. Len(parts) : delim \notin ToSet(parts[i])
    /\ \A joined : Joins(joined, parts, delim) => joined[1] = SubSeq(input, p, Len(input))

(* A part of the text without a delimiter in it. *)
LEMMA WithoutDelimiter ==
    ASSUME NEW S, NEW s \in Seq(S), NEW delim, NEW p \in 1 .. Len(s) + 1, NEW q \in p - 1 .. Len(s),
           \A i \in p .. q : s[i] # delim
    PROVE  SubSeq(s, p, q) \in Seq(S) /\ delim \notin ToSet(SubSeq(s, p, q))
<1>1. PICK a : a = SubSeq(s, p, q)
  OBVIOUS
<1>2. a \in Seq(S) /\ Len(a) = q - p + 1 /\ \A i \in 1 .. q - p + 1 : a[i] = s[p + i - 1]
  BY <1>1
<1>3. DOMAIN a = 1 .. q - p + 1
  BY <1>2
<1>4. \A i \in DOMAIN a : a[i] # delim
  <2>1. \A i \in 1 .. q - p + 1 : p + i - 1 \in p .. q
    OBVIOUS
  <2> QED BY <1>2, <1>3, <2>1
<1> QED BY <1>1, <1>2, <1>4 DEF ToSet

LEMMA LastPart ==
    ASSUME NEW S, NEW input \in Seq(S), NEW delim, NEW p \in 1 .. Len(input) + 1,
           Delimiters(input, delim, p) = {}, NEW parts, parts = <<SubSeq(input, p, Len(input))>>
    PROVE  SplitFrom(parts, S, input, delim, p)
<1>1. PICK a : a = SubSeq(input, p, Len(input))
  OBVIOUS
<1>2. a \in Seq(S) /\ delim \notin ToSet(a)
  <2>1. \A i \in p .. Len(input) : input[i] # delim
    BY DEF Delimiters
  <2>2. Len(input) \in p - 1 .. Len(input)
    OBVIOUS
  <2> QED BY <1>1, <2>1, <2>2, WithoutDelimiter
<1>3. parts \in Seq(Seq(S)) /\ Len(parts) = 1 /\ parts[1] = a
  BY <1>1, <1>2
<1>4. ASSUME NEW joined, Joins(joined, parts, delim) PROVE joined[1] = SubSeq(input, p, Len(input))
  <2>1. \A i \in 1 .. Len(parts) :
           joined[i] = IF i = Len(parts) THEN parts[i] ELSE parts[i] \o <<delim>> \o joined[i + 1]
    BY <1>4 DEF Joins
  <2>2. 1 \in 1 .. Len(parts) /\ 1 = Len(parts)
    BY <1>3
  <2> QED BY <1>1, <1>3, <2>1, <2>2
<1>5. \A i \in 1 .. Len(parts) : delim \notin ToSet(parts[i])
  <2>1. \A i \in 1 .. Len(parts) : i = 1
    BY <1>3
  <2> QED BY <1>2, <1>3, <2>1
<1>6. Len(parts) # 0
  BY <1>3
<1> HIDE DEF Joins
<1> QED BY <1>3, <1>4, <1>5, <1>6 DEF SplitFrom

LEMMA PartBefore ==
    ASSUME NEW S, NEW input \in Seq(S), NEW delim, NEW p \in 1 .. Len(input), NEW m \in p .. Len(input),
           input[m] = delim, \A i \in p .. m - 1 : input[i] # delim,
           NEW rest, SplitFrom(rest, S, input, delim, m + 1),
           NEW parts, parts = <<SubSeq(input, p, m - 1)>> \o rest
    PROVE  SplitFrom(parts, S, input, delim, p)
<1>1. PICK a : a = SubSeq(input, p, m - 1)
  OBVIOUS
<1>2. a \in Seq(S) /\ delim \notin ToSet(a)
  <2>1. p \in 1 .. Len(input) + 1 /\ m - 1 \in p - 1 .. Len(input)
    OBVIOUS
  <2> QED BY <1>1, <2>1, WithoutDelimiter
<1>3. PICK n \in Nat : n = Len(rest)
  BY DEF SplitFrom
<1>4. /\ rest \in Seq(Seq(S)) /\ n # 0
      /\ \A i \in 1 .. n : delim \notin ToSet(rest[i])
      /\ \A joined : Joins(joined, rest, delim) => joined[1] = SubSeq(input, m + 1, Len(input))
  BY <1>3 DEF SplitFrom
<1>5. /\ parts \in Seq(Seq(S)) /\ Len(parts) = n + 1 /\ parts[1] = a
      /\ \A i \in 1 .. n : parts[i + 1] = rest[i]
  <2>1. PICK one : one = <<a>>
    OBVIOUS
  <2>2. one \in Seq(Seq(S)) /\ Len(one) = 1 /\ one[1] = a
    BY <1>2, <2>1
  <2> DEFINE T == Seq(S)
  <2> HIDE DEF T
  <2>3. parts = one \o rest
    BY <1>1, <2>1
  <2>4. one \in Seq(T) /\ rest \in Seq(T)
    BY <1>4, <2>2 DEF T
  <2>5. /\ parts \in Seq(T) /\ Len(parts) = Len(one) + Len(rest)
        /\ \A i \in 1 .. Len(one) + Len(rest) : parts[i] = IF i <= Len(one) THEN one[i] ELSE rest[i - Len(one)]
    BY <2>3, <2>4, ConcatProperties, ZenonT(40)
  <2>6. Len(one) + Len(rest) = n + 1
    BY <1>3, <2>2
  <2>7. \A i \in 1 .. n : i + 1 \in 1 .. n + 1 /\ ~(i + 1 <= 1) /\ (i + 1) - 1 = i
    OBVIOUS
  <2>8. 1 \in 1 .. n + 1
    BY <1>3
  <2>9. parts \in Seq(Seq(S))
    BY <2>5 DEF T
  <2> QED BY <1>3, <2>2, <2>5, <2>6, <2>7, <2>8, <2>9
<1>6. \A i \in 1 .. n + 1 : i = 1 \/ \E j \in 1 .. n : i = j + 1
  <2>1. \A i \in 1 .. n + 1 : i # 1 => i - 1 \in 1 .. n /\ i = (i - 1) + 1
    BY <1>3
  <2> QED BY <2>1
<1>7. \A i \in 1 .. Len(parts) : delim \notin ToSet(parts[i])
  <2>1. ASSUME NEW i \in 1 .. n + 1 PROVE delim \notin ToSet(parts[i])
    <3>1. CASE i = 1
      BY <1>2, <1>5, <3>1
    <3>2. ASSUME NEW j \in 1 .. n, i = j + 1 PROVE delim \notin ToSet(parts[i])
      <4>1. parts[i] = rest[j]
        BY <1>5, <3>2
      <4> QED BY <1>4, <4>1
    <3> QED BY <1>6, <3>1, <3>2
  <2> QED BY <1>5, <2>1
<1>8. ASSUME NEW joined, Joins(joined, parts, delim)
      PROVE  joined[1] = SubSeq(input, p, Len(input))
  <2>1. \A i \in 1 .. n + 1 : joined[i] = IF i = n + 1 THEN parts[i] ELSE parts[i] \o <<delim>> \o joined[i + 1]
    BY <1>5, <1>8 DEF Joins
  <2>2. PICK tail : tail = [i \in 1 .. n |-> joined[i + 1]]
    OBVIOUS
  <2>3. ASSUME NEW i \in 1 .. n
        PROVE  joined[i + 1] = IF i = n THEN rest[i] ELSE rest[i] \o <<delim>> \o tail[i + 1]
    <3>1. i + 1 \in 1 .. n + 1 /\ (i + 1 = n + 1 <=> i = n)
      BY <1>3
    <3>2. joined[i + 1] = IF i = n THEN rest[i] ELSE rest[i] \o <<delim>> \o joined[(i + 1) + 1]
      BY <1>5, <2>1, <3>1
    <3>3. i # n => tail[i + 1] = joined[(i + 1) + 1]
      BY <1>3, <2>2
    <3> QED BY <3>2, <3>3
  <2>4. tail = [i \in 1 .. n |-> IF i = n THEN rest[i] ELSE rest[i] \o <<delim>> \o tail[i + 1]]
    BY <2>2, <2>3
  <2>5. Joins(tail, rest, delim)
    BY <1>3, <2>4 DEF Joins
  <2>6. tail[1] = SubSeq(input, m + 1, Len(input))
    BY <1>4, <2>5
  <2>7. tail[1] = joined[2]
    BY <1>3, <1>4, <2>2
  <2>8. joined[1] = a \o <<delim>> \o joined[2]
    <3>1. 1 \in 1 .. n + 1 /\ 1 # n + 1 /\ 1 + 1 = 2
      BY <1>3, <1>4
    <3> QED BY <1>5, <2>1, <3>1
  <2>9. a \o <<input[m]>> \o SubSeq(input, m + 1, Len(input)) = SubSeq(input, p, Len(input))
    BY <1>1, SplitInTwo
  <2> QED BY <2>6, <2>7, <2>8, <2>9
<1>9. Len(parts) # 0
  BY <1>3, <1>5
<1> HIDE DEF Joins
<1> QED BY <1>5, <1>7, <1>8, <1>9 DEF SplitFrom

(* StringSplit loses nothing of any text, and leaves no delimiter in a     *)
(* part.                                                                   *)
THEOREM SplitAgreesForAll == \A S : \A input \in Seq(S) : \A delim : SplitAgrees(input, delim)
<1> SUFFICES ASSUME NEW S, NEW input \in Seq(S), NEW delim PROVE SplitAgrees(input, delim)
  OBVIOUS
<1>1. PICK from : StringSplit(input, delim) = from[1] /\ SplitsFrom(from, input, delim)
  BY SplitDefined
<1>2. PICK n \in Nat : n = Len(input)
  OBVIOUS
<1> DEFINE T == {k \in Nat : k <= n /\ ~SplitFrom(from[n + 1 - k], S, input, delim, n + 1 - k)}
<1>3. ASSUME T # {} PROVE FALSE
  <2>1. PICK k \in T : \A j \in T : k <= j
    BY <1>3, LeastElement
  <2>2. PICK p \in 1 .. n + 1 : p = n + 1 - k
    BY <2>1
  <2>3. ~SplitFrom(from[p], S, input, delim, p)
    BY <2>1, <2>2
  <2>4. Delimiters(input, delim, p) # {}
    <3>1. Delimiters(input, delim, p) = {} => from[p] = <<SubSeq(input, p, Len(input))>>
      BY <1>1, <1>2 DEF SplitsFrom
    <3>2. p \in 1 .. Len(input) + 1
      BY <1>2
    <3> QED BY <2>3, <3>1, <3>2, LastPart
  <2>5. PICK m \in p .. n : /\ input[m] = delim /\ \A i \in p .. m - 1 : input[i] # delim
                            /\ from[p] = <<SubSeq(input, p, m - 1)>> \o from[m + 1]
    BY <1>1, <1>2, <2>4 DEF SplitsFrom
  <2>6. n - m \in Nat
    BY <1>2, <2>2
  <2>7. PICK j \in Nat : j = n - m
    BY <2>6
  <2>8. j < k /\ j <= n /\ m + 1 = n + 1 - j
    BY <1>2, <2>2, <2>7
  <2>9. SplitFrom(from[m + 1], S, input, delim, m + 1)
    BY <2>1, <2>8
  <2>10. p \in 1 .. Len(input) /\ m \in p .. Len(input)
    BY <1>2
  <2> QED BY <2>3, <2>5, <2>9, <2>10, PartBefore
<1>4. SplitFrom(from[1], S, input, delim, 1)
  <2>1. n \in Nat /\ n <= n /\ n + 1 - n = 1
    OBVIOUS
  <2> QED BY <1>3, <2>1
<1>5. PICK parts : parts = StringSplit(input, delim)
  OBVIOUS
<1>6. /\ parts \in Seq(Seq(S)) /\ Len(parts) # 0
      /\ \A i \in 1 .. Len(parts) : delim \notin ToSet(parts[i])
      /\ \A joined : Joins(joined, parts, delim) => joined[1] = SubSeq(input, 1, n)
  BY <1>1, <1>2, <1>4, <1>5 DEF SplitFrom
<1>7. SubSeq(input, 1, n) = input
  BY <1>2
<1>8. \E joined : Joins(joined, parts, delim)
  <2>1. PICK l \in Nat : l = Len(parts)
    BY <1>6
  <2>2. PICK ends, before, next : /\ ends = [i \in 1 .. l |-> i = l]
                                  /\ before = [i \in 1 .. l |-> parts[i] \o <<delim>>]
                                  /\ next = [i \in 1 .. l |-> i + 1]
    OBVIOUS
  <2>3. \A i \in 1 .. l : ~ends[i] => next[i] \in i + 1 .. l
    <3>1. \A i \in 1 .. l : i # l => i + 1 \in i + 1 .. l
      BY <2>1
    <3> QED BY <2>2, <3>1
  <2>4. PICK f : Descends(f, l, ends, parts, before, next)
    BY <2>3, DescendingFunction
  <2>5. f = [i \in 1 .. l |-> IF ends[i] THEN parts[i] ELSE before[i] \o f[next[i]]]
    BY <2>4 DEF Descends
  <2>6. f = [i \in 1 .. l |-> IF i = l THEN parts[i] ELSE parts[i] \o <<delim>> \o f[i + 1]]
    BY <2>2, <2>5
  <2> QED BY <2>1, <2>6 DEF Joins
<1>9. PICK joined : joined = CHOOSE g : Joins(g, StringSplit(input, delim), delim)
  OBVIOUS
<1>10. joined[1] = input
  <2>1. \E g : Joins(g, StringSplit(input, delim), delim)
    BY <1>5, <1>8
  <2>2. Joins(joined, StringSplit(input, delim), delim)
    <3> HIDE DEF Joins, StringSplit
    <3> QED BY <1>9, <2>1, Zenon
  <2> QED BY <1>5, <1>6, <1>7, <2>2
<1>11. /\ StringSplit(input, delim) # <<>>
       /\ \A i \in 1 .. Len(StringSplit(input, delim)) : delim \notin ToSet(StringSplit(input, delim)[i])
  BY <1>5, <1>6
<1>12. (CHOOSE g : Joins(g, StringSplit(input, delim), delim))[1] = input
  BY <1>9, <1>10
<1> QED BY <1>11, <1>12 DEF SplitAgrees, Joins

(* What FlattenSeq makes of pairs: the values one after the other.         *)
LEMMA Halves ==
    ASSUME NEW k \in Nat \ {0}
    PROVE  \E j \in Nat \ {0} : k = 2 * j - 1 \/ k = 2 * j
<1>1. PICK n \in Nat : n + 1 = k
  OBVIOUS
<1>2. PICK h \in Nat, r \in 0 .. 1 : n = 2 * h + r
  <2>1. n \div 2 \in Nat /\ n % 2 \in 0 .. 1 /\ n = 2 * (n \div 2) + (n % 2)
    OBVIOUS
  <2> QED BY <2>1
<1>3. k = 2 * (h + 1) - 1 \/ k = 2 * (h + 1)
  BY <1>1, <1>2
<1>4. h + 1 \in Nat \ {0}
  OBVIOUS
<1> QED BY <1>3, <1>4, Zenon

LEMMA PairIsSeq ==
    ASSUME NEW S, NEW pair \in S \X S
    PROVE  pair \in Seq(S) /\ Len(pair) = 2 /\ ToSet(pair) = {pair[1], pair[2]}
<1>1. PICK a \in S, b \in S : pair = <<a, b>>
  OBVIOUS
<1>2. <<a, b>> \in Seq(S) /\ Len(<<a, b>>) = 2 /\ <<a, b>>[1] = a /\ <<a, b>>[2] = b
  OBVIOUS
<1>3. pair \in Seq(S) /\ Len(pair) = 2 /\ pair[1] = a /\ pair[2] = b
  BY <1>1, <1>2, Zenon
<1>4. DOMAIN pair = {1, 2}
  BY <1>3
<1> QED BY <1>3, <1>4 DEF ToSet

(* That view is the arguments of the first n pairs. *)
Views(view, pairs, n) ==
    /\ Len(view) = 2 * n
    /\ \A j \in 1 .. n : view[2 * j - 1] = pairs[j][1] /\ view[2 * j] = pairs[j][2]

LEMMA ViewGrows ==
    ASSUME NEW S, NEW pairs \in Seq(S \X S), NEW n \in Nat, n + 1 \in 1 .. Len(pairs),
           NEW view \in Seq(S), Views(view, pairs, n), NEW longer, longer = view \o pairs[n + 1]
    PROVE  longer \in Seq(S) /\ Views(longer, pairs, n + 1)
<1>1. PICK pair : pair = pairs[n + 1]
  OBVIOUS
<1>2. pair \in Seq(S) /\ Len(pair) = 2
  <2>1. pairs[n + 1] \in S \X S
    OBVIOUS
  <2> QED BY <1>1, <2>1, PairIsSeq
<1>3. /\ longer \in Seq(S) /\ Len(longer) = Len(view) + Len(pair)
      /\ \A i \in 1 .. Len(view) + Len(pair) : longer[i] = IF i <= Len(view) THEN view[i] ELSE pair[i - Len(view)]
  BY <1>1, <1>2, ConcatProperties, Zenon
<1>4. Len(view) = 2 * n /\ Len(view) + Len(pair) = 2 * (n + 1)
  BY <1>2 DEF Views
<1>5. ASSUME NEW j \in 1 .. n + 1 PROVE longer[2 * j - 1] = pairs[j][1] /\ longer[2 * j] = pairs[j][2]
  <2>1. 2 * j - 1 \in 1 .. 2 * (n + 1) /\ 2 * j \in 1 .. 2 * (n + 1)
    OBVIOUS
  <2>2. CASE j = n + 1
    <3>1. ~(2 * j - 1 <= 2 * n) /\ ~(2 * j <= 2 * n) /\ 2 * j - 1 - 2 * n = 1 /\ 2 * j - 2 * n = 2
      BY <2>2
    <3>2. longer[2 * j - 1] = pair[1] /\ longer[2 * j] = pair[2]
      BY <1>3, <1>4, <2>1, <3>1
    <3> QED BY <1>1, <2>2, <3>2
  <2>3. CASE j # n + 1
    <3>1. j \in 1 .. n /\ 2 * j - 1 <= 2 * n /\ 2 * j <= 2 * n
      BY <2>3
    <3>2. longer[2 * j - 1] = view[2 * j - 1] /\ longer[2 * j] = view[2 * j]
      BY <1>3, <1>4, <2>1, <3>1
    <3> QED BY <3>1, <3>2 DEF Views
  <2> QED BY <2>2, <2>3
<1> QED BY <1>3, <1>4, <1>5 DEF Views

LEMMA ViewOfPairs ==
    ASSUME NEW S, NEW pairs \in Seq(S \X S), pairs # <<>>
    PROVE  FlattenSeq(pairs) \in Seq(S) /\ Views(FlattenSeq(pairs), pairs, Len(pairs))
<1> DEFINE n == Len(pairs)
           Def(g) == g = [i \in 1 .. n |-> IF i = 1 THEN pairs[i] ELSE g[i - 1] \o pairs[i]]
<1>1. n \in Nat \ {0}
  OBVIOUS
<1>2. ASSUME NEW i \in 1 .. n PROVE pairs[i] \in Seq(S) /\ Len(pairs[i]) = 2
  <2>1. pairs[i] \in S \X S
    OBVIOUS
  <2> QED BY <2>1, PairIsSeq
<1>3. \E g : Def(g)
  <2>1. PICK all : all = [i \in Nat \X Seq(S) |-> IF i[1] + 1 \in 1 .. n THEN i[2] \o pairs[i[1] + 1] ELSE <<>>]
    OBVIOUS
  <2>2. ASSUME NEW i \in Nat, NEW v \in Seq(S)
        PROVE  /\ all[<<i, v>>] \in Seq(S)
               /\ i + 1 \in 1 .. n => all[<<i, v>>] = v \o pairs[i + 1]
    <3>1. i + 1 \in 1 .. n => v \o pairs[i + 1] \in Seq(S)
      <4>1. i + 1 \in 1 .. n => pairs[i + 1] \in Seq(S)
        BY <1>2
      <4> QED BY <4>1, ConcatProperties, Zenon
    <3>2. PICK q : q = <<i, v>>
      OBVIOUS
    <3>3. q \in Nat \X Seq(S) /\ q[1] = i /\ q[2] = v
      BY <3>2
    <3>4. all[q] = IF i + 1 \in 1 .. n THEN v \o pairs[i + 1] ELSE <<>>
      BY <2>1, <3>3
    <3>5. <<>> \in Seq(S)
      OBVIOUS
    <3> QED BY <3>1, <3>2, <3>4, <3>5
  <2>3. all \in [Nat \X Seq(S) -> Seq(S)]
    <3>1. ASSUME NEW i \in Nat \X Seq(S)
          PROVE  (IF i[1] + 1 \in 1 .. n THEN i[2] \o pairs[i[1] + 1] ELSE <<>>) \in Seq(S)
      <4>1. PICK k \in Nat, v \in Seq(S) : i = <<k, v>>
        OBVIOUS
      <4>2. i[1] = k /\ i[2] = v
        BY <4>1
      <4>3. k + 1 \in 1 .. n => pairs[k + 1] \in Seq(S)
        BY <1>2
      <4>4. k + 1 \in 1 .. n => v \o pairs[k + 1] \in Seq(S)
        BY <4>3, ConcatProperties, Zenon
      <4>5. <<>> \in Seq(S)
        OBVIOUS
      <4> QED BY <4>2, <4>4, <4>5
    <3> QED BY <2>1, <3>1
  <2>4. PICK f \in [Nat -> Seq(S)] : Steps(f, <<>>, all)
    <3>1. <<>> \in Seq(S)
      OBVIOUS
    <3> QED BY <2>3, <3>1, RecursiveFunction
  <2>5. PICK g : g = [i \in 1 .. n |-> f[i]]
    OBVIOUS
  <2>6. ASSUME NEW i \in 1 .. n PROVE f[i] = f[i - 1] \o pairs[i] /\ f[0] = <<>>
    <3>1. PICK k \in Nat : k + 1 = i /\ k = i - 1
      OBVIOUS
    <3>2. f[i] = all[<<k, f[k]>>] /\ f[0] = <<>>
      BY <2>4, <3>1 DEF Steps
    <3>3. f[k] \in Seq(S)
      BY <2>4
    <3> QED BY <2>2, <3>1, <3>2, <3>3
  <2>7. ASSUME NEW i \in 1 .. n PROVE g[i] = IF i = 1 THEN pairs[i] ELSE g[i - 1] \o pairs[i]
    <3>1. CASE i = 1
      <4>1. 1 \in 1 .. n
        BY <1>1
      <4>2. pairs[1] \in Seq(S)
        BY <1>2, <4>1
      <4>3. <<>> \o pairs[1] = pairs[1]
        BY <4>2, ConcatEmptySeq
      <4>4. f[1] = f[1 - 1] \o pairs[1] /\ f[0] = <<>>
        BY <2>6, <4>1, Zenon
      <4>5. 1 - 1 = 0
        OBVIOUS
      <4>6. f[1] = f[0] \o pairs[1]
        BY <4>4, <4>5, Zenon
      <4>7. f[1] = pairs[1]
        BY <4>3, <4>4, <4>6
      <4>8. g[1] = pairs[1]
        BY <2>5, <4>1, <4>7
      <4> QED BY <3>1, <4>8
    <3>2. CASE i # 1
      <4>1. i - 1 \in 1 .. n
        BY <3>2
      <4> QED BY <2>5, <2>6, <3>2, <4>1
    <3> QED BY <3>1, <3>2
  <2>8. g = [i \in 1 .. n |-> IF i = 1 THEN pairs[i] ELSE g[i - 1] \o pairs[i]]
    BY <2>5, <2>7
  <2> QED BY <2>8
<1>4. PICK f : f = CHOOSE g : Def(g)
  OBVIOUS
<1>5. FlattenSeq(pairs) = f[n]
  BY <1>1, <1>4 DEF FlattenSeq
<1>6. Def(f)
  <2> HIDE DEF Def
  <2> QED BY <1>3, <1>4
<1>7. \A i \in 1 .. n : f[i] = IF i = 1 THEN pairs[i] ELSE f[i - 1] \o pairs[i]
  BY <1>6
<1> DEFINE T == {i \in 1 .. n : ~(f[i] \in Seq(S) /\ Views(f[i], pairs, i))}
<1>8. ASSUME T # {} PROVE FALSE
  <2>1. T \subseteq Nat
    OBVIOUS
  <2>2. PICK i \in T : \A j \in T : i <= j
    BY <1>8, <2>1, LeastElement, Zenon
  <2>3. i \in 1 .. n /\ ~(f[i] \in Seq(S) /\ Views(f[i], pairs, i))
    BY <2>2
  <2>4. i # 1
    <3>1. pairs[1] \in Seq(S) /\ Len(pairs[1]) = 2
      BY <1>1, <1>2
    <3>2. \A j \in 1 .. 1 : j = 1 /\ 2 * j - 1 = 1 /\ 2 * j = 2
      OBVIOUS
    <3>3. Views(pairs[1], pairs, 1)
      BY <3>1, <3>2 DEF Views
    <3> QED BY <1>7, <2>3, <3>1, <3>3
  <2>5. PICK k \in Nat : k + 1 = i /\ k = i - 1
    BY <2>3
  <2>6. k \in 1 .. n /\ ~(i <= k)
    BY <2>3, <2>4, <2>5
  <2>7. f[k] \in Seq(S) /\ Views(f[k], pairs, k)
    BY <2>2, <2>6
  <2>8. f[i] = f[k] \o pairs[k + 1]
    BY <1>7, <2>3, <2>4, <2>5
  <2>9. f[i] \in Seq(S) /\ Views(f[i], pairs, k + 1)
    BY <2>3, <2>5, <2>7, <2>8, ViewGrows
  <2> QED BY <2>3, <2>5, <2>9
<1>9. n \in 1 .. n
  BY <1>1
<1> QED BY <1>5, <1>8, <1>9

(* What is given for an option is what the parser returns for it, with any *)
(* number of options and any values, if nothing before it reads like it.   *)
THEOREM ArgumentsAgreeForAll == \A S : \A pairs \in Seq(S \X S) : ArgumentsAgree(pairs)
<1> SUFFICES ASSUME NEW S, NEW pairs \in Seq(S \X S), NEW i \in 1 .. Len(pairs),
                    \A j \in 1 .. i - 1 : pairs[i][1] \notin ToSet(pairs[j])
             PROVE  /\ GetValue(FlattenSeq(pairs), pairs[i][1]) = <<pairs[i][2]>>
                    /\ GetNumber(FlattenSeq(pairs), pairs[i][1], UInt8) = FromChars(pairs[i][2], UInt8)
  BY Zenon DEF ArgumentsAgree
<1>1. PICK n \in Nat : n = Len(pairs)
  OBVIOUS
<1>2. i \in 1 .. n /\ pairs # <<>>
  BY <1>1
<1>3. PICK view, option, given : /\ view = FlattenSeq(pairs)
                                 /\ option = pairs[i][1] /\ given = pairs[i][2]
  OBVIOUS
<1>4. view \in Seq(S) /\ Len(view) = 2 * n
      /\ \A j \in 1 .. n : view[2 * j - 1] = pairs[j][1] /\ view[2 * j] = pairs[j][2]
  BY <1>1, <1>2, <1>3, ViewOfPairs DEF Views
<1>5. PICK at \in 1 .. 2 * n : at = 2 * i - 1
  BY <1>2
<1>6. at \in Found(view, option)
  BY <1>2, <1>3, <1>4, <1>5 DEF Found
<1>7. ASSUME NEW k \in Found(view, option), k < at PROVE FALSE
  <2>1. k \in 1 .. 2 * n /\ view[k] = option
    BY <1>4 DEF Found
  <2>2. PICK j \in Nat \ {0} : k = 2 * j - 1 \/ k = 2 * j
    <3>1. k \in Nat \ {0}
      BY <2>1
    <3> QED BY <3>1, Halves
  <2>3. j \in 1 .. i - 1 /\ j \in 1 .. n
    BY <1>2, <1>5, <1>7, <2>1, <2>2
  <2>4. option = pairs[j][1] \/ option = pairs[j][2]
    BY <1>4, <2>1, <2>2, <2>3
  <2>5. ToSet(pairs[j]) = {pairs[j][1], pairs[j][2]}
    <3>1. pairs[j] \in S \X S
      BY <1>1, <2>3
    <3> QED BY <3>1, PairIsSeq
  <2> QED BY <1>3, <2>3, <2>4, <2>5
<1>8. Min(Found(view, option)) = at
  <2>1. Found(view, option) \subseteq Nat
    BY <1>4 DEF Found
  <2>2. \E x \in Found(view, option) : \A y \in Found(view, option) : x <= y
    BY <1>6, <2>1, LeastElement, Zenon
  <2>3. PICK m \in Found(view, option) :
           m = Min(Found(view, option)) /\ \A y \in Found(view, option) : m <= y
    BY <2>2, Zenon DEF Min
  <2>4. m <= at
    BY <1>6, <2>3
  <2>5. ~(m < at)
    BY <1>7
  <2>6. m \in Nat
    BY <2>1
  <2>7. m = at
    BY <1>5, <2>4, <2>5, <2>6
  <2> QED BY <2>3, <2>7, Zenon
<1>9. GetValue(view, option) = <<given>>
  <2>1. at # Len(view) /\ at + 1 = 2 * i
    BY <1>2, <1>4, <1>5
  <2>2. view[at + 1] = given
    BY <1>2, <1>3, <1>4, <2>1
  <2>3. Found(view, option) # {}
    BY <1>6
  <2> QED BY <1>8, <2>1, <2>2, <2>3, Zenon DEF GetValue
<1>10. GetNumber(view, option, UInt8) = FromChars(given, UInt8)
  <2>1. <<given>> # None /\ <<given>>[1] = given
    BY DEF None
  <2> QED BY <1>9, <2>1, Zenon DEF GetNumber
<1> QED BY <1>3, <1>9, <1>10

(* Who sleeps as the timer says is through with the cycle at its target,   *)
(* and not a millisecond late, for any target and any time elapsed.        *)
THEOREM TimerAgreesForAll == \A target \in Nat, elapsed \in Nat : TimerAgrees(target, elapsed)
<1> SUFFICES ASSUME NEW target \in Nat, NEW elapsed \in Nat PROVE TimerAgrees(target, elapsed)
  OBVIOUS
<1>1. PICK u \in Nat \ {0} : u = NanosPerMilli
  BY SMT DEF NanosPerMilli
<1>2. PICK ms \in Nat, rest \in 0 .. u - 1 : ms = elapsed \div u /\ elapsed = u * ms + rest
  <2>1. elapsed \div u \in Nat /\ elapsed % u \in 0 .. u - 1 /\ elapsed = u * (elapsed \div u) + (elapsed % u)
    OBVIOUS
  <2> QED BY <2>1
<1>3. ElapsedMs(elapsed) = ms
  BY <1>1, <1>2 DEF ElapsedMs
<1>4. CASE ms >= target
  <2>1. GetNextSleep(target, elapsed) = None
    BY <1>3, <1>4 DEF GetNextSleep
  <2>2. elapsed + 0 - target * u >= 0
    <3>1. PICK d \in Nat : ms = target + d
      BY <1>4
    <3>2. u * ms = target * u + u * d
      BY <3>1
    <3>3. target * u \in Nat /\ u * d \in Nat /\ rest \in Nat
      OBVIOUS
    <3> QED BY <1>2, <3>2, <3>3
  <2> QED BY <1>1, <2>1, <2>2 DEF TimerAgrees
<1>5. CASE ~(ms >= target)
  <2>1. PICK sleep : sleep = <<target - ms>>
    OBVIOUS
  <2>2. GetNextSleep(target, elapsed) = sleep /\ sleep # None /\ sleep[1] = target - ms
    BY <1>3, <1>5, <2>1 DEF GetNextSleep, None
  <2>3. elapsed + (target - ms) * u - target * u = rest
    <3>1. (target - ms) * u = target * u - u * ms
      OBVIOUS
    <3>2. target * u \in Nat /\ u * ms \in Nat /\ rest \in Nat
      OBVIOUS
    <3> QED BY <1>2, <3>1, <3>2
  <2>4. rest >= 0 /\ rest < u /\ target - ms > 0
    BY <1>5
  <2>5. elapsed + (IF sleep = None THEN 0 ELSE sleep[1] * NanosPerMilli) - target * NanosPerMilli = rest
    BY <1>1, <2>2, <2>3
  <2> QED BY <1>1, <2>2, <2>4, <2>5 DEF TimerAgrees
<1> QED BY <1>4, <1>5

(* A frame rate is reached by frames of the time that is made of it.       *)
THEOREM FramesAgreeForAll == \A fps \in Nat \ {0} : FramesAgree(fps)
<1> SUFFICES ASSUME NEW fps \in Nat \ {0}, FrameTime(fps) # 0 PROVE 1000 \div FrameTime(fps) >= fps
  BY DEF FramesAgree
<1>1. PICK t \in Nat \ {0} : t = FrameTime(fps) /\ fps * t <= 1000
  <2>1. 1000 \div fps \in Nat /\ 1000 % fps \in 0 .. fps - 1 /\ 1000 = fps * (1000 \div fps) + (1000 % fps)
    OBVIOUS
  <2>2. PICK q \in Nat, r \in Nat : q = 1000 \div fps /\ 1000 = fps * q + r
    BY <2>1
  <2>3. fps * q \in Nat
    OBVIOUS
  <2> QED BY <2>2, <2>3 DEF FrameTime
<1>2. PICK q \in Nat, r \in 0 .. t - 1 : q = 1000 \div t /\ 1000 = t * q + r
  <2>1. 1000 \div t \in Nat /\ 1000 % t \in 0 .. t - 1 /\ 1000 = t * (1000 \div t) + (1000 % t)
    OBVIOUS
  <2> QED BY <2>1
<1>3. q >= fps
  <2>1. SUFFICES ASSUME q + 1 <= fps PROVE FALSE
    OBVIOUS
  <2>2. PICK d \in Nat : fps = q + 1 + d
    BY <2>1
  <2>3. fps * t = t * q + t + d * t
    BY <2>2
  <2>4. d * t \in Nat
    OBVIOUS
  <2>5. t * q \in Nat
    OBVIOUS
  <2>6. t * q + t > 1000
    BY <1>2, <2>5
  <2> QED BY <1>1, <2>3, <2>4, <2>5, <2>6
<1> QED BY <1>1, <1>2, <1>3
=============================================================================
