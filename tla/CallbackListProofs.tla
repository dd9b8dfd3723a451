-------------------------- MODULE CallbackListProofs --------------------------
(***************************************************************************)
(* Theorems about CallbackList, for every set of threads, callbacks and    *)
(* handles.                                                                *)
(***************************************************************************)
EXTENDS CallbackList, SequenceTheorems, FiniteSetTheorems, TLAPS

-----------------------------------------------------------------------------
(* The inductive invariant *)

Inserting(t) == call[t].pc = "insert"

Notifying(t) == call[t].pc \in {"notify", "callback"}

(* The locals of a call that is in progress are those of a call. *)
CallsTyped == \A t \in Callers : Inserting(t) =>
    call[t].id \in IDs /\ call[t].cb \in Callbacks /\ call[t].handle \in Handles

(* Every id was drawn once, and no handle has the id of a callback that is *)
(* not inserted yet.                                                       *)
IdsDrawnOnce ==
    /\ nextId = Cardinality(ledger.subscribed)
    /\ \A i \in 1 .. Len(subs) : subs[i].id < nextId
    /\ \A i, j \in 1 .. Len(subs) : subs[i].id = subs[j].id => i = j
    /\ \A t \in Callers : Inserting(t) =>
          /\ call[t].id < nextId
          /\ \A i \in 1 .. Len(subs) : subs[i].id # call[t].id
          /\ \A h \in Handles : handle[h] # call[t].id
          /\ \A u \in Callers : Inserting(u) /\ call[u].id = call[t].id => t = u
    /\ \A h \in Handles : handle[h] < nextId \/ handle[h] = IDMax

(* A callback is on its way into the list, in the list, or removed. *)
OnePlaceEach ==
    /\ ledger.removed \subseteq ledger.subscribed
    /\ \A i, j \in 1 .. Len(subs) : subs[i].cb = subs[j].cb => i = j
    /\ \A i \in 1 .. Len(subs) : subs[i].cb \in ledger.subscribed \ ledger.removed
    /\ \A t \in Callers : Inserting(t) =>
          /\ call[t].cb \in ledger.subscribed \ ledger.removed
          /\ \A i \in 1 .. Len(subs) : subs[i].cb # call[t].cb
          /\ \A u \in Callers : Inserting(u) /\ call[u].cb = call[t].cb => t = u
    /\ \A cb \in ledger.subscribed \ ledger.removed :
          \/ \E t \in Callers : Inserting(t) /\ call[t].cb = cb
          \/ \E i \in 1 .. Len(subs) : subs[i].cb = cb

(* A handle that finds a callback stands for this callback. *)
HandlesStand ==
    \A h \in Handles : \A i \in 1 .. Len(subs) :
        handle[h] = subs[i].id => ledger.stands[h] = subs[i].cb

(* The thread that notifies is the one with the mutex, the list is the one *)
(* it found, and it has called the callbacks before its position.          *)
NotifierHolds ==
    \A t \in Callers :
        /\ mutex = t <=> Notifying(t)
        /\ Notifying(t) =>
              /\ ledger.list = CallbacksOf(subs)
              /\ call[t].pos \in 1 .. Len(subs) + 1
              /\ call[t].pc = "callback" => call[t].pos <= Len(subs)
              /\ Len(ledger.called) = IF call[t].pc = "callback" THEN call[t].pos ELSE call[t].pos - 1
              /\ \A k \in 1 .. Len(ledger.called) : ledger.called[k] = subs[k].cb

ListInv == CBTypeOK /\ CallsTyped /\ IdsDrawnOnce /\ OnePlaceEach /\ HandlesStand /\ NotifierHolds

-----------------------------------------------------------------------------
(* Sequences *)

(* subs.erase(it): what remains was there, in the same order. *)
LEMMA RemoveAtProperties ==
    ASSUME NEW S, NEW s \in Seq(S), NEW i \in 1 .. Len(s)
    PROVE  /\ RemoveAt(s, i) \in Seq(S)
           /\ Len(RemoveAt(s, i)) = Len(s) - 1
           /\ \A j \in 1 .. Len(s) - 1 : RemoveAt(s, i)[j] = IF j < i THEN s[j] ELSE s[j + 1]
<1> DEFINE before == SubSeq(s, 1, i - 1)
           after == SubSeq(s, i + 1, Len(s))
<1>1. before \in Seq(S) /\ Len(before) = i - 1 /\ \A j \in 1 .. i - 1 : before[j] = s[j]
    BY SubSeqProperties
<1>2. after \in Seq(S) /\ Len(after) = Len(s) - i /\ \A j \in 1 .. Len(s) - i : after[j] = s[i + j]
    BY SubSeqProperties
<1>3. RemoveAt(s, i) = before \o after
    BY DEF RemoveAt
<1> HIDE DEF before, after
<1>4. /\ before \o after \in Seq(S)
      /\ Len(before \o after) = Len(before) + Len(after)
      /\ \A j \in 1 .. Len(before) + Len(after) :
            (before \o after)[j] = IF j <= Len(before) THEN before[j] ELSE after[j - Len(before)]
    BY <1>1, <1>2, ConcatProperties, Zenon
<1>5. Len(s) \in Nat
    BY LenProperties
<1>6. Len(before \o after) = Len(s) - 1
    BY <1>1, <1>2, <1>4, <1>5
<1>7. ASSUME NEW j \in 1 .. Len(s) - 1
      PROVE  (before \o after)[j] = IF j < i THEN s[j] ELSE s[j + 1]
    <2>1. (before \o after)[j] = IF j <= i - 1 THEN before[j] ELSE after[j - (i - 1)]
        BY <1>1, <1>2, <1>4, <1>5
    <2>2. CASE j < i
        BY <1>1, <1>5, <2>1, <2>2
    <2>3. CASE j >= i
        <3>1. j - (i - 1) \in 1 .. Len(s) - i /\ i + (j - (i - 1)) = j + 1
            BY <1>5, <2>3
        <3> QED BY <1>2, <1>5, <2>1, <2>3, <3>1
    <2>4. j < i \/ j >= i
        BY <1>5
    <2> QED BY <2>2, <2>3, <2>4, Zenon
<1> QED BY <1>3, <1>4, <1>6, <1>7

(* The vector, as the provers need it. *)
LEMMA SubsProperties ==
    ASSUME CBTypeOK
    PROVE  /\ subs \in Seq(Subscriber) /\ Len(subs) \in Nat
           /\ \A i \in 1 .. Len(subs) : subs[i].id \in IDs /\ subs[i].cb \in Callbacks
<1>1. subs \in Seq(Subscriber)
    BY DEF CBTypeOK
<1>2. Len(subs) \in Nat
    BY <1>1, LenProperties
<1>3. \A i \in 1 .. Len(subs) : subs[i] \in Subscriber
    BY <1>1, ElementOfSeq
<1> QED BY <1>1, <1>2, <1>3 DEF Subscriber

(* One thread's call changes. *)
LEMMA CallProperties ==
    ASSUME CBTypeOK, NEW t \in Callers, NEW r, call' = [call EXCEPT ![t] = r]
    PROVE  call'[t] = r /\ \A u \in Callers \ {t} : call'[u] = call[u]
BY DEF CBTypeOK

-----------------------------------------------------------------------------
(* The initial states *)

LEMMA InitList == CBInit => ListInv
<1> SUFFICES ASSUME CBInit PROVE ListInv
    OBVIOUS
<1> USE ListAssumption DEF CBInit
<1>1. Len(subs) = 0 /\ subs \in Seq(Subscriber)
    BY EmptySeq
<1>2. <<>> \in Seq(Callbacks)
    BY EmptySeq
<1>3. CBTypeOK
    BY <1>1, <1>2 DEF CBTypeOK, Idle, CallState, Ledger
<1>4. Cardinality({}) = 0
    BY FS_EmptySet
<1>5. CallsTyped /\ \A t \in Callers : ~ Inserting(t) /\ ~ Notifying(t)
    BY DEF CallsTyped, Inserting, Notifying, Idle
<1>6. IdsDrawnOnce
    BY <1>1, <1>4, <1>5 DEF IdsDrawnOnce
<1>7. OnePlaceEach
    BY <1>1, <1>5 DEF OnePlaceEach
<1>8. HandlesStand
    BY <1>1 DEF HandlesStand
<1>9. NotifierHolds
    BY <1>5 DEF NotifierHolds
<1> QED BY <1>3, <1>5, <1>6, <1>7, <1>8, <1>9 DEF ListInv

-----------------------------------------------------------------------------
(* Each action preserves the invariant. *)

LEMMA ListSubscribe ==
    ASSUME ListInv, NEW t \in Callers, NEW cb \in Callbacks, NEW h \in Handles, Subscribe(t, cb, h)
    PROVE  ListInv'
<1> DEFINE r == [pc |-> "insert", id |-> nextId, cb |-> cb, handle |-> h, pos |-> 0]
<1>1. /\ call[t].pc = "idle" /\ cb \notin ledger.subscribed /\ nextId' = nextId + 1
      /\ call' = [call EXCEPT ![t] = r]
      /\ ledger' = [ledger EXCEPT !.subscribed = @ \cup {cb}]
      /\ UNCHANGED <<subs, mutex, handle>>
    BY DEF Subscribe, FreshId
<1>2. /\ CBTypeOK /\ CallsTyped /\ IdsDrawnOnce /\ OnePlaceEach /\ HandlesStand /\ NotifierHolds
      /\ Len(subs) \in Nat
      /\ \A i \in 1 .. Len(subs) : subs[i].id \in IDs /\ subs[i].cb \in Callbacks
    BY SubsProperties DEF ListInv
<1>3. nextId < IDMax /\ nextId' = Cardinality(ledger.subscribed \cup {cb})
    <2>1. ledger.subscribed \cup {cb} \in SUBSET Callbacks
        BY <1>2 DEF CBTypeOK, Ledger
    <2>2. /\ IsFiniteSet(ledger.subscribed \cup {cb})
          /\ Cardinality(ledger.subscribed \cup {cb}) <= Cardinality(Callbacks)
        BY <2>1, ListAssumption, FS_Subset
    <2>3. IsFiniteSet(ledger.subscribed)
        BY <1>2, ListAssumption, FS_Subset DEF CBTypeOK, Ledger
    <2>4. Cardinality(ledger.subscribed \cup {cb}) = Cardinality(ledger.subscribed) + 1
        BY <1>1, <2>3, FS_AddElement
    <2>5. Cardinality(Callbacks) \in Nat /\ Cardinality(ledger.subscribed) \in Nat
        BY <2>3, ListAssumption, FS_CardinalityType
    <2> QED BY <1>1, <1>2, <2>2, <2>4, <2>5, ListAssumption DEF IdsDrawnOnce
<1>4. nextId \in IDs /\ nextId \in Nat /\ IDMax \in Nat
    BY <1>2, <1>3, ListAssumption DEF CBTypeOK, IDs
<1>5. /\ r \in CallState
      /\ r.pc = "insert" /\ r.id = nextId /\ r.cb = cb /\ r.handle = h
    BY <1>4 DEF CallState, IDs
<1> HIDE DEF r
<1>6. /\ call' \in [Callers -> CallState]
      /\ call'[t] = r /\ \A u \in Callers \ {t} : call'[u] = call[u]
    BY <1>1, <1>2, <1>5 DEF CBTypeOK
<1>7. /\ ledger' \in Ledger
      /\ ledger'.subscribed = ledger.subscribed \cup {cb}
      /\ ledger'.removed = ledger.removed /\ ledger'.stands = ledger.stands
      /\ ledger'.list = ledger.list /\ ledger'.called = ledger.called
    BY <1>1, <1>2 DEF CBTypeOK, Ledger
<1>8. CBTypeOK' /\ CallsTyped'
    BY <1>1, <1>2, <1>4, <1>5, <1>6, <1>7 DEF CBTypeOK, CallsTyped, Inserting
<1>9. IdsDrawnOnce'
    <2>1. \A u \in Callers : Inserting(u) => call[u].id \in Nat /\ call[u].id < nextId
        BY <1>2 DEF CallsTyped, IdsDrawnOnce, IDs
    <2>2. \A g \in Handles : handle[g] \in Nat /\ (handle[g] < nextId \/ handle[g] = IDMax)
        BY <1>2, <1>4 DEF CBTypeOK, IdsDrawnOnce
    <2>3. \A i \in 1 .. Len(subs) : subs[i].id \in Nat /\ subs[i].id < nextId
        BY <1>2 DEF IdsDrawnOnce, IDs
    <2>4. nextId' = Cardinality(ledger'.subscribed)
        BY <1>3, <1>7
    <2>5. \A u \in Callers : Inserting(u)' =>
          /\ call'[u].id < nextId'
          /\ \A i \in 1 .. Len(subs) : subs[i].id # call'[u].id
          /\ \A g \in Handles : handle[g] # call'[u].id
          /\ \A v \in Callers : Inserting(v)' /\ call'[v].id = call'[u].id => u = v
        BY <1>1, <1>2, <1>3, <1>4, <1>5, <1>6, <2>1, <2>2, <2>3 DEF IdsDrawnOnce, Inserting
    <2>6. \A i \in 1 .. Len(subs) : subs[i].id < nextId'
        BY <1>1, <1>4, <2>3
    <2>7. \A g \in Handles : handle[g] < nextId' \/ handle[g] = IDMax
        BY <1>1, <1>4, <2>2
    <2> QED BY <1>1, <1>2, <2>4, <2>5, <2>6, <2>7 DEF IdsDrawnOnce
<1>10. OnePlaceEach'
    BY <1>1, <1>2, <1>5, <1>6, <1>7 DEF OnePlaceEach, Inserting
<1>11. HandlesStand'
    BY <1>1, <1>2, <1>7 DEF HandlesStand
<1>12. NotifierHolds'
    BY <1>1, <1>2, <1>5, <1>6, <1>7 DEF NotifierHolds, Notifying, CallbacksOf
<1> QED BY <1>8, <1>9, <1>10, <1>11, <1>12 DEF ListInv

LEMMA ListCopyHandle ==
    ASSUME ListInv, NEW t \in Callers, NEW from \in Handles, NEW to \in Handles,
           CopyHandle(t, from, to)
    PROVE  ListInv'
<1>1. /\ handle' = [handle EXCEPT ![to] = handle[from]]
      /\ ledger' = [ledger EXCEPT !.stands[to] = ledger.stands[from]]
      /\ UNCHANGED <<nextId, subs, mutex, call>>
    BY DEF CopyHandle
<1>2. CBTypeOK /\ CallsTyped /\ IdsDrawnOnce /\ OnePlaceEach /\ HandlesStand /\ NotifierHolds
    BY DEF ListInv
<1>3. /\ handle' \in [Handles -> 0 .. IDMax]
      /\ handle'[to] = handle[from] /\ \A h \in Handles \ {to} : handle'[h] = handle[h]
    BY <1>1, <1>2 DEF CBTypeOK
<1>4. /\ ledger' \in Ledger
      /\ ledger'.stands[to] = ledger.stands[from]
      /\ \A h \in Handles \ {to} : ledger'.stands[h] = ledger.stands[h]
      /\ ledger'.subscribed = ledger.subscribed /\ ledger'.removed = ledger.removed
      /\ ledger'.list = ledger.list /\ ledger'.called = ledger.called
    BY <1>1, <1>2 DEF CBTypeOK, Ledger
<1>5. CBTypeOK' /\ CallsTyped'
    BY <1>1, <1>2, <1>3, <1>4 DEF CBTypeOK, CallsTyped, Inserting
<1>6. IdsDrawnOnce'
    BY <1>1, <1>2, <1>3, <1>4 DEF IdsDrawnOnce, Inserting
<1>7. OnePlaceEach'
    BY <1>1, <1>2, <1>4 DEF OnePlaceEach, Inserting
<1>8. HandlesStand'
    BY <1>1, <1>2, <1>3, <1>4 DEF HandlesStand
<1>9. NotifierHolds'
    BY <1>1, <1>2, <1>4 DEF NotifierHolds, Notifying, CallbacksOf
<1> QED BY <1>5, <1>6, <1>7, <1>8, <1>9 DEF ListInv

LEMMA ListInsert ==
    ASSUME ListInv, NEW t \in Callers, Insert(t)
    PROVE  ListInv'
<1>1. PICK id, cb, h : id = call[t].id /\ cb = call[t].cb /\ h = call[t].handle
    OBVIOUS
<1>2. /\ Inserting(t) /\ mutex = NoThread
      /\ subs' = Append(subs, [id |-> id, cb |-> cb])
      /\ handle' = [handle EXCEPT ![h] = id]
      /\ call' = [call EXCEPT ![t] = Idle]
      /\ ledger' = [ledger EXCEPT !.stands[h] = cb]
      /\ UNCHANGED <<nextId, mutex>>
    BY <1>1 DEF Insert, Inserting
<1>3. /\ CBTypeOK /\ CallsTyped /\ IdsDrawnOnce /\ OnePlaceEach /\ HandlesStand /\ NotifierHolds
      /\ subs \in Seq(Subscriber) /\ Len(subs) \in Nat
      /\ \A i \in 1 .. Len(subs) : subs[i].id \in IDs /\ subs[i].cb \in Callbacks
    BY SubsProperties DEF ListInv
<1>4. id \in IDs /\ id \in 0 .. IDMax /\ id # IDMax /\ cb \in Callbacks /\ h \in Handles
    BY <1>1, <1>2, <1>3, ListAssumption DEF CallsTyped, IDs
<1>5. /\ id < nextId
      /\ \A i \in 1 .. Len(subs) : subs[i].id # id
      /\ \A g \in Handles : handle[g] # id
      /\ \A u \in Callers : Inserting(u) /\ call[u].id = id => t = u
      /\ cb \in ledger.subscribed \ ledger.removed
      /\ \A i \in 1 .. Len(subs) : subs[i].cb # cb
      /\ \A u \in Callers : Inserting(u) /\ call[u].cb = cb => t = u
    BY <1>1, <1>2, <1>3 DEF IdsDrawnOnce, OnePlaceEach
<1>6. /\ subs' \in Seq(Subscriber) /\ Len(subs') = Len(subs) + 1
      /\ \A i \in 1 .. Len(subs) : subs'[i] = subs[i]
      /\ subs'[Len(subs) + 1].id = id /\ subs'[Len(subs) + 1].cb = cb
    <2>1. [id |-> id, cb |-> cb] \in Subscriber
        BY <1>4 DEF Subscriber
    <2> QED BY <1>2, <1>3, <2>1, AppendProperties
<1>7. /\ handle' \in [Handles -> 0 .. IDMax]
      /\ handle'[h] = id /\ \A g \in Handles \ {h} : handle'[g] = handle[g]
    BY <1>2, <1>3, <1>4 DEF CBTypeOK
<1>8. /\ call' \in [Callers -> CallState]
      /\ ~ Inserting(t)' /\ ~ Notifying(t)'
      /\ \A u \in Callers \ {t} : call'[u] = call[u]
    <2>1. Idle \in CallState /\ Idle.pc = "idle"
        BY ListAssumption DEF Idle, CallState
    <2> QED BY <1>2, <1>3, <2>1 DEF CBTypeOK, Inserting, Notifying
<1>9. /\ ledger' \in Ledger
      /\ ledger'.stands[h] = cb
      /\ \A g \in Handles \ {h} : ledger'.stands[g] = ledger.stands[g]
      /\ ledger'.subscribed = ledger.subscribed /\ ledger'.removed = ledger.removed
      /\ ledger'.list = ledger.list /\ ledger'.called = ledger.called
    BY <1>2, <1>3, <1>4 DEF CBTypeOK, Ledger
<1>10. CBTypeOK' /\ CallsTyped'
    BY <1>2, <1>3, <1>6, <1>7, <1>8, <1>9 DEF CBTypeOK, CallsTyped, Inserting
<1>11. ASSUME NEW i \in 1 .. Len(subs')
       PROVE  (i \in 1 .. Len(subs) /\ subs'[i] = subs[i]) \/ i = Len(subs) + 1
    BY <1>3, <1>6
<1>12. IdsDrawnOnce'
    <2>1. \A i \in 1 .. Len(subs') : subs'[i].id < nextId
        BY <1>3, <1>5, <1>6, <1>11 DEF IdsDrawnOnce
    <2>2. \A i, j \in 1 .. Len(subs') : subs'[i].id = subs'[j].id => i = j
        BY <1>3, <1>5, <1>6, <1>11 DEF IdsDrawnOnce
    <2>3. ASSUME NEW u \in Callers, Inserting(u)'
          PROVE  /\ call'[u].id < nextId
                 /\ \A i \in 1 .. Len(subs') : subs'[i].id # call'[u].id
                 /\ \A g \in Handles : handle'[g] # call'[u].id
                 /\ \A v \in Callers : Inserting(v)' /\ call'[v].id = call'[u].id => u = v
        <3>1. u # t /\ call'[u] = call[u] /\ Inserting(u) /\ call[u].id # id
            BY <1>5, <1>8, <2>3 DEF Inserting
        <3>2. \A i \in 1 .. Len(subs') : subs'[i].id # call'[u].id
            BY <1>3, <1>6, <1>11, <3>1 DEF IdsDrawnOnce
        <3>3. \A v \in Callers : Inserting(v)' /\ call'[v].id = call'[u].id => u = v
            BY <1>3, <1>8, <3>1 DEF IdsDrawnOnce, Inserting
        <3> QED BY <1>3, <1>7, <3>1, <3>2, <3>3 DEF IdsDrawnOnce
    <2>4. \A g \in Handles : handle'[g] < nextId \/ handle'[g] = IDMax
        BY <1>3, <1>5, <1>7 DEF IdsDrawnOnce
    <2> QED BY <1>2, <1>3, <1>9, <2>1, <2>2, <2>3, <2>4 DEF IdsDrawnOnce
<1>13. OnePlaceEach'
    <2>1. \A i, j \in 1 .. Len(subs') : subs'[i].cb = subs'[j].cb => i = j
        BY <1>3, <1>5, <1>6, <1>11 DEF OnePlaceEach
    <2>2. \A i \in 1 .. Len(subs') : subs'[i].cb \in ledger.subscribed \ ledger.removed
        BY <1>3, <1>5, <1>6, <1>11 DEF OnePlaceEach
    <2>3. ASSUME NEW u \in Callers, Inserting(u)'
          PROVE  /\ call'[u].cb \in ledger.subscribed \ ledger.removed
                 /\ \A i \in 1 .. Len(subs') : subs'[i].cb # call'[u].cb
                 /\ \A v \in Callers : Inserting(v)' /\ call'[v].cb = call'[u].cb => u = v
        <3>1. u # t /\ call'[u] = call[u] /\ Inserting(u) /\ call[u].cb # cb
            BY <1>5, <1>8, <2>3 DEF Inserting
        <3>2. \A i \in 1 .. Len(subs') : subs'[i].cb # call'[u].cb
            BY <1>3, <1>6, <1>11, <3>1 DEF OnePlaceEach
        <3>3. \A v \in Callers : Inserting(v)' /\ call'[v].cb = call'[u].cb => u = v
            BY <1>3, <1>8, <3>1 DEF OnePlaceEach, Inserting
        <3> QED BY <1>3, <3>1, <3>2, <3>3 DEF OnePlaceEach
    <2>4. ASSUME NEW c \in ledger.subscribed \ ledger.removed
          PROVE  \/ \E u \in Callers : Inserting(u)' /\ call'[u].cb = c
                 \/ \E i \in 1 .. Len(subs') : subs'[i].cb = c
        <3>1. CASE c = cb
            <4>1. Len(subs) + 1 \in 1 .. Len(subs')
                BY <1>3, <1>6
            <4> QED BY <1>6, <3>1, <4>1
        <3>2. CASE \E u \in Callers : Inserting(u) /\ call[u].cb = c /\ c # cb
            BY <1>1, <1>8, <3>2 DEF Inserting
        <3>3. CASE \E i \in 1 .. Len(subs) : subs[i].cb = c
            BY <1>3, <1>6, <3>3
        <3> QED BY <1>3, <3>1, <3>2, <3>3 DEF OnePlaceEach
    <2> QED BY <1>3, <1>9, <2>1, <2>2, <2>3, <2>4 DEF OnePlaceEach
<1>14. HandlesStand'
    <2> SUFFICES ASSUME NEW g \in Handles, NEW i \in 1 .. Len(subs'), handle'[g] = subs'[i].id
                 PROVE  ledger'.stands[g] = subs'[i].cb
        BY DEF HandlesStand
    <2>1. CASE g = h /\ i = Len(subs) + 1
        BY <1>6, <1>9, <2>1
    <2>2. CASE g # h /\ i \in 1 .. Len(subs)
        BY <1>3, <1>6, <1>7, <1>9, <2>2 DEF HandlesStand
    <2>3. CASE g = h /\ i \in 1 .. Len(subs)
        BY <1>5, <1>6, <1>7, <2>3
    <2>4. CASE g # h /\ i = Len(subs) + 1
        BY <1>5, <1>6, <1>7, <2>4
    <2> QED BY <1>11, <2>1, <2>2, <2>3, <2>4
<1>15. NotifierHolds'
    <2>1. \A u \in Callers : ~ Notifying(u)
        BY <1>2, <1>3, ListAssumption DEF NotifierHolds
    <2>2. \A u \in Callers : ~ Notifying(u)'
        BY <1>8, <2>1 DEF Notifying
    <2> QED BY <1>2, <2>2, ListAssumption DEF NotifierHolds
<1> QED BY <1>10, <1>12, <1>13, <1>14, <1>15 DEF ListInv

LEMMA ListUnsubscribe ==
    ASSUME ListInv, NEW t \in Callers, NEW h \in Handles, Unsubscribe(t, h)
    PROVE  ListInv'
<1>1. PICK i \in 1 .. Len(subs) : subs[i].id = handle[h] /\ subs' = RemoveAt(subs, i)
    BY DEF Unsubscribe, Matches
<1>2. PICK gone : gone = ledger.stands[h]
    OBVIOUS
<1>3. /\ call[t].pc = "idle" /\ mutex = NoThread
      /\ handle' = [handle EXCEPT ![h] = IDMax]
      /\ ledger' = [ledger EXCEPT !.removed = @ \cup {gone}]
      /\ UNCHANGED <<nextId, mutex, call>>
    BY <1>2 DEF Unsubscribe
<1>4. /\ CBTypeOK /\ CallsTyped /\ IdsDrawnOnce /\ OnePlaceEach /\ HandlesStand /\ NotifierHolds
      /\ subs \in Seq(Subscriber) /\ Len(subs) \in Nat
      /\ \A j \in 1 .. Len(subs) : subs[j].id \in IDs /\ subs[j].cb \in Callbacks
    BY SubsProperties DEF ListInv
<1>5. gone = subs[i].cb /\ gone \in Callbacks /\ gone \in ledger.subscribed
    BY <1>1, <1>2, <1>4 DEF HandlesStand, OnePlaceEach
<1>6. /\ subs' \in Seq(Subscriber) /\ Len(subs') = Len(subs) - 1
      /\ \A j \in 1 .. Len(subs) - 1 : subs'[j] = IF j < i THEN subs[j] ELSE subs[j + 1]
    BY <1>1, <1>4, RemoveAtProperties
(* Where an element that remains was, and that the others remain. *)
<1>7. /\ \A j \in 1 .. Len(subs') : \E k \in 1 .. Len(subs) \ {i} :
              subs'[j] = subs[k] /\ k = IF j < i THEN j ELSE j + 1
      /\ \A k \in 1 .. Len(subs) \ {i} : \E j \in 1 .. Len(subs') : subs'[j] = subs[k]
    <2>1. ASSUME NEW j \in 1 .. Len(subs')
          PROVE  \E k \in 1 .. Len(subs) \ {i} : subs'[j] = subs[k] /\ k = IF j < i THEN j ELSE j + 1
        <3>1. CASE j < i
            BY <1>4, <1>6, <3>1
        <3>2. CASE ~ (j < i)
            BY <1>4, <1>6, <3>2
        <3> QED BY <3>1, <3>2
    <2>2. ASSUME NEW k \in 1 .. Len(subs) \ {i}
          PROVE  \E j \in 1 .. Len(subs') : subs'[j] = subs[k]
        <3>1. CASE k < i
            <4>1. k \in 1 .. Len(subs) - 1
                BY <1>4, <3>1
            <4> QED BY <1>6, <3>1, <4>1
        <3>2. CASE ~ (k < i)
            <4>1. k - 1 \in 1 .. Len(subs) - 1 /\ ~ (k - 1 < i) /\ (k - 1) + 1 = k
                BY <1>4, <3>2
            <4> QED BY <1>6, <4>1
        <3> QED BY <3>1, <3>2
    <2> QED BY <2>1, <2>2
<1>8. \A j, l \in 1 .. Len(subs') : \E k, m \in 1 .. Len(subs) :
          subs'[j] = subs[k] /\ subs'[l] = subs[m] /\ (k = m => j = l)
    BY <1>7
<1>9. /\ handle' \in [Handles -> 0 .. IDMax]
      /\ handle'[h] = IDMax /\ \A g \in Handles \ {h} : handle'[g] = handle[g]
    BY <1>3, <1>4, ListAssumption DEF CBTypeOK
<1>10. /\ ledger' \in Ledger
       /\ ledger'.removed = ledger.removed \cup {gone}
       /\ ledger'.subscribed = ledger.subscribed /\ ledger'.stands = ledger.stands
       /\ ledger'.list = ledger.list /\ ledger'.called = ledger.called
    BY <1>3, <1>4, <1>5 DEF CBTypeOK, Ledger
<1>11. CBTypeOK' /\ CallsTyped'
    BY <1>3, <1>4, <1>6, <1>9, <1>10 DEF CBTypeOK, CallsTyped, Inserting
<1>12. \A u \in Callers : Inserting(u) => call[u].id \in IDs
    BY <1>4 DEF CallsTyped
<1>13. IdsDrawnOnce'
    <2>1. \A j \in 1 .. Len(subs') : subs'[j].id < nextId
        BY <1>4, <1>7 DEF IdsDrawnOnce
    <2>2. ASSUME NEW j \in 1 .. Len(subs'), NEW l \in 1 .. Len(subs'), subs'[j].id = subs'[l].id
          PROVE  j = l
        <3>1. PICK k, m \in 1 .. Len(subs) : subs'[j] = subs[k] /\ subs'[l] = subs[m] /\ (k = m => j = l)
            BY <1>8
        <3> QED BY <1>4, <2>2, <3>1 DEF IdsDrawnOnce
    <2>3. ASSUME NEW u \in Callers, Inserting(u), NEW j \in 1 .. Len(subs')
          PROVE  subs'[j].id # call[u].id
        <3>1. PICK k \in 1 .. Len(subs) : subs'[j] = subs[k]
            BY <1>7
        <3> QED BY <1>4, <2>3, <3>1 DEF IdsDrawnOnce
    <2>4. \A u \in Callers : Inserting(u) => \A g \in Handles : handle'[g] # call[u].id
        BY <1>4, <1>9, <1>12, ListAssumption DEF IdsDrawnOnce, IDs
    <2>5. \A g \in Handles : handle'[g] < nextId \/ handle'[g] = IDMax
        BY <1>4, <1>9 DEF IdsDrawnOnce
    <2> QED BY <1>3, <1>4, <1>10, <2>1, <2>2, <2>3, <2>4, <2>5 DEF IdsDrawnOnce, Inserting
<1>14. OnePlaceEach'
    <2>1. ASSUME NEW j \in 1 .. Len(subs'), NEW l \in 1 .. Len(subs'), subs'[j].cb = subs'[l].cb
          PROVE  j = l
        <3>1. PICK k, m \in 1 .. Len(subs) : subs'[j] = subs[k] /\ subs'[l] = subs[m] /\ (k = m => j = l)
            BY <1>8
        <3> QED BY <1>4, <2>1, <3>1 DEF OnePlaceEach
    <2>2. ASSUME NEW j \in 1 .. Len(subs')
          PROVE  subs'[j].cb \in ledger.subscribed \ ledger'.removed
        <3>1. PICK k \in 1 .. Len(subs) \ {i} : subs'[j] = subs[k]
            BY <1>7
        <3>2. subs[k].cb \in ledger.subscribed \ ledger.removed /\ subs[k].cb # gone
            BY <1>4, <1>5, <3>1 DEF OnePlaceEach
        <3> QED BY <1>10, <3>1, <3>2
    <2>3. ASSUME NEW u \in Callers, Inserting(u)
          PROVE  /\ call[u].cb \in ledger.subscribed \ ledger'.removed
                 /\ \A j \in 1 .. Len(subs') : subs'[j].cb # call[u].cb
        <3>1. /\ call[u].cb \in ledger.subscribed \ ledger.removed
              /\ \A k \in 1 .. Len(subs) : subs[k].cb # call[u].cb
            BY <1>4, <2>3 DEF OnePlaceEach
        <3>2. call[u].cb # gone
            BY <1>5, <3>1
        <3>3. ASSUME NEW j \in 1 .. Len(subs') PROVE subs'[j].cb # call[u].cb
            <4>1. PICK k \in 1 .. Len(subs) : subs'[j] = subs[k]
                BY <1>7
            <4> QED BY <3>1, <4>1
        <3> QED BY <1>10, <3>1, <3>2, <3>3
    <2>4. ASSUME NEW c \in ledger.subscribed \ ledger'.removed
          PROVE  \/ \E u \in Callers : Inserting(u) /\ call[u].cb = c
                 \/ \E j \in 1 .. Len(subs') : subs'[j].cb = c
        <3>1. c \in ledger.subscribed \ ledger.removed /\ c # gone
            BY <1>10
        <3>2. \/ \E u \in Callers : Inserting(u) /\ call[u].cb = c
              \/ \E k \in 1 .. Len(subs) : subs[k].cb = c
            BY <1>4, <3>1 DEF OnePlaceEach
        <3>3. ASSUME NEW k \in 1 .. Len(subs), subs[k].cb = c
              PROVE  \E j \in 1 .. Len(subs') : subs'[j].cb = c
            <4>1. k # i
                BY <1>5, <3>1, <3>3
            <4>2. PICK j \in 1 .. Len(subs') : subs'[j] = subs[k]
                BY <1>7, <4>1
            <4> QED BY <3>3, <4>2
        <3> QED BY <3>2, <3>3
    <2>5. ledger'.removed \subseteq ledger'.subscribed
        BY <1>4, <1>5, <1>10 DEF OnePlaceEach
    <2> QED BY <1>3, <1>4, <1>10, <2>1, <2>2, <2>3, <2>4, <2>5 DEF OnePlaceEach, Inserting
<1>15. HandlesStand'
    <2> SUFFICES ASSUME NEW g \in Handles, NEW j \in 1 .. Len(subs'), handle'[g] = subs'[j].id
                 PROVE  ledger'.stands[g] = subs'[j].cb
        BY DEF HandlesStand
    <2>1. PICK k \in 1 .. Len(subs) : subs'[j] = subs[k]
        BY <1>7
    <2>2. g # h
        BY <1>4, <1>9, <2>1, ListAssumption DEF IDs
    <2> QED BY <1>4, <1>9, <1>10, <2>1, <2>2 DEF HandlesStand
<1>16. NotifierHolds'
    <2>1. \A u \in Callers : ~ Notifying(u)
        BY <1>3, <1>4, ListAssumption DEF NotifierHolds
    <2>2. \A u \in Callers : ~ Notifying(u)'
        BY <1>3, <2>1 DEF Notifying
    <2> QED BY <1>3, <2>2, ListAssumption DEF NotifierHolds
<1> QED BY <1>11, <1>13, <1>14, <1>15, <1>16 DEF ListInv

LEMMA ListClear ==
    ASSUME ListInv, NEW t \in Callers, Clear(t)
    PROVE  ListInv'
<1>1. /\ call[t].pc = "idle" /\ mutex = NoThread /\ subs' = <<>>
      /\ ledger' = [ledger EXCEPT !.removed = @ \cup Listed]
      /\ UNCHANGED <<nextId, mutex, call, handle>>
    BY DEF Clear
<1>2. /\ CBTypeOK /\ CallsTyped /\ IdsDrawnOnce /\ OnePlaceEach /\ HandlesStand /\ NotifierHolds
      /\ subs \in Seq(Subscriber) /\ Len(subs) \in Nat
      /\ \A j \in 1 .. Len(subs) : subs[j].id \in IDs /\ subs[j].cb \in Callbacks
    BY SubsProperties DEF ListInv
<1>3. subs' \in Seq(Subscriber) /\ Len(subs') = 0
    BY <1>1, EmptySeq
<1>4. /\ Listed \in SUBSET Callbacks
      /\ \A cb : cb \in Listed <=> \E i \in 1 .. Len(subs) : subs[i].cb = cb
    BY <1>2 DEF Listed
<1>5. /\ ledger' \in Ledger
      /\ ledger'.removed = ledger.removed \cup Listed
      /\ ledger'.subscribed = ledger.subscribed /\ ledger'.stands = ledger.stands
      /\ ledger'.list = ledger.list /\ ledger'.called = ledger.called
    BY <1>1, <1>2, <1>4 DEF CBTypeOK, Ledger
<1>6. CBTypeOK' /\ CallsTyped'
    BY <1>1, <1>2, <1>3, <1>5 DEF CBTypeOK, CallsTyped, Inserting
<1>7. IdsDrawnOnce'
    BY <1>1, <1>2, <1>3, <1>5 DEF IdsDrawnOnce, Inserting
<1>8. OnePlaceEach'
    BY <1>1, <1>2, <1>3, <1>4, <1>5 DEF OnePlaceEach, Inserting
<1>9. HandlesStand'
    BY <1>3 DEF HandlesStand
<1>10. NotifierHolds'
    <2>1. \A u \in Callers : ~ Notifying(u)
        BY <1>1, <1>2, ListAssumption DEF NotifierHolds
    <2>2. \A u \in Callers : ~ Notifying(u)'
        BY <1>1, <2>1 DEF Notifying
    <2> QED BY <1>1, <2>2, ListAssumption DEF NotifierHolds
<1> QED BY <1>6, <1>7, <1>8, <1>9, <1>10 DEF ListInv

(* The steps of Notify leave the list, the ids and the handles alone. *)
LEMMA NotifyFrame ==
    ASSUME ListInv, NEW t \in Callers, ~ Inserting(t), NEW r \in CallState, r.pc # "insert",
           call' = [call EXCEPT ![t] = r], UNCHANGED <<nextId, subs, handle>>,
           mutex' \in Callers \cup {NoThread}, ledger' \in Ledger,
           ledger'.subscribed = ledger.subscribed, ledger'.removed = ledger.removed,
           ledger'.stands = ledger.stands, NotifierHolds'
    PROVE  ListInv'
<1>1. CBTypeOK /\ CallsTyped /\ IdsDrawnOnce /\ OnePlaceEach /\ HandlesStand
    BY DEF ListInv
<1>2. call' \in [Callers -> CallState] /\ call'[t] = r /\ \A u \in Callers \ {t} : call'[u] = call[u]
    BY <1>1 DEF CBTypeOK
<1>3. \A u \in Callers : /\ Inserting(u)' <=> Inserting(u)
                         /\ Inserting(u) => call'[u] = call[u]
    BY <1>2 DEF Inserting
<1>4. CBTypeOK'
    BY <1>1, <1>2 DEF CBTypeOK
<1>5. CallsTyped'
    BY <1>1, <1>3 DEF CallsTyped
<1>6. IdsDrawnOnce'
    BY <1>1, <1>3 DEF IdsDrawnOnce
<1>7. OnePlaceEach'
    BY <1>1, <1>3 DEF OnePlaceEach
<1>8. HandlesStand'
    BY <1>1 DEF HandlesStand
<1> QED BY <1>4, <1>5, <1>6, <1>7, <1>8 DEF ListInv

LEMMA ListNotify ==
    ASSUME ListInv, NEW t \in Callers, Notify(t)
    PROVE  ListInv'
<1>0. PICK r : r = [Idle EXCEPT !.pc = "notify", !.pos = 1]
    OBVIOUS
<1>1. /\ call[t].pc = "idle" /\ mutex = NoThread /\ mutex' = t
      /\ call' = [call EXCEPT ![t] = r]
      /\ ledger' = [ledger EXCEPT !.list = CallbacksOf(subs), !.called = <<>>]
      /\ UNCHANGED <<nextId, subs, handle>>
    BY <1>0 DEF Notify
<1>2. /\ CBTypeOK /\ NotifierHolds /\ Len(subs) \in Nat
      /\ \A j \in 1 .. Len(subs) : subs[j].id \in IDs /\ subs[j].cb \in Callbacks
    BY SubsProperties DEF ListInv
<1>3. r \in CallState /\ r.pc = "notify" /\ r.pos = 1
    <2>1. Idle \in CallState
        BY ListAssumption DEF Idle, CallState
    <2>2. r = [pc |-> "notify", id |-> Idle.id, cb |-> Idle.cb, handle |-> Idle.handle, pos |-> 1]
        BY <1>0, <2>1 DEF CallState
    <2> QED BY <2>1, <2>2 DEF CallState
<1>4. CallbacksOf(subs) \in Seq(Callbacks) /\ <<>> \in Seq(Callbacks) /\ Len(<<>>) = 0
    <2>1. CallbacksOf(subs) \in [1 .. Len(subs) -> Callbacks]
        BY <1>2 DEF CallbacksOf
    <2> QED BY <1>2, <2>1, EmptySeq
<1>5. /\ ledger' \in Ledger
      /\ ledger'.list = CallbacksOf(subs) /\ Len(ledger'.called) = 0
      /\ ledger'.subscribed = ledger.subscribed /\ ledger'.removed = ledger.removed
      /\ ledger'.stands = ledger.stands
    BY <1>1, <1>2, <1>4 DEF CBTypeOK, Ledger
<1>6. call'[t] = r /\ \A u \in Callers \ {t} : call'[u] = call[u]
    BY <1>1, <1>2 DEF CBTypeOK
<1>7. NotifierHolds'
    <2>1. \A u \in Callers : ~ Notifying(u)
        BY <1>1, <1>2, ListAssumption DEF NotifierHolds
    <2>2. \A u \in Callers : mutex' = u <=> Notifying(u)'
        BY <1>1, <1>3, <1>6, <2>1 DEF Notifying
    <2> QED BY <1>1, <1>2, <1>3, <1>5, <1>6, <2>2 DEF NotifierHolds, CallbacksOf
<1>8. ~ Inserting(t)
    BY <1>1 DEF Inserting
<1> QED BY <1>1, <1>3, <1>5, <1>7, <1>8, NotifyFrame

LEMMA ListInvoke ==
    ASSUME ListInv, NEW t \in Callers, Invoke(t)
    PROVE  ListInv'
<1>1. PICK r : r = [call[t] EXCEPT !.pc = "callback"]
    OBVIOUS
<1>2. PICK p : p = call[t].pos
    OBVIOUS
<1>3. /\ call[t].pc = "notify" /\ p <= Len(subs)
      /\ call' = [call EXCEPT ![t] = r]
      /\ ledger' = [ledger EXCEPT !.called = Append(@, subs[p].cb)]
      /\ UNCHANGED <<nextId, subs, mutex, handle>>
    BY <1>1, <1>2 DEF Invoke
<1>4. /\ CBTypeOK /\ NotifierHolds /\ Len(subs) \in Nat
      /\ \A j \in 1 .. Len(subs) : subs[j].id \in IDs /\ subs[j].cb \in Callbacks
    BY SubsProperties DEF ListInv
<1>5. r \in CallState /\ r.pc = "callback" /\ r.pos = p
    BY <1>1, <1>2, <1>4 DEF CBTypeOK, CallState
<1>6. /\ mutex = t /\ ledger.list = CallbacksOf(subs) /\ p \in 1 .. Len(subs)
      /\ Len(ledger.called) = p - 1
      /\ \A k \in 1 .. Len(ledger.called) : ledger.called[k] = subs[k].cb
    BY <1>2, <1>3, <1>4 DEF NotifierHolds, Notifying
<1>7. /\ Append(ledger.called, subs[p].cb) \in Seq(Callbacks)
      /\ Len(Append(ledger.called, subs[p].cb)) = p
      /\ \A k \in 1 .. p : Append(ledger.called, subs[p].cb)[k] = subs[k].cb
    <2>1. ledger.called \in Seq(Callbacks) /\ subs[p].cb \in Callbacks
        BY <1>4, <1>6 DEF CBTypeOK, Ledger
    <2> QED BY <1>6, <2>1, AppendProperties
<1>8. /\ ledger' \in Ledger
      /\ ledger'.called = Append(ledger.called, subs[p].cb) /\ ledger'.list = ledger.list
      /\ ledger'.subscribed = ledger.subscribed /\ ledger'.removed = ledger.removed
      /\ ledger'.stands = ledger.stands
    BY <1>3, <1>4, <1>7 DEF CBTypeOK, Ledger
<1>9. call'[t] = r /\ \A u \in Callers \ {t} : call'[u] = call[u]
    BY <1>3, <1>4 DEF CBTypeOK
<1>10. NotifierHolds'
    <2>1. \A u \in Callers : mutex' = u <=> Notifying(u)'
        BY <1>3, <1>4, <1>5, <1>9 DEF NotifierHolds, Notifying
    <2>2. \A u \in Callers : Notifying(u)' => u = t
        BY <1>3, <1>6, <2>1
    <2>3. /\ ledger'.list = CallbacksOf(subs)
          /\ call'[t].pos \in 1 .. Len(subs) + 1 /\ call'[t].pos <= Len(subs)
          /\ call'[t].pc = "callback" /\ Len(ledger'.called) = call'[t].pos
          /\ \A k \in 1 .. Len(ledger'.called) : ledger'.called[k] = subs[k].cb
        BY <1>4, <1>5, <1>6, <1>7, <1>8, <1>9
    <2> QED BY <1>3, <2>1, <2>2, <2>3 DEF NotifierHolds, CallbacksOf
<1>11. ~ Inserting(t)
    BY <1>3 DEF Inserting
<1> QED BY <1>3, <1>4, <1>5, <1>8, <1>10, <1>11, NotifyFrame DEF CBTypeOK

LEMMA ListCallbackReturns ==
    ASSUME ListInv, NEW t \in Callers, CallbackReturns(t)
    PROVE  ListInv'
<1>1. PICK r : r = [call[t] EXCEPT !.pc = "notify", !.pos = @ + 1]
    OBVIOUS
<1>2. /\ call[t].pc = "callback"
      /\ call' = [call EXCEPT ![t] = r]
      /\ UNCHANGED <<nextId, subs, mutex, handle, ledger>>
    BY <1>1 DEF CallbackReturns
<1>3. CBTypeOK /\ NotifierHolds /\ Len(subs) \in Nat
    BY SubsProperties DEF ListInv
<1>4. r \in CallState /\ r.pc = "notify" /\ r.pos = call[t].pos + 1 /\ call[t].pos \in Nat
    <2>1. call[t] \in CallState
        BY <1>3 DEF CBTypeOK
    <2>2. r = [pc |-> "notify", id |-> call[t].id, cb |-> call[t].cb, handle |-> call[t].handle,
               pos |-> call[t].pos + 1]
        BY <1>1, <2>1 DEF CallState
    <2> QED BY <2>1, <2>2 DEF CallState
<1>5. call'[t] = r /\ \A u \in Callers \ {t} : call'[u] = call[u]
    BY <1>2, <1>3 DEF CBTypeOK
<1>6. /\ mutex = t /\ ledger.list = CallbacksOf(subs) /\ call[t].pos <= Len(subs)
      /\ Len(ledger.called) = call[t].pos
      /\ \A k \in 1 .. Len(ledger.called) : ledger.called[k] = subs[k].cb
    BY <1>2, <1>3 DEF NotifierHolds, Notifying
<1>7. NotifierHolds'
    <2>1. \A u \in Callers : mutex' = u <=> Notifying(u)'
        BY <1>2, <1>3, <1>4, <1>5 DEF NotifierHolds, Notifying
    <2>2. \A u \in Callers : Notifying(u)' => u = t
        BY <1>2, <1>6, <2>1
    <2>3. /\ call'[t].pos \in 1 .. Len(subs) + 1 /\ call'[t].pc # "callback"
          /\ Len(ledger.called) = call'[t].pos - 1
        BY <1>3, <1>4, <1>5, <1>6
    <2> QED BY <1>2, <1>6, <2>1, <2>2, <2>3 DEF NotifierHolds, CallbacksOf
<1>8. ~ Inserting(t)
    BY <1>2 DEF Inserting
<1> QED BY <1>2, <1>3, <1>4, <1>7, <1>8, NotifyFrame DEF CBTypeOK

(* Notify ends, because a callback throws or at the end of the list. *)
LEMMA ListNotifyEnds ==
    ASSUME ListInv, NEW t \in Callers, CallbackThrows(t) \/ NotifyReturns(t)
    PROVE  ListInv'
<1>1. /\ Notifying(t) /\ ~ Inserting(t) /\ mutex' = NoThread
      /\ call' = [call EXCEPT ![t] = Idle]
      /\ UNCHANGED <<nextId, subs, handle, ledger>>
    BY DEF CallbackThrows, NotifyReturns, Notifying, Inserting
<1>2. CBTypeOK /\ NotifierHolds
    BY DEF ListInv
<1>3. Idle \in CallState /\ Idle.pc = "idle"
    BY ListAssumption DEF Idle, CallState
<1>4. call'[t] = Idle /\ \A u \in Callers \ {t} : call'[u] = call[u]
    BY <1>1, <1>2 DEF CBTypeOK
<1>5. \A u \in Callers : ~ Notifying(u)'
    BY <1>1, <1>2, <1>3, <1>4 DEF NotifierHolds, Notifying
<1>6. NotifierHolds'
    BY <1>1, <1>5, ListAssumption DEF NotifierHolds
<1> QED BY <1>1, <1>2, <1>3, <1>6, NotifyFrame DEF CBTypeOK

LEMMA ListNext == ListInv /\ [CBNext]_CBvars => ListInv'
<1> SUFFICES ASSUME ListInv, [CBNext]_CBvars PROVE ListInv'
    OBVIOUS
<1>1. CASE UNCHANGED CBvars
    BY <1>1 DEF CBvars, ListInv, CBTypeOK, CallsTyped, IdsDrawnOnce, OnePlaceEach, HandlesStand,
                NotifierHolds, Inserting, Notifying, CallbacksOf
<1>2. ASSUME NEW t \in Callers, NEW h \in Handles, Unsubscribe(t, h) PROVE ListInv'
    BY <1>2, ListUnsubscribe
<1>3. ASSUME NEW t \in Callers, NEW h \in Handles, NEW cb \in Callbacks, Subscribe(t, cb, h)
      PROVE  ListInv'
    BY <1>3, ListSubscribe
<1>4. ASSUME NEW t \in Callers, NEW h \in Handles, NEW from \in Handles, CopyHandle(t, from, h)
      PROVE  ListInv'
    BY <1>4, ListCopyHandle
<1>5. ASSUME NEW t \in Callers, Insert(t) PROVE ListInv'
    BY <1>5, ListInsert
<1>6. ASSUME NEW t \in Callers, Clear(t) PROVE ListInv'
    BY <1>6, ListClear
<1>7. ASSUME NEW t \in Callers, Notify(t) PROVE ListInv'
    BY <1>7, ListNotify
<1>8. ASSUME NEW t \in Callers, Invoke(t) PROVE ListInv'
    BY <1>8, ListInvoke
<1>9. ASSUME NEW t \in Callers, CallbackReturns(t) PROVE ListInv'
    BY <1>9, ListCallbackReturns
<1>10. ASSUME NEW t \in Callers, CallbackThrows(t) \/ NotifyReturns(t) PROVE ListInv'
    BY <1>10, ListNotifyEnds
<1> QED BY <1>1, <1>2, <1>3, <1>4, <1>5, <1>6, <1>7, <1>8, <1>9, <1>10 DEF CBNext

LEMMA ListAlways == CBSpec => []ListInv
BY InitList, ListNext, PTL DEF CBSpec

-----------------------------------------------------------------------------
(* The theorems *)

(* The types, which include that an id is below kIDMax: the counter never  *)
(* reaches the id of the invalid Handle.                                   *)
THEOREM ListTypes == CBSpec => []CBTypeOK
<1>1. ListInv => CBTypeOK
    BY DEF ListInv
<1> QED BY <1>1, ListAlways, PTL

(* The list is what was subscribed and not unsubscribed or cleared, each   *)
(* callback once: whatever the order in which the ids enter the list, and  *)
(* also with copied handles and with handles older than a Clear.           *)
THEOREM ListIsExact == CBSpec => []ExactlySubscribed
<1>1. ListInv => ExactlySubscribed
    <2> SUFFICES ASSUME ListInv PROVE ExactlySubscribed
        OBVIOUS
    <2> DEFINE pending == {call[t].cb : t \in {u \in Callers : call[u].pc = "insert"}}
    <2>1. OnePlaceEach
        BY DEF ListInv
    <2>2. \A cb : cb \in pending <=> \E t \in Callers : Inserting(t) /\ call[t].cb = cb
        BY DEF Inserting
    <2>3. \A cb : cb \in Listed <=> \E i \in 1 .. Len(subs) : subs[i].cb = cb
        BY DEF Listed
    <2> HIDE DEF pending
    <2>4. ASSUME NEW cb \in Listed PROVE cb \in (ledger.subscribed \ pending) \ ledger.removed
        BY <2>1, <2>2, <2>3 DEF OnePlaceEach
    <2>5. ASSUME NEW cb \in (ledger.subscribed \ pending) \ ledger.removed PROVE cb \in Listed
        BY <2>1, <2>2, <2>3 DEF OnePlaceEach
    <2>6. Listed = (ledger.subscribed \ pending) \ ledger.removed
        BY <2>4, <2>5
    <2>7. \A i, j \in 1 .. Len(subs) : subs[i].cb = subs[j].cb => i = j
        BY <2>1 DEF OnePlaceEach
    <2> QED BY <2>6, <2>7 DEF ExactlySubscribed, pending
<1> QED BY <1>1, ListAlways, PTL

(* After Unsubscribe or Clear has returned, the callback is not executing  *)
(* in any thread, so what it captured may go.                              *)
THEOREM RemovedStaysQuiet == CBSpec => []RemovedIsQuiet
<1>1. ListInv => RemovedIsQuiet
    <2> SUFFICES ASSUME ListInv, NEW t \in Callers, call[t].pc = "callback"
                 PROVE  /\ Last(ledger.called) \notin ledger.removed
                        /\ call[t].pos <= Len(subs) /\ subs[call[t].pos].cb = Last(ledger.called)
        BY DEF RemovedIsQuiet
    <2>1. NotifierHolds /\ OnePlaceEach /\ Len(subs) \in Nat
        BY SubsProperties DEF ListInv
    <2>2. /\ call[t].pos \in 1 .. Len(subs) /\ Len(ledger.called) = call[t].pos
          /\ \A k \in 1 .. Len(ledger.called) : ledger.called[k] = subs[k].cb
        BY <2>1 DEF NotifierHolds, Notifying
    <2>3. Last(ledger.called) = subs[call[t].pos].cb
        BY <2>1, <2>2 DEF Last
    <2> QED BY <2>1, <2>2, <2>3 DEF OnePlaceEach
<1> QED BY <1>1, ListAlways, PTL

(* A Notify calls the callbacks it found, each once and in the order of    *)
(* their subscription, and a Notify that returns has called them all.      *)
THEOREM NotifyCallsAll == CBSpec => NotifiesAllInOrder
<1> DEFINE Calls(t) == /\ Invoke(t) => IsPrefix(ledger'.called, ledger.list)
                       /\ NotifyReturns(t) => ledger.called = ledger.list
<1>1. ASSUME ListInv, ListInv', NEW t \in Callers PROVE Calls(t)
    <2>1. CBTypeOK /\ NotifierHolds /\ CBTypeOK' /\ NotifierHolds' /\ Len(subs) \in Nat
        BY <1>1, SubsProperties DEF ListInv
    <2>2. /\ ledger.called \in Seq(Callbacks) /\ ledger.list \in Seq(Callbacks)
          /\ ledger'.called \in Seq(Callbacks)
        BY <2>1 DEF CBTypeOK, Ledger
    <2>3. ASSUME Notifying(t)
          PROVE  /\ ledger.list = CallbacksOf(subs) /\ Len(ledger.list) = Len(subs)
                 /\ \A k \in 1 .. Len(subs) : ledger.list[k] = subs[k].cb
        <3>1. ledger.list = CallbacksOf(subs)
            BY <2>1, <2>3 DEF NotifierHolds
        <3>2. DOMAIN ledger.list = 1 .. Len(subs)
            BY <3>1 DEF CallbacksOf
        <3>3. Len(ledger.list) = Len(subs)
            BY <2>1, <2>2, <3>2, LenProperties
        <3> QED BY <3>1, <3>3 DEF CallbacksOf
    <2>4. ASSUME Invoke(t) PROVE IsPrefix(ledger'.called, ledger.list)
        <3>1. /\ Notifying(t) /\ Notifying(t)' /\ UNCHANGED <<subs, mutex>>
              /\ ledger'.list = ledger.list
            BY <2>1, <2>4 DEF Invoke, Notifying, CBTypeOK, Ledger
        <3>2. /\ Len(ledger'.called) \in Nat /\ Len(ledger'.called) <= Len(subs)
              /\ \A k \in 1 .. Len(ledger'.called) : ledger'.called[k] = subs[k].cb
            <4>1. call'[t].pc = "callback"
                BY <2>1, <2>4 DEF Invoke, CBTypeOK, CallState
            <4> QED BY <2>1, <3>1, <4>1 DEF NotifierHolds
        <3>3. \A k \in 1 .. Len(ledger'.called) : ledger'.called[k] = ledger.list[k]
            BY <2>1, <2>3, <3>1, <3>2
        <3> QED BY <2>1, <2>2, <2>3, <3>1, <3>2, <3>3, SubSeqProperties, SeqEqual DEF IsPrefix
    <2>5. ASSUME NotifyReturns(t) PROVE ledger.called = ledger.list
        <3>1. Notifying(t) /\ call[t].pc # "callback" /\ call[t].pos > Len(subs)
            BY <2>5 DEF NotifyReturns, Notifying
        <3>2. /\ Len(ledger.called) = Len(subs)
              /\ \A k \in 1 .. Len(subs) : ledger.called[k] = subs[k].cb
            BY <2>1, <3>1 DEF NotifierHolds
        <3> QED BY <2>2, <2>3, <3>1, <3>2, SeqEqual
    <2> QED BY <2>4, <2>5
<1>2. ListInv /\ ListInv' /\ [CBNext]_CBvars => [\A t \in Callers : Calls(t)]_CBvars
    BY <1>1
<1>3. CBSpec => [][\A t \in Callers : Calls(t)]_CBvars
    BY <1>2, ListAlways, PTL DEF CBSpec
<1> QED BY <1>3 DEF NotifiesAllInOrder
=============================================================================
