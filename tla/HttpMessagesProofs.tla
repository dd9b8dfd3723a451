-------------------------- MODULE HttpMessagesProofs --------------------------
(***************************************************************************)
(* Proofs about HttpMessages, for all calls and handlings, every payload   *)
(* limit and any number of calls.                                          *)
(*                                                                         *)
(* KeptConnectionIsInStep speaks of the moments between two calls and is   *)
(* not inductive.  MessagesInv says what is on its way during a call: its  *)
(* request, whole (Unanswered), or the answers to it, of which the last    *)
(* one fits what the client will read (Answered).                          *)
(***************************************************************************)
EXTENDS HttpMessages, SequenceTheorems, WellFoundedInduction, TLAPS

-----------------------------------------------------------------------------
(* Numbers and sequences                                                   *)

(* A set of natural numbers that is not empty has a least element.         *)
LEMMA LeastElement ==
    ASSUME NEW T, T \subseteq Nat, T # {}
    PROVE  Min(T) \in T /\ \A y \in T : Min(T) <= y
<1>1. IsWellFoundedOn(OpToRel(<, Nat), Nat)
  BY NatLessThanWellFounded
<1>2. OpToRel(<, Nat) = {ss \in Nat \X Nat : ss[1] < ss[2]}
  BY DEF OpToRel
<1>3. PICK R : R = {ss \in Nat \X Nat : ss[1] < ss[2]}
  OBVIOUS
<1>4. IsWellFoundedOn(R, Nat)
  BY <1>1, <1>2, <1>3, Zenon
<1>5. \E x \in T : \A y \in T : ~ (<<y, x>> \in R)
  BY <1>4, WFMin, Zenon
<1>6. ASSUME NEW x \in Nat, NEW y \in Nat, <<y, x>> \notin R
      PROVE  x <= y
  <2>1. <<y, x>> \in Nat \X Nat /\ <<y, x>>[1] = y /\ <<y, x>>[2] = x
    OBVIOUS
  <2>2. ~(y < x)
    BY <1>3, <1>6, <2>1, Zenon
  <2> QED BY <2>2
<1>7. \E x \in T : \A y \in T : x <= y
  BY <1>5, <1>6
<1> QED
  BY <1>7 DEF Min

(* A set of numbers up to n that is not empty has a greatest element.       *)
LEMMA GreatestElement ==
    ASSUME NEW n \in Nat, NEW T, T \subseteq 0 .. n, T # {}
    PROVE  Max(T) \in T /\ \A y \in T : y <= Max(T)
<1> DEFINE D == {n - y : y \in T}
<1>1. D \subseteq Nat /\ D # {}
  <2>1. \A y \in T : y \in 0 .. n
    OBVIOUS
  <2>2. ASSUME NEW y \in T PROVE n - y \in Nat
    BY <2>1
  <2> QED BY <2>2
<1>2. Min(D) \in D /\ \A d \in D : Min(D) <= d
  BY <1>1, LeastElement, Zenon
<1>3. PICK x \in T : Min(D) = n - x
  BY <1>2
<1>4. ASSUME NEW y \in T PROVE x >= y
  <2>1. n - y \in D
    OBVIOUS
  <2>2. n - x <= n - y
    BY <1>2, <1>3, <2>1, Zenon
  <2>3. x \in Nat /\ y \in Nat
    OBVIOUS
  <2> QED BY <2>2, <2>3
<1>5. Max(T) \in T /\ \A y \in T : Max(T) >= y
  BY <1>4 DEF Max
<1>6. T \subseteq Nat
  OBVIOUS
<1> QED BY <1>5, <1>6

(* What is left of a sequence when its beginning is taken away. *)
LEMMA DropProperties ==
    ASSUME NEW S, NEW s \in Seq(S), NEW n \in 0 .. Len(s)
    PROVE  /\ Drop(s, n) \in Seq(S)
           /\ Len(Drop(s, n)) = Len(s) - n
           /\ \A i \in 1 .. Len(s) - n : Drop(s, n)[i] = s[i + n]
           /\ n = Len(s) => Drop(s, n) = <<>>
<1>1. Len(s) \in Nat /\ n + 1 \in 1 .. Len(s) + 1
  OBVIOUS
<1>2. Drop(s, n) \in Seq(S)
  BY <1>1, SubSeqProperties DEF Drop
<1>3. Len(Drop(s, n)) = Len(s) - n
  BY <1>1, SubSeqProperties DEF Drop
<1>4. ASSUME NEW i \in 1 .. Len(s) - n PROVE Drop(s, n)[i] = s[i + n]
  <2>1. i \in 1 .. Len(s) - (n + 1) + 1
    BY <1>1
  <2> QED BY <1>1, <2>1, SubSeqProperties DEF Drop
<1>5. n = Len(s) => Drop(s, n) = <<>>
  BY <1>2, <1>3, EmptySeq
<1> QED BY <1>2, <1>3, <1>4, <1>5

(* What a stream leaves in the socket is a sequence of what was there.      *)
LEMMA ReadAheadProperties ==
    ASSUME NEW S, NEW s \in Seq(S), NEW t \in ReadAhead(s)
    PROVE  t \in Seq(S) /\ (s = <<>> => t = <<>>)
<1>1. PICK n \in 0 .. Len(s) : t = Drop(s, n)
  BY DEF ReadAhead
<1>2. t \in Seq(S) /\ Len(t) = Len(s) - n
  BY <1>1, DropProperties
<1>3. s = <<>> => Len(t) = 0
  BY <1>2
<1> QED BY <1>2, <1>3, EmptySeq

(* The first unit, and what comes after it. *)
LEMMA DropOne ==
    ASSUME NEW S, NEW a \in S, NEW s \in Seq(S)
    PROVE  /\ <<a>> \o s \in Seq(S) /\ <<a>> \o s # <<>>
           /\ (<<a>> \o s)[1] = a
           /\ Drop(<<a>> \o s, 1) = s
<1> DEFINE t == <<a>> \o s
<1>1. t \in Seq(S) /\ Len(t) = Len(s) + 1 /\ t[1] = a
  OBVIOUS
<1>2. \A i \in 1 .. Len(s) : t[i + 1] = s[i]
  OBVIOUS
<1>3. 1 \in 0 .. Len(t) /\ Len(t) - 1 = Len(s) /\ Len(s) \in Nat
  BY <1>1
<1> HIDE DEF t
<1>4. /\ Drop(t, 1) \in Seq(S) /\ Len(Drop(t, 1)) = Len(t) - 1
      /\ \A i \in 1 .. Len(t) - 1 : Drop(t, 1)[i] = t[i + 1]
  BY <1>1, <1>3, DropProperties
<1>5. Drop(t, 1) = s
  BY <1>2, <1>3, <1>4, SeqEqual
<1>6. t # <<>>
  BY <1>1, <1>3
<1> QED BY <1>1, <1>5, <1>6 DEF t

(* The whole of a sequence. *)
LEMMA WholeSeq ==
    ASSUME NEW S, NEW s \in Seq(S)
    PROVE  SubSeq(s, 1, Len(s)) = s
<1>1. Len(s) \in Nat /\ \A i \in 1 .. Len(s) : s[i] \in S
  OBVIOUS
<1>2. /\ SubSeq(s, 1, Len(s)) \in Seq(S)
      /\ Len(SubSeq(s, 1, Len(s))) = IF 1 <= Len(s) THEN Len(s) - 1 + 1 ELSE 0
      /\ \A i \in 1 .. Len(s) - 1 + 1 : SubSeq(s, 1, Len(s))[i] = s[1 + i - 1]
  BY <1>1, SubSeqProperties
<1>3. Len(SubSeq(s, 1, Len(s))) = Len(s)
  BY <1>1, <1>2
<1>4. ASSUME NEW i \in 1 .. Len(s) PROVE SubSeq(s, 1, Len(s))[i] = s[i]
  <2>1. i \in 1 .. Len(s) - 1 + 1 /\ 1 + i - 1 = i
    BY <1>1
  <2> QED BY <1>2, <2>1
<1> QED BY <1>2, <1>3, <1>4, SeqEqual

-----------------------------------------------------------------------------
(* What is on its way                                                      *)

(* The units of a content, and the heads of requests and of answers.       *)
ContentUnit(n) == [unit : {"data", "chunk", "end"}, of : 0 .. n]

Requests(n) ==
    [unit : {"head"}, of : 0 .. n, method : {"GET", "HEAD", "POST", "PUT", "PATCH", "DELETE", "OPTIONS"},
     len : Nat \cup {NoLength}, chunked : BOOLEAN, close : BOOLEAN, type : {"plain", "multipart", "form"},
     ranges : Seq(Int \X Int), expect : BOOLEAN]

AnswerHeads(n) ==
    [unit : {"head"}, of : 0 .. n, status : Nat, len : Nat \cup {NoLength}, chunked : BOOLEAN, close : BOOLEAN]

ToServer(n) == ContentUnit(n) \cup Requests(n)
ToClient(n) == ContentUnit(n) \cup AnswerHeads(n)

(* What may be on its way still may in a later call.                       *)
LEMMA UnitsOfLaterCalls ==
    ASSUME NEW m \in Nat, NEW n \in Nat, m <= n
    PROVE  ToServer(m) \subseteq ToServer(n) /\ ToClient(m) \subseteq ToClient(n)
<1>1. 0 .. m \subseteq 0 .. n
  OBVIOUS
<1>2. ContentUnit(m) \subseteq ContentUnit(n)
  BY <1>1 DEF ContentUnit
<1>3. Requests(m) \subseteq Requests(n)
  BY <1>1 DEF Requests
<1>4. AnswerHeads(m) \subseteq AnswerHeads(n)
  BY <1>1 DEF AnswerHeads
<1> QED BY <1>2, <1>3, <1>4 DEF ToServer, ToClient

(* Each unit is of a call up to the n-th, and only a head has a length.    *)
LEMMA UnitForms ==
    ASSUME NEW n \in Nat
    PROVE  /\ \A x \in ToServer(n) : /\ x.unit \in {"head", "data", "chunk", "end"} /\ x.of \in 0 .. n
                                     /\ x.unit = "head" => x \in Requests(n) /\ x.len \in Nat \cup {NoLength}
           /\ \A x \in ToClient(n) : /\ x.unit \in {"head", "data", "chunk", "end"} /\ x.of \in 0 .. n
                                     /\ x.unit = "head" => x \in AnswerHeads(n) /\ x.len \in Nat \cup {NoLength}
<1>1. \A x \in ContentUnit(n) : x.unit \in {"data", "chunk", "end"} /\ x.of \in 0 .. n
  BY DEF ContentUnit
<1>2. \A x \in Requests(n) : x.unit = "head" /\ x.of \in 0 .. n /\ x.len \in Nat \cup {NoLength}
  BY DEF Requests
<1>3. \A x \in AnswerHeads(n) : x.unit = "head" /\ x.of \in 0 .. n /\ x.len \in Nat \cup {NoLength}
  BY DEF AnswerHeads
<1> QED BY <1>1, <1>2, <1>3 DEF ToServer, ToClient

(* The head of a request is a typed one of its call.                       *)
LEMMA RequestHeadTyped ==
    ASSUME NEW c \in UserCall, NEW n \in Nat, NEW k \in 0 .. n
    PROVE  RequestHead(c, k) \in Requests(n)
<1>1. /\ c.method \in {"GET", "HEAD", "POST", "PUT", "PATCH", "DELETE", "OPTIONS"}
      /\ c.size \in Nat /\ c.type \in {"plain", "multipart", "form"}
      /\ c.ranges \in Seq(Int \X Int) /\ c.expect \in BOOLEAN /\ c.close \in BOOLEAN
  BY DEF UserCall
<1>2. RequestLength(c) \in Nat \cup {NoLength}
  BY <1>1 DEF RequestLength
<1> QED BY <1>1, <1>2 DEF RequestHead, Requests

(* A number of units of a call is a sequence of as many.                   *)
LEMMA UnitsProperties ==
    ASSUME NEW k \in {"data", "chunk", "end"}, NEW n \in Nat, NEW m \in 0 .. n, NEW count \in Nat
    PROVE  /\ Units(k, m, count) \in Seq(ContentUnit(n))
           /\ Len(Units(k, m, count)) = count
           /\ \A i \in 1 .. count : Units(k, m, count)[i] = Unit(k, m)
           /\ count = 0 => Units(k, m, count) = <<>>
<1>1. Unit(k, m) \in ContentUnit(n)
  BY DEF Unit, ContentUnit
<1>2. PICK u : u = Unit(k, m)
  OBVIOUS
<1>3. Units(k, m, count) = [i \in 1 .. count |-> u]
  BY <1>2 DEF Units
<1>4. /\ [i \in 1 .. count |-> u] \in Seq(ContentUnit(n)) /\ Len([i \in 1 .. count |-> u]) = count
      /\ \A i \in 1 .. count : [j \in 1 .. count |-> u][i] = u
  BY <1>1, <1>2
<1>5. count = 0 => [i \in 1 .. count |-> u] = <<>>
  BY <1>4, EmptySeq
<1> QED BY <1>2, <1>3, <1>4, <1>5

(* Chunked content is its chunks and the end behind them.                  *)
LEMMA ChunkedProperties ==
    ASSUME NEW n \in Nat, NEW m \in 0 .. n, NEW count \in Nat
    PROVE  /\ Chunked(m, count) \in Seq(ContentUnit(n))
           /\ Len(Chunked(m, count)) = count + 1
           /\ \A i \in 1 .. count : Chunked(m, count)[i] = Unit("chunk", m)
           /\ Chunked(m, count)[count + 1] = Unit("end", m)
<1>1. PICK u : u = Units("chunk", m, count)
  OBVIOUS
<1>2. u \in Seq(ContentUnit(n)) /\ Len(u) = count /\ \A i \in 1 .. count : u[i] = Unit("chunk", m)
  BY <1>1, UnitsProperties
<1>3. PICK e \in ContentUnit(n) : e = Unit("end", m)
  BY DEF Unit, ContentUnit
<1>4. /\ Append(u, e) \in Seq(ContentUnit(n)) /\ Len(Append(u, e)) = count + 1
      /\ \A i \in 1 .. count : Append(u, e)[i] = u[i]
      /\ Append(u, e)[count + 1] = e
  BY <1>2, <1>3
<1>5. Chunked(m, count) = Append(u, e)
  BY <1>1, <1>3 DEF Chunked
<1> QED BY <1>2, <1>3, <1>4, <1>5

-----------------------------------------------------------------------------
(* Reading                                                                 *)

(* With a length, that much is taken, or what is there when it is less.    *)
LEMMA ReadWithLengthProperties ==
    ASSUME NEW S, NEW s \in Seq(S), NEW n \in Nat
    PROVE  /\ ReadWithLength(s, n).ok \in BOOLEAN /\ ReadWithLength(s, n).size \in Nat
           /\ ReadWithLength(s, n).rest \in Seq(S)
           /\ ReadWithLength(s, n).ok => n <= Len(s)
           /\ n = Len(s) => ReadWithLength(s, n) = [ok |-> TRUE, size |-> n, rest |-> <<>>]
<1>1. Len(s) \in Nat /\ <<>> \in Seq(S)
  OBVIOUS
<1>2. PICK b : b = ReadWithLength(s, n)
  OBVIOUS
<1>3. b.ok \in BOOLEAN /\ b.size \in Nat /\ b.rest \in Seq(S) /\ (b.ok => n <= Len(s))
  <2>1. CASE n <= Len(s)
    <3>1. n \in 0 .. Len(s)
      BY <1>1, <2>1
    <3>2. b = [ok |-> TRUE, size |-> n, rest |-> Drop(s, n)]
      BY <2>1, <1>2 DEF ReadWithLength
    <3>3. Drop(s, n) \in Seq(S)
      BY <3>1, DropProperties
    <3> QED BY <2>1, <3>2, <3>3
  <2>2. CASE ~(n <= Len(s))
    <3>1. b.size = Len(s) /\ b.rest = <<>> /\ b.ok = (n <= Len(s))
      BY <2>2, <1>2 DEF ReadWithLength
    <3>2. (n <= Len(s)) \in BOOLEAN
      BY <1>1
    <3> QED BY <1>1, <2>2, <3>1, <3>2
  <2> QED BY <2>1, <2>2
<1>4. ASSUME n = Len(s) PROVE ReadWithLength(s, n) = [ok |-> TRUE, size |-> n, rest |-> <<>>]
  <2>1. n <= Len(s) /\ n \in 0 .. Len(s)
    BY <1>1, <1>4
  <2>2. ReadWithLength(s, n) = [ok |-> TRUE, size |-> n, rest |-> Drop(s, n)]
    BY <2>1 DEF ReadWithLength
  <2>3. Drop(s, n) = <<>>
    BY <2>1, <1>4, DropProperties
  <2> QED BY <2>2, <2>3
<1> QED BY <1>2, <1>3, <1>4

(* Reading chunks leaves a sequence of what was there.                     *)
LEMMA ReadChunkedTyped ==
    ASSUME NEW S, NEW s \in Seq(S)
    PROVE  /\ ReadChunked(s).ok \in BOOLEAN /\ ReadChunked(s).size \in Nat
           /\ ReadChunked(s).rest \in Seq(S)
<1> DEFINE other == Position(s, {"head", "data", "end"})
           stop  == IF other = {} THEN Len(s) ELSE Min(other)
<1>1. Len(s) \in Nat /\ other \subseteq 1 .. Len(s)
  BY DEF Position
<1>2. other \subseteq Nat
  BY <1>1
<1>3. other # {} => Min(other) \in other
  BY <1>2, LeastElement, Zenon
<1>4. ReadChunked(s) = [ok |-> other # {} /\ s[stop].unit = "end", size |-> IF other = {} THEN stop ELSE stop - 1,
                        rest |-> Drop(s, stop)]
  BY DEF ReadChunked
<1> HIDE DEF other
<1>5. stop \in 0 .. Len(s) /\ (IF other = {} THEN stop ELSE stop - 1) \in Nat
  <2>1. CASE other = {}
    BY <1>1, <2>1
  <2>2. CASE other # {}
    <3>1. PICK m : m = Min(other)
      OBVIOUS
    <3>2. m \in 1 .. Len(s) /\ stop = m
      BY <1>1, <1>3, <2>2, <3>1
    <3> HIDE DEF stop
    <3> QED BY <1>1, <2>2, <3>2
  <2> QED BY <2>1, <2>2
<1>6. Drop(s, stop) \in Seq(S)
  BY <1>5, DropProperties
<1> QED BY <1>4, <1>5, <1>6

(* What was written in chunks is read to its last chunk. *)
LEMMA ReadChunkedWhole ==
    ASSUME NEW n \in Nat, NEW m \in 0 .. n, NEW count \in Nat
    PROVE  ReadChunked(Chunked(m, count)) = [ok |-> TRUE, size |-> count, rest |-> <<>>]
<1>1. PICK s : s = Chunked(m, count)
  OBVIOUS
<1>2. /\ s \in Seq(ContentUnit(n)) /\ Len(s) = count + 1
      /\ \A i \in 1 .. count : s[i] = Unit("chunk", m)
      /\ s[count + 1] = Unit("end", m)
  BY <1>1, ChunkedProperties
<1>3. Unit("chunk", m).unit = "chunk" /\ Unit("end", m).unit = "end"
  BY DEF Unit
<1>4. \A i \in 1 .. Len(s) : s[i].unit \in {"head", "data", "end"} <=> i = count + 1
  BY <1>2, <1>3
<1>5. PICK other : other = Position(s, {"head", "data", "end"})
  OBVIOUS
<1>6. other = {count + 1}
  BY <1>2, <1>4, <1>5 DEF Position
<1>7. Min(other) = count + 1
  <2>1. other \subseteq Nat /\ other # {}
    BY <1>6
  <2> QED BY <1>6, <2>1, LeastElement
<1>8. Drop(s, count + 1) = <<>>
  BY <1>2, DropProperties
<1>9. ReadChunked(s) = [ok |-> s[count + 1].unit = "end", size |-> count, rest |-> Drop(s, count + 1)]
  BY <1>5, <1>6, <1>7 DEF ReadChunked
<1> QED BY <1>1, <1>2, <1>3, <1>8, <1>9

(* Chunks without a last one are not the whole content. *)
LEMMA ReadChunkedPart ==
    ASSUME NEW s, \A i \in 1 .. Len(s) : s[i].unit = "chunk"
    PROVE  ~ReadChunked(s).ok
<1>1. Position(s, {"head", "data", "end"}) = {}
  BY DEF Position
<1> QED BY <1>1 DEF ReadChunked

(* What the reading of a content comes to. *)
Outcome(S) == [ok : BOOLEAN, size : Nat, rest : Seq(S), status : {400, 413, 415}]

(* Reading leaves a sequence of what was there.                            *)
LEMMA ReadBodyTyped ==
    ASSUME NEW S, NEW s \in Seq(S), NEW n \in Nat, NEW r \in Requests(n)
    PROVE  ReadBody(r, s) \in Outcome(S)
<1>1. r.len \in Nat \cup {NoLength} /\ r.chunked \in BOOLEAN
  BY DEF Requests
<1>2. CASE r.chunked
  <2>1. PICK b : b = ReadChunked(s)
    OBVIOUS
  <2>2. b.ok \in BOOLEAN /\ b.size \in Nat /\ b.rest \in Seq(S)
    BY <2>1, ReadChunkedTyped
  <2>3. ReadBody(r, s) = [ok |-> b.ok, size |-> b.size, rest |-> b.rest, status |-> 400]
    BY <1>2, <2>1 DEF ReadBody, WithStatus
  <2> QED BY <2>2, <2>3 DEF Outcome
<1>3. CASE ~r.chunked /\ r.len = NoLength
  <2>1. ReadBody(r, s) = [ok |-> FALSE, size |-> Len(s), rest |-> <<>>, status |-> 400]
    BY <1>3 DEF ReadBody
  <2>2. Len(s) \in Nat /\ <<>> \in Seq(S)
    OBVIOUS
  <2> QED BY <2>1, <2>2 DEF Outcome
<1>4. CASE ~r.chunked /\ r.len # NoLength
  <2>1. r.len \in Nat
    BY <1>1, <1>4
  <2>2. PICK b : b = ReadWithLength(s, r.len)
    OBVIOUS
  <2>3. b.ok \in BOOLEAN /\ b.size \in Nat /\ b.rest \in Seq(S)
    BY <2>1, <2>2, ReadWithLengthProperties
  <2>4. ReadBody(r, s) = IF r.len > MaxPayload
                         THEN [ok |-> FALSE, size |-> 0, rest |-> b.rest, status |-> 413]
                         ELSE [ok |-> b.ok, size |-> b.size, rest |-> b.rest, status |-> 400]
    BY <1>4, <2>2 DEF ReadBody, WithStatus
  <2> QED BY <2>3, <2>4 DEF Outcome
<1> QED BY <1>1, <1>2, <1>3, <1>4

(* Where nothing lies in the socket nothing is read. *)
LEMMA ReadBodySome ==
    ASSUME NEW S, NEW s \in Seq(S), NEW n \in Nat, NEW r \in Requests(n), ReadBody(r, s).size > 0
    PROVE  s # <<>>
<1> SUFFICES ASSUME s = <<>> PROVE FALSE
  OBVIOUS
<1>1. Len(s) = 0 /\ (r.len \in Nat \cup {NoLength})
  BY DEF Requests
<1>2. CASE r.chunked
  <2>1. Position(s, {"head", "data", "end"}) = {}
    BY <1>1 DEF Position
  <2>2. ReadChunked(s).size = 0
    BY <1>1, <2>1 DEF ReadChunked
  <2>3. ReadBody(r, s).size = ReadChunked(s).size
    BY <1>2 DEF ReadBody, WithStatus
  <2> QED BY <2>2, <2>3
<1>3. CASE ~r.chunked /\ r.len = NoLength
  <2>1. ReadBody(r, s).size = Len(s)
    BY <1>3 DEF ReadBody
  <2> QED BY <1>1, <2>1
<1>4. CASE ~r.chunked /\ r.len # NoLength
  <2>1. r.len \in Nat
    BY <1>1, <1>4
  <2>2. ReadWithLength(s, r.len).size = 0
    BY <1>1, <2>1 DEF ReadWithLength
  <2>3. ReadBody(r, s).size = IF r.len > MaxPayload THEN 0 ELSE ReadWithLength(s, r.len).size
    BY <1>4 DEF ReadBody, WithStatus
  <2> QED BY <2>2, <2>3
<1> QED BY <1>2, <1>3, <1>4

(* Who stops in the middle leaves units of the same kinds.                 *)
LEMMA StopAtTyped ==
    ASSUME NEW n \in Nat, NEW s \in Seq(ToServer(n)), NEW i \in 1 .. Len(s)
    PROVE  StopAt(s, i) \in Seq(ToServer(n))
<1>1. i \in 0 .. Len(s) /\ s[i] \in ToServer(n)
  OBVIOUS
<1>2. Drop(s, i) \in Seq(ToServer(n))
  BY <1>1, DropProperties
<1>3. s[i].of \in 0 .. n
  BY <1>1, UnitForms
<1>4. Unit("data", s[i].of) \in ToServer(n)
  BY <1>3 DEF Unit, ToServer, ContentUnit
<1>5. PICK u \in ToServer(n) : u = Unit("data", s[i].of)
  BY <1>4
<1>6. <<u>> \o Drop(s, i) \in Seq(ToServer(n))
  BY <1>2, DropOne
<1> QED BY <1>2, <1>5, <1>6 DEF StopAt

(* So does who reads lines that are no headers; of nothing, nothing is left. *)
LEMMA SkipHeadersTyped ==
    ASSUME NEW n \in Nat, NEW s \in Seq(ToServer(n)), NEW t \in SkipHeaders(s)
    PROVE  t \in Seq(ToServer(n)) /\ (s = <<>> => t = <<>>)
<1>1. t = <<>> \/ \E i \in LineEnds(s) : t = StopAt(s, i)
  BY DEF SkipHeaders
<1>2. CASE t = <<>>
  BY <1>2, EmptySeq
<1>3. ASSUME NEW i \in LineEnds(s), t = StopAt(s, i)
      PROVE  t \in Seq(ToServer(n)) /\ s # <<>>
  <2>1. i \in 1 .. Len(s)
    BY DEF LineEnds
  <2>2. s # <<>>
    BY <2>1
  <2> QED BY <1>3, <2>1, <2>2, StopAtTyped
<1> QED BY <1>1, <1>2, <1>3

(* A receiver that gives up has been given something. *)
LEMMA GivenUpTyped ==
    ASSUME NEW n \in Nat, NEW s \in Seq(ToServer(n)), s # <<>>
    PROVE  GivenUp(s) \in Outcome(ToServer(n)) /\ ~GivenUp(s).ok
<1>1. 1 \in 1 .. Len(s)
  BY EmptySeq
<1>2. StopAt(s, 1) \in Seq(ToServer(n))
  BY <1>1, StopAtTyped
<1> QED BY <1>2 DEF GivenUp, Outcome

(* The ways in which read_content_core() reads. *)
LEMMA ReadContentCoreForms ==
    ASSUME NEW r, NEW s, NEW h, NEW b, b = ReadBody(r, s), NEW d, d = ReadContentCore(r, s, h)
    PROVE  \/ d = Refused(NotRead(s), 400) /\ r.type = "multipart" /\ h.form = "bad"
           \/ d = NotRead(s) /\ r.method = "DELETE" /\ r.len = NoLength
           \/ d = Refused(NotRead(s), 415) /\ h.form = "encoded"
           \/ d = GivenUp(s) /\ b.size > 0 /\ r.type = "multipart" /\ h.form = "broken"
           \/ d = Refused(b, 400)
           \/ d = b
BY DEF ReadContentCore

(* So does reading on behalf of a handler.                                 *)
LEMMA ReadContentCoreTyped ==
    ASSUME NEW n \in Nat, NEW s \in Seq(ToServer(n)), NEW r \in Requests(n), NEW h
    PROVE  /\ ReadContentCore(r, s, h) \in Outcome(ToServer(n))
           /\ ReadContentCore(r, s, h).size > 0 => s # <<>>
<1>1. PICK b \in Outcome(ToServer(n)) : b = ReadBody(r, s)
  BY ReadBodyTyped
<1>2. b.size > 0 => s # <<>>
  BY <1>1, ReadBodySome
<1>3. PICK d : d = ReadContentCore(r, s, h)
  OBVIOUS
<1>4. PICK e : e = NotRead(s)
  OBVIOUS
<1>5. \/ d = Refused(e, 400) \/ d = e \/ d = Refused(e, 415)
      \/ d = GivenUp(s) /\ b.size > 0
      \/ d = Refused(b, 400) \/ d = b
  BY <1>1, <1>3, <1>4, ReadContentCoreForms
<1>6. e \in Outcome(ToServer(n)) /\ e.size = 0
  BY <1>4 DEF Outcome, NotRead
<1>7. \A x \in Outcome(ToServer(n)), y \in {400, 415} :
         Refused(x, y) \in Outcome(ToServer(n)) /\ Refused(x, y).size = x.size
  BY DEF Outcome, Refused
<1>8. CASE d = Refused(e, 400) \/ d = e \/ d = Refused(e, 415)
  <2>1. d \in Outcome(ToServer(n)) /\ d.size = 0
    BY <1>6, <1>7, <1>8
  <2> QED BY <1>3, <2>1
<1>9. CASE d = GivenUp(s) /\ b.size > 0
  BY <1>2, <1>3, <1>9, GivenUpTyped
<1>10. CASE d = Refused(b, 400) \/ d = b
  <2>1. d \in Outcome(ToServer(n)) /\ d.size = b.size
    BY <1>1, <1>7, <1>10
  <2> QED BY <1>2, <1>3, <2>1
<1> QED BY <1>5, <1>8, <1>9, <1>10

LEMMA ReadContentTyped ==
    ASSUME NEW n \in Nat, NEW s \in Seq(ToServer(n)), NEW r \in Requests(n), NEW h
    PROVE  ReadContent(r, s, h) \in Outcome(ToServer(n))
<1>1. PICK b \in Outcome(ToServer(n)) : b = ReadContentCore(r, s, h)
  BY ReadContentCoreTyped
<1>2. Refused(b, 413) \in Outcome(ToServer(n))
  BY <1>1 DEF Outcome, Refused
<1> QED BY <1>1, <1>2 DEF ReadContent

LEMMA ReadByHandlerTyped ==
    ASSUME NEW n \in Nat, NEW s \in Seq(ToServer(n)), NEW r \in Requests(n), NEW h \in Handling
    PROVE  ReadByHandler(r, s, h) \in Outcome(ToServer(n))
<1>1. PICK b \in Outcome(ToServer(n)) : b = ReadContentCore(r, s, h)
  BY ReadContentCoreTyped
<1>2. b.size > 0 => s # <<>>
  BY <1>1, ReadContentCoreTyped
<1>3. h.reads \in {"all", "some", "nothing"}
  BY DEF Handling
<1>4. \/ ReadByHandler(r, s, h) = b
      \/ ReadByHandler(r, s, h) = GivenUp(s) /\ b.size > 0
      \/ ReadByHandler(r, s, h) = NotRead(s)
  BY <1>1, <1>3 DEF ReadByHandler
<1>5. NotRead(s) \in Outcome(ToServer(n))
  BY DEF NotRead, Outcome
<1> QED BY <1>1, <1>2, <1>4, <1>5, GivenUpTyped

(* The content of a call that lies whole in the socket is read whole, or   *)
(* thrown away whole, if it is looked at at all.                           *)
LEMMA ReadBodyOfCall ==
    ASSUME NEW c \in UserCall, NEW n \in Nat, NEW k \in 0 .. n
    PROVE  /\ ReadBody(RequestHead(c, k), RequestContent(c, k)).rest = <<>>
           /\ ReadBody(RequestHead(c, k), RequestContent(c, k)).ok =>
                 ReadBody(RequestHead(c, k), RequestContent(c, k)).size = c.size
<1>1. c.size \in Nat
  BY DEF UserCall
<1>2. PICK r : r = RequestHead(c, k)
  OBVIOUS
<1>3. r.len = RequestLength(c) /\ r.chunked = (c.provider = "chunked")
  BY <1>2 DEF RequestHead
<1>4. PICK s : s = RequestContent(c, k)
  OBVIOUS
<1>5. CASE c.provider = "chunked"
  <2>1. ReadChunked(s) = [ok |-> TRUE, size |-> c.size, rest |-> <<>>]
    BY <1>1, <1>4, <1>5, ReadChunkedWhole DEF RequestContent
  <2>2. PICK w : w = ReadChunked(s)
    OBVIOUS
  <2>3. r.chunked
    BY <1>3, <1>5
  <2>4. ReadBody(r, s) = [ok |-> w.ok, size |-> w.size, rest |-> w.rest, status |-> 400]
    BY <2>2, <2>3 DEF ReadBody, WithStatus
  <2>5. w.size = c.size /\ w.rest = <<>>
    BY <2>1, <2>2
  <2> QED BY <1>2, <1>4, <2>4, <2>5
<1>6. CASE c.provider # "chunked"
  <2>1. s = Units("data", k, c.size)
    BY <1>4, <1>6 DEF RequestContent
  <2>2. s \in Seq(ContentUnit(n)) /\ Len(s) = c.size
    BY <1>1, <2>1, UnitsProperties
  <2>3. CASE r.len = NoLength
    <3>1. ReadBody(r, s) = [ok |-> FALSE, size |-> Len(s), rest |-> <<>>, status |-> 400]
      BY <1>3, <1>6, <2>3 DEF ReadBody
    <3> QED BY <1>2, <1>4, <3>1
  <2>4. CASE r.len # NoLength
    <3>1. r.len = c.size
      BY <1>3, <1>6, <2>4 DEF RequestLength
    <3>2. ReadWithLength(s, r.len) = [ok |-> TRUE, size |-> c.size, rest |-> <<>>]
      BY <1>1, <2>2, <3>1, ReadWithLengthProperties
    <3>3. PICK w : w = ReadWithLength(s, r.len)
      OBVIOUS
    <3>4. w.size = c.size /\ w.rest = <<>>
      BY <3>2, <3>3
    <3>5. ReadBody(r, s) = IF r.len > MaxPayload
                           THEN [ok |-> FALSE, size |-> 0, rest |-> w.rest, status |-> 413]
                           ELSE [ok |-> w.ok, size |-> w.size, rest |-> w.rest, status |-> 400]
      BY <1>3, <1>6, <2>4, <3>3 DEF ReadBody, WithStatus
    <3> QED BY <1>2, <1>4, <3>4, <3>5
  <2> QED BY <2>3, <2>4
<1> QED BY <1>5, <1>6

(* A call without content has nothing to read. *)
LEMMA NothingToRead ==
    ASSUME NEW c \in UserCall, NEW n \in Nat, NEW k \in 0 .. n, c.size = 0, c.provider # "chunked"
    PROVE  RequestContent(c, k) = <<>>
BY UnitsProperties DEF RequestContent

(* Whether a call has content that a server must read. *)
HasContent(c) == c.size > 0 \/ c.provider = "chunked"

(* The reading of it does not end before its end. *)
Readable(c, h) ==
    HasContent(c) => /\ ~(c.type = "multipart" /\ h.form \in {"bad", "broken"}) /\ h.form # "encoded"
                     /\ ~(c.method = "DELETE" /\ c.provider = "chunked")

(* Reading the content of a call for a handler leaves none of it.          *)
LEMMA ReadContentCoreOfCall ==
    ASSUME NEW c \in UserCall, NEW n \in Nat, NEW k \in 0 .. n, NEW h, Readable(c, h)
    PROVE  /\ ReadContentCore(RequestHead(c, k), RequestContent(c, k), h).rest = <<>>
           /\ ReadContentCore(RequestHead(c, k), RequestContent(c, k), h).ok =>
                 ReadContentCore(RequestHead(c, k), RequestContent(c, k), h).size = c.size
<1>1. c.size \in Nat
  BY DEF UserCall
<1>2. PICK r : r = RequestHead(c, k)
  OBVIOUS
<1>3. r.len = RequestLength(c) /\ r.chunked = (c.provider = "chunked") /\ r.method = c.method /\ r.type = c.type
  BY <1>2 DEF RequestHead
<1>4. PICK s : s = RequestContent(c, k)
  OBVIOUS
<1>5. ~HasContent(c) => s = <<>> /\ c.size = 0
  BY <1>1, <1>4, NothingToRead DEF HasContent
<1>6. PICK b : b = ReadBody(r, s)
  OBVIOUS
<1>7. b.rest = <<>> /\ (b.ok => b.size = c.size)
  BY <1>2, <1>4, <1>6, ReadBodyOfCall
<1>8. s \in Seq(ContentUnit(n)) /\ r \in Requests(n)
  BY <1>1, <1>2, <1>4, RequestHeadTyped, UnitsProperties, ChunkedProperties DEF RequestContent
<1>9. b.size > 0 => s # <<>>
  BY <1>6, <1>8, ReadBodySome
<1>10. PICK d : d = ReadContentCore(r, s, h)
  OBVIOUS
<1>11. PICK e : e = NotRead(s)
  OBVIOUS
<1>12. e.rest = s /\ e.size = 0
  BY <1>11 DEF NotRead
<1>13. \/ d = Refused(e, 400) /\ r.type = "multipart" /\ h.form = "bad"
       \/ d = e /\ r.method = "DELETE" /\ r.len = NoLength
       \/ d = Refused(e, 415) /\ h.form = "encoded"
       \/ d = GivenUp(s) /\ b.size > 0 /\ r.type = "multipart" /\ h.form = "broken"
       \/ d = Refused(b, 400)
       \/ d = b
  BY <1>6, <1>10, <1>11, ReadContentCoreForms
<1>14. \A x, y : Refused(x, y).rest = x.rest /\ Refused(x, y).ok = FALSE
  BY DEF Refused
<1>15. CASE d = e /\ r.method = "DELETE" /\ r.len = NoLength
  <2>1. ~HasContent(c)
    <3>1. ASSUME c.provider # "chunked" PROVE ~(c.size > 0)
      BY <1>1, <1>3, <1>15, <3>1 DEF RequestLength, NoLength
    <3> QED BY <1>3, <1>15, <3>1 DEF Readable, HasContent
  <2> QED BY <1>2, <1>4, <1>5, <1>10, <1>12, <1>15, <2>1
<1>16. CASE (d = Refused(e, 400) /\ r.type = "multipart" /\ h.form = "bad") \/ (d = Refused(e, 415) /\ h.form = "encoded")
  <2>1. ~HasContent(c)
    BY <1>3, <1>16 DEF Readable
  <2> QED BY <1>2, <1>4, <1>5, <1>10, <1>12, <1>14, <1>16, <2>1
<1>17. ~(b.size > 0 /\ r.type = "multipart" /\ h.form = "broken")
  BY <1>3, <1>5, <1>9 DEF Readable
<1>18. CASE d = Refused(b, 400)
  BY <1>2, <1>4, <1>7, <1>10, <1>14, <1>18
<1>19. CASE d = b
  BY <1>2, <1>4, <1>7, <1>10, <1>19
<1> QED BY <1>13, <1>15, <1>16, <1>17, <1>18, <1>19

LEMMA ReadContentOfCall ==
    ASSUME NEW c \in UserCall, NEW n \in Nat, NEW k \in 0 .. n, NEW h, Readable(c, h)
    PROVE  /\ ReadContent(RequestHead(c, k), RequestContent(c, k), h).rest = <<>>
           /\ ReadContent(RequestHead(c, k), RequestContent(c, k), h).ok =>
                 ReadContent(RequestHead(c, k), RequestContent(c, k), h).size = c.size
<1>1. PICK r, s : r = RequestHead(c, k) /\ s = RequestContent(c, k)
  OBVIOUS
<1>2. PICK b : b = ReadContentCore(r, s, h)
  OBVIOUS
<1>3. b.rest = <<>> /\ (b.ok => b.size = c.size)
  BY <1>1, <1>2, ReadContentCoreOfCall
<1>4. ReadContent(r, s, h) = b \/ ReadContent(r, s, h) = Refused(b, 413)
  BY <1>2 DEF ReadContent
<1>5. Refused(b, 413).rest = b.rest /\ Refused(b, 413).ok = FALSE
  BY DEF Refused
<1> QED BY <1>1, <1>3, <1>4, <1>5

-----------------------------------------------------------------------------
(* Who handles a request                                                   *)

(* Routing leaves a sequence of what was there.                            *)
LEMMA RoutingTyped ==
    ASSUME NEW n \in Nat, NEW s \in Seq(ToServer(n)), NEW r \in Requests(n), NEW h \in Handling
    PROVE  LET route == Routing(r, s, h)
           IN  /\ route.routed \in BOOLEAN /\ route.handler \in BOOLEAN /\ route.read \in BOOLEAN
               /\ route.in.ok \in BOOLEAN /\ route.in.size \in Nat /\ route.in.rest \in Seq(ToServer(n))
               /\ ~route.in.ok => route.in.status \in {400, 413, 415}
<1>1. PICK route : route = Routing(r, s, h)
  OBVIOUS
<1>2. PICK read \in Outcome(ToServer(n)) : read = ReadContent(r, s, h)
  BY ReadContentTyped
<1>3. PICK unread : unread = NotRead(s)
  OBVIOUS
<1>4. PICK reader : reader = ReadByHandler(r, s, h)
  OBVIOUS
<1>5. reader \in Outcome(ToServer(n))
  BY <1>4, ReadByHandlerTyped
<1>6. route.in = unread \/ route.in = read \/ route.in = reader
  BY <1>1, <1>2, <1>3, <1>4 DEF Routing
<1>7. route.in = unread \/ route.in \in Outcome(ToServer(n))
  BY <1>2, <1>5, <1>6
<1>8. route.routed \in BOOLEAN /\ route.handler \in BOOLEAN /\ route.read \in BOOLEAN
  BY <1>1 DEF Routing, ExpectContent
<1>9. unread.ok = TRUE /\ unread.size \in Nat /\ unread.rest \in Seq(ToServer(n))
  BY <1>3 DEF NotRead
<1>10. route.in.ok \in BOOLEAN /\ route.in.size \in Nat /\ route.in.rest \in Seq(ToServer(n))
       /\ (~route.in.ok => route.in.status \in {400, 413, 415})
  BY <1>7, <1>9, ZenonT(40) DEF Outcome
<1> QED BY <1>1, <1>8, <1>10

(* The content of the call is looked at before it is answered. *)
LooksAtContent(c, h) ==
    /\ Readable(c, h)
    /\ HasContent(c) => /\ h.route # "preRouting" /\ ~ServesFile(c.method, h)
                        /\ HasReader(c, h) => h.reads = "all"

(* When the content of a call is looked at, none of it is left.            *)
LEMMA RoutingOfCall ==
    ASSUME NEW c \in UserCall, NEW n \in Nat, NEW k \in 0 .. n, NEW h \in Handling, LooksAtContent(c, h)
    PROVE  LET route == Routing(RequestHead(c, k), RequestContent(c, k), h)
           IN  route.in.rest = <<>> /\ (route.read /\ route.in.ok => route.in.size = c.size)
<1>1. c.size \in Nat
  BY DEF UserCall
<1>2. PICK r : r = RequestHead(c, k)
  OBVIOUS
<1>3. r.len = RequestLength(c) /\ r.chunked = (c.provider = "chunked") /\ r.method = c.method
  BY <1>2 DEF RequestHead
<1>4. PICK s : s = RequestContent(c, k)
  OBVIOUS
<1>5. ~HasContent(c) => s = <<>> /\ c.size = 0
  BY <1>1, <1>4, NothingToRead DEF HasContent
<1>6. PICK read : read = ReadContent(r, s, h)
  OBVIOUS
<1>7. read.rest = <<>> /\ (read.ok => read.size = c.size)
  BY <1>2, <1>4, <1>6, ReadContentOfCall DEF LooksAtContent
<1>8. PICK unread : unread = NotRead(s)
  OBVIOUS
<1>9. unread.rest = s
  BY <1>8 DEF NotRead
<1>10. PICK route : route = Routing(r, s, h)
  OBVIOUS
<1>11. CASE h.route = "preRouting" \/ ServesFile(r.method, h)
  <2>1. route.in = unread /\ route.read = FALSE
    BY <1>8, <1>10, <1>11 DEF Routing
  <2>2. ~HasContent(c)
    BY <1>3, <1>11 DEF LooksAtContent
  <2> QED BY <1>2, <1>4, <1>5, <1>9, <1>10, <2>1, <2>2
<1>12. CASE ~(h.route = "preRouting" \/ ServesFile(r.method, h)) /\ HasReader(r, h)
  <2>1. PICK b : b = ReadContentCore(r, s, h)
    OBVIOUS
  <2>2. b.rest = <<>> /\ (b.ok => b.size = c.size)
    BY <1>2, <1>4, <2>1, ReadContentCoreOfCall DEF LooksAtContent
  <2>3. route.in = ReadByHandler(r, s, h) /\ route.read = (h.reads # "nothing")
    BY <1>10, <1>12 DEF Routing
  <2>4. HasContent(c) => h.reads = "all"
    BY <1>3, <1>12 DEF LooksAtContent, HasReader
  <2>5. h.reads \in {"all", "some", "nothing"}
    BY DEF Handling
  <2>6. CASE h.reads = "all"
    <3>1. route.in = b
      BY <2>1, <2>3, <2>6 DEF ReadByHandler
    <3> QED BY <1>2, <1>4, <1>10, <2>2, <3>1
  <2>7. CASE h.reads = "some"
    <3>1. s = <<>>
      BY <1>5, <2>4, <2>7
    <3>2. s \in Seq(ToServer(n)) /\ r \in Requests(n)
      BY <1>2, <3>1, RequestHeadTyped
    <3>3. b \in Outcome(ToServer(n)) /\ ~(b.size > 0)
      BY <2>1, <3>1, <3>2, ReadContentCoreTyped
    <3>4. route.in = b
      BY <2>1, <2>3, <2>7, <3>3 DEF ReadByHandler
    <3> QED BY <1>2, <1>4, <1>10, <2>2, <3>4
  <2>8. CASE h.reads = "nothing"
    <3>1. route.in = unread /\ route.read = FALSE
      BY <1>8, <2>3, <2>8 DEF ReadByHandler
    <3> QED BY <1>2, <1>4, <1>5, <1>9, <1>10, <2>4, <2>8, <3>1
  <2> QED BY <2>5, <2>6, <2>7, <2>8
<1>13. CASE ~(h.route = "preRouting" \/ ServesFile(r.method, h)) /\ ~HasReader(r, h)
  <2>1. CASE ExpectContent(r)
    <3>1. route.in = read
      BY <1>6, <1>10, <1>13, <2>1 DEF Routing
    <3> QED BY <1>2, <1>4, <1>7, <1>10, <3>1
  <2>2. CASE ~ExpectContent(r)
    <3>1. route.in = unread /\ route.read = FALSE
      BY <1>8, <1>10, <1>13, <2>2 DEF Routing
    <3>2. ~(r.len > 0) /\ ~r.chunked
      BY <2>2 DEF ExpectContent
    <3>3. c.provider # "chunked"
      BY <1>3, <3>2
    <3>4. ~(c.size > 0)
      <4>1. ASSUME c.size > 0 PROVE RequestLength(c) = c.size
        BY <3>3, <4>1 DEF RequestLength
      <4> QED BY <1>1, <1>3, <3>2, <4>1
    <3>5. ~HasContent(c)
      BY <3>3, <3>4 DEF HasContent
    <3> QED BY <1>2, <1>4, <1>5, <1>9, <1>10, <3>1, <3>5
  <2> QED BY <2>1, <2>2
<1> QED BY <1>11, <1>12, <1>13

-----------------------------------------------------------------------------
(* What is written                                                         *)

(* What a handler may put into a response.                                 *)
LEMMA ContentTyped ==
    ASSUME NEW h \in Handling
    PROVE  /\ Content(h) \in [body : Nat, length : Nat, provider : {"none", "length", "chunked", "endless"}]
           /\ Content(h).body > 0 => Content(h).length = 0
           /\ Content(h).length > 0 <=> Content(h).provider = "length"
           /\ Content(h).body > 0 => Content(h).provider = "none"
           /\ Content(h).length > 0 => h.content = "provider"
           /\ Content(h).provider = "endless" => h.content = "endless"
           /\ h.content = "none" => Content(h) = Nothing
<1>1. h.size \in Nat
  BY DEF Handling
<1>2. CASE h.content = "body"
  <2>1. Content(h) = [body |-> h.size, length |-> 0, provider |-> "none"]
    BY <1>2 DEF Content, Nothing
  <2> QED BY <1>1, <1>2, <2>1
<1>3. CASE h.content = "provider"
  <2>1. Content(h) = [body |-> 0, length |-> h.size, provider |-> IF h.size > 0 THEN "length" ELSE "none"]
    BY <1>3 DEF Content, Nothing
  <2> QED BY <1>1, <1>3, <2>1
<1>4. CASE h.content \in {"chunked", "endless"}
  <2>1. Content(h) = [body |-> 0, length |-> 0, provider |-> h.content]
    BY <1>4 DEF Content, Nothing
  <2> QED BY <1>4, <2>1
<1>5. CASE h.content \notin {"body", "provider", "chunked", "endless"}
  <2>1. Content(h) = [body |-> 0, length |-> 0, provider |-> "none"] /\ Content(h) = Nothing
    BY <1>5 DEF Content, Nothing
  <2> QED BY <1>5, <2>1
<1> QED BY <1>2, <1>3, <1>4, <1>5

(* The sequences of a sequence, one after the other, are a sequence. *)
Flattens(f, ss) == f = [i \in 1 .. Len(ss) |-> IF i = 1 THEN ss[i] ELSE f[i - 1] \o ss[i]]

(* The function that flattens a sequence of sequences exists.              *)
LEMMA FlatteningExists ==
    ASSUME NEW S, NEW ss \in Seq(Seq(S))
    PROVE  \E f : Flattens(f, ss)
<1> DEFINE Upto(n, f) == /\ f \in [1 .. n -> Seq(S)]
                         /\ \A i \in 1 .. n : f[i] = IF i = 1 THEN ss[i] ELSE f[i - 1] \o ss[i]
<1>1. Len(ss) \in Nat /\ \A i \in 1 .. Len(ss) : ss[i] \in Seq(S)
  OBVIOUS
<1>2. ASSUME NEW n \in 0 .. Len(ss) PROVE \E f : Upto(n, f)
  <2> DEFINE T == {m \in 0 .. Len(ss) : ~ \E f : Upto(m, f)}
  <2>1. SUFFICES ASSUME T # {} PROVE FALSE
    BY <1>1
  <2>2. T \subseteq Nat
    OBVIOUS
  <2>3. PICK m \in T : \A y \in T : m <= y
    BY <2>1, <2>2, LeastElement, Zenon
  <2>4. m \in 0 .. Len(ss) /\ ~ \E f : Upto(m, f)
    OBVIOUS
  <2>5. m # 0
    <3>1. ASSUME m = 0 PROVE FALSE
      <4>1. PICK f : f = [i \in 1 .. 0 |-> <<>>]
        OBVIOUS
      <4>2. f \in [1 .. 0 -> Seq(S)] /\ 1 .. 0 = {}
        BY <4>1
      <4>3. Upto(m, f)
        BY <3>1, <4>2
      <4> QED BY <2>4, <4>3
    <3> QED BY <3>1
  <2>6. PICK k \in 0 .. Len(ss) : k + 1 = m
    BY <1>1, <2>4, <2>5
  <2>7. k \notin T
    <3>1. ~(m <= k)
      BY <1>1, <2>4, <2>6
    <3> QED BY <2>3, <3>1, Zenon
  <2>8. PICK f : Upto(k, f)
    BY <2>7
  <2>9. PICK last \in Seq(S) : last = IF m = 1 THEN ss[m] ELSE f[k] \o ss[m]
    <3>1. ss[m] \in Seq(S)
      BY <1>1, <2>4, <2>5
    <3>2. m # 1 => k \in 1 .. k
      BY <2>4, <2>6
    <3>3. m # 1 => f[k] \in Seq(S)
      BY <2>8, <3>2
    <3>4. m # 1 => f[k] \o ss[m] \in Seq(S)
      BY <3>1, <3>3
    <3> QED BY <3>1, <3>4
  <2>10. PICK g : g = [i \in 1 .. m |-> IF i = m THEN last ELSE f[i]]
    OBVIOUS
  <2>11. m \in 1 .. m /\ m \in Nat /\ 1 .. m = 1 .. k \cup {m} /\ \A i \in 1 .. k : i # m
    BY <1>1, <2>4, <2>5, <2>6
  <2>12. g[m] = last /\ \A i \in 1 .. k : g[i] = f[i]
    BY <2>10, <2>11
  <2>13. g \in [1 .. m -> Seq(S)]
    <3>1. ASSUME NEW i \in 1 .. m PROVE (IF i = m THEN last ELSE f[i]) \in Seq(S)
      BY <2>8, <2>11
    <3> QED BY <2>10, <3>1
  <2>14. ASSUME NEW i \in 1 .. m PROVE g[i] = IF i = 1 THEN ss[i] ELSE g[i - 1] \o ss[i]
    <3>1. CASE i = m
      <4>1. m # 1 => k \in 1 .. k /\ m - 1 = k
        BY <2>4, <2>6
      <4>2. m # 1 => g[m - 1] = f[k]
        BY <2>12, <4>1
      <4> QED BY <2>9, <2>12, <3>1, <4>2
    <3>2. CASE i # m
      <4>1. i \in 1 .. k
        BY <2>11, <3>2
      <4>2. i # 1 => i - 1 \in 1 .. k
        BY <2>6, <4>1
      <4>3. f[i] = IF i = 1 THEN ss[i] ELSE f[i - 1] \o ss[i]
        BY <2>8, <4>1
      <4> QED BY <2>12, <4>1, <4>2, <4>3
    <3> QED BY <3>1, <3>2
  <2>15. Upto(m, g)
    BY <2>13, <2>14
  <2> QED BY <2>4, <2>15
<1>3. PICK f : Upto(Len(ss), f)
  <2>1. Len(ss) \in 0 .. Len(ss)
    BY <1>1
  <2> QED BY <1>2, <2>1, Zenon
<1>4. f = [i \in 1 .. Len(ss) |-> f[i]]
  BY <1>3
<1>5. Flattens(f, ss)
  BY <1>3, <1>4 DEF Flattens
<1> QED BY <1>5

(* What it makes of sequences over S is one over S.                        *)
LEMMA FlattenIsSeq ==
    ASSUME NEW S, NEW ss \in Seq(Seq(S))
    PROVE  FlattenSeq(ss) \in Seq(S)
<1>1. Len(ss) \in Nat /\ \A i \in 1 .. Len(ss) : ss[i] \in Seq(S)
  OBVIOUS
<1>2. CASE Len(ss) = 0
  <2>1. ss = <<>>
    BY <1>2, EmptySeq
  <2>2. FlattenSeq(ss) = <<>>
    BY <1>2, <2>1 DEF FlattenSeq
  <2> QED BY <2>2, EmptySeq
<1>3. CASE Len(ss) # 0
  <2>1. PICK f : f = CHOOSE g : Flattens(g, ss)
    OBVIOUS
  <2>2. Flattens(f, ss)
    BY <2>1, FlatteningExists
  <2>3. FlattenSeq(ss) = f[Len(ss)]
    BY <1>3, <2>1 DEF FlattenSeq, Flattens
  <2>4. \A i \in 1 .. Len(ss) : f[i] = IF i = 1 THEN ss[i] ELSE f[i - 1] \o ss[i]
    BY <2>2 DEF Flattens
  <2> DEFINE T == {i \in 1 .. Len(ss) : f[i] \notin Seq(S)}
  <2>5. ASSUME T # {} PROVE FALSE
    <3>1. T \subseteq Nat
      OBVIOUS
    <3>2. PICK i \in T : \A y \in T : i <= y
      BY <2>5, <3>1, LeastElement, Zenon
    <3>3. i \in 1 .. Len(ss) /\ f[i] \notin Seq(S) /\ ss[i] \in Seq(S)
      BY <1>1
    <3>4. i # 1
      BY <2>4, <3>3
    <3>5. i - 1 \in 1 .. Len(ss) /\ ~(i <= i - 1)
      BY <1>1, <3>3, <3>4
    <3>6. f[i - 1] \in Seq(S)
      BY <3>2, <3>5
    <3>7. f[i - 1] \o ss[i] \in Seq(S)
      BY <3>3, <3>6
    <3> QED BY <2>4, <3>3, <3>4, <3>7
  <2>6. Len(ss) \in 1 .. Len(ss)
    BY <1>1, <1>3
  <2> QED BY <2>3, <2>5, <2>6
<1> QED BY <1>2, <1>3

(* A range that satisfies the asserts has a length, and so have several.    *)
LEMMA RangeLengths ==
    ASSUME NEW ranges \in Seq(Int \X Int), NEW whole \in Nat,
           \A i \in 1 .. Len(ranges) : RangeAsserted(ranges[i], whole)
    PROVE  /\ \A i \in 1 .. Len(ranges) : OffsetAndLength(ranges[i]).length \in Nat
           /\ MultipartRangesLength(ranges) \in Nat
<1>1. Len(ranges) \in Nat /\ \A i \in 1 .. Len(ranges) : ranges[i] \in Int \X Int
  OBVIOUS
<1>2. ASSUME NEW i \in 1 .. Len(ranges)
      PROVE  /\ OffsetAndLength(ranges[i]).length \in Nat /\ OffsetAndLength(ranges[i]).offset \in Int
  <2>1. PICK a \in Int, b \in Int : ranges[i][1] = a /\ ranges[i][2] = b
    BY <1>1
  <2>2. RangeAsserted(ranges[i], whole)
    OBVIOUS
  <2>3. a <= b
    BY <2>1, <2>2 DEF RangeAsserted, WithinContent
  <2>4. OffsetAndLength(ranges[i]) = [offset |-> a, length |-> (b - a) + 1]
    BY <2>1 DEF OffsetAndLength
  <2> QED BY <2>3, <2>4
<1> DEFINE S == Int \cup {"part", "end"}
           Part(i) == <<"part">> \o [b \in 1 .. OffsetAndLength(ranges[i]).length |-> OffsetAndLength(ranges[i]).offset + b - 1]
<1>3. ASSUME NEW i \in 1 .. Len(ranges) PROVE Part(i) \in Seq(S)
  <2>1. PICK l \in Nat, o \in Int : OffsetAndLength(ranges[i]).length = l /\ OffsetAndLength(ranges[i]).offset = o
    BY <1>2
  <2>2. PICK t : t = [b \in 1 .. l |-> o + b - 1]
    OBVIOUS
  <2>3. t \in Seq(S)
    BY <2>2
  <2>4. PICK p : p = <<"part">>
    OBVIOUS
  <2>5. p \in Seq(S)
    BY <2>4
  <2>6. p \o t \in Seq(S)
    BY <2>3, <2>5, ConcatProperties
  <2> QED BY <2>1, <2>2, <2>4, <2>6
<1>4. PICK parts : parts = [i \in 1 .. Len(ranges) |-> Part(i)]
  OBVIOUS
<1>5. parts \in Seq(Seq(S))
  <2> HIDE DEF Part, S
  <2> QED BY <1>1, <1>3, <1>4
<1>6. FlattenSeq(parts) \in Seq(S)
  BY <1>5, FlattenIsSeq
<1>7. PICK e : e = <<"end">>
  OBVIOUS
<1>8. e \in Seq(S)
  BY <1>7
<1>9. MultipartRanges(ranges) = FlattenSeq(parts) \o e
  BY <1>4, <1>7, Zenon DEF MultipartRanges
<1>10. FlattenSeq(parts) \o e \in Seq(S)
  BY <1>6, <1>8, ConcatProperties
<1>11. MultipartRangesLength(ranges) \in Nat
  <2>1. PICK m : m = FlattenSeq(parts) \o e
    OBVIOUS
  <2>2. m \in Seq(S) /\ MultipartRangesLength(ranges) = Len(m)
    BY <1>9, <1>10, <2>1 DEF MultipartRangesLength
  <2> QED BY <2>2, LenProperties
<1> QED BY <1>2, <1>11

(* The content that a handler, or an error handler, may have set. *)
Contents == {x \in [body : Nat, length : Nat, provider : {"none", "length", "chunked", "endless"}] :
                /\ x.body > 0 => x.length = 0 /\ x.provider = "none"
                /\ x.length > 0 <=> x.provider = "length"}

(* What is announced and what is written, when the asserts hold, are        *)
(* lengths; and they are the same length but for ranges of a provider.      *)
LEMMA AnnouncedAndWritten ==
    ASSUME NEW n \in Nat, NEW r \in Requests(n), NEW status \in Nat, NEW x \in Contents, NEW h \in Handling,
           AssertsHold(r, status, x)
    PROVE  /\ Announced(r, status, x) \in Nat \cup {NoLength}
           /\ x.body > 0 \/ x.length > 0 => Announced(r, status, x) \in Nat
           /\ r.method # "HEAD" => Written(r, status, x, h) \in Nat
           /\ x.body > 0 => Written(r, status, x, h) = Announced(r, status, x)
           /\ x.length > 0 /\ (r.ranges # <<>> => status = 206) =>
                 Written(r, status, x, h) = Announced(r, status, x)
           /\ x.body = 0 /\ x.length = 0 =>
                 Written(r, status, x, h) = IF x.provider = "none" THEN 0 ELSE h.size
<1>1. x.body \in Nat /\ x.length \in Nat /\ r.ranges \in Seq(Int \X Int) /\ h.size \in Nat
      /\ (x.body > 0 => x.length = 0)
  BY DEF Contents, Requests, Handling
<1>2. PICK whole \in Nat : whole = IF x.body > 0 THEN x.body ELSE x.length
  BY <1>1
<1>3. ASSUME \/ whole > 0 /\ status = 206
             \/ x.body = 0 /\ x.length > 0 /\ r.method # "HEAD"
      PROVE  /\ \A i \in 1 .. Len(r.ranges) : OffsetAndLength(r.ranges[i]).length \in Nat
             /\ MultipartRangesLength(r.ranges) \in Nat
  <2>1. \A i \in 1 .. Len(r.ranges) : RangeAsserted(r.ranges[i], whole)
    BY <1>2, <1>3 DEF AssertsHold
  <2> QED BY <1>1, <2>1, RangeLengths
<1>4. PICK part : part = IF Len(r.ranges) = 1 THEN OffsetAndLength(r.ranges[1]).length ELSE MultipartRangesLength(r.ranges)
  OBVIOUS
<1>5. ASSUME \/ whole > 0 /\ status = 206
             \/ x.body = 0 /\ x.length > 0 /\ r.method # "HEAD"
      PROVE  part \in Nat
  <2>1. Len(r.ranges) = 1 => 1 \in 1 .. Len(r.ranges)
    OBVIOUS
  <2> QED BY <1>3, <1>4, <1>5, <2>1
<1>6. Announced(r, status, x) = IF whole = 0 THEN NoLength
                                ELSE IF r.ranges = <<>> \/ status # 206 THEN whole ELSE part
  BY <1>2, <1>4 DEF Announced
<1>7. Written(r, status, x, h) = IF x.body > 0 THEN Announced(r, status, x)
                                 ELSE IF x.length > 0 THEN IF r.ranges = <<>> THEN x.length ELSE part
                                 ELSE IF x.provider = "none" THEN 0 ELSE h.size
  BY <1>4 DEF Written
<1>8. whole > 0 <=> x.body > 0 \/ x.length > 0
  BY <1>1, <1>2
<1>9. Announced(r, status, x) \in Nat \cup {NoLength}
  BY <1>2, <1>5, <1>6
<1>10. whole > 0 => Announced(r, status, x) \in Nat
  BY <1>2, <1>5, <1>6
<1>11. r.method # "HEAD" => Written(r, status, x, h) \in Nat
  BY <1>1, <1>5, <1>7, <1>8, <1>10
<1>12. ASSUME x.length > 0, r.ranges # <<>> => status = 206
       PROVE  Written(r, status, x, h) = Announced(r, status, x)
  <2>1. ~(x.body > 0) /\ whole = x.length /\ whole # 0
    BY <1>1, <1>2, <1>12
  <2> QED BY <1>6, <1>7, <1>12, <2>1
<1>13. x.body = 0 /\ x.length = 0 => Written(r, status, x, h) = IF x.provider = "none" THEN 0 ELSE h.size
  BY <1>7
<1> QED BY <1>7, <1>8, <1>9, <1>10, <1>11, <1>12, <1>13

(* The parts of write_response_core(): the content y that it writes, and    *)
(* whether apply_ranges() was called.                                       *)
ResponseParts(w, r, status, x, h, apply, close, y, applied) ==
    /\ \/ y = x
       \/ x = Nothing /\ y = [body |-> 1, length |-> 0, provider |-> "none"] /\ applied /\ status >= 400
    /\ apply => applied
    /\ AssertsHold(r, status, y)
    /\ w.head = Answer(status, r.of, IF y = Nothing THEN 0
                                     ELSE IF applied THEN Announced(r, status, y) ELSE NoLength,
                       applied /\ y.body = 0 /\ y.length = 0 /\ y.provider = "chunked", close \/ r.close)
    /\ w.units = IF r.method = "HEAD" THEN <<>>
                 ELSE IF y.body = 0 /\ y.provider = "chunked" THEN Chunked(r.of, Written(r, status, y, h))
                 ELSE Units("data", r.of, Written(r, status, y, h))
    /\ w.fails = (h.fate = "fails" /\ y.body = 0 /\ y.provider # "none" /\ w.units # <<>>)

(* The parts of what a response writes, by their definitions.              *)
LEMMA WriteResponseParts ==
    ASSUME NEW n \in Nat, NEW r \in Requests(n), NEW status \in Nat, NEW x \in Contents, NEW h \in Handling,
           NEW apply \in BOOLEAN, NEW close \in BOOLEAN, apply \/ r.ranges = <<>>, NEW w,
           w = WriteResponse(r, status, x, h, apply, close), w.asserts
    PROVE  \E y \in Contents, applied \in BOOLEAN : ResponseParts(w, r, status, x, h, apply, close, y, applied)
<1> DEFINE helped == status >= 400 /\ h.errorHandler
<1>1. PICK one : one = [body |-> 1, length |-> 0, provider |-> "none"]
  OBVIOUS
<1>2. [Nothing EXCEPT !.body = 1] = one /\ one \in Contents
  BY <1>1 DEF Nothing, Contents
<1>3. PICK y \in Contents : y = IF helped /\ x = Nothing THEN one ELSE x
  BY <1>2
<1>4. PICK applied \in BOOLEAN : applied <=> apply \/ helped
  OBVIOUS
<1>6. \/ y = x
      \/ x = Nothing /\ y = one /\ applied /\ status >= 400
  BY <1>3, <1>4
<1>7. w.asserts = (applied => AssertsHold(r, status, y))
  BY <1>2, <1>3, <1>4, Zenon DEF WriteResponse
<1>8. AssertsHold(r, status, y)
  <2>1. CASE applied
    BY <1>7, <2>1
  <2>2. CASE ~applied
    <3>1. r.ranges = <<>>
      BY <1>4, <2>2
    <3>2. 1 .. Len(r.ranges) = {}
      BY <3>1
    <3> QED BY <3>2 DEF AssertsHold
  <2> QED BY <2>1, <2>2
<1>9. w.head = Answer(status, r.of, IF y = Nothing THEN 0 ELSE IF applied THEN Announced(r, status, y) ELSE NoLength,
                      applied /\ y.body = 0 /\ y.length = 0 /\ y.provider = "chunked", close \/ r.close)
  BY <1>2, <1>3, <1>4, Zenon DEF WriteResponse
<1>10. w.units = IF r.method = "HEAD" THEN <<>>
                 ELSE IF y.body = 0 /\ y.provider = "chunked" THEN Chunked(r.of, Written(r, status, y, h))
                 ELSE Units("data", r.of, Written(r, status, y, h))
  BY <1>2, <1>3, <1>4, Zenon DEF WriteResponse
<1>11. w.fails = (h.fate = "fails" /\ y.body = 0 /\ y.provider # "none" /\ w.units # <<>>)
  BY <1>2, <1>3, <1>4, <1>10, Zenon DEF WriteResponse
<1> QED
  BY <1>1, <1>4, <1>6, <1>8, <1>9, <1>10, <1>11, Zenon DEF ResponseParts

(* What a response writes is a head of its call and its content.           *)
LEMMA WriteResponseTyped ==
    ASSUME NEW n \in Nat, NEW r \in Requests(n), NEW status \in Nat, NEW x \in Contents, NEW h \in Handling,
           NEW apply \in BOOLEAN, NEW close \in BOOLEAN, apply \/ r.ranges = <<>>, NEW w,
           w = WriteResponse(r, status, x, h, apply, close), w.asserts
    PROVE  /\ w.head \in AnswerHeads(n) /\ w.head.of = r.of /\ w.head.status = status
           /\ w.units \in Seq(ContentUnit(n)) /\ w.fails \in BOOLEAN
<1>1. PICK y \in Contents, applied \in BOOLEAN : ResponseParts(w, r, status, x, h, apply, close, y, applied)
  BY WriteResponseParts
<1>2. /\ \/ y = x
         \/ x = Nothing /\ y = [body |-> 1, length |-> 0, provider |-> "none"] /\ applied /\ status >= 400
      /\ apply => applied
      /\ AssertsHold(r, status, y)
      /\ w.head = Answer(status, r.of, IF y = Nothing THEN 0
                                       ELSE IF applied THEN Announced(r, status, y) ELSE NoLength,
                         applied /\ y.body = 0 /\ y.length = 0 /\ y.provider = "chunked", close \/ r.close)
      /\ w.units = IF r.method = "HEAD" THEN <<>>
                   ELSE IF y.body = 0 /\ y.provider = "chunked" THEN Chunked(r.of, Written(r, status, y, h))
                   ELSE Units("data", r.of, Written(r, status, y, h))
      /\ w.fails = (h.fate = "fails" /\ y.body = 0 /\ y.provider # "none" /\ w.units # <<>>)
  BY <1>1 DEF ResponseParts
<1>3. /\ Announced(r, status, y) \in Nat \cup {NoLength}
      /\ r.method # "HEAD" => Written(r, status, y, h) \in Nat
  BY <1>2, AnnouncedAndWritten
<1>4. r.of \in 0 .. n /\ r.close \in BOOLEAN
  BY DEF Requests
<1>5. PICK len \in Nat \cup {NoLength}, chunked \in BOOLEAN, closes \in BOOLEAN :
         w.head = Answer(status, r.of, len, chunked, closes)
  <2>1. PICK len \in Nat \cup {NoLength} : len = IF y = Nothing THEN 0
                                          ELSE IF applied THEN Announced(r, status, y) ELSE NoLength
    BY <1>3
  <2>2. PICK chunked \in BOOLEAN : chunked = (applied /\ y.body = 0 /\ y.length = 0 /\ y.provider = "chunked")
    OBVIOUS
  <2>3. PICK closes \in BOOLEAN : closes = (close \/ r.close)
    OBVIOUS
  <2> QED BY <1>2, <2>1, <2>2, <2>3
<1>6. w.head \in AnswerHeads(n) /\ w.head.of = r.of /\ w.head.status = status
  BY <1>4, <1>5 DEF Answer, AnswerHeads
<1>7. w.units \in Seq(ContentUnit(n))
  <2>1. CASE r.method = "HEAD"
    <3>1. w.units = <<>>
      BY <1>2, <2>1
    <3> QED BY <3>1, EmptySeq
  <2>2. CASE r.method # "HEAD"
    <3>1. PICK count \in Nat : count = Written(r, status, y, h)
      BY <1>3, <2>2
    <3>2. w.units = Chunked(r.of, count) \/ w.units = Units("data", r.of, count)
      BY <1>2, <2>2, <3>1
    <3>3. Chunked(r.of, count) \in Seq(ContentUnit(n))
      BY <1>4, <3>1, ChunkedProperties, Zenon
    <3>4. Units("data", r.of, count) \in Seq(ContentUnit(n))
      BY <1>4, <3>1, UnitsProperties
    <3> QED BY <3>2, <3>3, <3>4
  <2> QED BY <2>1, <2>2
<1>8. w.fails \in BOOLEAN
  BY <1>2
<1> QED BY <1>6, <1>7, <1>8

(* What comes after the head of an answer is the content that a client      *)
(* expects after it: none at all, all the chunks with the last one, as much *)
(* as was announced, or, when the provider gave up, visibly less.           *)
Fits(method, a, u, whole, size) ==
    IF method = "HEAD" \/ a.status \in {204, 304} THEN u = <<>> /\ whole /\ size = 0
    ELSE IF a.chunked THEN \/ whole /\ size \in Nat /\ u = Chunked(a.of, size)
                           \/ \A i \in 1 .. Len(u) : u[i].unit = "chunk"
    ELSE a.len \in Nat /\ (Len(u) < a.len \/ (whole /\ Len(u) = a.len /\ size = a.len))

(* What the answer of write_response_core() needs for that: the content is  *)
(* announced, and the ranges of a provider are sent as such.                *)
Announceable(r, status, x, apply) ==
    /\ status \in {204, 304} => x = Nothing
    /\ x.provider # "endless"
    /\ x # Nothing => apply
    /\ r.ranges # <<>> /\ x.length > 0 => status = 206

(* The last unit of a content, and its size. *)
LEMMA ContentSizes ==
    ASSUME NEW n \in Nat, NEW m \in 0 .. n, NEW count \in Nat
    PROVE  ContentSize(Units("data", m, count)) = count /\ ContentSize(Chunked(m, count)) = count
<1>1. PICK u : u = Units("data", m, count)
  OBVIOUS
<1>2. u \in Seq(ContentUnit(n)) /\ Len(u) = count /\ \A i \in 1 .. count : u[i] = Unit("data", m)
  BY <1>1, UnitsProperties
<1>3. u # <<>> => Last(u) = Unit("data", m)
  <2>1. ASSUME u # <<>> PROVE count \in 1 .. count
    BY <1>2, <2>1, EmptySeq
  <2> QED BY <1>2, <2>1 DEF Last
<1>4. ContentSize(u) = count
  BY <1>2, <1>3 DEF ContentSize, Unit
<1>5. PICK v : v = Chunked(m, count)
  OBVIOUS
<1>6. v \in Seq(ContentUnit(n)) /\ Len(v) = count + 1 /\ v[count + 1] = Unit("end", m)
  BY <1>5, ChunkedProperties
<1>7. v # <<>> /\ Last(v).unit = "end"
  BY <1>6 DEF Last, Unit
<1>8. ContentSize(v) = count
  BY <1>6, <1>7 DEF ContentSize
<1> QED BY <1>1, <1>4, <1>5, <1>8

(* A response whose length is the size it writes fits its request.         *)
LEMMA AnswerFits ==
    ASSUME NEW n \in Nat, NEW r \in Requests(n), NEW status \in Nat, NEW x \in Contents, NEW h \in Handling,
           NEW apply \in BOOLEAN, NEW close \in BOOLEAN, apply \/ r.ranges = <<>>,
           Announceable(r, status, x, apply), NEW w,
           w = WriteResponse(r, status, x, h, apply, close), w.asserts,
           NEW k \in IF w.fails THEN 0 .. Len(w.units) - 1 ELSE {Len(w.units)}
    PROVE  Fits(r.method, w.head, SubSeq(w.units, 1, k), ~w.fails, ContentSize(w.units))
<1>0. PICK y \in Contents, applied \in BOOLEAN : ResponseParts(w, r, status, x, h, apply, close, y, applied)
  BY WriteResponseParts
<1>1. /\ \/ y = x
         \/ x = Nothing /\ y = [body |-> 1, length |-> 0, provider |-> "none"] /\ applied /\ status >= 400
      /\ apply => applied
      /\ AssertsHold(r, status, y)
      /\ w.head = Answer(status, r.of, IF y = Nothing THEN 0
                                       ELSE IF applied THEN Announced(r, status, y) ELSE NoLength,
                         applied /\ y.body = 0 /\ y.length = 0 /\ y.provider = "chunked", close \/ r.close)
      /\ w.units = IF r.method = "HEAD" THEN <<>>
                   ELSE IF y.body = 0 /\ y.provider = "chunked" THEN Chunked(r.of, Written(r, status, y, h))
                   ELSE Units("data", r.of, Written(r, status, y, h))
      /\ w.fails = (h.fate = "fails" /\ y.body = 0 /\ y.provider # "none" /\ w.units # <<>>)
  BY <1>0 DEF ResponseParts
<1>2. /\ r.method # "HEAD" => Written(r, status, y, h) \in Nat
      /\ y.body > 0 \/ y.length > 0 => Announced(r, status, y) \in Nat
      /\ y.body > 0 => Written(r, status, y, h) = Announced(r, status, y)
      /\ y.length > 0 /\ (r.ranges # <<>> => status = 206) => Written(r, status, y, h) = Announced(r, status, y)
      /\ y.body = 0 /\ y.length = 0 => Written(r, status, y, h) = IF y.provider = "none" THEN 0 ELSE h.size
  BY <1>1, AnnouncedAndWritten
<1>3. /\ w.head.status = status /\ w.head.of = r.of
      /\ w.head.len = IF y = Nothing THEN 0 ELSE IF applied THEN Announced(r, status, y) ELSE NoLength
      /\ w.head.chunked = (applied /\ y.body = 0 /\ y.length = 0 /\ y.provider = "chunked")
  BY <1>1 DEF Answer
<1>4. w.units \in Seq(ContentUnit(n)) /\ r.of \in 0 .. n
  BY WriteResponseTyped DEF Requests
<1>5. /\ y.body \in Nat /\ y.length \in Nat /\ y.provider \in {"none", "length", "chunked", "endless"}
      /\ y.body > 0 => y.length = 0 /\ y.provider = "none"
      /\ y.length > 0 <=> y.provider = "length"
      /\ y = [body |-> y.body, length |-> y.length, provider |-> y.provider]
  BY <1>1 DEF Contents
<1>6. /\ status \in {204, 304} => y = Nothing
      /\ y.provider # "endless" /\ (y # Nothing => applied)
      /\ r.ranges # <<>> /\ y.length > 0 => status = 206
  BY <1>1 DEF Announceable
<1>7. Nothing = [body |-> 0, length |-> 0, provider |-> "none"] /\ Nothing.body = 0 /\ Nothing.length = 0 /\ Nothing.provider = "none"
  BY DEF Nothing
<1>8. Len(w.units) \in Nat
  BY <1>4
<1>9. PICK u : u = SubSeq(w.units, 1, k)
  OBVIOUS
<1>10. ~w.fails => u = w.units
  BY <1>4, <1>9, WholeSeq
<1>11. /\ k \in 0 .. Len(w.units) /\ (w.fails => k < Len(w.units))
  BY <1>1, <1>8
<1>12. Len(u) = k /\ \A i \in 1 .. k : u[i] = w.units[i]
  <2>1. \A i \in 1 .. k : w.units[i] \in ContentUnit(n)
    BY <1>4, <1>11
  <2>2. Len(u) = IF 1 <= k THEN k - 1 + 1 ELSE 0
    BY <1>9, <1>11, <2>1, SubSeqProperties
  <2>3. \A i \in 1 .. k - 1 + 1 : u[i] = w.units[1 + i - 1]
    BY <1>9, <1>11, <2>1, SubSeqProperties
  <2> QED BY <1>11, <2>2, <2>3
<1>13. CASE r.method = "HEAD"
  <2>1. w.units = <<>> /\ w.fails = FALSE
    BY <1>1, <1>13
  <2>2. ContentSize(w.units) = 0
    BY <2>1 DEF ContentSize
  <2> QED BY <1>9, <1>10, <1>13, <2>1, <2>2 DEF Fits
<1>14. CASE r.method # "HEAD" /\ status \in {204, 304}
  <2>1. y = Nothing
    BY <1>6, <1>14
  <2>2. w.units = Units("data", r.of, 0)
    BY <1>1, <1>2, <1>7, <1>14, <2>1
  <2>3. Units("data", r.of, 0) = <<>>
    BY <1>4, UnitsProperties
  <2>4. w.units = <<>> /\ w.fails = FALSE
    BY <1>1, <2>2, <2>3
  <2>5. ContentSize(w.units) = 0
    BY <2>4 DEF ContentSize
  <2> QED BY <1>3, <1>9, <1>10, <1>14, <2>4, <2>5 DEF Fits
<1>15. CASE r.method # "HEAD" /\ status \notin {204, 304} /\ w.head.chunked
  <2>1. PICK count \in Nat : count = Written(r, status, y, h)
    BY <1>2, <1>15
  <2>2. w.units = Chunked(r.of, count)
    BY <1>1, <1>3, <1>15, <2>1
  <2>3. ContentSize(w.units) = count
    BY <1>4, <2>1, <2>2, ContentSizes
  <2>4. CASE ~w.fails
    <3>1. u = Chunked(w.head.of, count)
      BY <1>3, <1>10, <2>2, <2>4
    <3> QED BY <1>3, <1>9, <1>15, <2>1, <2>3, <2>4, <3>1 DEF Fits
  <2>5. CASE w.fails
    <3>1. Len(w.units) = count + 1 /\ \A i \in 1 .. count : w.units[i] = Unit("chunk", r.of)
      <4>1. PICK m \in 0 .. n : m = r.of
        BY <1>4
      <4>2. Len(Chunked(m, count)) = count + 1 /\ \A i \in 1 .. count : Chunked(m, count)[i] = Unit("chunk", m)
        BY ChunkedProperties, ZenonT(40)
      <4> QED BY <2>2, <4>1, <4>2
    <3>2. \A i \in 1 .. k : i \in 1 .. count
      BY <1>11, <2>1, <2>5, <3>1
    <3>3. \A i \in 1 .. Len(u) : u[i].unit = "chunk"
      BY <1>12, <3>1, <3>2 DEF Unit
    <3> QED BY <1>3, <1>9, <1>15, <3>3 DEF Fits
  <2> QED BY <2>4, <2>5
<1>16. CASE r.method # "HEAD" /\ status \notin {204, 304} /\ ~w.head.chunked
  <2>1. PICK count \in Nat : count = Written(r, status, y, h)
    BY <1>2, <1>16
  <2>2. ~(y.body = 0 /\ y.provider = "chunked")
    <3>1. ASSUME y.body = 0, y.provider = "chunked" PROVE FALSE
      <4>1. y # Nothing /\ applied
        BY <1>6, <1>7, <3>1
      <4>2. y.length = 0
        BY <1>5, <3>1
      <4> QED BY <1>3, <1>16, <3>1, <4>1, <4>2
    <3> QED BY <3>1
  <2>3. w.units = Units("data", r.of, count)
    BY <1>1, <1>16, <2>1, <2>2
  <2>4. Len(w.units) = count /\ ContentSize(w.units) = count
    <3>1. Len(Units("data", r.of, count)) = count
      BY <1>4, <2>1, UnitsProperties
    <3>2. ContentSize(Units("data", r.of, count)) = count
      BY <1>4, <2>1, ContentSizes, Zenon
    <3> QED BY <2>3, <3>1, <3>2
  <2>5. w.head.len \in Nat /\ w.head.len = count
    <3>1. CASE y.body > 0
      BY <1>2, <1>3, <1>5, <1>6, <1>7, <2>1, <3>1
    <3>2. CASE y.length > 0
      BY <1>2, <1>3, <1>5, <1>6, <1>7, <2>1, <3>2
    <3>3. CASE y.body = 0 /\ y.length = 0
      <4>1. y.provider = "none"
        BY <1>5, <1>6, <2>2, <3>3
      <4>2. y = Nothing
        BY <1>5, <1>7, <3>3, <4>1
      <4> QED BY <1>2, <1>3, <2>1, <3>3, <4>1, <4>2
    <3> QED BY <1>5, <3>1, <3>2, <3>3
  <2>6. CASE ~w.fails
    <3>1. Len(u) = count
      BY <1>10, <2>4, <2>6
    <3> QED BY <1>3, <1>9, <1>16, <2>4, <2>5, <2>6, <3>1 DEF Fits
  <2>7. CASE w.fails
    <3>1. Len(u) < count
      BY <1>11, <1>12, <2>4, <2>7
    <3>2. Len(u) < w.head.len
      BY <2>5, <3>1
    <3>3. PICK a, size : a = w.head /\ size = ContentSize(w.units)
      OBVIOUS
    <3>4. ~(r.method = "HEAD" \/ a.status \in {204, 304}) /\ ~a.chunked /\ a.len \in Nat /\ Len(u) < a.len
      BY <1>3, <1>16, <2>5, <3>2, <3>3
    <3>5. Fits(r.method, a, u, ~w.fails, size)
      BY <3>4 DEF Fits
    <3> QED BY <1>9, <3>3, <3>5
  <2> QED BY <2>6, <2>7
<1> QED BY <1>3, <1>13, <1>14, <1>15, <1>16

-----------------------------------------------------------------------------
(* The answers of a server                                                 *)

(* The statuses of the server *)
Statuses == 200 .. 599

(* The parts of an answer are of their types, and what a client reads       *)
(* after its head is its content.                                           *)
TypedAnswer(w, r, n) ==
    w.asserts => /\ w.head \in AnswerHeads(n) /\ w.head.of = r.of /\ w.head.status \in Statuses
                 /\ w.units \in Seq(ContentUnit(n)) /\ w.fails \in BOOLEAN

FittingAnswer(w, r) ==
    w.asserts => \A k \in IF w.fails THEN 0 .. Len(w.units) - 1 ELSE {Len(w.units)} :
                    Fits(r.method, w.head, SubSeq(w.units, 1, k), ~w.fails, ContentSize(w.units))

(* A request with other ranges is a request of the same call.              *)
LEMMA RequestWithRanges ==
    ASSUME NEW n \in Nat, NEW r \in Requests(n), NEW t \in Seq(Int \X Int), NEW q, q = [r EXCEPT !.ranges = t]
    PROVE  q \in Requests(n) /\ q.of = r.of /\ q.method = r.method /\ q.ranges = t
BY DEF Requests

(* A request with its ranges cleared is one of the same call.              *)
LEMMA RequestWithoutRanges ==
    ASSUME NEW n \in Nat, NEW r \in Requests(n), NEW q, q = [r EXCEPT !.ranges = <<>>]
    PROVE  q \in Requests(n) /\ q.of = r.of /\ q.method = r.method /\ q.ranges = <<>>
<1>1. <<>> \in Seq(Int \X Int)
  BY EmptySeq
<1> QED BY <1>1 DEF Requests

(* A request with its wish to close cleared is one of the same call.       *)
LEMMA RequestKeptAlive ==
    ASSUME NEW n \in Nat, NEW r \in Requests(n), NEW close \in {FALSE, r.close}, NEW q, q = [r EXCEPT !.close = close]
    PROVE  q \in Requests(n) /\ q.of = r.of /\ q.method = r.method
BY DEF Requests

(* A response may have no content.                                         *)
LEMMA NothingIsContent == Nothing \in Contents /\ Nothing.provider = "none" /\ Nothing.length = 0
BY DEF Nothing, Contents

(* What a handler sets is content of a response.                           *)
LEMMA ContentIsContent ==
    ASSUME NEW h \in Handling
    PROVE  Content(h) \in Contents
<1>1. PICK x : x = Content(h)
  OBVIOUS
<1>2. /\ x \in [body : Nat, length : Nat, provider : {"none", "length", "chunked", "endless"}]
      /\ x.body > 0 => x.length = 0
      /\ x.length > 0 <=> x.provider = "length"
      /\ x.body > 0 => x.provider = "none"
  BY <1>1, ContentTyped
<1> QED BY <1>1, <1>2 DEF Contents

(* A response written for a request fits it.                               *)
LEMMA ResponseAnswers ==
    ASSUME NEW n \in Nat, NEW r \in Requests(n), NEW status \in Statuses, NEW x \in Contents,
           NEW h \in Handling, NEW apply \in BOOLEAN, NEW close \in BOOLEAN, apply \/ r.ranges = <<>>, NEW w,
           w = WriteResponse(r, status, x, h, apply, close)
    PROVE  TypedAnswer(w, r, n) /\ (Announceable(r, status, x, apply) => FittingAnswer(w, r))
<1>0. status \in Nat
  BY DEF Statuses
<1>1. TypedAnswer(w, r, n)
  <2>1. ASSUME w.asserts
        PROVE  /\ w.head \in AnswerHeads(n) /\ w.head.of = r.of /\ w.head.status = status
               /\ w.units \in Seq(ContentUnit(n)) /\ w.fails \in BOOLEAN
    BY <1>0, <2>1, WriteResponseTyped
  <2> QED BY <2>1 DEF TypedAnswer
<1>2. ASSUME Announceable(r, status, x, apply) PROVE FittingAnswer(w, r)
  <2>1. ASSUME w.asserts, NEW k \in IF w.fails THEN 0 .. Len(w.units) - 1 ELSE {Len(w.units)}
        PROVE  Fits(r.method, w.head, SubSeq(w.units, 1, k), ~w.fails, ContentSize(w.units))
    BY <1>0, <1>2, <2>1, AnswerFits
  <2> QED BY <2>1 DEF FittingAnswer
<1> QED BY <1>1, <1>2

(* Only the number and the method of a request matter to that.              *)
LEMMA SameAnswers ==
    ASSUME NEW n, NEW r, NEW q, q.of = r.of, q.method = r.method, NEW w
    PROVE  (TypedAnswer(w, q, n) => TypedAnswer(w, r, n)) /\ (FittingAnswer(w, q) => FittingAnswer(w, r))
BY DEF TypedAnswer, FittingAnswer

(* An answer without content always fits. *)
LEMMA PlainAnswers ==
    ASSUME NEW n \in Nat, NEW r \in Requests(n), NEW status \in Statuses, NEW h \in Handling,
           NEW close \in BOOLEAN, NEW w, w = Plain(r, status, h, close)
    PROVE  TypedAnswer(w, r, n) /\ FittingAnswer(w, r)
<1>1. PICK q : q = [r EXCEPT !.ranges = <<>>]
  OBVIOUS
<1>3. q \in Requests(n) /\ q.of = r.of /\ q.method = r.method /\ q.ranges = <<>>
  BY <1>1, RequestWithoutRanges
<1>4. PICK apply \in BOOLEAN, x \in Contents : apply = FALSE /\ x = Nothing
  BY NothingIsContent
<1>5. w = WriteResponse(q, status, x, h, apply, close)
  BY <1>1, <1>4 DEF Plain
<1>7. Announceable(q, status, x, apply)
  BY <1>3, <1>4, NothingIsContent DEF Announceable
<1>8. TypedAnswer(w, r, n) /\ FittingAnswer(w, r)
  <2>2. TypedAnswer(w, q, n) /\ FittingAnswer(w, q)
    BY <1>3, <1>5, <1>7, ResponseAnswers
  <2> QED BY <1>3, <2>2, SameAnswers, Zenon
<1> QED BY <1>8

(* Checking the ranges leaves typed ranges, and none where there were none.*)
LEMMA RangeErrorTyped ==
    ASSUME NEW ranges \in Seq(Int \X Int), NEW status \in Nat, NEW len \in Nat
    PROVE  /\ RangeError(ranges, status, len).ranges \in Seq(Int \X Int)
           /\ ranges = <<>> => RangeError(ranges, status, len).ranges = <<>>
<1>1. Len(ranges) \in Nat /\ \A i \in 1 .. Len(ranges) : ranges[i] \in Int \X Int
  OBVIOUS
<1>2. ASSUME NEW i \in 1 .. Len(ranges) PROVE Normalised(ranges[i], len) \in Int \X Int
  <2>1. PICK a \in Int, b \in Int : ranges[i][1] = a /\ ranges[i][2] = b
    BY <1>1
  <2> QED BY <2>1 DEF Normalised
<1>3. PICK t : t = [i \in 1 .. Len(ranges) |-> Normalised(ranges[i], len)]
  OBVIOUS
<1>4. t \in Seq(Int \X Int)
  BY <1>1, <1>2, <1>3
<1>5. RangeError(ranges, status, len).ranges = IF ranges = <<>> \/ status \notin 200 .. 299 THEN ranges ELSE t
  BY <1>3 DEF RangeError
<1> QED BY <1>4, <1>5

(* The handler says how much it gives, and gives as much: no content for    *)
(* 204 and 304, a status that lets ranges be applied, no throw half way.    *)
HandledInStep(r, route, h) ==
    /\ h.status \in {204, 304} => h.content = "none"
    /\ r.ranges # <<>> /\ h.content = "provider" =>
          h.status \in {-1, 206} /\ ~(route.handler /\ route.read /\ ~route.in.ok)
    /\ h.content # "endless"
    /\ h.content # "none" => h.fate # "throws"

TypedRoute(route) ==
    /\ route.routed \in BOOLEAN /\ route.handler \in BOOLEAN /\ route.read \in BOOLEAN /\ route.in.ok \in BOOLEAN
    /\ ~route.in.ok => route.in.status \in {400, 413, 415}

(* Whatever the handler did, what is written fits the request.             *)
LEMMA RespondAnswers ==
    ASSUME NEW n \in Nat, NEW r \in Requests(n), NEW h \in Handling, NEW close \in BOOLEAN, NEW route,
           TypedRoute(route)
    PROVE  /\ TypedAnswer(Respond(r, route, h, close), r, n)
           /\ HandledInStep(r, route, h) => FittingAnswer(Respond(r, route, h, close), r)
<1> DEFINE threw == route.handler /\ h.fate = "throws"
<1>0. /\ route.routed \in BOOLEAN /\ route.handler \in BOOLEAN /\ route.read \in BOOLEAN /\ route.in.ok \in BOOLEAN
      /\ ~route.in.ok => route.in.status \in {400, 413, 415}
  BY DEF TypedRoute
<1>1. r.ranges \in Seq(Int \X Int) /\ h.status \in {-1} \cup 200 .. 599 /\ <<>> \in Seq(Int \X Int)
  BY EmptySeq DEF Requests, Handling
<1>2. PICK x : x = ResponseContent(route, h)
  OBVIOUS
<1>3. /\ x \in Contents
      /\ x.length > 0 => route.handler /\ h.content = "provider"
      /\ x.provider = "endless" => h.content = "endless"
      /\ h.content = "none" => x = Nothing
      /\ x # Nothing => route.handler
  BY <1>2, ContentTyped, ContentIsContent, NothingIsContent DEF ResponseContent
<1>4. PICK status : status = ResponseStatus(r, route, h)
  OBVIOUS
<1>5. status \in Statuses
  BY <1>0, <1>1, <1>4 DEF ResponseStatus, Statuses
<1>6. PICK len \in Nat : len = IF x.length > 0 THEN x.length ELSE x.body
  BY <1>3 DEF Contents
<1>7. PICK served : served = RangeError(r.ranges, status, len)
  OBVIOUS
<1>8. served.ranges \in Seq(Int \X Int) /\ (r.ranges = <<>> => served.ranges = <<>>)
  <2>1. status \in Nat
    BY <1>5 DEF Statuses
  <2> QED BY <1>1, <1>7, <2>1, RangeErrorTyped
<1>9. PICK w : w = Respond(r, route, h, close)
  OBVIOUS
<1>10. CASE threw
  <2>1. PICK q : q = [r EXCEPT !.ranges = <<>>]
    OBVIOUS
  <2>2. PICK apply \in BOOLEAN : apply = FALSE
    OBVIOUS
  <2>8. PICK code \in Statuses : code = 500
    BY DEF Statuses
  <2>3. q \in Requests(n) /\ q.of = r.of /\ q.method = r.method /\ q.ranges = <<>>
    BY <2>1, RequestWithoutRanges
  <2>4. w = WriteResponse(q, 500, x, h, FALSE, close)
    BY <1>2, <1>9, <1>10, <2>1, Zenon DEF Respond
  <2>5. HandledInStep(r, route, h) => Announceable(q, code, x, apply)
    BY <1>3, <1>10, <2>2, <2>3, NothingIsContent DEF HandledInStep, Announceable
  <2>6. w = WriteResponse(q, code, x, h, apply, close)
    BY <2>2, <2>4, <2>8
  <2>7. TypedAnswer(w, r, n) /\ (Announceable(q, code, x, apply) => FittingAnswer(w, r))
    <3>1. x \in Contents
      BY <1>3
    <3>2. apply \/ q.ranges = <<>>
      BY <2>3
    <3>3. q \in Requests(n)
      BY <2>3
    <3>4. TypedAnswer(w, q, n) /\ (Announceable(q, code, x, apply) => FittingAnswer(w, q))
      BY <2>6, <3>1, <3>2, <3>3, ResponseAnswers
    <3> QED BY <2>3, <3>4, SameAnswers, Zenon
  <2> QED BY <1>9, <2>5, <2>7
<1>11. CASE ~threw /\ ~route.routed
  <2>1. PICK code : code = IF route.in.ok THEN 404 ELSE route.in.status
    OBVIOUS
  <2>2. code \in Statuses
    BY <1>0, <2>1 DEF Statuses
  <2>3. w = Plain(r, code, h, close)
    BY <1>9, <1>11, <2>1, Zenon DEF Respond
  <2>4. TypedAnswer(w, r, n) /\ FittingAnswer(w, r)
    BY <2>2, <2>3, PlainAnswers
  <2> QED BY <1>9, <2>4
<1>12. CASE ~threw /\ route.routed /\ (h.content = "missing" \/ served.error)
  <2>1. PICK code \in Statuses : w = Plain(r, code, h, close)
    <3>1. CASE h.content = "missing"
      <4>1. w = Plain(r, 404, h, close)
        BY <1>9, <1>12, <3>1 DEF Respond
      <4> QED BY <4>1 DEF Statuses
    <3>2. CASE h.content # "missing"
      <4>1. served.error
        BY <1>12, <3>2
      <4>2. w = Plain(r, 416, h, close)
        BY <1>2, <1>4, <1>6, <1>7, <1>9, <1>12, <3>2, <4>1 DEF Respond
      <4> QED BY <4>2 DEF Statuses
    <3> QED BY <3>1, <3>2
  <2>2. TypedAnswer(w, r, n) /\ FittingAnswer(w, r)
    BY <2>1, PlainAnswers
  <2> QED BY <1>9, <2>2
<1>13. CASE ~threw /\ route.routed /\ ~(h.content = "missing" \/ served.error)
  <2>1. PICK q : q = [r EXCEPT !.ranges = served.ranges]
    OBVIOUS
  <2>2. q \in Requests(n) /\ q.of = r.of /\ q.method = r.method /\ q.ranges = served.ranges
    BY <1>8, <2>1, RequestWithRanges
  <2>3. w = WriteResponse(q, status, x, h, TRUE, close)
    <3>1. h.content # "missing" /\ ~served.error /\ route.routed /\ ~(route.handler /\ h.fate = "throws")
      BY <1>13
    <3>2. served = RangeError(r.ranges, status, IF x.length > 0 THEN x.length ELSE x.body)
      BY <1>6, <1>7, Zenon
    <3> QED BY <1>2, <1>4, <1>9, <2>1, <3>1, <3>2 DEF Respond
  <2>4. ASSUME HandledInStep(r, route, h) PROVE Announceable(q, status, x, TRUE)
    <3>1. status \in {204, 304} => x = Nothing
      <4>1. status \in {204, 304} => status = h.status
        BY <1>0, <1>4 DEF ResponseStatus
      <4> QED BY <1>3, <2>4, <4>1 DEF HandledInStep
    <3>2. x.provider # "endless"
      BY <1>3, <2>4 DEF HandledInStep
    <3>3. ASSUME q.ranges # <<>>, x.length > 0 PROVE status = 206
      <4>1. r.ranges # <<>> /\ route.handler /\ h.content = "provider"
        BY <1>3, <1>8, <2>2, <3>3
      <4>2. h.status \in {-1, 206} /\ ~(route.read /\ ~route.in.ok)
        BY <2>4, <4>1 DEF HandledInStep
      <4> QED BY <1>4, <4>1, <4>2 DEF ResponseStatus
    <3> QED BY <3>1, <3>2, <3>3 DEF Announceable
  <2>5. PICK apply \in BOOLEAN : apply = TRUE
    OBVIOUS
  <2>6. w = WriteResponse(q, status, x, h, apply, close)
    BY <2>3, <2>5
  <2>7. TypedAnswer(w, r, n) /\ (Announceable(q, status, x, apply) => FittingAnswer(w, r))
    <3>1. x \in Contents
      BY <1>3
    <3>2. TypedAnswer(w, q, n) /\ (Announceable(q, status, x, apply) => FittingAnswer(w, q))
      <4>1. q \in Requests(n) /\ status \in Statuses
        BY <1>5, <2>2
      <4>2. apply \/ q.ranges = <<>>
        BY <2>5
      <4> QED BY <2>6, <3>1, <4>1, <4>2, ResponseAnswers
    <3> QED BY <2>2, <3>2, SameAnswers, Zenon
  <2> QED BY <1>9, <2>4, <2>5, <2>7
<1> QED BY <1>10, <1>11, <1>12, <1>13

-----------------------------------------------------------------------------
(* The server                                                              *)

(* What the server writes for the request r, that s comes after: its parts  *)
(* are of their types.  When r and s are all of the call in progress, and   *)
(* the exchange is no odd one, the client can read it as its answer, and    *)
(* the server has read s to its end, or closes.                             *)
ServedAnswer(h, r, s, w, before, rest, closes) ==
    /\ TypedAnswer(w, r, number)
    /\ before \in Seq(AnswerHeads(number)) /\ rest \in Seq(ToServer(number)) /\ closes \in BOOLEAN
    /\ ~OddExchange(call, h) /\ r = RequestHead(call, number) /\ s = RequestContent(call, number) =>
          /\ FittingAnswer(w, r)
          /\ closes \/ rest = <<>>
          /\ before = <<>> \/ \E a \in AnswerHeads(number) : before = <<a>> /\ a.status = 100

(* But for an odd exchange, the content of a call is looked at.            *)
LEMMA ContentIsLookedAt ==
    ASSUME NEW c, NEW h, ~OddExchange(c, h)
    PROVE  LooksAtContent(c, h)
<1>1. HasContent(c) =>
         /\ h.route # "preRouting" /\ ~ServesFile(c.method, h)
         /\ ~(HasReader(c, h) /\ h.reads # "all")
         /\ ~(c.type = "multipart" /\ h.form \in {"bad", "broken"}) /\ h.form # "encoded"
         /\ ~(c.method = "DELETE" /\ c.provider = "chunked")
  BY DEF OddExchange, HasContent
<1> QED BY <1>1 DEF LooksAtContent, Readable

(* But for an odd exchange, none of it is left behind.                     *)
LEMMA ContentIsSeen ==
    ASSUME NEW c \in UserCall, NEW n \in Nat, NEW h \in Handling, ~OddExchange(c, h), NEW route,
           route = Routing(RequestHead(c, n), RequestContent(c, n), h)
    PROVE  route.in.rest = <<>> /\ (route.read /\ route.in.ok => route.in.size = c.size)
<1>1. n \in 0 .. n
  OBVIOUS
<1> QED BY <1>1, ContentIsLookedAt, RoutingOfCall

(* What Serve writes is typed, and fits the call unless it is odd.         *)
LEMMA ServeWrites ==
    ASSUME number \in Nat, call \in UserCall, up \in Seq(ToServer(number)), NEW h \in Handling, Serve(h)
    PROVE  LET r     == up[1]
               s     == Drop(up, 1)
               route == Routing(r, s, h)
           IN  /\ r \in Requests(number) /\ s \in Seq(ToServer(number))
               /\ \E w, before, rest, closes :
                     Write(w, route, before, rest, closes) /\ ServedAnswer(h, r, s, w, before, rest, closes)
<1> DEFINE r     == up[1]
           s     == Drop(up, 1)
           route == Routing(r, s, h)
<1>0. PICK last \in BOOLEAN :
         \/ /\ h.line = "bad"
            /\ \E close \in {FALSE, r.close} :
                  Write(Plain([r EXCEPT !.close = close], 400, h, last), route, <<>>, StopAt(up, 1), last)
         \/ h.line = "long" /\ \E rest \in SkipHeaders(s) : Write(Plain(r, 414, h, last), route, <<>>, rest, last)
         \/ /\ h.line = "good" /\ r.ranges # <<>> /\ ~ParseRangeHeader(RangeHeader(r.ranges)).ok
            /\ Write(Plain(r, 416, h, last), route, <<>>, s, r.close \/ last)
         \/ /\ h.line = "good" /\ (r.ranges = <<>> \/ ParseRangeHeader(RangeHeader(r.ranges)).ok)
            /\ IF r.expect /\ h.expect = 403
               THEN Write(Plain(r, 403, h, TRUE), route, <<>>, s, TRUE)
               ELSE Write(Respond(r, route, h, last), route, Continue(r, h), route.in.rest, r.close \/ last)
  BY Zenon DEF Serve
<1>1. up # <<>> /\ r.unit = "head"
  BY DEF Serve, r
<1>2. 1 \in 0 .. Len(up) /\ r \in ToServer(number)
  BY <1>1
<1>3. r \in Requests(number)
  BY <1>1, <1>2, UnitForms
<1>4. s \in Seq(ToServer(number))
  BY <1>2, DropProperties
<1>5. <<>> \in Seq(AnswerHeads(number)) /\ <<>> \in Seq(ToServer(number))
  BY EmptySeq
<1> HIDE DEF r, s, route
<1>9. r.close \in BOOLEAN /\ r.of \in 0 .. number
  BY <1>3 DEF Requests
<1>10. CASE /\ h.line = "bad"
            /\ \E close \in {FALSE, r.close} :
                  Write(Plain([r EXCEPT !.close = close], 400, h, last), route, <<>>, StopAt(up, 1), last)
  <2>1. PICK close \in {FALSE, r.close} :
           Write(Plain([r EXCEPT !.close = close], 400, h, last), route, <<>>, StopAt(up, 1), last)
    BY <1>10
  <2>2. PICK q : q = [r EXCEPT !.close = close]
    OBVIOUS
  <2>3. q \in Requests(number) /\ q.of = r.of /\ q.method = r.method
    BY <1>3, <2>2, RequestKeptAlive, Zenon
  <2>4. PICK w : w = Plain(q, 400, h, last)
    OBVIOUS
  <2>5. TypedAnswer(w, r, number)
    <3>1. PICK code \in Statuses : code = 400
      BY DEF Statuses
    <3>2. w = Plain(q, code, h, last)
      BY <2>4, <3>1
    <3>3. TypedAnswer(w, q, number)
      BY <2>3, <3>2, PlainAnswers
    <3> QED BY <2>3, <3>3, SameAnswers, Zenon
  <2>6. PICK rest \in Seq(ToServer(number)) : rest = StopAt(up, 1)
    <3>1. 1 \in 1 .. Len(up)
      BY <1>1, EmptySeq
    <3> QED BY <3>1, StopAtTyped
  <2>7. Write(w, route, <<>>, rest, last)
    BY <2>1, <2>2, <2>4, <2>6, Zenon
  <2>8. OddExchange(call, h)
    BY <1>10 DEF OddExchange
  <2>9. ServedAnswer(h, r, s, w, <<>>, rest, last)
    BY <1>5, <2>5, <2>8 DEF ServedAnswer
  <2> QED BY <1>3, <1>4, <2>7, <2>9 DEF r, s, route
<1>11. CASE h.line = "long" /\ \E rest \in SkipHeaders(s) : Write(Plain(r, 414, h, last), route, <<>>, rest, last)
  <2>1. PICK w : w = Plain(r, 414, h, last)
    OBVIOUS
  <2>2. TypedAnswer(w, r, number) /\ FittingAnswer(w, r)
    <3>1. PICK code \in Statuses : code = 414
      BY DEF Statuses
    <3>2. w = Plain(r, code, h, last)
      BY <2>1, <3>1
    <3> QED BY <1>3, <3>2, PlainAnswers
  <2>3. PICK rest \in SkipHeaders(s) : Write(w, route, <<>>, rest, last)
    BY <1>11, <2>1, Zenon
  <2>4. rest \in Seq(ToServer(number)) /\ (s = <<>> => rest = <<>>)
    BY <1>4, SkipHeadersTyped
  <2>5. ASSUME ~OddExchange(call, h), s = RequestContent(call, number)
        PROVE  rest = <<>>
    <3>1. ~HasContent(call)
      BY <1>11, <2>5 DEF OddExchange, HasContent
    <3>2. call.size = 0 /\ call.provider # "chunked" /\ number \in 0 .. number
      BY <3>1 DEF HasContent, UserCall
    <3>3. RequestContent(call, number) = <<>>
      BY <3>2, NothingToRead
    <3> QED BY <2>4, <2>5, <3>3
  <2>6. ServedAnswer(h, r, s, w, <<>>, rest, last)
    BY <1>5, <2>2, <2>4, <2>5 DEF ServedAnswer
  <2> QED BY <1>3, <1>4, <2>3, <2>6 DEF r, s, route
<1>12. CASE /\ r.ranges # <<>> /\ ~ParseRangeHeader(RangeHeader(r.ranges)).ok
            /\ Write(Plain(r, 416, h, last), route, <<>>, s, r.close \/ last)
  <2>1. PICK w : w = Plain(r, 416, h, last)
    OBVIOUS
  <2>2. TypedAnswer(w, r, number) /\ FittingAnswer(w, r)
    <3>1. PICK code \in Statuses : code = 416
      BY DEF Statuses
    <3>2. w = Plain(r, code, h, last)
      BY <2>1, <3>1
    <3> QED BY <1>3, <3>2, PlainAnswers
  <2>3. ASSUME ~OddExchange(call, h), r = RequestHead(call, number), s = RequestContent(call, number)
        PROVE  s = <<>>
    <3>1. call.ranges = r.ranges
      BY <2>3 DEF RequestHead
    <3>2. ~HasContent(call)
      BY <1>12, <2>3, <3>1 DEF OddExchange, HasContent
    <3>3. RequestContent(call, number) = <<>>
      <4>1. call.size = 0 /\ call.provider # "chunked" /\ number \in 0 .. number
        BY <3>2 DEF HasContent, UserCall
      <4> QED BY <4>1, NothingToRead
    <3> QED BY <2>3, <3>3
  <2>4. PICK closes \in BOOLEAN : closes = (r.close \/ last)
    OBVIOUS
  <2>5. ServedAnswer(h, r, s, w, <<>>, s, closes)
    BY <1>4, <1>5, <2>2, <2>3 DEF ServedAnswer
  <2>6. Write(w, route, <<>>, s, closes)
    BY <1>12, <2>1, <2>4, Zenon
  <2> QED BY <1>3, <1>4, <2>5, <2>6 DEF r, s, route
<1>13. CASE r.expect /\ h.expect = 403 /\ Write(Plain(r, 403, h, TRUE), route, <<>>, s, TRUE)
  <2>1. PICK w : w = Plain(r, 403, h, TRUE)
    OBVIOUS
  <2>2. TypedAnswer(w, r, number) /\ FittingAnswer(w, r)
    <3>1. PICK code \in Statuses : code = 403
      BY DEF Statuses
    <3>2. w = Plain(r, code, h, TRUE)
      BY <2>1, <3>1
    <3> QED BY <1>3, <3>2, PlainAnswers
  <2>3. ServedAnswer(h, r, s, w, <<>>, s, TRUE)
    BY <1>4, <1>5, <2>2 DEF ServedAnswer
  <2>4. Write(w, route, <<>>, s, TRUE)
    BY <1>13, <2>1, Zenon
  <2> QED BY <1>3, <1>4, <2>3, <2>4 DEF r, s, route
<1>14. CASE ~(r.expect /\ h.expect = 403) /\ Write(Respond(r, route, h, last), route, Continue(r, h), route.in.rest, r.close \/ last)
  <2>1. PICK w : w = Respond(r, route, h, last)
    OBVIOUS
  <2>2. /\ route.routed \in BOOLEAN /\ route.handler \in BOOLEAN /\ route.read \in BOOLEAN /\ route.in.ok \in BOOLEAN
        /\ route.in.rest \in Seq(ToServer(number)) /\ (~route.in.ok => route.in.status \in {400, 413, 415})
    BY <1>3, <1>4, RoutingTyped DEF route
  <2>3. TypedAnswer(w, r, number) /\ (HandledInStep(r, route, h) => FittingAnswer(w, r))
    <3>1. TypedRoute(route)
      BY <2>2 DEF TypedRoute
    <3> QED BY <1>3, <2>1, <3>1, RespondAnswers
  <2>9. PICK continue : continue = Continue(r, h)
    OBVIOUS
  <2>4. continue \in Seq(AnswerHeads(number))
    <3>1. CASE r.expect /\ h.expect # 403
      <4>1. PICK a : a = Answer(h.expect, r.of, NoLength, FALSE, FALSE)
        OBVIOUS
      <4>2. a \in AnswerHeads(number)
        BY <1>9, <4>1 DEF Answer, AnswerHeads, Handling
      <4>3. continue = <<a>>
        BY <2>9, <3>1, <4>1 DEF Continue
      <4> QED BY <4>2, <4>3
    <3>2. CASE ~(r.expect /\ h.expect # 403)
      BY <1>5, <2>9, <3>2 DEF Continue
    <3> QED BY <3>1, <3>2
  <2>5. ASSUME ~OddExchange(call, h), r = RequestHead(call, number), s = RequestContent(call, number)
        PROVE  /\ FittingAnswer(w, r) /\ route.in.rest = <<>>
               /\ continue = <<>> \/ \E a \in AnswerHeads(number) : continue = <<a>> /\ a.status = 100
    <3>2. route.in.rest = <<>>
      <4>1. route = Routing(RequestHead(call, number), RequestContent(call, number), h)
        BY <2>5 DEF route
      <4> QED BY <2>5, <4>1, ContentIsSeen
    <3>3. call.ranges = r.ranges /\ call.expect = r.expect
      BY <2>5 DEF RequestHead
    <3>4. ReadingFails(call, h) = (route.handler /\ route.read /\ ~route.in.ok)
      BY <2>5 DEF ReadingFails, route
    <3>5. HandledInStep(r, route, h)
      <4>1. ~(h.status \in {204, 304} /\ h.content # "none") /\ h.content # "endless"
            /\ ~(h.content # "none" /\ h.fate = "throws")
        BY <2>5 DEF OddExchange
      <4>2. ~(r.ranges # <<>> /\ h.content = "provider" /\ (h.status \notin {-1, 206} \/ ReadingFails(call, h)))
        BY <2>5, <3>3 DEF OddExchange
      <4>3. h.status \in {204, 304} => h.content = "none"
        BY <4>1
      <4>4. h.content # "none" => h.fate # "throws"
        BY <4>1
      <4>5. r.ranges # <<>> /\ h.content = "provider" =>
              h.status \in {-1, 206} /\ ~(route.handler /\ route.read /\ ~route.in.ok)
        BY <3>4, <4>2, Zenon
      <4> QED BY <4>1, <4>3, <4>4, <4>5 DEF HandledInStep
    <3>6. ASSUME r.expect /\ h.expect # 403
          PROVE  \E a \in AnswerHeads(number) : continue = <<a>> /\ a.status = 100
      <4>1. h.expect = 100
        BY <2>5, <3>3, <3>6 DEF OddExchange, Handling
      <4>2. PICK a : a = Answer(h.expect, r.of, NoLength, FALSE, FALSE)
        OBVIOUS
      <4>3. a \in AnswerHeads(number) /\ a.status = 100
        BY <1>9, <4>1, <4>2 DEF Answer, AnswerHeads
      <4>4. continue = <<a>>
        BY <2>9, <3>6, <4>2 DEF Continue
      <4> QED BY <4>3, <4>4
    <3>7. ~(r.expect /\ h.expect # 403) => continue = <<>>
      BY <2>9 DEF Continue
    <3> QED BY <2>3, <3>2, <3>5, <3>6, <3>7
  <2>6. PICK closes \in BOOLEAN : closes = (r.close \/ last)
    OBVIOUS
  <2>7. ServedAnswer(h, r, s, w, continue, route.in.rest, closes)
    BY <2>2, <2>3, <2>4, <2>5 DEF ServedAnswer
  <2>8. Write(w, route, continue, route.in.rest, closes)
    BY <1>14, <2>1, <2>6, <2>9
  <2> QED BY <1>3, <1>4, <2>7, <2>8 DEF r, s, route
<1> QED BY <1>0, <1>10, <1>11, <1>12, <1>13, <1>14

-----------------------------------------------------------------------------
(* The client                                                              *)

(* The content of a request is of its call.                                *)
LEMMA RequestContentTyped ==
    ASSUME NEW c \in UserCall, NEW n \in Nat, NEW k \in 0 .. n
    PROVE  RequestContent(c, k) \in Seq(ContentUnit(n))
<1>1. PICK size \in Nat : size = c.size
  BY DEF UserCall
<1>2. Chunked(k, size) \in Seq(ContentUnit(n))
  BY ChunkedProperties, Zenon
<1>3. Units("data", k, size) \in Seq(ContentUnit(n))
  BY UnitsProperties
<1> QED BY <1>1, <1>2, <1>3 DEF RequestContent

(* So is all of what a call sends.                                         *)
LEMMA RequestTyped ==
    ASSUME NEW c \in UserCall, NEW n \in Nat, NEW k \in 0 .. n
    PROVE  RequestHead(c, k) \in ToServer(n) /\ RequestContent(c, k) \in Seq(ToServer(n))
<1>1. RequestHead(c, k) \in Requests(n) /\ RequestContent(c, k) \in Seq(ContentUnit(n))
  BY RequestHeadTyped, RequestContentTyped
<1>2. Requests(n) \subseteq ToServer(n) /\ Seq(ContentUnit(n)) \subseteq Seq(ToServer(n))
  BY DEF ToServer
<1> QED BY <1>1, <1>2

(* Answers, of what is on its way to the client.                           *)
AnswersIn(d) ==
    Drop(d, Max({n \in 0 .. Len(d) : \A i \in 1 .. n : d[i].unit = "head" /\ d[i].status = 100}))

(* What is on the way behind a "100 Continue" is a sequence of the same.   *)
LEMMA AnswersProperties ==
    ASSUME NEW S, NEW d \in Seq(S)
    PROVE  AnswersIn(d) \in Seq(S) /\ (d = <<>> => AnswersIn(d) = <<>>)
<1>1. PICK T : T = {n \in 0 .. Len(d) : \A i \in 1 .. n : d[i].unit = "head" /\ d[i].status = 100}
  OBVIOUS
<1>2. T \subseteq 0 .. Len(d) /\ 0 \in T /\ Len(d) \in Nat
  BY <1>1
<1>3. PICK m : m = Max(T)
  OBVIOUS
<1>4. m \in 0 .. Len(d)
  BY <1>2, <1>3, GreatestElement
<1>5. Drop(d, m) \in Seq(S) /\ (m = Len(d) => Drop(d, m) = <<>>)
  BY <1>4, DropProperties
<1>6. AnswersIn(d) = Drop(d, m)
  BY <1>1, <1>3 DEF AnswersIn
<1>7. d = <<>> => m = Len(d)
  BY <1>4
<1> QED BY <1>5, <1>6, <1>7

(* "100 Continue" is skipped, and the answer behind it is not.             *)
OneContinue(before, S) == before = <<>> \/ \E c \in S : before = <<c>> /\ c.unit = "head" /\ c.status = 100

(* That one is skipped, and what fits is still what is read.               *)
LEMMA AnswerBehindContinue ==
    ASSUME NEW S, NEW a \in S, NEW u \in Seq(S), a.status # 100, NEW before \in Seq(S), OneContinue(before, S), NEW d, d = before \o <<a>> \o u
    PROVE  AnswersIn(d) = <<a>> \o u
<1>1. PICK v \in Seq(S) : v = <<a>> \o u
  BY DropOne
<1>2. v[1] = a /\ Len(v) = Len(u) + 1
  BY <1>1
<1>3. d = before \o v
  BY <1>1, ConcatAssociative
<1>4. PICK k \in {0, 1} : k = Len(before)
  BY DEF OneContinue
<1>5. d \in Seq(S) /\ Len(d) = k + Len(v) /\ d[k + 1] = a
  <2>1. CASE before = <<>>
    <3>1. d = v /\ k = 0
      BY <1>3, <1>4, <2>1, ConcatEmptySeq
    <3> QED BY <1>2, <3>1
  <2>2. CASE before # <<>>
    <3>1. PICK c \in S : before = <<c>>
      BY <2>2 DEF OneContinue
    <3>2. d = <<c>> \o v /\ k = 1
      BY <1>3, <1>4, <3>1
    <3> QED BY <1>2, <3>2
  <2> QED BY <2>1, <2>2
<1>6. Drop(d, k) = v
  <2>1. CASE before = <<>>
    <3>1. d = v /\ k = 0
      BY <1>3, <1>4, <2>1, ConcatEmptySeq
    <3>2. Drop(v, 0) = SubSeq(v, 1, Len(v))
      BY DEF Drop
    <3> QED BY <3>1, <3>2, WholeSeq
  <2>2. CASE before # <<>>
    <3>1. PICK c \in S : before = <<c>>
      BY <2>2 DEF OneContinue
    <3>2. d = <<c>> \o v /\ k = 1
      BY <1>3, <1>4, <3>1
    <3>3. Drop(<<c>> \o v, 1) = v
      BY DropOne
    <3> QED BY <3>2, <3>3
  <2> QED BY <2>1, <2>2
<1>7. PICK T : T = {n \in 0 .. Len(d) : \A i \in 1 .. n : d[i].unit = "head" /\ d[i].status = 100}
  OBVIOUS
<1>8. k \in T
  <2>1. k \in 0 .. Len(d)
    BY <1>4, <1>5
  <2>2. ASSUME NEW i \in 1 .. k PROVE d[i].unit = "head" /\ d[i].status = 100
    <3>1. i = 1 /\ k = 1
      <4>1. k = 0 \/ k = 1
        BY <1>4
      <4>2. k # 0
        OBVIOUS
      <4>3. k = 1
        BY <4>1, <4>2
      <4> QED BY <4>3
    <3>2. PICK c \in S : before = <<c>> /\ c.unit = "head" /\ c.status = 100
      <4>1. Len(before) = 1
        BY <1>4, <3>1
      <4>2. Len(<<>>) = 0
        OBVIOUS
      <4>3. before # <<>>
        <5>1. ASSUME before = <<>> PROVE FALSE
          <6>1. Len(before) = Len(<<>>)
            BY <5>1
          <6> QED BY <4>1, <4>2, <6>1
        <5> QED BY <5>1
      <4> QED BY <4>3, Zenon DEF OneContinue
    <3>3. d = <<c>> \o v
      BY <1>3, <3>2
    <3>4. d[1] = c
      BY <3>3, DropOne
    <3> QED BY <3>1, <3>2, <3>4
  <2> QED BY <1>7, <2>1, <2>2
<1>9. PICK m : m = Max(T)
  OBVIOUS
<1>10. m \in T /\ k <= m
  <2>1. T \subseteq 0 .. Len(d) /\ Len(d) \in Nat
    BY <1>5, <1>7
  <2> QED BY <1>8, <1>9, <2>1, GreatestElement, Zenon
<1>11. m = k
  <2>1. m \in Nat /\ \A i \in 1 .. m : d[i].status = 100
    BY <1>7, <1>10
  <2>2. ~(k + 1 \in 1 .. m)
    BY <1>5, <2>1
  <2> QED BY <1>4, <1>10, <2>1, <2>2
<1> QED BY <1>1, <1>6, <1>7, <1>9, <1>11 DEF AnswersIn

(* Reading an answer leaves a sequence of what was there.                  *)
LEMMA ReadAnswerTyped ==
    ASSUME NEW n \in Nat, NEW a \in AnswerHeads(n), NEW S, NEW s \in Seq(S)
    PROVE  ReadAnswer(a, s).size \in Nat /\ ReadAnswer(a, s).rest \in Seq(S)
<1>1. PICK b : b = ReadAnswer(a, s)
  OBVIOUS
<1>2. Len(s) \in Nat /\ <<>> \in Seq(S)
  OBVIOUS
<1>3. a.len \in Nat \cup {NoLength}
  BY DEF AnswerHeads
<1>4. CASE call.method = "HEAD" \/ a.status \in {204, 304}
  <2>1. b = [ok |-> TRUE, size |-> 0, rest |-> s]
    BY <1>1, <1>4 DEF ReadAnswer
  <2> QED BY <1>1, <2>1
<1>5. CASE ~(call.method = "HEAD" \/ a.status \in {204, 304}) /\ a.chunked
  <2>1. b = ReadChunked(s)
    BY <1>1, <1>5 DEF ReadAnswer
  <2> QED BY <1>1, <2>1, ReadChunkedTyped
<1>6. CASE ~(call.method = "HEAD" \/ a.status \in {204, 304}) /\ ~a.chunked /\ a.len = NoLength
  <2>1. b.size = Len(s) /\ b.rest = <<>>
    BY <1>1, <1>6 DEF ReadAnswer
  <2> QED BY <1>1, <1>2, <2>1
<1>7. CASE ~(call.method = "HEAD" \/ a.status \in {204, 304}) /\ ~a.chunked /\ a.len # NoLength
  <2>1. PICK len \in Nat : len = a.len
    BY <1>3, <1>7
  <2>2. b = ReadWithLength(s, len)
    BY <1>1, <1>7, <2>1 DEF ReadAnswer
  <2> QED BY <1>1, <2>2, ReadWithLengthProperties
<1> QED BY <1>4, <1>5, <1>6, <1>7

(* A content that fits is read to its end, and taken for whole only when it *)
(* is.                                                                      *)
LEMMA ReadAnswerFits ==
    ASSUME NEW n \in Nat, NEW a \in AnswerHeads(n), NEW S, NEW u \in Seq(S), NEW whole \in BOOLEAN, NEW size,
           Fits(call.method, a, u, whole, size), ReadAnswer(a, u).ok
    PROVE  ReadAnswer(a, u).rest = <<>> /\ whole /\ ReadAnswer(a, u).size = size
<1>1. PICK b : b = ReadAnswer(a, u)
  OBVIOUS
<1>2. Len(u) \in Nat /\ a.of \in 0 .. n
  BY DEF AnswerHeads
<1>3. CASE call.method = "HEAD" \/ a.status \in {204, 304}
  <2>1. b = [ok |-> TRUE, size |-> 0, rest |-> u]
    BY <1>1, <1>3 DEF ReadAnswer
  <2>2. u = <<>> /\ whole /\ size = 0
    BY <1>3 DEF Fits
  <2> QED BY <1>1, <2>1, <2>2
<1>4. CASE ~(call.method = "HEAD" \/ a.status \in {204, 304}) /\ a.chunked
  <2>1. b = ReadChunked(u)
    BY <1>1, <1>4 DEF ReadAnswer
  <2>2. CASE whole /\ size \in Nat /\ u = Chunked(a.of, size)
    <3>1. PICK k \in 0 .. n : k = a.of
      BY <1>2
    <3>2. PICK count \in Nat : count = size
      BY <2>2
    <3>3. ReadChunked(Chunked(k, count)) = [ok |-> TRUE, size |-> count, rest |-> <<>>]
      BY ReadChunkedWhole, Zenon
    <3>4. b = [ok |-> TRUE, size |-> size, rest |-> <<>>]
      BY <2>1, <2>2, <3>1, <3>2, <3>3
    <3> QED BY <1>1, <2>2, <3>4
  <2>3. CASE \A i \in 1 .. Len(u) : u[i].unit = "chunk"
    <3>1. ~ReadChunked(u).ok
      BY <2>3, ReadChunkedPart
    <3> QED BY <1>1, <2>1, <3>1
  <2>4. \/ whole /\ size \in Nat /\ u = Chunked(a.of, size)
        \/ \A i \in 1 .. Len(u) : u[i].unit = "chunk"
    BY <1>4 DEF Fits
  <2> QED BY <2>2, <2>3, <2>4
<1>5. CASE ~(call.method = "HEAD" \/ a.status \in {204, 304}) /\ ~a.chunked
  <2>1. a.len \in Nat /\ (Len(u) < a.len \/ (whole /\ Len(u) = a.len /\ size = a.len))
    BY <1>5 DEF Fits
  <2>2. PICK len \in Nat : len = a.len
    BY <2>1
  <2>3. b = ReadWithLength(u, len)
    BY <1>1, <1>5, <2>2 DEF ReadAnswer, NoLength
  <2>4. b.ok => len <= Len(u)
    BY <2>3, ReadWithLengthProperties
  <2>5. len = Len(u) /\ whole /\ size = len
    BY <1>1, <1>2, <2>1, <2>2, <2>4
  <2>6. b = [ok |-> TRUE, size |-> len, rest |-> <<>>]
    BY <2>3, <2>5, ReadWithLengthProperties
  <2> QED BY <1>1, <2>5, <2>6
<1> QED BY <1>3, <1>4, <1>5

-----------------------------------------------------------------------------
(* The inductive invariant                                                 *)

Typed ==
    /\ open \in [client : BOOLEAN, server : BOOLEAN]
    /\ phase \in {"idle", "sent", "aborted"}
    /\ number \in 0 .. MaxCalls /\ (number > 0 => call \in Calls) /\ call \in UserCall
    /\ reply \in [ok : BOOLEAN, of : 0 .. number, status : Nat, size : Nat]
    /\ given \in [seen : Nat, read : BOOLEAN, size : Nat, whole : BOOLEAN] /\ odd \in BOOLEAN
    /\ up \in Seq(ToServer(number)) /\ down \in Seq(ToClient(number))

(* The request of the call, and nothing else, is on its way.               *)
Unanswered ==
    /\ open.server /\ down = <<>>
    /\ up = <<RequestHead(call, number)>> \o RequestContent(call, number)

(* The server has read the request, and what it wrote after its "100        *)
(* Continue" is what the client expects.                                    *)
Answered ==
    /\ open.server => up = <<>>
    /\ Answers # <<>> /\ Answers[1] \in AnswerHeads(number) /\ Answers[1].of = number
    /\ Fits(call.method, Answers[1], Drop(Answers, 1), given.whole, given.size)
    /\ given.read => given.seen = call.size

(* The client has read it.                                                  *)
Concluded ==
    /\ open.server => up = <<>>
    /\ down = <<>>
    /\ reply.of = number /\ given.whole /\ reply.size = given.size
    /\ given.read => given.seen = call.size

InStep ==
    /\ phase = "sent" => Unanswered \/ Answered
    /\ phase = "idle" /\ reply.ok => Concluded

(* KeptConnectionIsInStep speaks of the time between two calls only; what   *)
(* makes it true is what is on its way during a call.                       *)
MessagesInv ==
    /\ Typed
    /\ phase = "idle" /\ open.client => reply.ok
    /\ ~odd => InStep

(* Typed implies the type invariant of the runs.                           *)
LEMMA TypedUnits == Typed => MGTypeOK
<1> SUFFICES ASSUME Typed PROVE MGTypeOK
  OBVIOUS
<1>1. number \in Nat
  BY MessagesAssumption DEF Typed
<1>2. ASSUME NEW i \in 1 .. Len(up)
      PROVE  /\ up[i].unit \in {"head", "data", "chunk", "end"} /\ up[i].of \in 0 .. number
             /\ up[i].unit = "head" => up[i].len \in Nat \cup {NoLength}
  <2>1. up[i] \in ToServer(number)
    BY DEF Typed
  <2> QED BY <1>1, <2>1, UnitForms
<1>3. ASSUME NEW i \in 1 .. Len(down)
      PROVE  /\ down[i].unit \in {"head", "data", "chunk", "end"} /\ down[i].of \in 0 .. number
             /\ down[i].unit = "head" => down[i].len \in Nat \cup {NoLength}
  <2>1. down[i] \in ToClient(number)
    BY DEF Typed
  <2> QED BY <1>1, <2>1, UnitForms
<1> QED BY <1>2, <1>3 DEF Typed, MGTypeOK

(* MessagesInv holds initially.                                            *)
LEMMA InitMessagesInv == MGInit => MessagesInv
<1> SUFFICES ASSUME MGInit PROVE MessagesInv
  OBVIOUS
<1>1. NoContent("GET") \in UserCall
  <2>1. <<>> \in Seq(Int \X Int)
    BY EmptySeq
  <2> QED BY <2>1 DEF NoContent, UserCall
<1>2. up = <<>> /\ down = <<>> /\ up \in Seq(ToServer(0)) /\ down \in Seq(ToClient(0))
  BY EmptySeq DEF MGInit
<1>3. reply.ok = FALSE /\ reply \in [ok : BOOLEAN, of : 0 .. 0, status : Nat, size : Nat]
  BY DEF MGInit, NoReply
<1>4. given \in [seen : Nat, read : BOOLEAN, size : Nat, whole : BOOLEAN]
  BY DEF MGInit, NotGiven
<1>5. Typed
  <2>1. number = 0 /\ call = NoContent("GET")
    BY DEF MGInit
  <2>2. open \in [client : BOOLEAN, server : BOOLEAN] /\ phase \in {"idle", "sent", "aborted"} /\ odd \in BOOLEAN
    BY DEF MGInit
  <2>3. number \in 0 .. MaxCalls /\ ~(number > 0)
    BY <2>1, MessagesAssumption
  <2> QED BY <1>1, <1>2, <1>3, <1>4, <2>1, <2>2, <2>3 DEF Typed
<1>6. open.client = FALSE /\ phase = "idle"
  BY DEF MGInit
<1> QED BY <1>3, <1>5, <1>6 DEF MessagesInv, InStep

(* A call begins on a connection with nothing on its way, or on a new one.  *)
LEMMA SendKeepsStep ==
    ASSUME MessagesInv, NEW c \in Calls, Send(c)
    PROVE  MessagesInv'
<1>1. number \in Nat /\ c \in UserCall
  BY MessagesAssumption DEF MessagesInv, Typed
<1>2. PICK n \in Nat : n = number + 1
  BY <1>1
<1>3. PICK again \in BOOLEAN : again = (open.client /\ (open.server \/ down # <<>>))
  OBVIOUS
<1>4. PICK before : before = IF again THEN up ELSE <<>>
  OBVIOUS
<1>5. /\ phase = "idle" /\ number < MaxCalls
      /\ number' = n /\ call' = c /\ reply' = NoReply /\ given' = NotGiven
      /\ down' = IF again THEN down ELSE <<>>
      /\ odd' = (again /\ odd)
      /\ \/ /\ up' = before \o (<<RequestHead(c, n)>> \o RequestContent(c, n))
            /\ open' = [client |-> TRUE, server |-> again => open.server]
            /\ phase' = "sent"
         \/ /\ up' = before \o <<RequestHead(c, n)>>
            /\ open' = [client |-> FALSE, server |-> again => open.server]
            /\ phase' = "idle"
  BY <1>2, <1>3, <1>4 DEF Send
<1>6. /\ before \in Seq(ToServer(n)) /\ down' \in Seq(ToClient(n))
  <2>1. ToServer(number) \subseteq ToServer(n) /\ ToClient(number) \subseteq ToClient(n)
    BY <1>1, <1>2, UnitsOfLaterCalls
  <2>2. up \in Seq(ToServer(n)) /\ down \in Seq(ToClient(n))
    BY <2>1 DEF MessagesInv, Typed
  <2>3. <<>> \in Seq(ToServer(n)) /\ <<>> \in Seq(ToClient(n))
    BY EmptySeq
  <2> QED BY <1>4, <1>5, <2>2, <2>3
<1>7. PICK head \in ToServer(n), content \in Seq(ToServer(n)) :
         head = RequestHead(c, n) /\ content = RequestContent(c, n)
  <2>1. n \in 0 .. n
    OBVIOUS
  <2> QED BY <1>1, <2>1, RequestTyped
<1>8. up' \in Seq(ToServer(n))
  <2>1. <<head>> \o content \in Seq(ToServer(n)) /\ <<head>> \in Seq(ToServer(n))
    OBVIOUS
  <2>2. up' = before \o (<<head>> \o content) \/ up' = before \o <<head>>
    BY <1>5, <1>7
  <2>3. \A t \in Seq(ToServer(n)) : before \o t \in Seq(ToServer(n))
    BY <1>6, ConcatProperties
  <2> QED BY <2>1, <2>2, <2>3
<1>9. reply'.ok = FALSE /\ reply' \in [ok : BOOLEAN, of : 0 .. n, status : Nat, size : Nat]
  BY <1>5 DEF NoReply
<1>10. given' \in [seen : Nat, read : BOOLEAN, size : Nat, whole : BOOLEAN]
  BY <1>5 DEF NotGiven
<1>11. open' \in [client : BOOLEAN, server : BOOLEAN] /\ phase' \in {"idle", "sent", "aborted"} /\ odd' \in BOOLEAN
  <2>1. PICK server \in BOOLEAN : server = (again => open.server)
    OBVIOUS
  <2>2. open' = [client |-> TRUE, server |-> server] \/ open' = [client |-> FALSE, server |-> server]
    BY <1>5, <2>1
  <2>3. [client |-> TRUE, server |-> server] \in [client : BOOLEAN, server : BOOLEAN]
    OBVIOUS
  <2>4. [client |-> FALSE, server |-> server] \in [client : BOOLEAN, server : BOOLEAN]
    OBVIOUS
  <2>5. open' \in [client : BOOLEAN, server : BOOLEAN]
    BY <2>2, <2>3, <2>4
  <2>6. odd \in BOOLEAN /\ odd' = (again /\ odd) /\ (phase' = "sent" \/ phase' = "idle")
    BY <1>5 DEF MessagesInv, Typed
  <2> QED BY <2>5, <2>6
<1>12. number' \in 0 .. MaxCalls /\ n <= MaxCalls
  BY <1>1, <1>2, <1>5, MessagesAssumption
<1>13. Typed'
  <2>1. call' \in Calls /\ call' \in UserCall /\ number' = n
    BY <1>1, <1>5
  <2> QED BY <1>6, <1>8, <1>9, <1>10, <1>11, <1>12, <2>1 DEF Typed
<1>14. phase' = "idle" /\ open'.client => reply'.ok
  BY <1>5
<1>15. ASSUME ~odd', phase' = "sent" PROVE Unanswered'
  <2>1. up' = before \o (<<head>> \o content) /\ open'.server = (again => open.server)
    BY <1>5, <1>7, <1>15
  <2>2. before = <<>> /\ down' = <<>> /\ (again => open.server)
    <3>1. CASE ~again
      BY <1>4, <1>5, <3>1
    <3>2. CASE again
      <4>1. ~odd /\ open.client
        BY <1>3, <1>5, <1>15, <3>2
      <4>2. (open.server => up = <<>>) /\ down = <<>>
        BY <1>5, <4>1 DEF MessagesInv, InStep, Concluded
      <4>3. open.server
        BY <1>3, <3>2, <4>2
      <4> QED BY <1>4, <1>5, <3>2, <4>2, <4>3
    <3> QED BY <3>1, <3>2
  <2>3. up' = <<head>> \o content
    <3>1. <<head>> \o content \in Seq(ToServer(n))
      OBVIOUS
    <3> QED BY <2>1, <2>2, <3>1, ConcatEmptySeq
  <2>4. RequestHead(c, n) = RequestHead(call, number)' /\ RequestContent(c, n) = RequestContent(call, number)'
    BY <1>5
  <2>5. open'.server
    BY <2>1, <2>2
  <2> QED BY <1>7, <2>2, <2>3, <2>4, <2>5 DEF Unanswered
<1>16. ~odd' => InStep'
  BY <1>9, <1>15 DEF InStep
<1> QED BY <1>13, <1>14, <1>16 DEF MessagesInv

(* Serve preserves it: what is written answers the call.                   *)
LEMMA ServeKeepsStep ==
    ASSUME MessagesInv, NEW h \in Handlings, Serve(h)
    PROVE  MessagesInv'
<1> DEFINE r     == up[1]
           s     == Drop(up, 1)
           route == Routing(r, s, h)
<1>1. number \in Nat /\ call \in UserCall /\ up \in Seq(ToServer(number)) /\ down \in Seq(ToClient(number))
      /\ h \in Handling
  BY MessagesAssumption DEF MessagesInv, Typed
<1>2. /\ r \in Requests(number) /\ s \in Seq(ToServer(number))
      /\ \E w, before, rest, closes :
            Write(w, route, before, rest, closes) /\ ServedAnswer(h, r, s, w, before, rest, closes)
  BY <1>1, ServeWrites
<1>3. odd' = (odd \/ OddExchange(call, h)) /\ open.server /\ up # <<>>
  BY DEF Serve
<1>4. route.handler \in BOOLEAN /\ route.read \in BOOLEAN /\ route.in.ok \in BOOLEAN /\ route.in.size \in Nat
  BY <1>1, <1>2, RoutingTyped
<1>5. r.of \in 0 .. number
  BY <1>2 DEF Requests
(* Only a request on its way alone is served while the client waits.       *)
<1>6. ASSUME ~odd'
      PROVE  /\ phase = "idle" => ~reply.ok
             /\ phase = "sent" => /\ r = RequestHead(call, number) /\ s = RequestContent(call, number)
                                  /\ down = <<>>
  <2>1. InStep
    BY <1>3, <1>6 DEF MessagesInv
  <2>2. phase = "idle" => ~reply.ok
    BY <1>3, <2>1 DEF InStep, Concluded
  <2>3. ASSUME phase = "sent" PROVE Unanswered
    BY <1>3, <2>1, <2>3 DEF InStep, Answered
  <2>4. ASSUME phase = "sent" PROVE r = RequestHead(call, number) /\ s = RequestContent(call, number)
    <3>1. number \in 0 .. number
      BY <1>1
    <3>2. PICK head \in ToServer(number), content \in Seq(ToServer(number)) :
             head = RequestHead(call, number) /\ content = RequestContent(call, number)
      BY <1>1, <3>1, RequestTyped
    <3>3. up = <<head>> \o content
      BY <2>3, <2>4, <3>2 DEF Unanswered
    <3>4. (<<head>> \o content)[1] = head /\ Drop(<<head>> \o content, 1) = content
      BY DropOne
    <3> QED BY <3>2, <3>3, <3>4
  <2> QED BY <2>2, <2>3, <2>4 DEF Unanswered
<1>7. odd' \in BOOLEAN
  BY <1>3
<1> HIDE DEF r, s, route
<1>8. PICK w, before, rest, closes :
         Write(w, route, before, rest, closes) /\ ServedAnswer(h, r, s, w, before, rest, closes)
  BY <1>2
<1>9. CASE ~w.asserts
  <2>1. phase' = "aborted" /\ UNCHANGED <<up, down, open, call, number, reply, given>>
    BY <1>8, <1>9 DEF Write
  <2>2. Typed'
    BY <1>7, <2>1 DEF MessagesInv, Typed
  <2> QED BY <2>1, <2>2 DEF MessagesInv, InStep
<1>10. CASE w.asserts
  <2>1. PICK n \in IF w.fails THEN 0 .. Len(w.units) - 1 ELSE {Len(w.units)} :
           /\ Deliver(before \o <<w.head>> \o SubSeq(w.units, 1, n), rest, closes \/ w.fails)
           /\ given' = [seen |-> route.in.size, read |-> route.handler /\ route.read /\ route.in.ok,
                        size |-> ContentSize(w.units), whole |-> ~w.fails]
    BY <1>8, <1>10 DEF Write
  <2>2. PICK u : u = SubSeq(w.units, 1, n)
    OBVIOUS
  <2>3. PICK z \in BOOLEAN : z = ~(closes \/ w.fails)
    OBVIOUS
  <2>4. /\ down' = down \o (before \o <<w.head>> \o u) /\ up' \in ReadAhead(rest)
        /\ open' = [open EXCEPT !.server = z]
        /\ UNCHANGED <<phase, call, number, reply>>
    BY <2>1, <2>2, <2>3 DEF Deliver
  <2>5. /\ w.head \in AnswerHeads(number) /\ w.head.of = r.of /\ w.head.status \in Statuses
        /\ w.units \in Seq(ContentUnit(number)) /\ w.fails \in BOOLEAN
    BY <1>8, <1>10 DEF ServedAnswer, TypedAnswer
  <2>6. before \in Seq(AnswerHeads(number)) /\ rest \in Seq(ToServer(number)) /\ closes \in BOOLEAN
    BY <1>8 DEF ServedAnswer
  <2>7. u \in Seq(ContentUnit(number))
    <3>1. Len(w.units) \in Nat
      BY <2>5
    <3>2. n \in 0 .. Len(w.units)
      BY <2>5, <3>1
    <3>3. \A i \in 1 .. n : w.units[i] \in ContentUnit(number)
      BY <2>5, <3>1, <3>2
    <3> QED BY <2>2, <2>5, <3>1, <3>2, <3>3
  <2>8. AnswerHeads(number) \subseteq ToClient(number) /\ ContentUnit(number) \subseteq ToClient(number)
    BY DEF ToClient
  <2>9. before \in Seq(ToClient(number)) /\ w.head \in ToClient(number) /\ u \in Seq(ToClient(number))
    BY <2>5, <2>6, <2>7, <2>8
  <2>10. PICK out \in Seq(ToClient(number)) : out = before \o <<w.head>> \o u
    <3>1. before \o <<w.head>> \in Seq(ToClient(number))
      BY <2>9
    <3> QED BY <2>9, <3>1, ConcatProperties
  <2>11. down' \in Seq(ToClient(number))
    BY <1>1, <2>4, <2>10, ConcatProperties
  <2>12. up' \in Seq(ToServer(number)) /\ (rest = <<>> => up' = <<>>)
    BY <2>4, <2>6, ReadAheadProperties
  <2>13. open' \in [client : BOOLEAN, server : BOOLEAN] /\ open'.client = open.client /\ open'.server = z
    BY <2>4 DEF MessagesInv, Typed
  <2>14. ContentSize(w.units) \in Nat
    <3>1. Len(w.units) \in Nat /\ (w.units # <<>> => Len(w.units) - 1 \in Nat)
      BY <2>5, EmptySeq
    <3> QED BY <3>1 DEF ContentSize
  <2>15. given' \in [seen : Nat, read : BOOLEAN, size : Nat, whole : BOOLEAN]
    <3>1. PICK read \in BOOLEAN : read = (route.handler /\ route.read /\ route.in.ok)
      OBVIOUS
    <3>2. PICK whole \in BOOLEAN : whole = ~w.fails
      OBVIOUS
    <3>3. given' = [seen |-> route.in.size, read |-> read, size |-> ContentSize(w.units), whole |-> whole]
      BY <2>1, <3>1, <3>2
    <3> QED BY <1>4, <2>14, <3>3
  <2>16. Typed'
    BY <1>7, <2>4, <2>11, <2>12, <2>13, <2>15 DEF MessagesInv, Typed
  <2>17. phase' = "idle" /\ open'.client => reply'.ok
    BY <2>4, <2>13 DEF MessagesInv
  <2>18. ASSUME ~odd', phase' = "sent" PROVE Answered'
    <3>1. phase = "sent" /\ ~OddExchange(call, h)
      BY <1>3, <2>4, <2>18
    <3>2. r = RequestHead(call, number) /\ s = RequestContent(call, number) /\ down = <<>>
      BY <1>6, <2>18, <3>1
    <3>3. /\ FittingAnswer(w, r)
          /\ closes \/ rest = <<>>
          /\ before = <<>> \/ \E a \in AnswerHeads(number) : before = <<a>> /\ a.status = 100
      BY <1>8, <3>1, <3>2 DEF ServedAnswer
    <3>4. open'.server => up' = <<>>
      BY <2>3, <2>12, <2>13, <3>3
    <3>5. Answers' = <<w.head>> \o u
      <4>1. down' = before \o <<w.head>> \o u
        <5>1. <<>> \o out = out
          BY ConcatEmptySeq
        <5> QED BY <2>4, <2>10, <3>2, <5>1
      <4>2. OneContinue(before, ToClient(number))
        BY <2>8, <3>3 DEF AnswerHeads, OneContinue
      <4>3. w.head.status # 100
        <5>1. PICK status : status = w.head.status
          OBVIOUS
        <5>2. status \in Statuses
          BY <2>5, <5>1
        <5>3. status # 100
          BY <5>2 DEF Statuses
        <5> QED BY <5>1, <5>3
      <4>4. PICK d : d = down'
        OBVIOUS
      <4>5. AnswersIn(d) = <<w.head>> \o u
        <5>1. PICK a \in ToClient(number) : a = w.head
          BY <2>9
        <5>2. before \in Seq(ToClient(number)) /\ u \in Seq(ToClient(number))
          BY <2>9
        <5>3. d = before \o <<a>> \o u /\ a.status # 100
          BY <4>1, <4>3, <4>4, <5>1
        <5>4. AnswersIn(d) = <<a>> \o u
          BY <4>2, <5>2, <5>3, AnswerBehindContinue
        <5> QED BY <5>1, <5>4
      <4> QED BY <4>4, <4>5 DEF Answers, Continues, AnswersIn
    <3>6. Answers' # <<>> /\ Answers'[1] = w.head /\ Drop(Answers', 1) = u
      BY <2>9, <3>5, DropOne
    <3>7. w.head.of = number /\ r.method = call.method
      BY <2>5, <3>2 DEF RequestHead
    <3>8. Fits(call.method, w.head, u, ~w.fails, ContentSize(w.units))
      BY <1>10, <2>2, <3>3, <3>7 DEF FittingAnswer
    <3>9. given'.whole = ~w.fails /\ given'.size = ContentSize(w.units)
      BY <2>1
    <3>10. given'.read => given'.seen = call.size
      <4>1. given'.read = (route.handler /\ route.read /\ route.in.ok) /\ given'.seen = route.in.size
        BY <2>1
      <4>3. route.read /\ route.in.ok => route.in.size = call.size
        <5>1. route = Routing(RequestHead(call, number), RequestContent(call, number), h)
          BY <3>2 DEF route
        <5> QED BY <1>1, <3>1, <5>1, ContentIsSeen
      <4> QED BY <4>1, <4>3
    <3>11. Fits(call'.method, Answers'[1], Drop(Answers', 1), given'.whole, given'.size)
      BY <2>4, <3>6, <3>8, <3>9
    <3> QED BY <2>4, <2>5, <3>4, <3>6, <3>7, <3>10, <3>11 DEF Answered
  <2>19. ~odd' => InStep'
    <3>1. ASSUME ~odd' PROVE ~(phase' = "idle" /\ reply'.ok)
      BY <1>6, <2>4, <3>1
    <3> QED BY <2>18, <3>1 DEF InStep
  <2> QED BY <2>16, <2>17, <2>19 DEF MessagesInv
<1> QED BY <1>9, <1>10

(* What does not begin with a head is left over from an odd exchange, or of *)
(* a connection that the client has closed.                                 *)
LEMMA ServeRubbishKeepsStep ==
    ASSUME MessagesInv, ServeRubbish
    PROVE  MessagesInv'
<1>1. number \in Nat /\ call \in UserCall /\ up \in Seq(ToServer(number)) /\ down \in Seq(ToClient(number))
  BY MessagesAssumption DEF MessagesInv, Typed
<1>2. open.server /\ up # <<>> /\ up[1].unit # "head" /\ UNCHANGED <<given, odd>>
  BY DEF ServeRubbish
<1>3. \/ \E i \in LineEnds(up), last \in BOOLEAN : Deliver(<<Answer(400, 0, 0, FALSE, last)>>, StopAt(up, i), last)
      \/ Deliver(<<>>, <<>>, TRUE)
  BY DEF ServeRubbish
<1>4. <<>> \in Seq(ToServer(number)) /\ <<>> \in Seq(ToClient(number))
  BY EmptySeq
<1>6. PICK out \in Seq(ToClient(number)), rest \in Seq(ToServer(number)), z \in BOOLEAN :
         /\ down' = down \o out /\ up' \in ReadAhead(rest)
         /\ open' = [open EXCEPT !.server = z] /\ UNCHANGED <<phase, call, number, reply>>
  <2>1. ASSUME NEW i \in LineEnds(up), NEW last \in BOOLEAN, Deliver(<<Answer(400, 0, 0, FALSE, last)>>, StopAt(up, i), last)
        PROVE  \E out \in Seq(ToClient(number)), rest \in Seq(ToServer(number)), z \in BOOLEAN :
                  /\ down' = down \o out /\ up' \in ReadAhead(rest)
                  /\ open' = [open EXCEPT !.server = z] /\ UNCHANGED <<phase, call, number, reply>>
    <3>1. PICK a : a = Answer(400, 0, 0, FALSE, last)
      OBVIOUS
    <3>2. a \in AnswerHeads(number)
      BY <1>1, <3>1 DEF Answer, AnswerHeads
    <3>3. <<a>> \in Seq(ToClient(number))
      BY <3>2 DEF ToClient
    <3>4. PICK z \in BOOLEAN : z = ~last
      OBVIOUS
    <3>5. i \in 1 .. Len(up)
      BY DEF LineEnds
    <3>6. PICK rest \in Seq(ToServer(number)) : rest = StopAt(up, i)
      BY <1>1, <3>5, StopAtTyped
    <3>7. /\ down' = down \o <<a>> /\ up' \in ReadAhead(rest)
          /\ open' = [open EXCEPT !.server = z] /\ UNCHANGED <<phase, call, number, reply>>
      BY <2>1, <3>1, <3>4, <3>6 DEF Deliver
    <3> QED BY <3>3, <3>7
  <2>2. CASE Deliver(<<>>, <<>>, TRUE)
    <3>1. PICK z \in BOOLEAN : z = ~TRUE
      OBVIOUS
    <3>2. /\ down' = down \o <<>> /\ up' \in ReadAhead(<<>>)
          /\ open' = [open EXCEPT !.server = z] /\ UNCHANGED <<phase, call, number, reply>>
      BY <2>2, <3>1 DEF Deliver
    <3> QED BY <1>4, <3>2
  <2> QED BY <1>3, <2>1, <2>2
<1>7. down' \in Seq(ToClient(number))
  BY <1>1, <1>6, ConcatProperties
<1>8. up' \in Seq(ToServer(number))
  BY <1>6, ReadAheadProperties
<1>9. open' \in [client : BOOLEAN, server : BOOLEAN] /\ open'.client = open.client
  BY <1>6 DEF MessagesInv, Typed
<1>10. Typed'
  BY <1>2, <1>6, <1>7, <1>8, <1>9 DEF MessagesInv, Typed
<1>11. ~odd' => ~(phase = "sent") /\ ~(phase = "idle" /\ reply.ok)
  <2>1. ASSUME ~odd, phase = "sent" PROVE FALSE
    <3>1. Unanswered
      BY <1>2, <2>1 DEF MessagesInv, InStep, Answered
    <3>2. number \in 0 .. number
      BY <1>1
    <3>3. PICK head \in ToServer(number), content \in Seq(ToServer(number)) :
             head = RequestHead(call, number) /\ content = RequestContent(call, number)
      BY <1>1, <3>2, RequestTyped
    <3>4. up = <<head>> \o content
      BY <3>1, <3>3 DEF Unanswered
    <3>5. up[1] = head
      BY <3>4, DropOne
    <3> QED BY <1>2, <3>3, <3>5 DEF RequestHead
  <2>2. ASSUME ~odd, phase = "idle", reply.ok PROVE FALSE
    BY <1>2, <2>2 DEF MessagesInv, InStep, Concluded
  <2> QED BY <1>2, <2>1, <2>2
<1> QED BY <1>6, <1>9, <1>10, <1>11 DEF MessagesInv, InStep

(* A server that closes an idle connection preserves it.                   *)
LEMMA IdleCloseKeepsStep ==
    ASSUME MessagesInv, IdleClose
    PROVE  MessagesInv'
<1>1. /\ open.server /\ up = <<>> /\ open' = [open EXCEPT !.server = FALSE]
      /\ UNCHANGED <<up, down, phase, call, number, reply, given, odd>>
  BY DEF IdleClose
<1>2. PICK z \in BOOLEAN : z = FALSE
  OBVIOUS
<1>3. open' = [open EXCEPT !.server = z]
  BY <1>1, <1>2
<1>4. open' \in [client : BOOLEAN, server : BOOLEAN] /\ open'.client = open.client /\ ~open'.server
  BY <1>2, <1>3 DEF MessagesInv, Typed
<1>5. Typed'
  BY <1>1, <1>4 DEF MessagesInv, Typed
<1>6. ~Unanswered \/ phase # "sent" \/ odd
  <2>1. ASSUME Unanswered PROVE FALSE
    <3>1. number \in Nat /\ call \in UserCall /\ number \in 0 .. number
      BY MessagesAssumption DEF MessagesInv, Typed
    <3>2. PICK head \in ToServer(number), content \in Seq(ToServer(number)) :
             head = RequestHead(call, number) /\ content = RequestContent(call, number)
      BY <3>1, RequestTyped
    <3>3. up = <<head>> \o content
      BY <2>1, <3>2 DEF Unanswered
    <3>4. <<head>> \o content # <<>>
      BY DropOne
    <3> QED BY <1>1, <3>3, <3>4
  <2> QED BY <2>1
<1>7. Answers' = Answers
  BY <1>1 DEF Answers, Continues
<1>8. Answered => Answered'
  BY <1>1, <1>4, <1>7 DEF Answered
<1>9. Concluded => Concluded'
  BY <1>1, <1>4 DEF Concluded
<1> QED BY <1>1, <1>4, <1>5, <1>6, <1>8, <1>9 DEF MessagesInv, InStep

(* Receive preserves it: what fits is read whole, and nothing is left.     *)
LEMMA ReceiveKeepsStep ==
    ASSUME MessagesInv, Receive
    PROVE  MessagesInv'
<1>1. number \in Nat /\ down \in Seq(ToClient(number)) /\ phase = "sent"
  BY MessagesAssumption DEF MessagesInv, Typed, Receive
<1>2. Answers \in Seq(ToClient(number)) /\ (down = <<>> => Answers = <<>>)
  <2>1. Answers = AnswersIn(down)
    BY DEF Answers, Continues, AnswersIn
  <2> QED BY <1>1, <2>1, AnswersProperties
<1>3. CASE Finish(NoReply, TRUE, <<>>)
  <2>1. PICK z \in BOOLEAN : z = ~TRUE
    OBVIOUS
  <2>2. /\ reply' = NoReply /\ phase' = "idle" /\ open' = [open EXCEPT !.client = z]
        /\ down' \in ReadAhead(<<>>) /\ UNCHANGED <<up, call, number, given, odd>>
    BY <1>3, <2>1 DEF Finish
  <2>3. down' \in Seq(ToClient(number))
    <3>1. <<>> \in Seq(ToClient(number))
      BY EmptySeq
    <3> QED BY <2>2, <3>1, ReadAheadProperties
  <2>4. open' \in [client : BOOLEAN, server : BOOLEAN] /\ ~open'.client
    BY <2>1, <2>2 DEF MessagesInv, Typed
  <2>5. reply' \in [ok : BOOLEAN, of : 0 .. number, status : Nat, size : Nat] /\ ~reply'.ok
    BY <1>1, <2>2 DEF NoReply
  <2>6. Typed'
    BY <2>2, <2>3, <2>4, <2>5 DEF MessagesInv, Typed
  <2> QED BY <2>2, <2>4, <2>5, <2>6 DEF MessagesInv, InStep
<1>4. CASE /\ Answers # <<>> /\ Answers[1].unit = "head"
           /\ LET a == Answers[1]
                  b == ReadAnswer(a, Drop(Answers, 1))
              IN  b.ok /\ Finish([ok |-> TRUE, of |-> a.of, status |-> a.status, size |-> b.size], a.close, b.rest)
  <2>1. PICK a : a = Answers[1]
    OBVIOUS
  <2>2. PICK u : u = Drop(Answers, 1)
    OBVIOUS
  <2>3. PICK b : b = ReadAnswer(a, u)
    OBVIOUS
  <2>4. PICK z \in BOOLEAN : z = ~a.close
    OBVIOUS
  <2>5. /\ a.unit = "head" /\ b.ok /\ phase' = "idle" /\ open' = [open EXCEPT !.client = z]
        /\ reply' = [ok |-> TRUE, of |-> a.of, status |-> a.status, size |-> b.size]
        /\ down' \in ReadAhead(b.rest) /\ UNCHANGED <<up, call, number, given, odd>>
    BY <1>4, <2>1, <2>2, <2>3, <2>4 DEF Finish
  <2>6. a \in AnswerHeads(number) /\ u \in Seq(ToClient(number))
    <3>1. 1 \in 0 .. Len(Answers) /\ a \in ToClient(number)
      BY <1>2, <1>4, <2>1
    <3>2. a \in AnswerHeads(number)
      BY <1>1, <2>5, <3>1, UnitForms
    <3> QED BY <1>2, <2>2, <3>1, <3>2, DropProperties
  <2>7. b.size \in Nat /\ b.rest \in Seq(ToClient(number))
    BY <1>1, <2>3, <2>6, ReadAnswerTyped
  <2>8. down' \in Seq(ToClient(number)) /\ (b.rest = <<>> => down' = <<>>)
    BY <2>5, <2>7, ReadAheadProperties
  <2>9. open' \in [client : BOOLEAN, server : BOOLEAN] /\ open'.server = open.server
    BY <2>5 DEF MessagesInv, Typed
  <2>10. reply' \in [ok : BOOLEAN, of : 0 .. number, status : Nat, size : Nat] /\ reply'.ok
    <3>1. a.of \in 0 .. number /\ a.status \in Nat
      BY <2>6 DEF AnswerHeads
    <3> QED BY <2>5, <2>7, <3>1
  <2>11. Typed'
    BY <2>5, <2>8, <2>9, <2>10 DEF MessagesInv, Typed
  <2>12. ASSUME ~odd' PROVE Concluded'
    <3>1. Answered
      BY <1>1, <1>2, <1>4, <2>5, <2>12 DEF MessagesInv, InStep, Unanswered
    <3>2. a.of = number /\ Fits(call.method, a, u, given.whole, given.size)
      BY <2>1, <2>2, <3>1 DEF Answered
    <3>3. PICK whole \in BOOLEAN : whole = given.whole
      BY DEF MessagesInv, Typed
    <3>4. PICK size : size = given.size
      OBVIOUS
    <3>6. b.rest = <<>> /\ whole /\ b.size = size
      BY <1>1, <2>3, <2>5, <2>6, <3>2, <3>3, <3>4, ReadAnswerFits
    <3>7. reply'.of = number /\ reply'.size = given.size
      BY <2>5, <3>2, <3>4, <3>6
    <3>8. open.server => up = <<>>
      BY <3>1 DEF Answered
    <3>9. given.read => given.seen = call.size
      BY <3>1 DEF Answered
    <3> QED BY <2>5, <2>8, <2>9, <3>3, <3>6, <3>7, <3>8, <3>9 DEF Concluded
  <2> QED BY <2>5, <2>10, <2>11, <2>12 DEF MessagesInv, InStep
<1> QED BY <1>3, <1>4 DEF Receive

(* Every step preserves it.                                                *)
LEMMA NextMessagesInv == MessagesInv /\ [MGNext]_MGvars => MessagesInv'
<1> SUFFICES ASSUME MessagesInv, [MGNext]_MGvars PROVE MessagesInv'
  OBVIOUS
<1>1. ASSUME NEW c \in Calls, Send(c) PROVE MessagesInv'
  BY <1>1, SendKeepsStep
<1>2. ASSUME NEW h \in Handlings, Serve(h) PROVE MessagesInv'
  BY <1>2, ServeKeepsStep
<1>3. ASSUME ServeRubbish PROVE MessagesInv'
  BY <1>3, ServeRubbishKeepsStep
<1>4. ASSUME IdleClose PROVE MessagesInv'
  BY <1>4, IdleCloseKeepsStep
<1>5. ASSUME Receive PROVE MessagesInv'
  BY <1>5, ReceiveKeepsStep
<1>6. ASSUME UNCHANGED MGvars PROVE MessagesInv'
  <2>1. UNCHANGED <<up, down, open, phase, call, number, reply, given, odd>>
    BY <1>6 DEF MGvars
  <2>2. Answers' = Answers
    BY <2>1 DEF Answers, Continues
  <2>3. (Typed => Typed') /\ (Unanswered => Unanswered') /\ (Answered => Answered') /\ (Concluded => Concluded')
    BY <2>1, <2>2 DEF Typed, Unanswered, Answered, Concluded
  <2> QED BY <2>1, <2>3 DEF MessagesInv, InStep
<1> QED BY <1>1, <1>2, <1>3, <1>4, <1>5, <1>6 DEF MGNext

(* Typed, and on the way is what the state of the call says: nothing before *)
(* it, its request, its answer, or nothing again once it is concluded.      *)
THEOREM MessagesInvHolds == MGSpec => []MessagesInv
BY InitMessagesInv, NextMessagesInv, PTL DEF MGSpec

(* Between two calls, nothing is on its way over a connection that both     *)
(* sides keep, whatever was asked for and however it was answered, but for  *)
(* the exchanges of OddExchange.                                            *)
THEOREM KeptConnectionIsInStepHolds == MGSpec => []KeptConnectionIsInStep
<1>1. MessagesInv => KeptConnectionIsInStep
  BY DEF MessagesInv, InStep, Concluded, KeptConnectionIsInStep
<1> QED BY <1>1, MessagesInvHolds, PTL

(* What the client reports is the answer to its call, and all of it; the    *)
(* handler saw all of the call.                                             *)
THEOREM AnswersAreSoundHolds == MGSpec => []AnswersAreSound
<1>1. MessagesInv => MGTypeOK
  BY TypedUnits DEF MessagesInv
<1>2. MessagesInv => AnswersAreWhole
  BY DEF MessagesInv, InStep, Concluded, AnswersAreWhole
<1> QED BY <1>1, <1>2, MessagesInvHolds, PTL DEF AnswersAreSound

-----------------------------------------------------------------------------
(* Byte ranges                                                             *)

(* A range a client can write: -1 stands for the position it leaves out.   *)
Positions == {p \in Int : p >= -1}

LEMMA IntervalEnds ==
    ASSUME NEW a \in Nat, NEW b \in Nat, a <= b
    PROVE  Min(a .. b) = a /\ Max(a .. b) = b
<1>1. Min(a .. b) \in a .. b /\ \A y \in a .. b : Min(a .. b) <= y
  <2>1. a .. b \subseteq Nat /\ a .. b # {}
    OBVIOUS
  <2>. QED BY <2>1, LeastElement, Zenon
<1>2. Max(a .. b) \in a .. b /\ \A y \in a .. b : y <= Max(a .. b)
  <2>1. a .. b \subseteq 0 .. b /\ a .. b # {}
    OBVIOUS
  <2>. QED BY <2>1, GreatestElement, Zenon
<1>3. PICK m \in a .. b : m = Min(a .. b)
  BY <1>1
<1>4. PICK n \in a .. b : n = Max(a .. b)
  BY <1>2
<1>5. a \in a .. b /\ b \in a .. b
  OBVIOUS
<1>6. m <= a /\ b <= n
  BY <1>1, <1>2, <1>3, <1>4, <1>5
<1>. QED BY <1>3, <1>4, <1>6

(* The server normalises a valid range to the positions it selects, or it  *)
(* cannot serve it: then it selects nothing, or is a suffix too long.      *)
LEMMA NormalisedSelects ==
    ASSUME NEW a \in Positions, NEW b \in Positions, NEW len \in Nat, RangeSpecValid(a, b),
           NEW r, r = <<a, b>>
    PROVE  \E x \in Int, y \in Int :
             /\ Normalised(r, len) = <<x, y>>
             /\ 0 <= x /\ x <= y /\ y <= len - 1 => Selected(r, len) = x .. y
             /\ ~(0 <= x /\ x <= y /\ y <= len - 1) => Selected(r, len) = {} \/ SuffixTooLong(r, len)
<1>1. r[1] = a /\ r[2] = b
  OBVIOUS
<1>2. CASE a = -1
  <2>1. b \in Nat /\ b # -1
    BY <1>2 DEF RangeSpecValid, Positions
  <2>2. Normalised(r, len) = <<len - b, len - 1>>
    BY <1>1, <1>2, <2>1 DEF Normalised
  <2>3. Selected(r, len) = {p \in 0 .. len - 1 : p >= len - b}
    BY <1>1, <1>2 DEF Selected
  <2>4. SuffixTooLong(r, len) <=> b > len
    BY <1>1, <1>2 DEF SuffixTooLong
  <2>5. PICK x \in Int, y \in Int : x = len - b /\ y = len - 1
    BY <2>1
  <2>6. ASSUME 0 <= x PROVE Selected(r, len) = x .. y
    <3>1. \A p : p \in 0 .. len - 1 /\ p >= len - b <=> p \in x .. y
      BY <2>5, <2>6
    <3>. QED BY <2>3, <3>1
  <2>7. ~(0 <= x /\ x <= y /\ y <= len - 1) => Selected(r, len) = {} \/ SuffixTooLong(r, len)
    BY <2>1, <2>3, <2>4, <2>5
  <2>. QED BY <2>2, <2>5, <2>6, <2>7
<1>3. CASE a # -1
  <2>1. a \in Nat /\ b \in Int
    BY <1>3 DEF Positions
  <2>2. PICK y \in Int : y = IF b = -1 \/ b >= len THEN len - 1 ELSE b
    BY <2>1
  <2>3. Normalised(r, len) = <<a, y>>
    BY <1>1, <1>3, <2>1, <2>2 DEF Normalised
  <2>4. Selected(r, len) = {p \in 0 .. len - 1 : p >= a /\ (b = -1 \/ p <= b)}
    BY <1>1, <1>3 DEF Selected
  <2>5. Selected(r, len) = a .. y
    <3>1. \A p : p \in 0 .. len - 1 /\ p >= a /\ (b = -1 \/ p <= b) <=> p \in a .. y
      BY <2>1, <2>2 DEF Positions
    <3>. QED BY <2>4, <3>1
  <2>6. ~(0 <= a /\ a <= y /\ y <= len - 1) => Selected(r, len) = {}
    BY <2>1, <2>2, <2>4
  <2>. QED BY <2>1, <2>3, <2>5, <2>6
<1>. QED BY <1>2, <1>3

(* The list is read as it was written. *)
LEMMA RangesAreRead ==
    ASSUME NEW ranges \in Seq(Positions \X Positions)
    PROVE  /\ ParseRangeHeader(RangeHeader(ranges)).ranges = ranges
           /\ ParseRangeHeader(RangeHeader(ranges)).ok =>
                ranges # <<>> /\ \A i \in 1 .. Len(ranges) : RangeSpecValid(ranges[i][1], ranges[i][2])
<1>. DEFINE written(p) == IF p = -1 THEN <<>> ELSE <<p>>
            position(p) == IF p = <<>> THEN -1 ELSE p[1]
            header == RangeHeader(ranges)
            parsed == [i \in 1 .. Len(header) |-> <<position(header[i].first), position(header[i].last)>>]
            valid  == Len(header) > 0 /\ \A i \in 1 .. Len(header) : RangeSpecValid(parsed[i][1], parsed[i][2])
<1>1. /\ Len(ranges) \in Nat /\ ranges \in [1 .. Len(ranges) -> Positions \X Positions]
  OBVIOUS
<1>2. header = [i \in 1 .. Len(ranges) |-> [first |-> written(ranges[i][1]), last |-> written(ranges[i][2])]]
  BY DEF RangeHeader
<1>3. Len(header) = Len(ranges)
  BY <1>1, <1>2
<1>4. \A p \in Positions : position(written(p)) = p
  BY DEF Positions
<1>5. ASSUME NEW i \in 1 .. Len(ranges) PROVE parsed[i] = ranges[i]
  <2>1. PICK a \in Positions, b \in Positions : ranges[i] = <<a, b>>
    BY <1>1
  <2>2. header[i] = [first |-> written(a), last |-> written(b)]
    BY <1>2, <2>1
  <2>. HIDE DEF header, written, position
  <2>3. parsed[i] = <<position(header[i].first), position(header[i].last)>>
    BY <1>3
  <2>. QED BY <1>4, <2>1, <2>2, <2>3
<1>6. parsed = ranges
  <2>1. parsed = [i \in 1 .. Len(ranges) |-> parsed[i]]
    BY <1>3
  <2>2. ranges = [i \in 1 .. Len(ranges) |-> ranges[i]]
    BY <1>1
  <2>. HIDE DEF parsed
  <2>. QED BY <1>5, <2>1, <2>2
<1>7. ParseRangeHeader(header) = [ok |-> valid, ranges |-> parsed]
  BY DEF ParseRangeHeader
<1>. HIDE DEF parsed, header, valid
<1>8. ParseRangeHeader(header).ranges = ranges
  BY <1>6, <1>7
<1>9. ParseRangeHeader(header).ok =>
        Len(ranges) > 0 /\ \A i \in 1 .. Len(ranges) : RangeSpecValid(ranges[i][1], ranges[i][2])
  <2>1. ParseRangeHeader(header).ok =>
          Len(header) > 0 /\ \A i \in 1 .. Len(header) : RangeSpecValid(parsed[i][1], parsed[i][2])
    <3>1. ParseRangeHeader(header).ok <=> valid
      BY <1>7
    <3>. QED BY <3>1 DEF valid
  <2>. QED BY <1>3, <1>6, <2>1
<1>. QED BY <1>1, <1>8, <1>9 DEF header

(* What range_error() makes of the ranges of a successful response. *)
LEMMA ServedRanges ==
    ASSUME NEW ranges, ranges # <<>>, Len(ranges) \in Nat, NEW len,
           NEW n, n = [i \in 1 .. Len(ranges) |-> Normalised(ranges[i], len)]
    PROVE  /\ RangeError(ranges, 206, len).ranges = n
           /\ RangeError(ranges, 206, len).error <=>
                  \/ Len(ranges) > RangeMaxCount
                  \/ \E i \in 1 .. Len(ranges) : ~WithinContent(n[i], len)
                  \/ \E i \in 2 .. Len(ranges) : n[i][1] <= n[i - 1][1]
                  \/ Cardinality(Overlapping(n)) > 2
<1>1. Len(n) = Len(ranges)
  OBVIOUS
<1>2. 206 \in 200 .. 299
  OBVIOUS
<1>3. RangeError(ranges, 206, len) =
                [error  |-> \/ Len(n) > RangeMaxCount
                            \/ \E i \in 1 .. Len(n) : ~WithinContent(n[i], len)
                            \/ \E i \in 2 .. Len(n) : n[i][1] <= n[i - 1][1]
                            \/ Cardinality(Overlapping(n)) > 2,
                 ranges |-> n]
  BY <1>1, <1>2 DEF RangeError
<1>4. RangeError(ranges, 206, len).ranges = n
  BY <1>3
<1>5. RangeError(ranges, 206, len).error <=>
                  \/ Len(n) > RangeMaxCount
                  \/ \E i \in 1 .. Len(n) : ~WithinContent(n[i], len)
                  \/ \E i \in 2 .. Len(n) : n[i][1] <= n[i - 1][1]
                  \/ Cardinality(Overlapping(n)) > 2
  BY <1>3, SMTT(30)
<1>. QED BY <1>1, <1>4, <1>5

(* Byte ranges, for every list of them and content of every length.  (That *)
(* the list may be too long for the server was left out of RangesAgree     *)
(* until this proof asked for it.)                                         *)
THEOREM RangesAgreeForAll ==
    \A ranges \in Seq(Positions \X Positions), len \in Nat : RangesAgree(ranges, len)
<1>. SUFFICES ASSUME NEW ranges \in Seq(Positions \X Positions), NEW len \in Nat
              PROVE  RangesAgree(ranges, len)
  OBVIOUS
<1>. DEFINE parsed == ParseRangeHeader(RangeHeader(ranges))
            served == RangeError(parsed.ranges, 206, len)
            first(i) == Min(Selected(ranges[i], len))
            last(i)  == Max(Selected(ranges[i], len))
            n == [i \in 1 .. Len(ranges) |-> Normalised(ranges[i], len)]
<1>1. parsed.ranges = ranges
  BY RangesAreRead
<1>2. ASSUME parsed.ok
      PROVE  /\ ranges # <<>> /\ Len(ranges) \in Nat
             /\ \A i \in 1 .. Len(ranges) : \E a \in Positions, b \in Positions :
                   ranges[i] = <<a, b>> /\ RangeSpecValid(a, b)
  <2>1. ranges # <<>> /\ \A i \in 1 .. Len(ranges) : RangeSpecValid(ranges[i][1], ranges[i][2])
    BY <1>2, RangesAreRead
  <2>2. \A i \in 1 .. Len(ranges) : \E a \in Positions, b \in Positions : ranges[i] = <<a, b>>
    OBVIOUS
  <2>. QED BY <2>1, <2>2
<1>3. ASSUME ranges # <<>>
      PROVE  /\ served.ranges = n
             /\ served.error <=>
                  \/ Len(ranges) > RangeMaxCount
                  \/ \E i \in 1 .. Len(ranges) : ~WithinContent(n[i], len)
                  \/ \E i \in 2 .. Len(ranges) : n[i][1] <= n[i - 1][1]
                  \/ Cardinality(Overlapping(n)) > 2
  <2>1. Len(ranges) \in Nat
    OBVIOUS
  <2>2. served = RangeError(ranges, 206, len)
    BY <1>1
  <2>3. /\ RangeError(ranges, 206, len).ranges = n
        /\ RangeError(ranges, 206, len).error <=>
             \/ Len(ranges) > RangeMaxCount
             \/ \E i \in 1 .. Len(ranges) : ~WithinContent(n[i], len)
             \/ \E i \in 2 .. Len(ranges) : n[i][1] <= n[i - 1][1]
             \/ Cardinality(Overlapping(n)) > 2
    BY <1>3, <2>1, ServedRanges
  <2>. HIDE DEF served, n
  <2>. QED BY <2>2, <2>3
<1>4. ASSUME parsed.ok, NEW i \in 1 .. Len(ranges)
      PROVE  /\ WithinContent(n[i], len) =>
                  /\ RangeAsserted(n[i], len)
                  /\ n[i][1] \in Nat /\ n[i][2] \in Nat /\ n[i][1] <= n[i][2]
                  /\ Selected(ranges[i], len) = n[i][1] .. n[i][2]
                  /\ first(i) = n[i][1] /\ last(i) = n[i][2]
             /\ ~WithinContent(n[i], len) =>
                  Selected(ranges[i], len) = {} \/ SuffixTooLong(ranges[i], len)
  <2>1. PICK a \in Positions, b \in Positions : ranges[i] = <<a, b>> /\ RangeSpecValid(a, b)
    BY <1>2, <1>4
  <2>2. PICK x \in Int, y \in Int :
             /\ Normalised(ranges[i], len) = <<x, y>>
             /\ 0 <= x /\ x <= y /\ y <= len - 1 => Selected(ranges[i], len) = x .. y
             /\ ~(0 <= x /\ x <= y /\ y <= len - 1) =>
                  Selected(ranges[i], len) = {} \/ SuffixTooLong(ranges[i], len)
    BY <2>1, NormalisedSelects, Zenon
  <2>3. n[i] = <<x, y>> /\ n[i][1] = x /\ n[i][2] = y
    BY <2>2
  <2>. HIDE DEF n
  <2>4. WithinContent(n[i], len) <=> 0 <= x /\ x <= y /\ y <= len - 1
    BY <2>3 DEF WithinContent
  <2>5. CASE WithinContent(n[i], len)
    <3>1. x \in Nat /\ y \in Nat /\ x <= y /\ Selected(ranges[i], len) = x .. y
      BY <2>2, <2>4, <2>5
    <3>2. first(i) = x /\ last(i) = y
      BY <3>1, IntervalEnds
    <3>3. RangeAsserted(n[i], len)
      BY <2>3, <2>5, <3>1 DEF RangeAsserted
    <3>. QED BY <2>3, <2>5, <3>1, <3>2, <3>3
  <2>. QED BY <2>2, <2>4, <2>5
<1>5. ASSUME parsed.ok, ~served.error, NEW i \in 1 .. Len(ranges)
      PROVE  /\ RangeAsserted(served.ranges[i], len)
             /\ LET ol == OffsetAndLength(served.ranges[i])
                IN  /\ ol.offset .. ol.offset + ol.length - 1 = Selected(ranges[i], len)
                    /\ ContentRange(ol, len).st = first(i) /\ ContentRange(ol, len).ed = last(i)
  <2>1. served.ranges = n /\ ~served.error
    BY <1>2, <1>3, <1>5
  <2>2. WithinContent(n[i], len)
    BY <1>2, <1>3, <1>5
  <2>3. PICK x \in Nat, y \in Nat : x = n[i][1] /\ y = n[i][2]
    BY <1>4, <1>5, <2>2
  <2>4. /\ RangeAsserted(n[i], len) /\ x <= y
        /\ Selected(ranges[i], len) = x .. y /\ first(i) = x /\ last(i) = y
    BY <1>4, <1>5, <2>2, <2>3
  <2>. HIDE DEF n, served, first, last
  <2>5. OffsetAndLength(n[i]) = [offset |-> x, length |-> (y - x) + 1]
    BY <2>3 DEF OffsetAndLength
  <2>6. x .. x + ((y - x) + 1) - 1 = x .. y /\ x + ((y - x) + 1) - 1 = y
    OBVIOUS
  <2>. QED BY <2>1, <2>4, <2>5, <2>6 DEF ContentRange
<1>6. ASSUME parsed.ok, served.error
      PROVE  \/ Len(ranges) > RangeMaxCount
             \/ \E i \in 1 .. Len(ranges) : Selected(ranges[i], len) = {} \/ SuffixTooLong(ranges[i], len)
             \/ \E i \in 2 .. Len(ranges) : first(i) <= first(i - 1)
             \/ Cardinality({i \in 1 .. Len(ranges) : \E j \in 1 .. i - 1 : first(i) <= last(j)}) > 2
  <2>1. Len(n) = Len(ranges) /\ Len(ranges) \in Nat
    BY <1>2, <1>6 DEF n
  <2>. SUFFICES ASSUME \A i \in 1 .. Len(ranges) : WithinContent(n[i], len)
                PROVE  \/ Len(ranges) > RangeMaxCount
                       \/ \E i \in 2 .. Len(ranges) : first(i) <= first(i - 1)
                       \/ Cardinality({i \in 1 .. Len(ranges) : \E j \in 1 .. i - 1 : first(i) <= last(j)}) > 2
    BY <1>4, <1>6
  <2>2. \A i \in 1 .. Len(ranges) : first(i) = n[i][1] /\ last(i) = n[i][2]
    BY <1>4, <1>6
  <2>3. \/ Len(ranges) > RangeMaxCount
        \/ \E i \in 2 .. Len(ranges) : n[i][1] <= n[i - 1][1]
        \/ Cardinality(Overlapping(n)) > 2
    BY <1>2, <1>3, <1>6
  <2>. HIDE DEF n, first, last, served, parsed
  <2>4. Overlapping(n) = {i \in 1 .. Len(ranges) : \E j \in 1 .. i - 1 : first(i) <= last(j)}
    <3>1. \A i \in 1 .. Len(ranges) : \A j \in 1 .. i - 1 : j \in 1 .. Len(ranges)
      BY <2>1
    <3>. QED BY <2>1, <2>2, <3>1 DEF Overlapping
  <2>5. \A i \in 2 .. Len(ranges) : i \in 1 .. Len(ranges) /\ i - 1 \in 1 .. Len(ranges)
    BY <2>1
  <2>. QED BY <2>2, <2>3, <2>4, <2>5
<1>. HIDE DEF parsed, served, first, last, n
<1>7. RangesAgree(ranges, len)
        <=> /\ parsed.ok => parsed.ranges = ranges
            /\ parsed.ok /\ ~served.error =>
                 \A i \in 1 .. Len(ranges) :
                    LET ol == OffsetAndLength(served.ranges[i])
                    IN  /\ RangeAsserted(served.ranges[i], len)
                        /\ ol.offset .. ol.offset + ol.length - 1 = Selected(ranges[i], len)
                        /\ ContentRange(ol, len).st = first(i) /\ ContentRange(ol, len).ed = last(i)
            /\ parsed.ok /\ served.error =>
                 \/ Len(ranges) > RangeMaxCount
                 \/ \E i \in 1 .. Len(ranges) : Selected(ranges[i], len) = {} \/ SuffixTooLong(ranges[i], len)
                 \/ \E i \in 2 .. Len(ranges) : first(i) <= first(i - 1)
                 \/ Cardinality({i \in 1 .. Len(ranges) : \E j \in 1 .. i - 1 : first(i) <= last(j)}) > 2
  BY Zenon DEF RangesAgree, parsed, served, first, last
<1>. QED BY <1>1, <1>5, <1>6, <1>7
=============================================================================
