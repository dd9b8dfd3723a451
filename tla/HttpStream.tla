----------------------------- MODULE HttpStream -----------------------------
(***************************************************************************)
(* SocketStream of httplib.hpp, which reads ahead into a buffer, and what   *)
(* reads from it: the lines of stream_line_reader, and content with and     *)
(* without a length.  The peer writes bytes and may close; recv() gets any  *)
(* number of the bytes that are there; time passes while it waits.          *)
(***************************************************************************)
EXTENDS Integers, Sequences

CONSTANTS
    Bytes,        \* what the peer writes; "r" and "l" are CR and LF
    MaxSent,      \* bound: bytes the peer writes
    BufferSize,   \* read_buff_size_
    FixedSize,    \* fixed_buffer_size of the line reader
    MaxLine,      \* CPPHTTPLIB_MAX_LINE_LENGTH
    RecvSize,     \* CPPHTTPLIB_RECV_BUFSIZ
    ReadTimeout,  \* read timeout, in milliseconds
    MaxTimeout    \* max_timeout_msec_, 0 for none

ASSUME HttpStreamAssumption ==
    /\ MaxSent \in Nat /\ BufferSize \in Nat \ {0} /\ FixedSize \in Nat \ {0}
    /\ MaxLine \in Nat /\ RecvSize \in Nat \ {0} /\ ReadTimeout \in Nat /\ MaxTimeout \in Nat

VARIABLES
    sent,       \* history: all the peer wrote
    ended,      \* the peer has closed
    received,   \* how much of it recv() has taken
    readBuff,   \* read_buff_, its content
    readOff,    \* read_buff_off_
    taken,      \* history: what read() has returned
    elapsed,    \* duration()
    reader,     \* who reads: "none", "line", "length" or "all", and what is left to read
    fixed,      \* fixed_buffer_
    growable,   \* growable_buffer_
    start,      \* history: how much was taken when the reader began
    result     \* what it returned

SMvars == <<sent, ended, received, readBuff, readOff, taken, elapsed, reader, fixed, growable, start, result>>

SMTypeOK ==
    /\ sent \in Seq(Bytes) /\ ended \in BOOLEAN /\ received \in 0 .. Len(sent)
    /\ Len(readBuff) <= BufferSize /\ readOff \in 0 .. Len(readBuff)
    /\ taken \in Seq(Bytes) /\ start \in 0 .. Len(taken) /\ elapsed \in Nat
    /\ reader \in [job : {"none", "line", "length", "all"}, left : 0 .. MaxSent]
    /\ Len(fixed) < FixedSize /\ growable \in Seq(Bytes)
    /\ result \in {"none", "true", "false"}

SMInit ==
    /\ sent = <<>> /\ ended = FALSE /\ received = 0
    /\ readBuff = <<>> /\ readOff = 0 /\ taken = <<>> /\ elapsed = 0
    /\ reader = [job |-> "none", left |-> 0]
    /\ fixed = <<>> /\ growable = <<>> /\ start = 0 /\ result = "none"

Least(a, b) == IF a < b THEN a ELSE b

-----------------------------------------------------------------------------
(* The stream *)

(* Mutant: each wait may take the whole timeout. *)
ActualTimeoutEach(max, duration, timeout) == Least(max, timeout)

(* calc_actual_timeout(): what is left of max_timeout_msec_ *)
ActualTimeout(max, duration, timeout) ==
    LET t == Least(max - duration, timeout) IN IF t < 0 THEN 0 ELSE t

(* wait_readable() *)
Patience == IF MaxTimeout = 0 THEN ReadTimeout ELSE ActualTimeout(MaxTimeout, elapsed, ReadTimeout)

(* Mutant: what lies in the buffer beyond the bytes asked for is forgotten. *)
KeptNothing(got, size) == [buff |-> <<>>, off |-> 0]

(* Of n bytes from recv(), size are returned and the rest is kept.          *)
Kept(got, size) == IF Len(got) > size THEN [buff |-> got, off |-> size] ELSE [buff |-> <<>>, off |-> 0]

(* What one call of read() returns and leaves: n, the number of bytes, is   *)
(* -1 for a timeout or an error and 0 when the peer has closed.             *)
FromBuffer(size) ==
    LET n == Least(size, Len(readBuff) - readOff)
    IN  [n |-> n, bytes |-> SubSeq(readBuff, readOff + 1, readOff + n), got |-> 0,
         kept |-> [buff |-> readBuff, off |-> readOff + n], time |-> 0]

FromSocket(got, size, time) ==
    LET n == Least(size, Len(got))
    IN  [n |-> n, bytes |-> SubSeq(got, 1, n), got |-> Len(got), kept |-> Kept(got, size), time |-> time]

Nothing(n, kept, time) == [n |-> n, bytes |-> <<>>, got |-> 0, kept |-> kept, time |-> time]

(* read() takes from the buffer what is there, else from the socket, into   *)
(* the buffer unless the caller's own is as large.                          *)
Reads(size) ==
    LET most == Least(Len(sent) - received, IF size < BufferSize THEN BufferSize ELSE size)
    IN  IF readOff < Len(readBuff) THEN {FromBuffer(size)}
        ELSE {FromSocket(SubSeq(sent, received + 1, received + m), size, d) : m \in 1 .. most, d \in {0, Patience}}
             \cup {Nothing(n, [buff |-> <<>>, off |-> 0], d) :
                      n \in IF received = Len(sent) /\ ended THEN {-1, 0} ELSE {-1}, d \in {0, Patience}}
             \cup {Nothing(-1, [buff |-> readBuff, off |-> readOff], Patience)}

Read(r) ==
    /\ received' = received + r.got /\ taken' = taken \o r.bytes /\ elapsed' = elapsed + r.time
    /\ readBuff' = r.kept.buff /\ readOff' = r.kept.off

Idle == [job |-> "none", left |-> 0]
Ends(how)   == reader' = Idle /\ result' = how
Goes(left)   == reader' = [reader EXCEPT !.left = left] /\ UNCHANGED result

-----------------------------------------------------------------------------
(* The line reader *)

Line == IF growable = <<>> THEN fixed ELSE growable

(* Mutant: the buffer that grows begins with the byte that did not fit. *)
AppendByteOnly(c) ==
    IF Len(fixed) < FixedSize - 1
    THEN fixed' = Append(fixed, c) /\ UNCHANGED growable
    ELSE growable' = Append(growable, c) /\ UNCHANGED fixed

(* append(): a byte that does not fit moves the line to a buffer that grows. *)
AppendByte(c) ==
    IF Len(fixed) < FixedSize - 1
    THEN fixed' = Append(fixed, c) /\ UNCHANGED growable
    ELSE growable' = Append(IF growable = <<>> THEN fixed ELSE growable, c) /\ UNCHANGED fixed

(* One turn of getline(); left is 1 when the byte before was a CR.          *)
ReadByte ==
    /\ reader.job = "line"
    /\ \/ /\ Len(Line) >= MaxLine /\ Ends("false")
          /\ UNCHANGED <<received, readBuff, readOff, taken, elapsed, fixed, growable>>
       \/ /\ Len(Line) < MaxLine
          /\ \E r \in Reads(1) :
                /\ Read(r)
                /\ \/ r.n < 0 /\ Ends("false") /\ UNCHANGED <<fixed, growable>>
                   \/ r.n = 0 /\ Ends(IF Line = <<>> THEN "false" ELSE "true") /\ UNCHANGED <<fixed, growable>>
                   \/ /\ r.n > 0 /\ AppendByte(r.bytes[1])
                      /\ IF reader.left = 1 /\ r.bytes[1] = "l" THEN Ends("true")
                         ELSE Goes(IF r.bytes[1] = "r" THEN 1 ELSE 0)
    /\ UNCHANGED <<sent, ended, start>>

-----------------------------------------------------------------------------
(* Content *)

(* One turn of read_content_with_length(), and of skip_content_with_length() *)
ReadLength ==
    /\ reader.job = "length"
    /\ \/ /\ reader.left = 0 /\ Ends("true")
          /\ UNCHANGED <<received, readBuff, readOff, taken, elapsed>>
       \/ /\ reader.left > 0
          /\ \E r \in Reads(Least(reader.left, RecvSize)) :
                Read(r) /\ IF r.n <= 0 THEN Ends("false") ELSE Goes(reader.left - r.n)
    /\ UNCHANGED <<sent, ended, start, fixed, growable>>

(* One turn of read_content_without_length() *)
ReadAll ==
    /\ reader.job = "all"
    /\ \E r \in Reads(RecvSize) :
          Read(r) /\ IF r.n = 0 THEN Ends("true") ELSE IF r.n < 0 THEN Ends("false") ELSE Goes(0)
    /\ UNCHANGED <<sent, ended, start, fixed, growable>>

(* The callers read lines, and content after them; after a failure no more. *)
BeginRead ==
    /\ reader.job = "none" /\ result # "false"
    /\ reader' \in {[job |-> "line", left |-> 0], [job |-> "all", left |-> 0]}
                   \cup {[job |-> "length", left |-> n] : n \in 0 .. MaxSent}
    /\ result' = "none" /\ start' = Len(taken) /\ fixed' = <<>> /\ growable' = <<>>
    /\ UNCHANGED <<sent, ended, received, readBuff, readOff, taken, elapsed>>

PeerWrites ==
    /\ ~ended
    /\ \/ Len(sent) < MaxSent /\ UNCHANGED ended /\ \E b \in Bytes : sent' = Append(sent, b)
       \/ ended' = TRUE /\ UNCHANGED sent
    /\ UNCHANGED <<received, readBuff, readOff, taken, elapsed, reader, fixed, growable, start, result>>

SMNext == ReadByte \/ ReadLength \/ ReadAll \/ BeginRead \/ PeerWrites

SMSpec == SMInit /\ [][SMNext]_SMvars

-----------------------------------------------------------------------------
(* Properties *)

Got == SubSeq(taken, start + 1, Len(taken))

CRLFAt(s) == {i \in 1 .. Len(s) - 1 : s[i] = "r" /\ s[i + 1] = "l"}

(* Whoever reads, in whatever pieces recv() delivers: each byte that the     *)
(* peer wrote is read once and in order, what was read ahead included.  A   *)
(* line is what was read for it, up to the first CRLF or to the close, also *)
(* when it outgrows its buffer.                                             *)
BytesAreReadInOrder ==
    /\ taken \o SubSeq(readBuff, readOff + 1, Len(readBuff)) = SubSeq(sent, 1, received)
    /\ reader.job = "line" => Line = Got /\ CRLFAt(Got) = {}
    /\ result = "true" /\ Line # <<>> =>
          /\ Line = Got
          /\ IF CRLFAt(Got) = {} THEN ended /\ Len(taken) = Len(sent) ELSE CRLFAt(Got) = {Len(Got) - 1}

(* What makes BytesAreReadInOrder inductive, byte by byte: where the bytes  *)
(* that were read and those that were read ahead come from,                 *)
BytesInPlace ==
    /\ readBuff \in Seq(Bytes) /\ Len(sent) <= MaxSent
    /\ Len(taken) + Len(readBuff) - readOff = received
    /\ \A i \in 1 .. Len(taken) : taken[i] = sent[i]
    /\ \A i \in 1 .. Len(readBuff) - readOff : readBuff[readOff + i] = sent[Len(taken) + i]

IsGot(s) == Len(s) = Len(taken) - start /\ \A i \in 1 .. Len(s) : s[i] = taken[start + i]

(* in which of its two buffers a line is, and what the reader knows of its  *)
(* last byte.                                                               *)
LineInPlace ==
    /\ fixed \in Seq(Bytes)
    /\ growable # <<>> => Len(fixed) = FixedSize - 1
    /\ reader.job # "none" => result = "none"
    /\ reader.job \in {"length", "all"} => Line = <<>>
    /\ reader.job = "line" =>
         /\ IsGot(Line) /\ CRLFAt(Line) = {}
         /\ reader.left = 1 <=> Line # <<>> /\ Line[Len(Line)] = "r"
    /\ result = "true" /\ Line # <<>> =>
         /\ IsGot(Line)
         /\ IF CRLFAt(Line) = {} THEN ended /\ Len(taken) = Len(sent) ELSE CRLFAt(Line) = {Len(Line) - 1}

(* With a max_timeout_msec_ the reads of a request together do not wait for *)
(* longer than that, however the bytes trickle in.                          *)
ReadsEndInTime == MaxTimeout > 0 => elapsed <= MaxTimeout

StreamInv == SMTypeOK /\ BytesInPlace /\ LineInPlace /\ ReadsEndInTime
=============================================================================
