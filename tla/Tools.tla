------------------------------- MODULE Tools -------------------------------
(***************************************************************************)
(* The small pure helpers of oryx::crt: StringSplit, FromChars, the        *)
(* ArgumentParser and the CycleTimer.  Text is a sequence of bytes, a      *)
(* std::optional a sequence of at most one value.                          *)
(***************************************************************************)
EXTENDS Integers, Sequences, SequencesExt, FiniteSets, FiniteSetsExt

None == <<>>

-----------------------------------------------------------------------------
(* string_split.hpp *)


(* The parts from pos on: up to the next delimiter, or to the end. *)
StringSplit(input, delim) ==
    LET from[pos \in 1 .. Len(input) + 1] ==
            LET found == {i \in pos .. Len(input) : input[i] = delim}
            IN  IF found = {} THEN <<SubSeq(input, pos, Len(input))>>
                ELSE <<SubSeq(input, pos, Min(found) - 1)>> \o from[Min(found) + 1]
    IN  from[1]

-----------------------------------------------------------------------------
(* from_chars.hpp *)

Digit == 48 .. 57
Minus == 45

(* An integral type: its least and its greatest value *)
UInt8 == [min |-> 0, max |-> 255]
Int8  == [min |-> -128, max |-> 127]

(* std::from_chars: a minus for a signed type, and as many digits as there *)
(* are; no number and a number out of range are errors, the rest is left.  *)
StdFromChars(s, type) ==
    LET minus == type.min < 0 /\ s # <<>> /\ s[1] = Minus
        begin == IF minus THEN 2 ELSE 1
        end   == Max({begin - 1} \cup {i \in begin .. Len(s) : \A j \in begin .. i : s[j] \in Digit})
        abs   == FoldLeft(LAMBDA n, c : 10 * n + (c - 48), 0, SubSeq(s, begin, end))
        val   == IF minus THEN -abs ELSE abs
    IN  [ok |-> end >= begin /\ val \in type.min .. type.max, val |-> val]

FromChars(s, type) ==
    LET r == StdFromChars(s, type) IN IF r.ok THEN <<r.val>> ELSE None

FromCharsBool(s) ==
    LET r == FromChars(s, UInt8) IN IF r = None THEN None ELSE <<r[1] # 0>>

-----------------------------------------------------------------------------
(* argparse.hpp *)

Found(view, option) == {i \in 1 .. Len(view) : view[i] = option}

(* GetValue<std::string>(); Contains() looks at the same search *)
GetValue(view, option) ==
    IF Found(view, option) = {} \/ Min(Found(view, option)) = Len(view) THEN None
    ELSE <<view[Min(Found(view, option)) + 1]>>

(* GetValue() of an integral type *)
GetNumber(view, option, type) ==
    LET value == GetValue(view, option) IN IF value = None THEN None ELSE FromChars(value[1], type)

-----------------------------------------------------------------------------
(* stopwatch.hpp and cycle_timer.hpp *)

NanosPerMilli == 1000000

(* duration_cast of what Elapsed() says *)
ElapsedMs(elapsed) == elapsed \div NanosPerMilli

GetNextSleep(target, elapsed) ==
    IF ElapsedMs(elapsed) >= target THEN None ELSE <<target - ElapsedMs(elapsed)>>

FrameTime(fps) == 1000 \div fps

-----------------------------------------------------------------------------
(* Properties *)

(* The parts, with delimiters between them, are the input, and no part has *)
(* a delimiter: nothing is lost at the ends or between two delimiters.     *)
SplitAgrees(input, delim) ==
    LET parts == StringSplit(input, delim)
        joined[i \in 1 .. Len(parts)] ==
            IF i = Len(parts) THEN parts[i] ELSE parts[i] \o <<delim>> \o joined[i + 1]
    IN  /\ parts # <<>> /\ joined[1] = input
        /\ \A i \in 1 .. Len(parts) : delim \notin ToSet(parts[i])

(* The decimal notation of the numbers of one byte *)
Decimal(v) ==
    LET n == IF v < 0 THEN -v ELSE v
        digits == IF n > 99 THEN <<48 + n \div 100, 48 + ((n \div 10) % 10), 48 + (n % 10)>>
                  ELSE IF n > 9 THEN <<48 + n \div 10, 48 + (n % 10)>> ELSE <<48 + n>>
    IN  IF v < 0 THEN <<Minus>> \o digits ELSE digits

(* A number is read exactly where the text begins with one, written in     *)
(* decimal with any number of zeros before it: what follows is ignored,    *)
(* and a number that the type cannot hold is refused, not wrapped.         *)
NumbersAgree(s, type) ==
    LET zeros(k) == [i \in 1 .. k |-> 48]
        padded(v, k) == IF v < 0 THEN <<Minus>> \o zeros(k) \o Decimal(-v) ELSE zeros(k) \o Decimal(v)
        begins(p) == IsPrefix(p, s) /\ (Len(s) > Len(p) => s[Len(p) + 1] \notin Digit)
    IN  /\ \A v \in type.min .. type.max : \A k \in 0 .. Len(s) : begins(padded(v, k)) => FromChars(s, type) = <<v>>
        /\ FromChars(s, type) # None =>
              \/ \E k \in 0 .. Len(s) : begins(padded(FromChars(s, type)[1], k))
              \/ FromChars(s, type) = <<0>> /\ type.min < 0 /\ s[1] = Minus

(* What is given for an option is what the parser returns for it, if no    *)
(* argument before it, option or value, reads like the option.             *)
ArgumentsAgree(pairs) ==
    LET view == FlattenSeq(pairs)
    IN  \A i \in 1 .. Len(pairs) :
            (\A j \in 1 .. i - 1 : pairs[i][1] \notin ToSet(pairs[j])) =>
                /\ GetValue(view, pairs[i][1]) = <<pairs[i][2]>>
                /\ GetNumber(view, pairs[i][1], UInt8) = FromChars(pairs[i][2], UInt8)

(* Who sleeps as long as the timer says is through with a cycle at its     *)
(* target, and less than a millisecond after it; who is told not to sleep  *)
(* has reached the target.                                                 *)
TimerAgrees(target, elapsed) ==
    LET sleep == GetNextSleep(target, elapsed)
        over  == elapsed + (IF sleep = None THEN 0 ELSE sleep[1] * NanosPerMilli) - target * NanosPerMilli
    IN  over >= 0 /\ (sleep # None => sleep[1] > 0 /\ over < NanosPerMilli)

(* Frames of the time that a frame rate gives are no fewer than the rate.  *)
FramesAgree(fps) == FrameTime(fps) = 0 \/ 1000 \div FrameTime(fps) >= fps
=============================================================================
