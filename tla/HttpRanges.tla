----------------------------- MODULE HttpRanges -----------------------------
(***************************************************************************)
(* Byte ranges of httplib.hpp: what a client asks for, what the server      *)
(* makes of it, and the pieces of the content that it sends.  A range is a  *)
(* pair of positions, -1 for the one that is left out; content is counted   *)
(* in bytes.                                                                *)
(***************************************************************************)
EXTENDS Integers, Sequences, FiniteSets, SequencesExt, FiniteSetsExt

RangeMaxCount == 1024  \* CPPHTTPLIB_RANGE_MAX_COUNT

(* make_range_header(), and split() at the commas, which trims the blanks:  *)
(* a list of "first-last", each of them a number or nothing                 *)
RangeHeader(ranges) ==
    LET written(p) == IF p = -1 THEN <<>> ELSE <<p>>
    IN  [i \in 1 .. Len(ranges) |-> [first |-> written(ranges[i][1]), last |-> written(ranges[i][2])]]

(* Mutant: "-" alone is a range. *)
RangeSpecValidLoose(first, last) == first = -1 \/ last = -1 \/ first <= last

RangeSpecValid(first, last) ==
    /\ ~(first = -1 /\ last = -1)
    /\ first # -1 /\ last # -1 => first <= last

(* parse_range_header(): every range of the list must be valid *)
ParseRangeHeader(header) ==
    LET position(p) == IF p = <<>> THEN -1 ELSE p[1]
        parsed      == [i \in 1 .. Len(header) |-> <<position(header[i].first), position(header[i].last)>>]
    IN  [ok     |-> Len(header) > 0 /\ \A i \in 1 .. Len(header) : RangeSpecValid(parsed[i][1], parsed[i][2]),
         ranges |-> parsed]

(* Mutant: the last position is not cut to the content. *)
NormalisedUncut(r, len) ==
    IF r[1] = -1 THEN <<len - r[2], len - 1>> ELSE <<r[1], IF r[2] = -1 THEN len - 1 ELSE r[2]>>

(* One turn of the loop of range_error(): the positions that are left out   *)
(* are filled in, and the last one is cut to the content.                   *)
Normalised(r, len) ==
    LET both   == r[1] = -1 /\ r[2] = -1
        first  == IF both THEN 0 ELSE IF r[1] = -1 THEN len - r[2] ELSE r[1]
        last   == IF both THEN len ELSE IF r[1] = -1 THEN len - 1 ELSE r[2]
    IN  <<first, IF last = -1 \/ last >= len THEN len - 1 ELSE last>>

WithinContent(r, len) == 0 <= r[1] /\ r[1] <= r[2] /\ r[2] <= len - 1

(* The ranges that begin before an earlier one has ended *)
Overlapping(n) == {i \in 1 .. Len(n) : \E j \in 1 .. i - 1 : n[i][1] <= n[j][2]}

(* range_error(), which says whether the ranges cannot be served and leaves *)
(* them normalised in the request.  It looks only at successful responses.  *)
RangeError(ranges, status, len) ==
    LET n == [i \in 1 .. Len(ranges) |-> Normalised(ranges[i], len)]
    IN  IF ranges = <<>> \/ status \notin 200 .. 299 THEN [error |-> FALSE, ranges |-> ranges]
        ELSE [error  |-> \/ Len(ranges) > RangeMaxCount
                         \/ \E i \in 1 .. Len(n) : ~WithinContent(n[i], len)
                         \/ \E i \in 2 .. Len(n) : n[i][1] <= n[i - 1][1]
                         \/ Cardinality(Overlapping(n)) > 2,
              ranges |-> n]

(* The asserts of get_range_offset_and_length() *)
RangeAsserted(r, len) == r[1] # -1 /\ r[2] # -1 /\ WithinContent(r, len)

OffsetAndLength(r) == [offset |-> r[1], length |-> (r[2] - r[1]) + 1]

(* make_content_range_header_field() *)
ContentRange(ol, len) == [st |-> ol.offset, ed |-> ol.offset + ol.length - 1, of |-> len]

(* process_multipart_ranges_data(): per range a part header (its length is  *)
(* taken to be 1) and the bytes, and the closing boundary.  The three users *)
(* of it write the parts, append them, or add up their lengths.             *)
MultipartRanges(ranges) ==
    FlattenSeq([i \in 1 .. Len(ranges) |->
        <<"part">> \o [b \in 1 .. OffsetAndLength(ranges[i]).length |-> OffsetAndLength(ranges[i]).offset + b - 1]])
    \o <<"end">>

MultipartRangesLength(ranges) == Len(MultipartRanges(ranges))

-----------------------------------------------------------------------------
(* Properties *)

(* What RFC 9110, which the comments of range_error() follow, says that one *)
(* range of a request selects *)
Selected(r, len) ==
    {p \in 0 .. len - 1 : IF r[1] = -1 THEN p >= len - r[2] ELSE p >= r[1] /\ (r[2] = -1 \/ p <= r[2])}

SuffixTooLong(r, len) == r[1] = -1 /\ r[2] > len

(* For every list of ranges a client can write: the server reads the same   *)
(* list; what it then sends is what each range selects; and it refuses only *)
(* a list that is too long, selects nothing somewhere, is out of order,     *)
(* overlaps more than twice, or has a suffix longer than the content (which *)
(* RFC 9110 serves: the one place where the code is stricter).              *)
RangesAgree(ranges, len) ==
    LET parsed == ParseRangeHeader(RangeHeader(ranges))
        served == RangeError(parsed.ranges, 206, len)
        first(i) == Min(Selected(ranges[i], len))
        last(i)  == Max(Selected(ranges[i], len))
    IN  /\ parsed.ok => parsed.ranges = ranges
        /\ parsed.ok /\ ~served.error =>
              \A i \in 1 .. Len(ranges) :
                 LET ol == OffsetAndLength(served.ranges[i])
                 IN  /\ RangeAsserted(served.ranges[i], len)
                     /\ ol.offset .. ol.offset + ol.length - 1 = Selected(ranges[i], len)
                     /\ ContentRange(ol, len).st = first(i) /\ ContentRange(ol, len).ed = last(i)
        /\ parsed.ok /\ served.error =>
              \/ Len(ranges) > RangeMaxCount
              \/ \E i \in 1 .. Len(ranges) : Selected(ranges[i], len) = {} \/ SuffixTooLong(ranges[i], len)
              \/ \E i \in 2 .. Len(ranges) : first(i) <= first(i - 1)
              \/ Cardinality({i \in 1 .. Len(ranges) : \E j \in 1 .. i - 1 : first(i) <= last(j)}) > 2
=============================================================================
