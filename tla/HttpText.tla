------------------------------ MODULE HttpText ------------------------------
(***************************************************************************)
(* The text functions of httplib.hpp: escapes, base64, UTF-8, lists and     *)
(* pairs, query strings, header lines, paths and route patterns.            *)
(*                                                                         *)
(* Text is a sequence of bytes, that is, of numbers.  A loop over a string  *)
(* is a recursive operator over its position.                               *)
(***************************************************************************)
EXTENDS Integers, Sequences, FiniteSets, SequencesExt

CONSTANT HeaderMaxLength  \* CPPHTTPLIB_HEADER_MAX_LENGTH

Byte(c) == CASE c = "tab" -> 9 [] c = "lf" -> 10 [] c = "cr" -> 13 [] c = "blank" -> 32 [] c = "\"" -> 34
             [] c = "%" -> 37 [] c = "&" -> 38 [] c = "'" -> 39 [] c = "+" -> 43 [] c = "," -> 44
             [] c = "." -> 46 [] c = "/" -> 47 [] c = ":" -> 58 [] c = ";" -> 59 [] c = "=" -> 61
             [] c = "?" -> 63 [] c = "\\" -> 92 [] c = "u" -> 117

Digits == 48 .. 57
Upper  == 65 .. 90
Lower  == 97 .. 122
Alnum  == Digits \cup Upper \cup Lower

(* std::find(): the first position of c in s, or one past the end           *)
FirstOf(s, c) ==
    LET at == {i \in 1 .. Len(s) : s[i] = c}
    IN  IF at = {} THEN Len(s) + 1 ELSE CHOOSE i \in at : \A j \in at : i <= j

-----------------------------------------------------------------------------
(* Hexadecimal numbers, UTF-8 and base64 *)

(* is_hex() and the value; -1 for any other byte                            *)
HexValue(c) ==
    IF c \in Digits THEN c - 48 ELSE IF c \in 65 .. 70 THEN c - 55 ELSE IF c \in 97 .. 102 THEN c - 87 ELSE -1

HexDigit(v) == IF v < 10 THEN 48 + v ELSE 55 + v

(* from_hex_to_i(): cnt digits from position i on; -1 when there are not    *)
FromHex(s, i, cnt) ==
    IF i + cnt - 1 > Len(s) \/ \E j \in i .. i + cnt - 1 : HexValue(s[j]) = -1 THEN -1
    ELSE FoldLeft(LAMBDA v, c : v * 16 + HexValue(c), 0, SubSeq(s, i, i + cnt - 1))

(* from_i_to_hex(), the length of a chunk                                   *)
RECURSIVE ToHex(_)
ToHex(n) ==
    LET digit == IF n % 16 < 10 THEN 48 + (n % 16) ELSE 87 + (n % 16)
    IN  IF n < 16 THEN <<digit>> ELSE Append(ToHex(n \div 16), digit)

(* to_utf8(): nothing for a surrogate and beyond the last code point        *)
ToUtf8(code) ==
    CASE code < 128 -> <<code>>
      [] code \in 128 .. 2047 -> <<192 + code \div 64, 128 + (code % 64)>>
      [] code \in 2048 .. 65535 /\ code \notin 55296 .. 57343 ->
            <<224 + code \div 4096, 128 + ((code \div 64) % 64), 128 + (code % 64)>>
      [] code \in 65536 .. 1114111 ->
            <<240 + code \div 262144, 128 + ((code \div 4096) % 64), 128 + ((code \div 64) % 64), 128 + (code % 64)>>
      [] OTHER -> <<>>

Lookup(v) == CASE v < 26 -> 65 + v [] v \in 26 .. 51 -> 71 + v [] v \in 52 .. 61 -> v - 4 [] v = 62 -> 43 [] v = 63 -> 47

(* base64_encode(): val gathers the bytes, valb says how many bits of it are *)
(* not written yet, less 6.  Of val only the lowest 14 bits are ever read.   *)
RECURSIVE Base64Drain(_)
Base64Drain(st) ==
    IF st.valb < 0 THEN st
    ELSE Base64Drain([st EXCEPT !.out = Append(@, Lookup((st.val \div 2 ^ st.valb) % 64)), !.valb = @ - 6])

Base64Encode(s) ==
    LET take(st, c) == Base64Drain([st EXCEPT !.val = (@ * 256 + c) % 2 ^ 14, !.valb = @ + 8])
        all  == FoldLeft(take, [val |-> 0, valb |-> -6, out |-> <<>>], s)
        tail == IF all.valb > -6 THEN Append(all.out, Lookup(((all.val * 256) \div 2 ^ (all.valb + 8)) % 64)) ELSE all.out
    IN  tail \o [i \in 1 .. (-Len(tail)) % 4 |-> Byte("=")]

-----------------------------------------------------------------------------
(* Escapes *)

Escape(c) == <<Byte("%"), HexDigit(c \div 16), HexDigit(c % 16)>>

(* encode_query_param(): letters, digits and - _ . ! ~ * ' ( ) stay         *)
QuerySafe == Alnum \cup {45, 95, 46, 33, 126, 42, 39, 40, 41}

EncodeQueryParam(s) == FlattenSeq([i \in 1 .. Len(s) |-> IF s[i] \in QuerySafe THEN <<s[i]>> ELSE Escape(s[i])])

(* encode_url(): blank + CR LF ' , ; and what is not ASCII; not the percent  *)
UrlUnsafe == {32, 43, 13, 10, 39, 44, 59} \cup 128 .. 255

(* The loop of encode_url() ends at the first NUL, as for a C string. *)
Terminated(s) == SubSeq(s, 1, FirstOf(s, 0) - 1)

EncodeUrl(s) ==
    LET t == Terminated(s) IN FlattenSeq([i \in 1 .. Len(t) |-> IF t[i] \in UrlUnsafe THEN Escape(t[i]) ELSE <<t[i]>>])

(* decode_url() from position i on: %uXXXX, %XX, and +; anything else stays *)
RECURSIVE DecodeFrom(_, _, _)
DecodeFrom(s, plus, i) ==
    LET percent == i < Len(s) /\ s[i] = Byte("%")
        wide    == percent /\ s[i + 1] = Byte("u")
        code    == IF wide THEN FromHex(s, i + 2, 4) ELSE IF percent THEN FromHex(s, i + 1, 2) ELSE -1
    IN  IF i > Len(s) THEN <<>>
        ELSE IF wide /\ code # -1 THEN ToUtf8(code) \o DecodeFrom(s, plus, i + 6)
        ELSE IF percent /\ code # -1 THEN <<code>> \o DecodeFrom(s, plus, i + 3)
        ELSE <<IF plus /\ s[i] = Byte("+") THEN Byte("blank") ELSE s[i]>> \o DecodeFrom(s, plus, i + 1)

DecodeUrl(s, plus) == DecodeFrom(s, plus, 1)

-----------------------------------------------------------------------------
(* Lists, pairs, query strings and header lines *)

Blank(c) == c \in {Byte("blank"), Byte("tab")}

(* trim_copy()                                                              *)
Trim(s) ==
    LET solid == {i \in 1 .. Len(s) : ~Blank(s[i])}
    IN  IF solid = {} THEN <<>>
        ELSE SubSeq(s, CHOOSE i \in solid : \A j \in solid : i <= j, CHOOSE i \in solid : \A j \in solid : j <= i)

(* trim_double_quotes_copy()                                                *)
Unquote(s) == IF Len(s) >= 2 /\ s[1] = Byte("\"") /\ s[Len(s)] = Byte("\"") THEN SubSeq(s, 2, Len(s) - 1) ELSE s

(* divide(): around the first d                                             *)
Divide(s, d) == <<SubSeq(s, 1, FirstOf(s, d) - 1), SubSeq(s, FirstOf(s, d) + 1, Len(s))>>

(* split(): the pieces between the d's, trimmed, those that are not empty   *)
RECURSIVE Split(_, _)
Split(s, d) ==
    LET piece == Trim(SubSeq(s, 1, FirstOf(s, d) - 1))
        rest  == IF FirstOf(s, d) > Len(s) THEN <<>> ELSE Split(SubSeq(s, FirstOf(s, d) + 1, Len(s)), d)
    IN  (IF piece = <<>> THEN <<>> ELSE <<piece>>) \o rest

Join(texts, d) ==
    FlattenSeq([i \in 1 .. Len(texts) |-> IF i = 1 THEN texts[i] ELSE <<d>> \o texts[i]])

(* params_to_query_str(): the values are escaped, the keys are not          *)
ParamsToQuery(params) ==
    Join([i \in 1 .. Len(params) |-> params[i][1] \o <<Byte("=")>> \o EncodeQueryParam(params[i][2])], Byte("&"))

(* The cache of parse_query_text(): each text once                          *)
FirstTimes(texts) ==
    FoldLeft(LAMBDA done, t : IF Contains(done, t) THEN done ELSE Append(done, t), <<>>, texts)

(* parse_query_text()                                                       *)
ParseQuery(text) ==
    LET pairs == FirstTimes(Split(text, Byte("&")))
        named == SelectSeq(pairs, LAMBDA kv : Divide(kv, Byte("="))[1] # <<>>)
    IN  [i \in 1 .. Len(named) |-> LET kv == Divide(named[i], Byte("="))
                                  IN  <<DecodeUrl(kv[1], TRUE), DecodeUrl(kv[2], TRUE)>>]

(* parse_disposition_params(): name="value" pairs; of more than one "=" the  *)
(* last piece is the value                                                  *)
ParseDisposition(text) ==
    LET pairs == FirstTimes(Split(text, Byte(";")))
        parts(kv) == Split(kv, Byte("="))
        named == SelectSeq(pairs, LAMBDA kv : parts(kv) # <<>>)
    IN  [i \in 1 .. Len(named) |->
            LET p == parts(named[i]) IN <<Unquote(p[1]), IF Len(p) = 1 THEN <<>> ELSE Unquote(p[Len(p)])>>]

(* namespace fields *)
TokenChars == Alnum \cup {33, 35, 36, 37, 38, 39, 42, 43, 45, 46, 94, 95, 96, 124, 126}
FieldVChar == 33 .. 126 \cup 128 .. 255

IsFieldName(s) == s # <<>> /\ \A i \in 1 .. Len(s) : s[i] \in TokenChars

(* Mutant: any byte inside of a value. *)
IsFieldValueInside(s) == s = <<>> \/ (s[1] \in FieldVChar /\ s[Len(s)] \in FieldVChar)

IsFieldValue(s) ==
    s = <<>> \/ ( /\ s[1] \in FieldVChar /\ s[Len(s)] \in FieldVChar
                  /\ \A i \in 2 .. Len(s) - 1 : Blank(s[i]) \/ s[i] \in FieldVChar )

(* write_headers() writes "key: value", and read_headers() reads what is up *)
(* to the end of a line                                                     *)
HeaderText(key, value) == key \o <<Byte(":"), Byte("blank")>> \o value \o <<Byte("cr"), Byte("lf")>>

(* set_header() leaves out what is not a field                              *)
SetHeaders(headers) == SelectSeq(headers, LAMBDA h : IsFieldName(h[1]) /\ IsFieldValue(h[2]))

HeadersText(headers) ==
    FlattenSeq([i \in 1 .. Len(headers) |-> HeaderText(headers[i][1], headers[i][2])]) \o <<Byte("cr"), Byte("lf")>>

(* parse_header(): trimmed, and with its escapes decoded (but for Location  *)
(* and Referer)                                                             *)
ParseHeader(line) ==
    LET solid == {i \in 1 .. Len(line) : ~Blank(line[i])}
        text  == SubSeq(line, 1, IF solid = {} THEN 0 ELSE CHOOSE i \in solid : \A j \in solid : j <= i)
        kv    == Divide(text, Byte(":"))
    IN  [ok |-> IsFieldName(kv[1]) /\ FirstOf(text, Byte(":")) <= Len(text) /\ IsFieldValue(Trim(kv[2])),
         key |-> kv[1], value |-> DecodeUrl(Trim(kv[2]), FALSE)]

(* stream_line_reader::getline() gives the text up to a CRLF, and           *)
(* read_headers() reads lines up to an empty one; a line that is too long   *)
(* or that it cannot parse ends it.                                         *)
LineEnd(s) ==
    LET ends == {i \in 1 .. Len(s) - 1 : s[i] = Byte("cr") /\ s[i + 1] = Byte("lf")}
    IN  IF ends = {} THEN -1 ELSE CHOOSE i \in ends : \A j \in ends : i <= j

RECURSIVE ReadHeaders(_)
ReadHeaders(s) ==
    LET e == LineEnd(s)
        h == ParseHeader(SubSeq(s, 1, e - 1))
        r == ReadHeaders(SubSeq(s, e + 2, Len(s)))
    IN  IF e = -1 THEN [ok |-> FALSE, headers |-> <<>>, rest |-> <<>>]
        ELSE IF e = 1 THEN [ok |-> TRUE, headers |-> <<>>, rest |-> SubSeq(s, 3, Len(s))]
        ELSE IF e + 1 > HeaderMaxLength \/ ~h.ok
             THEN [ok |-> FALSE, headers |-> <<>>, rest |-> SubSeq(s, e + 2, Len(s))]
        ELSE [r EXCEPT !.headers = << <<h.key, h.value>> >> \o @]

-----------------------------------------------------------------------------
(* Paths, routes and the request line *)

(* The names between the slashes                                            *)
RECURSIVE Components(_)
Components(path) ==
    LET e == FirstOf(path, Byte("/"))
        name == SubSeq(path, 1, e - 1)
    IN  (IF name = <<>> THEN <<>> ELSE <<name>>) \o (IF e > Len(path) THEN <<>> ELSE Components(SubSeq(path, e + 1, Len(path))))

DotDot == <<Byte("."), Byte(".")>>

(* Mutant: the level may go below zero in between. *)
IsValidPathAtEnd(path) ==
    LET c == Components(path)
    IN  Cardinality({i \in 1 .. Len(c) : c[i] = DotDot}) <= Cardinality({i \in 1 .. Len(c) : c[i] \notin {DotDot, <<46>>}})

(* is_valid_path(): level counts the names down from the mount point        *)
IsValidPath(path) ==
    LET step(level, name) ==
            IF level = -1 \/ \E i \in 1 .. Len(name) : name[i] \in {0, Byte("\\")} THEN -1
            ELSE IF name = <<Byte(".")>> THEN level
            ELSE IF name = DotDot THEN level - 1
            ELSE level + 1
    IN  FoldLeft(step, 0, Components(path)) # -1

(* PathParamsMatcher: a pattern is cut at each "/:" into fixed fragments,   *)
(* each but perhaps the last followed by a parameter up to the next slash.  *)
(* Two parameters of one name are an std::invalid_argument.                 *)
Marker(s, from) == {i \in from .. Len(s) - 1 : s[i] = Byte("/") /\ s[i + 1] = Byte(":")}

RECURSIVE Fragments(_, _)
Fragments(pattern, from) ==
    LET at    == Marker(pattern, IF from = 1 THEN 1 ELSE from - 1)
        m     == CHOOSE i \in at : \A j \in at : i <= j
        name  == SubSeq(pattern, m + 2, Len(pattern))
        e     == FirstOf(name, Byte("/"))
        rest  == Fragments(pattern, m + 2 + e)
    IN  IF at = {}
        THEN [throws |-> FALSE, names |-> <<>>,
              fixed  |-> IF from <= Len(pattern) THEN <<SubSeq(pattern, from, Len(pattern))>> ELSE <<>>]
        ELSE [throws |-> rest.throws \/ Contains(rest.names, SubSeq(name, 1, e - 1)),
              names  |-> <<SubSeq(name, 1, e - 1)>> \o rest.names,
              fixed  |-> <<SubSeq(pattern, from, m)>> \o rest.fixed]

(* PathParamsMatcher::match(), from a position of the path on; a parameter  *)
(* takes the slash after it along.                                          *)
RECURSIVE MatchFrom(_, _, _, _)
MatchFrom(fixed, params, path, from) ==
    LET to == from + Len(fixed[1])
        e  == to - 1 + FirstOf(SubSeq(path, to, Len(path)), Byte("/"))
        r  == MatchFrom(Tail(fixed), params - 1, path, e + 1)
    IN  IF fixed = <<>> THEN [ok |-> from > Len(path), params |-> <<>>]
        ELSE IF to - 1 > Len(path) \/ SubSeq(path, from, to - 1) # fixed[1] THEN [ok |-> FALSE, params |-> <<>>]
        ELSE IF params = 0 THEN MatchFrom(Tail(fixed), 0, path, to)
        ELSE [r EXCEPT !.params = <<SubSeq(path, to, e - 1)>> \o @]

Match(pattern, path) ==
    LET p == Fragments(pattern, 1) IN MatchFrom(p.fixed, Len(p.names), path, 1)

(* dispatch_request(): the first handler whose pattern matches; 0 for none. *)
(* What throws was not registered.                                          *)
Dispatch(patterns, path) ==
    LET m == {i \in 1 .. Len(patterns) : Match(patterns[i], path).ok}
    IN  IF m = {} THEN 0 ELSE CHOOSE i \in m : \A j \in m : i <= j

(* The methods that are known; of a version only its last digit is kept.    *)
GET == <<71, 69, 84>>
Methods == {GET, <<72, 69, 65, 68>>, <<80, 79, 83, 84>>, <<80, 85, 84>>,                    \* HEAD, POST, PUT
            <<68, 69, 76, 69, 84, 69>>, <<67, 79, 78, 78, 69, 67, 84>>,                     \* DELETE, CONNECT
            <<79, 80, 84, 73, 79, 78, 83>>, <<84, 82, 65, 67, 69>>,                         \* OPTIONS, TRACE
            <<80, 65, 84, 67, 72>>, <<80, 82, 73>>}                                         \* PATCH, PRI
Versions == {<<48>>, <<49>>}

(* write_request_line() and parse_request_line(), the target of which is cut*)
(* at a fragment and divided into path and query                            *)
RequestLine(method, target) == method \o <<32>> \o target \o <<32, 49, Byte("cr"), Byte("lf")>>

BadRequestLine == [ok |-> FALSE, path |-> <<>>, params |-> <<>>]

ParseRequestLine(line) ==
    LET n      == Len(line) - 2
        words  == Split(SubSeq(line, 1, n), 32)
        target == SubSeq(words[2], 1, FirstOf(words[2], 35) - 1)
        parts  == Divide(target, Byte("?"))
    IN  IF n < 0 \/ SubSeq(line, n + 1, n + 2) # <<Byte("cr"), Byte("lf")>> THEN BadRequestLine
        ELSE IF Len(words) # 3 THEN BadRequestLine
        ELSE IF words[1] \notin Methods \/ words[3] \notin Versions THEN BadRequestLine
        ELSE [ok |-> TRUE, path |-> DecodeUrl(parts[1], FALSE), params |-> ParseQuery(parts[2])]

-----------------------------------------------------------------------------
(* Properties: what the functions are for, said in another way *)

(* base64_encode(): three bytes are four letters of six bits, and the end is *)
(* padded - so that a decoder gets the bytes back                           *)
Sextet(c) == IF c \in Upper THEN c - 65 ELSE IF c \in Lower THEN c - 71 ELSE IF c \in Digits THEN c + 4
             ELSE IF c = 43 THEN 62 ELSE IF c = 47 THEN 63 ELSE 0

Base64Agrees(s) ==
    LET e    == Base64Encode(s)
        bits(i) == LET j == 4 * ((i - 1) \div 3)
                   IN  ((Sextet(e[j + 1]) * 64 + Sextet(e[j + 2])) * 64 + Sextet(e[j + 3])) * 64 + Sextet(e[j + 4])
        byte(i) == (bits(i) \div 256 ^ (2 - ((i - 1) % 3))) % 256
    IN  /\ Len(e) = 4 * ((Len(s) + 2) \div 3)
        /\ \A i \in 1 .. Len(s) : byte(i) = s[i]
        /\ Cardinality({i \in 1 .. Len(e) : e[i] = Byte("=")}) = (-Len(s)) % 3

(* to_utf8(): the code point is what the bits of its bytes say, it takes as  *)
(* few bytes as possible, and a surrogate has none                          *)
Utf8Agrees(code) ==
    LET u == ToUtf8(code)
        lead == IF Len(u) = 1 THEN 0 ELSE IF Len(u) = 2 THEN 192 ELSE IF Len(u) = 3 THEN 224 ELSE 240
    IN  IF code \in 55296 .. 57343 THEN u = <<>>
        ELSE /\ FoldLeft(LAMBDA v, c : v * 64 + (c - 128), u[1] - lead, Tail(u)) = code
             /\ \A i \in 2 .. Len(u) : u[i] \in 128 .. 191
             /\ Len(u) > 1 => code >= <<0, 128, 2048, 65536>>[Len(u)]

(* What one side escapes the other decodes: a value of a query, whatever its *)
(* bytes are; a URL up to its first NUL, unless it has a percent sign before *)
(* that, which is left as it is; and a chunk length.  A percent sign that no *)
(* digits follow stays.                                                     *)
EscapesAgree(s) ==
    /\ DecodeUrl(EncodeQueryParam(s), TRUE) = s
    /\ \A n \in {k \in 0 .. Len(s) : k = Len(s) \/ s[k + 1] = 0} :
          (\A i \in 1 .. n : s[i] \notin {0, Byte("%")}) => DecodeUrl(EncodeUrl(s), FALSE) = SubSeq(s, 1, n)
    /\ (\A i \in 1 .. Len(s) : s[i] = Byte("%") => FromHex(s, i + 1, 2) = -1 /\ FromHex(s, i + 2, 4) = -1)
          => DecodeUrl(s, FALSE) = s
    /\ \A i \in 1 .. Len(s) : LET n == FoldLeft(LAMBDA v, c : v * 256 + c, 0, SubSeq(s, 1, IF i < 3 THEN i ELSE 3))
                               IN  FromHex(ToHex(n), 1, Len(ToHex(n))) = n

(* A query that a client makes is what the server reads, as long as the keys*)
(* - which are not escaped - are plain and no pair comes twice; whatever the *)
(* method is, if it is one that the server knows.                           *)
QueriesAgree(params) ==
    LET plain(k) == k # <<>> /\ \A i \in 1 .. Len(k) : k[i] \in Alnum
    IN  (\A i \in 1 .. Len(params) : plain(params[i][1]) /\ \A j \in 1 .. i - 1 : params[i] # params[j])
        => /\ ParseQuery(ParamsToQuery(params)) = params
           /\ \A m \in {GET, <<68, 69, 76, 69, 84, 69>>, <<71>>} :
                 LET r == ParseRequestLine(RequestLine(m, EncodeUrl(<<47, 63>> \o ParamsToQuery(params))))
                 IN  IF m \in Methods THEN r.ok /\ r.path = <<47>> /\ r.params = params ELSE ~r.ok

(* Headers that set_header() lets in are read by the other side as they were*)
(* set, in order, and nothing else is: no value ends a line or the headers  *)
(* early.  A value with a percent sign is decoded on the way.  Headers one of *)
(* which is too long are refused, although set_header() lets it in.         *)
HeadersAgree(headers) ==
    LET kept == SetHeaders(headers)
        r    == ReadHeaders(HeadersText(kept) \o <<1, 2>>)
        fits == \A i \in 1 .. Len(kept) : Len(kept[i][1]) + Len(kept[i][2]) + 4 <= HeaderMaxLength
    IN  IF fits
        THEN /\ r.ok /\ r.rest = <<1, 2>>
             /\ r.headers = [i \in 1 .. Len(kept) |-> <<kept[i][1], DecodeUrl(kept[i][2], FALSE)>>]
        ELSE ~r.ok

(* A path is valid when no prefix of it leads above the mount point.        *)
PathsAgree(path) ==
    LET c == Components(path)
        up(n)   == Cardinality({i \in 1 .. n : c[i] = DotDot})
        down(n) == Cardinality({i \in 1 .. n : c[i] \notin {DotDot, <<46>>}})
        bad     == \E i \in 1 .. Len(path) : path[i] \in {0, 92}
    IN  IsValidPath(path) <=> ~bad /\ \A n \in 1 .. Len(c) : up(n) <= down(n)

(* A pattern with parameters matches a path of the same segments, and each *)
(* parameter is the segment at its place.  A slash at the end, after a      *)
(* parameter, may be in the pattern or in the path or not.  A pattern with  *)
(* two parameters of one name is refused.                                   *)
RECURSIVE Segments(_)
Segments(s) ==
    LET e == FirstOf(s, Byte("/"))
    IN  <<SubSeq(s, 1, e - 1)>> \o (IF e > Len(s) THEN <<>> ELSE Segments(SubSeq(s, e + 1, Len(s))))

RoutesAgree(pattern, path) ==
    LET q == Segments(pattern)
        s == Segments(path)
        param(t)   == t # <<>> /\ t[1] = Byte(":")
        slashed(t, n) == Len(t) > n /\ t[Len(t)] = <<>>
        p == IF Len(q) > 2 /\ param(q[Len(q) - 1]) /\ slashed(q, 1) THEN Front(q) ELSE q
        names == {i \in 2 .. Len(p) : param(p[i])}
        t == IF Len(p) \in names /\ slashed(s, Len(p)) THEN Front(s) ELSE s
        m == Match(pattern, path)
        twice == \E i, j \in names : i # j /\ p[i] = p[j]
    IN  names # {} =>
        /\ Fragments(pattern, 1).throws <=> twice
        /\ ~twice => (m.ok <=> (Len(t) = Len(p) /\ \A i \in 1 .. Len(p) : i \in names \/ p[i] = t[i]))
        /\ ~twice /\ m.ok => m.params = [k \in 1 .. Cardinality(names) |->
                                 t[CHOOSE i \in names : Cardinality({j \in names : j < i}) = k - 1]]
=============================================================================
