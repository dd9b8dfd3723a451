---------------------------- MODULE HttpMessages ----------------------------
(***************************************************************************)
(* What a ClientImpl and a Server of httplib.hpp write to each other over   *)
(* one connection, exchange after exchange: the framing of the messages.    *)
(*                                                                         *)
(* The two directions are sequences of units.  A "head" is a start line     *)
(* with its headers, a "data" unit a byte of content, a "chunk" the same    *)
(* with the chunk around it, "end" the last chunk.  A unit carries the      *)
(* number of the call it belongs to.  Who reads n bytes gets the next n     *)
(* units, whatever they are.                                                *)
(*                                                                         *)
(* What the user of the client asks for (Calls) and what the handlers of    *)
(* the server do (Handlings) is a free choice.  The build has no            *)
(* compression and no SSL.                                                  *)
(***************************************************************************)
EXTENDS HttpRanges

CONSTANTS
    Calls,       \* what the user may ask for, of UserCall
    Handlings,   \* what the server may make of it, of Handling
    MaxPayload,  \* payload_max_length_
    MaxCalls     \* bound: calls of the user

NoLength == -1  \* no Content-Length

(* A call of Get(), Post(), ... or of send(): the content it has, who gives *)
(* it, the ranges it asks for, the headers the user added.                  *)
UserCall == [method : {"GET", "HEAD", "POST", "PUT", "PATCH", "DELETE", "OPTIONS"},
             provider : {"none", "length", "chunked"}, size : Nat,
             type : {"plain", "multipart", "form"}, ranges : Seq(Int \X Int),
             expect : BOOLEAN, close : BOOLEAN]

(* line: how the request line and the headers are found; expect: what the   *)
(* handler of "Expect: 100-continue" says; route: who handles the request;  *)
(* reads: what a handler with a content reader reads before it gives up;     *)
(* form: how the content is found, a form that has no boundary ("bad"),      *)
(* cannot be parsed or has too many parts ("broken"), has no end or is too   *)
(* long, or content of an encoding that the build has not; content, size and *)
(* status: what the handler sets, status -1 when it sets none; fate: whether *)
(* it throws, or its content provider gives up.                              *)
Handling == [line : {"good", "bad", "long"}, expect : {100, 403, 417},
             route : {"none", "preRouting", "file", "reader", "regular"},
             reads : {"all", "some", "nothing"},
             form : {"good", "bad", "broken", "unfinished", "tooLong", "encoded"},
             content : {"none", "body", "provider", "chunked", "endless", "missing"},
             size : Nat, status : {-1} \cup 200 .. 599,
             fate : {"returns", "throws", "fails"}, errorHandler : BOOLEAN]

ASSUME MessagesAssumption ==
    /\ Calls \subseteq UserCall /\ Handlings \subseteq Handling
    /\ MaxPayload \in Nat /\ MaxCalls \in Nat

VARIABLES
    up, down,   \* what is on its way to the server, and to the client
    open,       \* whether the client and the server keep the connection
    phase,      \* "idle", "sent" (the client waits for the answer), "aborted"
    call,       \* the call in progress, or the last one
    number,     \* its number
    reply,      \* what the client has made of the answer
    given,      \* history: what the server has seen of the call and written for it
    odd         \* history: one of the exchanges of this connection was one of OddExchange

MGvars == <<up, down, open, phase, call, number, reply, given, odd>>

NoReply == [ok |-> FALSE, of |-> 0, status |-> 0, size |-> 0]
NotGiven == [seen |-> 0, read |-> FALSE, size |-> 0, whole |-> FALSE]

NoContent(m) == [method |-> m, provider |-> "none", size |-> 0, type |-> "plain", ranges |-> <<>>,
                 expect |-> FALSE, close |-> FALSE]

MGTypeOK ==
    /\ open \in [client : BOOLEAN, server : BOOLEAN]
    /\ phase \in {"idle", "sent", "aborted"}
    /\ number \in 0 .. MaxCalls /\ (number > 0 => call \in Calls)
    /\ reply \in [ok : BOOLEAN, of : 0 .. number, status : Nat, size : Nat]
    /\ given \in [seen : Nat, read : BOOLEAN, size : Nat, whole : BOOLEAN] /\ odd \in BOOLEAN
    /\ \A s \in {up, down} : \A i \in 1 .. Len(s) :
          /\ s[i].unit \in {"head", "data", "chunk", "end"}
          /\ s[i].of \in 0 .. number
          /\ s[i].unit = "head" => s[i].len \in Nat \cup {NoLength}

MGInit ==
    /\ up = <<>> /\ down = <<>>
    /\ open = [client |-> FALSE, server |-> FALSE]
    /\ phase = "idle" /\ number = 0 /\ call = NoContent("GET")
    /\ reply = NoReply /\ given = NotGiven /\ odd = FALSE

----------------------------------------------------------------------------
(* Get(), Head(), Post(), ... of ClientImpl: the calls each of them makes.   *)

GetCalls == {NoContent("GET")}
HeadCalls == {NoContent("HEAD")}
OptionsCalls == {NoContent("OPTIONS")}

(* Post(), Put() and Patch(): no content, a string, parameters, a provider   *)
(* with a length and one without; Post() and Put() have multipart items,     *)
(* serialised, and with providers for some of them.                          *)
WithContent(m, sizes) ==
    {[NoContent(m) EXCEPT !.size = n] : n \in sizes}
    \cup {[NoContent(m) EXCEPT !.provider = p, !.size = n] : p \in {"length", "chunked"}, n \in sizes}

WithForms(m, sizes) ==
    WithContent(m, sizes)
    \cup {[NoContent(m) EXCEPT !.type = "form", !.size = n] : n \in sizes}
    \cup {[NoContent(m) EXCEPT !.type = "multipart", !.provider = p, !.size = n] :
            p \in {"none", "chunked"}, n \in sizes \ {0}}

PostCalls(sizes) == WithForms("POST", sizes)
PutCalls(sizes) == WithForms("PUT", sizes)
PatchCalls(sizes) == WithContent("PATCH", sizes)
DeleteCalls(sizes) == {[NoContent("DELETE") EXCEPT !.size = n] : n \in sizes}

-----------------------------------------------------------------------------
(* The client writes *)

Unit(k, n) == [unit |-> k, of |-> n]
Units(k, n, count) == [i \in 1 .. count |-> Unit(k, n)]
Chunked(n, count) == Append(Units("chunk", n, count), Unit("end", n))

(* write_request(): the length of the content, and "0" for the methods that *)
(* are expected to have some *)
RequestLength(c) ==
    IF c.provider = "chunked" THEN NoLength
    ELSE IF c.size > 0 \/ c.provider = "length" \/ c.method \in {"POST", "PUT", "PATCH"} THEN c.size
    ELSE NoLength

(* send_with_content_provider() and write_request(): the headers *)
RequestHead(c, n) ==
    [unit |-> "head", of |-> n, method |-> c.method, len |-> RequestLength(c), chunked |-> c.provider = "chunked",
     close |-> c.close, type |-> c.type, ranges |-> c.ranges, expect |-> c.expect]

(* ClientImpl::write_content_with_provider() *)
RequestContent(c, n) == IF c.provider = "chunked" THEN Chunked(n, c.size) ELSE Units("data", n, c.size)

(* send_(): a connection that is still alive is used again (for             *)
(* is_socket_alive() one that has something to read is); what lay in another *)
(* is gone.  A provider may give up, and then the client closes.             *)
Send(c) ==
    LET n     == number + 1
        again == open.client /\ (open.server \/ down # <<>>)
        sent(units) == (IF again THEN up ELSE <<>>) \o units
    IN  /\ phase = "idle" /\ number < MaxCalls
        /\ number' = n /\ call' = c /\ reply' = NoReply /\ given' = NotGiven
        /\ down' = IF again THEN down ELSE <<>>
        /\ odd' = (again /\ odd)
        /\ \/ /\ up' = sent(<<RequestHead(c, n)>> \o RequestContent(c, n))
              /\ open' = [client |-> TRUE, server |-> again => open.server]
              /\ phase' = "sent"
           \/ /\ c.provider # "none" /\ c.size > 0
              /\ up' = sent(<<RequestHead(c, n)>>)
              /\ open' = [client |-> FALSE, server |-> again => open.server]
              /\ phase' = "idle"

-----------------------------------------------------------------------------
(* The server reads *)

Position(s, k) == {i \in 1 .. Len(s) : s[i].unit \in k}

Drop(s, n) == SubSeq(s, n + 1, Len(s))

(* What is left of s by who reads a line, or a piece, that ends in unit i:   *)
(* of any unit but a byte of content the end, which is no unit.             *)
StopAt(s, i) == IF s[i].unit = "data" THEN Drop(s, i) ELSE <<Unit("data", s[i].of)>> \o Drop(s, i)

(* The next line ends at one of the bytes that come first - content may be  *)
(* anything -, or with the first line of what comes after them.             *)
LineEnds(s) == {i \in 1 .. Len(s) : \A j \in 1 .. i - 1 : s[j].unit = "data"}

(* read_headers() of what is not headers: it goes on over lines that look   *)
(* like headers, to one that does not, or waits in vain for the end of one.  *)
SkipHeaders(s) ==
    {StopAt(s, i) : i \in LineEnds(s)} \cup (IF \A i \in 1 .. Len(s) : s[i].unit = "data" THEN {<<>>} ELSE {})

(* read_content_with_length(): the next units, whatever they are            *)
ReadWithLength(s, n) ==
    [ok |-> n <= Len(s), size |-> IF n <= Len(s) THEN n ELSE Len(s),
     rest |-> IF n <= Len(s) THEN Drop(s, n) ELSE <<>>]

(* read_content_chunked(): up to the last chunk, and nothing but chunks     *)
ReadChunked(s) ==
    LET other == Position(s, {"head", "data", "end"})
        stop  == IF other = {} THEN Len(s) ELSE Min(other)
    IN  [ok |-> other # {} /\ s[stop].unit = "end", size |-> IF other = {} THEN stop ELSE stop - 1,
         rest |-> Drop(s, stop)]

(* What was read, with the status that the response gets when it is not ok.  *)
WithStatus(b, status) == [ok |-> b.ok, size |-> b.size, rest |-> b.rest, status |-> status]

(* detail::read_content() of the server.  Without a length it would read    *)
(* until the client closes, and give up at its timeout.                     *)
ReadBody(r, s) ==
    IF r.chunked THEN WithStatus(ReadChunked(s), 400)
    ELSE IF r.len = NoLength THEN [ok |-> FALSE, size |-> Len(s), rest |-> <<>>, status |-> 400]
    ELSE IF r.len > MaxPayload
         THEN [ok |-> FALSE, size |-> 0, rest |-> ReadWithLength(s, r.len).rest, status |-> 413]
    ELSE WithStatus(ReadWithLength(s, r.len), 400)

(* Mutant: the content of a form that is refused is left where it is. *)
ReadContentUnread(r, s, h) ==
    IF r.type = "form" /\ h.form = "tooLong"
    THEN [ok |-> FALSE, size |-> 0, rest |-> s, status |-> 413] ELSE ReadBody(r, s)

(* What was read is not what the handler, or the parser, can use. *)
Refused(b, status) == [ok |-> FALSE, size |-> b.size, rest |-> b.rest, status |-> status]

(* The content is not looked at. *)
NotRead(s) == [ok |-> TRUE, size |-> 0, rest |-> s, status |-> 400]

(* A receiver that returns false ends the reading where it is. *)
GivenUp(s) == [ok |-> FALSE, size |-> 1, rest |-> StopAt(s, 1), status |-> 400]

(* read_content_core(), with prepare_content_receiver(): a multipart form    *)
(* without a boundary is refused before it is read, one that cannot be       *)
(* parsed in the middle, one that is not finished at its end; a DELETE       *)
(* without a length has no content; an encoding is not supported.           *)
ReadContentCore(r, s, h) ==
    LET b == ReadBody(r, s)
        m == r.type = "multipart"
    IN  IF m /\ h.form = "bad" THEN Refused(NotRead(s), 400)
        ELSE IF r.method = "DELETE" /\ r.len = NoLength THEN NotRead(s)
        ELSE IF h.form = "encoded" THEN Refused(NotRead(s), 415)
        ELSE IF m /\ h.form = "broken" /\ b.size > 0 THEN GivenUp(s)
        ELSE IF b.ok /\ m /\ (h.form = "unfinished" \/ b.size = 0) THEN Refused(b, 400)
        ELSE b

(* read_content(): a form that is too long is refused.                      *)
ReadContent(r, s, h) ==
    LET b == ReadContentCore(r, s, h)
    IN  IF b.ok /\ r.type = "form" /\ h.form = "tooLong" THEN Refused(b, 413) ELSE b

(* What a handler with a content reader makes of read_content_core()        *)
ReadByHandler(r, s, h) ==
    LET b == ReadContentCore(r, s, h)
    IN  CASE h.reads = "all" -> b
          [] h.reads = "some" -> IF b.size > 0 THEN GivenUp(s) ELSE b
          [] h.reads = "nothing" -> NotRead(s)

ExpectContent(r) == r.method \in {"POST", "PUT", "PATCH", "DELETE"} \/ r.len > 0 \/ r.chunked

(* handle_file_request(): there is a file, or a directory, of this name     *)
ServesFile(method, h) == h.route = "file" /\ method \in {"GET", "HEAD"}

(* dispatch_request_for_content_reader()                                    *)
HasReader(r, h) == h.route = "reader" /\ r.method \in {"POST", "PUT", "PATCH", "DELETE"}

(* routing(): who handles the request, and what is read before that         *)
Routing(r, s, h) ==
    LET unread == NotRead(s)
        read   == ReadContent(r, s, h)
        early  == h.route = "preRouting" \/ ServesFile(r.method, h)
    IN  IF early THEN [routed |-> TRUE, handler |-> TRUE, read |-> FALSE, in |-> unread]
        ELSE IF HasReader(r, h)
             THEN [routed |-> TRUE, handler |-> TRUE, read |-> h.reads # "nothing", in |-> ReadByHandler(r, s, h)]
        ELSE IF ExpectContent(r) /\ ~read.ok THEN [routed |-> FALSE, handler |-> FALSE, read |-> TRUE, in |-> read]
        ELSE [routed |-> h.route = "regular", handler |-> h.route = "regular", read |-> ExpectContent(r),
              in |-> IF ExpectContent(r) THEN read ELSE unread]

-----------------------------------------------------------------------------
(* The server writes *)

Nothing == [body |-> 0, length |-> 0, provider |-> "none"]

(* set_content(), set_content_provider(), set_chunked_content_provider() and *)
(* set_file_content()                                                        *)
Content(h) ==
    CASE h.content = "body"     -> [Nothing EXCEPT !.body = h.size]
      [] h.content = "provider" -> [Nothing EXCEPT !.length = h.size, !.provider = IF h.size > 0 THEN "length" ELSE "none"]
      [] h.content \in {"chunked", "endless"} -> [Nothing EXCEPT !.provider = h.content]
      [] OTHER -> Nothing

(* Mutant: the length of the whole content for a range. *)
AnnouncedWhole(r, status, x) == IF x.body > 0 THEN x.body ELSE IF x.length > 0 THEN x.length ELSE NoLength

(* The Content-Length of apply_ranges()                                     *)
Announced(r, status, x) ==
    LET whole == IF x.body > 0 THEN x.body ELSE x.length
    IN  IF whole = 0 THEN NoLength
        ELSE IF r.ranges = <<>> \/ status # 206 THEN whole
        ELSE IF Len(r.ranges) = 1 THEN OffsetAndLength(r.ranges[1]).length
        ELSE MultipartRangesLength(r.ranges)

(* What is written of the content: the body, cut by apply_ranges(), or what *)
(* write_content_with_provider() asks the provider for                      *)
Written(r, status, x, h) ==
    IF x.body > 0 THEN Announced(r, status, x)
    ELSE IF x.length > 0
         THEN IF r.ranges = <<>> THEN x.length
              ELSE IF Len(r.ranges) = 1 THEN OffsetAndLength(r.ranges[1]).length
              ELSE MultipartRangesLength(r.ranges)
    ELSE IF x.provider = "none" THEN 0 ELSE h.size

(* The asserts of get_range_offset_and_length(), called by apply_ranges()    *)
(* and by write_content_with_provider()                                      *)
AssertsHold(r, status, x) ==
    LET whole == IF x.body > 0 THEN x.body ELSE x.length
    IN  (\/ whole > 0 /\ status = 206
         \/ x.body = 0 /\ x.length > 0 /\ r.method # "HEAD")
        => \A i \in 1 .. Len(r.ranges) : RangeAsserted(r.ranges[i], whole)

Answer(status, n, len, chunked, close) ==
    [unit |-> "head", of |-> n, status |-> status, len |-> len, chunked |-> chunked, close |-> close]

(* write_response_core().  apply: write_response_with_content(), or an error *)
(* handler that handled the error (it sets a body where there is none).      *)
WriteResponse(r, status, x, h, apply, close) ==
    LET helped  == status >= 400 /\ h.errorHandler
        y       == IF helped /\ x = Nothing THEN [Nothing EXCEPT !.body = 1] ELSE x
        applied == apply \/ helped
        len     == IF y = Nothing THEN 0 ELSE IF applied THEN Announced(r, status, y) ELSE NoLength
        chunked == applied /\ y.body = 0 /\ y.length = 0 /\ y.provider = "chunked"
        count   == Written(r, status, y, h)
        units   == IF r.method = "HEAD" THEN <<>>
                   ELSE IF y.body = 0 /\ y.provider = "chunked" THEN Chunked(r.of, count)
                   ELSE Units("data", r.of, count)
    IN  [head |-> Answer(status, r.of, len, chunked, close \/ r.close), units |-> units,
         fails |-> h.fate = "fails" /\ y.body = 0 /\ y.provider # "none" /\ units # <<>>,
         asserts |-> applied => AssertsHold(r, status, y)]

Plain(r, status, h, close) == WriteResponse([r EXCEPT !.ranges = <<>>], status, Nothing, h, FALSE, close)

(* What the handler has set: the content, and the status or the default one. *)
ResponseContent(route, h) == IF route.handler THEN Content(h) ELSE Nothing

(* Reading that failed has set one that the handler may overwrite.           *)
ResponseStatus(r, route, h) ==
    IF h.status # -1 THEN h.status
    ELSE IF route.read /\ ~route.in.ok THEN route.in.status
    ELSE IF r.ranges = <<>> THEN 200 ELSE 206

(* process_request() after routing(): the status, a file that is not there, *)
(* and ranges that cannot be served.  What a handler that throws has set is *)
(* written all the same.                                                    *)
Respond(r, route, h, close) ==
    LET threw  == route.handler /\ h.fate = "throws"
        x      == ResponseContent(route, h)
        status == ResponseStatus(r, route, h)
        served == RangeError(r.ranges, status, IF x.length > 0 THEN x.length ELSE x.body)
    IN  IF threw THEN WriteResponse([r EXCEPT !.ranges = <<>>], 500, x, h, FALSE, close)
        ELSE IF ~route.routed THEN Plain(r, IF route.in.ok THEN 404 ELSE route.in.status, h, close)
        ELSE IF h.content = "missing" THEN Plain(r, 404, h, close)
        ELSE IF served.error THEN Plain(r, 416, h, close)
        ELSE WriteResponse([r EXCEPT !.ranges = served.ranges], status, x, h, TRUE, close)

-----------------------------------------------------------------------------
(* The exchanges *)

(* A stream of its own reads and writes each exchange, and reads ahead: of   *)
(* what an exchange leaves in the socket, its buffer takes some away.        *)
ReadAhead(s) == {Drop(s, n) : n \in 0 .. Len(s)}

Deliver(out, rest, closes) ==
    /\ down' = down \o out
    /\ up' \in ReadAhead(rest)
    /\ open' = [open EXCEPT !.server = ~closes]
    /\ UNCHANGED <<phase, call, number, reply>>

(* What does not begin with a request line is answered as a bad request,    *)
(* line by line, the one that it spoils too; without an end of the line the  *)
(* server waits in vain, and closes.  last: keep_alive_max_count_ is reached. *)
ServeRubbish ==
    /\ open.server /\ up # <<>> /\ up[1].unit # "head"
    /\ \/ \E i \in LineEnds(up), last \in BOOLEAN : Deliver(<<Answer(400, 0, 0, FALSE, last)>>, StopAt(up, i), last)
       \/ (\A i \in 1 .. Len(up) : up[i].unit = "data") /\ Deliver(<<>>, <<>>, TRUE)
    /\ UNCHANGED <<given, odd>>

(* The handler with a content reader goes on although it could not read.    *)
ReadingFails(c, h) ==
    LET route == Routing(RequestHead(c, number), RequestContent(c, number), h)
    IN  route.handler /\ route.read /\ ~route.in.ok

(* The exchanges that the code lets get out of step, and that the properties *)
(* leave out: the server answers, or lets the handler answer, without having *)
(* read the headers or all of the content; it writes a 417 and the answer;   *)
(* it writes content that the client does not read, more or less content     *)
(* than it announced, or content whose end only the close of the connection  *)
(* shows.                                                                    *)
OddExchange(c, h) ==
    LET content == c.size > 0 \/ c.provider = "chunked"
        early   == \/ c.ranges # <<>> /\ ~ParseRangeHeader(RangeHeader(c.ranges)).ok
                   \/ h.route = "preRouting" \/ ServesFile(c.method, h)
                   \/ HasReader(c, h) /\ h.reads # "all"
                   \/ c.type = "multipart" /\ h.form \in {"bad", "broken"}
                   \/ h.line = "long" \/ h.form = "encoded"
                   \/ c.method = "DELETE" /\ c.provider = "chunked"
    IN  \/ h.line = "bad"
        \/ content /\ early
        \/ c.expect /\ h.expect = 417
        \/ h.status \in {204, 304} /\ h.content # "none"
        \/ c.ranges # <<>> /\ h.content = "provider" /\ (h.status \notin {-1, 206} \/ ReadingFails(c, h))
        \/ h.content = "endless"
        \/ h.content # "none" /\ h.fate = "throws"

(* The content of an answer, without the last chunk *)
ContentSize(units) == IF units # <<>> /\ Last(units).unit = "end" THEN Len(units) - 1 ELSE Len(units)

(* The whole answer is written, or what comes before its provider gives up; *)
(* unless an assert ends the process.                                       *)
Write(w, route, before, rest, closes) ==
    IF ~w.asserts
    THEN phase' = "aborted" /\ UNCHANGED <<up, down, open, call, number, reply, given>>
    ELSE \E n \in IF w.fails THEN 0 .. Len(w.units) - 1 ELSE {Len(w.units)} :
            /\ Deliver(before \o <<w.head>> \o SubSeq(w.units, 1, n), rest, closes \/ w.fails)
            /\ given' = [seen |-> route.in.size, read |-> route.handler /\ route.read /\ route.in.ok,
                         size |-> ContentSize(w.units), whole |-> ~w.fails]

(* The answer that the handler of "Expect: 100-continue" gives on its own    *)
Continue(r, h) ==
    IF r.expect /\ h.expect # 403 THEN <<Answer(h.expect, r.of, NoLength, FALSE, FALSE)>> ELSE <<>>

(* process_request() of the server.  last: keep_alive_max_count_ is reached. *)
(* A bad request line or header leaves what comes after it unread; for a     *)
(* target that is too long headers are read that were read already.          *)
Serve(h) ==
    LET r       == up[1]
        s       == Drop(up, 1)
        ranges  == ParseRangeHeader(RangeHeader(r.ranges))
        route   == Routing(r, s, h)
    IN  /\ open.server /\ up # <<>> /\ r.unit = "head"
        /\ odd' = (odd \/ OddExchange(call, h))
        /\ \E last \in BOOLEAN :
              \/ /\ h.line = "bad"
                 /\ \E close \in {FALSE, r.close} :
                       Write(Plain([r EXCEPT !.close = close], 400, h, last), route, <<>>, StopAt(up, 1), last)
              \/ h.line = "long" /\ \E rest \in SkipHeaders(s) : Write(Plain(r, 414, h, last), route, <<>>, rest, last)
              \/ h.line = "good" /\ r.ranges # <<>> /\ ~ranges.ok /\ Write(Plain(r, 416, h, last), route, <<>>, s, r.close \/ last)
              \/ /\ h.line = "good" /\ (r.ranges = <<>> \/ ranges.ok)
                 /\ IF r.expect /\ h.expect = 403
                    THEN Write(Plain(r, 403, h, TRUE), route, <<>>, s, TRUE)
                    ELSE Write(Respond(r, route, h, last), route, Continue(r, h), route.in.rest, r.close \/ last)

(* keep_alive(): the connection is closed when no request comes. *)
IdleClose ==
    /\ open.server /\ up = <<>>
    /\ open' = [open EXCEPT !.server = FALSE]
    /\ UNCHANGED <<up, down, phase, call, number, reply, given, odd>>

(* read_response_line() skips the answers "100 Continue"                     *)
Continues == {n \in 0 .. Len(down) : \A i \in 1 .. n : down[i].unit = "head" /\ down[i].status = 100}
Answers == Drop(down, Max(Continues))

(* detail::read_content() of the client: the units it takes, and whether it *)
(* then has the whole content.  Without a length that is so at the close.    *)
ReadAnswer(a, s) ==
    IF call.method = "HEAD" \/ a.status \in {204, 304} THEN [ok |-> TRUE, size |-> 0, rest |-> s]
    ELSE IF a.chunked THEN ReadChunked(s)
    ELSE IF a.len = NoLength THEN [ok |-> ~open.server, size |-> Len(s), rest |-> <<>>]
    ELSE ReadWithLength(s, a.len)

Finish(r, closes, rest) ==
    /\ reply' = r /\ phase' = "idle"
    /\ open' = [open EXCEPT !.client = ~closes]
    /\ down' \in ReadAhead(rest)
    /\ UNCHANGED <<up, call, number, given, odd>>

(* process_request() of the client, once it can read no more: an answer it   *)
(* understands, whole, or an error, after which it closes.  It closes too    *)
(* when the answer says so.                                                  *)
Receive ==
    /\ phase = "sent"
    /\ \/ /\ Answers # <<>> /\ Answers[1].unit = "head"
          /\ LET a == Answers[1]
                 b == ReadAnswer(a, Drop(Answers, 1))
             IN  b.ok /\ Finish([ok |-> TRUE, of |-> a.of, status |-> a.status, size |-> b.size], a.close, b.rest)
       \/ Finish(NoReply, TRUE, <<>>)

MGNext ==
    \/ \E c \in Calls : Send(c)
    \/ \E h \in Handlings : Serve(h)
    \/ ServeRubbish \/ IdleClose \/ Receive

MGSpec == MGInit /\ [][MGNext]_MGvars

-----------------------------------------------------------------------------
(* Properties *)

(* Between two calls a connection that both sides keep holds nothing: each   *)
(* has read what the other wrote, to the unit, whatever was asked for and    *)
(* however it was answered - but for the exchanges of OddExchange.           *)
KeptConnectionIsInStep ==
    phase = "idle" /\ reply.ok /\ open.client /\ open.server /\ ~odd => up = <<>> /\ down = <<>>

(* An answer that the client reports is the answer to its call, has all the  *)
(* content that the server gave, never the part of it that a provider wrote  *)
(* before it gave up; and the handler saw all the content of the call.       *)
AnswersAreWhole ==
    phase = "idle" /\ reply.ok /\ ~odd =>
        /\ reply.of = number
        /\ given.whole /\ reply.size = given.size
        /\ given.read => given.seen = call.size

(* The same of answers that are well formed. *)
AnswersAreSound == MGTypeOK /\ AnswersAreWhole

(* The asserts of get_range_offset_and_length() hold.                        *)
RangesAreNormalised == phase # "aborted"
=============================================================================
