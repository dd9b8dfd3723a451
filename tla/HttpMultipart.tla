---------------------------- MODULE HttpMultipart ----------------------------
(***************************************************************************)
(* Multipart forms of httplib.hpp: serialize_multipart_formdata() and the   *)
(* provider of get_multipart_content_provider(), which write them, and      *)
(* MultipartFormDataParser, which gets them in pieces, as the network       *)
(* delivers them.                                                           *)
(*                                                                         *)
(* Text is a sequence of characters.  One of them stands for the boundary   *)
(* proper; a header line is one or more characters, "n" for a               *)
(* Content-Disposition with a name, "t" for any other header, and the rest  *)
(* cannot be parsed.                                                        *)
(***************************************************************************)
EXTENDS Integers, Sequences, FiniteSets, SequencesExt

CONSTANT HeaderMaxLength  \* CPPHTTPLIB_HEADER_MAX_LENGTH

Dash == <<"-", "-">>
CRLF == <<"r", "l">>
Boundary == <<"b">>
DashBoundaryCRLF == Dash \o Boundary \o CRLF
CRLFDashBoundary == CRLF \o Dash \o Boundary

(* serialize_multipart_formdata_item_begin(), _item_end() and _finish()     *)
ItemBegin(item) ==
    DashBoundaryCRLF \o FlattenSeq([i \in 1 .. Len(item.headers) |-> item.headers[i] \o CRLF]) \o CRLF
ItemEnd == CRLF
FormEnd == Dash \o Boundary \o Dash \o CRLF

SerializeItems(items) ==
    FlattenSeq([i \in 1 .. Len(items) |-> ItemBegin(items[i]) \o items[i].content \o ItemEnd])

Serialize(items) == SerializeItems(items) \o FormEnd

(* get_multipart_content_provider(): the calls of the provider, one after   *)
(* the other.  The items come first, all in one call; then each item with a *)
(* provider of its own, which gives its content byte by byte and with the   *)
(* last call says that it is done.                                          *)
RECURSIVE Provided(_, _, _, _, _)
Provided(items, own, offset, cur, start) ==
    IF offset = 0 /\ items # <<>>
    THEN LET out == SerializeItems(items) IN out \o Provided(items, own, offset + Len(out), cur, start)
    ELSE IF cur <= Len(own)
    THEN LET begin == IF start = 0 THEN ItemBegin(own[cur]) ELSE <<>>
             from  == IF start = 0 THEN offset + Len(begin) ELSE start
             at    == (offset + Len(begin)) - from
             more  == at < Len(own[cur].content)
             out   == begin \o IF more THEN <<own[cur].content[at + 1]>> ELSE ItemEnd
         IN  out \o Provided(items, own, offset + Len(out), IF more THEN cur ELSE cur + 1, IF more THEN from ELSE 0)
    ELSE FormEnd

ProviderOutput(items, own) == Provided(items, own, 0, 1, 0)

-----------------------------------------------------------------------------
(* MultipartFormDataParser *)

(* state_ (5 once the end was seen, for a state_ of 4 with is_valid_), the   *)
(* buffer, whether it still parses, and what the callbacks were told.        *)
ParserInit == [state |-> 0, buf |-> <<>>, ok |-> TRUE, valid |-> FALSE, headers |-> <<>>, parts |-> <<>>]

StartsWith(s, t) == Len(s) >= Len(t) /\ SubSeq(s, 1, Len(t)) = t

(* buf_find(): the offset of the first occurrence, the size of the buffer if *)
(* there is none *)
Find(s, t) ==
    LET found == {i \in 0 .. Len(s) - Len(t) : SubSeq(s, i + 1, i + Len(t)) = t}
    IN  IF found = {} THEN Len(s) ELSE CHOOSE i \in found : \A j \in found : i <= j

Erase(p, n) == [p EXCEPT !.buf = SubSeq(@, n + 1, Len(@))]

AppendContent(p, text) == [p EXCEPT !.parts[Len(p.parts)].content = @ \o text]

Fails(p) == [p EXCEPT !.ok = FALSE]

(* The cases of parse(): each gives the parser, and whether it waits for     *)
(* more to come.                                                            *)
Goes(p)  == [p |-> p, waits |-> FALSE]
Waits(p) == [p |-> p, waits |-> TRUE]

InitialBoundary(p) ==
    LET q == Erase(p, Find(p.buf, DashBoundaryCRLF))
    IN  IF Len(DashBoundaryCRLF) > Len(q.buf) THEN Waits(q)
        ELSE Goes([Erase(q, Len(DashBoundaryCRLF)) EXCEPT !.state = 1])

NewEntry(p) == Goes([p EXCEPT !.state = 2, !.headers = <<>>])

(* One line of the headers, the empty line ends them.  How long a line is    *)
(* is looked at while its end has not come yet, too: then it is all there is. *)
HeaderLine(p) ==
    LET pos  == Find(p.buf, CRLF)
        line == SubSeq(p.buf, 1, pos)
        next == Erase(p, pos + Len(CRLF))
    IN  IF pos > HeaderMaxLength THEN Goes(Fails(p))
        ELSE IF pos >= Len(p.buf) THEN Waits(p)
        ELSE IF pos = 0
             THEN Goes([next EXCEPT !.state = 3, !.parts = Append(@, [headers |-> p.headers, content |-> <<>>])])
        ELSE IF \E i \in 1 .. Len(line) : line[i] \notin {"n", "t"} THEN Goes(Fails(p))
        ELSE Goes([next EXCEPT !.headers = Append(@, line)])

(* Mutant: all of the buffer is content when the boundary is not in it. *)
PartBodyGreedy(p) ==
    LET pos == Find(p.buf, CRLFDashBoundary)
    IN  IF pos < Len(p.buf)
        THEN Goes([Erase(AppendContent(p, SubSeq(p.buf, 1, pos)), pos + Len(CRLFDashBoundary)) EXCEPT !.state = 4])
        ELSE Waits(Erase(AppendContent(p, p.buf), Len(p.buf)))

(* Content is handed over as far as it cannot be the boundary.              *)
PartBody(p) ==
    LET pos  == Find(p.buf, CRLFDashBoundary)
        safe == Len(p.buf) - Len(CRLFDashBoundary)
    IN  IF safe < 0 THEN Waits(p)
        ELSE IF pos < Len(p.buf)
        THEN Goes([Erase(AppendContent(p, SubSeq(p.buf, 1, pos)), pos + Len(CRLFDashBoundary)) EXCEPT !.state = 4])
        ELSE Waits(Erase(AppendContent(p, SubSeq(p.buf, 1, safe)), safe))

AfterBoundary(p) ==
    IF Len(CRLF) > Len(p.buf) THEN Waits(p)
    ELSE IF StartsWith(p.buf, CRLF) THEN Goes([Erase(p, Len(CRLF)) EXCEPT !.state = 1])
    ELSE IF StartsWith(p.buf, Dash) THEN Goes([p EXCEPT !.buf = <<>>, !.valid = TRUE])
    ELSE Waits(p)

(* The loop of parse()                                                      *)
RECURSIVE ParseLoop(_)
ParseLoop(p) ==
    IF p.buf = <<>> THEN p
    ELSE LET t == CASE p.state = 0 -> InitialBoundary(p)
                    [] p.state = 1 -> NewEntry(p)
                    [] p.state = 2 -> HeaderLine(p)
                    [] p.state = 3 -> PartBody(p)
                    [] p.state = 4 -> AfterBoundary(p)
         IN  IF t.waits \/ ~t.p.ok THEN t.p ELSE ParseLoop(t.p)

(* read_content_core() stops at the first piece that parse() refuses.       *)
Parse(p, piece) == IF p.ok THEN ParseLoop([p EXCEPT !.buf = @ \o piece]) ELSE p

ParseAll(pieces) == FoldLeft(Parse, ParserInit, pieces)

-----------------------------------------------------------------------------
(* Properties *)

(* What the server's handler gets to see of a form                          *)
Seen(p) == [valid |-> p.ok /\ p.valid, parts |-> IF p.ok /\ p.valid THEN p.parts ELSE <<>>]

(* The text in two or three pieces, and character by character              *)
Splits(text) ==
    {<<SubSeq(text, 1, c[1]), SubSeq(text, c[1] + 1, c[2]), SubSeq(text, c[2] + 1, Len(text))>> :
        c \in {d \in (0 .. Len(text)) \X (0 .. Len(text)) : d[1] <= d[2]}}
    \cup {[i \in 1 .. Len(text) |-> <<text[i]>>]}

(* The first piece holds all of the first boundary. *)
BoundaryAtOnce(pieces) ==
    \E i \in 1 .. Len(pieces) :
        /\ Find(pieces[i], DashBoundaryCRLF) < Len(pieces[i])
        /\ \A j \in 1 .. i - 1 : pieces[j] = <<>>

Expected(items) ==
    [valid |-> TRUE,
     parts |-> [i \in 1 .. Len(items) |-> [headers |-> items[i].headers, content |-> items[i].content]]]

(* A form that a client writes, from items or from providers, is read by    *)
(* the server as it was meant: every part once and in order, with its       *)
(* headers and content, however the network cuts it - provided the first    *)
(* boundary arrives in one piece and each header line is shorter than the    *)
(* limit.  A form with one that is longer is refused; where a line is just of *)
(* that length it depends on the cut, but the form is read whole or refused.  *)
FormsAreRead(items, own) ==
    LET text == ProviderOutput(items, own)
        all  == items \o own
        lengths == UNION {{Len(all[i].headers[h]) : h \in DOMAIN all[i].headers} : i \in DOMAIN all}
    IN  /\ text = Serialize(all)
        /\ \A pieces \in Splits(text) :
              BoundaryAtOnce(pieces) /\ all # <<>> =>
                  LET seen == Seen(ParseAll(pieces))
                  IN  /\ (\A n \in lengths : n < HeaderMaxLength) => seen = Expected(all)
                      /\ (\E n \in lengths : n > HeaderMaxLength) => ~seen.valid
                      /\ (\A n \in lengths : n <= HeaderMaxLength) => seen = Expected(all) \/ ~seen.valid

(* "For debug", read_content_core() hands the text over byte by byte.  The   *)
(* pieces should not matter: violated, since the parser drops the beginning *)
(* of a first boundary that is not complete yet.                            *)
SplitsDoNotMatter(items, own) ==
    LET text == ProviderOutput(items, own)
    IN  \A pieces \in Splits(text) : Seen(ParseAll(pieces)) = Seen(ParseAll(<<text>>))
=============================================================================
