--------------------------- MODULE MCHttpMessages ---------------------------
(***************************************************************************)
(* Small instances of HttpMessages for TLC: what the users ask for, and    *)
(* what handlers make of it.                                               *)
(***************************************************************************)
EXTENDS HttpMessages

Ranged(m, ranges) == {[NoContent(m) EXCEPT !.ranges = r] : r \in ranges}

MCRanges == {<< <<0, 0>> >>, << <<-1, 1>> >>, << <<0, 0>>, <<1, 1>> >>, << <<1, 0>> >>, << <<2, -1>> >>}

(* The calls of the member functions, and some that only send() makes.     *)
MCCalls ==
    GetCalls \cup HeadCalls \cup OptionsCalls \cup PostCalls(0 .. 2) \cup PatchCalls({0, 1}) \cup DeleteCalls({0, 1})
    \cup Ranged("GET", MCRanges) \cup Ranged("HEAD", {<< <<0, 0>> >>})
    \cup {[NoContent("DELETE") EXCEPT !.provider = "chunked", !.size = 1],
          [NoContent("GET") EXCEPT !.size = 1],
          [NoContent("PUT") EXCEPT !.size = 1, !.ranges = << <<1, 0>> >>],
          [NoContent("PUT") EXCEPT !.size = 2, !.ranges = << <<0, 0>>, <<1, 1>> >>],
          [NoContent("POST") EXCEPT !.size = 1, !.expect = TRUE],
          [NoContent("POST") EXCEPT !.size = 1, !.close = TRUE]}

Usual == [line |-> "good", expect |-> 100, route |-> "regular", reads |-> "all", form |-> "good",
          content |-> "body", size |-> 2, status |-> -1, fate |-> "returns", errorHandler |-> FALSE]

(* Handlings that differ from the usual one in few respects. *)
MCHandlings ==
    {[Usual EXCEPT !.line = l] : l \in {"bad", "long"}}
    \cup {[Usual EXCEPT !.expect = e] : e \in {403, 417}}
    \cup {[Usual EXCEPT !.route = r, !.reads = x] :
            r \in {"none", "preRouting", "file", "reader"}, x \in {"all", "some", "nothing"}}
    \cup {[Usual EXCEPT !.route = "reader", !.content = "provider"]}
    \cup {[Usual EXCEPT !.form = f, !.route = r] :
            f \in {"bad", "broken", "unfinished", "tooLong", "encoded"}, r \in {"regular", "reader"}}
    \cup {[Usual EXCEPT !.content = c, !.size = n, !.fate = f] :
            c \in {"none", "body", "provider", "chunked", "endless", "missing"}, n \in {0, 2},
            f \in {"returns", "throws", "fails"}}
    \cup {[Usual EXCEPT !.content = c, !.status = s] :
            c \in {"none", "body", "provider"}, s \in {200, 204, 206, 304, 404}}
    \cup {[Usual EXCEPT !.content = c, !.status = 404, !.errorHandler = TRUE] : c \in {"none", "body"}}
=============================================================================
