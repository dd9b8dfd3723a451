----------------------------- MODULE MCUtilities -----------------------------
(***************************************************************************)
(* CallbackList, LazyComponent, Retry and ParallelLoop have nothing to do  *)
(* with each other and are small: they share one run, each behaviour of    *)
(* which exercises one of them.  So do the helpers of Tools and the text    *)
(* functions of httplib.hpp: there is one initial state for every input.   *)
(***************************************************************************)
EXTENDS CallbackList, LazyComponent, Retry, ParallelLoop, TLC

VARIABLES
    component,  \* the component that is exercised
    item        \* the function, and its input

Text   == INSTANCE HttpText WITH HeaderMaxLength <- 9
Form   == INSTANCE HttpMultipart WITH HeaderMaxLength <- 3
Ranges == INSTANCE HttpRanges
Tool   == INSTANCE Tools

vars == <<CBvars, LCvars, RBvars, PLvars, component, item>>

-----------------------------------------------------------------------------
(* The inputs of the functions: text is a sequence of bytes, but for the   *)
(* forms, where it is a sequence of the letters of HttpMultipart.          *)

Seqs(S, n) == UNION {[1 .. k -> S] : k \in 0 .. n}

(* NUL, tab, line ends, blank, % + 5 A Z u, and bytes beyond ASCII *)
Bytes == {0, 9, 10, 13, 32, 37, 43, 53, 65, 90, 117, 128, 255}

(* Around every length of an encoded code point, and the surrogates *)
CodePoints == {0, 127, 128, 2047, 2048, 4095, 4096, 55295, 55296, 57343, 57344,
               65535, 65536, 66000, 262143, 262144, 1114111}

Pairs == {<<97>>, <<97, 61>>, <<>>} \X {<<>>, <<38>>, <<61, 32>>, <<37, 43>>}
Header == {<<97>>, <<58>>, <<>>} \X Seqs({120, 32, 13, 10, 58}, 3)

Contents == {<<>>, <<"x">>, <<"-", "-">>, <<"r">>, <<"r", "l", "-">>, <<"r", "r", "l", "-", "-">>, <<"x", "-", "-", "b">>}
Items == [headers : {<< <<"n">> >>} \cup {<< <<"n">>, [i \in 1 .. k |-> "t"] >> : k \in 1 .. 4}, content : Contents]
Plain == [headers : {<< <<"n">> >>}, content : Contents]

Inputs ==
    [f : {"base64"}, s : Seqs({0, 1, 127, 255}, 4)]
    \cup [f : {"utf8"}, s : CodePoints]
    \cup [f : {"escapes"}, s : Seqs(Bytes, 2) \cup Seqs({37, 117, 48, 68}, 4) \cup {<<37, 117>> \o t : t \in [1 .. 4 -> {48, 68, 37}]}]
    \cup [f : {"queries"}, s : Seqs(Pairs, 2)]
    \cup [f : {"headers"}, s : Seqs(Header, 1) \cup [1 .. 1 -> {<<97>>, <<97, 97>>} \X [1 .. 4 -> {120, 13, 10, 58}]]
                              \cup [1 .. 2 -> {<<97>>} \X Seqs({120, 32, 10}, 1)]]
    \cup [f : {"paths"}, s : Seqs({46, 47, 92, 97}, 6)]
    \cup [f : {"routes"}, s : Seqs({47, 58, 97}, 4) \X Seqs({47, 97, 98}, 4)]
    \cup [f : {"form"}, s : Seqs(Items, 1) \X Seqs(Plain, 1) \cup (Seqs(Plain, 2) \X {<<>>})]
    \cup [f : {"ranges"}, s : Seqs((-1 .. 3) \X (-1 .. 3), 2) \X (0 .. 3)]
    \cup [f : {"ranges"}, s : [1 .. 3 -> {0, 1} \X {1, 2}] \X {3}]

ToolInputs ==
    [f : {"split"}, s : Seqs({44, 97}, 6)]
    \cup [f : {"numbers"}, s : Seqs({45, 48, 49, 50, 53, 56, 97}, 4)]
    \cup [f : {"arguments"}, s : Seqs({<<97>>, <<98>>, <<49>>} \X {<<97>>, <<49>>, <<50, 55>>}, 3)]
    \cup [f : {"timer"}, s : (0 .. 3) \X {n * 500000 + d : n \in 0 .. 7, d \in {-1, 0, 1}} \cap (0 .. 3) \X Nat]
    \cup [f : {"frames"}, s : {1, 24, 30, 60, 333, 334, 999, 1000, 1001}]

NoInput == [f |-> "none", s |-> <<>>]


-----------------------------------------------------------------------------
OneLoop == [kind |-> "detach", first |-> 0, last |-> 0, request |-> 0]

Init ==
    /\ component \in {"callbacks", "lazy", "retry", "loop", "functions"}
    /\ item   \in IF component = "functions" THEN Inputs \cup ToolInputs ELSE {NoInput}
    /\ config \in IF component = "retry" THEN Configs ELSE {CHOOSE c \in Configs : TRUE}
    /\ loop   \in IF component = "loop" THEN Loops ELSE {OneLoop}
    /\ CBInit /\ LCInit /\ RBInit /\ PLInit

Next ==
    /\ UNCHANGED <<component, item>>
    /\ \/ component = "callbacks" /\ CBNext /\ UNCHANGED <<LCvars, RBvars, PLvars>>
       \/ component = "lazy"      /\ LCNext /\ UNCHANGED <<CBvars, RBvars, PLvars>>
       \/ component = "retry"     /\ RBNext /\ UNCHANGED <<CBvars, LCvars, PLvars>>
       \/ component = "loop"      /\ PLNext /\ UNCHANGED <<CBvars, LCvars, RBvars>>

Spec == Init /\ [][Next]_vars /\ CBFairness /\ LCFairness

(* The type invariants of the four modules. *)
TypeOK == CBTypeOK /\ LCTypeOK /\ RBTypeOK /\ PLTypeOK

(* No call waits for ever: neither for the mutex of a list that a callback *)
(* left by throwing, nor in call_once after the factory has thrown.        *)
EveryCallEnds == MutexIsReleased /\ EveryGetEnds

MCIndices == -1 .. 4
=============================================================================
