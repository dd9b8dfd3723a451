---------------------------- MODULE MCThreadPool ----------------------------
(* Small instances of ThreadPool for TLC: who calls what in which run. *)
EXTENDS ThreadPool, TLC

CONSTANTS own, other, third  \* the clients; own is the Owner

Plain   == own :> {"wait", "wait_for", "reset", "destroy"} @@ other :> {"submit", "purge"} @@ third :> {"submit", "wait"}
Paused  == own :> {"wait", "pause", "unpause", "destroy"} @@ other :> {"submit", "pause", "unpause"} @@ third :> {"submit", "wait_for"}
Renewed == own :> {"wait", "pause", "unpause", "reset"} @@ other :> {"submit"} @@ third :> {"submit", "wait_for"}
OneWaits   == own :> {"wait", "reset", "destroy"} @@ other :> {"submit"} @@ third :> {}
TwoWait    == own :> {"wait"} @@ other :> {"wait_for", "submit"} @@ third :> {}
WaitPurge  == own :> {"wait"} @@ other :> {"submit", "purge"} @@ third :> {}
WaitPause  == own :> {"wait"} @@ other :> {"submit", "pause"} @@ third :> {}
ResetOnly  == own :> {"reset"} @@ other :> {"submit"} @@ third :> {}

Use(pause, may) == [pause |-> pause, may |-> may]

UsesSafe     == {Use(FALSE, Plain), Use(TRUE, Paused), Use(TRUE, Renewed)}
UsesOneWaits == {Use(FALSE, OneWaits)}
UsesTwoWait  == {Use(FALSE, TwoWait)}
UsesPurge    == {Use(FALSE, WaitPurge)}
UsesPause    == {Use(TRUE, WaitPause)}
UsesReset    == {Use(TRUE, ResetOnly)}

Symmetry == Permutations(Workers) \cup Permutations(Submission)
=============================================================================
