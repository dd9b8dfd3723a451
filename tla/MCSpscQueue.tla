----------------------------- MODULE MCSpscQueue -----------------------------
(* Small instances of SpscQueue for TLC. *)
EXTENDS SpscQueue, TLC
=============================================================================
