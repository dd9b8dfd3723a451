------------------------- MODULE MCPeriodicScheduler -------------------------
(* Small instances of PeriodicScheduler for TLC. *)
EXTENDS PeriodicScheduler, TLC

Symmetry == Permutations(Clients) \cup Permutations(Handles) \cup Permutations(Workers)
=============================================================================
