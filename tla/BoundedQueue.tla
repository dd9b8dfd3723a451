---------------------------- MODULE BoundedQueue ----------------------------
(***************************************************************************)
(* What a queue between one producer and one consumer promises: at most    *)
(* Capacity items, which are delivered in the order they were written,     *)
(* each of them once.                                                      *)
(***************************************************************************)
EXTENDS Naturals, Sequences

CONSTANTS
    Items,     \* the values written
    Capacity,  \* capacity()
    NoItem     \* delivered, before the first item is

VARIABLES
    items,      \* the items written and not yet read, oldest first
    delivered,  \* the item that was read last
    alive       \* the queue has not been destroyed

vars == <<items, delivered, alive>>

Init == items = <<>> /\ delivered = NoItem /\ alive = TRUE

Enqueue(x) ==
    /\ alive /\ Len(items) < Capacity
    /\ items' = Append(items, x)
    /\ UNCHANGED <<delivered, alive>>

Dequeue ==
    /\ alive /\ items # <<>>
    /\ delivered' = Head(items)
    /\ items' = Tail(items)
    /\ UNCHANGED alive

(* The queue is destroyed with what is left in it. *)
Discard ==
    /\ alive /\ alive' = FALSE
    /\ items' = <<>>
    /\ UNCHANGED delivered

Next == \/ \E x \in Items : Enqueue(x)
        \/ Dequeue
        \/ Discard

Spec == Init /\ [][Next]_vars
=============================================================================
