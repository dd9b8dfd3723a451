------------------------------- MODULE Blocks -------------------------------
(***************************************************************************)
(* The class blocks of thread_pool.hpp: a range of indices divided into    *)
(* blocks whose sizes differ by one at most, the larger ones first.  The   *)
(* indices are taken to be small enough that last - first does not         *)
(* overflow.                                                               *)
(***************************************************************************)
EXTENDS Integers, FiniteSets

(* num_blocks, after the constructor.  block_size is never 0 there, since  *)
(* there are at most as many blocks as indices.                            *)
NumBlocks(first, last, num) ==
    IF last <= first THEN 0 ELSE IF num <= last - first THEN num ELSE last - first

BlockSize(first, last, num) == (last - first) \div NumBlocks(first, last, num)
Remainder(first, last, num) == (last - first) % NumBlocks(first, last, num)

(* Mutant: the remainder is left out. *)
BlockStartEqual(first, last, num, blk) == first + blk * BlockSize(first, last, num)

(* start() and end() *)
BlockStart(first, last, num, blk) ==
    LET rem == Remainder(first, last, num)
    IN  first + blk * BlockSize(first, last, num) + (IF blk < rem THEN blk ELSE rem)

BlockEnd(first, last, num, blk) ==
    IF blk = NumBlocks(first, last, num) - 1 THEN last ELSE BlockStart(first, last, num, blk + 1)

(* Every index of the range is in exactly one block, no block is empty,    *)
(* and the sizes of two blocks differ by one at most.                      *)
IsPartition(first, last, num) ==
    LET n       == NumBlocks(first, last, num)
        size(b) == BlockEnd(first, last, num, b) - BlockStart(first, last, num, b)
    IN  /\ \A i \in first .. last - 1 :
              \E b \in 0 .. n - 1 :
                 /\ i \in BlockStart(first, last, num, b) .. BlockEnd(first, last, num, b) - 1
                 /\ \A c \in (0 .. n - 1) \ {b} :
                       i \notin BlockStart(first, last, num, c) .. BlockEnd(first, last, num, c) - 1
        /\ \A b \in 0 .. n - 1 : size(b) > 0 /\ \A c \in b .. n - 1 : size(b) - size(c) \in {0, 1}
=============================================================================
