------------------------------ MODULE SpscQueue ------------------------------
(***************************************************************************)
(* ProducerConsumerQueue: a ring buffer between one producer thread and    *)
(* one consumer thread, without locks.                                     *)
(*                                                                         *)
(* An atomic index is the sequence of the values stored in it (its         *)
(* modification order).  Its owner knows the last of them; the other       *)
(* thread loads one at least as recent as it has seen before, together     *)
(* with what the owner did before that store (release, acquire).  How far  *)
(* the other thread sees is advanced by an action of its own.  A slot of   *)
(* records_ is accessed in steps of its own, between the load and the      *)
(* store.                                                                  *)
(***************************************************************************)
EXTENDS Integers, Sequences, SequencesExt

CONSTANTS
    Items,      \* the values written
    Size,       \* size_
    Word,       \* 2^32, the number of values of an unsigned int
    MaxWrites,  \* bound on the number of items written
    Raw,        \* memory that holds no object
    NoItem      \* what an idle producer writes, and the consumer read at first

ASSUME QueueAssumption ==
    /\ Word \in Nat \ {0, 1} /\ Word % 2 = 0
    /\ Size \in 2 .. Word - 1
    /\ MaxWrites \in Nat
    /\ Raw \notin Items /\ NoItem \notin Items

VARIABLES
    records,      \* records_
    readStores,   \* the modification order of readIndex_
    writeStores,  \* the modification order of writeIndex_
    readsSeen,    \* how many stores of readIndex_ the producer can see
    writesSeen,   \* how many stores of writeIndex_ the consumer can see
    producer,     \* where the producer is, and the item it writes
    consumer,     \* where the consumer is, and the item it read last
    alive         \* the destructor has not run

vars == <<records, readStores, writeStores, readsSeen, writesSeen, producer, consumer, alive>>

Slots == 0 .. Size - 1

TypeOK ==
    /\ records \in [Slots -> Items \cup {Raw}]
    /\ readStores \in Seq(Slots) /\ writeStores \in Seq(Slots)
    /\ readsSeen \in 1 .. Len(readStores)
    /\ writesSeen \in 1 .. Len(writeStores)
    /\ producer \in [pc : {"idle", "construct", "store"}, item : Items \cup {NoItem}]
    /\ consumer \in [pc : {"idle", "move", "destroy", "store"}, item : Items \cup {NoItem}]
    /\ alive \in BOOLEAN

Init ==
    /\ records = [i \in Slots |-> Raw]
    /\ readStores = <<0>> /\ writeStores = <<0>>
    /\ readsSeen = 1 /\ writesSeen = 1
    /\ producer = [pc |-> "idle", item |-> NoItem]
    /\ consumer = [pc |-> "idle", item |-> NoItem]
    /\ alive = TRUE

-----------------------------------------------------------------------------

readIndex  == Last(readStores)
writeIndex == Last(writeStores)

(* The other side's index as a thread loads it. *)
ReadIndexSeen  == readStores[readsSeen]
WriteIndexSeen == writeStores[writesSeen]

(* Mutant: the index runs one past the end. *)
NextRecordLate(i) == IF i = Size THEN 0 ELSE i + 1

NextRecord(i) == IF i + 1 = Size THEN 0 ELSE i + 1

(* Mutants: a full queue that looks like an empty one; no test at all. *)
SeesFullEqual == writeIndex = ReadIndexSeen
SeesFullNever == FALSE

(* isFull() in the producer's thread, isEmpty() in the consumer's. *)
SeesFull  == NextRecord(writeIndex) = ReadIndexSeen
SeesEmpty == readIndex = WriteIndexSeen

(* A store becomes visible to the other thread. *)
SeeRead ==
    /\ alive /\ readsSeen < Len(readStores)
    /\ readsSeen' = readsSeen + 1
    /\ UNCHANGED <<records, readStores, writeStores, writesSeen, producer, consumer, alive>>

SeeWrite ==
    /\ alive /\ writesSeen < Len(writeStores)
    /\ writesSeen' = writesSeen + 1
    /\ UNCHANGED <<records, readStores, writeStores, readsSeen, producer, consumer, alive>>

-----------------------------------------------------------------------------
(* The producer.  write() on a queue it sees full returns false and       *)
(* changes nothing.                                                        *)

Write(x) ==
    /\ alive /\ producer.pc = "idle"
    /\ Len(writeStores) <= MaxWrites
    /\ ~SeesFull
    /\ producer' = [pc |-> "construct", item |-> x]
    /\ UNCHANGED <<records, readStores, writeStores, readsSeen, writesSeen, consumer, alive>>

Construct ==
    /\ producer.pc = "construct"
    /\ records' = [records EXCEPT ![writeIndex] = producer.item]
    /\ producer' = [producer EXCEPT !.pc = "store"]
    /\ UNCHANGED <<readStores, writeStores, readsSeen, writesSeen, consumer, alive>>

(* The constructor of T throws, and write() with it. *)
ConstructThrows ==
    /\ producer.pc = "construct"
    /\ producer' = [pc |-> "idle", item |-> NoItem]
    /\ UNCHANGED <<records, readStores, writeStores, readsSeen, writesSeen, consumer, alive>>

PublishWrite ==
    /\ producer.pc = "store"
    /\ writeStores' = Append(writeStores, NextRecord(writeIndex))
    /\ producer' = [pc |-> "idle", item |-> NoItem]
    /\ UNCHANGED <<records, readStores, readsSeen, writesSeen, consumer, alive>>

-----------------------------------------------------------------------------
(* The consumer.  read() on a queue it sees empty returns false.          *)

Read ==
    /\ alive /\ consumer.pc = "idle"
    /\ ~SeesEmpty
    /\ consumer' = [consumer EXCEPT !.pc = "move"]
    /\ UNCHANGED <<records, readStores, writeStores, readsSeen, writesSeen, producer, alive>>

(* record = std::move(...), or the use of *frontPtr() *)
Move ==
    /\ consumer.pc = "move"
    /\ consumer' = [pc |-> "destroy", item |-> records[readIndex]]
    /\ UNCHANGED <<records, readStores, writeStores, readsSeen, writesSeen, producer, alive>>

(* The assignment throws, and read() with it; or the user of frontPtr()   *)
(* leaves the item in the queue.                                           *)
MoveThrows ==
    /\ consumer.pc = "move"
    /\ consumer' = [consumer EXCEPT !.pc = "idle"]
    /\ UNCHANGED <<records, readStores, writeStores, readsSeen, writesSeen, producer, alive>>

(* Mutant: the slot is freed before the item is destroyed. *)
PublishReadFirst ==
    /\ consumer.pc = "destroy"
    /\ readStores' = Append(readStores, NextRecord(readIndex))
    /\ consumer' = [consumer EXCEPT !.pc = "idle"]
    /\ UNCHANGED <<records, writeStores, readsSeen, writesSeen, producer, alive>>

Destroy ==
    /\ consumer.pc = "destroy"
    /\ records' = [records EXCEPT ![readIndex] = Raw]
    /\ consumer' = [consumer EXCEPT !.pc = "store"]
    /\ UNCHANGED <<readStores, writeStores, readsSeen, writesSeen, producer, alive>>

PublishRead ==
    /\ consumer.pc = "store"
    /\ readStores' = Append(readStores, NextRecord(readIndex))
    /\ consumer' = [consumer EXCEPT !.pc = "idle"]
    /\ UNCHANGED <<records, writeStores, readsSeen, writesSeen, producer, alive>>

-----------------------------------------------------------------------------
(* ~ProducerConsumerQueue, when neither thread uses the queue any more *)

(* Mutant: a queue that wraps is not emptied. *)
OccupiedUnwrapped == {i \in Slots : readIndex <= i /\ i < writeIndex}

(* The slots the loop from readIndex to writeIndex visits. *)
Occupied == IF readIndex <= writeIndex
            THEN {i \in Slots : readIndex <= i /\ i < writeIndex}
            ELSE {i \in Slots : readIndex <= i \/ i < writeIndex}

Destruct ==
    /\ alive /\ producer.pc = "idle" /\ consumer.pc = "idle"
    /\ records' = [i \in Slots |-> IF i \in Occupied THEN Raw ELSE records[i]]
    /\ alive' = FALSE
    /\ UNCHANGED <<readStores, writeStores, readsSeen, writesSeen, producer, consumer>>

-----------------------------------------------------------------------------

ProducerStep == Construct \/ PublishWrite
ConsumerStep == Move \/ Destroy \/ PublishRead

Next == \/ \E x \in Items : Write(x)
        \/ ProducerStep \/ ConstructThrows
        \/ Read \/ ConsumerStep \/ MoveThrows
        \/ SeeRead \/ SeeWrite
        \/ Destruct

Spec == Init /\ [][Next]_vars

(* A store is seen at some time; both threads run, the producer tries      *)
(* again while it has something to write and the consumer polls, and       *)
(* neither throws for ever.                                                *)
Fairness == /\ WF_vars(SeeRead) /\ WF_vars(SeeWrite)
            /\ WF_vars(\E x \in Items : Write(x)) /\ WF_vars(Read)
            /\ SF_vars(Construct) /\ WF_vars(PublishWrite)
            /\ SF_vars(Move) /\ WF_vars(Destroy) /\ WF_vars(PublishRead)

FairSpec == Spec /\ Fairness

-----------------------------------------------------------------------------
(* sizeGuess() *)

(* The conversion of an unsigned int to an int. *)
ToInt(n) == IF n < Word \div 2 THEN n ELSE n - Word

(* Mutant: without the correction for an index that wrapped. *)
SizeGuessRaw(w, r) == ToInt((w - r) % Word)

SizeGuess(w, r) ==
    LET ret == ToInt((w - r) % Word)
    IN  IF ret < 0 THEN ToInt((ret + Size) % Word) ELSE ret

-----------------------------------------------------------------------------
(* Properties *)

written == Len(writeStores) - 1
read    == Len(readStores) - 1

(* The two threads never touch one slot without a store of one that the    *)
(* other has seen in between: the producer constructs in raw memory, after *)
(* it saw the read that freed the slot, and the consumer touches an object *)
(* it saw published.                                                       *)
NoSlotRace ==
    /\ producer.pc = "construct" =>
         /\ records[writeIndex] = Raw
         /\ written < readsSeen - 1 + Size
    /\ consumer.pc \in {"move", "destroy"} =>
         /\ records[readIndex] # Raw
         /\ read < writesSeen - 1

(* Every object that was constructed is destroyed once, by the consumer or *)
(* by the destructor, also when the queue wraps or a constructor throws:   *)
(* outside the two threads' critical steps exactly the occupied slots hold *)
(* objects.                                                                *)
NothingLeaks ==
    LET queued == {(readIndex + n) % Size : n \in 0 .. written - read - 1}
        built  == IF producer.pc = "store" THEN {writeIndex} ELSE {}
        gone   == IF consumer.pc = "store" THEN {readIndex} ELSE {}
    IN  {i \in Slots : records[i] # Raw} = IF alive THEN (queued \cup built) \ gone ELSE {}

(* The comment on sizeGuess(): "If called by consumer, then true size may  *)
(* be more", "If called by producer, then true size may be less"; with     *)
(* more than 2^31 slots the difference of the indices does not fit an int. *)
SizeGuessIsBound ==
    Size <= Word \div 2 =>
        /\ SizeGuess(writeIndex, ReadIndexSeen) >= written - read
        /\ SizeGuess(WriteIndexSeen, readIndex) <= written - read

(* The queue is a FIFO queue of at most size_ - 1 items: those between the *)
(* two indices, without the one the consumer has moved from.               *)
moved == IF consumer.pc \in {"destroy", "store"} THEN 1 ELSE 0

Abstract == INSTANCE BoundedQueue WITH
    Capacity  <- Size - 1,
    items     <- IF alive
                 THEN [n \in 1 .. written - read - moved |->
                         records[(readIndex + moved + n - 1) % Size]]
                 ELSE <<>>,
    delivered <- consumer.item

ImplementsBoundedQueue == Abstract!Spec

(* With a producer that retries and a consumer that polls everything that  *)
(* is to be written arrives, unless the queue is destroyed: full and empty *)
(* are never confused.                                                     *)
AllArrive == <>(~alive \/ read = MaxWrites)
=============================================================================
