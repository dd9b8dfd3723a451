--------------------------- MODULE SpscQueueProofs ---------------------------
(***************************************************************************)
(* Proofs about SpscQueue, for every size, every word and every number of  *)
(* writes: type correctness, NoSlotRace, NothingLeaks, SizeGuessIsBound    *)
(* and that the ring buffer implements BoundedQueue.                       *)
(*                                                                         *)
(* None of the properties is inductive: they speak of the last stores, and *)
(* the tests of full and empty of older ones.  QueueInv says what every    *)
(* store of an index is, how far the four counts can be apart, and which   *)
(* slots hold objects.                                                     *)
(***************************************************************************)
EXTENDS SpscQueue, SequenceTheorems, TLAPS

-----------------------------------------------------------------------------
(* Remainders *)

LEMMA RemainderIsUnique ==
    ASSUME NEW n \in Nat \ {0}, NEW q \in Int, NEW r \in 0 .. n - 1
    PROVE  (n * q + r) % n = r
OBVIOUS

LEMMA SmallRemainder ==
    ASSUME NEW n \in Nat \ {0}, NEW r \in 0 .. n - 1
    PROVE  r % n = r
OBVIOUS

LEMMA RemainderOfSum ==
    ASSUME NEW n \in Nat \ {0}, NEW q \in Nat, NEW r \in 0 .. n - 1, NEW m \in 0 .. n
    PROVE  (n * q + r + m) % n = IF r + m < n THEN r + m ELSE r + m - n
<1>1. CASE r + m < n
  <2>1. n * q + r + m = n * q + (r + m)
    OBVIOUS
  <2>2. (n * q + (r + m)) % n = r + m
    BY <1>1, RemainderIsUnique
  <2>. QED BY <1>1, <2>1, <2>2
<1>2. CASE ~(r + m < n)
  <2>1. n * q + r + m = n * (q + 1) + (r + m - n)
    OBVIOUS
  <2>2. q + 1 \in Int /\ r + m - n \in 0 .. n - 1
    BY <1>2
  <2>3. (n * (q + 1) + (r + m - n)) % n = r + m - n
    BY <2>2, RemainderIsUnique
  <2>. QED BY <1>2, <2>1, <2>3
<1>. QED BY <1>1, <1>2

LEMMA Division ==
    ASSUME NEW n \in Nat \ {0}, NEW a \in Nat
    PROVE  \E q \in Nat, r \in 0 .. n - 1 : a = n * q + r
<1>1. ASSUME NEW q, q = a \div n, NEW r, r = a % n
      PROVE  q \in Nat /\ r \in 0 .. n - 1 /\ a = n * q + r
  BY <1>1
<1>. QED BY <1>1

(* A step of at most n on a ring of n. *)
LEMMA RemainderPlus ==
    ASSUME NEW n \in Nat \ {0}, NEW a \in Nat, NEW m \in 0 .. n
    PROVE  /\ a % n \in 0 .. n - 1
           /\ (a + m) % n = IF (a % n) + m < n THEN (a % n) + m ELSE (a % n) + m - n
<1>1. PICK q \in Nat, r \in 0 .. n - 1 : a = n * q + r
  BY Division
<1>2. a % n = r
  BY <1>1, RemainderIsUnique
<1>3. (a + m) % n = IF r + m < n THEN r + m ELSE r + m - n
  BY <1>1, RemainderOfSum
<1>. QED BY <1>2, <1>3

-----------------------------------------------------------------------------
(* The inductive invariant *)

(* A count on the ring. *)
Ring(n) == n % Size

(* An index is the number of stores before it, on the ring. *)
StoresCount ==
    /\ \A k \in 1 .. Len(readStores) : readStores[k] = Ring(k - 1)
    /\ \A k \in 1 .. Len(writeStores) : writeStores[k] = Ring(k - 1)

(* What the producer sees of the reads leaves room for what was written,   *)
(* and for one item more while it writes one; what the consumer sees of    *)
(* the writes covers what was read, and one item more while it reads one.  *)
CountsInOrder ==
    /\ written <= readsSeen + Size - 2
    /\ producer.pc # "idle" => written < readsSeen + Size - 2
    /\ read <= writesSeen - 1
    /\ consumer.pc # "idle" => read < writesSeen - 1

(* The slot m steps after the one that is read next. *)
Slot(m) == Ring(readIndex + m)

(* The slot m steps after readIndex_ holds an object. *)
Holds(m) ==
    /\ alive
    /\ \/ m < written - read /\ ~(m = 0 /\ consumer.pc = "store")
       \/ m = written - read /\ producer.pc = "store"

SlotsHold == \A m \in 0 .. Size - 1 : records[Slot(m)] # Raw <=> Holds(m)

ThreadsTyped ==
    /\ producer.pc # "idle" => producer.item \in Items
    /\ ~alive => producer.pc = "idle" /\ consumer.pc = "idle"

QueueInv ==
    /\ TypeOK
    /\ StoresCount
    /\ CountsInOrder
    /\ SlotsHold
    /\ ThreadsTyped

-----------------------------------------------------------------------------
(* What the invariant says of the indices *)

LEMMA SizeTyped == Size \in Nat \ {0, 1} /\ 1 \in 0 .. Size
BY QueueAssumption

(* The slot a count stands for, and what lies m slots further. *)
LEMMA RingPlus ==
    ASSUME NEW a \in Nat, NEW m \in 0 .. Size
    PROVE  /\ Ring(a) \in 0 .. Size - 1
           /\ Ring(a + m) = IF Ring(a) + m < Size THEN Ring(a) + m ELSE Ring(a) + m - Size
BY SizeTyped, RemainderPlus, Zenon DEF Ring

(* An index moves one slot on. *)
LEMMA NextRecordCounts ==
    ASSUME NEW n \in Nat
    PROVE  /\ Ring(n) \in Slots
           /\ NextRecord(Ring(n)) = Ring(n + 1)
<1>1. /\ Ring(n) \in 0 .. Size - 1
      /\ Ring(n + 1) = IF Ring(n) + 1 < Size THEN Ring(n) + 1 ELSE Ring(n) + 1 - Size
  BY SizeTyped, RingPlus, Zenon
<1>. QED BY <1>1, SizeTyped DEF NextRecord, Slots

LEMMA Counts ==
    ASSUME TypeOK, StoresCount, CountsInOrder
    PROVE  /\ read \in Nat /\ written \in Nat
           /\ written - read \in 0 .. Size - 1
           /\ Len(readStores) = read + 1 /\ Len(writeStores) = written + 1
           /\ readIndex = Ring(read) /\ writeIndex = Ring(written)
           /\ ReadIndexSeen = Ring(readsSeen - 1)
           /\ WriteIndexSeen = Ring(writesSeen - 1)
           /\ readsSeen \in 1 .. read + 1
           /\ writesSeen \in read + 1 .. written + 1
<1>1. /\ Len(readStores) \in Nat /\ Len(writeStores) \in Nat
      /\ readsSeen \in 1 .. Len(readStores) /\ writesSeen \in 1 .. Len(writeStores)
  BY DEF TypeOK
<1>2. /\ read \in Nat /\ written \in Nat
      /\ Len(readStores) = read + 1 /\ Len(writeStores) = written + 1
  BY <1>1 DEF read, written
<1>3. /\ readIndex = Ring(read) /\ writeIndex = Ring(written)
      /\ ReadIndexSeen = Ring(readsSeen - 1)
      /\ WriteIndexSeen = Ring(writesSeen - 1)
  BY <1>1, <1>2 DEF StoresCount, readIndex, writeIndex, ReadIndexSeen, WriteIndexSeen, Last
<1>. QED BY <1>1, <1>2, <1>3, SizeTyped DEF CountsInOrder

LEMMA Indices ==
    ASSUME TypeOK, StoresCount, CountsInOrder
    PROVE  /\ readIndex \in Slots /\ writeIndex \in Slots
           /\ \A m \in 0 .. Size : Slot(m) = IF readIndex + m < Size THEN readIndex + m ELSE readIndex + m - Size
           /\ \A m \in 0 .. Size - 1 : Slot(m) \in Slots
           /\ \A i \in Slots : \E m \in 0 .. Size - 1 : i = Slot(m)
           /\ \A m, n \in 0 .. Size - 1 : Slot(m) = Slot(n) => m = n
           /\ writeIndex = Slot(written - read)
           /\ readIndex = Slot(0)
<1>1. readIndex \in Slots /\ writeIndex \in Slots
  BY Counts, NextRecordCounts
<1>2. Ring(readIndex) = readIndex
  BY <1>1, SizeTyped, SmallRemainder DEF Slots, Ring
<1>3. \A m \in 0 .. Size : Slot(m) = IF readIndex + m < Size THEN readIndex + m ELSE readIndex + m - Size
  <2>. SUFFICES ASSUME NEW m \in 0 .. Size
                PROVE  Slot(m) = IF readIndex + m < Size THEN readIndex + m ELSE readIndex + m - Size
    OBVIOUS
  <2>1. readIndex \in Nat
    BY <1>1, SizeTyped DEF Slots
  <2>. QED BY <2>1, <1>2, RingPlus, Zenon DEF Slot
<1>4. \A m \in 0 .. Size - 1 : Slot(m) \in Slots
  BY <1>1, <1>3, SizeTyped DEF Slots
<1>5. \A i \in Slots : \E m \in 0 .. Size - 1 : i = Slot(m)
  <2>. SUFFICES ASSUME NEW i \in Slots
                PROVE  \E m \in 0 .. Size - 1 : i = Slot(m)
    OBVIOUS
  <2>1. CASE readIndex <= i
    BY <1>1, <1>3, <2>1, SizeTyped, i - readIndex \in 0 .. Size - 1 DEF Slots
  <2>2. CASE i < readIndex
    BY <1>1, <1>3, <2>2, SizeTyped, i - readIndex + Size \in 0 .. Size - 1 DEF Slots
  <2>. QED BY <1>1, <2>1, <2>2 DEF Slots
<1>6. \A m, n \in 0 .. Size - 1 : Slot(m) = Slot(n) => m = n
  BY <1>1, <1>3, SizeTyped DEF Slots
<1>7. writeIndex = Slot(written - read)
  <2>1. writeIndex = Ring(read + (written - read))
    BY Counts
  <2>2. Ring(read + (written - read))
          = IF readIndex + (written - read) < Size THEN readIndex + (written - read) ELSE readIndex + (written - read) - Size
    <3>1. written - read \in 0 .. Size
      BY Counts, SizeTyped
    <3>. QED BY <3>1, Counts, RingPlus, Zenon
  <2>. QED BY <2>1, <2>2, <1>3, Counts, SizeTyped
<1>8. readIndex = Slot(0)
  BY <1>1, <1>3, SizeTyped DEF Slots
<1>. QED BY <1>1, <1>3, <1>4, <1>5, <1>6, <1>7, <1>8

-----------------------------------------------------------------------------
(* The actions preserve the invariant *)

LEMMA InvInit == Init => QueueInv
<1>. SUFFICES ASSUME Init PROVE QueueInv
  OBVIOUS
<1>1. 0 \in Slots /\ Ring(0) = 0
  BY SizeTyped, SmallRemainder DEF Slots, Ring
<1>2. TypeOK
  BY <1>1 DEF Init, TypeOK
<1>3. StoresCount
  BY <1>1 DEF Init, StoresCount
<1>4. CountsInOrder /\ ThreadsTyped
  BY SizeTyped DEF Init, CountsInOrder, ThreadsTyped, written, read
<1>5. \A m \in 0 .. Size - 1 : Slot(m) \in Slots
  BY <1>2, <1>3, <1>4, Indices
<1>6. SlotsHold
  BY <1>5 DEF Init, SlotsHold, Holds, written, read
<1>. QED BY <1>2, <1>3, <1>4, <1>6 DEF QueueInv

(* Steps that leave the slots and the indices alone: the test that lets a  *)
(* thread in, and stores becoming visible.                                 *)
LEMMA InvWrite ==
    ASSUME QueueInv, NEW x \in Items, Write(x)
    PROVE  QueueInv'
<1>1. TypeOK'
  BY DEF QueueInv, TypeOK, Write
<1>2. StoresCount' /\ ThreadsTyped'
  BY DEF QueueInv, StoresCount, ThreadsTyped, Write
<1>3. CountsInOrder'
  <2>1. written # readsSeen + Size - 2
    <3>. SUFFICES ASSUME written = readsSeen + Size - 2 PROVE FALSE
      OBVIOUS
    <3>1. readsSeen \in Nat /\ readsSeen - 1 \in Nat /\ written \in Nat /\ Size \in 0 .. Size /\ Size \in Nat
      BY Counts, SizeTyped DEF QueueInv
    <3>2. Ring((readsSeen - 1) + Size) = Ring(readsSeen - 1)
      <4>1. /\ Ring(readsSeen - 1) \in 0 .. Size - 1
            /\ Ring((readsSeen - 1) + Size)
                 = IF Ring(readsSeen - 1) + Size < Size THEN Ring(readsSeen - 1) + Size
                                                        ELSE Ring(readsSeen - 1) + Size - Size
        BY <3>1, RingPlus, Zenon
      <4>. QED BY <4>1, <3>1
    <3>3. written + 1 = (readsSeen - 1) + Size
      BY <3>1
    <3>4. NextRecord(writeIndex) = ReadIndexSeen
      BY <3>1, <3>2, <3>3, Counts, NextRecordCounts DEF QueueInv
    <3>. QED BY <3>4 DEF Write, SeesFull
  <2>. QED BY <2>1, Counts, SizeTyped DEF QueueInv, CountsInOrder, Write, written, read
<1>4. SlotsHold'
  BY DEF QueueInv, SlotsHold, Slot, Holds, Write, readIndex, written, read
<1>. QED BY <1>1, <1>2, <1>3, <1>4 DEF QueueInv

LEMMA InvRead ==
    ASSUME QueueInv, Read
    PROVE  QueueInv'
<1>1. TypeOK'
  BY DEF QueueInv, TypeOK, Read
<1>2. StoresCount' /\ ThreadsTyped'
  BY DEF QueueInv, StoresCount, ThreadsTyped, Read
<1>3. CountsInOrder'
  <2>1. read # writesSeen - 1
    BY Counts DEF QueueInv, Read, SeesEmpty
  <2>. QED BY <2>1, Counts DEF QueueInv, CountsInOrder, Read, written, read
<1>4. SlotsHold'
  BY DEF QueueInv, TypeOK, SlotsHold, Slot, Holds, Read, readIndex, written, read
<1>. QED BY <1>1, <1>2, <1>3, <1>4 DEF QueueInv

LEMMA InvSee ==
    ASSUME QueueInv, SeeRead \/ SeeWrite
    PROVE  QueueInv'
<1>1. TypeOK'
  BY DEF QueueInv, TypeOK, SeeRead, SeeWrite
<1>2. StoresCount' /\ ThreadsTyped'
  BY DEF QueueInv, StoresCount, ThreadsTyped, SeeRead, SeeWrite
<1>3. CountsInOrder'
  BY Counts, SizeTyped DEF QueueInv, CountsInOrder, SeeRead, SeeWrite, written, read
<1>4. SlotsHold'
  BY DEF QueueInv, SlotsHold, Slot, Holds, SeeRead, SeeWrite, readIndex, written, read
<1>. QED BY <1>1, <1>2, <1>3, <1>4 DEF QueueInv

(* The accesses to a slot *)
LEMMA InvConstruct ==
    ASSUME QueueInv, Construct
    PROVE  QueueInv'
<1>1. TypeOK'
  BY Indices DEF QueueInv, TypeOK, ThreadsTyped, Construct
<1>2. StoresCount' /\ ThreadsTyped'
  BY DEF QueueInv, TypeOK, StoresCount, ThreadsTyped, Construct
<1>3. CountsInOrder'
  BY DEF QueueInv, TypeOK, CountsInOrder, Construct, written, read
<1>4. SlotsHold'
  <2>. SUFFICES ASSUME NEW m \in 0 .. Size - 1
                PROVE  records'[Slot(m)] # Raw <=> Holds(m)'
    BY DEF SlotsHold, Slot, Construct, readIndex
  <2>1. Slot(m) \in Slots /\ (Slot(m) = writeIndex <=> m = written - read)
    BY Indices, Counts DEF QueueInv
  <2>2. producer.item # Raw /\ alive
    BY QueueAssumption DEF QueueInv, ThreadsTyped, Construct
  <2>3. records[Slot(m)] # Raw <=> Holds(m)
    BY DEF QueueInv, SlotsHold
  <2>4. producer.pc = "construct" /\ producer'.pc = "store"
    BY DEF QueueInv, TypeOK, Construct
  <2>5. ~(m = written - read /\ m = 0 /\ consumer.pc = "store")
    BY Counts DEF QueueInv, CountsInOrder
  <2>6. records'[Slot(m)] = IF m = written - read THEN producer.item ELSE records[Slot(m)]
    BY <2>1 DEF Construct, QueueInv, TypeOK
  <2>. QED BY <2>2, <2>3, <2>4, <2>5, <2>6, Counts DEF Holds, Construct, QueueInv, written, read
<1>. QED BY <1>1, <1>2, <1>3, <1>4 DEF QueueInv

LEMMA InvMove ==
    ASSUME QueueInv, Move \/ MoveThrows \/ ConstructThrows
    PROVE  QueueInv'
<1>1. TypeOK'
  <2>1. Move => records[readIndex] \in Items
    <3>. SUFFICES ASSUME Move PROVE records[readIndex] \in Items
      OBVIOUS
    <3>1. Holds(0)
      BY Counts DEF QueueInv, ThreadsTyped, CountsInOrder, Holds, Move
    <3>2. records[readIndex] # Raw
      BY <3>1, Indices, SizeTyped DEF QueueInv, SlotsHold
    <3>. QED BY <3>2, Indices DEF QueueInv, TypeOK
  <2>. QED BY <2>1 DEF QueueInv, TypeOK, Move, MoveThrows, ConstructThrows
<1>2. StoresCount' /\ ThreadsTyped'
  BY DEF QueueInv, TypeOK, StoresCount, ThreadsTyped, Move, MoveThrows, ConstructThrows
<1>3. CountsInOrder'
  BY DEF QueueInv, TypeOK, CountsInOrder, Move, MoveThrows, ConstructThrows, written, read
<1>4. SlotsHold'
  <2>1. UNCHANGED <<records, readStores, writeStores, alive>>
    BY DEF Move, MoveThrows, ConstructThrows
  <2>2. (consumer'.pc = "store" <=> consumer.pc = "store") /\ (producer'.pc = "store" <=> producer.pc = "store")
    BY DEF QueueInv, TypeOK, Move, MoveThrows, ConstructThrows
  <2>. QED BY <2>1, <2>2 DEF QueueInv, SlotsHold, Slot, Holds, readIndex, written, read
<1>. QED BY <1>1, <1>2, <1>3, <1>4 DEF QueueInv

LEMMA InvDestroy ==
    ASSUME QueueInv, Destroy
    PROVE  QueueInv'
<1>1. TypeOK'
  BY Indices DEF QueueInv, TypeOK, Destroy
<1>2. StoresCount' /\ ThreadsTyped'
  BY DEF QueueInv, TypeOK, StoresCount, ThreadsTyped, Destroy
<1>3. CountsInOrder'
  BY DEF QueueInv, TypeOK, CountsInOrder, Destroy, written, read
<1>4. SlotsHold'
  <2>. SUFFICES ASSUME NEW m \in 0 .. Size - 1
                PROVE  records'[Slot(m)] # Raw <=> Holds(m)'
    BY DEF SlotsHold, Slot, Destroy, readIndex
  <2>1. Slot(m) \in Slots /\ (Slot(m) = readIndex <=> m = 0)
    BY Indices, SizeTyped DEF QueueInv
  <2>2. records[Slot(m)] # Raw <=> Holds(m)
    BY DEF QueueInv, SlotsHold
  <2>3. consumer.pc = "destroy" /\ consumer'.pc = "store"
    BY DEF QueueInv, TypeOK, Destroy
  <2>4. 0 < written - read
    BY <2>3, Counts DEF QueueInv, CountsInOrder
  <2>5. records'[Slot(m)] = IF m = 0 THEN Raw ELSE records[Slot(m)]
    BY <2>1 DEF Destroy, QueueInv, TypeOK
  <2>. QED BY <2>2, <2>3, <2>4, <2>5, Counts DEF Holds, Destroy, QueueInv, written, read
<1>. QED BY <1>1, <1>2, <1>3, <1>4 DEF QueueInv

(* The stores *)
LEMMA InvPublishWrite ==
    ASSUME QueueInv, PublishWrite
    PROVE  QueueInv'
<1>1. /\ writeIndex = Ring(written) /\ written \in Nat /\ Len(writeStores) = written + 1
      /\ writeStores \in Seq(Slots)
  BY Counts DEF QueueInv, TypeOK
<1>2. Ring(written + 1) \in Slots /\ NextRecord(writeIndex) = Ring(written + 1)
  BY <1>1, NextRecordCounts
<1>3. writeStores' = Append(writeStores, Ring(written + 1))
  BY <1>2 DEF PublishWrite
<1>4. /\ writeStores' \in Seq(Slots) /\ Len(writeStores') = written + 2
      /\ \A k \in 1 .. written + 1 : writeStores'[k] = writeStores[k]
      /\ writeStores'[written + 2] = Ring(written + 1)
  BY <1>1, <1>2, <1>3, AppendProperties
<1>5. written' = written + 1 /\ read' = read
  BY <1>1, <1>4 DEF written, read, PublishWrite
<1>6. TypeOK'
  BY <1>1, <1>4 DEF QueueInv, TypeOK, PublishWrite
<1>7. StoresCount'
  <2>1. \A k \in 1 .. written + 2 : writeStores'[k] = Ring(k - 1)
    <3>. SUFFICES ASSUME NEW k \in 1 .. written + 2
                  PROVE  writeStores'[k] = Ring(k - 1)
      OBVIOUS
    <3>1. CASE k \in 1 .. written + 1
      BY <1>1, <1>4, <3>1 DEF QueueInv, StoresCount
    <3>2. CASE k = written + 2
      BY <1>1, <1>4, <3>2, k - 1 = written + 1
    <3>. QED BY <1>1, <3>1, <3>2
  <2>. QED BY <1>4, <2>1 DEF QueueInv, StoresCount, PublishWrite
<1>8. CountsInOrder'
  BY <1>5, Counts, SizeTyped DEF QueueInv, CountsInOrder, PublishWrite
<1>9. SlotsHold'
  <2>. SUFFICES ASSUME NEW m \in 0 .. Size - 1
                PROVE  records[Slot(m)] # Raw <=> Holds(m)'
    BY DEF SlotsHold, Slot, PublishWrite, readIndex
  <2>1. records[Slot(m)] # Raw <=> Holds(m)
    BY DEF QueueInv, SlotsHold
  <2>2. ~(m = written - read /\ m = 0 /\ consumer.pc = "store")
    BY Counts DEF QueueInv, CountsInOrder
  <2>3. producer.pc = "store" /\ producer'.pc = "idle" /\ alive' = alive /\ consumer' = consumer
    BY DEF PublishWrite
  <2>. QED BY <1>5, <2>1, <2>2, <2>3, Counts DEF Holds, QueueInv
<1>10. ThreadsTyped'
  BY DEF QueueInv, ThreadsTyped, PublishWrite
<1>. QED BY <1>6, <1>7, <1>8, <1>9, <1>10 DEF QueueInv

(* After a read, what was m + 1 slots ahead is m slots ahead. *)
LEMMA PublishReadMoves ==
    ASSUME QueueInv, PublishRead
    PROVE  /\ readStores' \in Seq(Slots) /\ Len(readStores') = read + 2
           /\ \A k \in 1 .. read + 1 : readStores'[k] = readStores[k]
           /\ readStores'[read + 2] = Ring(read + 1)
           /\ read' = read + 1 /\ written' = written
           /\ readIndex' = Ring(read + 1)
           /\ \A m \in 0 .. Size - 1 : Slot(m)' = Slot(m + 1)
           /\ Slot(Size) = Slot(0)
<1>1. /\ readIndex = Ring(read) /\ read \in Nat /\ Len(readStores) = read + 1
      /\ readStores \in Seq(Slots)
  BY Counts DEF QueueInv, TypeOK
<1>2. Ring(read + 1) \in Slots /\ NextRecord(readIndex) = Ring(read + 1)
  BY <1>1, NextRecordCounts
<1>3. readStores' = Append(readStores, Ring(read + 1))
  BY <1>2 DEF PublishRead
<1>4. /\ readStores' \in Seq(Slots) /\ Len(readStores') = read + 2
      /\ \A k \in 1 .. read + 1 : readStores'[k] = readStores[k]
      /\ readStores'[read + 2] = Ring(read + 1)
  BY <1>1, <1>2, <1>3, AppendProperties
<1>5. read' = read + 1 /\ written' = written /\ readIndex' = Ring(read + 1)
  BY <1>1, <1>4 DEF written, read, readIndex, PublishRead, Last
<1>6. /\ readIndex \in Slots
      /\ \A m \in 0 .. Size : Slot(m) = IF readIndex + m < Size THEN readIndex + m ELSE readIndex + m - Size
  BY Indices DEF QueueInv
<1>7. readIndex' = NextRecord(readIndex)
  BY <1>2, <1>5
<1>8. ASSUME NEW m \in 0 .. Size - 1
      PROVE  Slot(m)' = Slot(m + 1)
  <2>1. Slot(m)' = Ring(readIndex' + m)
    BY DEF Slot, Ring
  <2>2. readIndex' \in Nat /\ Ring(readIndex') = readIndex' /\ readIndex' \in Slots /\ m \in 0 .. Size
    BY <1>2, <1>5, SizeTyped, SmallRemainder DEF Ring, Slots
  <2>3. Ring(readIndex' + m) = IF readIndex' + m < Size THEN readIndex' + m ELSE readIndex' + m - Size
    BY <2>2, RingPlus, Zenon
  <2>. QED BY <1>6, <1>7, <2>1, <2>2, <2>3, SizeTyped DEF NextRecord, Slots
<1>9. Slot(Size) = Slot(0)
  BY <1>6, SizeTyped DEF Slots
<1>. QED BY <1>4, <1>5, <1>8, <1>9

LEMMA InvPublishRead ==
    ASSUME QueueInv, PublishRead
    PROVE  QueueInv'
<1>1. TypeOK'
  <2>1. readStores' \in Seq(Slots) /\ readsSeen' \in 1 .. Len(readStores')
    BY PublishReadMoves, Counts DEF QueueInv, PublishRead
  <2>. QED BY <2>1 DEF QueueInv, TypeOK, PublishRead
<1>2. StoresCount'
  <2>1. \A k \in 1 .. read + 2 : readStores'[k] = Ring(k - 1)
    <3>. SUFFICES ASSUME NEW k \in 1 .. read + 2
                  PROVE  readStores'[k] = Ring(k - 1)
      OBVIOUS
    <3>1. CASE k \in 1 .. read + 1
      BY PublishReadMoves, Counts, <3>1 DEF QueueInv, StoresCount
    <3>2. CASE k = read + 2
      BY PublishReadMoves, Counts, <3>2, k - 1 = read + 1 DEF QueueInv
    <3>. QED BY Counts, <3>1, <3>2 DEF QueueInv
  <2>. QED BY <2>1, PublishReadMoves DEF QueueInv, StoresCount, PublishRead
<1>3. CountsInOrder'
  BY PublishReadMoves, Counts, SizeTyped DEF QueueInv, CountsInOrder, PublishRead
<1>4. SlotsHold'
  <2>. SUFFICES ASSUME NEW m \in 0 .. Size - 1
                PROVE  records[Slot(m)'] # Raw <=> Holds(m)'
    BY DEF SlotsHold, PublishRead
  <2>1. Slot(m)' = Slot(m + 1) /\ read' = read + 1 /\ written' = written /\ Slot(Size) = Slot(0)
    BY PublishReadMoves
  <2>2. consumer.pc = "store" /\ consumer'.pc = "idle" /\ alive' = alive /\ producer' = producer
    BY DEF QueueInv, TypeOK, PublishRead
  <2>3. written - read \in 1 .. Size - 1 /\ read \in Nat /\ written \in Nat
    BY <2>2, Counts DEF QueueInv, CountsInOrder
  <2>4. CASE m + 1 = Size
    <3>1. records[Slot(0)] # Raw <=> Holds(0)
      BY SizeTyped DEF QueueInv, SlotsHold
    <3>2. ~Holds(0)
      BY <2>2, <2>3 DEF Holds
    <3>3. ~Holds(m)'
      BY <2>1, <2>3, <2>4 DEF Holds
    <3>. QED BY <2>1, <2>4, <3>1, <3>2, <3>3
  <2>5. CASE m + 1 # Size
    <3>1. records[Slot(m + 1)] # Raw <=> Holds(m + 1)
      BY <2>5, SizeTyped DEF QueueInv, SlotsHold
    <3>2. Holds(m + 1) <=> Holds(m)'
      BY <2>1, <2>2, <2>3 DEF Holds
    <3>. QED BY <2>1, <3>1, <3>2
  <2>. QED BY <2>4, <2>5
<1>5. ThreadsTyped'
  BY DEF QueueInv, ThreadsTyped, PublishRead
<1>. QED BY <1>1, <1>2, <1>3, <1>4, <1>5 DEF QueueInv

(* The slots the destructor visits are those from one index to the other. *)
LEMMA OccupiedSlots ==
    ASSUME TypeOK, StoresCount, CountsInOrder, NEW m \in 0 .. Size - 1
    PROVE  Slot(m) \in Occupied <=> m < written - read
<1>1. /\ readIndex \in 0 .. Size - 1 /\ Slot(m) \in Slots /\ Size \in Nat
      /\ Slot(m) = IF readIndex + m < Size THEN readIndex + m ELSE readIndex + m - Size
  BY Indices, SizeTyped DEF Slots
<1>2. PICK d \in 0 .. Size - 1 : d = written - read
  BY Counts
<1>3. writeIndex = IF readIndex + d < Size THEN readIndex + d ELSE readIndex + d - Size
  BY <1>2, Indices, SizeTyped
<1>. QED BY <1>1, <1>2, <1>3 DEF Occupied

LEMMA InvDestruct ==
    ASSUME QueueInv, Destruct
    PROVE  QueueInv'
<1>1. TypeOK'
  BY DEF QueueInv, TypeOK, Destruct
<1>2. StoresCount' /\ ThreadsTyped'
  BY DEF QueueInv, StoresCount, ThreadsTyped, Destruct
<1>3. CountsInOrder'
  BY DEF QueueInv, CountsInOrder, Destruct, written, read
<1>4. SlotsHold'
  <2>. SUFFICES ASSUME NEW m \in 0 .. Size - 1
                PROVE  records'[Slot(m)] = Raw
    BY DEF SlotsHold, Slot, Holds, Destruct, readIndex
  <2>1. Slot(m) \in Slots
    BY Indices DEF QueueInv
  <2>2. Slot(m) \notin Occupied => ~Holds(m)
    BY OccupiedSlots DEF QueueInv, Holds, Destruct
  <2>. QED BY <2>1, <2>2 DEF QueueInv, SlotsHold, Destruct
<1>. QED BY <1>1, <1>2, <1>3, <1>4 DEF QueueInv

LEMMA InvNext == QueueInv /\ [Next]_vars => QueueInv'
<1>. SUFFICES ASSUME QueueInv, [Next]_vars PROVE QueueInv'
  OBVIOUS
<1>1. CASE UNCHANGED vars
  BY <1>1 DEF QueueInv, TypeOK, StoresCount, CountsInOrder, SlotsHold, ThreadsTyped, Holds, Slot,
              written, read, readIndex, vars
<1>2. CASE Next
  BY <1>2, InvWrite, InvRead, InvSee, InvConstruct, InvMove, InvDestroy, InvPublishWrite, InvPublishRead,
     InvDestruct DEF Next, ProducerStep, ConsumerStep
<1>. QED BY <1>1, <1>2

LEMMA InvHolds == Spec => []QueueInv
BY InvInit, InvNext, PTL DEF Spec

-----------------------------------------------------------------------------
(* Theorems *)

(* The state stays within its type: in particular, records_ holds items or *)
(* raw memory, and both indices stay in the ring.                          *)
THEOREM TypeCorrect == Spec => []TypeOK
BY InvHolds, PTL DEF QueueInv

(* Neither thread touches a slot the other may be at: the producer builds  *)
(* in raw memory, the consumer takes an object, and each knows it from a   *)
(* store it has seen.                                                      *)
LEMMA InvNoSlotRace == QueueInv => NoSlotRace
<1>. SUFFICES ASSUME QueueInv PROVE NoSlotRace
  OBVIOUS
<1>1. producer.pc = "construct" => records[writeIndex] = Raw /\ written < readsSeen - 1 + Size
  <2>. SUFFICES ASSUME producer.pc = "construct"
                PROVE  records[writeIndex] = Raw /\ written < readsSeen - 1 + Size
    OBVIOUS
  <2>1. written - read \in 0 .. Size - 1 /\ writeIndex = Slot(written - read)
    BY Counts, Indices DEF QueueInv
  <2>2. ~Holds(written - read)
    BY <2>1, Counts DEF Holds, QueueInv
  <2>3. records[writeIndex] = Raw
    BY <2>1, <2>2 DEF QueueInv, SlotsHold
  <2>. QED BY <2>3, Counts, SizeTyped DEF QueueInv, CountsInOrder
<1>2. consumer.pc \in {"move", "destroy"} => records[readIndex] # Raw /\ read < writesSeen - 1
  <2>. SUFFICES ASSUME consumer.pc \in {"move", "destroy"}
                PROVE  records[readIndex] # Raw /\ read < writesSeen - 1
    OBVIOUS
  <2>1. Holds(0) /\ read < writesSeen - 1
    BY Counts DEF QueueInv, ThreadsTyped, CountsInOrder, Holds
  <2>. QED BY <2>1, Indices, SizeTyped DEF QueueInv, SlotsHold
<1>. QED BY <1>1, <1>2 DEF NoSlotRace

(* The producer builds in raw memory only, the consumer takes published      *)
(* objects only: no slot is touched by both.                                 *)
THEOREM SlotsAreExclusive == Spec => []NoSlotRace
BY InvHolds, InvNoSlotRace, PTL

(* What was constructed and not yet destroyed is what is queued: no object *)
(* leaks and none is destroyed twice, up to the end of the destructor.     *)
LEMMA InvNothingLeaks == QueueInv => NothingLeaks
<1>. SUFFICES ASSUME QueueInv PROVE NothingLeaks
  OBVIOUS
<1>. DEFINE queued == {(readIndex + n) % Size : n \in 0 .. written - read - 1}
            built  == IF producer.pc = "store" THEN {writeIndex} ELSE {}
            gone   == IF consumer.pc = "store" THEN {readIndex} ELSE {}
<1>1. written - read \in 0 .. Size - 1 /\ written \in Nat /\ read \in Nat
  BY Counts DEF QueueInv
<1>2. /\ \A m \in 0 .. Size - 1 : Slot(m) \in Slots
      /\ \A i \in Slots : \E m \in 0 .. Size - 1 : i = Slot(m)
      /\ \A m, n \in 0 .. Size - 1 : Slot(m) = Slot(n) => m = n
      /\ writeIndex = Slot(written - read) /\ readIndex = Slot(0)
  BY Indices DEF QueueInv
<1>3. ASSUME NEW m \in 0 .. Size - 1
      PROVE  /\ Slot(m) \in queued <=> m < written - read
             /\ Slot(m) \in built <=> m = written - read /\ producer.pc = "store"
             /\ Slot(m) \in gone <=> m = 0 /\ consumer.pc = "store"
  <2>1. Slot(m) \in queued <=> \E n \in 0 .. written - read - 1 : Slot(m) = Slot(n)
    BY DEF Slot, Ring
  <2>2. \A n \in 0 .. written - read - 1 : n \in 0 .. Size - 1
    BY <1>1, SizeTyped
  <2>3. Slot(m) \in queued <=> m < written - read
    BY <1>1, <1>2, <2>1, <2>2, SizeTyped
  <2>. QED BY <1>1, <1>2, <2>3, SizeTyped
<1>. HIDE DEF queued, built, gone
<1>4. ASSUME NEW m \in 0 .. Size - 1
      PROVE  Holds(m) <=> alive /\ Slot(m) \in (queued \cup built) \ gone
  <2>1. ~(m = written - read /\ m = 0 /\ consumer.pc = "store")
    BY Counts DEF QueueInv, CountsInOrder
  <2>. QED BY <1>1, <1>3, <2>1, SizeTyped DEF Holds
<1>5. queued \cup built \subseteq Slots
  BY <1>1, <1>2, SizeTyped DEF queued, built, Slot, Ring
<1>6. {i \in Slots : records[i] # Raw} = IF alive THEN (queued \cup built) \ gone ELSE {}
  BY <1>2, <1>4, <1>5 DEF QueueInv, SlotsHold
<1>. QED BY <1>6 DEF NothingLeaks, queued, built, gone

(* A slot holds an object exactly while that is queued, but for the one that *)
(* the producer has built and the one that the consumer has destroyed, and   *)
(* no slot holds one when the queue is gone.                                 *)
THEOREM ObjectsAreDestroyedOnce == Spec => []NothingLeaks
BY InvHolds, InvNothingLeaks, PTL

(* The difference of two indices that are n stores apart, as sizeGuess()   *)
(* computes it.                                                            *)
LEMMA WordRemainder ==
    ASSUME NEW n \in 0 .. Word - 1
    PROVE  n % Word = n /\ (n - Word) % Word = n
<1>1. Word \in Nat \ {0}
  BY QueueAssumption
<1>2. n % Word = n
  BY <1>1, SmallRemainder
<1>3. (Word * (-1) + n) % Word = n
  BY <1>1, RemainderIsUnique
<1>. QED BY <1>1, <1>2, <1>3

LEMMA HalfWord ==
    ASSUME Size <= Word \div 2
    PROVE  \E h \in Nat : h = Word \div 2 /\ Word = 2 * h /\ Size <= h
BY QueueAssumption

LEMMA SizeGuessIsDifference ==
    ASSUME Size <= Word \div 2, NEW r \in Nat, NEW n \in 0 .. Size - 1
    PROVE  SizeGuess(Ring(r + n), Ring(r)) = n
<1>1. PICK h \in Nat : h = Word \div 2 /\ Word = 2 * h /\ Size <= h
  BY HalfWord
<1>2. Size \in Nat \ {0, 1} /\ n \in 0 .. Size
  BY SizeTyped
<1>3. /\ Ring(r) \in 0 .. Size - 1
      /\ Ring(r + n) = IF Ring(r) + n < Size THEN Ring(r) + n ELSE Ring(r) + n - Size
  BY <1>2, RingPlus, Zenon
<1>4. \A k \in 0 .. Word - 1 : ToInt(k) = IF k < h THEN k ELSE k - Word
  BY <1>1 DEF ToInt
<1>5. n \in 0 .. Word - 1 /\ n % Word = n /\ ToInt(n) = n
  BY <1>1, <1>2, <1>4, WordRemainder
<1>6. CASE Ring(r) + n < Size
  <2>1. Ring(r + n) - Ring(r) = n
    BY <1>2, <1>3, <1>6
  <2>. QED BY <1>5, <2>1 DEF SizeGuess
<1>7. CASE ~(Ring(r) + n < Size)
  <2>1. PICK k : k = n - Size + Word
    OBVIOUS
  <2>2. Ring(r + n) - Ring(r) = k - Word /\ k \in 0 .. Word - 1 /\ ~(k < h)
    BY <1>1, <1>2, <1>3, <1>7, <2>1
  <2>3. (k - Word) % Word = k /\ ToInt(k) = k - Word
    BY <2>2, <1>4, WordRemainder
  <2>4. k - Word < 0 /\ k - Word + Size = n
    BY <1>1, <1>2, <2>1, <2>2
  <2>. QED BY <1>5, <2>2, <2>3, <2>4 DEF SizeGuess
<1>. QED BY <1>6, <1>7

(* sizeGuess() is no less than the size in the producer's thread and no    *)
(* more than it in the consumer's, also when the indices have wrapped.     *)
LEMMA InvSizeGuess == QueueInv => SizeGuessIsBound
<1>. SUFFICES ASSUME QueueInv, Size <= Word \div 2
              PROVE  /\ SizeGuess(writeIndex, ReadIndexSeen) >= written - read
                     /\ SizeGuess(WriteIndexSeen, readIndex) <= written - read
  BY DEF SizeGuessIsBound
<1>1. /\ read \in Nat /\ written \in Nat /\ readsSeen \in 1 .. read + 1 /\ writesSeen \in read + 1 .. written + 1
      /\ written <= readsSeen + Size - 2
      /\ writeIndex = Ring(written) /\ ReadIndexSeen = Ring(readsSeen - 1)
      /\ readIndex = Ring(read) /\ WriteIndexSeen = Ring(writesSeen - 1)
      /\ written - read \in 0 .. Size - 1
  BY Counts DEF QueueInv, CountsInOrder
<1>2. PICK r, n : r = readsSeen - 1 /\ n = written - (readsSeen - 1)
  OBVIOUS
<1>3. r \in Nat /\ n \in 0 .. Size - 1 /\ r + n = written /\ n >= written - read
  BY <1>1, <1>2, SizeTyped
<1>4. SizeGuess(writeIndex, ReadIndexSeen) = n
  BY <1>1, <1>2, <1>3, SizeGuessIsDifference
<1>5. PICK k : k = (writesSeen - 1) - read
  OBVIOUS
<1>6. k \in 0 .. Size - 1 /\ read + k = writesSeen - 1 /\ k <= written - read
  BY <1>1, <1>5, SizeTyped
<1>7. SizeGuess(WriteIndexSeen, readIndex) = k
  BY <1>1, <1>6, SizeGuessIsDifference
<1>. QED BY <1>3, <1>4, <1>6, <1>7

(* sizeGuess() errs on one side only: the consumer may find more than it was *)
(* told, the producer fewer, in queues whose indices fit an int.             *)
THEOREM SizeGuessBounds == Spec => []SizeGuessIsBound
BY InvHolds, InvSizeGuess, PTL

-----------------------------------------------------------------------------
(* The ring buffer implements the bounded queue                            *)

(* The items of the bounded queue, as the refinement mapping has them. *)
Queued ==
    IF alive THEN [n \in 1 .. written - read - moved |-> records[(readIndex + moved + n - 1) % Size]]
             ELSE <<>>

(* What is queued are the objects from the next one to be moved on. *)
QueuedIsHeld ==
    /\ moved \in {0, 1} /\ written - read - moved \in 0 .. Size - 1
    /\ Queued \in Seq(Items) /\ Len(Queued) = written - read - moved
    /\ \A n \in 1 .. Len(Queued) : Queued[n] = records[Slot(moved + n - 1)]

LEMMA QueuedProperties == QueueInv /\ alive => QueuedIsHeld
<1>. SUFFICES ASSUME QueueInv, alive PROVE QueuedIsHeld
  OBVIOUS
<1>1. moved \in {0, 1} /\ written - read - moved \in 0 .. Size - 1
  <2>1. written - read \in 0 .. Size - 1 /\ written \in Nat /\ read \in Nat
    BY Counts DEF QueueInv
  <2>2. consumer.pc # "idle" => written - read > 0
    BY Counts DEF QueueInv, CountsInOrder
  <2>. QED BY <2>1, <2>2, SizeTyped DEF moved
<1>2. readIndex \in Nat /\ written \in Nat /\ read \in Nat
  BY Counts, Indices DEF QueueInv, Slots
<1>3. ASSUME NEW n \in 1 .. written - read - moved
      PROVE  /\ records[(readIndex + moved + n - 1) % Size] = records[Slot(moved + n - 1)]
             /\ records[(readIndex + moved + n - 1) % Size] \in Items
  <2>1. readIndex + moved + n - 1 = readIndex + (moved + n - 1)
    BY <1>1, <1>2
  <2>2. moved + n - 1 \in 0 .. Size - 1 /\ moved + n - 1 < written - read
    BY <1>1, <1>2, SizeTyped
  <2>3. ~(moved + n - 1 = 0 /\ consumer.pc = "store")
    BY <1>1, <1>2 DEF moved
  <2>4. Holds(moved + n - 1)
    BY <2>2, <2>3 DEF Holds
  <2>5. records[Slot(moved + n - 1)] \in Items
    BY <2>2, <2>4, Indices DEF QueueInv, SlotsHold, TypeOK
  <2>. QED BY <2>1, <2>5 DEF Slot, Ring
<1>4. Queued = [n \in 1 .. written - read - moved |-> records[(readIndex + moved + n - 1) % Size]]
  BY DEF Queued
<1>. DEFINE N == written - read - moved
            item(n) == records[(readIndex + moved + n - 1) % Size]
<1>5. N \in Nat /\ \A n \in 1 .. N : item(n) \in Items
  BY <1>1, <1>3
<1>6. Queued = [n \in 1 .. N |-> item(n)]
  BY <1>4
<1>7. Queued \in [1 .. N -> Items]
  <2>. HIDE DEF N, item
  <2>. QED BY <1>5, <1>6
<1>8. Queued \in Seq(Items) /\ Len(Queued) = N
  <2>. HIDE DEF N, item
  <2>. QED BY <1>5, <1>7
<1>. QED BY <1>1, <1>3, <1>4, <1>8 DEF QueuedIsHeld

LEMMA QueuedPropertiesNext == (QueueInv /\ alive => QueuedIsHeld)'
BY QueuedProperties, PTL

(* A step after which the same items are queued. *)
LEMMA QueuedStays ==
    ASSUME QueueInv, QueueInv', alive, alive',
           written' - read' - moved' = written - read - moved,
           \A n \in 1 .. written - read - moved :
              records'[Slot(moved + n - 1)'] = records[Slot(moved + n - 1)]
    PROVE  Queued' = Queued
<1>1. Queued \in Seq(Items) /\ Queued' \in Seq(Items) /\ Len(Queued) = Len(Queued')
  BY QueuedProperties, QueuedPropertiesNext DEF QueuedIsHeld
<1>2. \A n \in 1 .. Len(Queued) : Queued'[n] = Queued[n]
  BY <1>1, QueuedProperties, QueuedPropertiesNext DEF QueuedIsHeld
<1>. QED BY <1>1, <1>2, SeqEqual

(* Only the store of writeIndex_ and the move of an item are steps of the  *)
(* bounded queue; the tests, the accesses to the slots and the store of    *)
(* readIndex_ are not.                                                     *)
LEMMA QueuedStutters ==
    ASSUME QueueInv, QueueInv', alive,
           \/ \E x \in Items : Write(x)
           \/ Read \/ SeeRead \/ SeeWrite \/ Construct \/ ConstructThrows
           \/ MoveThrows \/ Destroy \/ PublishRead
    PROVE  UNCHANGED <<Queued, consumer.item, alive>>
<1>1. alive' = alive /\ consumer'.item = consumer.item
  BY DEF QueueInv, TypeOK, Write, Read, SeeRead, SeeWrite, Construct, ConstructThrows, MoveThrows, Destroy, PublishRead
<1>2. /\ moved \in {0, 1} /\ written - read - moved \in 0 .. Size - 1
      /\ written \in Nat /\ read \in Nat
  BY QueuedProperties, Counts, SizeTyped DEF QueuedIsHeld, QueueInv
<1>3. CASE \/ \E x \in Items : Write(x)
           \/ Read \/ SeeRead \/ SeeWrite \/ ConstructThrows \/ MoveThrows
  <2>1. UNCHANGED <<records, readStores, writeStores>>
    BY <1>3 DEF Write, Read, SeeRead, SeeWrite, ConstructThrows, MoveThrows
  <2>2. moved' = moved
    BY <1>3 DEF QueueInv, TypeOK, Write, Read, SeeRead, SeeWrite, ConstructThrows, MoveThrows, moved
  <2>3. Queued' = Queued
    BY <1>1, <2>1, <2>2 DEF Queued, read, written, readIndex
  <2>. QED BY <1>1, <2>3
<1>4. CASE Construct
  <2>1. UNCHANGED <<readStores, writeStores, consumer>> /\ records' = [records EXCEPT ![writeIndex] = producer.item]
    BY <1>4 DEF Construct
  <2>2. UNCHANGED <<read, written, moved, readIndex>>
    BY <2>1 DEF read, written, moved, readIndex
  <2>3. ASSUME NEW n \in 1 .. written - read - moved
        PROVE  records'[Slot(moved + n - 1)'] = records[Slot(moved + n - 1)]
    <3>1. /\ moved + n - 1 \in 0 .. Size - 1 /\ moved + n - 1 # written - read
          /\ written - read \in 0 .. Size - 1
      BY <1>2, Counts, SizeTyped DEF QueueInv
    <3>2. Slot(moved + n - 1) \in Slots /\ Slot(moved + n - 1) # writeIndex
      BY <3>1, Indices DEF QueueInv
    <3>3. Slot(moved + n - 1)' = Slot(moved + n - 1)
      BY <2>2 DEF Slot, Ring
    <3>. QED BY <2>1, <3>2, <3>3 DEF QueueInv, TypeOK
  <2>. QED BY <1>1, <2>2, <2>3, QueuedStays
<1>5. CASE Destroy
  <2>1. /\ UNCHANGED <<readStores, writeStores>> /\ records' = [records EXCEPT ![readIndex] = Raw]
        /\ moved = 1 /\ moved' = 1
    BY <1>5 DEF QueueInv, TypeOK, Destroy, moved
  <2>2. UNCHANGED <<read, written, moved, readIndex>>
    BY <2>1 DEF read, written, readIndex
  <2>3. ASSUME NEW n \in 1 .. written - read - moved
        PROVE  records'[Slot(moved + n - 1)'] = records[Slot(moved + n - 1)]
    <3>1. moved + n - 1 \in 0 .. Size - 1 /\ moved + n - 1 # 0 /\ 0 \in 0 .. Size - 1
      BY <1>2, <2>1, Counts, SizeTyped DEF QueueInv
    <3>2. Slot(moved + n - 1) \in Slots /\ Slot(moved + n - 1) # readIndex
      BY <3>1, Indices DEF QueueInv
    <3>3. Slot(moved + n - 1)' = Slot(moved + n - 1)
      BY <2>2 DEF Slot, Ring
    <3>. QED BY <2>1, <3>2, <3>3 DEF QueueInv, TypeOK
  <2>. QED BY <1>1, <2>2, <2>3, QueuedStays
<1>6. CASE PublishRead
  <2>1. records' = records /\ moved = 1 /\ moved' = 0
    BY <1>6 DEF QueueInv, TypeOK, PublishRead, moved
  <2>2. /\ read' = read + 1 /\ written' = written
        /\ \A m \in 0 .. Size - 1 : Slot(m)' = Slot(m + 1)
    BY <1>6, PublishReadMoves
  <2>3. ASSUME NEW n \in 1 .. written - read - moved
        PROVE  records'[Slot(moved + n - 1)'] = records[Slot(moved + n - 1)]
    <3>1. n - 1 \in 0 .. Size - 1
      BY <1>2, <2>1, SizeTyped
    <3>2. Slot(n - 1)' = Slot(n - 1 + 1)
      BY <2>2, <3>1
    <3>3. Slot(moved + n - 1)' = Ring(readIndex' + (moved' + n - 1)) /\ moved' + n - 1 = n - 1 /\ moved + n - 1 = n - 1 + 1
      BY <2>1 DEF Slot, Ring
    <3>4. Slot(n - 1)' = Ring(readIndex' + (n - 1))
      BY DEF Slot, Ring
    <3>. QED BY <2>1, <3>2, <3>3, <3>4
  <2>4. written' - read' - moved' = written - read - moved
    BY <1>2, <2>1, <2>2
  <2>. QED BY <1>1, <2>3, <2>4, QueuedStays
<1>. QED BY <1>3, <1>4, <1>5, <1>6

(* The store of writeIndex_ appends the item that was constructed. *)
LEMMA PublishWriteEnqueues ==
    ASSUME QueueInv, QueueInv', PublishWrite
    PROVE  /\ alive /\ alive' = alive /\ consumer'.item = consumer.item
           /\ Len(Queued) < Size - 1
           /\ \E x \in Items : Queued' = Append(Queued, x)
<1>1. alive /\ alive' = alive /\ consumer' = consumer
  BY DEF QueueInv, ThreadsTyped, PublishWrite
<1>2. QueuedIsHeld /\ QueuedIsHeld'
  BY <1>1, QueuedProperties, QueuedPropertiesNext
<1>3. UNCHANGED <<records, readStores, moved, read, readIndex>>
  BY DEF PublishWrite, moved, read, readIndex
<1>4. /\ written' = written + 1 /\ written \in Nat /\ read \in Nat
      /\ written - read \in 0 .. Size - 1 /\ written - read < Size - 1
  <2>1. writeStores' = Append(writeStores, NextRecord(writeIndex)) /\ writeStores \in Seq(Slots)
    BY DEF PublishWrite, QueueInv, TypeOK
  <2>2. written' = written + 1 /\ read' = read
    BY <1>3, <2>1 DEF written
  <2>3. written \in Nat /\ read \in Nat /\ written - read \in 0 .. Size - 1
    BY Counts DEF QueueInv
  <2>4. written < readsSeen + Size - 2 /\ readsSeen \in 1 .. read + 1
    BY Counts DEF QueueInv, CountsInOrder, PublishWrite
  <2>. QED BY <2>2, <2>3, <2>4, SizeTyped
<1>. DEFINE x == records[writeIndex]
<1>5. x \in Items
  <2>1. Holds(written - read)
    BY <1>1, <1>4, Counts DEF Holds, PublishWrite, QueueInv, CountsInOrder
  <2>. QED BY <1>4, <2>1, Indices DEF QueueInv, SlotsHold, TypeOK
<1>6. Len(Queued) < Size - 1 /\ Len(Queued') = Len(Queued) + 1 /\ Len(Queued) \in Nat
  BY <1>2, <1>3, <1>4, SizeTyped DEF QueuedIsHeld
<1>7. ASSUME NEW n \in 1 .. Len(Queued)
      PROVE  Queued'[n] = Queued[n]
  <2>1. Slot(moved + n - 1)' = Slot(moved + n - 1)
    BY <1>3 DEF Slot, Ring
  <2>. QED BY <1>2, <1>3, <1>6, <2>1 DEF QueuedIsHeld
<1>8. Queued'[Len(Queued) + 1] = x
  <2>1. PICK n : n = Len(Queued) + 1
    OBVIOUS
  <2>2. Queued'[n] = records'[Slot(moved + n - 1)']
    <3>1. n \in 1 .. Len(Queued')
      BY <1>6, <2>1
    <3>. QED BY <1>2, <3>1 DEF QueuedIsHeld
  <2>3. moved' + n - 1 = written - read
    <3>1. moved' = moved /\ moved \in {0, 1} /\ Len(Queued) = written - read - moved
      BY <1>2, <1>3 DEF QueuedIsHeld
    <3>. QED BY <1>4, <2>1, <3>1
  <2>4. Slot(moved + n - 1)' = Slot(written - read)
    BY <1>3, <2>3 DEF Slot, Ring
  <2>5. Slot(written - read) = writeIndex
    BY Indices DEF QueueInv
  <2>. QED BY <1>3, <2>1, <2>2, <2>4, <2>5
<1>9. Queued' = Append(Queued, x)
  <2>1. Queued \in Seq(Items) /\ Queued' \in Seq(Items)
    BY <1>2 DEF QueuedIsHeld
  <2>2. /\ Append(Queued, x) \in Seq(Items) /\ Len(Append(Queued, x)) = Len(Queued) + 1
        /\ \A i \in 1 .. Len(Queued) : Append(Queued, x)[i] = Queued[i]
        /\ Append(Queued, x)[Len(Queued) + 1] = x
    BY <1>5, <2>1, AppendProperties
  <2>. HIDE DEF x
  <2>3. \A i \in 1 .. Len(Queued') : Queued'[i] = Append(Queued, x)[i]
    BY <1>6, <1>7, <1>8, <2>2
  <2>. QED BY <1>6, <2>1, <2>2, <2>3, SeqEqual
<1>. QED BY <1>1, <1>5, <1>6, <1>9

(* The move takes the oldest item. *)
LEMMA MoveDequeues ==
    ASSUME QueueInv, QueueInv', Move
    PROVE  /\ alive /\ alive' = alive /\ Queued # <<>>
           /\ consumer'.item = Head(Queued) /\ Queued' = Tail(Queued)
<1>1. /\ alive /\ alive' = alive /\ UNCHANGED <<records, read, written, readIndex>>
      /\ moved = 0 /\ moved' = 1 /\ consumer'.item = records[readIndex]
  BY DEF QueueInv, ThreadsTyped, Move, read, written, readIndex, moved
<1>2. QueuedIsHeld /\ QueuedIsHeld'
  BY <1>1, QueuedProperties, QueuedPropertiesNext
<1>3. Len(Queued) = written - read /\ Len(Queued') = Len(Queued) - 1 /\ Len(Queued) \in Nat
  BY <1>1, <1>2, Counts DEF QueuedIsHeld, QueueInv
<1>4. Len(Queued') \in Nat
  BY <1>2 DEF QueuedIsHeld
<1>5. Queued \in Seq(Items) /\ Queued' \in Seq(Items) /\ Queued # <<>>
  BY <1>2, <1>3, <1>4 DEF QueuedIsHeld
<1>6. Head(Queued) = records[readIndex]
  <2>1. Queued[1] = records[Slot(moved + 1 - 1)]
    BY <1>2, <1>3, <1>4 DEF QueuedIsHeld
  <2>2. moved + 1 - 1 = 0 /\ Slot(0) = readIndex
    BY <1>1, Indices DEF QueueInv
  <2>. QED BY <1>5, <2>1, <2>2
<1>7. /\ Tail(Queued) \in Seq(Items) /\ Len(Tail(Queued)) = Len(Queued) - 1
      /\ \A i \in 1 .. Len(Tail(Queued)) : Tail(Queued)[i] = Queued[i + 1]
  BY <1>5, HeadTailProperties
<1>8. ASSUME NEW n \in 1 .. Len(Queued')
      PROVE  Queued'[n] = Tail(Queued)[n]
  <2>1. Queued'[n] = records'[Slot(moved + n - 1)']
    BY <1>2 DEF QueuedIsHeld
  <2>2. Tail(Queued)[n] = records[Slot(moved + (n + 1) - 1)]
    BY <1>2, <1>3, <1>7, n + 1 \in 1 .. Len(Queued) DEF QueuedIsHeld
  <2>3. moved' + n - 1 = moved + (n + 1) - 1
    BY <1>1
  <2>4. Slot(moved + n - 1)' = Slot(moved + (n + 1) - 1)
    BY <1>1, <2>3 DEF Slot, Ring
  <2>. QED BY <1>1, <2>1, <2>2, <2>4
<1>9. Queued' = Tail(Queued)
  BY <1>3, <1>5, <1>7, <1>8, SeqEqual
<1>. QED BY <1>1, <1>5, <1>6, <1>9

LEMMA StepRefines == QueueInv /\ QueueInv' /\ [Next]_vars => [Abstract!Next]_(Abstract!vars)
<1>. SUFFICES ASSUME QueueInv, QueueInv', [Next]_vars
              PROVE  [Abstract!Next]_(Abstract!vars)
  OBVIOUS
<1>1. CASE UNCHANGED vars
  BY <1>1 DEF vars, Abstract!vars, read, written, moved, readIndex
<1>2. CASE PublishWrite
  BY <1>2, PublishWriteEnqueues DEF Abstract!Next, Abstract!Enqueue, Queued
<1>3. CASE Move
  BY <1>3, MoveDequeues DEF Abstract!Next, Abstract!Dequeue, Queued
<1>4. CASE Destruct
  BY <1>4 DEF Destruct, Abstract!Next, Abstract!Discard
<1>5. CASE \/ \E x \in Items : Write(x)
           \/ Read \/ SeeRead \/ SeeWrite \/ Construct \/ ConstructThrows
           \/ MoveThrows \/ Destroy \/ PublishRead
  <2>1. alive
    BY <1>5 DEF QueueInv, ThreadsTyped, Write, Read, SeeRead, SeeWrite, Construct, ConstructThrows, MoveThrows, Destroy, PublishRead
  <2>. QED BY <1>5, <2>1, QueuedStutters DEF Abstract!vars, Queued
<1>. QED BY <1>1, <1>2, <1>3, <1>4, <1>5 DEF Next, ProducerStep, ConsumerStep

LEMMA InitRefines == Init => Abstract!Init
BY DEF Init, Abstract!Init, written, read, moved

(* The queue between the two threads is a FIFO queue of Size - 1 items:    *)
(* items are delivered in the order they were written, each of them once,  *)
(* whatever the two threads see of each other's indices.                   *)
THEOREM RingIsBoundedQueue == Spec => ImplementsBoundedQueue
BY InvHolds, InitRefines, StepRefines, PTL DEF Spec, ImplementsBoundedQueue, Abstract!Spec

=============================================================================
