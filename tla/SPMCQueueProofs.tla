-------------------------- MODULE SPMCQueueProofs --------------------------
(***************************************************************************)
(* Proofs about SPMCQueue, for any number of consumers, any batch size and *)
(* any Capacity of at least two.  With one slot the number that says "may  *)
(* be written" (p) is the number that says "may be read" (p - 1 + 1), and  *)
(* the theorems are false; the code's static_assert lets it through.       *)
(*                                                                         *)
(* The inductive invariant speaks of positions.  The slots belong, one     *)
(* each, to the Capacity positions from Published on; a slot carries the   *)
(* number of its position when it is free and, while the item one lap      *)
(* earlier is unreleased, that item's number plus one (SlotInv).           *)
(***************************************************************************)
EXTENDS SPMCQueue, Sequences, SequenceTheorems, FiniteSetTheorems, TLAPS

-----------------------------------------------------------------------------
(* Slots of positions.                                                       *)

LEMMA IndexInSlots == ASSUME NEW p \in Nat PROVE Index(p) \in Slots
  BY ConstantsAssumption DEF Index, Slots

LEMMA IndexNextLap == ASSUME NEW p \in Nat PROVE Index(p + Capacity) = Index(p)
<1> DEFINE k == p \div Capacity
           m == p % Capacity
<1>1. k \in Nat /\ m \in 0 .. Capacity - 1 /\ p = Capacity * k + m
  BY ConstantsAssumption
<1> HIDE DEF k, m
<1>2. p + Capacity = Capacity * (k + 1) + m
  BY ConstantsAssumption, <1>1
<1>3. (Capacity * (k + 1) + m) % Capacity = m
  BY ConstantsAssumption, <1>1
<1> QED
  BY <1>2, <1>3 DEF Index, m

\* Positions less than a lap apart have different slots.
LEMMA IndexInjective ==
  ASSUME NEW p \in Nat, NEW q \in Nat, p <= q, q < p + Capacity, Index(p) = Index(q)
  PROVE  p = q
<1> DEFINE j == p \div Capacity
           k == q \div Capacity
           m == p % Capacity
<1>1. j \in Nat /\ k \in Nat /\ m \in 0 .. Capacity - 1
  BY ConstantsAssumption
<1>2. p = Capacity * j + m
  BY ConstantsAssumption
<1>3. q = Capacity * k + m
  BY ConstantsAssumption DEF Index
<1> HIDE DEF j, k, m
<1>4. Capacity * (k - j) < Capacity /\ Capacity * (k - j) >= 0
  BY ConstantsAssumption, <1>1, <1>2, <1>3
<1>5. k - j = 0
  BY ConstantsAssumption, <1>1, <1>4
<1> QED
  BY <1>1, <1>2, <1>3, <1>5

-----------------------------------------------------------------------------
(* The inductive invariant.                                                  *)

\* The item of position r is in its slot: nobody has claimed it, or the one who
\* did has not given the slot back.
Unreleased(r) ==
  r >= consumer_cursor \/ \E c \in Consumers : Holds(c) /\ pos[c] = r

SlotInv ==
  \A q \in Published .. Published + Capacity - 1 :
    sequence[Index(q)] = IF Unreleased(q - Capacity) THEN q - Capacity + 1 ELSE q

\* A number never falls behind the positions that were published in its slot.
PastInv == \A p \in 0 .. Published - 1 : sequence[Index(p)] >= p + 1

DataInv ==
  /\ \A r \in consumer_cursor .. Published - 1 : data[Index(r)] = r
  /\ \A c \in Consumers : Moving(c) => data[Index(pos[c])] = pos[c]

CursorInv == Published - consumer_cursor \in 0 .. Capacity

HolderInv ==
  /\ \A c \in Consumers :
       Holds(c) => pos[c] \in Published - Capacity .. consumer_cursor - 1
  /\ \A c, d \in Consumers : Holds(c) /\ Holds(d) /\ pos[c] = pos[d] => c = d

ReceivedInv ==
  /\ \A c \in Consumers : \A r \in received[c] :
       r < consumer_cursor /\ \A d \in Consumers : Moving(d) => pos[d] # r
  /\ \A r \in 0 .. consumer_cursor - 1 :
       \E c \in Consumers : r \in received[c] \/ (Moving(c) /\ pos[c] = r)
  /\ \A c, d \in Consumers : c # d => received[c] \cap received[d] = {}
  /\ \A c \in Consumers : Moving(c) => \A r \in received[c] : r < pos[c]

RingInv == SlotInv /\ PastInv /\ DataInv /\ CursorInv /\ HolderInv /\ ReceivedInv

\* What the threads know between two accesses.
ProducerInv ==
  /\ ppc = "idle" => enqueued = 0
  /\ ppc \in {"write", "publish"} => ~Unreleased(Published - Capacity)
  /\ ppc = "publish" => data[Index(Published)] = Published

ConsumerInv ==
  \A c \in Consumers :
    /\ cpc[c] \in {"sequence", "cas"} => pos[c] <= consumer_cursor
    /\ cpc[c] = "cas" => pos[c] < Published

IInv == TypeOK /\ RingInv /\ ProducerInv /\ ConsumerInv

LEMMA InitIInv == Capacity >= 2 /\ Init => IInv
<1> SUFFICES ASSUME Capacity >= 2, Init PROVE IInv
  OBVIOUS
<1>1. TypeOK
  BY ConstantsAssumption DEF Init, TypeOK, Slots, InitialSequence, NoItem, Calls
<1>2. Published = 0 /\ \A c \in Consumers : ~Holds(c) /\ ~Moving(c)
  BY DEF Init, Published, Holds, Moving
<1>3. SlotInv
  <2> SUFFICES ASSUME NEW q \in 0 .. Capacity - 1
               PROVE  sequence[Index(q)] = IF Unreleased(q - Capacity) THEN q - Capacity + 1 ELSE q
    BY <1>2, ConstantsAssumption DEF SlotInv
  <2>1. ~Unreleased(q - Capacity)
    BY <1>2, ConstantsAssumption DEF Unreleased, Init
  <2>2. Index(q) = q
    BY ConstantsAssumption DEF Index
  <2> QED
    BY <2>1, <2>2 DEF Init, InitialSequence, Slots
<1>4. RingInv
  BY <1>2, <1>3, ConstantsAssumption
  DEF RingInv, PastInv, DataInv, CursorInv, HolderInv, ReceivedInv, Init
<1>5. ProducerInv /\ ConsumerInv
  BY DEF Init, ProducerInv, ConsumerInv
<1> QED
  BY <1>1, <1>4, <1>5 DEF IInv

-----------------------------------------------------------------------------
(* Types.  That what a consumer receives is an item, and not NoItem, is      *)
(* DataInv.                                                                  *)

LEMMA PublishedInNat == TypeOK => Published \in Nat
  BY DEF TypeOK, Published

LEMMA TypeStep == IInv /\ [Next]_vars => TypeOK'
<1> SUFFICES ASSUME IInv, [Next]_vars PROVE TypeOK'
  OBVIOUS
<1>0. TypeOK /\ Published \in Nat
  BY PublishedInNat DEF IInv
<1> USE ConstantsAssumption DEF shared, stats, producer, consumer
<1>1. ASSUME NEW call \in Calls, StartEnqueue(call) PROVE TypeOK'
  BY <1>0, <1>1 DEF StartEnqueue, TypeOK
<1>2. ASSUME FindSlotFree \/ FindSlotTaken \/ AdvanceProducer PROVE TypeOK'
  BY <1>0, <1>2 DEF FindSlotFree, FindSlotTaken, AdvanceProducer, TypeOK
<1>3. ASSUME WriteSlot PROVE TypeOK'
  BY <1>0, <1>3 DEF WriteSlot, TypeOK
<1>4. ASSUME PublishSlot PROVE TypeOK'
  <2>1. ppc' \in {"check", "advance"}
    BY <1>4 DEF PublishSlot
  <2>2. /\ sequence' = [sequence EXCEPT ![Index(Published)] = Published + 1]
        /\ enqueued' = enqueued + 1
        /\ UNCHANGED <<data, producer_pos, consumer_cursor, stats, pcall, consumer>>
    BY <1>4 DEF PublishSlot, Filled
  <2>3. Published + 1 \in Nat
    BY <1>0
  <2>4. sequence' \in [Slots -> Nat]
    BY <1>0, <2>2, <2>3 DEF TypeOK
  <2> QED
    BY <1>0, <2>1, <2>2, <2>4 DEF TypeOK
<1>5. ASSUME CountEnqueued PROVE TypeOK'
  BY <1>0, <1>5 DEF CountEnqueued, CountBatch, TypeOK
<1>6. ASSUME NEW c \in Consumers, NEW call \in Calls, StartDequeue(c, call) PROVE TypeOK'
  BY <1>0, <1>6 DEF StartDequeue, Goto, TypeOK
<1>7. ASSUME NEW c \in Consumers,
             LoadCursor(c) \/ FindItem(c) \/ FindNewer(c) \/ EndBatch(c) \/ LoseClaim(c)
      PROVE TypeOK'
  BY <1>0, <1>7 DEF LoadCursor, FindItem, FindNewer, EndBatch, LoseClaim, Goto, TypeOK
<1>8. ASSUME NEW c \in Consumers, ReturnEmpty(c) \/ CountDequeued(c) PROVE TypeOK'
  BY <1>0, <1>8 DEF ReturnEmpty, CountDequeued, CountFailed, CountBatch, Goto, TypeOK
<1>9. ASSUME NEW c \in Consumers, Claim(c) PROVE TypeOK'
  BY <1>0, <1>9 DEF Claim, Goto, TypeOK
<1>10. ASSUME NEW c \in Consumers, MoveOut(c) PROVE TypeOK'
  <2>1. data[Index(pos[c])] = pos[c]
    BY <1>10 DEF IInv, RingInv, DataInv, MoveOut, Goto, Moving
  <2>2. pos[c] \in Nat
    BY <1>0 DEF TypeOK
  <2> QED
    BY <1>0, <1>10, <2>1, <2>2 DEF MoveOut, Goto, TypeOK
<1>11. ASSUME NEW c \in Consumers, Release(c) PROVE TypeOK'
  <2>1. PICK place \in {"cursor", "count"} : cpc' = [cpc EXCEPT ![c] = place]
    BY <1>11 DEF Release
  <2>2. pos[c] + Capacity \in Nat
    BY <1>0 DEF TypeOK
  <2>3. /\ sequence' = [sequence EXCEPT ![Index(pos[c])] = pos[c] + Capacity]
        /\ dequeued' = [dequeued EXCEPT ![c] = @ + 1]
        /\ UNCHANGED <<data, producer_pos, consumer_cursor, stats, producer, ccall, pos, received>>
    BY <1>11 DEF Release, NextLap
  <2>4. sequence' \in [Slots -> Nat]
    BY <1>0, <2>2, <2>3 DEF TypeOK
  <2> QED
    BY <1>0, <2>1, <2>2, <2>3, <2>4 DEF TypeOK
<1>12. CASE UNCHANGED vars
  BY <1>0, <1>12 DEF vars, TypeOK
<1> QED
  BY <1>1, <1>2, <1>3, <1>4, <1>5, <1>6, <1>7, <1>8, <1>9, <1>10, <1>11, <1>12
  DEF Next, Producer, Consumer, Proceed

-----------------------------------------------------------------------------
(* The ring.  Only PublishSlot, Claim, MoveOut, Release and WriteSlot touch  *)
(* what RingInv speaks of.                                                   *)

\* No consumer claims, moves or releases an item.
SameHolders ==
  \A c \in Consumers :
    /\ Holds(c)' <=> Holds(c)
    /\ Moving(c)' <=> Moving(c)
    /\ Holds(c) => pos'[c] = pos[c]

LEMMA QuietStep ==
  ASSUME RingInv, SameHolders, Published' = Published,
         UNCHANGED <<sequence, data, consumer_cursor, received>>
  PROVE  RingInv' /\ \A r : Unreleased(r)' <=> Unreleased(r)
<1>1. \A c \in Consumers : Moving(c) => Holds(c)
  BY DEF Moving, Holds
<1>2. ASSUME NEW r PROVE Unreleased(r)' <=> Unreleased(r)
  BY DEF Unreleased, SameHolders
<1>3. SlotInv' /\ PastInv' /\ CursorInv'
  BY <1>2 DEF RingInv, SlotInv, PastInv, CursorInv
<1>4. DataInv' /\ HolderInv' /\ ReceivedInv'
  BY <1>1 DEF RingInv, DataInv, HolderInv, ReceivedInv, SameHolders
<1> QED
  BY <1>2, <1>3, <1>4 DEF RingInv

\* The steps that leave the ring as it is.
QuietNext ==
  \/ \E call \in Calls : StartEnqueue(call)
  \/ FindSlotFree \/ FindSlotTaken \/ AdvanceProducer \/ CountEnqueued
  \/ \E c \in Consumers :
       \/ \E call \in Calls : StartDequeue(c, call)
       \/ LoadCursor(c) \/ FindItem(c) \/ FindNewer(c) \/ ReturnEmpty(c) \/ EndBatch(c)
       \/ LoseClaim(c) \/ CountDequeued(c)
  \/ UNCHANGED vars

LEMMA QuietNextIsQuiet ==
  ASSUME IInv, QuietNext
  PROVE  /\ SameHolders /\ Published' = Published
         /\ UNCHANGED <<sequence, data, consumer_cursor, received>>
<1> USE DEF IInv, TypeOK, SameHolders, Holds, Moving, Published, shared, consumer, producer
<1>1. ASSUME NEW call \in Calls, StartEnqueue(call) PROVE SameHolders /\ Published' = Published
  BY <1>1 DEF StartEnqueue, ProducerInv
<1>2. ASSUME FindSlotFree \/ FindSlotTaken PROVE SameHolders /\ Published' = Published
  BY <1>2 DEF FindSlotFree, FindSlotTaken
<1>3. ASSUME AdvanceProducer \/ CountEnqueued PROVE SameHolders /\ Published' = Published
  BY <1>3 DEF AdvanceProducer, CountEnqueued
<1>4. ASSUME NEW c \in Consumers, NEW call \in Calls, StartDequeue(c, call)
      PROVE SameHolders /\ Published' = Published
  BY <1>4 DEF StartDequeue, Goto
<1>5. ASSUME NEW c \in Consumers,
             \/ LoadCursor(c) \/ FindItem(c) \/ FindNewer(c) \/ ReturnEmpty(c) \/ EndBatch(c)
             \/ LoseClaim(c) \/ CountDequeued(c)
      PROVE SameHolders /\ Published' = Published
  BY <1>5
  DEF LoadCursor, FindItem, FindNewer, ReturnEmpty, EndBatch, LoseClaim, CountDequeued, Goto
<1>6. CASE UNCHANGED vars
  BY <1>6 DEF vars
<1>7. UNCHANGED <<sequence, data, consumer_cursor, received>>
  BY DEF QuietNext, StartEnqueue, FindSlotFree, FindSlotTaken, AdvanceProducer, CountEnqueued,
         StartDequeue, LoadCursor, FindItem, FindNewer, ReturnEmpty, EndBatch, LoseClaim,
         CountDequeued, vars
<1> QED
  BY <1>1, <1>2, <1>3, <1>4, <1>5, <1>6, <1>7 DEF QuietNext

-----------------------------------------------------------------------------
(* The steps that touch the ring.                                            *)

\* Unreleased items are at most a lap behind, so theirs are the only slots with
\* another number than the position's.
LEMMA SlotFreeMeansReleased ==
  ASSUME Capacity >= 2, TypeOK, SlotInv, SlotFree
  PROVE  ~Unreleased(Published - Capacity)
  BY PublishedInNat, ConstantsAssumption DEF SlotInv, SlotFree

LEMMA WriteSlotRing ==
  ASSUME IInv, WriteSlot
  PROVE  RingInv' /\ data'[Index(Published)] = Published
<1> USE ConstantsAssumption
<1>1. /\ TypeOK /\ RingInv /\ Published \in Nat /\ consumer_cursor \in Nat
      /\ pos \in [Consumers -> Nat]
  BY PublishedInNat DEF IInv, TypeOK
<1>2. Published' = Published /\ UNCHANGED <<sequence, consumer_cursor, consumer>>
  BY DEF WriteSlot, Published, consumer
<1>3. data' = [data EXCEPT ![Index(Published)] = Published]
  BY DEF WriteSlot
<1>4. ~Unreleased(Published - Capacity)
  BY DEF IInv, ProducerInv, WriteSlot
<1>5. \A r \in Nat : Published - Capacity < r /\ r < Published => Index(r) # Index(Published)
  BY <1>1, IndexInjective
<1>6. DataInv'
  <2>1. ASSUME NEW r \in consumer_cursor .. Published - 1 PROVE data'[Index(r)] = r
    <3>1. r \in Nat /\ Published - Capacity < r /\ r < Published /\ data[Index(r)] = r
      BY <1>1, <1>4 DEF Unreleased, RingInv, CursorInv, DataInv
    <3> QED
      BY <1>1, <1>3, <1>5, <3>1, IndexInSlots DEF TypeOK
  <2>2. ASSUME NEW c \in Consumers, Moving(c) PROVE data'[Index(pos[c])] = pos[c]
    <3>1. /\ pos[c] \in Nat /\ Published - Capacity < pos[c] /\ pos[c] < Published
          /\ data[Index(pos[c])] = pos[c]
      BY <1>1, <1>4, <2>2
      DEF Unreleased, RingInv, CursorInv, HolderInv, DataInv, Holds, Moving
    <3> QED
      BY <1>1, <1>3, <1>5, <3>1, IndexInSlots DEF TypeOK
  <2> QED
    BY <1>2, <2>1, <2>2 DEF DataInv, consumer, Moving
<1>7. (SlotInv /\ PastInv /\ CursorInv /\ HolderInv /\ ReceivedInv)'
  BY <1>1, <1>2
  DEF RingInv, SlotInv, PastInv, CursorInv, HolderInv, ReceivedInv, Unreleased, Holds, Moving,
      consumer
<1> QED
  BY <1>1, <1>3, <1>6, <1>7, IndexInSlots DEF RingInv, TypeOK

LEMMA PublishSlotRing ==
  ASSUME Capacity >= 2, IInv, PublishSlot
  PROVE  RingInv' /\ Published' = Published + 1
<1> USE ConstantsAssumption
<1>1. /\ TypeOK /\ RingInv /\ Published \in Nat /\ consumer_cursor \in Nat
      /\ pos \in [Consumers -> Nat] /\ sequence \in [Slots -> Nat]
  BY PublishedInNat DEF IInv, TypeOK
<1>2. Published' = Published + 1
  BY <1>1 DEF PublishSlot, Published, TypeOK
<1>3. UNCHANGED <<data, consumer_cursor, cpc, pos, received>>
  BY DEF PublishSlot, consumer
<1>4. sequence' = [sequence EXCEPT ![Index(Published)] = Published + 1]
  BY DEF PublishSlot, Filled
<1>5. ~Unreleased(Published - Capacity) /\ data[Index(Published)] = Published
  BY DEF IInv, ProducerInv, PublishSlot
<1>6. \A r : Unreleased(r)' <=> Unreleased(r)
  BY <1>3 DEF Unreleased, Holds
<1>7. consumer_cursor \in Published - Capacity + 1 .. Published
  BY <1>1, <1>5 DEF RingInv, CursorInv, Unreleased
<1>8. SlotInv'
  <2> SUFFICES ASSUME NEW q \in Published + 1 .. Published + Capacity
      PROVE sequence'[Index(q)] = IF Unreleased(q - Capacity) THEN q - Capacity + 1 ELSE q
    BY <1>1, <1>2, <1>6 DEF SlotInv
  <2>1. CASE q = Published + Capacity
    BY <1>1, <1>4, <1>7, <2>1, IndexNextLap, IndexInSlots DEF Unreleased
  <2>2. CASE q # Published + Capacity
    <3>1. q \in Nat /\ q \in Published .. Published + Capacity - 1 /\ q # Published
      BY <1>1, <2>2
    <3>2. Index(q) # Index(Published)
      BY <1>1, <3>1, IndexInjective
    <3>3. sequence[Index(q)] = IF Unreleased(q - Capacity) THEN q - Capacity + 1 ELSE q
      BY <1>1, <3>1 DEF RingInv, SlotInv
    <3> QED
      BY <1>1, <1>4, <3>1, <3>2, <3>3, IndexInSlots
  <2> QED
    BY <2>1, <2>2
<1>9. PastInv'
  <2> SUFFICES ASSUME NEW p \in 0 .. Published PROVE sequence'[Index(p)] >= p + 1
    BY <1>1, <1>2 DEF PastInv
  <2>1. CASE Index(p) = Index(Published)
    BY <1>1, <1>4, <2>1, IndexInSlots
  <2>2. CASE Index(p) # Index(Published)
    <3>1. p \in 0 .. Published - 1
      BY <1>1, <2>2
    <3>2. sequence[Index(p)] >= p + 1
      BY <1>1, <3>1 DEF RingInv, PastInv
    <3> QED
      BY <1>1, <1>4, <2>2, <3>1, <3>2, IndexInSlots
  <2> QED
    BY <2>1, <2>2
<1>10. DataInv' /\ CursorInv'
  BY <1>1, <1>2, <1>3, <1>5, <1>7 DEF RingInv, DataInv, CursorInv, Moving
<1>11. HolderInv'
  BY <1>1, <1>2, <1>3, <1>5, <1>7 DEF RingInv, HolderInv, Unreleased, Holds
<1>12. ReceivedInv'
  BY <1>1, <1>3 DEF RingInv, ReceivedInv, Moving
<1> QED
  BY <1>2, <1>8, <1>9, <1>10, <1>11, <1>12 DEF RingInv

LEMMA ClaimRing ==
  ASSUME IInv, NEW c \in Consumers, Claim(c)
  PROVE  RingInv' /\ Published' = Published /\ \A r \in Int : Unreleased(r)' => Unreleased(r)
<1> USE ConstantsAssumption
<1>1. /\ TypeOK /\ RingInv /\ Published \in Nat /\ consumer_cursor \in Nat
      /\ pos \in [Consumers -> Nat] /\ cpc[c] = "cas" /\ pos[c] = consumer_cursor
      /\ received \in [Consumers -> SUBSET Nat]
  BY PublishedInNat DEF IInv, TypeOK, Claim, Goto
<1>2. /\ Published' = Published /\ consumer_cursor' = consumer_cursor + 1
      /\ UNCHANGED <<sequence, data, pos, received>>
  BY DEF Claim, Published, producer
<1>3. pos[c] < Published
  BY <1>1 DEF IInv, ConsumerInv
<1>4. \A d \in Consumers : /\ Holds(d)' <=> Holds(d) \/ d = c
                           /\ Moving(d)' <=> Moving(d) \/ d = c
  BY DEF Claim, Goto, Holds, Moving, IInv, TypeOK
<1>5. ~Holds(c) /\ \A d \in Consumers : Moving(d) => Holds(d)
  BY <1>1 DEF Holds, Moving
<1>6. \A d \in Consumers : Holds(d) => pos[d] < consumer_cursor
  BY <1>1 DEF RingInv, HolderInv
<1>7. \A r \in Int : Unreleased(r)' <=> Unreleased(r)
  BY <1>1, <1>2, <1>4 DEF Unreleased
<1>8. (SlotInv /\ PastInv)'
  <2> SUFFICES ASSUME NEW q \in Published .. Published + Capacity - 1
      PROVE sequence[Index(q)] = IF Unreleased(q - Capacity)' THEN q - Capacity + 1 ELSE q
    BY <1>1, <1>2 DEF SlotInv, PastInv, RingInv
  <2> QED
    BY <1>1, <1>7 DEF RingInv, SlotInv
<1>9. (DataInv /\ CursorInv)'
  BY <1>1, <1>2, <1>3, <1>4 DEF RingInv, DataInv, CursorInv
<1>10. HolderInv'
  BY <1>1, <1>2, <1>3, <1>4, <1>6 DEF RingInv, HolderInv, CursorInv
<1>11. ReceivedInv'
  <2>1. ASSUME NEW d \in Consumers, NEW r \in received[d]
        PROVE  r < consumer_cursor + 1 /\ \A e \in Consumers : Moving(e)' => pos[e] # r
    BY <1>1, <1>4 DEF RingInv, ReceivedInv
  <2>2. ASSUME NEW r \in 0 .. consumer_cursor
        PROVE  \E d \in Consumers : r \in received[d] \/ (Moving(d)' /\ pos[d] = r)
    BY <1>1, <1>4 DEF RingInv, ReceivedInv
  <2>3. ASSUME NEW d \in Consumers, Moving(d)', NEW r \in received[d] PROVE r < pos[d]
    BY <1>1, <1>4, <2>3 DEF RingInv, ReceivedInv
  <2> QED
    BY <1>1, <1>2, <2>1, <2>2, <2>3 DEF RingInv, ReceivedInv
<1> QED
  BY <1>2, <1>7, <1>8, <1>9, <1>10, <1>11 DEF RingInv

LEMMA MoveOutRing ==
  ASSUME IInv, NEW c \in Consumers, MoveOut(c)
  PROVE  RingInv' /\ Published' = Published /\ \A r \in Int : Unreleased(r)' => Unreleased(r)
<1> USE ConstantsAssumption
<1>1. /\ TypeOK /\ RingInv /\ Published \in Nat /\ consumer_cursor \in Nat
      /\ pos \in [Consumers -> Nat] /\ cpc[c] = "move"
      /\ received \in [Consumers -> SUBSET Nat]
  BY PublishedInNat DEF IInv, TypeOK, MoveOut, Goto
<1>2. /\ Published' = Published
      /\ UNCHANGED <<sequence, consumer_cursor, pos>>
      /\ data' = [data EXCEPT ![Index(pos[c])] = NoItem]
  BY DEF MoveOut, Published, producer
<1>3. \A d \in Consumers : /\ Holds(d)' <=> Holds(d)
                           /\ Moving(d)' <=> Moving(d) /\ d # c
                           /\ Moving(d) => Holds(d)
  BY DEF MoveOut, Goto, Holds, Moving, IInv, TypeOK
<1>4. Moving(c) /\ Holds(c)
  BY <1>1 DEF Moving, Holds
<1>5. received' = [received EXCEPT ![c] = @ \cup {pos[c]}]
  BY <1>1, <1>4 DEF MoveOut, RingInv, DataInv
<1>6. \A r : Unreleased(r)' <=> Unreleased(r)
  BY <1>2, <1>3 DEF Unreleased
<1>7. pos[c] \in Nat /\ pos[c] \in Published - Capacity .. consumer_cursor - 1
  BY <1>1, <1>4 DEF RingInv, HolderInv
<1>8. (SlotInv /\ PastInv /\ CursorInv /\ HolderInv)'
  BY <1>1, <1>2, <1>3, <1>6 DEF RingInv, SlotInv, PastInv, CursorInv, HolderInv
<1>9. DataInv'
  <2>1. ASSUME NEW r \in Nat, r # pos[c], r \in Published - Capacity .. Published - 1,
               data[Index(r)] = r
        PROVE data'[Index(r)] = r
    <3>1. Index(r) # Index(pos[c])
      <4>1. CASE r <= pos[c]
        BY <1>1, <1>7, <2>1, <4>1, IndexInjective DEF RingInv, CursorInv
      <4>2. CASE pos[c] <= r
        BY <1>1, <1>7, <2>1, <4>2, IndexInjective
      <4> QED
        BY <1>7, <4>1, <4>2
    <3> QED
      BY <1>2, <1>7, <2>1, <3>1, IndexInSlots DEF IInv, TypeOK
  <2>2. ASSUME NEW r \in consumer_cursor .. Published - 1 PROVE data'[Index(r)] = r
    BY <1>1, <1>7, <2>1, <2>2 DEF RingInv, DataInv, CursorInv
  <2>3. ASSUME NEW d \in Consumers, Moving(d), d # c PROVE data'[Index(pos[d])] = pos[d]
    BY <1>1, <1>3, <1>4, <2>1, <2>3 DEF RingInv, DataInv, CursorInv, HolderInv
  <2> QED
    BY <1>2, <1>3, <2>2, <2>3 DEF DataInv
<1>10. ReceivedInv'
  <2>1. ASSUME NEW d \in Consumers, NEW r \in received'[d]
        PROVE  r < consumer_cursor /\ \A e \in Consumers : Moving(e)' => pos[e] # r
    BY <1>1, <1>3, <1>4, <1>5, <1>7 DEF RingInv, ReceivedInv, HolderInv
  <2>2. ASSUME NEW r \in 0 .. consumer_cursor - 1
        PROVE  \E d \in Consumers : r \in received'[d] \/ (Moving(d)' /\ pos[d] = r)
    BY <1>1, <1>3, <1>4, <1>5 DEF RingInv, ReceivedInv
  <2>3. ASSUME NEW d \in Consumers, Moving(d)', NEW r \in received'[d] PROVE r < pos[d]
    BY <1>1, <1>3, <1>5, <2>3 DEF RingInv, ReceivedInv
  <2>4. \A d \in Consumers : pos[c] \notin received[d]
    BY <1>1, <1>4 DEF RingInv, ReceivedInv
  <2>5. ASSUME NEW d \in Consumers, NEW e \in Consumers, d # e
        PROVE received'[d] \cap received'[e] = {}
    BY <1>1, <1>5, <2>4, <2>5 DEF RingInv, ReceivedInv
  <2> QED
    BY <1>2, <2>1, <2>2, <2>3, <2>5 DEF ReceivedInv
<1> QED
  BY <1>2, <1>6, <1>8, <1>9, <1>10 DEF RingInv

LEMMA ReleaseRing ==
  ASSUME IInv, NEW c \in Consumers, Release(c)
  PROVE  RingInv' /\ Published' = Published /\ \A r \in Int : Unreleased(r)' => Unreleased(r)
<1> USE ConstantsAssumption
<1>1. /\ TypeOK /\ RingInv /\ Published \in Nat /\ consumer_cursor \in Nat
      /\ pos \in [Consumers -> Nat] /\ sequence \in [Slots -> Nat] /\ cpc[c] = "release"
  BY PublishedInNat DEF IInv, TypeOK, Release
<1>2. /\ Published' = Published
      /\ UNCHANGED <<data, consumer_cursor, pos, received>>
      /\ sequence' = [sequence EXCEPT ![Index(pos[c])] = pos[c] + Capacity]
  BY DEF Release, Published, producer, NextLap
<1>3. \A d \in Consumers : /\ Holds(d)' <=> Holds(d) /\ d # c
                           /\ Moving(d)' <=> Moving(d)
  BY DEF Release, Holds, Moving, IInv, TypeOK
<1>4. Holds(c) /\ ~Moving(c)
  BY <1>1 DEF Moving, Holds
<1>5. pos[c] \in Nat /\ pos[c] \in Published - Capacity .. consumer_cursor - 1
  BY <1>1, <1>4 DEF RingInv, HolderInv
<1>6. \A r \in Int : Unreleased(r)' <=> Unreleased(r) /\ r # pos[c]
  BY <1>1, <1>2, <1>3, <1>4, <1>5 DEF Unreleased, RingInv, HolderInv
<1>7. SlotInv'
  <2> SUFFICES ASSUME NEW q \in Published .. Published + Capacity - 1
      PROVE sequence'[Index(q)] = IF Unreleased(q - Capacity)' THEN q - Capacity + 1 ELSE q
    BY <1>1, <1>2 DEF SlotInv
  <2>1. CASE q = pos[c] + Capacity
    <3>1. Index(q) = Index(pos[c]) /\ Index(pos[c]) \in Slots
      BY <1>5, <2>1, IndexNextLap, IndexInSlots
    <3>2. ~Unreleased(q - Capacity)'
      BY <1>5, <1>6, <2>1
    <3> QED
      BY <1>1, <1>2, <2>1, <3>1, <3>2
  <2>2. CASE q # pos[c] + Capacity
    <3>1. Index(q) # Index(pos[c] + Capacity)
      <4>1. CASE q <= pos[c] + Capacity
        BY <1>1, <1>5, <2>2, <4>1, IndexInjective DEF RingInv, CursorInv
      <4>2. CASE pos[c] + Capacity <= q
        BY <1>1, <1>5, <2>2, <4>2, IndexInjective
      <4> QED
        BY <1>1, <1>5, <4>1, <4>2
    <3>2. sequence'[Index(q)] = sequence[Index(q)]
      BY <1>1, <1>2, <1>5, <3>1, IndexInSlots, IndexNextLap
    <3>3. Unreleased(q - Capacity)' <=> Unreleased(q - Capacity)
      BY <1>1, <1>5, <1>6, <2>2
    <3> QED
      BY <1>1, <3>2, <3>3 DEF RingInv, SlotInv
  <2> QED
    BY <2>1, <2>2
<1>8. PastInv'
  <2> SUFFICES ASSUME NEW p \in 0 .. Published - 1 PROVE sequence'[Index(p)] >= p + 1
    BY <1>1, <1>2 DEF PastInv
  <2>1. sequence[Index(p)] >= p + 1
    BY <1>1 DEF RingInv, PastInv
  <2> QED
    BY <1>1, <1>2, <1>5, <2>1, IndexInSlots
<1>9. (DataInv /\ CursorInv /\ HolderInv /\ ReceivedInv)'
  BY <1>1, <1>2, <1>3 DEF RingInv, DataInv, CursorInv, HolderInv, ReceivedInv
<1> QED
  BY <1>2, <1>6, <1>7, <1>8, <1>9 DEF RingInv

-----------------------------------------------------------------------------
(* The invariant is inductive.                                               *)

\* Every step is one of the five that touch the ring, or quiet.
LEMMA StepKinds ==
  ASSUME [Next]_vars
  PROVE  \/ QuietNext \/ WriteSlot \/ PublishSlot
         \/ \E c \in Consumers : Claim(c) \/ MoveOut(c) \/ Release(c)
  BY DEF Next, Producer, Consumer, Proceed, QuietNext

LEMMA RingStep == Capacity >= 2 /\ IInv /\ [Next]_vars => RingInv'
<1> SUFFICES ASSUME Capacity >= 2, IInv, [Next]_vars PROVE RingInv'
  OBVIOUS
<1>1. CASE QuietNext
  BY <1>1, QuietNextIsQuiet, QuietStep DEF IInv
<1> QED
  BY <1>1, StepKinds, WriteSlotRing, PublishSlotRing, ClaimRing, MoveOutRing, ReleaseRing

\* Only PublishSlot moves Published, and nothing but publishing the position one
\* lap later makes an item unreleased.
LEMMA ReleasedStaysReleased ==
  ASSUME Capacity >= 2, IInv, [Next]_vars, ~PublishSlot
  PROVE  Published' = Published /\ \A r \in Int : Unreleased(r)' => Unreleased(r)
<1>1. CASE QuietNext
  BY <1>1, QuietNextIsQuiet, QuietStep DEF IInv
<1>2. CASE WriteSlot
  BY <1>2 DEF WriteSlot, Published, Unreleased, Holds, consumer
<1> QED
  BY <1>1, <1>2, StepKinds, ClaimRing, MoveOutRing, ReleaseRing

LEMMA ProducerStep == Capacity >= 2 /\ IInv /\ [Next]_vars => ProducerInv'
<1> SUFFICES ASSUME Capacity >= 2, IInv, [Next]_vars PROVE ProducerInv'
  OBVIOUS
<1> USE ConstantsAssumption
<1>1. TypeOK /\ ProducerInv /\ RingInv /\ Published \in Nat
  BY PublishedInNat DEF IInv
<1>2. CASE \E call \in Calls : StartEnqueue(call)
  BY <1>1, <1>2 DEF StartEnqueue, ProducerInv
<1>3. CASE FindSlotFree
  <2>1. ~Unreleased(Published - Capacity)
    BY <1>1, <1>3, SlotFreeMeansReleased DEF FindSlotFree, RingInv
  <2>2. ~Unreleased(Published - Capacity)'
    BY <1>1, <1>3, <2>1
    DEF FindSlotFree, Published, Unreleased, Holds, shared, consumer
  <2> QED
    BY <1>1, <1>3, <2>2 DEF FindSlotFree, ProducerInv
<1>4. CASE FindSlotTaken
  BY <1>1, <1>4 DEF FindSlotTaken, ProducerInv
<1>5. CASE WriteSlot
  <2>1. ~Unreleased(Published - Capacity)'
    BY <1>1, <1>5
    DEF WriteSlot, ProducerInv, Published, Unreleased, Holds, consumer
  <2>2. Published' = Published
    BY <1>5 DEF WriteSlot, Published
  <2> QED
    BY <1>1, <1>5, <2>1, <2>2, WriteSlotRing DEF WriteSlot, ProducerInv
<1>6. CASE PublishSlot
  BY <1>1, <1>6 DEF PublishSlot, ProducerInv
<1>7. CASE AdvanceProducer \/ CountEnqueued
  BY <1>1, <1>7 DEF AdvanceProducer, CountEnqueued, ProducerInv
<1>8. ASSUME NEW c \in Consumers, Consumer(c) PROVE ProducerInv'
  <2>1. UNCHANGED producer
    BY <1>8 DEF Consumer, Proceed, StartDequeue, LoadCursor, FindItem, FindNewer, ReturnEmpty,
                EndBatch, Claim, LoseClaim, MoveOut, Release, CountDequeued
  <2>2. ~PublishSlot
    BY <1>1, <2>1 DEF PublishSlot, producer, TypeOK
  <2>3. Published' = Published /\ \A r \in Int : Unreleased(r)' => Unreleased(r)
    BY <2>2, ReleasedStaysReleased
  <2>4. ASSUME ppc = "publish" PROVE data'[Index(Published)] = Published
    <3>1. CASE MoveOut(c)
      <4>1. pos[c] \in Nat /\ Published - Capacity < pos[c] /\ pos[c] < Published
        BY <1>1, <2>4, <3>1
        DEF MoveOut, Goto, ProducerInv, RingInv, HolderInv, CursorInv, Unreleased, Holds, TypeOK
      <4>2. Index(pos[c]) # Index(Published)
        BY <1>1, <4>1, IndexInjective
      <4> QED
        BY <1>1, <2>4, <3>1, <4>1, <4>2, IndexInSlots DEF MoveOut, ProducerInv, TypeOK
    <3>2. CASE ~MoveOut(c)
      <4>1. UNCHANGED data
        BY <1>8, <3>2
        DEF Consumer, Proceed, StartDequeue, LoadCursor, FindItem, FindNewer, ReturnEmpty,
            EndBatch, Claim, LoseClaim, Release, CountDequeued, shared
      <4> QED
        BY <1>1, <2>4, <4>1 DEF ProducerInv
    <3> QED
      BY <3>1, <3>2
  <2> QED
    BY <1>1, <2>1, <2>3, <2>4 DEF ProducerInv, producer
<1>9. CASE UNCHANGED vars
  BY <1>1, <1>9
  DEF vars, shared, producer, consumer, ProducerInv, Published, Unreleased, Holds
<1> QED
  BY <1>2, <1>3, <1>4, <1>5, <1>6, <1>7, <1>8, <1>9 DEF Next, Producer

\* A consumer that finds a slot numbered pos + 1 looks at a published item.
LEMMA FoundItemIsPublished ==
  ASSUME Capacity >= 2, IInv, NEW c \in Consumers, cpc[c] = "sequence",
         SlotNumber(c) = pos[c] + 1
  PROVE  pos[c] < Published
<1>1. /\ Published \in Nat /\ consumer_cursor \in Nat /\ pos[c] \in Nat
      /\ pos[c] <= consumer_cursor /\ consumer_cursor <= Published
  BY PublishedInNat, ConstantsAssumption DEF IInv, TypeOK, ConsumerInv, RingInv, CursorInv
<1>2. pos[c] # Published
  BY <1>1, ConstantsAssumption DEF SlotNumber, IInv, RingInv, SlotInv
<1> QED
  BY <1>1, <1>2

\* Positions only advance.
LEMMA PositionsAdvance ==
  ASSUME Capacity >= 2, IInv, [Next]_vars
  PROVE  /\ Published' \in Nat /\ Published' >= Published
         /\ consumer_cursor' \in Nat /\ consumer_cursor' >= consumer_cursor
<1>1. Published \in Nat /\ consumer_cursor \in Nat
  BY PublishedInNat DEF IInv, TypeOK
<1>2. CASE PublishSlot
  BY <1>1, <1>2, PublishSlotRing DEF PublishSlot
<1>3. CASE ~PublishSlot
  <2>1. Published' = Published
    BY <1>3, ReleasedStaysReleased
  <2>2. consumer_cursor' = consumer_cursor \/ consumer_cursor' = consumer_cursor + 1
    BY DEF Next, vars, Producer, StartEnqueue, FindSlotFree, FindSlotTaken, WriteSlot,
           PublishSlot, AdvanceProducer, CountEnqueued, Consumer, Proceed, StartDequeue,
           LoadCursor, FindItem, FindNewer, ReturnEmpty, EndBatch, Claim, LoseClaim, MoveOut,
           Release, CountDequeued, shared
  <2> QED
    BY <1>1, <2>1, <2>2
<1> QED
  BY <1>2, <1>3

LEMMA ConsumerStep == Capacity >= 2 /\ IInv /\ [Next]_vars => ConsumerInv'
<1> SUFFICES ASSUME Capacity >= 2, IInv, [Next]_vars PROVE ConsumerInv'
  OBVIOUS
<1>1. /\ TypeOK /\ ConsumerInv /\ Published \in Nat /\ consumer_cursor \in Nat
      /\ pos \in [Consumers -> Nat]
  BY PublishedInNat DEF IInv, TypeOK
<1>2. /\ Published' \in Nat /\ Published' >= Published
      /\ consumer_cursor' \in Nat /\ consumer_cursor' >= consumer_cursor
  BY PositionsAdvance
<1>3. CASE Producer \/ UNCHANGED vars
  <2>1. UNCHANGED <<cpc, pos>>
    BY <1>3
    DEF vars, Producer, StartEnqueue, FindSlotFree, FindSlotTaken, WriteSlot, PublishSlot,
        AdvanceProducer, CountEnqueued, consumer
  <2> QED
    BY <1>1, <1>2, <2>1 DEF ConsumerInv
<1>4. ASSUME NEW c \in Consumers, Consumer(c) PROVE ConsumerInv'
  <2>1. \A d \in Consumers \ {c} : cpc'[d] = cpc[d] /\ pos'[d] = pos[d]
    BY <1>1, <1>4
    DEF Consumer, Proceed, StartDequeue, LoadCursor, FindItem, FindNewer, ReturnEmpty, EndBatch,
        Claim, LoseClaim, MoveOut, Release, CountDequeued, Goto, TypeOK
  <2>2. /\ cpc'[c] \in {"sequence", "cas"} => pos'[c] <= consumer_cursor'
        /\ cpc'[c] = "cas" => pos'[c] < Published'
    <3>1. CASE LoadCursor(c)
      BY <1>1, <3>1 DEF LoadCursor, Goto, TypeOK, shared
    <3>2. CASE FindItem(c)
      <4>1. cpc[c] = "sequence" /\ pos[c] < Published /\ pos[c] <= consumer_cursor
        BY <1>1, <3>2, FoundItemIsPublished DEF FindItem, Goto, ConsumerInv
      <4> QED
        BY <1>1, <1>2, <3>2, <4>1 DEF FindItem
    <3>3. CASE ~LoadCursor(c) /\ ~FindItem(c)
      BY <1>1, <1>4, <3>3
      DEF Consumer, Proceed, StartDequeue, FindNewer, ReturnEmpty, EndBatch,
          Claim, LoseClaim, MoveOut, Release, CountDequeued, Goto, TypeOK
    <3> QED
      BY <3>1, <3>2, <3>3
  <2> QED
    BY <1>1, <1>2, <2>1, <2>2 DEF ConsumerInv
<1> QED
  BY <1>3, <1>4 DEF Next

LEMMA Invariance == Capacity >= 2 /\ Spec => []IInv
<1> SUFFICES ASSUME Capacity >= 2 PROVE Spec => []IInv
  OBVIOUS
<1>1. Init => IInv
  BY InitIInv
<1>2. IInv /\ [Next]_vars => IInv'
  BY TypeStep, RingStep, ProducerStep, ConsumerStep DEF IInv
<1> QED
  BY <1>1, <1>2, PTL DEF Spec

-----------------------------------------------------------------------------
(* Theorems.                                                                 *)

\* Every variable of SPMCQueue keeps its type; in particular no consumer ever
\* receives the content of a slot that was never written or was moved from.
THEOREM TypeCorrect == Capacity >= 2 /\ Spec => []TypeOK
  BY Invariance, PTL DEF IInv

\* The sequence numbers keep the producer and the consumers, and the consumers
\* among themselves, out of each other's slots.
THEOREM SlotsAreNotRacedFor == Capacity >= 2 /\ Spec => []NoSlotRace
<1>1. IInv => NoSlotRace
  <2> SUFFICES ASSUME IInv PROVE NoSlotRace
    OBVIOUS
  <2>1. /\ Published \in Nat /\ consumer_cursor \in Nat /\ pos \in [Consumers -> Nat]
        /\ RingInv /\ ProducerInv
    BY PublishedInNat DEF IInv, TypeOK
  <2>2. \A c \in Consumers : Moving(c) => Holds(c)
    BY DEF Moving, Holds
  <2>3. \A c \in Consumers :
          Moving(c) => pos[c] \in Published - Capacity .. consumer_cursor - 1
    BY <2>1, <2>2 DEF RingInv, HolderInv
  <2>4. consumer_cursor <= Published
    BY <2>1, ConstantsAssumption DEF RingInv, CursorInv
  <2>5. ASSUME NEW c \in Consumers, Moving(c), ppc = "write"
        PROVE  Index(pos[c]) # Index(Published)
    <3>1. pos[c] \in Nat /\ Published - Capacity < pos[c] /\ pos[c] < Published
      BY <2>1, <2>2, <2>3, <2>4, <2>5, ConstantsAssumption DEF ProducerInv, Unreleased
    <3> QED
      BY <2>1, <3>1, IndexInjective, ConstantsAssumption
  <2>6. ASSUME NEW c \in Consumers, NEW d \in Consumers, c # d, Moving(c), Moving(d),
               pos[c] <= pos[d]
        PROVE  Index(pos[c]) # Index(pos[d])
    <3>1. pos[c] # pos[d]
      BY <2>1, <2>2, <2>6 DEF RingInv, HolderInv
    <3>2. pos[d] < pos[c] + Capacity
      BY <2>1, <2>3, <2>4, <2>6, ConstantsAssumption
    <3> QED
      BY <2>1, <2>6, <3>1, <3>2, IndexInjective
  <2> QED
    BY <2>1, <2>5, <2>6 DEF NoSlotRace
<1> QED
  BY <1>1, Invariance, PTL

\* No item is lost, duplicated or overwritten before it is read.
THEOREM EveryPositionOnce == Capacity >= 2 /\ Spec => []ExactlyOnce
<1>1. IInv => ExactlyOnce
  <2> SUFFICES ASSUME IInv PROVE ExactlyOnce
    OBVIOUS
  <2>1. /\ consumer_cursor \in Nat /\ pos \in [Consumers -> Nat]
        /\ received \in [Consumers -> SUBSET Nat] /\ ReceivedInv
    BY DEF IInv, TypeOK, RingInv
  <2> DEFINE all    == UNION {received[c] : c \in Consumers}
             moving == {pos[c] : c \in {d \in Consumers : Moving(d)}}
  <2>2. ASSUME NEW r \in all PROVE r \in (0 .. consumer_cursor - 1) \ moving
    BY <2>1, <2>2 DEF ReceivedInv
  <2>3. ASSUME NEW r \in (0 .. consumer_cursor - 1) \ moving PROVE r \in all
    BY <2>1, <2>3 DEF ReceivedInv
  <2>4. all = (0 .. consumer_cursor - 1) \ moving
    BY <2>2, <2>3
  <2> QED
    BY <2>1, <2>4 DEF ExactlyOnce, ReceivedInv
<1> QED
  BY <1>1, Invariance, PTL

\* The positions never drift further apart than the ring allows.
THEOREM PositionsBounded == Capacity >= 2 /\ Spec => []SizeBounds
<1>1. IInv => SizeBounds
  BY ConstantsAssumption DEF IInv, TypeOK, RingInv, CursorInv, SizeBounds, Published
<1> QED
  BY <1>1, Invariance, PTL

LEMMA EmptyMeansEmpty ==
  ASSUME IInv, [Next]_vars, NEW c \in Consumers, ~ccall[c].batch,
         cpc[c] = "sequence", cpc'[c] = "idle"
  PROVE  consumer_cursor = Published
<1>1. /\ Published \in Nat /\ consumer_cursor \in Nat /\ pos[c] \in Nat
      /\ pos[c] <= consumer_cursor /\ consumer_cursor <= Published
  BY PublishedInNat, ConstantsAssumption
  DEF IInv, TypeOK, ConsumerInv, RingInv, CursorInv
<1>2. ReturnEmpty(c)
  <2>1. PICK d \in Consumers : Consumer(d)
    BY DEF Next, vars, Producer, StartEnqueue, FindSlotFree, FindSlotTaken, WriteSlot,
        PublishSlot, AdvanceProducer, CountEnqueued, consumer
  <2>2. cpc' = [cpc EXCEPT ![d] = cpc'[d]]
    BY <2>1
    DEF Consumer, Proceed, StartDequeue, LoadCursor, FindItem, FindNewer, ReturnEmpty,
        EndBatch, Claim, LoseClaim, MoveOut, Release, CountDequeued, Goto, IInv, TypeOK
  <2>3. c = d
    BY <2>2 DEF IInv, TypeOK
  <2> QED
    BY <2>1, <2>3
    DEF Consumer, Proceed, StartDequeue, LoadCursor, FindItem, FindNewer, EndBatch, Claim,
        LoseClaim, MoveOut, Release, CountDequeued, Goto, IInv, TypeOK
<1>3. SlotNumber(c) < pos[c] + 1
  BY <1>2 DEF ReturnEmpty, NoItemFor
<1>4. ~(pos[c] < Published)
  BY <1>1, <1>3, IndexInSlots DEF IInv, RingInv, PastInv, SlotNumber, TypeOK
<1> QED
  BY <1>1, <1>4

\* try_dequeue says "empty" only of an empty queue, though it compares with a
\* cursor value that may be old: an old value finds a newer number.
THEOREM EmptyIsTrue == Capacity >= 2 /\ Spec => EmptyIsEmpty
<1> SUFFICES ASSUME Capacity >= 2 PROVE Spec => EmptyIsEmpty
  OBVIOUS
<1>1. IInv /\ [Next]_vars =>
        [\A c \in Consumers :
           ~ccall[c].batch /\ cpc[c] = "sequence" /\ cpc'[c] = "idle"
             => consumer_cursor = Published]_vars
  BY EmptyMeansEmpty
<1> QED
  BY <1>1, Invariance, PTL DEF Spec, EmptyIsEmpty

\* The producer is told "full" only while the item one lap behind is in its slot.
THEOREM FullIsTrue == Capacity >= 2 /\ Spec => FullIsFull
<1>1. ASSUME IInv, [Next]_vars, ppc = "check", ppc' \in {"idle", "advance"}
      PROVE  Unreleased(Published - Capacity)
  <2>1. FindSlotTaken
    BY <1>1
    DEF Next, vars, Producer, StartEnqueue, FindSlotFree, WriteSlot, PublishSlot,
        AdvanceProducer, CountEnqueued, Consumer, Proceed, StartDequeue, LoadCursor, FindItem,
        FindNewer, ReturnEmpty, EndBatch, Claim, LoseClaim, MoveOut, Release, CountDequeued,
        producer
  <2> QED
    BY <1>1, <2>1, PublishedInNat, ConstantsAssumption
    DEF FindSlotTaken, SlotFree, IInv, RingInv, SlotInv
<1>2. IInv /\ [Next]_vars =>
        [ppc = "check" /\ ppc' \in {"idle", "advance"}
           => LET lap == Published - Capacity
              IN \/ lap >= consumer_cursor
                 \/ \E c \in Consumers : Holds(c) /\ pos[c] = lap]_vars
  BY <1>1 DEF Unreleased
<1> QED
  BY <1>2, Invariance, PTL DEF Spec, FullIsFull

\* Every consumer receives items in the order they were put.
THEOREM ReceivedInOrder == Capacity >= 2 /\ Spec => InOrder
<1>1. ASSUME IInv, [Next]_vars, NEW c \in Consumers, NEW new \in received'[c] \ received[c],
             NEW old \in received[c]
      PROVE  old < new
  <2>1. PICK d \in Consumers : MoveOut(d)
    BY <1>1
    DEF Next, vars, Producer, StartEnqueue, FindSlotFree, FindSlotTaken, WriteSlot, PublishSlot,
        AdvanceProducer, CountEnqueued, Consumer, Proceed, StartDequeue, LoadCursor, FindItem,
        FindNewer, ReturnEmpty, EndBatch, Claim, LoseClaim, Release, CountDequeued, consumer
  <2>2. c = d /\ new = data[Index(pos[c])]
    BY <1>1, <2>1 DEF MoveOut, IInv, TypeOK
  <2> QED
    BY <1>1, <2>1, <2>2 DEF MoveOut, Goto, Moving, IInv, RingInv, DataInv, ReceivedInv
<1>2. IInv /\ [Next]_vars =>
        [\A c \in Consumers : \A new \in received'[c] \ received[c] :
           \A old \in received[c] : old < new]_vars
  BY <1>1
<1> QED
  BY <1>2, Invariance, PTL DEF Spec, InOrder

-----------------------------------------------------------------------------
(* The statistics.  What the counters leave out at any moment is in the      *)
(* hands of calls in progress: every position below the cursor was counted,  *)
(* or belongs to the call of one consumer, which has taken dequeued of them  *)
(* and the one it holds.                                                     *)

Below(cursor) == 0 .. cursor - 1

\* What a consumer at this place, which has given back n slots, took and has yet to count.
Uncounted(place, n) ==
  IF place = "idle" THEN 0 ELSE n + (IF place \in {"move", "release"} THEN 1 ELSE 0)

Belonging(counted, of, cursor, c) == {p \in Below(cursor) \ counted : of[p] = c}

Shared(cursor, total, place, n) ==
  \E counted \in SUBSET Below(cursor), of \in [Below(cursor) -> Consumers] :
    /\ Cardinality(counted) = total
    /\ \A c \in Consumers :
         Cardinality(Belonging(counted, of, cursor, c)) = Uncounted(place[c], n[c])

CountersInv ==
  /\ producer_pos = total_enqueued + (IF ppc = "count" THEN enqueued ELSE 0)
  /\ ppc \in {"advance", "count"} => enqueued > 0
  /\ \A c \in Consumers : cpc[c] = "count" => dequeued[c] > 0
  /\ batch_operations <= total_enqueued + total_dequeued

StatInv == CountersInv /\ Shared(consumer_cursor, total_dequeued, cpc, dequeued)

LEMMA BelowIsFinite ==
  ASSUME NEW cursor \in Nat
  PROVE /\ IsFiniteSet(Below(cursor)) /\ Cardinality(Below(cursor)) = cursor
        /\ \A S \in SUBSET Below(cursor) : IsFiniteSet(S) /\ Cardinality(S) \in Nat
<1>1. IsFiniteSet(Below(cursor)) /\ Cardinality(Below(cursor)) = cursor
  BY FS_Interval DEF Below
<1>2. \A S \in SUBSET Below(cursor) : IsFiniteSet(S) /\ Cardinality(S) \in Nat
  BY <1>1, FS_Subset, FS_CardinalityType
<1> QED
  BY <1>1, <1>2

\* The compare_exchange gives the position at the cursor to one consumer.
LEMMA SharedClaim ==
  ASSUME NEW cursor \in Nat, NEW total, NEW place, NEW n, Shared(cursor, total, place, n),
         NEW place2, NEW n2, NEW c \in Consumers,
         Uncounted(place2[c], n2[c]) = Uncounted(place[c], n[c]) + 1,
         \A d \in Consumers \ {c} : Uncounted(place2[d], n2[d]) = Uncounted(place[d], n[d])
  PROVE Shared(cursor + 1, total, place2, n2)
<1>1. PICK counted \in SUBSET Below(cursor) : \E of \in [Below(cursor) -> Consumers] :
        /\ Cardinality(counted) = total
        /\ \A d \in Consumers :
             Cardinality(Belonging(counted, of, cursor, d)) = Uncounted(place[d], n[d])
  BY DEF Shared
<1>2. PICK of \in [Below(cursor) -> Consumers] :
        /\ Cardinality(counted) = total
        /\ \A d \in Consumers :
             Cardinality(Belonging(counted, of, cursor, d)) = Uncounted(place[d], n[d])
  BY <1>1
<1> DEFINE new == [p \in Below(cursor + 1) |-> IF p = cursor THEN c ELSE of[p]]
<1>3. cursor \notin Below(cursor) /\ \A p : p \in Below(cursor + 1) <=> p \in Below(cursor) \/ p = cursor
  BY DEF Below
<1>4. new \in [Below(cursor + 1) -> Consumers] /\ counted \in SUBSET Below(cursor + 1)
  BY <1>3
<1>5. new[cursor] = c /\ \A p \in Below(cursor) : new[p] = of[p]
  BY <1>3
<1> HIDE DEF new
<1>6. \A d \in Consumers \ {c} : Belonging(counted, new, cursor + 1, d) = Belonging(counted, of, cursor, d)
  BY <1>3, <1>5 DEF Belonging
<1>7. /\ Belonging(counted, new, cursor + 1, c) = Belonging(counted, of, cursor, c) \cup {cursor}
      /\ cursor \notin Belonging(counted, of, cursor, c)
  BY <1>3, <1>5 DEF Belonging
<1>8. IsFiniteSet(Belonging(counted, of, cursor, c))
  BY BelowIsFinite DEF Belonging
<1>9. Cardinality(Belonging(counted, new, cursor + 1, c)) = Cardinality(Belonging(counted, of, cursor, c)) + 1
  BY <1>7, <1>8, FS_AddElement
<1>10. \A d \in Consumers :
         Cardinality(Belonging(counted, new, cursor + 1, d)) = Uncounted(place2[d], n2[d])
  BY <1>2, <1>6, <1>9
<1> QED
  BY <1>2, <1>4, <1>10 DEF Shared

\* A call that ends counts what belongs to it.
LEMMA SharedCount ==
  ASSUME NEW cursor \in Nat, NEW total \in Nat, NEW place, NEW n, Shared(cursor, total, place, n),
         NEW place2, NEW n2, NEW c \in Consumers,
         Uncounted(place2[c], n2[c]) = 0,
         \A d \in Consumers \ {c} : Uncounted(place2[d], n2[d]) = Uncounted(place[d], n[d])
  PROVE Shared(cursor, total + Uncounted(place[c], n[c]), place2, n2)
<1>1. PICK counted \in SUBSET Below(cursor) : \E of \in [Below(cursor) -> Consumers] :
        /\ Cardinality(counted) = total
        /\ \A d \in Consumers :
             Cardinality(Belonging(counted, of, cursor, d)) = Uncounted(place[d], n[d])
  BY DEF Shared
<1>2. PICK of \in [Below(cursor) -> Consumers] :
        /\ Cardinality(counted) = total
        /\ \A d \in Consumers :
             Cardinality(Belonging(counted, of, cursor, d)) = Uncounted(place[d], n[d])
  BY <1>1
<1> DEFINE own == Belonging(counted, of, cursor, c)
           new == counted \cup own
<1>3. own \in SUBSET Below(cursor) /\ new \in SUBSET Below(cursor) /\ counted \cap own = {}
  BY DEF Belonging
<1>4. IsFiniteSet(counted) /\ IsFiniteSet(own) /\ Cardinality(own) = Uncounted(place[c], n[c])
  BY <1>2, <1>3, BelowIsFinite
<1>5. Cardinality(new) = total + Uncounted(place[c], n[c])
  <2>1. Cardinality(new) = Cardinality(counted) + Cardinality(own) - Cardinality(counted \cap own)
    BY <1>4, FS_Union
  <2>2. Cardinality(counted \cap own) = 0
    BY <1>3, FS_EmptySet
  <2>3. Cardinality(counted) \in Nat /\ Cardinality(own) \in Nat
    BY <1>4, FS_CardinalityType
  <2> QED
    BY <1>2, <1>4, <2>1, <2>2, <2>3
<1>6. Belonging(new, of, cursor, c) = {}
  BY DEF Belonging
<1>7. \A d \in Consumers \ {c} : Belonging(new, of, cursor, d) = Belonging(counted, of, cursor, d)
  BY DEF Belonging
<1> HIDE DEF new, own
<1>8. \A d \in Consumers : Cardinality(Belonging(new, of, cursor, d)) = Uncounted(place2[d], n2[d])
  BY <1>2, <1>6, <1>7, FS_EmptySet
<1> QED
  BY <1>3, <1>5, <1>8 DEF Shared

\* The other steps move nothing.
LEMMA SharedStays ==
  ASSUME NEW cursor, NEW total, NEW place, NEW n, Shared(cursor, total, place, n), NEW place2, NEW n2,
         \A d \in Consumers : Uncounted(place2[d], n2[d]) = Uncounted(place[d], n[d])
  PROVE Shared(cursor, total, place2, n2)
  BY DEF Shared

LEMMA StatStep ==
  ASSUME IInv, StatInv, [Next]_vars
  PROVE StatInv'
<1>0. /\ total_enqueued \in Nat /\ total_dequeued \in Nat /\ batch_operations \in Nat
      /\ producer_pos \in Nat /\ enqueued \in Nat /\ consumer_cursor \in Nat
      /\ dequeued \in [Consumers -> Nat] /\ pcall \in Calls /\ ccall \in [Consumers -> Calls]
      /\ cpc \in [Consumers -> {"idle", "cursor", "sequence", "cas", "move", "release", "count"}]
  BY DEF IInv, TypeOK
<1>s. CountersInv /\ Shared(consumer_cursor, total_dequeued, cpc, dequeued)
  BY DEF StatInv
<1> USE DEF shared, stats, producer, consumer
<1>1. ASSUME UNCHANGED <<cpc, dequeued, consumer_cursor, total_dequeued>>
      PROVE Shared(consumer_cursor, total_dequeued, cpc, dequeued)'
  BY <1>s, <1>1
<1>2. CASE \E call \in Calls : StartEnqueue(call)
  BY <1>0, <1>1, <1>2, <1>s DEF StartEnqueue, StatInv, CountersInv
<1>3. CASE FindSlotFree \/ FindSlotTaken
  BY <1>0, <1>1, <1>3, <1>s DEF FindSlotFree, FindSlotTaken, StatInv, CountersInv
<1>4. CASE WriteSlot \/ PublishSlot
  BY <1>0, <1>1, <1>4, <1>s DEF WriteSlot, PublishSlot, StatInv, CountersInv
<1>5. CASE AdvanceProducer
  BY <1>0, <1>1, <1>5, <1>s DEF AdvanceProducer, StatInv, CountersInv
<1>6. CASE CountEnqueued
  BY <1>0, <1>1, <1>6, <1>s DEF CountEnqueued, CountBatch, StatInv, CountersInv
<1>7. ASSUME NEW c \in Consumers, NEW place, NEW n, cpc' = [cpc EXCEPT ![c] = place],
             dequeued' = [dequeued EXCEPT ![c] = n]
      PROVE /\ cpc'[c] = place /\ dequeued'[c] = n
            /\ \A d \in Consumers \ {c} :
                 /\ cpc'[d] = cpc[d] /\ dequeued'[d] = dequeued[d]
                 /\ Uncounted(cpc'[d], dequeued'[d]) = Uncounted(cpc[d], dequeued[d])
  BY <1>0, <1>7
<1>8. ASSUME NEW c \in Consumers, NEW place, NEW n, cpc' = [cpc EXCEPT ![c] = place],
             dequeued' = [dequeued EXCEPT ![c] = n],
             Uncounted(place, n) = Uncounted(cpc[c], dequeued[c]), place = "count" => n > 0,
             UNCHANGED <<producer_pos, consumer_cursor, total_enqueued, total_dequeued,
                         batch_operations, producer>>
      PROVE StatInv'
  <2>0. /\ cpc'[c] = place /\ dequeued'[c] = n
        /\ \A d \in Consumers \ {c} :
             /\ cpc'[d] = cpc[d] /\ dequeued'[d] = dequeued[d]
             /\ Uncounted(cpc'[d], dequeued'[d]) = Uncounted(cpc[d], dequeued[d])
    BY <1>7, <1>8
  <2>1. \A d \in Consumers : Uncounted(cpc'[d], dequeued'[d]) = Uncounted(cpc[d], dequeued[d])
    BY <1>8, <2>0
  <2>2. Shared(consumer_cursor, total_dequeued, cpc', dequeued')
    BY <1>s, <2>1, SharedStays
  <2>3. CountersInv'
    BY <1>8, <1>s, <2>0 DEF CountersInv
  <2> QED
    BY <1>8, <2>2, <2>3 DEF StatInv
<1>9. ASSUME NEW c \in Consumers, NEW call \in Calls, StartDequeue(c, call) PROVE StatInv'
  <2>1. /\ cpc[c] = "idle" /\ cpc' = [cpc EXCEPT ![c] = "cursor"] /\ dequeued' = [dequeued EXCEPT ![c] = 0]
        /\ UNCHANGED <<shared, stats, producer>>
    BY <1>9 DEF StartDequeue, Goto
  <2>2. Uncounted("cursor", 0) = Uncounted(cpc[c], dequeued[c])
    BY <2>1 DEF Uncounted
  <2> QED
    BY <1>8, <2>1, <2>2
<1>10. ASSUME NEW c \in Consumers,
              LoadCursor(c) \/ FindItem(c) \/ FindNewer(c) \/ EndBatch(c) \/ LoseClaim(c) \/ MoveOut(c)
       PROVE StatInv'
  <2>1. PICK place \in {"cursor", "sequence", "cas", "count", "release"} :
          /\ cpc' = [cpc EXCEPT ![c] = place]
          /\ place = "count" => dequeued[c] > 0
          /\ place = "release" <=> cpc[c] = "move"
          /\ cpc[c] \in {"cursor", "sequence", "cas", "move"}
    BY <1>10 DEF LoadCursor, FindItem, FindNewer, EndBatch, LoseClaim, MoveOut, Goto
  <2>2. UNCHANGED <<dequeued, producer_pos, consumer_cursor, stats, producer>>
    BY <1>10 DEF LoadCursor, FindItem, FindNewer, EndBatch, LoseClaim, MoveOut
  <2>3. dequeued' = [dequeued EXCEPT ![c] = dequeued[c]]
    BY <1>0, <2>2
  <2>4. Uncounted(place, dequeued[c]) = Uncounted(cpc[c], dequeued[c])
    BY <1>0, <2>1 DEF Uncounted
  <2> QED
    BY <1>8, <2>1, <2>2, <2>3, <2>4
<1>11. ASSUME NEW c \in Consumers, ReturnEmpty(c) PROVE StatInv'
  <2>1. /\ cpc[c] = "sequence" /\ cpc' = [cpc EXCEPT ![c] = "idle"] /\ dequeued[c] = 0
        /\ UNCHANGED <<dequeued, producer_pos, consumer_cursor, total_enqueued, total_dequeued,
                       batch_operations, producer>>
    BY <1>11 DEF ReturnEmpty, CountFailed, Goto
  <2>2. dequeued' = [dequeued EXCEPT ![c] = 0]
    BY <1>0, <2>1
  <2>3. Uncounted("idle", 0) = Uncounted(cpc[c], dequeued[c])
    BY <2>1 DEF Uncounted
  <2> QED
    BY <1>8, <2>1, <2>2, <2>3
<1>12. ASSUME NEW c \in Consumers, Claim(c) PROVE StatInv'
  <2>1. /\ cpc[c] = "cas" /\ cpc' = [cpc EXCEPT ![c] = "move"] /\ consumer_cursor' = consumer_cursor + 1
        /\ UNCHANGED <<dequeued, producer_pos, stats, producer>>
    BY <1>12 DEF Claim, Goto
  <2>2. dequeued' = [dequeued EXCEPT ![c] = dequeued[c]]
    BY <1>0, <2>1
  <2>3. /\ cpc'[c] = "move" /\ dequeued'[c] = dequeued[c]
        /\ \A d \in Consumers \ {c} :
             /\ cpc'[d] = cpc[d] /\ dequeued'[d] = dequeued[d]
             /\ Uncounted(cpc'[d], dequeued'[d]) = Uncounted(cpc[d], dequeued[d])
    BY <1>7, <2>1, <2>2
  <2>4. Uncounted(cpc'[c], dequeued'[c]) = Uncounted(cpc[c], dequeued[c]) + 1
    BY <1>0, <2>1, <2>3 DEF Uncounted
  <2>5. Shared(consumer_cursor + 1, total_dequeued, cpc', dequeued')
    BY <1>0, <1>s, <2>3, <2>4, SharedClaim
  <2>6. CountersInv'
    BY <1>s, <2>1, <2>3 DEF CountersInv
  <2> QED
    BY <2>1, <2>5, <2>6 DEF StatInv
<1>13. ASSUME NEW c \in Consumers, Release(c) PROVE StatInv'
  <2>1. /\ cpc[c] = "release"
        /\ cpc' = [cpc EXCEPT ![c] = IF dequeued[c] + 1 < ccall[c].count THEN "cursor" ELSE "count"]
        /\ dequeued' = [dequeued EXCEPT ![c] = dequeued[c] + 1]
        /\ UNCHANGED <<producer_pos, consumer_cursor, stats, producer>>
    BY <1>0, <1>13 DEF Release
  <2>2. PICK place \in {"cursor", "count"} : cpc' = [cpc EXCEPT ![c] = place]
    BY <2>1
  <2>3. Uncounted(place, dequeued[c] + 1) = Uncounted(cpc[c], dequeued[c]) /\ dequeued[c] + 1 > 0
    BY <1>0, <2>1 DEF Uncounted
  <2> QED
    BY <1>8, <2>1, <2>2, <2>3
<1>14. ASSUME NEW c \in Consumers, CountDequeued(c) PROVE StatInv'
  <2>1. /\ cpc[c] = "count" /\ cpc' = [cpc EXCEPT ![c] = "idle"]
        /\ total_dequeued' = total_dequeued + dequeued[c]
        /\ batch_operations' = batch_operations + (IF ccall[c].batch THEN 1 ELSE 0)
        /\ UNCHANGED <<dequeued, producer_pos, consumer_cursor, total_enqueued, producer>>
    BY <1>14 DEF CountDequeued, CountBatch, Goto
  <2>2. dequeued' = [dequeued EXCEPT ![c] = dequeued[c]]
    BY <1>0, <2>1
  <2>3. /\ cpc'[c] = "idle" /\ dequeued'[c] = dequeued[c]
        /\ \A d \in Consumers \ {c} :
             /\ cpc'[d] = cpc[d] /\ dequeued'[d] = dequeued[d]
             /\ Uncounted(cpc'[d], dequeued'[d]) = Uncounted(cpc[d], dequeued[d])
    BY <1>7, <2>1, <2>2
  <2>4. Uncounted(cpc'[c], dequeued'[c]) = 0 /\ Uncounted(cpc[c], dequeued[c]) = dequeued[c]
    BY <1>0, <2>1, <2>3 DEF Uncounted
  <2>5. Shared(consumer_cursor, total_dequeued + Uncounted(cpc[c], dequeued[c]), cpc', dequeued')
    BY <1>0, <1>s, <2>3, <2>4, SharedCount
  <2>6. CountersInv'
    <3>1. dequeued[c] > 0 /\ dequeued[c] \in Nat
      BY <1>0, <1>s, <2>1 DEF CountersInv
    <3>2. batch_operations' <= total_enqueued + total_dequeued'
      BY <1>0, <1>s, <2>1, <3>1 DEF CountersInv
    <3> QED
      BY <1>s, <2>1, <2>3, <3>2 DEF CountersInv
  <2> QED
    BY <2>1, <2>4, <2>5, <2>6 DEF StatInv
<1>15. CASE UNCHANGED vars
  BY <1>1, <1>15, <1>s DEF vars, StatInv, CountersInv
<1> QED
  BY <1>2, <1>3, <1>4, <1>5, <1>6, <1>9, <1>10, <1>11, <1>12, <1>13, <1>14, <1>15
  DEF Next, Producer, Consumer, Proceed

\* The counters that get_statistics reads are the positions whenever no call is in
\* progress, although each call adds to them only at its end and they are relaxed.
THEOREM CountersAgree == Capacity >= 2 /\ Spec => []StatisticsAgree
<1>1. Init => StatInv
  <2> SUFFICES ASSUME Init PROVE StatInv
    OBVIOUS
  <2>1. CountersInv
    BY DEF Init, CountersInv
  <2> DEFINE of == [p \in {} |-> CHOOSE c \in Consumers : TRUE]
  <2>2. Below(0) = {} /\ {} \in SUBSET Below(0) /\ of \in [Below(0) -> Consumers]
    BY DEF Below
  <2>3. Cardinality({}) = 0
    BY FS_EmptySet
  <2>4. \A c \in Consumers : Cardinality(Belonging({}, of, 0, c)) = Uncounted(cpc[c], dequeued[c])
    <3>1. \A c : Belonging({}, of, 0, c) = {}
      BY <2>2 DEF Belonging
    <3>2. \A c \in Consumers : Uncounted(cpc[c], dequeued[c]) = 0
      BY DEF Init, Uncounted
    <3> QED
      BY <2>3, <3>1, <3>2
  <2>5. Shared(0, 0, cpc, dequeued)
    BY <2>2, <2>3, <2>4 DEF Shared
  <2> QED
    BY <2>1, <2>5 DEF StatInv, Init
<1>2. IInv /\ StatInv /\ [Next]_vars => StatInv'
  BY StatStep
<1>3. ASSUME IInv, StatInv PROVE StatisticsAgree
  <2> SUFFICES ASSUME ppc = "idle", \A c \in Consumers : cpc[c] = "idle"
               PROVE total_dequeued = consumer_cursor
    BY <1>3 DEF StatInv, CountersInv, StatisticsAgree, IInv, TypeOK
  <2>1. consumer_cursor \in Nat
    BY <1>3 DEF IInv, TypeOK
  <2>2. PICK counted \in SUBSET Below(consumer_cursor) :
          \E of \in [Below(consumer_cursor) -> Consumers] :
            /\ Cardinality(counted) = total_dequeued
            /\ \A c \in Consumers :
                 Cardinality(Belonging(counted, of, consumer_cursor, c)) = Uncounted(cpc[c], dequeued[c])
    BY <1>3 DEF StatInv, Shared
  <2>3. PICK of \in [Below(consumer_cursor) -> Consumers] :
            /\ Cardinality(counted) = total_dequeued
            /\ \A c \in Consumers :
                 Cardinality(Belonging(counted, of, consumer_cursor, c)) = Uncounted(cpc[c], dequeued[c])
    BY <2>2
  <2>4. ASSUME NEW c \in Consumers PROVE Belonging(counted, of, consumer_cursor, c) = {}
    <3>1. Cardinality(Belonging(counted, of, consumer_cursor, c)) = 0
      BY <2>3 DEF Uncounted
    <3>2. IsFiniteSet(Belonging(counted, of, consumer_cursor, c))
      BY <2>1, BelowIsFinite DEF Belonging
    <3> QED
      BY <3>1, <3>2, FS_EmptySet
  <2>5. counted = Below(consumer_cursor)
    <3> SUFFICES ASSUME NEW p \in Below(consumer_cursor), p \notin counted PROVE FALSE
      OBVIOUS
    <3>1. of[p] \in Consumers /\ p \in Belonging(counted, of, consumer_cursor, of[p])
      BY DEF Belonging
    <3> QED
      BY <2>4, <3>1
  <2> QED
    BY <2>1, <2>3, <2>5, BelowIsFinite
<1> QED
  BY <1>1, <1>2, <1>3, Invariance, PTL DEF Spec
-----------------------------------------------------------------------------
(* SPMCQueue implements FifoQueue: publishing a slot is Put, moving the      *)
(* cursor is Take, moving the item out is Receive, and every other step of   *)
(* the code is a stutter of the abstract queue.  The line of items that wait *)
(* is not stored anywhere: it is the positions from the cursor to Published, *)
(* and the first lemmas are the facts about it.                              *)

Line(from, to) == [k \in 1 .. to - from |-> from + k - 1]

LEMMA LineIsSeq ==
  ASSUME NEW from \in Nat, NEW to \in Nat, from <= to
  PROVE  /\ Line(from, to) \in Seq(Nat)
         /\ Len(Line(from, to)) = to - from
         /\ \A k \in 1 .. to - from : Line(from, to)[k] = from + k - 1
<1>1. to - from \in Nat /\ Line(from, to) \in [1 .. to - from -> Nat]
  BY DEF Line
<1>2. Line(from, to) \in Seq(Nat)
  BY <1>1
<1>3. DOMAIN Line(from, to) = 1 .. to - from
  BY DEF Line
<1> QED
  BY <1>1, <1>2, <1>3, LenProperties DEF Line

LEMMA LineAppend ==
  ASSUME NEW from \in Nat, NEW to \in Nat, from <= to
  PROVE  Append(Line(from, to), to) = Line(from, to + 1)
<1> DEFINE l == Line(from, to)
           s == Append(l, to)
           t == Line(from, to + 1)
<1>0. /\ l \in Seq(Nat) /\ Len(l) = to - from
      /\ \A k \in 1 .. to - from : l[k] = from + k - 1
  BY LineIsSeq
<1> HIDE DEF l
<1>1. /\ s \in Seq(Nat) /\ Len(s) = to - from + 1 /\ s[to - from + 1] = to
      /\ \A k \in 1 .. to - from : s[k] = from + k - 1
  BY <1>0, AppendProperties
<1>2. /\ t \in Seq(Nat) /\ Len(t) = to - from + 1
      /\ \A k \in 1 .. to - from + 1 : t[k] = from + k - 1
  BY LineIsSeq
<1>3. \A k \in 1 .. Len(s) : s[k] = t[k]
  BY <1>1, <1>2
<1> HIDE DEF s, t
<1>4. s = t
  BY <1>1, <1>2, <1>3, SeqEqual
<1> QED
  BY <1>4 DEF l, s, t

LEMMA LineHeadTail ==
  ASSUME NEW from \in Nat, NEW to \in Nat, from < to
  PROVE  /\ Line(from, to) # <<>>
         /\ Head(Line(from, to)) = from
         /\ Tail(Line(from, to)) = Line(from + 1, to)
<1> DEFINE s == Line(from, to)
           t == Line(from + 1, to)
<1>1. /\ s \in Seq(Nat) /\ Len(s) = to - from
      /\ \A k \in 1 .. to - from : s[k] = from + k - 1
  BY LineIsSeq
<1>2. /\ t \in Seq(Nat) /\ Len(t) = to - from - 1
      /\ \A k \in 1 .. to - from - 1 : t[k] = from + k
  BY LineIsSeq
<1> HIDE DEF s, t
<1>3. s # <<>> /\ Head(s) = from
  BY <1>1, EmptySeq
<1>4. /\ Tail(s) \in Seq(Nat) /\ Len(Tail(s)) = to - from - 1
      /\ \A k \in 1 .. to - from - 1 : Tail(s)[k] = s[k + 1]
  BY <1>1, <1>3, HeadTailProperties
<1>5. \A k \in 1 .. to - from - 1 : Tail(s)[k] = t[k]
  BY <1>1, <1>2, <1>4
<1>6. Tail(s) = t
  BY <1>2, <1>4, <1>5, SeqEqual
<1> QED
  BY <1>3, <1>6 DEF s, t

-----------------------------------------------------------------------------
(* The producer stays within the items it has to offer.                      *)

BudgetInv ==
  ppc \in {"check", "write", "publish"} =>
    producer_pos + pcall.count <= MaxItems /\ enqueued < pcall.count

RInv == IInv /\ BudgetInv

LEMMA BudgetStep == IInv /\ BudgetInv /\ [Next]_vars => BudgetInv'
<1> SUFFICES ASSUME IInv, BudgetInv, [Next]_vars PROVE BudgetInv'
  OBVIOUS
<1>0. /\ enqueued \in Nat /\ producer_pos \in Nat /\ MaxItems \in Nat
      /\ ppc = "idle" => enqueued = 0
  BY ConstantsAssumption DEF IInv, TypeOK, ProducerInv
<1>1. ASSUME NEW call \in Calls, StartEnqueue(call) PROVE BudgetInv'
  <2>1. call.count \in Nat /\ call.count > 0
    BY ConstantsAssumption DEF Calls
  <2> QED
    BY <1>0, <1>1, <2>1 DEF StartEnqueue, BudgetInv, shared
<1>2. CASE FindSlotFree \/ FindSlotTaken \/ WriteSlot
  BY <1>2 DEF FindSlotFree, FindSlotTaken, WriteSlot, BudgetInv, shared
<1>3. CASE PublishSlot
  BY <1>3 DEF PublishSlot, BudgetInv
<1>4. CASE AdvanceProducer \/ CountEnqueued
  BY <1>4 DEF AdvanceProducer, CountEnqueued, BudgetInv
<1>5. ASSUME NEW c \in Consumers, Consumer(c) PROVE BudgetInv'
  <2>1. UNCHANGED <<producer, producer_pos>>
    BY <1>5 DEF Consumer, Proceed, StartDequeue, LoadCursor, FindItem, FindNewer, ReturnEmpty,
                EndBatch, Claim, LoseClaim, MoveOut, Release, CountDequeued, shared
  <2> QED
    BY <2>1 DEF producer, BudgetInv
<1>6. CASE UNCHANGED vars
  BY <1>6 DEF vars, shared, producer, BudgetInv
<1> QED
  BY <1>1, <1>2, <1>3, <1>4, <1>5, <1>6 DEF Next, Producer

LEMMA RInvariance == Capacity >= 2 /\ Spec => []RInv
<1> SUFFICES ASSUME Capacity >= 2 PROVE Spec => []RInv
  OBVIOUS
<1>1. Init => RInv
  BY InitIInv DEF RInv, Init, BudgetInv
<1>2. RInv /\ [Next]_vars => RInv'
  BY TypeStep, RingStep, ProducerStep, ConsumerStep, BudgetStep DEF RInv, IInv
<1> QED
  BY <1>1, <1>2, PTL DEF Spec

-----------------------------------------------------------------------------
(* Every step maps to a step of FifoQueue or to a stutter.                   *)

LEMMA InitRefines == Init => Fifo!Init
  BY DEF Init, Fifo!Init, Published, Moving

LEMMA QuietRefines ==
  ASSUME IInv, SameHolders, Published' = Published, UNCHANGED <<consumer_cursor, received>>
  PROVE  UNCHANGED Fifo!vars
<1>1. \A c \in Consumers : Moving(c) => Holds(c)
  BY DEF Moving, Holds
<1> QED
  BY <1>1 DEF SameHolders, Fifo!vars

LEMMA StepRefines == Capacity >= 2 /\ RInv /\ [Next]_vars => [Fifo!Next]_Fifo!vars
<1> SUFFICES ASSUME Capacity >= 2, RInv, [Next]_vars PROVE [Fifo!Next]_Fifo!vars
  OBVIOUS
<1>1. /\ IInv /\ BudgetInv /\ Published \in Nat /\ consumer_cursor \in Nat
      /\ pos \in [Consumers -> Nat] /\ received \in [Consumers -> SUBSET Nat]
      /\ cpc \in [Consumers -> {"idle", "cursor", "sequence", "cas", "move", "release", "count"}]
      /\ consumer_cursor <= Published /\ Published <= consumer_cursor + Capacity
  BY PublishedInNat, ConstantsAssumption DEF RInv, IInv, TypeOK, RingInv, CursorInv
<1>2. CASE QuietNext
  BY <1>1, <1>2, QuietNextIsQuiet, QuietRefines
<1>3. CASE WriteSlot
  <2>1. SameHolders /\ Published' = Published /\ UNCHANGED <<consumer_cursor, received>>
    BY <1>3 DEF WriteSlot, SameHolders, Holds, Moving, Published, consumer
  <2> QED
    BY <1>1, <2>1, QuietRefines
<1>4. CASE PublishSlot
  <2>1. Published' = Published + 1 /\ UNCHANGED <<consumer_cursor, cpc, pos, received>>
    BY <1>1, <1>4, PublishSlotRing DEF PublishSlot, consumer
  <2>2. Published < MaxItems
    <3>1. producer_pos + pcall.count <= MaxItems /\ enqueued < pcall.count
      BY <1>1, <1>4 DEF PublishSlot, BudgetInv
    <3>2. /\ producer_pos \in Nat /\ enqueued \in Nat /\ MaxItems \in Nat
          /\ pcall.count \in Nat /\ Published = producer_pos + enqueued
      BY <1>1, <1>4, ConstantsAssumption DEF PublishSlot, IInv, TypeOK, Calls, Published
    <3> QED
      BY <3>1, <3>2
  <2>3. Published - consumer_cursor < Capacity
    BY <1>1, <1>4, ConstantsAssumption DEF PublishSlot, IInv, ProducerInv, Unreleased
  <2>4. Len(Line(consumer_cursor, Published)) < Capacity
    BY <1>1, <2>3, LineIsSeq
  <2>5. Line(consumer_cursor, Published)' = Append(Line(consumer_cursor, Published), Published)
    BY <1>1, <2>1, LineAppend DEF Line
  <2>6. Fifo!Put
    BY <2>1, <2>2, <2>4, <2>5 DEF Fifo!Put, Line, Moving
  <2> QED
    BY <2>6 DEF Fifo!Next
<1>5. ASSUME NEW c \in Consumers, Claim(c) PROVE Fifo!Take(c)
  <2>1. /\ cpc[c] = "cas" /\ pos[c] = consumer_cursor /\ consumer_cursor < Published
        /\ cpc' = [cpc EXCEPT ![c] = "move"] /\ consumer_cursor' = consumer_cursor + 1
        /\ Published' = Published /\ UNCHANGED <<pos, received>>
    BY <1>1, <1>5, ClaimRing DEF Claim, Goto, IInv, ConsumerInv
  <2>2. /\ Line(consumer_cursor, Published) # <<>>
        /\ Head(Line(consumer_cursor, Published)) = consumer_cursor
        /\ Tail(Line(consumer_cursor, Published)) = Line(consumer_cursor + 1, Published)
    BY <1>1, <2>1, LineHeadTail
  <2>4. Line(consumer_cursor, Published)' = Line(consumer_cursor + 1, Published)
    BY <2>1 DEF Line
  <2> DEFINE hand == [d \in Consumers |-> IF Moving(d) THEN pos[d] ELSE NoItem]
  <2>3. hand[c] = NoItem /\ hand' = [hand EXCEPT ![c] = consumer_cursor]
    BY <1>1, <2>1 DEF Moving
  <2> QED
    BY <2>1, <2>2, <2>3, <2>4 DEF Fifo!Take, Line
<1>6. ASSUME NEW c \in Consumers, MoveOut(c) PROVE Fifo!Receive(c)
  <2>1. /\ Moving(c) /\ cpc' = [cpc EXCEPT ![c] = "release"]
        /\ Published' = Published /\ UNCHANGED <<pos, consumer_cursor>>
        /\ received' = [received EXCEPT ![c] = @ \cup {pos[c]}]
    BY <1>1, <1>6, MoveOutRing DEF MoveOut, Goto, Moving, IInv, RingInv, DataInv
  <2> DEFINE hand == [d \in Consumers |-> IF Moving(d) THEN pos[d] ELSE NoItem]
  <2>2. pos[c] # NoItem
    BY <1>1 DEF NoItem
  <2>3. hand[c] = pos[c]
    BY <2>1
  <2>4. \A d \in Consumers : Moving(d)' <=> Moving(d) /\ d # c
    BY <1>1, <2>1 DEF Moving
  <2>5. hand' = [hand EXCEPT ![c] = NoItem]
    BY <2>1, <2>4
  <2> QED
    BY <2>1, <2>2, <2>3, <2>5 DEF Fifo!Receive
<1>7. ASSUME NEW c \in Consumers, Release(c) PROVE UNCHANGED Fifo!vars
  <2>1. /\ Published' = Published /\ UNCHANGED <<pos, consumer_cursor, received>>
        /\ \A d \in Consumers : Moving(d)' <=> Moving(d)
    BY <1>1, <1>7, ReleaseRing DEF Release, Moving
  <2> QED
    BY <2>1 DEF Fifo!vars
<1> QED
  BY <1>2, <1>3, <1>4, <1>5, <1>6, <1>7, StepKinds DEF Fifo!Next

\* The lock-free queue is a bounded first-in first-out queue, for any number of
\* consumers, any batches and any Capacity of at least two.
THEOREM QueueRefinesFifo == Capacity >= 2 /\ Spec => ImplementsFifo
<1> SUFFICES ASSUME Capacity >= 2 PROVE Spec => ImplementsFifo
  OBVIOUS
<1>1. RInv /\ [Next]_vars => [Fifo!Next]_Fifo!vars
  BY StepRefines
<1>2. Spec => []RInv
  BY RInvariance
<1> QED
  BY <1>1, <1>2, InitRefines, PTL DEF Spec, ImplementsFifo, Fifo!Spec
=============================================================================
