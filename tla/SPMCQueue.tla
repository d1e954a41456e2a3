----------------------------- MODULE SPMCQueue -----------------------------
(***************************************************************************)
(* SPMCQueue<T, Capacity> of src/single-produer-multiply-consumer.h: a     *)
(* bounded ring of slots, one producer thread and many consumer threads,   *)
(* no lock.  A slot carries a sequence number: it may be written for       *)
(* position p when the number is p, read when it is p + 1, and after the   *)
(* read it is set to p + Capacity, the next position of that slot.         *)
(*                                                                         *)
(* Every access to a shared atomic and every access to a slot's data is a  *)
(* step of its own.  The item that goes to position p is named p, so that  *)
(* loss, duplication and reordering are visible in the names.              *)
(***************************************************************************)
EXTENDS Integers, FiniteSets

CONSTANTS
  Consumers,   \* the consumer threads
  Capacity,    \* the template parameter: the number of slots
  MaxItems,    \* bound: the number of items the producer has to offer
  MaxBatch,    \* bound: the largest batch, of the producer or of a consumer
  MaxFailed    \* bound: failed_dequeues_ is counted up to this value

ASSUME ConstantsAssumption ==
  /\ Capacity \in Nat \ {0}
  /\ MaxItems \in Nat
  /\ MaxBatch \in Nat \ {0}
  /\ MaxFailed \in Nat

NoItem == -1                \* a slot never written, or moved from

VARIABLES
  sequence,          \* Slot::sequence, by slot index
  data,              \* Slot::data, by slot index
  producer_pos,      \* producer_pos_
  consumer_cursor,   \* consumer_cursor_
  total_enqueued, total_dequeued,         \* the counters of get_statistics
  batch_operations, failed_dequeues,
  ppc,               \* where the producer is
  pcall,             \* its call: the batch size and which method
  enqueued,          \* its local: slots published by this call so far
  cpc,               \* where each consumer is
  ccall,             \* its call: max_count and which method
  pos,               \* its local: the cursor value it last loaded
  dequeued,          \* its local: items taken by this call so far
  received           \* history: the items each consumer has moved out

shared    == <<sequence, data, producer_pos, consumer_cursor>>
stats     == <<total_enqueued, total_dequeued, batch_operations, failed_dequeues>>
producer  == <<ppc, pcall, enqueued>>
consumer  == <<cpc, ccall, pos, dequeued, received>>
vars      == <<shared, stats, producer, consumer>>

Calls     == [count: 1 .. MaxBatch, batch: BOOLEAN]
Slots     == 0 .. Capacity - 1
Index(p)  == p % Capacity                      \* pos & MASK

\* The positions whose slot was published: those of a call in progress count
\* before producer_pos_ moves past them.
Published == producer_pos + (IF ppc = "count" THEN 0 ELSE enqueued)

\* A call of the one-item methods asks for exactly one item.
WellFormed(call) == ~call.batch => call.count = 1

TypeOK ==
  /\ sequence \in [Slots -> Nat]
  /\ data \in [Slots -> Nat \cup {NoItem}]
  /\ producer_pos \in Nat
  /\ consumer_cursor \in Nat
  /\ total_enqueued \in Nat /\ total_dequeued \in Nat
  /\ batch_operations \in Nat /\ failed_dequeues \in Nat
  /\ ppc \in {"idle", "check", "write", "publish", "advance", "count"}
  /\ pcall \in Calls
  /\ enqueued \in Nat
  /\ cpc \in [Consumers -> {"idle", "cursor", "sequence", "cas", "move", "release", "count"}]
  /\ ccall \in [Consumers -> Calls]
  /\ pos \in [Consumers -> Nat]
  /\ dequeued \in [Consumers -> Nat]
  /\ received \in [Consumers -> SUBSET Nat]

\* The constructor numbers the slots.  The variant with a mistake starts from 1.
InitialFromOne  == [i \in Slots |-> i + 1]
InitialSequence == [i \in Slots |-> i]

Init ==
  /\ sequence = InitialSequence
  /\ data = [i \in Slots |-> NoItem]
  /\ producer_pos = 0
  /\ consumer_cursor = 0
  /\ total_enqueued = 0 /\ total_dequeued = 0
  /\ batch_operations = 0 /\ failed_dequeues = 0
  /\ ppc = "idle"
  /\ pcall = [count |-> 1, batch |-> FALSE]
  /\ enqueued = 0
  /\ cpc = [c \in Consumers |-> "idle"]
  /\ ccall = [c \in Consumers |-> [count |-> 1, batch |-> FALSE]]
  /\ pos = [c \in Consumers |-> 0]
  /\ dequeued = [c \in Consumers |-> 0]
  /\ received = [c \in Consumers |-> {}]

-----------------------------------------------------------------------------
(* The producer: try_enqueue (a call for one item) and try_enqueue_batch.    *)

\* try_enqueue or try_enqueue_batch is called.  producer_pos_ is loaded here:
\* the producer is its only writer.
StartEnqueue(call) ==
  /\ ppc = "idle"
  /\ WellFormed(call)
  /\ producer_pos + call.count <= MaxItems
  /\ ppc' = "check"
  /\ pcall' = call
  /\ UNCHANGED <<shared, stats, enqueued, consumer>>

\* Variants with a mistake: the room is taken from the cursor instead of the
\* slot, the next slot is checked.
SlotFreeByCursor == Published - consumer_cursor < Capacity
SlotFreeNext     == sequence[Index(Published + 1)] = Published + 1

SlotFree == sequence[Index(Published)] = Published

\* The slot's number says that it may be written.
FindSlotFree ==
  /\ ppc = "check"
  /\ SlotFree
  /\ ppc' = "write"
  /\ UNCHANGED <<shared, stats, pcall, enqueued, consumer>>

\* The slot has not been given back: return false (or 0), or, after a part of
\* a batch, break and report the part.
FindSlotTaken ==
  /\ ppc = "check"
  /\ ~SlotFree
  /\ ppc' = IF enqueued = 0 THEN "idle" ELSE "advance"
  /\ UNCHANGED <<shared, stats, pcall, enqueued, consumer>>

WriteSlot ==
  /\ ppc = "write"
  /\ data' = [data EXCEPT ![Index(Published)] = Published]
  /\ ppc' = "publish"
  /\ UNCHANGED <<sequence, producer_pos, consumer_cursor, stats, pcall, enqueued, consumer>>

\* The number of a slot that holds the item of position p.
Filled(p) == p + 1

\* slot.sequence.store(pos + enqueued + 1): from here on a consumer may take it.
PublishSlot ==
  /\ ppc = "publish"
  /\ sequence' = [sequence EXCEPT ![Index(Published)] = Filled(Published)]
  /\ enqueued' = enqueued + 1
  /\ ppc' = IF enqueued + 1 < pcall.count THEN "check" ELSE "advance"
  /\ UNCHANGED <<data, producer_pos, consumer_cursor, stats, pcall, consumer>>

\* Variant with a mistake: a partial batch moves the position by its full size.
AdvanceByRequest ==
  /\ ppc = "advance"
  /\ producer_pos' = producer_pos + pcall.count
  /\ ppc' = "count"
  /\ UNCHANGED <<sequence, data, consumer_cursor, stats, pcall, enqueued, consumer>>

AdvanceProducer ==
  /\ ppc = "advance"
  /\ producer_pos' = producer_pos + enqueued
  /\ ppc' = "count"
  /\ UNCHANGED <<sequence, data, consumer_cursor, stats, pcall, enqueued, consumer>>

CountBatch(call) ==
  batch_operations' = batch_operations + (IF call.batch THEN 1 ELSE 0)

\* Variant with a mistake: a partial batch is counted with its full size.
CountRequested ==
  /\ ppc = "count"
  /\ total_enqueued' = total_enqueued + pcall.count
  /\ CountBatch(pcall)
  /\ enqueued' = 0
  /\ ppc' = "idle"
  /\ UNCHANGED <<shared, total_dequeued, failed_dequeues, pcall, consumer>>

CountEnqueued ==
  /\ ppc = "count"
  /\ total_enqueued' = total_enqueued + enqueued
  /\ CountBatch(pcall)
  /\ enqueued' = 0
  /\ ppc' = "idle"
  /\ UNCHANGED <<shared, total_dequeued, failed_dequeues, pcall, consumer>>

Producer ==
  \/ \E call \in Calls : StartEnqueue(call)
  \/ FindSlotFree
  \/ FindSlotTaken
  \/ WriteSlot
  \/ PublishSlot
  \/ AdvanceProducer
  \/ CountEnqueued

-----------------------------------------------------------------------------
(* A consumer: try_dequeue (a call for one item) and try_dequeue_batch.      *)

Goto(c, from, to) ==
  /\ cpc[c] = from
  /\ cpc' = [cpc EXCEPT ![c] = to]

StartDequeue(c, call) ==
  /\ Goto(c, "idle", "cursor")
  /\ WellFormed(call)
  /\ ccall' = [ccall EXCEPT ![c] = call]
  /\ dequeued' = [dequeued EXCEPT ![c] = 0]
  /\ UNCHANGED <<shared, stats, producer, pos, received>>

LoadCursor(c) ==
  /\ Goto(c, "cursor", "sequence")
  /\ pos' = [pos EXCEPT ![c] = consumer_cursor]
  /\ UNCHANGED <<shared, stats, producer, ccall, dequeued, received>>

SlotNumber(c) == sequence[Index(pos[c])]

\* The number says that the slot holds the item of position pos[c].
FindItem(c) ==
  /\ Goto(c, "sequence", "cas")
  /\ SlotNumber(c) = pos[c] + 1
  /\ UNCHANGED <<shared, stats, producer, ccall, pos, dequeued, received>>

\* try_dequeue only: the number is past pos[c] + 1, load the cursor again.
FindNewer(c) ==
  /\ Goto(c, "sequence", "cursor")
  /\ ~ccall[c].batch
  /\ SlotNumber(c) > pos[c] + 1
  /\ UNCHANGED <<shared, stats, producer, ccall, pos, dequeued, received>>

\* Variant with a mistake: try_dequeue gives up on a newer number too.
NoItemForAny(c) == SlotNumber(c) # pos[c] + 1

\* What ends a call without an item: for try_dequeue a smaller number, for
\* try_dequeue_batch any number but pos[c] + 1.
NoItemFor(c) ==
  IF ccall[c].batch THEN SlotNumber(c) # pos[c] + 1
                    ELSE SlotNumber(c) < pos[c] + 1

CountFailed ==
  /\ failed_dequeues' = IF failed_dequeues < MaxFailed THEN failed_dequeues + 1 ELSE failed_dequeues
  /\ UNCHANGED <<total_enqueued, total_dequeued, batch_operations>>

\* Nothing to take and nothing taken: count the failure, return false (or 0).
ReturnEmpty(c) ==
  /\ Goto(c, "sequence", "idle")
  /\ NoItemFor(c)
  /\ dequeued[c] = 0
  /\ CountFailed
  /\ UNCHANGED <<shared, producer, ccall, pos, dequeued, received>>

\* Nothing more to take for a batch that has some items.
EndBatch(c) ==
  /\ Goto(c, "sequence", "count")
  /\ NoItemFor(c)
  /\ dequeued[c] > 0
  /\ UNCHANGED <<shared, stats, producer, ccall, pos, dequeued, received>>

\* Variant with a mistake: the cursor is stored, not compared and exchanged.
ClaimByStore(c) ==
  /\ Goto(c, "cas", "move")
  /\ consumer_cursor' = pos[c] + 1
  /\ UNCHANGED <<sequence, data, producer_pos, stats, producer, ccall, pos, dequeued, received>>

\* The compare_exchange on consumer_cursor_ succeeds: position pos[c] is claimed.
Claim(c) ==
  /\ Goto(c, "cas", "move")
  /\ consumer_cursor = pos[c]
  /\ consumer_cursor' = consumer_cursor + 1
  /\ UNCHANGED <<sequence, data, producer_pos, stats, producer, ccall, pos, dequeued, received>>

\* It fails, because the cursor has moved or spuriously (it is the weak form).
LoseClaim(c) ==
  /\ Goto(c, "cas", "cursor")
  /\ UNCHANGED <<shared, stats, producer, ccall, pos, dequeued, received>>

MoveOut(c) ==
  /\ Goto(c, "move", "release")
  /\ received' = [received EXCEPT ![c] = @ \cup {data[Index(pos[c])]}]
  /\ data' = [data EXCEPT ![Index(pos[c])] = NoItem]
  /\ UNCHANGED <<sequence, producer_pos, consumer_cursor, stats, producer, ccall, pos, dequeued>>

\* The number that gives the slot back for the next lap.
NextLap(p) == p + Capacity

\* slot.sequence.store(pos + Capacity): the producer may write the slot again.
Release(c) ==
  /\ cpc[c] = "release"
  /\ cpc' = [cpc EXCEPT ![c] = IF dequeued[c] + 1 < ccall[c].count THEN "cursor" ELSE "count"]
  /\ sequence' = [sequence EXCEPT ![Index(pos[c])] = NextLap(pos[c])]
  /\ dequeued' = [dequeued EXCEPT ![c] = @ + 1]
  /\ UNCHANGED <<data, producer_pos, consumer_cursor, stats, producer, ccall, pos, received>>

CountDequeued(c) ==
  /\ Goto(c, "count", "idle")
  /\ total_dequeued' = total_dequeued + dequeued[c]
  /\ CountBatch(ccall[c])
  /\ UNCHANGED <<shared, total_enqueued, failed_dequeues, producer, ccall, pos, dequeued, received>>

Proceed(c) ==          \* the steps inside a call
  \/ LoadCursor(c)
  \/ FindItem(c)
  \/ FindNewer(c)
  \/ ReturnEmpty(c)
  \/ EndBatch(c)
  \/ Claim(c)
  \/ LoseClaim(c)
  \/ MoveOut(c)
  \/ Release(c)
  \/ CountDequeued(c)

Consumer(c) ==
  \/ \E call \in Calls : StartDequeue(c, call)
  \/ Proceed(c)

Next == Producer \/ \E c \in Consumers : Consumer(c)

Spec == Init /\ [][Next]_vars

-----------------------------------------------------------------------------
(* What the queue promises.                                                  *)

Holds(c)  == cpc[c] \in {"move", "release"}    \* c claimed pos[c], not yet given back
Moving(c) == cpc[c] = "move"

\* No two threads touch the data of one slot at a time when one of them writes
\* it: the producer storing an item, a consumer moving it out.  The sequence
\* numbers are the only thing that keeps them apart (lines 49-52, 109-112).
NoSlotRace ==
  /\ \A c \in Consumers : Moving(c) /\ ppc = "write" => Index(pos[c]) # Index(Published)
  /\ \A c, d \in Consumers : c # d /\ Moving(c) /\ Moving(d) => Index(pos[c]) # Index(pos[d])

\* Every position below the cursor went to exactly one consumer, which has
\* received that very item or is about to move it out; nothing else has been
\* received.  So no item is lost, duplicated or overwritten before it is read.
ExactlyOnce ==
  /\ \A c, d \in Consumers : c # d => received[c] \cap received[d] = {}
  /\ UNION {received[c] : c \in Consumers} =
       (0 .. consumer_cursor - 1) \ {pos[c] : c \in {d \in Consumers : Moving(d)}}

\* The positions are never further apart than the ring allows.  The cursor may pass
\* producer_pos_, but only by items of the batch whose producer_pos_ store is still
\* to come.  This is about the positions at one moment: size, empty and full load
\* them one after the other (lines 175-191) and may see them further apart.
SizeBounds ==
  /\ Published - consumer_cursor \in 0 .. Capacity
  /\ consumer_cursor - producer_pos <= enqueued

\* get_statistics when no call is in progress: the counters are the positions,
\* so their difference is current_size, and every batch moved an item.
StatisticsAgree ==
  ppc = "idle" /\ (\A c \in Consumers : cpc[c] = "idle") =>
    /\ total_enqueued = producer_pos
    /\ total_dequeued = consumer_cursor
    /\ batch_operations <= total_enqueued + total_dequeued

\* When try_dequeue says that the queue is empty (lines 118-121), it is: at that
\* moment every published item has been claimed, although the cursor value the
\* consumer compares with may be old.
EmptyIsEmpty ==
  [][\A c \in Consumers :
       ~ccall[c].batch /\ cpc[c] = "sequence" /\ cpc'[c] = "idle"
         => consumer_cursor = Published]_vars

\* When the producer is told that the queue is full (lines 59 and 84), the item a
\* whole lap behind is still in its slot: unclaimed, or being moved out.  (Not that
\* the slot is given back some time: a consumer that stops in between keeps it.)
FullIsFull ==
  [][ppc = "check" /\ ppc' \in {"idle", "advance"}
       => LET lap == Published - Capacity
          IN \/ lap >= consumer_cursor
             \/ \E c \in Consumers : Holds(c) /\ pos[c] = lap]_vars

\* A consumer receives items in the order of their positions, also when its
\* steps and those of other consumers and a wrapping producer interleave.
InOrder ==
  [][\A c \in Consumers : \A new \in received'[c] \ received[c] :
       \A old \in received[c] : old < new]_vars

\* The queue implements the bounded first-in first-out queue: an item is put
\* when its sequence number is published, taken when the cursor moves over it.
Fifo == INSTANCE FifoQueue WITH
  next  <- Published,
  fifo  <- [k \in 1 .. Published - consumer_cursor |-> consumer_cursor + k - 1],
  hand  <- [c \in Consumers |-> IF Moving(c) THEN pos[c] ELSE NoItem],
  taken <- received
ImplementsFifo == Fifo!Spec

-----------------------------------------------------------------------------
(* What the comments of the code say and the code does not do.               *)

\* Line 50, "the slot is ready for writing", of the branch that writes: the item
\* in it has been moved out.
WritesReadySlot == ppc = "write" => data[Index(Published)] = NoItem
=============================================================================
