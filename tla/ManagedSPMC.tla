---------------------------- MODULE ManagedSPMC ----------------------------
(***************************************************************************)
(* ManagedSPMCSystem of src/single-produer-multiply-consumer.h: consumer   *)
(* threads that run consumer_loop over one SPMCQueue and hand what they    *)
(* take to a processor, and stop(), which clears running_ and joins them.  *)
(* The client that produces does not wait for stop(): the class lets it    *)
(* call try_produce, produce and try_produce_batch at any time.            *)
(*                                                                         *)
(* The queue is the one of SPMCQueue, step by step; a consumer thread is   *)
(* inside a queue call when cpc[c] # "idle".                               *)
(***************************************************************************)
EXTENDS SPMCQueue, Sequences, Functions

VARIABLES
  use_batching, \* which constructor was used
  running,     \* running_
  lpc,         \* where each consumer thread is in consumer_loop
  item,        \* its local of that name, NoItem once it was moved from
  batch,       \* its local of that name
  processed,   \* history: what each thread passed to its processor, in order
  stopper,     \* where the thread that calls stop() is
  atStop       \* history: Published when running_ was cleared

loop  == <<lpc, item, batch, processed>>
owner == <<use_batching, running, stopper, atStop>>
mvars == <<vars, loop, owner>>

Values == Nat \cup {NoItem}

MTypeOK ==
  /\ TypeOK
  /\ use_batching \in BOOLEAN
  /\ running \in BOOLEAN
  /\ lpc \in [Consumers -> {"top", "try", "tried", "drain", "drained", "exited"}]
  /\ item \in [Consumers -> Values]
  /\ batch \in [Consumers -> Seq(Values)]
  /\ processed \in [Consumers -> Seq(Values)]
  /\ stopper \in {"before", "joining", "stopped"}
  /\ atStop \in Nat

MInit ==
  /\ Init
  /\ use_batching \in BOOLEAN
  /\ running = TRUE
  /\ lpc = [c \in Consumers |-> "top"]
  /\ item = [c \in Consumers |-> NoItem]
  /\ batch = [c \in Consumers |-> <<>>]
  /\ processed = [c \in Consumers |-> <<>>]
  /\ stopper = "before"
  /\ atStop = 0

-----------------------------------------------------------------------------
(* consumer_loop                                                             *)

LoopTo(c, from, to) ==
  /\ lpc[c] = from
  /\ lpc' = [lpc EXCEPT ![c] = to]

\* item_processor_(std::move(item)).
ProcessItem(c) ==
  /\ processed' = [processed EXCEPT ![c] = Append(@, item[c])]
  /\ item' = [item EXCEPT ![c] = NoItem]
  /\ UNCHANGED batch

\* Variant with a mistake: the vector is copied and not cleared.
ProcessBatchKept(c) ==
  /\ processed' = [processed EXCEPT ![c] = @ \o batch[c]]
  /\ UNCHANGED <<item, batch>>

\* batch_processor_(std::move(batch)); batch.clear().
ProcessBatch(c) ==
  /\ processed' = [processed EXCEPT ![c] = @ \o batch[c]]
  /\ batch' = [batch EXCEPT ![c] = <<>>]
  /\ UNCHANGED item

\* batch.push_back(std::move(item)).
PushBack(c) ==
  /\ batch' = [batch EXCEPT ![c] = Append(@, item[c])]
  /\ item' = [item EXCEPT ![c] = NoItem]
  /\ UNCHANGED processed

locals == <<item, batch, processed>>

\* Variants with a mistake: nothing is drained, the flag is not looked at.
LoadRunningNoDrain(c) ==
  /\ LoopTo(c, "top", IF running THEN "try" ELSE "exited")
  /\ UNCHANGED <<vars, locals, owner>>

LoadRunningIgnored(c) ==
  /\ LoopTo(c, "top", "try")
  /\ UNCHANGED <<vars, locals, owner>>

\* while (running_.load()): another round, or go on to what is left.
LoadRunning(c) ==
  /\ LoopTo(c, "top", IF running THEN "try" ELSE "drain")
  /\ UNCHANGED <<vars, locals, owner>>

\* try_dequeue_batch for a batch, try_dequeue for an item.
TryTake(c) ==
  /\ LoopTo(c, "try", "tried")
  /\ StartDequeue(c, [count |-> IF use_batching THEN MaxBatch ELSE 1, batch |-> use_batching])
  /\ UNCHANGED <<locals, owner>>

\* Variant with a mistake: what the call gave is not processed.
ProcessTakenForgotten(c) ==
  /\ cpc[c] = "idle"
  /\ LoopTo(c, "tried", "top")
  /\ UNCHANGED <<vars, locals, owner>>

\* The call returns: process what it gave, or sleep when it gave nothing.
ProcessTaken(c) ==
  /\ cpc[c] = "idle"
  /\ LoopTo(c, "tried", "top")
  /\ IF dequeued[c] = 0 THEN UNCHANGED locals
     ELSE IF use_batching THEN ProcessBatch(c) ELSE ProcessItem(c)
  /\ UNCHANGED <<vars, owner>>

\* After running_ is false: try_dequeue until it fails, in both modes.
TryDrain(c) ==
  /\ LoopTo(c, "drain", "drained")
  /\ StartDequeue(c, [count |-> 1, batch |-> FALSE])
  /\ UNCHANGED <<locals, owner>>

\* One more item: the item loop processes it, the batch loop keeps it for later.
DrainOne(c) ==
  /\ cpc[c] = "idle"
  /\ dequeued[c] > 0
  /\ LoopTo(c, "drained", "drain")
  /\ IF use_batching THEN PushBack(c) ELSE ProcessItem(c)
  /\ UNCHANGED <<vars, owner>>

\* Nothing left: the batch loop processes what it kept, and the thread ends.
LeaveLoop(c) ==
  /\ cpc[c] = "idle"
  /\ dequeued[c] = 0
  /\ LoopTo(c, "drained", "exited")
  /\ IF use_batching /\ batch[c] # <<>> THEN ProcessBatch(c) ELSE UNCHANGED locals
  /\ UNCHANGED <<vars, owner>>

\* What the call moves out of a slot goes to item, or to the end of batch.
Take(c, taken) ==
  IF ccall[c].batch THEN batch' = [batch EXCEPT ![c] = Append(@, taken)] /\ UNCHANGED item
                    ELSE item' = [item EXCEPT ![c] = taken] /\ UNCHANGED batch

InQueue(c) ==
  /\ Proceed(c)
  /\ IF Moving(c) THEN Take(c, data[Index(pos[c])]) ELSE UNCHANGED <<item, batch>>
  /\ UNCHANGED <<lpc, processed, owner>>

ConsumerLoop(c) ==
  \/ LoadRunning(c)
  \/ TryTake(c)
  \/ ProcessTaken(c)
  \/ TryDrain(c)
  \/ DrainOne(c)
  \/ LeaveLoop(c)
  \/ InQueue(c)

-----------------------------------------------------------------------------
(* The producing client, and stop().                                         *)

Produce == Producer /\ UNCHANGED <<loop, owner>>

Stop ==
  /\ stopper = "before"
  /\ running' = FALSE
  /\ stopper' = "joining"
  /\ atStop' = Published
  /\ UNCHANGED <<vars, loop, use_batching>>

JoinAll ==
  /\ stopper = "joining"
  /\ \A c \in Consumers : lpc[c] = "exited"
  /\ stopper' = "stopped"
  /\ UNCHANGED <<vars, loop, use_batching, running, atStop>>

MNext ==
  \/ Produce
  \/ \E c \in Consumers : ConsumerLoop(c)
  \/ Stop
  \/ JoinAll

MSpec == MInit /\ [][MNext]_mvars

-----------------------------------------------------------------------------

AllProcessed == UNION {Range(processed[c]) : c \in Consumers}

\* The drain loops (lines 295-302 and 314-317, "we process the remaining items"):
\* when stop() has returned, every item published before it cleared running_ has
\* been processed, wherever each consumer was when it saw the flag, and whatever
\* the producer was doing; and no thread ended with items it took and not processed.
NothingLeftBehind ==
  stopper = "stopped" =>
    /\ 0 .. atStop - 1 \subseteq AllProcessed
    /\ \A c \in Consumers : Range(processed[c]) = received[c]

\* Each thread passes items on in the order they were published, each one once, and
\* none that another thread passes on or that was never published: also across the
\* change from batches to single items when it drains (lines 283-304), where item
\* and batch are used again and again.
ProcessedOnce ==
  /\ \A c \in Consumers : \A i, j \in DOMAIN processed[c] :
       i < j => processed[c][i] < processed[c][j]
  /\ \A c, d \in Consumers : c # d => Range(processed[c]) \cap Range(processed[d]) = {}
  /\ AllProcessed \subseteq 0 .. consumer_cursor - 1

\* Each consumer thread runs, a compare_exchange that could succeed does not fail
\* for ever, and stop() goes on once it was called.
MFairness ==
  /\ \A c \in Consumers : WF_mvars(ConsumerLoop(c)) /\ SF_mvars(InQueue(c) /\ Claim(c))
  /\ WF_mvars(JoinAll)

LiveMSpec == MSpec /\ MFairness

\* stop() returns: every thread sees running_ and finishes draining (the client
\* has at most MaxItems items, so draining ends).
StopReturns == stopper = "joining" ~> stopper = "stopped"

\* What is published before stop() is called is processed, whether or not it is
\* called afterwards.
EveryItemProcessed ==
  \A p \in 0 .. MaxItems - 1 :
    Published > p /\ stopper = "before" ~> p \in AllProcessed
=============================================================================
