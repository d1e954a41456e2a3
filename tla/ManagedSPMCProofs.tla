------------------------- MODULE ManagedSPMCProofs -------------------------
(***************************************************************************)
(* Proofs about ManagedSPMC, for any number of consumer threads (but at    *)
(* least one: with none, which hardware_concurrency() may give, stop()     *)
(* leaves everything behind), any batch size and any Capacity of at least  *)
(* two.                                                                    *)
(*                                                                         *)
(* The threads of ManagedSPMC make steps of SPMCQueue, so the invariant of *)
(* SPMCQueueProofs holds; HandsInv says that what a thread took is what it *)
(* processed, followed by what it keeps, in order, LoopInv when it may     *)
(* keep something, StopInv what those that saw running_ false know of the  *)
(* cursor.                                                                 *)
(***************************************************************************)
EXTENDS ManagedSPMC, SPMCQueueProofs

\* Its call has not taken anything.
EmptyHanded(c) == dequeued[c] = 0 /\ cpc[c] # "release"

Ascending(s) == \A i, j \in DOMAIN s : i < j => s[i] < s[j]

\* What a thread took (all), in the order it took it, is what it passed to the
\* processor (done), then its vector (kept), then its single item (held).
Ordered(done, kept, held, all) ==
  /\ Ascending(done) /\ Ascending(kept)
  /\ \A x \in Range(done), y \in Range(kept) : x < y
  /\ held # NoItem => \A x \in Range(done) \cup Range(kept) : x < held
  /\ all = Range(done) \cup Range(kept) \cup (IF held = NoItem THEN {} ELSE {held})

HandsInv == \A c \in Consumers : Ordered(processed[c], batch[c], item[c], received[c])

\* The thread has a single item it took and did not pass on.
HasItem(c) ==
  lpc[c] \in {"tried", "drained"} /\ ~ccall[c].batch /\ ~EmptyHanded(c)

\* The thread may have items in its vector.
MayHaveBatch(c) ==
  use_batching /\ (lpc[c] \in {"drain", "drained"} \/ (lpc[c] = "tried" /\ ~EmptyHanded(c)))

LoopInv ==
  \A c \in Consumers :
    /\ lpc[c] \notin {"tried", "drained"} => cpc[c] = "idle"
    /\ cpc[c] = "count" => dequeued[c] > 0
    /\ lpc[c] = "tried" => ccall[c].batch = use_batching
    /\ lpc[c] = "drained" => ~ccall[c].batch
    /\ ~ccall[c].batch => ccall[c].count = 1
    /\ ~ccall[c].batch /\ cpc[c] \in {"cursor", "sequence", "cas", "move", "release"} =>
         dequeued[c] = 0
    /\ item[c] # NoItem <=> HasItem(c)
    /\ batch[c] # <<>> => MayHaveBatch(c)

\* The thread has found the queue empty, after running_ was cleared.
FoundEmpty(c) ==
  lpc[c] = "exited" \/ (lpc[c] = "drained" /\ cpc[c] = "idle" /\ dequeued[c] = 0)

StopInv ==
  /\ running <=> stopper = "before"
  /\ ~running => atStop <= Published
  /\ \A c \in Consumers : lpc[c] \in {"drain", "drained", "exited"} => ~running
  /\ \A c \in Consumers : FoundEmpty(c) => atStop <= consumer_cursor
  /\ stopper = "stopped" => \A c \in Consumers : lpc[c] = "exited"

MInv == MTypeOK /\ IInv /\ LoopInv /\ HandsInv /\ StopInv

-----------------------------------------------------------------------------
(* Every step is one of the queue, or leaves it alone.                       *)

LEMMA QueueStep == MTypeOK /\ [MNext]_mvars => [Next]_vars
<1> SUFFICES ASSUME MTypeOK, [MNext]_mvars PROVE [Next]_vars
  OBVIOUS
<1>1. ASSUME NEW c \in Consumers, TryTake(c) PROVE [Next]_vars
  <2>1. [count |-> IF use_batching THEN MaxBatch ELSE 1, batch |-> use_batching] \in Calls
    BY ConstantsAssumption DEF MTypeOK, Calls
  <2> QED
    BY <1>1, <2>1 DEF TryTake, Next, Consumer
<1>2. ASSUME NEW c \in Consumers, TryDrain(c) PROVE [Next]_vars
  <2>1. [count |-> 1, batch |-> FALSE] \in Calls
    BY ConstantsAssumption DEF Calls
  <2> QED
    BY <1>2, <2>1 DEF TryDrain, Next, Consumer
<1>3. ASSUME NEW c \in Consumers, InQueue(c) PROVE [Next]_vars
  BY <1>3 DEF InQueue, Next, Consumer
<1>4. CASE Produce
  BY <1>4 DEF Produce, Next
<1>5. ASSUME NEW c \in Consumers,
             LoadRunning(c) \/ ProcessTaken(c) \/ DrainOne(c) \/ LeaveLoop(c)
      PROVE  UNCHANGED vars
  BY <1>5 DEF LoadRunning, ProcessTaken, DrainOne, LeaveLoop
<1>6. CASE Stop \/ JoinAll \/ UNCHANGED mvars
  BY <1>6 DEF Stop, JoinAll, mvars
<1> QED
  BY <1>1, <1>2, <1>3, <1>4, <1>5, <1>6 DEF MNext, ConsumerLoop

LEMMA QueueInvStep == Capacity >= 2 /\ MTypeOK /\ IInv /\ [MNext]_mvars => IInv'
  BY QueueStep, TypeStep, RingStep, ProducerStep, ConsumerStep DEF IInv

-----------------------------------------------------------------------------
(* Ordered, when something is taken or passed on.                            *)

LEMMA AppendAscending ==
  ASSUME NEW s \in Seq(Values), NEW x \in Values, Ascending(s), \A y \in Range(s) : y < x
  PROVE  /\ Append(s, x) \in Seq(Values) /\ Append(s, x) # <<>>
         /\ Ascending(Append(s, x))
         /\ Range(Append(s, x)) = Range(s) \cup {x}
<1>1. PICK n \in Nat : n = Len(s) /\ DOMAIN s = 1 .. n /\ s \in [1 .. n -> Values]
  BY LenProperties
<1>2. PICK t : t = Append(s, x)
  OBVIOUS
<1>3. /\ t \in Seq(Values) /\ DOMAIN t = 1 .. n + 1
      /\ \A k \in 1 .. n : t[k] = s[k]
      /\ t[n + 1] = x
  BY <1>1, <1>2, AppendProperties, LenProperties
<1>4. Range(t) = Range(s) \cup {x}
  <2>1. \A y \in Range(t) : y \in Range(s) \cup {x}
    <3> SUFFICES ASSUME NEW k \in 1 .. n + 1 PROVE t[k] \in Range(s) \cup {x}
      BY <1>3 DEF Range
    <3>1. k \in 1 .. n \/ k = n + 1
      BY <1>1
    <3> QED
      BY <1>1, <1>3, <3>1 DEF Range
  <2>2. \A k \in 1 .. n : s[k] \in Range(t)
    BY <1>1, <1>3 DEF Range
  <2>3. x \in Range(t)
    BY <1>1, <1>3 DEF Range
  <2> QED
    BY <1>1, <2>1, <2>2, <2>3 DEF Range
<1>5. ASSUME NEW i \in 1 .. n + 1, NEW j \in 1 .. n + 1, i < j PROVE t[i] < t[j]
  <2>1. i \in 1 .. n /\ (j \in 1 .. n \/ j = n + 1)
    BY <1>1, <1>5
  <2>2. s[i] \in Range(s)
    BY <1>1, <2>1 DEF Range
  <2> QED
    BY <1>1, <1>3, <1>5, <2>1, <2>2 DEF Ascending
<1>6. t # <<>>
  BY <1>1, <1>3
<1> QED
  BY <1>2, <1>3, <1>4, <1>5, <1>6 DEF Ascending

LEMMA ConcatAscending ==
  ASSUME NEW s \in Seq(Values), NEW t \in Seq(Values), Ascending(s), Ascending(t),
         \A x \in Range(s), y \in Range(t) : x < y
  PROVE  /\ s \o t \in Seq(Values)
         /\ Ascending(s \o t)
         /\ Range(s \o t) = Range(s) \cup Range(t)
<1>1. PICK m \in Nat : m = Len(s) /\ DOMAIN s = 1 .. m
  BY LenProperties
<1>2. PICK n \in Nat : n = Len(t) /\ DOMAIN t = 1 .. n
  BY LenProperties
<1>3. PICK u : u = s \o t
  OBVIOUS
<1>4. /\ u \in Seq(Values) /\ DOMAIN u = 1 .. m + n
      /\ \A k \in 1 .. m + n : u[k] = IF k <= m THEN s[k] ELSE t[k - m]
  BY <1>1, <1>2, <1>3, ConcatProperties, LenProperties
<1>5. \A k \in 1 .. m : u[k] = s[k]
  BY <1>1, <1>2, <1>4
<1>6. \A k \in 1 .. n : m + k \in 1 .. m + n /\ u[m + k] = t[k]
  <2> SUFFICES ASSUME NEW k \in 1 .. n PROVE m + k \in 1 .. m + n /\ u[m + k] = t[k]
    OBVIOUS
  <2>1. m + k \in 1 .. m + n /\ ~(m + k <= m) /\ (m + k) - m = k
    BY <1>1, <1>2
  <2> QED
    BY <1>4, <2>1
<1>7. \A k \in 1 .. m + n : k \in 1 .. m \/ \E j \in 1 .. n : k = m + j
  <2> SUFFICES ASSUME NEW k \in 1 .. m + n, k \notin 1 .. m PROVE \E j \in 1 .. n : k = m + j
    OBVIOUS
  <2>1. k - m \in 1 .. n /\ k = m + (k - m)
    BY <1>1, <1>2
  <2> QED
    BY <2>1
<1>8. Range(u) = Range(s) \cup Range(t)
  <2>1. \A k \in 1 .. m + n : u[k] \in Range(s) \cup Range(t)
    <3>1. \A k \in 1 .. m : s[k] \in Range(s)
      BY <1>1 DEF Range
    <3>2. \A k \in 1 .. n : t[k] \in Range(t)
      BY <1>2 DEF Range
    <3> QED
      BY <1>5, <1>6, <1>7, <3>1, <3>2
  <2>2. \A k \in 1 .. m : s[k] \in Range(u)
    <3>1. \A k \in 1 .. m : k \in 1 .. m + n
      BY <1>1, <1>2
    <3> QED
      BY <1>4, <1>5, <3>1 DEF Range
  <2>3. \A k \in 1 .. n : t[k] \in Range(u)
    BY <1>4, <1>6 DEF Range
  <2> QED
    BY <1>1, <1>2, <1>4, <2>1, <2>2, <2>3 DEF Range
<1>9. ASSUME NEW i \in 1 .. m + n, NEW j \in 1 .. m + n, i < j PROVE u[i] < u[j]
  <2>1. CASE j \in 1 .. m
    <3>1. i \in 1 .. m
      BY <1>1, <1>9, <2>1
    <3> QED
      BY <1>1, <1>5, <1>9, <2>1, <3>1 DEF Ascending
  <2>2. CASE i \in 1 .. m /\ j \notin 1 .. m
    <3>1. PICK k \in 1 .. n : j = m + k
      BY <1>7, <2>2
    <3>2. s[i] \in Range(s) /\ t[k] \in Range(t)
      BY <1>1, <1>2, <2>2 DEF Range
    <3> QED
      BY <1>5, <1>6, <2>2, <3>1, <3>2
  <2>3. CASE i \notin 1 .. m
    <3>1. PICK k \in 1 .. n : i = m + k
      BY <1>7, <2>3
    <3>2. j \notin 1 .. m
      BY <1>1, <1>9, <2>3
    <3>3. PICK l \in 1 .. n : j = m + l
      BY <1>7, <3>2
    <3>4. k < l
      BY <1>1, <1>2, <1>9, <3>1, <3>3
    <3> QED
      BY <1>2, <1>6, <3>1, <3>3, <3>4 DEF Ascending
  <2> QED
    BY <2>1, <2>2, <2>3
<1> QED
  BY <1>3, <1>4, <1>8, <1>9 DEF Ascending

LEMMA RangeOfNothing == Ascending(<<>>) /\ Range(<<>>) = {} /\ <<>> \in Seq(Values)
  BY DEF Ascending, Range

\* The call moves an item out, into item or to the end of batch.
LEMMA OrderedTakeItem ==
  ASSUME NEW done, NEW kept, NEW all, NEW x \in Nat,
         Ordered(done, kept, NoItem, all), \A y \in all : y < x
  PROVE  Ordered(done, kept, x, all \cup {x})
  BY DEF Ordered, NoItem

LEMMA OrderedTakeBatch ==
  ASSUME NEW done, NEW kept \in Seq(Values), NEW all, NEW x \in Nat,
         Ordered(done, kept, NoItem, all), \A y \in all : y < x
  PROVE  Ordered(done, Append(kept, x), NoItem, all \cup {x})
<1>1. x \in Values /\ Ascending(kept) /\ \A y \in Range(kept) : y < x
  BY DEF Ordered, Values
<1>2. Ascending(Append(kept, x)) /\ Range(Append(kept, x)) = Range(kept) \cup {x}
  BY <1>1, AppendAscending
<1> QED
  BY <1>2 DEF Ordered

\* push_back, after which the single item is moved from.
LEMMA OrderedPushBack ==
  ASSUME NEW done, NEW kept \in Seq(Values), NEW all, NEW x \in Values, x # NoItem,
         Ordered(done, kept, x, all)
  PROVE  Ordered(done, Append(kept, x), NoItem, all)
<1>1. Ascending(kept) /\ \A y \in Range(kept) : y < x
  BY DEF Ordered
<1>2. Ascending(Append(kept, x)) /\ Range(Append(kept, x)) = Range(kept) \cup {x}
  BY <1>1, AppendAscending
<1> QED
  BY <1>2 DEF Ordered

\* The processors are called.
LEMMA OrderedProcessItem ==
  ASSUME NEW done \in Seq(Values), NEW all, NEW x \in Values, x # NoItem,
         Ordered(done, <<>>, x, all)
  PROVE  Ordered(Append(done, x), <<>>, NoItem, all)
<1>1. Ascending(done) /\ \A y \in Range(done) : y < x
  BY DEF Ordered
<1>2. Ascending(Append(done, x)) /\ Range(Append(done, x)) = Range(done) \cup {x}
  BY <1>1, AppendAscending
<1> QED
  BY <1>2, RangeOfNothing DEF Ordered

LEMMA OrderedProcessBatch ==
  ASSUME NEW done \in Seq(Values), NEW kept \in Seq(Values), NEW all,
         Ordered(done, kept, NoItem, all)
  PROVE  Ordered(done \o kept, <<>>, NoItem, all)
<1>1. /\ Ascending(done) /\ Ascending(kept)
      /\ \A x \in Range(done), y \in Range(kept) : x < y
  BY DEF Ordered
<1>2. Ascending(done \o kept) /\ Range(done \o kept) = Range(done) \cup Range(kept)
  BY <1>1, ConcatAscending
<1> QED
  BY <1>2, RangeOfNothing DEF Ordered

-----------------------------------------------------------------------------
(* What a thread took and has not passed on.                                 *)

LEMMA MTypeStep == Capacity >= 2 /\ MTypeOK /\ IInv /\ [MNext]_mvars => MTypeOK'
<1> SUFFICES ASSUME Capacity >= 2, MTypeOK, IInv, [MNext]_mvars PROVE MTypeOK'
  OBVIOUS
<1>1. TypeOK' /\ Published \in Nat /\ data \in [Slots -> Int]
  BY QueueInvStep, PublishedInNat DEF IInv, TypeOK, NoItem
<1>2. ASSUME NEW c \in Consumers, ConsumerLoop(c) PROVE MTypeOK'
  <2>1. /\ lpc' \in [Consumers -> {"top", "try", "tried", "drain", "drained", "exited"}]
        /\ UNCHANGED owner
    BY <1>2
    DEF MTypeOK, ConsumerLoop, LoadRunning, TryTake, ProcessTaken, TryDrain, DrainOne, LeaveLoop,
        InQueue, LoopTo
  <2>2. /\ item' \in [Consumers -> Values] /\ batch' \in [Consumers -> Seq(Values)]
        /\ processed' \in [Consumers -> Seq(Values)]
    <3>0. /\ item \in [Consumers -> Values] /\ batch \in [Consumers -> Seq(Values)]
          /\ processed \in [Consumers -> Seq(Values)] /\ NoItem \in Values
      BY DEF MTypeOK, Values
    <3>1. CASE UNCHANGED locals
      BY <3>0, <3>1 DEF locals
    <3>2. CASE ProcessItem(c)
      BY <3>0, <3>2, AppendProperties DEF ProcessItem
    <3>3. CASE ProcessBatch(c)
      BY <3>0, <3>3, ConcatProperties, RangeOfNothing DEF ProcessBatch
    <3>4. CASE PushBack(c)
      BY <3>0, <3>4, AppendProperties DEF PushBack
    <3>5. CASE InQueue(c) /\ Moving(c)
      <4>1. PICK x : x = data[Index(pos[c])]
        OBVIOUS
      <4>2. x \in Values
        BY <3>5, <4>1 DEF IInv, RingInv, DataInv, Values, TypeOK
      <4>3. Take(c, x) /\ processed' = processed
        BY <3>5, <4>1 DEF InQueue
      <4>4. CASE ccall[c].batch
        <5>1. batch' = [batch EXCEPT ![c] = Append(batch[c], x)] /\ item' = item
          BY <4>3, <4>4 DEF Take
        <5>2. Append(batch[c], x) \in Seq(Values)
          BY <3>0, <4>2, AppendProperties
        <5> QED
          BY <3>0, <4>3, <5>1, <5>2
      <4>5. CASE ~ccall[c].batch
        BY <3>0, <4>2, <4>3, <4>5 DEF Take
      <4> QED
        BY <4>4, <4>5
    <3>6. CASE InQueue(c) /\ ~Moving(c)
      BY <3>0, <3>6 DEF InQueue
    <3>7. ProcessTaken(c) => UNCHANGED locals \/ ProcessItem(c) \/ ProcessBatch(c)
      BY DEF ProcessTaken, IInv, TypeOK
    <3> QED
      BY <1>2, <3>1, <3>2, <3>3, <3>4, <3>5, <3>6, <3>7
      DEF ConsumerLoop, LoadRunning, TryTake, TryDrain, DrainOne, LeaveLoop
  <2> QED
    BY <1>1, <2>1, <2>2 DEF MTypeOK, owner
<1>3. CASE Produce \/ Stop \/ JoinAll \/ UNCHANGED mvars
  BY <1>1, <1>3 DEF MTypeOK, Produce, Stop, JoinAll, mvars, loop, owner
<1> QED
  BY <1>2, <1>3 DEF MNext

\* A consumer inside a call changes nothing of another one.
LEMMA ProceedIsLocal ==
  ASSUME TypeOK, NEW c \in Consumers, Proceed(c)
  PROVE  /\ ccall' = ccall
         /\ \A d \in Consumers \ {c} :
              cpc'[d] = cpc[d] /\ dequeued'[d] = dequeued[d] /\ received'[d] = received[d]
  BY DEF TypeOK, Proceed, LoadCursor, FindItem, FindNewer, ReturnEmpty, EndBatch, Claim,
         LoseClaim, MoveOut, Release, CountDequeued, Goto

\* Inside a call a consumer's hands stay as they were, but for MoveOut.
LEMMA ProceedHands ==
  ASSUME TypeOK, NEW c \in Consumers, Proceed(c),
         cpc[c] = "count" => dequeued[c] > 0,
         ~ccall[c].batch => ccall[c].count = 1,
         ~ccall[c].batch /\ cpc[c] \in {"cursor", "sequence", "cas", "move", "release"} =>
           dequeued[c] = 0
  PROVE  /\ cpc[c] # "idle"
         /\ cpc'[c] = "count" => dequeued'[c] > 0
         /\ ~ccall[c].batch /\ cpc'[c] \in {"cursor", "sequence", "cas", "move", "release"} =>
              dequeued'[c] = 0
         /\ Moving(c) => ~EmptyHanded(c)'
         /\ ~Moving(c) => (EmptyHanded(c)' <=> EmptyHanded(c)) /\ received'[c] = received[c]
         /\ Moving(c) =>
              MoveOut(c) /\ received'[c] = received[c] \cup {data[Index(pos[c])]}
<1>1. /\ dequeued \in [Consumers -> Nat] /\ received \in [Consumers -> SUBSET Nat]
      /\ cpc \in [Consumers -> {"idle", "cursor", "sequence", "cas", "move", "release", "count"}]
      /\ ccall \in [Consumers -> Calls]
  BY DEF TypeOK
<1>2. CASE MoveOut(c)
  <2>1. /\ cpc[c] = "move" /\ cpc'[c] = "release" /\ dequeued' = dequeued
        /\ received'[c] = received[c] \cup {data[Index(pos[c])]}
    BY <1>1, <1>2 DEF MoveOut, Goto
  <2> QED
    BY <1>1, <1>2, <2>1 DEF EmptyHanded, Moving
<1>3. CASE Release(c)
  <2>1. /\ cpc[c] = "release" /\ received' = received
        /\ dequeued' = [dequeued EXCEPT ![c] = @ + 1]
        /\ cpc'[c] = IF dequeued[c] + 1 < ccall[c].count THEN "cursor" ELSE "count"
    BY <1>1, <1>3 DEF Release
  <2>2. dequeued'[c] = dequeued[c] + 1 /\ dequeued[c] \in Nat
    BY <1>1, <2>1
  <2>3. dequeued'[c] > 0 /\ dequeued'[c] # 0 /\ (ccall[c].count = 1 => cpc'[c] = "count")
    BY <2>1, <2>2
  <2> QED
    BY <1>1, <2>1, <2>3 DEF EmptyHanded, Moving
<1>4. CASE ~MoveOut(c) /\ ~Release(c)
  <2>1. received' = received /\ dequeued' = dequeued
    BY <1>4 DEF Proceed, LoadCursor, FindItem, FindNewer, ReturnEmpty, EndBatch, Claim,
                LoseClaim, CountDequeued
  <2>2. /\ cpc[c] \in {"cursor", "sequence", "cas", "count"}
        /\ cpc'[c] \in {"idle", "cursor", "sequence", "cas", "move", "count"}
        /\ cpc'[c] = "count" => dequeued[c] > 0
        /\ cpc[c] = "count" => cpc'[c] = "idle"
    BY <1>1, <1>4
    DEF Proceed, LoadCursor, FindItem, FindNewer, ReturnEmpty, EndBatch, Claim, LoseClaim,
        CountDequeued, Goto
  <2> QED
    BY <2>1, <2>2 DEF EmptyHanded, Moving
<1> QED
  BY <1>2, <1>3, <1>4

LEMMA LoopStep ==
  Capacity >= 2 /\ MTypeOK /\ IInv /\ LoopInv /\ HandsInv /\ [MNext]_mvars
    => LoopInv' /\ HandsInv'
<1> SUFFICES ASSUME Capacity >= 2, MTypeOK, IInv, LoopInv, HandsInv, [MNext]_mvars
             PROVE  LoopInv' /\ HandsInv'
  OBVIOUS
<1>1. /\ TypeOK /\ cpc \in [Consumers -> {"idle", "cursor", "sequence", "cas", "move", "release", "count"}]
      /\ dequeued \in [Consumers -> Nat] /\ received \in [Consumers -> SUBSET Nat]
      /\ lpc \in [Consumers -> {"top", "try", "tried", "drain", "drained", "exited"}]
      /\ ccall \in [Consumers -> Calls]
  BY DEF MTypeOK, TypeOK
<1>2. /\ item \in [Consumers -> Values] /\ batch \in [Consumers -> Seq(Values)]
      /\ processed \in [Consumers -> Seq(Values)]
  BY DEF MTypeOK
<1>3. ASSUME NEW c \in Consumers, LoadRunning(c) PROVE LoopInv' /\ HandsInv'
  <2>1. /\ UNCHANGED <<item, batch, processed, received, cpc, dequeued, ccall, use_batching>>
        /\ \A d \in Consumers \ {c} : lpc'[d] = lpc[d]
        /\ lpc[c] = "top" /\ lpc'[c] \in {"try", "drain"}
    BY <1>1, <1>3 DEF LoadRunning, LoopTo, vars, consumer, locals, owner
  <2>2. HandsInv'
    BY <2>1 DEF HandsInv
  <2> QED
    BY <1>1, <2>1, <2>2 DEF LoopInv, HasItem, MayHaveBatch, EmptyHanded
<1>4. ASSUME NEW c \in Consumers, TryTake(c) \/ TryDrain(c) PROVE LoopInv' /\ HandsInv'
  <2>1. /\ UNCHANGED <<item, batch, processed, received, use_batching>>
        /\ \A d \in Consumers \ {c} :
             /\ cpc'[d] = cpc[d] /\ dequeued'[d] = dequeued[d] /\ ccall'[d] = ccall[d]
             /\ lpc'[d] = lpc[d]
    BY <1>1, <1>4 DEF TryTake, TryDrain, StartDequeue, Goto, LoopTo, locals, owner
  <2>2. cpc'[c] = "cursor" /\ dequeued'[c] = 0 /\ cpc[c] = "idle"
    BY <1>1, <1>4 DEF TryTake, TryDrain, StartDequeue, Goto
  <2>3. /\ ~ccall'[c].batch => ccall'[c].count = 1
        /\ \/ lpc[c] = "try" /\ lpc'[c] = "tried" /\ ccall'[c].batch = use_batching
           \/ lpc[c] = "drain" /\ lpc'[c] = "drained" /\ ~ccall'[c].batch
    BY <1>1, <1>4 DEF TryTake, TryDrain, LoopTo, StartDequeue
  <2>4. HandsInv'
    BY <2>1 DEF HandsInv
  <2> QED
    BY <1>1, <2>1, <2>2, <2>3, <2>4 DEF LoopInv, HasItem, MayHaveBatch, EmptyHanded
<1>5. ASSUME NEW c \in Consumers, ProcessTaken(c) \/ DrainOne(c) \/ LeaveLoop(c)
      PROVE  LoopInv' /\ HandsInv'
  <2>1. /\ UNCHANGED <<cpc, dequeued, received, ccall, use_batching>> /\ cpc[c] = "idle"
        /\ \A d \in Consumers \ {c} : lpc'[d] = lpc[d]
    BY <1>1, <1>5
    DEF ProcessTaken, DrainOne, LeaveLoop, LoopTo, vars, consumer, owner
  <2>2. \/ lpc[c] = "tried" /\ lpc'[c] = "top"
        \/ lpc[c] = "drained" /\ lpc'[c] = "drain"
        \/ lpc[c] = "drained" /\ lpc'[c] = "exited" /\ EmptyHanded(c)
    BY <1>1, <1>5, <2>1 DEF ProcessTaken, DrainOne, LeaveLoop, LoopTo, EmptyHanded
  <2>3. \/ UNCHANGED locals /\ item[c] = NoItem
             /\ (lpc'[c] \in {"top", "exited"} => batch[c] = <<>>)
        \/ ProcessItem(c) /\ item[c] # NoItem /\ batch[c] = <<>>
        \/ ProcessBatch(c) /\ item[c] = NoItem
        \/ PushBack(c) /\ item[c] # NoItem /\ use_batching /\ lpc'[c] = "drain"
    <3>1. CASE ProcessTaken(c)
      <4>1. lpc[c] = "tried" /\ ccall[c].batch = use_batching /\ lpc'[c] = "top"
        BY <1>1, <3>1 DEF ProcessTaken, LoopTo, LoopInv
      <4>2. CASE dequeued[c] = 0
        BY <1>1, <2>1, <3>1, <4>1, <4>2
        DEF ProcessTaken, LoopInv, HasItem, MayHaveBatch, EmptyHanded
      <4>3. CASE dequeued[c] # 0 /\ use_batching
        <5>1. ProcessBatch(c)
          BY <1>1, <3>1, <4>3 DEF ProcessTaken
        <5> QED
          BY <4>1, <4>3, <5>1 DEF LoopInv, HasItem
      <4>4. CASE dequeued[c] # 0 /\ ~use_batching
        <5>1. ProcessItem(c)
          BY <1>1, <3>1, <4>4 DEF ProcessTaken
        <5> QED
          BY <4>1, <4>4, <5>1 DEF LoopInv, HasItem, EmptyHanded, MayHaveBatch
      <4> QED
        BY <4>2, <4>3, <4>4
    <3>2. CASE DrainOne(c)
      <4>1. lpc[c] = "drained" /\ lpc'[c] = "drain" /\ dequeued[c] # 0
        BY <1>1, <3>2 DEF DrainOne, LoopTo
      <4>2. item[c] # NoItem
        BY <4>1 DEF LoopInv, HasItem, EmptyHanded
      <4> QED
        BY <3>2, <4>1, <4>2 DEF DrainOne, LoopInv, MayHaveBatch
    <3>3. CASE LeaveLoop(c)
      <4>1. lpc[c] = "drained" /\ lpc'[c] = "exited" /\ EmptyHanded(c)
        BY <1>1, <3>3 DEF LeaveLoop, LoopTo, EmptyHanded
      <4>2. item[c] = NoItem
        BY <4>1 DEF LoopInv, HasItem
      <4> QED
        BY <3>3, <4>1, <4>2 DEF LeaveLoop, LoopInv, MayHaveBatch
    <3> QED
      BY <1>5, <3>1, <3>2, <3>3
  <2>4. /\ \A d \in Consumers \ {c} :
             processed'[d] = processed[d] /\ batch'[d] = batch[d] /\ item'[d] = item[d]
        /\ item'[c] = NoItem
        /\ batch'[c] # <<>> => use_batching /\ lpc'[c] = "drain"
    <3>1. CASE UNCHANGED locals /\ item[c] = NoItem
                 /\ (lpc'[c] \in {"top", "exited"} => batch[c] = <<>>)
      BY <2>2, <3>1 DEF locals, LoopInv, MayHaveBatch
    <3>2. CASE ProcessItem(c) /\ batch[c] = <<>>
      BY <1>2, <3>2 DEF ProcessItem
    <3>3. CASE ProcessBatch(c) /\ item[c] = NoItem
      BY <1>2, <3>3 DEF ProcessBatch
    <3>4. CASE PushBack(c) /\ use_batching /\ lpc'[c] = "drain"
      BY <1>2, <3>4 DEF PushBack
    <3> QED
      BY <2>3, <3>1, <3>2, <3>3, <3>4
  <2>5. Ordered(processed'[c], batch'[c], item'[c], received[c])
    <3>1. Ordered(processed[c], batch[c], item[c], received[c])
      BY DEF HandsInv
    <3>2. CASE UNCHANGED locals
      BY <3>1, <3>2 DEF locals
    <3>3. CASE ProcessItem(c) /\ item[c] # NoItem /\ batch[c] = <<>>
      <4>1. /\ processed'[c] = Append(processed[c], item[c]) /\ batch'[c] = <<>>
            /\ item'[c] = NoItem
        BY <1>2, <3>3 DEF ProcessItem
      <4>2. Ordered(Append(processed[c], item[c]), <<>>, NoItem, received[c])
        BY <1>2, <3>1, <3>3, OrderedProcessItem
      <4> QED
        BY <4>1, <4>2
    <3>4. CASE ProcessBatch(c) /\ item[c] = NoItem
      <4>1. /\ processed'[c] = processed[c] \o batch[c] /\ batch'[c] = <<>>
            /\ item'[c] = NoItem
        BY <1>2, <3>4 DEF ProcessBatch
      <4>2. Ordered(processed[c] \o batch[c], <<>>, NoItem, received[c])
        BY <1>2, <3>1, <3>4, OrderedProcessBatch
      <4> QED
        BY <4>1, <4>2
    <3>5. CASE PushBack(c) /\ item[c] # NoItem
      <4>1. /\ processed'[c] = processed[c] /\ batch'[c] = Append(batch[c], item[c])
            /\ item'[c] = NoItem
        BY <1>2, <3>5 DEF PushBack
      <4>2. Ordered(processed[c], Append(batch[c], item[c]), NoItem, received[c])
        BY <1>2, <3>1, <3>5, OrderedPushBack
      <4> QED
        BY <4>1, <4>2
    <3> QED
      BY <2>3, <3>2, <3>3, <3>4, <3>5
  <2>6. HandsInv'
    BY <2>1, <2>4, <2>5 DEF HandsInv
  <2> QED
    BY <1>1, <2>1, <2>2, <2>4, <2>6 DEF LoopInv, HasItem, MayHaveBatch, EmptyHanded
<1>6. ASSUME NEW c \in Consumers, InQueue(c) PROVE LoopInv' /\ HandsInv'
  <2>1. Proceed(c) /\ lpc' = lpc /\ processed' = processed /\ use_batching' = use_batching
    BY <1>6 DEF InQueue, owner
  <2>2. /\ lpc[c] \in {"tried", "drained"}
        /\ lpc[c] = "tried" => ccall[c].batch = use_batching
        /\ lpc[c] = "drained" => ~ccall[c].batch
    BY <1>1, <2>1, ProceedHands DEF LoopInv
  <2>3. /\ ccall' = ccall
        /\ \A d \in Consumers \ {c} :
             cpc'[d] = cpc[d] /\ dequeued'[d] = dequeued[d] /\ received'[d] = received[d]
    BY <1>1, <2>1, ProceedIsLocal
  <2>4. /\ cpc'[c] = "count" => dequeued'[c] > 0
        /\ ~ccall[c].batch /\ cpc'[c] \in {"cursor", "sequence", "cas", "move", "release"} =>
             dequeued'[c] = 0
        /\ Moving(c) => ~EmptyHanded(c)'
        /\ ~Moving(c) => (EmptyHanded(c)' <=> EmptyHanded(c)) /\ received'[c] = received[c]
        /\ Moving(c) => received'[c] = received[c] \cup {data[Index(pos[c])]}
    BY <1>1, <2>1, ProceedHands DEF LoopInv
  <2>5. CASE ~Moving(c)
    <3>1. item' = item /\ batch' = batch
      BY <1>6, <2>5 DEF InQueue
    <3>2. received' = received
      BY <1>1, <2>1, <2>5
      DEF Moving, Proceed, LoadCursor, FindItem, FindNewer, ReturnEmpty, EndBatch, Claim,
          LoseClaim, MoveOut, Release, CountDequeued, Goto
    <3>3. HandsInv'
      BY <2>1, <3>1, <3>2 DEF HandsInv
    <3> QED
      BY <1>1, <2>1, <2>2, <2>3, <2>4, <2>5, <3>1, <3>3
      DEF LoopInv, HasItem, MayHaveBatch, EmptyHanded
  <2>6. CASE Moving(c)
    <3>1. PICK x : x = data[Index(pos[c])]
      OBVIOUS
    <3>2. x \in Nat /\ \A r \in received[c] : r < x
      BY <2>6, <3>1 DEF IInv, RingInv, DataInv, ReceivedInv, TypeOK
    <3>3. Take(c, x)
      BY <1>6, <2>6, <3>1 DEF InQueue
    <3>4. item[c] = NoItem
      BY <1>1, <2>6 DEF LoopInv, HasItem, EmptyHanded, Moving
    <3>5. Ordered(processed[c], batch[c], NoItem, received[c])
      BY <3>4 DEF HandsInv
    <3>6. /\ \A d \in Consumers \ {c} : batch'[d] = batch[d] /\ item'[d] = item[d]
          /\ ccall[c].batch => batch'[c] = Append(batch[c], x) /\ item'[c] = NoItem
          /\ ~ccall[c].batch => batch'[c] = batch[c] /\ item'[c] = x
      BY <1>2, <3>3, <3>4 DEF Take
    <3>7. Ordered(processed[c], batch'[c], item'[c], received[c] \cup {x})
      <4>1. CASE ccall[c].batch
        <5>1. Ordered(processed[c], Append(batch[c], x), NoItem, received[c] \cup {x})
          BY <1>2, <3>2, <3>5, OrderedTakeBatch
        <5> QED
          BY <3>6, <4>1, <5>1
      <4>2. CASE ~ccall[c].batch
        <5>1. Ordered(processed[c], batch[c], x, received[c] \cup {x})
          BY <3>2, <3>5, OrderedTakeItem
        <5> QED
          BY <3>6, <4>2, <5>1
      <4> QED
        BY <4>1, <4>2
    <3>8. HandsInv'
      BY <2>1, <2>3, <2>4, <2>6, <3>1, <3>6, <3>7 DEF HandsInv
    <3>9. ~EmptyHanded(c)' /\ x # NoItem
      BY <2>4, <2>6, <3>2 DEF NoItem
    <3>10. /\ item'[c] # NoItem <=> ~ccall[c].batch
           /\ batch'[c] # <<>> => use_batching
      BY <2>2, <3>6, <3>9 DEF LoopInv, MayHaveBatch
    <3> QED
      BY <1>1, <2>1, <2>2, <2>3, <2>4, <3>6, <3>8, <3>9, <3>10
      DEF LoopInv, HasItem, MayHaveBatch, EmptyHanded
  <2> QED
    BY <2>5, <2>6
<1>7. CASE Produce \/ Stop \/ JoinAll \/ UNCHANGED mvars
  <2>1. UNCHANGED <<cpc, dequeued, received, ccall, lpc, item, batch, processed, use_batching>>
    BY <1>7
    DEF Produce, Producer, StartEnqueue, FindSlotFree, FindSlotTaken, WriteSlot, PublishSlot,
        AdvanceProducer, CountEnqueued, Stop, JoinAll, mvars, vars, consumer, loop, owner
  <2> QED
    BY <2>1 DEF LoopInv, HandsInv, HasItem, MayHaveBatch, EmptyHanded
<1> QED
  BY <1>3, <1>4, <1>5, <1>6, <1>7 DEF MNext, ConsumerLoop
-----------------------------------------------------------------------------
(* What is known after stop() was called.                                    *)

\* A call of try_dequeue that ends with nothing found the queue empty.
LEMMA FailedCallFoundEmpty ==
  ASSUME IInv, NEW c \in Consumers, Proceed(c), ~ccall[c].batch,
         cpc[c] = "count" => dequeued[c] > 0,
         cpc'[c] = "idle", dequeued'[c] = 0
  PROVE  consumer_cursor = Published /\ consumer_cursor' = consumer_cursor
<1>1. /\ TypeOK /\ dequeued \in [Consumers -> Nat]
      /\ cpc \in [Consumers -> {"idle", "cursor", "sequence", "cas", "move", "release", "count"}]
  BY DEF IInv, TypeOK
<1>2. ReturnEmpty(c) \/ CountDequeued(c)
  BY <1>1 DEF Proceed, LoadCursor, FindItem, FindNewer, EndBatch, Claim, LoseClaim, MoveOut,
              Release, Goto
<1>3. ~CountDequeued(c)
  BY <1>1 DEF CountDequeued, Goto
<1>4. [Next]_vars
  BY DEF Next, Consumer
<1> QED
  BY <1>2, <1>3, <1>4, EmptyMeansEmpty DEF ReturnEmpty, Goto, shared

LEMMA StopStep ==
  Capacity >= 2 /\ MTypeOK /\ IInv /\ LoopInv /\ StopInv /\ [MNext]_mvars => StopInv'
<1> SUFFICES ASSUME Capacity >= 2, MTypeOK, IInv, LoopInv, StopInv, [MNext]_mvars
             PROVE  StopInv'
  OBVIOUS
<1>1. /\ TypeOK /\ cpc \in [Consumers -> {"idle", "cursor", "sequence", "cas", "move", "release", "count"}]
      /\ dequeued \in [Consumers -> Nat] /\ ccall \in [Consumers -> Calls]
      /\ lpc \in [Consumers -> {"top", "try", "tried", "drain", "drained", "exited"}]
      /\ Published \in Nat /\ consumer_cursor \in Nat /\ atStop \in Nat
  BY PublishedInNat DEF MTypeOK, TypeOK
<1>2. /\ Published' \in Nat /\ Published' >= Published
      /\ consumer_cursor' \in Nat /\ consumer_cursor' >= consumer_cursor
  BY QueueStep, PositionsAdvance
<1>3. ASSUME UNCHANGED owner,
             \A c \in Consumers : lpc'[c] \in {"drain", "drained", "exited"} =>
               lpc[c] \in {"drain", "drained", "exited"} \/ ~running,
             \A c \in Consumers : FoundEmpty(c)' =>
               FoundEmpty(c) \/ (~running /\ consumer_cursor' = Published'),
             \A c \in Consumers : lpc[c] = "exited" => lpc'[c] = "exited"
      PROVE  StopInv'
  <2>1. UNCHANGED <<running, stopper, atStop>>
    BY <1>3 DEF owner
  <2>2. ~running' => atStop' <= Published'
    BY <1>1, <1>2, <2>1 DEF StopInv
  <2>3. \A c \in Consumers : FoundEmpty(c)' => atStop' <= consumer_cursor'
    BY <1>1, <1>2, <1>3, <2>1, <2>2 DEF StopInv
  <2> QED
    BY <1>3, <2>1, <2>2, <2>3 DEF StopInv
<1>4. ASSUME NEW c \in Consumers,
             LoadRunning(c) \/ ProcessTaken(c) \/ DrainOne(c) \/ LeaveLoop(c)
      PROVE  StopInv'
  <2>1. UNCHANGED owner /\ UNCHANGED vars
    BY <1>4 DEF LoadRunning, ProcessTaken, DrainOne, LeaveLoop, owner
  <2>2. \A d \in Consumers \ {c} : lpc'[d] = lpc[d]
    BY <1>1, <1>4 DEF LoadRunning, ProcessTaken, DrainOne, LeaveLoop, LoopTo
  <2>3. \/ lpc[c] = "top" /\ lpc'[c] = "try"
        \/ lpc[c] = "top" /\ lpc'[c] = "drain" /\ ~running
        \/ lpc[c] = "tried" /\ lpc'[c] = "top"
        \/ lpc[c] = "drained" /\ lpc'[c] = "drain"
        \/ lpc[c] = "drained" /\ lpc'[c] = "exited" /\ cpc[c] = "idle" /\ dequeued[c] = 0
    BY <1>1, <1>4 DEF LoadRunning, ProcessTaken, DrainOne, LeaveLoop, LoopTo
  <2>4. UNCHANGED <<cpc, dequeued>>
    BY <2>1 DEF vars, consumer
  <2> QED
    BY <1>3, <2>1, <2>2, <2>3, <2>4 DEF FoundEmpty
<1>5. ASSUME NEW c \in Consumers, TryTake(c) \/ TryDrain(c) PROVE StopInv'
  <2>1. UNCHANGED owner /\ \A d \in Consumers \ {c} :
          lpc'[d] = lpc[d] /\ cpc'[d] = cpc[d] /\ dequeued'[d] = dequeued[d]
    BY <1>1, <1>5 DEF TryTake, TryDrain, LoopTo, StartDequeue, Goto, owner
  <2>2. /\ cpc'[c] = "cursor"
        /\ \/ lpc[c] = "try" /\ lpc'[c] = "tried"
           \/ lpc[c] = "drain" /\ lpc'[c] = "drained"
    BY <1>1, <1>5 DEF TryTake, TryDrain, LoopTo, StartDequeue, Goto
  <2> QED
    BY <1>3, <2>1, <2>2 DEF FoundEmpty
<1>6. ASSUME NEW c \in Consumers, InQueue(c) PROVE StopInv'
  <2>1. Proceed(c) /\ lpc' = lpc /\ UNCHANGED owner
    BY <1>6 DEF InQueue
  <2>2. \A d \in Consumers \ {c} : cpc'[d] = cpc[d] /\ dequeued'[d] = dequeued[d]
    BY <1>1, <2>1, ProceedIsLocal
  <2>3. Published' = Published
    BY <2>1 DEF Proceed, LoadCursor, FindItem, FindNewer, ReturnEmpty, EndBatch, Claim,
                LoseClaim, MoveOut, Release, CountDequeued, Published, shared, producer
  <2>4. ASSUME lpc[c] = "drained", cpc'[c] = "idle", dequeued'[c] = 0
        PROVE  ~running /\ consumer_cursor' = Published'
    BY <2>1, <2>3, <2>4, FailedCallFoundEmpty DEF LoopInv, StopInv
  <2> QED
    BY <1>3, <2>1, <2>2, <2>4 DEF FoundEmpty
<1>7. CASE Produce
  <2>1. UNCHANGED owner /\ UNCHANGED <<lpc, cpc, dequeued>>
    BY <1>7 DEF Produce, Producer, StartEnqueue, FindSlotFree, FindSlotTaken, WriteSlot,
                PublishSlot, AdvanceProducer, CountEnqueued, consumer, loop
  <2> QED
    BY <1>3, <2>1 DEF FoundEmpty
<1>8. CASE Stop
  <2>1. \A c \in Consumers : lpc[c] \notin {"drain", "drained", "exited"}
    BY <1>8 DEF Stop, StopInv
  <2>2. /\ lpc' = lpc /\ Published' = Published /\ atStop' = Published
        /\ running' = FALSE /\ stopper' = "joining"
    BY <1>8 DEF Stop, vars, loop, Published, shared, producer
  <2> QED
    BY <1>1, <2>1, <2>2 DEF StopInv, FoundEmpty
<1>9. CASE JoinAll \/ UNCHANGED mvars
  <2>1. UNCHANGED <<lpc, cpc, dequeued, running, atStop, consumer_cursor>> /\ Published' = Published
    BY <1>9 DEF JoinAll, mvars, vars, loop, owner, Published, shared, producer, consumer
  <2>2. \/ stopper' = stopper
        \/ stopper = "joining" /\ stopper' = "stopped" /\ \A c \in Consumers : lpc[c] = "exited"
    BY <1>9 DEF JoinAll, mvars, owner
  <2> QED
    BY <2>1, <2>2 DEF StopInv, FoundEmpty
<1> QED
  BY <1>4, <1>5, <1>6, <1>7, <1>8, <1>9 DEF MNext, ConsumerLoop

LEMMA MInvariance == Capacity >= 2 /\ MSpec => []MInv
<1> SUFFICES ASSUME Capacity >= 2 PROVE MSpec => []MInv
  OBVIOUS
<1>1. MInit => MInv
  <2> SUFFICES ASSUME MInit PROVE MInv
    OBVIOUS
  <2>1. IInv
    BY InitIInv DEF MInit
  <2>2. MTypeOK /\ LoopInv /\ StopInv
    BY <2>1, RangeOfNothing
    DEF MInit, Init, MTypeOK, IInv, LoopInv, StopInv, HasItem, MayHaveBatch, EmptyHanded,
        FoundEmpty, Values
  <2>3. \A c \in Consumers : received[c] = {} /\ processed[c] = <<>> /\ batch[c] = <<>> /\ item[c] = NoItem
    BY DEF MInit, Init
  <2>4. HandsInv
    BY <2>3, RangeOfNothing DEF HandsInv, Ordered
  <2> QED
    BY <2>1, <2>2, <2>4 DEF MInv
<1>2. MInv /\ [MNext]_mvars => MInv'
  BY MTypeStep, QueueInvStep, LoopStep, StopStep DEF MInv
<1> QED
  BY <1>1, <1>2, PTL DEF MSpec

-----------------------------------------------------------------------------
(* Theorems.                                                                 *)

\* The consumer threads use the queue as its specification allows: what is proved
\* of SPMCQueue holds inside ManagedSPMCSystem.
THEOREM UsesTheQueue == Capacity >= 2 /\ MSpec => Spec
<1> SUFFICES ASSUME Capacity >= 2 PROVE MSpec => Spec
  OBVIOUS
<1>1. MInit => Init
  BY DEF MInit
<1>2. MInv /\ [MNext]_mvars => [Next]_vars
  BY QueueStep DEF MInv
<1> QED
  BY <1>1, <1>2, MInvariance, PTL DEF MSpec, Spec

\* Each thread processes items in order and each one once, no two threads the same, and
\* none that was never published, though item and batch are used again and again and
\* the threads drain the queue together (consumer_loop, lines 277-319).
THEOREM ItemsProcessedOnce == Capacity >= 2 /\ MSpec => []ProcessedOnce
<1>1. MInv => ProcessedOnce
  <2> SUFFICES ASSUME MInv PROVE ProcessedOnce
    OBVIOUS
  <2>1. /\ \A c \in Consumers : Ascending(processed[c]) /\ Range(processed[c]) \subseteq received[c]
        /\ \A c, d \in Consumers : c # d => received[c] \cap received[d] = {}
    BY DEF MInv, HandsInv, Ordered, IInv, RingInv, ReceivedInv
  <2>2. /\ \A c \in Consumers : \A r \in received[c] : r \in Nat /\ r < consumer_cursor
        /\ consumer_cursor \in Nat
    BY DEF MInv, IInv, TypeOK, RingInv, ReceivedInv
  <2>3. \A c \in Consumers : received[c] \subseteq 0 .. consumer_cursor - 1
    BY <2>2
  <2>4. AllProcessed \subseteq 0 .. consumer_cursor - 1
    BY <2>1, <2>3 DEF AllProcessed
  <2> QED
    BY <2>1, <2>4 DEF ProcessedOnce, Ascending
<1> QED
  BY <1>1, MInvariance, PTL

\* When stop() has returned, what was published before it cleared running_ has been
\* processed, and no thread kept an item.  There must be a consumer thread.
THEOREM StopLeavesNothing == Capacity >= 2 /\ Consumers # {} /\ MSpec => []NothingLeftBehind
<1> SUFFICES ASSUME Capacity >= 2, Consumers # {} PROVE MSpec => []NothingLeftBehind
  OBVIOUS
<1>1. MInv => NothingLeftBehind
  <2> SUFFICES ASSUME MInv, stopper = "stopped"
               PROVE  /\ 0 .. atStop - 1 \subseteq AllProcessed
                      /\ \A c \in Consumers : Range(processed[c]) = received[c]
    BY DEF NothingLeftBehind
  <2>0. \A c \in Consumers :
          lpc[c] = "exited" /\ cpc[c] = "idle" /\ item[c] = NoItem /\ batch[c] = <<>>
    BY DEF MInv, StopInv, LoopInv, HasItem, MayHaveBatch
  <2>1. \A c \in Consumers :
          lpc[c] = "exited" /\ cpc[c] = "idle" /\ Range(processed[c]) = received[c]
    BY <2>0, RangeOfNothing DEF MInv, HandsInv, Ordered
  <2>2. atStop <= consumer_cursor /\ atStop \in Nat /\ consumer_cursor \in Nat
    BY <2>1 DEF MInv, StopInv, FoundEmpty, MTypeOK, TypeOK
  <2>3. \A r \in 0 .. consumer_cursor - 1 : \E c \in Consumers : r \in received[c]
    BY <2>1 DEF MInv, IInv, RingInv, ReceivedInv, Moving
  <2>4. ASSUME NEW r \in 0 .. atStop - 1 PROVE r \in AllProcessed
    <3>1. r \in 0 .. consumer_cursor - 1
      BY <2>2
    <3> QED
      BY <2>1, <2>3, <3>1 DEF AllProcessed
  <2> QED
    BY <2>1, <2>4
<1> QED
  BY <1>1, MInvariance, PTL
=============================================================================
