----------------------------- MODULE FifoQueue -----------------------------
(***************************************************************************)
(* What SPMCQueue promises its clients: a bounded first-in first-out queue *)
(* with one producer.  An item is handed to exactly one consumer, items    *)
(* are handed out in the order they were put, and none is lost.  Handing   *)
(* out (Take) and receiving (Receive) are two steps: a consumer that took  *)
(* an item may be slower than one that took a later item.                  *)
(***************************************************************************)
EXTENDS Integers, Sequences

CONSTANTS Consumers, Capacity, MaxItems, NoItem

VARIABLES
  next,     \* the number of the item the producer puts next
  fifo,     \* the items put and not taken, oldest first
  hand,     \* the item each consumer has taken and not received, or NoItem
  taken     \* the items each consumer has received

vars == <<next, fifo, hand, taken>>

Init ==
  /\ next = 0
  /\ fifo = <<>>
  /\ hand = [c \in Consumers |-> NoItem]
  /\ taken = [c \in Consumers |-> {}]

Put ==
  /\ next < MaxItems
  /\ Len(fifo) < Capacity
  /\ fifo' = Append(fifo, next)
  /\ next' = next + 1
  /\ UNCHANGED <<hand, taken>>

Take(c) ==
  /\ hand[c] = NoItem
  /\ fifo # <<>>
  /\ hand' = [hand EXCEPT ![c] = Head(fifo)]
  /\ fifo' = Tail(fifo)
  /\ UNCHANGED <<next, taken>>

Receive(c) ==
  /\ hand[c] # NoItem
  /\ taken' = [taken EXCEPT ![c] = @ \cup {hand[c]}]
  /\ hand' = [hand EXCEPT ![c] = NoItem]
  /\ UNCHANGED <<next, fifo>>

Next == Put \/ \E c \in Consumers : Take(c) \/ Receive(c)

Spec == Init /\ [][Next]_vars
=============================================================================
