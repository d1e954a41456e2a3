-------------------------- MODULE OverwritingQueue --------------------------
(***************************************************************************)
(* What CircularBuffer promises its clients: a first-in first-out queue of *)
(* at most Size items in which a put never fails; when the queue is full   *)
(* it takes the place of the oldest item.  get on an empty queue answers   *)
(* NoItem.                                                                 *)
(***************************************************************************)
EXTENDS Integers, Sequences

CONSTANTS Threads, Size, Items, NoItem

VARIABLES
  items,      \* the items put and neither got nor overwritten, oldest first
  answer      \* what the last get of each thread returned

vars == <<items, answer>>

Init ==
  /\ items = <<>>
  /\ answer = [t \in Threads |-> NoItem]

Put(x) ==
  /\ items' = Append(IF Len(items) = Size THEN Tail(items) ELSE items, x)
  /\ UNCHANGED answer

Get(t) ==
  /\ items # <<>>
  /\ answer' = [answer EXCEPT ![t] = Head(items)]
  /\ items' = Tail(items)

GetNothing(t) ==
  /\ items = <<>>
  /\ answer' = [answer EXCEPT ![t] = NoItem]
  /\ UNCHANGED items

Reset ==
  /\ items' = <<>>
  /\ UNCHANGED answer

Next ==
  \/ \E x \in Items : Put(x)
  \/ \E t \in Threads : Get(t) \/ GetNothing(t)
  \/ Reset

Spec == Init /\ [][Next]_vars
=============================================================================
