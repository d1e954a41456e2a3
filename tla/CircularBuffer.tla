--------------------------- MODULE CircularBuffer ---------------------------
(***************************************************************************)
(* CircularBuffer<T> of src/circular-buffer.h: put, get and reset run with *)
(* mutex_ locked; empty, full and size read the same fields without it.    *)
(* Every store to a field, and every load of empty(), is a step of its     *)
(* own, so that a reader may see the fields of a half-finished operation.  *)
(* Each put brings a new item, so a lost or doubled item shows.            *)
(***************************************************************************)
EXTENDS Integers, Sequences

CONSTANTS
  Threads,
  NoThread,    \* the holder of a free mutex
  Size,        \* the constructor's argument: the number of slots
  MaxPuts      \* bound: the number of calls of put

ASSUME ConstantsAssumption ==
  NoThread \notin Threads /\ Size \in Nat \ {0} /\ MaxPuts \in Nat

NoItem == 0                  \* T(), also what the slots hold at first
Items  == 1 .. MaxPuts

VARIABLES
  buf,         \* buf_
  head, tail,  \* head_, tail_
  full,        \* full_
  mutex,       \* the thread that has locked mutex_, or NoThread
  pc,          \* where each thread is
  val,         \* the local of put (item), of get (val)
  seen,        \* the local of empty: the head_ it loaded
  answer,      \* history: what the last get of each thread returned
  puts,        \* history: the number of calls of put so far
  wasEmpty     \* history: the buffer was empty at some moment of this empty()

fields == <<buf, head, tail, full>>
others == <<seen, puts>>
vars   == <<fields, mutex, pc, val, seen, answer, puts, wasEmpty>>

Slots == 0 .. Size - 1

Putting   == {"write", "move_tail", "move_head", "set_full"}
Getting   == {"check", "read", "clear_full", "advance"}
Resetting == {"reset_head", "reset_full"}
Watching  == {"see_full", "see_head", "see_tail"}

TypeOK ==
  /\ buf \in [Slots -> Items \cup {NoItem}]
  /\ head \in Slots /\ tail \in Slots /\ full \in BOOLEAN
  /\ mutex \in Threads \cup {NoThread}
  /\ pc \in [Threads -> Putting \cup Getting \cup Resetting \cup Watching
                        \cup {"idle", "put", "get", "reset", "unlock"}]
  /\ val \in [Threads -> Items \cup {NoItem}]
  /\ seen \in [Threads -> Slots]
  /\ answer \in [Threads -> Items \cup {NoItem}]
  /\ puts \in 0 .. MaxPuts
  /\ wasEmpty \in [Threads -> BOOLEAN]

Init ==
  /\ buf = [i \in Slots |-> NoItem]
  /\ head = 0 /\ tail = 0 /\ full = FALSE
  /\ mutex = NoThread
  /\ pc = [t \in Threads |-> "idle"]
  /\ val = [t \in Threads |-> NoItem]
  /\ seen = [t \in Threads |-> 0]
  /\ answer = [t \in Threads |-> NoItem]
  /\ puts = 0
  /\ wasEmpty = [t \in Threads |-> FALSE]

-----------------------------------------------------------------------------
(* The observers, evaluated at one moment, as get does with mutex_ locked.   *)

\* The variant with a mistake takes a full buffer for an empty one.
EmptyByPositions == head = tail
Empty            == ~full /\ head = tail

SizeNow ==
  IF full THEN Size
  ELSE IF head >= tail THEN head - tail
  ELSE Size + head - tail

-----------------------------------------------------------------------------
(* Calls and the lock.                                                       *)

Goto(t, from, to) ==
  /\ pc[t] = from
  /\ pc' = [pc EXCEPT ![t] = to]

Lock(t, from, to) ==
  /\ mutex = NoThread
  /\ mutex' = t
  /\ Goto(t, from, to)
  /\ UNCHANGED <<fields, val, others, answer>>

Unlock(t) ==
  /\ Goto(t, "unlock", "idle")
  /\ mutex' = NoThread
  /\ UNCHANGED <<fields, val, others, answer>>

CallPut(t) ==
  /\ puts < MaxPuts
  /\ Goto(t, "idle", "put")
  /\ puts' = puts + 1
  /\ val' = [val EXCEPT ![t] = puts + 1]
  /\ UNCHANGED <<fields, mutex, seen, answer>>

Call(t, operation) ==
  /\ Goto(t, "idle", operation)
  /\ UNCHANGED <<fields, mutex, val, others, answer>>

-----------------------------------------------------------------------------
(* put                                                                       *)

After(i) == (i + 1) % Size

Write(t) ==
  /\ Goto(t, "write", "move_tail")
  /\ buf' = [buf EXCEPT ![head] = val[t]]
  /\ val' = [val EXCEPT ![t] = NoItem]
  /\ UNCHANGED <<head, tail, full, mutex, others, answer>>

\* A full buffer gives up its oldest item.
MoveTail(t) ==
  /\ Goto(t, "move_tail", "move_head")
  /\ tail' = IF full THEN After(tail) ELSE tail
  /\ UNCHANGED <<buf, head, full, mutex, val, others, answer>>

MoveHead(t) ==
  /\ Goto(t, "move_head", "set_full")
  /\ head' = After(head)
  /\ UNCHANGED <<buf, tail, full, mutex, val, others, answer>>

SetFull(t) ==
  /\ Goto(t, "set_full", "unlock")
  /\ full' = (head = tail)
  /\ UNCHANGED <<buf, head, tail, mutex, val, others, answer>>

Put(t) ==
  Lock(t, "put", "write") \/ Write(t) \/ MoveTail(t) \/ MoveHead(t) \/ SetFull(t)

-----------------------------------------------------------------------------
(* get                                                                       *)

\* An empty buffer answers T().
GetNothing(t) ==
  /\ Empty
  /\ Goto(t, "check", "unlock")
  /\ answer' = [answer EXCEPT ![t] = NoItem]
  /\ UNCHANGED <<fields, mutex, val, others>>

GetSomething(t) ==
  /\ ~Empty
  /\ Goto(t, "check", "read")
  /\ UNCHANGED <<fields, mutex, val, others, answer>>

Read(t) ==
  /\ Goto(t, "read", "clear_full")
  /\ val' = [val EXCEPT ![t] = buf[tail]]
  /\ UNCHANGED <<fields, mutex, others, answer>>

ClearFull(t) ==
  /\ Goto(t, "clear_full", "advance")
  /\ full' = FALSE
  /\ UNCHANGED <<buf, head, tail, mutex, val, others, answer>>

Advance(t) ==
  /\ Goto(t, "advance", "unlock")
  /\ tail' = After(tail)
  /\ answer' = [answer EXCEPT ![t] = val[t]]
  /\ val' = [val EXCEPT ![t] = NoItem]
  /\ UNCHANGED <<buf, head, full, mutex, others>>

Get(t) ==
  \/ Lock(t, "get", "check") \/ GetNothing(t) \/ GetSomething(t)
  \/ Read(t) \/ ClearFull(t) \/ Advance(t)

-----------------------------------------------------------------------------
(* reset; and empty called from outside, which takes no lock.                *)

ResetHead(t) ==
  /\ Goto(t, "reset_head", "reset_full")
  /\ head' = tail
  /\ UNCHANGED <<buf, tail, full, mutex, val, others, answer>>

ResetFull(t) ==
  /\ Goto(t, "reset_full", "unlock")
  /\ full' = FALSE
  /\ UNCHANGED <<buf, head, tail, mutex, val, others, answer>>

Reset(t) == Lock(t, "reset", "reset_head") \/ ResetHead(t) \/ ResetFull(t)

SeeFull(t) ==
  /\ Goto(t, "see_full", IF full THEN "idle" ELSE "see_head")
  /\ UNCHANGED <<fields, mutex, val, others, answer>>

SeeHead(t) ==
  /\ Goto(t, "see_head", "see_tail")
  /\ seen' = [seen EXCEPT ![t] = head]
  /\ UNCHANGED <<fields, mutex, val, puts, answer>>

\* empty() returns whether the head_ it loaded is this tail_.
SeeTail(t) ==
  /\ Goto(t, "see_tail", "idle")
  /\ seen' = [seen EXCEPT ![t] = 0]
  /\ UNCHANGED <<fields, mutex, val, puts, answer>>

WatchEmpty(t) == SeeFull(t) \/ SeeHead(t) \/ SeeTail(t)

-----------------------------------------------------------------------------
(* The items held at a moment, also in the middle of an operation.  put      *)
(* takes effect when it writes its slot, get when it moves tail_, reset when *)
(* both of its stores are no longer seen as items.                           *)

At(places) == \E t \in Threads : pc[t] \in places

\* put has written over the oldest item and not yet moved tail_ past it.
First == IF At({"move_tail"}) /\ full THEN After(tail) ELSE tail

Length ==
  IF full THEN Size
  ELSE IF At({"move_tail", "move_head"}) THEN SizeNow + 1
  ELSE IF At({"set_full", "advance"}) /\ head = tail THEN Size
  ELSE SizeNow

Contents == [k \in 1 .. Length |-> buf[(First + k - 1) % Size]]

-----------------------------------------------------------------------------

Operation(t) ==
  \/ CallPut(t)
  \/ \E operation \in {"get", "reset", "see_full"} : Call(t, operation)
  \/ Put(t) \/ Get(t) \/ Reset(t) \/ WatchEmpty(t) \/ Unlock(t)

\* The buffer may be called empty: it holds nothing but what an unfinished put
\* brings or an unfinished get or reset takes.
MayBeEmpty ==
  \/ Length = 0
  \/ Length = 1 /\ At(Putting \cup Getting \cup {"unlock"})
  \/ At(Resetting)

RecordEmpty ==
  wasEmpty' = [t \in Threads |-> pc'[t] \in Watching /\ (wasEmpty[t] \/ MayBeEmpty')]

Next == (\E t \in Threads : Operation(t)) /\ RecordEmpty

Spec == Init /\ [][Next]_vars

-----------------------------------------------------------------------------

\* Whatever the order of put, get and reset, and with head_ and tail_ wrapping,
\* the buffer is a queue that overwrites its oldest item when it is full: no item
\* is lost otherwise, none comes out twice or out of order, and get answers T()
\* only when the queue holds nothing.
Queue == INSTANCE OverwritingQueue WITH items <- Contents
ImplementsQueue == Queue!Spec

-----------------------------------------------------------------------------
(* What the comments of the code say and the code does not do.               *)

\* Line 67, "if head and tail are equal, we are empty": when empty(), called from
\* outside, returns true, the buffer could be called empty at some moment of the
\* call.
EmptyIsTrue ==
  [][\A t \in Threads :
       pc[t] = "see_tail" /\ pc'[t] = "idle" /\ seen[t] = tail => wasEmpty[t]]_vars
=============================================================================
