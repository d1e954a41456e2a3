------------------------ MODULE CircularBufferProofs ------------------------
(***************************************************************************)
(* CircularBuffer implements OverwritingQueue, for any number of threads,  *)
(* slots and items.                                                        *)
(*                                                                         *)
(* The items are a line of slots from First on, and each store of an       *)
(* operation either leaves this line as it is, or grows it, turns it by    *)
(* one slot, drops its front or drops all of it.  That needs to know where *)
(* the thread that has locked mutex_ is (Phase), and what holds between    *)
(* head_, tail_ and full_ there (FieldsInv).                               *)
(***************************************************************************)
EXTENDS CircularBuffer, SequenceTheorems, TLAPS

Inside == Putting \cup Getting \cup Resetting \cup {"unlock"}

\* Where the thread that has locked mutex_ is.
Phase(place, m) == IF m = NoThread THEN "idle" ELSE place[m]

MutexInv == \A t \in Threads : pc[t] \in Inside <=> mutex = t

FieldsInv ==
  LET phase == Phase(pc, mutex)
  IN
  /\ full => IF phase = "move_head" THEN After(head) = tail ELSE head = tail
  /\ phase \in {"read", "clear_full"} => full \/ head # tail
  /\ phase = "advance" => ~full
  /\ phase = "reset_full" => head = tail
  /\ phase \in {"clear_full", "advance"} => val[mutex] = buf[tail]
  /\ \A t \in Threads : pc[t] \in {"put", "write"} => val[t] \in Items

IInv == TypeOK /\ MutexInv /\ FieldsInv

-----------------------------------------------------------------------------
(* Slots.                                                                    *)

LEMMA Wrap ==
  ASSUME NEW x \in Nat, x < 2 * Size
  PROVE x % Size = IF x < Size THEN x ELSE x - Size
<1> USE ConstantsAssumption
<1>1. CASE x < Size
  BY <1>1
<1>2. CASE ~ (x < Size)
  <2> DEFINE y == x - Size
  <2>1. y \in Nat /\ y < Size /\ x = y + Size
    BY <1>2
  <2>2. (y + Size) % Size = y
    BY <2>1
  <2> QED
    BY <1>2, <2>1, <2>2
<1> QED
  BY <1>1, <1>2

\* The k-th slot of a line that begins at first.
Slot(first, k) == IF first + k - 1 < Size THEN first + k - 1 ELSE first + k - 1 - Size

LEMMA SlotIs ==
  ASSUME NEW first \in Slots, NEW k \in 1 .. Size
  PROVE (first + k - 1) % Size = Slot(first, k) /\ Slot(first, k) \in Slots
<1> DEFINE x == first + k - 1
<1>1. x \in Nat /\ x < 2 * Size
  BY ConstantsAssumption DEF Slots
<1> HIDE DEF x
<1>2. x % Size = IF x < Size THEN x ELSE x - Size
  BY <1>1, Wrap
<1> QED
  BY <1>1, <1>2, ConstantsAssumption DEF Slot, Slots, x

LEMMA AfterIs ==
  ASSUME NEW i \in Slots
  PROVE After(i) = (IF i + 1 < Size THEN i + 1 ELSE 0) /\ After(i) \in Slots
<1> DEFINE x == i + 1
<1>1. x \in Nat /\ x < 2 * Size /\ x <= Size
  BY ConstantsAssumption DEF Slots
<1> HIDE DEF x
<1>2. x % Size = IF x < Size THEN x ELSE x - Size
  BY <1>1, Wrap
<1> QED
  BY <1>1, <1>2, ConstantsAssumption DEF After, Slots, x

-----------------------------------------------------------------------------
(* Lines of slots.                                                           *)

Line(b, first, n) == [k \in 1 .. n |-> b[Slot(first, k)]]
Buffers == [Slots -> Items \cup {NoItem}]

LEMMA LineIsSeq ==
  ASSUME NEW b \in Buffers, NEW first \in Slots, NEW n \in 0 .. Size
  PROVE /\ Line(b, first, n) \in Seq(Items \cup {NoItem})
        /\ Len(Line(b, first, n)) = n
        /\ \A k \in 1 .. n : Line(b, first, n)[k] = b[Slot(first, k)]
<1>1. n \in Nat /\ 1 .. n \subseteq 1 .. Size
  BY ConstantsAssumption
<1>2. \A k \in 1 .. n : b[Slot(first, k)] \in Items \cup {NoItem}
  BY <1>1, SlotIs DEF Buffers
<1>3. Line(b, first, n) \in [1 .. n -> Items \cup {NoItem}]
  BY <1>2 DEF Line
<1>4. Line(b, first, n) \in Seq(Items \cup {NoItem})
  BY <1>1, <1>3
<1>5. DOMAIN Line(b, first, n) = 1 .. n
  BY DEF Line
<1> QED
  BY <1>1, <1>4, <1>5, LenProperties DEF Line

\* Writing the slot behind a line makes it longer.
LEMMA LineGrows ==
  ASSUME NEW b \in Buffers, NEW first \in Slots, NEW n \in 0 .. Size - 1,
         NEW x \in Items \cup {NoItem}
  PROVE Line([b EXCEPT ![Slot(first, n + 1)] = x], first, n + 1) = Append(Line(b, first, n), x)
<1> DEFINE i == Slot(first, n + 1)
           c == [b EXCEPT ![i] = x]
           l == Line(b, first, n)
           r == Line(c, first, n + 1)
           s == Append(l, x)
<1>0. n \in Nat /\ n + 1 \in 1 .. Size /\ n + 1 \in 0 .. Size /\ n \in 0 .. Size
  BY ConstantsAssumption
<1>1. i \in Slots /\ c \in Buffers
  BY <1>0, SlotIs DEF Buffers
<1>2. c[i] = x /\ \A j \in Slots : j # i => c[j] = b[j]
  BY <1>1 DEF Buffers
<1>3. \A k \in 1 .. n : Slot(first, k) # i /\ Slot(first, k) \in Slots
  <2> SUFFICES ASSUME NEW k \in 1 .. n PROVE Slot(first, k) # i /\ Slot(first, k) \in Slots
    OBVIOUS
  <2>1. k \in 1 .. Size /\ k # n + 1
    BY <1>0, ConstantsAssumption
  <2>2. Slot(first, k) \in Slots
    BY <2>1, SlotIs
  <2> QED
    BY <1>0, <2>1, <2>2, ConstantsAssumption DEF Slot, Slots
<1>4. /\ l \in Seq(Items \cup {NoItem}) /\ Len(l) = n
      /\ \A k \in 1 .. n : l[k] = b[Slot(first, k)]
  BY <1>0, LineIsSeq
<1>5. /\ r \in Seq(Items \cup {NoItem}) /\ Len(r) = n + 1
      /\ \A k \in 1 .. n + 1 : r[k] = c[Slot(first, k)]
  BY <1>0, <1>1, LineIsSeq
<1> HIDE DEF c, l, r
<1>6. /\ s \in Seq(Items \cup {NoItem}) /\ Len(s) = n + 1 /\ s[n + 1] = x
      /\ \A k \in 1 .. n : s[k] = l[k]
  BY <1>4, AppendProperties
<1>7. \A k \in 1 .. n + 1 : r[k] = s[k]
  <2>1. \A k \in 1 .. n + 1 : k \in 1 .. n \/ k = n + 1
    BY <1>0
  <2>2. r[n + 1] = s[n + 1]
    BY <1>0, <1>2, <1>5, <1>6
  <2>3. \A k \in 1 .. n : r[k] = s[k]
    <3>1. \A k \in 1 .. n : k \in 1 .. n + 1
      BY <1>0
    <3> QED
      BY <1>2, <1>3, <1>4, <1>5, <1>6, <3>1
  <2> QED
    BY <2>1, <2>2, <2>3
<1> HIDE DEF s
<1>8. r = s
  BY <1>0, <1>5, <1>6, <1>7, SeqEqual
<1> QED
  BY <1>8 DEF r, s, l, c

\* Starting one slot later drops the front of a line.
LEMMA LineDrops ==
  ASSUME NEW b \in Buffers, NEW first \in Slots, NEW n \in 1 .. Size
  PROVE /\ Line(b, first, n) # <<>>
        /\ Head(Line(b, first, n)) = b[first]
        /\ Line(b, After(first), n - 1) = Tail(Line(b, first, n))
<1> DEFINE l == Line(b, first, n)
           r == Line(b, After(first), n - 1)
<1>0. n \in Nat /\ n - 1 \in 0 .. Size /\ n \in 0 .. Size /\ Size \in Nat
  BY ConstantsAssumption
<1>1. After(first) = (IF first + 1 < Size THEN first + 1 ELSE 0) /\ After(first) \in Slots
  BY AfterIs
<1>2. /\ l \in Seq(Items \cup {NoItem}) /\ Len(l) = n
      /\ \A k \in 1 .. n : l[k] = b[Slot(first, k)]
  BY <1>0, LineIsSeq
<1>3. /\ r \in Seq(Items \cup {NoItem}) /\ Len(r) = n - 1
      /\ \A k \in 1 .. n - 1 : r[k] = b[Slot(After(first), k)]
  BY <1>0, <1>1, LineIsSeq
<1> HIDE DEF l, r
<1>4. l # <<>>
  BY <1>2, EmptySeq
<1>5. /\ Tail(l) \in Seq(Items \cup {NoItem}) /\ Len(Tail(l)) = n - 1 /\ Head(l) = l[1]
      /\ \A k \in 1 .. n - 1 : Tail(l)[k] = l[k + 1]
  BY <1>2, <1>4, HeadTailProperties
<1>6. Slot(first, 1) = first
  BY <1>0 DEF Slot, Slots
<1>7. \A k \in 1 .. n - 1 : k + 1 \in 1 .. n /\ Slot(After(first), k) = Slot(first, k + 1)
  <2> SUFFICES ASSUME NEW k \in 1 .. n - 1
               PROVE k + 1 \in 1 .. n /\ Slot(After(first), k) = Slot(first, k + 1)
    OBVIOUS
  <2> QED
    BY <1>0, <1>1 DEF Slot, Slots
<1>8. \A k \in 1 .. n - 1 : r[k] = Tail(l)[k]
  BY <1>2, <1>3, <1>5, <1>7
<1>9. r = Tail(l)
  BY <1>0, <1>3, <1>5, <1>8, SeqEqual
<1> QED
  BY <1>0, <1>2, <1>4, <1>5, <1>6, <1>9 DEF l, r

\* Writing over the front of a line of all slots makes it the back.
LEMMA LineTurns ==
  ASSUME NEW b \in Buffers, NEW first \in Slots, NEW x \in Items \cup {NoItem}
  PROVE Line([b EXCEPT ![first] = x], After(first), Size) = Append(Tail(Line(b, first, Size)), x)
<1>0. Size \in 1 .. Size /\ Size - 1 \in 0 .. Size - 1 /\ (Size - 1) + 1 = Size
  BY ConstantsAssumption
<1>1. After(first) \in Slots /\ Slot(After(first), Size) = first
  BY AfterIs, ConstantsAssumption DEF Slot, Slots
<1>2. Line(b, After(first), Size - 1) = Tail(Line(b, first, Size))
  BY <1>0, LineDrops
<1>3. Line([b EXCEPT ![Slot(After(first), (Size - 1) + 1)] = x], After(first), (Size - 1) + 1)
        = Append(Line(b, After(first), Size - 1), x)
  BY <1>0, <1>1, LineGrows
<1> QED
  BY <1>0, <1>1, <1>2, <1>3

-----------------------------------------------------------------------------
(* The invariant.                                                            *)

LEMMA InitIInv == Init => IInv
<1> SUFFICES ASSUME Init PROVE IInv
  OBVIOUS
<1> USE ConstantsAssumption DEF Init
<1>1. TypeOK
  <2>1. 0 \in Slots /\ 0 \in 0 .. MaxPuts
    BY DEF Slots
  <2> QED
    BY <2>1 DEF TypeOK
<1>2. MutexInv
  BY DEF MutexInv, Inside, Putting, Getting, Resetting
<1>3. FieldsInv
  BY DEF FieldsInv, Phase
<1> QED
  BY <1>1, <1>2, <1>3 DEF IInv

LEMMA TypeStep == TypeOK /\ FieldsInv /\ [Next]_vars => TypeOK'
<1> SUFFICES ASSUME TypeOK, FieldsInv, [Next]_vars PROVE TypeOK'
  OBVIOUS
<1>1. CASE UNCHANGED vars
  BY <1>1 DEF TypeOK, vars, fields, others
<1>2. CASE Next
  <2>1. PICK t \in Threads : Operation(t)
    BY <1>2 DEF Next
  <2>2. wasEmpty' \in [Threads -> BOOLEAN]
    BY <1>2, Zenon DEF Next, RecordEmpty
  <2> USE DEF Goto, fields, others, Putting, Getting, Resetting, Watching
  <2>3. CASE CallPut(t)
    <3>1. puts + 1 \in 0 .. MaxPuts /\ puts + 1 \in Items
      BY <2>3, ConstantsAssumption DEF CallPut, TypeOK, Items
    <3> QED
      BY <2>2, <2>3, <3>1 DEF CallPut, TypeOK
  <2>4. ASSUME NEW operation \in {"get", "reset", "see_full"}, Call(t, operation) PROVE TypeOK'
    BY <2>2, <2>4 DEF Call, TypeOK
  <2>5. ASSUME NEW from, NEW to \in {"write", "check", "reset_head"}, Lock(t, from, to) PROVE TypeOK'
    BY <2>2, <2>5 DEF Lock, TypeOK
  <2>6. CASE Unlock(t)
    BY <2>2, <2>6 DEF Unlock, TypeOK
  <2>7. After(head) \in Slots /\ After(tail) \in Slots
    BY AfterIs DEF TypeOK
  <2>8. CASE Write(t)
    BY <2>2, <2>8 DEF Write, TypeOK
  <2>9. CASE MoveTail(t) \/ MoveHead(t) \/ SetFull(t)
    BY <2>2, <2>7, <2>9 DEF MoveTail, MoveHead, SetFull, TypeOK
  <2>10. CASE GetNothing(t) \/ GetSomething(t) \/ Read(t) \/ ClearFull(t)
    BY <2>2, <2>10 DEF GetNothing, GetSomething, Read, ClearFull, TypeOK
  <2>11. CASE Advance(t)
    BY <2>2, <2>7, <2>11 DEF Advance, TypeOK
  <2>12. CASE ResetHead(t) \/ ResetFull(t)
    BY <2>2, <2>12 DEF ResetHead, ResetFull, TypeOK
  <2>13. CASE SeeFull(t)
    BY <2>2, <2>13 DEF SeeFull, TypeOK
  <2>14. CASE SeeHead(t) \/ SeeTail(t)
    <3>1. 0 \in Slots
      BY ConstantsAssumption DEF Slots
    <3> QED
      BY <2>2, <2>14, <3>1 DEF SeeHead, SeeTail, TypeOK
  <2> QED
    BY <2>1, <2>3, <2>4, <2>5, <2>6, <2>8, <2>9, <2>10, <2>11, <2>12, <2>13, <2>14
    DEF Operation, Put, Get, Reset, WatchEmpty
<1> QED
  BY <1>1, <1>2

\* A step of the thread that has locked mutex_, to another place inside.
LEMMA StepInside ==
  ASSUME IInv, NEW t \in Threads, NEW from \in Inside, NEW to \in Inside,
         Goto(t, from, to), UNCHANGED mutex
  PROVE /\ Phase(pc, mutex) = from /\ Phase(pc', mutex') = to /\ mutex = t
        /\ MutexInv'
<1>1. pc'[t] = to /\ pc[t] = from /\ \A u \in Threads \ {t} : pc'[u] = pc[u]
  BY DEF IInv, TypeOK, Goto
<1>2. mutex = t /\ t # NoThread
  BY <1>1, ConstantsAssumption DEF IInv, MutexInv
<1> QED
  BY <1>1, <1>2 DEF IInv, MutexInv, Phase

\* A step of a thread that has not locked it, and does not lock it.
LEMMA StepOutside ==
  ASSUME IInv, NEW t \in Threads, NEW from, from \notin Inside, NEW to, to \notin Inside,
         Goto(t, from, to), UNCHANGED mutex
  PROVE Phase(pc', mutex') = Phase(pc, mutex) /\ MutexInv'
<1>1. pc'[t] = to /\ pc[t] = from /\ \A u \in Threads \ {t} : pc'[u] = pc[u]
  BY DEF IInv, TypeOK, Goto
<1>2. mutex # t
  BY <1>1 DEF IInv, MutexInv
<1>3. mutex \in Threads \cup {NoThread}
  BY DEF IInv, TypeOK
<1> QED
  BY <1>1, <1>2, <1>3 DEF IInv, MutexInv, Phase

LEMMA LockStep ==
  ASSUME IInv, NEW t \in Threads, NEW from, from \notin Inside, NEW to \in Inside, Lock(t, from, to)
  PROVE Phase(pc, mutex) = "idle" /\ Phase(pc', mutex') = to /\ MutexInv'
<1>1. /\ pc'[t] = to /\ pc[t] = from /\ \A u \in Threads \ {t} : pc'[u] = pc[u]
      /\ mutex = NoThread /\ mutex' = t /\ t # NoThread
  BY ConstantsAssumption DEF IInv, TypeOK, Lock, Goto
<1> QED
  BY <1>1, ConstantsAssumption DEF IInv, MutexInv, Phase

LEMMA UnlockStep ==
  ASSUME IInv, NEW t \in Threads, Unlock(t)
  PROVE Phase(pc, mutex) = "unlock" /\ Phase(pc', mutex') = "idle" /\ MutexInv'
<1>1. /\ pc'[t] = "idle" /\ pc[t] = "unlock" /\ \A u \in Threads \ {t} : pc'[u] = pc[u]
      /\ mutex' = NoThread /\ t # NoThread
  BY ConstantsAssumption DEF IInv, TypeOK, Unlock, Goto
<1>2. "unlock" \in Inside /\ "idle" \notin Inside
  BY DEF Inside, Putting, Getting, Resetting
<1> QED
  BY <1>1, <1>2, ConstantsAssumption DEF IInv, MutexInv, Phase

LEMMA FieldsStep == IInv /\ TypeOK' /\ [Next]_vars => MutexInv' /\ FieldsInv'
<1> SUFFICES ASSUME IInv, TypeOK', [Next]_vars PROVE MutexInv' /\ FieldsInv'
  OBVIOUS
<1>0. TypeOK /\ MutexInv /\ FieldsInv
  BY DEF IInv
<1>f. LET phase == Phase(pc, mutex)
      IN
      /\ full => IF phase = "move_head" THEN After(head) = tail ELSE head = tail
      /\ phase \in {"read", "clear_full"} => full \/ head # tail
      /\ phase = "advance" => ~full
      /\ phase = "reset_full" => head = tail
      /\ phase \in {"clear_full", "advance"} => val[mutex] = buf[tail]
      /\ \A t \in Threads : pc[t] \in {"put", "write"} => val[t] \in Items
  BY <1>0 DEF FieldsInv
<1>1. CASE UNCHANGED vars
  BY <1>0, <1>1 DEF MutexInv, FieldsInv, vars, fields, others
<1>2. ASSUME NEW t \in Threads, Operation(t) PROVE MutexInv' /\ FieldsInv'
  <2>i. /\ Putting \cup Getting \cup Resetting \cup {"unlock"} = Inside
        /\ \A x \in {"idle", "put", "get", "reset"} \cup Watching : x \notin Inside
    BY DEF Inside, Putting, Getting, Resetting, Watching
  <2> USE DEF fields, others
  <2>1. CASE CallPut(t)
    <3>1. Phase(pc', mutex') = Phase(pc, mutex) /\ MutexInv'
      BY <2>1, <2>i, StepOutside DEF CallPut
    <3>2. /\ UNCHANGED <<buf, head, tail, full, mutex>>
          /\ val' = [val EXCEPT ![t] = puts + 1] /\ puts + 1 \in Items
          /\ pc' = [pc EXCEPT ![t] = "put"] /\ pc[t] = "idle"
      BY <1>0, <2>1, ConstantsAssumption DEF CallPut, Goto, Items, TypeOK
    <3>3. mutex # t
      BY <1>0, <2>i, <3>2 DEF MutexInv
    <3>4. mutex # NoThread => val'[mutex] = val[mutex]
      BY <1>0, <3>2, <3>3 DEF TypeOK
    <3>5. Phase(pc, mutex) \in {"clear_full", "advance"} => mutex # NoThread
      BY DEF Phase
    <3>6. \A u \in Threads : pc'[u] \in {"put", "write"} => val'[u] \in Items
      BY <1>0, <1>f, <3>2 DEF TypeOK
    <3> QED
      BY <1>f, <3>1, <3>2, <3>4, <3>5, <3>6 DEF FieldsInv
  <2>2. ASSUME NEW from \in {"idle"} \cup Watching, NEW to \in {"idle", "get", "reset"} \cup Watching,
               Goto(t, from, to), UNCHANGED <<fields, mutex, val>>
        PROVE MutexInv' /\ FieldsInv'
    <3>1. Phase(pc', mutex') = Phase(pc, mutex) /\ MutexInv'
      BY <2>2, <2>i, StepOutside
    <3>2. \A u \in Threads : pc'[u] \in {"put", "write"} => val'[u] \in Items
      BY <1>0, <1>f, <2>2 DEF TypeOK, Goto, Watching
    <3> QED
      BY <1>f, <2>2, <3>1, <3>2 DEF FieldsInv
  <2>3. ASSUME NEW from \in {"put", "get", "reset"}, NEW to \in {"write", "check", "reset_head"},
               Lock(t, from, to), to = "write" => from = "put"
        PROVE MutexInv' /\ FieldsInv'
    <3>1. Phase(pc, mutex) = "idle" /\ Phase(pc', mutex') = to /\ MutexInv'
      BY <2>3, <2>i, LockStep DEF Putting, Getting, Resetting
    <3>2. UNCHANGED <<buf, head, tail, full, val>>
      BY <2>3 DEF Lock
    <3>3. \A u \in Threads : pc'[u] \in {"put", "write"} => val'[u] \in Items
      BY <1>0, <1>f, <2>3, <3>2 DEF TypeOK, Goto, Lock
    <3> QED
      BY <1>f, <3>1, <3>2, <3>3 DEF FieldsInv
  <2>4. CASE Unlock(t)
    <3>1. Phase(pc, mutex) = "unlock" /\ Phase(pc', mutex') = "idle" /\ MutexInv'
      BY <2>4, UnlockStep
    <3>2. UNCHANGED <<buf, head, tail, full, val>>
      BY <2>4 DEF Unlock
    <3>3. \A u \in Threads : pc'[u] \in {"put", "write"} => val'[u] \in Items
      BY <1>0, <1>f, <2>4, <3>2 DEF TypeOK, Goto, Unlock
    <3> QED
      BY <1>f, <3>1, <3>2, <3>3 DEF FieldsInv
  <2>5. ASSUME NEW from \in Inside, NEW to \in Inside \ {"write"}, Goto(t, from, to), UNCHANGED mutex,
               \A u \in Threads \ {t} : val'[u] = val[u]
        PROVE /\ Phase(pc, mutex) = from /\ Phase(pc', mutex') = to /\ mutex = t /\ MutexInv'
              /\ \A u \in Threads : pc'[u] \in {"put", "write"} => val'[u] \in Items
    <3>1. Phase(pc, mutex) = from /\ Phase(pc', mutex') = to /\ mutex = t /\ MutexInv'
      BY <2>5, StepInside
    <3>2. /\ pc'[t] = to /\ to \notin {"put", "write"}
          /\ \A u \in Threads \ {t} : pc'[u] = pc[u]
      BY <1>0, <2>5, <2>i DEF TypeOK, Goto
    <3> QED
      BY <1>f, <2>5, <3>1, <3>2
  <2>6. CASE Write(t)
    <3>1. /\ Goto(t, "write", "move_tail") /\ UNCHANGED <<head, tail, full, mutex>>
          /\ \A u \in Threads \ {t} : val'[u] = val[u]
      BY <1>0, <2>6 DEF Write, TypeOK
    <3>2. "write" \in Inside /\ "move_tail" \in Inside \ {"write"}
      BY DEF Inside, Putting
    <3>3. /\ Phase(pc, mutex) = "write" /\ Phase(pc', mutex') = "move_tail" /\ MutexInv'
          /\ \A u \in Threads : pc'[u] \in {"put", "write"} => val'[u] \in Items
      BY <2>5, <3>1, <3>2
    <3> QED
      BY <1>f, <3>1, <3>3 DEF FieldsInv
  <2>7. ASSUME NEW from \in Inside, NEW to \in Inside \ {"write"}, Goto(t, from, to),
               UNCHANGED <<buf, mutex, val>>
        PROVE /\ Phase(pc, mutex) = from /\ Phase(pc', mutex') = to /\ mutex = t /\ MutexInv'
              /\ \A u \in Threads : pc'[u] \in {"put", "write"} => val'[u] \in Items
    BY <2>5, <2>7
  <2>8. CASE MoveTail(t)
    <3>1. Goto(t, "move_tail", "move_head") /\ UNCHANGED <<buf, head, full, mutex, val>>
      BY <2>8 DEF MoveTail
    <3>2. "move_tail" \in Inside /\ "move_head" \in Inside \ {"write"}
      BY DEF Inside, Putting
    <3>3. Phase(pc, mutex) = "move_tail" /\ Phase(pc', mutex') = "move_head"
      BY <2>7, <3>1, <3>2
    <3>4. full' => After(head') = tail'
      BY <1>f, <2>8, <3>3 DEF MoveTail
    <3> QED
      BY <2>7, <3>1, <3>2, <3>3, <3>4 DEF FieldsInv
  <2>9. CASE MoveHead(t)
    <3>1. Goto(t, "move_head", "set_full") /\ UNCHANGED <<buf, tail, full, mutex, val>>
      BY <2>9 DEF MoveHead
    <3>2. "move_head" \in Inside /\ "set_full" \in Inside \ {"write"}
      BY DEF Inside, Putting
    <3>3. Phase(pc, mutex) = "move_head" /\ Phase(pc', mutex') = "set_full"
      BY <2>7, <3>1, <3>2
    <3>4. full' => head' = tail'
      BY <1>f, <2>9, <3>3 DEF MoveHead
    <3> QED
      BY <2>7, <3>1, <3>2, <3>3, <3>4 DEF FieldsInv
  <2>10. CASE SetFull(t)
    <3>1. /\ Goto(t, "set_full", "unlock") /\ UNCHANGED <<buf, head, tail, mutex, val>>
          /\ full' <=> head = tail
      BY <2>10 DEF SetFull
    <3>2. "set_full" \in Inside /\ "unlock" \in Inside \ {"write"}
      BY DEF Inside, Putting
    <3> QED
      BY <2>7, <3>1, <3>2 DEF FieldsInv
  <2>11. CASE GetNothing(t) \/ GetSomething(t)
    <3>1. PICK to \in {"unlock", "read"} : Goto(t, "check", to) /\ (to = "read" => ~Empty)
      BY <2>11 DEF GetNothing, GetSomething
    <3>2. "check" \in Inside /\ to \in Inside \ {"write"}
      BY DEF Inside, Getting
    <3>3. UNCHANGED <<buf, head, tail, full, mutex, val>>
      BY <2>11 DEF GetNothing, GetSomething
    <3>4. Phase(pc, mutex) = "check" /\ Phase(pc', mutex') = to
      BY <2>7, <3>1, <3>2, <3>3
    <3>5. to = "read" => full \/ head # tail
      BY <3>1 DEF Empty
    <3>6. full => head = tail
      BY <1>f, <3>4
    <3> QED
      BY <2>7, <3>1, <3>2, <3>3, <3>4, <3>5, <3>6 DEF FieldsInv
  <2>12. CASE Read(t)
    <3>1. /\ Goto(t, "read", "clear_full") /\ UNCHANGED <<buf, head, tail, full, mutex>>
          /\ val'[t] = buf[tail]
          /\ \A u \in Threads \ {t} : val'[u] = val[u]
      BY <1>0, <2>12 DEF Read, TypeOK
    <3>2. "read" \in Inside /\ "clear_full" \in Inside \ {"write"}
      BY DEF Inside, Getting
    <3>3. /\ Phase(pc, mutex) = "read" /\ Phase(pc', mutex') = "clear_full" /\ MutexInv'
          /\ mutex = t /\ \A u \in Threads : pc'[u] \in {"put", "write"} => val'[u] \in Items
      BY <2>5, <3>1, <3>2
    <3> QED
      BY <1>f, <3>1, <3>3 DEF FieldsInv
  <2>13. CASE ClearFull(t)
    <3>1. /\ Goto(t, "clear_full", "advance") /\ UNCHANGED <<buf, head, tail, mutex, val>> /\ ~full'
      BY <2>13 DEF ClearFull
    <3>2. "clear_full" \in Inside /\ "advance" \in Inside \ {"write"}
      BY DEF Inside, Getting
    <3>3. Phase(pc, mutex) = "clear_full" /\ Phase(pc', mutex') = "advance"
      BY <2>7, <3>1, <3>2
    <3>4. val'[mutex'] = buf'[tail']
      BY <1>f, <3>1, <3>3
    <3> QED
      BY <2>7, <3>1, <3>2, <3>3, <3>4 DEF FieldsInv
  <2>14. CASE Advance(t)
    <3>1. /\ Goto(t, "advance", "unlock") /\ UNCHANGED <<buf, head, full, mutex>>
          /\ \A u \in Threads \ {t} : val'[u] = val[u]
      BY <1>0, <2>14 DEF Advance, TypeOK
    <3>2. "advance" \in Inside /\ "unlock" \in Inside \ {"write"}
      BY DEF Inside, Getting
    <3>3. /\ Phase(pc, mutex) = "advance" /\ Phase(pc', mutex') = "unlock" /\ MutexInv'
          /\ \A u \in Threads : pc'[u] \in {"put", "write"} => val'[u] \in Items
      BY <2>5, <3>1, <3>2
    <3> QED
      BY <1>f, <3>1, <3>3 DEF FieldsInv
  <2>15. CASE ResetHead(t)
    <3>1. /\ Goto(t, "reset_head", "reset_full") /\ UNCHANGED <<buf, tail, full, mutex, val>>
          /\ head' = tail
      BY <2>15 DEF ResetHead
    <3>2. "reset_head" \in Inside /\ "reset_full" \in Inside \ {"write"}
      BY DEF Inside, Resetting
    <3> QED
      BY <2>7, <3>1, <3>2 DEF FieldsInv
  <2>16. CASE ResetFull(t)
    <3>1. /\ Goto(t, "reset_full", "unlock") /\ UNCHANGED <<buf, head, tail, mutex, val>> /\ ~full'
      BY <2>16 DEF ResetFull
    <3>2. "reset_full" \in Inside /\ "unlock" \in Inside \ {"write"}
      BY DEF Inside, Resetting
    <3> QED
      BY <2>7, <3>1, <3>2 DEF FieldsInv
  <2>17. ASSUME NEW operation \in {"get", "reset", "see_full"}, Call(t, operation)
         PROVE MutexInv' /\ FieldsInv'
    BY <2>2, <2>17 DEF Call, Watching
  <2>18. CASE WatchEmpty(t)
    <3>1. PICK from \in Watching, to \in {"idle"} \cup Watching : Goto(t, from, to)
      BY <2>18 DEF WatchEmpty, SeeFull, SeeHead, SeeTail, Watching
    <3>2. UNCHANGED <<fields, mutex, val>>
      BY <2>18 DEF WatchEmpty, SeeFull, SeeHead, SeeTail
    <3> QED
      BY <2>2, <3>1, <3>2
  <2> QED
    BY <1>2, <2>1, <2>3, <2>4, <2>6, <2>8, <2>9, <2>10, <2>11, <2>12, <2>13, <2>14, <2>15, <2>16,
       <2>17, <2>18
    DEF Operation, Put, Get, Reset
<1> QED
  BY <1>1, <1>2 DEF Next

\* The types: head_ and tail_ stay slots of buf_, wherever they wrap.
THEOREM TypeCorrect == Spec => []TypeOK
<1>1. IInv /\ [Next]_vars => IInv'
  BY TypeStep, FieldsStep DEF IInv
<1>2. IInv => TypeOK
  BY DEF IInv
<1> QED
  BY InitIInv, <1>1, <1>2, PTL DEF Spec

-----------------------------------------------------------------------------
(* The items as a line of slots.                                             *)

Gap(h, t) == IF h >= t THEN h - t ELSE Size + h - t

FirstAt(phase) == IF phase = "move_tail" /\ full THEN After(tail) ELSE tail

LengthAt(phase) ==
  IF full THEN Size
  ELSE IF phase \in {"move_tail", "move_head"} THEN Gap(head, tail) + 1
  ELSE IF phase \in {"set_full", "advance"} /\ head = tail THEN Size
  ELSE Gap(head, tail)

Shape ==
  LET first  == FirstAt(Phase(pc, mutex))
      length == LengthAt(Phase(pc, mutex))
  IN
  /\ first \in Slots /\ length \in 0 .. Size
  /\ Contents = Line(buf, first, length)

LEMMA AtPhase ==
  ASSUME IInv, NEW places, places \subseteq Inside
  PROVE At(places) <=> Phase(pc, mutex) \in places
<1>1. "idle" \notin Inside
  BY DEF Inside, Putting, Getting, Resetting
<1> QED
  BY <1>1, ConstantsAssumption DEF IInv, TypeOK, MutexInv, At, Phase

LEMMA GapIs ==
  ASSUME NEW h \in Slots, NEW t \in Slots
  PROVE /\ Gap(h, t) \in 0 .. Size - 1
        /\ Gap(h, t) = 0 <=> h = t
        /\ Slot(t, Gap(h, t) + 1) = h
        /\ After(h) # t => Gap(After(h), t) = Gap(h, t) + 1
        /\ After(h) = t => Gap(h, t) + 1 = Size
        /\ h # t => Gap(h, After(t)) = Gap(h, t) - 1
        /\ h = t => Gap(h, After(t)) = Size - 1
<1>1. After(h) = (IF h + 1 < Size THEN h + 1 ELSE 0) /\ After(t) = (IF t + 1 < Size THEN t + 1 ELSE 0)
  BY AfterIs
<1> QED
  BY <1>1, ConstantsAssumption DEF Gap, Slot, Slots

LEMMA IsShape == IInv => Shape
<1> SUFFICES ASSUME IInv PROVE Shape
  OBVIOUS
<1> DEFINE first  == FirstAt(Phase(pc, mutex))
           length == LengthAt(Phase(pc, mutex))
<1>0. /\ head \in Slots /\ tail \in Slots /\ full \in BOOLEAN /\ buf \in Buffers
      /\ Size \in Nat \ {0}
  BY ConstantsAssumption DEF IInv, TypeOK, Buffers
<1>1. /\ At({"move_tail"}) <=> Phase(pc, mutex) = "move_tail"
      /\ At({"move_tail", "move_head"}) <=> Phase(pc, mutex) \in {"move_tail", "move_head"}
      /\ At({"set_full", "advance"}) <=> Phase(pc, mutex) \in {"set_full", "advance"}
  BY AtPhase DEF Inside, Putting, Getting
<1>2. First = first
  BY <1>1 DEF First, FirstAt
<1>3. Length = length
  BY <1>1 DEF Length, LengthAt, SizeNow, Gap
<1>4. first \in Slots
  BY <1>0, AfterIs DEF FirstAt
<1>5. length \in 0 .. Size
  BY <1>0, GapIs DEF LengthAt
<1> HIDE DEF first, length
<1>6. \A k \in 1 .. length : (first + k - 1) % Size = Slot(first, k)
  BY <1>0, <1>4, <1>5, SlotIs
<1>7. Contents = [k \in 1 .. length |-> buf[Slot(first, k)]]
  BY <1>2, <1>3, <1>6 DEF Contents
<1> QED
  BY <1>4, <1>5, <1>7 DEF Shape, Line, first, length

-----------------------------------------------------------------------------
(* Each step is a step of OverwritingQueue, or leaves it as it is.           *)

\* The same line: nothing happens to the queue.
LEMMA SameLine ==
  ASSUME Shape, Shape', UNCHANGED <<buf, answer>>,
         FirstAt(Phase(pc, mutex))' = FirstAt(Phase(pc, mutex)),
         LengthAt(Phase(pc, mutex))' = LengthAt(Phase(pc, mutex))
  PROVE UNCHANGED Queue!vars
<1>1. Contents' = Contents
  BY DEF Shape
<1> QED
  BY <1>1 DEF Queue!vars

LEMMA InPhase ==
  ASSUME Phase(pc', mutex') = Phase(pc, mutex), UNCHANGED <<head, tail, full>>
  PROVE /\ FirstAt(Phase(pc, mutex))' = FirstAt(Phase(pc, mutex))
        /\ LengthAt(Phase(pc, mutex))' = LengthAt(Phase(pc, mutex))
  BY DEF FirstAt, LengthAt

LEMMA PutStep ==
  ASSUME IInv, Shape, Shape', NEW t \in Threads, Write(t)
  PROVE \E x \in Items : Queue!Put(x)
<1>0. /\ head \in Slots /\ tail \in Slots /\ full \in BOOLEAN /\ buf \in Buffers
      /\ Size \in Nat \ {0} /\ Size \in 0 .. Size
  BY ConstantsAssumption DEF IInv, TypeOK, Buffers
<1>1. Phase(pc, mutex) = "write" /\ Phase(pc', mutex') = "move_tail"
  BY StepInside DEF Write, Inside, Putting
<1>2. val[t] \in Items /\ val[t] \in Items \cup {NoItem} /\ (full => head = tail)
  BY <1>1 DEF IInv, FieldsInv, Write, Goto
<1>3. /\ buf' = [buf EXCEPT ![head] = val[t]] /\ UNCHANGED <<head, tail, full, answer>>
  BY DEF Write, others
<1>4. CASE full
  <2>1. /\ FirstAt(Phase(pc, mutex)) = tail /\ LengthAt(Phase(pc, mutex)) = Size
        /\ FirstAt(Phase(pc, mutex))' = After(tail) /\ LengthAt(Phase(pc, mutex))' = Size
    BY <1>1, <1>3, <1>4 DEF FirstAt, LengthAt
  <2>2. Contents = Line(buf, tail, Size) /\ Contents' = Line(buf', After(tail), Size)
    BY <2>1 DEF Shape
  <2>3. Len(Contents) = Size
    BY <1>0, <2>2, LineIsSeq
  <2>4. Contents' = Append(Tail(Contents), val[t])
    BY <1>0, <1>2, <1>3, <1>4, <2>2, LineTurns
  <2> QED
    BY <1>2, <1>3, <2>3, <2>4 DEF Queue!Put
<1>5. CASE ~full
  <2> DEFINE n == Gap(head, tail)
  <2>1. /\ FirstAt(Phase(pc, mutex)) = tail /\ LengthAt(Phase(pc, mutex)) = n
        /\ FirstAt(Phase(pc, mutex))' = tail /\ LengthAt(Phase(pc, mutex))' = n + 1
    BY <1>1, <1>3, <1>5 DEF FirstAt, LengthAt, Gap
  <2>2. Contents = Line(buf, tail, n) /\ Contents' = Line(buf', tail, n + 1)
    BY <2>1 DEF Shape
  <2>3. n \in 0 .. Size - 1 /\ Slot(tail, n + 1) = head
    BY <1>0, GapIs
  <2> HIDE DEF n
  <2>4. Len(Contents) # Size
    <3>1. n \in 0 .. Size /\ n # Size
      BY <1>0, <2>3
    <3> QED
      BY <1>0, <2>2, <3>1, LineIsSeq
  <2>5. Contents' = Append(Contents, val[t])
    BY <1>0, <1>2, <1>3, <2>2, <2>3, LineGrows
  <2> QED
    BY <1>2, <1>3, <2>4, <2>5 DEF Queue!Put
<1> QED
  BY <1>0, <1>4, <1>5

LEMMA GetStep ==
  ASSUME IInv, Shape, Shape', NEW t \in Threads, Advance(t)
  PROVE Queue!Get(t)
<1>0. /\ head \in Slots /\ tail \in Slots /\ buf \in Buffers /\ Size \in Nat \ {0}
      /\ Size \in 1 .. Size
  BY ConstantsAssumption DEF IInv, TypeOK, Buffers
<1>1. Phase(pc, mutex) = "advance" /\ Phase(pc', mutex') = "unlock" /\ mutex = t
  BY StepInside DEF Advance, Inside, Getting
<1>2. val[t] = buf[tail] /\ ~full
  BY <1>1 DEF IInv, FieldsInv
<1>3. /\ answer' = [answer EXCEPT ![t] = val[t]] /\ tail' = After(tail)
      /\ UNCHANGED <<buf, head, full>>
  BY DEF Advance
<1> DEFINE n == IF head = tail THEN Size ELSE Gap(head, tail)
<1>4. /\ FirstAt(Phase(pc, mutex)) = tail /\ LengthAt(Phase(pc, mutex)) = n
      /\ FirstAt(Phase(pc, mutex))' = After(tail)
      /\ LengthAt(Phase(pc, mutex))' = Gap(head, After(tail))
  BY <1>1, <1>2, <1>3 DEF FirstAt, LengthAt, Gap
<1>5. n \in 1 .. Size /\ Gap(head, After(tail)) = n - 1
  BY <1>0, GapIs
<1> HIDE DEF n
<1>6. Contents = Line(buf, tail, n) /\ Contents' = Line(buf, After(tail), n - 1)
  BY <1>3, <1>4, <1>5 DEF Shape
<1> QED
  BY <1>0, <1>2, <1>3, <1>5, <1>6, LineDrops DEF Queue!Get

\* A line without slots.
LEMMA NoLine ==
  ASSUME NEW b, NEW first
  PROVE Line(b, first, 0) = <<>>
<1>1. 1 .. 0 = {}
  OBVIOUS
<1> QED
  BY <1>1 DEF Line

LEMMA ResetStep ==
  ASSUME IInv, Shape, Shape', NEW t \in Threads, ResetHead(t) \/ ResetFull(t)
  PROVE [Queue!Next]_(Queue!vars)
<1>0. head \in Slots /\ tail \in Slots /\ full \in BOOLEAN /\ Size \in Nat \ {0}
  BY ConstantsAssumption DEF IInv, TypeOK
<1>1. UNCHANGED <<buf, tail, answer>>
  BY DEF ResetHead, ResetFull
<1>2. Phase(pc, mutex) = "reset_head" \/ Phase(pc, mutex) = "reset_full"
  BY StepInside DEF ResetHead, ResetFull, Inside, Resetting
<1>3. Phase(pc', mutex') = "reset_full" \/ Phase(pc', mutex') = "unlock"
  BY StepInside DEF ResetHead, ResetFull, Inside, Resetting
<1>4. full => head = tail
  BY <1>2 DEF IInv, FieldsInv
<1>5. head' = tail
  BY <1>2, StepInside DEF ResetHead, ResetFull, IInv, FieldsInv, Inside, Resetting
<1>6. CASE full'
  <2>1. full /\ head = tail
    BY <1>4, <1>6 DEF ResetHead, ResetFull
  <2>2. /\ FirstAt(Phase(pc, mutex))' = FirstAt(Phase(pc, mutex))
        /\ LengthAt(Phase(pc, mutex))' = LengthAt(Phase(pc, mutex))
    BY <1>1, <1>2, <1>3, <1>6, <2>1 DEF FirstAt, LengthAt
  <2> QED
    BY <1>1, <2>2, SameLine
<1>7. CASE ~full'
  <2>1. LengthAt(Phase(pc, mutex))' = 0
    BY <1>0, <1>1, <1>3, <1>5, <1>7 DEF LengthAt, Gap, Slots
  <2>2. Contents' = <<>>
    BY <2>1, NoLine DEF Shape
  <2> QED
    BY <1>1, <2>2 DEF Queue!Next, Queue!Reset
<1> QED
  BY <1>6, <1>7

LEMMA RefineStep ==
  IInv /\ Shape /\ Shape' /\ [Next]_vars => [Queue!Next]_(Queue!vars)
<1> SUFFICES ASSUME IInv, Shape, Shape', [Next]_vars PROVE [Queue!Next]_(Queue!vars)
  OBVIOUS
<1>0. /\ head \in Slots /\ tail \in Slots /\ full \in BOOLEAN /\ Size \in Nat \ {0}
  BY ConstantsAssumption DEF IInv, TypeOK
<1>f. LET phase == Phase(pc, mutex)
      IN
      /\ full => IF phase = "move_head" THEN After(head) = tail ELSE head = tail
      /\ phase \in {"read", "clear_full"} => full \/ head # tail
  BY DEF IInv, FieldsInv
<1>1. CASE UNCHANGED vars
  BY <1>1, InPhase, SameLine DEF vars, fields
<1>2. ASSUME NEW t \in Threads, Operation(t) PROVE [Queue!Next]_(Queue!vars)
  <2> USE DEF fields, others
  <2>i. /\ Putting \cup Getting \cup Resetting \cup {"unlock"} = Inside
        /\ \A x \in {"idle", "put", "get", "reset"} \cup Watching : x \notin Inside
    BY DEF Inside, Putting, Getting, Resetting, Watching
  <2>1. CASE CallPut(t) \/ WatchEmpty(t)
             \/ \E operation \in {"get", "reset", "see_full"} : Call(t, operation)
    <3>1. PICK from, to : Goto(t, from, to) /\ from \notin Inside /\ to \notin Inside
      BY <2>1, <2>i DEF CallPut, WatchEmpty, SeeFull, SeeHead, SeeTail, Call, Watching
    <3>2. UNCHANGED <<buf, head, tail, full, mutex, answer>>
      BY <2>1 DEF CallPut, WatchEmpty, SeeFull, SeeHead, SeeTail, Call
    <3>3. Phase(pc', mutex') = Phase(pc, mutex)
      BY <3>1, <3>2, StepOutside
    <3> QED
      BY <3>2, <3>3, InPhase, SameLine
  <2>2. ASSUME NEW from \in {"put", "get", "reset"}, NEW to \in {"write", "check", "reset_head"},
               Lock(t, from, to)
        PROVE [Queue!Next]_(Queue!vars)
    <3>1. Phase(pc, mutex) = "idle" /\ Phase(pc', mutex') = to
      BY <2>2, <2>i, LockStep DEF Putting, Getting, Resetting
    <3>2. UNCHANGED <<buf, head, tail, full, answer>>
      BY <2>2 DEF Lock
    <3>3. /\ FirstAt(Phase(pc, mutex))' = FirstAt(Phase(pc, mutex))
          /\ LengthAt(Phase(pc, mutex))' = LengthAt(Phase(pc, mutex))
      BY <3>1, <3>2 DEF FirstAt, LengthAt
    <3> QED
      BY <3>2, <3>3, SameLine
  <2>3. CASE Unlock(t)
    <3>1. Phase(pc, mutex) = "unlock" /\ Phase(pc', mutex') = "idle"
      BY <2>3, UnlockStep
    <3>2. UNCHANGED <<buf, head, tail, full, answer>>
      BY <2>3 DEF Unlock
    <3>3. /\ FirstAt(Phase(pc, mutex))' = FirstAt(Phase(pc, mutex))
          /\ LengthAt(Phase(pc, mutex))' = LengthAt(Phase(pc, mutex))
      BY <3>1, <3>2 DEF FirstAt, LengthAt
    <3> QED
      BY <3>2, <3>3, SameLine
  <2>4. CASE Write(t)
    BY <2>4, PutStep DEF Queue!Next
  <2>5. CASE MoveTail(t)
    <3>1. Phase(pc, mutex) = "move_tail" /\ Phase(pc', mutex') = "move_head"
      BY <2>5, StepInside DEF MoveTail, Inside, Putting
    <3>2. UNCHANGED <<buf, head, full, answer>> /\ tail' = IF full THEN After(tail) ELSE tail
      BY <2>5 DEF MoveTail
    <3>3. /\ FirstAt(Phase(pc, mutex))' = FirstAt(Phase(pc, mutex))
          /\ LengthAt(Phase(pc, mutex))' = LengthAt(Phase(pc, mutex))
      BY <3>1, <3>2 DEF FirstAt, LengthAt
    <3> QED
      BY <3>2, <3>3, SameLine
  <2>6. CASE MoveHead(t)
    <3>1. Phase(pc, mutex) = "move_head" /\ Phase(pc', mutex') = "set_full"
      BY <2>6, StepInside DEF MoveHead, Inside, Putting
    <3>2. UNCHANGED <<buf, tail, full, answer>> /\ head' = After(head)
      BY <2>6 DEF MoveHead
    <3>3. FirstAt(Phase(pc, mutex))' = FirstAt(Phase(pc, mutex))
      BY <3>1, <3>2 DEF FirstAt
    <3>4. IF After(head) = tail THEN Gap(head, tail) + 1 = Size
          ELSE Gap(After(head), tail) = Gap(head, tail) + 1
      BY <1>0, GapIs
    <3>5. /\ LengthAt(Phase(pc, mutex)) = IF full THEN Size ELSE Gap(head, tail) + 1
          /\ LengthAt(Phase(pc, mutex))' =
                IF full \/ After(head) = tail THEN Size ELSE Gap(After(head), tail)
      BY <3>1, <3>2 DEF LengthAt, Gap
    <3> QED
      BY <3>2, <3>3, <3>4, <3>5, SameLine
  <2>7. CASE SetFull(t)
    <3>1. Phase(pc, mutex) = "set_full" /\ Phase(pc', mutex') = "unlock"
      BY <2>7, StepInside DEF SetFull, Inside, Putting
    <3>2. UNCHANGED <<buf, head, tail, answer>> /\ (full' <=> head = tail)
      BY <2>7 DEF SetFull
    <3>3. /\ FirstAt(Phase(pc, mutex))' = FirstAt(Phase(pc, mutex))
          /\ LengthAt(Phase(pc, mutex))' = LengthAt(Phase(pc, mutex))
      BY <1>f, <3>1, <3>2 DEF FirstAt, LengthAt, Gap
    <3> QED
      BY <3>2, <3>3, SameLine
  <2>8. CASE GetNothing(t)
    <3>1. Phase(pc, mutex) = "check"
      BY <2>8, StepInside DEF GetNothing, Inside, Getting
    <3>2. ~full /\ head = tail
      BY <2>8 DEF GetNothing, Empty
    <3>3. LengthAt(Phase(pc, mutex)) = 0
      BY <1>0, <3>1, <3>2 DEF LengthAt, Gap, Slots
    <3>4. Contents = <<>>
      BY <3>3, NoLine DEF Shape
    <3>5. UNCHANGED <<buf, head, tail, full>> /\ Phase(pc', mutex') = "unlock"
      BY <2>8, StepInside DEF GetNothing, Inside, Getting
    <3>6. LengthAt(Phase(pc, mutex))' = 0
      BY <1>0, <3>2, <3>5 DEF LengthAt, Gap, Slots
    <3>7. Contents' = <<>>
      BY <3>6, NoLine DEF Shape
    <3>8. Queue!GetNothing(t)
      BY <2>8, <3>4, <3>7 DEF GetNothing, Queue!GetNothing
    <3> QED
      BY <3>8 DEF Queue!Next
  <2>9. CASE GetSomething(t) \/ Read(t)
    <3>1. /\ Phase(pc, mutex) \in {"check", "read"}
          /\ Phase(pc', mutex') \in {"read", "clear_full"}
      BY <2>9, StepInside DEF GetSomething, Read, Inside, Getting
    <3>2. UNCHANGED <<buf, head, tail, full, answer>>
      BY <2>9 DEF GetSomething, Read
    <3>3. /\ FirstAt(Phase(pc, mutex))' = FirstAt(Phase(pc, mutex))
          /\ LengthAt(Phase(pc, mutex))' = LengthAt(Phase(pc, mutex))
      BY <3>1, <3>2 DEF FirstAt, LengthAt
    <3> QED
      BY <3>2, <3>3, SameLine
  <2>10. CASE ClearFull(t)
    <3>1. Phase(pc, mutex) = "clear_full" /\ Phase(pc', mutex') = "advance"
      BY <2>10, StepInside DEF ClearFull, Inside, Getting
    <3>2. UNCHANGED <<buf, head, tail, answer>> /\ ~full'
      BY <2>10 DEF ClearFull
    <3>3. /\ FirstAt(Phase(pc, mutex))' = FirstAt(Phase(pc, mutex))
          /\ LengthAt(Phase(pc, mutex))' = LengthAt(Phase(pc, mutex))
      BY <1>f, <3>1, <3>2 DEF FirstAt, LengthAt, Gap
    <3> QED
      BY <3>2, <3>3, SameLine
  <2>11. CASE Advance(t)
    BY <2>11, GetStep DEF Queue!Next
  <2>12. CASE ResetHead(t) \/ ResetFull(t)
    BY <2>12, ResetStep
  <2> QED
    BY <1>2, <2>1, <2>2, <2>3, <2>4, <2>5, <2>6, <2>7, <2>8, <2>9, <2>10, <2>11, <2>12
    DEF Operation, Put, Get, Reset
<1> QED
  BY <1>1, <1>2 DEF Next

\* put, get and reset, each a dozen of stores under mutex_, are atomic operations of a
\* queue that overwrites its oldest item: none is lost otherwise, comes out twice or out
\* of order.
THEOREM BufferIsQueue == Spec => ImplementsQueue
<1>1. Init => Queue!Init
  <2> SUFFICES ASSUME Init PROVE Queue!Init
    OBVIOUS
  <2>1. IInv
    BY InitIInv
  <2>2. Phase(pc, mutex) = "idle" /\ ~full /\ head = tail /\ head = 0
    BY DEF Init, Phase
  <2>3. LengthAt(Phase(pc, mutex)) = 0
    BY <2>2, ConstantsAssumption DEF LengthAt, Gap
  <2>4. Contents = <<>>
    BY <2>1, <2>3, IsShape, NoLine DEF Shape
  <2> QED
    BY <2>4 DEF Init, Queue!Init
<1>2. IInv /\ [Next]_vars => IInv'
  BY TypeStep, FieldsStep DEF IInv
<1>3. IInv => Shape
  BY IsShape
<1>4. IInv /\ Shape /\ Shape' /\ [Next]_vars => [Queue!Next]_(Queue!vars)
  BY RefineStep
<1> QED
  BY InitIInv, <1>1, <1>2, <1>3, <1>4, PTL DEF Spec, ImplementsQueue, Queue!Spec
=============================================================================
