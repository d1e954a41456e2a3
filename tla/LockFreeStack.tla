--------------------------- MODULE LockFreeStack ---------------------------
(***************************************************************************)
(* LockFreeStack<T> of src/lock-free-stack.h: a linked stack whose head is *)
(* exchanged, with hazard pointers and a list of nodes to be deleted.      *)
(* Every access to an atomic that other threads use is a step; a store to  *)
(* a node nobody else knows goes with the step after it.  A node is an     *)
(* address that new may give out again after delete.                       *)
(*                                                                         *)
(* Three places do not compile as they are written and are read as meant:  *)
(* the expected value of lines 65 and 131 is a temporary, so that a failed *)
(* exchange does not refresh it; line 134 sometimes calls the clean-up.    *)
(***************************************************************************)
EXTENDS Integers, Sequences, FiniteSets

CONSTANTS
  Threads,
  Nodes,         \* bound: the addresses that new may return
  Null,
  MaxHazards,    \* MAX_THREADS: 100
  MaxPushes,     \* bound: calls of push
  BeyondStray    \* bound: whether a behaviour goes on after it went astray

ASSUME ConstantsAssumption ==
  /\ Null \notin Nodes /\ IsFiniteSet(Nodes) /\ BeyondStray \in BOOLEAN
  /\ MaxHazards \in Nat \ {0} /\ MaxPushes \in Nat

Addresses == Nodes \cup {Null}
Slots     == 1 .. MaxHazards
Items     == 1 .. MaxPushes

VARIABLES
  head, to_be_deleted,
  next, data,   \* the fields of each node; 0 is no data
  allocated,    \* the nodes that new gave out and delete did not take back
  hazard,       \* hazard_pointers[i].pointer
  assigned,     \* how many of them have an id: a thread never gives its own back
  pc, slot,     \* where each thread is; its thread_local hp, 0 for nullptr
  node,         \* its new_node, old_head or current
  link,         \* its current_head, old_head->next or next
  scanned,      \* how many hazard pointers is_pointer_hazardous has looked at
  pushes,       \* history: the calls of push
  got,          \* history: the items that pop returned
  astray,       \* history: a pop whose hazard pointer is not on its node read a node
                \* that is not there, or put a next on head that is no longer its own
  destroyed     \* the destructor has run

heap    == <<next, data, allocated>>
hazards == <<hazard, assigned, slot>>
history == <<pushes, got, astray, destroyed>>
vars == <<head, to_be_deleted, heap, hazards, pc, node, link, scanned, history>>

Pushing  == {"push"}
Popping  == {"protect", "recheck", "load_next", "exchange", "clear"}
Retiring == {"take", "retire"}
Cleaning == {"detach", "follow", "scan", "delete", "put_back", "requeue"}

TypeOK ==
  /\ {head, to_be_deleted} \subseteq Addresses
  /\ next \in [Nodes -> Addresses] /\ data \in [Nodes -> Items \cup {0}]
  /\ allocated \subseteq Nodes
  /\ hazard \in [Slots -> Addresses] /\ assigned \in 0 .. MaxHazards
  /\ pc \in [Threads -> {"idle", "crashed"} \cup Pushing \cup Popping \cup Retiring \cup Cleaning]
  /\ slot \in [Threads -> 0 .. MaxHazards]
  /\ node \in [Threads -> Addresses] /\ link \in [Threads -> Addresses]
  /\ scanned \in [Threads -> 0 .. MaxHazards]
  /\ pushes \in 0 .. MaxPushes /\ got \subseteq Items
  /\ astray \in BOOLEAN /\ destroyed \in BOOLEAN

\* Threads that have ended before may have left any number of hazard pointers
\* with their id.
Init ==
  /\ head = Null /\ to_be_deleted = Null
  /\ next = [n \in Nodes |-> Null] /\ data = [n \in Nodes |-> 0]
  /\ allocated = {}
  /\ hazard = [i \in Slots |-> Null] /\ assigned \in 0 .. MaxHazards
  /\ pc = [t \in Threads |-> "idle"] /\ slot = [t \in Threads |-> 0]
  /\ node = [t \in Threads |-> Null] /\ link = [t \in Threads |-> Null]
  /\ scanned = [t \in Threads |-> 0]
  /\ pushes = 0 /\ got = {} /\ astray = FALSE /\ destroyed = FALSE

Bounded == astray => BeyondStray

Goto(t, from, to) ==
  /\ Bounded
  /\ pc[t] = from
  /\ pc' = [pc EXCEPT ![t] = to]

SetNode(t, n) == node' = [node EXCEPT ![t] = n]
SetLink(t, n) == link' = [link EXCEPT ![t] = n]

\* When a compare_exchange of a word may succeed.  In the variant with a mistake
\* it is a store.
ExpectedAny(word, value) == TRUE
Expected(word, value)    == word = value

\* The nodes that follow first, itself included.
Chain(first) ==
  LET at[k \in 0 .. Cardinality(Nodes)] ==
        IF k = 0 THEN first ELSE IF at[k - 1] = Null THEN Null ELSE next[at[k - 1]]
  IN [k \in 1 .. Cardinality({i \in DOMAIN at : at[i] # Null}) |-> at[k - 1]]
NodesFrom(first) == {Chain(first)[k] : k \in DOMAIN Chain(first)}

-----------------------------------------------------------------------------
(* push                                                                      *)

CallPush(t) ==
  /\ pushes < MaxPushes /\ ~destroyed
  /\ Goto(t, "idle", "push")
  /\ \E n \in Nodes \ allocated :
       /\ allocated' = allocated \cup {n}
       /\ data' = [data EXCEPT ![n] = pushes + 1]
       /\ SetNode(t, n)
  /\ SetLink(t, head)
  /\ pushes' = pushes + 1
  /\ UNCHANGED <<head, to_be_deleted, next, hazards, scanned, got, astray, destroyed>>

Push(t) ==
  /\ Goto(t, "push", "idle")
  /\ Expected(head, link[t])
  /\ next' = [next EXCEPT ![node[t]] = link[t]]
  /\ head' = node[t]
  /\ SetNode(t, Null) /\ SetLink(t, Null)
  /\ UNCHANGED <<to_be_deleted, data, allocated, hazards, scanned, history>>

PushAgain(t) ==
  /\ Goto(t, "push", "push")
  /\ SetLink(t, head)
  /\ UNCHANGED <<head, to_be_deleted, heap, hazards, node, scanned, history>>

-----------------------------------------------------------------------------
(* pop                                                                       *)

\* get_hazard_pointer_for_current_thread: the thread's own, or the first free.
TakeSlot(t) ==
  /\ slot[t] = 0 /\ assigned < MaxHazards
  /\ slot' = [slot EXCEPT ![t] = assigned + 1]
  /\ assigned' = assigned + 1

\* Without a hazard pointer pop returns nullptr at once, which leaves no trace.
CallPop(t) ==
  /\ ~destroyed
  /\ TakeSlot(t) \/ (slot[t] > 0 /\ UNCHANGED <<slot, assigned>>)
  /\ Goto(t, "idle", "protect")
  /\ SetNode(t, head)
  /\ UNCHANGED <<head, to_be_deleted, heap, hazard, link, scanned, history>>

Protect(t) ==
  /\ Goto(t, "protect", "recheck")
  /\ hazard' = [hazard EXCEPT ![slot[t]] = node[t]]
  /\ UNCHANGED <<head, to_be_deleted, heap, assigned, slot, node, link, scanned, history>>

\* Load head again.  When it has changed, continue jumps to the exchange in the
\* loop's condition, with the new head, which the hazard pointer is not on.
Recheck(t) ==
  /\ Goto(t, "recheck", IF node[t] = Null /\ head = Null THEN "clear" ELSE "load_next")
  /\ SetNode(t, head)
  /\ UNCHANGED <<head, to_be_deleted, heap, hazards, link, scanned, history>>

Protected(t) == node[t] = hazard[slot[t]]

\* The field of a node that was deleted can be anything.  A node that is read with
\* no hazard pointer on it may be deleted, and pushed again, before the exchange.
LoadNext(t) ==
  /\ Goto(t, "load_next", "exchange")
  /\ node[t] # Null
  /\ \E n \in IF node[t] \in allocated THEN {next[node[t]]} ELSE Addresses : SetLink(t, n)
  /\ astray' = (astray \/ (~Protected(t) /\ node[t] \notin allocated))
  /\ UNCHANGED <<head, to_be_deleted, heap, hazards, node, scanned, pushes, got, destroyed>>

\* After continue the new head may be nullptr.
LoadNextOfNull(t) ==
  /\ Goto(t, "load_next", "crashed")
  /\ node[t] = Null
  /\ astray' = TRUE
  /\ UNCHANGED <<head, to_be_deleted, heap, hazards, node, link, scanned, pushes, got, destroyed>>

Exchange(t) ==
  /\ Goto(t, "exchange", "clear")
  /\ Expected(head, node[t])
  /\ head' = link[t]
  /\ SetLink(t, Null)
  /\ astray' = (astray \/ (~Protected(t) /\ link[t] # next[node[t]]))
  /\ UNCHANGED <<to_be_deleted, heap, hazards, node, scanned, pushes, got, destroyed>>

\* Also spuriously: the exchange is the weak one.
ExchangeFails(t) ==
  /\ Goto(t, "exchange", "protect")
  /\ SetNode(t, head) /\ SetLink(t, Null)
  /\ UNCHANGED <<head, to_be_deleted, heap, hazards, scanned, history>>

Clear(t) ==
  /\ Goto(t, "clear", IF node[t] = Null THEN "idle" ELSE "take")
  /\ hazard' = [hazard EXCEPT ![slot[t]] = Null]
  /\ UNCHANGED <<head, to_be_deleted, heap, assigned, slot, node, link, scanned, history>>

\* The result is copied and the node's next set to the list to be deleted.
Take(t) ==
  /\ Goto(t, "take", "retire")
  /\ got' = got \cup ({data[node[t]]} \ {0})
  /\ next' = [next EXCEPT ![node[t]] = to_be_deleted]
  /\ UNCHANGED <<head, to_be_deleted, data, allocated, hazards, node, link, scanned,
                 pushes, astray, destroyed>>

\* The exchange succeeds when the list is again what it was at Take; until then
\* the loop spins.
Retire(t) ==
  /\ Goto(t, "retire", "idle") \/ Goto(t, "retire", "detach")
  /\ Expected(to_be_deleted, next[node[t]])
  /\ to_be_deleted' = node[t]
  /\ SetNode(t, Null)
  /\ UNCHANGED <<head, heap, hazards, link, scanned, history>>

-----------------------------------------------------------------------------
(* delete_nodes_no_hazards                                                   *)

Detach(t) ==
  /\ Goto(t, "detach", IF to_be_deleted = Null THEN "idle" ELSE "follow")
  /\ SetNode(t, to_be_deleted)
  /\ to_be_deleted' = Null
  /\ UNCHANGED <<head, heap, hazards, link, scanned, history>>

Follow(t) ==
  /\ Goto(t, "follow", "scan")
  /\ SetLink(t, next[node[t]])
  /\ UNCHANGED <<head, to_be_deleted, heap, hazards, node, scanned, history>>

\* Variant with a mistake: the last hazard pointer is not looked at.
LastSlotButOne == MaxHazards - 1
LastSlot       == MaxHazards

Scan(t) ==
  LET i == scanned[t] + 1
      verdict == IF hazard[i] = node[t] THEN "put_back"
                 ELSE IF i >= LastSlot THEN "delete" ELSE "scan"
  IN
  /\ Goto(t, "scan", verdict)
  /\ scanned' = [scanned EXCEPT ![t] = IF verdict = "scan" THEN i ELSE 0]
  /\ UNCHANGED <<head, to_be_deleted, heap, hazards, node, link, history>>

\* On to the node behind the current one.
Continue(t, from) ==
  /\ Goto(t, from, IF link[t] = Null THEN "idle" ELSE "follow")
  /\ SetNode(t, link[t]) /\ SetLink(t, Null)

Delete(t) ==
  /\ Continue(t, "delete")
  /\ allocated' = allocated \ {node[t]}
  /\ next' = [next EXCEPT ![node[t]] = Null]
  /\ data' = [data EXCEPT ![node[t]] = 0]
  /\ UNCHANGED <<head, to_be_deleted, hazards, scanned, history>>

PutBack(t) ==
  /\ Goto(t, "put_back", "requeue")
  /\ next' = [next EXCEPT ![node[t]] = to_be_deleted]
  /\ UNCHANGED <<head, to_be_deleted, data, allocated, hazards, node, link, scanned, history>>

Requeue(t) ==
  /\ Continue(t, "requeue")
  /\ Expected(to_be_deleted, next[node[t]])
  /\ to_be_deleted' = node[t]
  /\ UNCHANGED <<head, heap, hazards, scanned, history>>

\* The destructor, when no call is in progress; nobody has a hazard pointer set.
Destroy ==
  /\ Bounded /\ ~destroyed
  /\ \A t \in Threads : pc[t] = "idle"
  /\ destroyed' = TRUE
  /\ allocated' = allocated \ (NodesFrom(head) \cup NodesFrom(to_be_deleted))
  /\ head' = Null /\ to_be_deleted' = Null
  /\ UNCHANGED <<next, data, hazards, pc, node, link, scanned, pushes, got, astray>>

-----------------------------------------------------------------------------

Pop(t) ==
  \/ CallPop(t) \/ Protect(t) \/ Recheck(t) \/ LoadNext(t) \/ LoadNextOfNull(t)
  \/ Exchange(t) \/ ExchangeFails(t) \/ Clear(t) \/ Take(t) \/ Retire(t)

Clean(t) ==
  Detach(t) \/ Follow(t) \/ Scan(t) \/ Delete(t) \/ PutBack(t) \/ Requeue(t)

Next ==
  \/ \E t \in Threads : CallPush(t) \/ Push(t) \/ PushAgain(t) \/ Pop(t) \/ Clean(t)
  \/ Destroy

Spec == Init /\ [][Next]_vars

-----------------------------------------------------------------------------

\* The thread has removed its node from the stack and not yet given it away.
Removed(t) == node[t] # Null /\ pc[t] \in {"clear"} \cup Retiring

\* The stack is a stack until it goes astray: pushes and pops take effect at their
\* exchanges on head, no item is lost, popped twice or out of order, although nodes
\* are deleted and come back at the same address.  A pop that has verified its
\* hazard pointer never takes it astray; one that found head changed works with a
\* node that it does not protect, and does so when others have popped that node
\* meanwhile: the line 18 promise of safe deletion is broken there.
Stack == INSTANCE LifoStack WITH
  stack  <- [k \in DOMAIN Chain(head) |-> data[Chain(head)[k]]],
  popped <- got \cup {data[node[t]] : t \in {u \in Threads : Removed(u) /\ pc[u] # "retire"}},
  gone   <- destroyed
ImplementsStack == Stack!Spec

\* A node that a pop has protected and found to be still the head is not deleted
\* before the pop has read its next field and tried its exchange, whenever another
\* thread popped it, retired it and went through the hazard pointers.
ProtectedLives ==
  ~astray => \A t \in Threads :
    pc[t] \in {"load_next", "exchange"} /\ Protected(t) => node[t] \in allocated

\* No node is lost, retired twice, or deleted while it can still be reached: every
\* allocated node is in one place, on the stack, on the list to be deleted, or in
\* the hands of one thread.  So the destructor leaves no memory behind.
InHand(t) ==
  IF pc[t] = "push" \/ Removed(t) THEN {node[t]}
  ELSE IF pc[t] = "follow" THEN NodesFrom(node[t])
  ELSE IF pc[t] \in Cleaning \ {"detach"} THEN {node[t]} \cup NodesFrom(link[t])
  ELSE {}
NodesAccounted ==
  ~astray =>
    /\ allocated = NodesFrom(head) \cup NodesFrom(to_be_deleted)
                     \cup UNION {InHand(t) : t \in Threads}
    /\ NodesFrom(head) \cap NodesFrom(to_be_deleted) = {}
    /\ \A t \in Threads : InHand(t) \cap (NodesFrom(head) \cup NodesFrom(to_be_deleted)) = {}
    /\ \A t, u \in Threads : t # u => InHand(t) \cap InHand(u) = {}

=============================================================================
