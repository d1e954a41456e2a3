-------------------------- MODULE CoroutineProofs --------------------------
(***************************************************************************)
(* Proofs about CoroutineScheduler, for any number of workers and any      *)
(* finite set of coroutines.                                               *)
(*                                                                         *)
(* That a coroutine is in one place is not inductive: it needs to know     *)
(* which threads can be where and with what in their hands (RolesInv), and *)
(* what state a coroutine has in each place (StatesMatch): a worker that   *)
(* still has to notify or to look at done() has a handle, but not the      *)
(* coroutine, which may run elsewhere.                                     *)
(*                                                                         *)
(* That active_tasks covers what is to do counts four sets: a step moves   *)
(* an element from one to another, or the counter goes with them.          *)
(***************************************************************************)
EXTENDS CoroutineScheduler, FiniteSetTheorems, SequenceTheorems, TLAPS

Carrying == Scheduling \cup {"sleep", "resume", "running"}
Empty    == {"idle", "top", "local", "steal", "exited", "undefined"}

\* Which thread can be where, and with what in its hands.
Role(t, place, held) ==
  /\ t \in Workers => place \notin {"idle", "sleep"}
  /\ t = Client => place \in {"idle", "running", "notify", "undefined"} \cup Scheduling
  /\ t \in Detached => place \in {"idle", "sleep", "notify", "undefined"} \cup Scheduling
  /\ place \in Empty => held = Nobody
  /\ place = "notify" /\ t \notin Workers => held = Nobody
  /\ place \notin Empty /\ (place = "notify" => t \in Workers) => held \in Coroutines

RolesInv == \A t \in Threads : Role(t, pc[t], handle[t])

\* A coroutine that waits to be resumed is suspended, one that runs is running.
StatesMatch ==
  /\ \A w \in Workers : \A k \in DOMAIN local_queue[w] :
       state[local_queue[w][k]] = "suspended"
  /\ \A t \in Threads :
       handle[t] \in Coroutines /\ pc[t] \in Carrying
         => state[handle[t]] = IF pc[t] = "running" THEN "running" ELSE "suspended"

\* The three ways in which a coroutine could be in two places.
QueuedOnce ==
  \A v, w \in Workers : \A k \in DOMAIN local_queue[v], l \in DOMAIN local_queue[w] :
    local_queue[v][k] = local_queue[w][l] => v = w /\ k = l

CarriedOnce ==
  \A t, u \in Threads :
    /\ pc[t] \in Carrying /\ pc[u] \in Carrying
    /\ handle[t] = handle[u] /\ handle[t] # Nobody
    => t = u

NotCarriedAndQueued ==
  \A t \in Threads : pc[t] \in Carrying =>
    \A w \in Workers : \A k \in DOMAIN local_queue[w] : local_queue[w][k] # handle[t]

PlaceInv == QueuedOnce /\ CarriedOnce /\ NotCarriedAndQueued

\* A coroutine suspends for the first time where it was started.
FirstInv ==
  /\ \A c \in Coroutines : state[c] = "new" => suspensions[c] = 0
  /\ pc[Client] = "running" => suspensions[handle[Client]] = 0

ActiveInv == IsFiniteSet(Entries) /\ ActiveCoversPending

IInv ==
  /\ TypeOK /\ RolesInv /\ StatesMatch /\ PlaceInv /\ FirstInv
  /\ ActiveInv /\ FramesOutliveUse

-----------------------------------------------------------------------------
(* Sequences: what taking the front and appending do, by index.              *)

LEMMA Taken ==
  ASSUME NEW S, NEW q \in Seq(S), q # <<>>
  PROVE /\ Head(q) \in S /\ Tail(q) \in Seq(S)
        /\ DOMAIN q = 1 .. Len(q) /\ Len(q) \in Nat \ {0} /\ Head(q) = q[1]
        /\ DOMAIN Tail(q) = 1 .. Len(q) - 1
        /\ \A k \in DOMAIN Tail(q) : k + 1 \in DOMAIN q /\ Tail(q)[k] = q[k + 1]
  BY HeadTailProperties, LenProperties, EmptySeq

LEMMA Appended ==
  ASSUME NEW S, NEW q \in Seq(S), NEW x \in S
  PROVE /\ Append(q, x) \in Seq(S)
        /\ DOMAIN q = 1 .. Len(q) /\ Len(q) \in Nat
        /\ DOMAIN Append(q, x) = 1 .. Len(q) + 1
        /\ Append(q, x)[Len(q) + 1] = x
        /\ \A k \in DOMAIN q : Append(q, x)[k] = q[k]
  BY AppendProperties, LenProperties

-----------------------------------------------------------------------------

LEMMA InitIInv == Init => IInv
<1> SUFFICES ASSUME Init PROVE IInv
  OBVIOUS
<1> USE ConstantsAssumption DEF Init, Threads, Nobody
<1>1. TypeOK
  <2>1. local_queue \in [Workers -> Seq(Coroutines)]
    BY EmptySeq
  <2>2. 0 \in Workers /\ 1 \in 1 .. NumWorkers /\ 0 \in 0 .. MaxAwaits
    BY DEF Workers
  <2> QED
    BY <2>1, <2>2 DEF TypeOK
<1>2. RolesInv /\ StatesMatch /\ PlaceInv /\ FirstInv
  BY EmptySeq
  DEF FirstInv, RolesInv, Role, StatesMatch, PlaceInv, QueuedOnce, CarriedOnce, NotCarriedAndQueued,
      Carrying, Empty, Scheduling
<1>3. Entries = {} /\ Counted = {} /\ Looking = {} /\ Resting = {}
  BY EmptySeq DEF Entries, Counted, Looking, Resting, Scheduling, Resuming
<1>4. ActiveInv
  BY <1>3, FS_EmptySet DEF ActiveInv, ActiveCoversPending
<1>5. FramesOutliveUse
  BY DEF FramesOutliveUse
<1> QED
  BY <1>1, <1>2, <1>4, <1>5 DEF IInv

-----------------------------------------------------------------------------
(* Types.                                                                    *)

LEMMA CountsAreFinite ==
  /\ IsFiniteSet(Counted) /\ IsFiniteSet(Looking) /\ IsFiniteSet(Resting)
  /\ Cardinality(Counted) \in Nat /\ Cardinality(Looking) \in Nat /\ Cardinality(Resting) \in Nat
<1>1. IsFiniteSet(Threads)
  <2>1. IsFiniteSet(Workers)
    BY ConstantsAssumption, FS_Interval DEF Workers
  <2> QED
    BY <2>1, ConstantsAssumption, FS_Union, FS_Singleton DEF Threads
<1>2. Counted \subseteq Threads /\ Looking \subseteq Threads /\ Resting \subseteq Coroutines
  BY DEF Counted, Looking, Resting, Threads
<1> QED
  BY <1>1, <1>2, ConstantsAssumption, FS_Subset, FS_CardinalityType

\* A worker about to look at its coroutine is counted in active_tasks, so that the
\* counter does not wrap when the coroutine is done.
LEMMA CheckIsCovered ==
  ASSUME TypeOK, ActiveInv, NEW w \in Workers, pc[w] = "check"
  PROVE active_tasks \in Nat \ {0}
<1>1. w \in Looking
  BY DEF Looking, Resuming
<1>2. Cardinality(Looking) # 0
  BY <1>1, CountsAreFinite, FS_EmptySet
<1>3. Cardinality(Entries) \in Nat
  BY FS_CardinalityType DEF ActiveInv
<1> QED
  BY <1>2, <1>3, CountsAreFinite DEF TypeOK, ActiveInv, ActiveCoversPending

LEMMA OneMore ==
  ASSUME NEW limit \in Nat, NEW i \in Nat, i < limit
  PROVE i + 1 \in 1 .. limit /\ i + 1 \in 0 .. limit
  OBVIOUS

LEMMA TypeStep == TypeOK /\ RolesInv /\ ActiveInv /\ [Next]_vars => TypeOK'
<1> SUFFICES ASSUME TypeOK, RolesInv, ActiveInv, [Next]_vars PROVE TypeOK'
  OBVIOUS
<1> USE ConstantsAssumption
    DEF TypeOK, Goto, LetGo, Back, ending, frames, Scheduling, Resuming, Threads, Nobody
<1>1. ASSUME NEW c \in Coroutines, StartCoroutine(c) \/ DropTask(c)
      PROVE TypeOK'
  <2>1. CASE StartCoroutine(c)
    BY <2>1 DEF StartCoroutine
  <2>3. CASE DropTask(c)
    BY <2>3 DEF DropTask
  <2> QED
    BY <1>1, <2>1, <2>3
<1>10. ASSUME NEW d \in Detached, DetachedWakes(d) PROVE TypeOK'
  BY <1>10 DEF DetachedWakes
<1>2. ASSUME NEW t \in Threads, Count(t) \/ Notify(t) \/ UseDestroyed(t) PROVE TypeOK'
  <2>0. 0 \in Workers
    BY DEF Workers
  <2>1. CASE Count(t)
    <3>1. /\ pc' = [pc EXCEPT ![t] = "choose"]
          /\ UNCHANGED <<local_queue, next_worker, ending, frames, handle, target, victim>>
      BY <2>1, Zenon DEF Count
    <3>2. active_tasks' \in Nat
      BY <2>1 DEF Count
    <3> QED
      BY <3>1, <3>2
  <2>2. CASE UseDestroyed(t)
    <3>1. /\ pc' = [pc EXCEPT ![t] = "undefined"]
          /\ handle' = [handle EXCEPT ![t] = Nobody] /\ target' = [target EXCEPT ![t] = 0]
          /\ UNCHANGED <<local_queue, active_tasks, next_worker, ending, frames, victim>>
      BY <2>2, Zenon DEF UseDestroyed
    <3> QED
      BY <2>0, <3>1
  <2>3. CASE Notify(t)
    BY <2>0, <2>3 DEF Notify
  <2> QED
    BY <1>2, <2>1, <2>2, <2>3
<1>3. ASSUME NEW t \in Threads, Choose(t) PROVE TypeOK'
  <2>1. (next_worker + 1) % NumWorkers \in Workers
    BY DEF Workers
  <2> QED
    BY <1>3, <2>1 DEF Choose
<1>4. ASSUME NEW t \in Threads, Push(t) PROVE TypeOK'
  <2>1. handle[t] \in Coroutines /\ target[t] \in Workers
    BY <1>4 DEF Push, RolesInv, Role, Empty
  <2>2. local_queue' \in [Workers -> Seq(Coroutines)]
    BY <1>4, <2>1, Appended DEF Push
  <2> QED
    BY <1>4, <2>2 DEF Push
<1>5. ASSUME NEW t \in Workers \cup {Client}, RunCoroutine(t) PROVE TypeOK'
  <2>1. handle[t] \in Coroutines
    BY <1>5 DEF RunCoroutine, AwaitSchedule, AwaitDetached, Finish, RolesInv, Role, Empty
  <2>2. ASSUME Suspend(handle[t])
        PROVE /\ suspensions' \in [Coroutines -> 0 .. MaxAwaits]
              /\ state' \in [Coroutines -> {"new", "running", "suspended", "done", "destroyed"}]
    <3>1. suspensions[handle[t]] \in Nat /\ MaxAwaits \in Nat
      BY <2>1
    <3>2. suspensions[handle[t]] < MaxAwaits
      BY <2>2 DEF Suspend
    <3>3. suspensions[handle[t]] + 1 \in 0 .. MaxAwaits
      BY <3>1, <3>2, OneMore, Zenon
    <3> QED
      BY <2>1, <2>2, <3>3 DEF Suspend
  <2>3. CASE AwaitSchedule(t)
    BY <2>2, <2>3 DEF AwaitSchedule
  <2>4. ASSUME NEW d \in Detached, AwaitDetached(t, d) PROVE TypeOK'
    BY <2>1, <2>2, <2>4 DEF AwaitDetached
  <2>5. CASE Finish(t)
    BY <2>1, <2>5 DEF Finish
  <2> QED
    BY <1>5, <2>3, <2>4, <2>5 DEF RunCoroutine
<1>6. ASSUME NEW w \in Workers, NEW v \in Workers, TakeFrom(w, v)
      PROVE /\ local_queue' \in [Workers -> Seq(Coroutines)]
            /\ handle' \in [Threads -> Coroutines \cup {Nobody}]
  BY <1>6, Taken DEF TakeFrom
<1>7. ASSUME NEW w \in Workers, Search(w) PROVE TypeOK'
  <2>0. 1 \in 1 .. NumWorkers
    OBVIOUS
  <2>1. CASE LoadShutdown(w) \/ LocalIsEmpty(w)
    BY <2>1 DEF LoadShutdown, LocalIsEmpty
  <2>2. CASE StealNothing(w)
    BY <2>0, <2>2 DEF StealNothing
  <2>5. CASE SkipVictim(w)
    <3>1. victim[w] \in Nat /\ NumWorkers \in Nat
      OBVIOUS
    <3>2. victim[w] < NumWorkers
      BY <2>5 DEF SkipVictim
    <3>3. victim[w] + 1 \in 1 .. NumWorkers
      BY <3>1, <3>2, OneMore, Zenon
    <3> QED
      BY <2>5, <3>3 DEF SkipVictim
  <2>3. CASE TakeLocal(w)
    BY <1>6, <2>3 DEF TakeLocal
  <2>4. CASE Steal(w)
    <3>1. Victim(w) \in Workers
      BY <2>4 DEF Steal
    <3> QED
      BY <1>6, <2>0, <2>4, <3>1 DEF Steal
  <2> QED
    BY <1>7, <2>1, <2>2, <2>3, <2>4, <2>5 DEF Search
<1>8. ASSUME NEW w \in Workers, Execute(w) \/ DestroyWorker(w) PROVE TypeOK'
  <2>1. CASE Resume(w)
    BY <2>1 DEF Resume
  <2>2. CASE CheckDone(w)
    <3>1. active_tasks \in Nat \ {0}
      BY <2>2, CheckIsCovered DEF CheckDone
    <3>2. active_tasks' \in Nat
      BY <2>2, <3>1 DEF CheckDone
    <3> QED
      BY <2>2, <3>2 DEF CheckDone
  <2>3. CASE DestroyWorker(w)
    BY <2>3 DEF DestroyWorker
  <2> QED
    BY <1>8, <2>1, <2>2, <2>3 DEF Execute
<1>9. CASE Shutdown \/ UNCHANGED vars
  BY <1>9 DEF Shutdown, vars
<1> QED
  BY <1>1, <1>2, <1>3, <1>4, <1>5, <1>7, <1>8, <1>9, <1>10 DEF Next, Schedule

-----------------------------------------------------------------------------
(* Places.  What a step does to the queues and to the hands of the threads.  *)

Base == TypeOK /\ RolesInv /\ StatesMatch /\ PlaceInv

LEMMA OneMoves ==
  ASSUME TypeOK, RolesInv, NEW t \in Threads, NEW place, pc' = [pc EXCEPT ![t] = place],
         \A u \in Threads \ {t} : handle'[u] = handle[u], Role(t, place, handle'[t])
  PROVE RolesInv'
  BY DEF TypeOK, RolesInv

LEMMA RolesStep == Base /\ [Next]_vars => RolesInv'
<1> SUFFICES ASSUME Base, [Next]_vars PROVE RolesInv'
  OBVIOUS
<1>0. TypeOK /\ RolesInv /\ \A t \in Threads : Role(t, pc[t], handle[t])
  BY DEF Base, RolesInv
<1>k. /\ Client \in Threads /\ Workers \subseteq Threads /\ Detached \subseteq Threads
      /\ Client \notin Workers /\ Client \notin Coroutines
      /\ \A t : t \in Workers => t \notin Detached /\ t # Client
      /\ \A t : t \in Detached => t \notin Workers /\ t # Client
  BY ConstantsAssumption DEF Threads
<1> USE DEF Role, Empty, Scheduling, Goto, LetGo, Back, Nobody
<1>1. ASSUME NEW c \in Coroutines, StartCoroutine(c) PROVE RolesInv'
  <2>1. /\ pc' = [pc EXCEPT ![Client] = "running"]
        /\ handle'[Client] = c /\ \A u \in Threads \ {Client} : handle'[u] = handle[u]
    BY <1>0, <1>1, <1>k DEF StartCoroutine, TypeOK
  <2>2. Role(Client, "running", handle'[Client])
    BY <1>k, <2>1
  <2> QED
    BY <1>0, <1>k, <2>1, <2>2, OneMoves
<1>2. ASSUME NEW d \in Detached, DetachedWakes(d) PROVE RolesInv'
  <2>1. pc' = [pc EXCEPT ![d] = "count"] /\ UNCHANGED handle /\ pc[d] = "sleep"
    BY <1>2 DEF DetachedWakes
  <2>2. Role(d, "count", handle'[d])
    BY <1>0, <1>k, <2>1
  <2> QED
    BY <1>0, <1>k, <2>1, <2>2, OneMoves
<1>3. ASSUME NEW t \in Threads, Count(t) \/ Choose(t) PROVE RolesInv'
  <2>1. PICK place \in {"choose", "push"} :
          pc' = [pc EXCEPT ![t] = place] /\ UNCHANGED handle /\ pc[t] \in {"count", "choose"}
    BY <1>3, Zenon DEF Count, Choose
  <2>2. Role(t, place, handle'[t])
    BY <1>0, <1>k, <2>1 DEF Threads
  <2> QED
    BY <1>0, <2>1, <2>2, OneMoves
<1>11. ASSUME NEW t \in Threads, UseDestroyed(t) PROVE RolesInv'
  <2>1. pc' = [pc EXCEPT ![t] = "undefined"] /\ handle' = [handle EXCEPT ![t] = Nobody]
    BY <1>11, Zenon DEF UseDestroyed
  <2>2. handle'[t] = Nobody /\ \A u \in Threads \ {t} : handle'[u] = handle[u]
    BY <1>0, <2>1 DEF TypeOK
  <2>3. Role(t, "undefined", handle'[t])
    BY <1>k, <2>2
  <2> QED
    BY <1>0, <2>1, <2>2, <2>3, OneMoves
<1>4. ASSUME NEW t \in Threads, Push(t) PROVE RolesInv'
  <2>1. /\ pc' = [pc EXCEPT ![t] = "notify"] /\ pc[t] = "push"
        /\ handle'[t] = (IF t \in Workers THEN handle[t] ELSE Nobody)
        /\ \A u \in Threads \ {t} : handle'[u] = handle[u]
    BY <1>0, <1>4 DEF Push, TypeOK
  <2>2. Role(t, "notify", handle'[t])
    BY <1>0, <1>k, <2>1 DEF Threads
  <2> QED
    BY <1>0, <2>1, <2>2, OneMoves
<1>12. ASSUME NEW t \in Threads, Notify(t) PROVE RolesInv'
  <2>1. pc' = [pc EXCEPT ![t] = Back(t)] /\ pc[t] = "notify" /\ UNCHANGED handle
    BY <1>12, Zenon DEF Notify
  <2>2. Role(t, Back(t), handle'[t])
    BY <1>0, <1>k, <2>1 DEF Threads
  <2> QED
    BY <1>0, <2>1, <2>2, OneMoves
<1>5. ASSUME NEW t \in Workers \cup {Client}, AwaitSchedule(t) \/ Finish(t) PROVE RolesInv'
  <2>0. t \in Threads
    BY <1>k
  <2>1. PICK place \in {"count", Back(t)} :
        /\ pc' = [pc EXCEPT ![t] = place] /\ pc[t] = "running"
        /\ handle'[t] = (IF t \in Workers \/ place = "count" THEN handle[t] ELSE Nobody)
        /\ \A u \in Threads \ {t} : handle'[u] = handle[u]
    <3>1. CASE AwaitSchedule(t)
      <4>1. /\ pc' = [pc EXCEPT ![t] = "count"] /\ pc[t] = "running" /\ handle' = handle
        BY <3>1 DEF AwaitSchedule
      <4> QED
        BY <4>1
    <3>2. CASE Finish(t)
      <4>1. /\ pc' = [pc EXCEPT ![t] = Back(t)] /\ pc[t] = "running"
            /\ handle' = [handle EXCEPT ![t] = IF t \in Workers THEN @ ELSE Nobody]
        BY <3>2 DEF Finish
      <4>2. Back(t) # "count"
        OBVIOUS
      <4>3. /\ handle'[t] = (IF t \in Workers THEN handle[t] ELSE Nobody)
            /\ \A u \in Threads \ {t} : handle'[u] = handle[u]
        BY <1>0, <2>0, <4>1 DEF TypeOK
      <4> QED
        BY <4>1, <4>2, <4>3
    <3> QED
      BY <1>5, <3>1, <3>2
  <2>2. Role(t, place, handle'[t])
    BY <1>0, <1>k, <2>1
  <2> QED
    BY <1>0, <1>k, <2>1, <2>2, OneMoves
<1>6. ASSUME NEW t \in Workers \cup {Client}, NEW d \in Detached, AwaitDetached(t, d)
      PROVE RolesInv'
  <2>1. /\ t \in Threads /\ d \in Threads /\ d # t
        /\ pc[t] = "running" /\ handle[t] \in Coroutines
    BY <1>0, <1>6, <1>k DEF AwaitDetached
  <2>2. /\ pc'[d] = "sleep" /\ handle'[d] = handle[t]
        /\ pc'[t] = Back(t) /\ handle'[t] = (IF t \in Workers THEN handle[t] ELSE Nobody)
        /\ \A u \in Threads \ {d, t} : pc'[u] = pc[u] /\ handle'[u] = handle[u]
    BY <1>0, <1>6, <2>1 DEF AwaitDetached, TypeOK
  <2>3. Role(d, pc'[d], handle'[d]) /\ Role(t, pc'[t], handle'[t])
    BY <1>k, <2>1, <2>2
  <2> QED
    BY <1>0, <2>2, <2>3 DEF RolesInv
<1>7. ASSUME NEW w \in Workers, TakeLocal(w) \/ Steal(w) PROVE RolesInv'
  <2>1. PICK v \in Workers : TakeFrom(w, v)
    BY <1>0, <1>7, ConstantsAssumption DEF TakeLocal, Steal, TypeOK
  <2>2. handle'[w] \in Coroutines /\ \A u \in Threads \ {w} : handle'[u] = handle[u]
    BY <1>0, <1>k, <2>1, Taken DEF TakeFrom, TypeOK
  <2>3. pc' = [pc EXCEPT ![w] = "resume"]
    BY <1>7 DEF TakeLocal, Steal
  <2>4. Role(w, "resume", handle'[w])
    BY <1>k, <2>2
  <2> QED
    BY <1>0, <1>k, <2>2, <2>3, <2>4, OneMoves
<1>8. ASSUME NEW w \in Workers,
             \/ LoadShutdown(w) \/ LocalIsEmpty(w) \/ StealNothing(w)
             \/ Resume(w) \/ CheckDone(w)
      PROVE RolesInv'
  <2>1. PICK place \in {"exited", "local", "steal", "top", "running"} :
          /\ pc' = [pc EXCEPT ![w] = place]
          /\ handle'[w] = (IF place = "running" THEN handle[w] ELSE Nobody)
          /\ \A u \in Threads \ {w} : handle'[u] = handle[u]
          /\ place = "running" => pc[w] = "resume"
    <3>0. w \in Threads
      BY <1>k
    <3>1. CASE CheckDone(w)
      <4>1. pc' = [pc EXCEPT ![w] = "top"] /\ handle' = [handle EXCEPT ![w] = Nobody]
        BY <3>1 DEF CheckDone
      <4> QED
        BY <1>0, <3>0, <4>1 DEF TypeOK
    <3>2. CASE Resume(w)
      BY <3>2 DEF Resume
    <3>3. CASE LoadShutdown(w) \/ LocalIsEmpty(w) \/ StealNothing(w)
      <4>1. PICK place \in {"exited", "local", "steal", "top"} :
              pc' = [pc EXCEPT ![w] = place]
        BY <3>3 DEF LoadShutdown, LocalIsEmpty, StealNothing
      <4>2. UNCHANGED handle /\ pc[w] \in {"top", "local", "steal"}
        BY <3>3 DEF LoadShutdown, LocalIsEmpty, StealNothing
      <4>3. handle[w] = Nobody
        BY <1>0, <3>0, <4>2
      <4> QED
        BY <4>1, <4>2, <4>3
    <3> QED
      BY <1>8, <3>1, <3>2, <3>3
  <2>2. Role(w, place, handle'[w])
    BY <1>0, <1>k, <2>1
  <2> QED
    BY <1>0, <1>k, <2>1, <2>2, OneMoves
<1>9. CASE UNCHANGED <<pc, handle>>
  BY <1>0, <1>9 DEF RolesInv
<1>10. ASSUME \/ Shutdown \/ UNCHANGED vars
              \/ \E w \in Workers : SkipVictim(w) \/ DestroyWorker(w)
              \/ \E c \in Coroutines : DropTask(c)
       PROVE RolesInv'
  BY <1>9, <1>10 DEF Shutdown, vars, SkipVictim, DestroyWorker, DropTask
<1> QED
  BY <1>1, <1>2, <1>3, <1>4, <1>5, <1>6, <1>7, <1>8, <1>10, <1>11, <1>12
  DEF Next, Schedule, RunCoroutine, Search, Execute

\* A step that leaves the queues and the hands alone, and takes no thread to
\* where it would carry a coroutine.
LEMMA QuietStep ==
  ASSUME Base, UNCHANGED local_queue,
         \A t \in Threads : pc'[t] \in Carrying /\ handle'[t] \in Coroutines =>
           /\ pc[t] \in Carrying /\ handle'[t] = handle[t]
           /\ pc'[t] = "running" <=> pc[t] = "running",
         \A t \in Threads : handle'[t] \in Coroutines \cup {Nobody},
         \A c \in Coroutines :
           state'[c] = state[c]
             \/ (state[c] # "suspended" /\ \A t \in Threads : pc'[t] \in Carrying => handle'[t] # c)
  PROVE StatesMatch' /\ PlaceInv'
<1>1. \A w \in Workers : \A k \in DOMAIN local_queue[w] : local_queue[w][k] \in Coroutines
  BY DEF Base, TypeOK
<1>2. StatesMatch'
  BY <1>1 DEF Base, StatesMatch
<1>3. QueuedOnce'
  BY DEF Base, PlaceInv, QueuedOnce
<1>4. CarriedOnce'
  BY DEF Base, PlaceInv, CarriedOnce
<1>5. NotCarriedAndQueued'
  BY <1>1 DEF Base, PlaceInv, NotCarriedAndQueued
<1> QED
  BY <1>2, <1>3, <1>4, <1>5 DEF PlaceInv

\* A step that leaves the queues alone, after which thread u alone has coroutine c
\* in its hands, which was in no queue.
LEMMA HandOver ==
  ASSUME Base, UNCHANGED local_queue, NEW c \in Coroutines, NEW u \in Threads,
         \A w \in Workers : \A k \in DOMAIN local_queue[w] : local_queue[w][k] # c,
         pc'[u] \in Carrying, handle'[u] = c,
         state'[c] = IF pc'[u] = "running" THEN "running" ELSE "suspended",
         \A d \in Coroutines \ {c} : state'[d] = state[d],
         \A t \in Threads \ {u} : pc'[t] \in Carrying /\ handle'[t] # Nobody =>
           /\ pc[t] \in Carrying /\ handle'[t] = handle[t] /\ handle[t] # c
           /\ pc'[t] = "running" <=> pc[t] = "running"
  PROVE StatesMatch' /\ PlaceInv'
<1>1. \A w \in Workers : \A k \in DOMAIN local_queue[w] : local_queue[w][k] \in Coroutines
  BY DEF Base, TypeOK
<1>k. Nobody \notin Coroutines
  BY ConstantsAssumption DEF Nobody
<1>2. StatesMatch'
  <2>1. \A w \in Workers : \A k \in DOMAIN local_queue[w] : state'[local_queue[w][k]] = "suspended"
    BY <1>1 DEF Base, StatesMatch
  <2>2. ASSUME NEW t \in Threads, handle'[t] \in Coroutines, pc'[t] \in Carrying
        PROVE state'[handle'[t]] = IF pc'[t] = "running" THEN "running" ELSE "suspended"
    <3>1. CASE t = u
      BY <3>1
    <3>2. CASE t # u
      BY <1>k, <2>2, <3>2 DEF Base, StatesMatch
    <3> QED
      BY <3>1, <3>2
  <2> QED
    BY <2>1, <2>2 DEF StatesMatch
<1>3. QueuedOnce'
  BY DEF Base, PlaceInv, QueuedOnce
<1>4. CarriedOnce'
  BY <1>k DEF Base, PlaceInv, CarriedOnce
<1>5. NotCarriedAndQueued'
  BY <1>1, <1>k DEF Base, PlaceInv, NotCarriedAndQueued
<1> QED
  BY <1>2, <1>3, <1>4, <1>5 DEF PlaceInv

\* Who has a coroutine in its hands has it alone, and it is in no queue.
LEMMA InHisHands ==
  ASSUME Base, NEW t \in Threads, pc[t] \in Carrying, handle[t] \in Coroutines
  PROVE /\ \A u \in Threads \ {t} : pc[u] \in Carrying => handle[u] # handle[t]
        /\ \A w \in Workers : \A k \in DOMAIN local_queue[w] : local_queue[w][k] # handle[t]
        /\ state[handle[t]] = IF pc[t] = "running" THEN "running" ELSE "suspended"
  BY ConstantsAssumption DEF Base, PlaceInv, CarriedOnce, NotCarriedAndQueued, StatesMatch, Nobody

\* Taking the front of a queue.
LEMMA TakePlaces ==
  ASSUME Base, NEW w \in Workers, NEW v \in Workers, TakeFrom(w, v),
         pc' = [pc EXCEPT ![w] = "resume"], UNCHANGED state
  PROVE StatesMatch' /\ PlaceInv'
<1> DEFINE q == local_queue[v]
           c == Head(q)
<1>0. /\ \A x \in Workers : local_queue[x] \in Seq(Coroutines)
      /\ q # <<>> /\ w \in Threads
      /\ \A x \in Workers : local_queue'[x] = IF x = v THEN Tail(q) ELSE local_queue[x]
      /\ handle'[w] = c /\ pc'[w] = "resume"
      /\ \A u \in Threads \ {w} : handle'[u] = handle[u] /\ pc'[u] = pc[u]
  BY DEF Base, TypeOK, TakeFrom, Threads
<1>1. /\ c \in Coroutines /\ c = q[1] /\ 1 \in DOMAIN q
      /\ \A k \in DOMAIN Tail(q) :
            k \in Nat /\ k + 1 # 1 /\ k + 1 \in DOMAIN q /\ Tail(q)[k] = q[k + 1]
  BY <1>0, Taken
<1>2. \A x \in Workers : \A k \in DOMAIN local_queue'[x] :
        /\ local_queue'[x][k] \in Coroutines
        /\ \E l \in DOMAIN local_queue[x] :
             /\ local_queue'[x][k] = local_queue[x][l]
             /\ IF x = v THEN l = k + 1 /\ l # 1 /\ k \in Nat ELSE l = k
  <2> SUFFICES ASSUME NEW x \in Workers, NEW k \in DOMAIN local_queue'[x]
               PROVE \E l \in DOMAIN local_queue[x] :
                       /\ local_queue[x][l] \in Coroutines
                       /\ local_queue'[x][k] = local_queue[x][l]
                       /\ IF x = v THEN l = k + 1 /\ l # 1 /\ k \in Nat ELSE l = k
    OBVIOUS
  <2>0. \A l \in DOMAIN local_queue[x] : local_queue[x][l] \in Coroutines
    BY <1>0
  <2>1. CASE x = v
    <3>1. local_queue'[x] = Tail(q) /\ local_queue[x] = q
      BY <1>0, <2>1
    <3>2. k \in Nat /\ k + 1 # 1 /\ k + 1 \in DOMAIN q /\ Tail(q)[k] = q[k + 1]
      BY <1>1, <3>1
    <3> QED
      BY <2>0, <2>1, <3>1, <3>2
  <2>2. CASE x # v
    BY <1>0, <2>0, <2>2
  <2> QED
    BY <2>1, <2>2
<1> HIDE DEF c, q
<1>3. StatesMatch'
  <2>1. \A x \in Workers : \A k \in DOMAIN local_queue'[x] : state'[local_queue'[x][k]] = "suspended"
    BY <1>2 DEF Base, StatesMatch
  <2>2. state[c] = "suspended"
    BY <1>1 DEF Base, StatesMatch, q
  <2>3. ASSUME NEW t \in Threads, handle'[t] \in Coroutines, pc'[t] \in Carrying
        PROVE state'[handle'[t]] = IF pc'[t] = "running" THEN "running" ELSE "suspended"
    BY <1>0, <2>2, <2>3 DEF Base, StatesMatch
  <2> QED
    BY <2>1, <2>3 DEF StatesMatch
<1>4. QueuedOnce'
  <2> SUFFICES ASSUME NEW x \in Workers, NEW y \in Workers,
                      NEW k \in DOMAIN local_queue'[x], NEW l \in DOMAIN local_queue'[y],
                      local_queue'[x][k] = local_queue'[y][l]
               PROVE x = y /\ k = l
    BY DEF QueuedOnce
  <2>1. PICK i \in DOMAIN local_queue[x] :
          /\ local_queue'[x][k] = local_queue[x][i]
          /\ IF x = v THEN i = k + 1 /\ i # 1 /\ k \in Nat ELSE i = k
    BY <1>2
  <2>2. PICK j \in DOMAIN local_queue[y] :
          /\ local_queue'[y][l] = local_queue[y][j]
          /\ IF y = v THEN j = l + 1 /\ j # 1 /\ l \in Nat ELSE j = l
    BY <1>2
  <2>3. local_queue[x][i] = local_queue[y][j]
    BY <2>1, <2>2
  <2>4. x = y /\ i = j
    BY <2>3, Zenon DEF Base, PlaceInv, QueuedOnce
  <2> QED
    BY <2>1, <2>2, <2>4, SMTT(20)
<1>5. \A x \in Workers : \A k \in DOMAIN local_queue'[x] : local_queue'[x][k] # c
  <2> SUFFICES ASSUME NEW x \in Workers, NEW k \in DOMAIN local_queue'[x], local_queue'[x][k] = c
               PROVE FALSE
    OBVIOUS
  <2>1. PICK i \in DOMAIN local_queue[x] :
          /\ local_queue'[x][k] = local_queue[x][i]
          /\ IF x = v THEN i # 1 ELSE TRUE
    BY <1>2
  <2>2. x = v /\ i = 1
    BY <1>1, <2>1 DEF Base, PlaceInv, QueuedOnce, q
  <2> QED
    BY <2>1, <2>2
<1>6. \A t \in Threads : pc[t] \in Carrying => handle[t] # c
  BY <1>1 DEF Base, PlaceInv, NotCarriedAndQueued, q
<1>7. CarriedOnce'
  BY <1>0, <1>6 DEF Base, PlaceInv, CarriedOnce
<1>8. NotCarriedAndQueued'
  BY <1>0, <1>2, <1>5 DEF Base, PlaceInv, NotCarriedAndQueued
<1> QED
  BY <1>3, <1>4, <1>7, <1>8 DEF PlaceInv

\* Pushing a coroutine, by the thread that has it in its hands.
LEMMA PushPlaces ==
  ASSUME Base, NEW t \in Threads, Push(t)
  PROVE StatesMatch' /\ PlaceInv'
<1> DEFINE v == target[t]
           q == local_queue[v]
           c == handle[t]
           n == Len(q) + 1
<1>0. /\ v \in Workers /\ \A x \in Workers : local_queue[x] \in Seq(Coroutines)
      /\ pc[t] = "push" /\ pc'[t] = "notify" /\ UNCHANGED state
      /\ \A x \in Workers : local_queue'[x] = IF x = v THEN Append(q, c) ELSE local_queue[x]
      /\ \A u \in Threads \ {t} : handle'[u] = handle[u] /\ pc'[u] = pc[u]
  BY DEF Base, TypeOK, Push, Goto, LetGo, frames
<1>k. pc[t] \in Carrying /\ pc'[t] \notin Carrying
  BY <1>0 DEF Carrying, Scheduling
<1>1. c \in Coroutines
  BY <1>0 DEF Base, RolesInv, Role, Empty
<1>2. /\ \A x \in Workers : DOMAIN local_queue[x] = 1 .. Len(local_queue[x])
      /\ n \notin DOMAIN q /\ DOMAIN Append(q, c) = DOMAIN q \cup {n}
      /\ Append(q, c)[n] = c /\ \A k \in DOMAIN q : Append(q, c)[k] = q[k]
  <2>1. \A x \in Workers : DOMAIN local_queue[x] = 1 .. Len(local_queue[x])
    BY <1>0, LenProperties
  <2>2. /\ DOMAIN q = 1 .. Len(q) /\ Len(q) \in Nat
        /\ DOMAIN Append(q, c) = 1 .. Len(q) + 1
        /\ Append(q, c)[Len(q) + 1] = c
        /\ \A k \in DOMAIN q : Append(q, c)[k] = q[k]
    BY <1>0, <1>1, Appended
  <2> QED
    BY <2>1, <2>2
<1>3. \A x \in Workers : \A k \in DOMAIN local_queue'[x] :
        \/ k \in DOMAIN local_queue[x] /\ local_queue'[x][k] = local_queue[x][k]
        \/ x = v /\ k = n /\ local_queue'[x][k] = c
  BY <1>0, <1>2
<1>4. /\ \A u \in Threads \ {t} : pc[u] \in Carrying => handle[u] # c
      /\ \A w \in Workers : \A k \in DOMAIN local_queue[w] : local_queue[w][k] # c
      /\ state[c] = "suspended"
  BY <1>0, <1>1, <1>k, InHisHands
<1> HIDE DEF c, q, n, v
<1>5. StatesMatch'
  <2>1. \A x \in Workers : \A k \in DOMAIN local_queue'[x] : state'[local_queue'[x][k]] = "suspended"
    BY <1>0, <1>3, <1>4 DEF Base, StatesMatch
  <2>2. \A u \in Threads : handle'[u] \in Coroutines /\ pc'[u] \in Carrying =>
          state'[handle'[u]] = IF pc'[u] = "running" THEN "running" ELSE "suspended"
    BY <1>0, <1>k DEF Base, StatesMatch
  <2> QED
    BY <2>1, <2>2 DEF StatesMatch
<1>6. QueuedOnce'
  BY <1>3, <1>4 DEF Base, PlaceInv, QueuedOnce
<1>7. CarriedOnce'
  BY <1>0, <1>k DEF Base, PlaceInv, CarriedOnce
<1>8. NotCarriedAndQueued'
  BY <1>0, <1>k, <1>3, <1>4 DEF Base, PlaceInv, NotCarriedAndQueued
<1> QED
  BY <1>5, <1>6, <1>7, <1>8 DEF PlaceInv

LEMMA PlacesStep == Base /\ TypeOK' /\ [Next]_vars => StatesMatch' /\ PlaceInv'
<1> SUFFICES ASSUME Base, TypeOK', [Next]_vars PROVE StatesMatch' /\ PlaceInv'
  OBVIOUS
<1>0. TypeOK /\ RolesInv /\ \A t \in Threads : Role(t, pc[t], handle[t])
  BY DEF Base, RolesInv
<1>k. /\ Client \in Threads /\ Workers \subseteq Threads /\ Detached \subseteq Threads
      /\ Client \notin Workers /\ Client \notin Coroutines
      /\ \A t : t \in Workers => t \notin Detached /\ t # Client
      /\ \A t : t \in Detached => t \notin Workers /\ t # Client
  BY ConstantsAssumption DEF Threads
<1>t. \A t \in Threads : handle'[t] \in Coroutines \cup {Nobody}
  BY DEF TypeOK
<1>q. \A w \in Workers : \A k \in DOMAIN local_queue[w] :
        local_queue[w][k] \in Coroutines /\ state[local_queue[w][k]] = "suspended"
  BY <1>0 DEF Base, StatesMatch, TypeOK
<1>c. \A t \in Threads : handle[t] \in Coroutines /\ pc[t] \in Carrying
        => state[handle[t]] = IF pc[t] = "running" THEN "running" ELSE "suspended"
  BY DEF Base, StatesMatch
<1> USE DEF Goto, LetGo, Nobody
<1>1. ASSUME NEW c \in Coroutines, StartCoroutine(c) PROVE StatesMatch' /\ PlaceInv'
  <2>1. /\ UNCHANGED local_queue /\ pc'[Client] = "running" /\ handle'[Client] = c
        /\ \A t \in Threads \ {Client} : pc'[t] = pc[t] /\ handle'[t] = handle[t]
        /\ state[c] = "new" /\ state'[c] = "running"
        /\ \A d \in Coroutines \ {c} : state'[d] = state[d]
    BY <1>0, <1>1, <1>k DEF StartCoroutine, TypeOK
  <2>2. \A w \in Workers : \A k \in DOMAIN local_queue[w] : local_queue[w][k] # c
    BY <1>q, <2>1
  <2>3. \A t \in Threads : pc[t] \in Carrying => handle[t] # c
    BY <1>c, <2>1
  <2> QED
    BY <1>k, <2>1, <2>2, <2>3, HandOver DEF Carrying
<1>2. ASSUME NEW t \in Workers \cup {Client}, AwaitSchedule(t) PROVE StatesMatch' /\ PlaceInv'
  <2>0. t \in Threads /\ pc[t] = "running" /\ handle[t] \in Coroutines /\ pc[t] \in Carrying
    BY <1>0, <1>2, <1>k DEF AwaitSchedule, Role, Empty, Scheduling, Carrying
  <2>1. /\ UNCHANGED <<local_queue, handle>> /\ pc'[t] = "count"
        /\ \A u \in Threads \ {t} : pc'[u] = pc[u]
        /\ state'[handle[t]] = "suspended"
        /\ \A d \in Coroutines \ {handle[t]} : state'[d] = state[d]
    BY <1>0, <1>2, <2>0 DEF AwaitSchedule, Suspend, TypeOK
  <2> QED
    BY <2>0, <2>1, HandOver, InHisHands DEF Carrying, Scheduling
<1>3. ASSUME NEW t \in Workers \cup {Client}, NEW d \in Detached, AwaitDetached(t, d)
      PROVE StatesMatch' /\ PlaceInv'
  <2> DEFINE c == handle[t]
  <2>0. t \in Threads /\ pc[t] = "running" /\ c \in Coroutines /\ pc[t] \in Carrying
    BY <1>0, <1>3, <1>k DEF AwaitDetached, Role, Empty, Scheduling, Carrying
  <2>1. d \in Threads /\ d # t
    BY <1>k
  <2>2. /\ UNCHANGED local_queue
        /\ pc'[d] = "sleep" /\ handle'[d] = c /\ pc'[t] = Back(t)
        /\ \A u \in Threads \ {d, t} : pc'[u] = pc[u] /\ handle'[u] = handle[u]
        /\ state'[c] = "suspended"
        /\ \A e \in Coroutines \ {c} : state'[e] = state[e]
    BY <1>0, <1>3, <2>0, <2>1 DEF AwaitDetached, Suspend, TypeOK
  <2>3. pc'[t] \notin Carrying
    BY <2>2 DEF Back, Carrying, Scheduling
  <2>4. /\ \A u \in Threads \ {t} : pc[u] \in Carrying => handle[u] # c
        /\ \A w \in Workers : \A k \in DOMAIN local_queue[w] : local_queue[w][k] # c
    BY <2>0, InHisHands
  <2>5. \A u \in Threads \ {d} : pc'[u] \in Carrying =>
          /\ pc[u] \in Carrying /\ handle'[u] = handle[u] /\ handle[u] # c
          /\ pc'[u] = "running" <=> pc[u] = "running"
    BY <2>2, <2>3, <2>4
  <2>6. pc'[d] \in Carrying
    BY <2>2 DEF Carrying
  <2> HIDE DEF c
  <2>7. state'[c] = IF pc'[d] = "running" THEN "running" ELSE "suspended"
    BY <2>2
  <2> QED
    BY <2>0, <2>1, <2>2, <2>4, <2>5, <2>6, <2>7, HandOver
<1>4. ASSUME NEW w \in Workers, Resume(w) PROVE StatesMatch' /\ PlaceInv'
  <2>0. w \in Threads /\ pc[w] = "resume" /\ handle[w] \in Coroutines /\ pc[w] \in Carrying
    BY <1>0, <1>4, <1>k DEF Resume, Role, Empty, Scheduling, Carrying
  <2>1. /\ UNCHANGED <<local_queue, handle>> /\ pc'[w] = "running"
        /\ \A u \in Threads \ {w} : pc'[u] = pc[u]
        /\ state'[handle[w]] = "running"
        /\ \A d \in Coroutines \ {handle[w]} : state'[d] = state[d]
    BY <1>0, <1>4, <2>0 DEF Resume, TypeOK
  <2> QED
    BY <2>0, <2>1, HandOver, InHisHands DEF Carrying
<1>5. ASSUME NEW w \in Workers, TakeLocal(w) \/ Steal(w) PROVE StatesMatch' /\ PlaceInv'
  <2>1. PICK v \in Workers : TakeFrom(w, v)
    BY <1>0, <1>5, ConstantsAssumption DEF TakeLocal, Steal, TypeOK
  <2>2. pc' = [pc EXCEPT ![w] = "resume"] /\ UNCHANGED state
    BY <1>5 DEF TakeLocal, Steal, frames
  <2> QED
    BY <2>1, <2>2, TakePlaces
<1>6. ASSUME NEW t \in Workers \cup {Client}, Finish(t) PROVE StatesMatch' /\ PlaceInv'
  <2>0. t \in Threads /\ pc[t] = "running" /\ handle[t] \in Coroutines /\ pc[t] \in Carrying
    BY <1>0, <1>6, <1>k DEF Finish, Role, Empty, Scheduling, Carrying
  <2>1. /\ UNCHANGED local_queue /\ pc'[t] = Back(t)
        /\ \A u \in Threads \ {t} : pc'[u] = pc[u] /\ handle'[u] = handle[u]
        /\ \A d \in Coroutines \ {handle[t]} : state'[d] = state[d]
    BY <1>0, <1>6, <2>0 DEF Finish, TypeOK
  <2>2. pc'[t] \notin Carrying
    BY <2>1 DEF Back, Carrying, Scheduling
  <2>3. state[handle[t]] = "running" /\ \A u \in Threads \ {t} : pc[u] \in Carrying => handle[u] # handle[t]
    BY <2>0, InHisHands
  <2>4. \A u \in Threads : pc'[u] \in Carrying =>
          u # t /\ pc[u] \in Carrying /\ handle'[u] = handle[u] /\ pc'[u] = pc[u]
    BY <2>1, <2>2
  <2> QED
    BY <1>t, <2>1, <2>3, <2>4, QuietStep
<1>7. ASSUME NEW c \in Coroutines, DropTask(c) PROVE StatesMatch' /\ PlaceInv'
  <2>1. /\ UNCHANGED <<local_queue, pc, handle>> /\ state[c] = "done"
        /\ \A d \in Coroutines \ {c} : state'[d] = state[d]
    BY <1>0, <1>7 DEF DropTask, MayDrop, TypeOK
  <2>2. \A t \in Threads : pc[t] \in Carrying => handle[t] # c
    BY <1>c, <2>1
  <2> QED
    BY <1>t, <2>1, <2>2, QuietStep
<1>8. ASSUME NEW t \in Threads, NEW place, pc' = [pc EXCEPT ![t] = place], UNCHANGED <<local_queue, state>>,
             \A u \in Threads \ {t} : handle'[u] = handle[u],
             \/ place \notin Carrying
             \/ handle'[t] = Nobody
             \/ pc[t] \in Carrying \ {"running"} /\ handle'[t] = handle[t] /\ place # "running"
      PROVE StatesMatch' /\ PlaceInv'
  <2>1. pc'[t] = place /\ \A u \in Threads \ {t} : pc'[u] = pc[u]
    BY <1>0, <1>8 DEF TypeOK
  <2> QED
    BY <1>8, <1>k, <1>t, <2>1, QuietStep
<1>9. ASSUME NEW t \in Threads, Count(t) \/ Choose(t) PROVE StatesMatch' /\ PlaceInv'
  <2>1. PICK place \in {"choose", "push"} : pc' = [pc EXCEPT ![t] = place]
    BY <1>9 DEF Count, Choose
  <2>2. UNCHANGED <<local_queue, state, handle>> /\ pc[t] \in {"count", "choose"}
    BY <1>9 DEF Count, Choose, frames
  <2> QED
    BY <1>8, <2>1, <2>2 DEF Carrying, Scheduling
<1>14. ASSUME NEW t \in Threads, Notify(t) \/ UseDestroyed(t) PROVE StatesMatch' /\ PlaceInv'
  <2>1. PICK place \in {Back(t), "undefined"} : pc' = [pc EXCEPT ![t] = place]
    BY <1>14, Zenon DEF Notify, UseDestroyed
  <2>2. place \notin Carrying
    BY <2>1 DEF Back, Carrying, Scheduling
  <2>3. UNCHANGED <<local_queue, state>> /\ \A u \in Threads \ {t} : handle'[u] = handle[u]
    <3>1. CASE Notify(t)
      BY <3>1 DEF Notify, frames
    <3>2. CASE UseDestroyed(t)
      <4>1. UNCHANGED <<local_queue, state>> /\ handle' = [handle EXCEPT ![t] = Nobody]
        BY <3>2, Zenon DEF UseDestroyed, frames
      <4> QED
        BY <1>0, <4>1 DEF TypeOK
    <3> QED
      BY <1>14, <3>1, <3>2
  <2> QED
    BY <1>8, <2>1, <2>2, <2>3
<1>10. ASSUME NEW d \in Detached, DetachedWakes(d) PROVE StatesMatch' /\ PlaceInv'
  <2>1. /\ pc' = [pc EXCEPT ![d] = "count"] /\ pc[d] = "sleep" /\ d \in Threads
        /\ UNCHANGED <<local_queue, state, handle>>
    BY <1>10, <1>k DEF DetachedWakes, frames
  <2> QED
    BY <1>8, <2>1 DEF Carrying, Scheduling
<1>11. ASSUME NEW w \in Workers,
              \/ LoadShutdown(w) \/ LocalIsEmpty(w) \/ StealNothing(w)
              \/ CheckDone(w)
       PROVE StatesMatch' /\ PlaceInv'
  <2>0. w \in Threads
    BY <1>k
  <2>1. PICK place \in {"exited", "local", "steal", "top"} : pc' = [pc EXCEPT ![w] = place]
    BY <1>11 DEF LoadShutdown, LocalIsEmpty, StealNothing, CheckDone
  <2>2. UNCHANGED <<local_queue, state>> /\ \A u \in Threads \ {w} : handle'[u] = handle[u]
    <3>1. CASE CheckDone(w)
      BY <1>0, <3>1 DEF CheckDone, frames, TypeOK
    <3>2. CASE LoadShutdown(w) \/ LocalIsEmpty(w) \/ StealNothing(w)
      BY <3>2 DEF LoadShutdown, LocalIsEmpty, StealNothing, frames
    <3> QED
      BY <1>11, <3>1, <3>2
  <2> QED
    BY <1>8, <2>0, <2>1, <2>2 DEF Carrying, Scheduling
<1>12. CASE UNCHANGED <<local_queue, state, pc, handle>>
  BY <1>12, <1>t, QuietStep
<1>13. ASSUME \/ Shutdown \/ UNCHANGED vars
              \/ \E w \in Workers : SkipVictim(w) \/ DestroyWorker(w)
       PROVE StatesMatch' /\ PlaceInv'
  BY <1>12, <1>13 DEF Shutdown, vars, SkipVictim, DestroyWorker, frames
<1> QED
  BY <1>1, <1>2, <1>3, <1>4, <1>5, <1>6, <1>7, <1>9, <1>10, <1>11, <1>13, <1>14, PushPlaces
  DEF Next, Schedule, RunCoroutine, Search, Execute

-----------------------------------------------------------------------------
(* What active_tasks counts.                                                 *)

LEMMA TheEntries ==
  ASSUME NEW queues
  PROVE \A e : e \in UNION {{<<w, k>> : k \in DOMAIN queues[w]} : w \in Workers}
               <=> \E w \in Workers : \E k \in DOMAIN queues[w] : e = <<w, k>>
<1> DEFINE Of(w) == {<<w, k>> : k \in DOMAIN queues[w]}
<1>1. \A e, w : e \in Of(w) <=> \E k \in DOMAIN queues[w] : e = <<w, k>>
  BY Zenon
<1> HIDE DEF Of
<1>2. \A e : e \in UNION {Of(w) : w \in Workers} <=> \E w \in Workers : e \in Of(w)
  OBVIOUS
<1>3. \A e : e \in UNION {Of(w) : w \in Workers}
             <=> \E w \in Workers : \E k \in DOMAIN queues[w] : e = <<w, k>>
  BY <1>1, <1>2, Zenon
<1> QED
  BY <1>3, Zenon DEF Of

\* A step that counts nothing, queues nothing and starts nothing to be looked at.
LEMMA NothingMore ==
  ASSUME TypeOK, ActiveInv, UNCHANGED <<local_queue, active_tasks>>,
         Counted' \subseteq Counted, Looking' \subseteq Looking, Resting' \subseteq Resting
  PROVE ActiveInv'
<1>1. Entries' = Entries
  BY DEF Entries
<1>2. /\ Cardinality(Counted') \in Nat /\ Cardinality(Counted') <= Cardinality(Counted)
      /\ Cardinality(Looking') \in Nat /\ Cardinality(Looking') <= Cardinality(Looking)
      /\ Cardinality(Resting') \in Nat /\ Cardinality(Resting') <= Cardinality(Resting)
  BY CountsAreFinite, FS_Subset, FS_CardinalityType
<1>3. Cardinality(Entries) \in Nat
  BY FS_CardinalityType DEF ActiveInv
<1>4. active_tasks >= Cardinality(Entries) + Cardinality(Counted) + Cardinality(Looking)
                      + Cardinality(Resting)
  BY DEF ActiveInv, ActiveCoversPending
<1> QED
  BY <1>1, <1>2, <1>3, <1>4, CountsAreFinite DEF ActiveInv, ActiveCoversPending, TypeOK

\* A worker that needs to look no more: its coroutine may be resting now.
LEMMA LooksAway ==
  ASSUME TypeOK, ActiveInv, UNCHANGED <<local_queue, active_tasks>>,
         Counted' \subseteq Counted, NEW w \in Looking, Looking' = Looking \ {w},
         NEW c, Resting' \subseteq Resting \cup {c}
  PROVE ActiveInv'
<1>1. Entries' = Entries
  BY DEF Entries
<1>2. /\ Cardinality(Counted') \in Nat /\ Cardinality(Counted') <= Cardinality(Counted)
      /\ Cardinality(Counted) \in Nat
  BY CountsAreFinite, FS_Subset, FS_CardinalityType
<1>3. /\ Cardinality(Looking') = Cardinality(Looking) - 1
      /\ Cardinality(Looking) \in Nat /\ Cardinality(Looking) # 0
  BY CountsAreFinite, FS_RemoveElement, FS_EmptySet
<1>4. /\ Cardinality(Resting') \in Nat /\ Cardinality(Resting') <= Cardinality(Resting) + 1
      /\ Cardinality(Resting) \in Nat
  <2>1. /\ IsFiniteSet(Resting \cup {c}) /\ Cardinality(Resting) \in Nat
        /\ Cardinality(Resting \cup {c}) \in {Cardinality(Resting), Cardinality(Resting) + 1}
    BY CountsAreFinite, FS_AddElement
  <2>2. /\ Cardinality(Resting') \in Nat /\ Cardinality(Resting') <= Cardinality(Resting \cup {c})
    BY <2>1, FS_Subset, FS_CardinalityType
  <2> QED
    BY <2>1, <2>2
<1>5. /\ Cardinality(Entries) \in Nat /\ active_tasks \in Nat
      /\ active_tasks >= Cardinality(Entries) + Cardinality(Counted) + Cardinality(Looking)
                         + Cardinality(Resting)
  BY FS_CardinalityType DEF ActiveInv, ActiveCoversPending, TypeOK
<1>6. active_tasks >= Cardinality(Entries) + Cardinality(Counted') + Cardinality(Looking')
                      + Cardinality(Resting')
  BY <1>2, <1>3, <1>4, <1>5
<1> QED
  BY <1>1, <1>6 DEF ActiveInv, ActiveCoversPending

\* A step of one thread after which no coroutine rests that did not rest before.
LEMMA RestsNoMore ==
  ASSUME TypeOK, NEW t \in Threads, NEW place, pc' = [pc EXCEPT ![t] = place],
         UNCHANGED suspensions, \A u \in Threads \ {t} : handle'[u] = handle[u],
         t \in Detached /\ place \in {"sleep", "count"}
           => pc[t] \in {"sleep", "count"} /\ handle'[t] = handle[t],
         t \in Looking => place \in Scheduling \cup Resuming /\ handle'[t] = handle[t]
  PROVE Resting' \subseteq Resting
<1>1. /\ pc'[t] = place /\ \A u \in Threads \ {t} : pc'[u] = pc[u]
      /\ Detached \subseteq Threads /\ Workers \subseteq Threads
  BY DEF TypeOK, Threads
<1>2. \A d \in Detached : pc'[d] \in {"sleep", "count"}
        => pc[d] \in {"sleep", "count"} /\ handle'[d] = handle[d]
  BY <1>1
<1>3. \A w \in Looking : w \in Looking' /\ handle'[w] = handle[w]
  BY <1>1 DEF Looking
<1> QED
  BY <1>2, <1>3 DEF Resting

\* A step of a worker that looks no more.
LEMMA MayRest ==
  ASSUME TypeOK, NEW w \in Workers, NEW place, pc' = [pc EXCEPT ![w] = place],
         UNCHANGED suspensions, \A u \in Threads \ {w} : handle'[u] = handle[u]
  PROVE Resting' \subseteq Resting \cup {handle[w]}
<1>1. /\ \A u \in Threads \ {w} : pc'[u] = pc[u]
      /\ Detached \subseteq Threads /\ Workers \subseteq Threads /\ w \notin Detached
  BY ConstantsAssumption DEF TypeOK, Threads
<1>2. \A d \in Detached : pc'[d] = pc[d] /\ handle'[d] = handle[d]
  BY <1>1
<1>3. \A v \in Looking : v # w => v \in Looking' /\ handle'[v] = handle[v]
  BY <1>1 DEF Looking
<1> QED
  BY <1>2, <1>3 DEF Resting

LEMMA CountedAndLooking ==
  ASSUME TypeOK, NEW t \in Threads, NEW place, pc' = [pc EXCEPT ![t] = place]
  PROVE /\ place \in {"choose", "push"} => Counted' = Counted \cup {t}
        /\ place \notin {"choose", "push"} => Counted' = Counted \ {t}
        /\ t \in Workers /\ place \in Scheduling \cup Resuming => Looking' = Looking \cup {t}
        /\ t \notin Workers \/ place \notin Scheduling \cup Resuming => Looking' = Looking \ {t}
<1>1. pc'[t] = place /\ \A u \in Threads \ {t} : pc'[u] = pc[u]
  BY DEF TypeOK
<1>2. /\ Workers \subseteq Threads
      /\ \A u : u \in Counted <=> u \in Threads /\ pc[u] \in {"choose", "push"}
      /\ \A u : u \in Counted' <=> u \in Threads /\ pc'[u] \in {"choose", "push"}
      /\ \A u : u \in Looking <=> u \in Workers /\ pc[u] \in Scheduling \cup Resuming
      /\ \A u : u \in Looking' <=> u \in Workers /\ pc'[u] \in Scheduling \cup Resuming
  BY DEF Threads, Counted, Looking
<1>3. \A u : u \in Counted' <=> IF u = t THEN place \in {"choose", "push"} ELSE u \in Counted
  BY <1>1, <1>2
<1>4. \A u : u \in Looking' <=>
               IF u = t THEN t \in Workers /\ place \in Scheduling \cup Resuming ELSE u \in Looking
  BY <1>1, <1>2
<1> QED
  BY <1>3, <1>4

\* A step of one thread that goes nowhere where it would be counted.
LEMMA GoesOn ==
  ASSUME TypeOK, ActiveInv, NEW t \in Threads, NEW place, pc' = [pc EXCEPT ![t] = place],
         UNCHANGED <<local_queue, active_tasks>>, Resting' \subseteq Resting,
         place \in {"choose", "push"} => pc[t] \in {"choose", "push"},
         t \in Workers /\ place \in Scheduling \cup Resuming => pc[t] \in Scheduling \cup Resuming
  PROVE ActiveInv'
<1>1. Counted' \subseteq Counted
  BY CountedAndLooking DEF Counted
<1>2. Looking' \subseteq Looking
  BY CountedAndLooking DEF Looking
<1> QED
  BY <1>1, <1>2, NothingMore

LEMMA PushAdds ==
  ASSUME TypeOK, RolesInv, NEW t \in Threads, Push(t)
  PROVE \E e : e \notin Entries /\ Entries' = Entries \cup {e}
<1> DEFINE v == target[t]
           q == local_queue[v]
           c == handle[t]
           n == Len(q) + 1
<1>0. /\ v \in Workers /\ \A x \in Workers : local_queue[x] \in Seq(Coroutines)
      /\ pc[t] = "push"
      /\ \A x \in Workers : local_queue'[x] = IF x = v THEN Append(q, c) ELSE local_queue[x]
  BY DEF TypeOK, Push, Goto
<1>1. c \in Coroutines
  BY <1>0 DEF RolesInv, Role, Empty
<1>2. /\ n \notin DOMAIN q /\ DOMAIN Append(q, c) = DOMAIN q \cup {n}
  <2>1. /\ DOMAIN q = 1 .. Len(q) /\ Len(q) \in Nat
        /\ DOMAIN Append(q, c) = 1 .. Len(q) + 1
    BY <1>0, <1>1, Appended
  <2> QED
    BY <2>1
<1> HIDE DEF c, q, n, v
<1>3. \A x \in Workers : DOMAIN local_queue'[x] = IF x = v THEN DOMAIN q \cup {n} ELSE DOMAIN local_queue[x]
  BY <1>0, <1>2
<1>4. /\ \A e : e \in Entries <=> \E x \in Workers : \E k \in DOMAIN local_queue[x] : e = <<x, k>>
      /\ \A e : e \in Entries' <=> \E x \in Workers : \E k \in DOMAIN local_queue'[x] : e = <<x, k>>
  BY TheEntries, Zenon DEF Entries
<1>5. q = local_queue[v]
  BY DEF q
<1>6. \A e : e \in Entries' <=> e \in Entries \/ e = <<v, n>>
  BY <1>0, <1>3, <1>4, <1>5
<1>7. <<v, n>> \notin Entries
  BY <1>0, <1>2, <1>4, <1>5
<1> QED
  BY <1>6, <1>7

LEMMA TakeRemoves ==
  ASSUME TypeOK, NEW w \in Workers, NEW v \in Workers, TakeFrom(w, v)
  PROVE \E e \in Entries : Entries' = Entries \ {e}
<1> DEFINE q == local_queue[v]
           n == Len(q)
<1>0. /\ \A x \in Workers : local_queue[x] \in Seq(Coroutines)
      /\ q # <<>>
      /\ \A x \in Workers : local_queue'[x] = IF x = v THEN Tail(q) ELSE local_queue[x]
  BY DEF TypeOK, TakeFrom
<1>2. n \in DOMAIN q /\ DOMAIN Tail(q) = DOMAIN q \ {n}
  <2>1. DOMAIN q = 1 .. Len(q) /\ Len(q) \in Nat \ {0} /\ DOMAIN Tail(q) = 1 .. Len(q) - 1
    BY <1>0, Taken
  <2> QED
    BY <2>1
<1> HIDE DEF q, n
<1>3. \A x \in Workers : DOMAIN local_queue'[x] = IF x = v THEN DOMAIN q \ {n} ELSE DOMAIN local_queue[x]
  BY <1>0, <1>2
<1>4. /\ \A e : e \in Entries <=> \E x \in Workers : \E k \in DOMAIN local_queue[x] : e = <<x, k>>
      /\ \A e : e \in Entries' <=> \E x \in Workers : \E k \in DOMAIN local_queue'[x] : e = <<x, k>>
  BY TheEntries, Zenon DEF Entries
<1>5. q = local_queue[v]
  BY DEF q
<1>6. \A e : e \in Entries' <=> e \in Entries /\ e # <<v, n>>
  BY <1>0, <1>3, <1>4, <1>5
<1>7. <<v, n>> \in Entries
  BY <1>0, <1>2, <1>4, <1>5
<1> QED
  BY <1>6, <1>7

\* The arithmetic of the steps that change the counts.
LEMMA Sums ==
  ASSUME NEW a \in Nat, NEW e \in Nat, NEW c \in Nat, NEW l \in Nat, NEW r \in Nat,
         NEW s \in Nat, s <= r, a >= e + c + l + r
  PROVE /\ a + 1 >= e + (c + 1) + l + s
        /\ c # 0 => a >= (e + 1) + (c - 1) + l + s
        /\ e # 0 => a >= (e - 1) + c + (l + 1) + s
        /\ l # 0 => a - 1 >= e + c + (l - 1) + s
  OBVIOUS

LEMMA FirstStep == Base /\ FirstInv /\ [Next]_vars => FirstInv'
<1> SUFFICES ASSUME Base, FirstInv, [Next]_vars PROVE FirstInv'
  OBVIOUS
<1>0. TypeOK /\ RolesInv /\ \A t \in Threads : Role(t, pc[t], handle[t])
  BY DEF Base, RolesInv
<1>k. /\ Client \in Threads /\ Workers \subseteq Threads /\ Detached \subseteq Threads
      /\ Client \notin Workers /\ Client \notin Detached /\ Client \notin Coroutines
  BY ConstantsAssumption DEF Threads
<1>f. /\ \A c \in Coroutines : state[c] = "new" => suspensions[c] = 0
      /\ pc[Client] = "running" => suspensions[handle[Client]] = 0
  BY DEF FirstInv
<1> USE DEF Goto
<1>1. ASSUME UNCHANGED suspensions, \A c \in Coroutines : state'[c] = "new" => state[c] = "new",
             pc'[Client] = "running" => pc[Client] = "running" /\ handle'[Client] = handle[Client]
      PROVE FirstInv'
  BY <1>1, <1>f DEF FirstInv
<1>2. ASSUME NEW t \in Threads, NEW place, pc' = [pc EXCEPT ![t] = place], place # "running",
             UNCHANGED frames, \A u \in Threads \ {t} : handle'[u] = handle[u]
      PROVE FirstInv'
  <2>1. pc'[Client] = "running" => pc[Client] = "running" /\ handle'[Client] = handle[Client]
    BY <1>0, <1>2, <1>k DEF TypeOK
  <2> QED
    BY <1>1, <1>2, <2>1 DEF frames
<1>3. ASSUME NEW c \in Coroutines, StartCoroutine(c) PROVE FirstInv'
  <2>1. /\ state[c] = "new" /\ state'[c] = "running" /\ \A d \in Coroutines \ {c} : state'[d] = state[d]
        /\ UNCHANGED suspensions /\ handle'[Client] = c
    BY <1>0, <1>3, <1>k DEF StartCoroutine, TypeOK
  <2> QED
    BY <1>f, <2>1 DEF FirstInv
<1>4. ASSUME NEW t \in Workers \cup {Client}, pc[t] = "running", Suspend(handle[t]),
             pc'[Client] = "running" =>
               t # Client /\ pc[Client] = "running" /\ handle'[Client] = handle[Client]
      PROVE FirstInv'
  <2>1. t \in Threads /\ handle[t] \in Coroutines
    BY <1>0, <1>4, <1>k DEF Role, Empty
  <2>2. /\ state'[handle[t]] = "suspended"
        /\ \A c \in Coroutines \ {handle[t]} : state'[c] = state[c] /\ suspensions'[c] = suspensions[c]
    BY <1>0, <1>4, <2>1 DEF Suspend, TypeOK
  <2>4. pc[Client] = "running" => handle[Client] \in Coroutines
    BY <1>0, <1>k DEF Role, Empty
  <2>5. pc'[Client] = "running" => handle[Client] # handle[t]
    BY <1>4, <1>k, <2>1, InHisHands DEF Carrying
  <2> QED
    BY <1>4, <1>f, <2>2, <2>4, <2>5 DEF FirstInv
<1>15. ASSUME NEW t \in Workers \cup {Client}, AwaitSchedule(t) PROVE FirstInv'
  <2>1. pc[t] = "running" /\ pc' = [pc EXCEPT ![t] = "count"] /\ UNCHANGED handle /\ Suspend(handle[t])
    BY <1>15, Zenon DEF AwaitSchedule
  <2>2. pc'[t] = "count" /\ \A u \in Threads \ {t} : pc'[u] = pc[u]
    BY <1>0, <1>k, <2>1 DEF TypeOK
  <2> QED
    BY <1>4, <1>k, <2>1, <2>2
<1>16. ASSUME NEW t \in Workers \cup {Client}, NEW d \in Detached, AwaitDetached(t, d) PROVE FirstInv'
  <2>1. pc[t] = "running" /\ Suspend(handle[t])
    BY <1>16 DEF AwaitDetached
  <2>2. t \in Threads /\ d \in Threads /\ d # t /\ d # Client
    BY <1>k, ConstantsAssumption
  <2>3. pc'[t] = Back(t) /\ \A u \in Threads \ {t, d} : pc'[u] = pc[u] /\ handle'[u] = handle[u]
    BY <1>0, <1>16, <2>2 DEF AwaitDetached, TypeOK
  <2> QED
    BY <1>4, <1>k, <2>1, <2>2, <2>3 DEF Back
<1>5. ASSUME NEW t \in Workers \cup {Client}, Finish(t) PROVE FirstInv'
  <2>1. t \in Threads /\ handle[t] \in Coroutines
    BY <1>0, <1>5, <1>k DEF Finish, Role, Empty
  <2>2. UNCHANGED suspensions /\ \A c \in Coroutines : state'[c] = "new" => state[c] = "new"
    BY <1>0, <1>5, <2>1 DEF Finish, TypeOK
  <2>3. pc'[t] # "running" /\ \A u \in Threads \ {t} : pc'[u] = pc[u] /\ handle'[u] = handle[u]
    BY <1>0, <1>5, <2>1 DEF Finish, LetGo, Back, TypeOK
  <2> QED
    BY <1>1, <1>k, <2>2, <2>3
<1>6. ASSUME NEW w \in Workers, Resume(w) PROVE FirstInv'
  <2>1. w \in Threads /\ handle[w] \in Coroutines /\ w # Client
    BY <1>0, <1>6, <1>k DEF Resume, Role, Empty
  <2>2. UNCHANGED suspensions /\ \A c \in Coroutines : state'[c] = "new" => state[c] = "new"
    BY <1>0, <1>6, <2>1 DEF Resume, TypeOK
  <2>3. pc'[Client] = pc[Client] /\ UNCHANGED handle
    BY <1>0, <1>6, <1>k, <2>1 DEF Resume, TypeOK
  <2> QED
    BY <1>1, <2>2, <2>3
<1>7. ASSUME NEW c \in Coroutines, DropTask(c) PROVE FirstInv'
  <2>1. \A d \in Coroutines : state'[d] = "new" => state[d] = "new"
    BY <1>0, <1>7 DEF DropTask, TypeOK
  <2> QED
    BY <1>1, <1>7, <2>1 DEF DropTask
<1>8. ASSUME NEW t \in Threads, Count(t) \/ Choose(t) \/ Notify(t) \/ UseDestroyed(t) PROVE FirstInv'
  <2>1. PICK place \in {"choose", "push", Back(t), "undefined"} : pc' = [pc EXCEPT ![t] = place]
    BY <1>8, Zenon DEF Count, Choose, Notify, UseDestroyed
  <2>2. UNCHANGED frames
    BY <1>8 DEF Count, Choose, Notify, UseDestroyed
  <2>3. \A u \in Threads \ {t} : handle'[u] = handle[u]
    <3>1. CASE UseDestroyed(t)
      <4>1. handle' = [handle EXCEPT ![t] = Nobody]
        BY <3>1, Zenon DEF UseDestroyed
      <4> QED
        BY <1>0, <4>1 DEF TypeOK
    <3>2. CASE Count(t) \/ Choose(t) \/ Notify(t)
      BY <3>2 DEF Count, Choose, Notify
    <3> QED
      BY <1>8, <3>1, <3>2
  <2> QED
    BY <1>2, <2>1, <2>2, <2>3 DEF Back
<1>9. ASSUME NEW t \in Threads, Push(t) PROVE FirstInv'
  <2>1. pc' = [pc EXCEPT ![t] = "notify"] /\ UNCHANGED frames
    BY <1>9, Zenon DEF Push
  <2>2. \A u \in Threads \ {t} : handle'[u] = handle[u]
    BY <1>0, <1>9 DEF Push, LetGo, TypeOK
  <2> QED
    BY <1>2, <2>1, <2>2
<1>10. ASSUME NEW d \in Detached, DetachedWakes(d) PROVE FirstInv'
  BY <1>2, <1>10, <1>k DEF DetachedWakes
<1>11. ASSUME NEW w \in Workers, LoadShutdown(w) \/ LocalIsEmpty(w) \/ StealNothing(w) PROVE FirstInv'
  <2>1. PICK place \in {"exited", "local", "steal", "top"} : pc' = [pc EXCEPT ![w] = place]
    BY <1>11 DEF LoadShutdown, LocalIsEmpty, StealNothing
  <2>2. UNCHANGED <<frames, handle>>
    BY <1>11 DEF LoadShutdown, LocalIsEmpty, StealNothing
  <2> QED
    BY <1>2, <1>k, <2>1, <2>2
<1>12. ASSUME NEW w \in Workers, TakeLocal(w) \/ Steal(w) PROVE FirstInv'
  <2>1. PICK v \in Workers : TakeFrom(w, v)
    BY <1>0, <1>12, ConstantsAssumption DEF TakeLocal, Steal, TypeOK
  <2>2. \A u \in Threads \ {w} : handle'[u] = handle[u]
    BY <1>0, <2>1 DEF TakeFrom, TypeOK
  <2>3. pc' = [pc EXCEPT ![w] = "resume"] /\ UNCHANGED frames
    BY <1>12 DEF TakeLocal, Steal
  <2> QED
    BY <1>2, <1>k, <2>2, <2>3
<1>13. ASSUME NEW w \in Workers, CheckDone(w) PROVE FirstInv'
  <2>1. pc' = [pc EXCEPT ![w] = "top"] /\ UNCHANGED frames /\ handle' = [handle EXCEPT ![w] = Nobody]
    BY <1>13 DEF CheckDone
  <2>2. \A u \in Threads \ {w} : handle'[u] = handle[u]
    BY <1>0, <2>1 DEF TypeOK
  <2> QED
    BY <1>2, <1>k, <2>1, <2>2
<1>14. ASSUME \/ Shutdown \/ UNCHANGED vars
              \/ \E w \in Workers : SkipVictim(w) \/ DestroyWorker(w)
       PROVE FirstInv'
  <2>1. UNCHANGED <<frames, pc, handle>>
    BY <1>14 DEF Shutdown, vars, SkipVictim, DestroyWorker
  <2> QED
    BY <1>1, <2>1 DEF frames
<1> QED
  BY <1>3, <1>5, <1>6, <1>7, <1>8, <1>9, <1>10, <1>11, <1>12, <1>13, <1>14, <1>15, <1>16
  DEF Next, Schedule, RunCoroutine, Search, Execute

LEMMA ActiveStep == Base /\ FirstInv /\ ActiveInv /\ [Next]_vars => ActiveInv'
<1> SUFFICES ASSUME Base, FirstInv, ActiveInv, [Next]_vars PROVE ActiveInv'
  OBVIOUS
<1>0. TypeOK /\ RolesInv /\ \A t \in Threads : Role(t, pc[t], handle[t])
  BY DEF Base, RolesInv
<1>k. /\ Client \in Threads /\ Workers \subseteq Threads /\ Detached \subseteq Threads
      /\ Client \notin Workers /\ Client \notin Detached
      /\ \A t : t \in Detached => t \notin Workers /\ t # Client
  BY ConstantsAssumption DEF Threads
<1>n. /\ active_tasks \in Nat /\ Cardinality(Entries) \in Nat
      /\ Cardinality(Counted) \in Nat /\ Cardinality(Looking) \in Nat /\ Cardinality(Resting) \in Nat
      /\ active_tasks >= Cardinality(Entries) + Cardinality(Counted) + Cardinality(Looking)
                         + Cardinality(Resting)
  BY <1>0, CountsAreFinite, FS_CardinalityType DEF TypeOK, ActiveInv, ActiveCoversPending
<1>f. IsFiniteSet(Entries) /\ IsFiniteSet(Counted) /\ IsFiniteSet(Looking) /\ IsFiniteSet(Resting)
  BY CountsAreFinite DEF ActiveInv
<1>e. UNCHANGED local_queue => Entries' = Entries
  BY DEF Entries
<1>r. ASSUME Resting' \subseteq Resting
      PROVE Cardinality(Resting') \in Nat /\ Cardinality(Resting') <= Cardinality(Resting)
  BY <1>f, <1>r, FS_Subset, FS_CardinalityType
<1> USE DEF Goto
<1>1. ASSUME NEW t \in Threads, Count(t) PROVE ActiveInv'
  <2>1. /\ pc' = [pc EXCEPT ![t] = "choose"] /\ pc[t] = "count" /\ UNCHANGED <<handle, suspensions>>
        /\ UNCHANGED local_queue /\ active_tasks' = active_tasks + 1
    BY <1>1, Zenon DEF Count, frames
  <2>2. Counted' = Counted \cup {t} /\ t \notin Counted
    BY <1>0, <2>1, CountedAndLooking DEF Counted
  <2>3. Cardinality(Counted') = Cardinality(Counted) + 1
    BY <1>f, <2>2, FS_AddElement
  <2>4. Looking' = Looking
    BY <1>0, <2>1, CountedAndLooking DEF Looking, Scheduling
  <2>r. Resting' \subseteq Resting
    BY <1>0, <2>1, RestsNoMore DEF Scheduling
  <2>5. active_tasks + 1 >= Cardinality(Entries) + (Cardinality(Counted) + 1) + Cardinality(Looking)
                            + Cardinality(Resting')
    BY <1>n, <1>r, <2>r, Sums
  <2> QED
    BY <1>e, <1>f, <2>1, <2>3, <2>4, <2>5 DEF ActiveInv, ActiveCoversPending
<1>2. ASSUME NEW t \in Threads, Push(t) PROVE ActiveInv'
  <2>1. /\ pc' = [pc EXCEPT ![t] = "notify"] /\ pc[t] = "push" /\ UNCHANGED <<active_tasks, suspensions>>
    BY <1>2, Zenon DEF Push, frames
  <2>2. PICK e : e \notin Entries /\ Entries' = Entries \cup {e}
    BY <1>0, <1>2, PushAdds
  <2>3. Cardinality(Entries') = Cardinality(Entries) + 1 /\ IsFiniteSet(Entries')
    BY <1>f, <2>2, FS_AddElement
  <2>0. t \in Counted
    BY <2>1 DEF Counted
  <2>4. Counted' = Counted \ {t} /\ t \in Counted
    <3>1. "notify" \notin {"choose", "push"}
      OBVIOUS
    <3> QED
      BY <1>0, <2>0, <2>1, <3>1, CountedAndLooking
  <2>5. Cardinality(Counted') = Cardinality(Counted) - 1 /\ Cardinality(Counted) # 0
    BY <1>f, <2>4, FS_RemoveElement, FS_EmptySet
  <2>6. Looking' = Looking
    BY <1>0, <2>1, CountedAndLooking DEF Looking, Scheduling, Resuming
  <2>h. /\ \A u \in Threads \ {t} : handle'[u] = handle[u]
        /\ t \in Workers => handle'[t] = handle[t]
    BY <1>0, <1>2 DEF Push, LetGo, TypeOK
  <2>r. Resting' \subseteq Resting
    BY <1>0, <2>1, <2>h, RestsNoMore DEF Scheduling, Resuming, Looking
  <2>7. active_tasks >= (Cardinality(Entries) + 1) + (Cardinality(Counted) - 1) + Cardinality(Looking)
                        + Cardinality(Resting')
    BY <1>n, <1>r, <2>r, <2>5, Sums
  <2> QED
    BY <2>1, <2>3, <2>5, <2>6, <2>7 DEF ActiveInv, ActiveCoversPending
<1>3. ASSUME NEW w \in Workers, TakeLocal(w) \/ Steal(w) PROVE ActiveInv'
  <2>1. PICK v \in Workers : TakeFrom(w, v)
    BY <1>0, <1>3, ConstantsAssumption DEF TakeLocal, Steal, TypeOK
  <2>2. /\ pc' = [pc EXCEPT ![w] = "resume"] /\ UNCHANGED <<active_tasks, suspensions>>
        /\ pc[w] \in {"local", "steal"} /\ w \in Threads
    BY <1>3, <1>k DEF TakeLocal, Steal, frames
  <2>3. PICK e \in Entries : Entries' = Entries \ {e}
    BY <1>0, <2>1, TakeRemoves
  <2>4. /\ Cardinality(Entries') = Cardinality(Entries) - 1 /\ IsFiniteSet(Entries')
        /\ Cardinality(Entries) # 0
    BY <1>f, <2>3, FS_RemoveElement, FS_EmptySet
  <2>5. Looking' = Looking \cup {w} /\ w \notin Looking
    BY <1>0, <2>2, CountedAndLooking DEF Looking, Scheduling, Resuming
  <2>6. Cardinality(Looking') = Cardinality(Looking) + 1
    BY <1>f, <2>5, FS_AddElement
  <2>7. Counted' = Counted
    BY <1>0, <2>2, CountedAndLooking DEF Counted
  <2>h. \A u \in Threads \ {w} : handle'[u] = handle[u]
    BY <1>0, <2>1 DEF TakeFrom, TypeOK
  <2>r. Resting' \subseteq Resting
    BY <1>0, <1>k, <2>2, <2>5, <2>h, RestsNoMore
  <2>8. active_tasks >= (Cardinality(Entries) - 1) + Cardinality(Counted) + (Cardinality(Looking) + 1)
                        + Cardinality(Resting')
    BY <1>n, <1>r, <2>r, <2>4, Sums
  <2> QED
    BY <2>2, <2>4, <2>6, <2>7, <2>8 DEF ActiveInv, ActiveCoversPending
<1>4. ASSUME NEW w \in Workers, CheckDone(w) PROVE ActiveInv'
  <2>1. /\ pc' = [pc EXCEPT ![w] = "top"] /\ pc[w] = "check" /\ UNCHANGED <<local_queue, suspensions, state>>
        /\ w \in Threads /\ handle' = [handle EXCEPT ![w] = Nobody]
        /\ active_tasks' = active_tasks - (IF state[handle[w]] = "done" THEN 1 ELSE 0)
    BY <1>4, <1>k DEF CheckDone, frames
  <2>0. w \in Looking /\ "top" \notin Scheduling \cup Resuming
    BY <2>1 DEF Looking, Scheduling, Resuming
  <2>3. Looking' = Looking \ {w} /\ w \in Looking
    BY <1>0, <2>0, <2>1, CountedAndLooking
  <2>5. Counted' = Counted
    BY <1>0, <2>1, CountedAndLooking DEF Counted
  <2>h. \A u \in Threads \ {w} : handle'[u] = handle[u]
    BY <1>0, <2>1 DEF TypeOK
  <2>r. Resting' \subseteq Resting \cup {handle[w]}
    BY <1>0, <2>1, <2>h, MayRest
  <2>6. CASE state[handle[w]] = "done"
    <3>1. active_tasks' = active_tasks - 1
      BY <1>n, <2>1, <2>6
    <3>2. handle[w] \notin Resting'
      <4>1. ASSUME NEW d \in Detached, handle'[d] = handle[w], pc'[d] \in {"sleep", "count"} PROVE FALSE
        <5>1. handle[d] = handle[w] /\ pc[d] \in {"sleep", "count"} /\ d \in Threads
          BY <1>0, <1>k, <2>1, <2>h, <4>1 DEF TypeOK
        <5>2. handle[w] \in Coroutines
          BY <1>0, <2>1 DEF Role, Empty
        <5> QED
          BY <2>6, <5>1, <5>2, InHisHands DEF Carrying, Scheduling
      <4> QED
        BY <4>1 DEF Resting
    <3>3. Resting' \subseteq Resting
      BY <2>r, <3>2
    <3>4. Cardinality(Looking') = Cardinality(Looking) - 1 /\ Cardinality(Looking) # 0
      BY <1>f, <2>3, FS_RemoveElement, FS_EmptySet
    <3>5. active_tasks - 1 >= Cardinality(Entries) + Cardinality(Counted) + (Cardinality(Looking) - 1)
                              + Cardinality(Resting')
      BY <1>n, <1>r, <3>3, <3>4, Sums
    <3> QED
      BY <1>e, <1>f, <2>1, <2>5, <3>1, <3>4, <3>5 DEF ActiveInv, ActiveCoversPending
  <2>7. CASE state[handle[w]] # "done"
    <3>1. active_tasks' = active_tasks
      BY <1>n, <2>1, <2>7
    <3> QED
      BY <1>0, <2>1, <2>3, <2>5, <2>r, <3>1, LooksAway
  <2> QED
    BY <2>6, <2>7
<1>5. ASSUME NEW t \in Threads, Choose(t) \/ Notify(t) PROVE ActiveInv'
  <2>1. PICK place \in {"push", Back(t)} :
          /\ pc' = [pc EXCEPT ![t] = place]
          /\ pc[t] = IF place = "push" THEN "choose" ELSE "notify"
    <3>1. CASE Choose(t)
      BY <3>1, Zenon DEF Choose
    <3>2. CASE Notify(t)
      <4>1. pc' = [pc EXCEPT ![t] = Back(t)] /\ pc[t] = "notify" /\ Back(t) # "push"
        BY <3>2, Zenon DEF Notify, Back
      <4> QED
        BY <4>1
    <3> QED
      BY <1>5, <3>1, <3>2
  <2>2. UNCHANGED <<local_queue, active_tasks, handle, suspensions>>
    BY <1>5 DEF Choose, Notify, frames
  <2>3. /\ place \in {"choose", "push"} => pc[t] \in {"choose", "push"}
        /\ t \in Workers /\ place \in Scheduling \cup Resuming => pc[t] \in Scheduling \cup Resuming
        /\ t \in Workers => place \in Scheduling \cup Resuming
        /\ place \notin {"sleep", "count"}
    BY <2>1 DEF Scheduling, Resuming, Back
  <2>4. Resting' \subseteq Resting
    BY <1>0, <2>1, <2>2, <2>3, RestsNoMore DEF Looking
  <2> QED
    BY <1>0, <2>1, <2>2, <2>3, <2>4, GoesOn
<1>11. ASSUME NEW t \in Threads, UseDestroyed(t) PROVE ActiveInv'
  <2>1. /\ pc' = [pc EXCEPT ![t] = "undefined"] /\ handle' = [handle EXCEPT ![t] = Nobody]
        /\ UNCHANGED <<local_queue, active_tasks, suspensions>>
    BY <1>11, Zenon DEF UseDestroyed, frames
  <2>h. \A u \in Threads \ {t} : handle'[u] = handle[u]
    BY <1>0, <2>1 DEF TypeOK
  <2>2. CASE t \in Looking
    <3>0. "undefined" \notin {"choose", "push"} /\ "undefined" \notin Scheduling \cup Resuming
      BY DEF Scheduling, Resuming
    <3>1. t \in Workers /\ Looking' = Looking \ {t} /\ Counted' = Counted \ {t}
      <4>1. t \in Workers
        BY <2>2 DEF Looking
      <4> QED
        BY <1>0, <2>1, <3>0, <4>1, CountedAndLooking
    <3>9. Counted' \subseteq Counted
      BY <3>1
    <3>2. Resting' \subseteq Resting \cup {handle[t]}
      BY <1>0, <2>1, <2>h, <3>1, MayRest
    <3> QED
      BY <1>0, <2>1, <2>2, <3>1, <3>2, <3>9, LooksAway
  <2>3. CASE t \notin Looking
    <3>1. Resting' \subseteq Resting
      BY <1>0, <2>1, <2>h, <2>3, RestsNoMore
    <3>2. "undefined" \notin {"choose", "push"} /\ "undefined" \notin Scheduling \cup Resuming
      BY DEF Scheduling, Resuming
    <3> QED
      BY <1>0, <2>1, <3>1, <3>2, GoesOn
  <2> QED
    BY <2>2, <2>3
<1>6. ASSUME NEW c \in Coroutines, StartCoroutine(c) PROVE ActiveInv'
  <2>1. /\ pc' = [pc EXCEPT ![Client] = "running"]
        /\ UNCHANGED <<local_queue, active_tasks, suspensions>>
        /\ handle' = [handle EXCEPT ![Client] = c]
    BY <1>6 DEF StartCoroutine
  <2>2. \A u \in Threads \ {Client} : handle'[u] = handle[u]
    BY <1>0, <2>1 DEF TypeOK
  <2>3. Resting' \subseteq Resting
    BY <1>0, <1>k, <2>1, <2>2, RestsNoMore DEF Looking
  <2> QED
    BY <1>0, <1>k, <2>1, <2>3, GoesOn
<1>12. ASSUME NEW d \in Detached, DetachedWakes(d) PROVE ActiveInv'
  <2>1. /\ pc' = [pc EXCEPT ![d] = "count"] /\ pc[d] = "sleep"
        /\ UNCHANGED <<local_queue, active_tasks, suspensions, handle>>
    BY <1>12 DEF DetachedWakes, frames
  <2>2. Resting' \subseteq Resting
    BY <1>0, <1>k, <2>1, RestsNoMore DEF Looking
  <2> QED
    BY <1>0, <1>k, <2>1, <2>2, GoesOn
<1>7. ASSUME NEW t \in Workers \cup {Client}, Finish(t) PROVE ActiveInv'
  <2>1. /\ pc' = [pc EXCEPT ![t] = Back(t)] /\ pc[t] = "running"
        /\ UNCHANGED <<local_queue, active_tasks, suspensions>> /\ t \in Threads
    BY <1>7, <1>k DEF Finish
  <2>2. /\ \A u \in Threads \ {t} : handle'[u] = handle[u]
        /\ t \in Workers => handle'[t] = handle[t]
    BY <1>0, <1>7, <2>1 DEF Finish, LetGo, TypeOK
  <2>3. Resting' \subseteq Resting
    BY <1>0, <1>k, <2>1, <2>2, RestsNoMore DEF Looking, Back, Resuming
  <2> QED
    BY <1>0, <2>1, <2>3, GoesOn DEF Back, Resuming
<1>8. ASSUME NEW t \in Workers \cup {Client}, pc[t] = "running", Suspend(handle[t]),
             UNCHANGED <<local_queue, active_tasks>>, pc'[t] \in {"count", Back(t)},
             t \in Workers => handle'[t] = handle[t],
             \A w \in Workers : w # t => pc'[w] = pc[w] /\ handle'[w] = handle[w],
             \A x \in Threads : pc'[x] \in {"choose", "push"} => pc[x] \in {"choose", "push"},
             \A x \in Detached : pc'[x] \in {"sleep", "count"} =>
               handle'[x] = handle[t] \/ (pc[x] \in {"sleep", "count"} /\ handle'[x] = handle[x])
      PROVE ActiveInv'
  <2> DEFINE c == handle[t]
  <2>1. c \in Coroutines /\ t \in Threads
    BY <1>0, <1>8, <1>k DEF Role, Empty
  <2>3. Counted' \subseteq Counted
    BY <1>8 DEF Counted
  <2>4. Looking' = Looking /\ \A w \in Looking : handle'[w] = handle[w]
    <3>1. "running" \in Scheduling \cup Resuming /\ "count" \in Scheduling \cup Resuming
          /\ "check" \in Scheduling \cup Resuming
      BY DEF Scheduling, Resuming
    <3>2. t \in Workers => pc'[t] \in Scheduling \cup Resuming /\ pc[t] \in Scheduling \cup Resuming
      BY <1>8, <3>1 DEF Back
    <3>3. \A w \in Workers : pc'[w] \in Scheduling \cup Resuming <=> pc[w] \in Scheduling \cup Resuming
      BY <1>8, <3>2
    <3>4. \A w \in Workers : handle'[w] = handle[w]
      BY <1>8
    <3> QED
      BY <3>3, <3>4 DEF Looking
  <2>5. /\ \A e \in Coroutines \ {c} : suspensions'[e] = suspensions[e]
        /\ suspensions'[c] = suspensions[c] + 1
    BY <1>0, <1>8, <2>1 DEF Suspend, TypeOK
  <2>6. ASSUME NEW e \in Resting' PROVE e \in Resting
    <3>0. e \in Coroutines /\ suspensions'[e] >= 2 /\ \A w \in Looking : handle[w] # e
      BY <2>4, <2>6 DEF Resting
    <3>1. PICK x \in Detached : handle'[x] = e /\ pc'[x] \in {"sleep", "count"}
      BY <2>6 DEF Resting
    <3>2. CASE e = c
      <4>1. t \notin Workers
        <5>1. t \in Workers => t \in Looking
          BY <1>8 DEF Looking, Resuming
        <5> QED
          BY <3>0, <3>2, <5>1
      <4>2. suspensions[c] = 0
        BY <1>8, <4>1 DEF FirstInv
      <4> QED
        BY <2>5, <3>0, <3>2, <4>2
    <3>3. CASE e # c
      <4>1. handle[x] = e /\ pc[x] \in {"sleep", "count"}
        BY <1>8, <3>1, <3>3
      <4>2. suspensions[e] >= 2
        BY <2>5, <3>0, <3>3
      <4> QED
        BY <3>0, <4>1, <4>2 DEF Resting
    <3> QED
      BY <3>2, <3>3
  <2> QED
    BY <1>0, <1>8, <2>3, <2>4, <2>6, NothingMore
<1>13. ASSUME NEW t \in Workers \cup {Client}, AwaitSchedule(t) PROVE ActiveInv'
  <2>1. /\ pc[t] = "running" /\ pc' = [pc EXCEPT ![t] = "count"]
        /\ UNCHANGED <<local_queue, active_tasks, handle>> /\ Suspend(handle[t])
    BY <1>13, Zenon DEF AwaitSchedule
  <2>2. /\ pc'[t] = "count" /\ \A u \in Threads \ {t} : pc'[u] = pc[u]
        /\ t \notin Detached
    BY <1>0, <1>k, <2>1, ConstantsAssumption DEF TypeOK
  <2> QED
    BY <1>8, <1>k, <2>1, <2>2
<1>14. ASSUME NEW t \in Workers \cup {Client}, NEW d \in Detached, AwaitDetached(t, d)
       PROVE ActiveInv'
  <2>1. /\ pc[t] = "running" /\ UNCHANGED <<local_queue, active_tasks>> /\ Suspend(handle[t])
    BY <1>14 DEF AwaitDetached
  <2>2. t \in Threads /\ d \in Threads /\ d # t /\ d \notin Workers /\ t \notin Detached
    BY <1>k, ConstantsAssumption
  <2>3. /\ pc'[t] = Back(t)
        /\ t \in Workers => handle'[t] = handle[t]
        /\ pc'[d] = "sleep" /\ handle'[d] = handle[t]
        /\ \A u \in Threads \ {t, d} : pc'[u] = pc[u] /\ handle'[u] = handle[u]
    BY <1>0, <1>14, <2>2 DEF AwaitDetached, TypeOK
  <2>4. pc'[t] \notin {"choose", "push"}
    BY <2>3 DEF Back
  <2>5. \A x \in Threads : pc'[x] \in {"choose", "push"} => pc[x] \in {"choose", "push"}
    BY <2>3, <2>4
  <2>6. \A x \in Detached : pc'[x] \in {"sleep", "count"} =>
          handle'[x] = handle[t] \/ (pc[x] \in {"sleep", "count"} /\ handle'[x] = handle[x])
    BY <1>k, <2>2, <2>3
  <2> QED
    BY <1>8, <1>k, <2>1, <2>2, <2>3, <2>5, <2>6
<1>9. ASSUME NEW w \in Workers,
             LoadShutdown(w) \/ LocalIsEmpty(w) \/ StealNothing(w) \/ Resume(w)
      PROVE ActiveInv'
  <2>1. PICK place \in {"exited", "local", "steal", "top", "running"} :
          /\ pc' = [pc EXCEPT ![w] = place]
          /\ IF place = "running" THEN pc[w] = "resume" ELSE pc[w] \in {"top", "local", "steal"}
    <3>1. CASE Resume(w)
      BY <3>1 DEF Resume
    <3>2. CASE LoadShutdown(w) \/ LocalIsEmpty(w) \/ StealNothing(w)
      BY <3>2 DEF LoadShutdown, LocalIsEmpty, StealNothing
    <3> QED
      BY <1>9, <3>1, <3>2
  <2>2. UNCHANGED <<local_queue, active_tasks, suspensions, handle>> /\ w \in Threads
    BY <1>9, <1>k DEF LoadShutdown, LocalIsEmpty, StealNothing, Resume, frames
  <2>3. /\ place \notin {"choose", "push"}
        /\ place \in Scheduling \cup Resuming => pc[w] \in Scheduling \cup Resuming
        /\ w \in Looking => place \in Scheduling \cup Resuming
    BY <2>1 DEF Scheduling, Resuming, Looking
  <2>4. Resting' \subseteq Resting
    BY <1>0, <1>k, <2>1, <2>2, <2>3, RestsNoMore
  <2> QED
    BY <1>0, <2>1, <2>2, <2>3, <2>4, GoesOn
<1>10. ASSUME \/ Shutdown \/ UNCHANGED vars
              \/ \E w \in Workers : SkipVictim(w) \/ DestroyWorker(w)
              \/ \E c \in Coroutines : DropTask(c)
       PROVE ActiveInv'
  <2>1. UNCHANGED <<local_queue, active_tasks, pc, handle, suspensions>>
    BY <1>10 DEF Shutdown, vars, SkipVictim, DestroyWorker, DropTask, frames
  <2>2. Counted' = Counted /\ Looking' = Looking
    BY <2>1 DEF Counted, Looking
  <2>3. Resting' = Resting
    BY <2>1, <2>2 DEF Resting
  <2> QED
    BY <1>0, <2>1, <2>2, <2>3, NothingMore
<1> QED
  BY <1>1, <1>2, <1>3, <1>4, <1>5, <1>6, <1>7, <1>9, <1>10, <1>11, <1>12, <1>13, <1>14
  DEF Next, Schedule, RunCoroutine, Search, Execute

-----------------------------------------------------------------------------
(* Frames.                                                                   *)

LEMMA NotScheduled ==
  ASSUME NEW queues, NEW c
  PROVE {e \in UNION {{<<w, k>> : k \in DOMAIN queues[w]} : w \in Workers} :
           queues[e[1]][e[2]] = c} = {}
        <=> \A w \in Workers : \A k \in DOMAIN queues[w] : queues[w][k] # c
<1> DEFINE All == UNION {{<<w, k>> : k \in DOMAIN queues[w]} : w \in Workers}
<1>1. \A e : e \in All <=> \E w \in Workers : \E k \in DOMAIN queues[w] : e = <<w, k>>
  BY TheEntries, Zenon
<1> HIDE DEF All
<1>2. {e \in All : queues[e[1]][e[2]] = c} = {} <=> \A e \in All : queues[e[1]][e[2]] # c
  OBVIOUS
<1>3. \A e, w, k : e = <<w, k>> => e[1] = w /\ e[2] = k
  OBVIOUS
<1>4. \A w \in Workers : \A k \in DOMAIN queues[w] : <<w, k>> \in All
  BY <1>1, Zenon
<1>5. ASSUME NEW e \in All,
             \A w \in Workers : \A k \in DOMAIN queues[w] : queues[w][k] # c
      PROVE queues[e[1]][e[2]] # c
  <2>1. PICK w \in Workers : \E k \in DOMAIN queues[w] : e = <<w, k>>
    BY <1>1, Zenon
  <2>2. PICK k \in DOMAIN queues[w] : e = <<w, k>>
    BY <2>1
  <2>3. e[1] = w /\ e[2] = k
    BY <1>3, <2>2, Zenon
  <2> QED
    BY <1>5, <2>3
<1>6. ASSUME \A e \in All : queues[e[1]][e[2]] # c,
             NEW w \in Workers, NEW k \in DOMAIN queues[w]
      PROVE queues[w][k] # c
  BY <1>4, <1>6
<1>7. {e \in All : queues[e[1]][e[2]] = c} = {}
      <=> \A w \in Workers : \A k \in DOMAIN queues[w] : queues[w][k] # c
  BY <1>2, <1>5, <1>6
<1> QED
  BY <1>7, Zenon DEF All

\* Frames are not used, in terms of what is in each queue.
Unused(c) ==
  /\ \A w \in Workers : \A k \in DOMAIN local_queue[w] : local_queue[w][k] # c
  /\ \A t \in Threads : handle[t] # c

\* What is in a queue after a step was there before, or was in the hands of a thread;
\* what is in the hands of a thread is a new coroutine, or was in other hands, or in a
\* queue.
LEMMA Handed ==
  ASSUME Base, [Next]_vars, NEW c \in Coroutines, Unused(c), state[c] # "new"
  PROVE Unused(c)'
<1>0. /\ TypeOK /\ \A t \in Threads : handle[t] # c
      /\ \A w \in Workers : \A k \in DOMAIN local_queue[w] : local_queue[w][k] # c
  BY DEF Base, Unused
<1>k. /\ Client \in Threads /\ Workers \subseteq Threads /\ Detached \subseteq Threads
      /\ Client \notin Coroutines
  BY ConstantsAssumption DEF Threads
<1>1. ASSUME \A t \in Threads : handle'[t] # c, UNCHANGED local_queue
      PROVE Unused(c)'
  BY <1>0, <1>1 DEF Unused
<1>2. ASSUME UNCHANGED <<local_queue, handle>> PROVE Unused(c)'
  BY <1>0, <1>2 DEF Unused
<1>3. ASSUME NEW d \in Coroutines, StartCoroutine(d) PROVE Unused(c)'
  BY <1>0, <1>1, <1>3, <1>k DEF StartCoroutine, TypeOK
<1>4. ASSUME NEW t \in Threads, LetGo(t), UNCHANGED local_queue PROVE Unused(c)'
  BY <1>0, <1>1, <1>4, <1>k DEF LetGo, TypeOK, Nobody
<1>5. ASSUME NEW t \in Workers \cup {Client}, NEW d \in Detached, AwaitDetached(t, d)
      PROVE Unused(c)'
  <2>1. t \in Threads /\ handle[t] # c
    BY <1>0, <1>k
  <2>2. UNCHANGED local_queue /\ \A u \in Threads : handle'[u] \in {handle[u], Nobody, handle[t]}
    BY <1>0, <1>5, <2>1 DEF AwaitDetached, TypeOK
  <2> QED
    BY <1>0, <1>1, <1>k, <2>1, <2>2 DEF Nobody
<1>6. ASSUME NEW w \in Workers, TakeLocal(w) \/ Steal(w) PROVE Unused(c)'
  <2>1. PICK v \in Workers : TakeFrom(w, v)
    BY <1>0, <1>6, ConstantsAssumption DEF TakeLocal, Steal, TypeOK
  <2> DEFINE q == local_queue[v]
  <2>2. /\ q \in Seq(Coroutines) /\ q # <<>>
        /\ \A x \in Workers : local_queue'[x] = IF x = v THEN Tail(q) ELSE local_queue[x]
        /\ \A u \in Threads : handle'[u] \in {handle[u], Head(q)}
    BY <1>0, <1>k, <2>1 DEF TakeFrom, TypeOK
  <2>3. /\ Head(q) = q[1] /\ 1 \in DOMAIN q
        /\ \A k \in DOMAIN Tail(q) : k + 1 \in DOMAIN q /\ Tail(q)[k] = q[k + 1]
    BY <2>2, Taken
  <2>4. Head(q) # c /\ \A k \in DOMAIN Tail(q) : Tail(q)[k] # c
    BY <1>0, <2>3
  <2> HIDE DEF q
  <2> QED
    BY <1>0, <2>2, <2>4 DEF Unused
<1>7. ASSUME NEW t \in Threads, Push(t) PROVE Unused(c)'
  <2> DEFINE v == target[t]
             q == local_queue[v]
  <2>1. /\ v \in Workers /\ q \in Seq(Coroutines) /\ handle[t] \in Coroutines /\ handle[t] # c
    BY <1>0, <1>7 DEF Push, Goto, Base, RolesInv, Role, Empty, TypeOK
  <2>2. /\ \A x \in Workers : local_queue'[x] = IF x = v THEN Append(q, handle[t]) ELSE local_queue[x]
        /\ LetGo(t)
    BY <1>0, <1>7, <2>1 DEF Push, TypeOK
  <2>3. \A k \in DOMAIN Append(q, handle[t]) : Append(q, handle[t])[k] # c
    <3>1. /\ DOMAIN q = 1 .. Len(q) /\ Len(q) \in Nat
          /\ DOMAIN Append(q, handle[t]) = 1 .. Len(q) + 1
          /\ Append(q, handle[t])[Len(q) + 1] = handle[t]
          /\ \A k \in DOMAIN q : Append(q, handle[t])[k] = q[k]
      BY <2>1, Appended
    <3>2. \A k \in 1 .. Len(q) + 1 : k \in 1 .. Len(q) \/ k = Len(q) + 1
      BY <3>1
    <3> QED
      BY <1>0, <2>1, <3>1, <3>2
  <2>4. \A u \in Threads : handle'[u] # c
    BY <1>0, <1>k, <2>2 DEF LetGo, TypeOK, Nobody
  <2> HIDE DEF q, v
  <2> QED
    BY <1>0, <2>2, <2>3, <2>4 DEF Unused
<1>8. ASSUME NEW w \in Workers, CheckDone(w) PROVE Unused(c)'
  <2>1. UNCHANGED local_queue /\ \A u \in Threads : handle'[u] \in {handle[u], Nobody}
    BY <1>0, <1>8, <1>k DEF CheckDone, TypeOK
  <2> QED
    BY <1>0, <1>1, <1>k, <2>1 DEF Nobody
<1>9. ASSUME NEW t \in Threads, AwaitSchedule(t) \/ Finish(t) PROVE Unused(c)'
  <2>1. CASE AwaitSchedule(t)
    BY <1>2, <2>1 DEF AwaitSchedule
  <2>2. CASE Finish(t)
    BY <1>4, <2>2 DEF Finish
  <2> QED
    BY <1>9, <2>1, <2>2
<1>10. ASSUME NEW t \in Threads, Count(t) \/ Choose(t) \/ Notify(t) PROVE Unused(c)'
  BY <1>2, <1>10 DEF Count, Choose, Notify
<1>14. ASSUME NEW t \in Threads, UseDestroyed(t) PROVE Unused(c)'
  <2>1. UNCHANGED local_queue /\ handle' = [handle EXCEPT ![t] = Nobody]
    BY <1>14, Zenon DEF UseDestroyed
  <2>2. \A u \in Threads : handle'[u] \in {handle[u], Nobody}
    BY <1>0, <2>1 DEF TypeOK
  <2> QED
    BY <1>0, <1>1, <1>k, <2>1, <2>2 DEF Nobody
<1>11. ASSUME NEW d \in Coroutines, DropTask(d) PROVE Unused(c)'
  BY <1>2, <1>11 DEF DropTask
<1>15. ASSUME NEW d \in Detached, DetachedWakes(d) PROVE Unused(c)'
  BY <1>2, <1>15 DEF DetachedWakes
<1>12. ASSUME NEW w \in Workers,
              \/ LoadShutdown(w) \/ LocalIsEmpty(w) \/ StealNothing(w)
              \/ Resume(w) \/ SkipVictim(w) \/ DestroyWorker(w)
       PROVE Unused(c)'
  BY <1>2, <1>12
  DEF LoadShutdown, LocalIsEmpty, StealNothing, Resume, SkipVictim, DestroyWorker
<1>13. CASE Shutdown \/ UNCHANGED vars
  BY <1>2, <1>13 DEF Shutdown, vars
<1> QED
  BY <1>3, <1>5, <1>6, <1>7, <1>8, <1>9, <1>10, <1>11, <1>12, <1>13, <1>14, <1>15, <1>k
  DEF Next, Schedule, RunCoroutine, Search, Execute

\* Only ~Task destroys a frame.
LEMMA OnlyDropped ==
  ASSUME TypeOK, RolesInv, [Next]_vars, NEW c \in Coroutines,
         state[c] # "destroyed", state'[c] = "destroyed"
  PROVE DropTask(c)
<1>1. state' # state
  OBVIOUS
<1>2. ASSUME NEW d \in Coroutines, NEW s, state' = [state EXCEPT ![d] = s], s # "destroyed" PROVE FALSE
  BY <1>2 DEF TypeOK
<1>3. ASSUME NEW t \in Threads, pc[t] \in {"running", "resume"} PROVE handle[t] \in Coroutines
  BY <1>3 DEF RolesInv, Role, Empty
<1>4. ASSUME NEW d \in Coroutines, StartCoroutine(d) PROVE FALSE
  BY <1>2, <1>4 DEF StartCoroutine
<1>11. ASSUME NEW d \in Detached, DetachedWakes(d) PROVE FALSE
  BY <1>1, <1>11 DEF DetachedWakes, frames
<1>5. ASSUME NEW d \in Coroutines, DropTask(d) PROVE d = c
  BY <1>5 DEF DropTask, TypeOK
<1>6. ASSUME NEW t \in Threads, Schedule(t) \/ UseDestroyed(t) PROVE FALSE
  BY <1>1, <1>6 DEF Schedule, Count, Choose, Push, Notify, UseDestroyed, frames
<1>7. ASSUME NEW t \in Workers \cup {Client}, RunCoroutine(t) PROVE FALSE
  <2>1. handle[t] \in Coroutines
    BY <1>3, <1>7 DEF RunCoroutine, AwaitSchedule, AwaitDetached, Finish, Goto, Threads
  <2>2. PICK s \in {"suspended", "done"} : state' = [state EXCEPT ![handle[t]] = s]
    BY <1>7, Zenon DEF RunCoroutine, AwaitSchedule, AwaitDetached, Finish, Suspend
  <2> QED
    BY <1>2, <2>1, <2>2
<1>8. ASSUME NEW w \in Workers, Resume(w) PROVE FALSE
  BY <1>2, <1>3, <1>8 DEF Resume, Goto, Threads
<1>9. ASSUME NEW w \in Workers,
             \/ LoadShutdown(w) \/ TakeLocal(w) \/ LocalIsEmpty(w)
             \/ Steal(w) \/ SkipVictim(w) \/ StealNothing(w) \/ CheckDone(w) \/ DestroyWorker(w)
      PROVE FALSE
  BY <1>1, <1>9
  DEF LoadShutdown, TakeLocal, LocalIsEmpty, Steal, SkipVictim, StealNothing,
      CheckDone, DestroyWorker, frames
<1>10. ASSUME Shutdown \/ UNCHANGED vars PROVE FALSE
  BY <1>1, <1>10 DEF Shutdown, vars, frames
<1> QED
  BY <1>4, <1>5, <1>6, <1>7, <1>8, <1>9, <1>10, <1>11 DEF Next, Search, Execute

LEMMA FramesStep == Base /\ ActiveInv /\ FramesOutliveUse /\ [Next]_vars => FramesOutliveUse'
<1> SUFFICES ASSUME Base, ActiveInv, FramesOutliveUse, [Next]_vars,
                    NEW c \in Coroutines, state'[c] = "destroyed"
             PROVE Scheduled(c)' = {} /\ \A t \in Threads : handle'[t] # c
  BY DEF FramesOutliveUse
<1>0. TypeOK /\ RolesInv /\ \A t \in Threads : Role(t, pc[t], handle[t])
  BY DEF Base, RolesInv
<1>1. /\ Scheduled(c) = {} <=>
           \A w \in Workers : \A k \in DOMAIN local_queue[w] : local_queue[w][k] # c
      /\ Scheduled(c)' = {} <=>
           \A w \in Workers : \A k \in DOMAIN local_queue'[w] : local_queue'[w][k] # c
  BY NotScheduled, Zenon DEF Scheduled, Entries
<1>2. CASE state[c] = "destroyed"
  <2>1. Unused(c)
    BY <1>1, <1>2 DEF FramesOutliveUse, Unused
  <2>2. Unused(c)'
    BY <1>2, <2>1, Handed
  <2> QED
    BY <1>1, <2>2 DEF Unused
<1>3. CASE state[c] # "destroyed"
  <2>1. DropTask(c)
    BY <1>0, <1>3, OnlyDropped
  <2>2. /\ active_tasks = 0 /\ pc[Client] = "idle" /\ state[c] = "done"
        /\ UNCHANGED <<local_queue, handle>>
    BY <2>1 DEF DropTask, MayDrop
  <2>3. Entries = {} /\ Looking = {}
    <3>1. Cardinality(Entries) = 0 /\ Cardinality(Looking) = 0
      <4>1. /\ Cardinality(Entries) \in Nat /\ Cardinality(Counted) \in Nat
            /\ Cardinality(Looking) \in Nat /\ Cardinality(Resting) \in Nat
            /\ 0 >= Cardinality(Entries) + Cardinality(Counted) + Cardinality(Looking)
                    + Cardinality(Resting)
        BY <2>2, CountsAreFinite, FS_CardinalityType DEF ActiveInv, ActiveCoversPending
      <4> QED
        BY <4>1
    <3> QED
      BY <3>1, CountsAreFinite, FS_EmptySet DEF ActiveInv
  <2>4. ASSUME NEW t \in Threads, handle[t] = c PROVE FALSE
    <3>1. pc[t] \notin Carrying
      BY <2>2, <2>4, InHisHands DEF Base
    <3>2. pc[t] \notin Empty
      BY <1>0, <2>4, ConstantsAssumption DEF Role, Nobody
    <3>3. pc[t] \in {"notify", "check"}
      BY <1>0, <3>1, <3>2 DEF TypeOK, Carrying, Empty, Scheduling, Resuming
    <3>4. t \in Workers
      BY <1>0, <2>4, <3>3, ConstantsAssumption DEF Role, Threads, Scheduling, Nobody
    <3> QED
      BY <2>3, <3>3, <3>4 DEF Looking, Resuming
  <2>5. Scheduled(c)' = {}
    BY <2>2, <2>3 DEF Scheduled, Entries
  <2> QED
    BY <2>2, <2>4, <2>5
<1> QED
  BY <1>2, <1>3

-----------------------------------------------------------------------------
(* The invariant, and what follows from it.                                  *)

\* IInv holds in every state of every behaviour.
THEOREM Invariance == Spec => []IInv
<1>1. IInv /\ [Next]_vars => IInv'
  <2> SUFFICES ASSUME IInv, [Next]_vars PROVE IInv'
    OBVIOUS
  <2>1. Base /\ FirstInv /\ ActiveInv /\ FramesOutliveUse
    BY DEF IInv, Base
  <2>2. TypeOK'
    BY <2>1, TypeStep DEF Base
  <2>3. RolesInv'
    BY <2>1, RolesStep
  <2>4. StatesMatch' /\ PlaceInv'
    BY <2>1, <2>2, PlacesStep
  <2>5. ActiveInv'
    BY <2>1, ActiveStep
  <2>6. FramesOutliveUse'
    BY <2>1, FramesStep
  <2>7. FirstInv'
    BY <2>1, FirstStep
  <2> QED
    BY <2>2, <2>3, <2>4, <2>5, <2>6, <2>7 DEF IInv
<1> QED
  BY InitIInv, <1>1, PTL DEF Spec

\* The types: next_worker is a worker, victim a distance, and active_tasks a natural
\* number, so that fetch_sub never wraps it, although two workers may count the same
\* coroutine off.
THEOREM TypeCorrect == Spec => []TypeOK
<1>1. IInv => TypeOK
  BY DEF IInv
<1> QED
  BY Invariance, <1>1, PTL

LEMMA AtMostOne ==
  ASSUME NEW S, \A x, y \in S : x = y
  PROVE /\ S = {} => Cardinality(S) = 0
        /\ S # {} => Cardinality(S) = 1
<1>1. S = {} => Cardinality(S) = 0
  BY FS_EmptySet
<1>2. ASSUME NEW x \in S PROVE Cardinality(S) = 1
  <2>1. S = {x}
    OBVIOUS
  <2> QED
    BY <2>1, FS_Singleton
<1> QED
  BY <1>1, <1>2

\* A coroutine is in one queue, or in the hands of one thread, and there once: stealing,
\* and a schedule() that overtakes the suspension, never let two threads resume it.
THEOREM OnePlace == Spec => []InOnePlace
<1>1. IInv => InOnePlace
  <2> SUFFICES ASSUME IInv, NEW c \in Coroutines
               PROVE Cardinality(Scheduled(c)) + Cardinality(Carried(c)) <= 1
    BY DEF InOnePlace
  <2>1. QueuedOnce /\ CarriedOnce /\ NotCarriedAndQueued /\ c # Nobody
    BY ConstantsAssumption DEF IInv, PlaceInv, Nobody
  <2>2. \A e \in Scheduled(c) : \E w \in Workers : \E k \in DOMAIN local_queue[w] :
           e = <<w, k>> /\ local_queue[w][k] = c
    <3> SUFFICES ASSUME NEW e \in Scheduled(c)
                 PROVE \E w \in Workers : \E k \in DOMAIN local_queue[w] :
                         e = <<w, k>> /\ local_queue[w][k] = c
      OBVIOUS
    <3>1. e \in Entries /\ local_queue[e[1]][e[2]] = c
      BY DEF Scheduled
    <3>0. \A x : x \in Entries <=> \E w \in Workers : \E k \in DOMAIN local_queue[w] : x = <<w, k>>
      BY TheEntries, Zenon DEF Entries
    <3>2. PICK w \in Workers : \E k \in DOMAIN local_queue[w] : e = <<w, k>>
      BY <3>0, <3>1, Zenon
    <3>3. PICK k \in DOMAIN local_queue[w] : e = <<w, k>>
      BY <3>2
    <3>4. e[1] = w /\ e[2] = k
      BY <3>3
    <3> QED
      BY <3>1, <3>3, <3>4
  <2>3. ASSUME NEW d \in Scheduled(c), NEW e \in Scheduled(c) PROVE d = e
    <3>1. PICK v \in Workers : \E k \in DOMAIN local_queue[v] :
             d = <<v, k>> /\ local_queue[v][k] = c
      BY <2>2
    <3>2. PICK w \in Workers : \E l \in DOMAIN local_queue[w] :
             e = <<w, l>> /\ local_queue[w][l] = c
      BY <2>2
    <3>3. PICK k \in DOMAIN local_queue[v] : d = <<v, k>> /\ local_queue[v][k] = c
      BY <3>1
    <3>4. PICK l \in DOMAIN local_queue[w] : e = <<w, l>> /\ local_queue[w][l] = c
      BY <3>2
    <3>5. v = w /\ k = l
      BY <2>1, <3>3, <3>4 DEF QueuedOnce
    <3> QED
      BY <3>3, <3>4, <3>5
  <2>4. /\ Carried(c) \subseteq Threads
        /\ \A t \in Carried(c) : handle[t] = c /\ pc[t] \in Carrying
    BY DEF Carried, Carrying
  <2>5. \A t, u \in Carried(c) : t = u
    BY <2>1, <2>4 DEF CarriedOnce
  <2>6. Scheduled(c) = {} \/ Carried(c) = {}
    BY <2>1, <2>2, <2>4 DEF NotCarriedAndQueued
  <2> QED
    BY <2>3, <2>5, <2>6, AtMostOne
<1> QED
  BY Invariance, <1>1, PTL

\* active_tasks covers what was counted and is still to be done, so that
\* wait_for_all_tasks does not return while a coroutine is about to be pushed or in a
\* queue, while a worker that resumed one has yet to look whether it is done, or while
\* one sleeps again.  A coroutine in its first delay() is not counted and not covered.
THEOREM NothingUncounted == Spec => []ActiveCoversPending
<1>1. IInv => ActiveCoversPending
  BY DEF IInv, ActiveInv
<1> QED
  BY Invariance, <1>1, PTL

\* A task that is_ready() and dropped after wait_for_all_tasks() is used by no thread
\* and in no queue.
THEOREM NoUseAfterDrop == Spec => []FramesOutliveUse
<1>1. IInv => FramesOutliveUse
  BY DEF IInv
<1> QED
  BY Invariance, <1>1, PTL
=============================================================================
