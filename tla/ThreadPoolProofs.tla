-------------------------- MODULE ThreadPoolProofs --------------------------
(***************************************************************************)
(* Proofs about ThreadPoolExecutor, for any finite sets of clients and     *)
(* workers and any number of tasks.                                        *)
(*                                                                         *)
(* WorkIsNoticed is not inductive: that a worker may go to sleep needs     *)
(* SleepIsJustified (nothing is queued while it holds the mutex), that a   *)
(* worker may leave the awake ones with a task needs DecisionIsJustified,  *)
(* and both need the mutex to be held by one thread at a time.             *)
(***************************************************************************)
EXTENDS ThreadPoolExecutor, FiniteSetTheorems, SequenceTheorems, TLAPS

Busy == {"run", "push", "notify"}

\* The set of sleepers is the set of threads whose pc says they sleep.
SleepersAsleep == waiting = {w \in Workers : pc[w] = "asleep"}

\* Between the predicate of wait and the sleep nothing is queued.
SleepIsJustified == \A w \in Workers : pc[w] = "sleep" /\ ~stop => tasks = <<>>

\* A worker past wait has a task to take, unless it stops; one that found stop_ false has
\* one also when stop_ is stored meanwhile.
DecisionIsJustified ==
  \A w \in Workers :
    /\ pc[w] = "decide" /\ ~stop => tasks # <<>>
    /\ pc[w] = "take" => tasks # <<>>
    /\ pc[w] = "leave" => stop

\* Clients only submit, and not once the executor is being destroyed.
ClientsSubmit ==
  \A c \in Clients :
    /\ pc[c] \in {"idle", "push", "notify"}
    /\ destructor # "before" => pc[c] = "idle"

\* A worker has a task exactly while it runs one, also while that one submits.
BusyWithTask == \A w \in Workers : task[w] # NoTask <=> pc[w] \in Busy

WorkersWork == \A w \in Workers : pc[w] # "idle"

\* There is room for the task that is about to be pushed.
RoomForTask == \A t \in Threads : pc[t] = "push" => submitted < MaxTasks

DestructorInv ==
  /\ stop <=> destructor # "before"
  /\ destructor = "done" => \A w \in Workers : pc[w] = "exited"

Queued  == {tasks[k] : k \in DOMAIN tasks}
Running == {task[w] : w \in Workers} \ {NoTask}

\* Every submitted task is queued, run by a worker or finished.
TasksAccounted == finished \cup Running \cup Queued = 1 .. submitted

ControlInv ==
  /\ MutexHeld /\ SleepersAsleep
  /\ SleepIsJustified /\ DecisionIsJustified
  /\ ClientsSubmit /\ WorkersWork /\ BusyWithTask /\ RoomForTask
  /\ DestructorInv

IInv == TypeOK /\ ControlInv /\ TasksAccounted /\ WorkIsNoticed

\* Once the destructor has notified the workers, only a worker that was already on
\* its way to sleep can sleep.
SleepersWereLate ==
  destructor \in {"join", "done"} =>
    \A w \in Workers : pc[w] \in {"sleep", "asleep"} => w \in late

-----------------------------------------------------------------------------

LEMMA InitIInv == Init => IInv /\ SleepersWereLate
<1> SUFFICES ASSUME Init PROVE IInv /\ SleepersWereLate
  OBVIOUS
<1> USE ConstantsAssumption DEF Init, Threads
<1>1. TypeOK
  <2>1. tasks \in Seq(Tasks)
    OBVIOUS
  <2>2. submitted \in 0 .. MaxTasks /\ finished \subseteq Tasks /\ late \subseteq Workers
    BY MaxTasks \in Nat
  <2> QED
    BY <2>1, <2>2 DEF TypeOK
<1>2. ControlInv
  BY DEF ControlInv, MutexHeld, SleepersAsleep, SleepIsJustified, DecisionIsJustified,
         ClientsSubmit, WorkersWork, BusyWithTask, RoomForTask, DestructorInv, Busy, NoTask
<1>3. TasksAccounted
  <2>1. Queued = {} /\ Running = {} /\ 1 .. submitted = {}
    BY DEF Queued, Running, NoTask
  <2> QED
    BY <2>1 DEF TasksAccounted
<1>4. WorkIsNoticed /\ SleepersWereLate
  BY DEF WorkIsNoticed, SleepersWereLate
<1> QED
  BY <1>1, <1>2, <1>3, <1>4 DEF IInv

-----------------------------------------------------------------------------
(* Types.                                                                    *)

LEMMA TypeStep == TypeOK /\ ControlInv /\ [Next]_vars => TypeOK'
<1> SUFFICES ASSUME TypeOK, ControlInv, [Next]_vars PROVE TypeOK'
  OBVIOUS
<1> USE ConstantsAssumption DEF TypeOK, Goto, Lock, Resume, ending, Threads
<1>1. ASSUME NEW t \in Threads, StartSubmit(t) PROVE TypeOK'
  BY <1>1 DEF StartSubmit
<1>2. ASSUME NEW t \in Threads, Push(t) PROVE TypeOK'
  <2>1. submitted + 1 \in Tasks /\ submitted + 1 \in 0 .. MaxTasks
    BY <1>2 DEF Push, ControlInv, RoomForTask, Tasks
  <2>2. tasks' \in Seq(Tasks)
    BY <1>2, <2>1, AppendProperties DEF Push
  <2> QED
    BY <1>2, <2>1, <2>2 DEF Push
<1>3. ASSUME NEW t \in Threads, NotifyOne(t) PROVE TypeOK'
  BY <1>3 DEF NotifyOne
<1>4. ASSUME NEW w \in Workers, LoadStop(w) \/ LockToWait(w) \/ Check(w) \/ Sleep(w) \/ LoadStopAgain(w)
      PROVE TypeOK'
  BY <1>4 DEF LoadStop, LockToWait, Check, Sleep, LoadStopAgain
<1>5. ASSUME NEW w \in Workers, BreakOut(w) \/ WakeSpuriously(w) PROVE TypeOK'
  BY <1>5 DEF BreakOut, WakeSpuriously
<1>6. ASSUME NEW w \in Workers, Take(w) PROVE TypeOK'
  <2>1. tasks # <<>>
    BY <1>6 DEF Take, ControlInv, DecisionIsJustified
  <2>2. Head(tasks) \in Tasks /\ Tail(tasks) \in Seq(Tasks)
    BY <2>1, HeadTailProperties
  <2> QED
    BY <1>6, <2>2 DEF Take
<1>7. ASSUME NEW w \in Workers, Finish(w) PROVE TypeOK'
  <2>1. task[w] \in Tasks
    BY <1>7 DEF Finish, ControlInv, BusyWithTask, Busy
  <2> QED
    BY <1>7, <2>1 DEF Finish
<1>8. CASE Destroy
  BY <1>8 DEF Destroy, StoreStop, NotifyAll, Join
<1>9. CASE UNCHANGED vars
  BY <1>9 DEF vars
<1> QED
  BY <1>1, <1>2, <1>3, <1>4, <1>5, <1>6, <1>7, <1>8, <1>9 DEF Next, Submit, Work

-----------------------------------------------------------------------------
(* Control: the mutex, the sleepers, who may be where.                       *)

LEMMA ControlStep == TypeOK /\ ControlInv /\ [Next]_vars => ControlInv'
<1> SUFFICES ASSUME TypeOK, ControlInv, [Next]_vars PROVE ControlInv'
  OBVIOUS
<1> USE ConstantsAssumption
    DEF TypeOK, ControlInv, MutexHeld, SleepersAsleep, SleepIsJustified,
        DecisionIsJustified, ClientsSubmit, WorkersWork, BusyWithTask, RoomForTask,
        DestructorInv, Busy, NoTask, Goto, Lock, Resume, ending, Threads
<1>1. ASSUME NEW t \in Threads, StartSubmit(t) PROVE ControlInv'
  BY <1>1 DEF StartSubmit
<1>2. ASSUME NEW t \in Threads, Push(t) PROVE ControlInv'
  <2>1. tasks' # <<>>
    BY <1>2, AppendProperties DEF Push, Tasks
  <2> QED
    BY <1>2, <2>1 DEF Push
<1>3. ASSUME NEW t \in Threads, NotifyOne(t) PROVE ControlInv'
  BY <1>3 DEF NotifyOne
<1>4. ASSUME NEW w \in Workers, LoadStop(w) \/ LockToWait(w) \/ Check(w) \/ Sleep(w) \/ LoadStopAgain(w)
      PROVE ControlInv'
  BY <1>4 DEF LoadStop, LockToWait, Check, Sleep, LoadStopAgain
<1>5. ASSUME NEW w \in Workers, BreakOut(w) \/ WakeSpuriously(w) PROVE ControlInv'
  BY <1>5 DEF BreakOut, WakeSpuriously
<1>6. ASSUME NEW w \in Workers, Take(w) PROVE ControlInv'
  <2>1. Head(tasks) # NoTask
    BY <1>6, HeadTailProperties DEF Take, Tasks
  <2>2. \A u \in Workers \ {w} : pc[u] \notin {"decide", "take"}
    BY <1>6 DEF Take
  <2> QED
    BY <1>6, <2>1, <2>2 DEF Take
<1>7. ASSUME NEW w \in Workers, Finish(w) PROVE ControlInv'
  BY <1>7 DEF Finish
<1>8. CASE Destroy
  BY <1>8 DEF Destroy, StoreStop, NotifyAll, Join
<1>9. CASE UNCHANGED vars
  BY <1>9 DEF vars
<1> QED
  BY <1>1, <1>2, <1>3, <1>4, <1>5, <1>6, <1>7, <1>8, <1>9 DEF Next, Submit, Work

-----------------------------------------------------------------------------
(* Every task is in one of the three places.  A step that moves none is      *)
(* described by the variables it leaves alone.                               *)

LEMMA QueuedAppend ==
  ASSUME NEW q \in Seq(Tasks), NEW x
  PROVE {Append(q, x)[k] : k \in DOMAIN Append(q, x)} = {q[k] : k \in DOMAIN q} \cup {x}
<1>1. DOMAIN Append(q, x) = DOMAIN q \cup {Len(q) + 1}
  BY AppendProperties, LenProperties
<1>2. Append(q, x)[Len(q) + 1] = x /\ \A k \in DOMAIN q : Append(q, x)[k] = q[k]
  BY AppendProperties, LenProperties
<1> QED
  BY <1>1, <1>2

LEMMA QueuedTail ==
  ASSUME NEW q \in Seq(Tasks), q # <<>>
  PROVE {q[k] : k \in DOMAIN q} = {Tail(q)[k] : k \in DOMAIN Tail(q)} \cup {Head(q)}
<1>1. Len(q) \in Nat \ {0} /\ DOMAIN q = 1 .. Len(q) /\ Head(q) = q[1]
  BY HeadTailProperties, LenProperties, EmptySeq
<1>2. DOMAIN Tail(q) = 1 .. Len(q) - 1
  BY <1>1, HeadTailProperties, LenProperties
<1>3. \A k \in 1 .. Len(q) - 1 : Tail(q)[k] = q[k + 1]
  BY <1>1, HeadTailProperties
<1>4. ASSUME NEW k \in DOMAIN q, k # 1 PROVE \E j \in DOMAIN Tail(q) : q[k] = Tail(q)[j]
  <2>1. k - 1 \in DOMAIN Tail(q) /\ q[k] = Tail(q)[k - 1]
    BY <1>1, <1>2, <1>3, <1>4
  <2> QED
    BY <2>1
<1>5. ASSUME NEW j \in DOMAIN Tail(q) PROVE \E k \in DOMAIN q : Tail(q)[j] = q[k]
  <2>1. j + 1 \in DOMAIN q /\ Tail(q)[j] = q[j + 1]
    BY <1>1, <1>2, <1>3
  <2> QED
    BY <2>1
<1>6. 1 \in DOMAIN q
  BY <1>1
<1>7. Head(q) = q[1]
  BY <1>1
<1>8. \A x : (\E k \in DOMAIN q : x = q[k])
             <=> (\E k \in DOMAIN Tail(q) : x = Tail(q)[k]) \/ x = Head(q)
  BY <1>4, <1>5, <1>6, <1>7, Zenon
<1> QED
  BY <1>8

LEMMA AccountedStep ==
  TypeOK /\ ControlInv /\ TasksAccounted /\ [Next]_vars => TasksAccounted'
<1> SUFFICES ASSUME TypeOK, ControlInv, TasksAccounted, [Next]_vars PROVE TasksAccounted'
  OBVIOUS
<1>1. CASE UNCHANGED <<tasks, task, submitted, finished>>
  BY <1>1 DEF TasksAccounted, Queued, Running
<1>2. ASSUME NEW t \in Threads, Push(t) PROVE TasksAccounted'
  <2>1. Queued' = Queued \cup {submitted + 1}
    <3>1. tasks' = Append(tasks, submitted + 1) /\ tasks \in Seq(Tasks)
      BY <1>2 DEF Push, TypeOK
    <3> QED
      BY <3>1, QueuedAppend DEF Queued
  <2>2. Running' = Running /\ finished' = finished
    BY <1>2 DEF Push, Running
  <2>3. submitted' = submitted + 1 /\ submitted \in Nat
    BY <1>2, ConstantsAssumption DEF Push, TypeOK
  <2> QED
    BY <2>1, <2>2, <2>3 DEF TasksAccounted
<1>3. ASSUME NEW w \in Workers, Take(w) PROVE TasksAccounted'
  <2>1. tasks # <<>> /\ task[w] = NoTask
    BY <1>3 DEF Take, Goto, ControlInv, DecisionIsJustified, BusyWithTask, Busy
  <2>2. Queued = Queued' \cup {Head(tasks)}
    BY <1>3, <2>1, QueuedTail DEF Take, TypeOK, Queued
  <2>3. Head(tasks) # NoTask
    BY <2>1, HeadTailProperties, ConstantsAssumption DEF TypeOK, Tasks, NoTask
  <2>4. Running' = Running \cup {Head(tasks)}
    BY <1>3, <2>1, <2>3 DEF Take, TypeOK, Running
  <2> QED
    BY <1>3, <2>2, <2>4 DEF Take, TasksAccounted
<1>4. ASSUME NEW w \in Workers, Finish(w) PROVE TasksAccounted'
  <2>1. task[w] # NoTask
    BY <1>4 DEF Finish, Goto, ControlInv, BusyWithTask, Busy
  <2>2. finished' \cup Running' = finished \cup Running
    BY <1>4, <2>1 DEF Finish, TypeOK, Running
  <2> QED
    BY <1>4, <2>2 DEF Finish, TasksAccounted, Queued
<1>5. \/ UNCHANGED <<tasks, task, submitted, finished>>
      \/ \E t \in Threads : Push(t)
      \/ \E w \in Workers : Take(w) \/ Finish(w)
  BY DEF Next, vars, Submit, StartSubmit, NotifyOne, Work, LoadStop, LockToWait, Check, Sleep,
         WakeSpuriously, LoadStopAgain, BreakOut, Destroy, StoreStop, NotifyAll, Join
<1> QED
  BY <1>1, <1>2, <1>3, <1>4, <1>5

-----------------------------------------------------------------------------
(* No wake-up is lost.                                                       *)

LEMMA CountsAreFinite ==
  /\ IsFiniteSet(Awake) /\ IsFiniteSet(Promised)
  /\ Cardinality(Awake) \in Nat /\ Cardinality(Promised) \in Nat
<1>1. IsFiniteSet(Threads) /\ Awake \subseteq Threads /\ Promised \subseteq Threads
  BY ConstantsAssumption DEF Awake, Promised, Threads
<1> QED
  BY <1>1, FS_Subset, FS_CardinalityType

LEMMA CountsAreFiniteNext ==
  /\ IsFiniteSet(Awake') /\ IsFiniteSet(Promised')
  /\ Cardinality(Awake') \in Nat /\ Cardinality(Promised') \in Nat
<1>1. IsFiniteSet(Threads) /\ Awake' \subseteq Threads /\ Promised' \subseteq Threads
  BY ConstantsAssumption DEF Awake, Promised, Threads
<1> QED
  BY <1>1, FS_Subset, FS_CardinalityType

\* When neither the awake workers nor the promised wake-ups become fewer and the
\* queue and the sleepers stay as they are, nothing is lost.
LEMMA NoneFewer ==
  ASSUME WorkIsNoticed, Awake \subseteq Awake', Promised \subseteq Promised',
         tasks' = tasks, stop' = stop, waiting' \subseteq waiting, TypeOK
  PROVE WorkIsNoticed'
<1>1. /\ Cardinality(Awake) <= Cardinality(Awake')
      /\ Cardinality(Promised) <= Cardinality(Promised')
  BY CountsAreFiniteNext, FS_Subset
<1>2. Len(tasks) \in Nat
  BY LenProperties DEF TypeOK
<1> QED
  BY <1>1, <1>2, CountsAreFinite, CountsAreFiniteNext DEF WorkIsNoticed

LEMMA NoticedStep ==
  TypeOK /\ ControlInv /\ WorkIsNoticed /\ [Next]_vars => WorkIsNoticed'
<1> SUFFICES ASSUME TypeOK, ControlInv, WorkIsNoticed, [Next]_vars, ~stop'
             PROVE WorkIsNoticed'
  BY DEF WorkIsNoticed
<1>0. Len(tasks) \in Nat /\ Len(<<>>) = 0
  BY LenProperties DEF TypeOK
<1>1. ASSUME NEW t \in Threads, StartSubmit(t) PROVE WorkIsNoticed'
  <2>1. Awake' = Awake /\ Promised' = Promised
    BY <1>1, ConstantsAssumption
    DEF StartSubmit, Lock, Goto, TypeOK, Awake, Promised, Threads
  <2> QED
    BY <1>1, <2>1, NoneFewer DEF StartSubmit, ending
<1>2. ASSUME NEW t \in Threads, Push(t) PROVE WorkIsNoticed'
  <2>1. Awake' = Awake /\ Promised' = Promised \cup {t} /\ t \notin Promised
    BY <1>2 DEF Push, Goto, TypeOK, Awake, Promised, Threads
  <2>2. Cardinality(Promised') = Cardinality(Promised) + 1
    BY <2>1, CountsAreFinite, FS_AddElement
  <2>3. Len(tasks') = Len(tasks) + 1
    BY <1>2, LenProperties, AppendProperties DEF Push, TypeOK
  <2>4. stop' = stop /\ waiting' = waiting
    BY <1>2 DEF Push, ending
  <2> QED
    BY <1>0, <2>1, <2>2, <2>3, <2>4, CountsAreFinite DEF WorkIsNoticed
<1>3. ASSUME NEW t \in Threads, NotifyOne(t) PROVE WorkIsNoticed'
  <2>1. CASE waiting' = {}
    BY <2>1 DEF WorkIsNoticed
  <2>2. CASE waiting' # {}
    <3>1. PICK w \in waiting :
            /\ waiting' = waiting \ {w}
            /\ pc' = [u \in Threads |-> IF u = t THEN Resume(t)
                                        ELSE IF u \in {w} THEN "wait" ELSE pc[u]]
      BY <1>3, <2>2 DEF NotifyOne
    <3>2. w \in Workers /\ pc[w] = "asleep" /\ pc[t] = "notify" /\ w # t
      BY <1>3, <3>1 DEF NotifyOne, ControlInv, SleepersAsleep
    <3>3. Awake' = Awake \cup {w} /\ w \notin Awake
      BY <3>1, <3>2, ConstantsAssumption DEF Awake, Resume, TypeOK, Threads
    <3>4. Promised' = Promised \ {t} /\ t \in Promised
      BY <3>1, <3>2, ConstantsAssumption DEF Promised, Resume, TypeOK, Threads
    <3>5. Cardinality(Awake') = Cardinality(Awake) + 1
      BY <3>3, CountsAreFinite, FS_AddElement
    <3>6. Cardinality(Promised') = Cardinality(Promised) - 1
      BY <3>4, CountsAreFinite, FS_RemoveElement
    <3>7. tasks' = tasks /\ stop' = stop /\ waiting # {}
      BY <1>3, <3>1 DEF NotifyOne, ending
    <3> QED
      BY <1>0, <3>5, <3>6, <3>7, CountsAreFinite DEF WorkIsNoticed
  <2> QED
    BY <2>1, <2>2
<1>4. ASSUME NEW w \in Workers,
             LoadStop(w) \/ LockToWait(w) \/ Finish(w) \/ WakeSpuriously(w) \/ LoadStopAgain(w)
      PROVE WorkIsNoticed'
  <2>1. Awake \subseteq Awake'
    BY <1>4 DEF LoadStop, LockToWait, Finish, WakeSpuriously, LoadStopAgain, Lock, Goto,
                TypeOK, Awake, ending, Threads
  <2>2. Promised' = Promised
    BY <1>4 DEF LoadStop, LockToWait, Finish, WakeSpuriously, LoadStopAgain, Lock, Goto,
                TypeOK, Promised, Threads
  <2>3. tasks' = tasks /\ stop' = stop /\ waiting' \subseteq waiting
    BY <1>4 DEF LoadStop, LockToWait, Finish, WakeSpuriously, LoadStopAgain, ending
  <2> QED
    BY <2>1, <2>2, <2>3, NoneFewer
<1>5. ASSUME NEW w \in Workers, Check(w) PROVE WorkIsNoticed'
  <2>1. CASE tasks # <<>>
    <3>1. Awake' = Awake /\ Promised' = Promised
      BY <1>5, <2>1 DEF Check, Goto, TypeOK, Awake, Promised, Threads
    <3> QED
      BY <1>5, <3>1, NoneFewer DEF Check, ending
  <2>2. CASE tasks = <<>>
    BY <1>0, <1>5, <2>2, CountsAreFiniteNext DEF Check, WorkIsNoticed
  <2> QED
    BY <2>1, <2>2
<1>6. ASSUME NEW w \in Workers, Sleep(w) PROVE WorkIsNoticed'
  <2>1. tasks' = <<>>
    BY <1>6 DEF Sleep, Goto, ControlInv, SleepIsJustified, ending
  <2> QED
    BY <1>0, <2>1, CountsAreFiniteNext DEF WorkIsNoticed
<1>7. ASSUME NEW w \in Workers, Take(w) PROVE WorkIsNoticed'
  <2>1. Awake' = Awake \ {w} /\ w \in Awake /\ Promised' = Promised
    BY <1>7 DEF Take, Goto, TypeOK, Awake, Promised, Threads
  <2>2. Cardinality(Awake') = Cardinality(Awake) - 1
    BY <2>1, CountsAreFinite, FS_RemoveElement
  <2>3. tasks # <<>>
    BY <1>7 DEF Take, Goto, ControlInv, DecisionIsJustified
  <2>4. Len(tasks') = Len(tasks) - 1
    BY <1>7, <2>3, HeadTailProperties, LenProperties DEF Take, TypeOK
  <2>5. stop' = stop /\ waiting' = waiting
    BY <1>7 DEF Take, ending
  <2> QED
    BY <1>0, <2>1, <2>2, <2>4, <2>5, CountsAreFinite DEF WorkIsNoticed
<1>8. ASSUME NEW w \in Workers, BreakOut(w) PROVE WorkIsNoticed'
  BY <1>8 DEF BreakOut, Goto, ending, ControlInv, DecisionIsJustified
<1>9. CASE Destroy
  BY <1>9 DEF Destroy, StoreStop, NotifyAll, Join, ControlInv, DestructorInv
<1>10. CASE UNCHANGED vars
  BY <1>10 DEF vars, WorkIsNoticed, Awake, Promised
<1> QED
  BY <1>1, <1>2, <1>3, <1>4, <1>5, <1>6, <1>7, <1>8, <1>9, <1>10 DEF Next, Submit, Work

-----------------------------------------------------------------------------

LEMMA LateStep == TypeOK /\ ControlInv /\ SleepersWereLate /\ [Next]_vars => SleepersWereLate'
<1> SUFFICES ASSUME TypeOK, ControlInv, SleepersWereLate, [Next]_vars PROVE SleepersWereLate'
  OBVIOUS
<1> USE DEF SleepersWereLate, TypeOK, Goto, Lock, Resume, ending, Threads
<1>1. ASSUME NEW t \in Threads, Submit(t) PROVE SleepersWereLate'
  BY <1>1, ConstantsAssumption DEF Submit, StartSubmit, Push, NotifyOne
<1>2. ASSUME NEW w \in Workers, Work(w) \/ WakeSpuriously(w) PROVE SleepersWereLate'
  BY <1>2
  DEF Work, LoadStop, LockToWait, Check, Sleep, WakeSpuriously, LoadStopAgain, BreakOut, Take, Finish,
      ControlInv, DestructorInv
<1>3. CASE Destroy
  BY <1>3 DEF Destroy, StoreStop, NotifyAll, Join, ControlInv, SleepersAsleep
<1>4. CASE UNCHANGED vars
  BY <1>4 DEF vars
<1> QED
  BY <1>1, <1>2, <1>3, <1>4 DEF Next

LEMMA Invariance == Spec => [](IInv /\ SleepersWereLate)
<1>1. IInv /\ SleepersWereLate /\ [Next]_vars => IInv' /\ SleepersWereLate'
  BY TypeStep, ControlStep, AccountedStep, NoticedStep, LateStep DEF IInv
<1> QED
  BY InitIInv, <1>1, PTL DEF Spec

-----------------------------------------------------------------------------

\* Every variable of ThreadPoolExecutor keeps its type.
THEOREM TypeCorrect == Spec => []TypeOK
  BY Invariance, PTL DEF IInv

\* mutex_ is held by at most one thread, also after wait took it back.
THEOREM LockHeldByOne == Spec => []MutexHeld
  BY Invariance, PTL DEF IInv, ControlInv

\* notify_one after the unlock loses no wake-up: while a worker sleeps, every
\* queued task has an awake worker or a notify_one on its way.
THEOREM WorkNoticed == Spec => []WorkIsNoticed
  BY Invariance, PTL DEF IInv

\* When the destructor has returned, no task runs and none was begun and dropped.
THEOREM QuietAtTheEnd == Spec => []DestroyedQuietly
<1>1. IInv => DestroyedQuietly
  <2> SUFFICES ASSUME IInv, destructor = "done"
               PROVE /\ mutex = NoThread /\ \A w \in Workers : task[w] = NoTask
                     /\ finished \cup Queued = 1 .. submitted
    BY DEF DestroyedQuietly, Queued
  <2>1. \A w \in Workers : pc[w] = "exited"
    BY DEF IInv, ControlInv, DestructorInv
  <2>2. \A c \in Clients : pc[c] = "idle"
    BY DEF IInv, ControlInv, ClientsSubmit
  <2>3. mutex = NoThread
    BY <2>1, <2>2 DEF IInv, ControlInv, MutexHeld, TypeOK, Threads
  <2>4. \A w \in Workers : task[w] = NoTask
    BY <2>1 DEF IInv, ControlInv, BusyWithTask, Busy
  <2>5. Running = {}
    BY <2>4 DEF Running
  <2> QED
    BY <2>3, <2>4, <2>5 DEF IInv, TasksAccounted
<1> QED
  BY <1>1, Invariance, PTL

\* A worker that sleeps once the destructor has notified the workers, so that join
\* waits for it for ever, had found stop_ false and was on its way to sleep then.
THEOREM OnlyLateSleepersHang == Spec => []SleepersWereLate
  BY Invariance, PTL

-----------------------------------------------------------------------------
(* Refinement.                                                               *)

LEMMA AtMostOneTakes ==
  ASSUME IInv, NEW u \in Workers, NEW v \in Workers, pc[u] = "take", pc[v] = "take"
  PROVE u = v
BY DEF IInv, ControlInv, MutexHeld, Threads

\* Workers begin the tasks in the order of their submission, each once, and at most one
\* after stop_ is stored: the one that had found it false.
THEOREM PoolRefinesTaskPool == Spec => ImplementsPool
<1>1. Init => Pool!Init
  BY DEF Init, Pool!Init, Door
<1>2. IInv /\ [Next]_vars => [Pool!Next]_(Pool!vars)
  <2> SUFFICES ASSUME IInv, [Next]_vars PROVE [Pool!Next]_(Pool!vars)
    OBVIOUS
  <2>0. /\ TypeOK /\ ControlInv
        /\ pc \in [Threads -> {"idle", "push", "notify", "loop", "wait", "check", "sleep",
                               "asleep", "decide", "take", "leave", "run", "exited"}]
        /\ Workers \subseteq Threads
    BY DEF IInv, TypeOK, Threads
  <2>d. ASSUME UNCHANGED stop, \A w \in Workers : pc'[w] = "take" <=> pc[w] = "take"
        PROVE Door' = Door
    BY <2>d DEF Door
  <2>1. CASE UNCHANGED vars
    BY <2>1 DEF vars, Pool!vars, Door
  <2>2. ASSUME NEW t \in Threads, Push(t) PROVE Pool!Next
    <3>1. submitted + 1 \in Tasks
      BY <2>0, <2>2, ConstantsAssumption DEF Push, Goto, TypeOK, ControlInv, RoomForTask, Tasks
    <3>2. Door' = Door
      BY <2>0, <2>2, <2>d DEF Push, Goto, ending
    <3>3. Pool!Submit(submitted + 1)
      BY <2>2, <3>2 DEF Push, ending, Pool!Submit
    <3> QED
      BY <3>1, <3>3 DEF Pool!Next
  <2>3. ASSUME NEW w \in Workers, Take(w) PROVE Pool!Next
    <3>1. tasks # <<>> /\ task[w] = NoTask
      BY <2>0, <2>3 DEF Take, Goto, ControlInv, DecisionIsJustified, BusyWithTask, Busy
    <3>2. pc[w] = "take" /\ pc' = [pc EXCEPT ![w] = "run"] /\ stop' = stop
      BY <2>3 DEF Take, Goto, ending
    <3>3. \A u \in Workers : pc'[u] # "take"
      BY <2>0, <3>2, AtMostOneTakes
    <3>4. Door # "closed" /\ Door' = IF Door = "open" THEN "open" ELSE "closed"
      BY <3>2, <3>3 DEF Door
    <3>5. Pool!Begin(w)
      BY <2>3, <3>1, <3>4 DEF Take, Pool!Begin
    <3> QED
      BY <3>5 DEF Pool!Next
  <2>4. ASSUME NEW w \in Workers, Finish(w) PROVE Pool!Next
    <3>1. task[w] # NoTask
      BY <2>0, <2>4 DEF Finish, Goto, ControlInv, BusyWithTask, Busy
    <3>2. Door' = Door
      BY <2>0, <2>4, <2>d DEF Finish, Goto, ending
    <3>3. Pool!Finish(w)
      BY <2>4, <3>1, <3>2 DEF Finish, Pool!Finish
    <3> QED
      BY <3>3 DEF Pool!Next
  <2>5. CASE StoreStop
    <3>1. Pool!Close
      BY <2>0, <2>5 DEF StoreStop, Door, Pool!Close, ControlInv, DestructorInv
    <3> QED
      BY <3>1 DEF Pool!Next
  <2>6. ASSUME NEW t \in Threads, StartSubmit(t) \/ NotifyOne(t) PROVE UNCHANGED Pool!vars
    <3>1. \A w \in Workers : pc'[w] = "take" <=> pc[w] = "take"
      BY <2>0, <2>6 DEF StartSubmit, Lock, Goto, NotifyOne, Resume, ControlInv, SleepersAsleep
    <3> QED
      BY <2>6, <2>d, <3>1 DEF StartSubmit, NotifyOne, ending, Pool!vars
  <2>7. ASSUME NEW w \in Workers,
               LoadStop(w) \/ LockToWait(w) \/ Check(w) \/ Sleep(w) \/ BreakOut(w) \/ WakeSpuriously(w)
        PROVE UNCHANGED Pool!vars
    <3>1. \A u \in Workers : pc'[u] = "take" <=> pc[u] = "take"
      BY <2>0, <2>7 DEF LoadStop, LockToWait, Lock, Check, Sleep, BreakOut, WakeSpuriously, Goto
    <3>2. UNCHANGED <<tasks, task, stop>>
      BY <2>7 DEF LoadStop, LockToWait, Check, Sleep, BreakOut, WakeSpuriously, ending
    <3> QED
      BY <2>d, <3>1, <3>2 DEF Pool!vars
  <2>8. ASSUME NEW w \in Workers, LoadStopAgain(w) PROVE UNCHANGED Pool!vars
    <3>1. /\ pc[w] = "decide" /\ pc' = [pc EXCEPT ![w] = IF stop THEN "leave" ELSE "take"]
          /\ UNCHANGED <<tasks, task, stop>>
      BY <2>8 DEF LoadStopAgain, Goto, ending
    <3>2. stop => \A u \in Workers : pc'[u] = "take" <=> pc[u] = "take"
      BY <2>0, <3>1
    <3>3. Door' = Door
      BY <3>1, <3>2 DEF Door
    <3> QED
      BY <3>1, <3>3 DEF Pool!vars
  <2>9. CASE NotifyAll \/ Join
    <3>1. \A u \in Workers : pc'[u] = "take" <=> pc[u] = "take"
      BY <2>0, <2>9 DEF NotifyAll, Join, ControlInv, SleepersAsleep
    <3> QED
      BY <2>9, <2>d, <3>1 DEF NotifyAll, Join, Pool!vars
  <2> QED
    BY <2>1, <2>2, <2>3, <2>4, <2>5, <2>6, <2>7, <2>8, <2>9 DEF Next, Submit, Work, Destroy
<1> QED
  BY <1>1, <1>2, Invariance, PTL DEF Spec, ImplementsPool, Pool!Spec
=============================================================================
