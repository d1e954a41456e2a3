------------------------- MODULE ThreadPoolExecutor -------------------------
(***************************************************************************)
(* ThreadPoolExecutor of src/future-based-async-system.h: workers wait on  *)
(* condition_ for tasks_, clients and running tasks submit, the destructor *)
(* stores stop_ without the mutex, notifies and joins.                     *)
(***************************************************************************)
EXTENDS Integers, Sequences, FiniteSets

CONSTANTS
  Clients, Workers, NoThread,
  MaxTasks      \* bound: the number of tasks submitted

Threads == Clients \cup Workers
Tasks   == 1 .. MaxTasks
NoTask  == 0

ASSUME ConstantsAssumption ==
  /\ IsFiniteSet(Threads) /\ NoThread \notin Threads
  /\ Clients \cap Workers = {}
  /\ MaxTasks \in Nat

VARIABLES
  tasks,        \* tasks_
  mutex,        \* the thread that has locked mutex_, or NoThread
  waiting,      \* the workers asleep in condition_.wait
  stop,         \* stop_
  pc,           \* where each thread is
  task,         \* the local of worker: the task it runs
  destructor,   \* where the destructor is
  submitted,    \* history: the number of tasks submitted
  finished,     \* history: the tasks that were run
  late          \* history: the workers on their way to sleep when it notified

vars == <<tasks, mutex, waiting, stop, pc, task, destructor, submitted, finished, late>>
ending == <<stop, destructor, late>>

TypeOK ==
  /\ tasks \in Seq(Tasks)
  /\ mutex \in Threads \cup {NoThread}
  /\ waiting \subseteq Workers
  /\ stop \in BOOLEAN
  /\ pc \in [Threads -> {"idle", "push", "notify", "loop", "wait", "check", "sleep",
                         "asleep", "decide", "take", "leave", "run", "exited"}]
  /\ task \in [Workers -> Tasks \cup {NoTask}]
  /\ destructor \in {"before", "notify", "join", "done"}
  /\ submitted \in 0 .. MaxTasks
  /\ finished \subseteq Tasks
  /\ late \subseteq Workers

Init ==
  /\ tasks = <<>>
  /\ mutex = NoThread
  /\ waiting = {}
  /\ stop = FALSE
  /\ pc = [t \in Threads |-> IF t \in Workers THEN "loop" ELSE "idle"]
  /\ task = [w \in Workers |-> NoTask]
  /\ destructor = "before"
  /\ submitted = 0 /\ finished = {} /\ late = {}

Goto(t, from, to) ==
  /\ pc[t] = from
  /\ pc' = [pc EXCEPT ![t] = to]

Lock(t, from, to) ==
  /\ Goto(t, from, to)
  /\ mutex = NoThread
  /\ mutex' = t

-----------------------------------------------------------------------------
(* operator(): called by a client, or by a task that runs on a worker.       *)

\* Clients have finished with the executor when it is destroyed.
StartSubmit(t) ==
  /\ submitted < MaxTasks
  /\ t \in Clients => destructor = "before"
  /\ Lock(t, IF t \in Clients THEN "idle" ELSE "run", "push")
  /\ UNCHANGED <<tasks, waiting, ending, task, submitted, finished>>

Push(t) ==
  /\ Goto(t, "push", "notify")
  /\ tasks' = Append(tasks, submitted + 1)
  /\ submitted' = submitted + 1
  /\ mutex' = NoThread
  /\ UNCHANGED <<waiting, ending, task, finished>>

Resume(t) == IF t \in Clients THEN "idle" ELSE "run"

\* Variant with a mistake: nobody is notified.
NotifyNone(t) ==
  /\ Goto(t, "notify", Resume(t))
  /\ UNCHANGED <<tasks, mutex, waiting, ending, task, submitted, finished>>

\* notify_one wakes one of the sleeping workers, if there is one.
NotifyOne(t) ==
  /\ pc[t] = "notify"
  /\ \E woken \in IF waiting = {} THEN {{}} ELSE {{w} : w \in waiting} :
       /\ waiting' = waiting \ woken
       /\ pc' = [u \in Threads |-> IF u = t THEN Resume(t)
                                   ELSE IF u \in woken THEN "wait" ELSE pc[u]]
  /\ UNCHANGED <<tasks, mutex, ending, task, submitted, finished>>

Submit(t) == StartSubmit(t) \/ Push(t) \/ NotifyOne(t)

-----------------------------------------------------------------------------
(* worker                                                                    *)

LoadStop(w) ==
  /\ Goto(w, "loop", IF stop THEN "exited" ELSE "wait")
  /\ UNCHANGED <<tasks, mutex, waiting, ending, task, submitted, finished>>

\* The mutex, at first and again after a wake-up.
LockToWait(w) ==
  /\ Lock(w, "wait", "check")
  /\ UNCHANGED <<tasks, waiting, ending, task, submitted, finished>>

\* The predicate of condition_.wait.
Check(w) ==
  /\ Goto(w, "check", IF tasks # <<>> \/ stop THEN "decide" ELSE "sleep")
  /\ UNCHANGED <<tasks, mutex, waiting, ending, task, submitted, finished>>

\* Unlocking and going to sleep are one step; stop_ may have changed since Check.
Sleep(w) ==
  /\ Goto(w, "sleep", "asleep")
  /\ waiting' = waiting \cup {w}
  /\ mutex' = NoThread
  /\ UNCHANGED <<tasks, ending, task, submitted, finished>>

WakeSpuriously(w) ==
  /\ Goto(w, "asleep", "wait")
  /\ waiting' = waiting \ {w}
  /\ UNCHANGED <<tasks, mutex, ending, task, submitted, finished>>

\* The second look at stop_: the destructor may store it between this and the pop.
LoadStopAgain(w) ==
  /\ Goto(w, "decide", IF stop THEN "leave" ELSE "take")
  /\ UNCHANGED <<tasks, mutex, waiting, ending, task, submitted, finished>>

\* Variant with a mistake: the task is popped before stop_ is looked at.
BreakOutPopping(w) ==
  /\ Goto(w, "leave", "exited")
  /\ tasks' = IF tasks = <<>> THEN tasks ELSE Tail(tasks)
  /\ mutex' = NoThread
  /\ UNCHANGED <<waiting, ending, task, submitted, finished>>

BreakOut(w) ==
  /\ Goto(w, "leave", "exited")
  /\ mutex' = NoThread
  /\ UNCHANGED <<tasks, waiting, ending, task, submitted, finished>>

\* Variant with a mistake: the task is not popped.
TakeAndKeep(w) ==
  /\ Goto(w, "take", "run")
  /\ task' = [task EXCEPT ![w] = Head(tasks)]
  /\ mutex' = NoThread
  /\ UNCHANGED <<tasks, waiting, ending, submitted, finished>>

Take(w) ==
  /\ Goto(w, "take", "run")
  /\ task' = [task EXCEPT ![w] = Head(tasks)]
  /\ tasks' = Tail(tasks)
  /\ mutex' = NoThread
  /\ UNCHANGED <<waiting, ending, submitted, finished>>

\* task() returns.
Finish(w) ==
  /\ Goto(w, "run", "loop")
  /\ finished' = finished \cup {task[w]}
  /\ task' = [task EXCEPT ![w] = NoTask]
  /\ UNCHANGED <<tasks, mutex, waiting, ending, submitted>>

Work(w) ==
  \/ LoadStop(w) \/ LockToWait(w) \/ Check(w) \/ Sleep(w)
  \/ LoadStopAgain(w) \/ BreakOut(w) \/ Take(w) \/ Finish(w)

-----------------------------------------------------------------------------
(* The destructor                                                            *)

StoreStop ==
  /\ destructor = "before"
  /\ \A c \in Clients : pc[c] = "idle"
  /\ stop' = TRUE
  /\ destructor' = "notify"
  /\ UNCHANGED <<tasks, mutex, waiting, pc, task, submitted, finished, late>>

\* Variant with a mistake: only one worker is notified.
NotifyOneOnly ==
  /\ destructor = "notify"
  /\ destructor' = "join"
  /\ late' = {w \in Workers : pc[w] = "sleep"}
  /\ \E woken \in IF waiting = {} THEN {{}} ELSE {{w} : w \in waiting} :
       /\ waiting' = waiting \ woken
       /\ pc' = [t \in Threads |-> IF t \in woken THEN "wait" ELSE pc[t]]
  /\ UNCHANGED <<tasks, mutex, stop, task, submitted, finished>>

NotifyAll ==
  /\ destructor = "notify"
  /\ destructor' = "join"
  /\ late' = {w \in Workers : pc[w] = "sleep"}
  /\ waiting' = {}
  /\ pc' = [t \in Threads |-> IF t \in waiting THEN "wait" ELSE pc[t]]
  /\ UNCHANGED <<tasks, mutex, stop, task, submitted, finished>>

Join ==
  /\ destructor = "join"
  /\ \A w \in Workers : pc[w] = "exited"
  /\ destructor' = "done"
  /\ UNCHANGED <<tasks, mutex, waiting, stop, pc, task, submitted, finished, late>>

Destroy == StoreStop \/ NotifyAll \/ Join

-----------------------------------------------------------------------------

Next ==
  \/ \E t \in Threads : Submit(t)
  \/ \E w \in Workers : Work(w) \/ WakeSpuriously(w)
  \/ Destroy

Spec == Init /\ [][Next]_vars

\* Workers run, a call of operator() that locked the mutex goes on, and the
\* destructor goes on once it was called.  A mutex that is free again and again
\* is got: a worker is not passed over for ever by one that wakes spuriously.
Fairness ==
  /\ \A w \in Workers : SF_vars(Work(w))
  /\ \A t \in Threads : WF_vars(Push(t) \/ NotifyOne(t))
  /\ WF_vars(NotifyAll \/ Join)

LiveSpec == Spec /\ Fairness

-----------------------------------------------------------------------------

\* Whatever the interleaving of submissions, workers and the destructor, tasks are
\* begun in the order of their submission, each once and by one worker, and at most
\* one of them after stop_ is stored: by a worker that had found it false and holds
\* the mutex.
Door == IF ~stop THEN "open"
        ELSE IF \E w \in Workers : pc[w] = "take" THEN "closing" ELSE "closed"

Pool == INSTANCE TaskPool WITH pending <- tasks, running <- task, door <- Door
ImplementsPool == Pool!Spec

\* The lock is what its holders think it is: at most one thread is between its
\* lock and its unlock, also after condition_.wait took the mutex back.
MutexHeld ==
  \A t \in Threads : pc[t] \in {"push", "check", "sleep", "decide", "take", "leave"} <=> mutex = t

\* No wake-up is lost: while a worker sleeps, each queued task has an awake worker
\* or a notify_one on its way, although notify_one is called after the unlock and
\* may wake a worker whose task another one takes.
Awake    == {w \in Workers : pc[w] \in {"loop", "wait", "check", "decide", "take"}}
Promised == {t \in Threads : pc[t] = "notify"}
WorkIsNoticed ==
  ~stop /\ waiting # {} => Len(tasks) <= Cardinality(Awake) + Cardinality(Promised)

\* When the destructor has returned no task runs, and every task was run or is
\* still queued: none was begun and dropped.
DestroyedQuietly ==
  destructor = "done" =>
    /\ mutex = NoThread /\ \A w \in Workers : task[w] = NoTask
    /\ finished \cup {tasks[k] : k \in DOMAIN tasks} = 1 .. submitted

\* A submitted task is run, unless the executor is destroyed.
TaskIsRun == \A x \in Tasks : submitted >= x ~> x \in finished \/ stop

\* The destructor returns, unless a worker had found stop_ false and was on its way
\* to sleep when notify_all was called: the only way in which it hangs.
DestructorReturns == destructor = "join" ~> destructor = "done" \/ late # {}
=============================================================================
