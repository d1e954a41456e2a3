------------------------- MODULE CoroutineScheduler -------------------------
(***************************************************************************)
(* CoroutineScheduler of src/coroutines-based-task-scheduler.h: worker     *)
(* threads with a queue of suspended coroutines each, which take from      *)
(* their own queue or steal; coroutines that suspend with schedule(),      *)
(* delay() or run_on_thread_pool(), the last two through a detached        *)
(* thread.                                                                 *)
(*                                                                         *)
(* A critical section of a queue_mutex is one step.  Nothing is ever       *)
(* pushed on global_queue, so a look at it changes nothing.  The scheduler *)
(* has its workers when the first coroutine starts.  A thread that uses a  *)
(* worker after its destruction is "undefined": it may do anything, and no *)
(* more is said of it or of what it had in its hands.                      *)
(***************************************************************************)
EXTENDS Integers, Sequences, FiniteSets

CONSTANTS
  Coroutines,
  NumWorkers,
  Client,         \* the thread that starts the coroutines
  Detached,       \* bound: the detached threads that there can be at once
  MaxAwaits       \* bound: how often a coroutine suspends

Workers == 0 .. NumWorkers - 1
Threads == Workers \cup {Client} \cup Detached
Nobody  == Client      \* the value of handle where there is none

ASSUME ConstantsAssumption ==
  /\ IsFiniteSet(Coroutines) /\ IsFiniteSet(Detached)
  /\ NumWorkers \in Nat \ {0} /\ MaxAwaits \in Nat
  /\ Client \notin Workers \cup Coroutines \cup Detached /\ Workers \cap Detached = {}

VARIABLES
  local_queue,    \* by worker
  active_tasks, next_worker, shutdown,
  workers,        \* those not destroyed
  state,          \* of each coroutine
  suspensions,    \* history: how often it has suspended
  pc,             \* where each thread is
  handle,         \* its local: the coroutine it runs or schedules
  target,         \* its local, of schedule: the worker chosen; 0 outside of it
  victim          \* its local, of try_steal_work: i; 1 outside of it

ending == <<shutdown, workers>>
frames == <<state, suspensions>>
vars == <<local_queue, active_tasks, next_worker, ending, frames, pc, handle, target, victim>>

Scheduling == {"count", "choose", "push"}
Resuming   == {"resume", "running", "notify", "check"}
TypeOK ==
  /\ local_queue \in [Workers -> Seq(Coroutines)]
  /\ active_tasks \in Nat /\ next_worker \in Workers /\ shutdown \in BOOLEAN
  /\ workers \subseteq Workers
  /\ state \in [Coroutines -> {"new", "running", "suspended", "done", "destroyed"}]
  /\ suspensions \in [Coroutines -> 0 .. MaxAwaits]
  /\ pc \in [Threads -> {"idle", "sleep", "top", "local", "steal", "exited", "undefined"}
                        \cup Scheduling \cup Resuming]
  /\ handle \in [Threads -> Coroutines \cup {Nobody}]
  /\ target \in [Threads -> Workers]
  /\ victim \in [Workers -> 1 .. NumWorkers]

Init ==
  /\ local_queue = [w \in Workers |-> <<>>]
  /\ active_tasks = 0 /\ next_worker = 0 /\ shutdown = FALSE /\ workers = Workers
  /\ state = [c \in Coroutines |-> "new"]
  /\ suspensions = [c \in Coroutines |-> 0]
  /\ pc = [t \in Threads |-> IF t \in Workers THEN "top" ELSE "idle"]
  /\ handle = [t \in Threads |-> Nobody]
  /\ target = [t \in Threads |-> 0]
  /\ victim = [w \in Workers |-> 1]

Goto(t, from, to) ==
  /\ pc[t] = from
  /\ pc' = [pc EXCEPT ![t] = to]

\* What a thread does when it comes back from the coroutine it ran or scheduled.
Back(t)    == IF t \in Workers THEN "check" ELSE "idle"
LetGo(t)   == handle' = [handle EXCEPT ![t] = IF t \in Workers THEN @ ELSE Nobody]

-----------------------------------------------------------------------------
(* A coroutine, on the thread that runs it.                                  *)

\* A function that returns a Task is called: it runs at once (suspend_never).
StartCoroutine(c) ==
  /\ state[c] = "new"
  /\ Goto(Client, "idle", "running")
  /\ handle' = [handle EXCEPT ![Client] = c]
  /\ state' = [state EXCEPT ![c] = "running"]
  /\ UNCHANGED <<local_queue, active_tasks, next_worker, ending, suspensions, target, victim>>

Suspend(c) ==
  /\ suspensions[c] < MaxAwaits
  /\ suspensions' = [suspensions EXCEPT ![c] = @ + 1]
  /\ state' = [state EXCEPT ![c] = "suspended"]

\* co_await schedule(): await_suspend schedules the coroutine from this thread.
AwaitSchedule(t) ==
  /\ Goto(t, "running", "count")
  /\ Suspend(handle[t])
  /\ UNCHANGED <<local_queue, active_tasks, next_worker, ending, handle, target, victim>>

\* co_await delay() or run_on_thread_pool(): a new detached thread d takes over.
AwaitDetached(t, d) ==
  /\ pc[t] = "running" /\ pc[d] = "idle"
  /\ Suspend(handle[t])
  /\ pc' = [pc EXCEPT ![t] = Back(t), ![d] = "sleep"]
  /\ handle' = [handle EXCEPT ![t] = IF t \in Workers THEN @ ELSE Nobody, ![d] = handle[t]]
  /\ UNCHANGED <<local_queue, active_tasks, next_worker, ending, target, victim>>

\* It has slept, or called the function (whose exception it drops).
DetachedWakes(d) ==
  /\ Goto(d, "sleep", "count")
  /\ UNCHANGED <<local_queue, active_tasks, next_worker, ending, frames, handle, target, victim>>

\* co_return, or an exception that unhandled_exception keeps.
Finish(t) ==
  /\ Goto(t, "running", Back(t))
  /\ state' = [state EXCEPT ![handle[t]] = "done"]
  /\ LetGo(t)
  /\ UNCHANGED <<local_queue, active_tasks, next_worker, ending, suspensions, target, victim>>

-----------------------------------------------------------------------------
(* schedule(handle)                                                          *)

\* Variant with a mistake: the task is not counted.
CountNothing(t) ==
  /\ Goto(t, "count", "choose")
  /\ UNCHANGED <<local_queue, active_tasks, next_worker, ending, frames, handle, target, victim>>

Count(t) ==
  /\ Goto(t, "count", "choose")
  /\ active_tasks' = active_tasks + 1
  /\ UNCHANGED <<local_queue, next_worker, ending, frames, handle, target, victim>>

Choose(t) ==
  /\ workers # {}
  /\ Goto(t, "choose", "push")
  /\ target' = [target EXCEPT ![t] = next_worker]
  /\ next_worker' = (next_worker + 1) % NumWorkers
  /\ UNCHANGED <<local_queue, active_tasks, ending, frames, handle, victim>>

\* From here on a worker may resume the coroutine, before this thread has even
\* come back from its await_suspend.  On a worker, the handle is still that of
\* execute_coroutine.
Push(t) ==
  /\ target[t] \in workers
  /\ Goto(t, "push", "notify")
  /\ local_queue' = [local_queue EXCEPT ![target[t]] = Append(@, handle[t])]
  /\ LetGo(t)
  /\ UNCHANGED <<active_tasks, next_worker, ending, frames, target, victim>>

\* Nobody waits on the condition, but the thread still uses the worker.
Notify(t) ==
  /\ target[t] \in workers
  /\ Goto(t, "notify", Back(t))
  /\ target' = [target EXCEPT ![t] = 0]
  /\ UNCHANGED <<local_queue, active_tasks, next_worker, ending, frames, handle, victim>>

Schedule(t) == Count(t) \/ Choose(t) \/ Push(t) \/ Notify(t)

-----------------------------------------------------------------------------
(* worker_loop                                                               *)

\* Variant with a mistake: the loop does not look at shutdown.
LoadNothing(w) ==
  /\ Goto(w, "top", "local")
  /\ UNCHANGED <<local_queue, active_tasks, next_worker, ending, frames, handle, target, victim>>

LoadShutdown(w) ==
  /\ Goto(w, "top", IF shutdown THEN "exited" ELSE "local")
  /\ UNCHANGED <<local_queue, active_tasks, next_worker, ending, frames, handle, target, victim>>

\* Variant with a mistake: it stays in the queue.
LookAt(w, v) ==
  /\ local_queue[v] # <<>>
  /\ handle' = [handle EXCEPT ![w] = Head(local_queue[v])]
  /\ UNCHANGED local_queue

\* Take the front of the queue of worker v, to resume it.
TakeFrom(w, v) ==
  /\ local_queue[v] # <<>>
  /\ handle' = [handle EXCEPT ![w] = Head(local_queue[v])]
  /\ local_queue' = [local_queue EXCEPT ![v] = Tail(@)]

\* Variant with a mistake: found_task stays false.
TakeLocalUnfound(w) ==
  /\ Goto(w, "local", "steal")
  /\ local_queue[w] # <<>>
  /\ local_queue' = [local_queue EXCEPT ![w] = Tail(@)]
  /\ UNCHANGED <<active_tasks, next_worker, ending, frames, handle, target, victim>>

TakeLocal(w) ==
  /\ Goto(w, "local", "resume")
  /\ TakeFrom(w, w)
  /\ UNCHANGED <<active_tasks, next_worker, ending, frames, target, victim>>

\* Then it looks at global_queue, which is empty: it waits there for 10 ms or for
\* shutdown, and goes on to steal.
LocalIsEmpty(w) ==
  /\ Goto(w, "local", "steal")
  /\ local_queue[w] = <<>>
  /\ UNCHANGED <<local_queue, active_tasks, next_worker, ending, frames, handle, target, victim>>

Victim(w) == (w + victim[w]) % NumWorkers

Steal(w) ==
  /\ victim[w] < NumWorkers /\ Victim(w) \in workers
  /\ Goto(w, "steal", "resume")
  /\ TakeFrom(w, Victim(w))
  /\ victim' = [victim EXCEPT ![w] = 1]
  /\ UNCHANGED <<active_tasks, next_worker, ending, frames, target>>

\* Nothing there, or its mutex is locked (or try_lock fails spuriously, or the
\* remains of a destroyed worker look so).
SkipVictim(w) ==
  /\ victim[w] < NumWorkers
  /\ pc[w] = "steal"
  /\ victim' = [victim EXCEPT ![w] = @ + 1]
  /\ UNCHANGED <<local_queue, active_tasks, next_worker, ending, frames, pc, handle, target>>

StealNothing(w) ==
  /\ victim[w] = NumWorkers
  /\ Goto(w, "steal", "top")
  /\ victim' = [victim EXCEPT ![w] = 1]
  /\ UNCHANGED <<local_queue, active_tasks, next_worker, ending, frames, handle, target>>

\* execute_coroutine: resume, and when it returns, see whether the coroutine is
\* done.  It may have been resumed elsewhere in between.
Resume(w) ==
  /\ Goto(w, "resume", "running")
  /\ state' = [state EXCEPT ![handle[w]] = "running"]
  /\ UNCHANGED <<local_queue, active_tasks, next_worker, ending, suspensions, handle, target, victim>>

\* Variant with a mistake: a task that is done is not counted off.
CheckNothing(w) ==
  /\ Goto(w, "check", "top")
  /\ handle' = [handle EXCEPT ![w] = Nobody]
  /\ UNCHANGED <<local_queue, active_tasks, next_worker, ending, frames, target, victim>>

CheckDone(w) ==
  /\ Goto(w, "check", "top")
  /\ active_tasks' = active_tasks - (IF state[handle[w]] = "done" THEN 1 ELSE 0)
  /\ handle' = [handle EXCEPT ![w] = Nobody]
  /\ UNCHANGED <<local_queue, next_worker, ending, frames, target, victim>>

Search(w) ==
  \/ LoadShutdown(w) \/ TakeLocal(w) \/ LocalIsEmpty(w)
  \/ Steal(w) \/ SkipVictim(w) \/ StealNothing(w)

Execute(w) == Resume(w) \/ CheckDone(w)

-----------------------------------------------------------------------------
(* Destruction.                                                              *)

\* ~CoroutineScheduler; coroutines still queued are never resumed.
Shutdown ==
  /\ ~shutdown
  /\ shutdown' = TRUE
  /\ UNCHANGED <<local_queue, active_tasks, next_worker, workers, frames, pc, handle, target, victim>>

\* workers.clear() joins and destroys them in order, while later ones may search.
DestroyWorker(w) ==
  /\ shutdown /\ pc[w] = "exited"
  /\ w \in workers /\ \A v \in workers : w <= v
  /\ workers' = workers \ {w}
  /\ UNCHANGED <<local_queue, active_tasks, next_worker, shutdown, frames, pc, handle, target, victim>>

\* A thread steals from a worker that was destroyed, pushes to it or notifies it,
\* or finds none.
UseDestroyed(t) ==
  /\ \/ pc[t] = "steal" /\ victim[t] < NumWorkers /\ Victim(t) \notin workers
     \/ pc[t] = "choose" /\ workers = {}
     \/ pc[t] \in {"push", "notify"} /\ target[t] \notin workers
  /\ pc' = [pc EXCEPT ![t] = "undefined"]
  /\ handle' = [handle EXCEPT ![t] = Nobody]
  /\ target' = [target EXCEPT ![t] = 0]
  /\ UNCHANGED <<local_queue, active_tasks, next_worker, ending, frames, victim>>

\* Variant with a mistake: the client destroys a task as soon as it is_ready().
DropReady(c) == state[c] = "done"

\* When the client destroys a task: it is_ready(), and after that
\* wait_for_all_tasks() has returned.
MayDrop(c) == state[c] = "done" /\ active_tasks = 0

\* ~Task destroys the frame of the coroutine.
DropTask(c) ==
  /\ MayDrop(c) /\ pc[Client] = "idle"
  /\ state' = [state EXCEPT ![c] = "destroyed"]
  /\ UNCHANGED <<local_queue, active_tasks, next_worker, ending, suspensions, pc, handle, target, victim>>

-----------------------------------------------------------------------------

RunCoroutine(t) ==
  AwaitSchedule(t) \/ (\E d \in Detached : AwaitDetached(t, d)) \/ Finish(t)

Next ==
  \/ \E c \in Coroutines : StartCoroutine(c) \/ DropTask(c)
  \/ \E d \in Detached : DetachedWakes(d)
  \/ \E t \in Threads : Schedule(t) \/ UseDestroyed(t)
  \/ \E t \in Workers \cup {Client} : RunCoroutine(t)
  \/ \E w \in Workers : Search(w) \/ Execute(w) \/ DestroyWorker(w)
  \/ Shutdown

Spec == Init /\ [][Next]_vars

\* Threads run: workers search, coroutines go on to their next suspension or their
\* end, what is being scheduled is pushed, detached threads wake up, the destructor
\* goes on once it was called.
Fairness ==
  /\ \A w \in Workers : WF_vars(Search(w) \/ Execute(w) \/ UseDestroyed(w))
                        /\ WF_vars(DestroyWorker(w))
  /\ \A t \in Workers \cup {Client} : WF_vars(RunCoroutine(t))
  /\ \A t \in Threads : WF_vars(Schedule(t) \/ UseDestroyed(t))
  /\ \A d \in Detached : WF_vars(DetachedWakes(d))

LiveSpec == Spec /\ Fairness

-----------------------------------------------------------------------------

\* A coroutine is in one place: in one queue, about to be pushed, with its detached
\* thread, about to be resumed or running, and only once.  Resuming one that runs
\* is undefined; stealing and a schedule() that races with the suspension come
\* close to it.
Entries == UNION {{<<w, k>> : k \in DOMAIN local_queue[w]} : w \in Workers}
Scheduled(c) == {e \in Entries : local_queue[e[1]][e[2]] = c}
Carried(c) ==
  {t \in Threads : handle[t] = c /\ pc[t] \in Scheduling \cup {"sleep", "resume", "running"}}
InOnePlace ==
  \A c \in Coroutines : Cardinality(Scheduled(c)) + Cardinality(Carried(c)) <= 1

\* active_tasks never falls below what was counted and is still to do: a coroutine
\* about to be pushed or in a queue, a worker that resumed one and has yet to look
\* whether it is done, and a coroutine that suspended again and sleeps, when every
\* worker that resumed it has looked.  So the counter does not wrap below zero,
\* although two workers may find the same coroutine done, and wait_for_all_tasks
\* does not return before a coroutine that was once scheduled is done.  It may
\* return while a coroutine sleeps in its first delay(), which nothing has counted.
Counted == {t \in Threads : pc[t] \in {"choose", "push"}}
Looking == {w \in Workers : pc[w] \in Scheduling \cup Resuming}
Resting ==
  {c \in Coroutines :
    /\ suspensions[c] >= 2
    /\ \E d \in Detached : handle[d] = c /\ pc[d] \in {"sleep", "count"}
    /\ \A w \in Looking : handle[w] # c}
ActiveCoversPending ==
  active_tasks >= Cardinality(Entries) + Cardinality(Counted) + Cardinality(Looking)
                  + Cardinality(Resting)

\* A coroutine that is in a queue is resumed, by the worker it was given to or by
\* one that steals it, unless the scheduler is shut down.
ScheduledIsResumed ==
  \A c \in Coroutines : Scheduled(c) # {} ~> state[c] = "running" \/ shutdown

\* wait_for_all_tasks returns when every coroutine is done, if none suspended more
\* than once: a coroutine is counted for each suspension and counted off once, so
\* that after two suspensions the counter stays above zero for ever.
WaitReturns ==
  (\A c \in Coroutines : state[c] \in {"done", "destroyed"} /\ suspensions[c] <= 1)
    ~> active_tasks = 0 \/ shutdown

\* Nobody uses the frame of a coroutine after ~Task, if the client destroys it only
\* after it was done and wait_for_all_tasks() has returned: then every worker that
\* resumed it, if only to see it suspend again, has also looked at done().  That it
\* is_ready() is not enough.
FramesOutliveUse ==
  \A c \in Coroutines : state[c] = "destroyed" =>
    Scheduled(c) = {} /\ \A t \in Threads : handle[t] # c

\* The destructor of the scheduler returns, wherever the workers, the coroutines
\* and the detached threads are, unless one of them used a destroyed worker.
DestructorReturns == shutdown ~> workers = {} \/ \E t \in Threads : pc[t] = "undefined"

=============================================================================
