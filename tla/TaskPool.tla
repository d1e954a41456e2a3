------------------------------ MODULE TaskPool ------------------------------
(***************************************************************************)
(* What ThreadPoolExecutor promises its clients: tasks are begun in the    *)
(* order they were submitted, each by one worker and once, until the pool  *)
(* is closed; tasks not begun by then are dropped, also those submitted    *)
(* later by tasks that still run.                                          *)
(***************************************************************************)
EXTENDS Sequences

CONSTANTS Workers, Tasks, NoTask

VARIABLES
  pending,    \* the tasks submitted and not begun, oldest first
  running,    \* the task each worker runs, or NoTask
  door        \* "open", "closing" when one more task may be begun, or "closed"

vars == <<pending, running, door>>

Init ==
  /\ pending = <<>>
  /\ running = [w \in Workers |-> NoTask]
  /\ door = "open"

Submit(x) ==
  /\ pending' = Append(pending, x)
  /\ UNCHANGED <<running, door>>

\* A worker that saw the pool open may still begin a task as it closes, but only one.
Begin(w) ==
  /\ door # "closed"
  /\ pending # <<>> /\ running[w] = NoTask
  /\ running' = [running EXCEPT ![w] = Head(pending)]
  /\ pending' = Tail(pending)
  /\ door' = IF door = "open" THEN "open" ELSE "closed"

Finish(w) ==
  /\ running[w] # NoTask
  /\ running' = [running EXCEPT ![w] = NoTask]
  /\ UNCHANGED <<pending, door>>

Close ==
  /\ door = "open"
  /\ door' \in {"closing", "closed"}
  /\ UNCHANGED <<pending, running>>

Next ==
  \/ \E x \in Tasks : Submit(x)
  \/ \E w \in Workers : Begin(w) \/ Finish(w)
  \/ Close

Spec == Init /\ [][Next]_vars
=============================================================================
