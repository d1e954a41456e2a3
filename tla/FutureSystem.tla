---------------------------- MODULE FutureSystem ----------------------------
(***************************************************************************)
(* Future, Promise and their SharedState in                                *)
(* src/future-based-async-system.h, with continuations that run inline,    *)
(* under the mutex of the state they were attached to, or on an executor.  *)
(*                                                                         *)
(* A shared state is a number; then() and async() make new ones, so a      *)
(* state is larger than the one it continues.  What a thread does inside   *)
(* nested calls (set_value, its continuation, the set_value of that        *)
(* continuation's promise, ...) is a path of states whose mutex it holds.  *)
(* A value is "value", an exception "error".  The executor is a queue that *)
(* worker threads take tasks from; ThreadPoolExecutor has its details.     *)
(***************************************************************************)
EXTENDS Integers, Sequences, FiniteSets

CONSTANTS
  Clients,       \* threads that call the interface
  Workers,       \* threads of the executor
  InlineKinds,   \* the kinds of function given to then(func),
  QueuedKinds,   \* and to then(executor, func)
  NoThread,
  MaxStates,     \* bound: shared states ever made
  MaxCalls       \* bound: calls of the clients

Threads == Clients \cup Workers

\* What a continuation does with the future it is given: nothing ("plain"),
\* get() it as catch_error does, or get() it as when_any does if it is first.
Kinds == {"plain", "get", "any"}

ASSUME ConstantsAssumption ==
  /\ NoThread \notin Threads /\ Clients \cap Workers = {}
  /\ InlineKinds \subseteq Kinds /\ QueuedKinds \subseteq Kinds
  /\ MaxStates \in Nat \ {0} /\ MaxCalls \in Nat

States   == 1 .. MaxStates
Outcomes == {"value", "error"}

Continuations == [kind : Kinds, queued : BOOLEAN, from : 0 .. MaxStates, target : States]
NoContinuation == [kind |-> "none", queued |-> FALSE, from |-> 0, target |-> 0]

VARIABLES
  used,           \* the shared states made so far are 1 .. used
  promises,       \* those whose promise a client has
  outcome,        \* ready, value and exception: "none", "value" or "error"
  continuation,   \* continuation, by state
  owner,          \* who has locked mutex, by state
  sleepers,       \* who waits for condition, by state
  tasks,          \* the executor's queue
  completed,      \* when_any: the states whose completed flag is set
  pc,             \* where each thread is
  at,             \* the state its current call is on
  result,         \* what it is about to set
  cont,           \* the continuation it attaches or runs
  path,           \* the states it holds while a continuation of theirs runs
  patience,       \* get waits "forever", wait_for is "timed", then "expired"
  calls,          \* history: the number of calls of the clients
  rest,           \* the continuations a when_any has yet to attach
  attached,       \* history: the continuations given to then() or when_any()
  started,        \* history: those that were run or given to the executor
  displaced       \* history: those that another then() on their state replaced

shared  == <<outcome, continuation, owner, sleepers>>
made    == <<used, promises, attached, calls>>
local   == <<at, result, cont, patience, rest>>
history == <<started, displaced>>
vars == <<made, shared, tasks, completed, pc, local, path, history>>

Ready(s) == outcome[s] # "none"

InCall == {"set", "look", "store", "run", "start", "func", "then", "attach", "keep",
           "get", "check", "sleep", "asleep", "unwind"}

TypeOK ==
  /\ used \in 0 .. MaxStates /\ promises \subseteq States
  /\ outcome \in [States -> Outcomes \cup {"none"}]
  /\ continuation \in [States -> Continuations \cup {NoContinuation}]
  /\ owner \in [States -> Threads \cup {NoThread}]
  /\ sleepers \in [States -> SUBSET Threads]
  /\ tasks \in Seq(Continuations)
  /\ completed \subseteq States
  /\ pc \in [Threads -> InCall \cup {"idle"}]
  /\ at \in [Threads -> 0 .. MaxStates]
  /\ result \in [Threads -> Outcomes \cup {"none"}]
  /\ cont \in [Threads -> Continuations \cup {NoContinuation}]
  /\ path \in [Threads -> Seq([state : States, notify : BOOLEAN])]
  /\ patience \in [Threads -> {"forever", "timed", "expired"}]
  /\ calls \in Nat
  /\ rest \in [Threads -> Seq(Continuations)]
  /\ attached \subseteq Continuations
  /\ started \subseteq attached /\ displaced \subseteq attached

Init ==
  /\ used = 0 /\ promises = {}
  /\ outcome = [s \in States |-> "none"]
  /\ continuation = [s \in States |-> NoContinuation]
  /\ owner = [s \in States |-> NoThread]
  /\ sleepers = [s \in States |-> {}]
  /\ tasks = <<>>
  /\ completed = {}
  /\ pc = [t \in Threads |-> "idle"]
  /\ at = [t \in Threads |-> 0]
  /\ result = [t \in Threads |-> "none"]
  /\ cont = [t \in Threads |-> NoContinuation]
  /\ path = [t \in Threads |-> <<>>]
  /\ patience = [t \in Threads |-> "forever"]
  /\ calls = 0
  /\ rest = [t \in Threads |-> <<>>]
  /\ attached = {} /\ started = {} /\ displaced = {}

-----------------------------------------------------------------------------
(* Calls of the clients.                                                     *)

Goto(t, from, to) ==
  /\ pc[t] = from
  /\ pc' = [pc EXCEPT ![t] = to]

On(t, s) == at' = [at EXCEPT ![t] = s]

Call(t, operation, s) ==
  /\ Goto(t, "idle", operation)
  /\ On(t, s)
  /\ calls < MaxCalls
  /\ calls' = calls + 1
  /\ UNCHANGED <<shared, completed, path, history>>

MakePromise ==
  /\ used < MaxStates
  /\ used' = used + 1
  /\ promises' = promises \cup {used'}
  /\ UNCHANGED <<shared, tasks, completed, pc, local, path, calls, attached, history>>

\* set_value or set_exception; nothing keeps clients from satisfying it twice.
CallSet(t, s, o) ==
  /\ s \in promises
  /\ Call(t, "set", s)
  /\ result' = [result EXCEPT ![t] = o]
  /\ UNCHANGED <<tasks, used, promises, attached, cont, patience, rest>>

CallGet(t, s, how) ==
  /\ s <= used
  /\ Call(t, "get", s)
  /\ patience' = [patience EXCEPT ![t] = how]
  /\ UNCHANGED <<tasks, used, promises, attached, cont, result, rest>>

\* A call that attaches continuations one after the other.
CallAttach(t, list) ==
  /\ used < MaxStates
  /\ used' = used + 1
  /\ Call(t, "then", Head(list).from)
  /\ cont' = [cont EXCEPT ![t] = Head(list)]
  /\ rest' = [rest EXCEPT ![t] = Tail(list)]
  /\ attached' = attached \cup {list[k] : k \in DOMAIN list}
  /\ UNCHANGED <<tasks, promises, result, patience>>

NewContinuation(kind, queued, s) ==
  [kind |-> kind, queued |-> queued, from |-> s, target |-> used + 1]

CallThen(t, s, kind, queued) ==
  /\ s <= used
  /\ CallAttach(t, <<NewContinuation(kind, queued, s)>>)

\* when_any of two futures: a then() for each, and one promise for both.
CallWhenAny(t, s, r) ==
  /\ s <= used /\ r <= used /\ s # r
  /\ CallAttach(t, <<NewContinuation("any", FALSE, s), NewContinuation("any", FALSE, r)>>)

\* async: a promise whose task goes to the default executor.
CallAsync(t) ==
  /\ used < MaxStates
  /\ used' = used + 1
  /\ pc[t] = "idle" /\ calls < MaxCalls /\ calls' = calls + 1
  /\ tasks' = Append(tasks, [kind |-> "plain", queued |-> TRUE, from |-> 0, target |-> used + 1])
  /\ UNCHANGED <<promises, attached, shared, completed, pc, local, path, history>>

Client(t) ==
  \/ \E s \in States, o \in Outcomes : CallSet(t, s, o)
  \/ \E s \in States, how \in {"forever", "timed"} : CallGet(t, s, how)
  \/ \E s \in States, kind \in InlineKinds \ {"any"} : CallThen(t, s, kind, FALSE)
  \/ \E s \in States, kind \in QueuedKinds : CallThen(t, s, kind, TRUE)
  \/ \E s, r \in States : "any" \in InlineKinds /\ CallWhenAny(t, s, r)
  \/ CallAsync(t)

-----------------------------------------------------------------------------
(* The mutex of a state.                                                     *)

Lock(t, from, to, s) ==
  /\ Goto(t, from, to)
  /\ owner[s] = NoThread
  /\ owner' = [owner EXCEPT ![s] = t]

\* Variant with a mistake: the mutex is not locked.
EnterUnlocked(t, from, to, notify) ==
  /\ Goto(t, from, to)
  /\ path' = [path EXCEPT ![t] = Append(@, [state |-> at[t], notify |-> notify])]
  /\ UNCHANGED <<made, shared, tasks, completed, local, history>>

\* Locked for a call that may run a continuation.
Enter(t, from, to, notify) ==
  /\ Lock(t, from, to, at[t])
  /\ path' = [path EXCEPT ![t] = Append(@, [state |-> at[t], notify |-> notify])]
  /\ UNCHANGED <<made, outcome, continuation, sleepers, tasks, completed, local, history>>

Last(s)  == s[Len(s)]
Front(s) == SubSeq(s, 1, Len(s) - 1)

\* A call is over: its thread goes on in the call around it, attaches the next
\* continuation of a when_any, or is idle.
Return(t, held) ==
  LET more == held = <<>> /\ rest[t] # <<>>
  IN
  /\ cont' = [cont EXCEPT ![t] = IF more THEN Head(rest[t]) ELSE NoContinuation]
  /\ at' = [at EXCEPT ![t] = IF more THEN Head(rest[t]).from ELSE 0]
  /\ rest' = [rest EXCEPT ![t] = IF more THEN Tail(@) ELSE @]
  /\ result' = [result EXCEPT ![t] = "none"]
  /\ patience' = [patience EXCEPT ![t] = "forever"]
  /\ path' = [path EXCEPT ![t] = held]

Outside(t, held) ==
  IF held # <<>> THEN "unwind" ELSE IF rest[t] # <<>> THEN "then" ELSE "idle"

\* Those that notify_all wakes.  In the variant with a mistake it is not called.
NotifiedNone(top) == {}
Notified(top)     == IF top.notify THEN sleepers[top.state] ELSE {}

\* The continuation has returned: notify_all, in set_value and set_exception,
\* and unlock.
Unwind(t) ==
  LET top   == Last(path[t])
      held  == Front(path[t])
      woken == Notified(top)
  IN
  /\ pc[t] = "unwind"
  /\ owner' = [owner EXCEPT ![top.state] = NoThread]
  /\ sleepers' = [sleepers EXCEPT ![top.state] = @ \ woken]
  /\ pc' = [u \in Threads |-> IF u = t THEN Outside(t, held)
                              ELSE IF u \in woken THEN "get" ELSE pc[u]]
  /\ Return(t, held)
  /\ UNCHANGED <<made, outcome, continuation, tasks, completed, history>>

-----------------------------------------------------------------------------
(* set_value and set_exception                                               *)

\* Variant with a mistake: the mutex is not locked.
LockToSetNot(t) == EnterUnlocked(t, "set", "look", TRUE)

LockToSet(t) == Enter(t, "set", "look", TRUE)

\* Variant with a mistake: a second result is dropped, and the rest is done again.
RefuseLate(t) ==
  /\ Goto(t, "look", "run")
  /\ Ready(at[t])
  /\ UNCHANGED <<made, shared, tasks, completed, local, path, history>>

\* Ready: promise_already_satisfied is thrown.
Refuse(t) ==
  /\ pc[t] = "look"
  /\ Ready(at[t])
  /\ owner' = [owner EXCEPT ![at[t]] = NoThread]
  /\ pc' = [pc EXCEPT ![t] = Outside(t, Front(path[t]))]
  /\ Return(t, Front(path[t]))
  /\ UNCHANGED <<made, outcome, continuation, sleepers, tasks, completed, history>>

\* Not ready: go on to store the result.
Accept(t) ==
  /\ Goto(t, "look", "store")
  /\ ~Ready(at[t])
  /\ UNCHANGED <<made, shared, tasks, completed, local, path, history>>

\* The value or the exception, and ready: whatever ready has become since the look.
Store(t) ==
  /\ Goto(t, "store", "run")
  /\ outcome' = [outcome EXCEPT ![at[t]] = result[t]]
  /\ UNCHANGED <<made, continuation, owner, sleepers, tasks, completed, local, path, history>>

\* if (continuation) continuation();
RunContinuation(t) ==
  /\ Goto(t, "run", IF continuation[at[t]] = NoContinuation THEN "unwind" ELSE "start")
  /\ cont' = [cont EXCEPT ![t] = continuation[at[t]]]
  /\ UNCHANGED <<made, shared, tasks, completed, at, result, patience, rest, path, history>>

-----------------------------------------------------------------------------
(* then: set_continuation                                                    *)

\* Variant with a mistake: the mutex is not locked.
LockToAttachNot(t) == EnterUnlocked(t, "then", "attach", FALSE)

LockToAttach(t) == Enter(t, "then", "attach", FALSE)

\* Variant with a mistake: the continuation is kept without a look at ready.
AttachBlindly(t) ==
  /\ Goto(t, "attach", "keep")
  /\ UNCHANGED <<made, shared, tasks, completed, local, path, history>>

\* Not ready: go on to keep it.
AttachUnready(t) ==
  /\ Goto(t, "attach", "keep")
  /\ ~Ready(at[t])
  /\ UNCHANGED <<made, shared, tasks, completed, local, path, history>>

\* Keep it, in the place of one attached before.
Attach(t) ==
  /\ Goto(t, "keep", "unwind")
  /\ continuation' = [continuation EXCEPT ![at[t]] = cont[t]]
  /\ displaced' = displaced \cup ({continuation[at[t]]} \ {NoContinuation})
  /\ UNCHANGED <<made, outcome, owner, sleepers, tasks, completed, local, path, started>>

\* Ready: run it at once, in this thread and with the mutex locked.
AttachReady(t) ==
  /\ Goto(t, "attach", "start")
  /\ Ready(at[t])
  /\ UNCHANGED <<made, shared, tasks, completed, local, path, history>>

-----------------------------------------------------------------------------
(* A continuation                                                            *)

\* Inline it runs here; on an executor its function is queued and it is over.
Start(t) ==
  /\ Goto(t, "start", IF cont[t].queued THEN "unwind" ELSE "func")
  /\ tasks' = IF cont[t].queued THEN Append(tasks, cont[t]) ELSE tasks
  /\ started' = started \cup {cont[t]}
  /\ UNCHANGED <<made, shared, completed, local, path, displaced>>

TakeTask(w) ==
  /\ w \in Workers
  /\ tasks # <<>>
  /\ Goto(w, "idle", "func")
  /\ cont' = [cont EXCEPT ![w] = Head(tasks)]
  /\ tasks' = Tail(tasks)
  /\ UNCHANGED <<made, shared, completed, at, result, patience, rest, path, history>>

\* Variant with a mistake: the state of the future is set, not the new promise.
FulfilSource(t, o) ==
  /\ result' = [result EXCEPT ![t] = o]
  /\ On(t, IF cont[t].from = 0 THEN cont[t].target ELSE cont[t].from)

\* func returns or throws, and new_promise is set to what it gave.
Fulfil(t, o) ==
  /\ result' = [result EXCEPT ![t] = o]
  /\ On(t, cont[t].target)

FuncReturns(t) ==
  /\ cont[t].kind = "plain"
  /\ Goto(t, "func", "set")
  /\ \E o \in Outcomes : Fulfil(t, o)
  /\ UNCHANGED <<made, shared, tasks, completed, cont, patience, rest, path, history>>

\* func calls get() of the future it was given: when_any's only if it is the
\* first to exchange completed.
FuncGets(t) ==
  /\ \/ cont[t].kind = "get" /\ UNCHANGED completed
     \/ /\ cont[t].kind = "any" /\ cont[t].target \notin completed
        /\ completed' = completed \cup {cont[t].target}
  /\ Goto(t, "func", "get")
  /\ On(t, cont[t].from)
  /\ UNCHANGED <<made, shared, tasks, result, cont, patience, rest, path, history>>

FuncIsLate(t) ==
  /\ cont[t].kind = "any" /\ cont[t].target \in completed
  /\ Goto(t, "func", Outside(t, path[t]))
  /\ Return(t, path[t])
  /\ UNCHANGED <<made, shared, tasks, completed, history>>

-----------------------------------------------------------------------------
(* get and wait_for                                                          *)

LockToGet(t) ==
  /\ Lock(t, "get", "check", at[t])
  /\ UNCHANGED <<made, outcome, continuation, sleepers, tasks, completed, local, path, history>>

ReleaseFrom(t) == owner' = [owner EXCEPT ![at[t]] = NoThread]

\* A client has its answer; a wait_for may have it after its time has expired.
GetReturns(t) ==
  /\ pc[t] = "check"
  /\ cont[t] = NoContinuation
  /\ Ready(at[t]) \/ patience[t] = "expired"
  /\ pc' = [pc EXCEPT ![t] = "idle"]
  /\ ReleaseFrom(t)
  /\ Return(t, path[t])
  /\ UNCHANGED <<made, outcome, continuation, sleepers, tasks, completed, history>>

\* A continuation goes on: an error that catch_error handles may become a value.
GetInFunc(t) ==
  /\ Goto(t, "check", "set")
  /\ cont[t] # NoContinuation
  /\ Ready(at[t])
  /\ ReleaseFrom(t)
  /\ \E o \in Outcomes :
       /\ cont[t].kind = "any" \/ outcome[at[t]] = "value" => o = outcome[at[t]]
       /\ Fulfil(t, o)
  /\ UNCHANGED <<made, outcome, continuation, sleepers, tasks, completed, cont, patience, rest, path, history>>

\* The predicate is false and there is time left: go on to wait.
GetMustWait(t) ==
  /\ Goto(t, "check", "sleep")
  /\ ~Ready(at[t]) /\ patience[t] # "expired"
  /\ UNCHANGED <<made, shared, tasks, completed, local, path, history>>

\* The mutex is released and the thread sleeps, in one step.
GetSleeps(t) ==
  /\ Goto(t, "sleep", "asleep")
  /\ ReleaseFrom(t)
  /\ sleepers' = [sleepers EXCEPT ![at[t]] = @ \cup {t}]
  /\ UNCHANGED <<made, outcome, continuation, tasks, completed, local, path, history>>

LeaveSleep(t) ==
  /\ Goto(t, "asleep", "get")
  /\ sleepers' = [sleepers EXCEPT ![at[t]] = @ \ {t}]
  /\ UNCHANGED <<made, outcome, continuation, owner, tasks, completed, at, result, cont, rest, path, history>>

\* A spurious wake-up, after which the predicate decides whether to sleep again.
WakeSpuriously(t) == LeaveSleep(t) /\ UNCHANGED patience

\* The end of wait_for's time.
TimeOut(t) ==
  /\ patience[t] = "timed"
  /\ LeaveSleep(t)
  /\ patience' = [patience EXCEPT ![t] = "expired"]

Wake(t) == WakeSpuriously(t) \/ TimeOut(t)

-----------------------------------------------------------------------------

Setting(t)   == LockToSet(t) \/ Refuse(t) \/ Accept(t) \/ Store(t) \/ RunContinuation(t)
Attaching(t) == LockToAttach(t) \/ AttachUnready(t) \/ Attach(t) \/ AttachReady(t)
Running(t)   == Start(t) \/ FuncReturns(t) \/ FuncGets(t) \/ FuncIsLate(t)
Getting(t)   == LockToGet(t) \/ GetReturns(t) \/ GetInFunc(t) \/ GetMustWait(t) \/ GetSleeps(t)

\* A step inside a call, which the scheduler owes the thread.
Step(t) == Setting(t) \/ Attaching(t) \/ Running(t) \/ Getting(t) \/ Unwind(t)

Next ==
  \/ MakePromise
  \/ \E t \in Clients : Client(t)
  \/ \E w \in Workers : TakeTask(w)
  \/ \E t \in Threads : Step(t) \/ Wake(t)

Spec == Init /\ [][Next]_vars

\* Threads inside a call run, idle workers take tasks, and a thread that waits for a
\* mutex is not passed over for ever by threads that wake up spuriously and lock it
\* again and again (hence the strong fairness).  A wait_for computes its deadline
\* once: however often it wakes up spuriously and sleeps again, its time ends.
Fairness ==
  /\ \A t \in Threads : SF_vars(Step(t))
  /\ \A t \in Clients : SF_vars(TimeOut(t))
  /\ \A w \in Workers : WF_vars(TakeTask(w))

LiveSpec == Spec /\ Fairness

-----------------------------------------------------------------------------

\* A promise is satisfied once, although its clients may race to satisfy it: the look
\* at ready and the store of the result are two steps (lines 47-52), and between them
\* nobody else stores.  A value is never replaced by another or by an exception, nor
\* the other way round.
SettledOnce == [][\A s \in States : Ready(s) => outcome'[s] = outcome[s]]_vars

\* then() races with set_value: a continuation of a ready state has been run or
\* queued, or a thread is about to, unless a later then() took its place.
ContinuationNotLost ==
  \A c \in attached :
    Ready(c.from) /\ c \notin started \cup displaced =>
      \E t \in Threads :
        \/ cont[t] = c
        \/ \E k \in DOMAIN rest[t] : rest[t][k] = c
        \/ pc[t] = "run" /\ at[t] = c.from

\* Nested calls lock states in the order of the chain, so that threads that set,
\* attach to and wait for different states of it cannot wait for each other.  The
\* get() of an inline continuation is the exception: its thread waits for itself.
LocksAreOrdered ==
  \A t \in Threads : pc[t] \in {"set", "then", "get"} =>
    \A k \in DOMAIN path[t] :
      \/ path[t][k].state < at[t]
      \/ pc[t] = "get" /\ path[t][k].state = at[t]

\* Whoever sleeps on a ready state has a thread that is still to notify it: the
\* continuation that runs first may take long, it cannot lose the wake-up.  (That
\* thread may itself be blocked for ever, in the get() of its inline continuation.)
SleepersWillBeWoken ==
  \A s \in States : Ready(s) /\ sleepers[s] # {} =>
    \E t \in Threads : \E k \in DOMAIN path[t] :
      path[t][k] = [state |-> s, notify |-> TRUE]

\* A continuation is run (or given to the executor) at most once, and one that a later
\* then() displaced is not run any more: continuation keeps its function after it was
\* called (line 55), a promise may be satisfied twice, and then() replaces the
\* function while the setter goes on to call it.
RunsOnce ==
  \A t \in Threads : pc[t] = "start" =>
    /\ cont[t] \notin started \cup displaced
    /\ \A u \in Threads \ {t} : pc[u] = "start" => cont[u] # cont[t]

\* get() on a ready state returns, also when it was asleep before, and wait_for
\* returns whether or not its state is ever ready.
GetEnds ==
  \A t \in Clients :
    (/\ pc[t] \in {"get", "check", "sleep", "asleep"}
     /\ patience[t] = "timed" \/ \E s \in States : at[t] = s /\ Ready(s))
      ~> pc[t] = "idle"

\* The future then() returned is ready some time after its source, unless a later
\* then() on the same source displaced its continuation.
ThenCompletes ==
  \A n \in States :
    (\E c \in attached : c.target = n /\ Ready(c.from))
      ~> Ready(n) \/ \E c \in displaced : c.target = n

-----------------------------------------------------------------------------
(* What the comments of the code say and the code does not do.               *)

\* Line 208, of catch_error, "handling of exceptions": the future it returns is
\* ready some time after the one it is called on.
CatchErrorCompletes ==
  \A n \in States :
    (\E c \in attached : c.kind = "get" /\ ~c.queued /\ c.target = n /\ Ready(c.from))
      ~> Ready(n) \/ \E c \in displaced : c.target = n
=============================================================================
