--------------------------- MODULE AdaptiveMutex ---------------------------
(***************************************************************************)
(* AdaptiveMutex of src/adaptive-mutex.h: a mutex that tries once, then    *)
(* spins up to an adaptive limit, then polls with sleeps.  One step is one *)
(* access to a shared atomic; the load and the store of a parameter, which *)
(* the owner alone writes, are one step.  Times are data: a deadline has   *)
(* passed or not, the adaptation interval has passed or not, the average   *)
(* contention is low, medium or high; back-off and sleep only take time.   *)
(* Locals go back to their first value after their last use.               *)
(***************************************************************************)
EXTENDS Integers, FiniteSets

CONSTANTS
  Threads,
  SpinInit, SpinMin, SpinMax,    \* spin_limit_: 1000, between 100 and 10000
  SleepMax,                      \* base_sleep_duration_: 1, at most 1000
  AdaptEvery,                    \* adaptation is tried every 256 acquisitions
  MinSamples,                    \* and needs 100 of them
  MaxTotal,                      \* bound: calls start while total is below it
  MaxResets                      \* bound: calls of reset_statistics

ASSUME ConstantsAssumption ==
  /\ SpinMin \in Nat \ {0} /\ SpinMax \in Nat /\ SpinInit \in SpinMin .. SpinMax
  /\ SleepMax \in Nat \ {0}
  /\ AdaptEvery \in Nat \ {0} /\ MinSamples \in 1 .. AdaptEvery
  /\ MaxTotal \in Nat /\ MaxResets \in Nat

UNLOCKED == 0
LOCKED == 1
LOCKED_WITH_WAITERS == 2

VARIABLES
  state,        \* state_
  total, spin, sleep,       \* the acquisition counters
  spin_limit, base_sleep,   \* the adaptive parameters
  pc,           \* where each thread is
  how,          \* the call, then the phase in which it got the mutex
  spins, limit, \* locals of lock: spin_count and the limit it loaded
  expired,      \* the deadline of try_lock_for has passed
  sampled, spun,            \* locals of adapt_parameters: total, spin_success
  acquired,     \* history: acquisitions since the counters were last reset
  resets, resetting         \* reset_statistics: calls so far, next store

counters   == <<total, spin, sleep>>
parameters == <<spin_limit, base_sleep>>
samples    == <<sampled, spun>>
locals     == <<spins, limit, expired, samples>>
reset      == <<resets, resetting>>
vars == <<state, counters, parameters, pc, how, locals, acquired, reset>>

Waiting == {"first", "spin", "spin_try", "sleep_try", "sleep_mark", "timed", "timed_try"}
Adapting == {"adapt", "sample", "sample_spin", "tune", "tune_sleep",
             "clear_total", "clear_spin", "clear_sleep"}
Owning  == {"count", "count_phase", "periodic", "held", "unlock", "unlock_waiters"} \cup Adapting
Owner(t) == pc[t] \in Owning

TypeOK ==
  /\ state \in {UNLOCKED, LOCKED, LOCKED_WITH_WAITERS}
  /\ total \in Nat /\ spin \in Nat /\ sleep \in Nat
  /\ spin_limit \in Nat /\ base_sleep \in Nat
  /\ pc \in [Threads -> Waiting \cup Owning \cup {"idle", "surprised"}]
  /\ how \in [Threads -> {"lock", "try_lock", "try_lock_for", "spin", "sleep"}]
  /\ spins \in [Threads -> Nat] /\ limit \in [Threads -> Nat]
  /\ expired \in [Threads -> BOOLEAN]
  /\ sampled \in [Threads -> Nat] /\ spun \in [Threads -> Nat]
  /\ acquired \in Nat
  /\ resets \in Nat /\ resetting \in 0 .. 2

Init ==
  /\ state = UNLOCKED
  /\ total = 0 /\ spin = 0 /\ sleep = 0
  /\ spin_limit = SpinInit /\ base_sleep = 1
  /\ pc = [t \in Threads |-> "idle"]
  /\ how = [t \in Threads |-> "lock"]
  /\ spins = [t \in Threads |-> 0] /\ limit = [t \in Threads |-> 0]
  /\ expired = [t \in Threads |-> FALSE]
  /\ sampled = [t \in Threads |-> 0] /\ spun = [t \in Threads |-> 0]
  /\ acquired = 0
  /\ resets = 0 /\ resetting = 0

-----------------------------------------------------------------------------
(* Calls, and the compare_exchange that every way in uses (try_spin_lock).   *)

Goto(t, from, to) ==
  /\ pc[t] = from
  /\ pc' = [pc EXCEPT ![t] = to]

Call(t, call) ==
  /\ total < MaxTotal
  /\ Goto(t, "idle", "first")
  /\ how' = [how EXCEPT ![t] = call]
  /\ UNCHANGED <<state, counters, parameters, locals, acquired, reset>>

Return(t) == how' = [how EXCEPT ![t] = IF pc'[t] = "idle" THEN "lock" ELSE @]

EndSpin(t) ==
  /\ spins' = [spins EXCEPT ![t] = 0]
  /\ limit' = [limit EXCEPT ![t] = 0]

\* What the compare_exchange expects.  The variant with a mistake just stores.
ExpectedUnchecked == TRUE
ExpectedUnlocked  == state = UNLOCKED

\* compare_exchange UNLOCKED -> LOCKED succeeds.
Lock(t, from, phase) ==
  /\ ExpectedUnlocked
  /\ state' = LOCKED
  /\ Goto(t, from, "count")
  /\ how' = [how EXCEPT ![t] = phase]
  /\ acquired' = acquired + 1
  /\ expired' = [expired EXCEPT ![t] = FALSE]
  /\ EndSpin(t)
  /\ UNCHANGED <<counters, parameters, samples, reset>>

FirstTryOk(t) == Lock(t, "first", how[t])

\* The first try fails (also spuriously): lock loads its limit and spins,
\* try_lock returns false, try_lock_for starts its loop.
FirstTryFails(t) ==
  /\ pc[t] = "first"
  /\ pc' = [pc EXCEPT ![t] = IF how[t] = "lock" THEN "spin"
                             ELSE IF how[t] = "try_lock" THEN "idle" ELSE "timed"]
  /\ limit' = [limit EXCEPT ![t] = IF how[t] = "lock" THEN spin_limit ELSE @]
  /\ Return(t)
  /\ UNCHANGED <<state, counters, parameters, spins, expired, samples, acquired, reset>>

-----------------------------------------------------------------------------
(* lock, phase 2: spin while the limit lasts.                                *)

SpinAgain(t) == spins' = [spins EXCEPT ![t] = @ + 1]     \* after exponential_backoff

SpinSeesUnlocked(t) ==
  /\ spins[t] < limit[t]
  /\ state = UNLOCKED
  /\ Goto(t, "spin", "spin_try")
  /\ UNCHANGED <<state, counters, parameters, how, locals, acquired, reset>>

SpinSeesLocked(t) ==
  /\ pc[t] = "spin"
  /\ spins[t] < limit[t]
  /\ state # UNLOCKED
  /\ SpinAgain(t)
  /\ UNCHANGED <<state, counters, parameters, pc, how, limit, expired, samples, acquired, reset>>

SpinTryOk(t) == Lock(t, "spin_try", "spin")

SpinTryFails(t) ==
  /\ Goto(t, "spin_try", "spin")
  /\ SpinAgain(t)
  /\ UNCHANGED <<state, counters, parameters, how, limit, expired, samples, acquired, reset>>

SpinEnds(t) ==
  /\ spins[t] >= limit[t]
  /\ Goto(t, "spin", "sleep_try")
  /\ EndSpin(t)
  /\ UNCHANGED <<state, counters, parameters, how, expired, samples, acquired, reset>>

(* lock, phase 3: poll, mark the mutex as waited for, sleep, poll again.     *)

\* Variants with a mistake: the sleeper stores LOCKED_WITH_WAITERS for itself,
\* or compares with a value left over from its mark.
SleepTryOkMarking(t) ==
  /\ state = UNLOCKED
  /\ state' = LOCKED_WITH_WAITERS
  /\ Goto(t, "sleep_try", "count")
  /\ how' = [how EXCEPT ![t] = "sleep"]
  /\ acquired' = acquired + 1
  /\ UNCHANGED <<counters, parameters, locals, reset>>

SleepTryOkStale(t) ==
  /\ state = LOCKED_WITH_WAITERS
  /\ state' = LOCKED
  /\ Goto(t, "sleep_try", "count")
  /\ how' = [how EXCEPT ![t] = "sleep"]
  /\ acquired' = acquired + 1
  /\ UNCHANGED <<counters, parameters, locals, reset>>

SleepTryOk(t) == Lock(t, "sleep_try", "sleep")

\* The failed compare_exchange leaves the value it saw: only LOCKED is marked,
\* after a spurious failure (UNLOCKED) or LOCKED_WITH_WAITERS the thread sleeps.
SleepTryFails(t) ==
  /\ pc[t] = "sleep_try"
  /\ pc' = [pc EXCEPT ![t] = IF state = LOCKED THEN "sleep_mark" ELSE "sleep_try"]
  /\ UNCHANGED <<state, counters, parameters, how, locals, acquired, reset>>

MarkWaiters(t) ==
  /\ Goto(t, "sleep_mark", "sleep_try")
  /\ state = LOCKED
  /\ state' = LOCKED_WITH_WAITERS
  /\ UNCHANGED <<counters, parameters, how, locals, acquired, reset>>

MarkFails(t) ==
  /\ Goto(t, "sleep_mark", "sleep_try")
  /\ UNCHANGED <<state, counters, parameters, how, locals, acquired, reset>>

(* try_lock_for: poll until the deadline.                                    *)

DeadlinePasses(t) ==
  /\ pc[t] \in {"timed", "timed_try"}
  /\ ~expired[t]
  /\ expired' = [expired EXCEPT ![t] = TRUE]
  /\ UNCHANGED <<state, counters, parameters, pc, how, spins, limit, samples, acquired, reset>>

\* The loop condition: within the deadline try again, past it return false.
CheckDeadline(t) ==
  /\ Goto(t, "timed", IF expired[t] THEN "idle" ELSE "timed_try")
  /\ expired' = [expired EXCEPT ![t] = FALSE]
  /\ Return(t)
  /\ UNCHANGED <<state, counters, parameters, spins, limit, samples, acquired, reset>>

TimedTryOk(t) == Lock(t, "timed_try", "try_lock_for")

TimedTryFails(t) ==
  /\ Goto(t, "timed_try", "timed")
  /\ UNCHANGED <<state, counters, parameters, how, locals, acquired, reset>>

-----------------------------------------------------------------------------
(* The owner counts the acquisition, and after a spin may adapt.             *)

\* total_acquisitions_ is counted for every way in, the phase only for lock's
\* second and third.
Count(t) ==
  /\ Goto(t, "count", IF how[t] \in {"spin", "sleep"} THEN "count_phase" ELSE "held")
  /\ total' = total + 1
  /\ UNCHANGED <<state, spin, sleep, parameters, how, locals, acquired, reset>>

CountSpin(t) ==
  /\ how[t] = "spin"
  /\ Goto(t, "count_phase", "periodic")
  /\ spin' = spin + 1
  /\ UNCHANGED <<state, total, sleep, parameters, how, locals, acquired, reset>>

CountSleep(t) ==
  /\ how[t] = "sleep"
  /\ Goto(t, "count_phase", "held")
  /\ sleep' = sleep + 1
  /\ UNCHANGED <<state, total, spin, parameters, how, locals, acquired, reset>>

\* (total & 0xFF) == 0.  The variant with a mistake is off by one.
PeriodOffByOne == (total + 1) % AdaptEvery = 0
PeriodEnds     == total % AdaptEvery = 0

Periodic(t) ==
  /\ Goto(t, "periodic", IF PeriodEnds THEN "adapt" ELSE "held")
  /\ UNCHANGED <<state, counters, parameters, how, locals, acquired, reset>>

\* adapt_parameters returns within its interval of the last time, and when the
\* compare_exchange on last_adaptation_time_ fails.
AdaptTooSoon(t) ==
  /\ Goto(t, "adapt", "held")
  /\ UNCHANGED <<state, counters, parameters, how, locals, acquired, reset>>

AdaptDue(t) ==
  /\ Goto(t, "adapt", "sample")
  /\ UNCHANGED <<state, counters, parameters, how, locals, acquired, reset>>

SampleTotal(t) ==
  /\ Goto(t, "sample", "sample_spin")
  /\ sampled' = [sampled EXCEPT ![t] = total]
  /\ UNCHANGED <<state, counters, parameters, how, spins, limit, expired, spun, acquired, reset>>

\* The number of sleeps, which is loaded next, is not used.
SampleSpin(t) ==
  /\ Goto(t, "sample_spin", "tune")
  /\ spun' = [spun EXCEPT ![t] = spin]
  /\ UNCHANGED <<state, counters, parameters, how, spins, limit, expired, sampled, acquired, reset>>

EndSamples(t) ==
  /\ sampled' = [sampled EXCEPT ![t] = 0]
  /\ spun' = [spun EXCEPT ![t] = 0]
  /\ UNCHANGED <<spins, limit, expired>>

NotEnoughData(t) ==
  /\ sampled[t] < MinSamples
  /\ Goto(t, "tune", "held")
  /\ EndSamples(t)
  /\ UNCHANGED <<state, counters, parameters, how, acquired, reset>>

Smaller(a, b) == IF a < b THEN a ELSE b
Larger(a, b)  == IF a > b THEN a ELSE b

\* A spin success rate over 0.8 doubles the limit, one under 0.3 halves it.
TunedSpinLimit(t) ==
  IF 10 * spun[t] > 8 * sampled[t] THEN Smaller(spin_limit * 2, SpinMax)
  ELSE IF 10 * spun[t] < 3 * sampled[t] THEN Larger(spin_limit \div 2, SpinMin)
  ELSE spin_limit

TuneSpinLimit(t) ==
  /\ sampled[t] >= MinSamples
  /\ Goto(t, "tune", "tune_sleep")
  /\ spin_limit' = TunedSpinLimit(t)
  /\ EndSamples(t)
  /\ UNCHANGED <<state, counters, base_sleep, how, acquired, reset>>

\* By the average contention time: over 100 us, under 10 us, between.
TunedSleep(contention) ==
  IF contention = "high" THEN Smaller(base_sleep * 2, SleepMax)
  ELSE IF contention = "low" THEN Larger(base_sleep \div 2, 1)
  ELSE base_sleep

TuneSleep(t) ==
  /\ Goto(t, "tune_sleep", "clear_total")
  /\ \E contention \in {"low", "middle", "high"} : base_sleep' = TunedSleep(contention)
  /\ UNCHANGED <<state, counters, spin_limit, how, locals, acquired, reset>>

\* The counters for the next period, one by one.
ClearTotal(t) ==
  /\ Goto(t, "clear_total", "clear_spin")
  /\ total' = 0
  /\ acquired' = 0
  /\ UNCHANGED <<state, spin, sleep, parameters, how, locals, reset>>

\* Variant with a mistake: this counter is forgotten.
ClearSpinForgotten(t) ==
  /\ Goto(t, "clear_spin", "clear_sleep")
  /\ UNCHANGED <<state, counters, parameters, how, locals, acquired, reset>>

ClearSpin(t) ==
  /\ Goto(t, "clear_spin", "clear_sleep")
  /\ spin' = 0
  /\ UNCHANGED <<state, total, sleep, parameters, how, locals, acquired, reset>>

ClearSleep(t) ==
  /\ Goto(t, "clear_sleep", "held")
  /\ sleep' = 0
  /\ UNCHANGED <<state, total, spin, parameters, how, locals, acquired, reset>>

-----------------------------------------------------------------------------
(* unlock, and reset_statistics, which any thread may call at any time.      *)

\* The client (AdaptiveLockGuard's destructor) unlocks what it locked, once.
StartUnlock(t) ==
  /\ Goto(t, "held", "unlock")
  /\ UNCHANGED <<state, counters, parameters, how, locals, acquired, reset>>

\* Variants with a mistake: the waiters' value is not expected, the
\* compare_exchange is the weak one.
UnlockNoWaiters(t) ==
  /\ Goto(t, "unlock", "idle")
  /\ state' = IF state = LOCKED THEN UNLOCKED ELSE state
  /\ Return(t)
  /\ UNCHANGED <<counters, parameters, locals, acquired, reset>>

UnlockWeak(t) ==
  \/ /\ state = LOCKED
     /\ Goto(t, "unlock", "idle")
     /\ state' = UNLOCKED
     /\ Return(t)
     /\ UNCHANGED <<counters, parameters, locals, acquired, reset>>
  \/ /\ Goto(t, "unlock", "unlock_waiters")
     /\ UNCHANGED <<state, counters, parameters, how, locals, acquired, reset>>

Unlock(t) ==
  /\ Goto(t, "unlock", IF state = LOCKED THEN "idle" ELSE "unlock_waiters")
  /\ state' = IF state = LOCKED THEN UNLOCKED ELSE state
  /\ Return(t)
  /\ UNCHANGED <<counters, parameters, locals, acquired, reset>>

UnlockWaiters(t) ==
  /\ Goto(t, "unlock_waiters", IF state = LOCKED_WITH_WAITERS THEN "idle" ELSE "surprised")
  /\ state' = IF state = LOCKED_WITH_WAITERS THEN UNLOCKED ELSE state
  /\ Return(t)
  /\ UNCHANGED <<counters, parameters, locals, acquired, reset>>

ResetTotal ==
  /\ resetting = 0 /\ resets < MaxResets
  /\ resetting' = 1 /\ resets' = resets + 1
  /\ total' = 0
  /\ acquired' = 0
  /\ UNCHANGED <<state, spin, sleep, parameters, pc, how, locals>>

ResetSpin ==
  /\ resetting = 1 /\ resetting' = 2
  /\ spin' = 0
  /\ UNCHANGED <<state, total, sleep, parameters, pc, how, locals, acquired, resets>>

ResetSleep ==
  /\ resetting = 2 /\ resetting' = 0
  /\ sleep' = 0
  /\ UNCHANGED <<state, total, spin, parameters, pc, how, locals, acquired, resets>>

ResetStatistics == ResetTotal \/ ResetSpin \/ ResetSleep

-----------------------------------------------------------------------------

Acquire(t) ==
  FirstTryOk(t) \/ SpinTryOk(t) \/ SleepTryOk(t) \/ TimedTryOk(t)

SpinPhase(t) ==
  SpinSeesUnlocked(t) \/ SpinSeesLocked(t) \/ SpinTryFails(t) \/ SpinEnds(t)

SleepPhase(t) == SleepTryFails(t) \/ MarkWaiters(t) \/ MarkFails(t)

TimedLoop(t) == CheckDeadline(t) \/ TimedTryFails(t)

Statistics(t) == Count(t) \/ CountSpin(t) \/ CountSleep(t) \/ Periodic(t)

AdaptParameters(t) ==
  \/ AdaptTooSoon(t) \/ AdaptDue(t) \/ SampleTotal(t) \/ SampleSpin(t) \/ NotEnoughData(t)
  \/ TuneSpinLimit(t) \/ TuneSleep(t) \/ ClearTotal(t) \/ ClearSpin(t) \/ ClearSleep(t)

Release(t) == Unlock(t) \/ UnlockWaiters(t)

\* A step the scheduler owes a thread once it is inside a call.
Step(t) ==
  \/ Acquire(t) \/ FirstTryFails(t) \/ SpinPhase(t) \/ SleepPhase(t) \/ TimedLoop(t)
  \/ Statistics(t) \/ AdaptParameters(t) \/ Release(t)

Next ==
  \/ \E t \in Threads :
       \/ \E call \in {"lock", "try_lock", "try_lock_for"} : Call(t, call)
       \/ StartUnlock(t) \/ DeadlinePasses(t) \/ Step(t)
  \/ ResetStatistics

Spec == Init /\ [][Next]_vars

\* What the code's scheduling gives: a thread inside a call runs, deadlines
\* pass, and a compare_exchange_weak does not fail spuriously for ever: if a
\* free mutex is tried again and again, one of the tries locks it.  No one
\* thread is promised to be the winner.
Fairness ==
  /\ \A t \in Threads : WF_vars(Step(t)) /\ WF_vars(DeadlinePasses(t))
  /\ SF_vars(\E t \in Threads : Acquire(t))

LiveSpec == Spec /\ Fairness

-----------------------------------------------------------------------------
(* Safety.                                                                   *)

\* Whatever way threads came in, and however their compare_exchanges raced with
\* unlock, only one of them is between its acquisition and its release.
MutualExclusion == \A t, u \in Threads : Owner(t) /\ Owner(u) => t = u

\* The lock word is the truth about ownership: it is UNLOCKED exactly when no
\* thread owns the mutex, so neither a timed-out try_lock_for nor a waiter's
\* mark leaves it locked for nobody, or free under an owner.
WordMatchesOwner == state = UNLOCKED <=> \A t \in Threads : ~Owner(t)

\* unlock never reaches its end, where the comment at line 246 says the state
\* changed meanwhile and "this should not happen": waiters move the word from
\* LOCKED to LOCKED_WITH_WAITERS between the two compare_exchanges, never back.
NeverSurprised == \A t \in Threads : pc[t] # "surprised"

\* LOCKED_WITH_WAITERS is never left behind: some thread in lock's sleeping
\* phase is still there to poll for the mutex.
WaitersAreReal ==
  state = LOCKED_WITH_WAITERS => \E t \in Threads : pc[t] \in {"sleep_try", "sleep_mark"}

\* The relaxed, separately written counters add up: without reset_statistics
\* every acquisition of the period is counted once by its owner, and those
\* that spun or slept are among them, but while adapt_parameters has cleared the
\* total and not yet both of the others (lines 86-88).
StatisticsAddUp ==
  resets = 0 =>
    /\ total + Cardinality({t \in Threads : pc[t] = "count"}) = acquired
    /\ (\A t \in Threads : pc[t] \notin {"clear_spin", "clear_sleep"}) =>
         spin + sleep + Cardinality({t \in Threads : pc[t] = "count_phase"}) <= total

\* Without reset_statistics parameters are tuned on one whole sample, although its
\* parts are loaded one after the other: the total is the multiple of 256 that the
\* caller of adapt_parameters saw, and the successful spins are those of this period,
\* so that the rate of line 60 is at most one.
TunesOnWholePeriods ==
  resets = 0 => \A t \in Threads :
    pc[t] = "tune" =>
      /\ sampled[t] = total /\ total > 0 /\ total % AdaptEvery = 0
      /\ spun[t] = spin /\ spun[t] <= sampled[t]

\* No sequence of adaptations, with statistics reset at any moment between their
\* loads and stores, takes the parameters out of the range lines 65-82 clamp them to.
ParametersBounded == spin_limit \in SpinMin .. SpinMax /\ base_sleep \in 1 .. SleepMax

-----------------------------------------------------------------------------
(* Liveness, under Fairness.                                                 *)

\* unlock notifies nobody and sleepers poll (lines 241-242): a free mutex that a
\* thread waits for in lock is taken.
NoLostWaiter ==
  (state = UNLOCKED /\ \E t \in Threads : pc[t] \in Waiting /\ how[t] = "lock")
    ~> state # UNLOCKED
=============================================================================
