------------------------ MODULE AdaptiveMutexProofs ------------------------
(***************************************************************************)
(* Proofs about AdaptiveMutex, for any number of threads and any values of *)
(* the adaptive parameters.                                                *)
(*                                                                         *)
(* The inductive invariant is IInv.  Mutual exclusion alone is not         *)
(* inductive: that a compare_exchange finds UNLOCKED only when nobody owns *)
(* the mutex is WordMatchesOwner.  That unlock's second compare_exchange   *)
(* cannot fail needs SeenWaiters.                                          *)
(*                                                                         *)
(* The statistics and the samples are kept by the owner alone, so that     *)
(* their invariants rest on mutual exclusion; the samples need SamplePath, *)
(* which follows the owner from its count to adapt_parameters.             *)
(***************************************************************************)
EXTENDS AdaptiveMutex, FiniteSetTheorems, TLAPS

\* A thread about to try for the first time still has its call in how.
HowIsCall ==
  \A t \in Threads : pc[t] = "first" => how[t] \in {"lock", "try_lock", "try_lock_for"}

\* Between the compare_exchanges of unlock the word is LOCKED_WITH_WAITERS.
SeenWaiters ==
  \A t \in Threads : pc[t] = "unlock_waiters" => state = LOCKED_WITH_WAITERS

\* reset_statistics is under way only after it was called.
ResetsCounted == resetting # 0 => resets # 0

IInv ==
  /\ TypeOK
  /\ ResetsCounted
  /\ HowIsCall
  /\ MutualExclusion
  /\ WordMatchesOwner
  /\ SeenWaiters
  /\ NeverSurprised
  /\ ParametersBounded

LEMMA InitIInv == Init => IInv
  BY ConstantsAssumption
  DEF Init, IInv, TypeOK, ResetsCounted, HowIsCall, MutualExclusion, WordMatchesOwner, SeenWaiters,
      NeverSurprised, ParametersBounded, Owner, Waiting, Owning, Adapting,
      UNLOCKED, LOCKED, LOCKED_WITH_WAITERS

-----------------------------------------------------------------------------

LEMMA TypeStep == IInv /\ [Next]_vars => TypeOK'
<1> SUFFICES ASSUME IInv, [Next]_vars PROVE TypeOK'
  OBVIOUS
<1> USE ConstantsAssumption
    DEF IInv, TypeOK, Goto, Waiting, Owning, Adapting, UNLOCKED, LOCKED, LOCKED_WITH_WAITERS,
        counters, parameters, locals, samples, reset
<1>1. ASSUME NEW t \in Threads, NEW call \in {"lock", "try_lock", "try_lock_for"}, Call(t, call)
      PROVE TypeOK'
  BY <1>1 DEF Call
<1>2. ASSUME NEW t \in Threads, Acquire(t) PROVE TypeOK'
  <2>1. PICK phase \in {"lock", "try_lock", "try_lock_for", "spin", "sleep"} :
          \E from : Lock(t, from, phase)
    BY <1>2 DEF Acquire, FirstTryOk, SpinTryOk, SleepTryOk, TimedTryOk
  <2> QED
    BY <2>1 DEF Lock, EndSpin, ExpectedUnlocked
<1>3. ASSUME NEW t \in Threads, FirstTryFails(t) PROVE TypeOK'
  BY <1>3 DEF FirstTryFails, Return, HowIsCall
<1>4. ASSUME NEW t \in Threads, SpinPhase(t) PROVE TypeOK'
  BY <1>4 DEF SpinPhase, SpinSeesUnlocked, SpinSeesLocked, SpinTryFails, SpinEnds,
              SpinAgain, EndSpin
<1>5. ASSUME NEW t \in Threads, SleepPhase(t) PROVE TypeOK'
  BY <1>5 DEF SleepPhase, SleepTryFails, MarkWaiters, MarkFails
<1>6. ASSUME NEW t \in Threads, DeadlinePasses(t) \/ TimedLoop(t) PROVE TypeOK'
  BY <1>6 DEF DeadlinePasses, TimedLoop, CheckDeadline, TimedTryFails, Return
<1>7. ASSUME NEW t \in Threads, Statistics(t) PROVE TypeOK'
  BY <1>7 DEF Statistics, Count, CountSpin, CountSleep, Periodic, PeriodEnds
<1>8. ASSUME NEW t \in Threads, AdaptParameters(t) PROVE TypeOK'
  <2>1. CASE AdaptTooSoon(t) \/ AdaptDue(t) \/ SampleTotal(t) \/ SampleSpin(t) \/ NotEnoughData(t)
    BY <2>1 DEF AdaptTooSoon, AdaptDue, SampleTotal, SampleSpin, NotEnoughData, EndSamples
  <2>2. CASE TuneSpinLimit(t)
    <3>1. TunedSpinLimit(t) \in Nat
      BY DEF TunedSpinLimit, Smaller, Larger
    <3> QED
      BY <2>2, <3>1 DEF TuneSpinLimit, EndSamples
  <2>3. CASE TuneSleep(t)
    <3>1. \A contention : TunedSleep(contention) \in Nat
      BY DEF TunedSleep, Smaller, Larger
    <3> QED
      BY <2>3, <3>1 DEF TuneSleep
  <2>4. CASE ClearTotal(t) \/ ClearSpin(t) \/ ClearSleep(t)
    BY <2>4 DEF ClearTotal, ClearSpin, ClearSleep
  <2> QED
    BY <1>8, <2>1, <2>2, <2>3, <2>4 DEF AdaptParameters
<1>9. ASSUME NEW t \in Threads, StartUnlock(t) \/ Release(t) PROVE TypeOK'
  BY <1>9 DEF StartUnlock, Release, Unlock, UnlockWaiters, Return
<1>10. CASE ResetStatistics
  BY <1>10 DEF ResetStatistics, ResetTotal, ResetSpin, ResetSleep
<1>11. CASE UNCHANGED vars
  BY <1>11 DEF vars
<1> QED
  BY <1>1, <1>2, <1>3, <1>4, <1>5, <1>6, <1>7, <1>8, <1>9, <1>10, <1>11 DEF Next, Step

-----------------------------------------------------------------------------
(* The lock word.  A step of t is described by where it takes t and what it  *)
(* does to the word; the other threads stay where they are.                  *)

LockInv ==
  HowIsCall /\ MutualExclusion /\ WordMatchesOwner /\ SeenWaiters /\ NeverSurprised

\* A step that leaves the word alone and moves t neither into nor out of
\* ownership keeps the lock invariant.
LEMMA QuietStep ==
  ASSUME TypeOK, LockInv, NEW t \in Threads, NEW place,
         pc' = [pc EXCEPT ![t] = place],
         place \in Owning <=> Owner(t),
         place \notin {"first", "unlock_waiters", "surprised"},
         UNCHANGED state,
         \A u \in Threads \ {t} : how'[u] = how[u]
  PROVE LockInv'
  BY DEF TypeOK, LockInv, HowIsCall, MutualExclusion, WordMatchesOwner, SeenWaiters,
         NeverSurprised, Owner, Owning, Adapting

LEMMA LockStep == IInv /\ [Next]_vars => LockInv'
<1> SUFFICES ASSUME IInv, [Next]_vars PROVE LockInv'
  OBVIOUS
<1>0. TypeOK /\ LockInv
  BY DEF IInv, LockInv
<1>1. ASSUME NEW t \in Threads, NEW call \in {"lock", "try_lock", "try_lock_for"}, Call(t, call)
      PROVE LockInv'
  BY <1>0, <1>1 DEF Call, Goto, TypeOK, LockInv, HowIsCall, MutualExclusion, WordMatchesOwner,
                    SeenWaiters, NeverSurprised, Owner, Owning, Adapting
<1>2. ASSUME NEW t \in Threads, Acquire(t) PROVE LockInv'
  <2>1. PICK from, phase : Lock(t, from, phase)
    BY <1>2 DEF Acquire, FirstTryOk, SpinTryOk, SleepTryOk, TimedTryOk
  <2>2. \A u \in Threads : ~Owner(u)
    BY <1>0, <2>1 DEF Lock, ExpectedUnlocked, LockInv, WordMatchesOwner
  <2>3. pc' = [pc EXCEPT ![t] = "count"] /\ state' = LOCKED
    BY <2>1 DEF Lock, Goto
  <2>4. \A u \in Threads \ {t} : how'[u] = how[u]
    BY <1>0, <2>1 DEF Lock, TypeOK
  <2> QED
    BY <1>0, <2>2, <2>3, <2>4
    DEF TypeOK, LockInv, HowIsCall, MutualExclusion, WordMatchesOwner, SeenWaiters,
        NeverSurprised, Owner, Owning, Adapting, UNLOCKED, LOCKED
<1>3. ASSUME NEW t \in Threads, FirstTryFails(t) PROVE LockInv'
  <2>1. PICK place \in {"spin", "idle", "timed"} : pc' = [pc EXCEPT ![t] = place]
    BY <1>0, <1>3 DEF FirstTryFails, LockInv, HowIsCall
  <2> QED
    BY <1>0, <1>3, <2>1, QuietStep DEF FirstTryFails, Return, TypeOK, Owner, Owning, Adapting
<1>4. ASSUME NEW t \in Threads, SpinPhase(t) PROVE LockInv'
  BY <1>0, <1>4, QuietStep
  DEF SpinPhase, SpinSeesUnlocked, SpinSeesLocked, SpinTryFails, SpinEnds, Goto,
      TypeOK, Owner, Owning, Adapting
<1>5. ASSUME NEW t \in Threads, SleepPhase(t) PROVE LockInv'
  <2>1. CASE SleepTryFails(t) \/ MarkFails(t)
    BY <1>0, <2>1, QuietStep DEF SleepTryFails, MarkFails, Goto, Owner, Owning, Adapting
  <2>2. CASE MarkWaiters(t)
    BY <1>0, <2>2
    DEF MarkWaiters, Goto, TypeOK, LockInv, HowIsCall, MutualExclusion, WordMatchesOwner,
        SeenWaiters, NeverSurprised, Owner, Owning, Adapting, UNLOCKED, LOCKED, LOCKED_WITH_WAITERS
  <2> QED
    BY <1>5, <2>1, <2>2 DEF SleepPhase
<1>6. ASSUME NEW t \in Threads, DeadlinePasses(t) \/ TimedLoop(t) PROVE LockInv'
  <2>1. CASE DeadlinePasses(t)
    BY <1>0, <2>1
    DEF DeadlinePasses, LockInv, HowIsCall, MutualExclusion, WordMatchesOwner, SeenWaiters,
        NeverSurprised, Owner
  <2>2. CASE CheckDeadline(t)
    BY <1>0, <2>2, QuietStep DEF CheckDeadline, Return, Goto, TypeOK, Owner, Owning, Adapting
  <2>3. CASE TimedTryFails(t)
    BY <1>0, <2>3, QuietStep DEF TimedTryFails, Goto, Owner, Owning, Adapting
  <2> QED
    BY <1>6, <2>1, <2>2, <2>3 DEF TimedLoop
<1>7. ASSUME NEW t \in Threads, Statistics(t) PROVE LockInv'
  BY <1>0, <1>7, QuietStep
  DEF Statistics, Count, CountSpin, CountSleep, Periodic, Goto, Owner, Owning, Adapting
<1>8. ASSUME NEW t \in Threads, AdaptParameters(t) PROVE LockInv'
  BY <1>0, <1>8, QuietStep
  DEF AdaptParameters, AdaptTooSoon, AdaptDue, SampleTotal, SampleSpin, NotEnoughData,
      TuneSpinLimit, TuneSleep, ClearTotal, ClearSpin, ClearSleep, Goto, Owner, Owning, Adapting
<1>9. ASSUME NEW t \in Threads, StartUnlock(t) PROVE LockInv'
  BY <1>0, <1>9, QuietStep DEF StartUnlock, Goto, Owner, Owning, Adapting
<1>10. ASSUME NEW t \in Threads, Release(t) PROVE LockInv'
  <2>1. Owner(t) /\ state # UNLOCKED
    BY <1>0, <1>10
    DEF Release, Unlock, UnlockWaiters, Goto, Owner, Owning, Adapting, LockInv, WordMatchesOwner
  <2>2. \A u \in Threads \ {t} : how'[u] = how[u]
    BY <1>0, <1>10 DEF Release, Unlock, UnlockWaiters, Return, TypeOK
  <2>3. CASE pc' = [pc EXCEPT ![t] = "idle"] /\ state' = UNLOCKED
    BY <1>0, <2>1, <2>2, <2>3
    DEF TypeOK, LockInv, HowIsCall, MutualExclusion, WordMatchesOwner, SeenWaiters,
        NeverSurprised, Owner, Owning, Adapting
  <2>4. CASE /\ pc' = [pc EXCEPT ![t] = "unlock_waiters"]
             /\ state = LOCKED_WITH_WAITERS /\ UNCHANGED state
    BY <1>0, <2>1, <2>2, <2>4
    DEF TypeOK, LockInv, HowIsCall, MutualExclusion, WordMatchesOwner, SeenWaiters,
        NeverSurprised, Owner, Owning, Adapting
  <2>5. CASE Unlock(t)
    BY <1>0, <2>1, <2>3, <2>4, <2>5 DEF Unlock, Goto, TypeOK
  <2>6. CASE UnlockWaiters(t)
    <3>1. state = LOCKED_WITH_WAITERS
      BY <1>0, <2>6 DEF UnlockWaiters, Goto, LockInv, SeenWaiters
    <3> QED
      BY <2>3, <2>6, <3>1 DEF UnlockWaiters, Goto
  <2> QED
    BY <1>10, <2>5, <2>6 DEF Release
<1>11. CASE ResetStatistics \/ UNCHANGED vars
  BY <1>0, <1>11
  DEF ResetStatistics, ResetTotal, ResetSpin, ResetSleep, vars, LockInv, HowIsCall,
      MutualExclusion, WordMatchesOwner, SeenWaiters, NeverSurprised, Owner
<1> QED
  BY <1>1, <1>2, <1>3, <1>4, <1>5, <1>6, <1>7, <1>8, <1>9, <1>10, <1>11 DEF Next, Step

-----------------------------------------------------------------------------

\* Only adapt_parameters writes the parameters, and it clamps them at both ends.
LEMMA ParametersStep == IInv /\ [Next]_vars => ParametersBounded'
<1> SUFFICES ASSUME IInv, [Next]_vars PROVE ParametersBounded'
  OBVIOUS
<1>1. ASSUME NEW t \in Threads, TuneSpinLimit(t) PROVE ParametersBounded'
  <2>1. TunedSpinLimit(t) \in SpinMin .. SpinMax
    BY ConstantsAssumption
    DEF IInv, TypeOK, ParametersBounded, TunedSpinLimit, Smaller, Larger
  <2> QED
    BY <1>1, <2>1 DEF TuneSpinLimit, IInv, ParametersBounded
<1>4. ASSUME NEW t \in Threads, TuneSleep(t) PROVE ParametersBounded'
  <2>1. \A contention : TunedSleep(contention) \in 1 .. SleepMax
    BY ConstantsAssumption DEF IInv, TypeOK, ParametersBounded, TunedSleep, Smaller, Larger
  <2> QED
    BY <1>4, <2>1 DEF TuneSleep, IInv, ParametersBounded
<1>2. CASE UNCHANGED parameters
  BY <1>2 DEF parameters, IInv, ParametersBounded
<1>3. UNCHANGED parameters \/ \E t \in Threads : TuneSpinLimit(t) \/ TuneSleep(t)
  BY DEF Next, Step, vars, Call, StartUnlock, DeadlinePasses, Acquire, FirstTryOk, SpinTryOk,
         SleepTryOk, TimedTryOk, Lock, FirstTryFails, SpinPhase, SpinSeesUnlocked,
         SpinSeesLocked, SpinTryFails, SpinEnds, SleepPhase, SleepTryFails, MarkWaiters,
         MarkFails, TimedLoop, CheckDeadline, TimedTryFails, Statistics, Count, CountSpin,
         CountSleep, Periodic, AdaptParameters, AdaptTooSoon, AdaptDue, SampleTotal,
         SampleSpin, NotEnoughData, ClearTotal, ClearSpin, ClearSleep, Release, Unlock, UnlockWaiters, ResetStatistics, ResetTotal,
         ResetSpin, ResetSleep
<1> QED
  BY <1>1, <1>2, <1>3, <1>4

LEMMA ResetsStep == IInv /\ [Next]_vars => ResetsCounted'
<1> SUFFICES ASSUME IInv, [Next]_vars PROVE ResetsCounted'
  OBVIOUS
<1>1. CASE ResetStatistics
  BY <1>1 DEF ResetStatistics, ResetTotal, ResetSpin, ResetSleep, ResetsCounted, IInv, TypeOK
<1>2. CASE UNCHANGED reset
  BY <1>2 DEF reset, IInv, ResetsCounted
<1>3. UNCHANGED reset \/ ResetStatistics
  BY DEF Next, Step, vars, Call, StartUnlock, DeadlinePasses, Acquire, FirstTryOk, SpinTryOk,
         SleepTryOk, TimedTryOk, Lock, FirstTryFails, SpinPhase, SpinSeesUnlocked,
         SpinSeesLocked, SpinTryFails, SpinEnds, SleepPhase, SleepTryFails, MarkWaiters,
         MarkFails, TimedLoop, CheckDeadline, TimedTryFails, Statistics, Count, CountSpin,
         CountSleep, Periodic, AdaptParameters, AdaptTooSoon, AdaptDue, SampleTotal,
         SampleSpin, NotEnoughData, TuneSpinLimit, TuneSleep, ClearTotal, ClearSpin,
         ClearSleep, Release, Unlock, UnlockWaiters
<1> QED
  BY <1>1, <1>2, <1>3

\* A marked word stands for a sleeper: only an acquisition takes one away, and it
\* stores LOCKED.
LEMMA WaitersStep == IInv /\ WaitersAreReal /\ [Next]_vars => WaitersAreReal'
<1> SUFFICES ASSUME IInv, WaitersAreReal, [Next]_vars PROVE WaitersAreReal'
  OBVIOUS
<1> USE DEF Goto, UNLOCKED, LOCKED, LOCKED_WITH_WAITERS
<1>0. TypeOK
  BY DEF IInv
<1>1. ASSUME NEW t \in Threads, Acquire(t) PROVE WaitersAreReal'
  BY <1>1 DEF Acquire, FirstTryOk, SpinTryOk, SleepTryOk, TimedTryOk, Lock, WaitersAreReal
<1>2. ASSUME NEW t \in Threads, MarkWaiters(t) PROVE WaitersAreReal'
  BY <1>0, <1>2 DEF MarkWaiters, WaitersAreReal, TypeOK
<1>3. ASSUME NEW t \in Threads, SleepTryFails(t) \/ MarkFails(t) PROVE WaitersAreReal'
  BY <1>0, <1>3 DEF SleepTryFails, MarkFails, WaitersAreReal, TypeOK
<1>4. ASSUME NEW t \in Threads, Release(t) PROVE WaitersAreReal'
  BY <1>0, <1>4 DEF Release, Unlock, UnlockWaiters, WaitersAreReal, TypeOK
<1>5. ASSUME UNCHANGED state,
             \A u \in Threads : pc[u] \in {"sleep_try", "sleep_mark"} => pc'[u] = pc[u]
      PROVE WaitersAreReal'
  BY <1>5 DEF WaitersAreReal
<1>6. ASSUME NEW t \in Threads,
             \/ \E call \in {"lock", "try_lock", "try_lock_for"} : Call(t, call)
             \/ FirstTryFails(t) \/ StartUnlock(t) \/ DeadlinePasses(t)
             \/ SpinPhase(t) \/ TimedLoop(t) \/ Statistics(t) \/ AdaptParameters(t)
      PROVE WaitersAreReal'
  <2>1. /\ UNCHANGED state
        /\ \A u \in Threads : pc[u] \in {"sleep_try", "sleep_mark"} => pc'[u] = pc[u]
    BY <1>0, <1>6
    DEF Call, FirstTryFails, StartUnlock, DeadlinePasses, SpinPhase, SpinSeesUnlocked,
        SpinSeesLocked, SpinTryFails, SpinEnds, TimedLoop, CheckDeadline, TimedTryFails,
        Statistics, Count, CountSpin, CountSleep, Periodic, AdaptParameters, AdaptTooSoon,
        AdaptDue, SampleTotal, SampleSpin, NotEnoughData, TuneSpinLimit, TuneSleep, ClearTotal,
        ClearSpin, ClearSleep, TypeOK
  <2> QED
    BY <1>5, <2>1
<1>7. CASE ResetStatistics \/ UNCHANGED vars
  BY <1>7 DEF ResetStatistics, ResetTotal, ResetSpin, ResetSleep, vars, WaitersAreReal
<1> QED
  BY <1>1, <1>2, <1>3, <1>4, <1>6, <1>7 DEF Next, Step, SleepPhase

-----------------------------------------------------------------------------
(* The statistics and the samples.                                           *)

\* Without reset_statistics: the total was counted by whoever is on its way to
\* adapt_parameters, is a multiple of the period once the period was found to end,
\* and is what the owner sampled; so are the successful spins.
Sampling == {"adapt", "sample", "sample_spin", "tune"}
SamplePath ==
  resets = 0 => \A t \in Threads :
    /\ pc[t] \in {"count_phase", "periodic"} \cup Sampling => total > 0
    /\ pc[t] \in Sampling => total % AdaptEvery = 0
    /\ pc[t] \in {"sample_spin", "tune"} => sampled[t] = total
    /\ pc[t] = "tune" => spun[t] = spin

Counting      == \E t \in Threads : pc[t] = "count"
CountingPhase == \E t \in Threads : pc[t] = "count_phase"

\* The total is zero, and the count of spins or that of sleeps is one of the last period.
ClearingSpin  == \E t \in Threads : pc[t] = "clear_spin"
ClearingSleep == \E t \in Threads : pc[t] = "clear_sleep"

\* StatisticsAddUp without cardinalities: at most one thread is counting.
Accounts ==
  resets = 0 =>
    /\ Counting => acquired = total + 1
    /\ ~Counting => acquired = total
    /\ CountingPhase => spin + sleep + 1 <= total
    /\ ~ClearingSpin /\ ~ClearingSleep => spin + sleep <= total
    /\ ClearingSleep => spin = 0
    /\ ClearingSpin \/ ClearingSleep => total = 0

\* A step that moves the owner t moves nobody else among the owners.
LEMMA OwnerMoves ==
  ASSUME TypeOK, MutualExclusion, NEW t \in Threads, Owner(t), NEW place,
         pc' = [pc EXCEPT ![t] = place]
  PROVE /\ Counting <=> pc[t] = "count"
        /\ CountingPhase <=> pc[t] = "count_phase"
        /\ ClearingSpin <=> pc[t] = "clear_spin"
        /\ ClearingSleep <=> pc[t] = "clear_sleep"
        /\ Counting' <=> place = "count"
        /\ CountingPhase' <=> place = "count_phase"
        /\ ClearingSpin' <=> place = "clear_spin"
        /\ ClearingSleep' <=> place = "clear_sleep"
        /\ pc'[t] = place
        /\ \A u \in Threads \ {t} : pc'[u] = pc[u] /\ pc'[u] \notin Owning
  BY DEF TypeOK, MutualExclusion, Owner, Owning, Adapting, Counting, CountingPhase, ClearingSpin, ClearingSleep

LEMMA AccountsStep ==
  IInv /\ Accounts /\ SamplePath /\ [Next]_vars => Accounts' /\ SamplePath'
<1> SUFFICES ASSUME IInv, Accounts, SamplePath, [Next]_vars PROVE Accounts' /\ SamplePath'
  OBVIOUS
<1>0. TypeOK /\ MutualExclusion
  BY DEF IInv
<1>a. total \in Nat /\ spin \in Nat /\ sleep \in Nat /\ acquired \in Nat /\ resets \in Nat
  BY <1>0 DEF TypeOK
<1>1. ASSUME NEW t \in Threads, Acquire(t) PROVE Accounts' /\ SamplePath'
  <2>1. PICK from, phase : Lock(t, from, phase)
    BY <1>1 DEF Acquire, FirstTryOk, SpinTryOk, SleepTryOk, TimedTryOk
  <2>2. \A u \in Threads : ~Owner(u)
    BY <2>1 DEF Lock, ExpectedUnlocked, IInv, WordMatchesOwner
  <2>3. pc' = [pc EXCEPT ![t] = "count"] /\ acquired' = acquired + 1
    BY <2>1 DEF Lock, Goto
  <2>4. /\ ~Counting /\ ~CountingPhase /\ ~ClearingSpin /\ ~ClearingSleep
        /\ Counting' /\ ~CountingPhase' /\ ~ClearingSpin' /\ ~ClearingSleep'
    BY <1>0, <2>2, <2>3 DEF TypeOK, Owner, Owning, Adapting, Counting, CountingPhase, ClearingSpin, ClearingSleep
  <2>5. UNCHANGED <<total, spin, sleep, resets>>
    BY <2>1 DEF Lock, counters, reset
  <2>6. Accounts'
    BY <1>a, <2>3, <2>4, <2>5 DEF Accounts
  <2>7. SamplePath'
    BY <1>0, <2>2, <2>3 DEF SamplePath, Sampling, TypeOK, Owner, Owning, Adapting
  <2> QED
    BY <2>6, <2>7
<1>2. ASSUME NEW t \in Threads, Count(t) PROVE Accounts' /\ SamplePath'
  <2>1. Owner(t) /\ pc[t] = "count"
    BY <1>2 DEF Count, Goto, Owner, Owning, Adapting
  <2>2. PICK place \in {"count_phase", "held"} : pc' = [pc EXCEPT ![t] = place]
    BY <1>2 DEF Count, Goto
  <2>3. total' = total + 1 /\ UNCHANGED <<spin, sleep, acquired, resets>>
    BY <1>2 DEF Count, reset
  <2>4. /\ Counting /\ ~CountingPhase /\ ~ClearingSpin /\ ~ClearingSleep
        /\ ~Counting' /\ ~ClearingSpin' /\ ~ClearingSleep'
        /\ pc'[t] \in {"count_phase", "held"}
        /\ \A u \in Threads \ {t} : pc'[u] \notin Owning
    BY <1>0, <2>1, <2>2, OwnerMoves
  <2>5. Accounts'
    BY <1>a, <2>3, <2>4 DEF Accounts
  <2>6. total' > 0
    BY <1>a, <2>3
  <2>7. SamplePath'
    BY <2>4, <2>6 DEF SamplePath, Sampling, Owning, Adapting
  <2> QED
    BY <2>5, <2>7
<1>3. ASSUME NEW t \in Threads, CountSpin(t) \/ CountSleep(t) PROVE Accounts' /\ SamplePath'
  <2>1. Owner(t) /\ pc[t] = "count_phase"
    BY <1>3 DEF CountSpin, CountSleep, Goto, Owner, Owning, Adapting
  <2>2. PICK place \in {"periodic", "held"} : pc' = [pc EXCEPT ![t] = place]
    BY <1>3 DEF CountSpin, CountSleep, Goto
  <2>3. /\ spin' + sleep' = spin + sleep + 1
        /\ spin' \in Nat /\ sleep' \in Nat
        /\ UNCHANGED <<total, acquired, resets>>
    BY <1>3, <1>a DEF CountSpin, CountSleep, reset
  <2>4. /\ ~Counting /\ CountingPhase /\ ~ClearingSpin /\ ~ClearingSleep
        /\ ~Counting' /\ ~CountingPhase' /\ ~ClearingSpin' /\ ~ClearingSleep'
        /\ pc'[t] \in {"periodic", "held"}
        /\ \A u \in Threads \ {t} : pc'[u] \notin Owning
    BY <1>0, <2>1, <2>2, OwnerMoves
  <2>5. Accounts'
    BY <1>a, <2>3, <2>4 DEF Accounts
  <2>6. resets = 0 => total > 0
    BY <2>1 DEF SamplePath
  <2>7. SamplePath'
    BY <2>3, <2>4, <2>6 DEF SamplePath, Sampling, Owning, Adapting
  <2> QED
    BY <2>5, <2>7
<1>4. ASSUME NEW t \in Threads,
             \/ Periodic(t) \/ AdaptTooSoon(t) \/ AdaptDue(t) \/ SampleTotal(t) \/ SampleSpin(t)
             \/ NotEnoughData(t) \/ TuneSpinLimit(t) \/ TuneSleep(t) \/ StartUnlock(t) \/ Release(t)
      PROVE Accounts' /\ SamplePath'
  <2> USE DEF Periodic, AdaptTooSoon, AdaptDue, SampleTotal, SampleSpin, NotEnoughData, TuneSpinLimit,
              TuneSleep, StartUnlock, Release, Unlock, UnlockWaiters, Goto
  <2>1. Owner(t) /\ pc[t] \notin {"count", "count_phase", "clear_spin", "clear_sleep"}
    BY <1>4 DEF Owner, Owning, Adapting
  <2>2. PICK place \in {"adapt", "held", "sample", "sample_spin", "tune", "tune_sleep", "clear_total",
                        "unlock", "unlock_waiters", "idle", "surprised"} :
          pc' = [pc EXCEPT ![t] = place]
    BY <1>4
  <2>3. UNCHANGED <<total, spin, sleep, acquired, resets>>
    BY <1>4 DEF counters, reset
  <2>4. /\ ~Counting /\ ~CountingPhase /\ ~Counting' /\ ~CountingPhase'
        /\ ~ClearingSpin /\ ~ClearingSleep /\ ~ClearingSpin' /\ ~ClearingSleep'
        /\ \A u \in Threads \ {t} : pc'[u] \notin Owning
    BY <1>0, <2>1, <2>2, OwnerMoves
  <2>5. Accounts'
    BY <2>3, <2>4 DEF Accounts
  <2>6. /\ pc'[t] = "adapt" => pc[t] = "periodic" /\ total % AdaptEvery = 0
        /\ pc'[t] = "sample" => pc[t] = "adapt"
        /\ pc'[t] = "sample_spin" => pc[t] = "sample" /\ sampled'[t] = total
        /\ pc'[t] = "tune" => pc[t] = "sample_spin" /\ sampled'[t] = sampled[t] /\ spun'[t] = spin
        /\ pc'[t] \notin {"count_phase", "periodic"}
    BY <1>0, <1>4 DEF PeriodEnds, TypeOK
  <2>7. SamplePath'
    BY <2>3, <2>4, <2>6 DEF SamplePath, Sampling, Owning, Adapting
  <2> QED
    BY <2>5, <2>7
<1>5. ASSUME NEW t \in Threads, ClearTotal(t) \/ ClearSpin(t) \/ ClearSleep(t)
      PROVE Accounts' /\ SamplePath'
  <2>1. Owner(t) /\ pc[t] \in {"clear_total", "clear_spin", "clear_sleep"}
    BY <1>5 DEF ClearTotal, ClearSpin, ClearSleep, Goto, Owner, Owning, Adapting
  <2>2. PICK place \in {"clear_spin", "clear_sleep", "held"} : pc' = [pc EXCEPT ![t] = place]
    BY <1>5 DEF ClearTotal, ClearSpin, ClearSleep, Goto
  <2>3. /\ ~Counting /\ ~CountingPhase /\ ~Counting' /\ ~CountingPhase'
        /\ ClearingSpin <=> pc[t] = "clear_spin"
        /\ ClearingSleep <=> pc[t] = "clear_sleep"
        /\ ClearingSpin' <=> place = "clear_spin"
        /\ ClearingSleep' <=> place = "clear_sleep"
        /\ pc'[t] = place
        /\ \A u \in Threads \ {t} : pc'[u] \notin Owning
    BY <1>0, <2>1, <2>2, OwnerMoves
  <2>4. \/ /\ pc[t] = "clear_total" /\ place = "clear_spin"
           /\ total' = 0 /\ acquired' = 0 /\ UNCHANGED <<spin, sleep, resets>>
        \/ /\ pc[t] = "clear_spin" /\ place = "clear_sleep"
           /\ spin' = 0 /\ UNCHANGED <<total, sleep, acquired, resets>>
        \/ /\ pc[t] = "clear_sleep" /\ place = "held"
           /\ sleep' = 0 /\ UNCHANGED <<total, spin, acquired, resets>>
    BY <1>0, <1>5, <2>3 DEF ClearTotal, ClearSpin, ClearSleep, Goto, TypeOK, reset
  <2>5. Accounts'
    BY <1>a, <2>3, <2>4 DEF Accounts
  <2>6. SamplePath'
    BY <2>2, <2>3 DEF SamplePath, Sampling, Owning, Adapting
  <2> QED
    BY <2>5, <2>6
<1>6. ASSUME \A u \in Threads : pc'[u] \in Owning \/ pc[u] \in Owning => pc'[u] = pc[u],
             UNCHANGED <<counters, samples, acquired, resets>>
      PROVE Accounts' /\ SamplePath'
  <2>1. /\ (Counting' <=> Counting) /\ (CountingPhase' <=> CountingPhase)
        /\ (ClearingSpin' <=> ClearingSpin) /\ (ClearingSleep' <=> ClearingSleep)
    BY <1>6 DEF Counting, CountingPhase, ClearingSpin, ClearingSleep, Owning, Adapting
  <2>2. SamplePath'
    BY <1>6 DEF SamplePath, Sampling, counters, samples, Owning, Adapting
  <2> QED
    BY <1>6, <2>1, <2>2 DEF Accounts, counters
<1>7. ASSUME NEW t \in Threads,
             \/ \E call \in {"lock", "try_lock", "try_lock_for"} : Call(t, call)
             \/ FirstTryFails(t) \/ DeadlinePasses(t)
             \/ SpinPhase(t) \/ SleepPhase(t) \/ TimedLoop(t)
      PROVE Accounts' /\ SamplePath'
  <2> USE DEF Call, FirstTryFails, DeadlinePasses, SpinPhase, SpinSeesUnlocked, SpinSeesLocked,
              SpinTryFails, SpinEnds, SleepPhase, SleepTryFails, MarkWaiters, MarkFails,
              TimedLoop, CheckDeadline, TimedTryFails, Goto, TypeOK
  <2>1. \A u \in Threads : pc'[u] \in Owning \/ pc[u] \in Owning => pc'[u] = pc[u]
    BY <1>0, <1>7 DEF Owning, Adapting
  <2>2. UNCHANGED <<counters, samples, acquired, resets>>
    BY <1>7 DEF locals, reset
  <2> QED
    BY <1>6, <2>1, <2>2
<1>8. CASE ResetStatistics
  <2>1. CASE ResetTotal
    BY <1>a, <2>1 DEF ResetTotal, Accounts, SamplePath
  <2>2. CASE ResetSpin \/ ResetSleep
    <3>1. /\ UNCHANGED <<total, acquired, resets, pc>>
      BY <2>2 DEF ResetSpin, ResetSleep
    <3>2. resets # 0
      BY <2>2 DEF ResetSpin, ResetSleep, ResetsCounted, IInv
    <3> QED
      BY <3>1, <3>2 DEF Accounts, SamplePath
  <2> QED
    BY <1>8, <2>1, <2>2 DEF ResetStatistics
<1>9. CASE UNCHANGED vars
  BY <1>6, <1>9 DEF vars, locals, reset
<1> QED
  BY <1>1, <1>2, <1>3, <1>4, <1>5, <1>7, <1>8, <1>9
  DEF Next, Step, Statistics, AdaptParameters

LEMMA Invariance == Spec => []IInv
<1>1. IInv /\ [Next]_vars => IInv'
  BY TypeStep, LockStep, ParametersStep, ResetsStep DEF IInv, LockInv
<1> QED
  BY InitIInv, <1>1, PTL DEF Spec

-----------------------------------------------------------------------------

\* Every variable of AdaptiveMutex keeps its type.
THEOREM TypeCorrect == Spec => []TypeOK
  BY Invariance, PTL DEF IInv

\* lock, try_lock and try_lock_for let one thread at a time past them, however
\* many threads there are and however their compare_exchanges interleave.
THEOREM Exclusive == Spec => []MutualExclusion
  BY Invariance, PTL DEF IInv

\* state_ is UNLOCKED exactly when no thread owns the mutex.
THEOREM WordTruthful == Spec => []WordMatchesOwner
  BY Invariance, PTL DEF IInv

\* unlock never reaches the case of line 246 that "should not happen".
THEOREM UnlockSucceeds == Spec => []NeverSurprised
  BY Invariance, PTL DEF IInv

\* No sequence of adaptations takes the parameters out of their ranges, also
\* when reset_statistics writes the counters adapt_parameters is reading.
THEOREM ParametersStayBounded == Spec => []ParametersBounded
  BY Invariance, PTL DEF IInv

-----------------------------------------------------------------------------

LEMMA OwnersInvariance == Spec => [](MutualExclusion /\ WaitersAreReal /\ Accounts /\ SamplePath)
<1>1. Init => WaitersAreReal /\ Accounts /\ SamplePath
  BY DEF Init, WaitersAreReal, Accounts, SamplePath, Sampling, Counting, CountingPhase,
         ClearingSpin, ClearingSleep,
         UNLOCKED, LOCKED_WITH_WAITERS
<1>2. IInv /\ WaitersAreReal /\ Accounts /\ SamplePath /\ [Next]_vars
        => WaitersAreReal' /\ Accounts' /\ SamplePath'
  BY WaitersStep, AccountsStep
<1>3. IInv => MutualExclusion
  BY DEF IInv
<1> QED
  BY <1>1, <1>2, <1>3, Invariance, PTL DEF Spec

\* The word says LOCKED_WITH_WAITERS only while a thread in lock's sleeping phase
\* is still there to poll for the mutex.
THEOREM WaitersExist == Spec => []WaitersAreReal
  BY OwnersInvariance, PTL

\* Until reset_statistics is called every acquisition is counted once, although
\* the counters are written, and cleared, one after the other and relaxed.
THEOREM StatisticsCorrect == Spec => []StatisticsAddUp
<1> DEFINE At(place) == {t \in Threads : pc[t] = place}
<1>1. ASSUME MutualExclusion, NEW place \in Owning
      PROVE Cardinality(At(place)) = IF \E t \in Threads : pc[t] = place THEN 1 ELSE 0
  <2>1. CASE At(place) = {}
    BY <2>1, FS_EmptySet
  <2>2. CASE \E t \in Threads : At(place) = {t}
    BY <2>2, FS_Singleton
  <2>3. At(place) = {} \/ \E t \in Threads : At(place) = {t}
    BY <1>1 DEF MutualExclusion, Owner
  <2> QED
    BY <2>1, <2>2, <2>3
<1>2. ASSUME MutualExclusion, Accounts, TypeOK PROVE StatisticsAddUp
  <2>1. /\ Cardinality(At("count")) = IF Counting THEN 1 ELSE 0
        /\ Cardinality(At("count_phase")) = IF CountingPhase THEN 1 ELSE 0
    BY <1>1, <1>2 DEF Counting, CountingPhase, Owning, Adapting
  <2> DEFINE counting == Cardinality(At("count"))
             phases   == Cardinality(At("count_phase"))
             Clearing == ClearingSpin \/ ClearingSleep
  <2>2. /\ resets = 0 => total + counting = acquired
        /\ resets = 0 /\ ~Clearing => spin + sleep + phases <= total
    BY <1>2, <2>1 DEF Accounts, TypeOK
  <2>3. Clearing <=> ~(\A t \in Threads : pc[t] \notin {"clear_spin", "clear_sleep"})
    BY DEF ClearingSpin, ClearingSleep
  <2> QED
    BY <2>2, <2>3 DEF StatisticsAddUp
<1> QED
  BY <1>2, OwnersInvariance, TypeCorrect, PTL

\* Until reset_statistics is called the total adapt_parameters loads is the whole
\* number of periods its caller saw, and the spins it loads are of the same period.
THEOREM SamplesAreWholePeriods == Spec => []TunesOnWholePeriods
<1>1. ASSUME TypeOK, MutualExclusion, Accounts, SamplePath PROVE TunesOnWholePeriods
  <2> SUFFICES ASSUME resets = 0, NEW t \in Threads, pc[t] = "tune"
               PROVE  /\ sampled[t] = total /\ total > 0 /\ total % AdaptEvery = 0
                      /\ spun[t] = spin /\ spun[t] <= sampled[t]
    BY DEF TunesOnWholePeriods
  <2>1. sampled[t] = total /\ total > 0 /\ total % AdaptEvery = 0 /\ spun[t] = spin
    BY <1>1 DEF SamplePath, Sampling
  <2>2. ~ClearingSpin /\ ~ClearingSleep
    BY <1>1 DEF MutualExclusion, Owner, Owning, Adapting, ClearingSpin, ClearingSleep
  <2>3. spin + sleep <= total /\ spin \in Nat /\ sleep \in Nat /\ total \in Nat
    BY <1>1, <2>2 DEF Accounts, TypeOK
  <2>4. spin <= total
    BY <2>3
  <2> QED
    BY <2>1, <2>4
<1> QED
  BY <1>1, OwnersInvariance, TypeCorrect, PTL
=============================================================================
