---------------------------- MODULE FutureProofs ----------------------------
(***************************************************************************)
(* Proofs about FutureSystem, for any number of threads, shared states and *)
(* calls.                                                                  *)
(*                                                                         *)
(* None of the invariants the runs check is inductive.  Fits says, for     *)
(* each place a thread can be at, how the states it holds, the state its   *)
(* call is on and the continuation it runs belong together; HeldInv that   *)
(* who holds a state has locked it, so that (LookedInv) what it saw of     *)
(* ready still holds when it stores, keeps or sleeps.  The rest says where *)
(* a continuation is that was not run yet, that it is there alone          *)
(* (OnceInv), and why a sleeper will be notified.                          *)
(***************************************************************************)
EXTENDS FutureSystem, SequenceTheorems, TLAPS

\* A continuation leads from a state to a later one; only async has none to start from.
WellFormed(c) == c \in Continuations /\ c.from < c.target /\ (c.kind # "plain" => c.from # 0)

\* What then() was given.
Attachable(c, given) == WellFormed(c) /\ c.from # 0 /\ c \in given

Ascending(held) == \A j, k \in DOMAIN held : j < k => held[j].state < held[k].state
UpTo(held, s)   == \A k \in DOMAIN held : held[k].state <= s
Waiting         == {"get", "check", "sleep", "asleep"}

\* Where a thread holds the continuation it was to attach, or is about to start one.
Placing == {"then", "attach", "keep", "start"}

Fits(place, a, c, held, r, given) ==
  /\ Ascending(held)
  /\ \A k \in DOMAIN r : Attachable(r[k], given)
  /\ c # NoContinuation => WellFormed(c)
  /\ place = "idle" => c = NoContinuation /\ held = <<>> /\ r = <<>>
  /\ place = "then" => held = <<>>
  /\ place \in Placing => Attachable(c, given) /\ c.from = a
  /\ place = "func" => c # NoContinuation /\ UpTo(held, c.from)
  /\ place \in Waiting =>
       /\ a \in States
       /\ IF c = NoContinuation THEN held = <<>> /\ r = <<>> ELSE c.from = a /\ UpTo(held, a)
  /\ place \in {"check", "sleep"} => \A k \in DOMAIN held : held[k].state # a
  /\ place = "set" => a \in States /\ \A k \in DOMAIN held : held[k].state < a
  /\ place \in {"look", "store", "run", "attach", "keep", "start"} =>
       held # <<>> /\ Last(held).state = a
  /\ place \in {"look", "store", "run"} => Last(held).notify
  /\ place = "unwind" => held # <<>>

NestInv == \A t \in Threads : Fits(pc[t], at[t], cont[t], path[t], rest[t], attached)

StoredInv ==
  /\ \A s \in States : continuation[s] # NoContinuation =>
       Attachable(continuation[s], attached) /\ continuation[s].from = s
  /\ \A k \in DOMAIN tasks : WellFormed(tasks[k])

\* Who holds a state, in a nested call or in get(), has locked its mutex.
Holds(place, a, held, s) ==
  \/ \E k \in DOMAIN held : held[k].state = s
  \/ place \in {"check", "sleep"} /\ a = s

HeldInv ==
  \A t \in Threads : \A s \in States : Holds(pc[t], at[t], path[t], s) => owner[s] = t

\* What a thread saw of ready it may rely on, for it holds the state.
Looked(place, a) ==
  /\ place \in {"store", "keep", "sleep"} => ~Ready(a)
  /\ place = "run" => Ready(a)

LookedInv == \A t \in Threads : Looked(pc[t], at[t])

AsleepInv == \A s \in States : \A t \in sleepers[s] : pc[t] = "asleep" /\ at[t] = s

\* The thread that will notify the sleepers is past the look at ready, at which a second
\* set_value ends without notify_all.
WakeInv ==
  \A s \in States : Ready(s) /\ sleepers[s] # {} =>
    \E t \in Threads : \E k \in DOMAIN path[t] :
      /\ path[t][k] = [state |-> s, notify |-> TRUE]
      /\ ~(pc[t] = "look" /\ at[t] = s)

\* Where a continuation is that was neither run nor displaced.
Pending(c) ==
  \/ \E t \in Threads : pc[t] \in Placing /\ cont[t] = c
  \/ \E t \in Threads : \E k \in DOMAIN rest[t] : rest[t][k] = c
  \/ /\ continuation[c.from] = c
     /\ Ready(c.from) => \E t \in Threads : pc[t] = "run" /\ at[t] = c.from

PendingInv == \A c \in attached : c.from \in States /\ (c \in started \cup displaced \/ Pending(c))

\* The continuations in the hands of a thread, and the one that will be called when a
\* state is set or by the thread that has set it: each is in one place, and was neither
\* run nor displaced.
Owned(place, c, r) == {r[k] : k \in DOMAIN r} \cup {d \in {c} : place \in Placing}

Apart(place, c, r) ==
  /\ \A j, k \in DOMAIN r : r[j] = r[k] => j = k
  /\ place \in Placing => \A k \in DOMAIN r : r[k] # c

InHands(t) == Owned(pc[t], cont[t], rest[t])

Armed(s) ==
  /\ continuation[s] # NoContinuation
  /\ Ready(s) => \E t \in Threads : pc[t] = "run" /\ at[t] = s

Over == started \cup displaced

OnceInv ==
  /\ \A t \in Threads : Apart(pc[t], cont[t], rest[t])
  /\ \A t \in Threads : InHands(t) \cap Over = {}
  /\ \A t, u \in Threads : t # u => InHands(t) \cap InHands(u) = {}
  /\ \A s \in States : Armed(s) =>
       continuation[s] \notin Over /\ \A t \in Threads : continuation[s] \notin InHands(t)

Base == TypeOK /\ NestInv /\ StoredInv /\ HeldInv /\ LookedInv /\ AsleepInv
IInv == Base /\ WakeInv /\ PendingInv /\ OnceInv

\* Who is about to set a state has something to set it to.
ResultInv == \A t \in Threads : pc[t] \in {"set", "look", "store"} => result[t] \in Outcomes

\* A new continuation differs from those before: its promise is new.
FreshInv == \A c \in attached : c.target <= used

-----------------------------------------------------------------------------
(* Sequences.                                                                *)

Frames == [state : States, notify : BOOLEAN]

LEMMA Pushed ==
  ASSUME NEW S, NEW q \in Seq(S), NEW x \in S
  PROVE /\ Append(q, x) \in Seq(S) /\ Append(q, x) # <<>> /\ Last(Append(q, x)) = x
        /\ DOMAIN q = 1 .. Len(q) /\ Len(q) \in Nat
        /\ DOMAIN Append(q, x) = 1 .. Len(q) + 1
        /\ Append(q, x)[Len(q) + 1] = x
        /\ \A k \in DOMAIN q : Append(q, x)[k] = q[k]
<1>1. /\ Append(q, x) \in Seq(S) /\ Len(Append(q, x)) = Len(q) + 1
      /\ \A i \in 1 .. Len(q) : Append(q, x)[i] = q[i]
      /\ Append(q, x)[Len(q) + 1] = x
  BY AppendProperties
<1>2. Len(q) \in Nat /\ DOMAIN q = 1 .. Len(q) /\ DOMAIN Append(q, x) = 1 .. Len(q) + 1
  BY <1>1, LenProperties
<1>3. Append(q, x) # <<>>
  BY <1>1, <1>2, EmptySeq
<1> QED
  BY <1>1, <1>2, <1>3 DEF Last

LEMMA Popped ==
  ASSUME NEW S, NEW q \in Seq(S), q # <<>>
  PROVE /\ Front(q) \in Seq(S) /\ Last(q) \in S
        /\ Len(q) \in Nat \ {0} /\ DOMAIN q = 1 .. Len(q) /\ Last(q) = q[Len(q)]
        /\ DOMAIN Front(q) = 1 .. Len(q) - 1
        /\ \A k \in DOMAIN Front(q) : k \in DOMAIN q /\ k < Len(q) /\ Front(q)[k] = q[k]
<1>1. Len(q) \in Nat \ {0} /\ DOMAIN q = 1 .. Len(q) /\ \A i \in 1 .. Len(q) : q[i] \in S
  BY LenProperties, EmptySeq
<1> DEFINE n == Len(q) - 1
<1>2. n \in Nat /\ 1 \in Int /\ n \in Int /\ \A i \in 1 .. n : i \in 1 .. Len(q) /\ i < Len(q)
  BY <1>1
<1>3. Front(q) = SubSeq(q, 1, n)
  BY DEF Front
<1> HIDE DEF n
<1>4. \A i \in 1 .. n : q[i] \in S
  BY <1>1, <1>2
<1>5. /\ SubSeq(q, 1, n) \in Seq(S) /\ Len(SubSeq(q, 1, n)) = (IF 1 <= n THEN n - 1 + 1 ELSE 0)
      /\ \A i \in 1 .. n - 1 + 1 : SubSeq(q, 1, n)[i] = q[1 + i - 1]
  BY <1>2, <1>4, SubSeqProperties
<1>6. Len(SubSeq(q, 1, n)) = n /\ \A i \in 1 .. n : SubSeq(q, 1, n)[i] = q[i]
  BY <1>2, <1>5
<1>7. DOMAIN Front(q) = 1 .. n
  BY <1>3, <1>5, <1>6, LenProperties
<1> QED
  BY <1>1, <1>2, <1>3, <1>5, <1>6, <1>7 DEF Last, n

LEMMA Shifted ==
  ASSUME NEW S, NEW q \in Seq(S), q # <<>>
  PROVE /\ Head(q) \in S /\ Tail(q) \in Seq(S) /\ 1 \in DOMAIN q /\ Head(q) = q[1]
        /\ \A k \in DOMAIN Tail(q) : k + 1 \in DOMAIN q /\ Tail(q)[k] = q[k + 1]
        /\ \A k \in DOMAIN q : k = 1 \/ (k - 1 \in DOMAIN Tail(q) /\ q[k] = Tail(q)[k - 1])
<1>1. /\ Len(q) \in Nat \ {0} /\ DOMAIN q = 1 .. Len(q) /\ Head(q) = q[1]
      /\ Head(q) \in S /\ Tail(q) \in Seq(S) /\ Len(Tail(q)) = Len(q) - 1
      /\ \A i \in 1 .. Len(Tail(q)) : Tail(q)[i] = q[i + 1]
  BY LenProperties, EmptySeq, HeadTailProperties
<1>2. DOMAIN Tail(q) = 1 .. Len(q) - 1
  BY <1>1, LenProperties
<1>3. \A k \in 1 .. Len(q) - 1 : k + 1 \in 1 .. Len(q)
  BY <1>1
<1>4. \A k \in 1 .. Len(q) : k = 1 \/ (k - 1 \in 1 .. Len(q) - 1 /\ (k - 1) + 1 = k)
  BY <1>1
<1>5. \A k \in 1 .. Len(q) : k = 1 \/ (k - 1 \in 1 .. Len(q) - 1 /\ q[k] = Tail(q)[k - 1])
  BY <1>1, <1>4
<1> QED
  BY <1>1, <1>2, <1>3, <1>5

-----------------------------------------------------------------------------

LEMMA TailApart ==
  ASSUME NEW q \in Seq(Continuations), q # <<>>, \A j, k \in DOMAIN q : q[j] = q[k] => j = k
  PROVE Apart("then", Head(q), Tail(q))
<1>1. /\ 1 \in DOMAIN q /\ Head(q) = q[1] /\ Tail(q) \in Seq(Continuations)
      /\ \A k \in DOMAIN Tail(q) : k + 1 \in DOMAIN q /\ Tail(q)[k] = q[k + 1]
  BY Shifted
<1>2. \A k \in DOMAIN Tail(q) : k \in Nat /\ k + 1 # 1
  <2>1. DOMAIN Tail(q) = 1 .. Len(Tail(q)) /\ Len(Tail(q)) \in Nat
    BY <1>1, LenProperties
  <2> QED
    BY <2>1
<1>3. ASSUME NEW j \in DOMAIN Tail(q), NEW k \in DOMAIN Tail(q), Tail(q)[j] = Tail(q)[k]
      PROVE j = k
  <2>1. j + 1 = k + 1 /\ j \in Nat /\ k \in Nat
    BY <1>1, <1>2, <1>3
  <2> QED
    BY <2>1
<1>4. \A k \in DOMAIN Tail(q) : Tail(q)[k] # Head(q)
  BY <1>1, <1>2
<1> QED
  BY <1>3, <1>4 DEF Apart

LEMMA Nothing ==
  /\ NoContinuation \notin Continuations /\ NoContinuation.kind = "none" /\ DOMAIN <<>> = {}
  /\ \A c : WellFormed(c) => c # NoContinuation /\ c.target \in States
  /\ \A c, given : Attachable(c, given) => c.from \in States
BY ConstantsAssumption
   DEF Continuations, NoContinuation, Kinds, WellFormed, Attachable, States

LEMMA InitIInv == Init => IInv
<1> SUFFICES ASSUME Init PROVE IInv
  OBVIOUS
<1> USE ConstantsAssumption DEF Init
<1>0. /\ \A S : <<>> \in Seq(S)
      /\ DOMAIN <<>> = {} /\ NoContinuation \notin Continuations /\ 0 \in 0 .. MaxStates
  BY EmptySeq DEF Continuations, NoContinuation, Kinds
<1>1. TypeOK
  BY <1>0 DEF TypeOK, InCall
<1>2. NestInv
  BY <1>0 DEF NestInv, Fits, Ascending, Waiting, Placing
<1>3. StoredInv /\ LookedInv /\ AsleepInv /\ WakeInv /\ PendingInv
  BY <1>0 DEF StoredInv, LookedInv, Looked, AsleepInv, WakeInv, PendingInv, Ready
<1>4. HeldInv
  BY <1>0 DEF HeldInv, Holds
<1>5. OnceInv
  BY <1>0 DEF OnceInv, Apart, InHands, Owned, Armed, Over, Placing
<1> QED
  BY <1>1, <1>2, <1>3, <1>4, <1>5 DEF IInv, Base

-----------------------------------------------------------------------------
(* What a step does to a thread, and to the others.                          *)

\* After a step of t, t is at this place; the others are where they were, or woken up.
Moves(t, place, a, c, held, r) ==
  /\ pc'[t] = place /\ at'[t] = a /\ cont'[t] = c /\ path'[t] = held /\ rest'[t] = r
  /\ \A u \in Threads \ {t} :
       /\ at'[u] = at[u] /\ cont'[u] = cont[u] /\ path'[u] = path[u] /\ rest'[u] = rest[u]
       /\ pc'[u] = pc[u] \/ (pc[u] = "asleep" /\ pc'[u] = "get")

Alone(t) == \A u \in Threads \ {t} : pc'[u] = pc[u]

More(t, held)  == held = <<>> /\ rest[t] # <<>>
NextCont(t, held) == IF More(t, held) THEN Head(rest[t]) ELSE NoContinuation
NextAt(t, held)   == IF More(t, held) THEN Head(rest[t]).from ELSE 0
NextRest(t, held) == IF More(t, held) THEN Tail(rest[t]) ELSE rest[t]

LEMMA Returned ==
  ASSUME TypeOK, NEW t \in Threads, NEW held \in Seq(Frames), Return(t, held)
  PROVE /\ at' \in [Threads -> 0 .. MaxStates] /\ path' \in [Threads -> Seq(Frames)]
        /\ cont' \in [Threads -> Continuations \cup {NoContinuation}]
        /\ rest' \in [Threads -> Seq(Continuations)]
        /\ result' \in [Threads -> Outcomes \cup {"none"}]
        /\ patience' \in [Threads -> {"forever", "timed", "expired"}]
        /\ at'[t] = NextAt(t, held) /\ cont'[t] = NextCont(t, held)
        /\ path'[t] = held /\ rest'[t] = NextRest(t, held)
        /\ \A u \in Threads \ {t} :
             at'[u] = at[u] /\ cont'[u] = cont[u] /\ path'[u] = path[u] /\ rest'[u] = rest[u]
<1>1. /\ at \in [Threads -> 0 .. MaxStates] /\ path \in [Threads -> Seq(Frames)]
      /\ cont \in [Threads -> Continuations \cup {NoContinuation}]
      /\ rest \in [Threads -> Seq(Continuations)]
      /\ result \in [Threads -> Outcomes \cup {"none"}]
      /\ patience \in [Threads -> {"forever", "timed", "expired"}]
  BY DEF TypeOK, Frames
<1>2. /\ NextAt(t, held) \in 0 .. MaxStates
      /\ NextCont(t, held) \in Continuations \cup {NoContinuation}
      /\ NextRest(t, held) \in Seq(Continuations)
  <2>1. CASE More(t, held)
    <3>1. Head(rest[t]) \in Continuations /\ Tail(rest[t]) \in Seq(Continuations)
      BY <1>1, <2>1, Shifted DEF More
    <3>2. Head(rest[t]).from \in 0 .. MaxStates
      BY <3>1 DEF Continuations
    <3> QED
      BY <2>1, <3>1, <3>2 DEF NextAt, NextCont, NextRest
  <2>2. CASE ~More(t, held)
    BY <1>1, <2>2, ConstantsAssumption DEF NextAt, NextCont, NextRest
  <2> QED
    BY <2>1, <2>2
<1>3. /\ at' = [at EXCEPT ![t] = NextAt(t, held)]
      /\ cont' = [cont EXCEPT ![t] = NextCont(t, held)]
      /\ path' = [path EXCEPT ![t] = held]
      /\ rest' = [rest EXCEPT ![t] = NextRest(t, held)]
      /\ result' = [result EXCEPT ![t] = "none"]
      /\ patience' = [patience EXCEPT ![t] = "forever"]
  BY <1>1 DEF Return, NextAt, NextCont, NextRest, More
<1> HIDE DEF NextAt, NextCont, NextRest
<1> QED
  BY <1>1, <1>2, <1>3

\* A thread locks the state its call is on, for a call that may run a continuation.
LEMMA Entered ==
  ASSUME TypeOK, NEW t \in Threads, at[t] \in States,
         NEW from, NEW to \in InCall, NEW notify \in BOOLEAN, Enter(t, from, to, notify)
  PROVE /\ TypeOK'
        /\ path[t] \in Seq(Frames) /\ [state |-> at[t], notify |-> notify] \in Frames
        /\ pc[t] = from
        /\ Moves(t, to, at[t], cont[t], Append(path[t], [state |-> at[t], notify |-> notify]), rest[t])
        /\ Alone(t)
        /\ owner[at[t]] = NoThread /\ owner' = [owner EXCEPT ![at[t]] = t]
        /\ UNCHANGED <<outcome, continuation, sleepers, tasks, completed, attached, started, displaced>>
<1>1. path[t] \in Seq(Frames) /\ [state |-> at[t], notify |-> notify] \in Frames
  BY DEF TypeOK, Frames
<1>2. Append(path[t], [state |-> at[t], notify |-> notify]) \in Seq(Frames)
  BY <1>1, Pushed
<1>3. /\ pc[t] = from /\ pc' = [pc EXCEPT ![t] = to]
      /\ owner[at[t]] = NoThread /\ owner' = [owner EXCEPT ![at[t]] = t]
      /\ path' = [path EXCEPT ![t] = Append(path[t], [state |-> at[t], notify |-> notify])]
      /\ UNCHANGED <<used, promises, attached, calls, outcome, continuation, sleepers, tasks, completed,
                      at, result, cont, patience, rest, started, displaced>>
  BY DEF Enter, Lock, Goto, made, local, history, TypeOK
<1>4. TypeOK'
  BY <1>2, <1>3 DEF TypeOK, Frames
<1>5. /\ Moves(t, to, at[t], cont[t], Append(path[t], [state |-> at[t], notify |-> notify]), rest[t])
      /\ Alone(t)
  BY <1>3 DEF TypeOK, Moves, Alone
<1> QED
  BY <1>1, <1>3, <1>4, <1>5

\* A call ends, of which nothing is held but what the calls around it hold.
LEMMA Left ==
  ASSUME TypeOK, NEW t \in Threads, NEW held \in Seq(Frames),
         pc' = [pc EXCEPT ![t] = Outside(t, held)], Return(t, held)
  PROVE /\ pc' \in [Threads -> InCall \cup {"idle"}]
        /\ Moves(t, Outside(t, held), NextAt(t, held), NextCont(t, held), held, NextRest(t, held))
        /\ Alone(t)
<1>1. pc \in [Threads -> InCall \cup {"idle"}]
  BY DEF TypeOK
<1>2. Outside(t, held) \in InCall \cup {"idle"}
  BY DEF Outside, InCall
<1> QED
  BY <1>1, <1>2, Returned DEF Moves, Alone

LEMMA CallEffect ==
  ASSUME Base, NEW t \in Clients, NEW operation \in InCall, NEW s \in States, Call(t, operation, s)
  PROVE /\ t \in Threads /\ pc[t] = "idle" /\ cont[t] = NoContinuation /\ path[t] = <<>> /\ rest[t] = <<>>
        /\ pc' \in [Threads -> InCall \cup {"idle"}] /\ at' \in [Threads -> 0 .. MaxStates] /\ calls' \in Nat
        /\ pc'[t] = operation /\ at'[t] = s
        /\ \A u \in Threads \ {t} : pc'[u] = pc[u] /\ at'[u] = at[u]
        /\ UNCHANGED <<outcome, continuation, owner, sleepers, completed, path, started, displaced>>
<1>1. t \in Threads /\ TypeOK /\ Fits(pc[t], at[t], cont[t], path[t], rest[t], attached)
  BY DEF Threads, Base, NestInv
<1>2. /\ pc[t] = "idle" /\ pc' = [pc EXCEPT ![t] = operation] /\ at' = [at EXCEPT ![t] = s]
      /\ calls' = calls + 1
      /\ UNCHANGED <<outcome, continuation, owner, sleepers, completed, path, started, displaced>>
  BY DEF Call, Goto, On, shared, history
<1>3. s \in 0 .. MaxStates
  BY ConstantsAssumption DEF States
<1>4. cont[t] = NoContinuation /\ path[t] = <<>> /\ rest[t] = <<>>
  BY <1>1, <1>2 DEF Fits
<1> QED
  BY <1>1, <1>2, <1>3, <1>4 DEF TypeOK

Kept == <<outcome, continuation, owner, sleepers, completed, started, displaced>>

LEMMA CallSetEffect ==
  ASSUME Base, NEW t \in Clients, NEW s \in States, NEW o \in Outcomes, CallSet(t, s, o)
  PROVE /\ TypeOK' /\ t \in Threads /\ pc[t] = "idle"
        /\ Moves(t, "set", s, NoContinuation, <<>>, <<>>) /\ Alone(t)
        /\ UNCHANGED Kept /\ UNCHANGED <<tasks, attached>>
<1>1. /\ Call(t, "set", s) /\ result' = [result EXCEPT ![t] = o]
      /\ UNCHANGED <<tasks, used, promises, attached, cont, patience, rest>>
  BY DEF CallSet
<1>2. "set" \in InCall
  BY DEF InCall
<1> QED
  BY <1>1, <1>2, CallEffect DEF Base, TypeOK, Moves, Alone, Kept

LEMMA CallGetEffect ==
  ASSUME Base, NEW t \in Clients, NEW s \in States, NEW how \in {"forever", "timed"}, CallGet(t, s, how)
  PROVE /\ TypeOK' /\ t \in Threads /\ pc[t] = "idle"
        /\ Moves(t, "get", s, NoContinuation, <<>>, <<>>) /\ Alone(t)
        /\ UNCHANGED Kept /\ UNCHANGED <<tasks, attached>>
<1>1. /\ Call(t, "get", s) /\ patience' = [patience EXCEPT ![t] = how]
      /\ UNCHANGED <<tasks, used, promises, attached, cont, result, rest>>
  BY DEF CallGet
<1>2. "get" \in InCall
  BY DEF InCall
<1> QED
  BY <1>1, <1>2, CallEffect DEF Base, TypeOK, Moves, Alone, Kept

\* What a call attaches: one continuation, or the two of a when_any, with a new promise.
Lists ==
  {l \in Seq(Continuations) :
     /\ l # <<>>
     /\ \A k \in DOMAIN l : WellFormed(l[k]) /\ l[k].from # 0 /\ l[k].target = used + 1
     /\ \A j, k \in DOMAIN l : l[j] = l[k] => j = k}

LEMMA AttachedAre ==
  ASSUME Base, NEW s \in States, s <= used, used < MaxStates, NEW kind \in Kinds, NEW queued \in BOOLEAN
  PROVE /\ NewContinuation(kind, queued, s) \in Continuations
        /\ WellFormed(NewContinuation(kind, queued, s))
        /\ NewContinuation(kind, queued, s).from = s
        /\ NewContinuation(kind, queued, s).target = used + 1
<1>1. used + 1 \in States /\ s < used + 1 /\ s # 0 /\ s \in 0 .. MaxStates
  BY ConstantsAssumption DEF States, Base, TypeOK
<1> QED
  BY <1>1 DEF NewContinuation, WellFormed, Continuations

LEMMA CallThenLists ==
  ASSUME Base, NEW t \in Clients, NEW s \in States, NEW kind \in Kinds, NEW queued \in BOOLEAN,
         CallThen(t, s, kind, queued)
  PROVE \E list \in Lists : CallAttach(t, list)
<1> DEFINE c == NewContinuation(kind, queued, s)
<1>1. /\ c \in Continuations /\ WellFormed(c) /\ c.from = s /\ c.target = used + 1 /\ s # 0
      /\ CallAttach(t, <<c>>)
  BY AttachedAre DEF CallThen, CallAttach, States
<1> HIDE DEF c
<1>2. <<c>> \in Seq(Continuations) /\ <<c>> # <<>> /\ DOMAIN <<c>> = {1} /\ <<c>>[1] = c
  BY <1>1
<1>3. <<c>> \in Lists
  BY <1>1, <1>2 DEF Lists
<1> QED
  BY <1>1, <1>3

LEMMA CallWhenAnyLists ==
  ASSUME Base, NEW t \in Clients, NEW s \in States, NEW r \in States, CallWhenAny(t, s, r)
  PROVE \E list \in Lists : CallAttach(t, list)
<1> DEFINE c == NewContinuation("any", FALSE, s)
           d == NewContinuation("any", FALSE, r)
<1>0. "any" \in Kinds /\ FALSE \in BOOLEAN
  BY DEF Kinds
<1>c. CallAttach(t, <<c, d>>)
  BY DEF CallWhenAny
<1>u. s <= used /\ r <= used /\ used < MaxStates
  BY <1>c DEF CallWhenAny, CallAttach
<1>1. /\ c \in Continuations /\ WellFormed(c) /\ c.from = s /\ c.target = used + 1 /\ s # 0
      /\ d \in Continuations /\ WellFormed(d) /\ d.from = r /\ d.target = used + 1 /\ r # 0
      /\ c # d
  <2>1. c \in Continuations /\ WellFormed(c) /\ c.from = s /\ c.target = used + 1
    BY <1>0, <1>u, AttachedAre, Zenon
  <2>2. d \in Continuations /\ WellFormed(d) /\ d.from = r /\ d.target = used + 1
    BY <1>0, <1>u, AttachedAre, Zenon
  <2>3. s # 0 /\ r # 0 /\ s # r
    BY DEF States, CallWhenAny
  <2> QED
    BY <2>1, <2>2, <2>3
<1> HIDE DEF c, d
<1>2. /\ <<c, d>> \in Seq(Continuations) /\ <<c, d>> # <<>> /\ DOMAIN <<c, d>> = {1, 2}
      /\ <<c, d>>[1] = c /\ <<c, d>>[2] = d
  BY <1>1
<1>3. <<c, d>> \in Lists
  BY <1>1, <1>2 DEF Lists
<1> QED
  BY <1>3, <1>c DEF c, d

LEMMA CallAttachEffect ==
  ASSUME Base, NEW t \in Clients, NEW list \in Lists, CallAttach(t, list)
  PROVE /\ TypeOK' /\ t \in Threads /\ pc[t] = "idle" /\ list \in Seq(Continuations) /\ list # <<>>
        /\ Moves(t, "then", Head(list).from, Head(list), <<>>, Tail(list)) /\ Alone(t)
        /\ UNCHANGED Kept /\ UNCHANGED tasks /\ used' = used + 1
        /\ attached' = attached \cup {list[k] : k \in DOMAIN list}
<1>1. /\ list \in Seq(Continuations) /\ list # <<>>
      /\ \A k \in DOMAIN list : WellFormed(list[k]) /\ list[k].from # 0
  BY DEF Lists
<1>2. /\ Head(list) \in Continuations /\ Tail(list) \in Seq(Continuations) /\ 1 \in DOMAIN list
      /\ Head(list) = list[1]
  BY <1>1, Shifted
<1>3. Head(list).from \in States
  BY <1>1, <1>2 DEF Continuations, States
<1>4. {list[k] : k \in DOMAIN list} \subseteq Continuations
  BY <1>1 DEF Lists, WellFormed
<1>5. /\ used < MaxStates /\ used' = used + 1 /\ Call(t, "then", Head(list).from)
      /\ cont' = [cont EXCEPT ![t] = Head(list)] /\ rest' = [rest EXCEPT ![t] = Tail(list)]
      /\ attached' = attached \cup {list[k] : k \in DOMAIN list}
      /\ UNCHANGED <<tasks, promises, result, patience>>
  BY DEF CallAttach
<1>6. used' \in 0 .. MaxStates
  BY <1>5, ConstantsAssumption DEF Base, TypeOK
<1>7. "then" \in InCall
  BY DEF InCall
<1>8. /\ t \in Threads /\ pc[t] = "idle" /\ path[t] = <<>>
      /\ pc' \in [Threads -> InCall \cup {"idle"}] /\ at' \in [Threads -> 0 .. MaxStates] /\ calls' \in Nat
      /\ pc'[t] = "then" /\ at'[t] = Head(list).from
      /\ \A u \in Threads \ {t} : pc'[u] = pc[u] /\ at'[u] = at[u]
      /\ UNCHANGED <<outcome, continuation, owner, sleepers, completed, path, started, displaced>>
  BY <1>3, <1>5, <1>7, CallEffect
<1>9. attached' \subseteq Continuations
  BY <1>4, <1>5 DEF Base, TypeOK
<1>10. TypeOK'
  BY <1>2, <1>5, <1>6, <1>8, <1>9 DEF Base, TypeOK
<1> QED
  BY <1>1, <1>2, <1>5, <1>8, <1>10 DEF Base, TypeOK, Moves, Alone, Kept

LEMMA MakePromiseEffect ==
  ASSUME Base, MakePromise
  PROVE TypeOK' /\ UNCHANGED Kept /\ UNCHANGED <<tasks, attached, pc, at, cont, path, rest>>
<1>1. /\ used < MaxStates /\ used' = used + 1 /\ promises' = promises \cup {used + 1}
      /\ UNCHANGED <<shared, tasks, completed, pc, local, path, calls, attached, history>>
  BY DEF MakePromise
<1>2. used + 1 \in States /\ used + 1 \in 0 .. MaxStates
  BY <1>1, ConstantsAssumption DEF Base, TypeOK, States
<1> QED
  BY <1>1, <1>2 DEF Base, TypeOK, shared, local, history, Kept

\* async and an idle worker: the continuation of a task is well-formed.
LEMMA CallAsyncEffect ==
  ASSUME Base, NEW t \in Clients, CallAsync(t)
  PROVE /\ TypeOK' /\ UNCHANGED Kept /\ UNCHANGED <<attached, pc, at, cont, path, rest>>
        /\ \A k \in DOMAIN tasks' : WellFormed(tasks'[k])
<1> DEFINE c == [kind |-> "plain", queued |-> TRUE, from |-> 0, target |-> used + 1]
<1>1. /\ used < MaxStates /\ used' = used + 1 /\ calls' = calls + 1 /\ tasks' = Append(tasks, c)
      /\ UNCHANGED <<promises, attached, shared, completed, pc, local, path, history>>
  BY DEF CallAsync
<1>2. used + 1 \in States /\ used + 1 \in 0 .. MaxStates /\ calls + 1 \in Nat /\ 0 < used + 1
  BY <1>1, ConstantsAssumption DEF Base, TypeOK, States
<1>3. c \in Continuations /\ WellFormed(c)
  BY <1>2, ConstantsAssumption DEF Continuations, Kinds, WellFormed
<1> HIDE DEF c
<1>4. tasks \in Seq(Continuations) /\ \A k \in DOMAIN tasks : WellFormed(tasks[k])
  BY DEF Base, TypeOK, StoredInv
<1>5. tasks' \in Seq(Continuations) /\ \A k \in DOMAIN tasks' : WellFormed(tasks'[k])
  <2>1. /\ tasks' \in Seq(Continuations) /\ DOMAIN tasks = 1 .. Len(tasks) /\ Len(tasks) \in Nat
        /\ DOMAIN tasks' = 1 .. Len(tasks) + 1 /\ tasks'[Len(tasks) + 1] = c
        /\ \A k \in DOMAIN tasks : tasks'[k] = tasks[k]
    BY <1>1, <1>3, <1>4, Pushed
  <2>2. \A k \in 1 .. Len(tasks) + 1 : k \in 1 .. Len(tasks) \/ k = Len(tasks) + 1
    BY <2>1
  <2> QED
    BY <1>3, <1>4, <2>1, <2>2
<1> QED
  BY <1>1, <1>2, <1>5 DEF Base, TypeOK, shared, local, history, Kept

LEMMA TakeTaskEffect ==
  ASSUME Base, NEW t \in Workers, TakeTask(t)
  PROVE /\ TypeOK' /\ t \in Threads /\ pc[t] = "idle" /\ UNCHANGED Kept /\ UNCHANGED attached
        /\ Moves(t, "func", at[t], Head(tasks), <<>>, <<>>) /\ Alone(t)
        /\ WellFormed(Head(tasks)) /\ Head(tasks) # NoContinuation
        /\ \A k \in DOMAIN tasks' : WellFormed(tasks'[k])
<1>1. /\ tasks # <<>> /\ pc[t] = "idle" /\ pc' = [pc EXCEPT ![t] = "func"]
      /\ cont' = [cont EXCEPT ![t] = Head(tasks)] /\ tasks' = Tail(tasks)
      /\ UNCHANGED <<made, shared, completed, at, result, patience, rest, path, history>>
  BY DEF TakeTask, Goto
<1>2. t \in Threads /\ TypeOK /\ Fits(pc[t], at[t], cont[t], path[t], rest[t], attached)
  BY DEF Threads, Base, NestInv
<1>3. path[t] = <<>> /\ rest[t] = <<>>
  BY <1>1, <1>2 DEF Fits
<1>4. tasks \in Seq(Continuations) /\ \A k \in DOMAIN tasks : WellFormed(tasks[k])
  BY DEF Base, TypeOK, StoredInv
<1>5. /\ Head(tasks) \in Continuations /\ Tail(tasks) \in Seq(Continuations)
      /\ WellFormed(Head(tasks)) /\ \A k \in DOMAIN tasks' : WellFormed(tasks'[k])
  BY <1>1, <1>4, Shifted
<1>6. Head(tasks) # NoContinuation
  BY <1>5 DEF Continuations, NoContinuation, Kinds
<1>7. TypeOK'
  BY <1>1, <1>2, <1>5 DEF TypeOK, made, shared, history, InCall
<1>8. Moves(t, "func", at[t], Head(tasks), <<>>, <<>>) /\ Alone(t)
  BY <1>1, <1>2, <1>3 DEF TypeOK, Moves, Alone
<1> QED
  BY <1>1, <1>2, <1>5, <1>6, <1>7, <1>8 DEF made, shared, history, Kept

\* The continuation that a thread holds in its hands is in a place of its own kind.
LEMMA AtIts ==
  ASSUME Base, NEW t \in Threads
  PROVE /\ TypeOK /\ Fits(pc[t], at[t], cont[t], path[t], rest[t], attached)
        /\ path[t] \in Seq(Frames) /\ rest[t] \in Seq(Continuations)
        /\ cont[t] \in Continuations \cup {NoContinuation}
        /\ \A u \in Threads : \A s \in States : Holds(pc[u], at[u], path[u], s) => owner[s] = u
  BY DEF Base, NestInv, HeldInv, TypeOK, Frames

\* The state on top of a path is the largest.
LEMMA Largest ==
  ASSUME NEW held \in Seq(Frames), held # <<>>, Ascending(held)
  PROVE /\ Last(held) \in Frames /\ Last(held).state \in States
        /\ UpTo(held, Last(held).state)
        /\ Front(held) \in Seq(Frames) /\ Ascending(Front(held))
        /\ \A k \in DOMAIN Front(held) : Front(held)[k].state < Last(held).state
<1>1. /\ Front(held) \in Seq(Frames) /\ Last(held) \in Frames
      /\ Len(held) \in Nat \ {0} /\ DOMAIN held = 1 .. Len(held) /\ Last(held) = held[Len(held)]
      /\ DOMAIN Front(held) = 1 .. Len(held) - 1
      /\ \A k \in DOMAIN Front(held) : k \in DOMAIN held /\ k < Len(held) /\ Front(held)[k] = held[k]
  BY Popped
<1>2. Last(held).state \in States
  BY <1>1 DEF Frames
<1>3. \A k \in DOMAIN held : k = Len(held) \/ k < Len(held)
  <2>1. Len(held) \in Nat /\ DOMAIN held = 1 .. Len(held)
    BY <1>1
  <2> QED
    BY <2>1
<1>4. Len(held) \in DOMAIN held
  BY <1>1
<1>5. \A k \in DOMAIN held : k < Len(held) => held[k].state < Last(held).state
  BY <1>1, <1>4 DEF Ascending
<1>6. \A k \in DOMAIN held : held[k].state \in Int
  <2> SUFFICES ASSUME NEW k \in DOMAIN held PROVE held[k].state \in Int
    OBVIOUS
  <2>1. held[k] \in Frames
    BY <1>1, ElementOfSeq
  <2> QED
    BY <2>1 DEF Frames, States
<1>7. UpTo(held, Last(held).state)
  <2> SUFFICES ASSUME NEW k \in DOMAIN held PROVE held[k].state <= Last(held).state
    BY DEF UpTo
  <2>1. CASE k = Len(held)
    BY <1>1, <1>6, <2>1
  <2>2. CASE k < Len(held)
    <3>1. held[k].state < Last(held).state /\ held[k].state \in Int /\ Last(held).state \in Int
      BY <1>1, <1>4, <1>5, <1>6, <2>2
    <3> QED
      BY <3>1
  <2> QED
    BY <1>1, <1>3, <2>1, <2>2
<1>8. Ascending(Front(held))
  BY <1>1 DEF Ascending
<1> QED
  BY <1>1, <1>2, <1>5, <1>7, <1>8

\* A continuation leads beyond what its thread holds.
LEMMA AscendsTo ==
  ASSUME NEW held \in Seq(Frames), NEW c, WellFormed(c), UpTo(held, c.from)
  PROVE \A k \in DOMAIN held : held[k].state < c.target
<1> SUFFICES ASSUME NEW k \in DOMAIN held PROVE held[k].state < c.target
  OBVIOUS
<1>1. held[k] \in Frames
  BY LenProperties, ElementOfSeq
<1>2. held[k].state \in Int /\ c.from \in Int /\ c.target \in Int
  BY <1>1, ConstantsAssumption DEF Frames, States, WellFormed, Continuations
<1>3. held[k].state <= c.from /\ c.from < c.target
  BY DEF UpTo, WellFormed
<1> QED
  BY <1>2, <1>3

\* A frame on top of a path of smaller states.
LEMMA PushedAscends ==
  ASSUME NEW held \in Seq(Frames), NEW f \in Frames, Ascending(held),
         \A k \in DOMAIN held : held[k].state < f.state
  PROVE Ascending(Append(held, f))
<1>1. /\ DOMAIN held = 1 .. Len(held) /\ Len(held) \in Nat
      /\ DOMAIN Append(held, f) = 1 .. Len(held) + 1 /\ Append(held, f)[Len(held) + 1] = f
      /\ \A k \in DOMAIN held : Append(held, f)[k] = held[k]
  BY Pushed
<1> SUFFICES ASSUME NEW j \in DOMAIN Append(held, f), NEW k \in DOMAIN Append(held, f), j < k
             PROVE Append(held, f)[j].state < Append(held, f)[k].state
  BY DEF Ascending
<1>2. j \in DOMAIN held
  BY <1>1
<1>3. k \in DOMAIN held \/ k = Len(held) + 1
  BY <1>1
<1> QED
  BY <1>1, <1>2, <1>3 DEF Ascending

-----------------------------------------------------------------------------
(* What a step must respect for each part of the invariant.                  *)

LEMMA NestMoves ==
  ASSUME Base, NEW t \in Threads, NEW place, NEW a, NEW c, NEW held, NEW r,
         Moves(t, place, a, c, held, r), attached \subseteq attached',
         Fits(place, a, c, held, r, attached')
  PROVE NestInv'
<1> SUFFICES ASSUME NEW u \in Threads PROVE Fits(pc'[u], at'[u], cont'[u], path'[u], rest'[u], attached')
  BY DEF NestInv
<1>1. CASE u = t
  BY <1>1, Zenon DEF Moves
<1>2. CASE u # t
  <2>1. Fits(pc[u], at[u], cont[u], path[u], rest[u], attached)
    BY DEF Base, NestInv
  <2>2. /\ at'[u] = at[u] /\ cont'[u] = cont[u] /\ path'[u] = path[u] /\ rest'[u] = rest[u]
        /\ pc'[u] = pc[u] \/ (pc[u] = "asleep" /\ pc'[u] = "get")
    BY <1>2 DEF Moves
  <2>3. \A x : Attachable(x, attached) => Attachable(x, attached')
    BY DEF Attachable
  <2>4. Fits(pc'[u], at[u], cont[u], path[u], rest[u], attached')
    BY <2>1, <2>2, <2>3 DEF Fits, Waiting, Placing
  <2> QED
    BY <2>2, <2>4
<1> QED
  BY <1>1, <1>2

LEMMA HeldMoves ==
  ASSUME Base, NEW t \in Threads, NEW place, NEW a, NEW c, NEW held, NEW r,
         Moves(t, place, a, c, held, r)
  PROVE /\ \A u \in Threads \ {t} : \A s \in States :
             Holds(pc'[u], at'[u], path'[u], s) => Holds(pc[u], at[u], path[u], s)
        /\ \A s \in States : Holds(pc'[t], at'[t], path'[t], s) => Holds(place, a, held, s)
<1>1. ASSUME NEW u \in Threads \ {t}, NEW s \in States, Holds(pc'[u], at'[u], path'[u], s)
      PROVE Holds(pc[u], at[u], path[u], s)
  <2>1. at'[u] = at[u] /\ path'[u] = path[u] /\ (pc'[u] = pc[u] \/ pc'[u] = "get")
    BY DEF Moves
  <2> QED
    BY <1>1, <2>1 DEF Holds
<1>2. pc'[t] = place /\ at'[t] = a /\ path'[t] = held
  BY DEF Moves
<1> QED
  BY <1>1, <1>2

LEMMA HeldStays ==
  ASSUME Base, NEW t \in Threads, NEW place, NEW a, NEW c, NEW held, NEW r,
         Moves(t, place, a, c, held, r), UNCHANGED owner,
         \A s \in States : Holds(place, a, held, s) => Holds(pc[t], at[t], path[t], s)
  PROVE HeldInv'
BY HeldMoves DEF HeldInv, Base

LEMMA HeldTakes ==
  ASSUME Base, NEW t \in Threads, NEW place, NEW a, NEW c, NEW held, NEW r,
         Moves(t, place, a, c, held, r),
         NEW x \in States, owner[x] = NoThread, owner' = [owner EXCEPT ![x] = t],
         \A s \in States : Holds(place, a, held, s) => s = x \/ Holds(pc[t], at[t], path[t], s)
  PROVE HeldInv'
<1>1. \A s \in States : owner'[s] = IF s = x THEN t ELSE owner[s]
  BY DEF Base, TypeOK
<1>2. \A u \in Threads : ~Holds(pc[u], at[u], path[u], x)
  BY ConstantsAssumption DEF Base, HeldInv
<1> QED
  BY <1>1, <1>2, HeldMoves DEF HeldInv, Base

LEMMA HeldFrees ==
  ASSUME Base, NEW t \in Threads, NEW place, NEW a, NEW c, NEW held, NEW r,
         Moves(t, place, a, c, held, r),
         NEW x \in States, Holds(pc[t], at[t], path[t], x), owner' = [owner EXCEPT ![x] = NoThread],
         \A s \in States : Holds(place, a, held, s) => s # x /\ Holds(pc[t], at[t], path[t], s)
  PROVE HeldInv'
<1>1. \A s \in States : owner'[s] = IF s = x THEN NoThread ELSE owner[s]
  BY DEF Base, TypeOK
<1>2. \A u \in Threads \ {t} : ~Holds(pc[u], at[u], path[u], x)
  BY DEF Base, HeldInv
<1> QED
  BY <1>1, <1>2, HeldMoves DEF HeldInv, Base

LEMMA AsleepStays ==
  ASSUME Base, NEW t \in Threads, NEW place, NEW a, NEW c, NEW held, NEW r,
         Moves(t, place, a, c, held, r), Alone(t), pc[t] # "asleep", UNCHANGED sleepers
  PROVE AsleepInv'
<1> SUFFICES ASSUME NEW s \in States, NEW u \in sleepers[s] PROVE pc'[u] = "asleep" /\ at'[u] = s
  BY DEF AsleepInv
<1>1. pc[u] = "asleep" /\ at[u] = s /\ u \in Threads /\ u # t
  BY DEF Base, AsleepInv, TypeOK
<1> QED
  BY <1>1 DEF Moves, Alone

\* The frames of those who will notify stay.
Keeps(t, place, a, held) ==
  \A k \in DOMAIN path[t] :
    path[t][k].notify /\ ~(pc[t] = "look" /\ at[t] = path[t][k].state) =>
      \E l \in DOMAIN held :
        held[l] = path[t][k] /\ ~(place = "look" /\ a = path[t][k].state)

LEMMA WakeStays ==
  ASSUME Base, WakeInv, NEW t \in Threads, NEW place, NEW a, NEW c, NEW held, NEW r,
         Moves(t, place, a, c, held, r), Alone(t), UNCHANGED outcome,
         \A s \in States : Ready(s) => sleepers'[s] \subseteq sleepers[s],
         Keeps(t, place, a, held)
  PROVE WakeInv'
<1> SUFFICES ASSUME NEW s \in States, Ready(s), sleepers[s] # {}
             PROVE \E u \in Threads : \E k \in DOMAIN path'[u] :
                     /\ path'[u][k] = [state |-> s, notify |-> TRUE]
                     /\ ~(pc'[u] = "look" /\ at'[u] = s)
  BY DEF WakeInv, Ready
<1>1. PICK u \in Threads : \E k \in DOMAIN path[u] :
        /\ path[u][k] = [state |-> s, notify |-> TRUE]
        /\ ~(pc[u] = "look" /\ at[u] = s)
  BY DEF WakeInv
<1>2. PICK k \in DOMAIN path[u] :
        /\ path[u][k] = [state |-> s, notify |-> TRUE]
        /\ ~(pc[u] = "look" /\ at[u] = s)
  BY <1>1
<1>3. CASE u = t
  <2>1. path[t][k].notify /\ path[t][k].state = s
    BY <1>2, <1>3
  <2>2. PICK l \in DOMAIN held : held[l] = path[t][k] /\ ~(place = "look" /\ a = s)
    BY <1>2, <1>3, <2>1 DEF Keeps
  <2> QED
    BY <1>2, <1>3, <2>2 DEF Moves
<1>4. CASE u # t
  BY <1>2, <1>4 DEF Moves, Alone
<1> QED
  BY <1>3, <1>4

\* Who stands where it holds a state has locked its mutex.
LEMMA HoldsItsOwn ==
  ASSUME Base, NEW t \in Threads,
         pc[t] \in {"look", "store", "run", "attach", "keep", "start", "check", "sleep"}
  PROVE at[t] \in States /\ owner[at[t]] = t /\ Holds(pc[t], at[t], path[t], at[t])
<1>0. /\ TypeOK /\ Fits(pc[t], at[t], cont[t], path[t], rest[t], attached)
      /\ path[t] \in Seq(Frames)
      /\ \A s \in States : Holds(pc[t], at[t], path[t], s) => owner[s] = t
  BY AtIts
<1>1. CASE pc[t] \in {"check", "sleep"}
  BY <1>0, <1>1 DEF Fits, Waiting, Holds
<1>2. CASE pc[t] \notin {"check", "sleep"}
  <2>1. path[t] # <<>> /\ Last(path[t]).state = at[t] /\ Ascending(path[t])
    BY <1>0, <1>2 DEF Fits
  <2>2. at[t] \in States
    BY <1>0, <2>1, Largest
  <2> DEFINE n == Len(path[t])
  <2>n. n \in Nat \ {0} /\ DOMAIN path[t] = 1 .. n /\ path[t][n] = Last(path[t])
    BY <1>0, <2>1, Popped
  <2>3. n \in DOMAIN path[t] /\ path[t][n] = Last(path[t])
    BY <2>n
  <2>4. Holds(pc[t], at[t], path[t], at[t])
    BY <2>1, <2>3 DEF Holds
  <2> QED
    BY <1>0, <2>2, <2>4
<1> QED
  BY <1>1, <1>2

LEMMA LookedMoves ==
  ASSUME Base, NEW t \in Threads, NEW place, NEW a, NEW c, NEW held, NEW r,
         Moves(t, place, a, c, held, r), UNCHANGED outcome, Looked(place, a)
  PROVE LookedInv'
<1> SUFFICES ASSUME NEW u \in Threads PROVE Looked(pc[u], at[u])'
  BY DEF LookedInv
<1>1. CASE u = t
  BY <1>1 DEF Moves, Looked, Ready
<1>2. CASE u # t
  <2>1. Looked(pc[u], at[u])
    BY DEF Base, LookedInv
  <2>2. at'[u] = at[u] /\ (pc'[u] = pc[u] \/ pc'[u] = "get")
    BY <1>2 DEF Moves
  <2> QED
    BY <2>1, <2>2 DEF Looked, Ready
<1> QED
  BY <1>1, <1>2

\* A continuation that waits stays in the hands of its thread, or is run or displaced.
Passes(t, place, c, r) ==
  /\ pc[t] \in Placing => (place \in Placing /\ c = cont[t]) \/ cont[t] \in started' \cup displaced'
  /\ \A k \in DOMAIN rest[t] :
       (\E l \in DOMAIN r : r[l] = rest[t][k]) \/ (place = "then" /\ c = rest[t][k])
  /\ pc[t] = "run" =>
       continuation[at[t]] = NoContinuation \/ (place = "start" /\ c = continuation[at[t]])

LEMMA PendingMoves ==
  ASSUME Base, NEW t \in Threads, NEW place, NEW a, NEW c, NEW held, NEW r,
         Moves(t, place, a, c, held, r), UNCHANGED <<continuation, outcome>>,
         started \subseteq started', displaced \subseteq displaced',
         Passes(t, place, c, r),
         NEW d \in attached, d.from \in States, d \in started \cup displaced \/ Pending(d)
  PROVE d \in started' \cup displaced' \/ Pending(d)'
<1>0. d # NoContinuation /\ d \in Continuations
  BY DEF Base, TypeOK, Continuations, NoContinuation, Kinds
<1>m. /\ pc'[t] = place /\ cont'[t] = c /\ rest'[t] = r
      /\ \A u \in Threads \ {t} :
           /\ at'[u] = at[u] /\ cont'[u] = cont[u] /\ rest'[u] = rest[u]
           /\ pc'[u] = pc[u] \/ (pc[u] = "asleep" /\ pc'[u] = "get")
  BY DEF Moves
<1>1. CASE d \in started \cup displaced
  BY <1>1
<1>2. ASSUME NEW u \in Threads, pc[u] \in Placing, cont[u] = d
      PROVE d \in started' \cup displaced' \/ Pending(d)'
  <2>1. CASE u = t
    BY <1>2, <1>m, <2>1 DEF Passes, Pending, Placing
  <2>2. CASE u # t
    BY <1>2, <1>m, <2>2 DEF Pending, Placing
  <2> QED
    BY <2>1, <2>2
<1>3. ASSUME NEW u \in Threads, NEW k \in DOMAIN rest[u], rest[u][k] = d
      PROVE Pending(d)'
  <2>1. CASE u = t
    <3>1. (\E l \in DOMAIN r : r[l] = d) \/ (place = "then" /\ c = d)
      BY <1>3, <2>1 DEF Passes
    <3> QED
      BY <1>m, <3>1 DEF Pending, Placing
  <2>2. CASE u # t
    BY <1>3, <1>m, <2>2 DEF Pending
  <2> QED
    BY <2>1, <2>2
<1>4. CASE continuation[d.from] = d /\ ~Ready(d.from)
  BY <1>4 DEF Pending, Ready
<1>5. ASSUME continuation[d.from] = d, NEW u \in Threads, pc[u] = "run", at[u] = d.from
      PROVE Pending(d)'
  <2>1. CASE u = t
    <3>1. place = "start" /\ c = d
      BY <1>0, <1>5, <2>1 DEF Passes
    <3> QED
      BY <1>m, <3>1 DEF Pending, Placing
  <2>2. CASE u # t
    BY <1>5, <1>m, <2>2 DEF Pending
  <2> QED
    BY <2>1, <2>2
<1> QED
  BY <1>1, <1>2, <1>3, <1>4, <1>5 DEF Pending, Placing

\* A thread takes over what it had, or what it is to run of the state it has set, and what
\* is over from now on it has no more.
Takes(t, place, c, r) ==
  /\ place # "run" /\ Apart(place, c, r)
  /\ \A d \in Owned(place, c, r) : d \in InHands(t) \/ (pc[t] = "run" /\ d = continuation[at[t]])
  /\ \A d \in Over' \ Over : d \in InHands(t) /\ d \notin Owned(place, c, r)

LEMMA OnceMoves ==
  ASSUME Base, OnceInv, NEW t \in Threads, NEW place, NEW a, NEW c, NEW held, NEW r,
         Moves(t, place, a, c, held, r), UNCHANGED <<continuation, outcome>>,
         Takes(t, place, c, r), NoContinuation \notin Owned(place, c, r)
  PROVE OnceInv'
<1>m. /\ pc'[t] = place /\ at'[t] = a /\ cont'[t] = c /\ rest'[t] = r
      /\ \A u \in Threads \ {t} :
           /\ at'[u] = at[u] /\ cont'[u] = cont[u] /\ rest'[u] = rest[u]
           /\ pc'[u] = pc[u] \/ (pc[u] = "asleep" /\ pc'[u] = "get")
  BY DEF Moves
<1>o. /\ \A u \in Threads : Apart(pc[u], cont[u], rest[u]) /\ InHands(u) \cap Over = {}
      /\ \A u, v \in Threads : u # v => InHands(u) \cap InHands(v) = {}
      /\ \A s \in States : Armed(s) =>
           continuation[s] \notin Over /\ \A u \in Threads : continuation[s] \notin InHands(u)
  BY DEF OnceInv
<1>1. InHands(t)' = Owned(place, c, r)
  BY <1>m DEF InHands, Owned
<1>2. \A u \in Threads \ {t} : InHands(u)' = InHands(u) /\ Apart(pc'[u], cont'[u], rest'[u])
  <2> SUFFICES ASSUME NEW u \in Threads \ {t}
               PROVE InHands(u)' = InHands(u) /\ Apart(pc'[u], cont'[u], rest'[u])
    OBVIOUS
  <2>1. pc'[u] \in Placing <=> pc[u] \in Placing
    BY <1>m DEF Placing
  <2>2. cont'[u] = cont[u] /\ rest'[u] = rest[u] /\ Apart(pc[u], cont[u], rest[u])
    BY <1>m, <1>o
  <2> QED
    BY <2>1, <2>2 DEF InHands, Owned, Apart
<1>3. pc[t] = "run" => Armed(at[t]) \/ continuation[at[t]] = NoContinuation
  BY DEF Armed
<1>r. pc[t] = "run" => at[t] \in States /\ Ready(at[t])
  BY HoldsItsOwn DEF Base, LookedInv, Looked
<1>4. NoContinuation \notin Owned(place, c, r)
  OBVIOUS
<1>5. \A d \in Owned(place, c, r) :
        d \notin Over /\ \A u \in Threads \ {t} : d \notin InHands(u)
  BY <1>o, <1>3, <1>4, <1>r DEF Takes
<1>6. \A d \in Over' : d \in Over \/ (d \in InHands(t) /\ d \notin Owned(place, c, r))
  BY DEF Takes
<1>7. \A u \in Threads : InHands(u)' \cap Over' = {}
  BY <1>1, <1>2, <1>5, <1>6, <1>o
<1>8. \A u, v \in Threads : u # v => InHands(u)' \cap InHands(v)' = {}
  BY <1>1, <1>2, <1>5, <1>o
<1>9. ASSUME NEW s \in States, Armed(s)'
      PROVE Armed(s) /\ ~(pc[t] = "run" /\ at[t] = s)
  <2>1. continuation[s] # NoContinuation /\ (Ready(s) => \E u \in Threads : pc'[u] = "run" /\ at'[u] = s)
    BY <1>9 DEF Armed, Ready
  <2>2. \A u \in Threads : pc'[u] = "run" => u # t /\ pc[u] = "run" /\ at[u] = at'[u]
    BY <1>m DEF Takes
  <2>3. \A u \in Threads : pc[u] = "run" => owner[at[u]] = u
    BY HoldsItsOwn
  <2> QED
    BY <1>r, <2>1, <2>2, <2>3 DEF Armed
<1>10. ASSUME NEW s \in States, Armed(s)'
       PROVE continuation'[s] \notin Over' /\ \A u \in Threads : continuation'[s] \notin InHands(u)'
  <2>1. /\ continuation[s] \notin Over /\ \A u \in Threads : continuation[s] \notin InHands(u)
        /\ ~(pc[t] = "run" /\ at[t] = s) /\ continuation[s] # NoContinuation
    BY <1>9, <1>10, <1>o DEF Armed
  <2>2. pc[t] = "run" => continuation[at[t]] # continuation[s]
    <3>1. \A x \in States : continuation[x] # NoContinuation => continuation[x].from = x
      BY DEF Base, StoredInv
    <3> QED
      BY <1>r, <2>1, <3>1
  <2>3. continuation[s] \notin Owned(place, c, r)
    BY <2>1, <2>2 DEF Takes
  <2> QED
    BY <1>1, <1>2, <1>6, <2>1, <2>3
<1>11. \A u \in Threads : Apart(pc'[u], cont'[u], rest'[u])
  BY <1>2, <1>m DEF Takes
<1> QED
  BY <1>7, <1>8, <1>10, <1>11 DEF OnceInv

\* Nothing taken, nothing over.
LEMMA TakesNone ==
  ASSUME OnceInv, NEW t \in Threads, NEW place, NEW c, UNCHANGED <<started, displaced>>,
         place # "run", place \in Placing => pc[t] \in Placing /\ c = cont[t]
  PROVE Takes(t, place, c, rest[t])
<1>1. Apart(pc[t], cont[t], rest[t]) /\ Over' = Over
  BY DEF OnceInv, Over
<1>2. Apart(place, c, rest[t])
  BY <1>1 DEF Apart
<1>3. \A d \in Owned(place, c, rest[t]) : d \in InHands(t)
  BY DEF Owned, InHands
<1> QED
  BY <1>1, <1>2, <1>3 DEF Takes

\* All parts at once, for a step of one thread that changes no shared state but mutexes.
LEMMA StepOf ==
  ASSUME IInv, TypeOK', StoredInv', HeldInv', AsleepInv',
         NEW t \in Threads, NEW place, NEW a, NEW c, NEW held, NEW r,
         Moves(t, place, a, c, held, r), Alone(t),
         UNCHANGED <<continuation, outcome, attached>>,
         \A s \in States : Ready(s) => sleepers'[s] \subseteq sleepers[s],
         started \subseteq started', displaced \subseteq displaced',
         Fits(place, a, c, held, r, attached), Looked(place, a), Keeps(t, place, a, held),
         Passes(t, place, c, r), Takes(t, place, c, r)
  PROVE IInv'
<1>0. Base /\ WakeInv /\ PendingInv /\ OnceInv
  BY DEF IInv
<1>1. NestInv' /\ LookedInv'
  BY <1>0, NestMoves, LookedMoves
<1>2. WakeInv'
  BY <1>0, WakeStays
<1>3. OnceInv'
  <2>1. NoContinuation \notin Owned(place, c, r)
    BY Nothing DEF Fits, Attachable, Owned
  <2> QED
    BY <1>0, <2>1, OnceMoves
<1>4. PendingInv'
  BY <1>0, PendingMoves DEF PendingInv
<1> QED
  BY <1>1, <1>2, <1>3, <1>4 DEF IInv, Base

-----------------------------------------------------------------------------
(* The steps of one thread that change no state but its mutex.               *)

\* An idle thread begins a call or takes a task.
LEMMA FromIdle ==
  ASSUME IInv, TypeOK', NEW t \in Threads, pc[t] = "idle", NEW place, NEW a, NEW c,
         Moves(t, place, a, c, <<>>, <<>>), Alone(t), UNCHANGED Kept, UNCHANGED attached,
         \A k \in DOMAIN tasks' : WellFormed(tasks'[k]),
         \/ place \in {"set", "get"} /\ a \in States /\ c = NoContinuation
         \/ place = "func" /\ WellFormed(c)
  PROVE IInv'
<1>0. Base /\ UNCHANGED <<outcome, continuation, owner, sleepers, completed, started, displaced>>
  BY DEF IInv, Kept
<1>1. path[t] = <<>> /\ rest[t] = <<>>
  BY <1>0, AtIts DEF Fits
<1>2. StoredInv'
  BY <1>0 DEF Base, StoredInv
<1>3. HeldInv'
  BY <1>0, HeldStays, Nothing DEF Holds
<1>4. AsleepInv'
  BY <1>0, AsleepStays
<1>5. Fits(place, a, c, <<>>, <<>>, attached)
  BY Nothing DEF Fits, Ascending, UpTo, Waiting, Placing
<1>6. Keeps(t, place, a, <<>>) /\ Passes(t, place, c, <<>>)
  BY <1>1, Nothing DEF Keeps, Passes, Placing
<1>7. Takes(t, place, c, <<>>) /\ Looked(place, a)
  <2>1. Takes(t, place, c, rest[t])
    BY <1>0, TakesNone DEF IInv, Placing
  <2> QED
    BY <1>1, <2>1 DEF Looked
<1> QED
  BY <1>0, <1>2, <1>3, <1>4, <1>5, <1>6, <1>7, StepOf

\* A thread locks the state its call is on to set it or to attach to it.
LEMMA ToLocked ==
  ASSUME IInv, NEW t \in Threads, LockToSet(t) \/ LockToAttach(t)
  PROVE IInv'
<1> DEFINE to     == IF pc[t] = "set" THEN "look" ELSE "attach"
           notify == pc[t] = "set"
           f      == [state |-> at[t], notify |-> notify]
<1>0. Base /\ TypeOK /\ Fits(pc[t], at[t], cont[t], path[t], rest[t], attached)
  BY AtIts DEF IInv
<1>1. Enter(t, pc[t], to, notify) /\ pc[t] \in {"set", "then"}
  BY DEF LockToSet, LockToAttach, Enter, Lock, Goto
<1>2. at[t] \in States /\ \A k \in DOMAIN path[t] : path[t][k].state < at[t]
  BY <1>0, <1>1, Nothing DEF Fits, Placing
<1>3. to \in InCall /\ notify \in BOOLEAN
  BY DEF InCall
<1> HIDE DEF to
<1>4. /\ TypeOK' /\ path[t] \in Seq(Frames) /\ f \in Frames
      /\ Moves(t, to, at[t], cont[t], Append(path[t], f), rest[t]) /\ Alone(t)
      /\ owner[at[t]] = NoThread /\ owner' = [owner EXCEPT ![at[t]] = t]
      /\ UNCHANGED <<outcome, continuation, sleepers, tasks, completed, attached, started, displaced>>
  BY <1>0, <1>1, <1>2, <1>3, Entered
<1>f. f.state = at[t] /\ f.notify = notify
  OBVIOUS
<1> HIDE DEF f
<1>5. /\ Append(path[t], f) # <<>> /\ Last(Append(path[t], f)) = f
      /\ DOMAIN Append(path[t], f) = 1 .. Len(path[t]) + 1 /\ Append(path[t], f)[Len(path[t]) + 1] = f
      /\ Len(path[t]) \in Nat /\ DOMAIN path[t] = 1 .. Len(path[t])
      /\ \A k \in DOMAIN path[t] : Append(path[t], f)[k] = path[t][k]
  BY <1>4, Pushed
<1>d. /\ \A k \in DOMAIN path[t] : k \in DOMAIN Append(path[t], f)
      /\ \A k \in DOMAIN Append(path[t], f) : k \in DOMAIN path[t] \/ k = Len(path[t]) + 1
  <2> DEFINE n == Len(path[t])
  <2>1. n \in Nat
    BY <1>5
  <2>2. (\A k \in 1 .. n : k \in 1 .. n + 1) /\ (\A k \in 1 .. n + 1 : k \in 1 .. n \/ k = n + 1)
    BY <2>1
  <2> QED
    BY <1>5, <2>2
<1>6. Ascending(Append(path[t], f))
  BY <1>0, <1>2, <1>4, <1>f, PushedAscends DEF Fits
<1>t. (pc[t] = "set" /\ to = "look" /\ f.notify) \/ (pc[t] = "then" /\ to = "attach")
  BY <1>1, <1>f DEF to
<1>7. Fits(to, at[t], cont[t], Append(path[t], f), rest[t], attached)
  BY <1>0, <1>5, <1>6, <1>f, <1>t DEF Fits, Waiting, Placing
<1>8. StoredInv'
  BY <1>0, <1>4 DEF Base, StoredInv
<1>9. HeldInv'
  <2>1. \A s \in States : Holds(to, at[t], Append(path[t], f), s) =>
          s = at[t] \/ Holds(pc[t], at[t], path[t], s)
    BY <1>5, <1>d, <1>f, <1>t DEF Holds
  <2> QED
    BY <1>0, <1>2, <1>4, <2>1, HeldTakes
<1>10. AsleepInv'
  BY <1>0, <1>4, <1>t, AsleepStays
<1>11. Keeps(t, to, at[t], Append(path[t], f))
  <2> SUFFICES ASSUME NEW k \in DOMAIN path[t]
               PROVE Append(path[t], f)[k] = path[t][k] /\ at[t] # path[t][k].state
    BY <1>d DEF Keeps
  <2>1. path[t][k].state < at[t] /\ at[t] \in Int
    BY <1>2 DEF States
  <2> QED
    BY <1>5, <2>1
<1>12. Passes(t, to, cont[t], rest[t])
  BY <1>t DEF Passes, Placing
<1>13. Takes(t, to, cont[t], rest[t]) /\ Looked(to, at[t])
  BY <1>4, <1>t, TakesNone DEF IInv, Placing, Looked
<1> QED
  BY <1>4, <1>7, <1>8, <1>9, <1>10, <1>11, <1>12, <1>13, StepOf

\* A thread goes on and holds what it held.
LEMMA Onward ==
  ASSUME IInv, TypeOK', NEW t \in Threads, NEW place, NEW a, NEW c,
         Moves(t, place, a, c, path[t], rest[t]), Alone(t), pc[t] # "asleep",
         place # "look", place \in {"check", "sleep"} => pc[t] \in {"check", "sleep"} /\ a = at[t],
         UNCHANGED <<outcome, continuation, owner, sleepers, attached, displaced>>,
         \A k \in DOMAIN tasks' : WellFormed(tasks'[k]),
         started \subseteq started',
         Fits(place, a, c, path[t], rest[t], attached), Looked(place, a),
         pc[t] \in Placing => (place \in Placing /\ c = cont[t]) \/ cont[t] \in started' \cup displaced',
         pc[t] = "run" =>
           continuation[at[t]] = NoContinuation \/ (place = "start" /\ c = continuation[at[t]]),
         Takes(t, place, c, rest[t])
  PROVE IInv'
<1>0. Base
  BY DEF IInv
<1>1. StoredInv'
  BY <1>0 DEF Base, StoredInv
<1>2. HeldInv'
  BY <1>0, HeldStays DEF Holds
<1>3. AsleepInv'
  BY <1>0, AsleepStays
<1>4. Keeps(t, place, a, path[t]) /\ Passes(t, place, c, rest[t])
  BY DEF Keeps, Passes
<1> QED
  BY <1>1, <1>2, <1>3, <1>4, StepOf

\* A thread goes on with the same call and continuation.
LEMMA GoesOn ==
  ASSUME IInv, NEW t \in Threads, NEW place \in InCall, pc' = [pc EXCEPT ![t] = place],
         UNCHANGED <<made, shared, tasks, completed, local, path, history>>,
         pc[t] \notin {"asleep", "run", "idle"}, place \notin {"look", "run"},
         place \in {"check", "sleep"} => pc[t] \in {"check", "sleep"},
         place \in Placing <=> pc[t] \in Placing,
         Fits(place, at[t], cont[t], path[t], rest[t], attached), Looked(place, at[t])
  PROVE IInv'
<1>0. Base /\ TypeOK /\ OnceInv
  BY DEF IInv, Base
<1>1. UNCHANGED <<used, promises, attached, calls, outcome, continuation, owner, sleepers, tasks,
                  completed, at, result, cont, patience, rest, path, started, displaced>>
  BY DEF made, shared, local, history
<1>2. TypeOK'
  BY <1>0, <1>1 DEF TypeOK
<1>3. Moves(t, place, at[t], cont[t], path[t], rest[t]) /\ Alone(t)
  BY <1>0, <1>1 DEF TypeOK, Moves, Alone
<1>4. \A k \in DOMAIN tasks' : WellFormed(tasks'[k])
  BY <1>0, <1>1 DEF Base, StoredInv
<1>5. Takes(t, place, cont[t], rest[t])
  BY <1>0, <1>1, TakesNone
<1> QED
  BY <1>1, <1>2, <1>3, <1>4, <1>5, Onward

\* A promise is not set yet.
LEMMA AcceptStep ==
  ASSUME IInv, NEW t \in Threads, Accept(t)
  PROVE IInv'
<1>0. Fits(pc[t], at[t], cont[t], path[t], rest[t], attached)
  BY AtIts DEF IInv
<1>1. /\ pc[t] = "look" /\ pc' = [pc EXCEPT ![t] = "store"] /\ ~Ready(at[t])
      /\ UNCHANGED <<made, shared, tasks, completed, local, path, history>>
  BY DEF Accept, Goto
<1>2. Fits("store", at[t], cont[t], path[t], rest[t], attached) /\ Looked("store", at[t])
  BY <1>0, <1>1 DEF Fits, Waiting, Placing, Looked
<1> QED
  BY <1>1, <1>2, GoesOn DEF Placing, InCall

LEMMA AttachUnreadyStep ==
  ASSUME IInv, NEW t \in Threads, AttachUnready(t)
  PROVE IInv'
<1>0. Fits(pc[t], at[t], cont[t], path[t], rest[t], attached)
  BY AtIts DEF IInv
<1>1. /\ pc[t] = "attach" /\ pc' = [pc EXCEPT ![t] = "keep"] /\ ~Ready(at[t])
      /\ UNCHANGED <<made, shared, tasks, completed, local, path, history>>
  BY DEF AttachUnready, Goto
<1>2. Fits("keep", at[t], cont[t], path[t], rest[t], attached) /\ Looked("keep", at[t])
  BY <1>0, <1>1 DEF Fits, Waiting, Placing, Looked
<1> QED
  BY <1>1, <1>2, GoesOn DEF Placing, InCall

LEMMA AttachReadyStep ==
  ASSUME IInv, NEW t \in Threads, AttachReady(t)
  PROVE IInv'
<1>0. Fits(pc[t], at[t], cont[t], path[t], rest[t], attached)
  BY AtIts DEF IInv
<1>1. /\ pc[t] = "attach" /\ pc' = [pc EXCEPT ![t] = "start"]
      /\ UNCHANGED <<made, shared, tasks, completed, local, path, history>>
  BY DEF AttachReady, Goto
<1>2. Fits("start", at[t], cont[t], path[t], rest[t], attached) /\ Looked("start", at[t])
  BY <1>0, <1>1 DEF Fits, Waiting, Placing, Looked
<1> QED
  BY <1>1, <1>2, GoesOn DEF Placing, InCall

LEMMA GetMustWaitStep ==
  ASSUME IInv, NEW t \in Threads, GetMustWait(t)
  PROVE IInv'
<1>0. Fits(pc[t], at[t], cont[t], path[t], rest[t], attached)
  BY AtIts DEF IInv
<1>1. /\ pc[t] = "check" /\ pc' = [pc EXCEPT ![t] = "sleep"] /\ ~Ready(at[t])
      /\ UNCHANGED <<made, shared, tasks, completed, local, path, history>>
  BY DEF GetMustWait, Goto
<1>2. Fits("sleep", at[t], cont[t], path[t], rest[t], attached) /\ Looked("sleep", at[t])
  BY <1>0, <1>1 DEF Fits, Waiting, Placing, Looked
<1> QED
  BY <1>1, <1>2, GoesOn DEF Placing, InCall

LEMMA RunContinuationStep ==
  ASSUME IInv, NEW t \in Threads, RunContinuation(t)
  PROVE IInv'
<1> DEFINE c     == continuation[at[t]]
           place == IF c = NoContinuation THEN "unwind" ELSE "start"
<1>0. Base /\ TypeOK /\ Fits(pc[t], at[t], cont[t], path[t], rest[t], attached) /\ path[t] \in Seq(Frames)
  BY AtIts DEF IInv
<1>1. /\ pc[t] = "run" /\ pc' = [pc EXCEPT ![t] = place] /\ cont' = [cont EXCEPT ![t] = c]
      /\ UNCHANGED <<used, promises, attached, calls, outcome, continuation, owner, sleepers, tasks,
                     completed, at, result, patience, rest, path, started, displaced>>
  BY DEF RunContinuation, Goto, made, shared, history
<1>2. path[t] # <<>> /\ Last(path[t]).state = at[t] /\ Ascending(path[t])
  BY <1>0, <1>1 DEF Fits
<1>3. at[t] \in States
  BY <1>0, <1>2, Largest
<1>4. c # NoContinuation => Attachable(c, attached) /\ c.from = at[t]
  BY <1>0, <1>3 DEF Base, StoredInv
<1>5. c \in Continuations \cup {NoContinuation} /\ place \in InCall
  BY <1>0, <1>3 DEF TypeOK, InCall
<1>6. Fits(place, at[t], c, path[t], rest[t], attached)
  BY <1>0, <1>1, <1>2, <1>4 DEF Fits, Waiting, Placing, Attachable
<1>7. /\ c = NoContinuation \/ place = "start"
      /\ place \in {"unwind", "start"}
  OBVIOUS
<1> HIDE DEF c, place
<1>8. TypeOK'
  BY <1>0, <1>1, <1>5 DEF TypeOK
<1>9. Moves(t, place, at[t], c, path[t], rest[t]) /\ Alone(t)
  BY <1>0, <1>1 DEF TypeOK, Moves, Alone
<1>10. \A k \in DOMAIN tasks' : WellFormed(tasks'[k])
  BY <1>0, <1>1 DEF Base, StoredInv
<1>11. c = continuation[at[t]]
  BY DEF c
<1>12. Looked(place, at[t])
  BY <1>7 DEF Looked
<1>13. Takes(t, place, c, rest[t])
  <2>1. OnceInv /\ Over' = Over
    BY <1>1 DEF IInv, Over
  <2>2. c # NoContinuation => Armed(at[t])
    BY <1>1, <1>11 DEF Armed
  <2>3. Apart(pc[t], cont[t], rest[t]) /\ (c # NoContinuation => c \notin InHands(t))
    BY <1>3, <1>11, <2>1, <2>2 DEF OnceInv
  <2>4. place \in Placing => c # NoContinuation
    BY <1>7 DEF place, Placing
  <2>5. Apart(place, c, rest[t])
    BY <2>3, <2>4 DEF Apart, InHands, Owned
  <2>6. \A d \in Owned(place, c, rest[t]) : d \in InHands(t) \/ d = continuation[at[t]]
    BY <1>11 DEF Owned, InHands
  <2> QED
    BY <1>1, <1>7, <2>1, <2>5, <2>6 DEF Takes
<1> QED
  BY <1>1, <1>6, <1>7, <1>8, <1>9, <1>10, <1>11, <1>12, <1>13, Onward DEF Placing

LEMMA StartStep ==
  ASSUME IInv, NEW t \in Threads, Start(t)
  PROVE IInv'
<1> DEFINE place == IF cont[t].queued THEN "unwind" ELSE "func"
<1>0. Base /\ TypeOK /\ Fits(pc[t], at[t], cont[t], path[t], rest[t], attached) /\ path[t] \in Seq(Frames)
  BY AtIts DEF IInv
<1>1. /\ pc[t] = "start" /\ pc' = [pc EXCEPT ![t] = place] /\ started' = started \cup {cont[t]}
      /\ tasks' = IF cont[t].queued THEN Append(tasks, cont[t]) ELSE tasks
      /\ UNCHANGED <<used, promises, attached, calls, outcome, continuation, owner, sleepers,
                     completed, at, result, cont, patience, rest, path, displaced>>
  BY DEF Start, Goto, made, shared, local
<1>2. /\ path[t] # <<>> /\ Last(path[t]).state = at[t] /\ Ascending(path[t])
      /\ Attachable(cont[t], attached) /\ cont[t].from = at[t]
  BY <1>0, <1>1 DEF Fits, Placing
<1>3. UpTo(path[t], at[t])
  BY <1>0, <1>2, Largest
<1>4. cont[t] \in Continuations /\ cont[t] # NoContinuation /\ WellFormed(cont[t]) /\ cont[t] \in attached
  BY <1>2, Nothing DEF Attachable, WellFormed
<1>5. tasks' \in Seq(Continuations) /\ \A k \in DOMAIN tasks' : WellFormed(tasks'[k])
  <2>0. tasks \in Seq(Continuations) /\ \A k \in DOMAIN tasks : WellFormed(tasks[k])
    BY <1>0 DEF Base, TypeOK, StoredInv
  <2>1. CASE cont[t].queued
    <3> DEFINE n == Len(tasks)
    <3>1. /\ tasks' \in Seq(Continuations) /\ DOMAIN tasks = 1 .. n /\ n \in Nat
          /\ DOMAIN tasks' = 1 .. n + 1 /\ tasks'[n + 1] = cont[t]
          /\ \A k \in DOMAIN tasks : tasks'[k] = tasks[k]
      BY <1>1, <1>4, <2>0, <2>1, Pushed
    <3>2. \A k \in 1 .. n + 1 : k \in 1 .. n \/ k = n + 1
      BY <3>1
    <3> QED
      BY <1>4, <2>0, <3>1, <3>2
  <2>2. CASE ~cont[t].queued
    BY <1>1, <2>0, <2>2
  <2> QED
    BY <2>1, <2>2
<1>6. place \in {"unwind", "func"}
  OBVIOUS
<1> HIDE DEF place
<1>7. TypeOK'
  BY <1>0, <1>1, <1>4, <1>5, <1>6 DEF TypeOK, InCall
<1>8. Moves(t, place, at[t], cont[t], path[t], rest[t]) /\ Alone(t)
  BY <1>0, <1>1 DEF TypeOK, Moves, Alone
<1>9. Fits(place, at[t], cont[t], path[t], rest[t], attached)
  BY <1>0, <1>2, <1>3, <1>4, <1>6 DEF Fits, Waiting, Placing
<1>10. /\ cont[t] \in started' \cup displaced' /\ started \subseteq started'
       /\ pc[t] # "asleep" /\ pc[t] # "run" /\ Looked(place, at[t])
  BY <1>1, <1>6 DEF Looked
<1>11. Takes(t, place, cont[t], rest[t])
  <2>1. Apart("start", cont[t], rest[t])
    BY <1>1 DEF IInv, OnceInv
  <2>2. \A d \in Over' \ Over : d = cont[t]
    BY <1>1 DEF Over
  <2>3. Owned(place, cont[t], rest[t]) = {rest[t][k] : k \in DOMAIN rest[t]}
    BY <1>6 DEF Owned, Placing
  <2>4. cont[t] \in InHands(t) /\ cont[t] \notin Owned(place, cont[t], rest[t])
    BY <1>1, <2>1, <2>3 DEF InHands, Owned, Placing, Apart
  <2>5. Apart(place, cont[t], rest[t])
    BY <1>6, <2>1 DEF Apart, Placing
  <2>6. \A d \in Owned(place, cont[t], rest[t]) : d \in InHands(t)
    BY <2>3 DEF InHands, Owned
  <2> QED
    BY <1>6, <2>2, <2>4, <2>5, <2>6 DEF Takes
<1> QED
  BY <1>1, <1>5, <1>6, <1>7, <1>8, <1>9, <1>10, <1>11, Onward

LEMMA FuncReturnsStep ==
  ASSUME IInv, NEW t \in Threads, FuncReturns(t)
  PROVE IInv'
<1>0. Base /\ TypeOK /\ Fits(pc[t], at[t], cont[t], path[t], rest[t], attached) /\ path[t] \in Seq(Frames)
  BY AtIts DEF IInv
<1>1. PICK o \in Outcomes :
        /\ cont[t].kind = "plain" /\ pc[t] = "func" /\ pc' = [pc EXCEPT ![t] = "set"]
        /\ result' = [result EXCEPT ![t] = o] /\ at' = [at EXCEPT ![t] = cont[t].target]
        /\ UNCHANGED <<used, promises, attached, calls, outcome, continuation, owner, sleepers, tasks,
                       completed, cont, patience, rest, path, started, displaced>>
  BY DEF FuncReturns, Goto, Fulfil, On, made, shared, history
<1>2. WellFormed(cont[t]) /\ UpTo(path[t], cont[t].from)
  BY <1>0, <1>1 DEF Fits
<1>3. cont[t].target \in States /\ cont[t].target \in 0 .. MaxStates
  BY <1>2, Nothing, ConstantsAssumption DEF States
<1>4. \A k \in DOMAIN path[t] : path[t][k].state < cont[t].target
  BY <1>0, <1>2, AscendsTo
<1>5. TypeOK'
  BY <1>0, <1>1, <1>3 DEF TypeOK, InCall
<1>6. Moves(t, "set", cont[t].target, cont[t], path[t], rest[t]) /\ Alone(t)
  BY <1>0, <1>1 DEF TypeOK, Moves, Alone
<1>7. Fits("set", cont[t].target, cont[t], path[t], rest[t], attached)
  BY <1>0, <1>2, <1>3, <1>4 DEF Fits, Waiting, Placing
<1>8. \A k \in DOMAIN tasks' : WellFormed(tasks'[k])
  BY <1>0, <1>1 DEF Base, StoredInv
<1>9. /\ pc[t] \notin Placing /\ pc[t] # "run" /\ pc[t] # "asleep"
      /\ "set" \notin {"look", "check", "sleep"} /\ started \subseteq started'
      /\ Looked("set", cont[t].target) /\ Takes(t, "set", cont[t], rest[t])
  BY <1>1, TakesNone DEF Placing, Looked, IInv
<1> QED
  BY <1>1, <1>5, <1>6, <1>7, <1>8, <1>9, Onward

LEMMA FuncGetsStep ==
  ASSUME IInv, NEW t \in Threads, FuncGets(t)
  PROVE IInv'
<1>0. Base /\ TypeOK /\ Fits(pc[t], at[t], cont[t], path[t], rest[t], attached)
  BY AtIts DEF IInv
<1>1. /\ pc[t] = "func" /\ pc' = [pc EXCEPT ![t] = "get"] /\ at' = [at EXCEPT ![t] = cont[t].from]
      /\ UNCHANGED <<used, promises, attached, calls, outcome, continuation, owner, sleepers, tasks,
                     result, cont, patience, rest, path, started, displaced>>
      /\ \/ cont[t].kind = "get" /\ completed' = completed
         \/ /\ cont[t].kind = "any" /\ cont[t].target \notin completed
            /\ completed' = completed \cup {cont[t].target}
  BY DEF FuncGets, Goto, On, made, shared, history
<1>2. cont[t] # NoContinuation /\ WellFormed(cont[t]) /\ UpTo(path[t], cont[t].from)
  BY <1>0, <1>1 DEF Fits
<1>3. /\ cont[t].target \in States /\ cont[t].from \in States /\ cont[t].from \in 0 .. MaxStates
      /\ cont[t].kind # "plain"
  BY <1>1, <1>2, Nothing, ConstantsAssumption DEF States, WellFormed, Continuations
<1>5. TypeOK'
  BY <1>0, <1>1, <1>3 DEF TypeOK, InCall
<1>6. Moves(t, "get", cont[t].from, cont[t], path[t], rest[t]) /\ Alone(t)
  BY <1>0, <1>1 DEF TypeOK, Moves, Alone
<1>7. Fits("get", cont[t].from, cont[t], path[t], rest[t], attached)
  BY <1>0, <1>2, <1>3 DEF Fits, Waiting, Placing
<1>8. \A k \in DOMAIN tasks' : WellFormed(tasks'[k])
  BY <1>0, <1>1 DEF Base, StoredInv
<1>9. /\ pc[t] \notin Placing /\ pc[t] # "run" /\ pc[t] # "asleep"
      /\ "get" \notin {"look", "check", "sleep"} /\ started \subseteq started'
      /\ Looked("get", cont[t].from) /\ Takes(t, "get", cont[t], rest[t])
  BY <1>1, TakesNone DEF Placing, Looked, IInv
<1> QED
  BY <1>1, <1>5, <1>6, <1>7, <1>8, <1>9, Onward

-----------------------------------------------------------------------------
(* The steps that end a call.                                                *)

\* Where a thread goes when a call is over, it fits, and no continuation is forgotten.
LEMMA Outward ==
  ASSUME Base, OnceInv, NEW t \in Threads, NEW held \in Seq(Frames), Ascending(held),
         pc[t] \notin Placing, pc[t] # "run", UNCHANGED <<started, displaced>>
  PROVE /\ Fits(Outside(t, held), NextAt(t, held), NextCont(t, held), held, NextRest(t, held), attached)
        /\ Passes(t, Outside(t, held), NextCont(t, held), NextRest(t, held))
        /\ Takes(t, Outside(t, held), NextCont(t, held), NextRest(t, held))
        /\ Outside(t, held) \in {"unwind", "then", "idle"}
<1>0. /\ TypeOK /\ Fits(pc[t], at[t], cont[t], path[t], rest[t], attached)
      /\ rest[t] \in Seq(Continuations)
  BY AtIts
<1>1. Outside(t, held) \in {"unwind", "then", "idle"}
  BY DEF Outside
<1>2. CASE More(t, held)
  <2>1. held = <<>> /\ rest[t] # <<>> /\ Outside(t, held) = "then"
    BY <1>2 DEF More, Outside
  <2>2. /\ NextAt(t, held) = Head(rest[t]).from /\ NextCont(t, held) = Head(rest[t])
        /\ NextRest(t, held) = Tail(rest[t])
    BY <1>2 DEF NextAt, NextCont, NextRest
  <2> DEFINE r == rest[t]
  <2>3. /\ 1 \in DOMAIN r /\ Head(r) = r[1]
        /\ \A k \in DOMAIN Tail(r) : k + 1 \in DOMAIN r /\ Tail(r)[k] = r[k + 1]
        /\ \A k \in DOMAIN r : k = 1 \/ (k - 1 \in DOMAIN Tail(r) /\ r[k] = Tail(r)[k - 1])
    BY <1>0, <2>1, Shifted
  <2>4. \A k \in DOMAIN r : Attachable(r[k], attached)
    BY <1>0 DEF Fits
  <2>u. \A j, k \in DOMAIN r : r[j] = r[k] => j = k
    BY DEF OnceInv, Apart
  <2>e. Over' = Over
    BY DEF Over
  <2> HIDE DEF r
  <2>5. Attachable(Head(r), attached) /\ \A k \in DOMAIN Tail(r) : Attachable(Tail(r)[k], attached)
    BY <2>3, <2>4
  <2>6. \A k \in DOMAIN r : (\E l \in DOMAIN Tail(r) : Tail(r)[l] = r[k]) \/ Head(r) = r[k]
    BY <2>3
  <2>7. Fits("then", Head(r).from, Head(r), <<>>, Tail(r), attached)
    BY <2>5, Nothing DEF Fits, Ascending, Waiting, Placing, Attachable
  <2>8. Passes(t, "then", Head(r), Tail(r))
    BY <2>6 DEF Passes, r
  <2>9. Takes(t, "then", Head(r), Tail(r))
    <3>3. Apart("then", Head(r), Tail(r))
      BY <1>0, <2>1, <2>u, TailApart DEF r
    <3>4. \A d \in Owned("then", Head(r), Tail(r)) : d \in {r[k] : k \in DOMAIN r}
      BY <2>3 DEF Owned
    <3>5. {r[k] : k \in DOMAIN r} \subseteq InHands(t)
      BY DEF InHands, Owned, r
    <3> QED
      BY <2>e, <3>3, <3>4, <3>5 DEF Takes
  <2> QED
    BY <1>1, <2>1, <2>2, <2>7, <2>8, <2>9 DEF r
<1>3. CASE ~More(t, held)
  <2>1. NextAt(t, held) = 0 /\ NextCont(t, held) = NoContinuation /\ NextRest(t, held) = rest[t]
    BY <1>3 DEF NextAt, NextCont, NextRest
  <2>2. (held # <<>> /\ Outside(t, held) = "unwind") \/ (held = <<>> /\ rest[t] = <<>> /\ Outside(t, held) = "idle")
    BY <1>3 DEF More, Outside
  <2>3. Fits(Outside(t, held), 0, NoContinuation, held, rest[t], attached)
    BY <1>0, <2>2 DEF Fits, Waiting, Placing
  <2>4. /\ Passes(t, Outside(t, held), NoContinuation, rest[t])
        /\ Takes(t, Outside(t, held), NoContinuation, rest[t])
    BY <2>2, TakesNone DEF Passes, Placing
  <2> QED
    BY <1>1, <2>1, <2>3, <2>4
<1> QED
  BY <1>2, <1>3

\* A call ends that holds nothing of its own any more: its thread holds what it held, but for
\* the state of the call, whose mutex it has unlocked.
LEMMA Ends ==
  ASSUME IInv, TypeOK', NEW t \in Threads, NEW held \in Seq(Frames), Ascending(held),
         pc[t] \notin Placing, pc[t] \notin {"run", "asleep"},
         Moves(t, Outside(t, held), NextAt(t, held), NextCont(t, held), held, NextRest(t, held)), Alone(t),
         UNCHANGED <<outcome, continuation, sleepers, attached, tasks, completed, started, displaced>>,
         HeldInv',
         \A k \in DOMAIN path[t] : path[t][k].notify /\ ~(pc[t] = "look" /\ at[t] = path[t][k].state) =>
            \E l \in DOMAIN held : held[l] = path[t][k]
  PROVE IInv'
<1> DEFINE place == Outside(t, held)
           a     == NextAt(t, held)
           c     == NextCont(t, held)
           r     == NextRest(t, held)
<1>0. Base /\ OnceInv
  BY DEF IInv
<1>1. /\ Fits(place, a, c, held, r, attached) /\ Passes(t, place, c, r) /\ Takes(t, place, c, r)
      /\ place \in {"unwind", "then", "idle"}
  BY <1>0, Outward
<1>2. Moves(t, place, a, c, held, r)
  OBVIOUS
<1>3. place # "look" /\ Looked(place, a)
  BY <1>1 DEF Looked
<1> HIDE DEF place, a, c, r
<1>4. StoredInv'
  BY <1>0 DEF Base, StoredInv
<1>5. AsleepInv'
  BY <1>0, <1>2, AsleepStays
<1>6. Keeps(t, place, a, held)
  BY <1>3 DEF Keeps
<1> QED
  BY <1>1, <1>2, <1>3, <1>4, <1>5, <1>6, StepOf

LEMMA FuncIsLateStep ==
  ASSUME IInv, NEW t \in Threads, FuncIsLate(t)
  PROVE IInv'
<1>0. /\ Base /\ TypeOK /\ Fits(pc[t], at[t], cont[t], path[t], rest[t], attached)
      /\ path[t] \in Seq(Frames) /\ Ascending(path[t])
  BY AtIts DEF IInv, Fits
<1>1. /\ pc[t] = "func" /\ pc' = [pc EXCEPT ![t] = Outside(t, path[t])] /\ Return(t, path[t])
      /\ UNCHANGED <<used, promises, attached, calls, outcome, continuation, owner, sleepers, tasks,
                     completed, started, displaced>>
  BY DEF FuncIsLate, Goto, made, shared, history
<1>2. TypeOK'
  BY <1>0, <1>1, Left, Returned DEF TypeOK, Frames
<1>3. /\ Moves(t, Outside(t, path[t]), NextAt(t, path[t]), NextCont(t, path[t]), path[t], NextRest(t, path[t]))
      /\ Alone(t)
  BY <1>0, <1>1, Left
<1>4. Outside(t, path[t]) \notin {"check", "sleep"}
  BY DEF Outside
<1>5. HeldInv'
  BY <1>0, <1>1, <1>3, <1>4, HeldStays DEF Holds
<1>6. pc[t] \notin Placing /\ pc[t] \notin {"run", "asleep"}
  BY <1>1 DEF Placing
<1> QED
  BY <1>0, <1>1, <1>2, <1>3, <1>5, <1>6, Ends

\* A client has its answer: it was in no other call.
LEMMA GetReturnsStep ==
  ASSUME IInv, NEW t \in Threads, GetReturns(t)
  PROVE IInv'
<1>0. /\ Base /\ TypeOK /\ Fits(pc[t], at[t], cont[t], path[t], rest[t], attached)
      /\ path[t] \in Seq(Frames) /\ Ascending(path[t])
  BY AtIts DEF IInv, Fits
<1>1. /\ pc[t] = "check" /\ cont[t] = NoContinuation /\ pc' = [pc EXCEPT ![t] = "idle"]
      /\ owner' = [owner EXCEPT ![at[t]] = NoThread] /\ Return(t, path[t])
      /\ UNCHANGED <<used, promises, attached, calls, outcome, continuation, sleepers, tasks,
                     completed, started, displaced>>
  BY DEF GetReturns, ReleaseFrom, made, history
<1>2. path[t] = <<>> /\ rest[t] = <<>> /\ at[t] \in States
  BY <1>0, <1>1 DEF Fits, Waiting, Placing
<1>3. Outside(t, path[t]) = "idle"
  BY <1>2 DEF Outside
<1>4. /\ Moves(t, Outside(t, path[t]), NextAt(t, path[t]), NextCont(t, path[t]), path[t], NextRest(t, path[t]))
      /\ Alone(t)
  BY <1>0, <1>1, <1>3, Left
<1>5. TypeOK'
  BY <1>0, <1>1, <1>3, Left, Returned DEF TypeOK, Frames
<1>6. HeldInv'
  <2>1. \A s \in States : ~Holds(Outside(t, path[t]), NextAt(t, path[t]), path[t], s)
    BY <1>2, <1>3, Nothing DEF Holds
  <2>2. Holds(pc[t], at[t], path[t], at[t])
    BY <1>1 DEF Holds
  <2> QED
    BY <1>0, <1>1, <1>2, <1>3, <1>4, <2>1, <2>2, HeldFrees
<1>7. pc[t] \notin Placing /\ pc[t] \notin {"run", "asleep"}
  BY <1>1 DEF Placing
<1> QED
  BY <1>0, <1>1, <1>4, <1>5, <1>6, <1>7, Ends

\* A promise is refused: nobody sleeps on it, or another thread will notify.
LEMMA RefuseStep ==
  ASSUME IInv, NEW t \in Threads, Refuse(t)
  PROVE IInv'
<1> DEFINE held == Front(path[t])
<1>0. /\ Base /\ TypeOK /\ Fits(pc[t], at[t], cont[t], path[t], rest[t], attached)
      /\ path[t] \in Seq(Frames) /\ Ascending(path[t])
  BY AtIts DEF IInv, Fits
<1>1. /\ pc[t] = "look" /\ pc' = [pc EXCEPT ![t] = Outside(t, held)]
      /\ owner' = [owner EXCEPT ![at[t]] = NoThread] /\ Return(t, held)
      /\ UNCHANGED <<used, promises, attached, calls, outcome, continuation, sleepers, tasks,
                     completed, started, displaced>>
  BY DEF Refuse, made, history
<1>2. path[t] # <<>> /\ Last(path[t]).state = at[t]
  BY <1>0, <1>1 DEF Fits
<1>3. /\ at[t] \in States /\ held \in Seq(Frames) /\ Ascending(held)
      /\ \A k \in DOMAIN held : held[k].state < at[t]
  BY <1>0, <1>2, Largest
<1>4. /\ DOMAIN path[t] = 1 .. Len(path[t]) /\ Last(path[t]) = path[t][Len(path[t])]
      /\ Len(path[t]) \in Nat \ {0} /\ DOMAIN held = 1 .. Len(path[t]) - 1
      /\ \A k \in DOMAIN held : k \in DOMAIN path[t] /\ held[k] = path[t][k]
  BY <1>0, <1>2, Popped
<1>k. \A k \in DOMAIN path[t] : k \in DOMAIN held \/ k = Len(path[t])
  <2> DEFINE n == Len(path[t])
  <2>1. n \in Nat \ {0} /\ \A k \in 1 .. n : k \in 1 .. n - 1 \/ k = n
    BY <1>4
  <2> QED
    BY <1>4, <2>1
<1> HIDE DEF held
<1>5. Moves(t, Outside(t, held), NextAt(t, held), NextCont(t, held), held, NextRest(t, held)) /\ Alone(t)
  BY <1>0, <1>1, <1>3, Left
<1>6. TypeOK'
  BY <1>0, <1>1, <1>3, Left, Returned DEF TypeOK, Frames
<1>7. HeldInv'
  <2>1. Outside(t, held) \notin {"check", "sleep"}
    BY DEF Outside
  <2>2. \A k \in DOMAIN held : held[k].state # at[t]
    <3> SUFFICES ASSUME NEW k \in DOMAIN held PROVE held[k].state # at[t]
      OBVIOUS
    <3>1. held[k].state < at[t] /\ at[t] \in Int
      BY <1>3 DEF States
    <3> QED
      BY <3>1
  <2>3. Holds(pc[t], at[t], path[t], at[t])
    <3>1. Len(path[t]) \in DOMAIN path[t] /\ path[t][Len(path[t])].state = at[t]
      BY <1>2, <1>4
    <3> QED
      BY <3>1 DEF Holds
  <2>4. \A s \in States : Holds(Outside(t, held), NextAt(t, held), held, s) =>
          s # at[t] /\ Holds(pc[t], at[t], path[t], s)
    BY <1>4, <2>1, <2>2 DEF Holds
  <2> QED
    BY <1>0, <1>1, <1>3, <1>5, <2>3, <2>4, HeldFrees
<1>8. ASSUME NEW k \in DOMAIN path[t], ~(pc[t] = "look" /\ at[t] = path[t][k].state)
      PROVE \E l \in DOMAIN held : held[l] = path[t][k]
  <2>1. k # Len(path[t])
    BY <1>1, <1>2, <1>4, <1>8
  <2> QED
    BY <1>4, <1>8, <1>k, <2>1
<1>9. pc[t] \notin Placing /\ pc[t] \notin {"run", "asleep"}
  BY <1>1 DEF Placing
<1> QED
  BY <1>1, <1>3, <1>5, <1>6, <1>7, <1>8, <1>9, Ends

-----------------------------------------------------------------------------
(* get and wait_for.                                                         *)

LEMMA LockToGetStep ==
  ASSUME IInv, NEW t \in Threads, LockToGet(t)
  PROVE IInv'
<1>0. Base /\ TypeOK /\ Fits(pc[t], at[t], cont[t], path[t], rest[t], attached)
  BY AtIts DEF IInv
<1>1. /\ pc[t] = "get" /\ pc' = [pc EXCEPT ![t] = "check"]
      /\ owner[at[t]] = NoThread /\ owner' = [owner EXCEPT ![at[t]] = t]
      /\ UNCHANGED <<used, promises, attached, calls, outcome, continuation, sleepers, tasks, completed,
                     at, result, cont, patience, rest, path, started, displaced>>
  BY DEF LockToGet, Lock, Goto, made, local, history
<1>2. at[t] \in States
  BY <1>0, <1>1 DEF Fits, Waiting, Placing
<1>3. TypeOK'
  BY <1>0, <1>1, <1>2 DEF TypeOK, InCall
<1>4. Moves(t, "check", at[t], cont[t], path[t], rest[t]) /\ Alone(t)
  BY <1>0, <1>1 DEF TypeOK, Moves, Alone
<1>5. \A k \in DOMAIN path[t] : path[t][k].state # at[t]
  BY <1>0, <1>1, <1>2, ConstantsAssumption DEF Base, HeldInv, Holds
<1>6. Fits("check", at[t], cont[t], path[t], rest[t], attached)
  BY <1>0, <1>1, <1>5 DEF Fits, Waiting, Placing
<1>7. HeldInv'
  <2>1. \A s \in States : Holds("check", at[t], path[t], s) => s = at[t] \/ Holds(pc[t], at[t], path[t], s)
    BY DEF Holds
  <2> QED
    BY <1>0, <1>1, <1>2, <1>4, <2>1, HeldTakes
<1>8. StoredInv' /\ AsleepInv'
  BY <1>0, <1>1, <1>4, AsleepStays DEF Base, StoredInv
<1>9. Keeps(t, "check", at[t], path[t]) /\ Passes(t, "check", cont[t], rest[t])
  BY <1>1 DEF Keeps, Passes, Placing
<1>10. Takes(t, "check", cont[t], rest[t]) /\ Looked("check", at[t])
  BY <1>1, TakesNone DEF IInv, Placing, Looked
<1> QED
  BY <1>1, <1>3, <1>4, <1>6, <1>7, <1>8, <1>9, <1>10, StepOf

\* A continuation that got an answer unlocks the state it asked.
LEMMA GetInFuncStep ==
  ASSUME IInv, NEW t \in Threads, GetInFunc(t)
  PROVE IInv'
<1> DEFINE a == cont[t].target
<1>0. /\ Base /\ TypeOK /\ Fits(pc[t], at[t], cont[t], path[t], rest[t], attached)
      /\ path[t] \in Seq(Frames)
  BY AtIts DEF IInv
<1>1. PICK o \in Outcomes :
        /\ pc[t] = "check" /\ pc' = [pc EXCEPT ![t] = "set"] /\ cont[t] # NoContinuation
        /\ owner' = [owner EXCEPT ![at[t]] = NoThread]
        /\ result' = [result EXCEPT ![t] = o] /\ at' = [at EXCEPT ![t] = cont[t].target]
        /\ UNCHANGED <<used, promises, attached, calls, outcome, continuation, sleepers, tasks,
                       completed, cont, patience, rest, path, started, displaced>>
  BY DEF GetInFunc, Goto, ReleaseFrom, Fulfil, On, made, history
<1>2. /\ at[t] \in States /\ WellFormed(cont[t]) /\ cont[t].from = at[t] /\ UpTo(path[t], cont[t].from)
      /\ \A k \in DOMAIN path[t] : path[t][k].state # at[t]
  BY <1>0, <1>1 DEF Fits, Waiting, Placing
<1>3. a \in States /\ a \in 0 .. MaxStates
  BY <1>2, Nothing, ConstantsAssumption DEF States
<1>4. \A k \in DOMAIN path[t] : path[t][k].state < a
  BY <1>0, <1>2, AscendsTo
<1>5. TypeOK'
  BY <1>0, <1>1, <1>3 DEF TypeOK, InCall
<1>6. Moves(t, "set", a, cont[t], path[t], rest[t]) /\ Alone(t)
  BY <1>0, <1>1 DEF TypeOK, Moves, Alone
<1>7. Fits("set", a, cont[t], path[t], rest[t], attached)
  BY <1>0, <1>2, <1>3, <1>4 DEF Fits, Waiting, Placing
<1> HIDE DEF a
<1>8. HeldInv'
  <2>1. \A s \in States : Holds("set", a, path[t], s) => s # at[t] /\ Holds(pc[t], at[t], path[t], s)
    BY <1>2 DEF Holds
  <2>2. Holds(pc[t], at[t], path[t], at[t])
    BY <1>1 DEF Holds
  <2>3. Base /\ at[t] \in States /\ owner' = [owner EXCEPT ![at[t]] = NoThread]
    BY <1>0, <1>1, <1>2
  <2> QED
    BY <1>6, <2>1, <2>2, <2>3, HeldFrees
<1>9. StoredInv' /\ AsleepInv'
  BY <1>0, <1>1, <1>6, AsleepStays DEF Base, StoredInv
<1>10. Keeps(t, "set", a, path[t]) /\ Passes(t, "set", cont[t], rest[t])
  BY <1>1 DEF Keeps, Passes, Placing
<1>11. Takes(t, "set", cont[t], rest[t]) /\ Looked("set", a)
  BY <1>1, TakesNone DEF IInv, Placing, Looked
<1> QED
  BY <1>1, <1>5, <1>6, <1>7, <1>8, <1>9, <1>10, <1>11, StepOf

\* A thread sleeps on a state that is not ready, and unlocks it in the same step.
LEMMA GetSleepsStep ==
  ASSUME IInv, NEW t \in Threads, GetSleeps(t)
  PROVE IInv'
<1>0. /\ Base /\ TypeOK /\ Fits(pc[t], at[t], cont[t], path[t], rest[t], attached)
  BY AtIts DEF IInv
<1>1. /\ pc[t] = "sleep" /\ pc' = [pc EXCEPT ![t] = "asleep"]
      /\ owner' = [owner EXCEPT ![at[t]] = NoThread]
      /\ sleepers' = [sleepers EXCEPT ![at[t]] = @ \cup {t}]
      /\ UNCHANGED <<used, promises, attached, calls, outcome, continuation, tasks, completed,
                     at, result, cont, patience, rest, path, started, displaced>>
  BY DEF GetSleeps, Goto, ReleaseFrom, made, local, history
<1>u. ~Ready(at[t])
  BY <1>0, <1>1 DEF Base, LookedInv, Looked
<1>2. /\ at[t] \in States
      /\ \A k \in DOMAIN path[t] : path[t][k].state # at[t]
  BY <1>0, <1>1 DEF Fits, Waiting, Placing
<1>3. TypeOK'
  BY <1>0, <1>1, <1>2 DEF TypeOK, InCall
<1>4. Moves(t, "asleep", at[t], cont[t], path[t], rest[t]) /\ Alone(t)
  BY <1>0, <1>1 DEF TypeOK, Moves, Alone
<1>5. Fits("asleep", at[t], cont[t], path[t], rest[t], attached)
  BY <1>0, <1>1 DEF Fits, Waiting, Placing
<1>6. HeldInv'
  <2>1. \A s \in States :
          Holds("asleep", at[t], path[t], s) => s # at[t] /\ Holds(pc[t], at[t], path[t], s)
    BY <1>2 DEF Holds
  <2>2. Holds(pc[t], at[t], path[t], at[t])
    BY <1>1 DEF Holds
  <2> QED
    BY <1>0, <1>1, <1>2, <1>4, <2>1, <2>2, HeldFrees
<1>s. \A s \in States : sleepers'[s] = IF s = at[t] THEN sleepers[s] \cup {t} ELSE sleepers[s]
  BY <1>0, <1>1 DEF TypeOK
<1>7. AsleepInv'
  <2> SUFFICES ASSUME NEW s \in States, NEW u \in sleepers'[s] PROVE pc'[u] = "asleep" /\ at'[u] = s
    BY DEF AsleepInv
  <2>1. CASE u = t /\ s = at[t]
    BY <1>0, <1>1, <2>1 DEF TypeOK
  <2>2. CASE u \in sleepers[s]
    <3>1. pc[u] = "asleep" /\ at[u] = s /\ u # t /\ u \in Threads
      BY <1>0, <1>1, <2>2 DEF Base, AsleepInv, TypeOK
    <3> QED
      BY <1>4, <3>1 DEF Moves, Alone
  <2> QED
    BY <1>s, <2>1, <2>2
<1>8. StoredInv'
  BY <1>0, <1>1 DEF Base, StoredInv
<1>9. Keeps(t, "asleep", at[t], path[t]) /\ Passes(t, "asleep", cont[t], rest[t])
  BY <1>1 DEF Keeps, Passes, Placing
<1>10. Takes(t, "asleep", cont[t], rest[t]) /\ Looked("asleep", at[t])
  BY <1>1, TakesNone DEF IInv, Placing, Looked
<1>11. \A s \in States : Ready(s) => sleepers'[s] \subseteq sleepers[s]
  BY <1>u, <1>s
<1> QED
  BY <1>1, <1>3, <1>4, <1>5, <1>6, <1>7, <1>8, <1>9, <1>10, <1>11, StepOf

LEMMA WakeStep ==
  ASSUME IInv, NEW t \in Threads, Wake(t)
  PROVE IInv'
<1>0. Base /\ TypeOK /\ Fits(pc[t], at[t], cont[t], path[t], rest[t], attached)
  BY AtIts DEF IInv
<1>1. /\ pc[t] = "asleep" /\ pc' = [pc EXCEPT ![t] = "get"]
      /\ sleepers' = [sleepers EXCEPT ![at[t]] = @ \ {t}]
      /\ patience' \in [Threads -> {"forever", "timed", "expired"}]
      /\ UNCHANGED <<used, promises, attached, calls, outcome, continuation, owner, tasks, completed,
                     at, result, cont, rest, path, started, displaced>>
  <2>1. LeaveSleep(t) /\ (UNCHANGED patience \/ patience' = [patience EXCEPT ![t] = "expired"])
    BY DEF Wake, WakeSpuriously, TimeOut
  <2>2. patience' \in [Threads -> {"forever", "timed", "expired"}]
    BY <1>0, <2>1 DEF TypeOK
  <2> QED
    BY <2>1, <2>2 DEF LeaveSleep, Goto, made, history
<1>2. at[t] \in States
  BY <1>0, <1>1 DEF Fits, Waiting, Placing
<1>3. TypeOK'
  BY <1>0, <1>1, <1>2 DEF TypeOK, InCall
<1>4. Moves(t, "get", at[t], cont[t], path[t], rest[t]) /\ Alone(t)
  BY <1>0, <1>1 DEF TypeOK, Moves, Alone
<1>5. Fits("get", at[t], cont[t], path[t], rest[t], attached)
  BY <1>0, <1>1 DEF Fits, Waiting, Placing
<1>6. HeldInv'
  <2>1. \A s \in States : Holds("get", at[t], path[t], s) => Holds(pc[t], at[t], path[t], s)
    BY DEF Holds
  <2> QED
    BY <1>0, <1>1, <1>4, <2>1, HeldStays
<1>s. \A s \in States : sleepers'[s] = IF s = at[t] THEN sleepers[s] \ {t} ELSE sleepers[s]
  BY <1>0, <1>1 DEF TypeOK
<1>7. AsleepInv'
  <2> SUFFICES ASSUME NEW s \in States, NEW u \in sleepers'[s] PROVE pc'[u] = "asleep" /\ at'[u] = s
    BY DEF AsleepInv
  <2>0. u \in sleepers[s]
    BY <1>s
  <2>1. pc[u] = "asleep" /\ at[u] = s /\ u \in Threads
    BY <1>0, <2>0 DEF Base, AsleepInv, TypeOK
  <2>2. u # t
    BY <1>s, <2>1
  <2> QED
    BY <1>4, <2>1, <2>2 DEF Moves, Alone
<1>8. StoredInv'
  BY <1>0, <1>1 DEF Base, StoredInv
<1>9. Keeps(t, "get", at[t], path[t]) /\ Passes(t, "get", cont[t], rest[t])
  BY <1>1 DEF Keeps, Passes, Placing
<1>10. /\ Takes(t, "get", cont[t], rest[t]) /\ Looked("get", at[t])
       /\ \A s \in States : sleepers'[s] \subseteq sleepers[s]
  BY <1>1, <1>s, TakesNone DEF IInv, Placing, Looked
<1> QED
  BY <1>1, <1>3, <1>4, <1>5, <1>6, <1>7, <1>8, <1>9, <1>10, StepOf

-----------------------------------------------------------------------------
(* The steps that change a state, and the one that wakes others.             *)

\* Who stores the outcome will notify.
LEMMA StoreStep ==
  ASSUME IInv, ResultInv, NEW t \in Threads, Store(t)
  PROVE IInv'
<1>0. /\ Base /\ TypeOK /\ Fits(pc[t], at[t], cont[t], path[t], rest[t], attached)
      /\ path[t] \in Seq(Frames)
  BY AtIts DEF IInv
<1>1. /\ pc[t] = "store" /\ pc' = [pc EXCEPT ![t] = "run"]
      /\ outcome' = [outcome EXCEPT ![at[t]] = result[t]]
      /\ UNCHANGED <<used, promises, attached, calls, continuation, owner, sleepers, tasks, completed,
                     at, result, cont, patience, rest, path, started, displaced>>
  BY DEF Store, Goto, made, local, history
<1>u. ~Ready(at[t])
  BY <1>0, <1>1 DEF Base, LookedInv, Looked
<1>2. path[t] # <<>> /\ Last(path[t]).state = at[t] /\ Last(path[t]).notify /\ Ascending(path[t])
  BY <1>0, <1>1 DEF Fits
<1>3. at[t] \in States
  BY <1>0, <1>2, Largest
<1>4. TypeOK'
  BY <1>0, <1>1, <1>3 DEF TypeOK, InCall
<1>5. Moves(t, "run", at[t], cont[t], path[t], rest[t]) /\ Alone(t)
  BY <1>0, <1>1 DEF TypeOK, Moves, Alone
<1>6. NestInv'
  <2>1. Fits("run", at[t], cont[t], path[t], rest[t], attached')
    BY <1>0, <1>1 DEF Fits, Waiting, Placing
  <2> QED
    BY <1>0, <1>1, <1>5, <2>1, NestMoves
<1>7. StoredInv' /\ AsleepInv'
  BY <1>0, <1>1, <1>5, AsleepStays DEF Base, StoredInv
<1>l. LookedInv'
  <2> SUFFICES ASSUME NEW u \in Threads PROVE Looked(pc[u], at[u])'
    BY DEF LookedInv
  <2>1. CASE u = t
    <3>1. pc'[t] = "run" /\ at'[t] = at[t]
      BY <1>0, <1>1 DEF TypeOK
    <3>3. result[t] # "none"
      BY <1>1 DEF ResultInv, Outcomes
    <3>4. Ready(at[t])'
      BY <1>0, <1>1, <1>3, <3>3 DEF Ready, TypeOK
    <3> QED
      BY <2>1, <3>1, <3>4 DEF Looked, Ready
  <2>2. CASE u # t
    <3>1. pc'[u] = pc[u] /\ at'[u] = at[u] /\ Looked(pc[u], at[u])
      BY <1>0, <1>1, <2>2 DEF TypeOK, Base, LookedInv
    <3>2. pc[u] \in {"store", "keep", "sleep", "run"} => at[u] # at[t] /\ at[u] \in States
      BY <1>0, <1>1, <2>2, HoldsItsOwn
    <3>3. pc[u] \in {"store", "keep", "sleep", "run"} => outcome'[at[u]] = outcome[at[u]]
      BY <1>0, <1>1, <1>3, <3>2 DEF TypeOK
    <3> QED
      BY <3>1, <3>3 DEF Looked, Ready
  <2> QED
    BY <2>1, <2>2
<1>o. OnceInv'
  <2>1. OnceInv /\ Over' = Over
    BY <1>1 DEF IInv, Over
  <2>2. \A u \in Threads : pc'[u] = IF u = t THEN "run" ELSE pc[u]
    BY <1>0, <1>1 DEF TypeOK
  <2>3. \A u \in Threads : InHands(u)' = InHands(u)
    BY <1>1, <2>2 DEF InHands, Owned, Placing
  <2>4. \A u \in Threads : Apart(pc'[u], cont'[u], rest'[u])
    BY <1>1, <2>1, <2>2 DEF OnceInv, Apart, Placing
  <2>5. ASSUME NEW x \in States, Armed(x)' PROVE Armed(x)
    <3>1. CASE x = at[t]
      BY <1>1, <1>u, <2>5, <3>1 DEF Armed
    <3>2. CASE x # at[t]
      <4>1. outcome'[x] = outcome[x]
        BY <1>0, <1>1, <3>2 DEF TypeOK
      <4> QED
        BY <1>1, <2>2, <2>5, <3>2, <4>1 DEF Armed, Ready
    <3> QED
      BY <3>1, <3>2
  <2> QED
    BY <1>1, <2>1, <2>3, <2>4, <2>5 DEF OnceInv
<1>8. HeldInv'
  <2>1. \A s \in States : Holds("run", at[t], path[t], s) => Holds(pc[t], at[t], path[t], s)
    BY DEF Holds
  <2> QED
    BY <1>0, <1>1, <1>5, <2>1, HeldStays
<1>9. WakeInv'
  <2> SUFFICES ASSUME NEW s \in States, Ready(s)', sleepers[s] # {}
               PROVE \E u \in Threads : \E k \in DOMAIN path[u] :
                       /\ path[u][k] = [state |-> s, notify |-> TRUE]
                       /\ ~(pc'[u] = "look" /\ at[u] = s)
    BY <1>1 DEF WakeInv
  <2>1. CASE s = at[t]
    <3> DEFINE top == Last(path[t])
               n   == Len(path[t])
    <3>1. n \in DOMAIN path[t] /\ path[t][n] = top /\ top \in Frames
      BY <1>0, <1>2, Popped
    <3>2. top.state = s /\ top.notify
      BY <1>2, <2>1
    <3> HIDE DEF top, n
    <3>3. top = [state |-> s, notify |-> TRUE]
      BY <3>1, <3>2 DEF Frames
    <3>4. pc'[t] = "run"
      BY <1>0, <1>1 DEF TypeOK
    <3> QED
      BY <3>1, <3>3, <3>4
  <2>2. CASE s # at[t]
    <3>1. Ready(s)
      BY <1>0, <1>1, <2>2 DEF Ready, TypeOK
    <3>2. PICK u \in Threads : \E k \in DOMAIN path[u] :
            path[u][k] = [state |-> s, notify |-> TRUE] /\ ~(pc[u] = "look" /\ at[u] = s)
      BY <3>1 DEF IInv, WakeInv
    <3>3. pc'[u] = "look" => pc[u] = "look"
      BY <1>0, <1>1 DEF TypeOK
    <3> QED
      BY <3>2, <3>3
  <2> QED
    BY <2>1, <2>2
<1>10. PendingInv'
  <2> SUFFICES ASSUME NEW d \in attached
               PROVE d.from \in States /\ (d \in started \cup displaced \/ Pending(d)')
    BY <1>1 DEF PendingInv
  <2>1. d.from \in States /\ (d \in started \cup displaced \/ Pending(d))
    BY DEF IInv, PendingInv
  <2>2. \A u \in Threads :
          /\ pc[u] \in Placing \cup {"run"} => pc'[u] = pc[u]
          /\ u = t => pc'[u] = "run"
    BY <1>0, <1>1 DEF TypeOK, Placing
  <2>3. \A x \in States : x # at[t] => (Ready(x)' <=> Ready(x))
    BY <1>0, <1>1 DEF TypeOK, Ready
  <2>4. CASE Pending(d) /\ d.from = at[t]
    <3>1. pc'[t] = "run" /\ at'[t] = d.from
      BY <1>1, <2>2, <2>4
    <3>2. continuation[d.from] = d => Pending(d)'
      BY <1>1, <3>1 DEF Pending
    <3>3. (\E u \in Threads : pc[u] \in Placing /\ cont[u] = d) => Pending(d)'
      BY <1>1, <2>2 DEF Pending
    <3>4. (\E u \in Threads : \E k \in DOMAIN rest[u] : rest[u][k] = d) => Pending(d)'
      BY <1>1 DEF Pending
    <3>5. \/ continuation[d.from] = d
          \/ \E u \in Threads : pc[u] \in Placing /\ cont[u] = d
          \/ \E u \in Threads : \E k \in DOMAIN rest[u] : rest[u][k] = d
      BY <2>4 DEF Pending
    <3> QED
      BY <2>1, <3>2, <3>3, <3>4, <3>5
  <2>5. CASE Pending(d) /\ d.from # at[t]
    BY <1>1, <2>1, <2>2, <2>3, <2>5 DEF Pending
  <2> QED
    BY <2>1, <2>4, <2>5
<1> QED
  BY <1>4, <1>6, <1>7, <1>8, <1>9, <1>10, <1>l, <1>o DEF IInv, Base

\* A continuation is kept for the thread that will set its state, or displaces one that was.
LEMMA AttachStep ==
  ASSUME IInv, NEW t \in Threads, Attach(t)
  PROVE IInv'
<1>0. /\ Base /\ TypeOK /\ Fits(pc[t], at[t], cont[t], path[t], rest[t], attached)
      /\ path[t] \in Seq(Frames)
  BY AtIts DEF IInv
<1>1. /\ pc[t] = "keep" /\ pc' = [pc EXCEPT ![t] = "unwind"]
      /\ continuation' = [continuation EXCEPT ![at[t]] = cont[t]]
      /\ displaced' = displaced \cup ({continuation[at[t]]} \ {NoContinuation})
      /\ UNCHANGED <<used, promises, attached, calls, outcome, owner, sleepers, tasks, completed,
                     at, result, cont, patience, rest, path, started>>
  BY DEF Attach, Goto, made, local
<1>u. ~Ready(at[t])
  BY <1>0, <1>1 DEF Base, LookedInv, Looked
<1>2. Attachable(cont[t], attached) /\ cont[t].from = at[t] /\ at[t] \in States
  BY <1>0, <1>1, Nothing DEF Fits, Placing
<1>3. /\ continuation[at[t]] # NoContinuation => Attachable(continuation[at[t]], attached)
      /\ cont[t] \in Continuations
  BY <1>0, <1>2 DEF Base, StoredInv, Attachable, WellFormed
<1>4. TypeOK'
  <2>1. displaced' \subseteq attached
    BY <1>0, <1>1, <1>3 DEF TypeOK, Attachable
  <2> QED
    BY <1>0, <1>1, <1>2, <1>3, <2>1 DEF TypeOK, InCall
<1>5. Moves(t, "unwind", at[t], cont[t], path[t], rest[t]) /\ Alone(t)
  BY <1>0, <1>1 DEF TypeOK, Moves, Alone
<1>6. NestInv'
  <2>1. Fits("unwind", at[t], cont[t], path[t], rest[t], attached')
    BY <1>0, <1>1 DEF Fits, Waiting, Placing
  <2> QED
    BY <1>0, <1>1, <1>5, <2>1, NestMoves
<1>7. StoredInv'
  <2>1. \A s \in States : continuation'[s] = IF s = at[t] THEN cont[t] ELSE continuation[s]
    BY <1>0, <1>1 DEF TypeOK
  <2> QED
    BY <1>0, <1>1, <1>2, <2>1 DEF Base, StoredInv
<1>8. AsleepInv' /\ LookedInv' /\ WakeInv'
  <2>1. pc[t] # "asleep" /\ Keeps(t, "unwind", at[t], path[t]) /\ Looked("unwind", at[t])
    BY DEF Keeps, Attach, Goto, Looked
  <2>2. WakeInv
    BY DEF IInv
  <2>3. LookedInv'
    BY <1>0, <1>1, <1>5, <2>1, LookedMoves
  <2>4. WakeInv'
    BY <1>0, <1>1, <1>5, <2>1, <2>2, WakeStays
  <2>5. AsleepInv'
    BY <1>0, <1>1, <1>5, <2>1, AsleepStays
  <2> QED
    BY <2>3, <2>4, <2>5
<1>o. OnceInv'
  <2> DEFINE old == continuation[at[t]]
             new == cont[t]
  <2>1. /\ OnceInv /\ new # NoContinuation /\ new.from = at[t]
    BY <1>2, Nothing DEF IInv, Attachable
  <2>2. \A u \in Threads : pc'[u] = IF u = t THEN "unwind" ELSE pc[u]
    BY <1>0, <1>1 DEF TypeOK
  <2>3. \A u \in Threads \ {t} : InHands(u)' = InHands(u)
    BY <1>1, <2>2 DEF InHands, Owned
  <2>4. InHands(t)' = {rest[t][k] : k \in DOMAIN rest[t]}
    BY <1>1, <2>2 DEF InHands, Owned, Placing
  <2>5. /\ Apart("keep", new, rest[t]) /\ new \in InHands(t)
        /\ InHands(t)' \subseteq InHands(t) /\ new \notin InHands(t)'
    <3>1. Apart("keep", new, rest[t])
      BY <1>1, <2>1 DEF OnceInv
    <3> QED
      BY <1>1, <2>4, <3>1 DEF InHands, Owned, Placing, Apart
  <2>6. \A u \in Threads : Apart(pc'[u], cont'[u], rest'[u])
    BY <1>1, <2>1, <2>2, <2>5 DEF OnceInv, Apart, Placing
  <2>7. old # NoContinuation =>
          Armed(at[t]) /\ old # new /\ \A u \in Threads : old \notin InHands(u)
    <3>1. old # NoContinuation => Armed(at[t])
      BY <1>u DEF Armed
    <3> QED
      BY <1>2, <2>1, <2>5, <3>1 DEF OnceInv
  <2>8. /\ Over' = Over \cup ({old} \ {NoContinuation})
        /\ new \notin Over' /\ \A u \in Threads : new \notin InHands(u)'
    BY <1>1, <2>1, <2>3, <2>5, <2>7 DEF Over, OnceInv
  <2>c. \A x \in States : continuation'[x] = IF x = at[t] THEN new ELSE continuation[x]
    BY <1>0, <1>1 DEF TypeOK
  <2> HIDE DEF old, new
  <2>9. \A u \in Threads : InHands(u)' \cap Over' = {}
    <3> SUFFICES ASSUME NEW u \in Threads, NEW d \in InHands(u)', d \in Over' PROVE FALSE
      OBVIOUS
    <3>1. d \in InHands(u)
      BY <2>3, <2>5
    <3>2. d \notin Over
      BY <2>1, <3>1 DEF OnceInv
    <3> QED
      BY <2>7, <2>8, <3>1, <3>2
  <2>10. \A u, v \in Threads : u # v => InHands(u)' \cap InHands(v)' = {}
    BY <2>1, <2>3, <2>5 DEF OnceInv
  <2>11. ASSUME NEW x \in States, Armed(x)'
         PROVE continuation'[x] \notin Over' /\ \A u \in Threads : continuation'[x] \notin InHands(u)'
    <3>1. CASE x = at[t]
      BY <2>8, <2>c, <3>1
    <3>2. CASE x # at[t]
      <4>1. continuation'[x] = continuation[x] /\ Armed(x)
        BY <1>1, <2>2, <2>11, <2>c, <3>2 DEF Armed, Ready
      <4>2. continuation[x] \notin Over /\ \A u \in Threads : continuation[x] \notin InHands(u)
        BY <2>1, <4>1 DEF OnceInv
      <4>3. old # NoContinuation => old.from = at[t]
        BY <1>0, <1>2 DEF Base, StoredInv, old
      <4>4. continuation[x].from = x
        BY <1>0, <4>1 DEF Base, StoredInv, Armed
      <4> QED
        BY <2>3, <2>5, <2>8, <3>2, <4>1, <4>2, <4>3, <4>4
    <3> QED
      BY <3>1, <3>2
  <2> QED
    BY <2>6, <2>9, <2>10, <2>11 DEF OnceInv
<1>9. HeldInv'
  <2>1. \A s \in States : Holds("unwind", at[t], path[t], s) => Holds(pc[t], at[t], path[t], s)
    BY DEF Holds
  <2> QED
    BY <1>0, <1>1, <1>5, <2>1, HeldStays
<1>10. PendingInv'
  <2> SUFFICES ASSUME NEW d \in attached
               PROVE d.from \in States /\ (d \in started \cup displaced' \/ Pending(d)')
    BY <1>1 DEF PendingInv
  <2>1. d.from \in States /\ (d \in started \cup displaced \/ Pending(d))
    BY DEF IInv, PendingInv
  <2>2. \A u \in Threads \ {t} : pc'[u] = pc[u]
    BY <1>5 DEF Alone
  <2>3. /\ continuation'[at[t]] = cont[t]
        /\ \A x \in States : x # at[t] => continuation'[x] = continuation[x]
    BY <1>0, <1>1, <1>2 DEF TypeOK
  <2>4. d # NoContinuation
    BY <1>0, Nothing DEF TypeOK
  <2>5. ASSUME NEW u \in Threads, pc[u] \in Placing, cont[u] = d
        PROVE Pending(d)'
    <3>1. CASE u = t
      BY <1>1, <1>2, <1>u, <2>3, <2>5, <3>1 DEF Pending, Ready
    <3>2. CASE u # t
      BY <1>1, <2>2, <2>5, <3>2 DEF Pending
    <3> QED
      BY <3>1, <3>2
  <2>6. ASSUME NEW u \in Threads, NEW k \in DOMAIN rest[u], rest[u][k] = d
        PROVE Pending(d)'
    BY <1>1, <2>6 DEF Pending
  <2>7. ASSUME continuation[d.from] = d,
               Ready(d.from) => \E u \in Threads : pc[u] = "run" /\ at[u] = d.from
        PROVE d \in displaced' \/ Pending(d)'
    <3>1. CASE d.from = at[t]
      BY <1>1, <2>4, <2>7, <3>1
    <3>2. CASE d.from # at[t]
      <4>1. continuation'[d.from] = d /\ (Ready(d.from)' <=> Ready(d.from))
        BY <1>1, <2>1, <2>3, <2>7, <3>2 DEF Ready
      <4>2. \A u \in Threads : pc[u] = "run" => pc'[u] = "run" /\ at'[u] = at[u]
        BY <1>1, <2>2
      <4> QED
        BY <2>7, <4>1, <4>2 DEF Pending
    <3> QED
      BY <3>1, <3>2
  <2>8. d \in started \cup displaced => d \in started \cup displaced'
    BY <1>1
  <2> QED
    BY <2>1, <2>5, <2>6, <2>7, <2>8 DEF Pending
<1> QED
  BY <1>4, <1>6, <1>7, <1>8, <1>9, <1>10, <1>o DEF IInv, Base

\* notify_all and unlock: the frame of the call is gone, and so are those who slept on it.
LEMMA UnwindStep ==
  ASSUME IInv, NEW t \in Threads, Unwind(t)
  PROVE IInv'
<1> DEFINE top   == Last(path[t])
           held  == Front(path[t])
           woken == Notified(top)
           place == Outside(t, held)
           a     == NextAt(t, held)
           c     == NextCont(t, held)
           r     == NextRest(t, held)
<1>0. /\ Base /\ TypeOK /\ Fits(pc[t], at[t], cont[t], path[t], rest[t], attached)
      /\ path[t] \in Seq(Frames) /\ Ascending(path[t])
  BY AtIts DEF IInv, Fits
<1>1. /\ pc[t] = "unwind" /\ Return(t, held)
      /\ pc' = [u \in Threads |-> IF u = t THEN place ELSE IF u \in woken THEN "get" ELSE pc[u]]
      /\ owner' = [owner EXCEPT ![top.state] = NoThread]
      /\ sleepers' = [sleepers EXCEPT ![top.state] = @ \ woken]
      /\ UNCHANGED <<used, promises, attached, calls, outcome, continuation, tasks, completed,
                     started, displaced>>
  BY DEF Unwind, made, history
<1>2. path[t] # <<>>
  BY <1>0, <1>1 DEF Fits
<1>3. /\ top \in Frames /\ top.state \in States /\ held \in Seq(Frames) /\ Ascending(held)
      /\ \A k \in DOMAIN held : held[k].state < top.state
  BY <1>0, <1>2, Largest
<1>4. /\ DOMAIN path[t] = 1 .. Len(path[t]) /\ top = path[t][Len(path[t])]
      /\ Len(path[t]) \in Nat \ {0} /\ DOMAIN held = 1 .. Len(path[t]) - 1
      /\ \A k \in DOMAIN held : k \in DOMAIN path[t] /\ held[k] = path[t][k]
  BY <1>0, <1>2, Popped
<1>5. \A k \in DOMAIN path[t] : k \in DOMAIN held \/ k = Len(path[t])
  <2> DEFINE n == Len(path[t])
  <2>1. n \in Nat \ {0} /\ \A k \in 1 .. n : k \in 1 .. n - 1 \/ k = n
    BY <1>4
  <2> QED
    BY <1>4, <2>1
<1>6. /\ woken \subseteq sleepers[top.state]
      /\ top.notify => woken = sleepers[top.state]
  BY DEF Notified
<1>7. \A u \in woken : u \in Threads /\ pc[u] = "asleep" /\ at[u] = top.state
  BY <1>0, <1>3, <1>6 DEF Base, AsleepInv, TypeOK
<1>8. /\ Fits(place, a, c, held, r, attached) /\ Passes(t, place, c, r) /\ Takes(t, place, c, r)
      /\ place \in {"unwind", "then", "idle"}
  BY <1>0, <1>1, <1>3, Outward DEF Placing, IInv
<1>9. /\ at'[t] = a /\ cont'[t] = c /\ path'[t] = held /\ rest'[t] = r
      /\ \A u \in Threads \ {t} :
           at'[u] = at[u] /\ cont'[u] = cont[u] /\ path'[u] = path[u] /\ rest'[u] = rest[u]
  BY <1>0, <1>1, <1>3, Returned
<1> HIDE DEF top, held, woken, place, a, c, r
<1>10. Moves(t, place, a, c, held, r)
  BY <1>1, <1>7, <1>9 DEF Moves
<1>11. /\ \A s \in States :
            sleepers'[s] = IF s = top.state THEN sleepers[s] \ woken ELSE sleepers[s]
       /\ pc' \in [Threads -> InCall \cup {"idle"}]
  BY <1>0, <1>1, <1>8 DEF TypeOK, InCall
<1>12. TypeOK'
  BY <1>0, <1>1, <1>3, <1>11, Returned DEF TypeOK, Frames
<1>13. NestInv'
  BY <1>0, <1>1, <1>8, <1>10, NestMoves
<1>14. StoredInv'
  BY <1>0, <1>1 DEF Base, StoredInv
<1>15. HeldInv'
  <2>1. \A k \in DOMAIN held : held[k].state # top.state
    <3> SUFFICES ASSUME NEW k \in DOMAIN held PROVE held[k].state # top.state
      OBVIOUS
    <3>1. held[k].state < top.state /\ top.state \in Int
      BY <1>3 DEF States
    <3> QED
      BY <3>1
  <2>2. Holds(pc[t], at[t], path[t], top.state)
    <3>1. Len(path[t]) \in DOMAIN path[t]
      BY <1>4
    <3> QED
      BY <1>4, <3>1 DEF Holds
  <2>3. \A s \in States : Holds(place, a, held, s) => s # top.state /\ Holds(pc[t], at[t], path[t], s)
    BY <1>4, <1>8, <2>1 DEF Holds
  <2>4. owner' = [owner EXCEPT ![top.state] = NoThread]
    BY <1>1
  <2> QED
    BY <1>0, <1>3, <1>10, <2>2, <2>3, <2>4, HeldFrees
<1>16. AsleepInv'
  <2> SUFFICES ASSUME NEW s \in States, NEW u \in sleepers'[s] PROVE pc'[u] = "asleep" /\ at'[u] = s
    BY DEF AsleepInv
  <2>1. u \in sleepers[s]
    BY <1>11
  <2>2. pc[u] = "asleep" /\ at[u] = s /\ u \in Threads /\ u # t
    BY <1>0, <1>1, <2>1 DEF Base, AsleepInv, TypeOK
  <2>3. u \notin woken
    BY <1>7, <1>11, <2>2
  <2> QED
    BY <1>1, <1>9, <2>2, <2>3
<1>17. WakeInv'
  <2> SUFFICES ASSUME NEW s \in States, Ready(s), sleepers'[s] # {}
               PROVE \E u \in Threads : \E k \in DOMAIN path'[u] :
                       /\ path'[u][k] = [state |-> s, notify |-> TRUE]
                       /\ ~(pc'[u] = "look" /\ at'[u] = s)
    BY <1>1 DEF WakeInv, Ready
  <2>1. sleepers[s] # {}
    BY <1>11
  <2>2. PICK u \in Threads : \E k \in DOMAIN path[u] :
          path[u][k] = [state |-> s, notify |-> TRUE] /\ ~(pc[u] = "look" /\ at[u] = s)
    BY <2>1 DEF IInv, WakeInv
  <2>3. PICK k \in DOMAIN path[u] :
          path[u][k] = [state |-> s, notify |-> TRUE] /\ ~(pc[u] = "look" /\ at[u] = s)
    BY <2>2
  <2>4. CASE u # t
    BY <1>1, <1>9, <2>3, <2>4
  <2>5. CASE u = t
    <3>1. k # Len(path[t])
      <4> SUFFICES ASSUME k = Len(path[t]) PROVE FALSE
        OBVIOUS
      <4>1. top.state = s /\ top.notify
        BY <1>4, <2>3, <2>5
      <4> QED
        BY <1>6, <1>11, <4>1
    <3>2. k \in DOMAIN held /\ held[k] = path[t][k]
      BY <1>4, <1>5, <2>5, <3>1
    <3>3. pc'[t] # "look"
      BY <1>8, <1>10 DEF Moves
    <3> QED
      BY <1>9, <2>3, <2>5, <3>2, <3>3
  <2> QED
    BY <2>4, <2>5
<1>18. OnceInv' /\ LookedInv'
  <2>1. OnceInv /\ Looked(place, a) /\ NoContinuation \notin Owned(place, c, r)
    BY <1>8, Nothing DEF IInv, Looked, Fits, Attachable, Owned
  <2>2. UNCHANGED <<continuation, outcome>>
    BY <1>1
  <2>3. OnceInv'
    BY <1>0, <1>8, <1>10, <2>1, <2>2, OnceMoves
  <2> QED
    BY <1>0, <1>10, <2>1, <2>2, <2>3, LookedMoves
<1>19. PendingInv'
  <2> SUFFICES ASSUME NEW d \in attached
               PROVE d.from \in States /\ (d \in started' \cup displaced' \/ Pending(d)')
    BY <1>1 DEF PendingInv
  <2>1. d.from \in States /\ (d \in started \cup displaced \/ Pending(d))
    BY DEF IInv, PendingInv
  <2> QED
    BY <1>0, <1>1, <1>8, <1>10, <2>1, PendingMoves
<1> QED
  BY <1>12, <1>13, <1>14, <1>15, <1>16, <1>17, <1>18, <1>19 DEF IInv, Base

-----------------------------------------------------------------------------
(* Calls that take nobody anywhere, and those that attach.                   *)

\* Threads and states stay as they are, and the tasks well-formed.
LEMMA Undisturbed ==
  ASSUME IInv, TypeOK', UNCHANGED Kept, UNCHANGED <<attached, pc, at, cont, path, rest>>,
         \A k \in DOMAIN tasks' : WellFormed(tasks'[k])
  PROVE IInv'
<1>0. /\ Base /\ WakeInv /\ PendingInv /\ OnceInv
      /\ UNCHANGED <<outcome, continuation, owner, sleepers, completed, started, displaced>>
  BY DEF IInv, Kept
<1>1. NestInv' /\ StoredInv'
  BY <1>0 DEF Base, NestInv, StoredInv
<1>2. HeldInv' /\ LookedInv' /\ AsleepInv'
  BY <1>0 DEF Base, HeldInv, Holds, LookedInv, Looked, Ready, AsleepInv
<1>3. WakeInv' /\ OnceInv'
  BY <1>0 DEF WakeInv, OnceInv, InHands, Armed, Over, Ready
<1>4. PendingInv'
  BY <1>0 DEF PendingInv, Pending, Ready
<1> QED
  BY <1>1, <1>2, <1>3, <1>4 DEF IInv, Base

\* What is attached next is in the hands of the thread, the others of the call in its list.
LEMMA CallAttachStep ==
  ASSUME IInv, FreshInv, NEW t \in Clients, NEW list \in Lists, CallAttach(t, list)
  PROVE IInv'
<1> DEFINE c == Head(list)
           r == Tail(list)
           a == Head(list).from
<1>0. Base /\ WakeInv /\ PendingInv /\ OnceInv
  BY DEF IInv
<1>1. /\ TypeOK' /\ t \in Threads /\ pc[t] = "idle" /\ list \in Seq(Continuations) /\ list # <<>>
      /\ Moves(t, "then", a, c, <<>>, r) /\ Alone(t)
      /\ UNCHANGED <<outcome, continuation, owner, sleepers, completed, started, displaced, tasks>>
      /\ attached' = attached \cup {list[k] : k \in DOMAIN list}
  BY <1>0, CallAttachEffect DEF Kept
<1>2. /\ 1 \in DOMAIN list /\ c = list[1]
      /\ \A k \in DOMAIN r : k + 1 \in DOMAIN list /\ r[k] = list[k + 1]
      /\ \A k \in DOMAIN list : k = 1 \/ (k - 1 \in DOMAIN r /\ list[k] = r[k - 1])
  BY <1>1, Shifted
<1>3. \A k \in DOMAIN list : Attachable(list[k], attached')
  BY <1>1 DEF Lists, Attachable
<1>4. path[t] = <<>> /\ rest[t] = <<>>
  BY <1>0, <1>1, AtIts DEF Fits
<1>a. a = c.from
  OBVIOUS
<1> HIDE DEF c, r, a
<1>5. Attachable(c, attached') /\ \A k \in DOMAIN r : Attachable(r[k], attached')
  BY <1>2, <1>3
<1>6. NestInv'
  <2>1. Fits("then", a, c, <<>>, r, attached')
    BY <1>5, <1>a, Nothing DEF Fits, Ascending, Waiting, Placing, Attachable
  <2> QED
    BY <1>0, <1>1, <2>1, NestMoves
<1>7. StoredInv'
  BY <1>0, <1>1 DEF Base, StoredInv, Attachable
<1>8. HeldInv'
  <2>1. \A s \in States : ~Holds("then", a, <<>>, s)
    BY Nothing DEF Holds
  <2> QED
    BY <1>0, <1>1, <2>1, HeldStays
<1>9. AsleepInv' /\ WakeInv' /\ LookedInv'
  <2>1. pc[t] # "asleep" /\ Keeps(t, "then", a, <<>>) /\ Looked("then", a)
    BY <1>1, <1>4, Nothing DEF Keeps, Looked
  <2>2. AsleepInv'
    BY <1>0, <1>1, <2>1, AsleepStays
  <2>3. WakeInv'
    BY <1>0, <1>1, <2>1, WakeStays
  <2>4. LookedInv'
    BY <1>0, <1>1, <2>1, LookedMoves
  <2> QED
    BY <2>2, <2>3, <2>4
<1>10. PendingInv'
  <2> SUFFICES ASSUME NEW d \in attached'
               PROVE d.from \in States /\ (d \in started' \cup displaced' \/ Pending(d)')
    BY DEF PendingInv
  <2>1. CASE d \in attached
    <3>1. d.from \in States /\ (d \in started \cup displaced \/ Pending(d))
      BY <1>0, <2>1 DEF PendingInv
    <3>2. Passes(t, "then", c, r)
      BY <1>1, <1>4, Nothing DEF Passes, Placing
    <3>3. started \subseteq started' /\ displaced \subseteq displaced'
      BY <1>1
    <3> QED
      BY <1>0, <1>1, <2>1, <3>1, <3>2, <3>3, PendingMoves
  <2>2. CASE d \in {list[k] : k \in DOMAIN list}
    <3>1. PICK k \in DOMAIN list : d = list[k]
      BY <2>2
    <3>2. d.from \in States
      BY <1>3, <3>1, Nothing
    <3>3. d = c \/ \E l \in DOMAIN r : r[l] = d
      BY <1>2, <3>1
    <3>4. pc'[t] = "then" /\ cont'[t] = c /\ rest'[t] = r
      BY <1>1 DEF Moves
    <3> QED
      BY <1>1, <3>2, <3>3, <3>4 DEF Pending, Placing
  <2> QED
    BY <1>1, <2>1, <2>2
<1>11. OnceInv'
  <2> DEFINE New == {list[k] : k \in DOMAIN list}
  <2>1. \A d \in New : d \notin attached
    <3> SUFFICES ASSUME NEW k \in DOMAIN list, list[k] \in attached PROVE FALSE
      OBVIOUS
    <3>1. list[k].target <= used /\ list[k].target = used + 1 /\ used \in Int
      BY <1>0 DEF FreshInv, Lists, Base, TypeOK
    <3> QED
      BY <3>1
  <2>2. \A u \in Threads : InHands(u) \subseteq attached
    <3> SUFFICES ASSUME NEW u \in Threads PROVE InHands(u) \subseteq attached
      OBVIOUS
    <3>1. Fits(pc[u], at[u], cont[u], path[u], rest[u], attached)
      BY <1>0, AtIts
    <3> QED
      BY <3>1 DEF Fits, InHands, Owned, Attachable
  <2>3. Over \subseteq attached /\ Over' = Over
    BY <1>0, <1>1 DEF Over, Base, TypeOK
  <2>4. \A x \in States : continuation[x] # NoContinuation => continuation[x] \in attached
    BY <1>0 DEF Base, StoredInv, Attachable
  <2>5. Owned("then", c, r) \subseteq New
    BY <1>2 DEF Owned
  <2>6. InHands(t)' = Owned("then", c, r)
    BY <1>1 DEF Moves, InHands, Owned
  <2>7. \A u \in Threads \ {t} : InHands(u)' = InHands(u) /\ Apart(pc'[u], cont'[u], rest'[u])
    <3> SUFFICES ASSUME NEW u \in Threads \ {t}
                 PROVE InHands(u)' = InHands(u) /\ Apart(pc'[u], cont'[u], rest'[u])
      OBVIOUS
    <3>1. pc'[u] = pc[u] /\ cont'[u] = cont[u] /\ rest'[u] = rest[u] /\ Apart(pc[u], cont[u], rest[u])
      BY <1>0, <1>1 DEF Moves, Alone, OnceInv
    <3> QED
      BY <3>1 DEF InHands, Owned
  <2> HIDE DEF New
  <2>8. Apart(pc'[t], cont'[t], rest'[t])
    <3>1. pc'[t] = "then" /\ cont'[t] = c /\ rest'[t] = r
      BY <1>1 DEF Moves
    <3>2. \A j, k \in DOMAIN list : list[j] = list[k] => j = k
      BY DEF Lists
    <3>3. Apart("then", c, r)
      BY <1>1, <1>2, <3>2, TailApart DEF r, c
    <3> QED
      BY <3>1, <3>3
  <2>9. \A x \in States : Armed(x)' => Armed(x) /\ continuation'[x] = continuation[x]
    <3>1. \A u \in Threads : pc'[u] = "run" => pc[u] = "run" /\ at'[u] = at[u]
      BY <1>1 DEF Moves, Alone
    <3> QED
      BY <1>1, <3>1 DEF Armed, Ready
  <2>10. \A u \in Threads : InHands(u)' \cap Over' = {}
    BY <1>0, <2>1, <2>3, <2>5, <2>6, <2>7 DEF OnceInv
  <2>11. \A u, v \in Threads : u # v => InHands(u)' \cap InHands(v)' = {}
    BY <1>0, <2>1, <2>2, <2>5, <2>6, <2>7 DEF OnceInv
  <2>12. ASSUME NEW x \in States, Armed(x)'
         PROVE continuation'[x] \notin Over' /\ \A u \in Threads : continuation'[x] \notin InHands(u)'
    <3>1. /\ continuation'[x] = continuation[x] /\ continuation[x] \in attached
          /\ continuation[x] \notin Over /\ \A u \in Threads : continuation[x] \notin InHands(u)
      BY <1>0, <2>4, <2>9, <2>12 DEF OnceInv, Armed
    <3> QED
      BY <2>1, <2>3, <2>5, <2>6, <2>7, <3>1
  <2> QED
    BY <2>7, <2>8, <2>10, <2>11, <2>12 DEF OnceInv
<1> QED
  BY <1>1, <1>6, <1>7, <1>8, <1>9, <1>10, <1>11 DEF IInv, Base

LEMMA ClientStep ==
  ASSUME IInv, FreshInv, NEW t \in Clients, Client(t)
  PROVE IInv'
<1>0. Base
  BY DEF IInv
<1>w. (UNCHANGED tasks) => \A k \in DOMAIN tasks' : WellFormed(tasks'[k])
  BY <1>0 DEF Base, StoredInv
<1>1. ASSUME NEW s \in States, NEW o \in Outcomes, CallSet(t, s, o)
      PROVE IInv'
  BY <1>0, <1>1, <1>w, CallSetEffect, FromIdle
<1>2. ASSUME NEW s \in States, NEW how \in {"forever", "timed"}, CallGet(t, s, how)
      PROVE IInv'
  BY <1>0, <1>2, <1>w, CallGetEffect, FromIdle
<1>3. ASSUME NEW s \in States, NEW kind \in InlineKinds \ {"any"}, CallThen(t, s, kind, FALSE)
      PROVE IInv'
  <2>1. kind \in Kinds /\ FALSE \in BOOLEAN
    BY ConstantsAssumption
  <2>2. PICK list \in Lists : CallAttach(t, list)
    BY <1>0, <1>3, <2>1, CallThenLists
  <2> QED
    BY <2>2, CallAttachStep
<1>4. ASSUME NEW s \in States, NEW kind \in QueuedKinds, CallThen(t, s, kind, TRUE)
      PROVE IInv'
  <2>1. kind \in Kinds /\ TRUE \in BOOLEAN
    BY ConstantsAssumption
  <2>2. PICK list \in Lists : CallAttach(t, list)
    BY <1>0, <1>4, <2>1, CallThenLists
  <2> QED
    BY <2>2, CallAttachStep
<1>5. ASSUME NEW s \in States, NEW r \in States, CallWhenAny(t, s, r)
      PROVE IInv'
  <2>1. PICK list \in Lists : CallAttach(t, list)
    BY <1>0, <1>5, CallWhenAnyLists
  <2> QED
    BY <2>1, CallAttachStep
<1>6. CASE CallAsync(t)
  BY <1>0, <1>6, CallAsyncEffect, Undisturbed
<1> QED
  BY <1>1, <1>2, <1>3, <1>4, <1>5, <1>6 DEF Client

-----------------------------------------------------------------------------
(* The inductive invariant, and what follows from it.                        *)

LEMMA NextIInv == IInv /\ FreshInv /\ ResultInv /\ [Next]_vars => IInv'
<1> SUFFICES ASSUME IInv, FreshInv, ResultInv, [Next]_vars PROVE IInv'
  OBVIOUS
<1>0. Base
  BY DEF IInv
<1>w. (UNCHANGED tasks) => \A k \in DOMAIN tasks' : WellFormed(tasks'[k])
  BY <1>0 DEF Base, StoredInv
<1>1. CASE MakePromise
  BY <1>0, <1>1, <1>w, MakePromiseEffect, Undisturbed
<1>2. ASSUME NEW t \in Clients, Client(t)
      PROVE IInv'
  BY <1>2, ClientStep
<1>3. ASSUME NEW w \in Workers, TakeTask(w)
      PROVE IInv'
  BY <1>0, <1>3, TakeTaskEffect, FromIdle
<1>4. ASSUME NEW t \in Threads, Step(t)
      PROVE IInv'
  <2>1. CASE Setting(t)
    BY <2>1, ToLocked, RefuseStep, AcceptStep, StoreStep, RunContinuationStep DEF Setting
  <2>2. CASE Attaching(t)
    BY <2>2, ToLocked, AttachUnreadyStep, AttachStep, AttachReadyStep DEF Attaching
  <2>3. CASE Running(t)
    BY <2>3, StartStep, FuncReturnsStep, FuncGetsStep, FuncIsLateStep DEF Running
  <2>4. CASE Getting(t)
    BY <2>4, LockToGetStep, GetReturnsStep, GetInFuncStep, GetMustWaitStep, GetSleepsStep DEF Getting
  <2>5. CASE Unwind(t)
    BY <2>5, UnwindStep
  <2> QED
    BY <1>4, <2>1, <2>2, <2>3, <2>4, <2>5 DEF Step
<1>5. ASSUME NEW t \in Threads, Wake(t)
      PROVE IInv'
  BY <1>5, WakeStep
<1>6. CASE UNCHANGED vars
  <2>1. /\ UNCHANGED Kept /\ UNCHANGED <<attached, pc, at, cont, path, rest, tasks>>
        /\ UNCHANGED <<used, promises, calls, result, patience>>
    BY <1>6 DEF vars, made, shared, local, history, Kept
  <2>2. TypeOK'
    BY <1>0, <2>1 DEF Base, TypeOK, Kept
  <2> QED
    BY <1>w, <2>1, <2>2, Undisturbed
<1> QED
  BY <1>1, <1>2, <1>3, <1>4, <1>5, <1>6 DEF Next

LEMMA NextFresh == IInv /\ FreshInv /\ [Next]_vars => FreshInv'
<1> SUFFICES ASSUME IInv, FreshInv, [Next]_vars PROVE FreshInv'
  OBVIOUS
<1>0. Base /\ used \in Nat /\ \A d \in attached : d.target \in Nat
  <2>1. Base /\ TypeOK
    BY DEF IInv, Base
  <2>2. used \in Nat /\ attached \subseteq Continuations
    BY <2>1, ConstantsAssumption DEF TypeOK
  <2>3. \A d \in Continuations : d.target \in Nat
    BY ConstantsAssumption DEF Continuations, States
  <2> QED
    BY <2>1, <2>2, <2>3
<1>1. ASSUME UNCHANGED attached, used' = used \/ used' = used + 1 PROVE FreshInv'
  <2> SUFFICES ASSUME NEW d \in attached PROVE d.target <= used'
    BY <1>1 DEF FreshInv
  <2>1. d.target \in Nat /\ d.target <= used /\ used \in Nat
    BY <1>0 DEF FreshInv
  <2> QED
    BY <1>1, <2>1
<1>2. ASSUME NEW t \in Clients, NEW list \in Lists, CallAttach(t, list) PROVE FreshInv'
  <2>1. used' = used + 1 /\ attached' = attached \cup {list[k] : k \in DOMAIN list}
    BY <1>0, <1>2, CallAttachEffect
  <2> SUFFICES ASSUME NEW d \in attached' PROVE d.target <= used'
    BY DEF FreshInv
  <2>2. CASE d \in attached
    <3>1. d.target \in Nat /\ d.target <= used /\ used \in Nat
      BY <1>0, <2>2 DEF FreshInv
    <3> QED
      BY <2>1, <3>1
  <2>3. CASE d \in {list[k] : k \in DOMAIN list}
    <3>1. d.target = used + 1
      BY <2>3 DEF Lists
    <3> QED
      BY <1>0, <2>1, <3>1
  <2> QED
    BY <2>1, <2>2, <2>3
<1>3. CASE MakePromise
  BY <1>1, <1>3 DEF MakePromise
<1>4. ASSUME NEW t \in Clients, Client(t) PROVE FreshInv'
  <2>1. ASSUME NEW s \in States, NEW o \in Outcomes, CallSet(t, s, o) PROVE FreshInv'
    BY <1>1, <2>1 DEF CallSet
  <2>2. ASSUME NEW s \in States, NEW how \in {"forever", "timed"}, CallGet(t, s, how) PROVE FreshInv'
    BY <1>1, <2>2 DEF CallGet
  <2>3. ASSUME NEW s \in States, NEW kind \in InlineKinds \cup QueuedKinds, NEW queued \in BOOLEAN,
               CallThen(t, s, kind, queued)
        PROVE FreshInv'
    <3>1. kind \in Kinds
      BY ConstantsAssumption
    <3> QED
      BY <1>0, <1>2, <2>3, <3>1, CallThenLists
  <2>4. ASSUME NEW s \in States, NEW r \in States, CallWhenAny(t, s, r) PROVE FreshInv'
    BY <1>0, <1>2, <2>4, CallWhenAnyLists
  <2>5. CASE CallAsync(t)
    BY <1>1, <2>5 DEF CallAsync
  <2> QED
    BY <1>4, <2>1, <2>2, <2>3, <2>4, <2>5 DEF Client
<1>5. ASSUME NEW w \in Workers, TakeTask(w) PROVE FreshInv'
  BY <1>1, <1>5 DEF TakeTask, made
<1>6. ASSUME NEW t \in Threads, Step(t) PROVE FreshInv'
  <2>1. CASE Setting(t)
    BY <1>1, <2>1 DEF Setting, LockToSet, Enter, Refuse, Accept, Store, RunContinuation, made
  <2>2. CASE Attaching(t)
    BY <1>1, <2>2 DEF Attaching, LockToAttach, Enter, AttachUnready, Attach, AttachReady, made
  <2>3. CASE Running(t)
    BY <1>1, <2>3 DEF Running, Start, FuncReturns, FuncGets, FuncIsLate, made
  <2>4. CASE Getting(t)
    BY <1>1, <2>4 DEF Getting, LockToGet, GetReturns, GetInFunc, GetMustWait, GetSleeps, made
  <2>5. CASE Unwind(t)
    BY <1>1, <2>5 DEF Unwind, made
  <2> QED
    BY <1>6, <2>1, <2>2, <2>3, <2>4, <2>5 DEF Step
<1>7. ASSUME NEW t \in Threads, Wake(t) PROVE FreshInv'
  BY <1>1, <1>7 DEF Wake, WakeSpuriously, TimeOut, LeaveSleep, made
<1>8. CASE UNCHANGED vars
  BY <1>1, <1>8 DEF vars, made
<1> QED
  BY <1>3, <1>4, <1>5, <1>6, <1>7, <1>8 DEF Next

LEMMA NextResult == TypeOK /\ ResultInv /\ [Next]_vars => ResultInv'
<1> SUFFICES ASSUME TypeOK, ResultInv, [Next]_vars PROVE ResultInv'
  OBVIOUS
<1> DEFINE AtSet == {"set", "look", "store"}
<1>t. /\ pc \in [Threads -> InCall \cup {"idle"}]
      /\ result \in [Threads -> Outcomes \cup {"none"}]
      /\ Clients \subseteq Threads /\ Workers \subseteq Threads
  BY DEF TypeOK, Threads
<1>1. ASSUME NEW t \in Threads, NEW place, pc' = [pc EXCEPT ![t] = place], UNCHANGED result,
             place \in AtSet => pc[t] \in AtSet
      PROVE ResultInv'
  BY <1>t, <1>1 DEF ResultInv
<1>2. ASSUME NEW t \in Threads, NEW place, NEW o \in Outcomes, pc' = [pc EXCEPT ![t] = place],
             result' = [result EXCEPT ![t] = o]
      PROVE ResultInv'
  BY <1>t, <1>2 DEF ResultInv
<1>3. ASSUME NEW t \in Threads, NEW held, Return(t, held), pc'[t] \notin AtSet,
             \A u \in Threads \ {t} : pc'[u] \in {pc[u], "get"}
      PROVE ResultInv'
  <2>1. \A u \in Threads \ {t} : result'[u] = result[u]
    BY <1>t, <1>3 DEF Return
  <2> QED
    BY <1>3, <2>1 DEF ResultInv
<1>4. ASSUME UNCHANGED <<pc, result>> PROVE ResultInv'
  BY <1>4 DEF ResultInv
<1>o. \A t \in Threads : \A held : Outside(t, held) \in (InCall \cup {"idle"}) \ AtSet
  BY DEF Outside, InCall
<1>5. CASE MakePromise
  BY <1>4, <1>5 DEF MakePromise, local
<1>6. ASSUME NEW t \in Clients, Client(t) PROVE ResultInv'
  <2>1. ASSUME NEW s \in States, NEW o \in Outcomes, CallSet(t, s, o) PROVE ResultInv'
    BY <1>t, <1>2, <2>1 DEF CallSet, Call, Goto
  <2>2. ASSUME NEW s \in States, NEW how \in {"forever", "timed"}, CallGet(t, s, how) PROVE ResultInv'
    BY <1>t, <1>1, <2>2 DEF CallGet, Call, Goto
  <2>3. ASSUME NEW list, CallAttach(t, list) PROVE ResultInv'
    BY <1>t, <1>1, <2>3 DEF CallAttach, Call, Goto
  <2>4. CASE CallAsync(t)
    BY <1>4, <2>4 DEF CallAsync, local
  <2> QED
    BY <1>6, <2>1, <2>2, <2>3, <2>4 DEF Client, CallThen, CallWhenAny
<1>7. ASSUME NEW w \in Workers, TakeTask(w) PROVE ResultInv'
  BY <1>t, <1>1, <1>7 DEF TakeTask, Goto
<1>8. ASSUME NEW t \in Threads, Setting(t) PROVE ResultInv'
  <2>1. CASE LockToSet(t)
    BY <1>1, <2>1 DEF LockToSet, Enter, Lock, Goto, local
  <2>2. CASE Refuse(t)
    BY <1>t, <1>3, <1>o, <2>2 DEF Refuse
  <2>3. CASE Accept(t) \/ Store(t)
    BY <1>1, <2>3 DEF Accept, Store, Goto, local
  <2>4. CASE RunContinuation(t)
    BY <1>1, <2>4 DEF RunContinuation, Goto
  <2> QED
    BY <1>8, <2>1, <2>2, <2>3, <2>4 DEF Setting
<1>9. ASSUME NEW t \in Threads, Attaching(t) PROVE ResultInv'
  <2>1. CASE LockToAttach(t)
    BY <1>1, <2>1 DEF LockToAttach, Enter, Lock, Goto, local
  <2>2. CASE AttachUnready(t) \/ Attach(t) \/ AttachReady(t)
    BY <1>1, <2>2 DEF AttachUnready, Attach, AttachReady, Goto, local
  <2> QED
    BY <1>9, <2>1, <2>2 DEF Attaching
<1>10. ASSUME NEW t \in Threads, Running(t) PROVE ResultInv'
  <2>1. CASE Start(t)
    BY <1>1, <2>1 DEF Start, Goto, local
  <2>2. CASE FuncReturns(t)
    BY <1>2, <2>2 DEF FuncReturns, Goto, Fulfil
  <2>3. CASE FuncGets(t)
    BY <1>1, <2>3 DEF FuncGets, Goto
  <2>4. CASE FuncIsLate(t)
    BY <1>t, <1>3, <1>o, <2>4 DEF FuncIsLate, Goto
  <2> QED
    BY <1>10, <2>1, <2>2, <2>3, <2>4 DEF Running
<1>11. ASSUME NEW t \in Threads, Getting(t) PROVE ResultInv'
  <2>1. CASE LockToGet(t)
    BY <1>1, <2>1 DEF LockToGet, Lock, Goto, local
  <2>2. CASE GetReturns(t)
    BY <1>t, <1>3, <2>2 DEF GetReturns
  <2>3. CASE GetInFunc(t)
    BY <1>2, <2>3 DEF GetInFunc, Goto, Fulfil
  <2>4. CASE GetMustWait(t) \/ GetSleeps(t)
    BY <1>1, <2>4 DEF GetMustWait, GetSleeps, Goto, local
  <2> QED
    BY <1>11, <2>1, <2>2, <2>3, <2>4 DEF Getting
<1>12. ASSUME NEW t \in Threads, Unwind(t) PROVE ResultInv'
  BY <1>3, <1>o, <1>12 DEF Unwind
<1>13. ASSUME NEW t \in Threads, Wake(t) PROVE ResultInv'
  BY <1>1, <1>13 DEF Wake, WakeSpuriously, TimeOut, LeaveSleep, Goto
<1>14. CASE UNCHANGED vars
  BY <1>4, <1>14 DEF vars, local
<1> QED
  BY <1>5, <1>6, <1>7, <1>8, <1>9, <1>10, <1>11, <1>12, <1>13, <1>14 DEF Next, Step

\* IInv holds in every state of every behaviour.
THEOREM Invariance == Spec => []IInv
<1>1. Init => IInv /\ FreshInv /\ ResultInv
  BY InitIInv DEF Init, FreshInv, ResultInv
<1>2. IInv /\ FreshInv /\ ResultInv /\ [Next]_vars => (IInv /\ FreshInv /\ ResultInv)'
  BY NextIInv, NextFresh, NextResult DEF IInv, Base
<1> QED
  BY <1>1, <1>2, PTL DEF Spec

\* Every variable keeps its type: in particular, what is run or displaced was given to then()
\* or when_any() before.
THEOREM TypeCorrect == Spec => []TypeOK
<1>1. IInv => TypeOK
  BY DEF IInv, Base
<1> QED
  BY <1>1, Invariance, PTL

\* The mutex of a state, which set_value, then() and get() lock, is held by one thread at a
\* time, also when it is locked by a continuation that runs inside another call.
HeldByOne ==
  \A s \in States : \A t, u \in Threads :
    Holds(pc[t], at[t], path[t], s) /\ Holds(pc[u], at[u], path[u], s) => t = u

\* Never do two threads look at, store to or notify a state at once.
THEOREM StatesHeldByOne == Spec => []HeldByOne
<1>1. IInv => HeldByOne
  BY DEF IInv, Base, HeldInv, HeldByOne
<1> QED
  BY <1>1, Invariance, PTL

\* A continuation attached while the state is set is run, or queued, or a thread is about to,
\* whichever of then() and set_value locked the mutex first.
THEOREM ContinuationsKept == Spec => []ContinuationNotLost
<1>1. ASSUME IInv PROVE ContinuationNotLost
  <2> SUFFICES ASSUME NEW c \in attached, Ready(c.from), c \notin started \cup displaced
               PROVE \E t \in Threads :
                       \/ cont[t] = c
                       \/ \E k \in DOMAIN rest[t] : rest[t][k] = c
                       \/ pc[t] = "run" /\ at[t] = c.from
    BY DEF ContinuationNotLost
  <2>1. Pending(c)
    BY <1>1 DEF IInv, PendingInv
  <2> QED
    BY <2>1 DEF Pending
<1> QED
  BY <1>1, Invariance, PTL

\* A thread that waits for a mutex holds only those of earlier states, unless get() of an
\* inline continuation asks for the one that thread holds already.
THEOREM LocksOrdered == Spec => []LocksAreOrdered
<1>1. ASSUME IInv PROVE LocksAreOrdered
  <2> SUFFICES ASSUME NEW t \in Threads, pc[t] \in {"set", "then", "get"}, NEW k \in DOMAIN path[t]
               PROVE path[t][k].state < at[t] \/ (pc[t] = "get" /\ path[t][k].state = at[t])
    BY DEF LocksAreOrdered
  <2>1. Fits(pc[t], at[t], cont[t], path[t], rest[t], attached) /\ path[t] \in Seq(Frames)
    BY <1>1, AtIts DEF IInv
  <2>2. CASE pc[t] = "set"
    BY <2>1, <2>2 DEF Fits
  <2>3. CASE pc[t] = "then"
    BY <2>1, <2>3, Nothing DEF Fits
  <2>4. CASE pc[t] = "get"
    <3>1. path[t][k].state <= at[t] /\ at[t] \in States
      BY <2>1, <2>4, Nothing DEF Fits, Waiting, Placing, UpTo
    <3>2. path[t][k] \in Frames
      BY <2>1, LenProperties, ElementOfSeq
    <3>3. path[t][k].state \in Int /\ at[t] \in Int
      BY <3>1, <3>2 DEF Frames, States
    <3> QED
      BY <2>4, <3>1, <3>3
  <2> QED
    BY <2>2, <2>3, <2>4
<1> QED
  BY <1>1, Invariance, PTL

\* Who sleeps on a ready state has a thread that holds the state and is still to notify: no
\* wake-up is lost between the look at ready and the wait, nor to a promise satisfied twice.
THEOREM SleepersWoken == Spec => []SleepersWillBeWoken
<1>1. IInv => SleepersWillBeWoken
  BY DEF IInv, WakeInv, SleepersWillBeWoken
<1> QED
  BY <1>1, Invariance, PTL

\* No continuation is run or queued a second time, nor after another took its place: neither
\* the second set_value of a promise nor the thread that has just set it runs one that
\* then() keeps, displaces or runs meanwhile.
THEOREM ContinuationsRunOnce == Spec => []RunsOnce
<1>1. ASSUME IInv PROVE RunsOnce
  <2> SUFFICES ASSUME NEW t \in Threads, pc[t] = "start"
               PROVE /\ cont[t] \notin started \cup displaced
                     /\ \A u \in Threads \ {t} : pc[u] = "start" => cont[u] # cont[t]
    BY DEF RunsOnce
  <2>1. \A u \in Threads : pc[u] = "start" => cont[u] \in InHands(u)
    BY DEF InHands, Owned, Placing
  <2> QED
    BY <1>1, <2>1 DEF IInv, OnceInv, Over
<1> QED
  BY <1>1, Invariance, PTL

\* The thread that stores a result has looked at ready before, in an earlier step: nobody
\* else can have stored one meanwhile, for it has held the mutex since (HeldInv).
THEOREM OutcomesSettle == Spec => SettledOnce
<1> DEFINE Settled == \A s \in States : Ready(s) => outcome'[s] = outcome[s]
<1>1. ASSUME IInv, [Next]_vars PROVE Settled
  <2>0. TypeOK /\ LookedInv
    BY <1>1 DEF IInv, Base
  <2>1. ASSUME NEW t \in Threads, Store(t) PROVE Settled
    <3>1. ~Ready(at[t]) /\ outcome' = [outcome EXCEPT ![at[t]] = result[t]]
      BY <2>0, <2>1 DEF Store, Goto, LookedInv, Looked
    <3> QED
      BY <2>0, <3>1 DEF TypeOK
  <2>2. CASE MakePromise
    BY <2>2 DEF MakePromise, shared
  <2>3. ASSUME NEW t \in Clients, Client(t) PROVE Settled
    BY <2>3 DEF Client, CallSet, CallGet, CallThen, CallWhenAny, CallAttach, CallAsync, Call, shared
  <2>4. ASSUME NEW w \in Workers, TakeTask(w) PROVE Settled
    BY <2>4 DEF TakeTask, shared
  <2>5. ASSUME NEW t \in Threads, Setting(t) PROVE Settled
    BY <2>1, <2>5 DEF Setting, LockToSet, Enter, Refuse, Accept, RunContinuation, shared
  <2>6. ASSUME NEW t \in Threads, Attaching(t) PROVE Settled
    BY <2>6 DEF Attaching, LockToAttach, Enter, AttachUnready, Attach, AttachReady, shared
  <2>7. ASSUME NEW t \in Threads, Running(t) PROVE Settled
    BY <2>7 DEF Running, Start, FuncReturns, FuncGets, FuncIsLate, shared
  <2>8. ASSUME NEW t \in Threads, Getting(t) PROVE Settled
    BY <2>8 DEF Getting, LockToGet, GetReturns, GetInFunc, GetMustWait, GetSleeps, shared
  <2>9. ASSUME NEW t \in Threads, Unwind(t) \/ Wake(t) PROVE Settled
    BY <2>9 DEF Unwind, Wake, WakeSpuriously, TimeOut, LeaveSleep
  <2>10. CASE UNCHANGED vars
    BY <2>10 DEF vars, shared
  <2> QED
    BY <1>1, <2>2, <2>3, <2>4, <2>5, <2>6, <2>7, <2>8, <2>9, <2>10 DEF Next, Step
<1>2. IInv /\ [Next]_vars => [Settled]_vars
  BY <1>1
<1> QED
  BY <1>2, Invariance, PTL DEF Spec, SettledOnce
=============================================================================
