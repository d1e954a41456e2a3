------------------------- MODULE LockFreeStackProofs -------------------------
(***************************************************************************)
(* Proofs about LockFreeStack, for any set of threads, any finite set of   *)
(* addresses and any number of hazard pointers.                            *)
(*                                                                         *)
(* Nothing about the stack is inductive on its own.  The invariant says    *)
(* that there is a way to put every node in one place (Placed) such that   *)
(* the nodes that are protected are safe from the clean-ups (Guarded) and  *)
(* no item is in two nodes or in a node and returned (DataInv).  It is     *)
(* kept until a pop that does not protect its node reads one that is not   *)
(* there, or puts a next on head that is no longer its own (astray); then  *)
(* nothing is known but the types.  Pops that work with a node which they  *)
(* do not protect, and find it in place, are covered.                      *)
(***************************************************************************)
EXTENDS LockFreeStack, FiniteSetTheorems, WellFoundedInduction, SequenceTheorems, TLAPS

-----------------------------------------------------------------------------
(* Chain, for any fields nxt in the place of next.                           *)

Steps == 0 .. Cardinality(Nodes)
IsWalk(f, first, nxt) ==
  f = [k \in Steps |-> IF k = 0 THEN first ELSE IF f[k - 1] = Null THEN Null ELSE nxt[f[k - 1]]]
Walk(first, nxt) == CHOOSE f : IsWalk(f, first, nxt)
ChainOf(first, nxt) ==
  [k \in 1 .. Cardinality({i \in DOMAIN Walk(first, nxt) : Walk(first, nxt)[i] # Null}) |->
     Walk(first, nxt)[k - 1]]

LEMMA ChainIsChainOf == \A first : Chain(first) = ChainOf(first, next)
  BY DEF Chain, ChainOf, Walk, IsWalk, Steps

\* The recursion has one solution: look at the least k at which two differ.
LEMMA OneWalk ==
  ASSUME NEW first, NEW nxt, NEW f, NEW g, IsWalk(f, first, nxt), IsWalk(g, first, nxt)
  PROVE  f = g
<1> DEFINE wrong == {k \in Steps : f[k] # g[k]}
<1>1. Steps \subseteq Nat
  BY FS_CardinalityType, ConstantsAssumption DEF Steps
<1>2. ASSUME wrong # {} PROVE FALSE
  <2>1. wrong \subseteq Nat
    BY <1>1
  <2> HIDE DEF wrong
  <2>2. PICK k \in wrong : \A i \in wrong : ~(<<i, k>> \in OpToRel(<, Nat))
    BY <1>2, <2>1, NatLessThanWellFounded, WFMin
  <2>3. \A i \in wrong : ~(i < k)
    BY <2>1, <2>2 DEF OpToRel
  <2>4. k \in Steps /\ f[k] # g[k]
    BY DEF wrong
  <2>5. k # 0
    BY <2>4 DEF IsWalk
  <2>6. k - 1 \in Steps /\ k - 1 < k
    BY <2>4, <2>5, <1>1, FS_CardinalityType, ConstantsAssumption DEF Steps
  <2>7. f[k - 1] = g[k - 1]
    BY <2>6, <2>3 DEF wrong
  <2> QED
    BY <2>4, <2>5, <2>6, <2>7 DEF IsWalk
<1> QED
  BY <1>2 DEF IsWalk

-----------------------------------------------------------------------------
(* Lists in the heap.                                                        *)

\* The nodes of S in the order s, from first to the one whose nxt is Null.
IsList(L, s, first, nxt, S) ==
  /\ L \in Nat /\ s \in [1 .. L -> Nodes]
  /\ L = 0 => first = Null
  /\ L # 0 => first = s[1] /\ nxt[s[L]] = Null
  /\ \A k \in 1 .. L : k # L => nxt[s[k]] = s[k + 1]
  /\ \A i, j \in 1 .. L : s[i] = s[j] => i = j
  /\ \A n : n \in S <=> \E k \in 1 .. L : n = s[k]

Lists(first, nxt, S) == \E L, s : IsList(L, s, first, nxt, S)

\* A list is finite and has no cycle, so the walk goes through it and ends.
LEMMA ListIsChain ==
  ASSUME NEW L, NEW s, NEW first, NEW nxt, NEW S, IsList(L, s, first, nxt, S)
  PROVE  ChainOf(first, nxt) = s
<1> DEFINE C == Cardinality(Nodes)
           f == [k \in Steps |-> IF k < L THEN s[k + 1] ELSE Null]
           used == {i \in DOMAIN f : f[i] # Null}
<1>1. C \in Nat /\ IsFiniteSet(Nodes) /\ Null \notin Nodes
  BY FS_CardinalityType, ConstantsAssumption
<1>2. /\ L \in Nat /\ s \in [1 .. L -> Nodes]
      /\ L = 0 => first = Null
      /\ L # 0 => first = s[1] /\ nxt[s[L]] = Null
      /\ \A k \in 1 .. L : k # L => nxt[s[k]] = s[k + 1]
      /\ \A i, j \in 1 .. L : s[i] = s[j] => i = j
  BY DEF IsList
<1>3. L <= C
  <2>1. s \in Injection(1 .. L, Nodes)
    BY <1>2 DEF Injection, IsInjective
  <2>2. Cardinality(1 .. L) <= C
    BY <2>1, <1>1, FS_Injection
  <2>3. Cardinality(1 .. L) = L
    <3>1. L \in Int /\ 1 \in Int /\ (1 > L <=> L = 0) /\ L - 1 + 1 = L
      BY <1>2
    <3> QED
      BY <3>1, FS_Interval
  <2> QED
    BY <2>2, <2>3
<1> HIDE DEF C
<1>4. Steps = 0 .. C
  BY DEF Steps, C
<1>5. /\ f \in [Steps -> Nodes \cup {Null}]
      /\ \A k \in Steps : k < L => k + 1 \in 1 .. L /\ f[k] = s[k + 1] /\ f[k] \in Nodes /\ f[k] # Null
      /\ \A k \in Steps : ~(k < L) => f[k] = Null
      /\ \A k \in 1 .. L : k - 1 \in Steps /\ k - 1 < L /\ f[k - 1] = s[k]
  BY <1>1, <1>2, <1>3, <1>4
<1>6. DOMAIN f = Steps /\ f = [k \in Steps |-> f[k]]
  OBVIOUS
<1> HIDE DEF f
<1>7. IsWalk(f, first, nxt)
  <2> SUFFICES ASSUME NEW k \in Steps
               PROVE  f[k] = IF k = 0 THEN first
                             ELSE IF f[k - 1] = Null THEN Null ELSE nxt[f[k - 1]]
    BY <1>6 DEF IsWalk
  <2>1. CASE k = 0
    <3>1. CASE L = 0
      BY <2>1, <3>1, <1>2, <1>5
    <3>2. CASE L # 0
      <4>1. 0 < L /\ 0 + 1 = 1
        BY <3>2, <1>2
      <4> QED
        BY <2>1, <3>2, <4>1, <1>2, <1>5
    <3> QED
      BY <3>1, <3>2
  <2>2. CASE k # 0
    <3>1. k - 1 \in Steps /\ k \in Nat /\ k - 1 \in Nat
      BY <2>2, <1>1, <1>4
    <3>2. CASE k - 1 < L
      <4>1. k \in 1 .. L /\ f[k - 1] = s[k] /\ f[k - 1] # Null
        BY <3>1, <3>2, <1>2, <1>5, <2>2
      <4>2. CASE k = L
        BY <4>1, <4>2, <1>2, <1>5, <2>2
      <4>3. CASE k # L
        BY <4>1, <4>3, <1>2, <1>5, <2>2
      <4> QED
        BY <4>2, <4>3
    <3>3. CASE ~(k - 1 < L)
      <4>1. f[k - 1] = Null /\ f[k] = Null
        <5>1. ~(k < L)
          BY <3>1, <3>3, <1>2
        <5> QED
          BY <5>1, <3>1, <3>3, <1>5
      <4> QED
        BY <4>1, <2>2
    <3> QED
      BY <3>2, <3>3
  <2> QED
    BY <2>1, <2>2
<1>8. Walk(first, nxt) = f
  <2>1. IsWalk(Walk(first, nxt), first, nxt)
    BY <1>7 DEF Walk
  <2> QED
    BY <1>7, <2>1, OneWalk
<1>9. used = 0 .. L - 1
  <2>1. ASSUME NEW k \in Steps PROVE f[k] # Null <=> k \in 0 .. L - 1
    BY <1>1, <1>2, <1>4, <1>5
  <2>2. 0 .. L - 1 \subseteq Steps
    BY <1>1, <1>2, <1>3, <1>4
  <2> QED
    BY <2>1, <2>2, <1>6
<1>10. Cardinality(used) = L
  <2>1. L - 1 \in Int /\ 0 \in Int /\ (0 > L - 1 <=> L = 0) /\ L - 1 - 0 + 1 = L
    BY <1>2
  <2>2. Cardinality(0 .. L - 1) = L
    BY <2>1, FS_Interval
  <2> QED
    BY <1>9, <2>2
<1>11. ChainOf(first, nxt) = [k \in 1 .. L |-> f[k - 1]]
  BY <1>8, <1>10 DEF ChainOf
<1>12. \A k \in 1 .. L : f[k - 1] = s[k]
  BY <1>5
<1>13. [k \in 1 .. L |-> f[k - 1]] = [k \in 1 .. L |-> s[k]]
  BY <1>12
<1>14. s = [k \in 1 .. L |-> s[k]]
  BY <1>2
<1> QED
  BY <1>11, <1>13, <1>14

LEMMA NothingListed == ASSUME NEW nxt PROVE Lists(Null, nxt, {})
<1>1. IsList(0, [k \in 1 .. 0 |-> Null], Null, nxt, {})
  BY DEF IsList
<1> QED
  BY <1>1 DEF Lists

LEMMA FirstOfList ==
  ASSUME NEW first, NEW nxt, NEW S, Lists(first, nxt, S)
  PROVE  /\ S \subseteq Nodes
         /\ first = Null <=> S = {}
         /\ first # Null => first \in S
<1>1. PICK L, s : IsList(L, s, first, nxt, S)
  BY DEF Lists
<1>2. /\ L \in Nat /\ s \in [1 .. L -> Nodes]
      /\ L = 0 => first = Null
      /\ L # 0 => first = s[1]
      /\ \A n : n \in S <=> \E k \in 1 .. L : n = s[k]
  BY <1>1 DEF IsList
<1>3. Null \notin Nodes
  BY ConstantsAssumption
<1>4. S \subseteq Nodes
  BY <1>2
<1>5. CASE L = 0
  <2>1. 1 .. L = {}
    BY <1>5
  <2> QED
    BY <2>1, <1>2, <1>4, <1>5
<1>6. CASE L # 0
  <2>1. 1 \in 1 .. L
    BY <1>2, <1>6
  <2> QED
    BY <2>1, <1>2, <1>3, <1>4, <1>6
<1> QED
  BY <1>5, <1>6

LEMMA SameList ==
  ASSUME NEW first, NEW nxt, NEW nxt2, NEW S, Lists(first, nxt, S),
         \A n \in S : nxt2[n] = nxt[n]
  PROVE  Lists(first, nxt2, S)
<1>1. PICK L, s : IsList(L, s, first, nxt, S)
  BY DEF Lists
<1>2. \A k \in 1 .. L : nxt2[s[k]] = nxt[s[k]]
  BY <1>1 DEF IsList
<1>3. L # 0 => L \in 1 .. L
  BY <1>1 DEF IsList
<1>4. IsList(L, s, first, nxt2, S)
  BY <1>1, <1>2, <1>3 DEF IsList
<1> QED
  BY <1>4 DEF Lists

\* A sequence with one more node before it, and without its first.
Before(n, L, s) == [k \in 1 .. L + 1 |-> IF k = 1 THEN n ELSE s[k - 1]]
Behind(L, s) == [k \in 1 .. L - 1 |-> s[k + 1]]

LEMMA NodeBefore ==
  ASSUME NEW L, NEW s, NEW first, NEW nxt, NEW S, NEW n \in Nodes, IsList(L, s, first, nxt, S),
         n \notin S, nxt[n] = first
  PROVE  IsList(L + 1, Before(n, L, s), n, nxt, S \cup {n})
<1>1. /\ L \in Nat /\ s \in [1 .. L -> Nodes]
      /\ L = 0 => first = Null
      /\ L # 0 => first = s[1] /\ nxt[s[L]] = Null
      /\ \A k \in 1 .. L : k # L => nxt[s[k]] = s[k + 1]
      /\ \A i, j \in 1 .. L : s[i] = s[j] => i = j
      /\ \A m : m \in S <=> \E k \in 1 .. L : m = s[k]
  BY DEF IsList
<1> DEFINE z == Before(n, L, s)
<1>2. /\ z \in [1 .. L + 1 -> Nodes]
      /\ z[1] = n
      /\ \A k \in 1 .. L + 1 : k # 1 => z[k] = s[k - 1] /\ k - 1 \in 1 .. L
      /\ \A k \in 1 .. L : z[k + 1] = s[k] /\ k + 1 \in 1 .. L + 1 /\ k + 1 # 1
      /\ L + 1 \in Nat /\ L + 1 # 0 /\ 1 \in 1 .. L + 1
  <2>1. /\ \A k \in 1 .. L + 1 : k # 1 => k - 1 \in 1 .. L
        /\ \A k \in 1 .. L : k + 1 \in 1 .. L + 1 /\ k + 1 # 1 /\ k + 1 - 1 = k
        /\ L + 1 \in Nat /\ L + 1 # 0 /\ 1 \in 1 .. L + 1
    BY <1>1
  <2> QED
    BY <1>1, <2>1 DEF Before
<1> HIDE DEF z
<1>3. nxt[z[L + 1]] = Null
  <2>1. CASE L = 0
    BY <2>1, <1>1, <1>2
  <2>2. CASE L # 0
    <3>1. L \in 1 .. L
      BY <2>2, <1>1
    <3> QED
      BY <3>1, <2>2, <1>1, <1>2
  <2> QED
    BY <2>1, <2>2
<1>4. ASSUME NEW k \in 1 .. L + 1, k # L + 1 PROVE nxt[z[k]] = z[k + 1]
  <2>1. CASE k = 1
    <3>1. L # 0 /\ 1 \in 1 .. L
      BY <2>1, <1>1, <1>4
    <3> QED
      BY <2>1, <3>1, <1>1, <1>2
  <2>2. CASE k # 1
    <3>1. k - 1 \in 1 .. L /\ k - 1 # L /\ k \in 1 .. L /\ k - 1 + 1 = k
      BY <2>2, <1>1, <1>4
    <3>2. nxt[s[k - 1]] = s[k]
      BY <3>1, <1>1
    <3> QED
      BY <2>2, <3>1, <3>2, <1>2
  <2> QED
    BY <2>1, <2>2
<1>5. ASSUME NEW i \in 1 .. L + 1, NEW j \in 1 .. L + 1, z[i] = z[j] PROVE i = j
  <2>1. \A k \in 1 .. L + 1 : k # 1 => z[k] # n
    BY <1>1, <1>2
  <2>2. CASE i = 1 \/ j = 1
    BY <2>1, <2>2, <1>2, <1>5
  <2>3. CASE i # 1 /\ j # 1
    <3>1. i - 1 = j - 1
      BY <2>3, <1>1, <1>2, <1>5
    <3> QED
      BY <3>1, <1>1
  <2> QED
    BY <2>2, <2>3
<1>6. ASSUME NEW m PROVE m \in S \cup {n} <=> \E k \in 1 .. L + 1 : m = z[k]
  <2>1. ASSUME m \in S PROVE \E k \in 1 .. L + 1 : m = z[k]
    <3>1. PICK k \in 1 .. L : m = s[k]
      BY <1>1, <2>1
    <3>2. m = z[k + 1] /\ k + 1 \in 1 .. L + 1
      BY <3>1, <1>2
    <3> QED
      BY <3>2
  <2>2. ASSUME NEW k \in 1 .. L + 1 PROVE z[k] \in S \cup {n}
    BY <1>1, <1>2
  <2> QED
    BY <2>1, <2>2, <1>2
<1> QED
  BY <1>2, <1>3, <1>4, <1>5, <1>6 DEF IsList, z

LEMMA NodesBehind ==
  ASSUME NEW L, NEW s, NEW first, NEW nxt, NEW S, IsList(L, s, first, nxt, S), first # Null
  PROVE  /\ L # 0 /\ s[1] = first
         /\ IsList(L - 1, Behind(L, s), nxt[first], nxt, S \ {first})
<1>1. /\ L \in Nat /\ s \in [1 .. L -> Nodes]
      /\ L = 0 => first = Null
      /\ L # 0 => first = s[1] /\ nxt[s[L]] = Null
      /\ \A k \in 1 .. L : k # L => nxt[s[k]] = s[k + 1]
      /\ \A i, j \in 1 .. L : s[i] = s[j] => i = j
      /\ \A m : m \in S <=> \E k \in 1 .. L : m = s[k]
  BY DEF IsList
<1>0. L # 0
  BY <1>1
<1> DEFINE z == Behind(L, s)
<1>2. /\ z \in [1 .. L - 1 -> Nodes]
      /\ \A k \in 1 .. L - 1 : z[k] = s[k + 1] /\ k + 1 \in 1 .. L /\ k + 1 # 1 /\ k \in 1 .. L
      /\ \A k \in 1 .. L : k # 1 => k - 1 \in 1 .. L - 1 /\ s[k] = z[k - 1]
      /\ L - 1 \in Nat /\ 1 \in 1 .. L /\ L \in 1 .. L
  <2>1. /\ \A k \in 1 .. L - 1 : k + 1 \in 1 .. L /\ k + 1 # 1 /\ k \in 1 .. L
        /\ \A k \in 1 .. L : k # 1 => k - 1 \in 1 .. L - 1 /\ k - 1 + 1 = k
        /\ L - 1 \in Nat /\ 1 \in 1 .. L /\ L \in 1 .. L
    BY <1>0, <1>1
  <2> QED
    BY <1>1, <2>1 DEF Behind
<1> HIDE DEF z
<1>3. L - 1 = 0 => nxt[first] = Null
  <2>1. L - 1 = 0 => L = 1
    BY <1>1
  <2> QED
    BY <2>1, <1>0, <1>1
<1>4. L - 1 # 0 => nxt[first] = z[1] /\ nxt[z[L - 1]] = Null
  <2>1. L - 1 # 0 => 1 # L /\ 1 \in 1 .. L - 1 /\ L - 1 \in 1 .. L - 1 /\ L - 1 + 1 = L
    BY <1>0, <1>1
  <2> QED
    BY <2>1, <1>0, <1>1, <1>2
<1>5. ASSUME NEW k \in 1 .. L - 1, k # L - 1 PROVE nxt[z[k]] = z[k + 1]
  <2>1. k + 1 \in 1 .. L /\ k + 1 # L /\ k + 1 \in 1 .. L - 1
    BY <1>1, <1>5
  <2>2. nxt[s[k + 1]] = s[k + 1 + 1]
    BY <2>1, <1>1
  <2> QED
    BY <2>1, <2>2, <1>2
<1>6. ASSUME NEW i \in 1 .. L - 1, NEW j \in 1 .. L - 1, z[i] = z[j] PROVE i = j
  <2>1. i + 1 = j + 1
    BY <1>1, <1>2, <1>6
  <2> QED
    BY <2>1, <1>1
<1>7. ASSUME NEW m PROVE m \in S \ {first} <=> \E k \in 1 .. L - 1 : m = z[k]
  <2>1. ASSUME m \in S, m # first PROVE \E k \in 1 .. L - 1 : m = z[k]
    <3>1. PICK k \in 1 .. L : m = s[k]
      BY <1>1, <2>1
    <3>2. k - 1 \in 1 .. L - 1 /\ m = z[k - 1]
      BY <3>1, <2>1, <1>0, <1>1, <1>2
    <3> QED
      BY <3>2
  <2>2. ASSUME NEW k \in 1 .. L - 1 PROVE z[k] \in S /\ z[k] # first
    BY <1>0, <1>1, <1>2
  <2> QED
    BY <2>1, <2>2
<1> QED
  BY <1>0, <1>1, <1>2, <1>3, <1>4, <1>5, <1>6, <1>7 DEF IsList, z

LEMMA ListBefore ==
  ASSUME NEW first, NEW nxt, NEW S, NEW n \in Nodes, Lists(first, nxt, S), n \notin S,
         nxt[n] = first
  PROVE  Lists(n, nxt, S \cup {n})
  BY NodeBefore DEF Lists

LEMMA ListBehind ==
  ASSUME NEW first, NEW nxt, NEW S, Lists(first, nxt, S), first # Null
  PROVE  Lists(nxt[first], nxt, S \ {first})
  BY NodesBehind DEF Lists

\* What the lists are made of is what the walk along next finds.
LEMMA ListedNodes ==
  ASSUME NEW first, NEW nxt, NEW S, Lists(first, nxt, S)
  PROVE  {ChainOf(first, nxt)[k] : k \in DOMAIN ChainOf(first, nxt)} = S
<1>1. PICK L, s : IsList(L, s, first, nxt, S)
  BY DEF Lists
<1>2. ChainOf(first, nxt) = s
  BY <1>1, ListIsChain
<1>3. DOMAIN s = 1 .. L /\ \A n : n \in S <=> \E k \in 1 .. L : n = s[k]
  BY <1>1 DEF IsList
<1> QED
  BY <1>2, <1>3

-----------------------------------------------------------------------------
(* The inductive invariant.                                                  *)

Following == {"scan", "delete", "put_back", "requeue"}

\* The node a thread holds, and the rest of the list that it works through.
Holding(t) == pc[t] = "push" \/ Removed(t) \/ pc[t] \in Following
RestFrom(t) ==
  IF pc[t] = "follow" THEN node[t] ELSE IF pc[t] \in Following THEN link[t] ELSE Null

\* What each thread has in hand, and that the hazard pointers have one owner.
ThreadsInv ==
  \A t \in Threads :
    /\ pc[t] \in {"push", "exchange"} \cup Retiring \cup (Cleaning \ {"detach"}) => node[t] \in Nodes
    /\ pc[t] \in Popping => slot[t] # 0
    /\ slot[t] <= assigned
    /\ \A u \in Threads : slot[t] = slot[u] /\ slot[t] # 0 => t = u
    /\ pc[t] # "scan" => scanned[t] = 0

\* kind and who put every node in its place: free, on the stack, on the list to be
\* deleted ("dead"), on the rest of the list that the clean-up of thread who goes
\* through, or alone in the hands of thread who.
Kinds == {"free", "stack", "dead", "rest", "hand"}
Among(kind, k)       == {n \in Nodes : kind[n] = k}
RestOf(kind, who, t) == {n \in Nodes : kind[n] = "rest" /\ who[n] = t}

Held(kind, who, t) ==
  \A n \in Nodes : (kind[n] = "hand" /\ who[n] = t) <=> (Holding(t) /\ node[t] = n)

Placed(kind, who) ==
  /\ kind \in [Nodes -> Kinds] /\ who \in [Nodes -> Threads \cup {Null}]
  /\ \A n \in Nodes : kind[n] \in {"rest", "hand"} => who[n] \in Threads
  /\ \A n \in Nodes : n \in allocated <=> kind[n] # "free"
  /\ Lists(head, next, Among(kind, "stack"))
  /\ Lists(to_be_deleted, next, Among(kind, "dead"))
  /\ \A t \in Threads : Lists(RestFrom(t), next, RestOf(kind, who, t)) /\ Held(kind, who, t)

\* Nobody pushes the node or deletes it, or will before it has seen t's pointer.
Safe(t) ==
  /\ node[t] \in allocated
  /\ \A u \in Threads : node[u] = node[t] =>
       pc[u] \notin {"push", "delete"} /\ (pc[u] = "scan" => scanned[u] < slot[t])

\* What the hazard pointers are for: a thread that has verified its node finds it
\* allocated, nobody is about to delete it, and a clean-up that looks at it has not
\* yet come to the thread's hazard pointer.  As long as the node is on the stack the
\* next field that was read is right, so the exchange on head is too: no ABA.  Nothing
\* is said of a thread whose node its hazard pointer is not on.
GuardsOf(kind, t) ==
  /\ pc[t] = "recheck" => Protected(t)
  /\ pc[t] \in {"load_next", "exchange"} /\ Protected(t) => Safe(t)
  /\ pc[t] = "exchange" /\ Protected(t) /\ kind[node[t]] = "stack" => link[t] = next[node[t]]

Guarded(kind) == \A t \in Threads : GuardsOf(kind, t)

\* Allocated nodes hold different items; a node whose item is still to be returned
\* holds one that was not.
Unpopped(kind, n) ==
  kind[n] = "stack" \/ \E t \in Threads : node[t] = n /\ pc[t] \in {"push", "clear", "take"}
DataInv(kind) ==
  /\ got \subseteq 1 .. pushes
  /\ \A n \in allocated : data[n] \in 1 .. pushes
  /\ \A n, m \in allocated : data[n] = data[m] => n = m
  /\ \A n \in Nodes : Unpopped(kind, n) => data[n] \notin got

Kept == \E kind, who : Placed(kind, who) /\ Guarded(kind) /\ DataInv(kind)

IInv == TypeOK /\ ThreadsInv /\ (~astray => Kept)

-----------------------------------------------------------------------------
(* The invariant holds at first; types and threads.                          *)

LEMMA InitIInv == Init => IInv
<1> SUFFICES ASSUME Init PROVE IInv
  OBVIOUS
<1>0. Null \notin Nodes /\ MaxHazards \in Nat \ {0} /\ MaxPushes \in Nat
  BY ConstantsAssumption
<1>1. TypeOK
  <2>1. /\ {head, to_be_deleted} \subseteq Addresses
        /\ next \in [Nodes -> Addresses] /\ data \in [Nodes -> Items \cup {0}]
        /\ hazard \in [Slots -> Addresses]
        /\ node \in [Threads -> Addresses] /\ link \in [Threads -> Addresses]
    BY DEF Init, Addresses
  <2>2. /\ slot \in [Threads -> 0 .. MaxHazards] /\ scanned \in [Threads -> 0 .. MaxHazards]
        /\ pushes \in 0 .. MaxPushes /\ assigned \in 0 .. MaxHazards
    BY <1>0 DEF Init
  <2> QED
    BY <2>1, <2>2 DEF Init, TypeOK
<1>2. ThreadsInv
  BY <1>0 DEF Init, ThreadsInv, Retiring, Cleaning, Popping
<1>3. Kept
  <2> DEFINE kind == [n \in Nodes |-> "free"]
             who == [n \in Nodes |-> Null]
  <2>1. /\ Among(kind, "stack") = {} /\ Among(kind, "dead") = {}
        /\ \A t \in Threads : RestOf(kind, who, t) = {}
    BY DEF Among, RestOf
  <2>2. Lists(Null, next, {})
    BY NothingListed
  <2>3. \A t \in Threads : RestFrom(t) = Null /\ ~Holding(t)
    BY DEF Init, RestFrom, Holding, Following, Removed, Retiring
  <2>4. /\ kind \in [Nodes -> Kinds] /\ who \in [Nodes -> Threads \cup {Null}]
        /\ \A n \in Nodes : kind[n] = "free"
    BY DEF Kinds
  <2> HIDE DEF kind, who
  <2>5. Placed(kind, who)
    BY <2>1, <2>2, <2>3, <2>4 DEF Init, Placed, Held
  <2>6. Guarded(kind)
    BY DEF Init, Guarded, GuardsOf
  <2>7. DataInv(kind)
    BY <2>4 DEF Init, DataInv, Unpopped
  <2> QED
    BY <2>5, <2>6, <2>7 DEF Kept
<1> QED
  BY <1>1, <1>2, <1>3 DEF IInv

LEMMA TypeStep ==
  ASSUME TypeOK, ThreadsInv, [Next]_vars
  PROVE  TypeOK'
<1>0. Null \notin Nodes /\ MaxHazards \in Nat \ {0} /\ MaxPushes \in Nat /\ Null \in Addresses /\ Nodes \subseteq Addresses
  BY ConstantsAssumption DEF Addresses
<1>1. ASSUME NEW t \in Threads, CallPush(t) PROVE TypeOK'
  <2>1. pushes + 1 \in Items /\ pushes + 1 \in 0 .. MaxPushes
    BY <1>0, <1>1 DEF CallPush, TypeOK, Items
  <2> QED
    BY <1>0, <1>1, <2>1 DEF CallPush, TypeOK, Goto, SetNode, SetLink, hazards, Pushing
<1>2. ASSUME NEW t \in Threads, Push(t) \/ PushAgain(t) PROVE TypeOK'
  BY <1>0, <1>2 DEF Push, PushAgain, ThreadsInv, TypeOK, Goto, SetNode, SetLink, hazards,
     history, Pushing, heap
<1>3. ASSUME NEW t \in Threads, CallPop(t) PROVE TypeOK'
  <2>1. slot' \in [Threads -> 0 .. MaxHazards] /\ assigned' \in 0 .. MaxHazards
    BY <1>0, <1>3 DEF CallPop, TakeSlot, TypeOK
  <2> QED
    BY <1>0, <1>3, <2>1 DEF CallPop, TypeOK, Goto, SetNode, heap, history, Popping
<1>4. ASSUME NEW t \in Threads, Protect(t) \/ Clear(t) PROVE TypeOK'
  <2>1. hazard' \in [Slots -> Addresses]
    BY <1>0, <1>4 DEF Protect, Clear, TypeOK
  <2> QED
    BY <1>0, <1>4, <2>1 DEF Protect, Clear, TypeOK, Goto, heap, history, Popping, Retiring
<1>5. ASSUME NEW t \in Threads, Recheck(t) \/ ExchangeFails(t) PROVE TypeOK'
  BY <1>0, <1>5 DEF Recheck, ExchangeFails, TypeOK, Goto, SetNode, SetLink, heap,
     hazards, history, Popping
<1>15. ASSUME NEW t \in Threads, Exchange(t) PROVE TypeOK'
  <2>1. astray' \in BOOLEAN
    BY <1>15 DEF Exchange, TypeOK
  <2>2. /\ pc' = [pc EXCEPT ![t] = "clear"] /\ link' = [link EXCEPT ![t] = Null] /\ head' = link[t]
        /\ UNCHANGED <<to_be_deleted, next, data, allocated, hazard, assigned, slot, node, scanned,
                      pushes, got, destroyed>>
    BY <1>15 DEF Exchange, Goto, SetLink, heap, hazards
  <2> QED
    BY <1>0, <2>1, <2>2 DEF TypeOK, Popping
<1>6. ASSUME NEW t \in Threads, LoadNext(t) \/ LoadNextOfNull(t) PROVE TypeOK'
  <2>1. link' \in [Threads -> Addresses]
    BY <1>0, <1>6 DEF LoadNext, LoadNextOfNull, TypeOK, SetLink
  <2>2. astray' \in BOOLEAN
    BY <1>6 DEF LoadNext, LoadNextOfNull, TypeOK
  <2> QED
    BY <1>0, <1>6, <2>1, <2>2 DEF LoadNext, LoadNextOfNull, TypeOK, Goto, heap, hazards, Popping
<1>7. ASSUME NEW t \in Threads, Take(t) PROVE TypeOK'
  <2>1. node[t] \in Nodes
    BY <1>7 DEF Take, Goto, ThreadsInv, Retiring
  <2>2. got' \subseteq Items
    BY <1>7, <2>1 DEF Take, TypeOK
  <2> QED
    BY <1>0, <1>7, <2>1, <2>2 DEF Take, TypeOK, Goto, hazards, Retiring
<1>8. ASSUME NEW t \in Threads, Retire(t) \/ Detach(t) PROVE TypeOK'
  BY <1>0, <1>8 DEF Retire, Detach, TypeOK, Goto, SetNode, heap, hazards, history, Cleaning
<1>9. ASSUME NEW t \in Threads, Follow(t) \/ PutBack(t) PROVE TypeOK'
  <2>1. node[t] \in Nodes
    BY <1>9 DEF Follow, PutBack, Goto, ThreadsInv, Cleaning
  <2> QED
    BY <1>0, <1>9, <2>1 DEF Follow, PutBack, TypeOK, Goto, SetLink, heap, hazards, history, Cleaning
<1>10. ASSUME NEW t \in Threads, Scan(t) PROVE TypeOK'
  <2>1. scanned' \in [Threads -> 0 .. MaxHazards]
    BY <1>0, <1>10 DEF Scan, TypeOK, LastSlot
  <2> QED
    BY <1>10, <2>1 DEF Scan, TypeOK, Goto, heap, hazards, history, Cleaning
<1>11. ASSUME NEW t \in Threads, Delete(t) PROVE TypeOK'
  BY <1>0, <1>11 DEF Delete, Continue, TypeOK, Goto, SetNode, SetLink, hazards, history, Cleaning
<1>12. ASSUME NEW t \in Threads, Requeue(t) PROVE TypeOK'
  BY <1>0, <1>12 DEF Requeue, Continue, TypeOK, Goto, SetNode, SetLink, heap, hazards, history,
     Cleaning
<1>13. CASE Destroy
  BY <1>0, <1>13 DEF Destroy, TypeOK, hazards
<1>14. CASE UNCHANGED vars
  BY <1>14 DEF vars, TypeOK, heap, hazards, history
<1> QED
  BY <1>1, <1>2, <1>3, <1>4, <1>5, <1>6, <1>7, <1>8, <1>9, <1>10, <1>11, <1>12, <1>13, <1>14, <1>15
  DEF Next, Pop, Clean

LEMMA ThreadsStep ==
  ASSUME TypeOK, ThreadsInv, [Next]_vars
  PROVE  ThreadsInv'
<1>0. Null \notin Nodes /\ MaxHazards \in Nat \ {0}
  BY ConstantsAssumption
<1> USE DEF Addresses, Goto, SetNode, SetLink
<1>1. ASSUME NEW t \in Threads, CallPush(t) \/ Push(t) \/ PushAgain(t) PROVE ThreadsInv'
  BY <1>0, <1>1 DEF CallPush, Push, PushAgain, ThreadsInv, TypeOK, Popping, Retiring, Cleaning,
     heap, hazards, history
<1>3. ASSUME NEW t \in Threads, CallPop(t) PROVE ThreadsInv'
  <2>1. CASE TakeSlot(t)
    <3>1. /\ slot' = [slot EXCEPT ![t] = assigned + 1] /\ assigned' = assigned + 1
          /\ assigned \in Nat /\ slot \in [Threads -> Nat]
      BY <1>0, <2>1 DEF TakeSlot, TypeOK
    <3>2. \A u \in Threads : /\ slot'[u] <= assigned'
                             /\ \A v \in Threads : slot'[u] = slot'[v] /\ slot'[u] # 0 => u = v
                             /\ slot[u] # 0 => slot'[u] # 0
                             /\ slot'[t] # 0
      BY <3>1 DEF ThreadsInv
    <3> QED
      BY <1>0, <1>3, <3>2 DEF CallPop, ThreadsInv, TypeOK, Popping, Retiring, Cleaning, heap,
         history
  <2>2. CASE slot[t] > 0 /\ UNCHANGED <<slot, assigned>>
    <3>1. slot[t] # 0
      BY <1>0, <2>2 DEF TypeOK
    <3> QED
      BY <1>0, <1>3, <2>2, <3>1 DEF CallPop, ThreadsInv, TypeOK, Popping, Retiring, Cleaning,
         heap, history
  <2> QED
    BY <1>3, <2>1, <2>2 DEF CallPop
<1>4. ASSUME NEW t \in Threads, Protect(t) \/ Recheck(t) \/ ExchangeFails(t) \/ LoadNextOfNull(t) PROVE ThreadsInv'
  BY <1>0, <1>4 DEF Protect, Recheck, ExchangeFails, LoadNextOfNull, ThreadsInv, TypeOK, Popping,
     Retiring, Cleaning, heap, hazards, history
<1>5. ASSUME NEW t \in Threads, LoadNext(t) \/ Clear(t) PROVE ThreadsInv'
  BY <1>0, <1>5 DEF LoadNext, Clear, ThreadsInv, TypeOK, Popping, Retiring, Cleaning,
     heap, hazards, history
<1>12. ASSUME NEW t \in Threads, Exchange(t) PROVE ThreadsInv'
  <2>1. /\ pc' = [pc EXCEPT ![t] = "clear"] /\ pc[t] = "exchange"
        /\ UNCHANGED <<assigned, slot, node, scanned>>
    BY <1>12 DEF Exchange, hazards
  <2> QED
    BY <1>0, <2>1 DEF ThreadsInv, TypeOK, Popping, Retiring, Cleaning
<1>6. ASSUME NEW t \in Threads, Take(t) \/ Retire(t) \/ Detach(t) PROVE ThreadsInv'
  BY <1>0, <1>6 DEF Take, Retire, Detach, ThreadsInv, TypeOK, Popping, Retiring, Cleaning, heap,
     hazards, history
<1>7. ASSUME NEW t \in Threads, Follow(t) \/ PutBack(t) PROVE ThreadsInv'
  BY <1>0, <1>7 DEF Follow, PutBack, ThreadsInv, TypeOK, Popping, Retiring, Cleaning, heap,
     hazards, history
<1>8. ASSUME NEW t \in Threads, Scan(t) PROVE ThreadsInv'
  BY <1>0, <1>8 DEF Scan, ThreadsInv, TypeOK, Popping, Retiring, Cleaning, heap, hazards, history
<1>9. ASSUME NEW t \in Threads, Delete(t) \/ Requeue(t) PROVE ThreadsInv'
  BY <1>0, <1>9 DEF Delete, Requeue, Continue, ThreadsInv, TypeOK, Popping, Retiring, Cleaning,
     heap, hazards, history
<1>10. CASE Destroy
  BY <1>10 DEF Destroy, ThreadsInv, hazards
<1>11. CASE UNCHANGED vars
  BY <1>11 DEF vars, ThreadsInv, hazards
<1> QED
  BY <1>1, <1>3, <1>4, <1>5, <1>6, <1>7, <1>8, <1>9, <1>10, <1>11, <1>12 DEF Next, Pop, Clean

-----------------------------------------------------------------------------
(* Placed: what a step that moves one node has to show, and the steps.       *)

LEMMA NothingMoved ==
  ASSUME NEW kind, NEW who, Placed(kind, who), UNCHANGED <<next, allocated, head, to_be_deleted>>,
         \A u \in Threads : /\ RestFrom(u)' = RestFrom(u) /\ (Holding(u)' <=> Holding(u))
                            /\ Holding(u) => node'[u] = node[u]
  PROVE  Placed(kind, who)'
<1>1. \A u \in Threads : Held(kind, who, u)'
  BY DEF Placed, Held
<1> QED
  BY <1>1 DEF Placed

\* The fields of the other nodes have not changed, x is in no list.
LEMMA ListsKept ==
  ASSUME NEW kind, NEW who, NEW x, NEW nxt, Placed(kind, who),
         \A n \in Nodes : n # x => nxt[n] = next[n],
         x \in Nodes => kind[x] \in {"hand", "free"} \/ nxt[x] = next[x]
  PROVE  /\ Lists(head, nxt, Among(kind, "stack"))
         /\ Lists(to_be_deleted, nxt, Among(kind, "dead"))
         /\ \A u \in Threads : Lists(RestFrom(u), nxt, RestOf(kind, who, u))
<1>1. /\ \A n \in Among(kind, "stack") : nxt[n] = next[n]
      /\ \A n \in Among(kind, "dead") : nxt[n] = next[n]
      /\ \A u \in Threads : \A n \in RestOf(kind, who, u) : nxt[n] = next[n]
  BY DEF Among, RestOf
<1> QED
  BY <1>1, SameList DEF Placed

\* Node x goes to k, as thread t's if it has a thread.
Moved(kind, who, x, k, t, kind2, who2) ==
  kind2 = [kind EXCEPT ![x] = k] /\ who2 = [who EXCEPT ![x] = t]

\* A step of t changes no other thread's variables, and no other node than x.
OnlyAt(x) ==
  \A n \in Nodes : n # x => next'[n] = next[n] /\ (n \in allocated' <=> n \in allocated)
HandOfNext(kind2, who2, t) ==
  \A n \in Nodes : (kind2[n] = "hand" /\ who2[n] = t) <=> (Holding(t)' /\ node'[t] = n)
OthersKept(t) ==
  \A u \in Threads : u # t => pc'[u] = pc[u] /\ node'[u] = node[u] /\ link'[u] = link[u]

LEMMA OneMoved ==
  ASSUME NEW kind, NEW who, Placed(kind, who), NEW t \in Threads, NEW x \in Nodes, NEW k \in Kinds,
         NEW kind2, NEW who2, Moved(kind, who, x, k, t, kind2, who2),
         kind[x] \in {"rest", "hand"} => who[x] = t,
         kind[x] \in {"hand", "free"} \/ next'[x] = next[x],
         OnlyAt(x), x \in allocated' <=> k # "free", OthersKept(t),
         Lists(head', next', Among(kind2, "stack")),
         Lists(to_be_deleted', next', Among(kind2, "dead")),
         Lists(RestFrom(t)', next', RestOf(kind2, who2, t)),
         HandOfNext(kind2, who2, t)
  PROVE  Placed(kind2, who2)'
<1>1. /\ kind \in [Nodes -> Kinds] /\ who \in [Nodes -> Threads \cup {Null}]
      /\ \A n \in Nodes : kind[n] \in {"rest", "hand"} => who[n] \in Threads
      /\ \A n \in Nodes : n \in allocated <=> kind[n] # "free"
      /\ \A u \in Threads : Held(kind, who, u)
  BY DEF Placed
<1>2. kind2 \in [Nodes -> Kinds] /\ who2 \in [Nodes -> Threads \cup {Null}]
  BY <1>1 DEF Moved
<1>3. /\ kind2[x] = k /\ who2[x] = t
      /\ \A n \in Nodes : n # x => kind2[n] = kind[n] /\ who2[n] = who[n]
  BY <1>1 DEF Moved
<1>4. \A u \in Threads : Lists(RestFrom(u), next', RestOf(kind, who, u))
  BY ListsKept DEF OnlyAt
<1>5. ASSUME NEW u \in Threads, u # t
      PROVE  Lists(RestFrom(u)', next', RestOf(kind2, who2, u)) /\ Held(kind2, who2, u)'
  <2>1. pc'[u] = pc[u] /\ node'[u] = node[u] /\ link'[u] = link[u]
    BY <1>5 DEF OthersKept
  <2>2. RestFrom(u)' = RestFrom(u) /\ (Holding(u)' <=> Holding(u))
    BY <2>1 DEF RestFrom, Holding, Removed
  <2>3. RestOf(kind2, who2, u) = RestOf(kind, who, u)
    <3>1. \A n \in Nodes : (kind2[n] = "rest" /\ who2[n] = u) <=> (kind[n] = "rest" /\ who[n] = u)
      BY <1>3, <1>5
    <3> QED
      BY <3>1 DEF RestOf
  <2>4. Held(kind2, who2, u)'
    <3> SUFFICES ASSUME NEW n \in Nodes
                 PROVE  (kind2[n] = "hand" /\ who2[n] = u) <=> (Holding(u)' /\ node'[u] = n)
      BY DEF Held
    <3>1. (kind[n] = "hand" /\ who[n] = u) <=> (Holding(u) /\ node[u] = n)
      BY <1>1 DEF Held
    <3>2. CASE n = x
      BY <1>3, <1>5, <2>1, <2>2, <3>1, <3>2
    <3>3. CASE n # x
      BY <1>3, <2>1, <2>2, <3>1, <3>3
    <3> QED
      BY <3>2, <3>3
  <2> QED
    BY <1>4, <2>2, <2>3, <2>4
<1>6. \A n \in Nodes : n \in allocated' <=> kind2[n] # "free"
  BY <1>1, <1>3 DEF OnlyAt
<1>7. \A n \in Nodes : kind2[n] \in {"rest", "hand"} => who2[n] \in Threads
  BY <1>1, <1>3
<1>8. Held(kind2, who2, t)'
  BY DEF Held, HandOfNext
<1>9. \A u \in Threads : Lists(RestFrom(u)', next', RestOf(kind2, who2, u)) /\ Held(kind2, who2, u)'
  BY <1>5, <1>8
<1> QED
  BY <1>2, <1>6, <1>7, <1>9 DEF Placed

\* The sets of the lists after x has gone to k.
LEMMA SetsMoved ==
  ASSUME NEW kind \in [Nodes -> Kinds], NEW who \in [Nodes -> Threads \cup {Null}],
         NEW x \in Nodes, NEW k \in Kinds, NEW t \in Threads,
         NEW kind2, NEW who2, Moved(kind, who, x, k, t, kind2, who2)
  PROVE  /\ kind2[x] = k /\ who2[x] = t
         /\ \A n \in Nodes : n # x => kind2[n] = kind[n] /\ who2[n] = who[n]
         /\ k # "stack" /\ kind[x] # "stack" => Among(kind2, "stack") = Among(kind, "stack")
         /\ k # "dead" /\ kind[x] # "dead" => Among(kind2, "dead") = Among(kind, "dead")
         /\ k # kind[x] => Among(kind2, k) = Among(kind, k) \cup {x} /\ x \notin Among(kind, k)
         /\ kind[x] = "stack" /\ k # "stack" => Among(kind2, "stack") = Among(kind, "stack") \ {x}
         /\ k # "rest" => RestOf(kind2, who2, t) = RestOf(kind, who, t) \ {x}
         /\ k # "rest" /\ kind[x] # "rest" => RestOf(kind2, who2, t) = RestOf(kind, who, t)
<1>1. /\ kind2[x] = k /\ who2[x] = t
      /\ \A n \in Nodes : n # x => kind2[n] = kind[n] /\ who2[n] = who[n]
  BY DEF Moved
<1> QED
  BY <1>1 DEF Among, RestOf

LEMMA PlacedFacts ==
  ASSUME NEW kind, NEW who, Placed(kind, who), TypeOK, ThreadsInv
  PROVE  /\ kind \in [Nodes -> Kinds] /\ who \in [Nodes -> Threads \cup {Null}]
         /\ \A n \in Nodes : n \in allocated <=> kind[n] # "free"
         /\ allocated \subseteq Nodes
         /\ Lists(head, next, Among(kind, "stack"))
         /\ Lists(to_be_deleted, next, Among(kind, "dead"))
         /\ \A t \in Threads : Lists(RestFrom(t), next, RestOf(kind, who, t))
         /\ \A t \in Threads, n \in Nodes :
              (kind[n] = "hand" /\ who[n] = t) <=> (Holding(t) /\ node[t] = n)
         /\ \A t \in Threads : Holding(t) => node[t] \in Nodes /\ kind[node[t]] = "hand" /\ who[node[t]] = t
         /\ {"free", "stack", "dead", "rest", "hand"} \subseteq Kinds
<1>1. ASSUME NEW t \in Threads, Holding(t) PROVE node[t] \in Nodes
  <2>1. pc[t] = "push" \/ Removed(t) \/ pc[t] \in Following
    BY <1>1 DEF Holding
  <2>2. CASE pc[t] = "push" \/ pc[t] \in Following
    BY <2>2 DEF ThreadsInv, Cleaning, Following
  <2>3. CASE Removed(t)
    BY <2>3 DEF Removed, TypeOK, Addresses
  <2> QED
    BY <2>1, <2>2, <2>3
<1> QED
  BY <1>1 DEF Placed, Held, Kinds, TypeOK

\* The node that a thread has in hand, or a new one, goes to k; what is left is
\* to say what the two lists and the rest of the thread's list are now.
LEMMA HandMoved ==
  ASSUME NEW kind, NEW who, Placed(kind, who), TypeOK, ThreadsInv,
         NEW t \in Threads, NEW x \in Nodes, NEW k \in {"free", "stack", "dead", "hand"},
         NEW kind2, NEW who2, Moved(kind, who, x, k, t, kind2, who2),
         kind[x] = "free" \/ (Holding(t) /\ node[t] = x),
         OthersKept(t), OnlyAt(x),
         x \in allocated' <=> k # "free",
         k = "stack" => next'[x] = head /\ head' = x,
         k # "stack" => head' = head,
         k = "dead" => next'[x] = to_be_deleted /\ to_be_deleted' = x,
         k # "dead" => to_be_deleted' = to_be_deleted,
         RestFrom(t)' = RestFrom(t),
         Holding(t)' <=> k = "hand",
         k = "hand" => node'[t] = x,
         Holding(t) => node[t] = x
  PROVE  Placed(kind2, who2)'
<1>1. /\ kind \in [Nodes -> Kinds] /\ who \in [Nodes -> Threads \cup {Null}]
      /\ \A n \in Nodes : (kind[n] = "hand" /\ who[n] = t) <=> (Holding(t) /\ node[t] = n)
      /\ k \in Kinds /\ kind[x] \in {"free", "hand"}
      /\ kind[x] \in {"rest", "hand"} => who[x] = t
  <2>1. /\ kind \in [Nodes -> Kinds] /\ who \in [Nodes -> Threads \cup {Null}]
        /\ \A n \in Nodes : (kind[n] = "hand" /\ who[n] = t) <=> (Holding(t) /\ node[t] = n)
        /\ {"free", "stack", "dead", "rest", "hand"} \subseteq Kinds
    BY PlacedFacts
  <2>2. kind[x] = "free" \/ (kind[x] = "hand" /\ who[x] = t)
    BY <2>1
  <2> QED
    BY <2>1, <2>2
<1>2. /\ kind2[x] = k /\ who2[x] = t
      /\ \A n \in Nodes : n # x => kind2[n] = kind[n] /\ who2[n] = who[n]
      /\ k # "stack" => Among(kind2, "stack") = Among(kind, "stack")
      /\ k # "dead" => Among(kind2, "dead") = Among(kind, "dead")
      /\ k # kind[x] => Among(kind2, k) = Among(kind, k) \cup {x} /\ x \notin Among(kind, k)
      /\ RestOf(kind2, who2, t) = RestOf(kind, who, t)
  <2>1. k # "rest" /\ kind[x] # "rest"
    BY <1>1
  <2> QED
    BY <1>1, <2>1, SetsMoved
<1>3. /\ Lists(head, next', Among(kind, "stack"))
      /\ Lists(to_be_deleted, next', Among(kind, "dead"))
      /\ \A u \in Threads : Lists(RestFrom(u), next', RestOf(kind, who, u))
  <2>1. \A n \in Nodes : n # x => next'[n] = next[n]
    BY DEF OnlyAt
  <2>2. x \in Nodes => kind[x] \in {"hand", "free"} \/ next'[x] = next[x]
    BY <1>1
  <2> QED
    BY <2>1, <2>2, ListsKept
<1>4. Lists(head', next', Among(kind2, "stack"))
  <2>1. CASE k = "stack"
    <3>1. Among(kind2, "stack") = Among(kind, "stack") \cup {x} /\ x \notin Among(kind, "stack")
      BY <1>1, <1>2, <2>1
    <3>2. Lists(x, next', Among(kind, "stack") \cup {x})
      BY <1>3, <2>1, <3>1, ListBefore
    <3> QED
      BY <2>1, <3>1, <3>2
  <2>2. CASE k # "stack"
    <3>1. Among(kind2, "stack") = Among(kind, "stack")
      BY <1>1, <1>2, <2>2
    <3> QED
      BY <1>3, <2>2, <3>1
  <2> QED
    BY <2>1, <2>2
<1>5. Lists(to_be_deleted', next', Among(kind2, "dead"))
  <2>1. CASE k = "dead"
    <3>1. Among(kind2, "dead") = Among(kind, "dead") \cup {x} /\ x \notin Among(kind, "dead")
      BY <1>1, <1>2, <2>1
    <3>2. Lists(x, next', Among(kind, "dead") \cup {x})
      BY <1>3, <2>1, <3>1, ListBefore
    <3> QED
      BY <2>1, <3>1, <3>2
  <2>2. CASE k # "dead"
    <3>1. Among(kind2, "dead") = Among(kind, "dead")
      BY <1>1, <1>2, <2>2
    <3> QED
      BY <1>3, <2>2, <3>1
  <2> QED
    BY <2>1, <2>2
<1>6. Lists(RestFrom(t)', next', RestOf(kind2, who2, t))
  BY <1>2, <1>3
<1>7. HandOfNext(kind2, who2, t)
  <2> SUFFICES ASSUME NEW n \in Nodes
               PROVE  (kind2[n] = "hand" /\ who2[n] = t) <=> (Holding(t)' /\ node'[t] = n)
    BY DEF HandOfNext
  <2>1. CASE n = x
    BY <1>2, <2>1
  <2>2. CASE n # x
    BY <1>1, <1>2, <2>2
  <2> QED
    BY <2>1, <2>2
<1>8. kind[x] \in {"hand", "free"} \/ next'[x] = next[x]
  BY <1>1
<1>9. Placed(kind2, who2)'
  BY <1>1, <1>4, <1>5, <1>6, <1>7, <1>8, OneMoved
<1> QED
  BY <1>9

LEMMA CallPushPlaced ==
  ASSUME NEW kind, NEW who, Placed(kind, who), TypeOK, ThreadsInv, NEW t \in Threads, CallPush(t),
         NEW kind2, NEW who2, Moved(kind, who, node'[t], "hand", t, kind2, who2)
  PROVE  Placed(kind2, who2)'
<1>1. /\ node'[t] \in Nodes /\ node'[t] \notin allocated /\ allocated' = allocated \cup {node'[t]}
      /\ pc[t] = "idle" /\ pc'[t] = "push" /\ OthersKept(t)
      /\ UNCHANGED <<head, to_be_deleted, next>>
  BY DEF CallPush, Goto, SetNode, SetLink, TypeOK, OthersKept
<1>2. kind[node'[t]] = "free"
  BY <1>1 DEF Placed
<1>3. RestFrom(t)' = RestFrom(t) /\ ~Holding(t) /\ Holding(t)'
  BY <1>1 DEF RestFrom, Holding, Following, Removed, Retiring
<1>4. OnlyAt(node'[t])
  BY <1>1 DEF OnlyAt
<1> QED
  BY <1>1, <1>2, <1>3, <1>4, HandMoved

LEMMA PushPlaced ==
  ASSUME NEW kind, NEW who, Placed(kind, who), TypeOK, ThreadsInv, NEW t \in Threads, Push(t),
         NEW kind2, NEW who2, Moved(kind, who, node[t], "stack", t, kind2, who2)
  PROVE  Placed(kind2, who2)'
<1>1. /\ pc[t] = "push" /\ pc'[t] = "idle" /\ node[t] \in Nodes /\ OthersKept(t)
      /\ next'[node[t]] = head /\ head' = node[t]
      /\ UNCHANGED <<to_be_deleted, allocated>>
      /\ OnlyAt(node[t])
  BY DEF Push, Goto, SetNode, SetLink, TypeOK, OthersKept, Expected, ThreadsInv, OnlyAt
<1>2. Holding(t) /\ ~Holding(t)' /\ RestFrom(t)' = RestFrom(t)
  BY <1>1 DEF RestFrom, Holding, Following, Removed, Retiring
<1>3. node[t] \in allocated'
  BY <1>1, <1>2, PlacedFacts
<1> QED
  BY <1>1, <1>2, <1>3, HandMoved

LEMMA TakePlaced ==
  ASSUME NEW kind, NEW who, Placed(kind, who), TypeOK, ThreadsInv, NEW t \in Threads,
         Take(t) \/ PutBack(t),
         NEW kind2, NEW who2, Moved(kind, who, node[t], "hand", t, kind2, who2)
  PROVE  Placed(kind2, who2)'
<1>1. /\ \/ pc[t] = "take" /\ pc'[t] = "retire"
         \/ pc[t] = "put_back" /\ pc'[t] = "requeue"
      /\ node[t] \in Nodes /\ OthersKept(t) /\ OnlyAt(node[t])
      /\ UNCHANGED <<head, to_be_deleted, allocated, node, link>>
  BY DEF Take, PutBack, Goto, TypeOK, OthersKept, ThreadsInv, OnlyAt, Retiring, Cleaning
<1>2. Holding(t) /\ Holding(t)' /\ RestFrom(t)' = RestFrom(t)
  <2>1. node[t] # Null
    BY <1>1, ConstantsAssumption
  <2> QED
    BY <1>1, <2>1 DEF RestFrom, Holding, Following, Removed, Retiring
<1>3. node[t] \in allocated'
  BY <1>1, <1>2, PlacedFacts
<1> QED
  BY <1>1, <1>2, <1>3, HandMoved

LEMMA RetirePlaced ==
  ASSUME NEW kind, NEW who, Placed(kind, who), TypeOK, ThreadsInv, NEW t \in Threads,
         Retire(t) \/ Requeue(t),
         NEW kind2, NEW who2, Moved(kind, who, node[t], "dead", t, kind2, who2)
  PROVE  Placed(kind2, who2)'
<1>1. /\ node[t] \in Nodes /\ OthersKept(t) /\ OnlyAt(node[t])
      /\ next'[node[t]] = to_be_deleted /\ to_be_deleted' = node[t]
      /\ UNCHANGED <<head, allocated>>
  BY DEF Retire, Requeue, Continue, Goto, SetNode, SetLink, TypeOK, OthersKept, ThreadsInv, OnlyAt,
         Retiring, Cleaning, Expected, heap
<1>2. Holding(t) /\ ~Holding(t)' /\ RestFrom(t)' = RestFrom(t)
  <2>1. node[t] # Null
    BY <1>1, ConstantsAssumption
  <2>2. CASE Retire(t)
    <3>1. pc[t] = "retire" /\ pc'[t] \in {"idle", "detach"}
      BY <2>2 DEF Retire, Goto, TypeOK
    <3> QED
      BY <2>1, <3>1 DEF RestFrom, Holding, Following, Removed, Retiring
  <2>3. CASE Requeue(t)
    <3>1. /\ pc[t] = "requeue" /\ node'[t] = link[t]
          /\ pc'[t] = IF link[t] = Null THEN "idle" ELSE "follow"
      BY <2>3 DEF Requeue, Continue, Goto, SetNode, TypeOK
    <3> QED
      BY <2>1, <3>1 DEF RestFrom, Holding, Following, Removed, Retiring
  <2> QED
    BY <2>2, <2>3
<1>3. node[t] \in allocated'
  BY <1>1, <1>2, PlacedFacts
<1> QED
  BY <1>1, <1>2, <1>3, HandMoved

LEMMA DeletePlaced ==
  ASSUME NEW kind, NEW who, Placed(kind, who), TypeOK, ThreadsInv, NEW t \in Threads,
         Delete(t),
         NEW kind2, NEW who2, Moved(kind, who, node[t], "free", t, kind2, who2)
  PROVE  Placed(kind2, who2)'
<1>1. /\ node[t] \in Nodes /\ OthersKept(t) /\ OnlyAt(node[t])
      /\ UNCHANGED <<head, to_be_deleted>> /\ node[t] \notin allocated'
  BY DEF Delete, Continue, Goto, SetNode, SetLink, TypeOK, OthersKept, ThreadsInv, OnlyAt, Cleaning
<1>2. Holding(t) /\ ~Holding(t)' /\ RestFrom(t)' = RestFrom(t)
  <2>1. node[t] # Null
    BY <1>1, ConstantsAssumption
  <2>2. /\ pc[t] = "delete" /\ node'[t] = link[t]
        /\ pc'[t] = IF link[t] = Null THEN "idle" ELSE "follow"
    BY DEF Delete, Continue, Goto, SetNode, TypeOK
  <2> QED
    BY <2>1, <2>2 DEF RestFrom, Holding, Following, Removed, Retiring
<1> QED
  BY <1>1, <1>2, HandMoved

\* Exchange takes the first node of the stack, for it is head.
\* Where an exchange on head does not go astray, it puts on head what follows the
\* node there: because the node is protected, or because it happens to be so.
LEMMA RightNext ==
  ASSUME NEW kind, Guarded(kind), NEW t \in Threads, Exchange(t), ~astray', kind[node[t]] = "stack"
  PROVE  link[t] = next[node[t]]
<1>1. CASE Protected(t)
  <2>1. pc[t] = "exchange"
    BY DEF Exchange, Goto
  <2> QED
    BY <1>1, <2>1 DEF Guarded, GuardsOf
<1>2. CASE ~Protected(t)
  BY <1>2 DEF Exchange
<1> QED
  BY <1>1, <1>2

LEMMA ExchangePlaced ==
  ASSUME NEW kind, NEW who, Placed(kind, who), TypeOK, ThreadsInv, Guarded(kind), NEW t \in Threads,
         Exchange(t), ~astray',
         NEW kind2, NEW who2, Moved(kind, who, node[t], "hand", t, kind2, who2)
  PROVE  Placed(kind2, who2)' /\ kind[node[t]] = "stack"
<1> DEFINE x == node[t]
<1>1. /\ pc[t] = "exchange" /\ pc'[t] = "clear" /\ x \in Nodes /\ x # Null /\ OthersKept(t)
      /\ head = x /\ head' = link[t] /\ node' = node
      /\ UNCHANGED <<to_be_deleted, allocated, next>> /\ OnlyAt(x)
  BY ConstantsAssumption
  DEF Exchange, Goto, SetLink, TypeOK, OthersKept, ThreadsInv, OnlyAt, Expected, heap
<1>2. ~Holding(t) /\ Holding(t)' /\ RestFrom(t)' = Null /\ RestFrom(t) = Null
  BY <1>1 DEF RestFrom, Holding, Following, Removed, Retiring
<1>3. /\ kind \in [Nodes -> Kinds] /\ who \in [Nodes -> Threads \cup {Null}]
      /\ Lists(head, next, Among(kind, "stack"))
      /\ Lists(to_be_deleted, next, Among(kind, "dead"))
      /\ Lists(RestFrom(t), next, RestOf(kind, who, t))
      /\ \A n \in Nodes : (kind[n] = "hand" /\ who[n] = t) <=> (Holding(t) /\ node[t] = n)
      /\ \A n \in Nodes : n \in allocated <=> kind[n] # "free"
      /\ {"free", "stack", "dead", "rest", "hand"} \subseteq Kinds
  BY PlacedFacts
<1>4. kind[x] = "stack"
  <2>1. x \in Among(kind, "stack")
    BY <1>1, <1>3, FirstOfList
  <2> QED
    BY <2>1 DEF Among
<1>5. Lists(head', next', Among(kind, "stack") \ {x})
  <2>1. link[t] = next[x]
    BY <1>1, <1>4, RightNext
  <2>2. Lists(next[x], next, Among(kind, "stack") \ {x})
    BY <1>1, <1>3, ListBehind
  <2> QED
    BY <1>1, <2>1, <2>2
<1>6. /\ kind2[x] = "hand" /\ who2[x] = t
      /\ \A n \in Nodes : n # x => kind2[n] = kind[n] /\ who2[n] = who[n]
      /\ Among(kind2, "stack") = Among(kind, "stack") \ {x}
      /\ Among(kind2, "dead") = Among(kind, "dead")
      /\ RestOf(kind2, who2, t) = RestOf(kind, who, t)
  <2>1. Among(kind2, "stack") = Among(kind, "stack") \ {x}
    BY <1>1, <1>3, <1>4, SetsMoved
  <2>2. /\ kind2[x] = "hand" /\ who2[x] = t
        /\ \A n \in Nodes : n # x => kind2[n] = kind[n] /\ who2[n] = who[n]
        /\ Among(kind2, "dead") = Among(kind, "dead")
        /\ RestOf(kind2, who2, t) = RestOf(kind, who, t)
    BY <1>1, <1>3, <1>4, SetsMoved
  <2> QED
    BY <2>1, <2>2
<1>7. HandOfNext(kind2, who2, t)
  <2> SUFFICES ASSUME NEW n \in Nodes
               PROVE  (kind2[n] = "hand" /\ who2[n] = t) <=> (Holding(t)' /\ node'[t] = n)
    BY DEF HandOfNext
  <2>1. CASE n = x
    BY <1>1, <1>2, <1>6, <2>1
  <2>2. CASE n # x
    BY <1>1, <1>2, <1>3, <1>6, <2>2
  <2> QED
    BY <2>1, <2>2
<1>8. /\ Lists(head', next', Among(kind2, "stack"))
      /\ Lists(to_be_deleted', next', Among(kind2, "dead"))
      /\ Lists(RestFrom(t)', next', RestOf(kind2, who2, t))
      /\ x \in allocated' /\ "hand" \in Kinds /\ next'[x] = next[x]
  BY <1>1, <1>2, <1>3, <1>4, <1>5, <1>6
<1> QED
  BY <1>1, <1>4, <1>7, <1>8, OneMoved

LEMMA FollowPlaced ==
  ASSUME NEW kind, NEW who, Placed(kind, who), TypeOK, ThreadsInv, NEW t \in Threads,
         Follow(t),
         NEW kind2, NEW who2, Moved(kind, who, node[t], "hand", t, kind2, who2)
  PROVE  Placed(kind2, who2)' /\ kind[node[t]] = "rest"
<1> DEFINE x == node[t]
<1>1. /\ pc[t] = "follow" /\ pc'[t] = "scan" /\ x \in Nodes /\ x # Null /\ OthersKept(t)
      /\ link'[t] = next[x] /\ node' = node
      /\ UNCHANGED <<head, to_be_deleted, allocated, next>> /\ OnlyAt(x)
  BY ConstantsAssumption
  DEF Follow, Goto, SetLink, TypeOK, OthersKept, ThreadsInv, OnlyAt, heap, Cleaning
<1>2. ~Holding(t) /\ Holding(t)' /\ RestFrom(t)' = next[x] /\ RestFrom(t) = x
  BY <1>1 DEF RestFrom, Holding, Following, Removed, Retiring
<1>3. /\ kind \in [Nodes -> Kinds] /\ who \in [Nodes -> Threads \cup {Null}]
      /\ Lists(head, next, Among(kind, "stack"))
      /\ Lists(to_be_deleted, next, Among(kind, "dead"))
      /\ Lists(RestFrom(t), next, RestOf(kind, who, t))
      /\ \A n \in Nodes : (kind[n] = "hand" /\ who[n] = t) <=> (Holding(t) /\ node[t] = n)
      /\ \A n \in Nodes : n \in allocated <=> kind[n] # "free"
      /\ {"free", "stack", "dead", "rest", "hand"} \subseteq Kinds
  BY PlacedFacts
<1>4. kind[x] = "rest" /\ who[x] = t
  <2>1. x \in RestOf(kind, who, t)
    BY <1>1, <1>2, <1>3, FirstOfList
  <2> QED
    BY <2>1 DEF RestOf
<1>5. Lists(next[x], next, RestOf(kind, who, t) \ {x})
  BY <1>1, <1>2, <1>3, ListBehind
<1>6. /\ kind2[x] = "hand" /\ who2[x] = t
      /\ \A n \in Nodes : n # x => kind2[n] = kind[n] /\ who2[n] = who[n]
      /\ Among(kind2, "stack") = Among(kind, "stack")
      /\ Among(kind2, "dead") = Among(kind, "dead")
      /\ RestOf(kind2, who2, t) = RestOf(kind, who, t) \ {x}
  BY <1>1, <1>3, <1>4, SetsMoved
<1>7. HandOfNext(kind2, who2, t)
  <2> SUFFICES ASSUME NEW n \in Nodes
               PROVE  (kind2[n] = "hand" /\ who2[n] = t) <=> (Holding(t)' /\ node'[t] = n)
    BY DEF HandOfNext
  <2>1. CASE n = x
    BY <1>1, <1>2, <1>6, <2>1
  <2>2. CASE n # x
    BY <1>1, <1>2, <1>3, <1>6, <2>2
  <2> QED
    BY <2>1, <2>2
<1>8. /\ Lists(head', next', Among(kind2, "stack"))
      /\ Lists(to_be_deleted', next', Among(kind2, "dead"))
      /\ Lists(RestFrom(t)', next', RestOf(kind2, who2, t))
      /\ x \in allocated' /\ "hand" \in Kinds /\ next'[x] = next[x]
  BY <1>1, <1>2, <1>3, <1>4, <1>5, <1>6
<1> QED
  BY <1>1, <1>4, <1>7, <1>8, OneMoved

\* Detach makes the whole list the thread's.
LEMMA DetachPlaced ==
  ASSUME NEW kind, NEW who, Placed(kind, who), TypeOK, ThreadsInv, NEW t \in Threads,
         Detach(t),
         NEW kind2, NEW who2,
         kind2 = [n \in Nodes |-> IF kind[n] = "dead" THEN "rest" ELSE kind[n]],
         who2 = [n \in Nodes |-> IF kind[n] = "dead" THEN t ELSE who[n]]
  PROVE  Placed(kind2, who2)'
<1>1. /\ pc[t] = "detach" /\ pc'[t] = IF to_be_deleted = Null THEN "idle" ELSE "follow"
      /\ node'[t] = to_be_deleted /\ to_be_deleted' = Null /\ OthersKept(t)
      /\ UNCHANGED <<head, allocated, next>>
  BY DEF Detach, Goto, SetNode, TypeOK, OthersKept, heap
<1>2. ~Holding(t) /\ ~Holding(t)' /\ RestFrom(t)' = to_be_deleted /\ RestFrom(t) = Null
  BY <1>1 DEF RestFrom, Holding, Following, Removed, Retiring
<1>3. /\ kind \in [Nodes -> Kinds] /\ who \in [Nodes -> Threads \cup {Null}]
      /\ Lists(head, next, Among(kind, "stack"))
      /\ Lists(to_be_deleted, next, Among(kind, "dead"))
      /\ \A u \in Threads : Lists(RestFrom(u), next, RestOf(kind, who, u))
      /\ \A u \in Threads, n \in Nodes :
           (kind[n] = "hand" /\ who[n] = u) <=> (Holding(u) /\ node[u] = n)
      /\ \A n \in Nodes : n \in allocated <=> kind[n] # "free"
      /\ {"free", "stack", "dead", "rest", "hand"} \subseteq Kinds
  BY PlacedFacts
<1>4. \A n \in Nodes : kind[n] \in {"rest", "hand"} => who[n] \in Threads
  BY DEF Placed
<1>5. kind2 \in [Nodes -> Kinds] /\ who2 \in [Nodes -> Threads \cup {Null}]
  BY <1>3
<1>6. \A n \in Nodes : /\ kind[n] = "dead" => kind2[n] = "rest" /\ who2[n] = t
                       /\ kind[n] # "dead" => kind2[n] = kind[n] /\ who2[n] = who[n]
  OBVIOUS
<1>7. RestOf(kind, who, t) = {}
  BY <1>2, <1>3, FirstOfList
<1>8. /\ Among(kind2, "stack") = Among(kind, "stack") /\ Among(kind2, "dead") = {}
      /\ RestOf(kind2, who2, t) = Among(kind, "dead")
      /\ \A u \in Threads : u # t => RestOf(kind2, who2, u) = RestOf(kind, who, u)
  BY <1>6, <1>7 DEF Among, RestOf
<1>9. ASSUME NEW u \in Threads
      PROVE  Lists(RestFrom(u)', next', RestOf(kind2, who2, u)) /\ Held(kind2, who2, u)'
  <2>1. CASE u = t
    <3>1. Held(kind2, who2, t)'
      BY <1>2, <1>3, <1>6 DEF Held
    <3> QED
      BY <1>1, <1>2, <1>3, <1>8, <2>1, <3>1
  <2>2. CASE u # t
    <3>1. pc'[u] = pc[u] /\ node'[u] = node[u] /\ link'[u] = link[u]
      BY <1>1, <2>2 DEF OthersKept
    <3>2. RestFrom(u)' = RestFrom(u) /\ (Holding(u)' <=> Holding(u))
      BY <3>1 DEF RestFrom, Holding, Removed
    <3>3. Held(kind2, who2, u)'
      BY <1>3, <1>6, <3>1, <3>2 DEF Held
    <3> QED
      BY <1>1, <1>3, <1>8, <2>2, <3>2, <3>3
  <2> QED
    BY <2>1, <2>2
<1>10. Lists(head', next', Among(kind2, "stack")) /\ Lists(to_be_deleted', next', Among(kind2, "dead"))
  BY <1>1, <1>3, <1>8, NothingListed
<1>11. /\ \A n \in Nodes : kind2[n] \in {"rest", "hand"} => who2[n] \in Threads
       /\ \A n \in Nodes : n \in allocated' <=> kind2[n] # "free"
  BY <1>1, <1>3, <1>4, <1>6
<1> QED
  BY <1>5, <1>9, <1>10, <1>11 DEF Placed

\* With every thread idle all nodes are on the two lists.
LEMMA DestroyPlaced ==
  ASSUME NEW kind, NEW who, Placed(kind, who), TypeOK, ThreadsInv, Destroy,
         NEW kind2, kind2 = [n \in Nodes |-> "free"]
  PROVE  Placed(kind2, who)'
<1>1. /\ \A t \in Threads : pc[t] = "idle"
      /\ allocated' = allocated \ (NodesFrom(head) \cup NodesFrom(to_be_deleted))
      /\ head' = Null /\ to_be_deleted' = Null
      /\ UNCHANGED <<pc, node, link>>
  BY DEF Destroy
<1>2. \A t \in Threads : /\ RestFrom(t) = Null /\ RestFrom(t)' = Null
                         /\ ~Holding(t) /\ ~Holding(t)'
  BY <1>1 DEF RestFrom, Holding, Following, Removed, Retiring
<1>3. /\ kind \in [Nodes -> Kinds] /\ who \in [Nodes -> Threads \cup {Null}]
      /\ Lists(head, next, Among(kind, "stack"))
      /\ Lists(to_be_deleted, next, Among(kind, "dead"))
      /\ \A t \in Threads : Lists(RestFrom(t), next, RestOf(kind, who, t))
      /\ \A t \in Threads, n \in Nodes :
           (kind[n] = "hand" /\ who[n] = t) <=> (Holding(t) /\ node[t] = n)
      /\ \A n \in Nodes : n \in allocated <=> kind[n] # "free"
      /\ allocated \subseteq Nodes
      /\ {"free", "stack", "dead", "rest", "hand"} \subseteq Kinds
  BY PlacedFacts
<1>4. NodesFrom(head) = Among(kind, "stack") /\ NodesFrom(to_be_deleted) = Among(kind, "dead")
  BY <1>3, ListedNodes, ChainIsChainOf DEF NodesFrom
<1>5. allocated' = {}
  <2> SUFFICES ASSUME NEW n \in allocated' PROVE FALSE
    OBVIOUS
  <2>1. n \in Nodes /\ kind[n] \in {"rest", "hand"}
    BY <1>1, <1>3, <1>4 DEF Among, Kinds
  <2>2. who[n] \in Threads
    BY <2>1 DEF Placed
  <2>3. RestOf(kind, who, who[n]) = {}
    BY <1>2, <1>3, <2>2, FirstOfList
  <2> QED
    BY <1>2, <1>3, <2>1, <2>2, <2>3 DEF RestOf
<1>6. /\ kind2 \in [Nodes -> Kinds] /\ \A n \in Nodes : kind2[n] = "free"
  BY <1>3
<1>7. /\ Among(kind2, "stack") = {} /\ Among(kind2, "dead") = {}
      /\ \A t \in Threads : RestOf(kind2, who, t) = {}
  BY <1>6 DEF Among, RestOf
<1>8. \A t \in Threads : Held(kind2, who, t)'
  BY <1>2, <1>6 DEF Held
<1>9. Lists(Null, next', {})
  BY NothingListed
<1> QED
  BY <1>1, <1>2, <1>3, <1>5, <1>6, <1>7, <1>8, <1>9 DEF Placed

-----------------------------------------------------------------------------
(* Guarded and DataInv, and the whole invariant for each group of actions.   *)

\* What a step of t does to a node that another thread has protected.
Spares(t) ==
  \A v \in Threads :
    v # t /\ pc[v] \in {"load_next", "exchange"} /\ Protected(v) /\ Safe(v) =>
      /\ node[v] \in allocated'
      /\ node'[t] = node[v] =>
           pc'[t] \notin {"push", "delete"} /\ (pc'[t] = "scan" => scanned'[t] < slot[v])

\* Nor does it change the hazard pointer of another thread, or a field on the stack.
OthersGuards(t) ==
  \A v \in Threads : v # t =>
    slot'[v] = slot[v] /\ scanned'[v] = scanned[v] /\ hazard'[slot[v]] = hazard[slot[v]]

StackKept(kind, kind2, t) ==
  \A n \in Nodes : kind2[n] = "stack" =>
    \/ kind[n] = "stack" /\ next'[n] = next[n]
    \/ pc[t] = "push" /\ node[t] = n

LEMMA GuardsAreGuarded == ASSUME NEW kind PROVE Guarded(kind) <=> \A t \in Threads : GuardsOf(kind, t)
  BY DEF Guarded, GuardsOf

LEMMA GuardsAreGuardedThen == ASSUME NEW kind PROVE Guarded(kind)' <=> \A t \in Threads : GuardsOf(kind, t)'
  BY DEF Guarded, GuardsOf

LEMMA GuardedStep ==
  ASSUME NEW kind, NEW kind2, Guarded(kind), ThreadsInv, NEW t \in Threads,
         OthersKept(t), OthersGuards(t), Spares(t), StackKept(kind, kind2, t),
         GuardsOf(kind2, t)'
  PROVE  Guarded(kind2)'
<1>1. ASSUME NEW v \in Threads, v # t PROVE GuardsOf(kind2, v)'
  <2>1. /\ pc'[v] = pc[v] /\ node'[v] = node[v] /\ link'[v] = link[v]
        /\ slot'[v] = slot[v] /\ hazard'[slot[v]] = hazard[slot[v]]
    BY <1>1 DEF OthersKept, OthersGuards
  <2>2. Protected(v)' <=> Protected(v)
    BY <2>1 DEF Protected
  <2>3. GuardsOf(kind, v)
    BY GuardsAreGuarded
  <2>4. ASSUME pc[v] \in {"load_next", "exchange"}, Protected(v) PROVE Safe(v)'
    <3>1. Safe(v)
      BY <2>3, <2>4 DEF GuardsOf
    <3>2. /\ node[v] \in allocated'
          /\ node'[t] = node[v] =>
               pc'[t] \notin {"push", "delete"} /\ (pc'[t] = "scan" => scanned'[t] < slot[v])
      BY <1>1, <2>4, <3>1 DEF Spares
    <3>3. ASSUME NEW u \in Threads, node'[u] = node[v]
          PROVE  pc'[u] \notin {"push", "delete"} /\ (pc'[u] = "scan" => scanned'[u] < slot[v])
      <4>1. CASE u = t
        BY <3>2, <3>3, <4>1
      <4>2. CASE u # t
        BY <3>1, <3>3, <4>2 DEF Safe, OthersKept, OthersGuards
      <4> QED
        BY <4>1, <4>2
    <3> QED
      BY <2>1, <3>2, <3>3 DEF Safe
  <2>5. ASSUME pc[v] = "exchange", Protected(v), kind2[node[v]] = "stack" PROVE link[v] = next'[node[v]]
    <3>1. Safe(v) /\ node[v] \in Nodes
      BY <2>3, <2>5 DEF GuardsOf, ThreadsInv
    <3>2. ~(pc[t] = "push" /\ node[t] = node[v])
      BY <3>1 DEF Safe
    <3>3. kind[node[v]] = "stack" /\ next'[node[v]] = next[node[v]]
      BY <2>5, <3>1, <3>2 DEF StackKept
    <3> QED
      BY <2>3, <2>5, <3>3 DEF GuardsOf
  <2> QED
    BY <2>1, <2>2, <2>3, <2>4, <2>5 DEF GuardsOf
<1> QED
  BY <1>1, GuardsAreGuardedThen

\* The usual step: nothing is deleted, t itself guards nothing afterwards.
LEMMA GuardedUsual ==
  ASSUME NEW kind, NEW kind2, Guarded(kind), ThreadsInv, NEW t \in Threads,
         OthersKept(t), OthersGuards(t), StackKept(kind, kind2, t),
         allocated \subseteq allocated',
         pc'[t] \notin {"push", "delete", "scan"},
         pc'[t] \notin {"recheck", "load_next", "exchange"}
  PROVE  Guarded(kind2)'
<1>1. Spares(t)
  BY DEF Spares, Safe
<1>2. GuardsOf(kind2, t)'
  BY DEF GuardsOf
<1> QED
  BY <1>1, <1>2, GuardedStep

\* got does not change and no node gets other data, or becomes unpopped.
LEMMA DataKept ==
  ASSUME NEW kind, NEW kind2, DataInv(kind), UNCHANGED <<got, pushes>>, allocated' \subseteq allocated,
         \A n \in allocated' : data'[n] = data[n],
         \A n \in Nodes : Unpopped(kind2, n)' => Unpopped(kind, n) /\ data'[n] = data[n]
  PROVE  DataInv(kind2)'
  BY DEF DataInv

LEMMA UnpoppedIsPlaced ==
  ASSUME NEW kind, NEW who, Placed(kind, who), NEW n \in Nodes, Unpopped(kind, n)
  PROVE  n \in allocated
<1>1. CASE kind[n] = "stack"
  BY <1>1 DEF Placed
<1>2. ASSUME NEW t \in Threads, node[t] = n, pc[t] \in {"push", "clear", "take"} PROVE n \in allocated
  <2>1. Holding(t)
    BY <1>2, ConstantsAssumption DEF Holding, Removed, Retiring
  <2> QED
    BY <1>2, <2>1 DEF Placed, Held
<1> QED
  BY <1>1, <1>2 DEF Unpopped

AllKept(kind, who) == Placed(kind, who) /\ Guarded(kind) /\ DataInv(kind)

LEMMA PushSteps ==
  ASSUME TypeOK, ThreadsInv, NEW kind, NEW who, AllKept(kind, who), NEW t \in Threads,
         CallPush(t) \/ Push(t) \/ PushAgain(t)
  PROVE  Kept'
<1>0. Placed(kind, who) /\ Guarded(kind) /\ DataInv(kind)
  BY DEF AllKept
<1>1. CASE CallPush(t)
  <2> DEFINE x == node'[t]
  <2>1. /\ x \in Nodes /\ x \notin allocated /\ allocated' = allocated \cup {x}
        /\ pc'[t] = "push" /\ pc' = [pc EXCEPT ![t] = "push"]
        /\ \A u \in Threads : u # t => pc'[u] = pc[u] /\ node'[u] = node[u] /\ link'[u] = link[u]
        /\ data' = [data EXCEPT ![x] = pushes + 1] /\ pushes' = pushes + 1
        /\ UNCHANGED <<next, hazard, assigned, slot, scanned, got>>
    BY <1>1 DEF CallPush, Goto, SetNode, SetLink, TypeOK, hazards
  <2>2. PICK kind2, who2 : Moved(kind, who, x, "hand", t, kind2, who2)
    BY DEF Moved
  <2>3. Placed(kind2, who2)'
    BY <1>0, <1>1, <2>2, CallPushPlaced
  <2>4. kind2[x] = "hand" /\ \A n \in Nodes : n # x => kind2[n] = kind[n]
    BY <1>0, <2>1, <2>2 DEF Moved, Placed
  <2>5. Guarded(kind2)'
    <3>1. OthersKept(t) /\ OthersGuards(t) /\ StackKept(kind, kind2, t)
      BY <2>1, <2>4 DEF OthersKept, OthersGuards, StackKept
    <3>2. Spares(t)
      BY <2>1 DEF Spares, Safe
    <3>3. GuardsOf(kind2, t)'
      BY <2>1 DEF GuardsOf
    <3> QED
      BY <1>0, <3>1, <3>2, <3>3, GuardedStep
  <2>6. DataInv(kind2)'
    <3>1. pushes \in Nat /\ (\A n \in allocated : n \in Nodes /\ n # x /\ data'[n] = data[n]) /\ data'[x] = pushes + 1
      BY <2>1 DEF TypeOK
    <3>2. 1 .. pushes \subseteq 1 .. pushes' /\ pushes + 1 \in 1 .. pushes' /\ pushes + 1 \notin 1 .. pushes
      BY <2>1, <3>1
    <3>3. got' \subseteq 1 .. pushes'
      BY <1>0, <2>1, <3>2 DEF DataInv
    <3>4. \A n \in allocated' : data'[n] \in 1 .. pushes'
      BY <1>0, <2>1, <3>1, <3>2 DEF DataInv
    <3>5. \A n, m \in allocated' : data'[n] = data'[m] => n = m
      BY <1>0, <2>1, <3>1, <3>2 DEF DataInv
    <3>6. ASSUME NEW n \in Nodes, Unpopped(kind2, n)' PROVE data'[n] \notin got'
      <4>1. CASE n = x
        BY <1>0, <2>1, <3>1, <3>2, <4>1 DEF DataInv
      <4>2. CASE n # x
        <5>1. Unpopped(kind, n)
          BY <2>1, <2>4, <3>6, <4>2 DEF Unpopped
        <5>2. n \in allocated
          BY <1>0, <5>1, UnpoppedIsPlaced
        <5> QED
          BY <1>0, <2>1, <3>1, <5>1, <5>2 DEF DataInv
      <4> QED
        BY <4>1, <4>2
    <3> QED
      BY <3>3, <3>4, <3>5, <3>6 DEF DataInv
  <2> QED
    BY <2>3, <2>5, <2>6 DEF Kept
<1>2. CASE Push(t)
  <2> DEFINE x == node[t]
  <2>1. /\ x \in Nodes /\ pc[t] = "push" /\ pc'[t] = "idle"
        /\ \A u \in Threads : u # t => pc'[u] = pc[u] /\ node'[u] = node[u] /\ link'[u] = link[u]
        /\ \A n \in Nodes : n # x => next'[n] = next[n]
        /\ UNCHANGED <<data, allocated, hazard, assigned, slot, scanned, got, pushes>>
    BY <1>2 DEF Push, Goto, SetNode, SetLink, TypeOK, ThreadsInv, hazards, history
  <2>2. PICK kind2, who2 : Moved(kind, who, x, "stack", t, kind2, who2)
    BY DEF Moved
  <2>3. Placed(kind2, who2)'
    BY <1>0, <1>2, <2>2, PushPlaced
  <2>4. kind2[x] = "stack" /\ \A n \in Nodes : n # x => kind2[n] = kind[n]
    BY <1>0, <2>1, <2>2 DEF Moved, Placed
  <2>5. Guarded(kind2)'
    <3>1. OthersKept(t) /\ OthersGuards(t) /\ StackKept(kind, kind2, t)
      BY <2>1, <2>4 DEF OthersKept, OthersGuards, StackKept
    <3> QED
      BY <1>0, <2>1, <3>1, GuardedUsual
  <2>6. \A n \in Nodes : Unpopped(kind2, n)' => Unpopped(kind, n)
    BY <2>1, <2>4 DEF Unpopped
  <2>7. DataInv(kind2)'
    BY <1>0, <2>1, <2>6, DataKept
  <2> QED
    BY <2>3, <2>5, <2>7 DEF Kept
<1>3. CASE PushAgain(t)
  <2>1. /\ pc[t] = "push" /\ pc' = pc
        /\ \A u \in Threads : u # t => link'[u] = link[u]
        /\ UNCHANGED <<head, to_be_deleted, node, next, data, allocated, hazard, assigned, slot, scanned, got, pushes>>
    BY <1>3 DEF PushAgain, Goto, SetNode, SetLink, TypeOK, ThreadsInv, hazards, history, heap
  <2>2. Placed(kind, who)'
    <3>1. ASSUME NEW u \in Threads
          PROVE  RestFrom(u)' = RestFrom(u) /\ (Holding(u)' <=> Holding(u)) /\ node'[u] = node[u]
      BY <2>1 DEF RestFrom, Holding, Removed, Following
    <3> QED
      BY <1>0, <2>1, <3>1, NothingMoved
  <2>3. Guarded(kind)'
    <3>1. OthersKept(t) /\ OthersGuards(t) /\ StackKept(kind, kind, t)
      BY <2>1 DEF OthersKept, OthersGuards, StackKept
    <3>2. Spares(t)
      BY <2>1 DEF Spares, Safe
    <3>3. GuardsOf(kind, t)'
      BY <2>1 DEF GuardsOf
    <3> QED
      BY <1>0, <3>1, <3>2, <3>3, GuardedStep
  <2>4. \A n \in Nodes : Unpopped(kind, n)' => Unpopped(kind, n)
    BY <2>1 DEF Unpopped
  <2>5. DataInv(kind)'
    BY <1>0, <2>1, <2>4, DataKept
  <2> QED
    BY <2>2, <2>3, <2>5 DEF Kept
<1> QED
  BY <1>1, <1>2, <1>3

\* The steps of pop that move no node.
LEMMA PopQuietSteps ==
  ASSUME TypeOK, ThreadsInv, ThreadsInv', NEW kind, NEW who, AllKept(kind, who), NEW t \in Threads,
         ~astray',
         CallPop(t) \/ Protect(t) \/ Recheck(t) \/ LoadNext(t) \/ LoadNextOfNull(t)
           \/ ExchangeFails(t) \/ Clear(t)
  PROVE  Kept'
<1>0. Placed(kind, who) /\ Guarded(kind) /\ DataInv(kind)
  BY DEF AllKept
<1> USE DEF Goto, SetNode, SetLink
<1>1. /\ UNCHANGED <<head, to_be_deleted, next, data, allocated, scanned, got, pushes>>
      /\ \A u \in Threads : u # t => pc'[u] = pc[u] /\ node'[u] = node[u] /\ link'[u] = link[u]
  BY DEF CallPop, Protect, Recheck, LoadNext, LoadNextOfNull, ExchangeFails, Clear, heap,
     history, TypeOK
<1>2. \A u \in Threads : u # t => slot'[u] = slot[u] /\ hazard'[slot[u]] = hazard[slot[u]]
  <2>1. CASE CallPop(t)
    BY <2>1 DEF CallPop, TakeSlot, TypeOK
  <2>2. CASE Protect(t) \/ Clear(t)
    <3>1. slot' = slot /\ slot[t] # 0 /\ \E n : hazard' = [hazard EXCEPT ![slot[t]] = n]
      BY <2>2 DEF Protect, Clear, ThreadsInv, Popping
    <3>2. \A u \in Threads : u # t => slot[u] # slot[t]
      BY <3>1 DEF ThreadsInv
    <3> QED
      BY <3>1, <3>2 DEF TypeOK
  <2>3. CASE Recheck(t) \/ LoadNext(t) \/ LoadNextOfNull(t) \/ ExchangeFails(t)
    BY <2>3 DEF Recheck, LoadNext, LoadNextOfNull, ExchangeFails, hazards
  <2> QED
    BY <2>1, <2>2, <2>3
<1>3. \/ pc[t] \in {"idle", "protect", "recheck", "load_next", "exchange"}
      \/ pc[t] = "clear" /\ node[t] = Null /\ pc'[t] = "idle"
      \/ pc[t] = "clear" /\ node[t] # Null /\ pc'[t] = "take" /\ node'[t] = node[t]
  BY DEF CallPop, Protect, Recheck, LoadNext, LoadNextOfNull, ExchangeFails, Clear, TypeOK
<1>4. pc[t] # "clear" => \/ pc'[t] \in {"protect", "recheck", "load_next", "exchange"}
                         \/ pc'[t] = "clear" /\ node'[t] = Null
                         \/ pc'[t] = "crashed"
  BY DEF CallPop, Protect, Recheck, LoadNext, LoadNextOfNull, ExchangeFails, Clear, TypeOK
<1>5. Placed(kind, who)'
  <2>1. ASSUME NEW u \in Threads
        PROVE  /\ RestFrom(u)' = RestFrom(u) /\ (Holding(u)' <=> Holding(u))
               /\ Holding(u) => node'[u] = node[u]
    <3>1. CASE u = t
      <4>1. RestFrom(t)' = RestFrom(t)
        BY <1>3, <1>4 DEF RestFrom, Following
      <4>2. /\ Holding(t)' <=> Holding(t)
            /\ Holding(t) => node'[t] = node[t]
        BY <1>3, <1>4 DEF Holding, Following, Removed, Retiring
      <4> QED
        BY <3>1, <4>1, <4>2
    <3>2. CASE u # t
      BY <1>1, <3>2 DEF RestFrom, Holding, Removed, Following
    <3> QED
      BY <3>1, <3>2
  <2> QED
    BY <1>0, <1>1, <2>1, NothingMoved
<1>6. \A n \in Nodes : Unpopped(kind, n)' => Unpopped(kind, n)
  <2> SUFFICES ASSUME NEW n \in Nodes, NEW u \in Threads, node'[u] = n, pc'[u] \in {"push", "clear", "take"}
               PROVE  node[u] = n /\ pc[u] \in {"push", "clear", "take"}
    BY DEF Unpopped
  <2>1. CASE u = t
    BY <1>3, <1>4, <2>1, ConstantsAssumption
  <2>2. CASE u # t
    BY <1>1, <2>2
  <2> QED
    BY <2>1, <2>2
<1>7. DataInv(kind)'
  BY <1>0, <1>1, <1>6, DataKept
<1>8. Guarded(kind)'
  <2>1. OthersKept(t) /\ OthersGuards(t) /\ StackKept(kind, kind, t)
    BY <1>1, <1>2 DEF OthersKept, OthersGuards, StackKept
  <2>2. Spares(t)
    <3>1. pc'[t] \notin {"push", "delete", "scan"}
      BY <1>3, <1>4
    <3> QED
      BY <1>1, <3>1 DEF Spares, Safe
  <2>3. GuardsOf(kind, t)'
    <3>1. GuardsOf(kind, t)
      BY <1>0, GuardsAreGuarded
    <3>2. CASE CallPop(t) \/ ExchangeFails(t) \/ Clear(t) \/ LoadNextOfNull(t)
      <4>1. pc'[t] \notin {"recheck", "load_next", "exchange"}
        BY <3>2 DEF CallPop, ExchangeFails, Clear, LoadNextOfNull, TypeOK
      <4> QED
        BY <4>1 DEF GuardsOf
    <3>3. CASE Protect(t)
      <4>1. pc'[t] = "recheck" /\ node'[t] = node[t] /\ slot' = slot /\ slot[t] \in Slots
            /\ hazard' = [hazard EXCEPT ![slot[t]] = node[t]]
        BY <3>3, ConstantsAssumption DEF Protect, TypeOK, ThreadsInv, Popping, Slots
      <4>2. Protected(t)'
        BY <4>1 DEF Protected, TypeOK
      <4> QED
        BY <4>1, <4>2 DEF GuardsOf
    <3>4. CASE Recheck(t)
      <4>1. /\ pc[t] = "recheck" /\ node'[t] = head /\ slot' = slot /\ hazard' = hazard
            /\ pc'[t] = IF node[t] = Null /\ head = Null THEN "clear" ELSE "load_next"
        BY <3>4 DEF Recheck, TypeOK, hazards
      <4>2. ASSUME pc'[t] = "load_next", Protected(t)' PROVE Safe(t)'
        <5>1. node[t] = hazard[slot[t]] /\ head = hazard[slot[t]]
          BY <3>1, <4>1, <4>2 DEF GuardsOf, Protected
        <5>2. head # Null
          BY <4>1, <4>2, <5>1
        <5>3. head \in Nodes /\ kind[head] = "stack" /\ head \in allocated
          <6>1. head \in Among(kind, "stack")
            BY <1>0, <5>2, FirstOfList DEF Placed
          <6> QED
            BY <1>0, <6>1 DEF Among, Placed
        <5>4. ASSUME NEW u \in Threads, node'[u] = head, pc'[u] \in {"push", "delete", "scan"} PROVE FALSE
          <6>1. u # t
            BY <4>2, <5>4
          <6>2. node[u] = head /\ Holding(u)
            BY <1>1, <5>4, <6>1 DEF Holding, Following
          <6>3. kind[head] = "hand"
            BY <1>0, <5>3, <6>2 DEF Placed, Held
          <6> QED
            BY <5>3, <6>3
        <5> QED
          BY <1>1, <4>1, <5>3, <5>4 DEF Safe
      <4> QED
        BY <4>1, <4>2 DEF GuardsOf
    <3>5. CASE LoadNext(t)
      <4>1. /\ pc[t] = "load_next" /\ pc'[t] = "exchange" /\ node' = node /\ slot' = slot /\ hazard' = hazard
            /\ node[t] \in allocated => link'[t] = next[node[t]]
            /\ \A u \in Threads : u # t => pc'[u] = pc[u]
        BY <3>5 DEF LoadNext, TypeOK, hazards
      <4>2. Protected(t)' <=> Protected(t)
        BY <4>1 DEF Protected
      <4>3. CASE Protected(t)
        <5>1. Safe(t)
          BY <3>1, <4>1, <4>3 DEF GuardsOf
        <5>2. Safe(t)'
          BY <1>1, <4>1, <5>1 DEF Safe
        <5> QED
          BY <1>1, <4>1, <5>1, <5>2 DEF GuardsOf, Safe
      <4>4. CASE ~Protected(t)
        BY <4>1, <4>2, <4>4 DEF GuardsOf
      <4> QED
        BY <4>3, <4>4
    <3> QED
      BY <3>2, <3>3, <3>4, <3>5
  <2> QED
    BY <1>0, <2>1, <2>2, <2>3, GuardedStep
<1> QED
  BY <1>5, <1>7, <1>8 DEF Kept

LEMMA PopMovingSteps ==
  ASSUME TypeOK, ThreadsInv, NEW kind, NEW who, AllKept(kind, who), NEW t \in Threads,
         ~astray', Exchange(t) \/ Take(t) \/ Retire(t)
  PROVE  Kept'
<1>0. Placed(kind, who) /\ Guarded(kind) /\ DataInv(kind)
  BY DEF AllKept
<1> DEFINE x == node[t]
<1>1. /\ \A u \in Threads : u # t => pc'[u] = pc[u] /\ node'[u] = node[u] /\ link'[u] = link[u]
      /\ UNCHANGED <<data, allocated, hazard, assigned, slot, scanned, pushes>>
      /\ pc'[t] \in {"clear", "retire", "idle", "detach"} /\ x \in Nodes /\ pc[t] # "push"
      /\ \A n \in Nodes : n # x => next'[n] = next[n]
  BY DEF Exchange, Take, Retire, Goto, SetNode, SetLink, TypeOK, ThreadsInv, Retiring, hazards,
     history, heap
<1>2. OthersKept(t) /\ OthersGuards(t) /\ allocated \subseteq allocated'
  BY <1>1 DEF OthersKept, OthersGuards
<1>3. CASE Exchange(t)
  <2>1. PICK kind2, who2 : Moved(kind, who, x, "hand", t, kind2, who2)
    BY DEF Moved
  <2>2. Placed(kind2, who2)' /\ kind[x] = "stack"
    BY <1>0, <1>3, <2>1, ExchangePlaced
  <2>3. kind2[x] = "hand" /\ \A n \in Nodes : n # x => kind2[n] = kind[n]
    BY <1>0, <1>1, <2>1 DEF Moved, Placed
  <2>4. StackKept(kind, kind2, t)
    BY <1>1, <2>3 DEF StackKept
  <2>5. Guarded(kind2)'
    BY <1>0, <1>1, <1>2, <2>4, GuardedUsual
  <2>6. \A n \in Nodes : Unpopped(kind2, n)' => Unpopped(kind, n)
    <3>1. node' = node
      BY <1>3 DEF Exchange
    <3> QED
      BY <1>1, <2>2, <2>3, <3>1 DEF Unpopped
  <2>7. DataInv(kind2)'
    <3>1. got' = got
      BY <1>3 DEF Exchange, history
    <3> QED
      BY <1>0, <1>1, <2>6, <3>1, DataKept
  <2> QED
    BY <2>2, <2>5, <2>7 DEF Kept
<1>4. CASE Take(t)
  <2>1. PICK kind2, who2 : Moved(kind, who, x, "hand", t, kind2, who2)
    BY DEF Moved
  <2>2. Placed(kind2, who2)'
    BY <1>0, <1>4, <2>1, TakePlaced
  <2>3. kind2[x] = "hand" /\ \A n \in Nodes : n # x => kind2[n] = kind[n]
    BY <1>0, <1>1, <2>1 DEF Moved, Placed
  <2>4. StackKept(kind, kind2, t)
    BY <1>1, <2>3 DEF StackKept
  <2>5. Guarded(kind2)'
    BY <1>0, <1>1, <1>2, <2>4, GuardedUsual
  <2>6. /\ pc[t] = "take" /\ pc'[t] = "retire" /\ node' = node
        /\ got' = got \cup ({data[x]} \ {0})
    BY <1>4 DEF Take, Goto, TypeOK
  <2>7. Holding(t) /\ kind[x] = "hand" /\ who[x] = t /\ x \in allocated
    <3>1. Holding(t)
      BY <1>1, <2>6, ConstantsAssumption DEF Holding, Removed, Retiring
    <3> QED
      BY <1>0, <1>1, <3>1 DEF Placed, Held
  <2>8. ASSUME NEW n \in Nodes, Unpopped(kind2, n)' PROVE Unpopped(kind, n) /\ n # x
    <3>1. CASE kind2[n] = "stack"
      BY <2>3, <3>1 DEF Unpopped
    <3>2. ASSUME NEW u \in Threads, node'[u] = n, pc'[u] \in {"push", "clear", "take"}
          PROVE  Unpopped(kind, n) /\ n # x
      <4>1. u # t /\ node[u] = n /\ pc[u] \in {"push", "clear", "take"}
        BY <1>1, <2>6, <3>2
      <4>2. Holding(u)
        BY <4>1, ConstantsAssumption DEF Holding, Removed, Retiring
      <4>3. who[n] = u
        BY <1>0, <4>1, <4>2 DEF Placed, Held
      <4> QED
        BY <2>7, <4>1, <4>3 DEF Unpopped
    <3> QED
      BY <2>8, <3>1, <3>2 DEF Unpopped
  <2>9. DataInv(kind2)'
    <3>1. got' \subseteq 1 .. pushes'
      BY <1>0, <1>1, <2>6, <2>7 DEF DataInv
    <3>2. ASSUME NEW n \in Nodes, Unpopped(kind2, n)' PROVE data'[n] \notin got'
      <4>1. Unpopped(kind, n) /\ n # x
        BY <2>8, <3>2
      <4>2. n \in allocated
        BY <1>0, <4>1, UnpoppedIsPlaced
      <4>3. data[n] # data[x] /\ data[n] \notin got
        BY <1>0, <2>7, <4>1, <4>2 DEF DataInv
      <4> QED
        BY <1>1, <2>6, <4>3
    <3> QED
      BY <1>0, <1>1, <3>1, <3>2 DEF DataInv
  <2> QED
    BY <2>2, <2>5, <2>9 DEF Kept
<1>5. CASE Retire(t)
  <2>1. PICK kind2, who2 : Moved(kind, who, x, "dead", t, kind2, who2)
    BY DEF Moved
  <2>2. Placed(kind2, who2)'
    BY <1>0, <1>5, <2>1, RetirePlaced
  <2>3. kind2[x] = "dead" /\ \A n \in Nodes : n # x => kind2[n] = kind[n]
    BY <1>0, <1>1, <2>1 DEF Moved, Placed
  <2>4. StackKept(kind, kind2, t)
    BY <1>1, <2>3 DEF StackKept
  <2>5. Guarded(kind2)'
    BY <1>0, <1>1, <1>2, <2>4, GuardedUsual
  <2>6. got' = got /\ pc'[t] \in {"idle", "detach"}
    BY <1>5 DEF Retire, Goto, TypeOK, history
  <2>7. \A n \in Nodes : Unpopped(kind2, n)' => Unpopped(kind, n)
    BY <1>1, <2>3, <2>6 DEF Unpopped
  <2>8. DataInv(kind2)'
    BY <1>0, <1>1, <2>6, <2>7, DataKept
  <2> QED
    BY <2>2, <2>5, <2>8 DEF Kept
<1> QED
  BY <1>3, <1>4, <1>5

LEMMA CleanSteps ==
  ASSUME TypeOK, ThreadsInv, NEW kind, NEW who, AllKept(kind, who), NEW t \in Threads, Clean(t)
  PROVE  Kept'
<1>0. Placed(kind, who) /\ Guarded(kind) /\ DataInv(kind)
  BY DEF AllKept
<1> USE DEF Goto, SetNode, SetLink, Continue
<1>1. /\ \A u \in Threads : u # t => pc'[u] = pc[u] /\ node'[u] = node[u] /\ link'[u] = link[u] /\ scanned'[u] = scanned[u]
      /\ UNCHANGED <<hazard, assigned, slot, pushes, got>>
      /\ pc[t] \in Cleaning /\ pc'[t] \in Cleaning \cup {"idle"}
  BY DEF Clean, Detach, Follow, Scan, Delete, PutBack, Requeue, TypeOK, Cleaning, hazards,
     history, heap
<1>2. OthersKept(t) /\ OthersGuards(t)
  BY <1>1 DEF OthersKept, OthersGuards
<1>3. \A n \in Nodes, u \in Threads :
        node'[u] = n /\ pc'[u] \in {"push", "clear", "take"} => node[u] = n /\ pc[u] \in {"push", "clear", "take"}
  BY <1>1 DEF Cleaning
<1>4. pc'[t] \notin {"push", "recheck", "load_next", "exchange"} /\ pc[t] # "push"
  BY <1>1 DEF Cleaning
<1>5. ASSUME NEW kind2 PROVE GuardsOf(kind2, t)'
  BY <1>4 DEF GuardsOf
<1>6. CASE Detach(t)
  <2>1. PICK kind2, who2 :
          /\ kind2 = [n \in Nodes |-> IF kind[n] = "dead" THEN "rest" ELSE kind[n]]
          /\ who2 = [n \in Nodes |-> IF kind[n] = "dead" THEN t ELSE who[n]]
    OBVIOUS
  <2>2. Placed(kind2, who2)'
    BY <1>0, <1>6, <2>1, DetachPlaced
  <2>3. \A n \in Nodes : kind2[n] = "stack" => kind[n] = "stack"
    BY <2>1
  <2>4. /\ UNCHANGED <<next, data, allocated>> /\ pc'[t] \in {"idle", "follow"}
    BY <1>6 DEF Detach, TypeOK, heap
  <2>5. StackKept(kind, kind2, t)
    BY <2>3, <2>4 DEF StackKept
  <2>6. Guarded(kind2)'
    BY <1>0, <1>2, <2>4, <2>5, GuardedUsual
  <2>7. \A n \in Nodes : Unpopped(kind2, n)' => Unpopped(kind, n)
    BY <1>3, <2>3 DEF Unpopped
  <2>8. DataInv(kind2)'
    BY <1>0, <1>1, <2>4, <2>7, DataKept
  <2> QED
    BY <2>2, <2>6, <2>8 DEF Kept
<1>7. CASE Follow(t)
  <2>1. PICK kind2, who2 : Moved(kind, who, node[t], "hand", t, kind2, who2)
    BY DEF Moved
  <2>2. Placed(kind2, who2)'
    BY <1>0, <1>7, <2>1, FollowPlaced
  <2>3. /\ UNCHANGED <<next, data, allocated, scanned>> /\ pc[t] = "follow" /\ pc'[t] = "scan" /\ node[t] \in Nodes
    BY <1>7 DEF Follow, TypeOK, ThreadsInv, heap, Cleaning
  <2>4. \A n \in Nodes : kind2[n] = "stack" => kind[n] = "stack"
    BY <1>0, <2>1, <2>3 DEF Moved, Placed
  <2>5. StackKept(kind, kind2, t)
    BY <2>3, <2>4 DEF StackKept
  <2>6. Spares(t)
    <3> SUFFICES ASSUME NEW v \in Threads, v # t, pc[v] \in {"load_next", "exchange"}, Safe(v)
                 PROVE  node[v] \in allocated' /\ scanned'[t] < slot[v]
      BY <2>3 DEF Spares
    <3>1. scanned'[t] = 0 /\ slot[v] # 0 /\ slot[v] \in 0 .. MaxHazards
      BY <2>3 DEF ThreadsInv, TypeOK, Popping
    <3> QED
      BY <2>3, <3>1, ConstantsAssumption DEF Safe
  <2>7. Guarded(kind2)'
    BY <1>0, <1>2, <1>5, <2>5, <2>6, GuardedStep
  <2>8. \A n \in Nodes : Unpopped(kind2, n)' => Unpopped(kind, n)
    BY <1>3, <2>4 DEF Unpopped
  <2>9. DataInv(kind2)'
    BY <1>0, <1>1, <2>3, <2>8, DataKept
  <2> QED
    BY <2>2, <2>7, <2>9 DEF Kept
<1>8. CASE Scan(t)
  <2> DEFINE i == scanned[t] + 1
  <2>1. /\ UNCHANGED <<head, to_be_deleted, next, data, allocated, node, link>> /\ pc[t] = "scan"
        /\ pc'[t] \in {"scan", "delete", "put_back"}
        /\ pc'[t] \in {"scan", "delete"} => hazard[i] # node[t]
        /\ pc'[t] = "delete" => i >= MaxHazards
        /\ pc'[t] = "scan" => scanned'[t] = i
    BY <1>8 DEF Scan, TypeOK, heap, LastSlot
  <2>2. Placed(kind, who)'
    <3>1. ASSUME NEW u \in Threads
          PROVE  RestFrom(u)' = RestFrom(u) /\ (Holding(u)' <=> Holding(u)) /\ node'[u] = node[u]
      BY <1>1, <2>1 DEF RestFrom, Holding, Removed, Following, Retiring
    <3> QED
      BY <1>0, <2>1, <3>1, NothingMoved
  <2>3. StackKept(kind, kind, t)
    BY <2>1 DEF StackKept
  <2>4. Spares(t)
    <3> SUFFICES ASSUME NEW v \in Threads, v # t, Protected(v), Safe(v), node[t] = node[v],
                        pc[v] \in {"load_next", "exchange"}, pc'[t] \in {"scan", "delete"}
                 PROVE  pc'[t] = "scan" /\ scanned'[t] < slot[v]
      BY <2>1 DEF Spares, Safe
    <3>1. scanned[t] < slot[v]
      BY <2>1 DEF Safe
    <3>2. scanned[t] \in Nat /\ slot[v] \in Nat /\ slot[v] <= MaxHazards /\ MaxHazards \in Nat
      BY ConstantsAssumption DEF TypeOK
    <3>3. slot[v] # i
      BY <2>1 DEF Protected
    <3> QED
      BY <2>1, <3>1, <3>2, <3>3
  <2>5. Guarded(kind)'
    BY <1>0, <1>2, <1>5, <2>3, <2>4, GuardedStep
  <2>6. \A n \in Nodes : Unpopped(kind, n)' => Unpopped(kind, n)
    BY <1>3 DEF Unpopped
  <2>7. DataInv(kind)'
    BY <1>0, <1>1, <2>1, <2>6, DataKept
  <2> QED
    BY <2>2, <2>5, <2>7 DEF Kept
<1>9. CASE Delete(t)
  <2> DEFINE x == node[t]
  <2>1. PICK kind2, who2 : Moved(kind, who, x, "free", t, kind2, who2)
    BY DEF Moved
  <2>2. Placed(kind2, who2)'
    BY <1>0, <1>9, <2>1, DeletePlaced
  <2>3. /\ x \in Nodes /\ pc[t] = "delete" /\ pc'[t] \in {"idle", "follow"}
        /\ allocated' = allocated \ {x}
        /\ \A n \in Nodes : n # x => next'[n] = next[n] /\ data'[n] = data[n]
    BY <1>9 DEF Delete, TypeOK, ThreadsInv, Cleaning
  <2>4. kind2[x] = "free" /\ \A n \in Nodes : n # x => kind2[n] = kind[n]
    BY <1>0, <2>1, <2>3 DEF Moved, Placed
  <2>5. StackKept(kind, kind2, t)
    BY <2>3, <2>4 DEF StackKept
  <2>6. Spares(t)
    <3> SUFFICES ASSUME NEW v \in Threads, v # t, Safe(v) PROVE node[v] \in allocated'
      BY <2>3 DEF Spares
    <3> QED
      BY <2>3 DEF Safe
  <2>7. Guarded(kind2)'
    BY <1>0, <1>2, <1>5, <2>5, <2>6, GuardedStep
  <2>8. Holding(t) /\ kind[x] = "hand" /\ who[x] = t
    <3>1. Holding(t)
      BY <2>3 DEF Holding, Following
    <3> QED
      BY <1>0, <2>3, <3>1 DEF Placed, Held
  <2>9. ASSUME NEW n \in Nodes, Unpopped(kind2, n)' PROVE Unpopped(kind, n) /\ n # x
    <3>1. CASE kind2[n] = "stack"
      BY <2>4, <3>1 DEF Unpopped
    <3>2. ASSUME NEW u \in Threads, node'[u] = n, pc'[u] \in {"push", "clear", "take"}
          PROVE  Unpopped(kind, n) /\ n # x
      <4>1. u # t /\ node[u] = n /\ pc[u] \in {"push", "clear", "take"}
        BY <1>3, <2>3, <3>2
      <4>2. Holding(u)
        BY <4>1, ConstantsAssumption DEF Holding, Removed, Retiring
      <4>3. who[n] = u
        BY <1>0, <4>1, <4>2 DEF Placed, Held
      <4> QED
        BY <2>8, <4>1, <4>3 DEF Unpopped
    <3> QED
      BY <2>9, <3>1, <3>2 DEF Unpopped
  <2>10. DataInv(kind2)'
    <3>1. \A n \in allocated' : data'[n] = data[n]
      BY <2>3 DEF TypeOK
    <3>2. \A n \in Nodes : Unpopped(kind2, n)' => Unpopped(kind, n) /\ data'[n] = data[n]
      BY <2>3, <2>9
    <3> QED
      BY <1>0, <1>1, <2>3, <3>1, <3>2, DataKept
  <2> QED
    BY <2>2, <2>7, <2>10 DEF Kept
<1>10. CASE PutBack(t) \/ Requeue(t)
  <2> DEFINE x == node[t]
             k == IF PutBack(t) THEN "hand" ELSE "dead"
  <2>1. PICK kind2, who2 : Moved(kind, who, x, k, t, kind2, who2)
    BY DEF Moved
  <2>2. Placed(kind2, who2)'
    <3>1. CASE PutBack(t)
      BY <1>0, <2>1, <3>1, TakePlaced
    <3>2. CASE ~PutBack(t)
      BY <1>0, <1>10, <2>1, <3>2, RetirePlaced
    <3> QED
      BY <3>1, <3>2
  <2>3. /\ x \in Nodes /\ pc'[t] \in {"requeue", "idle", "follow"} /\ UNCHANGED <<data, allocated>>
        /\ \A n \in Nodes : n # x => next'[n] = next[n]
    BY <1>10 DEF PutBack, Requeue, TypeOK, ThreadsInv, Cleaning, heap
  <2>4. kind2[x] # "stack" /\ \A n \in Nodes : n # x => kind2[n] = kind[n]
    BY <1>0, <2>1, <2>3 DEF Moved, Placed
  <2>5. StackKept(kind, kind2, t)
    BY <2>3, <2>4 DEF StackKept
  <2>6. Guarded(kind2)'
    BY <1>0, <1>2, <2>3, <2>5, GuardedUsual
  <2>7. \A n \in Nodes : Unpopped(kind2, n)' => Unpopped(kind, n)
    BY <1>3, <2>4 DEF Unpopped
  <2>8. DataInv(kind2)'
    BY <1>0, <1>1, <2>3, <2>7, DataKept
  <2> QED
    BY <2>2, <2>6, <2>8 DEF Kept
<1> QED
  BY <1>6, <1>7, <1>8, <1>9, <1>10 DEF Clean

LEMMA DestroyStep ==
  ASSUME TypeOK, ThreadsInv, NEW kind, NEW who, AllKept(kind, who), Destroy
  PROVE  Kept'
<1>0. Placed(kind, who) /\ Guarded(kind) /\ DataInv(kind)
  BY DEF AllKept
<1>1. PICK kind2 : kind2 = [n \in Nodes |-> "free"]
  OBVIOUS
<1>2. Placed(kind2, who)'
  BY <1>0, <1>1, DestroyPlaced
<1>3. /\ \A t \in Threads : pc'[t] = "idle"
      /\ UNCHANGED <<data, got, pushes>> /\ allocated' \subseteq allocated
  BY DEF Destroy
<1>4. Guarded(kind2)'
  BY <1>3 DEF Guarded, GuardsOf
<1>5. \A n \in Nodes : Unpopped(kind2, n)' => Unpopped(kind, n)
  BY <1>1, <1>3 DEF Unpopped
<1>6. DataInv(kind2)'
  BY <1>0, <1>3, <1>5, DataKept
<1> QED
  BY <1>2, <1>4, <1>6 DEF Kept

LEMMA AstrayStays == [Next]_vars /\ ~astray' => ~astray
<1> SUFFICES ASSUME [Next]_vars, ~astray' PROVE ~astray
  OBVIOUS
<1>1. CASE Destroy
  BY <1>1 DEF Destroy
<1>2. CASE UNCHANGED vars
  BY <1>2 DEF vars, history
<1>3. ASSUME NEW t \in Threads, CallPush(t) \/ Push(t) \/ PushAgain(t) \/ Pop(t) \/ Clean(t)
      PROVE  ~astray
  BY <1>3 DEF CallPush, Push, PushAgain, Pop, CallPop, Protect, Recheck, LoadNext, LoadNextOfNull,
       Exchange, ExchangeFails, Clear, Take, Retire, Clean, Detach, Follow, Scan, Delete, PutBack,
       Requeue, history
<1> QED
  BY <1>1, <1>2, <1>3 DEF Next

LEMMA KeptStep == IInv /\ [Next]_vars => IInv'
<1> SUFFICES ASSUME IInv, [Next]_vars PROVE IInv'
  OBVIOUS
<1>1. TypeOK' /\ ThreadsInv'
  BY TypeStep, ThreadsStep DEF IInv
<1>2. ASSUME ~astray' PROVE Kept'
  <2>1. ~astray
    BY <1>2, AstrayStays
  <2>2. PICK kind, who : AllKept(kind, who)
    BY <2>1 DEF IInv, Kept, AllKept
  <2>3. TypeOK /\ ThreadsInv
    BY DEF IInv
  <2>4. ASSUME NEW t \in Threads, CallPush(t) \/ Push(t) \/ PushAgain(t) PROVE Kept'
    BY <2>2, <2>3, <2>4, PushSteps
  <2>5. ASSUME NEW t \in Threads, Pop(t) PROVE Kept'
    <3>1. CASE CallPop(t) \/ Protect(t) \/ Recheck(t) \/ LoadNext(t) \/ LoadNextOfNull(t)
                 \/ ExchangeFails(t) \/ Clear(t)
      BY <1>1, <1>2, <2>2, <2>3, <3>1, PopQuietSteps
    <3>2. CASE Exchange(t) \/ Take(t) \/ Retire(t)
      BY <1>2, <2>2, <2>3, <3>2, PopMovingSteps
    <3> QED
      BY <2>5, <3>1, <3>2 DEF Pop
  <2>6. ASSUME NEW t \in Threads, Clean(t) PROVE Kept'
    BY <2>2, <2>3, <2>6, CleanSteps
  <2>7. CASE Destroy
    BY <2>2, <2>3, <2>7, DestroyStep
  <2>8. CASE UNCHANGED vars
    <3>1. Placed(kind, who)' /\ Guarded(kind)' /\ DataInv(kind)'
      <4>1. /\ UNCHANGED <<head, to_be_deleted, next, data, allocated, hazard, slot, pc, node, link, scanned, pushes, got>>
        BY <2>8 DEF vars, heap, hazards, history
      <4>2. Placed(kind, who)'
        BY <2>2, <4>1 DEF AllKept, Placed, Held, Holding, Removed, RestFrom
      <4>3. Guarded(kind)'
        BY <2>2, <4>1 DEF AllKept, Guarded, GuardsOf, Protected, Safe
      <4>4. DataInv(kind)'
        BY <2>2, <4>1 DEF AllKept, DataInv, Unpopped
      <4> QED
        BY <4>2, <4>3, <4>4
    <3> QED
      BY <3>1 DEF Kept
  <2> QED
    BY <2>4, <2>5, <2>6, <2>7, <2>8 DEF Next
<1> QED
  BY <1>1, <1>2 DEF IInv

-----------------------------------------------------------------------------
(* The invariant, and what follows from it.                                  *)

\* IInv holds in every state of every behaviour.
THEOREM Invariance == Spec => []IInv
  BY InitIInv, KeptStep, PTL DEF Spec

\* The types: ids of hazard pointers stay below MAX_THREADS, a scan ends at the last
\* of them, and head, the list and the fields are addresses of nodes or nullptr.
THEOREM TypeCorrect == Spec => []TypeOK
<1>1. IInv => TypeOK
  BY DEF IInv
<1> QED
  BY <1>1, Invariance, PTL

\* As long as every node was used under protection: a node that a pop has protected
\* and found to be still the head is not deleted before the pop has read its next
\* field and tried its exchange, for delete_nodes_no_hazards looks at every hazard
\* pointer after the node has left the stack.
THEOREM ProtectedNodesLive == Spec => []ProtectedLives
<1>1. IInv => ProtectedLives
  BY DEF IInv, Kept, Guarded, GuardsOf, Safe, ProtectedLives
<1> QED
  BY <1>1, Invariance, PTL

\* What a thread has in its hands is what kind and who say.
LEMMA HandIsHand ==
  ASSUME TypeOK, ThreadsInv, NEW kind, NEW who, Placed(kind, who), NEW t \in Threads
  PROVE  InHand(t) = {n \in Nodes : kind[n] \in {"rest", "hand"} /\ who[n] = t}
<1>1. /\ Lists(RestFrom(t), next, RestOf(kind, who, t))
      /\ \A n \in Nodes : (kind[n] = "hand" /\ who[n] = t) <=> (Holding(t) /\ node[t] = n)
      /\ Holding(t) => node[t] \in Nodes
  BY PlacedFacts
<1>2. NodesFrom(RestFrom(t)) = RestOf(kind, who, t)
  BY <1>1, ListedNodes, ChainIsChainOf DEF NodesFrom
<1>3. RestFrom(t) = Null => RestOf(kind, who, t) = {}
  BY <1>1, FirstOfList
<1>4. InHand(t) = (IF Holding(t) THEN {node[t]} ELSE {}) \cup RestOf(kind, who, t)
  <2>1. CASE pc[t] = "push" \/ Removed(t)
    BY <1>3, <2>1 DEF InHand, Holding, RestFrom, Removed, Retiring, Following
  <2>2. CASE pc[t] = "follow"
    BY <1>2, <2>2 DEF InHand, Holding, RestFrom, Removed, Retiring, Following
  <2>3. CASE pc[t] \in Following
    BY <1>2, <2>3 DEF InHand, Holding, RestFrom, Removed, Retiring, Following, Cleaning
  <2>4. CASE ~(pc[t] = "push" \/ Removed(t)) /\ pc[t] # "follow" /\ pc[t] \notin Following
    BY <1>3, <2>4 DEF InHand, Holding, RestFrom, Following, Cleaning
  <2> QED
    BY <2>1, <2>2, <2>3, <2>4
<1> QED
  BY <1>1, <1>4 DEF RestOf

\* As long as every node was used under protection: each allocated node is on the
\* stack, on the list to be deleted or in the hands of one thread, and in one of
\* these only, so none is leaked, retired twice or deleted while it can be reached.
THEOREM NoNodeLost == Spec => []NodesAccounted
<1>1. ASSUME IInv, ~astray
      PROVE  /\ allocated = NodesFrom(head) \cup NodesFrom(to_be_deleted)
                              \cup UNION {InHand(t) : t \in Threads}
             /\ NodesFrom(head) \cap NodesFrom(to_be_deleted) = {}
             /\ \A t \in Threads : InHand(t) \cap (NodesFrom(head) \cup NodesFrom(to_be_deleted)) = {}
             /\ \A t, u \in Threads : t # u => InHand(t) \cap InHand(u) = {}
  <2>1. PICK kind, who : Placed(kind, who)
    BY <1>1 DEF IInv, Kept
  <2>2. TypeOK /\ ThreadsInv
    BY <1>1 DEF IInv
  <2>3. /\ kind \in [Nodes -> Kinds]
        /\ \A n \in Nodes : n \in allocated <=> kind[n] # "free"
        /\ allocated \subseteq Nodes
        /\ Lists(head, next, Among(kind, "stack"))
        /\ Lists(to_be_deleted, next, Among(kind, "dead"))
    BY <2>1, <2>2, PlacedFacts
  <2>4. NodesFrom(head) = Among(kind, "stack") /\ NodesFrom(to_be_deleted) = Among(kind, "dead")
    BY <2>3, ListedNodes, ChainIsChainOf DEF NodesFrom
  <2>5. \A t \in Threads : InHand(t) = {n \in Nodes : kind[n] \in {"rest", "hand"} /\ who[n] = t}
    BY <2>1, <2>2, HandIsHand
  <2>6. \A n \in Nodes : kind[n] \in {"rest", "hand"} => who[n] \in Threads
    BY <2>1 DEF Placed
  <2>7. ASSUME NEW n
        PROVE  n \in allocated <=> n \in NodesFrom(head) \cup NodesFrom(to_be_deleted)
                              \cup UNION {InHand(t) : t \in Threads}
    <3>1. n \in Nodes => kind[n] \in {"free", "stack", "dead", "rest", "hand"}
      BY <2>3 DEF Kinds
    <3> QED
      BY <2>3, <2>4, <2>5, <2>6, <3>1 DEF Among
  <2>8. /\ NodesFrom(head) \cap NodesFrom(to_be_deleted) = {}
        /\ \A t \in Threads : InHand(t) \cap (NodesFrom(head) \cup NodesFrom(to_be_deleted)) = {}
        /\ \A t, u \in Threads : t # u => InHand(t) \cap InHand(u) = {}
    BY <2>4, <2>5 DEF Among
  <2> QED
    BY <2>7, <2>8
<1>2. IInv => NodesAccounted
  BY <1>1 DEF NodesAccounted
<1> QED
  BY <1>2, Invariance, PTL

-----------------------------------------------------------------------------
(* The refinement: the stack of nodes is a last-in first-out stack of items.  *)

\* Sequences: what appending at the front and taking the tail do, by index.
LEMMA PutBefore ==
  ASSUME NEW X, NEW L \in Nat, NEW f \in [1 .. L -> X], NEW d \in X
  PROVE  <<d>> \o f = [k \in 1 .. L + 1 |-> IF k = 1 THEN d ELSE f[k - 1]]
<1> DEFINE g == [k \in 1 .. L + 1 |-> IF k = 1 THEN d ELSE f[k - 1]]
           one == <<d>>
<1>1. f \in Seq(X) /\ Len(f) = L
  <2>1. f \in Seq(X) /\ DOMAIN f = 1 .. L
    BY IsASeq
  <2> QED
    BY <2>1, LenProperties
<1>2. one \in Seq(X) /\ Len(one) = 1 /\ one[1] = d
  OBVIOUS
<1> HIDE DEF one
<1>3. /\ one \o f \in Seq(X) /\ Len(one \o f) = 1 + L
      /\ \A i \in 1 .. 1 + L : (one \o f)[i] = IF i <= 1 THEN one[i] ELSE f[i - 1]
  BY <1>1, <1>2, ConcatProperties
<1>4. \A k \in 1 .. L + 1 : k # 1 => k - 1 \in 1 .. L
  OBVIOUS
<1>5. g \in [1 .. L + 1 -> X] /\ L + 1 \in Nat
  BY <1>4
<1>6. g \in Seq(X) /\ Len(g) = L + 1
  <2>1. g \in Seq(X) /\ DOMAIN g = 1 .. L + 1
    BY <1>5, IsASeq
  <2> HIDE DEF g
  <2> QED
    BY <1>5, <2>1, LenProperties
<1>7. ASSUME NEW i \in 1 .. L + 1 PROVE (one \o f)[i] = g[i]
  <2>1. CASE i = 1
    BY <1>2, <1>3, <2>1
  <2>2. CASE i # 1
    <3>1. ~(i <= 1) /\ i \in 1 .. 1 + L
      BY <2>2
    <3> QED
      BY <1>3, <2>2, <3>1
  <2> QED
    BY <2>1, <2>2
<1> HIDE DEF g
<1>8. one \o f = g
  BY <1>3, <1>6, <1>7, SeqEqual
<1> QED
  BY <1>8 DEF g, one

LEMMA TakenOff ==
  ASSUME NEW X, NEW L \in Nat, L # 0, NEW f \in [1 .. L -> X]
  PROVE  /\ f # <<>> /\ Head(f) = f[1]
         /\ Tail(f) = [k \in 1 .. L - 1 |-> f[k + 1]]
<1> DEFINE g == [k \in 1 .. L - 1 |-> f[k + 1]]
<1>1. f \in Seq(X) /\ Len(f) = L
  <2>1. f \in Seq(X) /\ DOMAIN f = 1 .. L
    BY IsASeq
  <2> QED
    BY <2>1, LenProperties
<1>2. f # <<>>
  BY <1>1, EmptySeq
<1>3. /\ Head(f) = f[1] /\ Tail(f) \in Seq(X) /\ Len(Tail(f)) = L - 1
      /\ \A i \in 1 .. L - 1 : Tail(f)[i] = f[i + 1]
  BY <1>1, <1>2, HeadTailProperties
<1>4. L - 1 \in Nat /\ \A k \in 1 .. L - 1 : k + 1 \in 1 .. L
  OBVIOUS
<1>5. g \in [1 .. L - 1 -> X]
  BY <1>4
<1>6. g \in Seq(X) /\ Len(g) = L - 1
  <2>1. g \in Seq(X) /\ DOMAIN g = 1 .. L - 1
    BY <1>4, <1>5, IsASeq
  <2> HIDE DEF g
  <2> QED
    BY <1>4, <2>1, LenProperties
<1>7. \A i \in 1 .. L - 1 : Tail(f)[i] = g[i]
  BY <1>3
<1> HIDE DEF g
<1>8. Tail(f) = g
  BY <1>3, <1>6, <1>7, SeqEqual
<1> QED
  BY <1>2, <1>3, <1>8 DEF g

\* The stack of items, and the items popped, as the mapping sees them.
ItemsOf(L, s, dat) == [k \in 1 .. L |-> dat[s[k]]]
Line   == [k \in DOMAIN Chain(head) |-> data[Chain(head)[k]]]
Taken(t) == Removed(t) /\ pc[t] # "retire"
Popped == got \cup {data[node[t]] : t \in {u \in Threads : Taken(u)}}

LEMMA MappedVars == /\ Stack!vars = <<Line, Popped, astray, destroyed>>
                    /\ Stack!vars' = <<Line', Popped', astray', destroyed'>>
  BY DEF Stack!vars, Line, Popped, Taken

LEMMA LineIs ==
  ASSUME NEW L, NEW s, NEW S, IsList(L, s, head, next, S)
  PROVE  Line = ItemsOf(L, s, data)
<1>1. Chain(head) = s
  BY ListIsChain, ChainIsChainOf
<1>2. DOMAIN s = 1 .. L
  BY DEF IsList
<1> QED
  BY <1>1, <1>2 DEF Line, ItemsOf

LEMMA LineWillBe ==
  ASSUME NEW L, NEW s, NEW S, IsList(L, s, head', next', S)
  PROVE  Line' = ItemsOf(L, s, data')
<1>1. Chain(head)' = ChainOf(head', next')
  BY DEF Chain, ChainOf, Walk, IsWalk, Steps
<1>2. Chain(head)' = s
  BY <1>1, ListIsChain
<1>3. DOMAIN s = 1 .. L
  BY DEF IsList
<1> QED
  BY <1>2, <1>3 DEF Line, ItemsOf

\* A step that leaves head, and the nodes on the stack, alone.
LEMMA LineKept ==
  ASSUME NEW kind, NEW who, Placed(kind, who), head' = head,
         \A n \in Nodes : kind[n] = "stack" => next'[n] = next[n] /\ data'[n] = data[n]
  PROVE  Line' = Line
<1>1. PICK L, s : IsList(L, s, head, next, Among(kind, "stack"))
  BY DEF Placed, Lists
<1>2. \A k \in 1 .. L : s[k] \in Nodes /\ kind[s[k]] = "stack"
  <2>1. \A k \in 1 .. L : s[k] \in Among(kind, "stack")
    BY <1>1 DEF IsList
  <2> QED
    BY <2>1 DEF Among
<1>3. L # 0 => L \in 1 .. L
  BY <1>1 DEF IsList
<1>4. IsList(L, s, head', next', Among(kind, "stack"))
  BY <1>1, <1>2, <1>3 DEF IsList
<1>5. ItemsOf(L, s, data') = ItemsOf(L, s, data)
  BY <1>2 DEF ItemsOf
<1> QED
  BY <1>1, <1>4, <1>5, LineIs, LineWillBe

LEMMA TakenIsHeld ==
  ASSUME NEW kind, NEW who, Placed(kind, who), TypeOK, NEW t \in Threads, Taken(t)
  PROVE  node[t] \in Nodes /\ kind[node[t]] = "hand" /\ who[node[t]] = t /\ node[t] \in allocated
         /\ pc[t] \in {"clear", "take"}
<1>1. node[t] \in Nodes /\ Holding(t)
  BY ConstantsAssumption DEF Taken, Removed, Holding, TypeOK, Addresses
<1> QED
  BY <1>1 DEF Placed, Held, Taken, Removed, Retiring

LEMMA PoppedKept ==
  ASSUME got' = got,
         \A u \in Threads : /\ Taken(u)' <=> Taken(u)
                            /\ Taken(u) => data'[node'[u]] = data[node[u]]
  PROVE  Popped' = Popped
  BY DEF Popped

\* Any step of a thread but the two that move head is a stutter.
LEMMA StutterSteps ==
  ASSUME TypeOK, ThreadsInv, NEW kind, NEW who, AllKept(kind, who), NEW t \in Threads, ~astray, ~astray',
         \/ CallPush(t) \/ PushAgain(t) \/ Clean(t)
         \/ CallPop(t) \/ Protect(t) \/ Recheck(t) \/ LoadNext(t) \/ LoadNextOfNull(t)
         \/ ExchangeFails(t) \/ Clear(t) \/ Take(t) \/ Retire(t)
  PROVE  UNCHANGED Stack!vars
<1>0. Placed(kind, who) /\ DataInv(kind)
  BY DEF AllKept
<1> USE DEF Goto, SetNode, SetLink, Continue
<1>1. /\ \A u \in Threads : u # t => pc'[u] = pc[u] /\ node'[u] = node[u]
      /\ head' = head /\ destroyed' = destroyed /\ astray' = astray
  BY DEF CallPush, PushAgain, Clean, CallPop, Protect, Recheck, LoadNext, LoadNextOfNull,
     ExchangeFails,
         Clear, Take, Retire, Detach, Follow, Scan, Delete, PutBack, Requeue, TypeOK, history
<1>2. CASE CallPush(t)
  <2>1. /\ node'[t] \in Nodes /\ node'[t] \notin allocated /\ next' = next /\ got' = got
        /\ \A n \in Nodes : n # node'[t] => data'[n] = data[n]
        /\ ~Taken(t) /\ ~Taken(t)'
    BY <1>2 DEF CallPush, TypeOK, Taken, Removed, Retiring
  <2>2. kind[node'[t]] = "free"
    BY <1>0, <2>1 DEF Placed
  <2>3. Line' = Line
    BY <1>0, <1>1, <2>1, <2>2, LineKept
  <2>4. ASSUME NEW u \in Threads
        PROVE  (Taken(u)' <=> Taken(u)) /\ (Taken(u) => data'[node'[u]] = data[node[u]])
    <3>1. CASE u = t
      BY <2>1, <3>1
    <3>2. CASE u # t
      <4>1. Taken(u)' <=> Taken(u)
        BY <1>1, <3>2 DEF Taken, Removed
      <4>2. Taken(u) => node[u] \in Nodes /\ node[u] # node'[t]
        BY <1>0, <2>1, TakenIsHeld
      <4> QED
        BY <1>1, <2>1, <3>2, <4>1, <4>2
    <3> QED
      BY <3>1, <3>2
  <2>5. Popped' = Popped
    BY <2>1, <2>4, PoppedKept
  <2> QED
    BY <1>1, <2>3, <2>5, MappedVars
<1>3. CASE \/ PushAgain(t) \/ CallPop(t) \/ Protect(t) \/ Recheck(t) \/ LoadNext(t) \/ LoadNextOfNull(t)
           \/ ExchangeFails(t) \/ Clear(t) \/ Retire(t) \/ Detach(t) \/ Follow(t) \/ Scan(t)
           \/ PutBack(t) \/ Requeue(t)
  <2>1. /\ data' = data /\ got' = got
        /\ \A n \in Nodes : kind[n] = "stack" => next'[n] = next[n]
    <3>1. CASE PutBack(t)
      <4>1. /\ node[t] \in Nodes /\ Holding(t) /\ data' = data /\ got' = got
            /\ \A n \in Nodes : n # node[t] => next'[n] = next[n]
        BY <3>1 DEF PutBack, ThreadsInv, Cleaning, Holding, Following, TypeOK, history
      <4>2. kind[node[t]] = "hand"
        BY <1>0, <4>1 DEF Placed, Held
      <4> QED
        BY <4>1, <4>2
    <3>2. CASE ~PutBack(t)
      BY <1>3, <3>2 DEF PushAgain, CallPop, Protect, Recheck, LoadNext, LoadNextOfNull,
         ExchangeFails,
         Clear, Retire, Detach, Follow, Scan, Requeue, heap, history
    <3> QED
      BY <3>1, <3>2
  <2>2. Line' = Line
    BY <1>0, <1>1, <2>1, LineKept
  <2>3. /\ Taken(t)' <=> Taken(t)
        /\ Taken(t) => node'[t] = node[t]
    <3>1. CASE Clear(t)
      <4>1. /\ pc[t] = "clear" /\ node' = node
            /\ pc'[t] = IF node[t] = Null THEN "idle" ELSE "take"
        BY <3>1 DEF Clear, TypeOK
      <4> QED
        BY <4>1 DEF Taken, Removed, Retiring
    <3>2. CASE Recheck(t)
      <4>1. /\ pc[t] = "recheck" /\ node'[t] = head
            /\ pc'[t] = IF node[t] = Null /\ head = Null THEN "clear" ELSE "load_next"
        BY <3>2 DEF Recheck, TypeOK
      <4> QED
        BY <4>1 DEF Taken, Removed, Retiring
    <3>3. CASE ~Clear(t) /\ ~Recheck(t)
      <4>1. pc[t] \notin {"clear", "take"} /\ pc'[t] \notin {"clear", "take"}
        BY <1>3, <3>3 DEF PushAgain, CallPop, Protect, LoadNext, LoadNextOfNull, ExchangeFails,
           Retire, Detach, Follow, Scan, PutBack, Requeue, TypeOK
      <4> QED
        BY <4>1 DEF Taken, Removed, Retiring
    <3> QED
      BY <3>1, <3>2, <3>3
  <2>4. ASSUME NEW u \in Threads
        PROVE  (Taken(u)' <=> Taken(u)) /\ (Taken(u) => data'[node'[u]] = data[node[u]])
    <3>1. CASE u = t
      BY <2>1, <2>3, <3>1
    <3>2. CASE u # t
      BY <1>1, <2>1, <3>2 DEF Taken, Removed
    <3> QED
      BY <3>1, <3>2
  <2>5. Popped' = Popped
    BY <2>1, <2>4, PoppedKept
  <2> QED
    BY <1>1, <2>2, <2>5, MappedVars
<1>4. CASE Take(t)
  <2>1. /\ pc[t] = "take" /\ pc'[t] = "retire" /\ node[t] \in Nodes /\ node' = node /\ data' = data
        /\ \A n \in Nodes : n # node[t] => next'[n] = next[n]
        /\ got' = got \cup ({data[node[t]]} \ {0})
    BY <1>4 DEF Take, TypeOK, ThreadsInv, Retiring
  <2>2. Taken(t) /\ ~Taken(t)'
    BY <2>1, ConstantsAssumption DEF Taken, Removed, Retiring
  <2>3. kind[node[t]] = "hand" /\ node[t] \in allocated
    BY <1>0, <2>2, TakenIsHeld
  <2>4. Line' = Line
    BY <1>0, <1>1, <2>1, <2>3, LineKept
  <2>5. data[node[t]] # 0
    <3>1. data[node[t]] \in 1 .. pushes
      BY <1>0, <2>3 DEF DataInv
    <3> QED
      BY <3>1
  <2>6. \A u \in Threads : u # t => (Taken(u)' <=> Taken(u))
    BY <1>1 DEF Taken, Removed
  <2>7. Popped' = Popped
    <3>1. ASSUME NEW d PROVE d \in Popped' <=> d \in Popped
      <4>1. d \in Popped <=> d \in got \/ \E u \in Threads : Taken(u) /\ d = data[node[u]]
        BY DEF Popped
      <4>2. d \in Popped' <=> d \in got' \/ \E u \in Threads : Taken(u)' /\ d = data'[node'[u]]
        BY DEF Popped
      <4>3. (\E u \in Threads : Taken(u) /\ d = data[node[u]])
              <=> d = data[node[t]] \/ \E u \in Threads : Taken(u)' /\ d = data[node[u]]
        BY <2>2, <2>6
      <4> QED
        BY <2>1, <2>5, <4>1, <4>2, <4>3
    <3> QED
      BY <3>1
  <2> QED
    BY <1>1, <2>4, <2>7, MappedVars
<1>5. CASE Delete(t)
  <2>1. /\ pc[t] = "delete" /\ pc'[t] \in {"idle", "follow"} /\ node[t] \in Nodes
        /\ \A n \in Nodes : n # node[t] => next'[n] = next[n] /\ data'[n] = data[n]
        /\ got' = got
    BY <1>5 DEF Delete, TypeOK, ThreadsInv, Cleaning, history
  <2>2. Holding(t) /\ ~Taken(t) /\ ~Taken(t)'
    BY <2>1 DEF Holding, Following, Taken, Removed, Retiring
  <2>3. kind[node[t]] = "hand" /\ who[node[t]] = t
    BY <1>0, <2>1, <2>2 DEF Placed, Held
  <2>4. Line' = Line
    BY <1>0, <1>1, <2>1, <2>3, LineKept
  <2>5. ASSUME NEW u \in Threads
        PROVE  (Taken(u)' <=> Taken(u)) /\ (Taken(u) => data'[node'[u]] = data[node[u]])
    <3>1. CASE u = t
      BY <2>2, <3>1
    <3>2. CASE u # t
      <4>1. Taken(u)' <=> Taken(u)
        BY <1>1, <3>2 DEF Taken, Removed
      <4>2. Taken(u) => node[u] \in Nodes /\ node[u] # node[t]
        BY <1>0, <2>3, <3>2, TakenIsHeld
      <4> QED
        BY <1>1, <2>1, <3>2, <4>1, <4>2
    <3> QED
      BY <3>1, <3>2
  <2>6. Popped' = Popped
    BY <2>1, <2>5, PoppedKept
  <2> QED
    BY <1>1, <2>4, <2>6, MappedVars
<1> QED
  BY <1>2, <1>3, <1>4, <1>5 DEF Clean

LEMMA PushIsPush ==
  ASSUME TypeOK, ThreadsInv, NEW kind, NEW who, AllKept(kind, who), NEW t \in Threads, ~astray, ~astray',
         Push(t)
  PROVE  Stack!Next
<1> DEFINE x == node[t]
           d == data[x]
<1>0. Placed(kind, who) /\ DataInv(kind)
  BY DEF AllKept
<1>1. /\ pc[t] = "push" /\ pc'[t] = "idle" /\ x \in Nodes /\ link[t] = head
      /\ next' = [next EXCEPT ![x] = head] /\ head' = x
      /\ UNCHANGED <<data, allocated, got, destroyed>>
      /\ \A u \in Threads : u # t => pc'[u] = pc[u] /\ node'[u] = node[u]
  BY DEF Push, Expected, Goto, SetNode, TypeOK, ThreadsInv, history
<1>2. Holding(t) /\ kind[x] = "hand" /\ x \in allocated /\ Unpopped(kind, x)
  <2>1. Holding(t)
    BY <1>1 DEF Holding
  <2> QED
    BY <1>0, <1>1, <2>1 DEF Placed, Held, Unpopped
<1>3. PICK L, s : IsList(L, s, head, next, Among(kind, "stack"))
  BY <1>0 DEF Placed, Lists
<1>4. /\ L \in Nat /\ s \in [1 .. L -> Nodes]
      /\ \A k \in 1 .. L : s[k] \in Among(kind, "stack")
  BY <1>3 DEF IsList
<1>5. \A k \in 1 .. L : s[k] \in Nodes /\ s[k] # x /\ kind[s[k]] = "stack" /\ s[k] \in allocated
  BY <1>0, <1>2, <1>4 DEF Among, Placed
<1>6. IsList(L, s, head, next', Among(kind, "stack"))
  <2>1. \A k \in 1 .. L : next'[s[k]] = next[s[k]]
    BY <1>1, <1>5 DEF TypeOK
  <2>2. L # 0 => L \in 1 .. L
    BY <1>4
  <2> QED
    BY <1>3, <2>1, <2>2 DEF IsList
<1>7. IsList(L + 1, Before(x, L, s), head', next', Among(kind, "stack") \cup {x})
  <2>1. next'[x] = head /\ x \notin Among(kind, "stack")
    BY <1>1, <1>2 DEF TypeOK, Among
  <2> QED
    BY <1>1, <1>6, <2>1, NodeBefore
<1>8. Line = ItemsOf(L, s, data) /\ Line' = ItemsOf(L + 1, Before(x, L, s), data)
  BY <1>1, <1>3, <1>7, LineIs, LineWillBe
<1>9. d \in Items /\ ItemsOf(L, s, data) \in [1 .. L -> Items] /\ d \notin got
  <2>1. \A n \in allocated : data[n] \in Items
    BY <1>0, ConstantsAssumption DEF DataInv, Items, TypeOK
  <2> QED
    BY <1>0, <1>1, <1>2, <1>5, <2>1 DEF ItemsOf, DataInv
<1>10. Line' = <<d>> \o Line
  <2>1. <<d>> \o ItemsOf(L, s, data) = [k \in 1 .. L + 1 |-> IF k = 1 THEN d ELSE ItemsOf(L, s, data)[k - 1]]
    BY <1>4, <1>9, PutBefore
  <2>2. \A k \in 1 .. L + 1 : k # 1 => k - 1 \in 1 .. L
    BY <1>4
  <2>3. ItemsOf(L + 1, Before(x, L, s), data) = [k \in 1 .. L + 1 |-> IF k = 1 THEN d ELSE ItemsOf(L, s, data)[k - 1]]
    BY <2>2 DEF ItemsOf, Before
  <2> QED
    BY <1>8, <2>1, <2>3
<1>11. Popped' = Popped
  <2>1. ~Taken(t) /\ ~Taken(t)'
    BY <1>1 DEF Taken, Removed, Retiring
  <2>2. \A u \in Threads : /\ Taken(u)' <=> Taken(u)
                           /\ Taken(u) => data'[node'[u]] = data[node[u]]
    BY <1>1, <2>1 DEF Taken, Removed
  <2> QED
    BY <1>1, <2>2, PoppedKept
<1>12. d \notin Popped
  <2>1. ASSUME NEW u \in Threads, Taken(u) PROVE data[node[u]] # d
    <3>1. node[u] \in allocated /\ who[node[u]] = u /\ pc[u] \in {"clear", "take"}
      BY <1>0, <2>1, TakenIsHeld
    <3>2. who[x] = t
      BY <1>0, <1>1, <1>2 DEF Placed, Held
    <3>3. node[u] # x
      BY <1>1, <3>1, <3>2
    <3> QED
      BY <1>0, <1>2, <3>1, <3>3 DEF DataInv
  <2> QED
    BY <1>9, <2>1 DEF Popped
<1>13. \A k \in DOMAIN Line : Line[k] # d
  <2>1. \A k \in 1 .. L : data[s[k]] # d
    BY <1>0, <1>2, <1>5 DEF DataInv
  <2> QED
    BY <1>8, <2>1 DEF ItemsOf
<1>14. \E e \in Items : Stack!Push(e)
  <2>1. d \in Items /\ d \notin Popped /\ destroyed' = destroyed
    BY <1>1, <1>9, <1>12
  <2> HIDE DEF d
  <2> QED
    BY <1>10, <1>11, <1>13, <2>1 DEF Stack!Push, Line, Popped, Taken
<1> QED
  BY <1>14 DEF Stack!Next, Stack!Regular

LEMMA ExchangeIsPop ==
  ASSUME TypeOK, ThreadsInv, NEW kind, NEW who, AllKept(kind, who), NEW t \in Threads, ~astray, ~astray',
         Exchange(t)
  PROVE  Stack!Next
<1> DEFINE x == node[t]
           d == data[x]
<1>0. Placed(kind, who) /\ DataInv(kind) /\ Guarded(kind)
  BY DEF AllKept
<1>1. /\ pc[t] = "exchange" /\ pc'[t] = "clear" /\ x \in Nodes /\ head = x
      /\ head' = link[t] /\ node' = node
      /\ UNCHANGED <<next, data, got, destroyed>>
      /\ \A u \in Threads : u # t => pc'[u] = pc[u]
  BY DEF Exchange, Expected, Goto, TypeOK, ThreadsInv, history, heap
<1>2. PICK L, s : IsList(L, s, head, next, Among(kind, "stack"))
  BY <1>0 DEF Placed, Lists
<1>3. L \in Nat /\ s \in [1 .. L -> Nodes] /\ \A k \in 1 .. L : s[k] \in Among(kind, "stack")
  BY <1>2 DEF IsList
<1>4. /\ L # 0 /\ s[1] = x
      /\ IsList(L - 1, Behind(L, s), next[x], next, Among(kind, "stack") \ {x})
  BY <1>1, <1>2, NodesBehind, ConstantsAssumption
<1>5. link[t] = next[x]
  <2>1. 1 \in 1 .. L
    BY <1>3, <1>4
  <2>2. kind[x] = "stack"
    BY <1>3, <1>4, <2>1 DEF Among
  <2> QED
    BY <1>0, <2>2, RightNext
<1>6. Line = ItemsOf(L, s, data) /\ Line' = ItemsOf(L - 1, Behind(L, s), data)
  <2>1. IsList(L - 1, Behind(L, s), head', next', Among(kind, "stack") \ {x})
    BY <1>1, <1>4, <1>5
  <2> QED
    BY <1>1, <1>2, <2>1, LineIs, LineWillBe
<1>7. ItemsOf(L, s, data) \in [1 .. L -> Items \cup {0}]
  BY <1>3 DEF ItemsOf, TypeOK
<1>8. Line # <<>> /\ Head(Line) = d /\ Line' = Tail(Line)
  <2>0. PICK X, f : f \in [1 .. L -> X] /\ f = ItemsOf(L, s, data)
    BY <1>7
  <2>1. f # <<>> /\ Head(f) = f[1] /\ Tail(f) = [k \in 1 .. L - 1 |-> f[k + 1]]
    <3>1. L \in Nat /\ L # 0 /\ f \in [1 .. L -> X]
      BY <1>3, <1>4, <2>0
    <3> QED
      BY <3>1, TakenOff
  <2>2. 1 \in 1 .. L /\ \A k \in 1 .. L - 1 : k + 1 \in 1 .. L
    BY <1>3, <1>4
  <2>3. f[1] = d
    BY <1>4, <2>0, <2>2 DEF ItemsOf
  <2>4. ItemsOf(L - 1, Behind(L, s), data) = [k \in 1 .. L - 1 |-> f[k + 1]]
    BY <2>0, <2>2 DEF ItemsOf, Behind
  <2>5. Line = f /\ Line' = [k \in 1 .. L - 1 |-> f[k + 1]]
    BY <1>6, <2>0, <2>4
  <2> QED
    BY <2>1, <2>3, <2>5
<1>9. Popped' = Popped \cup {d}
  <2>1. ~Taken(t) /\ Taken(t)'
    BY <1>1, ConstantsAssumption DEF Taken, Removed, Retiring
  <2>2. \A u \in Threads : u # t => (Taken(u)' <=> Taken(u))
    BY <1>1 DEF Taken, Removed
  <2>3. ASSUME NEW e PROVE e \in Popped' <=> e \in Popped \cup {d}
    <3>1. e \in Popped <=> e \in got \/ \E u \in Threads : Taken(u) /\ e = data[node[u]]
      BY DEF Popped
    <3>2. e \in Popped' <=> e \in got' \/ \E u \in Threads : Taken(u)' /\ e = data'[node'[u]]
      BY DEF Popped
    <3>3. (\E u \in Threads : Taken(u)' /\ e = data[node[u]])
            <=> e = d \/ \E u \in Threads : Taken(u) /\ e = data[node[u]]
      BY <2>1, <2>2
    <3> QED
      BY <1>1, <3>1, <3>2, <3>3
  <2> QED
    BY <2>3
<1>10. Stack!Pop
  BY <1>1, <1>8, <1>9 DEF Stack!Pop, Line, Popped, Taken
<1> QED
  BY <1>10 DEF Stack!Next, Stack!Regular

LEMMA DestroyIsDestroy ==
  ASSUME TypeOK, ~astray', Destroy
  PROVE  Stack!Next
<1>1. /\ \A u \in Threads : pc[u] = "idle" /\ pc'[u] = "idle"
      /\ head' = Null /\ got' = got /\ ~destroyed /\ destroyed' = TRUE
  BY DEF Destroy
<1>2. Line' = <<>>
  <2>1. IsList(0, [k \in 1 .. 0 |-> Null], head', next', {})
    BY <1>1 DEF IsList
  <2>2. Line' = ItemsOf(0, [k \in 1 .. 0 |-> Null], data')
    BY <2>1, LineWillBe
  <2> QED
    BY <2>2 DEF ItemsOf
<1>3. Popped' = Popped
  BY <1>1 DEF Popped, Taken, Removed, Retiring
<1>4. Stack!Destroy
  BY <1>1, <1>2, <1>3 DEF Stack!Destroy, Line, Popped, Taken
<1> QED
  BY <1>4 DEF Stack!Next, Stack!Regular

LEMMA InitRefines == Init => Stack!Init
<1> SUFFICES ASSUME Init PROVE Stack!Init
  OBVIOUS
<1>1. Lists(head, next, {})
  BY NothingListed DEF Init
<1>2. IsList(0, [k \in 1 .. 0 |-> Null], head, next, {})
  BY DEF Init, IsList
<1>3. Line = <<>>
  <2>1. Line = ItemsOf(0, [k \in 1 .. 0 |-> Null], data)
    BY <1>2, LineIs
  <2> QED
    BY <2>1 DEF ItemsOf
<1>4. Popped = {}
  BY DEF Init, Popped, Taken, Removed, Retiring
<1> QED
  BY <1>3, <1>4 DEF Init, Stack!Init, Line, Popped, Taken

LEMMA StepRefines == IInv /\ [Next]_vars => [Stack!Next]_Stack!vars
<1> SUFFICES ASSUME IInv, [Next]_vars PROVE [Stack!Next]_Stack!vars
  OBVIOUS
<1>1. CASE astray'
  BY <1>1 DEF Stack!Next, Stack!GoAstray
<1>2. CASE UNCHANGED vars
  <2>1. Line' = Line /\ Popped' = Popped
    BY <1>2 DEF vars, heap, history, Line, Popped, Taken, Removed, Chain
  <2> QED
    BY <1>2, <2>1, MappedVars DEF vars, history
<1>3. CASE ~astray' /\ Next
  <2>1. ~astray
    BY <1>3, AstrayStays
  <2>2. PICK kind, who : AllKept(kind, who)
    BY <2>1 DEF IInv, Kept, AllKept
  <2>3. TypeOK /\ ThreadsInv
    BY DEF IInv
  <2>4. ASSUME NEW t \in Threads, CallPush(t) \/ Push(t) \/ PushAgain(t) \/ Pop(t) \/ Clean(t)
        PROVE  [Stack!Next]_Stack!vars
    <3>1. CASE Push(t)
      BY <1>3, <2>1, <2>2, <2>3, <3>1, PushIsPush
    <3>2. CASE Exchange(t)
      BY <1>3, <2>1, <2>2, <2>3, <3>2, ExchangeIsPop
    <3>3. CASE ~Push(t) /\ ~Exchange(t)
      <4>1. \/ CallPush(t) \/ PushAgain(t) \/ Clean(t)
            \/ CallPop(t) \/ Protect(t) \/ Recheck(t) \/ LoadNext(t) \/ LoadNextOfNull(t)
            \/ ExchangeFails(t) \/ Clear(t) \/ Take(t) \/ Retire(t)
        BY <2>4, <3>3 DEF Pop
      <4>2. UNCHANGED Stack!vars
        BY <1>3, <2>1, <2>2, <2>3, <4>1, StutterSteps
      <4> QED
        BY <4>2
    <3> QED
      BY <3>1, <3>2, <3>3
  <2>5. CASE Destroy
    BY <1>3, <2>3, <2>5, DestroyIsDestroy
  <2> QED
    BY <1>3, <2>4, <2>5 DEF Next
<1> QED
  BY <1>1, <1>2, <1>3

\* LockFreeStack implements LifoStack: pushes and pops take effect at their exchanges
\* on head, so that items leave in the reverse of the order in which they came, and
\* none is lost, doubled or invented although nodes are deleted and their addresses
\* used again, until the stack goes astray: a pop that found head changed, and so does
\* not protect its node, reads one that is no longer there or puts a next on head that
\* is no longer its own.  From there on nothing is promised, by the code or here.
THEOREM StackIsLifo == Spec => ImplementsStack
<1>1. IInv /\ [Next]_vars => [Stack!Next]_Stack!vars
  BY StepRefines
<1> QED
  BY <1>1, InitRefines, Invariance, PTL DEF Spec, ImplementsStack, Stack!Spec

==============================================================================
