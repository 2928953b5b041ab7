----------------------------- MODULE PoolProofs -----------------------------
(***************************************************************************)
(* The upstream pools: lemmas about the operators of UpstreamPool, for     *)
(* pools of every size, every threshold and every weight; what PoolCalls   *)
(* keeps true, whoever calls a pool; and what ProxyRequests keeps true of  *)
(* the requests that go through two of them.                               *)
(***************************************************************************)
EXTENDS PoolCalls, ProxyRequests, FiniteSetTheorems, WellFoundedInduction, TLAPS

-----------------------------------------------------------------------------
(* The operators of UpstreamPool.                                          *)

\* A non-empty set of naturals has a least element.
LEMMA LeastNatural ==
    ASSUME NEW T \in SUBSET Nat, T # {}
    PROVE  \E m \in T : \A k \in T : m <= k
<1> DEFINE R == {ss \in Nat \X Nat : ss[1] < ss[2]}
<1>1. IsWellFoundedOn(R, Nat)
  BY NatLessThanWellFounded DEF OpToRel
<1>2. PICK m \in T : \A k \in T : ~(<<k, m>> \in R)
  <2> HIDE DEF R
  <2> QED BY <1>1, WFMin, T \subseteq Nat
<1>3. ASSUME NEW k \in T PROVE m <= k
  <2>1. k \in Nat /\ m \in Nat
    OBVIOUS
  <2>2. <<k, m>> \in Nat \X Nat /\ <<k, m>>[1] = k /\ <<k, m>>[2] = m
    BY <2>1
  <2>3. ~(k < m)
    BY <1>2, <2>2
  <2> QED BY <2>1, <2>3
<1> QED BY <1>3

\* The equations of the running sums of a row of numbers.
RunningSums(g, c, n) ==
    \A i \in 0..n : g[i] = IF i = 0 THEN 0 ELSE g[i - 1] + c[i]

\* Every row of integers has running sums.
LEMMA RunningSumsExist ==
    ASSUME NEW n \in Nat, NEW c \in [1..n -> Int]
    PROVE  \E g \in [0..n -> Int] : RunningSums(g, c, n)
<1> DEFINE Stuck == {k \in 0..n : ~ \E g \in [0..k -> Int] : RunningSums(g, c, k)}
<1>1. Stuck = {}
  <2>1. SUFFICES ASSUME Stuck # {} PROVE FALSE
    OBVIOUS
  <2>2. PICK k \in Stuck : \A j \in Stuck : k <= j
    <3>1. Stuck \in SUBSET Nat
      OBVIOUS
    <3> HIDE DEF Stuck
    <3> QED BY <2>1, <3>1, LeastNatural
  <2>3. k # 0
    <3>1. [i \in 0..0 |-> 0] \in [0..0 -> Int] /\ RunningSums([i \in 0..0 |-> 0], c, 0)
      BY DEF RunningSums
    <3> QED BY <3>1
  <2>4. k - 1 \in 0..n /\ k - 1 \notin Stuck
    <3>1. k \in 0..n
      OBVIOUS
    <3> HIDE DEF Stuck
    <3>2. k - 1 \in 0..n /\ ~(k <= k - 1)
      BY <3>1, <2>3
    <3> QED BY <2>2, <3>2
  <2>5. PICK g \in [0..(k - 1) -> Int] : RunningSums(g, c, k - 1)
    BY <2>4
  <2> DEFINE h == [i \in 0..k |-> IF i = k THEN g[k - 1] + c[k] ELSE g[i]]
  <2>6. h \in [0..k -> Int]
    BY <2>3, <2>5
  <2>7. RunningSums(h, c, k)
    <3>1. ASSUME NEW i \in 0..k PROVE h[i] = IF i = 0 THEN 0 ELSE h[i - 1] + c[i]
      <4>1. CASE i = k
        BY <4>1, <2>3
      <4>2. CASE i # k
        <5>1. i \in 0..(k - 1)
          BY <4>2
        <5>2. g[i] = IF i = 0 THEN 0 ELSE g[i - 1] + c[i]
          BY <5>1, <2>5 DEF RunningSums
        <5>3. i # 0 => i - 1 \in 0..(k - 1) /\ i - 1 \in 0..k /\ i - 1 # k
          BY <5>1
        <5> QED BY <5>1, <5>2, <5>3, <4>2
      <4> QED BY <4>1, <4>2
    <3> QED BY <3>1 DEF RunningSums
  <2> QED BY <2>6, <2>7
<1>2. n \in 0..n
  OBVIOUS
<1>3. n \notin Stuck
  <2> HIDE DEF Stuck
  <2> QED BY <1>1
<1> QED BY <1>2, <1>3

\* PrefixSum computes the last running sum: whatever satisfies the equations
\* is what the recursive function yields.
LEMMA PrefixSumIs ==
    ASSUME NEW n \in Nat, NEW c \in [1..n -> Int], NEW g \in [0..n -> Int],
           RunningSums(g, c, n)
    PROVE  PrefixSum(c, n) = g[n]
<1> DEFINE Step(h, i) == IF i = 0 THEN 0 ELSE h[i - 1] + c[i]
           f == CHOOSE sum : sum = [i \in 0..n |-> Step(sum, i)]
           Wrong == {i \in 0..n : f[i] # g[i]}
<1>1. g = [i \in 0..n |-> Step(g, i)]
  BY DEF RunningSums
<1>2. f = [i \in 0..n |-> Step(f, i)]
  <2> HIDE DEF Step
  <2> QED BY <1>1
<1>3. Wrong = {}
  <2>1. SUFFICES ASSUME Wrong # {} PROVE FALSE
    OBVIOUS
  <2>2. PICK i \in Wrong : \A j \in Wrong : i <= j
    <3>1. Wrong \in SUBSET Nat
      OBVIOUS
    <3> HIDE DEF Wrong
    <3> QED BY <2>1, <3>1, LeastNatural
  <2> HIDE DEF f
  <2>3. f[i] = Step(f, i) /\ g[i] = Step(g, i)
    BY <1>1, <1>2
  <2>4. i # 0
    BY <2>3
  <2>5. i - 1 \in 0..n /\ i - 1 \notin Wrong
    BY <2>2, <2>4
  <2> QED BY <2>3, <2>4, <2>5
<1>4. PrefixSum(c, n) = f[n]
  BY DEF PrefixSum
<1>5. n \in 0..n
  OBVIOUS
<1> HIDE DEF f
<1> QED BY <1>3, <1>4, <1>5

\* Adding up integers gives an integer.
LEMMA PrefixSumType ==
    ASSUME NEW n \in Nat, NEW c \in [1..n -> Int]
    PROVE  PrefixSum(c, n) \in Int
BY RunningSumsExist, PrefixSumIs

\* Row d is row c after every position gained and position x paid total.
Redistributed(d, c, gain, x, total, n) ==
    \A i \in 1..n : d[i] = c[i] + gain[i] - (IF i = x THEN total ELSE 0)

\* When x pays the sum of the gains, the sum of the row stays what it was.
LEMMA SumPreserved ==
    ASSUME NEW n \in Nat, NEW c \in [1..n -> Int], NEW gain \in [1..n -> Int],
           NEW x \in 1..n, NEW d \in [1..n -> Int],
           Redistributed(d, c, gain, x, PrefixSum(gain, n), n)
    PROVE  PrefixSum(d, n) = PrefixSum(c, n)
<1>1. PICK g \in [0..n -> Int] : RunningSums(g, c, n)
  BY RunningSumsExist
<1>2. PICK h \in [0..n -> Int] : RunningSums(h, gain, n)
  BY RunningSumsExist
<1>3. PrefixSum(c, n) = g[n] /\ PrefixSum(gain, n) = h[n]
  BY <1>1, <1>2, PrefixSumIs
<1> DEFINE t == h[n]
           k == [i \in 0..n |-> g[i] + h[i] - (IF x <= i THEN t ELSE 0)]
<1>4. k \in [0..n -> Int]
  <2>1. t \in Int
    OBVIOUS
  <2>2. ASSUME NEW i \in 0..n PROVE g[i] + h[i] - (IF x <= i THEN t ELSE 0) \in Int
    <3> DEFINE y == IF x <= i THEN t ELSE 0
               gi == g[i]
               hi == h[i]
    <3>1. gi \in Int /\ hi \in Int
      OBVIOUS
    <3>2. y \in Int
      <4> HIDE DEF t
      <4> QED BY <2>1
    <3>3. gi + hi - y \in Int
      <4> HIDE DEF y, gi, hi
      <4> QED BY <3>1, <3>2
    <3> HIDE DEF t
    <3> QED BY <3>3 DEF y
  <2> HIDE DEF t
  <2> QED BY <2>2
<1>5. RunningSums(k, d, n)
  <2>1. ASSUME NEW i \in 0..n PROVE k[i] = IF i = 0 THEN 0 ELSE k[i - 1] + d[i]
    <3>1. CASE i = 0
      BY <1>1, <1>2, <3>1 DEF RunningSums
    <3>2. CASE i # 0
      <4>1. i - 1 \in 0..n /\ i \in 1..n
        BY <3>2
      <4> DEFINE gi == g[i - 1]  hi == h[i - 1]  ci == c[i]  wi == gain[i]
                 a == IF x <= i THEN t ELSE 0
                 b == IF x <= i - 1 THEN t ELSE 0
                 e == IF i = x THEN t ELSE 0
      <4>2. g[i] = gi + ci /\ h[i] = hi + wi
        BY <1>1, <1>2, <3>2 DEF RunningSums
      <4>3. d[i] = ci + wi - e
        BY <4>1, <1>3 DEF Redistributed
      <4>4. k[i] = (gi + ci) + (hi + wi) - a /\ k[i - 1] = gi + hi - b
        BY <4>1, <4>2
      <4>5. gi \in Int /\ hi \in Int /\ ci \in Int /\ wi \in Int /\ t \in Int
        <5>1. gi \in Int /\ hi \in Int /\ t \in Int
          BY <4>1
        <5>2. ci \in Int /\ wi \in Int
          BY <4>1
        <5> QED BY <5>1, <5>2
      <4>6. a \in Int /\ b \in Int /\ e \in Int /\ a = b + e
        <5> HIDE DEF t, k
        <5>1. CASE i < x
          BY <4>5, <5>1
        <5>2. CASE i = x
          BY <4>5, <5>2
        <5>3. CASE x < i
          <6>1. x <= i /\ x <= i - 1 /\ i # x
            BY <5>3
          <6>2. a = t /\ b = t /\ e = 0
            BY <6>1
          <6> HIDE DEF a, b, e
          <6> QED BY <6>2, <4>5
        <5> QED BY <5>1, <5>2, <5>3
      <4>7. (gi + ci) + (hi + wi) - a = (gi + hi - b) + (ci + wi - e)
        <5> HIDE DEF gi, hi, ci, wi, a, b, e, t, k
        <5> QED BY <4>5, <4>6
      <4> HIDE DEF k, gi, hi, ci, wi, a, b, e
      <4> QED BY <4>3, <4>4, <4>7, <3>2
    <3> QED BY <3>1, <3>2
  <2> HIDE DEF k
  <2> QED BY <2>1 DEF RunningSums
<1>6. PrefixSum(d, n) = k[n]
  <2> HIDE DEF k
  <2> QED BY <1>4, <1>5, PrefixSumIs
<1>7. k[n] = g[n]
  <2>1. n \in 0..n /\ g[n] \in Int /\ h[n] \in Int
    OBVIOUS
  <2> QED BY <2>1
<1> QED BY <1>3, <1>6, <1>7

\* FirstOf finds the first position of a non-empty set of array positions.
LEMMA FirstOfType ==
    ASSUME NEW S \in SUBSET Nat, S # {}
    PROVE  FirstOf(S) \in S
BY LeastNatural DEF FirstOf

\* Some position of a non-empty set carries the greatest credit.
LEMMA GreatestCredit ==
    ASSUME NEW size \in Nat, NEW credits \in [1..size -> Int],
           NEW S \in SUBSET (1..size), S # {}
    PROVE  \E u \in S : \A v \in S : credits[v] <= credits[u]
<1> DEFINE HasMax(T) == \E u \in T : \A v \in T : credits[v] <= credits[u]
           Bad == {T \in SUBSET (1..size) : T # {} /\ ~HasMax(T)}
           R == StrictSubsetOrdering(1..size)
<1>1. SUFFICES ASSUME Bad # {} PROVE FALSE
  OBVIOUS
<1>2. IsFiniteSet(1..size)
  BY FS_Interval
<1>3. IsWellFoundedOn(R, SUBSET (1..size))
  BY <1>2, FS_StrictSubsetOrderingWellFounded, FS_FiniteSubsetsOfFinite
<1>4. PICK T \in Bad : \A U \in Bad : ~(<<U, T>> \in R)
  <2> HIDE DEF R, Bad
  <2>1. Bad \subseteq SUBSET (1..size)
    BY DEF Bad
  <2> QED BY <1>1, <1>3, <2>1, WFMin
<1>5. PICK x : x \in T
  OBVIOUS
<1>6. T \ {x} \notin Bad
  BY <1>4, <1>5 DEF StrictSubsetOrdering
<1>7. CASE T \ {x} = {}
  <2>1. \A v \in T : v = x
    BY <1>7
  <2>2. HasMax(T)
    BY <1>5, <2>1
  <2> QED BY <2>2
<1>8. CASE T \ {x} # {}
  <2>1. PICK m \in T \ {x} : \A v \in T \ {x} : credits[v] <= credits[m]
    BY <1>6, <1>8
  <2>2. T \subseteq 1..size /\ x \in T
    BY <1>5
  <2> DEFINE a == credits[x]  b == credits[m]
  <2>3. a \in Int /\ b \in Int
    BY <2>2
  <2>4. CASE a <= b
    <3>1. \A v \in T : credits[v] <= credits[m]
      BY <2>1, <2>4
    <3> QED BY <3>1
  <2>5. CASE b < a
    <3>1. ASSUME NEW v \in T PROVE credits[v] <= a
      <4>1. CASE v = x
        BY <4>1, <2>3
      <4>2. CASE v # x
        <5> DEFINE c == credits[v]
        <5>1. c <= b /\ c \in Int
          BY <4>2, <2>1, <2>2
        <5>2. c <= a
          <6> HIDE DEF a, b, c, HasMax, Bad, R
          <6> QED BY <5>1, <2>3, <2>5
        <5> QED BY <5>2
      <4> QED BY <4>1, <4>2
    <3> QED BY <3>1, <2>2
  <2>6. a <= b \/ b < a
    <3> HIDE DEF a, b, HasMax, Bad, R
    <3> QED BY <2>3
  <2> QED BY <2>4, <2>5, <2>6
<1> QED BY <1>7, <1>8

\* The round robin picks a member of the set it is given.
LEMMA HeaviestType ==
    ASSUME NEW size \in Nat, NEW credits \in [1..size -> Int],
           NEW S \in SUBSET (1..size), S # {}
    PROVE  Heaviest(S, credits) \in S
<1> DEFINE M == {u \in S : \A v \in S : credits[v] <= credits[u]}
<1>1. M # {} /\ M \in SUBSET Nat
  <2>1. PICK u \in S : \A v \in S : credits[v] <= credits[u]
    BY GreatestCredit
  <2>2. u \in M
    BY <2>1
  <2>3. M \subseteq S
    OBVIOUS
  <2>4. 1..size \subseteq Nat
    OBVIOUS
  <2>5. M \subseteq Nat
    <3> HIDE DEF M
    <3> QED BY <2>3, <2>4
  <2> QED BY <2>2, <2>5
<1>2. FirstOf(M) \in M
  <2> HIDE DEF M
  <2> QED BY <1>1, FirstOfType
<1> QED BY <1>2 DEF Heaviest

\* Smooth weighted round robin: the pick is a member of the set, the credits
\* stay integers, and their sum does not change.
LEMMA RoundRobinStep ==
    ASSUME NEW size \in Nat, NEW credits \in [1..size -> Int], NEW weight \in [1..size -> Nat],
           NEW S \in SUBSET (1..size), S # {}
    PROVE  LET pick == RoundRobin(S, credits, weight)
           IN  /\ pick.up \in S
               /\ pick.credit \in [1..size -> Int]
               /\ PrefixSum(pick.credit, size) = PrefixSum(credits, size)
<1> DEFINE raised == [u \in DOMAIN credits |->
                         IF u \in S THEN credits[u] + weight[u] ELSE credits[u]]
           gain == [u \in DOMAIN weight |-> IF u \in S THEN weight[u] ELSE 0]
           x == Heaviest(S, raised)
           total == TotalWeight(S, weight)
           d == [raised EXCEPT ![x] = @ - total]
<1>1. raised \in [1..size -> Int] /\ gain \in [1..size -> Int]
  OBVIOUS
<1>2. x \in S /\ x \in 1..size
  <2> HIDE DEF raised
  <2> QED BY <1>1, HeaviestType
<1>3. total = PrefixSum(gain, size)
  <2>1. DOMAIN weight = 1..size /\ Cardinality(1..size) = size
    BY FS_Interval
  <2> QED BY <2>1 DEF TotalWeight
<1>4. total \in Int
  <2> HIDE DEF gain, total
  <2> QED BY <1>1, <1>3, PrefixSumType
<1>5. d \in [1..size -> Int]
  <2> HIDE DEF total, x, raised
  <2> QED BY <1>1, <1>2, <1>4
<1>6. Redistributed(d, credits, gain, x, total, size)
  <2> HIDE DEF total, x
  <2> QED BY <1>2, <1>4 DEF Redistributed
<1>7. PrefixSum(d, size) = PrefixSum(credits, size)
  <2> HIDE DEF total, x, d, gain, raised
  <2> QED BY <1>1, <1>2, <1>3, <1>5, <1>6, SumPreserved
<1>8. RoundRobin(S, credits, weight) = [up |-> x, credit |-> d]
  BY DEF RoundRobin
<1> HIDE DEF x, d
<1> QED BY <1>2, <1>5, <1>7, <1>8

-----------------------------------------------------------------------------
(* Every operation keeps a pool well-typed and its fields consistent.      *)

\* The state of one upstream that PoolInv describes.
Sound(x) ==
    /\ x.state = "healthy" <=> x.failures < FailureThreshold
    /\ x.inFlight => x.state = "half-open"
    /\ x.openFor > 0 => x.state = "open"
    /\ IF x.activeHealthy
       THEN x.activeFailures < ProbeFailures
       ELSE x.activeSuccesses < ProbeSuccesses

\* A pool is as it should be when each of its upstreams is.
GoodPool(p, size) == p \in [1..size -> Upstream] /\ \A u \in 1..size : Sound(p[u])

LEMMA GoodPoolMeaning ==
    ASSUME NEW size \in Nat, NEW p
    PROVE  GoodPool(p, size) <=> PoolTypeOK(p, size) /\ PoolInv(p)
BY DEF GoodPool, Sound, PoolTypeOK, PoolInv, TrippedIsNotHealthy,
       InFlightOnlyHalfOpen, OnlyOpenWaits, ActiveVerdictEarned

LEMMA FreshGood == Fresh \in Upstream /\ Sound(Fresh)
BY ThresholdAssumption DEF Fresh, Upstream, BreakerState, Sound

\* Pool q is pool p with another record at u.
OnlyAt(u, p, q, size) ==
    /\ q = [v \in 1..size |-> q[v]]
    /\ \A v \in 1..size : v # u => q[v] = p[v]

\* Changing one upstream to a sound record keeps a pool good.
LEMMA GoodPoolUpdate ==
    ASSUME NEW size \in Nat, NEW p, GoodPool(p, size), NEW u \in 1..size,
           NEW q, OnlyAt(u, p, q, size), q[u] \in Upstream, Sound(q[u])
    PROVE  GoodPool(q, size)
BY DEF GoodPool, OnlyAt

LEMMA PromotedGood ==
    ASSUME NEW size \in Nat, NEW p, GoodPool(p, size)
    PROVE  GoodPool(Promoted(p), size)
<1>1. ASSUME NEW u \in 1..size
      PROVE  Promoted(p)[u] \in Upstream /\ Sound(Promoted(p)[u])
  <2>1. p[u] \in Upstream /\ Sound(p[u])
    BY DEF GoodPool
  <2>2. Promoted(p)[u] = IF p[u].state = "open" /\ p[u].openFor = 0
                         THEN [p[u] EXCEPT !.state = "half-open"] ELSE p[u]
    BY DEF GoodPool, Promoted
  <2>3. CASE p[u].state = "open" /\ p[u].openFor = 0
    BY <2>1, <2>2, <2>3 DEF Upstream, BreakerState, Sound
  <2>4. CASE ~(p[u].state = "open" /\ p[u].openFor = 0)
    BY <2>1, <2>2, <2>4
  <2> QED BY <2>3, <2>4
<1>2. Promoted(p) = [u \in 1..size |-> Promoted(p)[u]]
  BY DEF GoodPool, Promoted
<1> QED BY <1>1, <1>2 DEF GoodPool

LEMMA TickedGood ==
    ASSUME NEW size \in Nat, NEW p, GoodPool(p, size)
    PROVE  GoodPool(Ticked(p), size)
<1>1. ASSUME NEW u \in 1..size
      PROVE  Ticked(p)[u] \in Upstream /\ Sound(Ticked(p)[u])
  <2>1. p[u] \in Upstream /\ Sound(p[u])
    BY DEF GoodPool
  <2>2. Ticked(p)[u] = [p[u] EXCEPT !.openFor = IF @ = 0 THEN 0 ELSE @ - 1]
    BY DEF GoodPool, Ticked
  <2> QED BY <2>1, <2>2, ThresholdAssumption DEF Upstream, BreakerState, Sound
<1>2. Ticked(p) = [u \in 1..size |-> Ticked(p)[u]]
  BY DEF GoodPool, Ticked
<1> QED BY <1>1, <1>2 DEF GoodPool

LEMMA RebuiltGood ==
    ASSUME NEW size \in Nat, NEW p, GoodPool(p, size)
    PROVE  GoodPool(Rebuilt(p), size)
<1>1. ASSUME NEW u \in 1..size
      PROVE  Rebuilt(p)[u] \in Upstream /\ Sound(Rebuilt(p)[u])
  <2>1. p[u].draining \in BOOLEAN
    BY DEF GoodPool, Upstream
  <2>2. Rebuilt(p)[u] = [Fresh EXCEPT !.draining = p[u].draining]
    BY DEF GoodPool, Rebuilt
  <2> QED BY <2>1, <2>2, FreshGood DEF Upstream, Sound, Fresh
<1>2. Rebuilt(p) = [u \in 1..size |-> Rebuilt(p)[u]]
  BY DEF GoodPool, Rebuilt
<1> QED BY <1>1, <1>2 DEF GoodPool

LEMMA FailedGood ==
    ASSUME NEW size \in Nat, NEW p, GoodPool(p, size), NEW u \in 1..size
    PROVE  GoodPool(Failed(p, u), size)
<1> DEFINE q == Failed(p, u)
           x == p[u]
           n == Capped(x.failures + 1, FailureThreshold)
           s == IF Opens(x) THEN "open" ELSE x.state
           t == IF Opens(x) THEN OpenTicks ELSE x.openFor
<1>1. x \in Upstream /\ Sound(x)
  BY DEF GoodPool
<1>2. q[u] = [x EXCEPT !.inFlight = FALSE, !.failures = n, !.state = s, !.openFor = t]
  BY DEF GoodPool, Upstream, Failed
<1>3. OnlyAt(u, p, q, size)
  BY DEF OnlyAt, GoodPool, Failed
<1>4. n \in 0..FailureThreshold /\ s \in BreakerState /\ t \in 0..OpenTicks
  BY <1>1, ThresholdAssumption DEF Upstream, BreakerState, Capped
<1>5. s = "healthy" <=> n < FailureThreshold
  <2>1. CASE Opens(x)
    <3>1. s = "open" /\ (x.state = "half-open" \/ x.failures + 1 >= FailureThreshold)
      BY <2>1 DEF Opens
    <3>2. x.failures + 1 >= FailureThreshold
      BY <3>1, <1>1, ThresholdAssumption DEF Sound, Upstream
    <3>3. n = FailureThreshold
      BY <3>2, <1>1, ThresholdAssumption DEF Capped, Upstream
    <3> QED BY <3>1, <3>3, ThresholdAssumption
  <2>2. CASE ~Opens(x)
    <3>1. s = x.state /\ ~(x.failures + 1 >= FailureThreshold)
      BY <2>2 DEF Opens
    <3>2. n = x.failures + 1 /\ n < FailureThreshold /\ x.failures < FailureThreshold
      BY <3>1, <1>1, ThresholdAssumption DEF Capped, Upstream
    <3>3. x.state = "healthy"
      BY <3>2, <1>1 DEF Sound
    <3> QED BY <3>1, <3>2, <3>3
  <2> QED BY <2>1, <2>2
<1>6. t > 0 => s = "open"
  BY <1>1 DEF Sound
<1>7. q[u] \in Upstream /\ Sound(q[u])
  <2> HIDE DEF q, n, s, t
  <2>1. q[u] \in Upstream
    BY <1>1, <1>2, <1>4 DEF Upstream
  <2>2. /\ q[u].state = s /\ q[u].failures = n /\ q[u].openFor = t
        /\ q[u].inFlight = FALSE /\ q[u].activeHealthy = x.activeHealthy
        /\ q[u].activeFailures = x.activeFailures
        /\ q[u].activeSuccesses = x.activeSuccesses
    BY <1>1, <1>2 DEF Upstream
  <2> QED BY <1>1, <1>5, <1>6, <2>1, <2>2 DEF Sound
<1> HIDE DEF q
<1>9. GoodPool(q, size)
  BY <1>3, <1>7, GoodPoolUpdate
<1> QED BY <1>9 DEF q

LEMMA SucceededGood ==
    ASSUME NEW size \in Nat, NEW p, GoodPool(p, size), NEW u \in 1..size
    PROVE  GoodPool(Succeeded(p, u), size)
<1> DEFINE q == Succeeded(p, u)
           x == p[u]
<1>1. x \in Upstream /\ Sound(x)
  BY DEF GoodPool
<1>2. q[u] = [x EXCEPT !.state = "healthy", !.failures = 0,
                       !.openFor = 0, !.inFlight = FALSE]
  BY DEF GoodPool, Upstream, Succeeded
<1>3. OnlyAt(u, p, q, size)
  BY DEF OnlyAt, GoodPool, Succeeded
<1> HIDE DEF q
<1>4. q[u] \in Upstream
  <2>1. 0 \in 0..FailureThreshold /\ 0 \in 0..OpenTicks
    BY ThresholdAssumption
  <2> QED BY <1>1, <1>2, <2>1 DEF Upstream, BreakerState
<1>5. /\ q[u].state = "healthy" /\ q[u].failures = 0 /\ q[u].openFor = 0
      /\ q[u].inFlight = FALSE /\ q[u].activeHealthy = x.activeHealthy
      /\ q[u].activeFailures = x.activeFailures
      /\ q[u].activeSuccesses = x.activeSuccesses
  BY <1>1, <1>2 DEF Upstream
<1>6. Sound(q[u])
  BY <1>1, <1>5, ThresholdAssumption DEF Sound
<1>9. GoodPool(q, size)
  BY <1>3, <1>4, <1>6, GoodPoolUpdate
<1> QED BY <1>9 DEF q

LEMMA DrainedGood ==
    ASSUME NEW size \in Nat, NEW p, GoodPool(p, size), NEW u \in 1..size, NEW value \in BOOLEAN
    PROVE  GoodPool(Drained(p, u, value), size)
<1> DEFINE q == Drained(p, u, value)
<1>1. p[u] \in Upstream /\ Sound(p[u])
  BY DEF GoodPool
<1>2. q[u] = [p[u] EXCEPT !.draining = value]
  BY DEF GoodPool, Upstream, Drained
<1>3. OnlyAt(u, p, q, size)
  BY DEF OnlyAt, GoodPool, Drained
<1> HIDE DEF q
<1>4. q[u] \in Upstream /\ Sound(q[u])
  BY <1>1, <1>2 DEF Upstream, Sound
<1>9. GoodPool(q, size)
  BY <1>3, <1>4, GoodPoolUpdate
<1> QED BY <1>9 DEF q

LEMMA ProbedHealthyGood ==
    ASSUME NEW size \in Nat, NEW p, GoodPool(p, size), NEW u \in 1..size
    PROVE  GoodPool(ProbedHealthy(p, u), size)
<1> DEFINE q == ProbedHealthy(p, u)
           x == p[u]
           n == Capped(x.activeSuccesses + 1, ProbeSuccesses)
           h == x.activeHealthy \/ n = ProbeSuccesses
<1>1. x \in Upstream /\ Sound(x)
  BY DEF GoodPool
<1>2. q[u] = [x EXCEPT !.activeFailures = 0, !.activeSuccesses = n, !.activeHealthy = h]
  BY DEF GoodPool, Upstream, ProbedHealthy
<1>3. OnlyAt(u, p, q, size)
  BY DEF OnlyAt, GoodPool, ProbedHealthy
<1>4. n \in 0..ProbeSuccesses /\ h \in BOOLEAN
  BY <1>1, ThresholdAssumption DEF Upstream, Capped
<1>5. ~h => n < ProbeSuccesses
  <2> HIDE DEF n
  <2> QED BY <1>4, ThresholdAssumption
<1> HIDE DEF q, n, h
<1>6. q[u] \in Upstream
  <2>1. 0 \in 0..ProbeFailures
    BY ThresholdAssumption
  <2> QED BY <1>1, <1>2, <1>4, <2>1 DEF Upstream
<1>7. /\ q[u].state = x.state /\ q[u].failures = x.failures
      /\ q[u].openFor = x.openFor /\ q[u].inFlight = x.inFlight
      /\ q[u].activeHealthy = h /\ q[u].activeFailures = 0
      /\ q[u].activeSuccesses = n
  BY <1>1, <1>2 DEF Upstream
<1>8. Sound(q[u])
  BY <1>1, <1>5, <1>7, ThresholdAssumption DEF Sound
<1>9. GoodPool(q, size)
  BY <1>3, <1>6, <1>8, GoodPoolUpdate
<1> QED BY <1>9 DEF q

LEMMA ProbedUnhealthyGood ==
    ASSUME NEW size \in Nat, NEW p, GoodPool(p, size), NEW u \in 1..size
    PROVE  GoodPool(ProbedUnhealthy(p, u), size)
<1> DEFINE q == ProbedUnhealthy(p, u)
           x == p[u]
           n == Capped(x.activeFailures + 1, ProbeFailures)
           h == x.activeHealthy /\ n < ProbeFailures
<1>1. x \in Upstream /\ Sound(x)
  BY DEF GoodPool
<1>2. q[u] = [x EXCEPT !.activeSuccesses = 0, !.activeFailures = n, !.activeHealthy = h]
  BY DEF GoodPool, Upstream, ProbedUnhealthy
<1>3. OnlyAt(u, p, q, size)
  BY DEF OnlyAt, GoodPool, ProbedUnhealthy
<1>4. n \in 0..ProbeFailures /\ h \in BOOLEAN
  BY <1>1, ThresholdAssumption DEF Upstream, Capped
<1>5. h => n < ProbeFailures
  OBVIOUS
<1> HIDE DEF q, n, h
<1>6. q[u] \in Upstream
  <2>1. 0 \in 0..ProbeSuccesses
    BY ThresholdAssumption
  <2> QED BY <1>1, <1>2, <1>4, <2>1 DEF Upstream
<1>7. /\ q[u].state = x.state /\ q[u].failures = x.failures
      /\ q[u].openFor = x.openFor /\ q[u].inFlight = x.inFlight
      /\ q[u].activeHealthy = h /\ q[u].activeFailures = n
      /\ q[u].activeSuccesses = 0
  BY <1>1, <1>2 DEF Upstream
<1>8. Sound(q[u])
  BY <1>1, <1>5, <1>7, ThresholdAssumption DEF Sound
<1>9. GoodPool(q, size)
  BY <1>3, <1>6, <1>8, GoodPoolUpdate
<1> QED BY <1>9 DEF q

\* What next() does to upstream u: nothing but the promotion, or the mark of a
\* probe, or the pick of a closed breaker.
SelectedAt(u, s, q) ==
    \/ u # s.up /\ s.pool[u] = q[u]
    \/ u = s.up /\ s.pool[u] = q[u] /\ q[u].state = "healthy"
    \/ /\ u = s.up
       /\ q[u].state = "half-open"
       /\ ~q[u].inFlight
       /\ s.pool[u] = [q[u] EXCEPT !.inFlight = TRUE]

\* next() keeps a pool good and the sum of its credits unchanged.
LEMMA SelectStep ==
    ASSUME NEW size \in Nat, NEW p, GoodPool(p, size),
           NEW credits \in [1..size -> Int], NEW weight \in [1..size -> Nat]
    PROVE  LET s == Select(p, credits, weight)
           IN  /\ GoodPool(s.pool, size)
               /\ s.credit \in [1..size -> Int]
               /\ PrefixSum(s.credit, size) = PrefixSum(credits, size)
               /\ s.up \in 0..size
               /\ \A u \in 1..size : SelectedAt(u, s, Promoted(p))
<1> DEFINE q == Promoted(p)
           s == Select(p, credits, weight)
<1>1. GoodPool(q, size)
  BY PromotedGood
<1> HIDE DEF q
<1>2. DOMAIN q = 1..size /\ q = [v \in 1..size |-> q[v]]
  BY <1>1 DEF GoodPool
<1>3. CASE Probeable(q) # {}
  <2> DEFINE u == FirstOf(Probeable(q))
             r == [q EXCEPT ![u].inFlight = TRUE]
  <2>1. u \in Probeable(q)
    <3>1. Probeable(q) \in SUBSET (1..size)
      BY <1>2 DEF Probeable
    <3>2. 1..size \subseteq Nat
      OBVIOUS
    <3>3. Probeable(q) \in SUBSET Nat
      BY <3>1, <3>2
    <3> QED BY <1>3, <3>3, FirstOfType
  <2>2. s = [up |-> u, pool |-> r, credit |-> credits]
    BY <1>3 DEF Select, q
  <2> HIDE DEF u, s
  <2>3. u \in 1..size /\ q[u].state = "half-open" /\ ~q[u].inFlight
    BY <2>1, <1>2 DEF Probeable
  <2>4. q[u] \in Upstream /\ Sound(q[u])
    BY <1>1, <2>3 DEF GoodPool
  <2>5. r[u] = [q[u] EXCEPT !.inFlight = TRUE]
    BY <1>2, <2>3, <2>4 DEF Upstream
  <2>6. OnlyAt(u, q, r, size)
    BY <1>2, <2>3 DEF OnlyAt
  <2> HIDE DEF r
  <2>7. r[u] \in Upstream /\ Sound(r[u])
    BY <2>3, <2>4, <2>5 DEF Upstream, Sound
  <2>8. GoodPool(r, size)
    BY <1>1, <2>3, <2>6, <2>7, GoodPoolUpdate
  <2>9. \A v \in 1..size : SelectedAt(v, s, q)
    BY <2>2, <2>3, <2>5, <2>6 DEF SelectedAt, OnlyAt
  <2>10. u \in 0..size
    BY <2>3
  <2>11. s.pool = r /\ s.credit = credits /\ s.up = u
    BY <2>2
  <2> QED BY <2>8, <2>9, <2>10, <2>11 DEF s, q
<1>4. CASE Probeable(q) = {} /\ Available(q) = {}
  <2>1. s = [up |-> None, pool |-> q, credit |-> credits]
    BY <1>4 DEF Select, q
  <2> HIDE DEF s
  <2>2. \A v \in 1..size : SelectedAt(v, s, q)
    BY <2>1 DEF SelectedAt, None
  <2>3. s.up \in 0..size
    BY <2>1 DEF None
  <2>4. s.pool = q /\ s.credit = credits
    BY <2>1
  <2> QED BY <1>1, <2>2, <2>3, <2>4 DEF s, q
<1>5. CASE Probeable(q) = {} /\ Available(q) # {}
  <2> DEFINE pick == RoundRobin(Available(q), credits, weight)
  <2>1. s = [up |-> pick.up, pool |-> q, credit |-> pick.credit]
    BY <1>5 DEF Select, q
  <2>2. /\ pick.up \in Available(q)
        /\ pick.credit \in [1..size -> Int]
        /\ PrefixSum(pick.credit, size) = PrefixSum(credits, size)
    <3>1. Available(q) \in SUBSET (1..size)
      BY <1>2 DEF Available
    <3> QED BY <1>5, <3>1, RoundRobinStep
  <2> HIDE DEF s, pick
  <2>3. pick.up \in 1..size /\ q[pick.up].state = "healthy"
    BY <1>2, <2>2 DEF Available
  <2>4. s.pool = q /\ s.credit = pick.credit /\ s.up = pick.up
    BY <2>1
  <2>5. \A v \in 1..size : SelectedAt(v, s, q)
    BY <2>3, <2>4 DEF SelectedAt
  <2>6. s.up \in 0..size
    BY <2>3, <2>4
  <2> QED BY <1>1, <2>2, <2>4, <2>5, <2>6 DEF s, q
<1> QED BY <1>3, <1>4, <1>5 DEF q

-----------------------------------------------------------------------------
(* PoolCalls.  The inductive invariant adds to the properties two facts    *)
(* that tie the ghosts to the fields of the breaker.                       *)

\* The in-flight mark is the code's only memory of the probe it let through.
MarkIsTheCount ==
    admitted = [u \in Upstreams |-> IF upstreams[u].inFlight THEN 1 ELSE 0]

\* openUntil remembers when the last failure of an open breaker was reported; a
\* half-open breaker has waited to the end.
ClockIsTheWait ==
    \A u \in Upstreams :
        /\ upstreams[u].state = "open" => upstreams[u].openFor + waited[u] = OpenTicks
        /\ upstreams[u].state = "half-open" => waited[u] = OpenTicks

BreakerInv ==
    /\ GoodPool(upstreams, N)
    /\ picked \in 0..N
    /\ waited \in [Upstreams -> 0..OpenTicks]
    /\ MarkIsTheCount
    /\ ClockIsTheWait

CreditInv ==
    /\ currentWeight \in [Upstreams -> Int]
    /\ PrefixSum(currentWeight, N) = 0

IInv == BreakerInv /\ CreditInv

-----------------------------------------------------------------------------

LEMMA WeightNat == PoolWeight \in [1..N -> Nat] /\ N \in Nat
<1>1. 1..100 \subseteq Nat
  OBVIOUS
<1> QED BY <1>1, PoolAssumption

\* A row of zeros adds up to zero.
LEMMA ZeroCredits ==
    PrefixSum([u \in Upstreams |-> 0], N) = 0
<1> DEFINE c == [u \in Upstreams |-> 0]
           g == [i \in 0..N |-> 0]
<1>1. N \in Nat /\ c \in [1..N -> Int] /\ g \in [0..N -> Int]
  BY PoolAssumption DEF Upstreams
<1>2. RunningSums(g, c, N)
  BY <1>1 DEF RunningSums, Upstreams
<1>3. PrefixSum(c, N) = g[N]
  <2> HIDE DEF c, g
  <2> QED BY <1>1, <1>2, PrefixSumIs
<1> QED BY <1>1, <1>3

LEMMA InitInv == PoolInit => IInv
<1> SUFFICES ASSUME PoolInit PROVE IInv
  OBVIOUS
<1>1. GoodPool(upstreams, N)
  BY FreshGood DEF PoolInit, GoodPool, Upstreams
<1>2. picked \in 0..N /\ waited \in [Upstreams -> 0..OpenTicks]
  BY PoolAssumption, ThresholdAssumption DEF PoolInit, None
<1>3. MarkIsTheCount
  BY DEF PoolInit, MarkIsTheCount, Fresh
<1>4. ClockIsTheWait
  BY DEF PoolInit, ClockIsTheWait, Fresh
<1>5. CreditInv
  BY ZeroCredits DEF PoolInit, CreditInv
<1> QED BY <1>1, <1>2, <1>3, <1>4, <1>5 DEF IInv, BreakerInv

\* What the invariant says of one upstream, in the form the steps use.
LEMMA OneUpstream ==
    ASSUME BreakerInv, NEW u \in Upstreams
    PROVE  /\ upstreams[u] \in Upstream /\ Sound(upstreams[u])
           /\ waited[u] \in 0..OpenTicks
           /\ admitted[u] = IF upstreams[u].inFlight THEN 1 ELSE 0
           /\ upstreams[u].state = "open" => upstreams[u].openFor + waited[u] = OpenTicks
           /\ upstreams[u].state = "half-open" => waited[u] = OpenTicks
BY DEF BreakerInv, GoodPool, Upstreams, MarkIsTheCount, ClockIsTheWait

\* A request for an upstream: the mark is set exactly when the ghost counts.
LEMMA NextKeepsInv == IInv /\ Next_ => IInv'
<1> SUFFICES ASSUME IInv, Next_ PROVE IInv'
  OBVIOUS
<1> DEFINE s == Select(upstreams, currentWeight, PoolWeight)
           q == Promoted(upstreams)
<1>1. /\ GoodPool(s.pool, N)
      /\ s.credit \in [1..N -> Int]
      /\ PrefixSum(s.credit, N) = PrefixSum(currentWeight, N)
      /\ s.up \in 0..N
      /\ \A u \in 1..N : SelectedAt(u, s, q)
  <2>1. GoodPool(upstreams, N) /\ currentWeight \in [1..N -> Int]
    BY DEF IInv, BreakerInv, CreditInv, Upstreams
  <2> QED BY <2>1, WeightNat, SelectStep
<1>2. /\ upstreams' = s.pool /\ currentWeight' = s.credit /\ picked' = s.up
      /\ admitted' = Counted(upstreams, s.pool, s.up) /\ waited' = waited
  BY DEF Next_
<1>3. CreditInv'
  BY <1>1, <1>2 DEF IInv, CreditInv, Upstreams
<1> HIDE DEF s, q
<1>4. ASSUME NEW u \in Upstreams
      PROVE  /\ admitted'[u] = IF upstreams'[u].inFlight THEN 1 ELSE 0
             /\ upstreams'[u].state = "open" => upstreams'[u].openFor + waited[u] = OpenTicks
             /\ upstreams'[u].state = "half-open" => waited[u] = OpenTicks
  <2>1. /\ upstreams[u] \in Upstream /\ Sound(upstreams[u])
        /\ waited[u] \in 0..OpenTicks
        /\ admitted[u] = IF upstreams[u].inFlight THEN 1 ELSE 0
        /\ upstreams[u].state = "open" => upstreams[u].openFor + waited[u] = OpenTicks
        /\ upstreams[u].state = "half-open" => waited[u] = OpenTicks
    BY OneUpstream DEF IInv
  <2>2. q[u] = IF upstreams[u].state = "open" /\ upstreams[u].openFor = 0
               THEN [upstreams[u] EXCEPT !.state = "half-open"] ELSE upstreams[u]
    BY DEF q, Promoted, IInv, BreakerInv, GoodPool, Upstreams
  <2>3. /\ q[u] \in Upstream
        /\ q[u].inFlight = upstreams[u].inFlight /\ q[u].openFor = upstreams[u].openFor
        /\ q[u].state = "open" => q[u].openFor + waited[u] = OpenTicks
        /\ q[u].state = "half-open" => waited[u] = OpenTicks
        /\ q[u].inFlight => q[u].state = "half-open"
        /\ q[u].inFlight => upstreams[u].state = "half-open"
    BY <2>1, <2>2, ThresholdAssumption DEF Upstream, BreakerState, Sound
  <2>4. admitted'[u] =
           IF s.pool[u].state # "half-open" THEN 0
           ELSE (IF upstreams[u].state = "half-open" THEN admitted[u] ELSE 0)
                + (IF u = s.up THEN 1 ELSE 0)
    BY <1>2 DEF Counted
  <2>5. SelectedAt(u, s, q)
    BY <1>1 DEF Upstreams
  <2>6. CASE u # s.up /\ s.pool[u] = q[u]
    BY <1>2, <2>1, <2>3, <2>4, <2>6 DEF Upstream, Sound
  <2>7. CASE u = s.up /\ s.pool[u] = q[u] /\ q[u].state = "healthy"
    BY <1>2, <2>1, <2>3, <2>4, <2>7 DEF Upstream, Sound
  <2>8. CASE /\ u = s.up /\ q[u].state = "half-open" /\ ~q[u].inFlight
             /\ s.pool[u] = [q[u] EXCEPT !.inFlight = TRUE]
    <3>1. s.pool[u].state = "half-open" /\ s.pool[u].inFlight
      BY <2>3, <2>8 DEF Upstream
    <3>2. admitted[u] = 0
      BY <2>1, <2>3, <2>8
    <3>3. admitted'[u] = 1
      BY <2>4, <2>8, <3>1, <3>2
    <3> QED BY <1>2, <2>3, <2>8, <3>1, <3>3
  <2> QED BY <2>5, <2>6, <2>7, <2>8 DEF SelectedAt
<1>5. MarkIsTheCount'
  <2>1. admitted' = [u \in Upstreams |-> admitted'[u]]
    BY <1>2 DEF Counted
  <2> QED BY <1>4, <2>1 DEF MarkIsTheCount
<1>6. ClockIsTheWait'
  BY <1>2, <1>4 DEF ClockIsTheWait
<1>7. BreakerInv'
  BY <1>1, <1>2, <1>5, <1>6 DEF IInv, BreakerInv
<1> QED BY <1>3, <1>7 DEF IInv

\* The facts a step must establish, upstream by upstream.
LEMMA BreakerInvFrom ==
    ASSUME GoodPool(upstreams', N), picked' \in 0..N,
           admitted' = [u \in Upstreams |-> admitted'[u]],
           waited' = [u \in Upstreams |-> waited'[u]],
           \A u \in Upstreams :
              /\ waited'[u] \in 0..OpenTicks
              /\ admitted'[u] = IF upstreams'[u].inFlight THEN 1 ELSE 0
              /\ upstreams'[u].state = "open" => upstreams'[u].openFor + waited'[u] = OpenTicks
              /\ upstreams'[u].state = "half-open" => waited'[u] = OpenTicks
    PROVE  BreakerInv'
<1>1. MarkIsTheCount'
  BY DEF MarkIsTheCount
<1>2. ClockIsTheWait'
  BY DEF ClockIsTheWait
<1>3. waited' \in [Upstreams -> 0..OpenTicks]
  OBVIOUS
<1> QED BY <1>1, <1>2, <1>3 DEF BreakerInv

\* A reported failure takes the mark away and starts the wait of an open
\* breaker anew.
LEMMA MarkFailureKeepsInv ==
    ASSUME BreakerInv, NEW u \in Upstreams, MarkFailure(u)
    PROVE  BreakerInv'
<1>1. /\ upstreams' = Failed(upstreams, u) /\ picked' = picked
      /\ admitted' = Counted(upstreams, upstreams', None)
      /\ waited' = [waited EXCEPT ![u] = 0]
  BY DEF MarkFailure
<1>2. GoodPool(upstreams', N)
  BY <1>1, WeightNat, FailedGood DEF BreakerInv, Upstreams
<1>3. ASSUME NEW v \in Upstreams
      PROVE  /\ waited'[v] \in 0..OpenTicks
             /\ admitted'[v] = IF upstreams'[v].inFlight THEN 1 ELSE 0
             /\ upstreams'[v].state = "open" => upstreams'[v].openFor + waited'[v] = OpenTicks
             /\ upstreams'[v].state = "half-open" => waited'[v] = OpenTicks
  <2>1. /\ upstreams[v] \in Upstream /\ Sound(upstreams[v])
        /\ waited[v] \in 0..OpenTicks
        /\ admitted[v] = IF upstreams[v].inFlight THEN 1 ELSE 0
        /\ upstreams[v].state = "open" => upstreams[v].openFor + waited[v] = OpenTicks
        /\ upstreams[v].state = "half-open" => waited[v] = OpenTicks
    BY OneUpstream
  <2>2. admitted'[v] =
           IF upstreams'[v].state # "half-open" THEN 0
           ELSE IF upstreams[v].state = "half-open" THEN admitted[v] + 0 ELSE 0
    BY <1>1 DEF Counted, None, Upstreams
  <2>3. CASE v # u
    <3>1. upstreams'[v] = upstreams[v] /\ waited'[v] = waited[v]
      BY <1>1, <2>3 DEF Failed, BreakerInv, GoodPool, Upstreams
    <3> QED BY <2>1, <2>2, <3>1 DEF Sound
  <2>4. CASE v = u
    <3>1. /\ upstreams'[v].inFlight = FALSE
          /\ upstreams'[v].state = IF Opens(upstreams[v]) THEN "open" ELSE upstreams[v].state
          /\ upstreams'[v].openFor = IF Opens(upstreams[v]) THEN OpenTicks ELSE upstreams[v].openFor
          /\ waited'[v] = 0
      BY <1>1, <2>1, <2>4 DEF Failed, BreakerInv, GoodPool, Upstreams, Upstream
    <3>2. ~Opens(upstreams[v]) => upstreams[v].state = "healthy"
      BY <2>1, ThresholdAssumption DEF Opens, Sound, Upstream
    <3>3. upstreams'[v].state \in {"healthy", "open"} /\ admitted'[v] = 0
      BY <2>2, <3>1, <3>2
    <3>4. upstreams'[v].state = "open" => upstreams'[v].openFor = OpenTicks
      BY <3>1, <3>2
    <3> QED BY <3>1, <3>3, <3>4, ThresholdAssumption
  <2> QED BY <2>3, <2>4
<1>4. /\ admitted' = [v \in Upstreams |-> admitted'[v]]
      /\ waited' = [v \in Upstreams |-> waited'[v]]
      /\ picked' \in 0..N
  BY <1>1 DEF Counted, BreakerInv
<1> QED BY <1>2, <1>3, <1>4, BreakerInvFrom

\* A reported success closes the breaker, whatever state it is in.
LEMMA MarkSuccessKeepsInv ==
    ASSUME BreakerInv, NEW u \in Upstreams, MarkSuccess(u)
    PROVE  BreakerInv'
<1>1. /\ upstreams' = Succeeded(upstreams, u) /\ picked' = picked /\ waited' = waited
      /\ admitted' = Counted(upstreams, upstreams', None)
  BY DEF MarkSuccess
<1>2. GoodPool(upstreams', N)
  BY <1>1, WeightNat, SucceededGood DEF BreakerInv, Upstreams
<1>3. ASSUME NEW v \in Upstreams
      PROVE  /\ waited'[v] \in 0..OpenTicks
             /\ admitted'[v] = IF upstreams'[v].inFlight THEN 1 ELSE 0
             /\ upstreams'[v].state = "open" => upstreams'[v].openFor + waited'[v] = OpenTicks
             /\ upstreams'[v].state = "half-open" => waited'[v] = OpenTicks
  <2>1. /\ upstreams[v] \in Upstream /\ Sound(upstreams[v])
        /\ waited[v] \in 0..OpenTicks
        /\ admitted[v] = IF upstreams[v].inFlight THEN 1 ELSE 0
        /\ upstreams[v].state = "open" => upstreams[v].openFor + waited[v] = OpenTicks
        /\ upstreams[v].state = "half-open" => waited[v] = OpenTicks
    BY OneUpstream
  <2>2. admitted'[v] =
           IF upstreams'[v].state # "half-open" THEN 0
           ELSE IF upstreams[v].state = "half-open" THEN admitted[v] + 0 ELSE 0
    BY <1>1 DEF Counted, None, Upstreams
  <2>3. CASE v # u
    <3>1. upstreams'[v] = upstreams[v]
      BY <1>1, <2>3 DEF Succeeded, BreakerInv, GoodPool, Upstreams
    <3> QED BY <1>1, <2>1, <2>2, <3>1 DEF Sound
  <2>4. CASE v = u
    <3>1. upstreams'[v].inFlight = FALSE /\ upstreams'[v].state = "healthy"
      BY <1>1, <2>1, <2>4 DEF Succeeded, BreakerInv, GoodPool, Upstreams, Upstream
    <3> QED BY <1>1, <2>1, <2>2, <3>1
  <2> QED BY <2>3, <2>4
<1>4. /\ admitted' = [v \in Upstreams |-> admitted'[v]]
      /\ waited' = [v \in Upstreams |-> waited'[v]]
      /\ picked' \in 0..N
  BY <1>1 DEF Counted, BreakerInv
<1> QED BY <1>2, <1>3, <1>4, BreakerInvFrom

\* Draining and active probes leave the passive breaker alone.
LEMMA SideFieldsKeepInv ==
    ASSUME BreakerInv, GoodPool(upstreams', N), UNCHANGED <<picked, admitted, waited>>,
           \A v \in Upstreams : /\ upstreams'[v].state = upstreams[v].state
                                /\ upstreams'[v].openFor = upstreams[v].openFor
                                /\ upstreams'[v].inFlight = upstreams[v].inFlight
    PROVE  BreakerInv'
<1>1. /\ admitted' = [v \in Upstreams |-> admitted'[v]]
      /\ waited' = [v \in Upstreams |-> waited'[v]]
      /\ picked' \in 0..N
  BY DEF BreakerInv, MarkIsTheCount
<1>2. ASSUME NEW v \in Upstreams
      PROVE  /\ waited'[v] \in 0..OpenTicks
             /\ admitted'[v] = IF upstreams'[v].inFlight THEN 1 ELSE 0
             /\ upstreams'[v].state = "open" => upstreams'[v].openFor + waited'[v] = OpenTicks
             /\ upstreams'[v].state = "half-open" => waited'[v] = OpenTicks
  BY OneUpstream
<1> QED BY <1>1, <1>2, BreakerInvFrom

LEMMA SetDrainingKeepsInv ==
    ASSUME BreakerInv, NEW u \in Upstreams, NEW value \in BOOLEAN, SetDraining(u, value)
    PROVE  BreakerInv'
<1>1. upstreams' = Drained(upstreams, u, value) /\ UNCHANGED <<picked, admitted, waited>>
  BY DEF SetDraining
<1>2. GoodPool(upstreams', N)
  BY <1>1, WeightNat, DrainedGood DEF BreakerInv, Upstreams
<1>3. ASSUME NEW v \in Upstreams
      PROVE  /\ upstreams'[v].state = upstreams[v].state
             /\ upstreams'[v].openFor = upstreams[v].openFor
             /\ upstreams'[v].inFlight = upstreams[v].inFlight
  BY <1>1 DEF Drained, BreakerInv, GoodPool, Upstreams, Upstream
<1> QED BY <1>1, <1>2, <1>3, SideFieldsKeepInv

LEMMA RecordActiveProbeKeepsInv ==
    ASSUME BreakerInv, NEW u \in Upstreams, NEW healthy \in BOOLEAN,
           RecordActiveProbe(u, healthy)
    PROVE  BreakerInv'
<1>1. /\ upstreams' = IF healthy THEN ProbedHealthy(upstreams, u) ELSE ProbedUnhealthy(upstreams, u)
      /\ UNCHANGED <<picked, admitted, waited>>
  BY DEF RecordActiveProbe
<1>2. GoodPool(upstreams', N)
  BY <1>1, WeightNat, ProbedHealthyGood, ProbedUnhealthyGood DEF BreakerInv, Upstreams
<1>3. ASSUME NEW v \in Upstreams
      PROVE  /\ upstreams'[v].state = upstreams[v].state
             /\ upstreams'[v].openFor = upstreams[v].openFor
             /\ upstreams'[v].inFlight = upstreams[v].inFlight
  BY <1>1 DEF ProbedHealthy, ProbedUnhealthy, BreakerInv, GoodPool, Upstreams, Upstream
<1> QED BY <1>1, <1>2, <1>3, SideFieldsKeepInv

\* A reload starts every breaker and every credit afresh.
LEMMA ReplaceKeepsInv == IInv /\ Replace => IInv'
<1> SUFFICES ASSUME IInv, Replace PROVE IInv'
  OBVIOUS
<1>1. /\ upstreams' = Rebuilt(upstreams) /\ currentWeight' = [u \in Upstreams |-> 0]
      /\ admitted' = [u \in Upstreams |-> 0] /\ UNCHANGED <<picked, waited>>
  BY DEF Replace
<1>2. GoodPool(upstreams', N)
  BY <1>1, WeightNat, RebuiltGood DEF IInv, BreakerInv
<1>3. ASSUME NEW v \in Upstreams
      PROVE  /\ waited'[v] \in 0..OpenTicks
             /\ admitted'[v] = IF upstreams'[v].inFlight THEN 1 ELSE 0
             /\ upstreams'[v].state = "open" => upstreams'[v].openFor + waited'[v] = OpenTicks
             /\ upstreams'[v].state = "half-open" => waited'[v] = OpenTicks
  <2>1. upstreams'[v].state = "healthy" /\ upstreams'[v].inFlight = FALSE
    BY <1>1 DEF Rebuilt, Fresh, IInv, BreakerInv, GoodPool, Upstreams
  <2> QED BY <1>1, <2>1 DEF IInv, BreakerInv
<1>4. /\ admitted' = [v \in Upstreams |-> admitted'[v]]
      /\ waited' = [v \in Upstreams |-> waited'[v]]
      /\ picked' \in 0..N
  BY <1>1 DEF IInv, BreakerInv
<1>5. BreakerInv'
  BY <1>2, <1>3, <1>4, BreakerInvFrom
<1>6. CreditInv'
  BY <1>1, ZeroCredits DEF CreditInv
<1> QED BY <1>5, <1>6 DEF IInv

\* The clock takes from openFor what it adds to the wait.
LEMMA TickKeepsInv ==
    ASSUME BreakerInv, PoolTick
    PROVE  BreakerInv'
<1>1. /\ upstreams' = Ticked(upstreams) /\ UNCHANGED <<picked, admitted>>
      /\ waited' = [u \in Upstreams |-> Capped(waited[u] + 1, OpenTicks)]
  BY DEF PoolTick
<1>2. GoodPool(upstreams', N)
  BY <1>1, WeightNat, TickedGood DEF BreakerInv
<1>3. ASSUME NEW v \in Upstreams
      PROVE  /\ waited'[v] \in 0..OpenTicks
             /\ admitted'[v] = IF upstreams'[v].inFlight THEN 1 ELSE 0
             /\ upstreams'[v].state = "open" => upstreams'[v].openFor + waited'[v] = OpenTicks
             /\ upstreams'[v].state = "half-open" => waited'[v] = OpenTicks
  <2>1. /\ upstreams[v] \in Upstream /\ Sound(upstreams[v])
        /\ waited[v] \in 0..OpenTicks
        /\ admitted[v] = IF upstreams[v].inFlight THEN 1 ELSE 0
        /\ upstreams[v].state = "open" => upstreams[v].openFor + waited[v] = OpenTicks
        /\ upstreams[v].state = "half-open" => waited[v] = OpenTicks
    BY OneUpstream
  <2>2. /\ upstreams'[v].state = upstreams[v].state /\ upstreams'[v].inFlight = upstreams[v].inFlight
        /\ upstreams'[v].openFor = IF upstreams[v].openFor = 0 THEN 0 ELSE upstreams[v].openFor - 1
    BY <1>1, <2>1 DEF Ticked, BreakerInv, GoodPool, Upstreams, Upstream
  <2>3. waited'[v] = IF waited[v] + 1 < OpenTicks THEN waited[v] + 1 ELSE OpenTicks
    BY <1>1 DEF Capped
  <2>4. upstreams[v].openFor \in 0..OpenTicks
    BY <2>1 DEF Upstream
  <2>5. waited'[v] \in 0..OpenTicks
    BY <2>1, <2>3, ThresholdAssumption
  <2>6. upstreams'[v].state = "open" => upstreams'[v].openFor + waited'[v] = OpenTicks
    BY <2>1, <2>2, <2>3, <2>4, ThresholdAssumption
  <2>7. upstreams'[v].state = "half-open" => waited'[v] = OpenTicks
    BY <2>1, <2>2, <2>3, ThresholdAssumption
  <2> QED BY <1>1, <2>1, <2>2, <2>5, <2>6, <2>7
<1>4. /\ admitted' = [v \in Upstreams |-> admitted'[v]]
      /\ waited' = [v \in Upstreams |-> waited'[v]]
      /\ picked' \in 0..N
  BY <1>1 DEF BreakerInv, MarkIsTheCount
<1> QED BY <1>2, <1>3, <1>4, BreakerInvFrom

-----------------------------------------------------------------------------

LEMMA Inductive == IInv /\ [PoolNext]_poolVars => IInv'
<1> SUFFICES ASSUME IInv, [PoolNext]_poolVars PROVE IInv'
  OBVIOUS
<1>1. CASE Next_
  BY <1>1, NextKeepsInv
<1>2. ASSUME NEW u \in Upstreams, MarkFailure(u) PROVE IInv'
  <2>1. BreakerInv'
    BY <1>2, MarkFailureKeepsInv DEF IInv
  <2> QED BY <1>2, <2>1 DEF IInv, CreditInv, MarkFailure
<1>3. ASSUME NEW u \in Upstreams, MarkSuccess(u) PROVE IInv'
  <2>1. BreakerInv'
    BY <1>3, MarkSuccessKeepsInv DEF IInv
  <2> QED BY <1>3, <2>1 DEF IInv, CreditInv, MarkSuccess
<1>4. ASSUME NEW u \in Upstreams, NEW value \in BOOLEAN, SetDraining(u, value)
      PROVE  IInv'
  <2>1. BreakerInv'
    BY <1>4, SetDrainingKeepsInv DEF IInv
  <2> QED BY <1>4, <2>1 DEF IInv, CreditInv, SetDraining
<1>5. ASSUME NEW u \in Upstreams, NEW value \in BOOLEAN, RecordActiveProbe(u, value)
      PROVE  IInv'
  <2>1. BreakerInv'
    BY <1>5, RecordActiveProbeKeepsInv DEF IInv
  <2> QED BY <1>5, <2>1 DEF IInv, CreditInv, RecordActiveProbe
<1>6. CASE Replace
  BY <1>6, ReplaceKeepsInv
<1>7. CASE PoolTick
  <2>1. BreakerInv'
    BY <1>7, TickKeepsInv DEF IInv
  <2> QED BY <1>7, <2>1 DEF IInv, CreditInv, PoolTick
<1>8. CASE UNCHANGED poolVars
  BY <1>8 DEF poolVars, IInv, BreakerInv, CreditInv, MarkIsTheCount, ClockIsTheWait
<1> QED BY <1>1, <1>2, <1>3, <1>4, <1>5, <1>6, <1>7, <1>8 DEF PoolNext

LEMMA Invariance == PoolSpec => []IInv
BY InitInv, Inductive, PTL DEF PoolSpec

\* Every variable of a pool and of its callers keeps its type: no counter of
\* UpstreamPool passes its threshold and openUntil never lies in the past.
THEOREM TypeCorrect == PoolSpec => []CallsTypeOK
<1>1. IInv => CallsTypeOK
  <2>1. ASSUME BreakerInv PROVE admitted \in [Upstreams -> Nat]
    BY <2>1 DEF BreakerInv, MarkIsTheCount
  <2> QED BY <2>1, WeightNat, GoodPoolMeaning
          DEF IInv, BreakerInv, CreditInv, CallsTypeOK, BreakerTypeOK
<1> QED BY <1>1, Invariance, PTL

\* The fields of every breaker of UpstreamPool stay consistent, in whatever
\* order next, markFailure, markSuccess and the others are called.
THEOREM BreakersStayConsistent == PoolSpec => []BreakerConsistent
<1>1. IInv => BreakerConsistent
  BY WeightNat, GoodPoolMeaning DEF IInv, BreakerInv, BreakerConsistent
<1> QED BY <1>1, Invariance, PTL

\* next() admits at most one request in a half-open phase.
THEOREM OneProbe == PoolSpec => []OneProbePerPhase
<1>1. IInv => OneProbePerPhase
  BY DEF IInv, BreakerInv, MarkIsTheCount, OneProbePerPhase
<1> QED BY <1>1, Invariance, PTL

\* The credits of next()'s round robin always add up to zero.
THEOREM CreditsAlwaysCancel == PoolSpec => []CreditsCancel
<1>1. IInv => CreditsCancel
  BY DEF IInv, CreditInv, CreditsCancel
<1> QED BY <1>1, Invariance, PTL

\* No probe before openMs have passed since the last reported failure.
THEOREM BackoffIsRespected == PoolSpec => BackoffRespected
<1> DEFINE Respects ==
        \A u \in Upstreams : admitted'[u] > admitted[u] => waited[u] = OpenTicks
<1>1. IInv /\ IInv' /\ [PoolNext]_poolVars => [Respects]_poolVars
  <2> SUFFICES ASSUME IInv, IInv', [PoolNext]_poolVars, NEW u \in Upstreams,
                      admitted'[u] > admitted[u]
               PROVE  waited[u] = OpenTicks
    BY DEF poolVars
  <2>1. /\ admitted[u] = IF upstreams[u].inFlight THEN 1 ELSE 0
        /\ upstreams[u].state = "half-open" => waited[u] = OpenTicks
    BY OneUpstream DEF IInv
  <2>2. /\ upstreams'[u].state = "half-open" => waited'[u] = OpenTicks
        /\ admitted'[u] = IF upstreams'[u].inFlight THEN 1 ELSE 0
        /\ upstreams'[u].inFlight => upstreams'[u].state = "half-open"
    BY DEF IInv, BreakerInv, GoodPool, Sound, MarkIsTheCount, ClockIsTheWait, Upstreams
  <2>3. upstreams'[u].inFlight /\ ~upstreams[u].inFlight /\ waited'[u] = OpenTicks
    BY <2>1, <2>2
  <2>4. CASE waited'[u] = waited[u]
    BY <2>3, <2>4
  <2>5. ASSUME NEW v \in Upstreams, MarkFailure(v) PROVE FALSE
    <3>1. upstreams' = Failed(upstreams, v)
      BY <2>5 DEF MarkFailure
    <3>2. upstreams'[u].inFlight = IF u = v THEN FALSE ELSE upstreams[u].inFlight
      BY <3>1 DEF Failed, IInv, BreakerInv, GoodPool, Upstreams, Upstream
    <3> QED BY <2>3, <3>2
  <2>6. CASE PoolTick
    <3>1. upstreams' = Ticked(upstreams)
      BY <2>6 DEF PoolTick
    <3>2. upstreams'[u].inFlight = upstreams[u].inFlight
      BY <3>1 DEF Ticked, IInv, BreakerInv, GoodPool, Upstreams, Upstream
    <3> QED BY <2>3, <3>2
  <2> QED BY <2>4, <2>5, <2>6 DEF PoolNext, Next_, MarkSuccess, SetDraining,
             RecordActiveProbe, Replace, poolVars
<1> QED BY <1>1, Invariance, PTL DEF PoolSpec, BackoffRespected
-----------------------------------------------------------------------------
(* ProxyRequests: resolution and the reports to the pools.                 *)

\* Both pools are as they should be, and so are their credits.
GoodWorld(w) ==
    /\ w = [pool |-> w.pool, credit |-> w.credit]
    /\ w.pool = [k \in Pools |-> w.pool[k]]
    /\ w.credit = [k \in Pools |-> w.credit[k]]
    /\ \A k \in Pools : /\ GoodPool(w.pool[k], Size[k])
                        /\ w.credit[k] \in [1..Size[k] -> Int]

\* A resolution names an upstream of its pool, unless a reload has replaced it.
Known(to) == to \in Route /\ (~to.stale => to.up \in 1..Size[to.pool])

LEMMA PoolSizes ==
    ASSUME NEW k \in Pools
    PROVE  Size[k] \in Nat /\ Weight[k] \in [1..Size[k] -> Nat]
<1>1. 1..100 \subseteq Nat
  OBVIOUS
<1> QED BY <1>1, RequestAssumption

\* A world in which pool k and its credits were replaced.
LEMMA WorldUpdate ==
    ASSUME NEW w, GoodWorld(w), NEW k \in Pools,
           NEW p, GoodPool(p, Size[k]), NEW c \in [1..Size[k] -> Int]
    PROVE  GoodWorld([pool |-> [w.pool EXCEPT ![k] = p], credit |-> [w.credit EXCEPT ![k] = c]])
<1> DEFINE ps == [w.pool EXCEPT ![k] = p]
           cs == [w.credit EXCEPT ![k] = c]
<1>1. ps = [h \in Pools |-> ps[h]] /\ cs = [h \in Pools |-> cs[h]]
  BY DEF GoodWorld
<1>2. ASSUME NEW h \in Pools PROVE GoodPool(ps[h], Size[h]) /\ cs[h] \in [1..Size[h] -> Int]
  <2>1. CASE h = k
    BY <2>1 DEF GoodWorld
  <2>2. CASE h # k
    <3>1. ps[h] = w.pool[h] /\ cs[h] = w.credit[h]
      BY <2>2 DEF GoodWorld
    <3> QED BY <3>1 DEF GoodWorld
  <2> QED BY <2>1, <2>2
<1> HIDE DEF ps, cs
<1> QED BY <1>1, <1>2 DEF GoodWorld

\* next() of either pool.
LEMMA ChosenGood ==
    ASSUME NEW w, GoodWorld(w), NEW k \in Pools
    PROVE  GoodWorld(Chosen(k, w).world) /\ Chosen(k, w).up \in 0..Size[k]
<1> DEFINE s == Select(w.pool[k], w.credit[k], Weight[k])
<1>1. GoodPool(s.pool, Size[k]) /\ s.credit \in [1..Size[k] -> Int] /\ s.up \in 0..Size[k]
  <2>1. GoodPool(w.pool[k], Size[k]) /\ w.credit[k] \in [1..Size[k] -> Int]
    BY DEF GoodWorld
  <2> QED BY <2>1, PoolSizes, SelectStep
<1>2. /\ Chosen(k, w).up = s.up
      /\ Chosen(k, w).world = [pool |-> [w.pool EXCEPT ![k] = s.pool],
                               credit |-> [w.credit EXCEPT ![k] = s.credit]]
  BY DEF Chosen
<1> HIDE DEF s
<1>3. GoodWorld([pool |-> [w.pool EXCEPT ![k] = s.pool],
                 credit |-> [w.credit EXCEPT ![k] = s.credit]])
  BY <1>1, WorldUpdate
<1> QED BY <1>1, <1>2, <1>3

\* markFailure and markSuccess, late or not.
LEMMA ReportsGood ==
    ASSUME NEW w, GoodWorld(w), NEW to, Known(to)
    PROVE  GoodWorld(AfterFailure(to, w)) /\ GoodWorld(AfterSuccess(to, w))
<1>1. CASE to.stale
  BY <1>1 DEF AfterFailure, AfterSuccess
<1>2. CASE ~to.stale
  <2> DEFINE k == to.pool
             f == Failed(w.pool[k], to.up)
             s == Succeeded(w.pool[k], to.up)
  <2>1. k \in Pools /\ to.up \in 1..Size[k]
    BY <1>2 DEF Known, Route
  <2>2. GoodPool(w.pool[k], Size[k]) /\ w.credit[k] \in [1..Size[k] -> Int]
    BY <2>1 DEF GoodWorld
  <2>3. GoodPool(f, Size[k]) /\ GoodPool(s, Size[k])
    BY <2>1, <2>2, PoolSizes, FailedGood, SucceededGood
  <2>4. w.credit = [w.credit EXCEPT ![k] = w.credit[k]]
    BY <2>1 DEF GoodWorld
  <2>5. /\ AfterFailure(to, w) = [w EXCEPT !.pool[to.pool] = f]
        /\ AfterSuccess(to, w) = [w EXCEPT !.pool[to.pool] = s]
    BY <1>2 DEF AfterFailure, AfterSuccess
  <2> HIDE DEF f, s
  <2>6. /\ AfterFailure(to, w) = [pool |-> [w.pool EXCEPT ![k] = f], credit |-> w.credit]
        /\ AfterSuccess(to, w) = [pool |-> [w.pool EXCEPT ![k] = s], credit |-> w.credit]
    BY <2>5 DEF GoodWorld
  <2> HIDE DEF k
  <2>7. GoodWorld([pool |-> [w.pool EXCEPT ![k] = f],
                   credit |-> [w.credit EXCEPT ![k] = w.credit[k]]])
    BY <2>1, <2>2, <2>3, WorldUpdate
  <2>8. GoodWorld([pool |-> [w.pool EXCEPT ![k] = s],
                   credit |-> [w.credit EXCEPT ![k] = w.credit[k]]])
    BY <2>1, <2>2, <2>3, WorldUpdate
  <2> QED BY <2>4, <2>6, <2>7, <2>8
<1> QED BY <1>1, <1>2

LEMMA RoutesKnown ==
    /\ Known(NoRoute)
    /\ \A k \in Pools : \A u \in 1..Size[k] : Known(To(k, u))
<1>1. NoRoute \in Route /\ NoRoute.stale
  BY DEF NoRoute, Route, Pools, None
<1>2. ASSUME NEW k \in Pools, NEW u \in 1..Size[k] PROVE Known(To(k, u))
  <2>1. u \in Nat
    BY PoolSizes
  <2> QED BY <2>1 DEF To, Known, Route
<1> QED BY <1>1, <1>2 DEF Known

\* nextAttempt leaves the pools good and answers with an upstream that exists.
LEMMA NextAttemptGood ==
    ASSUME NEW failed, NEW w, GoodWorld(w)
    PROVE  /\ GoodWorld(NextAttempt(failed, w).world)
           /\ Known(NextAttempt(failed, w).to)
<1> DEFINE first == Chosen("primary", w)
           second == Chosen("fallback", first.world)
           n == NextAttempt(failed, w)
<1>1. "primary" \in Pools /\ "fallback" \in Pools
  BY DEF Pools
<1>2. GoodWorld(first.world) /\ first.up \in 0..Size["primary"]
  BY <1>1, ChosenGood
<1>3. GoodWorld(second.world) /\ second.up \in 0..Size["fallback"]
  <2> HIDE DEF first
  <2> QED BY <1>1, <1>2, ChosenGood
<1>4. \/ n.to = NoRoute /\ n.world \in {w, first.world, second.world}
      \/ n.to = To("primary", first.up) /\ first.up # None /\ n.world = first.world
      \/ n.to = To("fallback", second.up) /\ second.up # None /\ n.world = second.world
  <2> DEFINE again == first.up = failed.up /\ failed.pool = "primary" /\ ~failed.stale
  <2>1. n = IF draining
            THEN [kind |-> "broken", to |-> NoRoute, world |-> w]
            ELSE IF first.up # None /\ ~again
                 THEN [kind |-> "route", to |-> To("primary", first.up), world |-> first.world]
                 ELSE IF failed.pool = "fallback"
                 THEN [kind |-> "none", to |-> NoRoute, world |-> first.world]
                 ELSE IF second.up = None
                 THEN [kind |-> "none", to |-> NoRoute, world |-> second.world]
                 ELSE [kind |-> "route", to |-> To("fallback", second.up), world |-> second.world]
    BY DEF NextAttempt
  <2> HIDE DEF first, second, n, again
  <2> QED BY <2>1
<1>5. /\ first.up # None => first.up \in 1..Size["primary"]
      /\ second.up # None => second.up \in 1..Size["fallback"]
  <2> HIDE DEF first, second
  <2> QED BY <1>1, <1>2, <1>3, PoolSizes DEF None
<1> HIDE DEF first, second, n
<1>6. GoodWorld(n.world) /\ Known(n.to)
  BY <1>1, <1>2, <1>3, <1>4, <1>5, RoutesKnown
<1> QED BY <1>6 DEF n

-----------------------------------------------------------------------------
(* ProxyRequests: what the callbacks of an attempt do.                     *)

Attempt == [route: Route, forced: BOOLEAN, stage: Stage]

\* In front of an upstream, or answering the client.
Active(a) == a.stage \in {"waiting", "relaying"}

HistoryTypes ==
    /\ sends \in [Requests -> 0..3]
    /\ asked \in [Requests -> SUBSET (Pools \X Nat)]
    /\ late \in [Requests -> 0..Slots]

RequestTypes ==
    /\ draining \in BOOLEAN
    /\ phase \in [Requests -> {"idle", "admitted", "proxied"}]
    /\ route \in [Requests -> Route]
    /\ live \in [Requests -> [1..Slots -> Attempt]]
    /\ HistoryTypes
    /\ sent \in [Requests -> BOOLEAN]
    /\ closed \in [Requests -> BOOLEAN]
    /\ crashed \in BOOLEAN

RoutesInv ==
    \A r \in Requests : /\ Known(route[r])
                        /\ \A i \in 1..Slots : Known(live[r][i].route)

\* The state is well formed, and every resolution names an upstream there is.
WellFormed == GoodWorld(World) /\ RequestTypes /\ RoutesInv

\* A thrown-away answer of r becomes an attempt again.
Later(r) == late' = [late EXCEPT ![r] = Capped(@ + 1, Slots)]

\* Attempt i of r becomes a.
Becoming(r, i, a) ==
    /\ live' = [live EXCEPT ![r] = [live[r] EXCEPT ![i] = a]]
    /\ a \in Attempt
    /\ Known(a.route)
    /\ Active(a) => Active(live[r][i]) \/ Later(r)

\* The answer to attempt i of r is thrown away and attempt j begins with b.
Replaced(r, i, j, b) ==
    /\ live' = [live EXCEPT ![r] = [[live[r] EXCEPT ![i] = [live[r][i] EXCEPT !.stage = "discarded"]]
                                        EXCEPT ![j] = b]]
    /\ Active(live[r][i])
    /\ MayRetry(r)
    /\ live[r][j] = NoAttempt
    /\ b \in Attempt
    /\ Known(b.route)

\* What every callback of attempt i of r does.
Callback(r, i) ==
    /\ GoodWorld(World')
    /\ UNCHANGED <<draining, phase, route>>
    /\ sent' \in [Requests -> BOOLEAN]
    /\ closed' \in [Requests -> BOOLEAN]
    /\ crashed' \in BOOLEAN
    /\ HistoryTypes'
    /\ late' = late \/ Later(r)
    /\ \/ live' = live
       \/ \E a \in Attempt : Becoming(r, i, a)
       \/ \E j \in 1..Slots : \E b \in Attempt : Replaced(r, i, j, b)

\* A send keeps the history well formed, whatever becomes of late.
LEMMA CountedTypes ==
    ASSUME WellFormed, NEW r \in Requests, NEW to, Known(to), CountSend(r, to), late' = late \/ Later(r)
    PROVE  HistoryTypes'
<1>1. sends \in [Requests -> 0..3] /\ asked \in [Requests -> SUBSET (Pools \X Nat)] /\ late \in [Requests -> 0..Slots]
  BY DEF WellFormed, RequestTypes, HistoryTypes
<1>2. late' \in [Requests -> 0..Slots]
  <2>1. Capped(late[r] + 1, Slots) \in 0..Slots
    BY <1>1, RequestAssumption DEF Capped
  <2> QED BY <1>1, <2>1 DEF Later
<1>3. sends' \in [Requests -> 0..3]
  <2>1. Capped(sends[r] + 1, 3) \in 0..3
    BY <1>1 DEF Capped
  <2> QED BY <1>1, <2>1 DEF CountSend
<1>4. asked' \in [Requests -> SUBSET (Pools \X Nat)]
  <2>1. {<<to.pool, to.up>>} \subseteq Pools \X Nat
    BY DEF Known, Route
  <2> QED BY <1>1, <2>1 DEF CountSend
<1> QED BY <1>2, <1>3, <1>4 DEF HistoryTypes

LEMMA BecomesGood ==
    ASSUME NEW w, GoodWorld(w), Becomes(w)
    PROVE  GoodWorld(World')
<1>1. World' = [pool |-> w.pool, credit |-> w.credit]
  BY DEF Becomes, World
<1> QED BY <1>1 DEF GoodWorld

LEMMA AttemptTypes ==
    /\ NoAttempt \in Attempt /\ ~Active(NoAttempt) /\ Known(NoAttempt.route)
    /\ NoAttempt.route.pool = "primary"
    /\ \A to : Known(to) => \A forced \in BOOLEAN :
          /\ Waiting(to, forced) \in Attempt
          /\ Waiting(to, forced).route = to
          /\ Active(Waiting(to, forced))
<1>1. NoRoute \in Route /\ Known(NoRoute) /\ NoRoute.pool = "primary"
  BY RoutesKnown DEF Known, NoRoute
<1>2. NoAttempt \in Attempt /\ NoAttempt.route = NoRoute /\ NoAttempt.stage = "none"
  BY <1>1 DEF NoAttempt, Attempt, Stage
<1>3. ASSUME NEW to, Known(to), NEW forced \in BOOLEAN
      PROVE  /\ Waiting(to, forced) \in Attempt
             /\ Waiting(to, forced).route = to
             /\ Active(Waiting(to, forced))
  BY <1>3 DEF Known, Waiting, Attempt, Stage, Active
<1> QED BY <1>1, <1>2, <1>3 DEF Active

\* The answer is passed on to the client: the end of three callbacks.
LEMMA RelayMeans ==
    ASSUME WellFormed, NEW r \in Requests, NEW i \in 1..Slots,
           live[r][i].stage = "waiting", Relay(r, i)
    PROVE  /\ \E a \in Attempt : Becoming(r, i, a)
           /\ HistoryTypes' /\ late' = late
           /\ sent' \in [Requests -> BOOLEAN] /\ closed' \in [Requests -> BOOLEAN]
           /\ crashed' \in BOOLEAN
<1> DEFINE a == [live[r][i] EXCEPT !.stage = "relaying"]
<1>1. live[r][i] \in Attempt /\ Known(live[r][i].route)
  BY DEF WellFormed, RequestTypes, RoutesInv
<1>2. a \in Attempt /\ a.route = live[r][i].route
  BY <1>1 DEF Attempt, Stage
<1>3. live' = [live EXCEPT ![r] = [live[r] EXCEPT ![i] = a]]
  BY DEF Relay
<1>4. /\ UNCHANGED history /\ closed' = closed
      /\ sent' = [sent EXCEPT ![r] = TRUE] /\ crashed' = sent[r]
  BY DEF Relay, WriteHead
<1>5. Active(live[r][i])
  BY DEF Active
<1> HIDE DEF a
<1>6. Becoming(r, i, a)
  BY <1>1, <1>2, <1>3, <1>5 DEF Becoming
<1> QED BY <1>2, <1>4, <1>6 DEF WellFormed, RequestTypes, HistoryTypes, history

LEMMA AnswerOkMeans ==
    ASSUME WellFormed, NEW r \in Requests, NEW i \in 1..Slots, AnswerOk(r, i)
    PROVE  Callback(r, i)
<1>1. /\ live[r][i].stage = "waiting"
      /\ Becomes(AfterSuccess(live[r][i].route, World))
      /\ Relay(r, i)
      /\ UNCHANGED <<draining, phase, route>>
  BY DEF AnswerOk
<1>2. GoodWorld(AfterSuccess(live[r][i].route, World))
  BY ReportsGood DEF WellFormed, RoutesInv
<1>3. GoodWorld(World')
  BY <1>1, <1>2, BecomesGood
<1> QED BY <1>1, <1>3, RelayMeans DEF Callback

LEMMA AnswerRetryableMeans ==
    ASSUME WellFormed, NEW r \in Requests, NEW i \in 1..Slots, AnswerRetryable(r, i)
    PROVE  Callback(r, i)
<1> DEFINE w == AfterFailure(live[r][i].route, World)
           n == NextAttempt(live[r][i].route, w)
<1>1. live[r][i].stage = "waiting" /\ UNCHANGED <<draining, phase, route>>
  BY DEF AnswerRetryable
<1>2. GoodWorld(w)
  BY ReportsGood DEF WellFormed, RoutesInv
<1>3. GoodWorld(n.world) /\ Known(n.to)
  <2> HIDE DEF w
  <2> QED BY <1>2, NextAttemptGood
<1>4. \/ Becomes(w) /\ Relay(r, i)
      \/ Becomes(n.world) /\ Relay(r, i)
      \/ /\ MayRetry(r)
         /\ Becomes(n.world)
         /\ CountSend(r, n.to)
         /\ \E j \in 1..Slots :
               /\ live[r][j] = NoAttempt
               /\ live' = [live EXCEPT ![r][i].stage = "discarded",
                                       ![r][j] = Waiting(n.to, FALSE)]
         /\ UNCHANGED <<late, sent, closed, crashed>>
      \/ Becomes(n.world) /\ crashed' = TRUE /\ UNCHANGED <<live, history, sent, closed>>
  BY DEF AnswerRetryable
<1> HIDE DEF w, n
<1>5. GoodWorld(World')
  BY <1>2, <1>3, <1>4, BecomesGood
<1>6. CASE Relay(r, i)
  BY <1>1, <1>5, <1>6, RelayMeans DEF Callback
<1>7. CASE /\ MayRetry(r)
           /\ CountSend(r, n.to)
           /\ \E j \in 1..Slots :
                 /\ live[r][j] = NoAttempt
                 /\ live' = [live EXCEPT ![r][i].stage = "discarded",
                                         ![r][j] = Waiting(n.to, FALSE)]
           /\ UNCHANGED <<late, sent, closed, crashed>>
  <2> DEFINE b == Waiting(n.to, FALSE)
  <2>1. PICK j \in 1..Slots :
              /\ live[r][j] = NoAttempt
              /\ live' = [live EXCEPT ![r][i].stage = "discarded", ![r][j] = b]
    BY <1>7
  <2>2. b \in Attempt /\ b.route = n.to
    BY <1>3, AttemptTypes
  <2>3. r \in DOMAIN live
    BY DEF WellFormed, RequestTypes
  <2> HIDE DEF b
  <2>4. live' = [live EXCEPT ![r] =
                    [[live[r] EXCEPT ![i] = [live[r][i] EXCEPT !.stage = "discarded"]]
                          EXCEPT ![j] = b]]
    BY <2>1, <2>3
  <2>5. Replaced(r, i, j, b)
    BY <1>1, <1>3, <1>7, <2>1, <2>2, <2>4 DEF Replaced, Active
  <2>6. HistoryTypes'
    BY <1>3, <1>7, CountedTypes
  <2>7. \E h \in 1..Slots : \E c \in Attempt : Replaced(r, i, h, c)
    BY <2>2, <2>5
  <2> QED BY <1>1, <1>5, <1>7, <2>6, <2>7 DEF Callback, WellFormed, RequestTypes
<1>8. CASE crashed' = TRUE /\ UNCHANGED <<live, history, sent, closed>>
  BY <1>1, <1>5, <1>8 DEF Callback, WellFormed, RequestTypes, HistoryTypes, history
<1> QED BY <1>4, <1>6, <1>7, <1>8

LEMMA FailsMeans ==
    ASSUME WellFormed, NEW r \in Requests, NEW i \in 1..Slots, Fails(r, i)
    PROVE  Callback(r, i)
<1> DEFINE a == live[r][i]
           w == AfterFailure(a.route, World)
           n == NextAttempt(a.route, w)
           again == IF a.stage = "discarded" THEN [late EXCEPT ![r] = Capped(@ + 1, Slots)] ELSE late
<1>1. UNCHANGED <<draining, phase, route>> /\ (Active(a) \/ a.stage = "discarded")
  BY DEF Fails, Active
<1>2. a \in Attempt /\ Known(a.route)
  BY DEF WellFormed, RequestTypes, RoutesInv
<1>3. GoodWorld(World) /\ GoodWorld(w)
  BY <1>2, ReportsGood DEF WellFormed
<1>4. GoodWorld(n.world) /\ Known(n.to)
  <2> HIDE DEF w
  <2> QED BY <1>3, NextAttemptGood
<1>5. \/ /\ live' = [live EXCEPT ![r][i] = Waiting(a.route, TRUE)]
         /\ CountSend(r, a.route)
         /\ late' = again
         /\ UNCHANGED <<pool, credit, sent, closed, crashed>>
      \/ /\ Becomes(n.world)
         /\ live' = [live EXCEPT ![r][i] = Waiting(n.to, FALSE)]
         /\ CountSend(r, n.to)
         /\ late' = again
         /\ UNCHANGED <<sent, closed, crashed>>
      \/ /\ Becomes(n.world)
         /\ crashed' = TRUE
         /\ live' = [live EXCEPT ![r][i] = NoAttempt]
         /\ UNCHANGED <<history, sent, closed>>
      \/ /\ Becomes(n.world) \/ Becomes(w)
         /\ sent' = [sent EXCEPT ![r] = TRUE]
         /\ closed' = [closed EXCEPT ![r] = TRUE]
         /\ live' = [live EXCEPT ![r][i] = NoAttempt]
         /\ UNCHANGED <<history, crashed>>
  BY DEF Fails
<1>12. late' = again => (late' = late \/ Later(r)) /\ (Active(a) \/ Later(r))
  BY <1>1 DEF Later, Active
<1> HIDE DEF w, n, again
<1>6. GoodWorld(World')
  <2>1. ASSUME UNCHANGED <<pool, credit>> PROVE GoodWorld(World')
    BY <1>3, <2>1 DEF World
  <2> QED BY <1>3, <1>4, <1>5, <2>1, BecomesGood
<1>7. Known(a.route) /\ Known(n.to) /\ a \in Attempt
  BY <1>2, <1>4
<1>8. ASSUME NEW b \in Attempt, Known(b.route), live' = [live EXCEPT ![r][i] = b],
             Active(b) => Active(live[r][i]) \/ Later(r)
      PROVE  \E c \in Attempt : Becoming(r, i, c)
  <2>1. Becoming(r, i, b)
    BY <1>8 DEF Becoming
  <2> QED BY <2>1
<1>9. ASSUME NEW to, NEW forced \in BOOLEAN, Known(to), live' = [live EXCEPT ![r][i] = Waiting(to, forced)],
             CountSend(r, to), late' = again, UNCHANGED <<sent, closed, crashed>>
      PROVE  Callback(r, i)
  <2>1. Waiting(to, forced) \in Attempt /\ Waiting(to, forced).route = to
    BY <1>9, AttemptTypes
  <2>2. \E c \in Attempt : Becoming(r, i, c)
    BY <1>8, <1>9, <1>12, <2>1
  <2>3. HistoryTypes' /\ (late' = late \/ Later(r))
    BY <1>9, <1>12, CountedTypes
  <2> QED BY <1>1, <1>6, <1>9, <2>2, <2>3 DEF Callback, WellFormed, RequestTypes
<1>10. TRUE \in BOOLEAN /\ FALSE \in BOOLEAN
  OBVIOUS
<1>11. CASE live' = [live EXCEPT ![r][i] = NoAttempt]
  <2>1. \E c \in Attempt : Becoming(r, i, c)
    BY <1>8, <1>11, AttemptTypes
  <2>4. HistoryTypes /\ (UNCHANGED history => HistoryTypes' /\ late' = late)
    BY DEF WellFormed, RequestTypes, HistoryTypes, history
  <2>2. CASE UNCHANGED history /\ crashed' = TRUE /\ sent' = sent /\ closed' = closed
    BY <1>1, <1>6, <2>1, <2>2, <2>4 DEF Callback, WellFormed, RequestTypes
  <2>3. CASE /\ UNCHANGED history /\ crashed' = crashed
             /\ sent' = [sent EXCEPT ![r] = TRUE] /\ closed' = [closed EXCEPT ![r] = TRUE]
    BY <1>1, <1>6, <2>1, <2>3, <2>4 DEF Callback, WellFormed, RequestTypes
  <2> QED BY <1>5, <1>7, <1>9, <1>10, <2>2, <2>3
<1> QED BY <1>5, <1>7, <1>9, <1>10, <1>11

LEMMA BodyEndsMeans ==
    ASSUME WellFormed, NEW r \in Requests, NEW i \in 1..Slots, BodyEnds(r, i)
    PROVE  Callback(r, i)
<1>1. /\ UNCHANGED <<pool, credit, draining, phase, route, history, sent, crashed>>
      /\ closed' = [closed EXCEPT ![r] = closed[r] \/ live[r][i].stage = "relaying"]
      /\ live' = [live EXCEPT ![r][i] = NoAttempt]
  BY DEF BodyEnds
<1>2. GoodWorld(World')
  BY <1>1 DEF WellFormed, World
<1>3. Becoming(r, i, NoAttempt)
  BY <1>1, AttemptTypes DEF Becoming
<1>4. \E a \in Attempt : Becoming(r, i, a)
  BY <1>3, AttemptTypes
<1>5. closed' \in [Requests -> BOOLEAN]
  BY <1>1 DEF WellFormed, RequestTypes
<1> QED BY <1>1, <1>2, <1>4, <1>5 DEF Callback, WellFormed, RequestTypes, HistoryTypes, history

LEMMA OutcomeMeans ==
    ASSUME WellFormed, NEW r \in Requests, NEW i \in 1..Slots, Outcome(r, i)
    PROVE  Callback(r, i)
BY AnswerOkMeans, AnswerRetryableMeans, FailsMeans, BodyEndsMeans DEF Outcome

-----------------------------------------------------------------------------
(* ProxyRequests: the state stays well formed.                             *)

LEMMA RequestsInit == Init => WellFormed
<1> SUFFICES ASSUME Init PROVE WellFormed
  OBVIOUS
<1>1. GoodWorld(World)
  <2>1. ASSUME NEW k \in Pools
        PROVE  /\ GoodPool(pool[k], Size[k])
               /\ credit[k] \in [1..Size[k] -> Int]
    BY FreshGood DEF Init, Range1, GoodPool
  <2>2. pool = [k \in Pools |-> pool[k]] /\ credit = [k \in Pools |-> credit[k]]
    BY DEF Init
  <2> QED BY <2>1, <2>2 DEF GoodWorld, World
<1>2. RequestTypes
  <2>1. NoRoute \in Route /\ NoAttempt \in Attempt
    BY AttemptTypes, RoutesKnown DEF Known
  <2>2. /\ route = [r \in Requests |-> NoRoute]
        /\ live = [r \in Requests |-> [i \in 1..Slots |-> NoAttempt]]
        /\ phase = [r \in Requests |-> "idle"]
        /\ sends = [r \in Requests |-> 0] /\ asked = [r \in Requests |-> {}] /\ late = [r \in Requests |-> 0]
        /\ sent = [r \in Requests |-> FALSE]
        /\ closed = [r \in Requests |-> TRUE]
        /\ draining = FALSE /\ crashed = FALSE
    BY DEF Init
  <2>3. live \in [Requests -> [1..Slots -> Attempt]] /\ route \in [Requests -> Route]
    BY <2>1, <2>2
  <2>4. phase \in [Requests -> {"idle", "admitted", "proxied"}] /\ HistoryTypes
    BY <2>2, RequestAssumption DEF HistoryTypes
  <2> QED BY <2>2, <2>3, <2>4 DEF RequestTypes
<1>3. RoutesInv
  BY AttemptTypes, RoutesKnown DEF Init, RoutesInv
<1> QED BY <1>1, <1>2, <1>3 DEF WellFormed

\* The attempts of every request, whatever a callback made of them.
LEMMA CallbackKeepsAttempts ==
    ASSUME WellFormed, NEW r \in Requests, NEW i \in 1..Slots, Callback(r, i)
    PROVE  /\ live' \in [Requests -> [1..Slots -> Attempt]]
           /\ \A s \in Requests : \A h \in 1..Slots : Known(live'[s][h].route)
<1>1. /\ live \in [Requests -> [1..Slots -> Attempt]]
      /\ \A s \in Requests : \A h \in 1..Slots : Known(live[s][h].route)
  BY DEF WellFormed, RequestTypes, RoutesInv
<1>2. CASE live' = live
  BY <1>1, <1>2
<1>3. ASSUME NEW a \in Attempt, Becoming(r, i, a)
      PROVE  /\ live' \in [Requests -> [1..Slots -> Attempt]]
             /\ \A s \in Requests : \A h \in 1..Slots : Known(live'[s][h].route)
  BY <1>1, <1>3 DEF Becoming
<1>4. ASSUME NEW j \in 1..Slots, NEW b \in Attempt, Replaced(r, i, j, b)
      PROVE  /\ live' \in [Requests -> [1..Slots -> Attempt]]
             /\ \A s \in Requests : \A h \in 1..Slots : Known(live'[s][h].route)
  <2> DEFINE d == [live[r][i] EXCEPT !.stage = "discarded"]
  <2>1. d \in Attempt /\ d.route = live[r][i].route
    <3>1. live[r][i] \in Attempt
      BY <1>1
    <3> QED BY <3>1 DEF Attempt, Stage
  <2>2. live' = [live EXCEPT ![r] = [[live[r] EXCEPT ![i] = d] EXCEPT ![j] = b]]
    BY <1>4 DEF Replaced
  <2>3. Known(b.route)
    BY <1>4 DEF Replaced
  <2> HIDE DEF d
  <2> QED BY <1>1, <2>1, <2>2, <2>3
<1> QED BY <1>2, <1>3, <1>4 DEF Callback

\* The pools of the operators that change a whole world.
LEMMA EveryPool ==
    ASSUME WellFormed, NEW q, q = [k \in Pools |-> q[k]],
           \A k \in Pools : GoodPool(q[k], Size[k]),
           NEW c, c = [k \in Pools |-> c[k]],
           \A k \in Pools : c[k] \in [1..Size[k] -> Int],
           pool' = q, credit' = c
    PROVE  GoodWorld(World')
BY DEF GoodWorld, World

LEMMA CurrentWorld ==
    ASSUME WellFormed
    PROVE  /\ GoodWorld(World)
           /\ pool = [k \in Pools |-> pool[k]] /\ credit = [k \in Pools |-> credit[k]]
           /\ \A k \in Pools : /\ GoodPool(pool[k], Size[k])
                               /\ credit[k] \in [1..Size[k] -> Int]
BY DEF WellFormed, GoodWorld, World

LEMMA WellFormedStep == WellFormed /\ [Next]_vars => WellFormed'
<1> SUFFICES ASSUME WellFormed, [Next]_vars PROVE WellFormed'
  OBVIOUS
<1> USE DEF WellFormed
<1>0. RequestTypes /\ RoutesInv
  OBVIOUS
<1>a. HistoryTypes /\ (UNCHANGED history => HistoryTypes') /\ \A r \in Requests : Anew(r) => HistoryTypes'
  <2>1. HistoryTypes /\ (UNCHANGED history => HistoryTypes')
    BY <1>0 DEF RequestTypes, HistoryTypes, history
  <2>2. ASSUME NEW r \in Requests, Anew(r) PROVE HistoryTypes'
    BY <2>1, <2>2, RequestAssumption DEF HistoryTypes, Anew
  <2> QED BY <2>1, <2>2
<1>1. ASSUME NEW r \in Requests, Refuse(r) PROVE WellFormed'
  <2>1. /\ phase' = [phase EXCEPT ![r] = "idle"]
        /\ Anew(r)
        /\ UNCHANGED <<draining, route, live, sent, closed, crashed>>
    BY <1>1 DEF Refuse
  <2>2. UNCHANGED <<pool, credit>> \/ Becomes(Chosen("primary", World).world)
    BY <1>1 DEF Refuse
  <2>3. GoodWorld(World')
    <3>1. GoodWorld(Chosen("primary", World).world)
      BY ChosenGood DEF Pools
    <3>2. CASE UNCHANGED <<pool, credit>>
      BY <3>2 DEF World
    <3> QED BY <2>2, <3>1, <3>2, BecomesGood
  <2> QED BY <1>0, <1>a, <2>1, <2>3 DEF RequestTypes, RoutesInv
<1>2. ASSUME NEW r \in Requests, Admit(r) PROVE WellFormed'
  <2> DEFINE c == Chosen("primary", World)
  <2>1. /\ c.up # None
        /\ Becomes(c.world)
        /\ phase' = [phase EXCEPT ![r] = "admitted"]
        /\ route' = [route EXCEPT ![r] = To("primary", c.up)]
        /\ Anew(r)
        /\ sent' = [sent EXCEPT ![r] = FALSE]
        /\ closed' = [closed EXCEPT ![r] = FALSE]
        /\ UNCHANGED <<draining, live, crashed>>
    BY <1>2 DEF Admit
  <2>2. GoodWorld(c.world) /\ c.up \in 0..Size["primary"]
    BY ChosenGood DEF Pools
  <2>3. "primary" \in Pools /\ Size["primary"] \in Nat
    BY PoolSizes DEF Pools
  <2> HIDE DEF c
  <2>4. c.up \in 1..Size["primary"]
    BY <2>1, <2>2, <2>3 DEF None
  <2>5. Known(To("primary", c.up)) /\ To("primary", c.up) \in Route
    <3>1. Known(To("primary", c.up))
      BY <2>3, <2>4, RoutesKnown
    <3> QED BY <3>1 DEF Known
  <2>6. GoodWorld(World')
    BY <2>1, <2>2, BecomesGood
  <2> QED BY <1>0, <1>a, <2>1, <2>5, <2>6 DEF RequestTypes, RoutesInv
<1>3. ASSUME NEW r \in Requests, AnswerEarly(r) PROVE WellFormed'
  <2>1. /\ phase' = [phase EXCEPT ![r] = "idle"]
        /\ route' = [route EXCEPT ![r] = NoRoute]
        /\ sent' = [sent EXCEPT ![r] = TRUE]
        /\ closed' = [closed EXCEPT ![r] = TRUE]
        /\ UNCHANGED <<pool, credit, draining, live, history, crashed>>
    BY <1>3 DEF AnswerEarly
  <2>2. GoodWorld(World')
    BY <2>1 DEF World
  <2>3. Known(NoRoute) /\ NoRoute \in Route
    BY RoutesKnown DEF Known
  <2> QED BY <1>0, <1>a, <2>1, <2>2, <2>3 DEF RequestTypes, RoutesInv
<1>4. ASSUME NEW r \in Requests, Send(r) PROVE WellFormed'
  <2> DEFINE a == Waiting(route[r], FALSE)
  <2>1. /\ phase' = [phase EXCEPT ![r] = "proxied"]
        /\ route' = [route EXCEPT ![r] = NoRoute]
        /\ live' = [live EXCEPT ![r][1] = a]
        /\ CountSend(r, route[r])
        /\ UNCHANGED <<pool, credit, draining, late, sent, closed, crashed>>
    BY <1>4 DEF Send
  <2>2. GoodWorld(World')
    BY <2>1 DEF World
  <2>3. Known(NoRoute) /\ NoRoute \in Route
    BY RoutesKnown DEF Known
  <2>4. a \in Attempt /\ Known(a.route)
    BY <1>0, <1>a, AttemptTypes DEF RoutesInv
  <2> HIDE DEF a
  <2>5. live' \in [Requests -> [1..Slots -> Attempt]]
    BY <1>0, <1>a, <2>1, <2>4 DEF RequestTypes
  <2>8. HistoryTypes'
    BY <1>0, <2>1, CountedTypes DEF RoutesInv
  <2>6. RequestTypes'
    BY <1>0, <2>1, <2>3, <2>5, <2>8 DEF RequestTypes
  <2>7. RoutesInv'
    BY <1>0, <1>a, <2>1, <2>3, <2>4 DEF RequestTypes, RoutesInv
  <2> QED BY <2>2, <2>6, <2>7
<1>5. ASSUME NEW r \in Requests, ClientLeaves(r) PROVE WellFormed'
  <2>1. /\ closed' = [closed EXCEPT ![r] = TRUE]
        /\ UNCHANGED <<pool, credit, draining, phase, route, live, history, sent, crashed>>
    BY <1>5 DEF ClientLeaves
  <2>2. GoodWorld(World')
    BY <2>1 DEF World
  <2> QED BY <1>0, <1>a, <2>1, <2>2 DEF RequestTypes, RoutesInv
<1>6. ASSUME NEW r \in Requests, NEW i \in 1..Slots, Outcome(r, i) PROVE WellFormed'
  <2>1. Callback(r, i)
    BY <1>6, OutcomeMeans
  <2>2. /\ live' \in [Requests -> [1..Slots -> Attempt]]
        /\ \A s \in Requests : \A h \in 1..Slots : Known(live'[s][h].route)
    BY <2>1, CallbackKeepsAttempts
  <2>3. /\ GoodWorld(World')
        /\ UNCHANGED <<draining, phase, route>>
        /\ sent' \in [Requests -> BOOLEAN]
        /\ closed' \in [Requests -> BOOLEAN]
        /\ crashed' \in BOOLEAN
        /\ HistoryTypes'
    BY <2>1 DEF Callback
  <2> QED BY <1>0, <1>a, <2>2, <2>3 DEF RequestTypes, RoutesInv
<1>7. CASE DrainSite
  <2>1. /\ draining' = ~draining
        /\ UNCHANGED <<pool, credit, phase, route, live, history, sent, closed, crashed>>
    BY <1>7 DEF DrainSite
  <2>2. GoodWorld(World')
    BY <2>1 DEF World
  <2> QED BY <1>0, <1>a, <2>1, <2>2 DEF RequestTypes, RoutesInv
<1>8. CASE ReplaceRoutes
  <2> DEFINE q == [k \in Pools |-> Rebuilt(pool[k])]
             c == [k \in Pools |-> [u \in 1..Size[k] |-> 0]]
  <2>1. /\ pool' = q /\ credit' = c
        /\ route' = [r \in Requests |-> [route[r] EXCEPT !.stale = TRUE]]
        /\ live' = [r \in Requests |->
                      [i \in 1..Slots |-> [live[r][i] EXCEPT !.route.stale = TRUE]]]
        /\ UNCHANGED <<draining, phase, history, sent, closed, crashed>>
    BY <1>8 DEF ReplaceRoutes, Range1
  <2>2. GoodWorld(World')
    <3>1. ASSUME NEW k \in Pools
          PROVE  GoodPool(q[k], Size[k]) /\ c[k] \in [1..Size[k] -> Int]
      BY CurrentWorld, PoolSizes, RebuiltGood
    <3>2. q = [k \in Pools |-> q[k]] /\ c = [k \in Pools |-> c[k]]
      OBVIOUS
    <3> HIDE DEF q, c
    <3> QED BY <2>1, <3>1, <3>2, EveryPool
  <2>3. ASSUME NEW r \in Requests
        PROVE  route'[r] \in Route /\ Known(route'[r])
    BY <1>0, <1>a, <2>1 DEF RequestTypes, RoutesInv, Route, Known
  <2>4. ASSUME NEW r \in Requests, NEW i \in 1..Slots
        PROVE  live'[r][i] \in Attempt /\ Known(live'[r][i].route)
    <3> DEFINE to == [live[r][i].route EXCEPT !.stale = TRUE]
    <3>1. live[r][i] \in Attempt /\ live[r][i].route \in Route
      BY <1>0 DEF RequestTypes, RoutesInv, Known
    <3>2. to \in Route /\ to.stale
      BY <3>1 DEF Route
    <3>3. live'[r][i] = [live[r][i] EXCEPT !.route = to]
      BY <2>1
    <3> HIDE DEF to
    <3>4. live'[r][i] \in Attempt /\ live'[r][i].route = to
      BY <3>1, <3>2, <3>3 DEF Attempt
    <3> QED BY <3>2, <3>4 DEF Known
  <2>5. RequestTypes'
    BY <1>0, <1>a, <2>1, <2>3, <2>4 DEF RequestTypes
  <2>6. RoutesInv'
    BY <2>3, <2>4 DEF RoutesInv
  <2> QED BY <2>2, <2>5, <2>6
<1>9. CASE Tick
  <2> DEFINE q == [k \in Pools |-> Ticked(pool[k])]
  <2>1. /\ pool' = q
        /\ UNCHANGED <<credit, draining, phase, route, live, history, sent, closed, crashed>>
    BY <1>9 DEF Tick
  <2>2. GoodWorld(World')
    <3>1. ASSUME NEW k \in Pools PROVE GoodPool(q[k], Size[k])
      BY CurrentWorld, PoolSizes, TickedGood
    <3>2. q = [k \in Pools |-> q[k]]
      OBVIOUS
    <3> HIDE DEF q
    <3> QED BY <2>1, <3>1, <3>2, CurrentWorld, EveryPool
  <2> QED BY <1>0, <1>a, <2>1, <2>2 DEF RequestTypes, RoutesInv
<1>10. CASE UNCHANGED vars
  <2>1. GoodWorld(World')
    BY <1>10 DEF vars, World
  <2> QED BY <1>0, <1>a, <1>10, <2>1 DEF vars, history, RequestTypes, RoutesInv
<1> QED BY <1>1, <1>2, <1>3, <1>4, <1>5, <1>6, <1>7, <1>8, <1>9, <1>10 DEF Next

LEMMA RequestsInvariance == Spec => []WellFormed
BY RequestsInit, WellFormedStep, PTL DEF Spec

\* Whatever answers, errors, drains, reloads and departures come in between, the
\* state of the requests and of both pools stays well formed and the breakers
\* consistent: every report of proxy-server.js reaches an upstream there is.
THEOREM RequestsStayConsistent == Spec => []Consistent
<1>1. WellFormed => Consistent
  <2> SUFFICES ASSUME WellFormed PROVE Consistent
    OBVIOUS
  <2>1. ASSUME NEW k \in Pools
        PROVE  PoolTypeOK(pool[k], Size[k]) /\ PoolInv(pool[k])
    BY CurrentWorld, PoolSizes, GoodPoolMeaning
  <2>2. DOMAIN pool = Pools /\ DOMAIN credit = Pools
    BY CurrentWorld
  <2>3. \A k \in Pools : credit[k] \in [Range1(k) -> Int]
    BY CurrentWorld DEF Range1
  <2>4. RequestTypes
    BY DEF WellFormed
  <2> QED BY <2>1, <2>2, <2>3, <2>4
          DEF Consistent, TypeOK, BreakersConsistent, RequestTypes, HistoryTypes, Attempt
<1> QED BY <1>1, RequestsInvariance, PTL

-----------------------------------------------------------------------------
(* ProxyRequests: retries follow one another, unsafe requests have none.   *)

\* The attempts of r in front of an upstream or answering the client.
Front(r) == {i \in 1..Slots : Active(live[r][i])}

\* There is one at most, and one more for every thrown-away answer that failed
\* late; a request that was admitted has not begun.
Following ==
    \A r \in Requests :
        /\ Cardinality(Front(r)) <= 1 + late[r]
        /\ phase[r] = "admitted" => \A i \in 1..Slots : live[r][i] = NoAttempt

LEMMA SlotsAreFinite ==
    ASSUME NEW S, S \subseteq 1..Slots
    PROVE  IsFiniteSet(S) /\ Cardinality(S) \in Nat /\ Cardinality(S) <= Slots
<1>1. Slots \in Nat /\ Slots >= 1
  BY RequestAssumption
<1>2. IsFiniteSet(1..Slots) /\ Cardinality(1..Slots) = Slots
  BY <1>1, FS_Interval
<1> QED BY <1>2, FS_Subset, FS_CardinalityType

\* A request of which no attempt begins to be in front keeps to the bound.
LEMMA FollowsIfFewer ==
    ASSUME WellFormed, Following, NEW r \in Requests, Front(r)' \subseteq Front(r), late'[r] = late[r]
    PROVE  Cardinality(Front(r)') <= 1 + late'[r]
<1>1. IsFiniteSet(Front(r)) /\ Cardinality(Front(r)) \in Nat
  BY SlotsAreFinite DEF Front
<1>2. Cardinality(Front(r)') <= Cardinality(Front(r)) /\ Cardinality(Front(r)') \in Nat
  BY <1>1, FS_Subset, FS_CardinalityType
<1>3. late[r] \in Nat
  BY DEF WellFormed, RequestTypes, HistoryTypes
<1> QED BY <1>1, <1>2, <1>3 DEF Following

\* A request that has no attempt has none in front.
LEMMA NobodyInFront ==
    ASSUME NEW r \in Requests, \A i \in 1..Slots : live[r][i] = NoAttempt
    PROVE  Front(r) = {}
BY AttemptTypes DEF Front

\* A callback is one of an attempt that there is.
LEMMA OutcomeOfAttempt ==
    ASSUME NEW r \in Requests, NEW i \in 1..Slots, Outcome(r, i)
    PROVE  live[r][i] # NoAttempt
<1>1. live[r][i].stage # "none"
  <2>1. CASE AnswerOk(r, i)
    BY <2>1 DEF AnswerOk
  <2>2. CASE AnswerRetryable(r, i)
    BY <2>2 DEF AnswerRetryable
  <2>3. CASE Fails(r, i)
    BY <2>3 DEF Fails
  <2>4. CASE BodyEnds(r, i)
    BY <2>4 DEF BodyEnds
  <2> QED BY <2>1, <2>2, <2>3, <2>4 DEF Outcome
<1> QED BY <1>1 DEF NoAttempt

\* What it sends is counted for its request.
LEMMA OutcomeCounts ==
    ASSUME NEW r \in Requests, NEW i \in 1..Slots, Outcome(r, i)
    PROVE  UNCHANGED <<sends, asked>> \/ \E to : CountSend(r, to)
<1>1. CASE AnswerOk(r, i) \/ BodyEnds(r, i)
  BY <1>1 DEF AnswerOk, BodyEnds, Relay, history
<1>2. CASE AnswerRetryable(r, i)
  BY <1>2 DEF AnswerRetryable, Relay, history
<1>3. CASE Fails(r, i)
  BY <1>3 DEF Fails, history
<1> QED BY <1>1, <1>2, <1>3 DEF Outcome

\* A callback hands the one place it has to the attempt that follows, or adds one
\* and counts it.
LEMMA CallbackFollows ==
    ASSUME WellFormed, Following,
           NEW r \in Requests, NEW i \in 1..Slots, Outcome(r, i), Callback(r, i)
    PROVE  Following'
<1>1. /\ live \in [Requests -> [1..Slots -> Attempt]] /\ late \in [Requests -> 0..Slots]
      /\ phase' = phase /\ (late' = late \/ Later(r))
  BY DEF WellFormed, RequestTypes, HistoryTypes, Callback
<1>2. phase[r] # "admitted"
  BY OutcomeOfAttempt DEF Following
<1>3. late'[r] \in Nat /\ late[r] \in Nat /\ late[r] <= late'[r] /\ Slots \in Nat
      /\ (Later(r) => late'[r] = Slots \/ late'[r] = late[r] + 1)
  BY <1>1, RequestAssumption DEF Later, Capped
<1> DEFINE F == Front(r)
           G == Front(r)'
<1>4. G \subseteq 1..Slots /\ F \subseteq 1..Slots
  BY DEF Front
<1>5. IsFiniteSet(F) /\ Cardinality(F) \in Nat /\ Cardinality(F) <= 1 + late[r]
      /\ Cardinality(G) \in Nat /\ Cardinality(G) <= Slots
  BY <1>4, SlotsAreFinite DEF Following
<1>6. Cardinality(G) <= 1 + late'[r]
  <2>1. ASSUME G \subseteq F PROVE Cardinality(G) <= 1 + late'[r]
    <3> HIDE DEF F, G
    <3>1. Cardinality(G) <= Cardinality(F)
      BY <1>5, <2>1, FS_Subset
    <3> QED BY <1>3, <1>5, <3>1
  <2>2. ASSUME G \subseteq F \cup {i}, Later(r) PROVE Cardinality(G) <= 1 + late'[r]
    <3> HIDE DEF F, G
    <3>1. IsFiniteSet(F \cup {i}) /\ Cardinality(F \cup {i}) <= Cardinality(F) + 1 /\ Cardinality(F \cup {i}) \in Nat
      <4>1. Cardinality(F \cup {i}) = IF i \in F THEN Cardinality(F) ELSE Cardinality(F) + 1
        BY <1>5, FS_AddElement
      <4> QED BY <1>5, <4>1, FS_AddElement
    <3>2. Cardinality(G) <= Cardinality(F \cup {i})
      BY <2>2, <3>1, FS_Subset
    <3>3. Cardinality(G) <= Cardinality(F) + 1
      BY <1>5, <3>1, <3>2
    <3> QED BY <1>3, <1>5, <2>2, <3>3
  <2>3. ASSUME NEW j \in 1..Slots, i \in F, G \subseteq (F \ {i}) \cup {j} PROVE Cardinality(G) <= 1 + late'[r]
    <3> HIDE DEF F, G
    <3>1. IsFiniteSet(F \ {i}) /\ Cardinality(F \ {i}) = Cardinality(F) - 1
      BY <1>5, <2>3, FS_RemoveElement
    <3>2. IsFiniteSet((F \ {i}) \cup {j}) /\ Cardinality((F \ {i}) \cup {j}) <= Cardinality(F)
      <4>1. Cardinality((F \ {i}) \cup {j}) = IF j \in F \ {i} THEN Cardinality(F \ {i}) ELSE Cardinality(F \ {i}) + 1
        BY <3>1, FS_AddElement
      <4> QED BY <1>5, <3>1, <4>1, FS_AddElement
    <3>3. Cardinality(G) <= Cardinality((F \ {i}) \cup {j}) /\ Cardinality((F \ {i}) \cup {j}) \in Nat
      BY <2>3, <3>2, FS_Subset, FS_CardinalityType
    <3> QED BY <1>3, <1>5, <3>2, <3>3
  <2>4. CASE live' = live
    BY <2>1, <2>4 DEF Front
  <2>5. ASSUME NEW a \in Attempt, Becoming(r, i, a) PROVE Cardinality(G) <= 1 + late'[r]
    <3>1. live'[r] = [live[r] EXCEPT ![i] = a] /\ (Active(a) => Active(live[r][i]) \/ Later(r))
      BY <1>1, <2>5 DEF Becoming
    <3>2. CASE Active(a) => Active(live[r][i])
      <4>1. G \subseteq F
        BY <1>1, <3>1, <3>2 DEF Front
      <4> QED BY <2>1, <4>1
    <3>3. CASE Later(r)
      <4>1. G \subseteq F \cup {i}
        BY <1>1, <3>1 DEF Front
      <4> QED BY <2>2, <3>3, <4>1
    <3> QED BY <3>1, <3>2, <3>3
  <2>6. ASSUME NEW j \in 1..Slots, NEW b \in Attempt, Replaced(r, i, j, b) PROVE Cardinality(G) <= 1 + late'[r]
    <3> DEFINE d == [live[r][i] EXCEPT !.stage = "discarded"]
    <3>1. live'[r] = [[live[r] EXCEPT ![i] = d] EXCEPT ![j] = b] /\ Active(live[r][i])
      BY <1>1, <2>6 DEF Replaced
    <3>2. ~Active(d)
      <4>1. live[r][i] \in Attempt
        BY <1>1
      <4> QED BY <4>1 DEF Attempt, Active
    <3> HIDE DEF d
    <3>3. i \in F /\ G \subseteq (F \ {i}) \cup {j}
      BY <1>1, <3>1, <3>2 DEF Front
    <3> QED BY <2>3, <3>3
  <2> QED BY <2>4, <2>5, <2>6 DEF Callback
<1>7. ASSUME NEW s \in Requests, s # r PROVE Front(s)' \subseteq Front(s) /\ late'[s] = late[s]
  <2>1. live'[s] = live[s]
    BY <1>1, <1>7 DEF Callback, Becoming, Replaced
  <2> QED BY <1>1, <1>7, <2>1 DEF Front, Later
<1>8. ASSUME NEW s \in Requests, s # r, phase[s] = "admitted", NEW h \in 1..Slots PROVE live'[s][h] = NoAttempt
  BY <1>1, <1>8 DEF Following, Callback, Becoming, Replaced
<1> QED BY <1>1, <1>2, <1>6, <1>7, <1>8, FollowsIfFewer DEF Following

LEMMA FollowingStep == WellFormed /\ Following /\ [Next]_vars => Following'
<1> SUFFICES ASSUME WellFormed, Following, [Next]_vars PROVE Following'
  OBVIOUS
<1>0. /\ live \in [Requests -> [1..Slots -> Attempt]]
      /\ phase \in [Requests -> {"idle", "admitted", "proxied"}]
      /\ late \in [Requests -> 0..Slots]
  BY DEF WellFormed, RequestTypes, HistoryTypes
<1>a. ASSUME UNCHANGED <<live, late>>, \A r \in Requests : phase'[r] = "admitted" => phase[r] = "admitted"
      PROVE  Following'
  BY <1>0, <1>a DEF Following, Front
<1>b. ASSUME NEW r \in Requests, \A i \in 1..Slots : live[r][i] = NoAttempt, Anew(r), live' = live,
             \A s \in Requests : s # r => phase'[s] = phase[s]
      PROVE  Following'
  <2>1. Front(r)' = {} /\ late'[r] = 0
    BY <1>0, <1>b, NobodyInFront DEF Anew, Front
  <2>2. Cardinality(Front(r)') = 0
    BY <2>1, FS_EmptySet
  <2>3. ASSUME NEW s \in Requests, s # r PROVE late'[s] = late[s] /\ Front(s)' = Front(s)
    BY <1>0, <1>b, <2>3 DEF Anew, Front
  <2> QED BY <1>b, <2>1, <2>2, <2>3 DEF Following
<1>1. ASSUME NEW r \in Requests, Refuse(r) PROVE Following'
  BY <1>0, <1>1, <1>b DEF Refuse, Quiet
<1>2. ASSUME NEW r \in Requests, Admit(r) PROVE Following'
  BY <1>0, <1>2, <1>b DEF Admit, Quiet
<1>3. ASSUME NEW r \in Requests, AnswerEarly(r) PROVE Following'
  BY <1>0, <1>3, <1>a DEF AnswerEarly, history
<1>4. ASSUME NEW r \in Requests, Send(r) PROVE Following'
  <2> DEFINE a == Waiting(route[r], FALSE)
  <2>1. /\ phase[r] = "admitted" /\ late' = late
        /\ phase' = [phase EXCEPT ![r] = "proxied"]
        /\ live' = [live EXCEPT ![r][1] = a]
    BY <1>4 DEF Send
  <2>2. \A i \in 1..Slots : live[r][i] = NoAttempt
    BY <2>1 DEF Following
  <2>3. Front(r)' \subseteq {1}
    BY <1>0, <2>1, <2>2, AttemptTypes DEF Front
  <2>4. Cardinality(Front(r)') <= 1 /\ Cardinality(Front(r)') \in Nat
    <3>1. IsFiniteSet({1}) /\ Cardinality({1}) = 1
      BY FS_Singleton
    <3> QED BY <2>3, <3>1, FS_Subset, FS_CardinalityType
  <2>5. Cardinality(Front(r)') <= 1 + late'[r]
    BY <1>0, <2>1, <2>4
  <2>6. ASSUME NEW s \in Requests, s # r PROVE live'[s] = live[s] /\ Front(s)' = Front(s)
    BY <1>0, <2>1, <2>6 DEF Front
  <2> QED BY <1>0, <2>1, <2>5, <2>6 DEF Following
<1>5. ASSUME NEW r \in Requests, ClientLeaves(r) PROVE Following'
  BY <1>5, <1>a DEF ClientLeaves, history
<1>6. ASSUME NEW r \in Requests, NEW i \in 1..Slots, Outcome(r, i) PROVE Following'
  BY <1>6, OutcomeMeans, CallbackFollows
<1>7. CASE DrainSite
  BY <1>7, <1>a DEF DrainSite, history
<1>8. CASE ReplaceRoutes
  <2>1. /\ live' = [r \in Requests |->
                      [i \in 1..Slots |-> [live[r][i] EXCEPT !.route.stale = TRUE]]]
        /\ phase' = phase /\ late' = late
    BY <1>8 DEF ReplaceRoutes, history
  <2>2. ASSUME NEW r \in Requests, NEW i \in 1..Slots
        PROVE  /\ Active(live'[r][i]) => Active(live[r][i])
               /\ live[r][i] = NoAttempt => live'[r][i] = NoAttempt
    <3>1. live[r][i] \in Attempt
      BY <1>0
    <3>2. live'[r][i] = [live[r][i] EXCEPT !.route.stale = TRUE]
      BY <2>1
    <3>3. Active(live'[r][i]) => Active(live[r][i])
      BY <3>1, <3>2 DEF Active, Attempt
    <3>4. [NoRoute EXCEPT !.stale = TRUE] = NoRoute
      <4>1. NoRoute \in Route /\ NoRoute.stale = TRUE
        BY RoutesKnown DEF Known, NoRoute
      <4> QED BY <4>1 DEF Route
    <3>5. NoAttempt.route = NoRoute /\ [NoAttempt EXCEPT !.route = NoRoute] = NoAttempt
      <4>1. NoAttempt \in Attempt /\ NoAttempt.route = NoRoute
        BY AttemptTypes DEF NoAttempt
      <4> QED BY <4>1 DEF Attempt
    <3>6. live'[r][i] = [live[r][i] EXCEPT !.route = [live[r][i].route EXCEPT !.stale = TRUE]]
      BY <3>2
    <3> QED BY <3>3, <3>4, <3>5, <3>6
  <2>3. ASSUME NEW r \in Requests PROVE Cardinality(Front(r)') <= 1 + late'[r]
    <3>1. Front(r)' \subseteq Front(r)
      BY <2>2 DEF Front
    <3> QED BY <2>1, <3>1, FollowsIfFewer
  <2>4. ASSUME NEW r \in Requests, phase'[r] = "admitted", NEW i \in 1..Slots
        PROVE  live'[r][i] = NoAttempt
    <3>1. phase[r] = "admitted"
      BY <2>1, <2>4
    <3> QED BY <2>2, <3>1 DEF Following
  <2> QED BY <2>3, <2>4 DEF Following
<1>9. CASE Tick
  BY <1>9, <1>a DEF Tick, history
<1>10. CASE UNCHANGED vars
  BY <1>10, <1>a DEF vars
<1> QED BY <1>1, <1>2, <1>3, <1>4, <1>5, <1>6, <1>7, <1>8, <1>9, <1>10 DEF Next

\* The attempts of a request follow one another, whatever fails and whenever: one
\* of them is in front of an upstream or answers the client, and one more for
\* every thrown-away answer whose stream failed after its status line.
THEOREM AttemptsFollow == Spec => []OneAttemptAtATime
<1>1. Init => Following
  <2> SUFFICES ASSUME Init, NEW r \in Requests
               PROVE  /\ Cardinality(Front(r)) <= 1 + late[r]
                      /\ phase[r] = "admitted" => \A i \in 1..Slots : live[r][i] = NoAttempt
    BY DEF Following
  <2>1. late[r] = 0 /\ \A i \in 1..Slots : live[r][i] = NoAttempt
    BY DEF Init
  <2>2. Cardinality(Front(r)) = 0
    BY <2>1, NobodyInFront, FS_EmptySet
  <2> QED BY <2>1, <2>2
<1>2. WellFormed /\ Following /\ [Next]_vars => Following'
  BY FollowingStep
<1>3. Following => OneAttemptAtATime
  BY DEF Following, OneAttemptAtATime, Front, Active
<1> QED BY <1>1, <1>2, <1>3, RequestsInvariance, PTL DEF Spec

\* A request that must not be repeated has one attempt, in the first slot: it was
\* sent once to the upstream of that attempt, and a second time if the attempt is
\* the one over HTTP/1.1.
Asked(to) == <<to.pool, to.up>>

SentOnce(r) ==
    /\ phase[r] = "admitted" => sends[r] = 0 /\ asked[r] = {} /\ live[r][1] = NoAttempt
    /\ \A i \in 1..Slots : i # 1 => live[r][i] = NoAttempt
    /\ live[r][1] # NoAttempt =>
          /\ asked[r] = {Asked(live[r][1].route)}
          /\ ~live[r][1].forced => sends[r] = 1
          /\ live[r][1].forced => sends[r] = 2 /\ Asked(live[r][1].route) \in AutoProtocol
    /\ Cardinality(asked[r]) <= 1
    /\ sends[r] <= IF asked[r] \subseteq AutoProtocol THEN 2 ELSE 1

Unrepeated == \A r \in Requests \ Safe : ~AllowUnsafe => SentOnce(r)

\* What a callback does of a request that may not be retried.
LEMMA UnsafeOutcome ==
    ASSUME WellFormed, NEW r \in Requests, NEW i \in 1..Slots, ~MayRetry(r), Outcome(r, i)
    PROVE  /\ live[r][i] # NoAttempt /\ UNCHANGED <<phase, route>>
           /\ \/ /\ UNCHANGED <<sends, asked>>
                 /\ \E a \in {NoAttempt, live[r][i], [live[r][i] EXCEPT !.stage = "relaying"]} :
                       live' = [live EXCEPT ![r] = [live[r] EXCEPT ![i] = a]]
              \/ /\ Asked(live[r][i].route) \in AutoProtocol /\ ~live[r][i].forced
                 /\ live' = [live EXCEPT ![r] = [live[r] EXCEPT ![i] = Waiting(live[r][i].route, TRUE)]]
                 /\ CountSend(r, live[r][i].route)
<1>1. live[r][i] # NoAttempt
  BY OutcomeOfAttempt
<1>2. UNCHANGED <<phase, route>>
  BY OutcomeMeans DEF Callback
<1>3. CASE AnswerOk(r, i) \/ AnswerRetryable(r, i)
  <2>1. Relay(r, i)
    BY <1>3 DEF AnswerOk, AnswerRetryable
  <2> QED BY <1>1, <1>2, <2>1 DEF Relay, history
<1>4. CASE BodyEnds(r, i)
  BY <1>1, <1>2, <1>4 DEF BodyEnds, history
<1>5. CASE Fails(r, i)
  <2>1. \/ /\ Asked(live[r][i].route) \in AutoProtocol /\ ~live[r][i].forced
           /\ live' = [live EXCEPT ![r][i] = Waiting(live[r][i].route, TRUE)]
           /\ CountSend(r, live[r][i].route)
        \/ live' = [live EXCEPT ![r][i] = NoAttempt] /\ UNCHANGED history
    BY <1>5 DEF Fails, Asked
  <2> QED BY <1>1, <1>2, <2>1 DEF history
<1> QED BY <1>3, <1>4, <1>5 DEF Outcome

LEMMA UnrepeatedStep == WellFormed /\ Unrepeated /\ [Next]_vars => Unrepeated'
<1> SUFFICES ASSUME WellFormed, Unrepeated, [Next]_vars,
                    NEW s \in Requests \ Safe, ~AllowUnsafe
             PROVE  SentOnce(s)'
  BY DEF Unrepeated
<1>0. /\ live \in [Requests -> [1..Slots -> Attempt]] /\ route \in [Requests -> Route]
      /\ phase \in [Requests -> {"idle", "admitted", "proxied"}]
      /\ sends \in [Requests -> 0..3] /\ asked \in [Requests -> SUBSET (Pools \X Nat)]
      /\ s \in Requests /\ s \notin Safe /\ 1 \in 1..Slots
      /\ SentOnce(s)
  BY RequestAssumption DEF WellFormed, RequestTypes, HistoryTypes, Unrepeated
<1>d. live \in [Requests -> [1..Slots -> Attempt]] /\ s \in Requests /\ 1 \in 1..Slots
  BY <1>0
<1>e. SentOnce(s)
  BY <1>0
<1>a. ASSUME live'[s] = live[s], sends'[s] = sends[s], asked'[s] = asked[s], phase'[s] = "admitted" => phase[s] = "admitted"
      PROVE  SentOnce(s)'
  BY <1>0, <1>a DEF SentOnce, Asked
<1>b. ASSUME NEW r \in Requests, \A i \in 1..Slots : live[r][i] = NoAttempt, Anew(r), live' = live,
             r # s => phase'[s] = phase[s]
      PROVE  SentOnce(s)'
  <2>1. CASE r = s
    <3>1. sends'[s] = 0 /\ asked'[s] = {} /\ live'[s] = live[s]
      BY <1>0, <1>b, <2>1 DEF Anew
    <3> QED BY <1>0, <1>b, <2>1, <3>1, FS_EmptySet DEF SentOnce
  <2>2. CASE r # s
    BY <1>0, <1>a, <1>b, <2>2 DEF Anew
  <2> QED BY <2>1, <2>2
<1>c. ASSUME NEW to, CountSend(s, to), asked[s] \subseteq {Asked(to)}, Known(to)
      PROVE  /\ asked'[s] = {Asked(to)} /\ Cardinality(asked'[s]) = 1
             /\ sends[s] <= 2 => sends'[s] = sends[s] + 1
  <2>1. asked'[s] = {Asked(to)} /\ sends'[s] = Capped(sends[s] + 1, 3)
    BY <1>0, <1>c DEF CountSend, Asked
  <2>2. Cardinality({Asked(to)}) = 1
    BY FS_Singleton
  <2> QED BY <1>0, <2>1, <2>2 DEF Capped
<1>1. ASSUME NEW r \in Requests, Refuse(r) PROVE SentOnce(s)'
  BY <1>0, <1>1, <1>b DEF Refuse, Quiet
<1>2. ASSUME NEW r \in Requests, Admit(r) PROVE SentOnce(s)'
  BY <1>0, <1>2, <1>b DEF Admit, Quiet
<1>3. ASSUME NEW r \in Requests, AnswerEarly(r) PROVE SentOnce(s)'
  BY <1>0, <1>3, <1>a DEF AnswerEarly, history
<1>4. ASSUME NEW r \in Requests, Send(r) PROVE SentOnce(s)'
  <2> DEFINE a == Waiting(route[r], FALSE)
  <2>1. /\ phase[r] = "admitted"
        /\ phase' = [phase EXCEPT ![r] = "proxied"]
        /\ live' = [live EXCEPT ![r] = [live[r] EXCEPT ![1] = a]]
        /\ CountSend(r, route[r])
    BY <1>4 DEF Send
  <2>2. CASE r # s
    <3>1. live'[s] = live[s] /\ sends'[s] = sends[s] /\ asked'[s] = asked[s] /\ phase'[s] = phase[s]
      BY <1>0, <2>1, <2>2 DEF CountSend
    <3> QED BY <1>a, <3>1
  <2>3. CASE r = s
    <3>1. sends[s] = 0 /\ asked[s] = {} /\ Known(route[s])
      BY <1>0, <2>1, <2>3 DEF SentOnce, WellFormed, RoutesInv
    <3>2. sends'[s] = 1 /\ asked'[s] = {Asked(route[s])} /\ Cardinality(asked'[s]) = 1
      BY <1>c, <2>1, <2>3, <3>1
    <3>3. a.route = route[s] /\ a.forced = FALSE
      BY <2>3 DEF Waiting
    <3> HIDE DEF a
    <3>4. phase'[s] = "proxied" /\ live'[s][1] = a /\ \A i \in 1..Slots : i # 1 => live'[s][i] = NoAttempt
      BY <1>0, <2>1, <2>3 DEF SentOnce
    <3> QED BY <3>2, <3>3, <3>4 DEF SentOnce
  <2> QED BY <2>2, <2>3
<1>5. ASSUME NEW r \in Requests, ClientLeaves(r) PROVE SentOnce(s)'
  BY <1>0, <1>5, <1>a DEF ClientLeaves, history
<1>6. ASSUME NEW r \in Requests, NEW i \in 1..Slots, Outcome(r, i) PROVE SentOnce(s)'
  <2>1. CASE r # s
    <3>1. live'[s] = live[s] /\ phase' = phase
      BY <1>0, <1>6, <2>1, OutcomeMeans DEF Callback, Becoming, Replaced
    <3>2. sends'[s] = sends[s] /\ asked'[s] = asked[s]
      BY <1>0, <1>6, <2>1, OutcomeCounts DEF CountSend
    <3> QED BY <1>a, <3>1, <3>2
  <2>2. CASE r = s
    <3> DEFINE a == live[s][1]
    <3>1. ~MayRetry(s)
      BY DEF MayRetry
    <3>2. /\ live[s][i] # NoAttempt /\ UNCHANGED <<phase, route>>
          /\ \/ /\ UNCHANGED <<sends, asked>>
                /\ \E b \in {NoAttempt, live[s][i], [live[s][i] EXCEPT !.stage = "relaying"]} :
                      live' = [live EXCEPT ![s] = [live[s] EXCEPT ![i] = b]]
             \/ /\ Asked(live[s][i].route) \in AutoProtocol /\ ~live[s][i].forced
                /\ live' = [live EXCEPT ![s] = [live[s] EXCEPT ![i] = Waiting(live[s][i].route, TRUE)]]
                /\ CountSend(s, live[s][i].route)
      BY <1>6, <2>2, <3>1, UnsafeOutcome
    <3>3. i = 1 /\ a # NoAttempt /\ phase[s] # "admitted" /\ a \in Attempt /\ Known(a.route)
      <4>1. i = 1
        BY <1>0, <3>2 DEF SentOnce
      <4>2. a # NoAttempt
        BY <3>2, <4>1
      <4>3. phase[s] # "admitted"
        BY <1>0, <4>2 DEF SentOnce
      <4>4. a \in Attempt /\ Known(a.route)
        BY <1>0 DEF WellFormed, RoutesInv
      <4> QED BY <4>1, <4>2, <4>3, <4>4
    <3>4. ASSUME NEW b, live' = [live EXCEPT ![s] = [live[s] EXCEPT ![1] = b]],
                 UNCHANGED <<sends, asked>>, b = NoAttempt \/ (b.route = a.route /\ b.forced = a.forced)
          PROVE  SentOnce(s)'
      <4>1. live'[s][1] = b /\ \A h \in 1..Slots : h # 1 => live'[s][h] = live[s][h]
        BY <1>0, <3>4
      <4> QED BY <1>0, <3>2, <3>3, <3>4, <4>1 DEF SentOnce
    <3>5. CASE /\ Asked(a.route) \in AutoProtocol /\ ~a.forced
               /\ live' = [live EXCEPT ![s] = [live[s] EXCEPT ![1] = Waiting(a.route, TRUE)]]
               /\ CountSend(s, a.route)
      <4>1. sends[s] = 1 /\ asked[s] = {Asked(a.route)}
        BY <1>0, <3>3, <3>5 DEF SentOnce
      <4>2. sends'[s] = 2 /\ asked'[s] = {Asked(a.route)} /\ Cardinality(asked'[s]) = 1
        BY <1>c, <3>3, <3>5, <4>1
      <4> DEFINE b == Waiting(a.route, TRUE)
      <4>3. b.route = a.route /\ b.forced = TRUE
        BY DEF Waiting
      <4> HIDE DEF b
      <4>4. live'[s][1] = b /\ \A h \in 1..Slots : h # 1 => live'[s][h] = NoAttempt
        BY <1>0, <3>5 DEF SentOnce, b
      <4>5. asked'[s] \subseteq AutoProtocol /\ phase'[s] # "admitted"
        BY <3>2, <3>3, <3>5, <4>2
      <4>6. /\ asked'[s] = {Asked(live'[s][1].route)} /\ live'[s][1].forced
            /\ sends'[s] = 2 /\ Asked(live'[s][1].route) \in AutoProtocol
        BY <3>5, <4>2, <4>3, <4>4
      <4>7. Cardinality(asked'[s]) <= 1 /\ sends'[s] <= IF asked'[s] \subseteq AutoProtocol THEN 2 ELSE 1
        BY <4>2, <4>5
      <4> QED BY <4>4, <4>5, <4>6, <4>7 DEF SentOnce, Asked
    <3>6. [a EXCEPT !.stage = "relaying"].route = a.route /\ [a EXCEPT !.stage = "relaying"].forced = a.forced
      BY <3>3 DEF Attempt
    <3> QED BY <3>2, <3>3, <3>4, <3>5, <3>6
  <2> QED BY <2>1, <2>2
<1>7. CASE DrainSite
  BY <1>0, <1>7, <1>a DEF DrainSite, history
<1>8. CASE ReplaceRoutes
  <2>1. /\ live' = [r \in Requests |->
                      [i \in 1..Slots |-> [live[r][i] EXCEPT !.route.stale = TRUE]]]
        /\ UNCHANGED <<phase, sends, asked>>
    BY <1>8 DEF ReplaceRoutes, history
  <2>2. ASSUME NEW i \in 1..Slots
        PROVE  /\ live'[s][i].route.pool = live[s][i].route.pool /\ live'[s][i].route.up = live[s][i].route.up
               /\ live'[s][i].forced = live[s][i].forced
               /\ live[s][i] = NoAttempt => live'[s][i] = NoAttempt
    <3>1. live[s][i] \in Attempt
      BY <1>d
    <3>2. live'[s][i] = [live[s][i] EXCEPT !.route = [live[s][i].route EXCEPT !.stale = TRUE]]
      BY <1>d, <2>1
    <3>3. [NoRoute EXCEPT !.stale = TRUE] = NoRoute
      <4>1. NoRoute \in Route /\ NoRoute.stale = TRUE
        BY RoutesKnown DEF Known, NoRoute
      <4> QED BY <4>1 DEF Route
    <3>4. NoAttempt.route = NoRoute /\ [NoAttempt EXCEPT !.route = NoRoute] = NoAttempt
      <4>1. NoAttempt \in Attempt /\ NoAttempt.route = NoRoute
        BY AttemptTypes DEF NoAttempt
      <4> QED BY <4>1 DEF Attempt
    <3>5. live[s][i] = NoAttempt => live'[s][i] = NoAttempt
      BY <3>2, <3>3, <3>4
    <3> QED BY <3>1, <3>2, <3>5 DEF Attempt, Route
  <2>3. /\ sends'[s] = sends[s] /\ asked'[s] = asked[s] /\ phase'[s] = phase[s]
        /\ \A i \in 1..Slots : live[s][i] = NoAttempt => live'[s][i] = NoAttempt
        /\ Asked(live'[s][1].route) = Asked(live[s][1].route) /\ live'[s][1].forced = live[s][1].forced
    BY <1>d, <2>1, <2>2 DEF Asked
  <2> QED BY <1>d, <1>e, <2>3 DEF SentOnce, Asked
<1>9. CASE Tick
  BY <1>0, <1>9, <1>a DEF Tick, history
<1>10. CASE UNCHANGED vars
  BY <1>0, <1>10, <1>a DEF vars
<1> QED BY <1>1, <1>2, <1>3, <1>4, <1>5, <1>6, <1>7, <1>8, <1>9, <1>10 DEF Next

\* A request whose method is not safe is asked of one upstream only, unless the
\* location allows unsafe fallback, whatever fails and whenever: once, or twice if
\* the protocol of that upstream is "auto".
THEOREM UnsafeIsSentOnce == Spec => []UnsafeSentOnce
<1>1. Init => Unrepeated
  <2> SUFFICES ASSUME Init, NEW r \in Requests PROVE SentOnce(r)
    BY DEF Unrepeated
  <2>1. sends[r] = 0 /\ asked[r] = {} /\ 1 \in 1..Slots /\ \A i \in 1..Slots : live[r][i] = NoAttempt
    BY RequestAssumption DEF Init
  <2> QED BY <2>1, FS_EmptySet DEF SentOnce
<1>2. WellFormed /\ Unrepeated /\ [Next]_vars => Unrepeated'
  BY UnrepeatedStep
<1>3. Unrepeated => UnsafeSentOnce
  BY DEF Unrepeated, SentOnce, UnsafeSentOnce
<1> QED BY <1>1, <1>2, <1>3, RequestsInvariance, PTL DEF Spec
=============================================================================
