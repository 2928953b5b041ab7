------------------------------ MODULE DnsProofs ------------------------------
(* Theorems about DnsResolver and PolicySubscriptions, for any questions,     *)
(* configurations, schedules, subscriptions and bounds.                       *)
EXTENDS DnsResolver, PolicySubscriptions, FiniteSetTheorems, SequenceTheorems, WellFoundedInduction, TLAPS

(* Recursive functions.                                                       *)

\* A non-empty set of naturals has a least element.
LEMMA LeastNumber ==
  ASSUME NEW S \in SUBSET Nat, S # {}
  PROVE  \E m \in S : \A k \in S : m <= k
<1> DEFINE R == {ss \in Nat \X Nat : ss[1] < ss[2]}
<1>1. IsWellFoundedOn(R, Nat)
  BY NatLessThanWellFounded DEF OpToRel
<1>2. PICK m \in S : \A k \in S : ~(<<k, m>> \in R)
  <2> HIDE DEF R
  <2> QED BY <1>1, WFMin, S \subseteq Nat
<1>3. ASSUME NEW k \in S PROVE m <= k
  <2>1. k \in Nat /\ m \in Nat /\ <<k, m>> \in Nat \X Nat /\ <<k, m>>[1] = k /\ <<k, m>>[2] = m
    OBVIOUS
  <2>2. ~(k < m)
    BY <1>2, <2>1
  <2> QED BY <2>1, <2>2
<1> QED BY <1>3

\* A property of 0 that every number of a range hands on to the next one holds
\* of the whole range: U is the set of the numbers that have it.
LEMMA Ascent ==
  ASSUME NEW n \in Nat, NEW U, 0 \in U, \A i \in 1 .. n : i - 1 \in U => i \in U
  PROVE  \A i \in 0 .. n : i \in U
<1> DEFINE Stuck == {i \in 0 .. n : i \notin U}
<1>1. SUFFICES ASSUME Stuck # {} PROVE FALSE
  OBVIOUS
<1>2. Stuck \in SUBSET Nat
  OBVIOUS
<1>3. PICK i \in Stuck : \A j \in Stuck : i <= j
  <2> HIDE DEF Stuck
  <2> QED BY <1>1, <1>2, LeastNumber
<1>4. i \in 1 .. n /\ i - 1 \in 0 .. n /\ ~(i <= i - 1)
  OBVIOUS
<1>5. i - 1 \notin Stuck
  <2> HIDE DEF Stuck
  <2> QED BY <1>3, <1>4
<1> QED BY <1>4, <1>5

----------------------------------------------------------------------------
(* Kept.                                                                      *)

\* g has the members of S among the first n elements of s, in their order.
Places(m, g, s, S, n, k) ==
  /\ m \in [1 .. k -> 1 .. n]
  /\ \A i \in 1 .. k : g[i] = s[m[i]] /\ g[i] \in S
  /\ \A i, j \in 1 .. k : i < j => m[i] < m[j]
  /\ \A p \in 1 .. n : s[p] \in S => \E i \in 1 .. k : m[i] = p
Picks(g, s, S, T, n) ==
  /\ g \in Seq(T)
  /\ Len(g) <= n /\ ((\E p \in 1 .. n : s[p] \notin S) => Len(g) < n)
  /\ \E m : Places(m, g, s, S, n, Len(g))

LEMMA PickNext ==
  ASSUME NEW T, NEW s \in Seq(T), NEW S, NEW n \in 1 .. Len(s), NEW g, Picks(g, s, S, T, n - 1)
  PROVE  Picks(IF s[n] \in S THEN Append(g, s[n]) ELSE g, s, S, T, n)
<1>1. PICK m \in [1 .. Len(g) -> 1 .. n - 1] :
        /\ \A i \in 1 .. Len(g) : g[i] = s[m[i]] /\ g[i] \in S
        /\ \A i, j \in 1 .. Len(g) : i < j => m[i] < m[j]
        /\ \A p \in 1 .. n - 1 : s[p] \in S => \E i \in 1 .. Len(g) : m[i] = p
  BY DEF Picks, Places
<1> DEFINE k == Len(g)
<1>2. /\ g \in Seq(T) /\ k \in Nat /\ k <= n - 1 /\ ((\E p \in 1 .. n - 1 : s[p] \notin S) => k < n - 1)
      /\ s[n] \in T /\ n \in Nat \ {0}
  BY DEF Picks
<1>3. \A p \in 1 .. n : p \in 1 .. n - 1 \/ p = n
  BY <1>2
<1>4. CASE s[n] \in S
  <2> DEFINE h == Append(g, s[n])
             mm == [i \in 1 .. k + 1 |-> IF i = k + 1 THEN n ELSE m[i]]
  <2>1. h \in Seq(T) /\ Len(h) = k + 1 /\ h[k + 1] = s[n] /\ \A i \in 1 .. k : h[i] = g[i]
    BY <1>2
  <2>2. \A i \in 1 .. k + 1 : i \in 1 .. k \/ i = k + 1
    BY <1>2
  <2>3. mm \in [1 .. k + 1 -> 1 .. n] /\ mm[k + 1] = n /\ \A i \in 1 .. k : mm[i] = m[i] /\ m[i] < n /\ m[i] \in 1 .. n
    <3>1. \A i \in 1 .. k : m[i] \in 1 .. n - 1
      OBVIOUS
    <3>2. \A i \in 1 .. k : m[i] < n /\ m[i] \in 1 .. n
      BY <1>2, <3>1
    <3> HIDE DEF k
    <3> QED BY <1>2, <2>2, <3>2
  <2>4. k + 1 <= n /\ ((\E p \in 1 .. n : s[p] \notin S) => k + 1 < n)
    BY <1>2, <1>3, <1>4
  <2> HIDE DEF h, mm, k
  <2>5. \A i \in 1 .. k + 1 : h[i] = s[mm[i]] /\ h[i] \in S
    <3> SUFFICES ASSUME NEW i \in 1 .. k + 1 PROVE h[i] = s[mm[i]] /\ h[i] \in S
      OBVIOUS
    <3>1. CASE i \in 1 .. k
      BY <1>1, <2>1, <2>3, <3>1 DEF k
    <3>2. CASE i = k + 1
      BY <1>4, <2>1, <2>3, <3>2
    <3> QED BY <2>2, <3>1, <3>2
  <2>6. \A i, j \in 1 .. k + 1 : i < j => mm[i] < mm[j]
    <3> SUFFICES ASSUME NEW i \in 1 .. k + 1, NEW j \in 1 .. k + 1, i < j PROVE mm[i] < mm[j]
      OBVIOUS
    <3>1. i \in 1 .. k
      BY <1>2
    <3>2. CASE j \in 1 .. k
      BY <1>1, <2>3, <3>1, <3>2 DEF k
    <3>3. CASE j = k + 1
      BY <2>3, <3>1, <3>3
    <3> QED BY <2>2, <3>2, <3>3
  <2>7. \A p \in 1 .. n : s[p] \in S => \E i \in 1 .. k + 1 : mm[i] = p
    <3> SUFFICES ASSUME NEW p \in 1 .. n, s[p] \in S PROVE \E i \in 1 .. k + 1 : mm[i] = p
      OBVIOUS
    <3>1. CASE p = n
      BY <1>2, <2>3, <3>1
    <3>2. CASE p \in 1 .. n - 1
      <4>1. PICK i \in 1 .. k : m[i] = p
        BY <1>1, <3>2 DEF k
      <4>2. i \in 1 .. k + 1 /\ mm[i] = p
        BY <1>2, <2>3, <4>1
      <4> QED BY <4>2
    <3> QED BY <1>3, <3>1, <3>2
  <2>8. Picks(h, s, S, T, n)
    <3>1. Places(mm, h, s, S, n, k + 1)
      BY <2>3, <2>5, <2>6, <2>7 DEF Places
    <3> QED BY <2>1, <2>4, <3>1 DEF Picks
  <2> QED BY <1>4, <2>8 DEF h
<1>5. CASE s[n] \notin S
  <2>1. m \in [1 .. k -> 1 .. n] /\ k < n
    BY <1>2
  <2>2. \A p \in 1 .. n : s[p] \in S => \E i \in 1 .. k : m[i] = p
    BY <1>1, <1>3, <1>5
  <2> HIDE DEF k
  <2>3. Picks(g, s, S, T, n)
    <3>1. Places(m, g, s, S, n, k)
      BY <1>1, <2>1, <2>2 DEF k, Places
    <3>2. k <= n /\ ((\E p \in 1 .. n : s[p] \notin S) => k < n)
      BY <1>2, <2>1
    <3> QED BY <1>2, <3>1, <3>2 DEF Picks, k
  <2> QED BY <1>5, <2>3
<1> QED BY <1>4, <1>5

LEMMA KeptIs ==
  ASSUME NEW T, NEW s \in Seq(T), NEW S
  PROVE  Picks(Kept(s, S), s, S, T, Len(s))
<1> DEFINE N == Len(s)
           Step(h, n) == IF n = 0 THEN <<>> ELSE IF s[n] \in S THEN Append(h[n - 1], s[n]) ELSE h[n - 1]
           f == CHOOSE h : h = [n \in 0 .. N |-> Step(h, n)]
           Done == {n \in 0 .. N : \E h : h = [i \in 0 .. n |-> Step(h, i)]}
           Good == {n \in 0 .. N : Picks(f[n], s, S, T, n)}
<1>1. N \in Nat
  OBVIOUS
<1>2. 0 \in Done
  <2> DEFINE h == [i \in 0 .. 0 |-> <<>>]
  <2>1. \A i \in 0 .. 0 : h[i] = Step(h, i)
    OBVIOUS
  <2>2. h = [i \in 0 .. 0 |-> Step(h, i)]
    <3> HIDE DEF Step
    <3> QED BY <2>1
  <2> HIDE DEF h, Step
  <2> QED BY <1>1, <2>2
<1>3. ASSUME NEW n \in 1 .. N, n - 1 \in Done PROVE n \in Done
  <2>1. PICK h : h = [i \in 0 .. n - 1 |-> Step(h, i)]
    BY <1>3
  <2> DEFINE g == [i \in 0 .. n |-> IF i = n THEN Step(h, n) ELSE h[i]]
  <2>2. ASSUME NEW i \in 0 .. n PROVE g[i] = Step(g, i)
    <3>1. i # 0 => g[i - 1] = h[i - 1]
      BY <1>1
    <3>2. CASE i = n
      BY <1>1, <3>1, <3>2
    <3>3. CASE i # n
      <4>1. i \in 0 .. n - 1
        BY <1>1, <3>3
      <4>2. h[i] = Step(h, i)
        <5> HIDE DEF Step
        <5> QED BY <2>1, <4>1
      <4> QED BY <3>1, <3>3, <4>2
    <3> QED BY <3>2, <3>3
  <2>3. g = [i \in 0 .. n |-> Step(g, i)]
    <3> HIDE DEF Step
    <3> QED BY <2>2
  <2> HIDE DEF g, Step
  <2> QED BY <1>1, <2>3
<1>4. N \in Done
  <2> HIDE DEF Done, N
  <2>1. \A i \in 0 .. N : i \in Done
    BY <1>1, <1>2, <1>3, Ascent
  <2> QED BY <1>1, <2>1
<1>5. f = [n \in 0 .. N |-> Step(f, n)]
  <2> HIDE DEF Step
  <2> QED BY <1>4
<1>6. Kept(s, S) = f[N]
  BY DEF Kept
<1> HIDE DEF f
<1>7. 0 \in Good
  <2>1. f[0] = <<>>
    BY <1>1, <1>5
  <2>2. Picks(<<>>, s, S, T, 0)
    <3>1. [i \in 1 .. 0 |-> 0] \in [1 .. 0 -> 1 .. 0] /\ Len(<<>>) = 0 /\ <<>> \in Seq(T)
      OBVIOUS
    <3>2. Places([i \in 1 .. 0 |-> 0], <<>>, s, S, 0, 0)
      BY <3>1 DEF Places
    <3> QED BY <3>1, <3>2 DEF Picks
  <2> QED BY <1>1, <2>1, <2>2
<1>8. ASSUME NEW n \in 1 .. N, n - 1 \in Good PROVE n \in Good
  <2>1. f[n] = IF s[n] \in S THEN Append(f[n - 1], s[n]) ELSE f[n - 1]
    <3>1. n \in 0 .. N /\ n # 0
      BY <1>1
    <3>2. f[n] = Step(f, n)
      <4> HIDE DEF Step
      <4> QED BY <1>5, <3>1
    <3> QED BY <3>1, <3>2
  <2>2. Picks(f[n - 1], s, S, T, n - 1)
    BY <1>8
  <2>3. Picks(IF s[n] \in S THEN Append(f[n - 1], s[n]) ELSE f[n - 1], s, S, T, n)
    BY <2>2, PickNext
  <2> QED BY <1>1, <2>1, <2>3
<1>9. N \in Good
  <2> HIDE DEF Good, N
  <2>1. \A i \in 0 .. N : i \in Good
    BY <1>1, <1>7, <1>8, Ascent
  <2> QED BY <1>1, <2>1
<1> QED BY <1>6, <1>9

\* What Kept yields: the elements of s that are in S, fewer than s has if one is not.
LEMMA KeptMembers ==
  ASSUME NEW T, NEW s \in Seq(T), NEW S
  PROVE  /\ Kept(s, S) \in Seq(T) /\ Range(Kept(s, S)) = Range(s) \cap S
         /\ Len(Kept(s, S)) <= Len(s)
         /\ (\E p \in 1 .. Len(s) : s[p] \notin S) => Len(Kept(s, S)) < Len(s)
<1> DEFINE g == Kept(s, S)
<1>1. Picks(g, s, S, T, Len(s))
  BY KeptIs
<1> HIDE DEF g
<1>2. g \in Seq(T) /\ Len(g) <= Len(s) /\ ((\E p \in 1 .. Len(s) : s[p] \notin S) => Len(g) < Len(s))
  BY <1>1 DEF Picks
<1>3. PICK m : Places(m, g, s, S, Len(s), Len(g))
  BY <1>1 DEF Picks
<1>4. ASSUME NEW x \in Range(g) PROVE x \in Range(s) /\ x \in S
  <2>1. PICK i \in 1 .. Len(g) : g[i] = x
    BY <1>2 DEF Range
  <2>2. m[i] \in 1 .. Len(s) /\ x = s[m[i]] /\ x \in S
    BY <1>3, <2>1 DEF Places
  <2> QED BY <2>2 DEF Range
<1>5. ASSUME NEW x \in Range(s), x \in S PROVE x \in Range(g)
  <2>1. PICK p \in 1 .. Len(s) : s[p] = x
    BY DEF Range
  <2>2. PICK i \in 1 .. Len(g) : m[i] = p
    BY <1>3, <1>5, <2>1 DEF Places
  <2>3. g[i] = x /\ i \in DOMAIN g
    BY <1>2, <1>3, <2>1, <2>2 DEF Places
  <2> QED BY <2>3 DEF Range
<1> QED BY <1>2, <1>4, <1>5 DEF g

\* They are in the order they have in s.
LEMMA KeptOrder ==
  ASSUME NEW T, NEW s \in Seq(T), NEW S
  PROVE  \E m \in [1 .. Len(Kept(s, S)) -> 1 .. Len(s)] :
           /\ \A i \in 1 .. Len(Kept(s, S)) : Kept(s, S)[i] = s[m[i]]
           /\ \A i, j \in 1 .. Len(Kept(s, S)) : i < j => m[i] < m[j]
<1> DEFINE g == Kept(s, S)
<1>1. Picks(g, s, S, T, Len(s))
  BY KeptIs
<1>2. PICK m : Places(m, g, s, S, Len(s), Len(g))
  BY <1>1 DEF Picks
<1> HIDE DEF g
<1>3. /\ m \in [1 .. Len(g) -> 1 .. Len(s)] /\ \A i \in 1 .. Len(g) : g[i] = s[m[i]]
      /\ \A i, j \in 1 .. Len(g) : i < j => m[i] < m[j]
  BY <1>2 DEF Places
<1> QED BY <1>3 DEF g

----------------------------------------------------------------------------
(* Records.                                                                   *)

IsSeq(s) == s \in Seq(Range(s))
Fields == {"name", "type", "val"}

\* Records of one name.
Named(recs, n) == IsSeq(recs) /\ \A i \in DOMAIN recs : DOMAIN recs[i] = Fields /\ recs[i].name = n

LEMMA SeqIs ==
  ASSUME NEW T, NEW s \in Seq(T)
  PROVE  IsSeq(s)
<1>1. Len(s) \in Nat /\ DOMAIN s = 1 .. Len(s) /\ s = [i \in 1 .. Len(s) |-> s[i]]
  OBVIOUS
<1>2. \A i \in 1 .. Len(s) : s[i] \in Range(s)
  BY <1>1 DEF Range
<1>3. s \in [1 .. Len(s) -> Range(s)]
  BY <1>1, <1>2
<1> QED BY <1>1, <1>3 DEF IsSeq

LEMMA SeqRange ==
  ASSUME NEW s, IsSeq(s)
  PROVE  /\ Len(s) \in Nat /\ DOMAIN s = 1 .. Len(s) /\ \A i \in DOMAIN s : s[i] \in Range(s)
         /\ \A x \in Range(s) : \E i \in DOMAIN s : s[i] = x
BY DEF IsSeq, Range

LEMMA AtIs ==
  ASSUME NEW cf, Configuration(cf), NEW n
  PROVE  Named(At(cf, n), n)
<1> DEFINE S == {r \in Range(cf.recs) : r.name = n}
           g == Kept(cf.recs, S)
<1>1. CASE Enabled(cf, n)
  <2>1. cf.recs \in Seq(Range(cf.recs))
    BY DEF Configuration
  <2>2. g \in Seq(Range(cf.recs)) /\ Range(g) = Range(cf.recs) \cap S
    <3> HIDE DEF S
    <3> QED BY <2>1, KeptMembers
  <2>3. At(cf, n) = g
    BY <1>1 DEF At
  <2>4. IsSeq(g)
    <3> HIDE DEF g
    <3> QED BY <2>2, SeqIs
  <2>5. ASSUME NEW i \in DOMAIN g PROVE DOMAIN g[i] = Fields /\ g[i].name = n
    <3>1. g[i] \in Range(g)
      BY DEF Range
    <3> HIDE DEF g
    <3> QED BY <2>2, <3>1 DEF Configuration, Fields
  <2> QED BY <2>3, <2>4, <2>5 DEF Named
<1>2. CASE ~Enabled(cf, n)
  <2>1. At(cf, n) = <<>>
    BY <1>2 DEF At
  <2>2. IsSeq(<<>>)
    BY DEF IsSeq
  <2> QED BY <2>1, <2>2 DEF Named
<1> QED BY <1>1, <1>2

LEMMA OfTypeIs ==
  ASSUME NEW recs, NEW n, Named(recs, n), NEW t
  PROVE  /\ Named(OfType(recs, t), n)
         /\ t # "ANY" => \A i \in DOMAIN OfType(recs, t) : OfType(recs, t)[i].type = t
<1> DEFINE S == {r \in Range(recs) : r.type = t}
           g == Kept(recs, S)
<1>1. CASE t = "ANY"
  BY <1>1 DEF OfType
<1>2. CASE t # "ANY"
  <2>1. recs \in Seq(Range(recs))
    BY DEF Named, IsSeq
  <2>2. g \in Seq(Range(recs)) /\ Range(g) = Range(recs) \cap S
    <3> HIDE DEF S
    <3> QED BY <2>1, KeptMembers
  <2>3. OfType(recs, t) = g
    BY <1>2 DEF OfType
  <2>4. IsSeq(g)
    <3> HIDE DEF g
    <3> QED BY <2>2, SeqIs
  <2>5. ASSUME NEW i \in DOMAIN g PROVE DOMAIN g[i] = Fields /\ g[i].name = n /\ g[i].type = t
    <3>1. g[i] \in Range(g)
      BY DEF Range
    <3> HIDE DEF g
    <3>2. g[i] \in Range(recs) /\ g[i].type = t
      BY <2>2, <3>1
    <3> QED BY <3>2 DEF Named, Range
  <2> QED BY <2>3, <2>4, <2>5 DEF Named
<1> QED BY <1>1, <1>2

LEMMA SelectedIs ==
  ASSUME NEW recs, NEW n, Named(recs, n), NEW t
  PROVE  Named(Selected(recs, t), n)
<1>1. Named(OfType(recs, t), n) /\ Named(OfType(recs, "CNAME"), n)
  BY OfTypeIs
<1> QED BY <1>1 DEF Selected

LEMMA RenamedIs ==
  ASSUME NEW recs, NEW m, Named(recs, m), NEW n
  PROVE  Named(Renamed(recs, n), n)
<1> DEFINE g == Renamed(recs, n)
<1>1. recs \in Seq(Range(recs)) /\ Len(recs) \in Nat /\ DOMAIN recs = 1 .. Len(recs)
  BY DEF Named, IsSeq
<1>2. g = [i \in 1 .. Len(recs) |-> [recs[i] EXCEPT !.name = n]]
  BY <1>1 DEF Renamed
<1> DEFINE T == {[recs[i] EXCEPT !.name = n] : i \in 1 .. Len(recs)}
<1>3. g \in Seq(T)
  BY <1>1, <1>2
<1>4. IsSeq(g)
  <2> HIDE DEF g, T
  <2> QED BY <1>3, SeqIs
<1>5. ASSUME NEW i \in DOMAIN g PROVE DOMAIN g[i] = Fields /\ g[i].name = n
  <2>1. i \in 1 .. Len(recs) /\ g[i] = [recs[i] EXCEPT !.name = n] /\ DOMAIN recs[i] = Fields
    BY <1>1, <1>2 DEF Named
  <2> HIDE DEF g
  <2> QED BY <2>1 DEF Fields
<1> HIDE DEF g
<1>6. Named(g, n)
  BY <1>4, <1>5 DEF Named
<1> QED BY <1>6 DEF g

LEMMA NoneNamed == \A n : Named(<<>>, n)
BY DEF Named, IsSeq

LEMMA WildIs ==
  ASSUME NEW cf, Configuration(cf), NEW n, NEW t, NEW least
  PROVE  Named(Wild(cf, n, t, least), n)
<1> DEFINE W == Wildcards(cf, n, t, least)
           star == <<"*">> \o Longest(W)
<1>1. Named(At(cf, star), star)
  <2> HIDE DEF star
  <2> QED BY AtIs
<1>2. Named(Selected(At(cf, star), t), star)
  <2> HIDE DEF star
  <2> QED BY <1>1, SelectedIs
<1>3. Named(Renamed(Selected(At(cf, star), t), n), n)
  <2> HIDE DEF star
  <2> QED BY <1>2, RenamedIs
<1> QED BY <1>3, NoneNamed DEF Wild

LEMMA FoundIs ==
  ASSUME NEW cf, Configuration(cf), NEW n, NEW t
  PROVE  Named(Found(cf, n, t), n)
<1>1. Named(Selected(At(cf, n), t), n)
  BY AtIs, SelectedIs
<1> QED BY <1>1, WildIs DEF Found

\* An answer whose records are of one name; a failure has none.
Ending(resp, n) == Named(resp.recs, n) /\ (resp.rcode = "SERVFAIL" => resp.recs = <<>>)

LEMMA FromZoneIs ==
  ASSUME NEW cf, Configuration(cf), NEW n, NEW t \in Addresses, NEW z
  PROVE  Ending(FromZone(cf, n, t, z), n)
<1>1. Named(InZone(cf, n, t, z), n)
  <2>1. Named(Selected(At(cf, n), t), n)
    BY AtIs, SelectedIs
  <2> QED BY <2>1, WildIs DEF InZone
<1>2. FromZone(cf, n, t, z) = Answer(<<>>, FALSE)
      \/ \E code \in {"NXDOMAIN", "NOERROR"} : FromZone(cf, n, t, z) = [rcode |-> code, recs |-> InZone(cf, n, t, z), aa |-> TRUE]
  BY DEF FromZone, Addresses
<1> QED BY <1>1, <1>2, NoneNamed DEF Ending, Answer

----------------------------------------------------------------------------
(* The walk.                                                                  *)

QFields == {"name", "type", "cd", "dnssec", "client", "via", "qd"}
WFields == {"end", "first", "q", "seen", "chain", "resp"}

\* The name asked for at a level.
NameAt(w, i) == IF i <= Len(w.chain) THEN w.chain[i].recs[1].name ELSE w.q.name

\* The aliases of a name.
AliasesOf(recs, n) == Named(recs, n) /\ recs # <<>> /\ \A i \in DOMAIN recs : recs[i].type = "CNAME"

\* The aliases passed lead from the name of the question to the one asked for now.
Leading(w) ==
  /\ IsSeq(w.chain) /\ Len(w.chain) <= MaxDepth
  /\ \A i \in 1 .. Len(w.chain) :
       AliasesOf(w.chain[i].recs, NameAt(w, i)) /\ w.chain[i].recs[1].val = NameAt(w, i + 1)
  /\ \A i, j \in 1 .. Len(w.chain) + 1 : NameAt(w, i) = NameAt(w, j) => i = j
  /\ NameAt(w, 1) = w.first.name
Passed(w) ==
  /\ DOMAIN w = WFields /\ Question(w.first) /\ Question(w.q) /\ w.q.type = w.first.type
  /\ w.end \in {"go", "answer", "ask", "throws"}
  /\ Leading(w)
  /\ w.seen = {NameAt(w, i) : i \in 1 .. Len(w.chain)}
  /\ w.end = "answer" /\ w.first.type \in Addresses => Ending(w.resp, w.q.name)

LEMMA FirstIs ==
  ASSUME NEW q, Question(q)
  PROVE  Passed(First(q)) /\ First(q).end = "go" /\ First(q).first = q /\ Len(First(q).chain) = 0
<1> DEFINE w == First(q)
<1>1. /\ DOMAIN w = WFields /\ w.first = q /\ w.q = q /\ w.end = "go" /\ w.chain = <<>> /\ w.seen = {}
  BY DEF First, WFields
<1>2. Len(w.chain) = 0 /\ IsSeq(w.chain)
  BY <1>1, Len(<<>>) = 0, <<>> \in Seq(Range(<<>>)) DEF IsSeq
<1> HIDE DEF w
<1>3. \A i : i \in 1 .. Len(w.chain) + 1 => i = 1
  BY <1>2
<1>4. NameAt(w, 1) = q.name
  BY <1>1, <1>2 DEF NameAt
<1>5. Leading(w)
  BY <1>1, <1>2, <1>3, <1>4, ResolverAssumption DEF Leading
<1>6. Passed(w)
  BY <1>1, <1>2, <1>5 DEF Passed
<1> QED BY <1>1, <1>2, <1>6 DEF w

LEMMA EndedIs ==
  ASSUME NEW w, Passed(w), NEW resp, w.first.type \in Addresses => Ending(resp, w.q.name)
  PROVE  /\ Passed(Ended(w, resp)) /\ Ended(w, resp).end = "answer" /\ Ended(w, resp).first = w.first
<1> DEFINE v == Ended(w, resp)
<1>1. DOMAIN w = WFields
  BY DEF Passed
<1>2. /\ DOMAIN v = WFields /\ v.end = "answer" /\ v.resp = resp
      /\ v.first = w.first /\ v.q = w.q /\ v.seen = w.seen /\ v.chain = w.chain
  BY <1>1 DEF Ended, WFields
<1> HIDE DEF v
<1>3. \A i : NameAt(v, i) = NameAt(w, i)
  BY <1>2 DEF NameAt
<1>4. Leading(v)
  BY <1>2, <1>3 DEF Leading, Passed
<1>5. Passed(v)
  BY <1>2, <1>3, <1>4 DEF Passed
<1> QED BY <1>2, <1>5 DEF v

\* To ask others, or to give up.
LEMMA LeftIs ==
  ASSUME NEW w, Passed(w), NEW e \in {"ask", "throws"}
  PROVE  LET v == [w EXCEPT !.end = e] IN Passed(v) /\ v.end = e /\ v.first = w.first /\ v.q = w.q
<1> DEFINE v == [w EXCEPT !.end = e]
<1>1. DOMAIN w = WFields
  BY DEF Passed
<1>2. /\ DOMAIN v = WFields /\ v.end = e
      /\ v.first = w.first /\ v.q = w.q /\ v.seen = w.seen /\ v.chain = w.chain
  BY <1>1 DEF WFields
<1> HIDE DEF v
<1>3. \A i : NameAt(v, i) = NameAt(w, i)
  BY <1>2 DEF NameAt
<1>4. Leading(v)
  BY <1>2, <1>3 DEF Leading, Passed
<1>5. Passed(v)
  BY <1>2, <1>3, <1>4 DEF Passed
<1> QED BY <1>2, <1>5 DEF v

LEMMA RcodeIs == ASSUME NEW code, NEW n PROVE Ending(Rcode(code), n)
BY NoneNamed DEF Ending, Rcode

LEMMA AliasedIs ==
  ASSUME NEW w, Passed(w), w.end = "go", NEW by, NEW recs, AliasesOf(recs, w.q.name)
  PROVE  LET v == Aliased(w, by, recs) IN
         /\ Passed(v) /\ v.first = w.first /\ v.end \in {"go", "answer"}
         /\ v.end = "go" => Len(v.chain) = Len(w.chain) + 1
<1> DEFINE target == recs[1].val
           v == [w EXCEPT !.chain = Append(@, [by |-> by, recs |-> recs]), !.seen = @ \cup {w.q.name},
                          !.q = [w.q EXCEPT !.name = target, !.cd = 0]]
           len == Len(w.chain)
<1>1. CASE len >= MaxDepth \/ target \in w.seen \cup {w.q.name}
  <2>1. Aliased(w, by, recs) = Ended(w, Rcode("SERVFAIL"))
    BY <1>1 DEF Aliased
  <2>2. Ending(Rcode("SERVFAIL"), w.q.name)
    BY RcodeIs
  <2> QED BY <2>1, <2>2, EndedIs
<1>2. CASE ~(len >= MaxDepth \/ target \in w.seen \cup {w.q.name})
  <2>1. Aliased(w, by, recs) = v
    BY <1>2 DEF Aliased
  <2>2. DOMAIN w = WFields /\ DOMAIN w.q = QFields /\ DOMAIN w.first = QFields
    BY DEF Passed, Question, QFields
  <2>3. /\ DOMAIN v = WFields /\ v.first = w.first /\ v.end = "go" /\ v.seen = w.seen \cup {w.q.name}
        /\ v.chain = Append(w.chain, [by |-> by, recs |-> recs])
        /\ DOMAIN v.q = QFields /\ v.q.name = target /\ v.q.type = w.q.type
    BY <2>2 DEF WFields, QFields
  <2> HIDE DEF v
  <2>4. w.chain \in Seq(Range(w.chain)) /\ len \in Nat
    BY DEF Passed, Leading, IsSeq
  <2>5. /\ Len(v.chain) = len + 1 /\ v.chain \in Seq(Range(w.chain) \cup {[by |-> by, recs |-> recs]})
        /\ v.chain[len + 1].recs = recs
        /\ \A i \in 1 .. len : v.chain[i] = w.chain[i]
    BY <2>3, <2>4
  <2>6. IsSeq(v.chain)
    BY <2>5, SeqIs
  <2>7. \A i \in 1 .. len + 1 : i \in 1 .. len \/ i = len + 1
    BY <2>4
  <2>8. \A i \in 1 .. len + 1 : NameAt(v, i) = NameAt(w, i)
    <3>1. ASSUME NEW i \in 1 .. len PROVE NameAt(v, i) = NameAt(w, i)
      BY <2>4, <2>5 DEF NameAt
    <3>2. recs[1].name = w.q.name
      <4>1. recs \in Seq(Range(recs)) /\ recs # <<>>
        BY DEF AliasesOf, Named, IsSeq
      <4>2. 1 \in DOMAIN recs
        BY <4>1
      <4> QED BY <4>2 DEF AliasesOf, Named
    <3>3. NameAt(v, len + 1) = NameAt(w, len + 1)
      BY <2>4, <2>5, <3>2 DEF NameAt
    <3> QED BY <2>7, <3>1, <3>3
  <2>9. NameAt(v, len + 2) = target /\ NameAt(w, len + 1) = w.q.name
    BY <2>3, <2>4, <2>5 DEF NameAt
  <2>10. v.seen = {NameAt(v, i) : i \in 1 .. len + 1}
    <3>1. w.seen = {NameAt(v, i) : i \in 1 .. len}
      BY <2>4, <2>8 DEF Passed
    <3>2. w.q.name = NameAt(v, len + 1)
      BY <2>4, <2>8, <2>9
    <3> QED BY <2>3, <2>4, <2>7, <3>1, <3>2
  <2>11. \A i, j \in 1 .. len + 2 : NameAt(v, i) = NameAt(v, j) => i = j
    <3>1. \A i, j \in 1 .. len + 1 : NameAt(v, i) = NameAt(v, j) => i = j
      BY <2>8 DEF Passed, Leading
    <3>2. \A i \in 1 .. len + 1 : NameAt(v, i) # NameAt(v, len + 2)
      BY <1>2, <2>3, <2>9, <2>10
    <3>3. \A i \in 1 .. len + 2 : i \in 1 .. len + 1 \/ i = len + 2
      BY <2>4
    <3> QED BY <3>1, <3>2, <3>3
  <2>12. ASSUME NEW i \in 1 .. len + 1
         PROVE  AliasesOf(v.chain[i].recs, NameAt(v, i)) /\ v.chain[i].recs[1].val = NameAt(v, i + 1)
    <3>1. CASE i \in 1 .. len
      <4>1. AliasesOf(w.chain[i].recs, NameAt(w, i)) /\ w.chain[i].recs[1].val = NameAt(w, i + 1)
        BY <3>1 DEF Passed, Leading
      <4>2. i + 1 \in 1 .. len + 1
        BY <2>4, <3>1
      <4> QED BY <2>5, <2>8, <3>1, <4>1, <4>2
    <3>2. CASE i = len + 1
      BY <2>4, <2>5, <2>8, <2>9, <3>2
    <3> QED BY <2>7, <3>1, <3>2
  <2>13. Leading(v)
    <3>1. len + 1 <= MaxDepth
      BY <1>2, <2>4, ResolverAssumption
    <3>2. NameAt(v, 1) = v.first.name
      BY <2>3, <2>4, <2>8 DEF Passed, Leading
    <3> HIDE DEF len, target
    <3>3. (len + 1) + 1 = len + 2
      BY <2>4
    <3> QED BY <2>5, <2>6, <2>11, <2>12, <3>1, <3>2, <3>3 DEF Leading
  <2>14. Passed(v)
    <3> HIDE DEF len, target
    <3> QED BY <2>2, <2>3, <2>5, <2>10, <2>13 DEF Passed, Question, QFields
  <2> HIDE DEF len, target
  <2> QED BY <2>1, <2>3, <2>5, <2>14 DEF len
<1> QED BY <1>1, <1>2

\* Where a level leads to.
Onward(w, v) ==
  /\ Passed(v) /\ v.first = w.first
  /\ v.end = "go" => Len(v.chain) = Len(w.chain) + 1
  /\ v.end = "ask" => Foreign(v.q)

LEMMA FromPolicyIs ==
  ASSUME NEW w, Passed(w), w.end = "go", NEW r
  PROVE  Onward(w, FromPolicy(w, r))
<1> DEFINE rec == [name |-> w.q.name, type |-> r.act, val |-> r.value]
           v == FromPolicy(w, r)
<1>1. Named(<<rec>>, w.q.name) /\ <<rec>> # <<>> /\ \A i \in DOMAIN <<rec>> : <<rec>>[i] = rec
  <2>1. DOMAIN rec = Fields /\ rec.name = w.q.name
    BY DEF Fields
  <2> HIDE DEF rec
  <2>2. IsSeq(<<rec>>)
    BY SeqIs, <<rec>> \in Seq({rec})
  <2>3. DOMAIN <<rec>> = {1} /\ <<rec>>[1] = rec /\ <<rec>> # <<>>
    OBVIOUS
  <2> QED BY <2>1, <2>2, <2>3 DEF Named
<1>2. CASE r.act \in {"NXDOMAIN", "REFUSED"}
  <2>1. v = Ended(w, Rcode(r.act))
    BY <1>2 DEF FromPolicy
  <2>2. Ending(Rcode(r.act), w.q.name)
    BY RcodeIs
  <2> HIDE DEF v
  <2> QED BY <2>1, <2>2, EndedIs DEF Onward, v
<1>3. CASE r.act \notin {"NXDOMAIN", "REFUSED"} /\ r.act = "CNAME" /\ w.q.type \in Addresses
  <2>1. v = Aliased(w, "policy", <<rec>>)
    BY <1>3 DEF FromPolicy
  <2>2. AliasesOf(<<rec>>, w.q.name)
    BY <1>1, <1>3 DEF AliasesOf
  <2> HIDE DEF v, rec
  <2>3. Passed(v) /\ v.first = w.first /\ v.end \in {"go", "answer"} /\ (v.end = "go" => Len(v.chain) = Len(w.chain) + 1)
    BY <2>1, <2>2, AliasedIs
  <2> QED BY <2>3 DEF Onward, v
<1>4. CASE r.act \notin {"NXDOMAIN", "REFUSED"} /\ ~(r.act = "CNAME" /\ w.q.type \in Addresses)
  <2>1. v = Ended(w, Answer(<<rec>>, FALSE))
    BY <1>4 DEF FromPolicy
  <2>2. Ending(Answer(<<rec>>, FALSE), w.q.name)
    <3> HIDE DEF rec
    <3> QED BY <1>1 DEF Ending, Answer
  <2> HIDE DEF v
  <2> QED BY <2>1, <2>2, EndedIs DEF Onward, v
<1> QED BY <1>2, <1>3, <1>4

LEMMA FromRecordsIs ==
  ASSUME NEW w, Passed(w), w.end = "go", NEW resp, w.first.type \in Addresses => Ending(resp, w.q.name)
  PROVE  Onward(w, FromRecords(w, resp))
<1> DEFINE aliases == OfType(resp.recs, "CNAME")
           v == FromRecords(w, resp)
<1>1. w.q.type = w.first.type
  BY DEF Passed
<1>2. CASE w.q.type \in Addresses /\ aliases # <<>>
  <2>1. v = Aliased(w, "records", aliases)
    BY <1>2 DEF FromRecords
  <2>2. Named(resp.recs, w.q.name)
    BY <1>1, <1>2 DEF Ending
  <2>3. Named(aliases, w.q.name) /\ \A i \in DOMAIN aliases : aliases[i].type = "CNAME"
    BY <2>2, OfTypeIs, "CNAME" # "ANY"
  <2>4. AliasesOf(aliases, w.q.name)
    BY <1>2, <2>3 DEF AliasesOf
  <2> HIDE DEF v, aliases
  <2>5. Passed(v) /\ v.first = w.first /\ v.end \in {"go", "answer"} /\ (v.end = "go" => Len(v.chain) = Len(w.chain) + 1)
    BY <2>1, <2>4, AliasedIs
  <2> QED BY <2>5 DEF Onward, v
<1>3. CASE ~(w.q.type \in Addresses /\ aliases # <<>>)
  <2>1. v = Ended(w, resp)
    BY <1>3 DEF FromRecords
  <2> HIDE DEF v
  <2> QED BY <2>1, EndedIs DEF Onward, v
<1> QED BY <1>2, <1>3

LEMMA HopIs ==
  ASSUME Configuration(conf), NEW w, Passed(w), w.end = "go"
  PROVE  Onward(w, Hop(w))
<1> DEFINE i == Policy(conf, w.q, now)
           z == ZoneFor(conf, w.q.name)
           recs == Found(conf, w.q.name, w.q.type)
<1>1. ASSUME NEW code PROVE Onward(w, Ended(w, Rcode(code)))
  <2>1. Ending(Rcode(code), w.q.name)
    BY RcodeIs
  <2> QED BY <2>1, EndedIs DEF Onward
<1>2. Onward(w, FromPolicy(w, conf.rules[i]))
  BY FromPolicyIs
<1>3. ASSUME NEW e \in {"ask", "throws"}, e = "ask" => Foreign(w.q)
      PROVE  Onward(w, [w EXCEPT !.end = e])
  <2> DEFINE v == [w EXCEPT !.end = e]
  <2>1. Passed(v) /\ v.end = e /\ v.first = w.first /\ v.q = w.q
    BY LeftIs
  <2> HIDE DEF v
  <2>2. Onward(w, v)
    BY <1>3, <2>1 DEF Onward
  <2> QED BY <2>2 DEF v
<1>4. ASSUME i = 0 PROVE Onward(w, LocalData(w))
  <2>1. CASE w.q.type \notin ZoneTypes
    BY <1>3, <2>1 DEF LocalData
  <2>2. CASE w.q.type \in ZoneTypes /\ z # NoZone
    <3>1. w.first.type \in Addresses => Ending(FromZone(conf, w.q.name, w.q.type, z), w.q.name)
      <4> HIDE DEF z
      <4> QED BY FromZoneIs DEF Passed
    <3>2. LocalData(w) = FromRecords(w, FromZone(conf, w.q.name, w.q.type, z))
      BY <2>2 DEF LocalData
    <3> HIDE DEF z
    <3> QED BY <3>1, <3>2, FromRecordsIs
  <2>3. CASE w.q.type \in ZoneTypes /\ z = NoZone /\ recs # <<>>
    <3>1. Named(recs, w.q.name)
      BY FoundIs
    <3>2. Ending(Answer(recs, TRUE), w.q.name)
      <4> HIDE DEF recs
      <4> QED BY <3>1 DEF Ending, Answer
    <3>3. LocalData(w) = FromRecords(w, Answer(recs, TRUE))
      BY <2>3 DEF LocalData
    <3> HIDE DEF recs
    <3> QED BY <3>2, <3>3, FromRecordsIs
  <2>4. CASE w.q.type \in ZoneTypes /\ z = NoZone /\ recs = <<>>
    <3>1. Foreign(w.q)
      BY <1>4, <2>4 DEF Foreign
    <3>2. LocalData(w) = [w EXCEPT !.end = "ask"]
      BY <2>4 DEF LocalData
    <3> QED BY <1>3, <3>1, <3>2
  <2> QED BY <2>1, <2>2, <2>3, <2>4
<1>5. \/ \E code : Hop(w) = Ended(w, Rcode(code))
      \/ Hop(w) = FromPolicy(w, conf.rules[i])
      \/ i = 0 /\ Hop(w) = LocalData(w)
  BY DEF Hop
<1> HIDE DEF i
<1> QED BY <1>1, <1>2, <1>4, <1>5

LEMMA WalkIs ==
  ASSUME Configuration(conf), NEW q, Question(q)
  PROVE  /\ Passed(Walk(q)) /\ Walk(q).first = q /\ Walk(q).end \in {"answer", "ask", "throws"}
         /\ Walk(q).end = "ask" => Foreign(Walk(q).q)
<1> DEFINE N == MaxDepth + 1
           Step(h, n) == IF n = 0 THEN First(q) ELSE Hop(h[n - 1])
           f == CHOOSE h : h = [n \in 0 .. N |-> Step(h, n)]
           Done == {n \in 0 .. N : \E h : h = [i \in 0 .. n |-> Step(h, i)]}
           Good(w, n) == /\ Passed(w) /\ w.first = q /\ (w.end = "go" => Len(w.chain) = n)
                         /\ w.end = "ask" => Foreign(w.q)
           Right == {n \in 0 .. N : Good(f[n], n)}
<1>1. N \in Nat /\ MaxDepth \in Nat
  BY ResolverAssumption
<1>2. 0 \in Done
  <2> DEFINE h == [i \in 0 .. 0 |-> First(q)]
  <2>1. \A i \in 0 .. 0 : h[i] = Step(h, i)
    OBVIOUS
  <2>2. h = [i \in 0 .. 0 |-> Step(h, i)]
    <3> HIDE DEF Step
    <3> QED BY <2>1
  <2> HIDE DEF h, Step, N
  <2> QED BY <1>1, <2>2
<1>3. ASSUME NEW n \in 1 .. N, n - 1 \in Done PROVE n \in Done
  <2>1. PICK h : h = [i \in 0 .. n - 1 |-> Step(h, i)]
    BY <1>3
  <2> DEFINE g == [i \in 0 .. n |-> IF i = n THEN Step(h, n) ELSE h[i]]
  <2>2. ASSUME NEW i \in 0 .. n PROVE g[i] = Step(g, i)
    <3>1. i # 0 => g[i - 1] = h[i - 1]
      BY <1>1
    <3>2. CASE i = n
      BY <1>1, <3>1, <3>2
    <3>3. CASE i # n
      <4>1. i \in 0 .. n - 1
        BY <1>1, <3>3
      <4>2. h[i] = Step(h, i)
        <5> HIDE DEF Step
        <5> QED BY <2>1, <4>1
      <4> QED BY <3>1, <3>3, <4>2
    <3> QED BY <3>2, <3>3
  <2>3. g = [i \in 0 .. n |-> Step(g, i)]
    <3> HIDE DEF Step
    <3> QED BY <2>2
  <2> HIDE DEF g, Step, N
  <2> QED BY <1>1, <2>3
<1>4. N \in Done
  <2> HIDE DEF Done, N
  <2>1. \A i \in 0 .. N : i \in Done
    BY <1>1, <1>2, <1>3, Ascent
  <2> QED BY <1>1, <2>1
<1>5. f = [n \in 0 .. N |-> Step(f, n)]
  <2> HIDE DEF Step
  <2> QED BY <1>4
<1>6. Walk(q) = f[N]
  BY DEF Walk
<1> HIDE DEF f
<1>7. 0 \in Right
  <2>1. f[0] = First(q)
    BY <1>1, <1>5
  <2>2. Good(f[0], 0)
    BY <2>1, FirstIs
  <2> HIDE DEF Good, N
  <2> QED BY <1>1, <2>2
<1>8. ASSUME NEW n \in 1 .. N, n - 1 \in Right PROVE n \in Right
  <2>1. f[n] = Hop(f[n - 1])
    <3>1. n \in 0 .. N /\ n # 0
      BY <1>1
    <3>2. f[n] = Step(f, n)
      <4> HIDE DEF Step
      <4> QED BY <1>5, <3>1
    <3> QED BY <3>1, <3>2
  <2> DEFINE w == f[n - 1]
  <2>2. Good(w, n - 1)
    BY <1>8
  <2>3. CASE w.end = "go"
    <3>1. Onward(w, Hop(w))
      <4> HIDE DEF w
      <4> QED BY <2>2, <2>3, HopIs
    <3>2. Good(f[n], n)
      <4> HIDE DEF w
      <4>1. (n - 1) + 1 = n
        BY <1>1
      <4>2. f[n] = Hop(w)
        BY <2>1 DEF w
      <4> QED BY <2>2, <2>3, <3>1, <4>1, <4>2 DEF Onward
    <3> HIDE DEF Good
    <3> QED BY <3>2
  <2>4. CASE w.end # "go"
    <3>1. f[n] = w
      BY <2>1, <2>4 DEF Hop
    <3>2. Good(f[n], n)
      <4> HIDE DEF w
      <4> QED BY <2>2, <2>4, <3>1
    <3> HIDE DEF Good
    <3> QED BY <3>2
  <2> QED BY <2>3, <2>4
<1>9. Good(f[N], N)
  <2> HIDE DEF Right, N
  <2>1. \A i \in 0 .. N : i \in Right
    BY <1>1, <1>7, <1>8, Ascent
  <2>2. N \in Right
    BY <1>1, <2>1
  <2> QED BY <2>2 DEF Right
<1>10. f[N].end # "go"
  BY <1>1, <1>9 DEF Passed, Leading
<1> QED BY <1>6, <1>9, <1>10 DEF Passed

----------------------------------------------------------------------------
(* The records of an answer.                                                  *)

\* The first record of the name of record i.
Earliest(recs, i, j) == recs[j].name = recs[i].name /\ \A k \in 1 .. j - 1 : recs[k].name # recs[j].name

\* Records whose names are in S, from n on along the aliases.
LeadsOn(recs, n, S) ==
  /\ IsSeq(recs) /\ \A i \in DOMAIN recs : recs[i].name \in S
  /\ recs # <<>> => recs[1].name = n
  /\ \A i \in 1 .. Len(recs) - 1 : recs[i + 1].name # recs[i].name =>
       \E j \in 1 .. i : Earliest(recs, i, j) /\ recs[j].type = "CNAME" /\ recs[j].val = recs[i + 1].name
  /\ \A i, j \in DOMAIN recs : recs[i].name = recs[j].name => \A k \in i .. j : recs[k].name = recs[i].name

LEMMA NamedLeads ==
  ASSUME NEW recs, NEW n, Named(recs, n)
  PROVE  LeadsOn(recs, n, {n})
<1>1. recs \in Seq(Range(recs)) /\ Len(recs) \in Nat /\ DOMAIN recs = 1 .. Len(recs)
  BY DEF Named, IsSeq
<1>2. \A i \in 1 .. Len(recs) : recs[i].name = n
  BY <1>1 DEF Named
<1>3. recs # <<>> => 1 \in 1 .. Len(recs)
  BY <1>1
<1>4. \A i \in 1 .. Len(recs) - 1 : recs[i + 1].name = recs[i].name
  BY <1>1, <1>2
<1>5. \A i, j \in DOMAIN recs : \A k \in i .. j : k \in 1 .. Len(recs)
  BY <1>1
<1> QED BY <1>1, <1>2, <1>3, <1>4, <1>5 DEF LeadsOn, Named

\* The aliases of n in front of what leads on from the target of the first.
LEMMA AliasLeads ==
  ASSUME NEW a, NEW n, AliasesOf(a, n), NEW b, NEW S, LeadsOn(b, a[1].val, S), n \notin S
  PROVE  LeadsOn(a \o b, n, S \cup {n})
<1> DEFINE recs == a \o b
           la == Len(a)
           lb == Len(b)
<1>1. a \in Seq(Range(a)) /\ b \in Seq(Range(b)) /\ la \in Nat \ {0} /\ lb \in Nat /\ DOMAIN a = 1 .. la /\ DOMAIN b = 1 .. lb
  BY DEF AliasesOf, Named, IsSeq, LeadsOn
<1>2. recs \in Seq(Range(a) \cup Range(b))
  BY <1>1
<1>3. Len(recs) = la + lb /\ (\A i \in 1 .. la : recs[i] = a[i]) /\ \A i \in la + 1 .. la + lb : recs[i] = b[i - la]
  BY <1>1
<1>4. IsSeq(recs)
  <2> HIDE DEF recs
  <2> QED BY <1>2, SeqIs
<1> HIDE DEF recs, la, lb
<1>5. DOMAIN recs = 1 .. la + lb /\ recs # <<>>
  <2>1. DOMAIN recs = 1 .. Len(recs)
    BY <1>4, SeqRange
  <2>2. Len(recs) # 0 /\ Len(<<>>) = 0
    BY <1>1, <1>3
  <2> QED BY <1>3, <2>1, <2>2
<1>6. \A i \in 1 .. la : recs[i].name = n /\ recs[i].type = "CNAME"
  BY <1>1, <1>3 DEF AliasesOf, Named
<1>7. \A i \in la + 1 .. la + lb : i - la \in 1 .. lb /\ recs[i] = b[i - la] /\ recs[i].name \in S /\ recs[i].name # n
  <2>1. \A j \in 1 .. lb : b[j].name \in S /\ b[j].name # n
    BY <1>1 DEF LeadsOn
  <2>2. ASSUME NEW i \in la + 1 .. la + lb PROVE i - la \in 1 .. lb /\ recs[i] = b[i - la]
    BY <1>1, <1>3
  <2> QED BY <2>1, <2>2
<1>8. \A i \in 1 .. la + lb : i \in 1 .. la \/ i \in la + 1 .. la + lb
  BY <1>1
<1>9. \A i \in DOMAIN recs : recs[i].name \in S \cup {n}
  BY <1>5, <1>6, <1>7, <1>8
<1>10. recs[1].name = n
  BY <1>1, <1>6
<1>11. ASSUME NEW i \in 1 .. Len(recs) - 1, recs[i + 1].name # recs[i].name
       PROVE  \E j \in 1 .. i : Earliest(recs, i, j) /\ recs[j].type = "CNAME" /\ recs[j].val = recs[i + 1].name
  <2>1. i \in 1 .. la + lb /\ i + 1 \in 1 .. la + lb /\ i \in Nat
    BY <1>1, <1>3
  <2>2. CASE i + 1 \in 1 .. la
    BY <1>1, <1>6, <1>11, <2>1, <2>2
  <2>3. CASE i = la
    <3>1. i + 1 \in la + 1 .. la + lb /\ (i + 1) - la = 1
      BY <1>1, <2>1, <2>3
    <3>2. recs[i + 1] = b[1] /\ b # <<>>
      BY <1>1, <1>7, <3>1
    <3>3. recs[1].val = recs[i + 1].name
      BY <1>1, <1>3, <3>2 DEF LeadsOn
    <3>4. Earliest(recs, i, 1)
      BY <1>1, <1>6, <2>3 DEF Earliest
    <3> QED BY <1>1, <1>6, <2>1, <3>3, <3>4
  <2>4. CASE i \in la + 1 .. la + lb
    <3> DEFINE p == i - la
    <3>1. p \in 1 .. lb - 1 /\ (i + 1) - la = p + 1 /\ i + 1 \in la + 1 .. la + lb
      BY <1>1, <2>1, <2>4
    <3>2. recs[i] = b[p] /\ recs[i + 1] = b[p + 1]
      BY <1>7, <2>4, <3>1
    <3>3. PICK j \in 1 .. p : Earliest(b, p, j) /\ b[j].type = "CNAME" /\ b[j].val = b[p + 1].name
      BY <1>1, <1>11, <3>1, <3>2 DEF LeadsOn, lb
    <3>4. j + la \in 1 .. i /\ j + la \in la + 1 .. la + lb /\ (j + la) - la = j
      BY <1>1, <2>1, <3>1
    <3>5. recs[j + la] = b[j]
      BY <1>7, <3>4
    <3>6. Earliest(recs, i, j + la)
      <4>1. ASSUME NEW k \in 1 .. j + la - 1 PROVE recs[k].name # recs[j + la].name
        <5>1. CASE k \in 1 .. la
          BY <1>6, <1>7, <3>4, <5>1
        <5>2. CASE k \in la + 1 .. la + lb
          <6>1. k - la \in 1 .. j - 1
            BY <1>1, <3>1, <5>2
          <6> QED BY <1>7, <3>3, <3>5, <5>2, <6>1 DEF Earliest
        <5> QED BY <1>1, <3>4, <5>1, <5>2
      <4>2. recs[j + la].name = recs[i].name
        <5> HIDE DEF p
        <5> QED BY <3>2, <3>3, <3>5 DEF Earliest
      <4>3. la \in Nat /\ j \in Nat
        BY <1>1, <3>1
      <4> HIDE DEF p
      <4> QED BY <4>1, <4>2, <4>3 DEF Earliest
    <3> QED BY <3>2, <3>3, <3>4, <3>5, <3>6
  <2> QED BY <1>1, <2>1, <2>2, <2>3, <2>4
<1>12. ASSUME NEW i \in DOMAIN recs, NEW j \in DOMAIN recs, recs[i].name = recs[j].name, NEW k \in i .. j
       PROVE  recs[k].name = recs[i].name
  <2>1. CASE i \in 1 .. la
    <3>1. j \in 1 .. la
      BY <1>5, <1>6, <1>7, <1>8, <1>12, <2>1
    <3>2. k \in 1 .. la
      BY <1>1, <2>1, <3>1
    <3> QED BY <1>6, <2>1, <3>2
  <2>2. CASE i \in la + 1 .. la + lb
    <3>1. j \in la + 1 .. la + lb
      BY <1>5, <1>6, <1>7, <1>8, <1>12, <2>2
    <3>2. k \in la + 1 .. la + lb /\ k - la \in i - la .. j - la
      BY <1>1, <2>2, <3>1
    <3>3. \A x \in i - la .. j - la : b[x].name = b[i - la].name
      <4>1. i - la \in DOMAIN b /\ j - la \in DOMAIN b /\ b[i - la].name = b[j - la].name
        BY <1>1, <1>7, <1>12, <2>2, <3>1
      <4> DEFINE p == i - la
                 q == j - la
      <4> HIDE DEF p, q
      <4>2. p \in DOMAIN b /\ q \in DOMAIN b /\ b[p].name = b[q].name
        BY <4>1 DEF p, q
      <4>3. \A x \in p .. q : b[x].name = b[p].name
        BY <4>2 DEF LeadsOn
      <4> QED BY <4>3 DEF p, q
    <3> QED BY <1>7, <2>2, <3>2, <3>3
  <2>3. i \in 1 .. la + lb
    BY <1>5
  <2>4. i \in 1 .. la \/ i \in la + 1 .. la + lb
    BY <1>8, <2>3
  <2> QED BY <2>1, <2>2, <2>4
<1>13. LeadsOn(recs, n, S \cup {n})
  BY <1>4, <1>9, <1>10, <1>11, <1>12 DEF LeadsOn
<1> QED BY <1>13 DEF recs

LEMMA NoneLead == \A n, S : LeadsOn(<<>>, n, S)
<1>1. IsSeq(<<>>) /\ DOMAIN <<>> = {} /\ Len(<<>>) = 0
  BY <<>> \in Seq(Range(<<>>)) DEF IsSeq
<1> QED BY <1>1 DEF LeadsOn

\* An answer along the aliases; a failure has no records.
AnswerLeads(resp, n, S) == LeadsOn(resp.recs, n, S) /\ (resp.rcode = "SERVFAIL" => resp.recs = <<>>)

LEMMA WrapLeads ==
  ASSUME NEW level, NEW n, AliasesOf(level.recs, n), NEW S, n \notin S,
         NEW resp, AnswerLeads(resp, level.recs[1].val, S)
  PROVE  AnswerLeads(Wrap(level, resp), n, S \cup {n})
<1>1. ASSUME NEW code PROVE AnswerLeads(Rcode(code), n, S \cup {n})
  BY NoneLead DEF AnswerLeads, Rcode
<1>2. LeadsOn(level.recs \o resp.recs, n, S \cup {n})
  BY AliasLeads DEF AnswerLeads
<1>3. CASE level.by = "policy" /\ resp.rcode # "NOERROR"
  BY <1>1, <1>3 DEF Wrap
<1>4. CASE ~(level.by = "policy" /\ resp.rcode # "NOERROR") /\ resp.rcode = "SERVFAIL"
  BY <1>1, <1>4 DEF Wrap
<1>5. CASE ~(level.by = "policy" /\ resp.rcode # "NOERROR") /\ resp.rcode # "SERVFAIL"
  <2>1. Wrap(level, resp) = [rcode |-> resp.rcode, recs |-> level.recs \o resp.recs, aa |-> level.by = "records"]
    BY <1>5 DEF Wrap
  <2> QED BY <1>2, <1>5, <2>1 DEF AnswerLeads
<1> QED BY <1>3, <1>4, <1>5

\* The names of the levels from k on.
NamesFrom(w, k) == {NameAt(w, i) : i \in k .. Len(w.chain) + 1}

\* The levels of Wrapped, one by one.
Levels(chain, resp, f) ==
  /\ f[0] = resp /\ Wrapped(chain, resp) = f[Len(chain)]
  /\ \A n \in 1 .. Len(chain) : f[n] = Wrap(chain[Len(chain) + 1 - n], f[n - 1])

LEMMA WrappedIs ==
  ASSUME NEW chain, Len(chain) \in Nat, NEW resp
  PROVE  \E f : Levels(chain, resp, f)
<1> DEFINE N == Len(chain)
           Step(h, n) == IF n = 0 THEN resp ELSE Wrap(chain[N + 1 - n], h[n - 1])
           f == CHOOSE h : h = [n \in 0 .. N |-> Step(h, n)]
           Done == {n \in 0 .. N : \E h : h = [i \in 0 .. n |-> Step(h, i)]}
<1>1. N \in Nat
  OBVIOUS
<1>2. 0 \in Done
  <2> DEFINE h == [i \in 0 .. 0 |-> resp]
  <2>1. \A i \in 0 .. 0 : h[i] = Step(h, i)
    OBVIOUS
  <2>2. h = [i \in 0 .. 0 |-> Step(h, i)]
    <3> HIDE DEF Step
    <3> QED BY <2>1
  <2> HIDE DEF h, Step, N
  <2> QED BY <1>1, <2>2
<1>3. ASSUME NEW n \in 1 .. N, n - 1 \in Done PROVE n \in Done
  <2>1. PICK h : h = [i \in 0 .. n - 1 |-> Step(h, i)]
    BY <1>3
  <2> DEFINE g == [i \in 0 .. n |-> IF i = n THEN Step(h, n) ELSE h[i]]
  <2>2. ASSUME NEW i \in 0 .. n PROVE g[i] = Step(g, i)
    <3>1. i # 0 => g[i - 1] = h[i - 1]
      BY <1>1
    <3>2. CASE i = n
      BY <1>1, <3>1, <3>2
    <3>3. CASE i # n
      <4>1. i \in 0 .. n - 1
        BY <1>1, <3>3
      <4>2. h[i] = Step(h, i)
        <5> HIDE DEF Step
        <5> QED BY <2>1, <4>1
      <4> QED BY <3>1, <3>3, <4>2
    <3> QED BY <3>2, <3>3
  <2>3. g = [i \in 0 .. n |-> Step(g, i)]
    <3> HIDE DEF Step
    <3> QED BY <2>2
  <2> HIDE DEF g, Step, N
  <2> QED BY <1>1, <2>3
<1>4. N \in Done
  <2> HIDE DEF Done, N
  <2>1. \A i \in 0 .. N : i \in Done
    BY <1>1, <1>2, <1>3, Ascent
  <2> QED BY <1>1, <2>1
<1>5. f = [n \in 0 .. N |-> Step(f, n)]
  <2> HIDE DEF Step
  <2> QED BY <1>4
<1>6. Wrapped(chain, resp) = f[N]
  BY DEF Wrapped
<1> HIDE DEF f
<1>7. f[0] = resp
  BY <1>1, <1>5
<1>8. ASSUME NEW n \in 1 .. N PROVE f[n] = Wrap(chain[N + 1 - n], f[n - 1])
  <2>1. n \in 0 .. N /\ n # 0
    BY <1>1
  <2>2. f[n] = Step(f, n)
    <3> HIDE DEF Step
    <3> QED BY <1>5, <2>1
  <2> QED BY <2>1, <2>2
<1>9. Levels(chain, resp, f)
  BY <1>6, <1>7, <1>8 DEF Levels
<1> QED BY <1>9

LEMMA WrappedLeads ==
  ASSUME NEW w, Passed(w), NEW resp, Ending(resp, w.q.name)
  PROVE  AnswerLeads(Wrapped(w.chain, resp), w.first.name, NamesFrom(w, 1))
<1> DEFINE N == Len(w.chain)
<1>1. N \in Nat
  BY DEF Passed, Leading, IsSeq
<1>2. PICK f : Levels(w.chain, resp, f)
  BY <1>1, WrappedIs
<1> DEFINE Good(r, n) == AnswerLeads(r, NameAt(w, N + 1 - n), NamesFrom(w, N + 1 - n))
           Right == {n \in 0 .. N : Good(f[n], n)}
<1>6. Wrapped(w.chain, resp) = f[N]
  BY <1>2 DEF Levels
<1>7. 0 \in Right
  <2>1. f[0] = resp
    BY <1>2 DEF Levels
  <2>2. NameAt(w, N + 1) = w.q.name /\ N + 1 - 0 = N + 1
    BY <1>1 DEF NameAt
  <2>3. NamesFrom(w, N + 1) = {w.q.name}
    <3>1. N + 1 .. N + 1 = {N + 1}
      BY <1>1
    <3> QED BY <2>2, <3>1 DEF NamesFrom
  <2>4. LeadsOn(resp.recs, w.q.name, {w.q.name})
    BY NamedLeads DEF Ending
  <2>5. Good(f[0], 0)
    BY <2>1, <2>2, <2>3, <2>4 DEF AnswerLeads, Ending
  <2> HIDE DEF Good, N
  <2> QED BY <1>1, <2>5
<1>8. ASSUME NEW n \in 1 .. N, n - 1 \in Right PROVE n \in Right
  <2> DEFINE p == N + 1 - n
             level == w.chain[p]
             r == f[n - 1]
             S == NamesFrom(w, p + 1)
  <2>1. p \in 1 .. N /\ N + 1 - (n - 1) = p + 1
    BY <1>1
  <2>2. f[n] = Wrap(level, r)
    BY <1>2 DEF Levels
  <2>3. AnswerLeads(r, NameAt(w, p + 1), S)
    <3>1. Good(r, n - 1)
      BY <1>8
    <3> QED BY <2>1, <3>1
  <2>4. AliasesOf(level.recs, NameAt(w, p)) /\ level.recs[1].val = NameAt(w, p + 1)
    BY <2>1 DEF Passed, Leading
  <2>5. NameAt(w, p) \notin S
    <3> SUFFICES ASSUME NEW i \in p + 1 .. N + 1, NameAt(w, i) = NameAt(w, p) PROVE FALSE
      BY DEF NamesFrom
    <3>1. i \in 1 .. N + 1 /\ p \in 1 .. N + 1 /\ i # p
      BY <1>1, <2>1
    <3> HIDE DEF p
    <3> QED BY <3>1 DEF Passed, Leading
  <2>6. NamesFrom(w, p) = S \cup {NameAt(w, p)}
    <3>1. \A i : i \in p .. N + 1 <=> i \in p + 1 .. N + 1 \/ i = p
      BY <1>1, <2>1
    <3> HIDE DEF p
    <3> QED BY <3>1 DEF NamesFrom
  <2>7. Good(f[n], n)
    <3> HIDE DEF level, r, S, p
    <3>1. AnswerLeads(Wrap(level, r), NameAt(w, p), S \cup {NameAt(w, p)})
      BY <2>3, <2>4, <2>5, WrapLeads
    <3>2. AnswerLeads(f[n], NameAt(w, p), NamesFrom(w, p))
      BY <2>2, <2>6, <3>1
    <3> QED BY <3>2 DEF p
  <2> HIDE DEF Good
  <2> QED BY <1>1, <2>7
<1>9. Good(f[N], N)
  <2> HIDE DEF Right, N
  <2>1. \A i \in 0 .. N : i \in Right
    BY <1>1, <1>7, <1>8, Ascent
  <2>2. N \in Right
    BY <1>1, <2>1
  <2> QED BY <2>2 DEF Right
<1>10. N + 1 - N = 1 /\ NameAt(w, 1) = w.first.name
  BY <1>1 DEF Passed, Leading
<1> QED BY <1>6, <1>9, <1>10

\* What AliasesLead says of an answer with local records only, and of one that
\* hands on what an upstream, asked for a name, answered.
LeadsRight(q, resp) ==
  q.type \in Addresses => Leads(q, resp.recs) /\ (resp.rcode = "SERVFAIL" => resp.recs = <<>>)
Mark(asked) == [name |-> asked.name, type |-> "upstream", val |-> "upstream"]
HandsOn(q, asked, recs, section) ==
  \E n \in 0 .. Len(recs) : LET own == SubSeq(recs, 1, n) IN
     recs = own \o section /\ Leads(q, Append(own, Mark(asked)))
SectionRight(q, asked, raw, resp) ==
  q.type \in Addresses =>
    IF resp.rcode = "SERVFAIL" THEN resp.recs \in {<<>>, raw.recs}
    ELSE \/ resp.rcode # "NOERROR" /\ Leads(q, resp.recs)
         \/ HandsOn(q, asked, resp.recs, raw.recs)

LEMMA AnswersLead ==
  ASSUME NEW w, Passed(w), NEW resp, w.first.type \in Addresses => Ending(resp, w.q.name)
  PROVE  LeadsRight(w.first, Wrapped(w.chain, resp))
<1> SUFFICES ASSUME w.first.type \in Addresses PROVE LeadsRight(w.first, Wrapped(w.chain, resp))
  BY DEF LeadsRight
<1> DEFINE a == Wrapped(w.chain, resp)
           recs == a.recs
           names == {recs[i].name : i \in DOMAIN recs}
           levels == 1 .. Len(w.chain) + 1
<1>1. AnswerLeads(a, w.first.name, NamesFrom(w, 1))
  BY WrappedLeads
<1> HIDE DEF a
<1>2. LeadsOn(recs, w.first.name, NamesFrom(w, 1)) /\ (a.rcode = "SERVFAIL" => recs = <<>>)
  BY <1>1 DEF AnswerLeads
<1>3. Cardinality(names) <= MaxDepth + 1
  <2>1. Len(w.chain) \in Nat /\ Len(w.chain) <= MaxDepth /\ MaxDepth \in Nat
    BY ResolverAssumption DEF Passed, Leading, IsSeq
  <2>2. IsFiniteSet(levels) /\ Cardinality(levels) = Len(w.chain) + 1
    <3>1. 1 \in Int /\ Len(w.chain) + 1 \in Int /\ ~(1 > Len(w.chain) + 1) /\ (Len(w.chain) + 1) - 1 + 1 = Len(w.chain) + 1
      BY <2>1
    <3>2. \A a1, b1 \in Int : IsFiniteSet(a1 .. b1) /\ Cardinality(a1 .. b1) = IF a1 > b1 THEN 0 ELSE b1 - a1 + 1
      BY FS_Interval
    <3> QED BY <3>1, <3>2
  <2> DEFINE named == [i \in levels |-> NameAt(w, i)]
  <2>3. {NameAt(w, i) : i \in levels} = NamesFrom(w, 1)
    BY DEF NamesFrom
  <2>4. IsFiniteSet(NamesFrom(w, 1)) /\ Cardinality(NamesFrom(w, 1)) <= Cardinality(levels)
    <3>1. named \in Surjection(levels, NamesFrom(w, 1))
      BY <2>3 DEF Surjection
    <3> HIDE DEF named, levels
    <3> QED BY <2>2, <3>1, FS_Surjection
  <2>5. names \subseteq NamesFrom(w, 1)
    BY <1>2 DEF LeadsOn
  <2>6. Cardinality(names) <= Cardinality(NamesFrom(w, 1)) /\ IsFiniteSet(names)
    <3> HIDE DEF names
    <3> QED BY <2>4, <2>5, FS_Subset
  <2>7. Cardinality(names) \in Nat /\ Cardinality(NamesFrom(w, 1)) \in Nat
    <3> HIDE DEF names
    <3> QED BY <2>4, <2>6, FS_CardinalityType
  <2> HIDE DEF names, levels
  <2> QED BY <2>1, <2>2, <2>4, <2>6, <2>7
<1> HIDE DEF recs, names
<1>4. LeadsRight(w.first, a)
  BY <1>2, <1>3 DEF LeadsRight, Leads, LeadsOn, Earliest, recs, names
<1> QED BY <1>4 DEF a

\* The records of an answer, r, and what they would be, b, with the mark in
\* place of the upstream's section.
Marked(r, b, section, mark) ==
  \E own : IsSeq(own) /\ r = own \o section /\ b = Append(own, mark)

LEMMA Wider == ASSUME NEW A, NEW B, A \subseteq B, NEW s \in Seq(A) PROVE s \in Seq(B)
OBVIOUS

LEMMA MarkedFurther ==
  ASSUME NEW r, NEW b, NEW section, IsSeq(section), NEW mark, Marked(r, b, section, mark), NEW a, IsSeq(a)
  PROVE  Marked(a \o r, a \o b, section, mark)
<1>1. PICK own : IsSeq(own) /\ r = own \o section /\ b = Append(own, mark)
  BY DEF Marked
<1> DEFINE S == Range(own) \cup Range(section) \cup Range(a) \cup {mark}
           longer == a \o own
<1>2. own \in Seq(S) /\ section \in Seq(S) /\ a \in Seq(S) /\ mark \in S /\ <<mark>> \in Seq(S)
  <2>1. own \in Seq(Range(own)) /\ section \in Seq(Range(section)) /\ a \in Seq(Range(a))
    BY <1>1 DEF IsSeq
  <2>2. Range(own) \subseteq S /\ Range(section) \subseteq S /\ Range(a) \subseteq S /\ mark \in S
    OBVIOUS
  <2> HIDE DEF S
  <2>3. own \in Seq(S) /\ section \in Seq(S) /\ a \in Seq(S)
    BY <2>1, <2>2, Wider
  <2> QED BY <2>2, <2>3
<1> HIDE DEF S
<1>3. longer \in Seq(S)
  BY <1>2, ConcatProperties
<1>4. a \o r = longer \o section
  <2>1. (a \o own) \o section = a \o (own \o section)
    BY <1>2, ConcatAssociative
  <2> QED BY <1>1, <2>1
<1>5. a \o b = longer \o <<mark>>
  <2>1. b = own \o <<mark>>
    BY <1>1, <1>2, AppendIsConcat
  <2>2. (a \o own) \o <<mark>> = a \o (own \o <<mark>>)
    BY <1>2, ConcatAssociative
  <2> QED BY <2>1, <2>2
<1> HIDE DEF longer
<1>6. longer \o <<mark>> = Append(longer, mark)
  BY <1>2, <1>3, AppendIsConcat
<1>7. IsSeq(longer)
  BY <1>3, SeqIs
<1> QED BY <1>4, <1>5, <1>6, <1>7 DEF Marked

\* A response of an upstream, and the same with the mark for its records.
Masked(resp, mark) ==
  [rcode |-> resp.rcode, aa |-> FALSE, recs |-> IF resp.rcode = "SERVFAIL" THEN <<>> ELSE <<mark>>]
Alike(r, b, resp, mark) ==
  /\ r.rcode = resp.rcode /\ b.rcode = resp.rcode
  /\ resp.rcode = "SERVFAIL" => r.recs \in {<<>>, resp.recs}
  /\ resp.rcode # "SERVFAIL" =>
       Marked(r.recs, b.recs, resp.recs, mark) \/ (resp.rcode # "NOERROR" /\ r.recs = b.recs)

LEMMA WrapAlike ==
  ASSUME NEW resp, IsSeq(resp.recs), NEW mark, NEW r, NEW b, Alike(r, b, resp, mark), NEW level, IsSeq(level.recs)
  PROVE  Alike(Wrap(level, r), Wrap(level, b), resp, mark)
<1>1. r.rcode = resp.rcode /\ b.rcode = resp.rcode
  BY DEF Alike
<1>2. CASE level.by = "policy" /\ resp.rcode # "NOERROR"
  <2>1. Wrap(level, r) = Rcode(resp.rcode) /\ Wrap(level, b) = Rcode(resp.rcode)
    BY <1>1, <1>2 DEF Wrap
  <2> QED BY <1>2, <2>1 DEF Alike, Rcode
<1>3. CASE ~(level.by = "policy" /\ resp.rcode # "NOERROR") /\ resp.rcode = "SERVFAIL"
  <2>1. Wrap(level, r) = Rcode("SERVFAIL") /\ Wrap(level, b) = Rcode("SERVFAIL")
    BY <1>1, <1>3 DEF Wrap
  <2> QED BY <1>3, <2>1 DEF Alike, Rcode
<1>4. CASE ~(level.by = "policy" /\ resp.rcode # "NOERROR") /\ resp.rcode # "SERVFAIL"
  <2> DEFINE rr == Wrap(level, r)
             bb == Wrap(level, b)
  <2>1. /\ rr = [rcode |-> resp.rcode, recs |-> level.recs \o r.recs, aa |-> level.by = "records"]
        /\ bb = [rcode |-> resp.rcode, recs |-> level.recs \o b.recs, aa |-> level.by = "records"]
    BY <1>1, <1>4 DEF Wrap
  <2> HIDE DEF rr, bb
  <2>2. rr.rcode = resp.rcode /\ bb.rcode = resp.rcode /\ rr.recs = level.recs \o r.recs /\ bb.recs = level.recs \o b.recs
    <3>1. rr.rcode = resp.rcode /\ rr.recs = level.recs \o r.recs
      BY <2>1
    <3>2. bb.rcode = resp.rcode /\ bb.recs = level.recs \o b.recs
      BY <2>1
    <3> QED BY <3>1, <3>2
  <2>3. Marked(r.recs, b.recs, resp.recs, mark) \/ (resp.rcode # "NOERROR" /\ r.recs = b.recs)
    BY <1>4 DEF Alike
  <2>4. Marked(rr.recs, bb.recs, resp.recs, mark) \/ (resp.rcode # "NOERROR" /\ rr.recs = bb.recs)
    BY <2>2, <2>3, MarkedFurther
  <2>5. Alike(rr, bb, resp, mark)
    BY <1>4, <2>2, <2>4 DEF Alike
  <2> QED BY <2>5 DEF rr, bb
<1> QED BY <1>2, <1>3, <1>4

LEMMA WrappedAlike ==
  ASSUME NEW w, Passed(w), NEW resp, IsSeq(resp.recs), NEW mark
  PROVE  Alike(Wrapped(w.chain, resp), Wrapped(w.chain, Masked(resp, mark)), resp, mark)
<1> DEFINE N == Len(w.chain)
           m == Masked(resp, mark)
<1>1. N \in Nat
  BY DEF Passed, Leading, IsSeq
<1>2. PICK f : Levels(w.chain, resp, f)
  BY <1>1, WrappedIs
<1>3. PICK g : Levels(w.chain, m, g)
  BY <1>1, WrappedIs
<1>4. Alike(resp, m, resp, mark)
  <2>1. m.rcode = resp.rcode /\ (resp.rcode # "SERVFAIL" => m.recs = <<mark>>)
    BY DEF Masked
  <2>2. IsSeq(<<>>) /\ resp.recs = <<>> \o resp.recs /\ <<mark>> = Append(<<>>, mark)
    <3>1. resp.recs \in Seq(Range(resp.recs)) /\ <<>> \in Seq({})
      BY DEF IsSeq
    <3>2. IsSeq(<<>>)
      BY <3>1, SeqIs
    <3>3. resp.recs = <<>> \o resp.recs
      BY <3>1, ConcatEmptySeq
    <3> QED BY <3>2, <3>3
  <2>3. Marked(resp.recs, <<mark>>, resp.recs, mark)
    BY <2>2 DEF Marked
  <2> HIDE DEF m
  <2> QED BY <2>1, <2>3 DEF Alike
<1> HIDE DEF m
<1> DEFINE Right == {n \in 0 .. N : Alike(f[n], g[n], resp, mark)}
<1>5. 0 \in Right
  BY <1>1, <1>2, <1>3, <1>4 DEF Levels
<1>6. ASSUME NEW n \in 1 .. N, n - 1 \in Right PROVE n \in Right
  <2> DEFINE level == w.chain[N + 1 - n]
  <2>1. N + 1 - n \in 1 .. N
    BY <1>1
  <2>2. IsSeq(level.recs)
    BY <2>1 DEF Passed, Leading, AliasesOf, Named
  <2>3. f[n] = Wrap(level, f[n - 1]) /\ g[n] = Wrap(level, g[n - 1])
    BY <1>2, <1>3 DEF Levels
  <2> HIDE DEF level
  <2>4. Alike(f[n], g[n], resp, mark)
    BY <1>6, <2>2, <2>3, WrapAlike
  <2>5. n \in 0 .. N
    BY <1>1
  <2> QED BY <2>4, <2>5
<1>7. N \in Right
  <2> HIDE DEF Right, N
  <2>1. \A i \in 0 .. N : i \in Right
    BY <1>1, <1>5, <1>6, Ascent
  <2> QED BY <1>1, <2>1
<1>8. Wrapped(w.chain, resp) = f[N] /\ Wrapped(w.chain, m) = g[N]
  BY <1>2, <1>3 DEF Levels
<1> QED BY <1>7, <1>8 DEF m

\* What an upstream answered goes on behind the aliases that led to it.
LEMMA SectionLeads ==
  ASSUME NEW w, Passed(w), NEW resp, IsSeq(resp.recs)
  PROVE  SectionRight(w.first, w.q, resp, Wrapped(w.chain, resp))
<1> SUFFICES ASSUME w.first.type \in Addresses PROVE SectionRight(w.first, w.q, resp, Wrapped(w.chain, resp))
  BY DEF SectionRight
<1> DEFINE mark == Mark(w.q)
           m == Masked(resp, mark)
           r == Wrapped(w.chain, resp)
           b == Wrapped(w.chain, m)
<1>1. Ending(m, w.q.name)
  <2>1. Named(<<mark>>, w.q.name)
    <3>1. DOMAIN mark = Fields /\ mark.name = w.q.name
      BY DEF Fields, Mark
    <3> HIDE DEF mark
    <3>2. IsSeq(<<mark>>)
      BY SeqIs, <<mark>> \in Seq({mark})
    <3>3. DOMAIN <<mark>> = {1} /\ <<mark>>[1] = mark
      OBVIOUS
    <3> QED BY <3>1, <3>2, <3>3 DEF Named
  <2> HIDE DEF mark
  <2>2. m.rcode = resp.rcode /\ m.recs = IF resp.rcode = "SERVFAIL" THEN <<>> ELSE <<mark>>
    BY DEF Masked
  <2> HIDE DEF m
  <2> QED BY <2>1, <2>2, NoneNamed DEF Ending
<1>2. LeadsRight(w.first, b)
  BY <1>1, AnswersLead
<1>3. Alike(r, b, resp, mark)
  BY WrappedAlike
<1> HIDE DEF r, b, m, mark
<1>4. r.rcode = resp.rcode /\ Leads(w.first, b.recs)
  BY <1>2, <1>3 DEF LeadsRight, Alike
<1>5. CASE resp.rcode = "SERVFAIL"
  BY <1>3, <1>4, <1>5 DEF SectionRight, Alike, r
<1>6. CASE resp.rcode # "SERVFAIL" /\ Marked(r.recs, b.recs, resp.recs, mark)
  <2>1. PICK own : IsSeq(own) /\ r.recs = own \o resp.recs /\ b.recs = Append(own, mark)
    BY <1>6 DEF Marked
  <2> DEFINE S == Range(own) \cup Range(resp.recs)
             n == Len(own)
  <2>2. own \in Seq(S) /\ resp.recs \in Seq(S) /\ n \in Nat /\ Len(resp.recs) \in Nat
    <3>1. own \in Seq(Range(own)) /\ resp.recs \in Seq(Range(resp.recs))
      BY <2>1 DEF IsSeq
    <3> QED BY <3>1
  <2> HIDE DEF S
  <2>3. n \in 0 .. Len(r.recs)
    BY <2>1, <2>2, ConcatProperties
  <2>4. SubSeq(r.recs, 1, n) = own
    <3>1. CASE n = 0
      <4>1. own = <<>>
        BY <2>2, <3>1
      <4>2. SubSeq(r.recs, 1, n) = <<>>
        BY <3>1, SubSeqEmpty
      <4> QED BY <4>1, <4>2
    <3>2. CASE n # 0
      <4>1. 1 \in 1 .. n /\ n \in 1 .. n
        BY <2>2, <3>2
      <4>2. SubSeq(own \o resp.recs, 1, n) = SubSeq(own, 1, n)
        BY <2>2, <4>1, SubSeqOfConcat1
      <4>3. SubSeq(own, 1, n) = own
        BY <2>2, SubSeqFull
      <4> QED BY <2>1, <4>2, <4>3
    <3> QED BY <3>1, <3>2
  <2>5. Leads(w.first, Append(own, mark))
    BY <1>4, <2>1
  <2> HIDE DEF n
  <2>6. HandsOn(w.first, w.q, r.recs, resp.recs)
    BY <2>1, <2>3, <2>4, <2>5 DEF HandsOn, mark
  <2> QED BY <1>4, <1>6, <2>6 DEF SectionRight, r
<1>7. CASE resp.rcode # "SERVFAIL" /\ resp.rcode # "NOERROR" /\ r.recs = b.recs
  BY <1>4, <1>7 DEF SectionRight, r
<1> QED BY <1>3, <1>5, <1>6, <1>7 DEF Alike

----------------------------------------------------------------------------
(* Orders.                                                                    *)

\* a comes before b in s.
Precedes(s, a, b) == \E i, j \in DOMAIN s : i < j /\ s[i] = a /\ s[j] = b

\* t has elements of s, in their order.
Thins(t, s) ==
  /\ IsSeq(t) /\ Range(t) \subseteq Range(s) /\ Len(t) <= Len(s)
  /\ \A a, b : Precedes(t, a, b) => Precedes(s, a, b)

LEMMA KeptThins ==
  ASSUME NEW s, IsSeq(s), NEW S
  PROVE  /\ Thins(Kept(s, S), s) /\ Range(Kept(s, S)) = Range(s) \cap S
         /\ (\E x \in Range(s) : x \notin S) => Len(Kept(s, S)) < Len(s)
         /\ \A a, b \in S : Precedes(s, a, b) => Precedes(Kept(s, S), a, b)
<1> DEFINE g == Kept(s, S)
<1>1. s \in Seq(Range(s)) /\ Len(s) \in Nat /\ DOMAIN s = 1 .. Len(s)
  BY DEF IsSeq
<1>2. /\ g \in Seq(Range(s)) /\ Range(g) = Range(s) \cap S /\ Len(g) <= Len(s)
      /\ (\E p \in 1 .. Len(s) : s[p] \notin S) => Len(g) < Len(s)
  BY <1>1, KeptMembers
<1>3. Picks(g, s, S, Range(s), Len(s))
  BY <1>1, KeptIs
<1> HIDE DEF g
<1>4. PICK m : Places(m, g, s, S, Len(s), Len(g))
  BY <1>3 DEF Picks
<1>5. IsSeq(g) /\ Len(g) \in Nat /\ DOMAIN g = 1 .. Len(g)
  BY <1>2, SeqIs
<1>6. ASSUME NEW a, NEW b, Precedes(g, a, b) PROVE Precedes(s, a, b)
  <2>1. PICK i \in 1 .. Len(g), j \in 1 .. Len(g) : i < j /\ g[i] = a /\ g[j] = b
    BY <1>5, <1>6 DEF Precedes
  <2>2. m[i] \in DOMAIN s /\ m[j] \in DOMAIN s /\ m[i] < m[j] /\ s[m[i]] = a /\ s[m[j]] = b
    BY <1>1, <1>4, <2>1 DEF Places
  <2> QED BY <2>2 DEF Precedes
<1>7. ASSUME NEW a \in S, NEW b \in S, Precedes(s, a, b) PROVE Precedes(g, a, b)
  <2>1. PICK p \in 1 .. Len(s), q \in 1 .. Len(s) : p < q /\ s[p] = a /\ s[q] = b
    BY <1>1, <1>7 DEF Precedes
  <2>2. PICK i \in 1 .. Len(g) : m[i] = p
    BY <1>4, <2>1 DEF Places
  <2>3. PICK j \in 1 .. Len(g) : m[j] = q
    BY <1>4, <2>1 DEF Places
  <2>4. i < j
    <3>1. i # j /\ ~(m[j] < m[i])
      BY <1>1, <2>1, <2>2, <2>3
    <3>2. ~(j < i)
      BY <1>4, <3>1 DEF Places
    <3> QED BY <1>5, <3>1, <3>2
  <2>5. g[i] = a /\ g[j] = b
    BY <1>4, <2>1, <2>2, <2>3 DEF Places
  <2> QED BY <1>5, <2>4, <2>5 DEF Precedes
<1>8. (\E x \in Range(s) : x \notin S) => Len(g) < Len(s)
  BY <1>1, <1>2 DEF Range
<1> QED BY <1>2, <1>5, <1>6, <1>7, <1>8 DEF Thins, g

LEMMA ThinsTwice ==
  ASSUME NEW r, NEW s, NEW t, IsSeq(r), IsSeq(s), Thins(t, s), Thins(s, r)
  PROVE  Thins(t, r)
<1>1. Len(r) \in Nat /\ Len(s) \in Nat /\ Len(t) \in Nat
  BY SeqRange DEF Thins
<1> QED BY <1>1 DEF Thins

LEMMA AppendIs ==
  ASSUME NEW s, IsSeq(s), NEW x
  PROVE  /\ IsSeq(Append(s, x)) /\ Len(Append(s, x)) = Len(s) + 1 /\ Range(Append(s, x)) = Range(s) \cup {x}
         /\ \A a, b : Precedes(Append(s, x), a, b) <=> Precedes(s, a, b) \/ (a \in Range(s) /\ b = x)
<1> DEFINE t == Append(s, x)
           n == Len(s)
<1>1. s \in Seq(Range(s)) /\ n \in Nat /\ DOMAIN s = 1 .. n
  BY DEF IsSeq
<1>2. t \in Seq(Range(s) \cup {x}) /\ Len(t) = n + 1 /\ DOMAIN t = 1 .. n + 1 /\ t[n + 1] = x /\ \A i \in 1 .. n : t[i] = s[i]
  BY <1>1
<1> HIDE DEF t, n
<1>3. IsSeq(t)
  BY <1>2, SeqIs
<1>4. \A i \in 1 .. n + 1 : i \in 1 .. n \/ i = n + 1
  BY <1>1
<1>5. Range(t) = Range(s) \cup {x}
  <2>1. ASSUME NEW y \in Range(t) PROVE y \in Range(s) \cup {x}
    BY <1>1, <1>2, <1>4 DEF Range
  <2>2. ASSUME NEW y \in Range(s) PROVE y \in Range(t)
    <3>1. PICK i \in 1 .. n : s[i] = y
      BY <1>1 DEF Range
    <3>2. i \in DOMAIN t /\ t[i] = y
      BY <1>1, <1>2, <3>1
    <3> QED BY <3>2 DEF Range
  <2>3. x \in Range(t)
    BY <1>1, <1>2 DEF Range
  <2> QED BY <2>1, <2>2, <2>3
<1>6. ASSUME NEW a, NEW b, Precedes(t, a, b) PROVE Precedes(s, a, b) \/ (a \in Range(s) /\ b = x)
  <2>1. PICK i \in 1 .. n + 1, j \in 1 .. n + 1 : i < j /\ t[i] = a /\ t[j] = b
    BY <1>2, <1>6 DEF Precedes
  <2>2. i \in 1 .. n
    BY <1>1, <2>1
  <2>3. s[i] = a /\ a \in Range(s)
    BY <1>1, <1>2, <2>1, <2>2 DEF Range
  <2>4. CASE j \in 1 .. n
    BY <1>1, <1>2, <2>1, <2>2, <2>3, <2>4 DEF Precedes
  <2>5. CASE j = n + 1
    BY <1>2, <2>1, <2>3, <2>5
  <2> QED BY <1>4, <2>4, <2>5
<1>7. ASSUME NEW a, NEW b, Precedes(s, a, b) PROVE Precedes(t, a, b)
  <2>1. PICK i \in 1 .. n, j \in 1 .. n : i < j /\ s[i] = a /\ s[j] = b
    BY <1>1, <1>7 DEF Precedes
  <2>2. i \in DOMAIN t /\ j \in DOMAIN t /\ t[i] = a /\ t[j] = b
    BY <1>1, <1>2, <2>1
  <2> QED BY <2>1, <2>2 DEF Precedes
<1>8. ASSUME NEW a \in Range(s) PROVE Precedes(t, a, x)
  <2>1. PICK i \in 1 .. n : s[i] = a
    BY <1>1 DEF Range
  <2>2. i \in DOMAIN t /\ n + 1 \in DOMAIN t /\ i < n + 1 /\ t[i] = a
    BY <1>1, <1>2, <2>1
  <2> QED BY <1>2, <2>2 DEF Precedes
<1> QED BY <1>2, <1>3, <1>5, <1>6, <1>7, <1>8 DEF t, n

\* Newest drops from the front, only what is too much.
LEMMA NewestIs ==
  ASSUME NEW s, IsSeq(s)
  PROVE  /\ Thins(Newest(s), s) /\ Len(Newest(s)) <= MaxEntries
         /\ Len(s) <= MaxEntries => Newest(s) = s
         /\ Len(s) > MaxEntries => Len(Newest(s)) = MaxEntries
         /\ \A a \in Range(s) \ Range(Newest(s)), b \in Range(Newest(s)) : Precedes(s, a, b)
<1> DEFINE g == SubSeq(s, Len(s) - MaxEntries + 1, Len(s))
           n == Len(s)
           d == n - MaxEntries
<1>1. s \in Seq(Range(s)) /\ n \in Nat /\ DOMAIN s = 1 .. n /\ MaxEntries \in Nat \ {0}
  BY ResolverAssumption DEF IsSeq
<1>2. CASE n > MaxEntries
  <2>1. d \in Nat /\ d > 0 /\ d + MaxEntries = n
    BY <1>1, <1>2
  <2>2. /\ g \in Seq(Range(s)) /\ Len(g) = MaxEntries /\ DOMAIN g = 1 .. MaxEntries
        /\ \A i \in 1 .. MaxEntries : g[i] = s[d + i]
    BY <1>1, <1>2
  <2>3. Newest(s) = g
    BY <1>2 DEF Newest
  <2> HIDE DEF g, n, d
  <2>4. IsSeq(g)
    BY <2>2, SeqIs
  <2>5. \A i \in 1 .. MaxEntries : d + i \in 1 .. n
    BY <1>1, <2>1
  <2>6. Range(g) \subseteq Range(s)
    BY <1>1, <2>2, <2>5 DEF Range
  <2>7. ASSUME NEW a, NEW b, Precedes(g, a, b) PROVE Precedes(s, a, b)
    <3>1. PICK i \in 1 .. MaxEntries, j \in 1 .. MaxEntries : i < j /\ g[i] = a /\ g[j] = b
      BY <2>2, <2>7 DEF Precedes
    <3>2. d + i \in DOMAIN s /\ d + j \in DOMAIN s /\ d + i < d + j /\ s[d + i] = a /\ s[d + j] = b
      BY <1>1, <2>1, <2>2, <2>5, <3>1
    <3> QED BY <3>2 DEF Precedes
  <2>8. ASSUME NEW a \in Range(s) \ Range(g), NEW b \in Range(g) PROVE Precedes(s, a, b)
    <3>1. PICK p \in 1 .. n : s[p] = a
      BY <1>1 DEF Range
    <3>2. PICK i \in 1 .. MaxEntries : g[i] = b
      BY <2>2 DEF Range
    <3>3. p <= d
      <4>1. SUFFICES ASSUME p > d PROVE FALSE
        BY <1>1, <2>1
      <4>2. p - d \in 1 .. MaxEntries /\ d + (p - d) = p
        BY <1>1, <2>1, <4>1
      <4>3. g[p - d] = a
        BY <2>2, <3>1, <4>2
      <4> QED BY <2>2, <4>2, <4>3 DEF Range
    <3>4. p \in DOMAIN s /\ d + i \in DOMAIN s /\ p < d + i /\ s[d + i] = b
      BY <1>1, <2>1, <2>2, <2>5, <3>2, <3>3
    <3> QED BY <3>1, <3>4 DEF Precedes
  <2>9. Thins(g, s)
    BY <1>1, <1>2, <2>2, <2>4, <2>6, <2>7 DEF Thins, n
  <2>10. ~(n <= MaxEntries) /\ MaxEntries <= MaxEntries
    BY <1>1, <1>2
  <2> QED BY <1>2, <2>2, <2>3, <2>8, <2>9, <2>10 DEF n
<1>3. CASE ~(n > MaxEntries)
  <2>1. Newest(s) = s
    BY <1>3 DEF Newest
  <2>2. Thins(s, s)
    BY <1>1 DEF Thins
  <2>3. n <= MaxEntries
    BY <1>1, <1>3
  <2> QED BY <1>3, <2>1, <2>2, <2>3
<1> QED BY <1>2, <1>3

----------------------------------------------------------------------------
(* The cache, of the entries c, with the history of its keys: their order of  *)
(* last use, u, and what was stored for them, st.                             *)

Keys(c) == {e.key : e \in Range(c)}
EntryOK(e) == e.until \in Nat /\ IsSeq(e.resp.recs)
CacheOK(c) ==
  /\ IsSeq(c) /\ Len(c) <= MaxEntries
  /\ \A a, b : Precedes(c, a, b) => a.key # b.key
  /\ \A e \in Range(c) : EntryOK(e)
UsedOK(c, u) ==
  /\ IsSeq(u) /\ Keys(c) \subseteq Range(u)
  /\ \A a, b : Precedes(c, a, b) => Precedes(u, a.key, b.key)
StoredOK(c, st) == \A e \in Range(c) : e.key \in DOMAIN st /\ st[e.key].resp = e.resp /\ st[e.key].until = e.until

HeldOK(c, u, st) == CacheOK(c) /\ UsedOK(c, u) /\ StoredOK(c, st)

LEMMA ThinsHeld ==
  ASSUME NEW c, NEW d, NEW u, NEW st, HeldOK(c, u, st), Thins(d, c)
  PROVE  HeldOK(d, u, st)
<1>1. Len(c) \in Nat /\ Len(d) \in Nat /\ MaxEntries \in Nat /\ IsSeq(d) /\ Len(d) <= Len(c) /\ Len(c) <= MaxEntries
  BY SeqRange, ResolverAssumption DEF HeldOK, CacheOK, Thins
<1>2. Range(d) \subseteq Range(c) /\ \A a, b : Precedes(d, a, b) => Precedes(c, a, b)
  BY DEF Thins
<1>3. CacheOK(d)
  BY <1>1, <1>2 DEF HeldOK, CacheOK
<1>4. UsedOK(d, u)
  BY <1>2 DEF HeldOK, UsedOK, Keys
<1>5. StoredOK(d, st)
  BY <1>2 DEF HeldOK, StoredOK
<1> QED BY <1>3, <1>4, <1>5 DEF HeldOK

\* One entry for a key.
LEMMA OnePerKey ==
  ASSUME NEW c, CacheOK(c), NEW a \in Range(c), NEW b \in Range(c), a.key = b.key
  PROVE  a = b
<1>1. PICK i \in DOMAIN c, j \in DOMAIN c : c[i] = a /\ c[j] = b
  BY DEF Range
<1>2. DOMAIN c = 1 .. Len(c) /\ Len(c) \in Nat
  BY SeqRange DEF CacheOK
<1>3. ~(i < j) /\ ~(j < i)
  BY <1>1 DEF CacheOK, Precedes
<1> QED BY <1>1, <1>2, <1>3

\* The history after key k was used, for the keys in held.
UsedThen(u, k, held) == Kept(Append(Kept(u, Range(u) \ {k}), k), held)
StoredThen(st, held) == [x \in DOMAIN st \cap held |-> st[x]]

\* An entry e goes to the end of what others the cache has.
LEMMA UseKeeps ==
  ASSUME NEW c, NEW u, NEW st, HeldOK(c, u, st), NEW o, Thins(o, c), NEW e, EntryOK(e), e.key \notin Keys(o),
         NEW d, Thins(d, Append(o, e)), Len(d) <= MaxEntries,
         NEW ss, StoredOK(o, ss), StoredOK(<<e>>, ss)
  PROVE  HeldOK(d, UsedThen(u, e.key, Keys(d)), StoredThen(ss, Keys(d)))
<1> DEFINE k == e.key
           v == Kept(u, Range(u) \ {k})
           w == Append(v, k)
           x == Kept(w, Keys(d))
           p == Append(o, e)
<1>1. HeldOK(o, u, st) /\ IsSeq(o) /\ IsSeq(u)
  BY ThinsHeld DEF HeldOK, UsedOK, Thins
<1>2. /\ IsSeq(p) /\ Range(p) = Range(o) \cup {e}
      /\ \A a, b : Precedes(p, a, b) <=> Precedes(o, a, b) \/ (a \in Range(o) /\ b = e)
  BY <1>1, AppendIs
<1>3. /\ IsSeq(v) /\ Range(v) = Range(u) \ {k}
      /\ \A a, b \in Range(u) \ {k} : Precedes(u, a, b) => Precedes(v, a, b)
  <2> DEFINE S == Range(u) \ {k}
  <2>1. Thins(v, u) /\ Range(v) = Range(u) \cap S /\ \A a, b \in S : Precedes(u, a, b) => Precedes(v, a, b)
    <3>1. v = Kept(u, S)
      OBVIOUS
    <3> HIDE DEF S, v
    <3> QED BY <1>1, <3>1, KeptThins
  <2> QED BY <2>1 DEF Thins
<1> HIDE DEF v
<1>4. /\ IsSeq(w) /\ Range(w) = Range(v) \cup {k}
      /\ \A a, b : Precedes(w, a, b) <=> Precedes(v, a, b) \/ (a \in Range(v) /\ b = k)
  BY <1>3, AppendIs
<1> HIDE DEF w
<1>5. IsSeq(x) /\ Range(x) = Range(w) \cap Keys(d) /\ \A a, b \in Keys(d) : Precedes(w, a, b) => Precedes(x, a, b)
  <2> DEFINE S == Keys(d)
  <2>1. Thins(x, w) /\ Range(x) = Range(w) \cap S /\ \A a, b \in S : Precedes(w, a, b) => Precedes(x, a, b)
    <3>1. x = Kept(w, S)
      OBVIOUS
    <3> HIDE DEF S, x
    <3> QED BY <1>4, <3>1, KeptThins
  <2> QED BY <2>1 DEF Thins
<1> HIDE DEF x, p
<1>6. Range(d) \subseteq Range(p) /\ IsSeq(d) /\ \A a, b : Precedes(d, a, b) => Precedes(p, a, b)
  BY DEF Thins, p
<1>7. \A a \in Range(o) : a.key \in Range(u) /\ a.key # k /\ EntryOK(a)
  BY <1>1 DEF HeldOK, UsedOK, Keys, CacheOK
<1>8. \A s, a, b : Precedes(s, a, b) => a \in Range(s) /\ b \in Range(s)
  BY DEF Precedes, Range
<1>9. CacheOK(d)
  <2>1. ASSUME NEW a, NEW b, Precedes(d, a, b) PROVE a.key # b.key
    <3>1. Precedes(o, a, b) \/ (a \in Range(o) /\ b = e)
      BY <1>2, <1>6, <2>1
    <3> QED BY <1>1, <1>7, <3>1 DEF HeldOK, CacheOK
  <2>2. \A a \in Range(d) : EntryOK(a)
    BY <1>2, <1>6, <1>7
  <2> QED BY <1>6, <2>1, <2>2 DEF CacheOK
<1>10. UsedOK(d, x)
  <2>1. Keys(d) \subseteq Range(x)
    <3> SUFFICES ASSUME NEW a \in Range(d) PROVE a.key \in Range(x)
      BY DEF Keys
    <3>1. a.key \in Keys(d)
      BY DEF Keys
    <3>2. a.key \in Range(w)
      BY <1>2, <1>3, <1>4, <1>6, <1>7
    <3> QED BY <1>5, <3>1, <3>2
  <2>2. ASSUME NEW a, NEW b, Precedes(d, a, b) PROVE Precedes(x, a.key, b.key)
    <3>1. a.key \in Keys(d) /\ b.key \in Keys(d)
      BY <1>8, <2>2 DEF Keys
    <3>2. CASE Precedes(o, a, b)
      <4>1. a \in Range(o) /\ b \in Range(o) /\ Precedes(u, a.key, b.key)
        BY <1>1, <1>8, <3>2 DEF HeldOK, UsedOK
      <4>2. Precedes(v, a.key, b.key)
        BY <1>3, <1>7, <4>1
      <4> QED BY <1>4, <1>5, <3>1, <4>2
    <3>3. CASE a \in Range(o) /\ b = e
      <4>1. a.key \in Range(v)
        BY <1>3, <1>7, <3>3
      <4> QED BY <1>4, <1>5, <3>1, <3>3, <4>1
    <3> QED BY <1>2, <1>6, <2>2, <3>2, <3>3
  <2> QED BY <1>5, <2>1, <2>2 DEF UsedOK
<1>11. StoredOK(d, StoredThen(ss, Keys(d)))
  <2> SUFFICES ASSUME NEW a \in Range(d)
               PROVE  LET s == StoredThen(ss, Keys(d)) IN a.key \in DOMAIN s /\ s[a.key].resp = a.resp /\ s[a.key].until = a.until
    BY DEF StoredOK
  <2>1. a.key \in Keys(d)
    BY DEF Keys
  <2>2. Range(<<e>>) = {e}
    <3>1. DOMAIN <<e>> = {1} /\ <<e>>[1] = e
      OBVIOUS
    <3> QED BY <3>1 DEF Range
  <2>3. a.key \in DOMAIN ss /\ ss[a.key].resp = a.resp /\ ss[a.key].until = a.until
    BY <1>2, <1>6, <2>2 DEF StoredOK
  <2> QED BY <2>1, <2>3 DEF StoredThen
<1>12. x = UsedThen(u, e.key, Keys(d))
  BY DEF UsedThen, x, w, v
<1> QED BY <1>9, <1>10, <1>11, <1>12 DEF HeldOK

\* What is kept of the other entries.
LEMMA OthersAre ==
  ASSUME CacheOK(cache), NEW k
  PROVE  /\ Thins(Others(k), cache) /\ Range(Others(k)) = {e \in Range(cache) : e.key # k} /\ k \notin Keys(Others(k))
         /\ k \in Keys(cache) => Len(Others(k)) < Len(cache)
<1> DEFINE S == {e \in Range(cache) : e.key # k}
<1>1. IsSeq(cache)
  BY DEF CacheOK
<1>2. Others(k) = Kept(cache, S)
  BY DEF Others
<1>3. Thins(Others(k), cache) /\ Range(Others(k)) = Range(cache) \cap S
      /\ ((\E x \in Range(cache) : x \notin S) => Len(Others(k)) < Len(cache))
  <2> HIDE DEF S
  <2> QED BY <1>1, <1>2, KeptThins
<1>4. k \in Keys(cache) => \E x \in Range(cache) : x \notin S
  BY DEF Keys
<1> QED BY <1>3, <1>4 DEF Keys

LEMMA HitIs ==
  ASSUME CacheOK(cache), NEW k, Hit(k) # {}
  PROVE  LET e == CHOOSE e \in Hit(k) : TRUE IN e \in Range(cache) /\ e.key = k /\ e.until > now
BY DEF Hit

\* What comes of a hit.
LEMMA TouchKeeps ==
  ASSUME HeldOK(cache, seen.used, seen.stored), NEW k, Hit(k) # {}
  PROVE  LET d == Touched(k) IN
         /\ HeldOK(d, UsedThen(seen.used, k, Keys(d)), StoredThen(seen.stored, Keys(d)))
         /\ Keys(cache) \subseteq Keys(d)
<1> DEFINE e == CHOOSE e \in Hit(k) : TRUE
           o == Others(k)
           d == Append(o, e)
<1>1. e \in Range(cache) /\ e.key = k
  BY HitIs DEF HeldOK
<1> HIDE DEF e
<1>2. /\ Thins(o, cache) /\ Range(o) = {x \in Range(cache) : x.key # k} /\ k \notin Keys(o)
      /\ Len(o) < Len(cache)
  BY <1>1, OthersAre DEF HeldOK, Keys
<1> HIDE DEF o
<1>3. IsSeq(d) /\ Len(d) = Len(o) + 1 /\ Range(d) = Range(o) \cup {e}
  BY <1>2, AppendIs DEF Thins
<1>4. Len(o) \in Nat /\ Len(cache) \in Nat /\ MaxEntries \in Nat /\ Len(cache) <= MaxEntries
  BY <1>2, SeqRange, ResolverAssumption DEF HeldOK, CacheOK, Thins
<1>5. Len(d) <= MaxEntries
  BY <1>2, <1>3, <1>4
<1>6. Thins(d, d)
  BY <1>3, <1>4 DEF Thins
<1>7. EntryOK(e)
  BY <1>1 DEF HeldOK, CacheOK
<1>8. StoredOK(o, seen.stored)
  BY <1>2 DEF HeldOK, StoredOK
<1>9. StoredOK(<<e>>, seen.stored)
  <2>1. DOMAIN <<e>> = {1} /\ <<e>>[1] = e
    OBVIOUS
  <2> QED BY <1>1, <2>1 DEF HeldOK, StoredOK, Range
<1> HIDE DEF d
<1>10. HeldOK(d, UsedThen(seen.used, k, Keys(d)), StoredThen(seen.stored, Keys(d)))
  BY <1>1, <1>2, <1>5, <1>6, <1>7, <1>8, <1>9, UseKeeps DEF d
<1>11. Keys(cache) \subseteq Keys(d)
  BY <1>1, <1>2, <1>3 DEF Keys
<1>12. Touched(k) = d
  BY DEF Touched, d, e, o
<1> QED BY <1>10, <1>11, <1>12

\* What comes of a key of which nothing is live: its entry goes.
LEMMA MissKeeps ==
  ASSUME HeldOK(cache, seen.used, seen.stored), NEW k, Hit(k) = {}
  PROVE  /\ HeldOK(Touched(k), seen.used, seen.stored)
         /\ \A e \in Range(cache) : e.until > now => e.key \in Keys(Touched(k))
<1>1. Touched(k) = Others(k)
  BY DEF Touched
<1>2. Thins(Others(k), cache) /\ Range(Others(k)) = {e \in Range(cache) : e.key # k}
  BY OthersAre DEF HeldOK
<1>3. HeldOK(Others(k), seen.used, seen.stored)
  BY <1>2, ThinsHeld
<1>4. ASSUME NEW e \in Range(cache), e.until > now PROVE e.key \in Keys(Others(k))
  BY <1>2, <1>4 DEF Hit, Keys
<1> QED BY <1>1, <1>3, <1>4

\* A live entry that is no longer in d was used before those that still are.
DropsOldest(d) ==
  \A e \in Range(cache) : e.until > now /\ e.key \notin Keys(d) =>
    Len(d) = MaxEntries /\ \A x \in Range(cache) : x.key \in Keys(d) => Precedes(seen.used, e.key, x.key)

LEMMA StoreKeeps ==
  ASSUME HeldOK(cache, seen.used, seen.stored), now \in Nat,
         NEW k, NEW resp, IsSeq(resp.recs), NEW ttl \in Nat, Cacheable(resp, ttl),
         NEW ss, ss = [x \in DOMAIN seen.stored \cup {k} |->
                         IF x = k THEN [resp |-> resp, until |-> now + Bounded(ttl)] ELSE seen.stored[x]]
  PROVE  LET d == Stored(k, resp, ttl) IN
         HeldOK(d, UsedThen(seen.used, k, Keys(d)), StoredThen(ss, Keys(d))) /\ DropsOldest(d)
<1> DEFINE e == [key |-> k, resp |-> resp, until |-> now + Bounded(ttl)]
           o == Others(k)
           p == Append(o, e)
           l == Live(p)
           d == Newest(l)
<1>1. Stored(k, resp, ttl) = d
  BY DEF Stored
<1>2. Bounded(ttl) \in Nat /\ Bounded(ttl) > 0
  BY ResolverAssumption DEF Bounded, Cacheable
<1>3. e.key = k /\ e.resp = resp /\ e.until = now + Bounded(ttl)
  OBVIOUS
<1>4. e.until \in Nat /\ e.until > now
  BY <1>2, <1>3
<1>5. EntryOK(e)
  BY <1>3, <1>4 DEF EntryOK
<1> HIDE DEF e
<1>6. /\ Thins(o, cache) /\ Range(o) = {x \in Range(cache) : x.key # k} /\ k \notin Keys(o)
      /\ k \in Keys(cache) => Len(o) < Len(cache)
  BY OthersAre DEF HeldOK
<1> HIDE DEF o
<1>7. /\ IsSeq(p) /\ Len(p) = Len(o) + 1 /\ Range(p) = Range(o) \cup {e}
      /\ \A a, b : Precedes(p, a, b) <=> Precedes(o, a, b) \/ (a \in Range(o) /\ b = e)
  BY <1>6, AppendIs DEF Thins
<1> HIDE DEF p
<1>8. Thins(l, p) /\ Range(l) = {x \in Range(p) : x.until > now}
  <2> DEFINE S == {x \in Range(p) : x.until > now}
  <2>1. l = Kept(p, S)
    BY DEF Live
  <2>2. Thins(l, p) /\ Range(l) = Range(p) \cap S
    <3> HIDE DEF S, l
    <3> QED BY <1>7, <2>1, KeptThins
  <2> QED BY <2>2
<1> HIDE DEF l
<1>9. IsSeq(l)
  BY <1>8 DEF Thins
<1>10. /\ Thins(d, l) /\ Len(d) <= MaxEntries
       /\ Len(l) <= MaxEntries => d = l
       /\ Len(l) > MaxEntries => Len(d) = MaxEntries
       /\ \A a \in Range(l) \ Range(d), b \in Range(d) : Precedes(l, a, b)
  BY <1>9, NewestIs
<1> HIDE DEF d
<1>11. Thins(d, p)
  BY <1>7, <1>8, <1>9, <1>10, ThinsTwice
<1>12. StoredOK(o, ss)
  <2> SUFFICES ASSUME NEW a \in Range(o) PROVE a.key \in DOMAIN ss /\ ss[a.key].resp = a.resp /\ ss[a.key].until = a.until
    BY DEF StoredOK
  <2>1. a \in Range(cache) /\ a.key # k
    BY <1>6
  <2>2. a.key \in DOMAIN seen.stored /\ seen.stored[a.key].resp = a.resp /\ seen.stored[a.key].until = a.until
    BY <2>1 DEF HeldOK, StoredOK
  <2>3. a.key \in DOMAIN ss /\ ss[a.key] = seen.stored[a.key]
    BY <2>1, <2>2
  <2> QED BY <2>2, <2>3
<1>13. StoredOK(<<e>>, ss)
  <2>1. DOMAIN <<e>> = {1} /\ <<e>>[1] = e
    OBVIOUS
  <2>2. k \in DOMAIN ss /\ ss[k] = [resp |-> resp, until |-> now + Bounded(ttl)]
    OBVIOUS
  <2> QED BY <1>3, <2>1, <2>2 DEF StoredOK, Range
<1>14. HeldOK(d, UsedThen(seen.used, k, Keys(d)), StoredThen(ss, Keys(d)))
  <2> HIDE DEF Bounded
  <2> QED BY <1>3, <1>5, <1>6, <1>10, <1>11, <1>12, <1>13, UseKeeps DEF p
<1>15. ASSUME NEW a \in Range(cache), a.until > now, a.key \notin Keys(d)
       PROVE  Len(d) = MaxEntries /\ \A x \in Range(cache) : x.key \in Keys(d) => Precedes(seen.used, a.key, x.key)
  <2>1. /\ Len(o) \in Nat /\ Len(p) \in Nat /\ Len(l) \in Nat /\ Len(cache) \in Nat /\ MaxEntries \in Nat
        /\ Len(cache) <= MaxEntries /\ Len(l) <= Len(p)
    BY <1>6, <1>7, <1>8, <1>9, SeqRange, ResolverAssumption DEF HeldOK, CacheOK, Thins
  <2>2. k \in Keys(cache) => d = l
    BY <1>6, <1>7, <1>10, <2>1
  <2>3. a.key = k => FALSE
    <3>1. SUFFICES ASSUME a.key = k PROVE FALSE
      OBVIOUS
    <3>2. k \in Keys(cache)
      BY <3>1 DEF Keys
    <3>3. e \in Range(d)
      BY <1>4, <1>7, <1>8, <2>2, <3>2
    <3> QED BY <1>3, <1>15, <3>1, <3>3 DEF Keys
  <2>4. a \in Range(o) /\ a \in Range(l) /\ a \notin Range(d)
    BY <1>6, <1>7, <1>8, <1>15, <2>3 DEF Keys
  <2>5. Len(l) > MaxEntries /\ d # l
    BY <1>10, <2>1, <2>4
  <2>6. ASSUME NEW x \in Range(cache), x.key \in Keys(d) PROVE Precedes(seen.used, a.key, x.key)
    <3>1. x.key # k
      BY <2>2, <2>5 DEF Keys
    <3>2. PICK y \in Range(d) : y.key = x.key
      BY <2>6 DEF Keys
    <3>3. y \in Range(p) /\ y # e
      BY <1>3, <1>11, <3>1, <3>2 DEF Thins
    <3>4. y \in Range(cache)
      BY <1>6, <1>7, <3>3
    <3>5. y = x
      BY <3>2, <3>4, OnePerKey DEF HeldOK
    <3>6. Precedes(l, a, x)
      BY <1>10, <2>4, <3>2, <3>5
    <3>7. Precedes(p, a, x)
      BY <1>8, <3>6 DEF Thins
    <3>8. Precedes(o, a, x)
      BY <1>7, <3>3, <3>5, <3>7
    <3>9. Precedes(cache, a, x)
      BY <1>6, <3>8 DEF Thins
    <3> QED BY <3>9 DEF HeldOK, UsedOK
  <2> QED BY <1>10, <2>5, <2>6
<1>16. DropsOldest(d)
  BY <1>15 DEF DropsOldest
<1> QED BY <1>1, <1>14, <1>16

----------------------------------------------------------------------------
(* The inductive invariant.                                                   *)

TFields == {"pc", "via", "w", "i", "up", "tried", "began"}

\* What waits for an upstream has tried those before it in the list, unless the
\* list was changed since.
TaskOK(t, cf, changes) ==
  /\ t.pc \in {"idle", "next", "waiting"}
  /\ t.pc = "waiting" =>
       /\ DOMAIN t = TFields /\ Passed(t.w) /\ t.began \in Nat /\ t.began <= changes /\ t.i \in Nat
       /\ t.began = changes =>
            /\ t.i \in 1 .. Len(cf.upstreams) /\ t.up = cf.upstreams[t.i]
            /\ t.tried = {cf.upstreams[j] : j \in 1 .. t.i - 1}

Answered == {"local", "cache", "upstream", "failed"}
OutOK(o) ==
  /\ o.from = "failed" => o.missed = {}
  /\ o.from \in {"local", "failed"} => LeadsRight(o.q, o.resp)
  /\ o.from \in {"cache", "upstream"} => SectionRight(o.q, o.asked, o.raw, o.resp)

\* What is pending is what was sent and not taken.
StreamOK ==
  /\ DOMAIN conn = {"sent", "pending", "open"} /\ DOMAIN count = {"changes", "asked", "frames"}
  /\ conn.sent \in Nat /\ conn.sent <= 2 * Len(Stream)
  /\ IsSeq(count.frames) /\ 2 * Len(count.frames) <= conn.sent
  /\ FramesWhole

ResolverInv ==
  /\ conf \in Confs \cup {FirstConf} /\ now \in 0 .. MaxTime /\ count.changes \in Nat
  /\ DOMAIN tasks = Handlers /\ \A h \in Handlers : TaskOK(tasks[h], conf, count.changes)
  /\ HeldOK(cache, seen.used, seen.stored)
  /\ StreamOK
  /\ OutOK(out)

\* What a step may do to a handler, to the cache, and answer.
Moves(h) ==
  \E t : /\ tasks' = [tasks EXCEPT ![h] = t] /\ TaskOK(t, conf, count.changes)
         /\ t.pc = "waiting" /\ tasks[h].pc # "waiting" => Foreign(t.w.q)
CacheMoves == HeldOK(cache', seen'.used, seen'.stored) /\ DropsOldest(cache')
Fresh(q, raw) == Key(q) \in DOMAIN seen.stored /\ raw = seen.stored[Key(q)].resp /\ now < seen.stored[Key(q)].until
Says(o) == OutOK(o) /\ (o.from = "cache" => Foreign(o.asked) /\ Fresh(o.asked, o.raw))

LEMMA ConfIs == ASSUME ResolverInv PROVE Configuration(conf)
BY ResolverAssumption DEF ResolverInv

LEMMA SilenceSays == \A from : from \notin Answered => Says([from |-> from])
BY DEF Says, OutOK, Answered

LEMMA ReplyDoes ==
  ASSUME NEW h, NEW via, NEW answer, Says(answer), Reply(h, via, answer)
  PROVE  Moves(h) /\ Says(out')
<1>1. Says(NoAnswer)
  BY SilenceSays DEF NoAnswer, Answered
<1>2. Says(out')
  BY <1>1 DEF Reply
<1> DEFINE t == IF via = "tcp" THEN [pc |-> "next"] ELSE Idle
<1>3. t.pc \in {"idle", "next"}
  BY DEF Idle
<1>4. tasks' = [tasks EXCEPT ![h] = t]
  BY DEF Reply
<1> HIDE DEF t
<1>5. TaskOK(t, conf, count.changes) /\ t.pc # "waiting"
  BY <1>3 DEF TaskOK
<1> QED BY <1>2, <1>4, <1>5 DEF Moves

LEMMA CacheStays ==
  ASSUME ResolverInv, UNCHANGED <<cache, seen>>
  PROVE  CacheMoves
<1>1. HeldOK(cache', seen'.used, seen'.stored)
  BY DEF ResolverInv
<1>2. DropsOldest(cache')
  BY DEF DropsOldest, Keys
<1> QED BY <1>1, <1>2 DEF CacheMoves

Asked(w, q) == Passed(w) /\ w.first = q /\ (w.end = "ask" => Foreign(w.q))
Done(h) == Moves(h) /\ Says(out') /\ CacheMoves

LEMMA SilenceDoes ==
  ASSUME ResolverInv, NEW h, NEW via, NEW w, Silence(h, via, w)
  PROVE  Done(h)
<1> DEFINE from == IF via = "doh" THEN "400" ELSE "none"
<1>1. from \notin Answered
  BY DEF Answered
<1>2. Reply(h, via, [from |-> from])
  BY DEF Silence
<1> HIDE DEF from
<1>3. Says([from |-> from])
  BY <1>1, SilenceSays
<1>4. Moves(h) /\ Says(out')
  BY <1>2, <1>3, ReplyDoes
<1>5. CacheMoves
  BY CacheStays DEF Silence
<1> QED BY <1>4, <1>5 DEF Done

LEMMA LocalDoes ==
  ASSUME ResolverInv, NEW h, NEW via, NEW w, Passed(w), Local(h, via, w)
  PROVE  Done(h)
<1> DEFINE a == [from |-> "local", q |-> w.first, resp |-> Wrapped(w.chain, w.resp)]
<1>1. LeadsRight(w.first, Wrapped(w.chain, w.resp))
  BY AnswersLead DEF Passed, Local
<1>2. a.from = "local" /\ a.q = w.first /\ a.resp = Wrapped(w.chain, w.resp)
  OBVIOUS
<1>3. Reply(h, via, a)
  BY DEF Local
<1> HIDE DEF a
<1>4. Says(a)
  BY <1>1, <1>2 DEF Says, OutOK
<1>5. Moves(h) /\ Says(out')
  BY <1>3, <1>4, ReplyDoes
<1>6. CacheMoves
  BY CacheStays DEF Local
<1> QED BY <1>5, <1>6 DEF Done

LEMMA FromCacheDoes ==
  ASSUME ResolverInv, NEW h, NEW via, NEW w, Passed(w), w.end = "ask" => Foreign(w.q), FromCache(h, via, w)
  PROVE  Done(h)
<1> DEFINE k == Key(w.q)
           e == CHOOSE e \in Hit(k) : TRUE
           a == [from |-> "cache", q |-> w.first, asked |-> w.q, raw |-> e.resp, resp |-> Wrapped(w.chain, e.resp)]
<1>1. Hit(k) # {} /\ Foreign(w.q)
  BY DEF FromCache
<1>2. Reply(h, via, a) /\ cache' = Touched(k) /\ seen' = Remembered(k, seen.stored)
  BY DEF FromCache
<1>3. /\ a.from = "cache" /\ a.q = w.first /\ a.asked = w.q /\ a.raw = e.resp /\ a.resp = Wrapped(w.chain, e.resp)
  OBVIOUS
<1> HIDE DEF a
<1>4. HeldOK(cache, seen.used, seen.stored) /\ CacheOK(cache) /\ now \in Nat
  BY DEF ResolverInv, HeldOK
<1>5. e \in Range(cache) /\ e.key = k /\ e.until > now
  <2> HIDE DEF k
  <2> QED BY <1>1, <1>4, HitIs
<1> HIDE DEF e
<1>6. e.until \in Nat /\ IsSeq(e.resp.recs)
  <2>1. EntryOK(e)
    BY <1>4, <1>5 DEF CacheOK
  <2> QED BY <2>1 DEF EntryOK
<1>7. SectionRight(w.first, w.q, e.resp, Wrapped(w.chain, e.resp))
  BY <1>6, SectionLeads
<1>8. Fresh(w.q, e.resp)
  <2>1. k \in DOMAIN seen.stored /\ seen.stored[k].resp = e.resp /\ seen.stored[k].until = e.until
    <3> HIDE DEF k
    <3> QED BY <1>4, <1>5 DEF HeldOK, StoredOK
  <2> QED BY <1>4, <1>5, <1>6, <2>1 DEF Fresh
<1>9. Says(a)
  BY <1>1, <1>3, <1>7, <1>8 DEF Says, OutOK
<1>10. Moves(h) /\ Says(out')
  BY <1>2, <1>9, ReplyDoes
<1> DEFINE d == Touched(k)
<1>11. HeldOK(d, UsedThen(seen.used, k, Keys(d)), StoredThen(seen.stored, Keys(d))) /\ Keys(cache) \subseteq Keys(d)
  <2> HIDE DEF k
  <2> QED BY <1>1, <1>4, TouchKeeps
<1> HIDE DEF d, k
<1>12. cache' = d
  BY <1>2 DEF d
<1>13. seen'.used = UsedThen(seen.used, k, Keys(cache')) /\ seen'.stored = StoredThen(seen.stored, Keys(cache'))
  BY <1>2 DEF Remembered, UsedThen, StoredThen, Keys
<1>14. DropsOldest(d)
  BY <1>11 DEF DropsOldest, Keys
<1>15. CacheMoves
  BY <1>11, <1>12, <1>13, <1>14 DEF CacheMoves
<1> QED BY <1>10, <1>15 DEF Done

LEMMA FailedSays ==
  ASSUME NEW w, Passed(w), NEW tried, NEW same, NEW stopped, same /\ ~stopped => Range(conf.upstreams) \subseteq tried
  PROVE  Says(Failed(w, tried, same, stopped))
<1> DEFINE a == Failed(w, tried, same, stopped)
<1>1. LeadsRight(w.first, Wrapped(w.chain, Rcode("SERVFAIL")))
  BY RcodeIs, AnswersLead
<1>2. /\ a.from = "failed" /\ a.q = w.first /\ a.resp = Wrapped(w.chain, Rcode("SERVFAIL"))
      /\ a.missed = IF same /\ ~stopped THEN Range(conf.upstreams) \ tried ELSE {}
  BY DEF Failed
<1> HIDE DEF a
<1>3. a.missed = {}
  BY <1>2
<1>4. Says(a)
  BY <1>1, <1>2, <1>3 DEF Says, OutOK
<1> QED BY <1>4 DEF a

LEMMA AskUpstreamDoes ==
  ASSUME ResolverInv, NEW h, NEW via, NEW w, Passed(w), w.end = "ask" => Foreign(w.q), AskUpstream(h, via, w)
  PROVE  Done(h)
<1>1. CacheMoves
  <2> DEFINE k == Key(w.q)
  <2>1. Hit(k) = {} /\ cache' = Touched(k) /\ seen' = seen
    BY DEF AskUpstream
  <2>2. HeldOK(cache, seen.used, seen.stored)
    BY DEF ResolverInv
  <2> HIDE DEF k
  <2>3. HeldOK(Touched(k), seen.used, seen.stored) /\ \A e \in Range(cache) : e.until > now => e.key \in Keys(Touched(k))
    BY <2>1, <2>2, MissKeeps
  <2>4. DropsOldest(cache')
    BY <2>1, <2>3 DEF DropsOldest
  <2> QED BY <2>1, <2>3, <2>4 DEF CacheMoves
<1>2. CASE conf.upstreams = <<>>
  <2>1. Range(conf.upstreams) = {}
    BY <1>2, DOMAIN <<>> = {} DEF Range
  <2>2. Says(Failed(w, {}, TRUE, FALSE))
    BY <2>1, FailedSays
  <2>3. Reply(h, via, Failed(w, {}, TRUE, FALSE))
    BY <1>2 DEF AskUpstream
  <2>4. Moves(h) /\ Says(out')
    BY <2>2, <2>3, ReplyDoes
  <2> QED BY <1>1, <2>4 DEF Done
<1>3. CASE conf.upstreams # <<>>
  <2> DEFINE t == [pc |-> "waiting", via |-> via, w |-> w, i |-> 1, up |-> conf.upstreams[1], tried |-> {}, began |-> count.changes]
  <2>1. tasks' = [tasks EXCEPT ![h] = t] /\ out' = NoAnswer
    BY <1>3 DEF AskUpstream
  <2>2. DOMAIN t = TFields /\ t.pc = "waiting" /\ t.w = w /\ t.i = 1 /\ t.up = conf.upstreams[1] /\ t.tried = {} /\ t.began = count.changes
    BY DEF TFields
  <2> HIDE DEF t
  <2>3. conf.upstreams \in Seq(Range(conf.upstreams)) /\ count.changes \in Nat
    BY ConfIs DEF Configuration, ResolverInv
  <2>4. 1 \in 1 .. Len(conf.upstreams) /\ 1 .. 1 - 1 = {}
    BY <1>3, <2>3
  <2>5. TaskOK(t, conf, count.changes)
    BY <2>2, <2>3, <2>4 DEF TaskOK
  <2>6. Foreign(t.w.q)
    BY <2>2 DEF AskUpstream
  <2>7. Moves(h)
    BY <2>1, <2>5, <2>6 DEF Moves
  <2>8. Says(out')
    BY <2>1, SilenceSays DEF NoAnswer, Answered
  <2> QED BY <1>1, <2>7, <2>8 DEF Done
<1> QED BY <1>2, <1>3

LEMMA BeginDoes ==
  ASSUME ResolverInv, NEW h, NEW q, Question(q), NEW via, Begin(h, q, via)
  PROVE  Done(h)
<1> DEFINE w == Walk(q)
<1>1. Passed(w) /\ (w.end = "ask" => Foreign(w.q))
  BY ConfIs, WalkIs
<1>2. Silence(h, via, w) \/ Local(h, via, w) \/ FromCache(h, via, w) \/ AskUpstream(h, via, w)
  BY DEF Begin
<1> HIDE DEF w
<1> QED BY <1>1, <1>2, SilenceDoes, LocalDoes, FromCacheDoes, AskUpstreamDoes

LEMMA WaitingIs ==
  ASSUME ResolverInv, NEW h \in Handlers, tasks[h].pc = "waiting"
  PROVE  TaskOK(tasks[h], conf, count.changes) /\ DOMAIN tasks[h] = TFields /\ Passed(tasks[h].w)
BY DEF ResolverInv, TaskOK

LEMMA AnswersDo ==
  ASSUME ResolverInv, NEW h \in Handlers, NEW response \in Responses, NEW ttl \in TTLs, UpstreamAnswers(h, response, ttl)
  PROVE  Done(h)
<1> DEFINE t == tasks[h]
           q == t.w.q
           k == Key(q)
           resp == [rcode |-> response.rcode, aa |-> FALSE, recs |-> response.recs]
           a == [from |-> "upstream", q |-> t.w.first, asked |-> q, raw |-> resp, resp |-> Wrapped(t.w.chain, resp)]
           ss == [x \in DOMAIN seen.stored \cup {k} |->
                    IF x = k THEN [resp |-> resp, until |-> now + Bounded(ttl)] ELSE seen.stored[x]]
<1>1. /\ t.pc = "waiting" /\ Reply(h, t.via, a) /\ cache' = Stored(k, resp, ttl)
      /\ seen' = IF ~Cacheable(resp, ttl) THEN seen ELSE Remembered(k, ss)
  BY DEF UpstreamAnswers
<1>2. Passed(t.w)
  BY <1>1, WaitingIs
<1>3. IsSeq(resp.recs)
  BY ResolverAssumption DEF IsSeq
<1> HIDE DEF resp
<1>5. SectionRight(t.w.first, q, resp, Wrapped(t.w.chain, resp))
  BY <1>2, <1>3, SectionLeads
<1>6. a.from = "upstream" /\ a.q = t.w.first /\ a.asked = q /\ a.raw = resp /\ a.resp = Wrapped(t.w.chain, resp)
  OBVIOUS
<1> HIDE DEF a
<1>7. Says(a)
  BY <1>5, <1>6 DEF Says, OutOK
<1>8. Moves(h) /\ Says(out')
  BY <1>1, <1>7, ReplyDoes
<1>9. CASE ~Cacheable(resp, ttl)
  <2>1. UNCHANGED <<cache, seen>>
    BY <1>1, <1>9 DEF Stored
  <2> QED BY <1>8, <2>1, CacheStays DEF Done
<1>10. CASE Cacheable(resp, ttl)
  <2> DEFINE d == Stored(k, resp, ttl)
  <2>1. ttl \in Nat
    BY ResolverAssumption
  <2>2. HeldOK(cache, seen.used, seen.stored) /\ now \in Nat
    BY DEF ResolverInv
  <2>4. HeldOK(d, UsedThen(seen.used, k, Keys(d)), StoredThen(ss, Keys(d))) /\ DropsOldest(d)
    <3>1. ss = [x \in DOMAIN seen.stored \cup {k} |->
                    IF x = k THEN [resp |-> resp, until |-> now + Bounded(ttl)] ELSE seen.stored[x]]
      OBVIOUS
    <3> HIDE DEF ss, k
    <3> QED BY <1>3, <1>10, <2>1, <2>2, <3>1, StoreKeeps
  <2> HIDE DEF d, k, ss
  <2>5. cache' = d
    BY <1>1 DEF d
  <2>6. seen'.used = UsedThen(seen.used, k, Keys(cache')) /\ seen'.stored = StoredThen(ss, Keys(cache'))
    BY <1>1, <1>10 DEF Remembered, UsedThen, StoredThen, Keys
  <2>7. CacheMoves
    BY <2>4, <2>5, <2>6 DEF CacheMoves
  <2> QED BY <1>8, <2>7 DEF Done
<1> QED BY <1>9, <1>10

LEMMA FailsDoes ==
  ASSUME ResolverInv, NEW h \in Handlers, NEW retryable, UpstreamFails(h, retryable)
  PROVE  Done(h)
<1> DEFINE t == tasks[h]
           tried == t.tried \cup {t.up}
           ups == conf.upstreams
<1>1. t.pc = "waiting" /\ UNCHANGED <<cache, seen>>
  BY DEF UpstreamFails
<1>2. TaskOK(t, conf, count.changes) /\ DOMAIN t = TFields /\ Passed(t.w)
  BY <1>1, WaitingIs
<1>3. ups \in Seq(Range(ups)) /\ Len(ups) \in Nat /\ DOMAIN ups = 1 .. Len(ups)
  BY ConfIs DEF Configuration
<1>4. t.began = count.changes => t.i \in 1 .. Len(ups) /\ tried = {ups[j] : j \in 1 .. t.i}
  <2> SUFFICES ASSUME t.began = count.changes PROVE t.i \in 1 .. Len(ups) /\ tried = {ups[j] : j \in 1 .. t.i}
    OBVIOUS
  <2>1. t.i \in 1 .. Len(ups) /\ t.up = ups[t.i] /\ t.tried = {ups[j] : j \in 1 .. t.i - 1}
    BY <1>1, <1>2 DEF TaskOK
  <2>2. \A j : j \in 1 .. t.i <=> j \in 1 .. t.i - 1 \/ j = t.i
    BY <1>3, <2>1
  <2> HIDE DEF ups, t
  <2> QED BY <2>1, <2>2
<1>5. CacheMoves
  BY <1>1, CacheStays
<1>6. CASE GivesUp(t, retryable)
  <2> DEFINE same == t.began = count.changes
             stopped == ~retryable
  <2>1. Reply(h, t.via, Failed(t.w, tried, same, stopped))
    BY <1>6 DEF UpstreamFails
  <2>2. same /\ ~stopped => Range(conf.upstreams) \subseteq tried
    <3> SUFFICES ASSUME same, retryable PROVE Range(conf.upstreams) \subseteq tried
      OBVIOUS
    <3>1. t.i >= Len(ups)
      BY <1>6 DEF GivesUp
    <3>2. t.i = Len(ups)
      BY <1>3, <1>4, <3>1
    <3> QED BY <1>3, <1>4, <3>2 DEF Range
  <2> HIDE DEF same, stopped, tried
  <2>3. Says(Failed(t.w, tried, same, stopped))
    BY <1>2, <2>2, FailedSays
  <2>4. Moves(h) /\ Says(out')
    BY <2>1, <2>3, ReplyDoes
  <2> QED BY <1>5, <2>4 DEF Done
<1>7. CASE ~GivesUp(t, retryable)
  <2> DEFINE v == [t EXCEPT !.i = @ + 1, !.up = conf.upstreams[t.i + 1], !.tried = tried]
  <2>1. tasks' = [tasks EXCEPT ![h] = v] /\ out' = NoAnswer
    BY <1>7 DEF UpstreamFails
  <2>2. /\ DOMAIN v = TFields /\ v.pc = "waiting" /\ v.w = t.w /\ v.i = t.i + 1 /\ v.up = ups[t.i + 1] /\ v.tried = tried
        /\ v.began = t.began
    BY <1>1, <1>2 DEF TFields
  <2>3. /\ t.began \in Nat /\ t.began <= count.changes /\ t.i \in Nat /\ t.i < Len(ups)
    <3>1. t.began \in Nat /\ t.began <= count.changes /\ t.i \in Nat
      BY <1>1, <1>2 DEF TaskOK
    <3>2. ~(t.i >= Len(ups))
      BY <1>7 DEF GivesUp
    <3> QED BY <1>3, <3>1, <3>2
  <2>4. (t.i + 1) - 1 = t.i /\ t.i + 1 \in 1 .. Len(ups) /\ t.i + 1 \in Nat
    BY <1>3, <2>3
  <2> HIDE DEF v, t, tried
  <2>5. TaskOK(v, conf, count.changes)
    BY <1>2, <1>4, <2>2, <2>3, <2>4 DEF TaskOK
  <2>6. Moves(h)
    <3>1. tasks[h].pc = "waiting"
      BY <1>1 DEF t
    <3> QED BY <2>1, <2>5, <3>1 DEF Moves
  <2>7. Says(out')
    BY <2>1, SilenceSays DEF NoAnswer, Answered
  <2> QED BY <1>5, <2>6, <2>7 DEF Done
<1> QED BY <1>6, <1>7

LEMMA UpstreamEndsDoes ==
  ASSUME ResolverInv, NEW h \in Handlers, UpstreamEnds(h)
  PROVE  Done(h) /\ UNCHANGED <<conf, conn, now, count>>
<1>1. CASE \E response \in Responses, ttl \in TTLs : UpstreamAnswers(h, response, ttl)
  BY <1>1, AnswersDo DEF UpstreamAnswers
<1>3. CASE \E retryable \in BOOLEAN : UpstreamFails(h, retryable)
  BY <1>3, FailsDoes DEF UpstreamFails
<1> QED BY <1>1, <1>3 DEF UpstreamEnds

----------------------------------------------------------------------------
(* The connection.                                                            *)

LEMMA PendingIs ==
  ASSUME StreamOK
  PROVE  LET f == Len(count.frames)
             n == conn.sent - 2 * f IN
         /\ f \in Nat /\ n \in Nat /\ conn.sent = n + 2 * f /\ DOMAIN count.frames = 1 .. f
         /\ conn.pending \in Seq(Nat) /\ Len(conn.pending) = n /\ \A i \in 1 .. n : conn.pending[i] = 2 * f + i
<1> DEFINE f == Len(count.frames)
           n == conn.sent - 2 * f
<1>1. f \in Nat /\ DOMAIN count.frames = 1 .. f
  BY SeqRange DEF StreamOK
<1>2. conn.sent \in Nat /\ 2 * f <= conn.sent
  BY DEF StreamOK
<1>3. n \in Nat /\ conn.sent = n + 2 * f
  BY <1>1, <1>2
<1>4. conn.pending = [i \in 1 .. n |-> 2 * f + i]
  BY DEF StreamOK, FramesWhole
<1> HIDE DEF f, n
<1>5. conn.pending \in Seq(Nat) /\ Len(conn.pending) = n /\ \A i \in 1 .. n : conn.pending[i] = 2 * f + i
  BY <1>1, <1>3, <1>4
<1> QED BY <1>1, <1>3, <1>5 DEF f, n

LEMMA Joined ==
  ASSUME NEW S, NEW a \in Seq(S), NEW b \in Seq(S)
  PROVE  /\ a \o b \in Seq(S) /\ Len(a \o b) = Len(a) + Len(b)
         /\ \A i \in 1 .. Len(a) : (a \o b)[i] = a[i]
         /\ \A i \in Len(a) + 1 .. Len(a) + Len(b) : (a \o b)[i] = b[i - Len(a)]
OBVIOUS

LEMMA DataStream ==
  ASSUME StreamOK, NEW h, NEW n \in Chunks, Data(h, n)
  PROVE  StreamOK'
<1> DEFINE f == Len(count.frames)
           m == conn.sent - 2 * f
           chunk == [i \in 1 .. n |-> conn.sent + i]
<1>1. n \in Nat /\ conn.sent \in Nat /\ conn.sent + n <= 2 * Len(Stream)
  BY ResolverAssumption DEF StreamOK, Data
<1>2. /\ f \in Nat /\ m \in Nat /\ conn.sent = m + 2 * f
      /\ conn.pending \in Seq(Nat) /\ Len(conn.pending) = m /\ \A i \in 1 .. m : conn.pending[i] = 2 * f + i
  BY PendingIs
<1>3. chunk \in Seq(Nat) /\ Len(chunk) = n /\ \A i \in 1 .. n : chunk[i] = conn.sent + i
  BY <1>1
<1>4. /\ DOMAIN conn' = {"sent", "pending", "open"} /\ conn'.sent = conn.sent + n
      /\ conn'.pending = conn.pending \o chunk /\ count' = count
  BY DEF Data, Received, StreamOK
<1> HIDE DEF chunk
<1> DEFINE p == conn.pending
           g == p \o chunk
<1>5. g \in Seq(Nat) /\ Len(g) = m + n /\ (\A i \in 1 .. m : g[i] = p[i]) /\ \A i \in m + 1 .. m + n : g[i] = chunk[i - m]
  <2>1. p \in Seq(Nat) /\ Len(p) = m
    BY <1>2
  <2> HIDE DEF p
  <2>2. /\ p \o chunk \in Seq(Nat) /\ Len(p \o chunk) = Len(p) + Len(chunk)
        /\ \A i \in 1 .. Len(p) : (p \o chunk)[i] = p[i]
        /\ \A i \in Len(p) + 1 .. Len(p) + Len(chunk) : (p \o chunk)[i] = chunk[i - Len(p)]
    BY <1>3, <2>1, Joined
  <2> HIDE DEF m, g
  <2>3. g = p \o chunk
    BY DEF g
  <2> QED BY <1>3, <2>1, <2>2, <2>3
<1>6. ASSUME NEW i \in 1 .. m + n PROVE g[i] = 2 * f + i
  <2> HIDE DEF g, m, f
  <2>1. CASE i \in 1 .. m
    BY <1>2, <1>5, <2>1
  <2>2. CASE i \in m + 1 .. m + n
    <3>1. i - m \in 1 .. n /\ conn.sent + (i - m) = 2 * f + i
      BY <1>1, <1>2, <2>2
    <3> QED BY <1>3, <1>5, <2>2, <3>1
  <2> QED BY <1>1, <1>2, <2>1, <2>2
<1>7. g = [i \in 1 .. m + n |-> 2 * f + i]
  <2>1. DOMAIN g = 1 .. m + n /\ g = [i \in 1 .. m + n |-> g[i]]
    <3> HIDE DEF g, m
    <3> QED BY <1>1, <1>2, <1>5
  <2> HIDE DEF g, m, f
  <2> QED BY <1>6, <2>1
<1> HIDE DEF g, p
<1>8. conn'.sent - 2 * Len(count'.frames) = m + n /\ 2 * f <= conn.sent + n /\ conn.sent + n \in Nat
  <2>1. Len(count'.frames) = f
    BY <1>4
  <2> HIDE DEF m, f
  <2> QED BY <1>1, <1>2, <1>4, <2>1
<1>9. FramesWhole'
  <2>1. \A i \in DOMAIN count.frames : count.frames[i] = <<2 * i - 1, 2 * i>>
    BY DEF StreamOK, FramesWhole
  <2>2. conn'.pending = [i \in 1 .. conn'.sent - 2 * Len(count'.frames) |-> 2 * Len(count'.frames) + i]
    <3>1. conn'.pending = [i \in 1 .. m + n |-> 2 * f + i]
      BY <1>4, <1>7 DEF g, p
    <3>2. Len(count'.frames) = f
      BY <1>4
    <3> HIDE DEF m, f
    <3> QED BY <1>8, <3>1, <3>2
  <2> QED BY <1>4, <2>1, <2>2 DEF FramesWhole
<1> QED BY <1>1, <1>4, <1>8, <1>9 DEF StreamOK

LEMMA FrameStream ==
  ASSUME StreamOK, NEW h, Frame(h)
  PROVE  StreamOK' /\ count'.changes = count.changes /\ QuestionOf(conn.pending[1]) \in Range(Stream)
<1> DEFINE f == Len(count.frames)
           m == conn.sent - 2 * f
           p == conn.pending
           g == SubSeq(p, 3, Len(p))
           one == SubSeq(p, 1, 2)
           frames == Append(count.frames, one)
<1>1. /\ f \in Nat /\ m \in Nat /\ conn.sent = m + 2 * f /\ DOMAIN count.frames = 1 .. f
      /\ p \in Seq(Nat) /\ Len(p) = m /\ \A i \in 1 .. m : p[i] = 2 * f + i
  BY PendingIs
<1>2. m >= 2
  BY <1>1 DEF Frame
<1>3. /\ DOMAIN conn' = {"sent", "pending", "open"} /\ conn'.sent = conn.sent /\ conn'.pending = g
      /\ DOMAIN count' = {"changes", "asked", "frames"} /\ count'.frames = frames /\ count'.changes = count.changes
  BY DEF Frame, StreamOK
<1> HIDE DEF m, p
<1>4. p[1] = 2 * f + 1 /\ p[2] = 2 * f + 2
  BY <1>1, <1>2
<1>5. g \in Seq(Nat) /\ Len(g) = m - 2 /\ DOMAIN g = 1 .. m - 2 /\ \A i \in 1 .. m - 2 : g[i] = p[i + 2]
  BY <1>1, <1>2
<1>6. one = <<2 * f + 1, 2 * f + 2>>
  <2>1. one \in Seq(Nat) /\ Len(one) = 2 /\ one[1] = p[1] /\ one[2] = p[2]
    <3>1. p \in Seq(Nat) /\ Len(p) \in Nat /\ Len(p) >= 2
      BY <1>1, <1>2
    <3> QED BY <3>1
  <2> HIDE DEF one, f
  <2> QED BY <1>1, <1>4, <2>1
<1> HIDE DEF one
<1>7. IsSeq(frames) /\ Len(frames) = f + 1 /\ frames[f + 1] = one /\ \A i \in 1 .. f : frames[i] = count.frames[i]
  <2>1. IsSeq(count.frames)
    BY DEF StreamOK
  <2>2. IsSeq(frames)
    BY <2>1, AppendIs
  <2>3. count.frames \in Seq(Range(count.frames))
    BY <2>1 DEF IsSeq
  <2> QED BY <1>1, <2>2, <2>3
<1> HIDE DEF g
<1>8. g = [i \in 1 .. m - 2 |-> 2 * (f + 1) + i]
  <2>1. \A i \in 1 .. m - 2 : i + 2 \in 1 .. m /\ 2 * f + (i + 2) = 2 * (f + 1) + i
    <3>1. f \in Nat /\ m \in Nat
      BY <1>1
    <3> HIDE DEF f
    <3> QED BY <1>2, <3>1
  <2>2. \A i \in 1 .. m - 2 : g[i] = 2 * (f + 1) + i
    BY <1>1, <1>5, <2>1
  <2>3. g = [i \in 1 .. m - 2 |-> g[i]]
    BY <1>5
  <2> HIDE DEF f
  <2> QED BY <2>2, <2>3
<1> HIDE DEF frames
<1>9. FramesWhole'
  <2>1. \A i \in 1 .. f : count.frames[i] = <<2 * i - 1, 2 * i>>
    BY <1>1 DEF StreamOK, FramesWhole
  <2>2. \A i \in DOMAIN frames : i \in 1 .. f \/ i = f + 1
    <3>1. DOMAIN frames = 1 .. f + 1
      BY <1>7, SeqRange
    <3> QED BY <1>1, <3>1
  <2>3. 2 * (f + 1) - 1 = 2 * f + 1 /\ 2 * (f + 1) = 2 * f + 2
    <3>1. f \in Nat
      BY <1>1
    <3> HIDE DEF f
    <3> QED BY <3>1
  <2>4. \A i \in DOMAIN frames : frames[i] = <<2 * i - 1, 2 * i>>
    BY <1>6, <1>7, <2>1, <2>2, <2>3
  <2>5. conn'.sent - 2 * Len(count'.frames) = m - 2
    BY <1>1, <1>3, <1>7
  <2>6. conn'.pending = [i \in 1 .. conn'.sent - 2 * Len(count'.frames) |-> 2 * Len(count'.frames) + i]
    BY <1>3, <1>7, <1>8, <2>5
  <2> QED BY <1>3, <2>4, <2>6 DEF FramesWhole
<1>10. 2 * (f + 1) <= conn.sent /\ conn.sent \in Nat /\ conn.sent <= 2 * Len(Stream)
  BY <1>1, <1>2 DEF StreamOK
<1>11. StreamOK'
  BY <1>3, <1>7, <1>9, <1>10 DEF StreamOK
<1>12. QuestionOf(conn.pending[1]) \in Range(Stream)
  <2>1. Stream \in Seq(Range(Stream)) /\ Len(Stream) \in Nat /\ DOMAIN Stream = 1 .. Len(Stream)
    BY ResolverAssumption
  <2>2. ((2 * f + 1) + 1) \div 2 = f + 1
    <3>1. f \in Nat
      BY <1>1
    <3> HIDE DEF f
    <3>2. \A x \in Nat : (2 * x) \div 2 = x
      OBVIOUS
    <3>3. (2 * f + 1) + 1 = 2 * (f + 1) /\ f + 1 \in Nat
      BY <3>1
    <3> QED BY <3>2, <3>3
  <2>3. f + 1 \in DOMAIN Stream
    BY <1>1, <1>10, <2>1
  <2> QED BY <1>4, <2>2, <2>3 DEF QuestionOf, Range, p
<1> QED BY <1>3, <1>11, <1>12

----------------------------------------------------------------------------
(* Days and minutes.                                                          *)

LEMMA DivisionIs ==
  ASSUME NEW d \in Nat \ {0}, NEW t \in Nat
  PROVE  t \div d \in Nat /\ t % d \in 0 .. d - 1 /\ t = d * (t \div d) + (t % d)
OBVIOUS

LEMMA TimesIs ==
  ASSUME NEW d \in Nat \ {0}, NEW c \in Nat \ {0}
  PROVE  d * c >= d
<1>1. c - 1 \in Nat /\ d * c = d + d * (c - 1)
  OBVIOUS
<1>2. \A e \in Nat : d * e \in Nat
  OBVIOUS
<1> QED BY <1>1, <1>2

\* There is one quotient and one remainder.
LEMMA DivisionUnique ==
  ASSUME NEW d \in Nat \ {0}, NEW a \in Nat, NEW b \in 0 .. d - 1, NEW x \in Nat, NEW y \in 0 .. d - 1,
         d * a + b = d * x + y
  PROVE  a = x /\ b = y
<1>1. ASSUME NEW p \in Nat, NEW q \in Nat, NEW r \in 0 .. d - 1, NEW s \in 0 .. d - 1, p < q, d * p + r = d * q + s
      PROVE  FALSE
  <2>1. q - p \in Nat \ {0} /\ d * (q - p) = d * q - d * p
    BY <1>1
  <2>2. d * (q - p) >= d
    BY <2>1, TimesIs
  <2>3. d * p \in Int /\ d * q \in Int
    OBVIOUS
  <2> QED BY <1>1, <2>1, <2>2, <2>3
<1>2. ~(a < x) /\ ~(x < a)
  BY <1>1
<1>3. a = x
  BY <1>2
<1> QED BY <1>3

LEMMA DividedIs ==
  ASSUME NEW d \in Nat \ {0}, NEW a \in Nat, NEW b \in 0 .. d - 1
  PROVE  (d * a + b) \div d = a /\ (d * a + b) % d = b
<1> DEFINE t == d * a + b
<1>1. t \in Nat
  <2>1. d * a \in Nat
    OBVIOUS
  <2> QED BY <2>1
<1> HIDE DEF t
<1>2. t \div d \in Nat /\ t % d \in 0 .. d - 1 /\ t = d * (t \div d) + (t % d)
  BY <1>1, DivisionIs
<1>3. t = d * a + b
  BY DEF t
<1>4. t \div d = a /\ t % d = b
  BY <1>2, <1>3, DivisionUnique
<1> QED BY <1>4 DEF t

\* The day before.
LEMMA DayBefore ==
  ASSUME NEW a \in Nat \ {0}
  PROVE  (a - 1) % 7 = ((a % 7) + 6) % 7
OBVIOUS

\* Some minutes back, of the same day or of the day before.
LEMMA Back ==
  ASSUME NEW a \in Nat \ {0}, NEW b \in 0 .. DayLength - 1, NEW back \in 0 .. DayLength - 1
  PROVE  LET t == DayLength * a + b IN
         /\ back <= b => Minutes(t - back) = b - back /\ Weekday(t - back) = a % 7
         /\ back > b => Minutes(t - back) = b + DayLength - back /\ Weekday(t - back) = (a - 1) % 7
<1> DEFINE D == DayLength
           t == D * a + b
<1>1. D \in Nat \ {0}
  BY ResolverAssumption
<1> HIDE DEF D
<1>2. CASE back <= b
  <2>1. b - back \in 0 .. D - 1
    BY <1>1, <1>2 DEF D
  <2>2. (D * a + (b - back)) \div D = a /\ (D * a + (b - back)) % D = b - back
    BY <1>1, <2>1, DividedIs
  <2>3. t - back = D * a + (b - back)
    <3>1. D * a \in Int /\ b \in Int /\ back \in Int
      BY <1>1 DEF D
    <3> QED BY <3>1
  <2> HIDE DEF t
  <2>4. Minutes(t - back) = b - back /\ Weekday(t - back) = a % 7
    BY <2>2, <2>3 DEF Minutes, Weekday, D
  <2>5. ~(back > b)
    BY <1>1, <1>2 DEF D
  <2> QED BY <2>4, <2>5 DEF t, D
<1>3. CASE back > b
  <2>1. b + D - back \in 0 .. D - 1 /\ a - 1 \in Nat
    BY <1>1, <1>3 DEF D
  <2>2. (D * (a - 1) + (b + D - back)) \div D = a - 1 /\ (D * (a - 1) + (b + D - back)) % D = b + D - back
    BY <1>1, <2>1, DividedIs
  <2>3. t - back = D * (a - 1) + (b + D - back)
    <3>1. D * a \in Int /\ b \in Int /\ back \in Int /\ D * (a - 1) = D * a - D
      BY <1>1 DEF D
    <3> QED BY <1>1, <3>1
  <2> HIDE DEF t
  <2>4. Minutes(t - back) = b + D - back /\ Weekday(t - back) = (a - 1) % 7
    BY <2>2, <2>3 DEF Minutes, Weekday, D
  <2>5. ~(back <= b)
    BY <1>1, <1>3 DEF D
  <2> QED BY <2>4, <2>5 DEF t, D
<1>4. back <= b \/ back > b
  BY <1>1 DEF D
<1> QED BY <1>2, <1>3, <1>4

\* InWindow is the run of minutes that a schedule's start and length give.
InRun(s, t) ==
  LET length == (s.end + DayLength - s.start) % DayLength IN
  IF length = 0 THEN Weekday(t) \in s.days
  ELSE \E back \in 0 .. length - 1 : Minutes(t - back) = s.start /\ Weekday(t - back) \in s.days

LEMMA WindowIs ==
  ASSUME NEW s \in Schedules, NEW a \in Nat \ {0}, NEW b \in 0 .. DayLength - 1
  PROVE  InWindow(s, DayLength * a + b) <=> InRun(s, DayLength * a + b)
<1> DEFINE D == DayLength
           t == D * a + b
           length == (s.end + D - s.start) % D
           in == InWindow(s, t)
           run == \E back \in 0 .. length - 1 : Minutes(t - back) = s.start /\ Weekday(t - back) \in s.days
<1>1. D \in Nat \ {0} /\ s.start \in 0 .. D - 1 /\ s.end \in 0 .. D - 1
  BY ResolverAssumption
<1>2. Minutes(t) = b /\ Weekday(t) = a % 7
  BY <1>1, DividedIs DEF Minutes, Weekday
<1>3. (a - 1) % 7 = ((a % 7) + 6) % 7
  BY DayBefore
<1>4. ASSUME NEW back \in 0 .. D - 1
      PROVE  /\ back <= b => Minutes(t - back) = b - back /\ Weekday(t - back) = a % 7
             /\ back > b => Minutes(t - back) = b + D - back /\ Weekday(t - back) = (a - 1) % 7
  BY Back
<1>5. \A x \in Nat, y \in 0 .. D - 1 : (D * x + y) % D = y
  BY <1>1, DividedIs
<1> HIDE DEF D, t
<1>6. s.end = s.start => length = 0
  <2>1. (D * 1 + 0) % D = 0
    BY <1>1, <1>5
  <2> QED BY <1>1, <2>1
<1>7. s.end > s.start => length = s.end - s.start
  <2> SUFFICES ASSUME s.end > s.start PROVE length = s.end - s.start
    OBVIOUS
  <2>1. s.end - s.start \in 0 .. D - 1
    BY <1>1
  <2>2. (D * 1 + (s.end - s.start)) % D = s.end - s.start
    BY <1>5, <2>1
  <2>3. D * 1 + (s.end - s.start) = s.end + D - s.start
    BY <1>1
  <2> QED BY <2>2, <2>3
<1>8. s.end < s.start => length = s.end + D - s.start
  <2> SUFFICES ASSUME s.end < s.start PROVE length = s.end + D - s.start
    OBVIOUS
  <2>1. s.end + D - s.start \in 0 .. D - 1
    BY <1>1
  <2>2. (D * 0 + (s.end + D - s.start)) % D = s.end + D - s.start
    BY <1>5, <2>1
  <2>3. D * 0 + (s.end + D - s.start) = s.end + D - s.start
    BY <1>1, <2>1
  <2> QED BY <2>2, <2>3
<1> HIDE DEF length
<1>9. CASE s.start = s.end
  <2>1. in <=> Weekday(t) \in s.days
    BY <1>9 DEF InWindow
  <2>2. length = 0
    BY <1>6, <1>9
  <2> QED BY <2>1, <2>2 DEF InRun, t, D, length
<1>10. CASE s.start < s.end
  <2>1. in <=> a % 7 \in s.days /\ b >= s.start /\ b < s.end
    BY <1>1, <1>2, <1>10 DEF InWindow
  <2>2. length = s.end - s.start /\ length # 0 /\ length \in 0 .. D - 1
    BY <1>1, <1>7, <1>10
  <2>3. ASSUME in PROVE run
    <3>1. b - s.start \in 0 .. length - 1 /\ b - s.start \in 0 .. D - 1 /\ b - s.start <= b /\ b - (b - s.start) = s.start
      BY <1>1, <2>1, <2>2, <2>3 DEF D
    <3>2. Minutes(t - (b - s.start)) = s.start /\ Weekday(t - (b - s.start)) = a % 7
      BY <1>4, <3>1
    <3> QED BY <2>1, <2>3, <3>1, <3>2
  <2>4. ASSUME run PROVE in
    <3>1. PICK back \in 0 .. length - 1 : Minutes(t - back) = s.start /\ Weekday(t - back) \in s.days
      BY <2>4
    <3>2. back \in 0 .. D - 1 /\ back <= length - 1
      BY <1>1, <2>2
    <3>3. CASE back <= b
      <4>1. b - back = s.start /\ a % 7 \in s.days
        BY <1>4, <3>1, <3>2, <3>3
      <4>2. b >= s.start /\ b < s.end
        BY <1>1, <2>2, <3>2, <3>3, <4>1 DEF D
      <4> QED BY <2>1, <4>1, <4>2
    <3>4. CASE back > b
      <4>1. b + D - back = s.start
        BY <1>4, <3>1, <3>2, <3>4
      <4> QED BY <1>1, <2>2, <3>2, <3>4, <4>1 DEF D
    <3> QED BY <1>1, <3>2, <3>3, <3>4 DEF D
  <2> QED BY <2>2, <2>3, <2>4 DEF InRun, t, D, length
<1>11. CASE s.start > s.end
  <2>1. in <=> IF b >= s.start THEN a % 7 \in s.days ELSE b < s.end /\ ((a % 7) + 6) % 7 \in s.days
    BY <1>1, <1>2, <1>11 DEF InWindow
  <2>2. length = s.end + D - s.start /\ length # 0 /\ length \in 0 .. D - 1
    BY <1>1, <1>8, <1>11
  <2>3. ASSUME in PROVE run
    <3>1. CASE b >= s.start
      <4>1. b - s.start \in 0 .. length - 1 /\ b - s.start \in 0 .. D - 1 /\ b - s.start <= b /\ b - (b - s.start) = s.start
        BY <1>1, <2>2, <3>1 DEF D
      <4>2. Minutes(t - (b - s.start)) = s.start /\ Weekday(t - (b - s.start)) = a % 7
        BY <1>4, <4>1
      <4> QED BY <2>1, <2>3, <3>1, <4>1, <4>2
    <3>2. CASE ~(b >= s.start)
      <4> DEFINE back == b + D - s.start
      <4>1. b < s.end /\ ((a % 7) + 6) % 7 \in s.days
        BY <2>1, <2>3, <3>2
      <4>2. back \in 0 .. length - 1 /\ back \in 0 .. D - 1 /\ back > b /\ b + D - back = s.start
        BY <1>1, <2>2, <3>2, <4>1 DEF D
      <4> HIDE DEF back
      <4>3. Minutes(t - back) = s.start /\ Weekday(t - back) = (a - 1) % 7
        BY <1>4, <4>2
      <4> QED BY <1>3, <4>1, <4>2, <4>3
    <3> QED BY <3>1, <3>2
  <2>4. ASSUME run PROVE in
    <3>1. PICK back \in 0 .. length - 1 : Minutes(t - back) = s.start /\ Weekday(t - back) \in s.days
      BY <2>4
    <3>2. back \in 0 .. D - 1 /\ back <= length - 1
      BY <1>1, <2>2
    <3>3. CASE back <= b
      <4>1. b - back = s.start /\ a % 7 \in s.days
        BY <1>4, <3>1, <3>2, <3>3
      <4>2. b >= s.start
        BY <1>1, <3>2, <3>3, <4>1 DEF D
      <4> QED BY <2>1, <4>1, <4>2
    <3>4. CASE back > b
      <4>1. b + D - back = s.start /\ (a - 1) % 7 \in s.days
        BY <1>4, <3>1, <3>2, <3>4
      <4>2. b < s.end /\ ~(b >= s.start)
        BY <1>1, <1>11, <2>2, <3>2, <3>4, <4>1 DEF D
      <4> QED BY <1>3, <2>1, <4>1, <4>2
    <3> QED BY <1>1, <3>2, <3>3, <3>4 DEF D
  <2> QED BY <2>2, <2>3, <2>4 DEF InRun, t, D, length
<1> QED BY <1>1, <1>9, <1>10, <1>11

LEMMA WindowsRun ==
  ASSUME now \in Nat
  PROVE  WindowsAreRuns
<1> SUFFICES ASSUME NEW s \in Schedules, NEW d \in 7 .. 13, NEW m \in 0 .. DayLength - 2
             PROVE  InWindow(s, now + d * DayLength + m) <=> InRun(s, now + d * DayLength + m)
  BY DEF WindowsAreRuns, InRun
<1> DEFINE t == now + d * DayLength + m
           D == DayLength
           a == t \div D
           b == t % D
<1>1. D \in Nat \ {0}
  BY ResolverAssumption
<1>2. d * D \in Nat /\ d * D >= D
  <2>1. d \in Nat \ {0}
    OBVIOUS
  <2> HIDE DEF D
  <2>2. D * d >= D /\ D * d = d * D
    BY <1>1, <2>1, TimesIs
  <2> QED BY <1>1, <2>1, <2>2
<1>3. t \in Nat /\ t >= D
  <2>1. m \in Nat
    OBVIOUS
  <2> DEFINE p == d * D
  <2>2. t = now + p + m
    OBVIOUS
  <2> HIDE DEF t, D, p
  <2>3. p \in Nat /\ p >= D
    BY <1>2 DEF p
  <2> QED BY <1>1, <2>1, <2>2, <2>3
<1> HIDE DEF t, D
<1>4. a \in Nat /\ b \in 0 .. D - 1 /\ t = D * a + b
  BY <1>1, <1>3, DivisionIs
<1>5. a # 0
  <2>1. SUFFICES ASSUME a = 0 PROVE FALSE
    OBVIOUS
  <2>2. D * 0 = 0
    BY <1>1
  <2> HIDE DEF a, b
  <2> QED BY <1>1, <1>3, <1>4, <2>1, <2>2
<1> HIDE DEF a, b
<1>6. InWindow(s, D * a + b) <=> InRun(s, D * a + b)
  BY <1>4, <1>5, WindowIs DEF D
<1>7. InWindow(s, t) <=> InRun(s, t)
  BY <1>4, <1>6
<1> QED BY <1>7 DEF t

----------------------------------------------------------------------------
(* The steps.                                                                 *)

StepRight == ResolverInv' /\ LocalFirst /\ CacheIsFresh /\ LeastRecentlyUsed

LEMMA CacheRight == ASSUME DropsOldest(cache') PROVE LeastRecentlyUsed
BY DEF DropsOldest, LeastRecentlyUsed, Precedes, Keys

\* A handler moves on.
LEMMA DoneKeeps ==
  ASSUME ResolverInv, NEW h \in Handlers, Done(h), StreamOK', UNCHANGED <<conf, now>>, count'.changes = count.changes
  PROVE  StepRight
<1>1. PICK t : /\ tasks' = [tasks EXCEPT ![h] = t] /\ TaskOK(t, conf, count.changes)
               /\ t.pc = "waiting" /\ tasks[h].pc # "waiting" => Foreign(t.w.q)
  BY DEF Done, Moves
<1>2. DOMAIN tasks' = Handlers /\ tasks'[h] = t /\ \A x \in Handlers \ {h} : tasks'[x] = tasks[x]
  BY <1>1 DEF ResolverInv
<1>3. \A x \in Handlers : TaskOK(tasks'[x], conf', count'.changes)
  BY <1>1, <1>2 DEF ResolverInv
<1>4. Says(out') /\ HeldOK(cache', seen'.used, seen'.stored) /\ DropsOldest(cache')
  BY DEF Done, CacheMoves
<1>5. ResolverInv'
  BY <1>2, <1>3, <1>4 DEF ResolverInv, Says
<1>6. LocalFirst
  BY <1>1, <1>2, <1>4 DEF LocalFirst, Says
<1>7. CacheIsFresh
  BY <1>4 DEF CacheIsFresh, Says, Fresh
<1> QED BY <1>4, <1>5, <1>6, <1>7, CacheRight DEF StepRight

\* A step that answers nothing and leaves the cache alone.
LEMMA QuietKeeps ==
  ASSUME ResolverInv, out' = NoAnswer, UNCHANGED <<cache, seen>>, StreamOK',
         conf' \in Confs \cup {FirstConf}, now' \in 0 .. MaxTime, count'.changes \in Nat,
         DOMAIN tasks' = Handlers, \A x \in Handlers : TaskOK(tasks'[x], conf', count'.changes),
         \A x \in Handlers : tasks'[x].pc = "waiting" => tasks[x].pc = "waiting"
  PROVE  StepRight
<1>1. out'.from = "none"
  BY DEF NoAnswer
<1>2. OutOK(out')
  BY <1>1 DEF OutOK, Answered
<1>3. CacheMoves
  BY CacheStays
<1>4. ResolverInv'
  BY <1>2, <1>3 DEF ResolverInv, CacheMoves
<1>5. LocalFirst /\ CacheIsFresh
  BY <1>1 DEF LocalFirst, CacheIsFresh
<1> QED BY <1>3, <1>4, <1>5, CacheRight DEF StepRight, CacheMoves

LEMMA StreamStays ==
  ASSUME StreamOK, conn'.sent = conn.sent, conn'.pending = conn.pending, DOMAIN conn' = DOMAIN conn,
         count'.frames = count.frames, DOMAIN count' = DOMAIN count
  PROVE  StreamOK'
BY DEF StreamOK, FramesWhole

LEMMA AskKeeps ==
  ASSUME ResolverInv, NEW h \in Handlers, NEW q \in Questions, Ask(h, q)
  PROVE  StepRight
<1>1. Question(q)
  BY ResolverAssumption
<1>2. Done(h)
  BY <1>1, BeginDoes DEF Ask
<1>3. /\ UNCHANGED <<conf, conn, now>> /\ count'.changes = count.changes /\ count'.frames = count.frames
      /\ DOMAIN count' = DOMAIN count
  BY DEF Ask, ResolverInv, StreamOK
<1>4. StreamOK'
  BY <1>3, StreamStays DEF ResolverInv
<1> QED BY <1>2, <1>3, <1>4, DoneKeeps

LEMMA UpstreamKeeps ==
  ASSUME ResolverInv, NEW h \in Handlers, UpstreamEnds(h)
  PROVE  StepRight
<1>1. Done(h) /\ UNCHANGED <<conf, conn, now, count>>
  BY UpstreamEndsDoes
<1>2. StreamOK'
  BY <1>1, StreamStays DEF ResolverInv
<1> QED BY <1>1, <1>2, DoneKeeps

\* A handler that does not wait for an upstream.
Unwaiting(t) == t.pc \in {"idle", "next"}
Freed(h) == \E t : Unwaiting(t) /\ tasks' = [tasks EXCEPT ![h] = t]

LEMMA FreeIs ==
  ASSUME ResolverInv, NEW h \in Handlers, Freed(h)
  PROVE  /\ DOMAIN tasks' = Handlers /\ \A x \in Handlers : TaskOK(tasks'[x], conf, count.changes)
         /\ \A x \in Handlers : tasks'[x].pc = "waiting" => tasks[x].pc = "waiting"
<1> PICK t : t.pc \in {"idle", "next"} /\ tasks' = [tasks EXCEPT ![h] = t]
  BY DEF Freed, Unwaiting
<1>1. DOMAIN tasks' = Handlers /\ tasks'[h] = t /\ \A x \in Handlers \ {h} : tasks'[x] = tasks[x]
  BY DEF ResolverInv
<1>2. TaskOK(t, conf, count.changes) /\ t.pc # "waiting"
  BY DEF TaskOK
<1> QED BY <1>1, <1>2 DEF ResolverInv

LEMMA DataKeeps ==
  ASSUME ResolverInv, NEW h \in Handlers, NEW n \in Chunks, Data(h, n)
  PROVE  StepRight
<1>1. Freed(h)
  <2> DEFINE t == [pc |-> "next"]
  <2>1. Unwaiting(t)
    BY DEF Unwaiting
  <2>2. tasks' = [tasks EXCEPT ![h] = t]
    BY DEF Data
  <2> HIDE DEF t
  <2> QED BY <2>1, <2>2 DEF Freed
<1>2. /\ DOMAIN tasks' = Handlers /\ \A x \in Handlers : TaskOK(tasks'[x], conf, count.changes)
      /\ \A x \in Handlers : tasks'[x].pc = "waiting" => tasks[x].pc = "waiting"
  BY <1>1, FreeIs
<1>3. StreamOK'
  BY DataStream DEF ResolverInv
<1>4. out' = NoAnswer /\ UNCHANGED <<conf, cache, now, count, seen>>
  BY DEF Data
<1>5. conf' \in Confs \cup {FirstConf} /\ now' \in 0 .. MaxTime /\ count'.changes \in Nat
  BY <1>4 DEF ResolverInv
<1> QED BY <1>2, <1>3, <1>4, <1>5, QuietKeeps

LEMMA FrameKeeps ==
  ASSUME ResolverInv, NEW h \in Handlers, Frame(h)
  PROVE  StepRight
<1>1. StreamOK' /\ count'.changes = count.changes /\ QuestionOf(conn.pending[1]) \in Range(Stream)
  BY FrameStream DEF ResolverInv
<1> DEFINE q == QuestionOf(conn.pending[1])
<1>2. Question(q) /\ Begin(h, q, "tcp") /\ UNCHANGED <<conf, now>>
  BY <1>1, ResolverAssumption DEF Frame
<1> HIDE DEF q
<1>3. Done(h)
  BY <1>2, BeginDoes
<1> QED BY <1>1, <1>2, <1>3, DoneKeeps

LEMMA FrameEndsKeeps ==
  ASSUME ResolverInv, NEW h \in Handlers, FrameEnds(h)
  PROVE  StepRight
<1>1. Freed(h)
  <2>1. Unwaiting(Idle)
    BY DEF Idle, Unwaiting
  <2>2. tasks' = [tasks EXCEPT ![h] = Idle]
    BY DEF FrameEnds
  <2> QED BY <2>1, <2>2 DEF Freed
<1>2. /\ DOMAIN tasks' = Handlers /\ \A x \in Handlers : TaskOK(tasks'[x], conf, count.changes)
      /\ \A x \in Handlers : tasks'[x].pc = "waiting" => tasks[x].pc = "waiting"
  BY <1>1, FreeIs
<1>3. conn'.sent = conn.sent /\ conn'.pending = conn.pending /\ DOMAIN conn' = DOMAIN conn
  BY DEF FrameEnds, ResolverInv, StreamOK
<1>4. out' = NoAnswer /\ UNCHANGED <<conf, cache, now, count, seen>>
  BY DEF FrameEnds
<1>5. StreamOK'
  BY <1>3, <1>4, StreamStays DEF ResolverInv
<1>6. conf' \in Confs \cup {FirstConf} /\ now' \in 0 .. MaxTime /\ count'.changes \in Nat
  BY <1>4 DEF ResolverInv
<1> QED BY <1>2, <1>4, <1>5, <1>6, QuietKeeps

LEMMA OthersKeep ==
  ASSUME ResolverInv, Disconnect \/ (\E cf \in Confs : Reconfigure(cf)) \/ Tick
  PROVE  StepRight
<1>1. CASE Disconnect
  <2>1. conn'.sent = conn.sent /\ conn'.pending = conn.pending /\ DOMAIN conn' = DOMAIN conn
    BY <1>1 DEF Disconnect, ResolverInv, StreamOK
  <2>2. out' = NoAnswer /\ UNCHANGED <<conf, cache, tasks, now, count, seen>>
    BY <1>1 DEF Disconnect
  <2>3. StreamOK'
    BY <2>1, <2>2, StreamStays DEF ResolverInv
  <2>4. /\ conf' \in Confs \cup {FirstConf} /\ now' \in 0 .. MaxTime /\ count'.changes \in Nat
        /\ DOMAIN tasks' = Handlers /\ \A x \in Handlers : TaskOK(tasks'[x], conf', count'.changes)
    BY <2>2 DEF ResolverInv
  <2> QED BY <2>2, <2>3, <2>4, QuietKeeps
<1>2. CASE \E cf \in Confs : Reconfigure(cf)
  <2>1. PICK cf \in Confs : Reconfigure(cf)
    BY <1>2
  <2>2. /\ out' = NoAnswer /\ UNCHANGED <<cache, tasks, conn, now, seen>> /\ conf' = cf
        /\ count'.changes = count.changes + 1 /\ count'.frames = count.frames /\ DOMAIN count' = DOMAIN count
    BY <2>1 DEF Reconfigure, ResolverInv, StreamOK
  <2>3. StreamOK'
    BY <2>2, StreamStays DEF ResolverInv
  <2>4. ASSUME NEW x \in Handlers PROVE TaskOK(tasks'[x], conf', count'.changes)
    <3>1. TaskOK(tasks[x], conf, count.changes) /\ count.changes \in Nat
      BY DEF ResolverInv
    <3>2. tasks[x].pc = "waiting" => tasks[x].began <= count.changes + 1 /\ tasks[x].began # count.changes + 1
      BY <3>1 DEF TaskOK
    <3> QED BY <2>2, <3>1, <3>2 DEF TaskOK
  <2>5. conf' \in Confs \cup {FirstConf} /\ now' \in 0 .. MaxTime /\ count'.changes \in Nat /\ DOMAIN tasks' = Handlers
    BY <2>2 DEF ResolverInv
  <2> QED BY <2>2, <2>3, <2>4, <2>5, QuietKeeps
<1>3. CASE Tick
  <2>1. out' = NoAnswer /\ UNCHANGED <<conf, cache, tasks, conn, count, seen>> /\ now' = now + 1 /\ now < MaxTime
    BY <1>3 DEF Tick
  <2>2. StreamOK'
    BY <2>1, StreamStays DEF ResolverInv
  <2>3. /\ conf' \in Confs \cup {FirstConf} /\ now' \in 0 .. MaxTime /\ count'.changes \in Nat
        /\ DOMAIN tasks' = Handlers /\ \A x \in Handlers : TaskOK(tasks'[x], conf', count'.changes)
    BY <2>1, ResolverAssumption DEF ResolverInv
  <2> QED BY <2>1, <2>2, <2>3, QuietKeeps
<1> QED BY <1>1, <1>2, <1>3

LEMMA ResolverStep == ASSUME ResolverInv, Next PROVE StepRight
<1>1. CASE \E h \in Handlers : \E q \in Questions : Ask(h, q)
  BY <1>1, AskKeeps
<1>2. CASE \E h \in Handlers : UpstreamEnds(h)
  BY <1>2, UpstreamKeeps
<1>3. CASE \E h \in Handlers : \E n \in Chunks : Data(h, n)
  BY <1>3, DataKeeps
<1>4. CASE \E h \in Handlers : Frame(h)
  BY <1>4, FrameKeeps
<1>5. CASE \E h \in Handlers : FrameEnds(h)
  BY <1>5, FrameEndsKeeps
<1>6. CASE Disconnect \/ (\E cf \in Confs : Reconfigure(cf)) \/ Tick
  BY <1>6, OthersKeep
<1> QED BY <1>1, <1>2, <1>3, <1>4, <1>5, <1>6 DEF Next

LEMMA ResolverInit == ASSUME Init PROVE ResolverInv
<1> USE DEF Init
<1>1. IsSeq(<<>>) /\ Len(<<>>) = 0 /\ Range(<<>>) = {} /\ DOMAIN <<>> = {}
  BY <<>> \in Seq(Range(<<>>)) DEF IsSeq, Range
<1>2. \A h \in Handlers : TaskOK(tasks[h], conf, count.changes)
  BY DEF TaskOK, Idle
<1>3. HeldOK(cache, seen.used, seen.stored)
  BY <1>1, ResolverAssumption DEF HeldOK, CacheOK, UsedOK, StoredOK, Keys, Precedes
<1>4. StreamOK
  <2>1. 2 * Len(Stream) >= 0 /\ Len(Stream) \in Nat
    BY ResolverAssumption
  <2>2. conn.sent = 0 /\ conn.pending = <<>> /\ count.frames = <<>>
    OBVIOUS
  <2>3. [i \in 1 .. 0 - 2 * 0 |-> 2 * 0 + i] = <<>>
    OBVIOUS
  <2>4. FramesWhole
    BY <1>1, <2>2, <2>3 DEF FramesWhole
  <2> QED BY <1>1, <2>1, <2>2, <2>4 DEF StreamOK
<1>5. OutOK(out)
  BY DEF OutOK, Answered, NoAnswer
<1>6. now \in 0 .. MaxTime
  BY ResolverAssumption
<1> QED BY <1>2, <1>3, <1>4, <1>5, <1>6 DEF ResolverInv

LEMMA ResolverInvariance == Spec => []ResolverInv
<1>1. ResolverInv /\ [Next]_vars => ResolverInv'
  <2>1. ASSUME ResolverInv, UNCHANGED vars PROVE ResolverInv'
    BY <2>1 DEF vars, ResolverInv, StreamOK, FramesWhole
  <2> QED BY <2>1, ResolverStep DEF StepRight
<1> QED BY <1>1, ResolverInit, PTL DEF Spec

\* No question fails for want of an upstream that was not tried, unless the list
\* changed under it or an upstream refused for good (queryUpstreams).
THEOREM UpstreamsAreTried == Spec => []EveryUpstreamTried
<1>1. ResolverInv => EveryUpstreamTried
  BY DEF ResolverInv, OutOK, EveryUpstreamTried
<1> QED BY <1>1, ResolverInvariance, PTL

\* Connections, cache and handlers are well formed, however many handlers share
\* a connection and however its stream is cut (handleTcp, DnsCache).
THEOREM ResolverConsistent == Spec => []Consistent
<1>1. ResolverInv => Consistent
  <2> SUFFICES ASSUME ResolverInv PROVE Consistent
    OBVIOUS
  <2>1. \A i, j \in DOMAIN cache : cache[i].key = cache[j].key => i = j
    <3> SUFFICES ASSUME NEW i \in DOMAIN cache, NEW j \in DOMAIN cache, cache[i].key = cache[j].key PROVE i = j
      OBVIOUS
    <3>1. ~(i < j) /\ ~(j < i)
      BY DEF ResolverInv, HeldOK, CacheOK, Precedes
    <3>2. DOMAIN cache = 1 .. Len(cache) /\ Len(cache) \in Nat
      BY SeqRange DEF ResolverInv, HeldOK, CacheOK
    <3> QED BY <3>1, <3>2
  <2>2. TypeOK
    BY <2>1 DEF TypeOK, ResolverInv, TaskOK, HeldOK, CacheOK
  <2> QED BY <2>2 DEF Consistent, ResolverInv, StreamOK
<1> QED BY <1>1, ResolverInvariance, PTL

LEMMA InvLeads == ASSUME ResolverInv PROVE AliasesLead
<1>1. OutOK(out)
  BY DEF ResolverInv
<1>2. CASE out.from \in {"local", "failed"}
  BY <1>1, <1>2 DEF OutOK, LeadsRight, AliasesLead, Section
<1>3. CASE out.from \in {"cache", "upstream"}
  <2>1. SectionRight(out.q, out.asked, out.raw, out.resp)
    BY <1>1, <1>3 DEF OutOK
  <2>2. Section(out) = out.raw.recs /\ Opaque(out) = Mark(out.asked)
    BY <1>3 DEF Section, Opaque, Mark
  <2> QED BY <1>3, <2>1, <2>2 DEF SectionRight, HandsOn, AliasesLead
<1>4. CASE out.from \notin {"local", "cache", "upstream", "failed"}
  BY <1>4 DEF AliasesLead
<1> QED BY <1>2, <1>3, <1>4

\* The records of any answer lead from the question along its aliases, whether
\* policies, zones, records, the cache or an upstream gave them, and the chain is
\* no longer than it may be (resolveInternal, followUpQuery).
THEOREM AnswersAlwaysLead == Spec => []AliasesLead
<1> QED BY InvLeads, ResolverInvariance, PTL

\* What comes from the cache is due to come from it: nothing local answers the
\* question, it is what was stored last and it is alive; and what the cache drops
\* in its time is what was used longest ago (DnsCache, resolveInternal).
THEOREM CacheStaysRight == Spec => CacheIsRight
<1>1. ResolverInv /\ [Next]_vars => [LocalFirst /\ CacheIsFresh /\ LeastRecentlyUsed]_vars
  BY ResolverStep DEF StepRight
<1> QED BY <1>1, ResolverInvariance, PTL DEF Spec, CacheIsRight

\* The windows of policies are runs of minutes, whatever the length of a day, on
\* which days and over midnight (scheduleMatches).
THEOREM WindowsAlwaysRun == Spec => []WindowsAreRuns
<1>1. ResolverInv => WindowsAreRuns
  BY WindowsRun DEF ResolverInv
<1> QED BY <1>1, ResolverInvariance, PTL

----------------------------------------------------------------------------
(* PolicySubscriptions, for any number of URLs and of calls that overlap.     *)

\* The inductive invariant: the properties need each other.  A timer is armed
\* only for an active manager, which is not closed; and an active manager got
\* there by a start that ends by arming a timer.
ListsInv ==
    /\ ListsTypeOK
    /\ QuietUnlessActive
    /\ ClosedStaysClosed
    /\ KeepsRefreshing

USE NoneAssumption

\* An enabled subscription has a URL.
LEMMA EnabledHasUrl ==
    ASSUME subscription \in Configurations, subscription.enabled
    PROVE  subscription.url \in Urls
BY DEF Configurations, Absent

\* What the parts of the operations return.
LEMMA PartTypes ==
    ASSUME ListsTypeOK
    PROVE  /\ subscription.url \in Lists
           /\ Refreshed \in Lists
           /\ \A c \in Lists : Rebuilt(c) \in Lists
           /\ \A s \in Slots : awaiting[s].stage = "read" => Loaded(awaiting[s]) \in Lists
<1>1. subscription.url \in Lists
  BY DEF ListsTypeOK, Configurations, Absent, Lists
<1>2. Refreshed \in Lists
  BY <1>1 DEF ListsTypeOK, Refreshed
<1>3. \A c \in Lists : Rebuilt(c) \in Lists
  BY DEF Rebuilt, Lists
<1>4. ASSUME NEW s \in Slots, awaiting[s].stage = "read"
      PROVE  Loaded(awaiting[s]) \in Lists
  <2>1. awaiting[s] \in [stage: {"read"}, call: Calls, restart: BOOLEAN, for: Lists, good: BOOLEAN]
    BY <1>4 DEF ListsTypeOK, Task, NoTask
  <2> QED
    BY <2>1 DEF ListsTypeOK, Loaded
<1> QED
  BY <1>1, <1>2, <1>3, <1>4

LEMMA InitEstablishes == ListsInit => ListsInv
<1> SUFFICES ASSUME ListsInit PROVE ListsInv
  OBVIOUS
<1>1. ListsTypeOK
  BY DEF ListsInit, ListsTypeOK, Lists, Task
<1>2. QuietUnlessActive /\ ClosedStaysClosed /\ KeepsRefreshing
  BY DEF ListsInit, QuietUnlessActive, ClosedStaysClosed, KeepsRefreshing
<1> QED
  BY <1>1, <1>2 DEF ListsInv

LEMMA StartKeeps ==
    ASSUME ListsInv, NEW s \in Slots, Start(s)
    PROVE  ListsInv'
<1>1. ListsTypeOK'
  BY PartTypes DEF ListsInv, ListsTypeOK, Lists, Task, Calls, NoTask, Start, Free, MayStart, Becomes, StartTask
<1>2. QuietUnlessActive'
  BY DEF ListsInv, ListsTypeOK, QuietUnlessActive, Start, Free, MayStart, Becomes, StartTask
<1>3. ClosedStaysClosed'
  BY DEF ListsInv, ListsTypeOK, ClosedStaysClosed, Start, Free, MayStart, Becomes, StartTask
<1>4. KeepsRefreshing'
  BY EnabledHasUrl DEF ListsInv, ListsTypeOK, ClosedStaysClosed, KeepsRefreshing, Start, Free, MayStart, Becomes, StartTask, NoTask
<1> QED
  BY <1>1, <1>2, <1>3, <1>4 DEF ListsInv

LEMMA PauseKeeps ==
    ASSUME ListsInv, Pause
    PROVE  ListsInv'
<1>1. ListsTypeOK'
  BY PartTypes DEF ListsInv, ListsTypeOK, Lists, Task, Calls, NoTask, Pause
<1>2. QuietUnlessActive'
  BY DEF ListsInv, ListsTypeOK, QuietUnlessActive, Pause
<1>3. ClosedStaysClosed'
  BY DEF ListsInv, ListsTypeOK, ClosedStaysClosed, Pause
<1>4. KeepsRefreshing'
  BY EnabledHasUrl DEF ListsInv, ListsTypeOK, ClosedStaysClosed, KeepsRefreshing, Pause, Free, NoTask
<1> QED
  BY <1>1, <1>2, <1>3, <1>4 DEF ListsInv

LEMMA ReplaceKeeps ==
    ASSUME ListsInv, NEW s \in Slots, NEW c \in Configurations, Replace(s, c)
    PROVE  ListsInv'
<1>1. ListsTypeOK'
  BY PartTypes DEF ListsInv, ListsTypeOK, Lists, Task, Calls, NoTask, Replace, Free, Becomes
<1>2. QuietUnlessActive'
  BY DEF ListsInv, ListsTypeOK, QuietUnlessActive, Replace, Free, Becomes
<1>3. ClosedStaysClosed'
  BY DEF ListsInv, ListsTypeOK, ClosedStaysClosed, Replace, Free, Becomes
<1>4. KeepsRefreshing'
  BY EnabledHasUrl DEF ListsInv, ListsTypeOK, ClosedStaysClosed, KeepsRefreshing, Replace, Free, Becomes, NoTask
<1> QED
  BY <1>1, <1>2, <1>3, <1>4 DEF ListsInv

LEMMA ManualRefreshKeeps ==
    ASSUME ListsInv, ManualRefresh
    PROVE  ListsInv'
<1>1. ListsTypeOK'
  BY PartTypes DEF ListsInv, ListsTypeOK, Lists, Task, Calls, NoTask, ManualRefresh
<1>2. QuietUnlessActive'
  BY DEF ListsInv, ListsTypeOK, QuietUnlessActive, ManualRefresh
<1>3. ClosedStaysClosed'
  BY DEF ListsInv, ListsTypeOK, ClosedStaysClosed, ManualRefresh
<1>4. KeepsRefreshing'
  BY EnabledHasUrl DEF ListsInv, ListsTypeOK, ClosedStaysClosed, KeepsRefreshing, ManualRefresh, Free, NoTask
<1> QED
  BY <1>1, <1>2, <1>3, <1>4 DEF ListsInv

LEMMA CloseKeeps ==
    ASSUME ListsInv, Close
    PROVE  ListsInv'
<1>1. ListsTypeOK'
  BY PartTypes DEF ListsInv, ListsTypeOK, Lists, Task, Calls, NoTask, Close
<1>2. QuietUnlessActive'
  BY DEF ListsInv, ListsTypeOK, QuietUnlessActive, Close
<1>3. ClosedStaysClosed'
  BY DEF ListsInv, ListsTypeOK, ClosedStaysClosed, Close
<1>4. KeepsRefreshing'
  BY EnabledHasUrl DEF ListsInv, ListsTypeOK, ClosedStaysClosed, KeepsRefreshing, Close, Free, NoTask
<1> QED
  BY <1>1, <1>2, <1>3, <1>4 DEF ListsInv

LEMMA MkdirDoneKeeps ==
    ASSUME ListsInv, NEW s \in Slots, MkdirDone(s)
    PROVE  ListsInv'
<1>1. ListsTypeOK'
  BY PartTypes DEF ListsInv, ListsTypeOK, Lists, Task, Calls, NoTask, MkdirDone, Becomes
<1>2. QuietUnlessActive'
  BY DEF ListsInv, ListsTypeOK, QuietUnlessActive, MkdirDone, Becomes
<1>3. ClosedStaysClosed'
  BY DEF ListsInv, ListsTypeOK, ClosedStaysClosed, MkdirDone, Becomes
<1>4. KeepsRefreshing'
  BY EnabledHasUrl DEF ListsInv, ListsTypeOK, ClosedStaysClosed, KeepsRefreshing, MkdirDone, Becomes, Free, NoTask
<1> QED
  BY <1>1, <1>2, <1>3, <1>4 DEF ListsInv

LEMMA FileReadKeeps ==
    ASSUME ListsInv, NEW s \in Slots, FileRead(s)
    PROVE  ListsInv'
<1>1. ListsTypeOK'
  BY PartTypes DEF ListsInv, ListsTypeOK, Lists, Task, Calls, NoTask, FileRead, Becomes
<1>2. QuietUnlessActive'
  BY DEF ListsInv, ListsTypeOK, QuietUnlessActive, FileRead, Becomes
<1>3. ClosedStaysClosed'
  BY DEF ListsInv, ListsTypeOK, ClosedStaysClosed, FileRead, Becomes
<1>4. KeepsRefreshing'
  BY EnabledHasUrl DEF ListsInv, ListsTypeOK, ClosedStaysClosed, KeepsRefreshing, FileRead, Becomes, Free, NoTask
<1> QED
  BY <1>1, <1>2, <1>3, <1>4 DEF ListsInv

LEMMA StartDoneKeeps ==
    ASSUME ListsInv, NEW s \in Slots, StartDone(s)
    PROVE  ListsInv'
<1>1. ListsTypeOK'
  BY PartTypes DEF ListsInv, ListsTypeOK, Lists, Task, Calls, NoTask, StartDone, Becomes, Arranged
<1>2. QuietUnlessActive'
  BY DEF ListsInv, ListsTypeOK, QuietUnlessActive, StartDone, Becomes, Arranged
<1>3. ClosedStaysClosed'
  BY DEF ListsInv, ListsTypeOK, ClosedStaysClosed, StartDone, Becomes, Arranged
<1>4. KeepsRefreshing'
  BY EnabledHasUrl DEF ListsInv, ListsTypeOK, ClosedStaysClosed, KeepsRefreshing, StartDone, Becomes, Arranged, Free, NoTask
<1> QED
  BY <1>1, <1>2, <1>3, <1>4 DEF ListsInv

LEMMA ReplaceDoneKeeps ==
    ASSUME ListsInv, NEW s \in Slots, ReplaceDone(s)
    PROVE  ListsInv'
<1>1. cached' \in Lists /\ published' \in Lists
  BY PartTypes DEF ListsInv, ReplaceDone
<1>2. UNCHANGED <<subscription, closed, file, refresh, timer, callbacks>>
  BY DEF ReplaceDone
<1>3. ListsTypeOK
  BY DEF ListsInv
<1>4. CASE awaiting[s].restart /\ MayStart
  <2>1. active' = TRUE /\ ~active /\ ~closed /\ awaiting' = [awaiting EXCEPT ![s] = StartTask]
    BY <1>4 DEF ReplaceDone, MayStart, Becomes
  <2>2. StartTask \in Task
    BY DEF StartTask, Task, Calls
  <2>3. ListsTypeOK'
    BY <1>1, <1>2, <1>3, <2>1, <2>2 DEF ListsTypeOK
  <2>4. QuietUnlessActive' /\ ClosedStaysClosed'
    BY <1>2, <2>1 DEF ListsInv, QuietUnlessActive, ClosedStaysClosed
  <2>5. awaiting'[s] = StartTask
    BY <1>3, <2>1 DEF ListsTypeOK
  <2>6. KeepsRefreshing'
    BY <2>5 DEF KeepsRefreshing, Free, StartTask, NoTask
  <2> QED
    BY <2>3, <2>4, <2>6 DEF ListsInv
<1>5. CASE ~(awaiting[s].restart /\ MayStart)
  <2>1. active' = active /\ awaiting' = [awaiting EXCEPT ![s] = NoTask]
    BY <1>5 DEF ReplaceDone, Becomes
  <2>2. ListsTypeOK'
    BY <1>1, <1>2, <1>3, <2>1 DEF ListsTypeOK, Task
  <2>3. QuietUnlessActive' /\ ClosedStaysClosed'
    BY <1>2, <2>1 DEF ListsInv, QuietUnlessActive, ClosedStaysClosed
  <2>4. \A r \in Slots : ~Free(r) /\ awaiting[r].call = "start" => awaiting'[r] = awaiting[r]
    BY <1>3, <2>1 DEF ListsTypeOK, ReplaceDone
  <2>5. KeepsRefreshing'
    BY <1>2, <2>1, <2>4 DEF ListsInv, KeepsRefreshing, Free
  <2> QED
    BY <2>2, <2>3, <2>5 DEF ListsInv
<1> QED
  BY <1>4, <1>5

LEMMA TimerFiresKeeps ==
    ASSUME ListsInv, TimerFires
    PROVE  ListsInv'
<1>1. ListsTypeOK'
  BY PartTypes DEF ListsInv, ListsTypeOK, Lists, Task, Calls, NoTask, TimerFires
<1>2. QuietUnlessActive'
  BY DEF ListsInv, ListsTypeOK, QuietUnlessActive, TimerFires
<1>3. ClosedStaysClosed'
  BY DEF ListsInv, ListsTypeOK, ClosedStaysClosed, TimerFires
<1>4. KeepsRefreshing'
  BY EnabledHasUrl DEF ListsInv, ListsTypeOK, ClosedStaysClosed, KeepsRefreshing, TimerFires, Free, NoTask
<1> QED
  BY <1>1, <1>2, <1>3, <1>4 DEF ListsInv

LEMMA RefreshSucceedsKeeps ==
    ASSUME ListsInv, RefreshSucceeds
    PROVE  ListsInv'
<1>1. ListsTypeOK'
  BY PartTypes DEF ListsInv, ListsTypeOK, Lists, Task, Calls, NoTask, RefreshSucceeds, RefreshOver, Rearmed, Arranged, PublishedNow
<1>2. QuietUnlessActive'
  BY DEF ListsInv, ListsTypeOK, QuietUnlessActive, RefreshSucceeds, RefreshOver, Rearmed, Arranged, PublishedNow
<1>3. ClosedStaysClosed'
  BY DEF ListsInv, ListsTypeOK, ClosedStaysClosed, RefreshSucceeds, RefreshOver, Rearmed, Arranged, PublishedNow
<1>4. KeepsRefreshing'
  BY EnabledHasUrl DEF ListsInv, ListsTypeOK, ClosedStaysClosed, KeepsRefreshing, RefreshSucceeds, RefreshOver, Rearmed, Arranged, PublishedNow, Free, NoTask
<1> QED
  BY <1>1, <1>2, <1>3, <1>4 DEF ListsInv

LEMMA RefreshFailsKeeps ==
    ASSUME ListsInv, RefreshFails
    PROVE  ListsInv'
<1>1. ListsTypeOK'
  BY PartTypes DEF ListsInv, ListsTypeOK, Lists, Task, Calls, NoTask, RefreshFails, RefreshOver, Rearmed, Arranged
<1>2. QuietUnlessActive'
  BY DEF ListsInv, ListsTypeOK, QuietUnlessActive, RefreshFails, RefreshOver, Rearmed, Arranged
<1>3. ClosedStaysClosed'
  BY DEF ListsInv, ListsTypeOK, ClosedStaysClosed, RefreshFails, RefreshOver, Rearmed, Arranged
<1>4. KeepsRefreshing'
  BY EnabledHasUrl DEF ListsInv, ListsTypeOK, ClosedStaysClosed, KeepsRefreshing, RefreshFails, RefreshOver, Rearmed, Arranged, Free, NoTask
<1> QED
  BY <1>1, <1>2, <1>3, <1>4 DEF ListsInv

-----------------------------------------------------------------------------

LEMMA NextKeeps == ListsInv /\ [ListsNext]_listVars => ListsInv'
<1> SUFFICES ASSUME ListsInv, [ListsNext]_listVars PROVE ListsInv'
  OBVIOUS
<1>1. CASE \E s \in Slots : Start(s)
  BY <1>1, StartKeeps
<1>2. CASE \E s \in Slots : \E c \in Configurations : Replace(s, c)
  BY <1>2, ReplaceKeeps
<1>3. CASE \E s \in Slots : MkdirDone(s)
  BY <1>3, MkdirDoneKeeps
<1>4. CASE \E s \in Slots : FileRead(s)
  BY <1>4, FileReadKeeps
<1>5. CASE \E s \in Slots : StartDone(s)
  BY <1>5, StartDoneKeeps
<1>6. CASE \E s \in Slots : ReplaceDone(s)
  BY <1>6, ReplaceDoneKeeps
<1>7. CASE Pause
  BY <1>7, PauseKeeps
<1>8. CASE ManualRefresh
  BY <1>8, ManualRefreshKeeps
<1>9. CASE Close
  BY <1>9, CloseKeeps
<1>10. CASE TimerFires
  BY <1>10, TimerFiresKeeps
<1>11. CASE RefreshSucceeds
  BY <1>11, RefreshSucceedsKeeps
<1>12. CASE RefreshFails
  BY <1>12, RefreshFailsKeeps
<1>13. CASE UNCHANGED listVars
  BY <1>13 DEF ListsInv, ListsTypeOK, QuietUnlessActive, ClosedStaysClosed, KeepsRefreshing, Free, listVars
<1> QED
  BY <1>1, <1>2, <1>3, <1>4, <1>5, <1>6, <1>7, <1>8, <1>9, <1>10, <1>11, <1>12, <1>13 DEF ListsNext

\* The inductive invariant holds in every reachable state.
THEOREM Invariance == ListsSpec => []ListsInv
<1> QED
  BY InitEstablishes, NextKeeps, PTL DEF ListsSpec

\* The variables keep their types, for any URLs and any number of calls.
THEOREM TypeCorrect == ListsSpec => []ListsTypeOK
<1>1. ListsInv => ListsTypeOK
  BY DEF ListsInv
<1> QED
  BY <1>1, Invariance, PTL

\* However many calls of start and replace overlap, a manager that is paused or
\* closed has no timer armed: arrange, pause and close of the source.
THEOREM PausedIsQuiet == ListsSpec => []QuietUnlessActive
<1>1. ListsInv => QuietUnlessActive
  BY DEF ListsInv
<1> QED
  BY <1>1, Invariance, PTL

\* A start() or a replace() that was under way when close() was called does not
\* bring the manager back.
THEOREM CloseIsFinal == ListsSpec => []ClosedStaysClosed
<1>1. ListsInv => ClosedStaysClosed
  BY DEF ListsInv
<1> QED
  BY <1>1, Invariance, PTL

\* No order of calls and callbacks loses the timer of an enabled subscription.
THEOREM RefreshesNeverStop == ListsSpec => []KeepsRefreshing
<1>1. ListsInv => KeepsRefreshing
  BY DEF ListsInv
<1> QED
  BY <1>1, Invariance, PTL
=============================================================================
