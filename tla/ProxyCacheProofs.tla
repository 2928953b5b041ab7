-------------------------- MODULE ProxyCacheProofs --------------------------
(* Proofs about ProxyCache, for every set of responses, sizes and limits:    *)
(* it implements LossyCache (Refinement), and its account of itself is right *)
(* (AccountIsRight).  Positions of a sequence are counted through in the     *)
(* form of UpTo, a consequence of the well-foundedness of the naturals; the  *)
(* recursive functions of SizeOf and Only are reached through the equation   *)
(* that defines them, whose solution SizesExist and OnlyExists construct.    *)
EXTENDS ProxyCache, WellFoundedInduction, SequenceTheorems, FiniteSetTheorems, TLAPS

----------------------------------------------------------------------------
(* Counting.                                                                  *)

\* A set of naturals that is not empty has a least member.
LEMMA LeastNatural ==
  ASSUME NEW T \in SUBSET Nat, T # {}
  PROVE  \E m \in T : \A k \in T : m <= k
<1> DEFINE R == {ss \in Nat \X Nat : ss[1] < ss[2]}
<1>1. IsWellFoundedOn(R, Nat)
  BY NatLessThanWellFounded DEF OpToRel
<1>2. PICK m \in T : \A k \in T : ~(<<k, m>> \in R)
  <2> HIDE DEF R
  <2> QED BY <1>1, WFMin, T \subseteq Nat
<1>3. ASSUME NEW k \in T PROVE m <= k
  <2>1. k \in Nat /\ m \in Nat
    OBVIOUS
  <2>2. <<k, m>> \in Nat \X Nat /\ <<k, m>>[1] = k /\ <<k, m>>[2] = m
    BY <2>1
  <2>3. ~(k < m)
    BY <1>2, <2>2
  <2> QED BY <2>1, <2>3
<1> QED BY <1>3

\* What holds of 0, and of k + 1 when it holds of k, holds up to n.
LEMMA UpTo ==
  ASSUME NEW n \in Nat, NEW S, 0 \in S, \A k \in 0 .. n - 1 : k \in S => k + 1 \in S
  PROVE  0 .. n \subseteq S
<1> DEFINE Out == {k \in 0 .. n : k \notin S}
<1>1. SUFFICES ASSUME Out # {} PROVE FALSE
  OBVIOUS
<1>2. PICK k \in Out : \A j \in Out : k <= j
  <2>1. Out \in SUBSET Nat
    OBVIOUS
  <2> HIDE DEF Out
  <2> QED BY <1>1, <2>1, LeastNatural
<1>3. k \in 1 .. n /\ k - 1 \in 0 .. n - 1
  OBVIOUS
<1>4. k - 1 \notin Out
  BY <1>2, <1>3
<1> QED BY <1>3, <1>4

----------------------------------------------------------------------------
(* Sequences of entries.                                                      *)

Unique(s) == \A j, k \in DOMAIN s : s[j].id = s[k].id => j = k

LEMMA RemoveAtFacts ==
  ASSUME NEW E, NEW s \in Seq(E), NEW j \in DOMAIN s
  PROVE  /\ RemoveAt(s, j) \in Seq(E) /\ Len(RemoveAt(s, j)) = Len(s) - 1
         /\ \A k \in 1 .. Len(s) - 1 : RemoveAt(s, j)[k] = IF k < j THEN s[k] ELSE s[k + 1]
<1> DEFINE a == SubSeq(s, 1, j - 1)
           b == SubSeq(s, j + 1, Len(s))
<1>1. j \in 1 .. Len(s) /\ Len(s) \in Nat /\ \A k \in 1 .. Len(s) : s[k] \in E
  OBVIOUS
<1>2. a \in Seq(E) /\ Len(a) = j - 1 /\ \A k \in 1 .. j - 1 : a[k] = s[k]
  <2>1. 1 \in Int /\ j - 1 \in Int /\ \A k \in 1 .. j - 1 : s[k] \in E
    BY <1>1
  <2>2. /\ a \in Seq(E) /\ Len(a) = IF 1 <= j - 1 THEN j - 1 - 1 + 1 ELSE 0
        /\ \A k \in 1 .. j - 1 - 1 + 1 : a[k] = s[1 + k - 1]
    <3> HIDE DEF a
    <3> QED BY <2>1, SubSeqProperties DEF a
  <2> HIDE DEF a
  <2> QED BY <1>1, <2>2
<1>3. b \in Seq(E) /\ Len(b) = Len(s) - j /\ \A k \in 1 .. Len(s) - j : b[k] = s[j + k]
  <2>1. j + 1 \in Int /\ Len(s) \in Int /\ \A k \in j + 1 .. Len(s) : s[k] \in E
    BY <1>1
  <2>2. /\ b \in Seq(E) /\ Len(b) = IF j + 1 <= Len(s) THEN Len(s) - (j + 1) + 1 ELSE 0
        /\ \A k \in 1 .. Len(s) - (j + 1) + 1 : b[k] = s[j + 1 + k - 1]
    <3> HIDE DEF b
    <3> QED BY <2>1, SubSeqProperties DEF b
  <2> HIDE DEF b
  <2> QED BY <1>1, <2>2
<1>4. RemoveAt(s, j) = a \o b
  BY DEF RemoveAt
<1> HIDE DEF a, b
<1>5. /\ a \o b \in Seq(E) /\ Len(a \o b) = Len(a) + Len(b)
      /\ \A i \in 1 .. Len(a) + Len(b) : (a \o b)[i] = IF i <= Len(a) THEN a[i] ELSE b[i - Len(a)]
  BY <1>2, <1>3, ConcatProperties
<1>6. ASSUME NEW k \in 1 .. Len(s) - 1
      PROVE  (a \o b)[k] = IF k < j THEN s[k] ELSE s[k + 1]
  <2>1. k \in 1 .. Len(a) + Len(b)
    BY <1>1, <1>2, <1>3
  <2>2. CASE k < j
    BY <1>1, <1>2, <1>5, <2>1, <2>2
  <2>3. CASE ~(k < j)
    <3>1. ~(k <= Len(a)) /\ k - Len(a) \in 1 .. Len(s) - j /\ j + (k - Len(a)) = k + 1
      BY <1>1, <1>2, <2>3
    <3> QED BY <1>3, <1>5, <2>1, <2>3, <3>1
  <2> QED BY <2>2, <2>3
<1>7. Len(a \o b) = Len(s) - 1
  BY <1>1, <1>2, <1>3, <1>5
<1> QED BY <1>4, <1>5, <1>6, <1>7

\* What is left after one goes: the others, once each.
LEMMA RemoveAtLeaves ==
  ASSUME NEW E, NEW s \in Seq(E), NEW j \in DOMAIN s
  PROVE  /\ \A k \in DOMAIN RemoveAt(s, j) : \E m \in DOMAIN s \ {j} : RemoveAt(s, j)[k] = s[m]
         /\ \A m \in DOMAIN s \ {j} : \E k \in DOMAIN RemoveAt(s, j) : RemoveAt(s, j)[k] = s[m]
         /\ Unique(s) => Unique(RemoveAt(s, j))
<1> DEFINE r == RemoveAt(s, j)
           n == Len(s)
<1>1. DOMAIN s = 1 .. n /\ n \in Nat /\ j \in 1 .. n
  OBVIOUS
<1>2. r \in Seq(E) /\ Len(r) = n - 1 /\ \A k \in 1 .. n - 1 : r[k] = IF k < j THEN s[k] ELSE s[k + 1]
  BY RemoveAtFacts
<1>3. DOMAIN r = 1 .. n - 1
  BY <1>2
<1> HIDE DEF r, n
<1>4. ASSUME NEW k \in DOMAIN r PROVE \E m \in DOMAIN s \ {j} : r[k] = s[m]
  <2>1. CASE k < j
    BY <1>1, <1>2, <1>3, <2>1
  <2>2. CASE ~(k < j)
    <3>1. k \in 1 .. n - 1 /\ k + 1 \in 1 .. n /\ k + 1 # j
      BY <1>1, <1>3, <2>2
    <3>2. r[k] = s[k + 1]
      BY <1>2, <2>2, <3>1
    <3> QED BY <1>1, <3>1, <3>2
  <2> QED BY <2>1, <2>2
<1>5. ASSUME NEW m \in DOMAIN s \ {j} PROVE \E k \in DOMAIN r : r[k] = s[m]
  <2>1. CASE m < j
    <3>1. m \in 1 .. n - 1
      BY <1>1, <2>1
    <3> QED BY <1>2, <1>3, <2>1, <3>1
  <2>2. CASE ~(m < j)
    <3>1. m - 1 \in 1 .. n - 1 /\ ~(m - 1 < j) /\ (m - 1) + 1 = m
      BY <1>1, <2>2
    <3> QED BY <1>2, <1>3, <3>1
  <2> QED BY <2>1, <2>2
<1>6. ASSUME Unique(s) PROVE Unique(r)
  <2> SUFFICES ASSUME NEW k \in 1 .. n - 1, NEW m \in 1 .. n - 1, r[k].id = r[m].id PROVE k = m
    BY <1>3 DEF Unique
  <2> DEFINE p(x) == IF x < j THEN x ELSE x + 1
  <2>1. r[k] = s[p(k)] /\ r[m] = s[p(m)] /\ p(k) \in 1 .. n /\ p(m) \in 1 .. n
    BY <1>1, <1>2
  <2>2. p(k) = p(m)
    <3> HIDE DEF p
    <3> QED BY <1>1, <1>6, <2>1 DEF Unique
  <2> QED BY <1>1, <2>2
<1> QED BY <1>4, <1>5, <1>6 DEF r

\* A subsequence: r is s at the positions K, in their order.
Picks(g, r, s, K) ==
  /\ g \in [DOMAIN r -> K]
  /\ \A m \in DOMAIN r : r[m] = s[g[m]]
  /\ \A m, l \in DOMAIN r : m < l => g[m] < g[l]
  /\ \A p \in K : \E m \in DOMAIN r : g[m] = p

IsOnly(f, s, J, n) ==
  f = [i \in 0 .. n |-> IF i = 0 THEN <<>> ELSE IF i \in J THEN Append(f[i - 1], s[i]) ELSE f[i - 1]]

LEMMA OnlyExists ==
  ASSUME NEW n \in Nat, NEW s, NEW J
  PROVE  \E f : IsOnly(f, s, J, n)
<1> DEFINE S == {m \in 0 .. n : \E f : IsOnly(f, s, J, m)}
<1>1. 0 \in S
  <2>1. IsOnly([i \in 0 .. 0 |-> <<>>], s, J, 0)
    BY DEF IsOnly
  <2> QED BY <2>1
<1>2. ASSUME NEW m \in 0 .. n - 1, m \in S PROVE m + 1 \in S
  <2>1. PICK g : IsOnly(g, s, J, m)
    BY <1>2
  <2> DEFINE new == IF m + 1 \in J THEN Append(g[m], s[m + 1]) ELSE g[m]
             f == [i \in 0 .. m + 1 |-> IF i = m + 1 THEN new ELSE g[i]]
  <2>2. IsOnly(f, s, J, m + 1)
    <3>1. ASSUME NEW i \in 0 .. m + 1
          PROVE f[i] = IF i = 0 THEN <<>> ELSE IF i \in J THEN Append(f[i - 1], s[i]) ELSE f[i - 1]
      <4>1. CASE i = m + 1
        BY <4>1
      <4>2. CASE i # m + 1
        <5>1. i \in 0 .. m /\ (i # 0 => i - 1 \in 0 .. m)
          BY <4>2
        <5>2. g[i] = IF i = 0 THEN <<>> ELSE IF i \in J THEN Append(g[i - 1], s[i]) ELSE g[i - 1]
          BY <2>1, <5>1 DEF IsOnly
        <5>3. f[i] = g[i] /\ (i # 0 => f[i - 1] = g[i - 1])
          BY <4>2, <5>1
        <5> HIDE DEF f
        <5> QED BY <5>2, <5>3
      <4> QED BY <4>1, <4>2
    <3> HIDE DEF f
    <3>2. f = [i \in 0 .. m + 1 |-> f[i]]
      BY DEF f
    <3> QED BY <3>1, <3>2 DEF IsOnly
  <2> QED BY <2>2
<1>3. 0 .. n \subseteq S
  <2> HIDE DEF S
  <2> QED BY <1>1, <1>2, UpTo
<1> QED BY <1>3

\* Only(s, J) is the subsequence of s at the positions J.
LEMMA OnlyFacts ==
  ASSUME NEW E, NEW s \in Seq(E), NEW J
  PROVE  Only(s, J) \in Seq(E) /\ \E g : Picks(g, Only(s, J), s, J \cap DOMAIN s)
<1> DEFINE n == Len(s)
           f == CHOOSE h : IsOnly(h, s, J, n)
<1>1. n \in Nat /\ DOMAIN s = 1 .. n /\ \A i \in 1 .. n : s[i] \in E
  OBVIOUS
<1>2. IsOnly(f, s, J, n)
  BY <1>1, OnlyExists
<1>3. Only(s, J) = f[n]
  BY DEF Only, IsOnly
<1> HIDE DEF f, n
<1>4. f[0] = <<>> /\ \A i \in 1 .. n : f[i] = IF i \in J THEN Append(f[i - 1], s[i]) ELSE f[i - 1]
  <2>1. \A i \in 0 .. n : f[i] = IF i = 0 THEN <<>> ELSE IF i \in J THEN Append(f[i - 1], s[i]) ELSE f[i - 1]
    BY <1>2 DEF IsOnly
  <2> QED BY <1>1, <2>1
<1> DEFINE K(i) == J \cap 1 .. i
           S == {i \in 0 .. n : f[i] \in Seq(E) /\ \E g : Picks(g, f[i], s, K(i))}
<1>5. 0 \in S
  <2>1. DOMAIN f[0] = {} /\ K(0) = {} /\ f[0] \in Seq(E)
    BY <1>4
  <2>2. Picks([m \in {} |-> 0], f[0], s, K(0))
    <3> HIDE DEF K
    <3> QED BY <2>1 DEF Picks
  <2> QED BY <1>1, <2>1, <2>2
<1>6. ASSUME NEW i \in 0 .. n - 1, i \in S PROVE i + 1 \in S
  <2>1. i + 1 \in 1 .. n /\ (i + 1) - 1 = i /\ i + 1 \in 0 .. n
    BY <1>1
  <2>2. f[i] \in Seq(E)
    BY <1>6
  <2>3. PICK g : Picks(g, f[i], s, K(i))
    BY <1>6
  <2>4. CASE i + 1 \notin J
    <3>1. f[i + 1] = f[i]
      BY <1>4, <2>1, <2>4
    <3>2. K(i + 1) = K(i)
      BY <2>1, <2>4
    <3> HIDE DEF K
    <3> QED BY <2>1, <2>2, <2>3, <3>1, <3>2
  <2>5. CASE i + 1 \in J
    <3> DEFINE r == f[i]
               t == Append(r, s[i + 1])
               l == Len(r)
               h == [m \in 1 .. l + 1 |-> IF m = l + 1 THEN i + 1 ELSE g[m]]
    <3>1. f[i + 1] = t
      BY <1>4, <2>1, <2>5
    <3>2. K(i + 1) = K(i) \cup {i + 1}
      BY <2>1, <2>5
    <3>3. /\ t \in Seq(E) /\ DOMAIN t = 1 .. l + 1 /\ DOMAIN r = 1 .. l /\ l \in Nat
          /\ t[l + 1] = s[i + 1] /\ \A m \in 1 .. l : t[m] = r[m]
      <4>1. s[i + 1] \in E
        BY <1>1, <2>1
      <4> HIDE DEF r
      <4> QED BY <2>2, <4>1, AppendProperties DEF r
    <3>4. \A p \in K(i) : p \in Nat /\ p < i + 1
      BY <2>1
    <3> HIDE DEF K, r, t, l
    <3>5. Picks(g, r, s, K(i))
      BY <2>3 DEF r
    <3>6. h \in [DOMAIN t -> K(i + 1)]
      BY <3>2, <3>3, <3>5 DEF Picks
    <3>7. ASSUME NEW m \in DOMAIN t PROVE t[m] = s[h[m]]
      <4>1. CASE m = l + 1
        <5>1. h[m] = i + 1
          BY <3>3, <4>1
        <5> HIDE DEF h
        <5> QED BY <3>3, <4>1, <5>1
      <4>2. CASE m # l + 1
        <5>1. m \in 1 .. l
          BY <3>3, <4>2
        <5> QED BY <3>3, <3>5, <5>1, <4>2 DEF Picks
      <4> QED BY <4>1, <4>2
    <3>8. ASSUME NEW m \in DOMAIN t, NEW q \in DOMAIN t, m < q PROVE h[m] < h[q]
      <4>1. m \in 1 .. l /\ h[m] = g[m] /\ g[m] \in K(i)
        BY <3>3, <3>5, <3>8 DEF Picks
      <4>2. CASE q = l + 1
        BY <3>3, <3>4, <4>1, <4>2
      <4>3. CASE q # l + 1
        <5>1. q \in 1 .. l
          BY <3>3, <4>3
        <5> QED BY <3>3, <3>5, <3>8, <4>1, <4>3, <5>1 DEF Picks
      <4> QED BY <4>2, <4>3
    <3>9. ASSUME NEW p \in K(i + 1) PROVE \E m \in DOMAIN t : h[m] = p
      <4>1. CASE p = i + 1
        <5>1. l + 1 \in DOMAIN t /\ h[l + 1] = i + 1
          BY <3>3
        <5> HIDE DEF h
        <5> QED BY <4>1, <5>1
      <4>2. CASE p # i + 1
        <5>1. PICK m \in 1 .. l : g[m] = p
          BY <3>2, <3>3, <3>5, <4>2 DEF Picks
        <5>2. m # l + 1 /\ m \in 1 .. l + 1
          BY <3>3
        <5> QED BY <3>3, <5>1, <5>2
      <4> QED BY <4>1, <4>2
    <3>10. Picks(h, t, s, K(i + 1))
      <4> HIDE DEF h
      <4> QED BY <3>6, <3>7, <3>8, <3>9 DEF Picks
    <3> QED BY <2>1, <3>1, <3>3, <3>10
  <2> QED BY <2>4, <2>5
<1>7. 0 .. n \subseteq S
  <2> HIDE DEF S
  <2> QED BY <1>1, <1>5, <1>6, UpTo
<1>8. f[n] \in Seq(E) /\ \E g : Picks(g, f[n], s, K(n))
  <2>1. n \in S
    <3> HIDE DEF S
    <3> QED BY <1>1, <1>7
  <2> HIDE DEF K
  <2> QED BY <2>1
<1> QED BY <1>1, <1>3, <1>8

\* Such a subsequence repeats no id that the whole does not repeat.
LEMMA PicksUnique ==
  ASSUME NEW E, NEW s \in Seq(E), NEW r \in Seq(E), NEW K \in SUBSET DOMAIN s, NEW g, Picks(g, r, s, K), Unique(s)
  PROVE  Unique(r)
<1> SUFFICES ASSUME NEW k \in DOMAIN r, NEW m \in DOMAIN r, r[k].id = r[m].id PROVE k = m
  BY DEF Unique
<1>1. /\ g[k] \in DOMAIN s /\ g[m] \in DOMAIN s
      /\ r[k] = s[g[k]] /\ r[m] = s[g[m]]
      /\ k < m => g[k] < g[m]
      /\ m < k => g[m] < g[k]
  BY DEF Picks
<1>2. g[k] = g[m]
  BY <1>1 DEF Unique
<1>3. g[k] \in Nat /\ k \in Nat /\ m \in Nat
  BY <1>1
<1> QED BY <1>1, <1>2, <1>3

LEMMA AtFacts ==
  ASSUME NEW s, NEW i \in Held(s)
  PROVE  At(s, i) \in DOMAIN s /\ s[At(s, i)].id = i
BY DEF Held, At

\* What start() makes of the entries it has and of those it loads.
LEMMA SetAllFacts ==
  ASSUME NEW E, NEW s \in Seq(E), NEW new \in Seq(E), Unique(s), Unique(new)
  PROVE  /\ SetAll(s, new) \in Seq(E) /\ Unique(SetAll(s, new))
         /\ \A j \in DOMAIN SetAll(s, new) :
              \/ \E k \in DOMAIN s : SetAll(s, new)[j] = s[k] /\ s[k].id \notin Held(new)
              \/ \E k \in DOMAIN new : SetAll(s, new)[j] = new[k]
         /\ \A k \in DOMAIN new : \E j \in DOMAIN SetAll(s, new) : SetAll(s, new)[j] = new[k]
<1> DEFINE a == [j \in DOMAIN s |-> IF s[j].id \in Held(new) THEN new[At(new, s[j].id)] ELSE s[j]]
           J == {j \in DOMAIN new : new[j].id \notin Held(s)}
           b == Only(new, J)
           n == Len(s)
           m == Len(b)
<1>1. n \in Nat /\ DOMAIN s = 1 .. n /\ \A i \in 1 .. n : s[i] \in E
  OBVIOUS
<1>2. \A i \in DOMAIN new : new[i] \in E
  OBVIOUS
<1>3. ASSUME NEW j \in 1 .. n
      PROVE  /\ a[j] \in E /\ a[j].id = s[j].id
             /\ \/ a[j] = s[j] /\ s[j].id \notin Held(new)
                \/ \E k \in DOMAIN new : a[j] = new[k]
  <2>1. CASE s[j].id \in Held(new)
    <3> DEFINE k == At(new, s[j].id)
    <3>1. k \in DOMAIN new /\ new[k].id = s[j].id
      BY <2>1, AtFacts
    <3>2. a[j] = new[k]
      BY <1>1, <2>1
    <3> HIDE DEF a, k
    <3> QED BY <1>2, <3>1, <3>2
  <2>2. CASE s[j].id \notin Held(new)
    <3>1. a[j] = s[j]
      BY <1>1, <2>2
    <3> HIDE DEF a
    <3> QED BY <1>1, <2>2, <3>1
  <2> QED BY <2>1, <2>2
<1>4. a \in Seq(E) /\ Len(a) = n
  <2>1. a = [j \in 1 .. n |-> a[j]]
    BY <1>1
  <2> HIDE DEF a, n
  <2>2. a \in [1 .. n -> E]
    BY <1>3, <2>1
  <2> QED BY <1>1, <2>2
<1>5. b \in Seq(E) /\ \E g : Picks(g, b, new, J)
  <2>1. J \cap DOMAIN new = J
    OBVIOUS
  <2> HIDE DEF J
  <2> QED BY <2>1, OnlyFacts
<1>6. PICK g : Picks(g, b, new, J)
  BY <1>5
<1>7. J \in SUBSET DOMAIN new /\ \A j \in J : new[j].id \notin Held(s)
  OBVIOUS
<1>8. SetAll(s, new) = a \o b
  BY DEF SetAll
<1>17. ASSUME NEW k \in DOMAIN new
       PROVE  (\E j \in 1 .. n : a[j] = new[k]) \/ \E i \in DOMAIN b : b[i] = new[k]
  <2>1. CASE new[k].id \in Held(s)
    <3>1. PICK j \in 1 .. n : s[j].id = new[k].id
      BY <1>1, <2>1 DEF Held
    <3>2. s[j].id \in Held(new)
      BY <3>1 DEF Held
    <3>3. a[j] = new[At(new, s[j].id)]
      BY <1>1, <3>2
    <3>4. At(new, s[j].id) = k
      BY <3>1, <3>2, AtFacts DEF Unique
    <3> HIDE DEF a
    <3> QED BY <3>3, <3>4
  <2>2. CASE new[k].id \notin Held(s)
    <3>1. k \in J
      BY <2>2
    <3> HIDE DEF J, b
    <3>2. PICK i \in DOMAIN b : g[i] = k
      BY <1>6, <3>1 DEF Picks
    <3> QED BY <1>6, <3>2 DEF Picks
  <2> QED BY <2>1, <2>2
<1> HIDE DEF a, b, J, n
<1>9. Unique(b)
  BY <1>5, <1>6, <1>7, PicksUnique
<1>10. \A j \in DOMAIN b : g[j] \in DOMAIN new /\ b[j] = new[g[j]] /\ b[j].id \notin Held(s)
  BY <1>6, <1>7 DEF Picks
<1>11. m \in Nat /\ DOMAIN b = 1 .. m
  BY <1>5
<1> DEFINE c == a \o b
<1>12. /\ c \in Seq(E) /\ DOMAIN c = 1 .. n + m
       /\ \A j \in 1 .. n : c[j] = a[j]
       /\ \A j \in 1 .. n + m : j \notin 1 .. n => c[j] = b[j - n] /\ j - n \in 1 .. m
  <2> HIDE DEF c, m
  <2>1. c \in Seq(E) /\ Len(c) = n + m /\ \A j \in 1 .. n + m : c[j] = IF j <= n THEN a[j] ELSE b[j - n]
    BY <1>4, <1>5, ConcatProperties DEF c, m
  <2> QED BY <1>1, <1>11, <2>1
<1> HIDE DEF c, m
<1>13. ASSUME NEW j \in 1 .. n + m
       PROVE  \/ \E k \in DOMAIN s : c[j] = s[k] /\ s[k].id \notin Held(new)
              \/ \E k \in DOMAIN new : c[j] = new[k]
  <2>1. CASE j \in 1 .. n
    BY <1>1, <1>3, <1>12, <2>1
  <2>2. CASE j \notin 1 .. n
    BY <1>10, <1>11, <1>12, <2>2
  <2> QED BY <2>1, <2>2
<1>14. \A j \in 1 .. n : c[j].id = s[j].id /\ s[j].id \in Held(s)
  BY <1>1, <1>3, <1>12 DEF Held
<1>15. ASSUME NEW j \in 1 .. n + m, NEW k \in 1 .. n + m, c[j].id = c[k].id PROVE j = k
  <2>1. CASE j \in 1 .. n /\ k \in 1 .. n
    BY <1>1, <1>14, <1>15, <2>1 DEF Unique
  <2>2. CASE j \notin 1 .. n /\ k \notin 1 .. n
    <3>1. j - n \in 1 .. m /\ k - n \in 1 .. m /\ b[j - n].id = b[k - n].id
      BY <1>12, <1>15, <2>2
    <3>2. j - n = k - n
      BY <1>9, <1>11, <3>1 DEF Unique
    <3> QED BY <1>1, <3>2
  <2>3. CASE j \in 1 .. n /\ k \notin 1 .. n
    BY <1>10, <1>11, <1>12, <1>14, <1>15, <2>3
  <2>4. CASE j \notin 1 .. n /\ k \in 1 .. n
    BY <1>10, <1>11, <1>12, <1>14, <1>15, <2>4
  <2> QED BY <2>1, <2>2, <2>3, <2>4
<1>16. Unique(c)
  BY <1>12, <1>15 DEF Unique
<1>18. ASSUME NEW k \in DOMAIN new PROVE \E j \in 1 .. n + m : c[j] = new[k]
  <2>1. CASE \E j \in 1 .. n : a[j] = new[k]
    BY <1>1, <1>11, <1>12, <2>1
  <2>2. CASE \E i \in DOMAIN b : b[i] = new[k]
    <3>1. PICK i \in 1 .. m : b[i] = new[k]
      BY <1>11, <2>2
    <3>2. n + i \in 1 .. n + m /\ n + i \notin 1 .. n /\ (n + i) - n = i
      BY <1>1, <1>11
    <3> QED BY <1>12, <3>1, <3>2
  <2> QED BY <1>17, <2>1, <2>2
<1>19. SetAll(s, new) = c
  BY <1>8 DEF c
<1>20. /\ \A j \in DOMAIN c : \/ \E k \in DOMAIN s : c[j] = s[k] /\ s[k].id \notin Held(new)
                             \/ \E k \in DOMAIN new : c[j] = new[k]
       /\ \A k \in DOMAIN new : \E j \in DOMAIN c : c[j] = new[k]
  BY <1>12, <1>13, <1>18
<1> QED BY <1>12, <1>16, <1>19, <1>20

\* An entry whose id is new takes its place at the end.
LEMMA Appended ==
  ASSUME NEW E, NEW s \in Seq(E), Unique(s), NEW e \in E, \A k \in DOMAIN s : s[k].id # e.id
  PROVE  /\ Append(s, e) \in Seq(E) /\ Unique(Append(s, e))
         /\ \A k \in DOMAIN Append(s, e) : Append(s, e)[k] = e \/ \E m \in DOMAIN s : Append(s, e)[k] = s[m]
<1> DEFINE n == Len(s)
           t == Append(s, e)
<1>1. n \in Nat /\ DOMAIN s = 1 .. n
  OBVIOUS
<1>2. t \in Seq(E) /\ DOMAIN t = 1 .. n + 1 /\ t[n + 1] = e /\ \A k \in 1 .. n : t[k] = s[k]
  BY AppendProperties
<1> HIDE DEF t, n
<1>3. \A k \in 1 .. n + 1 : k \in 1 .. n \/ k = n + 1
  BY <1>1
<1>4. Unique(t)
  BY <1>1, <1>2, <1>3 DEF Unique
<1> QED BY <1>1, <1>2, <1>3, <1>4 DEF t

----------------------------------------------------------------------------
(* The invariant.                                                             *)

Cell == [id : Ids, body : Bodies, expires : Nat, used : Nat]

Typed ==
  /\ now \in Nat /\ mem \in Seq(Cell) /\ index \in Seq(Cell)
  /\ Unique(mem) /\ Unique(index)

Ops ==
  [kind : {"start", "configure", "close"}, stage : {"evict", "persist"}]
  \cup [kind : {"put"}, stage : {"install", "evict", "persist"}, id : Ids, body : Bodies, ttl : Ttls]
  \cup [kind : {"clear"}, stage : {"clear", "persist"}, where : SUBSET Locations]
  \cup [kind : {"get"}, stage : {"scan", "dropped", "miss"}, request : Requests]
  \cup [kind : {"get"}, stage : {"hit", "miss"}, id : Ids]

\* An operation under way has not answered.
Unanswered == op = Idle \/ (op \in Ops /\ answer = [kind |-> "none"])

\* What get() found is there, fresh, with its file.
Found ==
  op # Idle /\ op.stage = "hit" =>
    \E j \in DOMAIN mem : mem[j].id = op.id /\ ~Expired(mem[j]) /\ File(mem[j]) \in files

\* Once put() has installed its entry, no other body is left for the id.
Replaced ==
  op # Idle /\ op.kind = "put" /\ op.stage # "install" =>
    \A j \in DOMAIN mem : mem[j].id = op.id => mem[j].body = op.body

\* When clear() persists, nothing is left of what it was to remove.
Emptied ==
  op # Idle /\ op.kind = "clear" /\ op.stage = "persist" =>
    \A j \in DOMAIN mem : LocationOf[mem[j].id] \notin op.where

RInv == Typed /\ Unanswered /\ Found /\ Replaced /\ Emptied

LossyStep == [Lossy!Next]_(Lossy!vars)

----------------------------------------------------------------------------
(* Facts the steps share.                                                     *)

LEMMA CellFacts ==
  ASSUME NEW s \in Seq(Cell), NEW j \in DOMAIN s
  PROVE  /\ s[j] \in Cell /\ j \in Nat
         /\ s[j].id \in Ids /\ s[j].body \in Bodies /\ s[j].expires \in Nat /\ s[j].used \in Nat
<1>1. s[j] \in Cell /\ j \in Nat
  OBVIOUS
<1> QED BY <1>1 DEF Cell

\* What stays what it is of an entry while it is in the cache.
Same(e, f) == e.id = f.id /\ e.body = f.body /\ e.expires = f.expires
Known(e) == \E t \in {mem, index} : \E k \in DOMAIN t : Same(e, t[k])

\* Without new entries, new files or an operation that brings a body, there is
\* no more to serve than before.
LEMMA NothingNew ==
  ASSUME Typed, Typed', now <= now', files' \subseteq files,
         \A j \in DOMAIN mem' : Known(mem'[j]), \A j \in DOMAIN index' : Known(index'[j]),
         op' = Idle \/ op'.stage # "install"
  PROVE  \A i \in Ids : Servable'[i] \subseteq Servable[i]
<1> SUFFICES ASSUME NEW i \in Ids, NEW b \in Servable'[i] PROVE b \in Servable[i]
  OBVIOUS
<1>1. b \in Bodies /\ <<i, b>> \in files'
  BY DEF Servable
<1>2. PICK s \in {mem', index'} : \E j \in DOMAIN s : s[j].id = i /\ s[j].body = b /\ ~(s[j].expires <= now')
  BY DEF Servable, Expired
<1>3. PICK j \in DOMAIN s : s[j].id = i /\ s[j].body = b /\ ~(s[j].expires <= now')
  BY <1>2
<1>4. Known(s[j])
  BY <1>2, <1>3
<1>5. PICK t \in {mem, index} : \E k \in DOMAIN t : Same(s[j], t[k])
  BY <1>4 DEF Known
<1>6. PICK k \in DOMAIN t : Same(s[j], t[k])
  BY <1>5
<1>7. t[k].expires \in Nat /\ now \in Nat /\ now' \in Nat
  <2>1. t \in Seq(Cell)
    BY <1>5 DEF Typed
  <2> QED BY <1>6, <2>1, CellFacts DEF Typed
<1>8. t[k].id = i /\ t[k].body = b /\ ~(t[k].expires <= now)
  BY <1>3, <1>6, <1>7 DEF Same
<1> QED BY <1>1, <1>5, <1>6, <1>8 DEF Servable, Expired

LEMMA KnownAlready ==
  /\ \A j \in DOMAIN mem : Known(mem[j])
  /\ \A j \in DOMAIN index : Known(index[j])
BY DEF Known, Same

LEMMA LeastOf ==
  ASSUME NEW S \in SUBSET Nat, S # {}
  PROVE  Min(S) \in S /\ \A x \in S : Min(S) <= x
<1>1. \E m \in S : \A x \in S : m <= x
  BY LeastNatural
<1> QED BY <1>1 DEF Min

LEMMA OldestIsOne ==
  ASSUME Typed, NEW J \in SUBSET DOMAIN mem, J # {}
  PROVE  /\ Oldest(J) \in J
         /\ \A k \in J \ {Oldest(J)} : \/ mem[Oldest(J)].used < mem[k].used
                                       \/ mem[Oldest(J)].used = mem[k].used /\ Oldest(J) < k
<1>1. \A j \in J : j \in Nat /\ mem[j].used \in Nat
  BY CellFacts DEF Typed
<1> DEFINE U == {mem[j].used : j \in J}
<1>2. PICK u \in U : \A x \in U : u <= x
  <2>1. U \in SUBSET Nat /\ U # {}
    BY <1>1
  <2> HIDE DEF U
  <2> QED BY <2>1, LeastNatural
<1> DEFINE I == {j \in J : mem[j].used = u}
<1>3. PICK i \in I : \A x \in I : i <= x
  <2>1. I \in SUBSET Nat /\ I # {}
    BY <1>1, <1>2
  <2> HIDE DEF I
  <2> QED BY <2>1, LeastNatural
<1>4. ASSUME NEW k \in J \ {i} PROVE mem[i].used < mem[k].used \/ (mem[i].used = mem[k].used /\ i < k)
  <2>1. u <= mem[k].used /\ mem[i].used = u /\ i \in J
    BY <1>2, <1>3
  <2>2. CASE mem[k].used = u
    <3>1. i <= k
      BY <1>3, <2>2
    <3> QED BY <1>1, <2>1, <2>2, <3>1
  <2>3. CASE mem[k].used # u
    BY <1>1, <2>1, <2>3
  <2> QED BY <2>2, <2>3
<1>5. \E j \in J : \A k \in J \ {j} :
        mem[j].used < mem[k].used \/ (mem[j].used = mem[k].used /\ j < k)
  BY <1>3, <1>4
<1> DEFINE P(j) == \A k \in J \ {j} : mem[j].used < mem[k].used \/ (mem[j].used = mem[k].used /\ j < k)
<1>6. Oldest(J) = CHOOSE j \in J : P(j)
  BY DEF Oldest
<1>7. Oldest(J) \in J /\ P(Oldest(J))
  <2> HIDE DEF P
  <2>1. \E j \in J : P(j)
    BY <1>5 DEF P
  <2> QED BY <1>6, <2>1
<1> QED BY <1>7

\* An entry goes, its file too or not.
LEMMA Removed ==
  ASSUME Typed, NEW j \in DOMAIN mem, mem' = RemoveAt(mem, j)
  PROVE  /\ mem' \in Seq(Cell) /\ Unique(mem')
         /\ \A k \in DOMAIN mem' : \E m \in DOMAIN mem \ {j} : mem'[k] = mem[m]
         /\ \A m \in DOMAIN mem \ {j} : \E k \in DOMAIN mem' : mem'[k] = mem[m]
         /\ \A k \in DOMAIN mem' : mem'[k].id # mem[j].id /\ Known(mem'[k])
<1>1. mem \in Seq(Cell) /\ Unique(mem)
  BY DEF Typed
<1>2. /\ mem' \in Seq(Cell) /\ Unique(mem')
      /\ \A k \in DOMAIN mem' : \E m \in DOMAIN mem \ {j} : mem'[k] = mem[m]
      /\ \A m \in DOMAIN mem \ {j} : \E k \in DOMAIN mem' : mem'[k] = mem[m]
  BY <1>1, RemoveAtFacts, RemoveAtLeaves
<1>3. \A k \in DOMAIN mem' : mem'[k].id # mem[j].id
  BY <1>1, <1>2 DEF Unique
<1>4. \A k \in DOMAIN mem' : Known(mem'[k])
  BY <1>2 DEF Known, Same
<1> QED BY <1>2, <1>3, <1>4

LEMMA UnlinkShrinks ==
  ASSUME NEW e, Unlink(e)
  PROVE  files' \subseteq files
BY DEF Unlink

LEMMA GoToFacts ==
  ASSUME op \in Ops, NEW s, GoTo(s)
  PROVE  /\ op'.kind = op.kind /\ op'.stage = s
         /\ op.kind = "put" => op'.id = op.id /\ op'.body = op.body
         /\ op.kind = "clear" => op'.where = op.where
         /\ \/ op.kind \in {"start", "configure", "close", "put"} /\ s \in {"evict", "persist"}
            \/ op.kind = "clear" /\ s \in {"clear", "persist"}
            \/ op.stage \in {"scan", "dropped"} /\ s \in {"scan", "dropped", "miss"}
            \/ op.stage = "hit" /\ s = "miss"
            => op' \in Ops
<1>0. op' = [op EXCEPT !.stage = s]
  BY DEF GoTo
<1>1. CASE op \in [kind : {"start", "configure", "close"}, stage : {"evict", "persist"}]
  BY <1>0, <1>1 DEF Ops
<1>2. CASE op \in [kind : {"put"}, stage : {"install", "evict", "persist"}, id : Ids, body : Bodies, ttl : Ttls]
  BY <1>0, <1>2 DEF Ops
<1>3. CASE op \in [kind : {"clear"}, stage : {"clear", "persist"}, where : SUBSET Locations]
  BY <1>0, <1>3 DEF Ops
<1>4. CASE op \in [kind : {"get"}, stage : {"scan", "dropped", "miss"}, request : Requests]
  BY <1>0, <1>4 DEF Ops
<1>5. CASE op \in [kind : {"get"}, stage : {"hit", "miss"}, id : Ids]
  BY <1>0, <1>5 DEF Ops
<1> QED BY <1>1, <1>2, <1>3, <1>4, <1>5 DEF Ops

LEMMA OpFacts ==
  ASSUME op \in Ops
  PROVE  /\ op # Idle
         /\ op.stage \in {"evict"} => op.kind \in {"start", "configure", "close", "put"}
         /\ op.stage = "clear" => op.kind = "clear" /\ op.where \in SUBSET Locations
         /\ op.stage = "persist" => op.kind # "get"
         /\ op.stage = "install" => op.kind = "put"
         /\ op.kind = "put" => op.id \in Ids /\ op.body \in Bodies /\ op.stage \in {"install", "evict", "persist"} /\ op.ttl \in Ttls
         /\ op.kind = "clear" => op.where \in SUBSET Locations
         /\ op.stage = "hit" => op.id \in Ids /\ op.kind = "get"
         /\ op.stage \in {"scan", "dropped", "miss"} => op.kind = "get"
         /\ op.stage = "scan" => op.request \in Requests
BY DEF Ops, Idle

\* The abstract step in which something may be forgotten.
LEMMA Forgets ==
  ASSUME answer' = [kind |-> "none"], \A i \in Ids : Servable'[i] \subseteq Servable[i]
  PROVE  LossyStep
BY DEF LossyStep, Lossy!Next, Lossy!Forget, Lossy!Shrinks, Lossy!NoAnswer

----------------------------------------------------------------------------
(* The steps.                                                                 *)

\* What a step that removes an entry of memory does.
LEMMA RemovalSteps ==
  ASSUME RInv, op # Idle, NEW j \in DOMAIN mem, mem' = RemoveAt(mem, j), files' \subseteq files,
         UNCHANGED <<now, index, answer>>,
         op' \in Ops, op'.stage \notin {"install", "hit"},
         op'.kind = op.kind,
         op.kind = "put" => op'.id = op.id /\ op'.body = op.body /\ op.stage # "install",
         op.kind = "clear" => op'.stage # "persist"
  PROVE  RInv' /\ LossyStep
<1>1. op \in Ops /\ answer = [kind |-> "none"]
  BY DEF RInv, Unanswered
<1>2. Typed'
  BY Removed DEF RInv, Typed
<1>3. LossyStep
  <2>1. \A i \in Ids : Servable'[i] \subseteq Servable[i]
    <3>1. \A k \in DOMAIN mem' : Known(mem'[k])
      BY Removed DEF RInv
    <3>2. \A k \in DOMAIN index' : Known(index'[k])
      BY KnownAlready
    <3>3. now <= now'
      BY DEF RInv, Typed
    <3> QED BY <1>2, <3>1, <3>2, <3>3, NothingNew DEF RInv
  <2> QED BY <1>1, <2>1, Forgets
<1>4. Unanswered' /\ Found'
  BY <1>1 DEF Unanswered, Found
<1>5. Replaced'
  <2> SUFFICES ASSUME op'.kind = "put" PROVE \A k \in DOMAIN mem' : mem'[k].id = op'.id => mem'[k].body = op'.body
    BY DEF Replaced
  <2>1. \A k \in DOMAIN mem' : \E m \in DOMAIN mem : mem'[k] = mem[m]
    BY Removed DEF RInv
  <2>2. \A m \in DOMAIN mem : mem[m].id = op.id => mem[m].body = op.body
    BY DEF RInv, Replaced
  <2> QED BY <2>1, <2>2
<1>6. Emptied'
  <2>1. op'.kind = "clear" => op'.stage # "persist"
    OBVIOUS
  <2> QED BY <2>1 DEF Emptied
<1> QED BY <1>2, <1>3, <1>4, <1>5, <1>6 DEF RInv

LEMMA EvictRef == ASSUME RInv, Evict PROVE RInv' /\ LossyStep
<1> DEFINE j == Oldest(Overfull)
<1>1. /\ op # Idle /\ op.stage = "evict" /\ Overfull # {} /\ mem' = RemoveAt(mem, j) /\ Unlink(mem[j])
      /\ UNCHANGED <<now, index, op, answer>>
  BY DEF Evict, Stage, RemoveEntry, Steady
<1>2. j \in DOMAIN mem
  <2>1. Overfull \in SUBSET DOMAIN mem
    BY DEF Overfull, InLocation
  <2> QED BY <1>1, <2>1, OldestIsOne DEF RInv
<1>3. files' \subseteq files
  BY <1>1, UnlinkShrinks
<1>4. op' \in Ops /\ op' = op
  BY <1>1 DEF RInv, Unanswered
<1> HIDE DEF j
<1> QED BY <1>1, <1>2, <1>3, <1>4, RemovalSteps

LEMMA ClearNextRef == ASSUME RInv, ClearNext PROVE RInv' /\ LossyStep
<1> DEFINE doomed == {j \in DOMAIN mem : LocationOf[mem[j].id] \in op.where}
           j == Min(doomed)
<1>1. /\ op # Idle /\ op.stage = "clear" /\ op \in Ops /\ answer = [kind |-> "none"]
      /\ UNCHANGED <<now, index, answer>>
  BY DEF ClearNext, Stage, Steady, RInv, Unanswered
<1>2. CASE doomed # {}
  <2>1. mem' = RemoveAt(mem, j) /\ Unlink(mem[j]) /\ op' = op
    BY <1>2 DEF ClearNext, RemoveEntry
  <2>2. j \in DOMAIN mem
    <3>1. doomed \in SUBSET Nat
      BY CellFacts DEF RInv, Typed
    <3>2. doomed \subseteq DOMAIN mem
      OBVIOUS
    <3> HIDE DEF doomed
    <3> QED BY <1>2, <3>1, <3>2, LeastOf
  <2>3. files' \subseteq files
    BY <2>1, UnlinkShrinks
  <2> HIDE DEF j, doomed
  <2> QED BY <1>1, <2>1, <2>2, <2>3, RemovalSteps
<1>3. CASE doomed = {}
  <2>1. UNCHANGED <<mem, files>> /\ GoTo("persist")
    BY <1>3 DEF ClearNext, memory
  <2>2. op' \in Ops /\ op'.kind = "clear" /\ op'.stage = "persist" /\ op'.where = op.where
    BY <1>1, <2>1, GoToFacts, OpFacts
  <2>3. Typed' /\ Unanswered'
    BY <1>1, <2>1, <2>2 DEF RInv, Typed, Unanswered
  <2>4. Found' /\ Replaced'
    BY <2>2 DEF Found, Replaced
  <2>5. Emptied'
    BY <1>3, <2>1, <2>2 DEF Emptied
  <2>6. \A i \in Ids : Servable'[i] \subseteq Servable[i]
    BY <1>1, <2>1, <2>2, <2>3, KnownAlready, NothingNew DEF RInv, Typed
  <2> QED BY <1>1, <2>3, <2>4, <2>5, <2>6, Forgets DEF RInv
<1> QED BY <1>2, <1>3

LEMMA EvictDoneRef == ASSUME RInv, EvictDone PROVE RInv' /\ LossyStep
<1>1. /\ op # Idle /\ op.stage = "evict" /\ op \in Ops /\ answer = [kind |-> "none"]
      /\ UNCHANGED <<now, mem, index, files, answer>>
  BY DEF EvictDone, Stage, Steady, RInv, Unanswered, memory, disk
<1>2. op.kind \in {"start", "configure", "close", "put"}
  BY <1>1, OpFacts
<1>3. \/ op' = Idle
      \/ /\ op' \in Ops /\ op'.kind = op.kind /\ op'.stage = "persist"
         /\ op.kind = "put" => op'.id = op.id /\ op'.body = op.body
  <2>1. op' = Idle \/ GoTo("persist")
    BY DEF EvictDone
  <2> QED BY <1>1, <1>2, <2>1, GoToFacts
<1>4. Typed' /\ Unanswered'
  BY <1>1, <1>3 DEF RInv, Typed, Unanswered
<1>5. Found' /\ Emptied'
  BY <1>2, <1>3 DEF Found, Emptied
<1>6. Replaced'
  BY <1>1, <1>3 DEF RInv, Replaced
<1>7. \A i \in Ids : Servable'[i] \subseteq Servable[i]
  BY <1>1, <1>3, <1>4, KnownAlready, NothingNew DEF RInv, Typed
<1> QED BY <1>1, <1>4, <1>5, <1>6, <1>7, Forgets DEF RInv

\* The next entry get() comes to.
LEMMA NextRelevant ==
  ASSUME RInv, NEW q, Relevant(q) # {}
  PROVE  Min(Relevant(q)) \in Relevant(q) /\ Min(Relevant(q)) \in DOMAIN mem
<1> DEFINE S == Relevant(q)
<1>1. S \in SUBSET Nat /\ S \subseteq DOMAIN mem
  BY CellFacts DEF RInv, Typed, Relevant
<1> HIDE DEF S
<1>2. S # {} => Min(S) \in S
  BY <1>1, LeastOf
<1> QED BY <1>1, <1>2 DEF S

LEMMA ScanDropsRef == ASSUME RInv, ScanDrops PROVE RInv' /\ LossyStep
<1> DEFINE j == Min(Relevant(op.request))
<1>1. /\ op # Idle /\ op.stage = "scan" /\ Relevant(op.request) # {} /\ mem' = RemoveAt(mem, j) /\ Unlink(mem[j])
      /\ GoTo("dropped") /\ UNCHANGED <<now, index, answer>>
  BY DEF ScanDrops, Stage, RemoveEntry, Steady
<1>2. j \in DOMAIN mem /\ files' \subseteq files
  BY <1>1, NextRelevant, UnlinkShrinks
<1>3. op \in Ops
  BY <1>1 DEF RInv, Unanswered
<1>4. op.kind = "get" /\ op' \in Ops /\ op'.stage = "dropped" /\ op'.kind = op.kind
  BY <1>1, <1>3, GoToFacts, OpFacts
<1> HIDE DEF j
<1> QED BY <1>1, <1>2, <1>4, RemovalSteps

LEMMA ScanMissesRef == ASSUME RInv, ScanMisses PROVE RInv' /\ LossyStep
<1> DEFINE j == Min(Relevant(op.request))
<1>1. /\ op # Idle /\ op.stage = "scan" /\ Relevant(op.request) # {} /\ mem' = RemoveAt(mem, j) /\ Unlink(mem[j])
      /\ GoTo("miss") /\ UNCHANGED <<now, index, answer>>
  BY DEF ScanMisses, Stage, RemoveEntry, Steady
<1>2. j \in DOMAIN mem /\ files' \subseteq files
  BY <1>1, NextRelevant, UnlinkShrinks
<1>3. op \in Ops
  BY <1>1 DEF RInv, Unanswered
<1>4. op.kind = "get" /\ op' \in Ops /\ op'.stage = "miss" /\ op'.kind = op.kind
  BY <1>1, <1>3, GoToFacts, OpFacts
<1> HIDE DEF j
<1> QED BY <1>1, <1>2, <1>4, RemovalSteps

\* Nothing but the operation and its answer changes, or time passes.
LEMMA QuietSteps ==
  ASSUME RInv, UNCHANGED <<mem, index, files>>, now' \in Nat, now <= now', answer' = [kind |-> "none"],
         \/ op' = Idle
         \/ op' \in Ops /\ op'.stage \notin {"install", "hit"} /\ op'.kind # "put" /\ (op'.kind = "clear" => op'.stage = "clear")
  PROVE  RInv' /\ LossyStep
<1>1. Typed' /\ Unanswered'
  BY DEF RInv, Typed, Unanswered
<1>2. Found' /\ Replaced' /\ Emptied'
  BY DEF Found, Replaced, Emptied
<1>3. \A i \in Ids : Servable'[i] \subseteq Servable[i]
  BY <1>1, KnownAlready, NothingNew DEF RInv
<1> QED BY <1>1, <1>2, <1>3, Forgets DEF RInv

LEMMA QuietRef ==
  ASSUME RInv, \/ \E limit \in Limits : Configure(limit)
               \/ \E where \in {{l} : l \in Locations} \union {Locations} : Clear(where)
               \/ Close \/ (\E q \in Requests : Get(q)) \/ ScanEnds \/ Tick
  PROVE  RInv' /\ LossyStep
<1>0. now \in Nat /\ now <= now
  BY DEF RInv, Typed
<1>1. ASSUME NEW limit \in Limits, Configure(limit) PROVE RInv' /\ LossyStep
  <2>1. /\ UNCHANGED <<mem, index, files, now>> /\ answer' = [kind |-> "none"]
        /\ op' = [kind |-> "configure", stage |-> "evict"]
    BY <1>1 DEF Configure, Begin, memory, disk, Answered!NoAnswer
  <2>2. op' \in Ops /\ op'.kind = "configure" /\ op'.stage = "evict"
    BY <2>1 DEF Ops
  <2> QED BY <1>0, <2>1, <2>2, QuietSteps
<1>2. ASSUME NEW where \in {{l} : l \in Locations} \union {Locations}, Clear(where) PROVE RInv' /\ LossyStep
  <2>1. /\ UNCHANGED <<mem, index, files, now>> /\ answer' = [kind |-> "none"]
        /\ op' = [kind |-> "clear", stage |-> "clear", where |-> where]
    BY <1>2 DEF Clear, Begin, memory, disk, Answered!NoAnswer
  <2>2. op' \in Ops /\ op'.kind = "clear" /\ op'.stage = "clear"
    BY <2>1 DEF Ops
  <2> QED BY <1>0, <2>1, <2>2, QuietSteps
<1>3. CASE Close
  <2>1. /\ UNCHANGED <<mem, index, files, now>> /\ answer' = [kind |-> "none"]
        /\ op' = [kind |-> "close", stage |-> "persist"]
    BY <1>3 DEF Close, Begin, memory, disk, Answered!NoAnswer
  <2>2. op' \in Ops /\ op'.kind = "close" /\ op'.stage = "persist"
    BY <2>1 DEF Ops
  <2> QED BY <1>0, <2>1, <2>2, QuietSteps
<1>4. ASSUME NEW q \in Requests, Get(q) PROVE RInv' /\ LossyStep
  <2>1. /\ UNCHANGED <<mem, index, files, now>> /\ answer' = [kind |-> "none"]
        /\ op' = [kind |-> "get", stage |-> "scan", request |-> q]
    BY <1>4 DEF Get, Begin, memory, disk, Answered!NoAnswer
  <2>2. op' \in Ops /\ op'.kind = "get" /\ op'.stage = "scan"
    BY <2>1 DEF Ops
  <2> QED BY <1>0, <2>1, <2>2, QuietSteps
<1>5. CASE ScanEnds
  <2>1. UNCHANGED <<mem, index, files, now>> /\ answer' = [kind |-> "none"] /\ op' = Idle
    BY <1>5 DEF ScanEnds, Return, Steady, memory, disk, Answered!NoAnswer
  <2> QED BY <1>0, <2>1, QuietSteps
<1>6. CASE Tick
  <2>1. UNCHANGED <<mem, index, files>> /\ answer' = [kind |-> "none"] /\ op' = Idle /\ now' = now + 1
    BY <1>6 DEF Tick, Ready, memory, disk, Answered!NoAnswer
  <2> QED BY <1>0, <2>1, QuietSteps
<1> QED BY <1>1, <1>2, <1>3, <1>4, <1>5, <1>6

LEMMA InitRef == Init => RInv /\ Lossy!Init
<1> SUFFICES ASSUME Init PROVE RInv /\ Lossy!Init
  OBVIOUS
<1>1. now = 0 /\ mem = <<>> /\ index = <<>> /\ files = {} /\ op = Idle /\ answer = [kind |-> "none"]
  BY DEF Init, Answered!NoAnswer
<1>2. RInv
  BY <1>1 DEF RInv, Typed, Unanswered, Found, Replaced, Emptied, Unique
<1>3. Servable = [i \in Ids |-> {}]
  BY <1>1 DEF Servable
<1> QED BY <1>1, <1>2, <1>3 DEF Lossy!Init, Lossy!NoAnswer

LEMMA ProcessEndsRef == ASSUME RInv, ProcessEnds PROVE RInv' /\ LossyStep
<1>1. mem' = <<>> /\ index' = index /\ files' = files /\ now' = now /\ op' = Idle /\ answer' = [kind |-> "none"]
  BY DEF ProcessEnds, disk, Answered!NoAnswer
<1>2. Typed' /\ Unanswered' /\ Found' /\ Replaced' /\ Emptied'
  BY <1>1 DEF RInv, Typed, Unanswered, Found, Replaced, Emptied, Unique
<1>3. \A i \in Ids : Servable'[i] \subseteq Servable[i]
  <2>1. \A j \in DOMAIN mem' : Known(mem'[j])
    BY <1>1
  <2>2. \A j \in DOMAIN index' : Known(index'[j])
    BY <1>1, KnownAlready
  <2>3. now <= now'
    BY <1>1 DEF RInv, Typed
  <2> QED BY <1>1, <1>2, <2>1, <2>2, <2>3, NothingNew DEF RInv
<1> QED BY <1>1, <1>2, <1>3, Forgets DEF RInv

\* What start() loads of the index.
Loads(new) ==
  /\ new \in Seq(Cell) /\ Unique(new) /\ \A j \in DOMAIN new : \E k \in DOMAIN index : new[j] = index[k]
  /\ mem' = SetAll(mem, new) /\ bytes' = bytes + Total(new)

LEMMA StartLoads ==
  ASSUME RInv, Start
  PROVE  \E new : Loads(new)
<1>1. PICK unreadable : mem' = SetAll(mem, Loadable(unreadable)) /\ bytes' = bytes + Total(Loadable(unreadable))
  BY DEF Start
<1> DEFINE J == {j \in DOMAIN index : /\ ~Expired(index[j])
                                      /\ File(index[j]) \in files
                                      /\ index[j].id \notin unreadable}
           new == Loadable(unreadable)
<1>2. new = Only(index, J) /\ J \in SUBSET DOMAIN index /\ J \cap DOMAIN index = J
  BY DEF Loadable
<1>3. index \in Seq(Cell) /\ Unique(index)
  BY DEF RInv, Typed
<1>4. mem' = SetAll(mem, new) /\ bytes' = bytes + Total(new)
  BY <1>1
<1> HIDE DEF J, new
<1>5. new \in Seq(Cell) /\ \E g : Picks(g, new, index, J)
  BY <1>2, <1>3, OnlyFacts
<1>6. PICK g : Picks(g, new, index, J)
  BY <1>5
<1>7. Unique(new)
  BY <1>2, <1>3, <1>5, <1>6, PicksUnique
<1>8. \A j \in DOMAIN new : \E k \in DOMAIN index : new[j] = index[k]
  BY <1>2, <1>6 DEF Picks
<1> QED BY <1>4, <1>5, <1>7, <1>8 DEF Loads

LEMMA StartRef == ASSUME RInv, Start PROVE RInv' /\ LossyStep
<1>1. /\ UNCHANGED <<now, index, files>> /\ answer' = [kind |-> "none"]
      /\ op' = [kind |-> "start", stage |-> "evict"]
  BY DEF Start, Begin, disk, Answered!NoAnswer
<1>2. PICK new : Loads(new)
  BY StartLoads
<1>7. new \in Seq(Cell) /\ Unique(new) /\ \A j \in DOMAIN new : \E k \in DOMAIN index : new[j] = index[k]
  BY <1>2 DEF Loads
<1>8. mem' \in Seq(Cell) /\ Unique(mem') /\ \A j \in DOMAIN mem' : \E t \in {mem, new} : \E k \in DOMAIN t : mem'[j] = t[k]
  <2> DEFINE m == SetAll(mem, new)
  <2>1. /\ m \in Seq(Cell) /\ Unique(m)
        /\ \A j \in DOMAIN m : (\E k \in DOMAIN mem : m[j] = mem[k]) \/ \E k \in DOMAIN new : m[j] = new[k]
    <3>1. mem \in Seq(Cell) /\ Unique(mem)
      BY DEF RInv, Typed
    <3> HIDE DEF m
    <3> QED BY <1>7, <3>1, SetAllFacts DEF m
  <2>2. mem' = m
    BY <1>2 DEF Loads
  <2> HIDE DEF m
  <2> QED BY <2>1, <2>2
<1>9. \A j \in DOMAIN mem' : Known(mem'[j])
  BY <1>7, <1>8 DEF Known, Same
<1>10. op' \in Ops /\ op'.kind = "start" /\ op'.stage = "evict"
  BY <1>1 DEF Ops
<1>11. Typed' /\ Unanswered' /\ Found' /\ Replaced' /\ Emptied'
  BY <1>1, <1>8, <1>10 DEF RInv, Typed, Unanswered, Found, Replaced, Emptied
<1>12. \A i \in Ids : Servable'[i] \subseteq Servable[i]
  <2>1. \A j \in DOMAIN index' : Known(index'[j])
    BY <1>1, KnownAlready
  <2>2. now <= now'
    BY <1>1 DEF RInv, Typed
  <2> QED BY <1>1, <1>9, <1>10, <1>11, <2>1, <2>2, NothingNew DEF RInv
<1> QED BY <1>1, <1>11, <1>12, Forgets DEF RInv

LEMMA PutRef ==
  ASSUME RInv, NEW r \in Responses, NEW ttl \in Ttls, Put(r[1], r[2], ttl)
  PROVE  RInv' /\ LossyStep
<1> DEFINE i == r[1]
           b == r[2]
<1>1. i \in Ids /\ b \in Bodies
  BY ResponsesAssumption
<1>2. /\ op = Idle /\ UNCHANGED <<now, mem, index>> /\ answer' = [kind |-> "none"] /\ files' = files \cup {<<i, b>>}
      /\ op' = [kind |-> "put", stage |-> "install", id |-> i, body |-> b, ttl |-> ttl]
  BY DEF Put, Begin, Ready, memory, Answered!NoAnswer
<1> HIDE DEF i, b
<1>3. op' \in Ops /\ op'.kind = "put" /\ op'.stage = "install" /\ op'.id = i /\ op'.body = b /\ op' # Idle
  BY <1>1, <1>2 DEF Ops, Idle
<1>4. RInv'
  BY <1>2, <1>3 DEF RInv, Typed, Unanswered, Found, Replaced, Emptied
<1>5. ASSUME NEW k \in Ids
      PROVE  Servable'[k] = IF k = i THEN Servable[k] \cup {b} ELSE Servable[k]
  <2>1. ASSUME NEW c \in Bodies
        PROVE  c \in Servable'[k] <=> c \in Servable[k] \/ (k = i /\ c = b)
    <3> DEFINE Has(s) == \E j \in DOMAIN s : s[j].id = k /\ s[j].body = c /\ ~(s[j].expires <= now)
    <3>1. c \in Servable[k] <=> <<k, c>> \in files /\ (Has(mem) \/ Has(index))
      BY <1>2 DEF Servable, Expired
    <3>2. c \in Servable'[k] <=> (<<k, c>> \in files' /\ (Has(mem) \/ Has(index))) \/ (k = i /\ c = b)
      BY <1>2, <1>3 DEF Servable, Expired
    <3> HIDE DEF Has
    <3> QED BY <1>2, <3>1, <3>2
  <2>2. Servable[k] \subseteq Bodies /\ Servable'[k] \subseteq Bodies
    BY DEF Servable
  <2> QED BY <1>1, <2>1, <2>2
<1>6. Servable' = [Servable EXCEPT ![i] = @ \cup {b}]
  <2>1. Servable = [k \in Ids |-> Servable[k]] /\ Servable' = [k \in Ids |-> Servable'[k]]
    BY DEF Servable
  <2> QED BY <1>1, <1>5, <2>1
<1>7. Lossy!Accept(i, b)
  BY <1>2, <1>6 DEF Lossy!Accept, Lossy!NoAnswer
<1> QED BY <1>1, <1>4, <1>7 DEF LossyStep, Lossy!Next

\* What put() makes of memory: an older entry of the id goes, the new one comes last.
Replaces(old, e) ==
  /\ old \in Seq(Cell) /\ Unique(old) /\ \A k \in DOMAIN old : old[k].id # op.id
  /\ \A k \in DOMAIN old : \E m \in DOMAIN mem : old[k] = mem[m]
  /\ e \in Cell /\ e.id = op.id /\ e.body = op.body /\ e.used = now /\ e.expires = now + op.ttl
  /\ mem' = Append(old, e)
  /\ \/ old = mem /\ bytes' = bytes + Size[op.body]
     \/ \E j \in DOMAIN mem : old = RemoveAt(mem, j) /\ bytes' = bytes - Size[mem[j].body] + Size[op.body]

LEMMA Installs ==
  ASSUME RInv, InstallEntry
  PROVE  \E old, e : Replaces(old, e)
<1> DEFINE e == [id |-> op.id, body |-> op.body, expires |-> now + op.ttl, used |-> now]
<1>0. mem \in Seq(Cell) /\ Unique(mem) /\ now \in Nat /\ op \in Ops /\ op.stage = "install"
  BY DEF RInv, Typed, Unanswered, InstallEntry, Stage
<1>1. e \in Cell /\ e.id = op.id /\ e.body = op.body /\ e.used = now /\ e.expires = now + op.ttl
  <2>1. op.id \in Ids /\ op.body \in Bodies /\ op.ttl \in Nat
    BY <1>0, OpFacts, TimesAssumption
  <2> QED BY <1>0, <2>1 DEF Cell
<1>2. CASE op.id \in Held(mem)
  <2> DEFINE j == At(mem, op.id)
             r == RemoveAt(mem, j)
  <2>1. j \in DOMAIN mem /\ mem[j].id = op.id
    BY <1>2, AtFacts
  <2>2. mem' = Append(r, e) /\ bytes' = bytes - Size[mem[j].body] + Size[op.body]
    BY <1>2 DEF InstallEntry
  <2> HIDE DEF j, e
  <2>3. /\ r \in Seq(Cell) /\ Unique(r)
        /\ \A k \in DOMAIN r : \E m \in DOMAIN mem \ {j} : r[k] = mem[m]
    BY <1>0, <2>1, RemoveAtFacts, RemoveAtLeaves
  <2>4. \A m \in DOMAIN mem \ {j} : mem[m].id # op.id
    BY <1>0, <2>1 DEF Unique
  <2>5. \E i \in DOMAIN mem : r = RemoveAt(mem, i) /\ bytes' = bytes - Size[mem[i].body] + Size[op.body]
    BY <2>1, <2>2
  <2> HIDE DEF r
  <2>6. Replaces(r, e)
    BY <1>1, <2>2, <2>3, <2>4, <2>5 DEF Replaces
  <2> QED BY <2>6
<1>3. CASE op.id \notin Held(mem)
  <2>1. mem' = Append(mem, e) /\ bytes' = bytes + Size[op.body]
    BY <1>3 DEF InstallEntry
  <2> HIDE DEF e
  <2>2. Replaces(mem, e)
    BY <1>0, <1>1, <1>3, <2>1 DEF Replaces, Held
  <2> QED BY <2>2
<1> QED BY <1>2, <1>3

LEMMA InstallRef == ASSUME RInv, InstallEntry PROVE RInv' /\ LossyStep
<1>1. /\ op # Idle /\ op.stage = "install" /\ op \in Ops /\ answer = [kind |-> "none"]
      /\ UNCHANGED <<now, index, answer>> /\ GoTo("evict")
  BY DEF InstallEntry, Stage, Steady, RInv, Unanswered
<1>2. op.kind = "put" /\ op.id \in Ids /\ op.body \in Bodies
  BY <1>1, OpFacts
<1>3. op' \in Ops /\ op'.kind = "put" /\ op'.stage = "evict" /\ op'.id = op.id /\ op'.body = op.body
  BY <1>1, <1>2, GoToFacts
<1>4. PICK old, e : Replaces(old, e)
  BY Installs
<1>5. mem' = Append(old, e) /\ e \in Cell /\ e.id = op.id /\ e.body = op.body
  BY <1>4 DEF Replaces
<1>6. /\ old \in Seq(Cell) /\ Unique(old) /\ \A k \in DOMAIN old : old[k].id # op.id
      /\ \A k \in DOMAIN old : \E m \in DOMAIN mem : old[k] = mem[m]
  BY <1>4 DEF Replaces
<1>11. files' \subseteq files
  BY UnlinkShrinks DEF InstallEntry
<1>7. /\ mem' \in Seq(Cell) /\ Unique(mem')
      /\ \A k \in DOMAIN mem' : mem'[k] = e \/ \E m \in DOMAIN old : mem'[k] = old[m]
  BY <1>5, <1>6, Appended
<1>8. \A k \in DOMAIN mem' : mem'[k] = e \/ (mem'[k].id # op.id /\ \E m \in DOMAIN mem : mem'[k] = mem[m])
  BY <1>6, <1>7
<1>9. RInv'
  <2>1. Typed' /\ Unanswered'
    BY <1>1, <1>3, <1>7 DEF RInv, Typed, Unanswered
  <2>2. Found' /\ Emptied'
    BY <1>3 DEF Found, Emptied
  <2>3. Replaced'
    BY <1>3, <1>5, <1>8 DEF Replaced
  <2> QED BY <2>1, <2>2, <2>3 DEF RInv
<1>10. ASSUME NEW i \in Ids, NEW b \in Servable'[i] PROVE b \in Servable[i]
  <2>1. b \in Bodies /\ <<i, b>> \in files'
    BY <1>3, <1>10 DEF Servable
  <2>2. \/ \E j \in DOMAIN mem' : mem'[j].id = i /\ mem'[j].body = b /\ ~(mem'[j].expires <= now)
        \/ \E j \in DOMAIN index : index[j].id = i /\ index[j].body = b /\ ~(index[j].expires <= now)
    BY <1>1, <1>3, <1>10 DEF Servable, Expired
  <2>3. \/ i = op.id /\ b = op.body
        \/ \E j \in DOMAIN mem : mem[j].id = i /\ mem[j].body = b /\ ~(mem[j].expires <= now)
        \/ \E j \in DOMAIN index : index[j].id = i /\ index[j].body = b /\ ~(index[j].expires <= now)
    BY <1>5, <1>8, <2>2
  <2>4. <<i, b>> \in files
    BY <1>11, <2>1
  <2> QED BY <1>1, <2>1, <2>3, <2>4 DEF Servable, Expired
<1> QED BY <1>1, <1>9, <1>10, Forgets

\* The entry get() hits is used now; nothing else of the entries changes.
LEMMA Touches ==
  ASSUME Typed, NEW j \in DOMAIN mem
  PROVE  /\ Touched(j) \in Seq(Cell) /\ DOMAIN Touched(j) = DOMAIN mem
         /\ \A k \in DOMAIN mem : /\ Same(Touched(j)[k], mem[k])
                                 /\ Touched(j)[k].used = IF k = j THEN now ELSE mem[k].used
<1> DEFINE c == mem[j]
           e == [c EXCEPT !.used = now]
<1>1. mem \in Seq(Cell) /\ now \in Nat /\ c \in Cell
  BY CellFacts DEF Typed
<1>2. Touched(j) = [mem EXCEPT ![j] = e]
  BY DEF Touched
<1>3. e = [c EXCEPT !.used = now]
  OBVIOUS
<1> HIDE DEF c, e
<1>4. e \in Cell /\ Same(e, c) /\ e.used = now
  BY <1>1, <1>3 DEF Cell, Same
<1> DEFINE m == [mem EXCEPT ![j] = e]
<1>5. m \in Seq(Cell) /\ DOMAIN m = DOMAIN mem /\ m[j] = e /\ \A k \in DOMAIN mem \ {j} : m[k] = mem[k]
  <2> HIDE DEF m
  <2> QED BY <1>1, <1>4, ExceptSeq DEF m
<1> HIDE DEF m
<1>6. \A k \in DOMAIN mem : Same(m[k], mem[k]) /\ m[k].used = IF k = j THEN now ELSE mem[k].used
  BY <1>4, <1>5 DEF Same, c
<1> QED BY <1>2, <1>5, <1>6 DEF m

LEMMA ScanHitsRef == ASSUME RInv, ScanHits PROVE RInv' /\ LossyStep
<1> DEFINE j == Min(Relevant(op.request))
<1>1. /\ op # Idle /\ op.stage = "scan" /\ Relevant(op.request) # {} /\ ~Expired(mem[j]) /\ File(mem[j]) \in files
      /\ mem' = Touched(j) /\ op' = [kind |-> "get", stage |-> "hit", id |-> mem[j].id]
      /\ UNCHANGED <<now, index, files, answer>>
  BY DEF ScanHits, Stage, Steady, disk
<1>2. j \in DOMAIN mem
  BY <1>1, NextRelevant
<1>3. mem \in Seq(Cell) /\ Unique(mem) /\ now \in Nat /\ answer = [kind |-> "none"]
  BY <1>1 DEF RInv, Typed, Unanswered
<1> HIDE DEF j
<1>6. mem' \in Seq(Cell) /\ DOMAIN mem' = DOMAIN mem
  BY <1>1, <1>2, Touches DEF RInv
<1>7. \A k \in DOMAIN mem : Same(mem'[k], mem[k])
  BY <1>1, <1>2, Touches DEF RInv
<1>8. Unique(mem')
  BY <1>3, <1>6, <1>7 DEF Unique, Same
<1>9. op' \in Ops /\ op'.kind = "get" /\ op'.stage = "hit" /\ op'.id = mem[j].id
  BY <1>1, <1>2, <1>3, CellFacts DEF Ops
<1>10. Typed' /\ Unanswered'
  BY <1>1, <1>3, <1>6, <1>8, <1>9 DEF RInv, Typed, Unanswered
<1>11. Found'
  <2>1. j \in DOMAIN mem' /\ Same(mem'[j], mem[j])
    BY <1>2, <1>6, <1>7
  <2>2. ~(mem'[j].expires <= now') /\ <<mem'[j].id, mem'[j].body>> \in files'
    BY <1>1, <2>1 DEF Expired, File, Same
  <2> QED BY <1>9, <2>1, <2>2 DEF Found, Expired, File, Same
<1>12. Replaced' /\ Emptied'
  BY <1>9 DEF Replaced, Emptied
<1>13. \A i \in Ids : Servable'[i] \subseteq Servable[i]
  <2>1. \A k \in DOMAIN mem' : Known(mem'[k])
    BY <1>6, <1>7 DEF Known
  <2>2. \A k \in DOMAIN index' : Known(index'[k])
    BY <1>1, KnownAlready
  <2>3. now <= now'
    BY <1>1, <1>3
  <2> QED BY <1>1, <1>9, <1>10, <2>1, <2>2, <2>3, NothingNew DEF RInv
<1> QED BY <1>1, <1>3, <1>10, <1>11, <1>12, <1>13, Forgets DEF RInv

LEMMA PersistedRef == ASSUME RInv, Persisted PROVE RInv' /\ LossyStep
<1>1. /\ op \in Ops /\ op # Idle /\ op.stage \in {"persist", "dropped", "hit", "miss"} /\ index' = mem
      /\ UNCHANGED <<now, mem, files>> /\ answer = [kind |-> "none"]
  BY DEF Persisted, Stage, NewIndex, memory, RInv, Unanswered
<1>2. Typed'
  BY <1>1 DEF RInv, Typed
<1>4. \A j \in DOMAIN index' : Known(index'[j])
  BY <1>1, KnownAlready
<1>5. ASSUME op' = Idle \/ (op' \in Ops /\ op'.stage = "scan")
      PROVE  Found' /\ Replaced' /\ Emptied' /\ \A i \in Ids : Servable'[i] \subseteq Servable[i]
  <2>1. op' \in Ops /\ op'.stage = "scan" => op'.kind = "get"
    BY OpFacts DEF Ops
  <2>2. Found' /\ Replaced' /\ Emptied'
    BY <1>5, <2>1 DEF Found, Replaced, Emptied
  <2>3. now <= now'
    BY <1>1 DEF RInv, Typed
  <2>4. op' = Idle \/ op'.stage # "install"
    BY <1>5
  <2>5. \A j \in DOMAIN mem' : Known(mem'[j])
    BY <1>1, KnownAlready
  <2> QED BY <1>1, <1>2, <1>4, <2>2, <2>3, <2>4, <2>5, NothingNew DEF RInv
\* What is left to serve is in memory.
<1>6. ASSUME op' = Idle, NEW i \in Ids, NEW b \in Servable'[i]
      PROVE  \E j \in DOMAIN mem : mem[j].id = i /\ mem[j].body = b
  BY <1>1, <1>6 DEF Servable
<1>7. CASE op.stage = "dropped"
  <2>1. GoTo("scan") /\ answer' = answer
    BY <1>7 DEF Persisted
  <2>2. op' \in Ops /\ op'.stage = "scan"
    BY <1>1, <1>7, <2>1, GoToFacts
  <2> QED BY <1>1, <1>2, <1>5, <2>1, <2>2, Forgets DEF RInv, Unanswered
<1>8. CASE op.stage = "hit"
  <2> DEFINE j == At(mem, op.id)
             b == mem[j].body
  <2>1. op' = Idle /\ answer' = [kind |-> "served", id |-> op.id, body |-> b]
    BY <1>8 DEF Persisted, Return, Answered!Served
  <2>2. PICK k \in DOMAIN mem : mem[k].id = op.id /\ ~Expired(mem[k]) /\ File(mem[k]) \in files
    BY <1>1, <1>8 DEF RInv, Found
  <2>3. j = k
    <3>1. op.id \in Held(mem)
      BY <2>2 DEF Held
    <3> QED BY <2>2, <3>1, AtFacts DEF RInv, Typed, Unique
  <2>4. op.id \in Ids /\ b \in Bodies
    BY <1>1, <1>8, <2>2, <2>3, OpFacts, CellFacts DEF RInv, Typed
  <2>5. b \in Servable[op.id]
    BY <2>2, <2>3, <2>4 DEF Servable, File
  <2> HIDE DEF b, j
  <2>6. Lossy!Serve(op.id, b)
    BY <1>5, <2>1, <2>5 DEF Lossy!Serve, Lossy!Served, Lossy!Shrinks
  <2>7. LossyStep
    BY <2>4, <2>6 DEF LossyStep, Lossy!Next
  <2> QED BY <1>2, <1>5, <2>1, <2>7 DEF RInv, Unanswered
<1>9. CASE op.stage = "persist" /\ op.kind = "put"
  <2> DEFINE kept == op.id \in Held(mem)
  <2>1. op' = Idle /\ answer' = [kind |-> "stored", id |-> op.id, body |-> op.body, kept |-> kept]
    BY <1>9 DEF Persisted, Return, Answered!Stored
  <2>2. op.id \in Ids /\ op.body \in Bodies /\ kept \in BOOLEAN
    BY <1>1, <1>9, OpFacts
  <2>3. Servable'[op.id] \subseteq IF kept THEN {op.body} ELSE {}
    <3> SUFFICES ASSUME NEW b \in Servable'[op.id] PROVE b \in IF kept THEN {op.body} ELSE {}
      OBVIOUS
    <3>1. PICK j \in DOMAIN mem : mem[j].id = op.id /\ mem[j].body = b
      BY <1>6, <2>1, <2>2
    <3> QED BY <1>1, <1>9, <3>1 DEF RInv, Replaced, Held
  <2> HIDE DEF kept
  <2>4. Lossy!Confirm(op.id, op.body, kept)
    BY <1>5, <2>1, <2>3 DEF Lossy!Confirm, Lossy!Stored, Lossy!Shrinks
  <2>5. LossyStep
    BY <2>2, <2>4 DEF LossyStep, Lossy!Next
  <2> QED BY <1>2, <1>5, <2>1, <2>5 DEF RInv, Unanswered
<1>10. CASE op.stage = "persist" /\ op.kind = "clear"
  <2>1. op' = Idle /\ answer' = [kind |-> "cleared", where |-> op.where]
    BY <1>10 DEF Persisted, Return, Answered!Cleared
  <2>2. op.where \in SUBSET Locations
    BY <1>1, <1>10, OpFacts
  <2>3. \A i \in Ids : LocationOf[i] \in op.where => Servable'[i] = {}
    BY <1>1, <1>6, <1>10, <2>1 DEF RInv, Emptied
  <2>4. Lossy!ConfirmClear(op.where)
    BY <1>5, <2>1, <2>3 DEF Lossy!ConfirmClear, Lossy!Cleared, Lossy!Shrinks
  <2>5. LossyStep
    BY <2>2, <2>4 DEF LossyStep, Lossy!Next
  <2> QED BY <1>2, <1>5, <2>1, <2>5 DEF RInv, Unanswered
<1>11. CASE op.stage = "miss" \/ (op.stage = "persist" /\ op.kind \notin {"put", "clear"})
  <2>1. op' = Idle /\ answer' = [kind |-> "none"]
    BY <1>11 DEF Persisted, Return, Answered!NoAnswer
  <2> QED BY <1>2, <1>5, <2>1, Forgets DEF RInv, Unanswered
<1> QED BY <1>1, <1>7, <1>8, <1>9, <1>10, <1>11

LEMMA PersistFailsRef == ASSUME RInv, PersistFails PROVE RInv' /\ LossyStep
<1>1. /\ op \in Ops /\ op # Idle /\ UNCHANGED <<now, index>> /\ answer = [kind |-> "none"]
  BY DEF PersistFails, Stage, Steady, RInv, Unanswered
<1>2. CASE op.stage = "hit"
  <2> DEFINE j == At(mem, op.id)
  <2>1. mem' = RemoveAt(mem, j) /\ files' \subseteq files /\ GoTo("miss") /\ answer' = answer
    BY <1>2 DEF PersistFails
  <2>2. j \in DOMAIN mem
    <3>1. op.id \in Held(mem)
      BY <1>1, <1>2 DEF RInv, Found, Held
    <3> QED BY <3>1, AtFacts
  <2>3. op.kind = "get" /\ op' \in Ops /\ op'.stage = "miss" /\ op'.kind = op.kind
    BY <1>1, <1>2, <2>1, GoToFacts, OpFacts
  <2> HIDE DEF j
  <2> QED BY <1>1, <2>1, <2>2, <2>3, RemovalSteps
<1>3. CASE op.stage # "hit"
  <2>1. op' = Idle /\ answer' = [kind |-> "none"] /\ UNCHANGED <<mem, files>>
    BY <1>3 DEF PersistFails, Return, memory, Answered!NoAnswer
  <2>2. now \in Nat /\ now <= now
    BY DEF RInv, Typed
  <2> QED BY <1>1, <2>1, <2>2, QuietSteps
<1> QED BY <1>2, <1>3

LEMMA StepRef == RInv /\ [Next]_vars => RInv' /\ LossyStep
<1> SUFFICES ASSUME RInv, [Next]_vars PROVE RInv' /\ LossyStep
  OBVIOUS
<1>1. CASE \E r \in Responses, ttl \in Ttls : Put(r[1], r[2], ttl)
  BY <1>1, PutRef
<1>2. CASE Step
  BY <1>2, InstallRef, EvictRef, EvictDoneRef, ClearNextRef, QuietRef, ScanDropsRef, ScanHitsRef, ScanMissesRef,
     PersistedRef, PersistFailsRef DEF Step
<1>3. CASE \/ \E limit \in Limits : Configure(limit)
           \/ \E where \in {{l} : l \in Locations} \union {Locations} : Clear(where)
           \/ Close \/ (\E q \in Requests : Get(q)) \/ ScanEnds \/ Tick
  BY <1>3, QuietRef
<1>4. CASE UNCHANGED vars
  <2>1. UNCHANGED <<now, mem, index, files, op, answer>>
    BY <1>4 DEF vars, disk, memory
  <2>2. RInv'
    BY <2>1 DEF RInv, Typed, Unanswered, Found, Replaced, Emptied, Unique, Expired, File
  <2>3. Servable' = Servable
    BY <2>1 DEF Servable, Expired
  <2> QED BY <2>1, <2>2, <2>3 DEF LossyStep, Lossy!vars
<1> QED BY <1>1, <1>2, <1>3, <1>4, StartRef, ProcessEndsRef DEF Next

\* The inductive invariant holds throughout.
THEOREM Invariance == Spec => []RInv
BY InitRef, StepRef, PTL DEF Spec

\* The proxy cache implements a cache that may forget but never invents nor
\* resurrects: over evictions, expiry, clears, crashes between any two changes
\* of the disk, restarts and failing disk operations.
THEOREM Refinement == Spec => ImplementsLossyCache
<1>1. RInv /\ [Next]_vars => [Lossy!Next]_(Lossy!vars)
  BY StepRef DEF LossyStep
<1>2. Init => Lossy!Init
  BY InitRef
<1> QED BY <1>1, <1>2, Invariance, PTL DEF Spec, ImplementsLossyCache, Lossy!Spec

----------------------------------------------------------------------------
(* Sizes of entries.                                                          *)

IsSizes(f, s, J, n) ==
  f = [i \in 0 .. n |-> IF i = 0 THEN 0 ELSE f[i - 1] + IF i \in J THEN Size[s[i].body] ELSE 0]

LEMMA SizesExist ==
  ASSUME NEW n \in Nat, NEW s, NEW J
  PROVE  \E f : IsSizes(f, s, J, n)
<1> DEFINE S == {m \in 0 .. n : \E f : IsSizes(f, s, J, m)}
<1>1. 0 \in S
  <2>1. IsSizes([i \in 0 .. 0 |-> 0], s, J, 0)
    BY DEF IsSizes
  <2> QED BY <2>1
<1>2. ASSUME NEW m \in 0 .. n - 1, m \in S PROVE m + 1 \in S
  <2>1. PICK g : IsSizes(g, s, J, m)
    BY <1>2
  <2> DEFINE new == g[m] + IF m + 1 \in J THEN Size[s[m + 1].body] ELSE 0
             f == [i \in 0 .. m + 1 |-> IF i = m + 1 THEN new ELSE g[i]]
  <2>2. IsSizes(f, s, J, m + 1)
    <3>1. ASSUME NEW i \in 0 .. m + 1
          PROVE f[i] = IF i = 0 THEN 0 ELSE f[i - 1] + IF i \in J THEN Size[s[i].body] ELSE 0
      <4>1. CASE i = m + 1
        <5>1. f[i] = new /\ i # 0 /\ f[i - 1] = g[m]
          BY <4>1
        <5> HIDE DEF f
        <5> QED BY <4>1, <5>1
      <4>2. CASE i # m + 1
        <5>1. i \in 0 .. m /\ (i # 0 => i - 1 \in 0 .. m)
          BY <4>2
        <5>2. g[i] = IF i = 0 THEN 0 ELSE g[i - 1] + IF i \in J THEN Size[s[i].body] ELSE 0
          BY <2>1, <5>1 DEF IsSizes
        <5>3. f[i] = g[i] /\ (i # 0 => f[i - 1] = g[i - 1])
          BY <4>2, <5>1
        <5> HIDE DEF f
        <5> QED BY <5>2, <5>3
      <4> QED BY <4>1, <4>2
    <3> HIDE DEF f
    <3>2. f = [i \in 0 .. m + 1 |-> f[i]]
      BY DEF f
    <3> QED BY <3>1, <3>2 DEF IsSizes
  <2> QED BY <2>2
<1>3. 0 .. n \subseteq S
  <2> HIDE DEF S
  <2> QED BY <1>1, <1>2, UpTo
<1> QED BY <1>3

\* The sizes of the entries at positions J up to each position.
Sums(f, s, J) ==
  /\ SizeOf(s, J) = f[Len(s)] /\ f[0] = 0
  /\ \A i \in 0 .. Len(s) : f[i] \in Nat
  /\ \A i \in 1 .. Len(s) : f[i] = f[i - 1] + IF i \in J THEN Size[s[i].body] ELSE 0

LEMMA SumsExist ==
  ASSUME NEW s \in Seq(Cell), NEW J
  PROVE  \E f : Sums(f, s, J)
<1> DEFINE n == Len(s)
           f == CHOOSE h : IsSizes(h, s, J, n)
<1>1. n \in Nat /\ \A i \in 1 .. n : Size[s[i].body] \in Nat
  <2>1. \A i \in 1 .. n : s[i] \in Cell
    OBVIOUS
  <2> QED BY <2>1, SizesAssumption DEF Cell
<1>2. IsSizes(f, s, J, n)
  BY <1>1, SizesExist
<1>3. SizeOf(s, J) = f[n]
  BY DEF SizeOf, IsSizes
<1> HIDE DEF f, n
<1>4. f[0] = 0 /\ \A i \in 1 .. n : f[i] = f[i - 1] + IF i \in J THEN Size[s[i].body] ELSE 0
  <2>1. \A i \in 0 .. n : f[i] = IF i = 0 THEN 0 ELSE f[i - 1] + IF i \in J THEN Size[s[i].body] ELSE 0
    BY <1>2 DEF IsSizes
  <2> QED BY <1>1, <2>1
<1> DEFINE S == {i \in 0 .. n : f[i] \in Nat}
<1>5. 0 \in S
  BY <1>1, <1>4
<1>6. ASSUME NEW i \in 0 .. n - 1, i \in S PROVE i + 1 \in S
  <2>1. i + 1 \in 1 .. n /\ (i + 1) - 1 = i /\ i + 1 \in 0 .. n
    BY <1>1
  <2>2. f[i + 1] = f[i] + IF i + 1 \in J THEN Size[s[i + 1].body] ELSE 0
    BY <1>4, <2>1
  <2>3. f[i] \in Nat /\ Size[s[i + 1].body] \in Nat
    BY <1>1, <1>6, <2>1
  <2>4. f[i + 1] \in Nat
    BY <2>2, <2>3
  <2> QED BY <2>1, <2>4
<1>7. 0 .. n \subseteq S
  <2> HIDE DEF S
  <2> QED BY <1>1, <1>5, <1>6, UpTo
<1> QED BY <1>3, <1>4, <1>7 DEF n, Sums

LEMMA SizeOfType ==
  ASSUME NEW s \in Seq(Cell), NEW J
  PROVE  SizeOf(s, J) \in Nat
<1>1. PICK f : Sums(f, s, J)
  BY SumsExist
<1>2. Len(s) \in 0 .. Len(s)
  OBVIOUS
<1> QED BY <1>1, <1>2 DEF Sums

LEMMA SizeOfNone ==
  ASSUME NEW s \in Seq(Cell), NEW J, J \cap DOMAIN s = {}
  PROVE  SizeOf(s, J) = 0
<1> DEFINE n == Len(s)
<1>1. n \in Nat /\ DOMAIN s = 1 .. n
  OBVIOUS
<1>2. PICK f : Sums(f, s, J)
  BY SumsExist
<1> DEFINE S == {i \in 0 .. n : f[i] = 0}
<1>3. 0 \in S
  BY <1>1, <1>2 DEF Sums
<1>4. ASSUME NEW i \in 0 .. n - 1, i \in S PROVE i + 1 \in S
  <2>1. i + 1 \in 1 .. n /\ (i + 1) - 1 = i /\ i + 1 \in 0 .. n /\ i + 1 \notin J
    BY <1>1
  <2>2. f[i + 1] = f[i] /\ f[i] = 0
    <3>1. f[i + 1] = f[i + 1 - 1] + 0 /\ f[i] \in Nat
      BY <1>2, <2>1 DEF Sums
    <3> QED BY <1>4, <2>1, <3>1
  <2> QED BY <2>1, <2>2
<1>5. 0 .. n \subseteq S
  <2> HIDE DEF S, n
  <2> QED BY <1>1, <1>3, <1>4, UpTo
<1> QED BY <1>1, <1>2, <1>5 DEF Sums

\* One position more.
LEMMA SizeOfPlus ==
  ASSUME NEW s \in Seq(Cell), NEW J, NEW p \in DOMAIN s, p \notin J
  PROVE  SizeOf(s, J \cup {p}) = SizeOf(s, J) + Size[s[p].body]
<1> DEFINE n == Len(s)
           w == Size[s[p].body]
<1>1. n \in Nat /\ DOMAIN s = 1 .. n /\ \A i \in 1 .. n : Size[s[i].body] \in Nat
  <2>1. n \in Nat /\ DOMAIN s = 1 .. n
    OBVIOUS
  <2>2. \A i \in DOMAIN s : s[i].body \in Bodies
    BY CellFacts
  <2>3. \A b \in Bodies : Size[b] \in Nat
    BY SizesAssumption
  <2> QED BY <2>1, <2>2, <2>3
<1>2. PICK f : Sums(f, s, J)
  BY SumsExist
<1>3. PICK h : Sums(h, s, J \cup {p})
  BY SumsExist
<1>4. p \in 1 .. n /\ w \in Nat
  BY <1>1
<1>5. /\ f[0] = 0 /\ h[0] = 0 /\ \A i \in 0 .. n : f[i] \in Nat /\ h[i] \in Nat
      /\ \A i \in 1 .. n : /\ f[i] = f[i - 1] + IF i \in J THEN Size[s[i].body] ELSE 0
                           /\ h[i] = h[i - 1] + IF i \in J \cup {p} THEN Size[s[i].body] ELSE 0
      /\ SizeOf(s, J) = f[n] /\ SizeOf(s, J \cup {p}) = h[n]
  BY <1>2, <1>3 DEF Sums
<1> HIDE DEF w, n
<1> DEFINE S == {i \in 0 .. n : h[i] = IF i < p THEN f[i] ELSE f[i] + w}
<1>6. 0 \in S
  BY <1>1, <1>4, <1>5
<1>7. ASSUME NEW i \in 0 .. n - 1, i \in S PROVE i + 1 \in S
  <2>1. i + 1 \in 1 .. n /\ (i + 1) - 1 = i /\ i + 1 \in 0 .. n /\ i \in 0 .. n
    BY <1>1
  <2>2. h[i] = IF i < p THEN f[i] ELSE f[i] + w
    BY <1>7
  <2>3. /\ f[i + 1] = f[i] + IF i + 1 \in J THEN Size[s[i + 1].body] ELSE 0
        /\ h[i + 1] = h[i] + IF i + 1 \in J \cup {p} THEN Size[s[i + 1].body] ELSE 0
        /\ f[i] \in Nat /\ Size[s[i + 1].body] \in Nat
    BY <1>1, <1>5, <2>1
  <2>4. CASE i + 1 = p
    <3>1. h[i + 1] = h[i] + w /\ f[i + 1] = f[i] /\ h[i] = f[i]
      BY <1>1, <1>4, <2>1, <2>2, <2>3, <2>4 DEF w
    <3> QED BY <1>4, <2>1, <2>3, <2>4, <3>1
  <2>5. CASE i + 1 # p
    <3>1. i + 1 \in J \cup {p} <=> i + 1 \in J
      BY <2>5
    <3>2. i + 1 < p <=> i < p
      BY <1>1, <1>4, <2>1, <2>5
    <3>3. h[i + 1] = IF i + 1 < p THEN f[i + 1] ELSE f[i + 1] + w
      BY <1>4, <2>2, <2>3, <3>1, <3>2
    <3> QED BY <2>1, <3>3
  <2> QED BY <2>4, <2>5
<1>8. 0 .. n \subseteq S
  <2> HIDE DEF S
  <2> QED BY <1>1, <1>6, <1>7, UpTo
<1>9. h[n] = IF n < p THEN f[n] ELSE f[n] + w
  BY <1>1, <1>8
<1> QED BY <1>1, <1>4, <1>5, <1>9 DEF w

\* g sends positions of one sequence to positions of another, no two to the same
\* and each to an entry of its size.
Sends(g, s, J, t, K) ==
  /\ s \in Seq(Cell) /\ t \in Seq(Cell) /\ J \in SUBSET DOMAIN s /\ K \in SUBSET DOMAIN t
  /\ g \in [J -> K] /\ \A i, j \in J : g[i] = g[j] => i = j
  /\ \A j \in J : Size[s[j].body] = Size[t[g[j]].body]
Reached(g, J) == {g[j] : j \in J}

\* What is left over is the difference.
LEMMA SizeOfInto ==
  ASSUME NEW g, NEW s, NEW J, NEW t, NEW K, Sends(g, s, J, t, K)
  PROVE  SizeOf(t, K) = SizeOf(s, J) + SizeOf(t, K \ Reached(g, J))
<1>0. /\ s \in Seq(Cell) /\ t \in Seq(Cell) /\ J \in SUBSET DOMAIN s /\ K \in SUBSET DOMAIN t
      /\ g \in [J -> K] /\ \A i, j \in J : g[i] = g[j] => i = j
      /\ \A j \in J : Size[s[j].body] = Size[t[g[j]].body]
  BY DEF Sends
<1> USE <1>0
<1> DEFINE n == Len(s)
           A(i) == {j \in J : j <= i}
           B(i) == K \ {g[j] : j \in A(i)}
           S == {i \in 0 .. n : SizeOf(t, K) = SizeOf(s, A(i)) + SizeOf(t, B(i))}
<1>1. n \in Nat /\ DOMAIN s = 1 .. n
  OBVIOUS
<1>2. 0 \in S
  <2>1. A(0) = {}
    BY <1>1
  <2>2. B(0) = K
    BY <2>1
  <2>3. SizeOf(s, A(0)) = 0 /\ SizeOf(t, K) \in Nat
    <3> HIDE DEF A
    <3> QED BY <2>1, SizeOfNone, SizeOfType
  <2> HIDE DEF A, B
  <2> QED BY <1>1, <2>2, <2>3
<1>3. ASSUME NEW i \in 0 .. n - 1, i \in S PROVE i + 1 \in S
  <2>1. i + 1 \in 1 .. n /\ i + 1 \in 0 .. n
    BY <1>1
  <2>2. SizeOf(t, K) = SizeOf(s, A(i)) + SizeOf(t, B(i))
    BY <1>3
  <2>3. CASE i + 1 \notin J
    <3>1. A(i + 1) = A(i)
      BY <1>1, <2>1, <2>3
    <3>2. B(i + 1) = B(i)
      BY <3>1
    <3> HIDE DEF A, B
    <3> QED BY <2>1, <2>2, <3>1, <3>2
  <2>4. CASE i + 1 \in J
    <3> DEFINE w == Size[s[i + 1].body]
    <3>1. A(i + 1) = A(i) \cup {i + 1} /\ i + 1 \notin A(i)
      BY <1>1, <2>1, <2>4
    <3>2. g[i + 1] \in K /\ g[i + 1] \notin {g[j] : j \in A(i)}
      BY <2>4, <3>1
    <3>3. B(i) = B(i + 1) \cup {g[i + 1]} /\ g[i + 1] \notin B(i + 1)
      <4> HIDE DEF A
      <4> QED BY <3>1, <3>2
    <3>4. w = Size[t[g[i + 1]].body] /\ w \in Nat
      <4>1. s[i + 1] \in Cell
        BY <1>1, <2>1
      <4> QED BY <2>4, <4>1, SizesAssumption DEF Cell
    <3> HIDE DEF A, B, w
    <3>5. SizeOf(s, A(i + 1)) = SizeOf(s, A(i)) + w
      BY <1>1, <2>1, <3>1, SizeOfPlus DEF w
    <3>6. SizeOf(t, B(i)) = SizeOf(t, B(i + 1)) + w
      BY <3>2, <3>3, <3>4, SizeOfPlus
    <3>7. SizeOf(s, A(i)) \in Nat /\ SizeOf(t, B(i + 1)) \in Nat
      BY SizeOfType
    <3>8. SizeOf(t, K) = SizeOf(s, A(i + 1)) + SizeOf(t, B(i + 1))
      BY <2>2, <3>4, <3>5, <3>6, <3>7
    <3> QED BY <2>1, <3>8
  <2> QED BY <2>3, <2>4
<1>4. 0 .. n \subseteq S
  <2> HIDE DEF S
  <2> QED BY <1>1, <1>2, <1>3, UpTo
<1>5. SizeOf(t, K) = SizeOf(s, A(n)) + SizeOf(t, B(n))
  <2>1. n \in S
    <3> HIDE DEF S
    <3> QED BY <1>1, <1>4
  <2> HIDE DEF A, B
  <2> QED BY <2>1
<1>6. A(n) = J
  BY <1>1
<1>7. B(n) = K \ Reached(g, J)
  BY <1>6 DEF Reached
<1> HIDE DEF A, B
<1> QED BY <1>5, <1>6, <1>7

\* The same for entries that are told apart by their id.
LEMMA SizeOfById ==
  ASSUME NEW s \in Seq(Cell), NEW t \in Seq(Cell), NEW J \in SUBSET DOMAIN s, NEW K \in SUBSET DOMAIN t,
         Unique(s), \A j \in J : \E k \in K : t[k].id = s[j].id /\ t[k].body = s[j].body
  PROVE  /\ SizeOf(s, J) \in Nat /\ SizeOf(t, K) \in Nat /\ SizeOf(s, J) <= SizeOf(t, K)
         /\ Unique(t) /\ (\A k \in K : \E j \in J : s[j].id = t[k].id) => SizeOf(s, J) = SizeOf(t, K)
<1> DEFINE g == [j \in J |-> CHOOSE k \in K : t[k].id = s[j].id /\ t[k].body = s[j].body]
<1>1. \A j \in J : g[j] \in K /\ t[g[j]].id = s[j].id /\ t[g[j]].body = s[j].body
  OBVIOUS
<1>2. g \in [J -> K]
  <2>1. g = [j \in J |-> g[j]]
    OBVIOUS
  <2> HIDE DEF g
  <2> QED BY <1>1, <2>1
<1> HIDE DEF g
<1>3. \A i, j \in J : g[i] = g[j] => i = j
  BY <1>1 DEF Unique
<1>4. \A j \in J : Size[s[j].body] = Size[t[g[j]].body]
  BY <1>1
<1> DEFINE L == K \ {g[j] : j \in J}
<1>5. SizeOf(t, K) = SizeOf(s, J) + SizeOf(t, L)
  <2> HIDE DEF L
  <2>1. Sends(g, s, J, t, K)
    BY <1>2, <1>3, <1>4 DEF Sends
  <2>2. L = K \ Reached(g, J)
    BY DEF L, Reached
  <2>3. SizeOf(t, K) = SizeOf(s, J) + SizeOf(t, K \ Reached(g, J))
    BY <2>1, SizeOfInto
  <2> QED BY <2>2, <2>3
<1>6. SizeOf(s, J) \in Nat /\ SizeOf(t, K) \in Nat /\ SizeOf(t, L) \in Nat
  <2> HIDE DEF L
  <2> QED BY SizeOfType
<1>7. ASSUME Unique(t), \A k \in K : \E j \in J : s[j].id = t[k].id
      PROVE  SizeOf(t, L) = 0
  <2>1. ASSUME NEW k \in K PROVE k \in {g[j] : j \in J}
    <3>1. PICK j \in J : s[j].id = t[k].id
      BY <1>7
    <3>2. g[j] = k
      BY <1>1, <1>7, <3>1 DEF Unique
    <3> QED BY <3>2
  <2>2. L \cap DOMAIN t = {}
    BY <2>1
  <2> HIDE DEF L
  <2> QED BY <2>2, SizeOfNone
<1> HIDE DEF L
<1> QED BY <1>5, <1>6, <1>7

\* Every position is of one part or of the other.
LEMMA SizeOfSplit ==
  ASSUME NEW s \in Seq(Cell), NEW J \in SUBSET DOMAIN s, NEW K \in SUBSET DOMAIN s, J \subseteq K
  PROVE  /\ SizeOf(s, K) = SizeOf(s, J) + SizeOf(s, K \ J)
         /\ SizeOf(s, J) <= SizeOf(s, K)
<1> DEFINE g == [j \in J |-> j]
<1>1. g \in [J -> K] /\ (\A i, j \in J : g[i] = g[j] => i = j) /\ (\A j \in J : Size[s[j].body] = Size[s[g[j]].body])
  OBVIOUS
<1>2. {g[j] : j \in J} = J
  OBVIOUS
<1> HIDE DEF g
<1> DEFINE L == K \ {g[j] : j \in J}
<1>3. SizeOf(s, K) = SizeOf(s, J) + SizeOf(s, L)
  <2> HIDE DEF L
  <2>1. Sends(g, s, J, s, K)
    BY <1>1 DEF Sends
  <2>2. L = K \ Reached(g, J)
    BY DEF L, Reached
  <2>3. SizeOf(s, K) = SizeOf(s, J) + SizeOf(s, K \ Reached(g, J))
    BY <2>1, SizeOfInto
  <2> QED BY <2>2, <2>3
<1>4. SizeOf(s, K) = SizeOf(s, J) + SizeOf(s, K \ J)
  <2>1. L = K \ J
    BY <1>2
  <2> HIDE DEF L
  <2> QED BY <1>3, <2>1
<1> QED BY <1>4, SizeOfType

LEMMA SizeOfOne ==
  ASSUME NEW s \in Seq(Cell), NEW p \in DOMAIN s
  PROVE  SizeOf(s, {p}) = Size[s[p].body] /\ Size[s[p].body] \in Nat
<1>1. s[p] \in Cell
  OBVIOUS
<1>2. Size[s[p].body] \in Nat
  BY <1>1, SizesAssumption DEF Cell
<1>3. SizeOf(s, {} \cup {p}) = SizeOf(s, {}) + Size[s[p].body]
  BY SizeOfPlus
<1>4. SizeOf(s, {}) = 0
  BY SizeOfNone
<1>5. {} \cup {p} = {p}
  OBVIOUS
<1> QED BY <1>2, <1>3, <1>4, <1>5

Taken(s, l) == SizeOf(s, InLocation(s, l))

\* When every entry of s is one of t, s takes no more, in all and in each location.
LEMMA TakenLess ==
  ASSUME NEW s \in Seq(Cell), NEW t \in Seq(Cell), Unique(s),
         \A j \in DOMAIN s : \E k \in DOMAIN t : t[k].id = s[j].id /\ t[k].body = s[j].body
  PROVE  /\ Total(s) \in Nat /\ Total(t) \in Nat /\ Total(s) <= Total(t)
         /\ \A l : Taken(s, l) \in Nat /\ Taken(t, l) \in Nat /\ Taken(s, l) <= Taken(t, l)
<1>1. Total(s) \in Nat /\ Total(t) \in Nat /\ Total(s) <= Total(t)
  BY SizeOfById DEF Total
<1>2. ASSUME NEW l PROVE Taken(s, l) \in Nat /\ Taken(t, l) \in Nat /\ Taken(s, l) <= Taken(t, l)
  <2> DEFINE J == InLocation(s, l)
             K == InLocation(t, l)
  <2>1. J \in SUBSET DOMAIN s /\ K \in SUBSET DOMAIN t
    BY DEF InLocation
  <2>2. \A j \in J : \E k \in K : t[k].id = s[j].id /\ t[k].body = s[j].body
    BY DEF InLocation
  <2> HIDE DEF J, K
  <2>3. SizeOf(s, J) \in Nat /\ SizeOf(t, K) \in Nat /\ SizeOf(s, J) <= SizeOf(t, K)
    BY <2>1, <2>2, SizeOfById
  <2> QED BY <2>3 DEF J, K, Taken
<1> QED BY <1>1, <1>2

\* What the removal of an entry gives back.
LEMMA TotalRemoved ==
  ASSUME NEW s \in Seq(Cell), Unique(s), NEW j \in DOMAIN s
  PROVE  /\ Total(s) = Total(RemoveAt(s, j)) + Size[s[j].body]
         /\ Total(RemoveAt(s, j)) \in Nat /\ Size[s[j].body] \in Nat
         /\ \A l : Taken(RemoveAt(s, j), l) <= Taken(s, l)
<1> DEFINE r == RemoveAt(s, j)
           K == DOMAIN s \ {j}
<1>1. /\ r \in Seq(Cell) /\ Unique(r)
      /\ \A k \in DOMAIN r : \E m \in K : r[k] = s[m]
      /\ \A m \in K : \E k \in DOMAIN r : r[k] = s[m]
  BY RemoveAtFacts, RemoveAtLeaves
<1>2. K \in SUBSET DOMAIN s /\ j \notin K /\ DOMAIN s = K \cup {j}
  OBVIOUS
<1> HIDE DEF r, K
<1>3. SizeOf(r, DOMAIN r) = SizeOf(s, K) /\ SizeOf(r, DOMAIN r) \in Nat
  <2> DEFINE D == DOMAIN r
  <2>1. D \in SUBSET DOMAIN r
    OBVIOUS
  <2>2. \A k \in D : \E m \in K : s[m].id = r[k].id /\ s[m].body = r[k].body
    BY <1>1
  <2>3. \A m \in K : \E k \in D : r[k].id = s[m].id
    BY <1>1
  <2> HIDE DEF D
  <2>4. SizeOf(r, D) = SizeOf(s, K) /\ SizeOf(r, D) \in Nat
    <3>1. r \in Seq(Cell) /\ Unique(r) /\ K \in SUBSET DOMAIN s
      BY <1>1, <1>2
    <3> QED BY <2>1, <2>2, <2>3, <3>1, SizeOfById
  <2> QED BY <2>4 DEF D
<1>4. SizeOf(s, DOMAIN s) = SizeOf(s, K) + Size[s[j].body]
  BY <1>2, SizeOfPlus
<1>5. Size[s[j].body] \in Nat
  BY SizeOfOne
<1>6. \A k \in DOMAIN r : \E m \in DOMAIN s : s[m].id = r[k].id /\ s[m].body = r[k].body
  BY <1>1, <1>2
<1>7. \A l : Taken(r, l) <= Taken(s, l)
  BY <1>1, <1>6, TakenLess
<1> QED BY <1>3, <1>4, <1>5, <1>7 DEF r, Total

\* What a new entry at the end takes.
LEMMA TotalAppended ==
  ASSUME NEW s \in Seq(Cell), Unique(s), NEW e \in Cell, \A k \in DOMAIN s : s[k].id # e.id
  PROVE  /\ Total(Append(s, e)) = Total(s) + Size[e.body]
         /\ \A l : l # LocationOf[e.id] => Taken(Append(s, e), l) <= Taken(s, l)
<1> DEFINE n == Len(s)
           t == Append(s, e)
<1>1. n \in Nat /\ DOMAIN s = 1 .. n
  OBVIOUS
<1>2. t \in Seq(Cell) /\ DOMAIN t = 1 .. n + 1 /\ t[n + 1] = e /\ \A k \in 1 .. n : t[k] = s[k]
  BY AppendProperties
<1>3. Unique(t)
  <2> HIDE DEF t
  <2> QED BY Appended DEF t
<1> HIDE DEF t, n
<1>4. 1 .. n \in SUBSET DOMAIN t /\ DOMAIN s \in SUBSET DOMAIN s /\ n + 1 \notin 1 .. n /\ DOMAIN t = 1 .. n \cup {n + 1}
  BY <1>1, <1>2
<1>5. SizeOf(t, 1 .. n) = SizeOf(s, DOMAIN s)
  <2> DEFINE D == DOMAIN s
             J == 1 .. n
  <2>1. \A j \in J : \E k \in D : s[k].id = t[j].id /\ s[k].body = t[j].body
    BY <1>1, <1>2
  <2>2. \A k \in D : \E j \in J : t[j].id = s[k].id
    BY <1>1, <1>2
  <2>3. D \in SUBSET DOMAIN s /\ J \in SUBSET DOMAIN t
    BY <1>4
  <2> HIDE DEF D, J
  <2>4. SizeOf(t, J) = SizeOf(s, D)
    BY <1>2, <1>3, <2>1, <2>2, <2>3, SizeOfById
  <2> QED BY <2>4 DEF D, J
<1>6. SizeOf(t, DOMAIN t) = SizeOf(t, 1 .. n) + Size[e.body]
  <2>1. n + 1 \in DOMAIN t /\ n + 1 \notin 1 .. n /\ t[n + 1] = e
    BY <1>2, <1>4
  <2>2. SizeOf(t, 1 .. n \cup {n + 1}) = SizeOf(t, 1 .. n) + Size[t[n + 1].body]
    BY <1>2, <2>1, SizeOfPlus
  <2> QED BY <1>2, <1>4, <2>2
<1>7. ASSUME NEW l, l # LocationOf[e.id] PROVE Taken(t, l) <= Taken(s, l)
  <2> DEFINE J == InLocation(t, l)
             K == InLocation(s, l)
  <2>1. J \in SUBSET DOMAIN t /\ K \in SUBSET DOMAIN s
    BY DEF InLocation
  <2>2. \A j \in J : \E k \in K : s[k].id = t[j].id /\ s[k].body = t[j].body
    BY <1>1, <1>2, <1>4, <1>7 DEF InLocation
  <2> HIDE DEF J, K
  <2>3. SizeOf(t, J) <= SizeOf(s, K)
    BY <1>2, <1>3, <2>1, <2>2, SizeOfById
  <2> QED BY <2>3 DEF J, K, Taken
<1> QED BY <1>5, <1>6, <1>7 DEF t, Total

----------------------------------------------------------------------------
(* The account the cache keeps of itself.                                     *)

Bounded ==
  /\ now \in 0 .. MaxTime /\ starts \in 0 .. MaxStarts /\ faults \in 0 .. MaxFaults
  /\ started \in BOOLEAN /\ maxBytes \in Limits /\ files \subseteq Ids \X Bodies

\* An entry is not used later than now, and expires within the longest time.
Dated ==
  \A s \in {mem, index} : \A j \in DOMAIN s :
    s[j].used <= now /\ s[j].expires \in 1 .. MaxTime + Max(Ttls)

\* No byte in use goes uncounted; until a second start none is counted twice.
Counted ==
  /\ Total(mem) <= bytes /\ bytes \in Nat
  /\ starts <= 1 => bytes = Total(mem)
  /\ starts = 0 => mem = <<>> /\ ~started

\* A cache that is not started holds nothing the index does not have.
Saved ==
  ~started => \A j \in DOMAIN mem : \E k \in DOMAIN index : index[k].id = mem[j].id /\ index[k].body = mem[j].body

\* Only the location put() is making room in may hold too much, only while it does.
Within ==
  /\ op = Idle \/ op.stage \notin {"install", "evict"} => Total(mem) <= maxBytes
  /\ \A l \in Locations :
       /\ Taken(index, l) <= LocationLimit[l]
       /\ \/ op # Idle /\ op.kind = "put" /\ op.stage = "evict" /\ LocationOf[op.id] = l
          \/ Taken(mem, l) <= LocationLimit[l]

\* Get and put run while the cache is started, and what is put fits by itself.
Admitted ==
  op # Idle =>
    /\ op.kind \in {"put", "get", "start"} => started
    /\ op.kind = "put" => Size[op.body] <= LocationLimit[LocationOf[op.id]] /\ Size[op.body] <= maxBytes

\* What is put is the last entry and the last one used.
Newest ==
  op # Idle /\ op.kind = "put" /\ op.stage # "install" /\ starts <= 1 =>
    mem # <<>> /\ mem[Len(mem)].id = op.id /\ mem[Len(mem)].used = now

AInv == RInv /\ Bounded /\ Dated /\ Counted /\ Saved /\ Within /\ Admitted /\ Newest /\ NewcomerKept

----------------------------------------------------------------------------
(* Facts about the account that the steps share.                              *)

LEMMA Sizes ==
  ASSUME RInv
  PROVE  /\ Total(mem) \in Nat /\ (\A l : Taken(mem, l) \in Nat /\ Taken(index, l) \in Nat)
         /\ \A i \in Ids : LocationOf[i] \in Locations
         /\ \A l \in Locations : LocationLimit[l] \in Nat
         /\ \A b \in Bodies : Size[b] \in Nat
BY SizeOfType, SizesAssumption, ResponsesAssumption DEF RInv, Typed, Total, Taken

LEMMA LongestTtl == Max(Ttls) \in Nat /\ \A ttl \in Ttls : ttl <= Max(Ttls) /\ ttl >= 1
<1>1. \E longest \in Ttls : \A ttl \in Ttls : ttl <= longest
  BY TimesAssumption
<1>2. Max(Ttls) \in Ttls /\ \A ttl \in Ttls : ttl <= Max(Ttls)
  <2>1. \E longest \in Ttls : \A ttl \in Ttls : longest >= ttl
    BY <1>1, TimesAssumption
  <2> QED BY <2>1, TimesAssumption DEF Max
<1>3. \A ttl \in Ttls : ttl \in Nat /\ ttl >= 1
  BY TimesAssumption
<1> QED BY <1>2, <1>3

LEMMA BoundsKept ==
  ASSUME Bounded, Steady, files' \subseteq files, faults' = faults \/ (faults < MaxFaults /\ faults' = faults + 1)
  PROVE  Bounded'
BY TimesAssumption DEF Bounded, Steady

LEMMA UnlinkFacts ==
  ASSUME NEW e, Unlink(e)
  PROVE  files' \subseteq files /\ (faults' = faults \/ (faults < MaxFaults /\ faults' = faults + 1))
BY DEF Unlink

\* An entry goes and its bytes are given back.
LEMMA RemovalCounts ==
  ASSUME AInv, RInv', NEW j \in DOMAIN mem, mem' = RemoveAt(mem, j), bytes' = bytes - Size[mem[j].body],
         Steady, index' = index
  PROVE  /\ Dated' /\ Counted' /\ Saved'
         /\ Total(mem)' <= Total(mem) /\ \A l : Taken(mem, l)' <= Taken(mem, l)
<1>1. mem \in Seq(Cell) /\ Unique(mem) /\ UNCHANGED <<now, started, starts>>
  BY DEF AInv, RInv, Typed, Steady
<1>2. \A k \in DOMAIN mem' : \E m \in DOMAIN mem : mem'[k] = mem[m]
  BY Removed DEF AInv, RInv
<1>3. Dated'
  BY <1>1, <1>2 DEF AInv, Dated
<1>4. Saved'
  BY <1>1, <1>2 DEF AInv, Saved
<1>5. /\ Total(mem) = Total(RemoveAt(mem, j)) + Size[mem[j].body]
      /\ Total(RemoveAt(mem, j)) \in Nat /\ Size[mem[j].body] \in Nat
      /\ \A l : Taken(RemoveAt(mem, j), l) <= Taken(mem, l)
  BY <1>1, TotalRemoved
<1>6. Total(mem)' = Total(RemoveAt(mem, j)) /\ \A l : Taken(mem, l)' = Taken(RemoveAt(mem, j), l)
  BY DEF Total, Taken, InLocation, SizeOf
<1> DEFINE w == Size[mem[j].body]
           t == Total(mem)
           u == Total(RemoveAt(mem, j))
<1>7. t <= bytes /\ bytes \in Nat /\ (starts <= 1 => bytes = t) /\ mem # <<>>
  BY DEF AInv, Counted
<1>8. starts # 0
  BY <1>7 DEF AInv, Counted
<1>9. Counted'
  <2>1. t = u + w /\ u \in Nat /\ w \in Nat /\ Total(mem)' = u /\ bytes' = bytes - w
    BY <1>5, <1>6
  <2> HIDE DEF t, u, w
  <2> QED BY <1>1, <1>7, <1>8, <2>1 DEF Counted
<1>10. Total(mem)' <= Total(mem)
  <2> HIDE DEF w, u
  <2> QED BY <1>5, <1>6 DEF w, u
<1>11. \A l : Taken(mem, l)' <= Taken(mem, l)
  BY <1>5, <1>6
<1> QED BY <1>3, <1>4, <1>9, <1>10, <1>11

\* No limit is exceeded that was not.
LEMMA WithinKept ==
  ASSUME AInv, RInv', Total(mem)' <= Total(mem), \A l : Taken(mem, l)' <= Taken(mem, l),
         UNCHANGED <<index, maxBytes>>,
         op' = Idle \/ op'.stage \notin {"install", "evict"} => op = Idle \/ op.stage \notin {"install", "evict"},
         op # Idle /\ op.kind = "put" /\ op.stage = "evict" => op' = op
  PROVE  Within'
<1>1. /\ Total(mem) \in Nat /\ Total(mem)' \in Nat
      /\ \A l : Taken(mem, l) \in Nat /\ Taken(mem, l)' \in Nat /\ Taken(index, l)' = Taken(index, l)
      /\ \A l \in Locations : LocationLimit[l] \in Nat
      /\ maxBytes \in Nat
  <2>1. Total(mem) \in Nat /\ (\A l : Taken(mem, l) \in Nat) /\ \A l \in Locations : LocationLimit[l] \in Nat
    BY Sizes DEF AInv
  <2>2. Total(mem)' \in Nat /\ (\A l : Taken(mem, l)' \in Nat)
    BY SizeOfType DEF RInv, Typed, Total, Taken
  <2>3. \A l : Taken(index, l)' = Taken(index, l)
    BY DEF Taken, InLocation, SizeOf
  <2>4. maxBytes \in Nat
    BY SizesAssumption DEF AInv, Bounded
  <2> QED BY <2>1, <2>2, <2>3, <2>4
<1>2. op' = Idle \/ op'.stage \notin {"install", "evict"} => Total(mem)' <= maxBytes'
  BY <1>1 DEF AInv, Within
<1>3. ASSUME NEW l \in Locations
      PROVE  /\ Taken(index, l)' <= LocationLimit[l]
             /\ \/ op' # Idle /\ op'.kind = "put" /\ op'.stage = "evict" /\ LocationOf[op'.id] = l
                \/ Taken(mem, l)' <= LocationLimit[l]
  <2>1. /\ Taken(index, l) <= LocationLimit[l]
        /\ \/ op # Idle /\ op.kind = "put" /\ op.stage = "evict" /\ LocationOf[op.id] = l
           \/ Taken(mem, l) <= LocationLimit[l]
    BY DEF AInv, Within
  <2> QED BY <1>1, <2>1
<1> QED BY <1>2, <1>3 DEF Within

----------------------------------------------------------------------------
(* The steps, as far as the account goes.                                     *)

BInv == Bounded /\ Dated /\ Counted /\ Saved /\ Within /\ Admitted /\ Newest /\ NewcomerKept

\* What put() installed is still last when an entry before it goes.
LEMMA LastStays ==
  ASSUME NEW E, NEW s \in Seq(E), NEW j \in DOMAIN s, j # Len(s)
  PROVE  RemoveAt(s, j) # <<>> /\ RemoveAt(s, j)[Len(RemoveAt(s, j))] = s[Len(s)]
<1> DEFINE n == Len(s)
           r == RemoveAt(s, j)
<1>1. n \in Nat /\ j \in 1 .. n /\ j # n
  OBVIOUS
<1>2. r \in Seq(E) /\ Len(r) = n - 1 /\ \A k \in 1 .. n - 1 : r[k] = IF k < j THEN s[k] ELSE s[k + 1]
  BY RemoveAtFacts
<1> HIDE DEF r, n
<1>3. n - 1 \in 1 .. n - 1 /\ ~(n - 1 < j) /\ (n - 1) + 1 = n
  BY <1>1
<1>4. r[n - 1] = s[n] /\ r # <<>>
  BY <1>1, <1>2, <1>3
<1> QED BY <1>2, <1>4 DEF r, n

\* What put() installed is the last to be chosen, and alone it fits.
LEMMA SparesNewest ==
  ASSUME AInv, op # Idle, op.kind = "put", op.stage = "evict", starts <= 1, Overfull # {}
  PROVE  Oldest(Overfull) # Len(mem)
<1> DEFINE n == Len(mem)
           J == Overfull
<1>1. mem \in Seq(Cell) /\ Unique(mem) /\ n \in Nat /\ DOMAIN mem = 1 .. n
  BY DEF AInv, RInv, Typed
<1>2. n \in DOMAIN mem /\ mem[n].id = op.id /\ mem[n].used = now
  <2>1. mem # <<>> /\ mem[n].id = op.id /\ mem[n].used = now
    BY DEF AInv, Newest
  <2> QED BY <1>1, <2>1
<1>3. mem[n].body = op.body
  BY <1>2 DEF AInv, RInv, Replaced
<1>4. J \in SUBSET DOMAIN mem
  BY DEF Overfull, InLocation
<1>5. SUFFICES ASSUME Oldest(J) = n PROVE FALSE
  OBVIOUS
<1>6. n \in J /\ \A k \in J \ {n} : mem[n].used < mem[k].used \/ (mem[n].used = mem[k].used /\ n < k)
  <2> HIDE DEF J, n
  <2> QED BY <1>4, <1>5, OldestIsOne DEF AInv, RInv, J
<1>7. ASSUME NEW k \in J, k # n PROVE FALSE
  <2>1. k \in Nat /\ k <= n /\ mem[k].used \in Nat /\ mem[k].used <= now /\ now \in Nat
    BY <1>1, <1>4, <1>7, CellFacts DEF AInv, Dated, RInv, Typed
  <2> HIDE DEF J, n
  <2> QED BY <1>1, <1>2, <1>6, <1>7, <2>1
<1>8. J = {n}
  BY <1>6, <1>7
<1>9. SizeOf(mem, {n}) = Size[op.body] /\ Size[op.body] \in Nat
  BY <1>1, <1>2, <1>3, SizeOfOne
<1>10. Size[op.body] <= LocationLimit[LocationOf[op.id]] /\ Size[op.body] <= maxBytes
  BY DEF AInv, Admitted
<1>11. LocationLimit[LocationOf[op.id]] \in Nat /\ maxBytes \in Nat
  <2>1. op.id \in Ids
    BY OpFacts DEF AInv, RInv, Unanswered
  <2> QED BY <2>1, SizesAssumption, ResponsesAssumption DEF AInv, Bounded
<1> DEFINE l == LocationOf[op.id]
<1>12. CASE SizeOf(mem, InLocation(mem, l)) > LocationLimit[l]
  <2>1. J = InLocation(mem, l)
    BY <1>12 DEF Overfull
  <2>2. SizeOf(mem, InLocation(mem, l)) = Size[op.body]
    BY <1>8, <1>9, <2>1
  <2> HIDE DEF l
  <2> QED BY <1>9, <1>10, <1>11, <1>12, <2>2 DEF l
<1>13. CASE ~(SizeOf(mem, InLocation(mem, l)) > LocationLimit[l])
  <2>1. J = DOMAIN mem /\ bytes > maxBytes
    BY <1>13 DEF Overfull
  <2>2. bytes = SizeOf(mem, {n})
    BY <1>8, <2>1 DEF AInv, Counted, Total
  <2> QED BY <1>9, <1>10, <1>11, <2>1, <2>2
<1> QED BY <1>12, <1>13

LEMMA EvictCounts == ASSUME AInv, RInv', Evict PROVE BInv'
<1> DEFINE j == Oldest(Overfull)
<1>1. /\ op # Idle /\ op.stage = "evict" /\ Overfull # {} /\ mem' = RemoveAt(mem, j) /\ Unlink(mem[j])
      /\ bytes' = bytes - Size[mem[j].body] /\ Steady /\ UNCHANGED <<index, op, answer>>
  BY DEF Evict, Stage, RemoveEntry
<1>2. j \in DOMAIN mem
  <2>1. Overfull \in SUBSET DOMAIN mem
    BY DEF Overfull, InLocation
  <2> QED BY <1>1, <2>1, OldestIsOne DEF AInv, RInv
<1>3. op.kind = "put" /\ starts <= 1 => j # Len(mem)
  BY <1>1, SparesNewest
<1> HIDE DEF j
<1>4. /\ Dated' /\ Counted' /\ Saved'
      /\ Total(mem)' <= Total(mem) /\ \A l : Taken(mem, l)' <= Taken(mem, l)
  BY <1>1, <1>2, RemovalCounts
<1>5. Within'
  BY <1>1, <1>4, WithinKept DEF Steady
<1>6. Bounded'
  BY <1>1, UnlinkFacts, BoundsKept DEF AInv
<1>7. Admitted'
  BY <1>1 DEF AInv, Admitted, Steady
<1>8. Newest'
  <2> SUFFICES ASSUME op.kind = "put", starts <= 1
               PROVE  mem' # <<>> /\ mem'[Len(mem')].id = op.id /\ mem'[Len(mem')].used = now
    BY <1>1 DEF Newest, Steady
  <2>1. mem[Len(mem)].id = op.id /\ mem[Len(mem)].used = now
    BY <1>1 DEF AInv, Newest
  <2>2. mem' # <<>> /\ mem'[Len(mem')] = mem[Len(mem)]
    BY <1>1, <1>2, <1>3, LastStays DEF AInv, RInv, Typed
  <2> QED BY <2>1, <2>2
<1>9. NewcomerKept'
  BY <1>1 DEF AInv, NewcomerKept, Steady
<1> QED BY <1>4, <1>5, <1>6, <1>7, <1>8, <1>9 DEF BInv

\* An entry goes during an operation that is no put.
LEMMA OtherRemovalCounts ==
  ASSUME AInv, RInv', op # Idle, op.kind # "put", op.stage \notin {"install", "evict"}, NEW j \in DOMAIN mem,
         mem' = RemoveAt(mem, j), bytes' = bytes - Size[mem[j].body], Steady, UNCHANGED <<index, answer>>,
         files' \subseteq files, faults' = faults \/ (faults < MaxFaults /\ faults' = faults + 1),
         op' # Idle, op'.kind = op.kind, op'.stage \notin {"install", "evict"}
  PROVE  BInv'
<1>1. /\ Dated' /\ Counted' /\ Saved'
      /\ Total(mem)' <= Total(mem) /\ \A l : Taken(mem, l)' <= Taken(mem, l)
  BY RemovalCounts
<1>2. Within'
  BY <1>1, WithinKept DEF Steady
<1>3. Bounded'
  BY BoundsKept DEF AInv
<1>4. Admitted' /\ Newest' /\ NewcomerKept'
  BY DEF AInv, Admitted, Newest, NewcomerKept, Steady
<1> QED BY <1>1, <1>2, <1>3, <1>4 DEF BInv

LEMMA ScanRemovalCounts == ASSUME AInv, RInv', ScanDrops \/ ScanMisses PROVE BInv'
<1> DEFINE j == Min(Relevant(op.request))
<1>1. /\ op # Idle /\ op.stage = "scan" /\ Relevant(op.request) # {} /\ mem' = RemoveAt(mem, j) /\ Unlink(mem[j])
      /\ bytes' = bytes - Size[mem[j].body] /\ Steady /\ UNCHANGED <<index, answer>>
      /\ (GoTo("dropped") \/ GoTo("miss"))
  BY DEF ScanDrops, ScanMisses, Stage, RemoveEntry
<1>2. j \in DOMAIN mem
  BY <1>1, NextRelevant DEF AInv
<1>3. op \in Ops
  BY <1>1 DEF AInv, RInv, Unanswered
<1>4. op.kind = "get" /\ op'.kind = "get" /\ op'.stage \in {"dropped", "miss"} /\ op' \in Ops /\ op' # Idle
  <2>1. op.kind = "get"
    BY <1>1, <1>3, OpFacts
  <2>2. op' \in Ops /\ op'.kind = "get" /\ op'.stage \in {"dropped", "miss"}
    BY <1>1, <1>3, <2>1, GoToFacts
  <2> QED BY <2>1, <2>2 DEF Ops, Idle
<1>5. files' \subseteq files /\ (faults' = faults \/ (faults < MaxFaults /\ faults' = faults + 1))
  BY <1>1, UnlinkFacts
<1> HIDE DEF j
<1> QED BY <1>1, <1>2, <1>4, <1>5, OtherRemovalCounts

\* Nothing of the account changes but where the operation is.
LEMMA SameCounts ==
  ASSUME AInv, RInv', UNCHANGED <<mem, bytes, index, starts, started>>, files' \subseteq Ids \X Bodies, now' \in 0 .. MaxTime, now <= now',
         maxBytes' \in Limits, faults' = faults \/ (faults < MaxFaults /\ faults' = faults + 1)
  PROVE  Bounded' /\ Dated' /\ Counted' /\ Saved'
<1>1. Bounded'
  BY TimesAssumption DEF AInv, Bounded
<1>2. Dated'
  <2> SUFFICES ASSUME NEW s \in {mem, index}, NEW j \in DOMAIN s
               PROVE  s[j].used <= now' /\ s[j].expires \in 1 .. MaxTime + Max(Ttls)
    BY DEF Dated
  <2>1. s[j].used <= now /\ s[j].expires \in 1 .. MaxTime + Max(Ttls)
    BY DEF AInv, Dated
  <2>2. s[j].used \in Nat /\ now \in Nat /\ now' \in Nat
    <3>1. s \in Seq(Cell)
      BY DEF AInv, RInv, Typed
    <3> QED BY <3>1, CellFacts DEF AInv, Bounded
  <2> QED BY <2>1, <2>2
<1>3. Counted' /\ Saved'
  BY DEF AInv, Counted, Saved, Total, SizeOf
<1> QED BY <1>1, <1>2, <1>3

LEMMA SameWithin ==
  ASSUME AInv, RInv', UNCHANGED <<mem, index, maxBytes>>,
         op' = Idle \/ op'.stage \notin {"install", "evict"} => op = Idle \/ op.stage \notin {"install", "evict"},
         op # Idle /\ op.kind = "put" /\ op.stage = "evict" => op' = op
  PROVE  Within'
<1>1. Total(mem)' = Total(mem) /\ \A l : Taken(mem, l)' = Taken(mem, l)
  BY DEF Total, Taken, InLocation, SizeOf
<1>2. Total(mem) \in Nat /\ \A l : Taken(mem, l) \in Nat
  BY Sizes DEF AInv
<1>3. Total(mem)' <= Total(mem) /\ \A l : Taken(mem, l)' <= Taken(mem, l)
  BY <1>1, <1>2
<1> QED BY <1>3, WithinKept

LEMMA ClearNextCounts == ASSUME AInv, RInv', ClearNext PROVE BInv'
<1> DEFINE doomed == {j \in DOMAIN mem : LocationOf[mem[j].id] \in op.where}
           j == Min(doomed)
<1>1. /\ op # Idle /\ op.stage = "clear" /\ op \in Ops /\ op.kind = "clear" /\ op.kind # "put" /\ Steady
      /\ UNCHANGED <<index, answer>>
  <2>1. op # Idle /\ op.stage = "clear" /\ op \in Ops /\ Steady /\ UNCHANGED <<index, answer>>
    BY DEF ClearNext, Stage, AInv, RInv, Unanswered
  <2> QED BY <2>1, OpFacts
<1>2. CASE doomed # {}
  <2>1. mem' = RemoveAt(mem, j) /\ bytes' = bytes - Size[mem[j].body] /\ Unlink(mem[j]) /\ op' = op
    BY <1>2 DEF ClearNext, RemoveEntry
  <2>2. j \in DOMAIN mem
    <3>1. doomed \in SUBSET Nat
      BY CellFacts DEF AInv, RInv, Typed
    <3>2. doomed \subseteq DOMAIN mem
      OBVIOUS
    <3> HIDE DEF doomed
    <3> QED BY <1>2, <3>1, <3>2, LeastOf
  <2>3. files' \subseteq files /\ (faults' = faults \/ (faults < MaxFaults /\ faults' = faults + 1))
    BY <2>1, UnlinkFacts
  <2> HIDE DEF j, doomed
  <2> QED BY <1>1, <2>1, <2>2, <2>3, OtherRemovalCounts
<1>3. CASE doomed = {}
  <2>1. UNCHANGED <<mem, bytes, files, faults>> /\ GoTo("persist")
    BY <1>3 DEF ClearNext, memory
  <2>2. op' \in Ops /\ op'.kind = "clear" /\ op'.stage = "persist"
    BY <1>1, <2>1, GoToFacts
  <2>3. Bounded' /\ Dated' /\ Counted' /\ Saved'
    <3>1. now \in 0 .. MaxTime /\ now <= now /\ maxBytes \in Limits /\ files \subseteq Ids \X Bodies
      BY TimesAssumption DEF AInv, Bounded
    <3> QED BY <1>1, <2>1, <3>1, SameCounts DEF Steady
  <2>4. Within'
    BY <1>1, <2>1, SameWithin DEF Steady
  <2>5. Admitted' /\ Newest' /\ NewcomerKept'
    BY <1>1, <2>1, <2>2 DEF AInv, Admitted, Newest, NewcomerKept, Steady
  <2> QED BY <2>3, <2>4, <2>5 DEF BInv
<1> QED BY <1>2, <1>3

LEMMA EvictDoneCounts == ASSUME AInv, RInv', EvictDone PROVE BInv'
<1>1. /\ op # Idle /\ op.stage = "evict" /\ op \in Ops /\ Overfull = {} /\ Steady
      /\ UNCHANGED <<mem, bytes, index, files, answer, faults>>
  BY DEF EvictDone, Stage, memory, disk, AInv, RInv, Unanswered
<1>2. op.kind \in {"start", "configure", "close", "put"}
  BY <1>1, OpFacts
<1>3. \/ op' = Idle
      \/ /\ op' \in Ops /\ op'.kind = op.kind /\ op'.stage = "persist"
         /\ op.kind = "put" => op'.id = op.id /\ op'.body = op.body
  <2>1. op' = Idle \/ GoTo("persist")
    BY DEF EvictDone
  <2> QED BY <1>1, <1>2, <2>1, GoToFacts
<1>4. Bounded' /\ Dated' /\ Counted' /\ Saved'
  <2>1. now \in 0 .. MaxTime /\ now <= now /\ maxBytes \in Limits /\ files \subseteq Ids \X Bodies
    BY TimesAssumption DEF AInv, Bounded
  <2> QED BY <1>1, <2>1, SameCounts DEF Steady
<1>5. mem \in Seq(Cell) /\ Total(mem) \in Nat /\ Total(mem) <= bytes /\ bytes \in Nat /\ maxBytes \in Nat
  BY Sizes, SizesAssumption DEF AInv, RInv, Typed, Counted, Bounded
<1>6. \A l \in Locations : Taken(mem, l) <= LocationLimit[l]
  <2> SUFFICES ASSUME NEW l \in Locations, op.kind = "put", LocationOf[op.id] = l
               PROVE  Taken(mem, l) <= LocationLimit[l]
    BY DEF AInv, Within
  <2>1. CASE SizeOf(mem, InLocation(mem, l)) > LocationLimit[l]
    <3>1. InLocation(mem, l) = {}
      BY <1>1, <2>1 DEF Overfull
    <3>2. SizeOf(mem, InLocation(mem, l)) = 0
      BY <1>5, <3>1, SizeOfNone
    <3> QED BY <2>1, <3>2, SizesAssumption
  <2>2. CASE ~(SizeOf(mem, InLocation(mem, l)) > LocationLimit[l])
    BY <2>2, Sizes, SizesAssumption DEF Taken, AInv
  <2> QED BY <2>1, <2>2
<1>7. Total(mem) <= maxBytes
  <2>1. CASE bytes > maxBytes
    <3>1. DOMAIN mem = {}
      <4>1. op.kind = "put" => op.id \in Ids
        BY <1>1, OpFacts
      <4>2. op.kind = "put" => ~(SizeOf(mem, InLocation(mem, LocationOf[op.id])) > LocationLimit[LocationOf[op.id]])
        BY <1>6, <4>1, Sizes DEF Taken, AInv
      <4> QED BY <1>1, <2>1, <4>2 DEF Overfull
    <3>2. Total(mem) = 0
      BY <1>5, <3>1, SizeOfNone DEF Total
    <3> QED BY <1>5, <3>2
  <2>2. CASE ~(bytes > maxBytes)
    BY <1>5, <2>2
  <2> QED BY <2>1, <2>2
<1>8. Within'
  <2>1. Total(mem)' = Total(mem) /\ \A l : Taken(mem, l)' = Taken(mem, l) /\ Taken(index, l)' = Taken(index, l)
    BY <1>1 DEF Total, Taken, InLocation, SizeOf
  <2>2. \A l \in Locations : Taken(index, l) <= LocationLimit[l]
    BY DEF AInv, Within
  <2> QED BY <1>1, <1>6, <1>7, <2>1, <2>2 DEF Within, Steady
<1>9. Admitted' /\ Newest' /\ NewcomerKept'
  BY <1>1, <1>3 DEF AInv, Admitted, Newest, NewcomerKept, Steady
<1> QED BY <1>4, <1>8, <1>9 DEF BInv

\* An operation begins or ends, or time passes; it is no put.
LEMMA QuietCounts ==
  ASSUME AInv, RInv', UNCHANGED <<mem, bytes, index, files, starts, started, faults>>, now' \in 0 .. MaxTime, now <= now',
         maxBytes' \in Limits, op = Idle \/ op.stage = "scan", answer' = [kind |-> "none"],
         op' = Idle \/ (op'.kind # "put" /\ (op'.kind = "get" => started) /\ op'.kind # "start"),
         maxBytes' = maxBytes \/ (op' # Idle /\ op'.stage = "evict")
  PROVE  BInv'
<1>1. Bounded' /\ Dated' /\ Counted' /\ Saved'
  <2>1. files \subseteq Ids \X Bodies
    BY DEF AInv, Bounded
  <2> QED BY <2>1, SameCounts
<1>2. Within'
  <2>1. Total(mem)' = Total(mem) /\ \A l : Taken(mem, l)' = Taken(mem, l) /\ Taken(index, l)' = Taken(index, l)
    BY DEF Total, Taken, InLocation, SizeOf
  <2>2. Total(mem) <= maxBytes
    BY DEF AInv, Within
  <2>3. \A l \in Locations : Taken(index, l) <= LocationLimit[l] /\ Taken(mem, l) <= LocationLimit[l]
    BY DEF AInv, Within
  <2> QED BY <2>1, <2>2, <2>3 DEF Within
<1>3. Admitted' /\ Newest' /\ NewcomerKept'
  BY DEF AInv, Admitted, Newest, NewcomerKept
<1> QED BY <1>1, <1>2, <1>3 DEF BInv

LEMMA QuietStepsCount ==
  ASSUME AInv, RInv',
         \/ \E limit \in Limits : Configure(limit)
         \/ \E where \in {{l} : l \in Locations} \union {Locations} : Clear(where)
         \/ Close \/ (\E q \in Requests : Get(q)) \/ ScanEnds \/ Tick
  PROVE  BInv'
<1>0. now \in 0 .. MaxTime /\ now <= now /\ maxBytes \in Limits /\ MaxTime \in Nat
  BY TimesAssumption DEF AInv, Bounded
<1>1. ASSUME NEW limit \in Limits, Configure(limit) PROVE BInv'
  <2>1. /\ UNCHANGED <<mem, bytes, index, files, starts, started, faults, now>> /\ maxBytes' = limit /\ op = Idle
        /\ answer' = [kind |-> "none"] /\ op' = [kind |-> "configure", stage |-> "evict"]
    BY <1>1 DEF Configure, Begin, Ready, memory, disk, Answered!NoAnswer
  <2>2. op'.kind = "configure" /\ op' # Idle /\ op'.stage = "evict"
    BY <2>1 DEF Idle
  <2> QED BY <1>0, <2>1, <2>2, QuietCounts
<1>2. ASSUME NEW where \in {{l} : l \in Locations} \union {Locations}, Clear(where) PROVE BInv'
  <2>1. /\ UNCHANGED <<mem, bytes, index, files, starts, started, faults, now, maxBytes>> /\ op = Idle
        /\ answer' = [kind |-> "none"] /\ op' = [kind |-> "clear", stage |-> "clear", where |-> where]
    BY <1>2 DEF Clear, Begin, Ready, memory, disk, Answered!NoAnswer
  <2>2. op'.kind = "clear"
    BY <2>1
  <2> QED BY <1>0, <2>1, <2>2, QuietCounts
<1>3. CASE Close
  <2>1. /\ UNCHANGED <<mem, bytes, index, files, starts, started, faults, now, maxBytes>> /\ op = Idle
        /\ answer' = [kind |-> "none"] /\ op' = [kind |-> "close", stage |-> "persist"]
    BY <1>3 DEF Close, Begin, Ready, memory, disk, Answered!NoAnswer
  <2>2. op'.kind = "close"
    BY <2>1
  <2> QED BY <1>0, <2>1, <2>2, QuietCounts
<1>4. ASSUME NEW q \in Requests, Get(q) PROVE BInv'
  <2>1. /\ UNCHANGED <<mem, bytes, index, files, starts, started, faults, now, maxBytes>> /\ op = Idle /\ started
        /\ answer' = [kind |-> "none"] /\ op' = [kind |-> "get", stage |-> "scan", request |-> q]
    BY <1>4 DEF Get, Begin, Ready, memory, disk, Answered!NoAnswer
  <2>2. op'.kind = "get"
    BY <2>1
  <2> QED BY <1>0, <2>1, <2>2, QuietCounts
<1>5. CASE ScanEnds
  <2>1. /\ UNCHANGED <<mem, bytes, index, files, starts, started, faults, now, maxBytes>> /\ op.stage = "scan"
        /\ answer' = [kind |-> "none"] /\ op' = Idle
    BY <1>5 DEF ScanEnds, Return, Stage, Steady, memory, disk, Answered!NoAnswer
  <2> QED BY <1>0, <2>1, QuietCounts
<1>6. CASE Tick
  <2>1. /\ UNCHANGED <<mem, bytes, index, files, starts, started, faults, maxBytes>> /\ op = Idle
        /\ answer' = [kind |-> "none"] /\ op' = Idle /\ now' = now + 1 /\ now < MaxTime
    BY <1>6 DEF Tick, Ready, memory, disk, Answered!NoAnswer
  <2>2. now' \in 0 .. MaxTime /\ now <= now'
    BY <1>0, <2>1
  <2> QED BY <1>0, <2>1, <2>2, QuietCounts
<1> QED BY <1>1, <1>2, <1>3, <1>4, <1>5, <1>6

LEMMA PutCounts ==
  ASSUME AInv, RInv', NEW r \in Responses, NEW ttl \in Ttls, Put(r[1], r[2], ttl)
  PROVE  BInv'
<1> DEFINE i == r[1]
           b == r[2]
<1>1. i \in Ids /\ b \in Bodies
  BY ResponsesAssumption
<1>2. /\ op = Idle /\ started /\ Size[b] <= LocationLimit[LocationOf[i]] /\ Size[b] <= maxBytes
      /\ UNCHANGED <<now, mem, bytes, started, maxBytes, index, starts, faults>>
      /\ answer' = [kind |-> "none"] /\ files' = files \cup {<<i, b>>}
      /\ op' = [kind |-> "put", stage |-> "install", id |-> i, body |-> b, ttl |-> ttl]
  BY DEF Put, Begin, Ready, memory, Answered!NoAnswer
<1> HIDE DEF i, b
<1>3. op' # Idle /\ op'.kind = "put" /\ op'.stage = "install" /\ op'.id = i /\ op'.body = b
  BY <1>2 DEF Idle
<1>4. Bounded' /\ Dated' /\ Counted' /\ Saved'
  <2>1. files' \subseteq Ids \X Bodies /\ now \in 0 .. MaxTime /\ now <= now /\ maxBytes \in Limits
    BY <1>1, <1>2, TimesAssumption DEF AInv, Bounded
  <2> QED BY <1>2, <2>1, SameCounts
<1>5. Within'
  BY <1>2, <1>3, SameWithin
<1>6. Admitted' /\ Newest' /\ NewcomerKept'
  BY <1>2, <1>3 DEF Admitted, Newest, NewcomerKept
<1> QED BY <1>4, <1>5, <1>6 DEF BInv

LEMMA InstallCounts == ASSUME AInv, RInv', InstallEntry PROVE BInv'
<1>1. /\ op # Idle /\ op.stage = "install" /\ op \in Ops /\ UNCHANGED <<index, answer>> /\ GoTo("evict") /\ Steady
      /\ files' \subseteq files /\ (faults' = faults \/ (faults < MaxFaults /\ faults' = faults + 1))
  BY UnlinkFacts DEF InstallEntry, Stage, AInv, RInv, Unanswered
<1>2. op.kind = "put" /\ op.id \in Ids /\ op.body \in Bodies /\ op.ttl \in Ttls
  BY <1>1, OpFacts
<1>3. op' \in Ops /\ op'.kind = "put" /\ op'.stage = "evict" /\ op'.id = op.id /\ op'.body = op.body
  BY <1>1, <1>2, GoToFacts
<1>4. PICK old, e : Replaces(old, e)
  BY Installs DEF AInv
<1>5. /\ old \in Seq(Cell) /\ Unique(old) /\ \A k \in DOMAIN old : old[k].id # e.id
      /\ \A k \in DOMAIN old : \E m \in DOMAIN mem : old[k] = mem[m]
      /\ e \in Cell /\ e.id = op.id /\ e.body = op.body /\ e.used = now /\ e.expires = now + op.ttl
      /\ mem' = Append(old, e)
  BY <1>4 DEF Replaces
<1>6. mem \in Seq(Cell) /\ Unique(mem) /\ UNCHANGED <<now, started, maxBytes, starts>>
  BY <1>1 DEF AInv, RInv, Typed, Steady
<1>7. /\ Total(Append(old, e)) = Total(old) + Size[e.body]
      /\ \A l : l # LocationOf[e.id] => Taken(Append(old, e), l) <= Taken(old, l)
  BY <1>5, TotalAppended
<1>8. \A k \in DOMAIN mem' : mem'[k] = e \/ \E m \in DOMAIN mem : mem'[k] = mem[m]
  BY <1>5, Appended
<1>9. /\ bytes' + Total(mem) = bytes + Total(old) + Size[op.body]
      /\ Total(old) \in Nat /\ \A l : Taken(old, l) \in Nat /\ Taken(old, l) <= Taken(mem, l)
  <2>1. /\ Total(old) \in Nat /\ Total(mem) \in Nat
        /\ \A l : Taken(old, l) \in Nat /\ Taken(old, l) <= Taken(mem, l)
    <3>1. \A k \in DOMAIN old : \E m \in DOMAIN mem : mem[m].id = old[k].id /\ mem[m].body = old[k].body
      BY <1>5
    <3> QED BY <1>5, <1>6, <3>1, TakenLess
  <2>2. bytes \in Nat /\ Size[op.body] \in Nat
    BY <1>2, SizesAssumption DEF AInv, Counted
  <2>3. CASE old = mem /\ bytes' = bytes + Size[op.body]
    BY <2>1, <2>2, <2>3
  <2>4. CASE \E j \in DOMAIN mem : old = RemoveAt(mem, j) /\ bytes' = bytes - Size[mem[j].body] + Size[op.body]
    <3>1. PICK j \in DOMAIN mem : old = RemoveAt(mem, j) /\ bytes' = bytes - Size[mem[j].body] + Size[op.body]
      BY <2>4
    <3>2. Total(mem) = Total(old) + Size[mem[j].body] /\ Size[mem[j].body] \in Nat
      BY <1>6, <3>1, TotalRemoved
    <3> DEFINE w == Size[mem[j].body]
    <3>3. bytes' = bytes - w + Size[op.body] /\ Total(mem) = Total(old) + w /\ w \in Nat
      BY <3>1, <3>2
    <3> HIDE DEF w
    <3>4. bytes' + Total(mem) = bytes + Total(old) + Size[op.body]
      BY <2>1, <2>2, <3>3
    <3> QED BY <2>1, <3>4
  <2> QED BY <1>4, <2>1, <2>3, <2>4 DEF Replaces
<1>10. Bounded'
  BY <1>1, BoundsKept DEF AInv
<1>11. Dated'
  <2>1. e.used <= now /\ e.expires \in 1 .. MaxTime + Max(Ttls)
    <3>1. now \in Nat /\ now <= MaxTime /\ MaxTime \in Nat
      BY TimesAssumption DEF AInv, Bounded
    <3>2. op.ttl \in Nat /\ op.ttl >= 1 /\ op.ttl <= Max(Ttls) /\ Max(Ttls) \in Nat
      BY <1>2, LongestTtl, TimesAssumption
    <3> QED BY <1>5, <3>1, <3>2
  <2>2. \A s \in {mem, index} : \A j \in DOMAIN s : s[j].used <= now /\ s[j].expires \in 1 .. MaxTime + Max(Ttls)
    BY DEF AInv, Dated
  <2> QED BY <1>1, <1>6, <1>8, <2>1, <2>2 DEF Dated
<1>12. Counted'
  <2>1. Total(mem)' = Total(Append(old, e))
    BY <1>5 DEF Total, SizeOf
  <2>2. Total(mem) <= bytes /\ bytes \in Nat /\ (starts <= 1 => bytes = Total(mem)) /\ Total(mem) \in Nat
    BY Sizes DEF AInv, Counted
  <2>3. Size[op.body] \in Nat /\ e.body = op.body
    BY <1>2, <1>5, SizesAssumption
  <2>4. starts # 0
    <3>1. started
      BY <1>1, <1>2 DEF AInv, Admitted
    <3> QED BY <3>1 DEF AInv, Counted
  <2>5. bytes' \in Int
    <3>1. CASE bytes' = bytes + Size[op.body]
      BY <2>2, <2>3, <3>1
    <3>2. CASE \E j \in DOMAIN mem : bytes' = bytes - Size[mem[j].body] + Size[op.body]
      <4>1. PICK j \in DOMAIN mem : bytes' = bytes - Size[mem[j].body] + Size[op.body]
        BY <3>2
      <4>2. Size[mem[j].body] \in Nat
        BY <1>6, CellFacts, SizesAssumption
      <4> QED BY <2>2, <2>3, <4>1, <4>2
    <3> QED BY <1>4, <3>1, <3>2 DEF Replaces
  <2>6. Total(mem)' <= bytes' /\ bytes' \in Nat /\ (starts <= 1 => bytes' = Total(mem)')
    BY <1>7, <1>9, <2>1, <2>2, <2>3, <2>5
  <2> QED BY <1>6, <2>4, <2>6 DEF Counted
<1>13. Saved'
  BY <1>1, <1>2, <1>6 DEF AInv, Admitted, Saved
<1>14. Within'
  <2>1. \A l : Taken(mem, l)' = Taken(Append(old, e), l) /\ Taken(index, l)' = Taken(index, l)
    BY <1>1, <1>5 DEF Taken, InLocation, SizeOf
  <2>2. \A l \in Locations : Taken(index, l) <= LocationLimit[l] /\ Taken(mem, l) <= LocationLimit[l]
    BY <1>1 DEF AInv, Within
  <2>3. ASSUME NEW l \in Locations, l # LocationOf[op.id] PROVE Taken(mem, l)' <= LocationLimit[l]
    <3>1. Taken(Append(old, e), l) <= Taken(old, l) /\ Taken(old, l) <= Taken(mem, l)
      BY <1>5, <1>7, <1>9, <2>3
    <3>2. Taken(Append(old, e), l) \in Nat /\ Taken(old, l) \in Nat /\ Taken(mem, l) \in Nat /\ LocationLimit[l] \in Nat
      <4>1. Append(old, e) \in Seq(Cell)
        BY <1>5, AppendProperties
      <4> QED BY <1>5, <1>6, <4>1, SizeOfType, SizesAssumption DEF Taken
    <3> QED BY <2>1, <2>2, <3>1, <3>2
  <2>4. op' # Idle
    BY <1>3 DEF Idle
  <2> QED BY <1>3, <2>1, <2>2, <2>3, <2>4 DEF Within
<1>15. Admitted' /\ NewcomerKept'
  BY <1>1, <1>2, <1>3, <1>6 DEF AInv, Admitted, NewcomerKept
<1>16. Newest'
  <2>1. mem' # <<>> /\ mem'[Len(mem')] = e
    BY <1>5, AppendProperties
  <2> QED BY <1>3, <1>5, <1>6, <2>1 DEF Newest
<1> QED BY <1>10, <1>11, <1>12, <1>13, <1>14, <1>15, <1>16 DEF BInv

LEMMA NothingTaken == Total(<<>>) = 0 /\ \A l : Taken(<<>>, l) = 0
<1>1. <<>> \in Seq(Cell)
  OBVIOUS
<1>2. DOMAIN (<<>>) = {} /\ \A l : InLocation(<<>>, l) = {}
  BY DEF InLocation
<1> QED BY <1>1, <1>2, SizeOfNone DEF Total, Taken

LEMMA ScanHitsCounts == ASSUME AInv, RInv', ScanHits PROVE BInv'
<1> DEFINE j == Min(Relevant(op.request))
<1>1. /\ op # Idle /\ op.stage = "scan" /\ Relevant(op.request) # {} /\ mem' = Touched(j) /\ Steady
      /\ op' = [kind |-> "get", stage |-> "hit", id |-> mem[j].id]
      /\ UNCHANGED <<bytes, index, files, answer, faults>>
  BY DEF ScanHits, Stage, disk
<1>2. j \in DOMAIN mem
  BY <1>1, NextRelevant DEF AInv
<1>3. op'.kind = "get" /\ op'.stage = "hit" /\ op' # Idle
  BY <1>1 DEF Idle
<1> HIDE DEF j
<1>4. mem \in Seq(Cell) /\ Unique(mem) /\ mem' \in Seq(Cell) /\ Unique(mem')
      /\ UNCHANGED <<now, started, maxBytes, starts>>
  BY <1>1 DEF AInv, RInv, Typed, Steady
<1>5. DOMAIN mem' = DOMAIN mem /\ \A k \in DOMAIN mem : Same(mem'[k], mem[k]) /\ mem'[k].used \in {now, mem[k].used}
  BY <1>1, <1>2, Touches DEF AInv, RInv
<1>6. started
  <2>1. op.kind = "get"
    BY <1>1, OpFacts DEF AInv, RInv, Unanswered
  <2> QED BY <1>1, <2>1 DEF AInv, Admitted
<1>7. Bounded'
  BY <1>1, BoundsKept DEF AInv
<1>8. Dated'
  <2> SUFFICES ASSUME NEW k \in DOMAIN mem PROVE mem'[k].used <= now /\ mem'[k].expires \in 1 .. MaxTime + Max(Ttls)
    BY <1>1, <1>4, <1>5 DEF AInv, Dated
  <2>1. mem[k].used <= now /\ mem[k].expires \in 1 .. MaxTime + Max(Ttls) /\ now \in Nat
    BY DEF AInv, Dated, Bounded
  <2> QED BY <1>5, <2>1 DEF Same
<1>9. /\ Total(mem') \in Nat /\ Total(mem) \in Nat /\ Total(mem') <= Total(mem) /\ Total(mem) <= Total(mem')
      /\ \A l : Taken(mem', l) <= Taken(mem, l)
  <2>1. \A k \in DOMAIN mem' : \E m \in DOMAIN mem : mem[m].id = mem'[k].id /\ mem[m].body = mem'[k].body
    BY <1>5 DEF Same
  <2>2. \A k \in DOMAIN mem : \E m \in DOMAIN mem' : mem'[m].id = mem[k].id /\ mem'[m].body = mem[k].body
    BY <1>5 DEF Same
  <2>3. /\ Total(mem') \in Nat /\ Total(mem) \in Nat /\ Total(mem') <= Total(mem)
        /\ \A l : Taken(mem', l) <= Taken(mem, l)
    BY <1>4, <2>1, TakenLess
  <2>4. Total(mem) <= Total(mem')
    BY <1>4, <2>2, TakenLess
  <2> QED BY <2>3, <2>4
<1>10. Total(mem)' = Total(mem') /\ \A l : Taken(mem, l)' = Taken(mem', l)
  BY DEF Total, Taken, InLocation, SizeOf
<1>11. Counted'
  <2>1. Total(mem)' = Total(mem)
    BY <1>9, <1>10
  <2>2. starts # 0
    BY <1>6 DEF AInv, Counted
  <2> QED BY <1>1, <1>4, <2>1, <2>2 DEF AInv, Counted
<1>12. Saved'
  BY <1>4, <1>6 DEF Saved
<1>13. Within'
  <2>1. Total(mem)' <= Total(mem) /\ \A l : Taken(mem, l)' <= Taken(mem, l)
    BY <1>9, <1>10
  <2> QED BY <1>1, <1>3, <1>4, <2>1, WithinKept
<1>14. Admitted' /\ Newest' /\ NewcomerKept'
  BY <1>1, <1>3, <1>4, <1>6 DEF AInv, Admitted, Newest, NewcomerKept
<1> QED BY <1>7, <1>8, <1>11, <1>12, <1>13, <1>14 DEF BInv

LEMMA StartCounts == ASSUME AInv, RInv', Start PROVE BInv'
<1>1. /\ ~started /\ started' = TRUE /\ starts < MaxStarts /\ starts' = starts + 1 /\ op = Idle
      /\ UNCHANGED <<now, maxBytes, index, files>> /\ answer' = [kind |-> "none"]
      /\ op' = [kind |-> "start", stage |-> "evict"]
  BY DEF Start, Begin, Ready, disk, Answered!NoAnswer
<1>2. op' # Idle /\ op'.kind = "start" /\ op'.stage = "evict"
  BY <1>1 DEF Idle
<1>3. PICK new : Loads(new)
  BY StartLoads DEF AInv
<1>4. /\ new \in Seq(Cell) /\ Unique(new) /\ \A j \in DOMAIN new : \E k \in DOMAIN index : new[j] = index[k]
      /\ mem' = SetAll(mem, new) /\ bytes' = bytes + Total(new)
  BY <1>3 DEF Loads
<1>5. mem \in Seq(Cell) /\ Unique(mem) /\ index \in Seq(Cell) /\ Unique(index) /\ mem' \in Seq(Cell) /\ Unique(mem')
  BY DEF AInv, RInv, Typed
<1>6. /\ \A j \in DOMAIN mem' : (\E k \in DOMAIN mem : mem'[j] = mem[k]) \/ \E k \in DOMAIN new : mem'[j] = new[k]
      /\ \A k \in DOMAIN new : \E j \in DOMAIN mem' : mem'[j] = new[k]
  <2> DEFINE m == SetAll(mem, new)
  <2>1. /\ \A j \in DOMAIN m : (\E k \in DOMAIN mem : m[j] = mem[k]) \/ \E k \in DOMAIN new : m[j] = new[k]
        /\ \A k \in DOMAIN new : \E j \in DOMAIN m : m[j] = new[k]
    <3>1. /\ \A j \in DOMAIN m : \/ \E k \in DOMAIN mem : m[j] = mem[k] /\ mem[k].id \notin Held(new)
                                \/ \E k \in DOMAIN new : m[j] = new[k]
          /\ \A k \in DOMAIN new : \E j \in DOMAIN m : m[j] = new[k]
      <4>1. mem \in Seq(Cell) /\ new \in Seq(Cell) /\ Unique(mem) /\ Unique(new)
        BY <1>4, <1>5
      <4> HIDE DEF m
      <4>2. m = SetAll(mem, new)
        BY DEF m
      <4> QED BY <4>1, <4>2, SetAllFacts
    <3> HIDE DEF m
    <3> QED BY <3>1
  <2>2. mem' = m
    BY <1>4
  <2> HIDE DEF m
  <2> QED BY <2>1, <2>2
\* What is in memory is in the index, before and after.
<1>7. \A j \in DOMAIN mem : \E k \in DOMAIN index : index[k].id = mem[j].id /\ index[k].body = mem[j].body
  BY <1>1 DEF AInv, Saved
<1>8. \A j \in DOMAIN mem' : \E k \in DOMAIN index : index[k].id = mem'[j].id /\ index[k].body = mem'[j].body
  BY <1>4, <1>6, <1>7
<1>9. Bounded'
  <2>1. PICK unreadable \in {{}} \union {{i} : i \in Held(index)} :
          faults' = faults + Cardinality(unreadable) /\ faults' <= MaxFaults
    BY DEF Start
  <2>2. Cardinality(unreadable) \in {0, 1}
    BY <2>1, FS_EmptySet, FS_Singleton
  <2>3. faults' \in 0 .. MaxFaults
    BY <2>1, <2>2, TimesAssumption DEF AInv, Bounded
  <2> QED BY <1>1, <2>3, TimesAssumption DEF AInv, Bounded
<1>10. Dated'
  <2>1. \A j \in DOMAIN mem' : \E s \in {mem, index} : \E k \in DOMAIN s : mem'[j] = s[k]
    BY <1>4, <1>6
  <2> QED BY <1>1, <2>1 DEF AInv, Dated
<1> DEFINE J == {j \in DOMAIN mem' : mem'[j].id \in Held(mem)}
           K == DOMAIN mem' \ J
<1>11. SizeOf(mem', DOMAIN mem') = SizeOf(mem', J) + SizeOf(mem', K)
  <2> DEFINE D == DOMAIN mem'
  <2>1. J \in SUBSET DOMAIN mem' /\ D \in SUBSET DOMAIN mem' /\ J \subseteq D /\ K = D \ J
    OBVIOUS
  <2> HIDE DEF J, K, D
  <2>2. SizeOf(mem', D) = SizeOf(mem', J) + SizeOf(mem', D \ J)
    BY <1>5, <2>1, SizeOfSplit
  <2> QED BY <2>1, <2>2 DEF D
<1>12. SizeOf(mem', J) <= Total(mem) /\ SizeOf(mem', J) \in Nat /\ Total(mem) \in Nat
  <2> DEFINE D == DOMAIN mem
  <2>1. \A j \in J : \E k \in D : mem[k].id = mem'[j].id /\ mem[k].body = mem'[j].body
    <3> SUFFICES ASSUME NEW j \in J PROVE \E k \in DOMAIN mem : mem[k].id = mem'[j].id /\ mem[k].body = mem'[j].body
      OBVIOUS
    <3>1. PICK k \in DOMAIN mem : mem[k].id = mem'[j].id
      BY DEF Held
    <3>2. PICK p \in DOMAIN index : index[p].id = mem'[j].id /\ index[p].body = mem'[j].body
      BY <1>8
    <3>3. PICK q \in DOMAIN index : index[q].id = mem[k].id /\ index[q].body = mem[k].body
      BY <1>7
    <3>4. p = q
      BY <1>5, <3>1, <3>2, <3>3 DEF Unique
    <3> QED BY <3>1, <3>2, <3>3, <3>4
  <2>2. J \in SUBSET DOMAIN mem' /\ D \in SUBSET DOMAIN mem
    OBVIOUS
  <2> HIDE DEF J, D
  <2>3. SizeOf(mem', J) \in Nat /\ SizeOf(mem, D) \in Nat /\ SizeOf(mem', J) <= SizeOf(mem, D)
    BY <1>5, <2>1, <2>2, SizeOfById
  <2> QED BY <2>3 DEF D, Total
<1>13. /\ SizeOf(mem', K) <= Total(new) /\ SizeOf(mem', K) \in Nat /\ Total(new) \in Nat
       /\ mem = <<>> => SizeOf(mem', K) = Total(new)
  <2> DEFINE D == DOMAIN new
  <2>1. \A j \in K : \E k \in D : new[k].id = mem'[j].id /\ new[k].body = mem'[j].body
    BY <1>6 DEF Held
  <2>2. K \in SUBSET DOMAIN mem' /\ D \in SUBSET DOMAIN new
    OBVIOUS
  <2>3. mem = <<>> => \A k \in D : \E j \in K : mem'[j].id = new[k].id
    BY <1>6 DEF Held
  <2> HIDE DEF J, K, D
  <2>4. SizeOf(mem', K) \in Nat /\ SizeOf(new, D) \in Nat /\ SizeOf(mem', K) <= SizeOf(new, D)
    BY <1>4, <1>5, <2>1, <2>2, SizeOfById
  <2>5. ASSUME mem = <<>> PROVE SizeOf(mem', K) = SizeOf(new, D)
    <3>1. \A k \in D : \E j \in K : mem'[j].id = new[k].id
      BY <2>3, <2>5
    <3>2. new \in Seq(Cell) /\ Unique(new) /\ mem' \in Seq(Cell) /\ Unique(mem')
      BY <1>4, <1>5
    <3> QED BY ONLY <2>1, <2>2, <3>1, <3>2, SizeOfById
  <2> QED BY <2>4, <2>5 DEF D, Total
<1>14. Counted'
  <2> DEFINE x == SizeOf(mem', J)
             y == SizeOf(mem', K)
             t == Total(mem)
             u == Total(new)
  <2>1. Total(mem)' = SizeOf(mem', DOMAIN mem')
    BY DEF Total, SizeOf
  <2>2. /\ t <= bytes /\ bytes \in Nat /\ (starts = 0 => bytes = t /\ mem = <<>>)
        /\ starts \in Nat /\ starts' = starts + 1
    BY <1>1 DEF AInv, Counted, Bounded
  <2>3. mem = <<>> => t = 0
    BY NothingTaken
  <2>4. /\ Total(mem)' = x + y /\ x <= t /\ x \in Nat /\ t \in Nat /\ y <= u /\ y \in Nat /\ u \in Nat
        /\ (mem = <<>> => y = u) /\ bytes' = bytes + u
    BY <1>4, <1>11, <1>12, <1>13, <2>1
  <2> HIDE DEF x, y, t, u
  <2>5. Total(mem)' <= bytes' /\ bytes' \in Nat
    BY <2>2, <2>4
  <2>6. starts' <= 1 => bytes' = Total(mem)'
    BY <2>2, <2>3, <2>4
  <2>7. starts' # 0
    BY <2>2
  <2> QED BY <2>5, <2>6, <2>7 DEF Counted
<1>15. Saved'
  BY <1>1 DEF Saved
<1>16. Within'
  <2>1. \A l : Taken(mem', l) \in Nat /\ Taken(index, l) \in Nat /\ Taken(mem', l) <= Taken(index, l)
    BY <1>5, <1>8, TakenLess
  <2>2. \A l : Taken(mem, l)' = Taken(mem', l) /\ Taken(index, l)' = Taken(index, l)
    BY <1>1 DEF Taken, InLocation, SizeOf
  <2>3. \A l \in Locations : Taken(index, l) <= LocationLimit[l] /\ LocationLimit[l] \in Nat
    BY SizesAssumption DEF AInv, Within
  <2>4. \A l \in Locations : Taken(mem, l)' <= LocationLimit[l]
    BY <2>1, <2>2, <2>3
  <2> QED BY <1>2, <2>2, <2>3, <2>4 DEF Within
<1>17. Admitted' /\ Newest' /\ NewcomerKept'
  BY <1>1, <1>2 DEF Admitted, Newest, NewcomerKept
<1> QED BY <1>9, <1>10, <1>14, <1>15, <1>16, <1>17 DEF BInv

LEMMA PersistedCounts == ASSUME AInv, RInv', Persisted PROVE BInv'
<1>1. /\ op \in Ops /\ op # Idle /\ op.stage \in {"persist", "dropped", "hit", "miss"} /\ index' = mem
      /\ UNCHANGED <<now, mem, bytes, maxBytes, files, starts, faults>> /\ started' = (started /\ op.kind # "close")
  BY DEF Persisted, Stage, NewIndex, memory, AInv, RInv, Unanswered
<1>2. Bounded'
  BY <1>1 DEF AInv, Bounded
<1>3. Dated'
  BY <1>1 DEF AInv, Dated
<1>4. Counted'
  <2>1. Total(mem)' = Total(mem)
    BY <1>1 DEF Total, SizeOf
  <2>2. started' => started
    BY <1>1
  <2>3. Counted
    BY DEF AInv
  <2> QED BY <1>1, <2>1, <2>2, <2>3 DEF Counted
<1>5. Saved'
  BY <1>1 DEF Saved
<1>6. Within'
  <2>1. Total(mem)' = Total(mem) /\ \A l : Taken(mem, l)' = Taken(mem, l) /\ Taken(index, l)' = Taken(mem, l)
    BY <1>1 DEF Total, Taken, InLocation, SizeOf
  <2>2. Total(mem) <= maxBytes /\ \A l \in Locations : Taken(mem, l) <= LocationLimit[l]
    BY <1>1 DEF AInv, Within
  <2> QED BY <1>1, <2>1, <2>2 DEF Within
<1>7. op' = Idle \/ (op.kind = "get" /\ op'.kind = "get" /\ op' \in Ops /\ answer' = answer)
  <2>1. op' = Idle \/ (op.stage = "dropped" /\ GoTo("scan") /\ answer' = answer)
    BY DEF Persisted, Return
  <2> QED BY <1>1, <2>1, OpFacts, GoToFacts
<1>8. Admitted' /\ Newest'
  BY <1>1, <1>7 DEF AInv, Admitted, Newest
<1>9. NewcomerKept'
  <2> SUFFICES ASSUME answer'.kind = "stored", starts <= 1 PROVE answer'.kept
    BY <1>1 DEF NewcomerKept
  <2>1. CASE op.stage = "dropped"
    BY <2>1 DEF Persisted, AInv, NewcomerKept
  <2>2. CASE op.stage = "miss"
    BY <2>2 DEF Persisted, Return, Answered!NoAnswer
  <2>3. CASE op.stage = "hit"
    BY <2>3 DEF Persisted, Return, Answered!Served
  <2>4. CASE op.stage = "persist"
    <3>1. CASE op.kind = "put"
      <4>1. answer' = [kind |-> "stored", id |-> op.id, body |-> op.body, kept |-> (op.id \in Held(mem))]
        BY <2>4, <3>1 DEF Persisted, Return, Answered!Stored
      <4>2. mem # <<>> /\ mem[Len(mem)].id = op.id
        BY <1>1, <2>4, <3>1 DEF AInv, Newest
      <4>3. op.id \in Held(mem)
        <5>1. Len(mem) \in DOMAIN mem
          BY <4>2 DEF AInv, RInv, Typed
        <5> QED BY <4>2, <5>1 DEF Held
      <4> QED BY <4>1, <4>3
    <3>2. CASE op.kind = "clear"
      BY <2>4, <3>2 DEF Persisted, Return, Answered!Cleared
    <3>3. CASE op.kind \notin {"put", "clear"}
      BY <2>4, <3>3 DEF Persisted, Return, Answered!NoAnswer
    <3> QED BY <3>1, <3>2, <3>3
  <2> QED BY <1>1, <2>1, <2>2, <2>3, <2>4
<1> QED BY <1>2, <1>3, <1>4, <1>5, <1>6, <1>8, <1>9 DEF BInv

LEMMA PersistFailsCounts == ASSUME AInv, RInv', PersistFails PROVE BInv'
<1>1. /\ op \in Ops /\ op # Idle /\ op.stage \in {"persist", "dropped", "hit", "miss"}
      /\ faults < MaxFaults /\ faults' = faults + 1 /\ Steady /\ index' = index
  BY DEF PersistFails, Stage, AInv, RInv, Unanswered
<1>2. CASE op.stage = "hit"
  <2> DEFINE j == At(mem, op.id)
  <2>1. /\ mem' = RemoveAt(mem, j) /\ bytes' = bytes - Size[mem[j].body]
        /\ files' \in {files, files \ {File(mem[j])}} /\ GoTo("miss") /\ answer' = answer
    BY <1>2 DEF PersistFails
  <2>2. j \in DOMAIN mem
    <3>1. op.id \in Held(mem)
      BY <1>1, <1>2 DEF AInv, RInv, Found, Held
    <3> QED BY <3>1, AtFacts
  <2>3. op.kind = "get" /\ op'.kind = "get" /\ op'.stage = "miss" /\ op' # Idle
    <3>1. op.kind = "get" /\ op'.kind = op.kind /\ op'.stage = "miss" /\ op' \in Ops
      BY <1>1, <1>2, <2>1, OpFacts, GoToFacts
    <3> QED BY <3>1 DEF Ops, Idle
  <2> HIDE DEF j
  <2>4. files' \subseteq files
    BY <2>1
  <2> QED BY <1>1, <1>2, <2>1, <2>2, <2>3, <2>4, OtherRemovalCounts
<1>3. CASE op.stage # "hit"
  <2>1. op' = Idle /\ answer' = [kind |-> "none"] /\ UNCHANGED <<mem, bytes, files>>
    BY <1>3 DEF PersistFails, Return, memory, Answered!NoAnswer
  <2>2. Bounded' /\ Dated' /\ Counted' /\ Saved'
    <3>1. now \in 0 .. MaxTime /\ now <= now /\ maxBytes \in Limits /\ files \subseteq Ids \X Bodies
      BY TimesAssumption DEF AInv, Bounded
    <3> QED BY <1>1, <2>1, <3>1, SameCounts DEF Steady
  <2>3. Within'
    BY <1>1, <2>1, SameWithin DEF Steady
  <2>4. Admitted' /\ Newest' /\ NewcomerKept'
    BY <2>1 DEF Admitted, Newest, NewcomerKept
  <2> QED BY <2>2, <2>3, <2>4 DEF BInv
<1> QED BY <1>2, <1>3

LEMMA ProcessEndsCounts == ASSUME AInv, RInv', ProcessEnds PROVE BInv'
<1>1. /\ mem' = <<>> /\ bytes' = 0 /\ started' = FALSE /\ maxBytes' \in Limits /\ op' = Idle
      /\ answer' = [kind |-> "none"] /\ starts' = 0 /\ UNCHANGED <<now, index, files, faults>>
  BY DEF ProcessEnds, disk, Answered!NoAnswer
<1>2. Bounded'
  <2>1. starts' \in 0 .. MaxStarts
    BY <1>1, TimesAssumption
  <2>2. started' \in BOOLEAN
    BY <1>1
  <2>3. now \in 0 .. MaxTime /\ faults \in 0 .. MaxFaults /\ files \subseteq Ids \X Bodies
    BY DEF AInv, Bounded
  <2> QED BY <1>1, <2>1, <2>2, <2>3 DEF Bounded
<1>3. Dated' /\ Saved'
  BY <1>1 DEF AInv, Dated, Saved
<1>4. Total(mem)' = 0 /\ \A l : Taken(mem, l)' = 0 /\ Taken(index, l)' = Taken(index, l)
  <2>1. Total(mem)' = Total(<<>>) /\ \A l : Taken(mem, l)' = Taken(<<>>, l) /\ Taken(index, l)' = Taken(index, l)
    BY <1>1 DEF Total, Taken, InLocation, SizeOf
  <2> QED BY <2>1, NothingTaken
<1>5. Counted'
  BY <1>1, <1>4 DEF Counted
<1>6. Within'
  <2>1. maxBytes' \in Nat /\ \A l \in Locations : LocationLimit[l] \in Nat /\ Taken(index, l) <= LocationLimit[l]
    BY <1>1, SizesAssumption DEF AInv, Within
  <2> QED BY <1>1, <1>4, <2>1 DEF Within
<1>7. Admitted' /\ Newest' /\ NewcomerKept'
  BY <1>1 DEF Admitted, Newest, NewcomerKept
<1> QED BY <1>2, <1>3, <1>5, <1>6, <1>7 DEF BInv

LEMMA InitCounts == Init => AInv
<1> SUFFICES ASSUME Init PROVE AInv
  OBVIOUS
<1>1. /\ now = 0 /\ mem = <<>> /\ bytes = 0 /\ started = FALSE /\ maxBytes \in Limits /\ index = <<>> /\ files = {}
      /\ op = Idle /\ answer = [kind |-> "none"] /\ starts = 0 /\ faults = 0
  BY DEF Init, Answered!NoAnswer
<1>2. RInv
  BY InitRef
<1>3. Bounded
  <2>1. started \in BOOLEAN /\ files \subseteq Ids \X Bodies
    BY <1>1
  <2> QED BY <1>1, <2>1, TimesAssumption DEF Bounded
<1>4. Dated /\ Saved
  BY <1>1 DEF Dated, Saved
<1>5. Counted
  BY <1>1, NothingTaken DEF Counted
<1>6. Within
  BY <1>1, NothingTaken, SizesAssumption DEF Within
<1>7. Admitted /\ Newest /\ NewcomerKept
  BY <1>1 DEF Admitted, Newest, NewcomerKept
<1> QED BY <1>2, <1>3, <1>4, <1>5, <1>6, <1>7 DEF AInv

LEMMA StepCounts == AInv /\ [Next]_vars => AInv'
<1> SUFFICES ASSUME AInv, [Next]_vars PROVE AInv'
  OBVIOUS
<1>0. RInv'
  BY StepRef DEF AInv
<1>1. ASSUME \E r \in Responses, ttl \in Ttls : Put(r[1], r[2], ttl) PROVE BInv'
  BY <1>0, <1>1, PutCounts
<1>2. ASSUME Step PROVE BInv'
  BY <1>0, <1>2, InstallCounts, EvictCounts, EvictDoneCounts, ClearNextCounts, QuietStepsCount, ScanRemovalCounts,
     ScanHitsCounts, PersistedCounts, PersistFailsCounts DEF Step
<1>3. ASSUME \/ \E limit \in Limits : Configure(limit)
             \/ \E where \in {{l} : l \in Locations} \union {Locations} : Clear(where)
             \/ Close \/ (\E q \in Requests : Get(q)) \/ ScanEnds \/ Tick
      PROVE  BInv'
  BY <1>0, <1>3, QuietStepsCount
<1>4. ASSUME UNCHANGED vars PROVE BInv'
  <2>1. UNCHANGED <<now, mem, bytes, started, maxBytes, index, files, op, answer, starts, faults>>
    BY <1>4 DEF vars
  <2>2. Total(mem)' = Total(mem) /\ \A l : Taken(mem, l)' = Taken(mem, l) /\ Taken(index, l)' = Taken(index, l)
    BY <2>1 DEF Total, Taken, InLocation, SizeOf
  <2>3. Bounded' /\ Dated' /\ Saved'
    BY <2>1 DEF AInv, Bounded, Dated, Saved
  <2>4. Counted' /\ Within'
    BY <2>1, <2>2 DEF AInv, Counted, Within
  <2>5. Admitted' /\ Newest' /\ NewcomerKept'
    BY <2>1 DEF AInv, Admitted, Newest, NewcomerKept
  <2> QED BY <2>3, <2>4, <2>5 DEF BInv
<1>5. BInv'
  BY <1>0, <1>1, <1>2, <1>3, <1>4, StartCounts, ProcessEndsCounts DEF Next
<1> QED BY <1>0, <1>5 DEF AInv, BInv

\* As many ids as entries.
LEMMA HeldSize ==
  ASSUME NEW E, NEW s \in Seq(E), Unique(s)
  PROVE  Cardinality(Held(s)) = Len(s)
<1> DEFINE n == Len(s)
           f == [j \in 1 .. n |-> s[j].id]
<1>1. n \in Nat /\ DOMAIN s = 1 .. n
  OBVIOUS
<1>2. f \in Bijection(1 .. n, Held(s))
  <2>1. \A j, k \in 1 .. n : f[j] = f[k] => j = k
    BY <1>1 DEF Unique
  <2>2. f \in Surjection(1 .. n, Held(s))
    BY <1>1 DEF Held, Surjection
  <2>3. f \in Injection(1 .. n, Held(s))
    BY <1>1, <2>1 DEF Held, Injection, IsInjective
  <2> QED BY <2>2, <2>3 DEF Bijection
<1>3. ExistsBijection(1 .. n, Held(s))
  BY <1>2 DEF ExistsBijection
<1> QED BY <1>1, <1>3, FS_CountingElements

LEMMA CountsImply == AInv => Accounted
<1> SUFFICES ASSUME AInv PROVE Accounted
  OBVIOUS
<1>1. TypeOK
  <2>1. ASSUME NEW s \in {mem, index}
        PROVE  (\A j \in DOMAIN s : s[j] \in Entry) /\ Cardinality(Held(s)) = Len(s)
    <3>1. s \in Seq(Cell) /\ Unique(s)
      BY DEF AInv, RInv, Typed
    <3>2. ASSUME NEW j \in DOMAIN s PROVE s[j] \in Entry
      <4>1. s[j] \in Cell /\ s[j].used \in Nat
        BY <3>1, CellFacts
      <4>2. s[j].used <= now /\ s[j].expires \in 1 .. MaxTime + Max(Ttls) /\ now \in 0 .. MaxTime
        BY DEF AInv, Dated, Bounded
      <4>3. s[j].used \in 0 .. MaxTime
        BY <4>1, <4>2, TimesAssumption
      <4> QED BY <4>1, <4>2, <4>3 DEF Cell, Entry
    <3> QED BY <3>1, <3>2, HeldSize
  <2>2. op = Idle \/ op.stage \in Stages
    BY DEF AInv, RInv, Unanswered, Ops, Stages
  <2> QED BY <2>1, <2>2 DEF TypeOK, AInv, Bounded, Counted
<1>2. UsageIsRealOnce
  BY DEF AInv, Counted, UsageIsRealOnce, UsageIsReal
<1>3. LimitsHeld
  BY DEF AInv, Within, LimitsHeld, Ready, Taken
<1> QED BY <1>1, <1>2, <1>3 DEF Accounted, AInv

\* The invariant of the account holds throughout.
THEOREM AccountInvariance == Spec => []AInv
BY InitCounts, StepCounts, PTL DEF Spec

\* Whatever the order of operations, evictions, ends of the process and failures
\* of the disk: no entry is there twice, the bytes in use are counted (exactly,
\* until an object is started again), the cache and each location stay within
\* their limits between operations, and what put() stores is not what it evicts.
THEOREM AccountIsRight == Spec => []Accounted
BY AccountInvariance, CountsImply, PTL
=============================================================================
