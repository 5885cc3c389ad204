--------------------------- MODULE SumOfSeqProofs ---------------------------
(***************************************************************************)
(* Lemmas about least and greatest numbers, and about the sum of a         *)
(* sequence: what is added to it, put into it or compared with it.         *)
(***************************************************************************)
EXTENDS SumOfSeq, FiniteSetsExt, WellFoundedInduction, TLAPS

\* What holds up to a bound fails first somewhere, or nowhere.
LEMMA LeastOf ==
  ASSUME NEW T, T \subseteq Nat, T # {}
  PROVE  \E k \in T : \A m \in T : k <= m
  <1> DEFINE below == {ss \in Nat \X Nat : ss[1] < ss[2]}
  <1>1. IsWellFoundedOn(below, Nat)
    BY NatLessThanWellFounded DEF OpToRel
  <1>2. PICK k \in T : \A m \in T : ~(<<m, k>> \in below)
    <2> HIDE DEF below
    <2> QED BY <1>1, WFMin
  <1>3. \A m \in T : ~(m < k) /\ m \in Nat /\ k \in Nat
    BY <1>2
  <1> QED BY <1>3

\* The greatest of some numbers up to a bound.
LEMMA GreatestOf ==
  ASSUME NEW n \in Nat, NEW S, S \subseteq 0..n, S # {}
  PROVE  Max(S) \in S /\ \A i \in S : i <= Max(S)
  <1> DEFINE gaps == {k \in Nat : n - k \in S}
  <1>1. gaps \subseteq Nat /\ gaps # {}
    <2>1. PICK i \in S : TRUE
      OBVIOUS
    <2>2. n - i \in Nat /\ n - (n - i) = i
      BY <2>1
    <2> QED BY <2>1, <2>2
  <1>2. PICK k \in gaps : \A m \in gaps : k <= m
    <2> HIDE DEF gaps
    <2> QED BY <1>1, LeastOf
  <1>3. ASSUME NEW i \in S PROVE i <= n - k
    <2>1. n - i \in gaps
      <3>1. n - i \in Nat /\ n - (n - i) = i
        OBVIOUS
      <3> QED BY <3>1
    <2>2. k <= n - i
      BY <1>2, <2>1
    <2> QED BY <2>2
  <1>4. n - k \in S
    BY <1>2
  <1>5. \E i \in S : \A j \in S : i >= j
    BY <1>3, <1>4
  <1>6. Max(S) \in S /\ \A j \in S : Max(S) >= j
    BY <1>5 DEF Max
  <1> QED BY <1>6

\* The least of some numbers up to a bound.
LEMMA SmallestOf ==
  ASSUME NEW n \in Nat, NEW S, S \subseteq 0..n, S # {}
  PROVE  Min(S) \in S /\ \A i \in S : Min(S) <= i
  <1>1. PICK k \in S : \A i \in S : k <= i
    <2>1. S \subseteq Nat
      OBVIOUS
    <2> QED BY <2>1, LeastOf
  <1>2. Min(S) \in S /\ \A i \in S : Min(S) <= i
    BY <1>1 DEF Min
  <1> QED BY <1>2

----------------------------------------------------------------------------
(* Sums.  SumOf(s), which is FoldLeft(+, 0, s), is the last of the sums of   *)
(* the prefixes of s.  FoldLeft goes through the subsets of the domain by    *)
(* their greatest element; the function it goes by is shown to exist by a    *)
(* least counterexample, and so are its values.                              *)

\* The function FoldLeft goes by.
Sums(s, g) ==
  g = [t \in SUBSET DOMAIN s |-> IF t = {} THEN 0 ELSE g[t \ {Max(t)}] + s[Max(t)]]

LEMMA SumUnfolded ==
  ASSUME NEW s
  PROVE  SumOf(s) = (CHOOSE g : Sums(s, g))[DOMAIN s]
  BY DEF SumOf, FoldLeft, MapThenFoldSet, Sums

\* It exists for the places up to k.
SumsUpTo(s, k, g) ==
  g = [t \in SUBSET (1..k) |-> IF t = {} THEN 0 ELSE g[t \ {Max(t)}] + s[Max(t)]]

LEMMA SumsGrow ==
  ASSUME NEW s, NEW k \in Nat, NEW h, SumsUpTo(s, k, h)
  PROVE  \E g : SumsUpTo(s, k + 1, g)
  <1> DEFINE g == [t \in SUBSET (1..(k + 1)) |-> IF k + 1 \in t THEN h[t \ {k + 1}] + s[k + 1] ELSE h[t]]
  <1>1. ASSUME NEW t \in SUBSET (1..(k + 1))
        PROVE  g[t] = IF t = {} THEN 0 ELSE g[t \ {Max(t)}] + s[Max(t)]
    <2>1. CASE t = {}
      <3>1. g[t] = h[t] /\ t \in SUBSET (1..k)
        BY <2>1
      <3>2. h[t] = 0
        BY <2>1, <3>1 DEF SumsUpTo
      <3> QED BY <2>1, <3>1, <3>2
    <2>2. CASE t # {}
      <3>1. Max(t) \in t /\ \A i \in t : i <= Max(t)
        <4>1. t \subseteq 0..(k + 1) /\ k + 1 \in Nat
          OBVIOUS
        <4> QED BY <2>2, <4>1, GreatestOf
      <3>2. CASE k + 1 \in t
        <4>1. Max(t) = k + 1
          <5>1. Max(t) \in 1..(k + 1) /\ k + 1 <= Max(t)
            BY <3>1, <3>2
          <5> QED BY <5>1
        <4>2. t \ {k + 1} \in SUBSET (1..(k + 1)) /\ k + 1 \notin t \ {k + 1}
          OBVIOUS
        <4>3. g[t \ {k + 1}] = h[t \ {k + 1}]
          BY <4>2
        <4> QED BY <2>2, <3>2, <4>1, <4>3
      <3>3. CASE k + 1 \notin t
        <4>1. t \in SUBSET (1..k) /\ t \ {Max(t)} \in SUBSET (1..(k + 1)) /\ k + 1 \notin t \ {Max(t)}
          <5>1. \A i \in t : i \in 1..(k + 1) /\ i # k + 1
            BY <3>3
          <5>2. \A i \in t : i \in 1..k
            BY <5>1
          <5> QED BY <3>3, <5>2
        <4>2. g[t] = h[t] /\ g[t \ {Max(t)}] = h[t \ {Max(t)}]
          BY <3>3, <4>1
        <4>3. h[t] = h[t \ {Max(t)}] + s[Max(t)]
          BY <2>2, <4>1 DEF SumsUpTo
        <4> QED BY <2>2, <4>2, <4>3
      <3> QED BY <3>2, <3>3
    <2> QED BY <2>1, <2>2
  <1>2. SumsUpTo(s, k + 1, g)
    <2>1. g = [t \in SUBSET (1..(k + 1)) |-> g[t]]
      OBVIOUS
    <2> HIDE DEF g
    <2> QED BY <1>1, <2>1 DEF SumsUpTo
  <1> QED BY <1>2

LEMMA SumsExist ==
  ASSUME NEW s, NEW n \in Nat, DOMAIN s = 1..n
  PROVE  \E g : Sums(s, g)
  <1> DEFINE T == {k \in Nat : ~\E g : SumsUpTo(s, k, g)}
  <1>1. T = {}
    <2> SUFFICES ASSUME T # {} PROVE FALSE
      OBVIOUS
    <2>1. PICK k \in T : \A m \in T : k <= m
      <3>1. T \subseteq Nat
        OBVIOUS
      <3> HIDE DEF T
      <3> QED BY <3>1, LeastOf
    <2>2. CASE k = 0
      <3> DEFINE g == [t \in SUBSET (1..0) |-> 0]
      <3>1. \A t \in SUBSET (1..0) : t = {}
        OBVIOUS
      <3>2. g = [t \in SUBSET (1..0) |-> IF t = {} THEN 0 ELSE g[t \ {Max(t)}] + s[Max(t)]]
        BY <3>1
      <3>3. SumsUpTo(s, 0, g)
        BY <3>2 DEF SumsUpTo
      <3> QED BY <2>1, <2>2, <3>3
    <2>3. CASE k # 0
      <3>1. k - 1 \in Nat /\ k - 1 \notin T /\ (k - 1) + 1 = k
        <4>1. k \in Nat /\ k - 1 \in Nat /\ ~(k <= k - 1)
          BY <2>1, <2>3
        <4> HIDE DEF T
        <4> QED BY <2>1, <4>1
      <3>2. PICK h : SumsUpTo(s, k - 1, h)
        BY <3>1
      <3>3. \E g : SumsUpTo(s, (k - 1) + 1, g)
        BY <3>1, <3>2, SumsGrow
      <3> QED BY <2>1, <3>1, <3>3
    <2> QED BY <2>2, <2>3
  <1>2. PICK g : SumsUpTo(s, n, g)
    BY <1>1
  <1>3. Sums(s, g)
    BY <1>2 DEF Sums, SumsUpTo
  <1> QED BY <1>3

\* The sums of the prefixes of s.
PrefixSums(s, p) ==
  /\ p[0] = 0
  /\ \A k \in 1..Len(s) : p[k] = p[k - 1] + s[k]

\* Two ways to add the same prefixes agree.
LEMMA PrefixesAgree ==
  ASSUME NEW s, Len(s) \in Nat, NEW p, NEW q, PrefixSums(s, p), PrefixSums(s, q)
  PROVE  \A k \in 0..Len(s) : p[k] = q[k]
  <1> DEFINE T == {k \in 0..Len(s) : p[k] # q[k]}
  <1> SUFFICES ASSUME T # {} PROVE FALSE
    OBVIOUS
  <1>1. PICK k \in T : \A m \in T : k <= m
    <2>1. T \subseteq Nat
      OBVIOUS
    <2> HIDE DEF T
    <2> QED BY <2>1, LeastOf
  <1>2. CASE k = 0
    BY <1>1, <1>2 DEF PrefixSums
  <1>3. CASE k # 0
    <2>1. k \in 1..Len(s) /\ k - 1 \in 0..Len(s) /\ ~(k <= k - 1)
      BY <1>1, <1>3
    <2>2. k - 1 \notin T
      <3> HIDE DEF T
      <3> QED BY <1>1, <2>1
    <2>3. p[k - 1] = q[k - 1]
      BY <2>1, <2>2
    <2> QED BY <1>1, <2>1, <2>3 DEF PrefixSums
  <1> QED BY <1>2, <1>3

\* A sum is the last of the sums of the prefixes.
LEMMA SumHasPrefixes ==
  ASSUME NEW s \in Seq(Int)
  PROVE  \E p \in [0..Len(s) -> Int] : PrefixSums(s, p) /\ SumOf(s) = p[Len(s)]
  <1> DEFINE n == Len(s)
             g == CHOOSE g : Sums(s, g)
             p == [k \in 0..n |-> g[1..k]]
  <1>1. n \in Nat /\ DOMAIN s = 1..n /\ \A k \in 1..n : s[k] \in Int
    OBVIOUS
  <1>2. Sums(s, g)
    <2> HIDE DEF n
    <2> QED BY <1>1, SumsExist
  <1>3. SumOf(s) = g[1..n]
    BY <1>1, SumUnfolded
  <1> HIDE DEF n, g
  <1>4. \A t \in SUBSET (1..n) : g[t] = IF t = {} THEN 0 ELSE g[t \ {Max(t)}] + s[Max(t)]
    BY <1>1, <1>2 DEF Sums
  <1>5. p[0] = 0
    <2>1. 1..0 = {} /\ 1..0 \in SUBSET (1..n) /\ 0 \in 0..n
      BY <1>1
    <2>2. g[1..0] = 0
      BY <1>4, <2>1
    <2> QED BY <2>1, <2>2
  <1>6. ASSUME NEW k \in 1..n PROVE p[k] = p[k - 1] + s[k]
    <2>1. k \in 0..n /\ k - 1 \in 0..n /\ 1..k \in SUBSET (1..n) /\ k \in 1..k
      BY <1>1
    <2>2. Max(1..k) = k
      <3>1. Max(1..k) \in 1..k /\ \A i \in 1..k : i <= Max(1..k)
        <4>1. k \in Nat /\ 1..k \subseteq 0..k
          BY <1>1
        <4>2. 1..k # {}
          BY <2>1
        <4> QED BY <4>1, <4>2, GreatestOf
      <3>2. Max(1..k) <= k /\ k <= Max(1..k) /\ Max(1..k) \in Int /\ k \in Int
        BY <2>1, <3>1
      <3> QED BY <3>2
    <2>3. (1..k) \ {k} = 1..(k - 1)
      BY <2>1
    <2>4. g[1..k] = g[1..(k - 1)] + s[k]
      BY <1>4, <2>1, <2>2, <2>3
    <2> QED BY <2>1, <2>4
  <1> HIDE DEF p
  <1>7. PrefixSums(s, p)
    BY <1>5, <1>6 DEF PrefixSums, n
  <1>8. \A k \in 0..n : p[k] \in Int
    <2> DEFINE T == {k \in 0..n : p[k] \notin Int}
    <2> SUFFICES ASSUME T # {} PROVE FALSE
      OBVIOUS
    <2>1. PICK k \in T : \A m \in T : k <= m
      <3>1. T \subseteq Nat
        OBVIOUS
      <3> HIDE DEF T
      <3> QED BY <3>1, LeastOf
    <2>2. k # 0 /\ k \in 1..n /\ k - 1 \in 0..n /\ ~(k <= k - 1)
      BY <1>1, <1>5, <2>1
    <2>3. p[k - 1] \in Int
      <3>1. k - 1 \notin T
        <4> HIDE DEF T
        <4> QED BY <2>1, <2>2
      <3> QED BY <2>2, <3>1
    <2> QED BY <1>1, <1>6, <2>1, <2>2, <2>3
  <1>9. p \in [0..n -> Int] /\ SumOf(s) = p[n]
    BY <1>1, <1>3, <1>8 DEF p
  <1> QED BY <1>7, <1>9 DEF n

LEMMA SumOfPrefixes ==
  ASSUME NEW s \in Seq(Int), NEW p, PrefixSums(s, p)
  PROVE  SumOf(s) = p[Len(s)]
  <1>1. PICK q : PrefixSums(s, q) /\ SumOf(s) = q[Len(s)]
    BY SumHasPrefixes
  <1>2. Len(s) \in Nat /\ Len(s) \in 0..Len(s)
    OBVIOUS
  <1> QED BY <1>1, <1>2, PrefixesAgree

LEMMA SumType == ASSUME NEW s \in Seq(Int) PROVE SumOf(s) \in Int
  <1>1. Len(s) \in 0..Len(s)
    OBVIOUS
  <1> QED BY <1>1, SumHasPrefixes

LEMMA SumOfNothing == SumOf(<< >>) = 0
  <1>1. << >> \in Seq(Int) /\ Len(<< >>) = 0
    OBVIOUS
  <1>2. PICK p : PrefixSums(<< >>, p) /\ SumOf(<< >>) = p[Len(<< >>)]
    BY <1>1, SumHasPrefixes
  <1> QED BY <1>1, <1>2 DEF PrefixSums

LEMMA SumOfZeros ==
  ASSUME NEW s \in Seq(Int), \A k \in DOMAIN s : s[k] = 0
  PROVE  SumOf(s) = 0
  <1> DEFINE p == [k \in 0..Len(s) |-> 0]
  <1>1. Len(s) \in Nat /\ DOMAIN s = 1..Len(s)
    OBVIOUS
  <1>2. PrefixSums(s, p)
    BY <1>1 DEF PrefixSums
  <1>3. p[Len(s)] = 0
    BY <1>1
  <1> HIDE DEF p
  <1> QED BY <1>2, <1>3, SumOfPrefixes

LEMMA SumOfAppend ==
  ASSUME NEW s \in Seq(Int), NEW x \in Int
  PROVE  SumOf(Append(s, x)) = SumOf(s) + x
  <1> DEFINE n == Len(s)
             t == Append(s, x)
  <1>1. /\ n \in Nat /\ t \in Seq(Int) /\ Len(t) = n + 1 /\ t[n + 1] = x
        /\ \A k \in 1..n : t[k] = s[k]
    OBVIOUS
  <1>2. PICK p \in [0..n -> Int] : PrefixSums(s, p) /\ SumOf(s) = p[n]
    BY SumHasPrefixes
  <1> DEFINE q == [k \in 0..(n + 1) |-> IF k = n + 1 THEN p[n] + x ELSE p[k]]
  <1> HIDE DEF n, t
  <1>3. PrefixSums(t, q)
    <2>1. q[0] = 0
      BY <1>1, <1>2 DEF PrefixSums
    <2>2. ASSUME NEW k \in 1..(n + 1) PROVE q[k] = q[k - 1] + t[k]
      <3>1. CASE k = n + 1
        BY <1>1, <3>1
      <3>2. CASE k # n + 1
        <4>1. k \in 1..n /\ k - 1 \in 0..n
          BY <1>1, <3>2
        <4>2. p[k] = p[k - 1] + s[k]
          BY <1>2, <4>1 DEF PrefixSums, n
        <4> QED BY <1>1, <4>1, <4>2
      <3> QED BY <3>1, <3>2
    <2> QED BY <1>1, <2>1, <2>2 DEF PrefixSums
  <1>4. q[n + 1] = p[n] + x
    BY <1>1
  <1> HIDE DEF q
  <1>5. SumOf(t) = q[n + 1]
    BY <1>1, <1>3, SumOfPrefixes
  <1> QED BY <1>2, <1>4, <1>5 DEF t

LEMMA SumOfExcept ==
  ASSUME NEW s \in Seq(Int), NEW i \in DOMAIN s, NEW x \in Int
  PROVE  SumOf([s EXCEPT ![i] = x]) = SumOf(s) - s[i] + x
  <1> DEFINE n == Len(s)
             t == [s EXCEPT ![i] = x]
  <1>1. /\ n \in Nat /\ i \in 1..n /\ t \in Seq(Int) /\ Len(t) = n /\ t[i] = x
        /\ \A k \in 1..n : k # i => t[k] = s[k]
        /\ \A k \in 1..n : s[k] \in Int
    OBVIOUS
  <1>2. PICK p \in [0..n -> Int] : PrefixSums(s, p) /\ SumOf(s) = p[n]
    BY SumHasPrefixes
  <1> DEFINE q == [k \in 0..n |-> IF k < i THEN p[k] ELSE p[k] - s[i] + x]
  <1> HIDE DEF n, t
  <1>3. PrefixSums(t, q)
    <2>1. q[0] = 0
      BY <1>1, <1>2 DEF PrefixSums
    <2>2. ASSUME NEW k \in 1..n PROVE q[k] = q[k - 1] + t[k]
      <3>1. k \in Int /\ i \in Int /\ k - 1 \in 0..n /\ k \in 0..n
        BY <1>1
      <3> HIDE DEF q
      <3>5. /\ p[k] = p[k - 1] + s[k]
            /\ p[k] \in Int /\ p[k - 1] \in Int /\ s[k] \in Int /\ s[i] \in Int
        BY <1>1, <1>2, <3>1 DEF PrefixSums, n
      <3>6. /\ q[k] = IF k < i THEN p[k] ELSE p[k] - s[i] + x
            /\ q[k - 1] = IF k - 1 < i THEN p[k - 1] ELSE p[k - 1] - s[i] + x
        BY <3>1 DEF q
      <3>2. CASE k = i
        BY <1>1, <3>1, <3>5, <3>6, <3>2
      <3>3. CASE k < i
        <4>1. k - 1 < i /\ t[k] = s[k]
          BY <1>1, <3>1, <3>3
        <4> QED BY <3>3, <3>5, <3>6, <4>1
      <3>4. CASE k > i
        <4>1. ~(k - 1 < i) /\ ~(k < i) /\ t[k] = s[k]
          BY <1>1, <3>1, <3>4
        <4>2. q[k] = p[k] - s[i] + x /\ q[k - 1] = p[k - 1] - s[i] + x
          BY <3>6, <4>1
        <4>3. q[k] = p[k - 1] + s[k] - s[i] + x
          BY <3>5, <4>2
        <4>4. p[k - 1] + s[k] - s[i] + x = (p[k - 1] - s[i] + x) + s[k]
          BY <3>5
        <4> QED BY <4>1, <4>2, <4>3, <4>4
      <3> QED BY <1>1, <3>2, <3>3, <3>4
    <2> QED BY <1>1, <2>1, <2>2 DEF PrefixSums
  <1>4. q[n] = p[n] - s[i] + x
    BY <1>1
  <1> HIDE DEF q
  <1>5. SumOf(t) = q[n]
    BY <1>1, <1>3, SumOfPrefixes
  <1> QED BY <1>2, <1>4, <1>5 DEF t

LEMMA SumOfNaturals ==
  ASSUME NEW s \in Seq(Nat)
  PROVE  SumOf(s) \in Nat
  <1>1. /\ s \in Seq(Int) /\ Len(s) \in Nat
        /\ \A k \in 1..Len(s) : s[k] \in Nat
    OBVIOUS
  <1>2. PICK p \in [0..Len(s) -> Int] : PrefixSums(s, p) /\ SumOf(s) = p[Len(s)]
    BY <1>1, SumHasPrefixes
  <1> DEFINE T == {k \in 0..Len(s) : p[k] < 0}
  <1>3. ASSUME T # {} PROVE FALSE
    <2>1. PICK k \in T : \A m \in T : k <= m
      <3>1. T \subseteq Nat
        BY <1>1
      <3> HIDE DEF T
      <3> QED BY <1>3, <3>1, LeastOf
    <2>2. k \in 0..Len(s) /\ p[k] < 0 /\ p[0] = 0
      BY <2>1, <1>2 DEF PrefixSums
    <2>3. k \in 1..Len(s) /\ k - 1 \in 0..Len(s) /\ ~(k <= k - 1)
      BY <2>2, <1>1
    <2>4. ~(p[k - 1] < 0)
      BY <2>1, <2>3
    <2>5. p[k] = p[k - 1] + s[k] /\ s[k] \in Nat /\ p[k - 1] \in Int
      BY <2>3, <1>1, <1>2 DEF PrefixSums
    <2> QED BY <2>2, <2>4, <2>5
  <1>4. Len(s) \in 0..Len(s) /\ p[Len(s)] \in Int /\ ~(p[Len(s)] < 0)
    BY <1>1, <1>2, <1>3
  <1> QED BY <1>2, <1>4

LEMMA SumOfScaled ==
  ASSUME NEW s \in Seq(Int), NEW u \in Seq(Int), Len(s) = Len(u), NEW c \in Int,
         \A k \in DOMAIN s : s[k] <= c * u[k]
  PROVE  SumOf(s) <= c * SumOf(u)
  <1> DEFINE n == Len(s)
  <1>1. /\ n \in Nat /\ DOMAIN s = 1..n /\ Len(u) = n
        /\ \A k \in 1..n : s[k] \in Int /\ u[k] \in Int /\ s[k] <= c * u[k]
    OBVIOUS
  <1>2. PICK p \in [0..n -> Int] : PrefixSums(s, p) /\ SumOf(s) = p[n]
    BY SumHasPrefixes
  <1>3. PICK q \in [0..n -> Int] : PrefixSums(u, q) /\ SumOf(u) = q[n]
    BY SumHasPrefixes
  <1> HIDE DEF n
  <1> DEFINE T == {k \in 0..n : ~(p[k] <= c * q[k])}
  <1>4. ASSUME T # {} PROVE FALSE
    <2>1. PICK k \in T : \A m \in T : k <= m
      <3>1. T \subseteq Nat
        BY <1>1
      <3> HIDE DEF T
      <3> QED BY <1>4, <3>1, LeastOf
    <2>2. k \in 0..n /\ ~(p[k] <= c * q[k]) /\ p[0] = 0 /\ q[0] = 0 /\ c * 0 = 0
      BY <2>1, <1>2, <1>3 DEF PrefixSums
    <2>3. k \in 1..n /\ k - 1 \in 0..n /\ ~(k <= k - 1)
      BY <2>2, <1>1
    <2>4. p[k - 1] <= c * q[k - 1]
      BY <2>1, <2>3
    <2>5. /\ p[k] = p[k - 1] + s[k] /\ q[k] = q[k - 1] + u[k]
          /\ p[k - 1] \in Int /\ q[k - 1] \in Int /\ s[k] \in Int /\ u[k] \in Int /\ s[k] <= c * u[k]
      BY <2>3, <1>1, <1>2, <1>3 DEF PrefixSums, n
    <2>6. c * (q[k - 1] + u[k]) = c * q[k - 1] + c * u[k]
      BY <2>5
    <2> QED BY <2>2, <2>4, <2>5, <2>6
  <1>5. n \in 0..n
    BY <1>1
  <1> QED BY <1>2, <1>3, <1>4, <1>5

LEMMA SumOfMonotone ==
  ASSUME NEW s \in Seq(Int), NEW u \in Seq(Int), Len(s) = Len(u), \A k \in DOMAIN s : s[k] <= u[k]
  PROVE  SumOf(s) <= SumOf(u)
  <1>1. 1 \in Int /\ \A k \in DOMAIN s : s[k] <= 1 * u[k]
    <2>1. \A k \in DOMAIN s : u[k] \in Int
      OBVIOUS
    <2> QED BY <2>1
  <1>2. SumOf(s) <= 1 * SumOf(u)
    BY <1>1, SumOfScaled
  <1> QED BY <1>2, SumType

\* A place that counts nothing, put in anywhere, changes nothing.
LEMMA SumOfInserted ==
  ASSUME NEW s \in Seq(Int), NEW u \in Seq(Int), Len(u) = Len(s) + 1, NEW m \in 1..Len(u),
         \A k \in 1..Len(u) : u[k] = IF k < m THEN s[k] ELSE IF k = m THEN 0 ELSE s[k - 1]
  PROVE  SumOf(u) = SumOf(s)
  <1> DEFINE n == Len(s)
  <1>1. n \in Nat /\ Len(u) = n + 1 /\ m \in 1..(n + 1) /\ \A k \in 1..n : s[k] \in Int
    OBVIOUS
  <1>2. PICK p \in [0..n -> Int] : PrefixSums(s, p) /\ SumOf(s) = p[n]
    BY SumHasPrefixes
  <1> DEFINE q == [k \in 0..(n + 1) |-> IF k < m THEN p[k] ELSE p[k - 1]]
  <1> HIDE DEF n
  <1>3. q[0] = 0
    BY <1>1, <1>2 DEF PrefixSums
  <1>4. ASSUME NEW k \in 1..(n + 1) PROVE q[k] = q[k - 1] + u[k]
    <2>1. /\ k \in Int /\ m \in Int /\ k \in 0..(n + 1) /\ k - 1 \in 0..(n + 1)
          /\ q[k] = IF k < m THEN p[k] ELSE p[k - 1]
          /\ q[k - 1] = IF k - 1 < m THEN p[k - 1] ELSE p[(k - 1) - 1]
      BY <1>1
    <2>2. u[k] = IF k < m THEN s[k] ELSE IF k = m THEN 0 ELSE s[k - 1]
      BY <1>1
    <2> HIDE DEF q
    <2>3. CASE k < m
      <3>1. k \in 1..n /\ k - 1 < m
        BY <1>1, <2>1, <2>3
      <3>2. p[k] = p[k - 1] + s[k]
        BY <1>2, <3>1 DEF PrefixSums, n
      <3> QED BY <2>1, <2>2, <2>3, <3>1, <3>2
    <2>4. CASE k = m
      <3>1. k - 1 < m /\ ~(k < m) /\ k - 1 \in 0..n /\ p[k - 1] \in Int
        BY <1>1, <1>2, <2>1, <2>4
      <3> QED BY <2>1, <2>2, <2>4, <3>1
    <2>5. CASE k > m
      <3>1. k - 1 \in 1..n /\ ~(k - 1 < m) /\ ~(k < m) /\ k # m
        BY <1>1, <2>1, <2>5
      <3>2. p[k - 1] = p[(k - 1) - 1] + s[k - 1]
        BY <1>2, <3>1 DEF PrefixSums, n
      <3> QED BY <2>1, <2>2, <3>1, <3>2
    <2> QED BY <2>1, <2>3, <2>4, <2>5
  <1>5. q[n + 1] = p[n]
    BY <1>1
  <1> HIDE DEF q
  <1>6. PrefixSums(u, q)
    BY <1>1, <1>3, <1>4 DEF PrefixSums
  <1>7. SumOf(u) = q[n + 1]
    BY <1>1, <1>6, SumOfPrefixes
  <1> QED BY <1>2, <1>5, <1>7

LEMMA Elements == ASSUME NEW S, NEW s \in Seq(S) PROVE \A k \in DOMAIN s : s[k] \in S
  OBVIOUS

LEMMA WiderSeq == ASSUME NEW S, NEW T, S \subseteq T, NEW s \in Seq(S) PROVE s \in Seq(T)
  OBVIOUS

LEMMA NaturalsSeq == ASSUME NEW s \in Seq(Nat) PROVE s \in Seq(Int)
  OBVIOUS

LEMMA SumOfAtMost ==
  ASSUME NEW s \in Seq(Int), NEW c \in Int, \A i \in DOMAIN s : s[i] <= c
  PROVE  SumOf(s) <= c * Len(s)
  <1> DEFINE ones == [i \in 1..Len(s) |-> 1]
             p == [k \in 0..Len(s) |-> k]
  <1>1. /\ Len(s) \in Nat /\ ones \in Seq(Int) /\ Len(ones) = Len(s) /\ DOMAIN s = 1..Len(s)
        /\ \A i \in 1..Len(s) : ones[i] = 1
    OBVIOUS
  <1>2. PrefixSums(ones, p)
    BY <1>1 DEF PrefixSums
  <1>3. p[Len(ones)] = Len(s)
    BY <1>1
  <1> HIDE DEF ones, p
  <1>4. SumOf(ones) = Len(s)
    BY <1>1, <1>2, <1>3, SumOfPrefixes
  <1>5. \A i \in DOMAIN s : s[i] <= c * ones[i]
    BY <1>1
  <1> QED BY <1>1, <1>4, <1>5, SumOfScaled

\* As many as a grade has rubrics.
LEMMA SumOfNine ==
  ASSUME NEW s \in Seq(Int), Len(s) = 9
  PROVE  SumOf(s) = s[1] + s[2] + s[3] + s[4] + s[5] + s[6] + s[7] + s[8] + s[9]
  <1>1. PICK p \in [0..9 -> Int] : PrefixSums(s, p) /\ SumOf(s) = p[9]
    BY SumHasPrefixes
  <1>2. /\ p[0] = 0 /\ p[1] = p[0] + s[1] /\ p[2] = p[1] + s[2] /\ p[3] = p[2] + s[3]
        /\ p[4] = p[3] + s[4] /\ p[5] = p[4] + s[5] /\ p[6] = p[5] + s[6]
        /\ p[7] = p[6] + s[7] /\ p[8] = p[7] + s[8] /\ p[9] = p[8] + s[9]
    <2>1. p[0] = 0 /\ \A k \in 1..9 : p[k] = p[k - 1] + s[k]
      BY <1>1 DEF PrefixSums
    <2> QED BY <2>1
  <1>3. \A k \in 1..9 : s[k] \in Int
    <2>1. DOMAIN s = 1..9
      OBVIOUS
    <2> QED BY <2>1, Elements
  <1>4. /\ s[1] \in Int /\ s[2] \in Int /\ s[3] \in Int /\ s[4] \in Int /\ s[5] \in Int
        /\ s[6] \in Int /\ s[7] \in Int /\ s[8] \in Int /\ s[9] \in Int
    BY <1>3
  <1> QED BY <1>1, <1>2, <1>4
=============================================================================
