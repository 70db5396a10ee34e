-------------------------- MODULE CollectionFacts --------------------------
(***************************************************************************)
(* Facts about lists and finite sets that the proofs of several components *)
(* need: what a list holds when items are put, taken or removed, how sizes *)
(* add up, and how the sums of Sums do.                                    *)
(***************************************************************************)
EXTENDS Integers, Sequences, FiniteSets, SequencesExt, Sums, TLAPS,
        FiniteSetTheorems, FunctionTheorems, SequenceTheorems, WellFoundedInduction

\* What a queue is after an item was put.
LEMMA AppendFacts ==
  ASSUME NEW S, NEW s \in Seq(S), NEW e \in S
  PROVE  /\ Append(s, e) \in Seq(S)
         /\ Len(Append(s, e)) = Len(s) + 1
         /\ DOMAIN Append(s, e) = 1 .. Len(s) + 1
         /\ Append(s, e)[Len(s) + 1] = e
         /\ \A i \in 1 .. Len(s) : Append(s, e)[i] = s[i]
OBVIOUS

\* A list and another one behind it.
LEMMA ConcatFacts ==
  ASSUME NEW S, NEW s \in Seq(S), NEW t \in Seq(S)
  PROVE  /\ s \o t \in Seq(S)
         /\ Len(s \o t) = Len(s) + Len(t)
         /\ DOMAIN (s \o t) = 1 .. Len(s) + Len(t)
         /\ \A i \in 1 .. Len(s) + Len(t) :
              \/ i \in DOMAIN s /\ (s \o t)[i] = s[i]
              \/ i > Len(s) /\ i - Len(s) \in DOMAIN t /\ (s \o t)[i] = t[i - Len(s)]
OBVIOUS

\* The first n items of a list.
LEMMA PrefixFacts ==
  ASSUME NEW S, NEW s \in Seq(S), NEW n \in 0 .. Len(s)
  PROVE  /\ SubSeq(s, 1, n) \in Seq(S)
         /\ Len(SubSeq(s, 1, n)) = n
         /\ DOMAIN SubSeq(s, 1, n) = 1 .. n
         /\ \A i \in 1 .. n : i \in DOMAIN s /\ SubSeq(s, 1, n)[i] = s[i]
OBVIOUS

\* What is left of a queue when its first k items are taken.
LEMMA SuffixFacts ==
  ASSUME NEW S, NEW s \in Seq(S), NEW k \in 0 .. Len(s)
  PROVE  /\ SubSeq(s, k + 1, Len(s)) \in Seq(S)
         /\ Len(SubSeq(s, k + 1, Len(s))) = Len(s) - k
         /\ DOMAIN SubSeq(s, k + 1, Len(s)) = 1 .. Len(s) - k
         /\ \A i \in 1 .. Len(s) - k : i + k \in DOMAIN s /\ SubSeq(s, k + 1, Len(s))[i] = s[i + k]
OBVIOUS

\* All items of a list.
LEMMA WholeList ==
  ASSUME NEW S, NEW s \in Seq(S)
  PROVE  s = SubSeq(s, 1, Len(s)) /\ Len(s) \in 0 .. Len(s)
OBVIOUS

\* A list whose items are all in a set is a list of that set.
LEMMA ItemsInSet ==
  ASSUME NEW S, NEW s \in Seq(S), NEW T, \A i \in DOMAIN s : s[i] \in T
  PROVE  s \in Seq(T)
OBVIOUS

\* What is left of a list when one position is removed.
LEMMA RemoveAtFacts ==
  ASSUME NEW S, NEW s \in Seq(S), NEW i \in 1 .. Len(s)
  PROVE  /\ RemoveAt(s, i) \in Seq(S)
         /\ Len(RemoveAt(s, i)) = Len(s) - 1
         /\ \A j \in 1 .. Len(s) - 1 :
              RemoveAt(s, i)[j] = IF j < i THEN s[j] ELSE s[j + 1]
<1> DEFINE a == SubSeq(s, 1, i - 1)
           b == SubSeq(s, i + 1, Len(s))
<1>0. Len(s) \in Nat /\ \A j \in 1 .. Len(s) : s[j] \in S
  BY LenProperties, ElementOfSeq
<1>1. /\ a \in Seq(S)
      /\ Len(a) = i - 1
      /\ \A j \in 1 .. i - 1 : a[j] = s[j]
  <2>1. \A j \in 1 .. i - 1 : s[j] \in S
    BY <1>0
  <2> HIDE DEF a
  <2>2. /\ SubSeq(s, 1, i - 1) \in Seq(S)
        /\ Len(SubSeq(s, 1, i - 1)) = IF 1 <= i - 1 THEN (i - 1) - 1 + 1 ELSE 0
        /\ \A j \in 1 .. (i - 1) - 1 + 1 : SubSeq(s, 1, i - 1)[j] = s[1 + j - 1]
    BY <2>1, <1>0, SubSeqProperties
  <2> QED BY <2>2, <1>0 DEF a
<1>2. /\ b \in Seq(S)
      /\ Len(b) = Len(s) - i
      /\ \A j \in 1 .. Len(s) - i : b[j] = s[j + i]
  <2>1. \A j \in i + 1 .. Len(s) : s[j] \in S
    BY <1>0
  <2> HIDE DEF b
  <2>2. /\ SubSeq(s, i + 1, Len(s)) \in Seq(S)
        /\ Len(SubSeq(s, i + 1, Len(s))) = IF i + 1 <= Len(s) THEN Len(s) - (i + 1) + 1 ELSE 0
        /\ \A j \in 1 .. Len(s) - (i + 1) + 1 : SubSeq(s, i + 1, Len(s))[j] = s[(i + 1) + j - 1]
    BY <2>1, <1>0, SubSeqProperties
  <2> QED BY <2>2, <1>0 DEF b
<1> HIDE DEF a, b
<1>3. /\ a \o b \in Seq(S)
      /\ Len(a \o b) = Len(a) + Len(b)
      /\ \A j \in 1 .. Len(a) + Len(b) : (a \o b)[j] = IF j <= Len(a) THEN a[j] ELSE b[j - Len(a)]
  BY <1>1, <1>2, ConcatProperties
<1>4. RemoveAt(s, i) = a \o b
  BY DEF RemoveAt, a, b
<1>5. \A j \in 1 .. Len(s) - 1 : (a \o b)[j] = IF j < i THEN s[j] ELSE s[j + 1]
  <2> SUFFICES ASSUME NEW j \in 1 .. Len(s) - 1
               PROVE  (a \o b)[j] = IF j < i THEN s[j] ELSE s[j + 1]
    OBVIOUS
  <2>1. CASE j < i
    BY <2>1, <1>0, <1>1, <1>2, <1>3
  <2>2. CASE j >= i
    <3>1. j - (i - 1) \in 1 .. Len(s) - i
      BY <2>2, <1>0
    <3>2. b[j - (i - 1)] = s[(j - (i - 1)) + i]
      BY <3>1, <1>2
    <3> QED BY <3>2, <2>2, <1>0, <1>1, <1>2, <1>3
  <2>3. j < i \/ j >= i
    BY <1>0
  <2> QED BY <2>1, <2>2, <2>3
<1> QED BY <1>0, <1>1, <1>2, <1>3, <1>4, <1>5

\* Of n distinct items the one at position i is taken out: the others stay.
LEMMA GapClosed ==
  ASSUME NEW n \in Nat, NEW i \in 1 .. n, NEW s, NEW t,
         DOMAIN s = 1 .. n, DOMAIN t = 1 .. n - 1,
         \A j \in 1 .. n - 1 : t[j] = IF j < i THEN s[j] ELSE s[j + 1],
         \A j, k \in DOMAIN s : s[j] = s[k] => j = k
  PROVE  /\ \A j \in DOMAIN t : t[j] # s[i]
         /\ \A j \in DOMAIN t : \E k \in DOMAIN s : t[j] = s[k]
         /\ \A j, k \in DOMAIN t : t[j] = t[k] => j = k
         /\ \A k \in DOMAIN s : k # i => \E j \in DOMAIN t : t[j] = s[k]
<1>1. \A j \in 1 .. n - 1 :
        \E k \in 1 .. n : /\ k = IF j < i THEN j ELSE j + 1
                          /\ k # i
                          /\ t[j] = s[k]
  OBVIOUS
<1>2. \A k \in 1 .. n : k # i => \E j \in 1 .. n - 1 : t[j] = s[k]
  <2> SUFFICES ASSUME NEW k \in 1 .. n, k # i
               PROVE  \E j \in 1 .. n - 1 : t[j] = s[k]
    OBVIOUS
  <2>1. CASE k < i
    <3>1. k \in 1 .. n - 1 /\ t[k] = s[k]
      BY <2>1
    <3> QED BY <3>1
  <2>2. CASE k > i
    <3>1. k - 1 \in 1 .. n - 1 /\ ~(k - 1 < i) /\ (k - 1) + 1 = k
      BY <2>2
    <3>2. t[k - 1] = s[k]
      BY <3>1
    <3> QED BY <3>1, <3>2
  <2> QED BY <2>1, <2>2
<1>3. ASSUME NEW j \in DOMAIN t, NEW k \in DOMAIN t, t[j] = t[k]
      PROVE  j = k
  <2>1. PICK a \in 1 .. n : a = (IF j < i THEN j ELSE j + 1) /\ t[j] = s[a]
    BY <1>1
  <2>2. PICK b \in 1 .. n : b = (IF k < i THEN k ELSE k + 1) /\ t[k] = s[b]
    BY <1>1
  <2>3. a = b
    BY <1>3, <2>1, <2>2
  <2> QED BY <2>1, <2>2, <2>3
<1>4. /\ \A j \in DOMAIN t : t[j] # s[i]
      /\ \A j \in DOMAIN t : \E k \in DOMAIN s : t[j] = s[k]
  BY <1>1
<1>5. \A k \in DOMAIN s : k # i => \E j \in DOMAIN t : t[j] = s[k]
  BY <1>2
<1>6. \A j, k \in DOMAIN t : t[j] = t[k] => j = k
  BY <1>3
<1> QED BY <1>4, <1>5, <1>6

\* A list of distinct items loses one of them: the others stay.
LEMMA RemoveItemFacts ==
  ASSUME NEW S, NEW s \in Seq(S), NEW i \in DOMAIN s,
         \A j, k \in DOMAIN s : s[j] = s[k] => j = k,
         NEW t, t = RemoveAt(s, i)
  PROVE  /\ t \in Seq(S)
         /\ \A j \in DOMAIN t : t[j] # s[i]
         /\ \A j \in DOMAIN t : \E k \in DOMAIN s : t[j] = s[k]
         /\ \A j, k \in DOMAIN t : t[j] = t[k] => j = k
         /\ \A k \in DOMAIN s : k # i => \E j \in DOMAIN t : t[j] = s[k]
<1>1. Len(s) \in Nat /\ DOMAIN s = 1 .. Len(s) /\ i \in 1 .. Len(s)
  BY LenProperties
<1>2. /\ t \in Seq(S)
      /\ Len(t) = Len(s) - 1
      /\ \A j \in 1 .. Len(s) - 1 : t[j] = IF j < i THEN s[j] ELSE s[j + 1]
  BY <1>1, RemoveAtFacts, ZenonT(40)
<1>3. DOMAIN t = 1 .. Len(s) - 1
  BY <1>2, LenProperties
<1> DEFINE n == Len(s)
<1>4. /\ n \in Nat /\ i \in 1 .. n /\ DOMAIN s = 1 .. n /\ DOMAIN t = 1 .. n - 1
      /\ \A j \in 1 .. n - 1 : t[j] = IF j < i THEN s[j] ELSE s[j + 1]
      /\ \A j, k \in DOMAIN s : s[j] = s[k] => j = k
  BY <1>1, <1>2, <1>3
<1> HIDE DEF n
<1>5. /\ \A j \in DOMAIN t : t[j] # s[i]
      /\ \A j \in DOMAIN t : \E k \in DOMAIN s : t[j] = s[k]
      /\ \A j, k \in DOMAIN t : t[j] = t[k] => j = k
      /\ \A k \in DOMAIN s : k # i => \E j \in DOMAIN t : t[j] = s[k]
  BY ONLY <1>4, GapClosed
<1> QED BY <1>2, <1>5

-----------------------------------------------------------------------------
\* How many positions there are, and how sizes add up.
LEMMA IntervalSize ==
  ASSUME NEW n \in Nat
  PROVE  IsFiniteSet(1 .. n) /\ Cardinality(1 .. n) = n
BY FS_Interval

LEMMA DisjointSizes ==
  ASSUME NEW A, NEW B, IsFiniteSet(A), IsFiniteSet(B), A \cap B = {}
  PROVE  IsFiniteSet(A \cup B) /\ Cardinality(A \cup B) = Cardinality(A) + Cardinality(B)
<1>1. Cardinality(A) \in Nat /\ Cardinality(B) \in Nat /\ Cardinality(A \cap B) = 0
  BY FS_CardinalityType, FS_EmptySet
<1>2. /\ IsFiniteSet(A \cup B)
      /\ Cardinality(A \cup B) = Cardinality(A) + Cardinality(B) - Cardinality(A \cap B)
  BY FS_Union, Zenon
<1> QED BY <1>1, <1>2

\* One member comes or goes: the size follows.
LEMMA MemberMoves ==
  ASSUME NEW A, NEW B, NEW x, IsFiniteSet(A), B \ {x} = A \ {x}
  PROVE  /\ IsFiniteSet(B)
         /\ Cardinality(B) =
              Cardinality(A) - (IF x \in A THEN 1 ELSE 0) + (IF x \in B THEN 1 ELSE 0)
         /\ (IF x \in A THEN 1 ELSE 0) <= Cardinality(A)
<1> DEFINE rest == A \ {x}
<1>1. /\ IsFiniteSet(rest) /\ Cardinality(rest) \in Nat /\ x \notin rest
      /\ Cardinality(A) = Cardinality(rest) + (IF x \in A THEN 1 ELSE 0)
  <2>1. IsFiniteSet(rest) /\ Cardinality(rest) \in Nat
    BY FS_Subset, FS_CardinalityType
  <2>2. CASE x \in A
    BY <2>1, <2>2, FS_RemoveElement, FS_CardinalityType
  <2>3. CASE x \notin A
    <3>1. rest = A
      BY <2>3
    <3>2. Cardinality(rest) = Cardinality(A)
      BY <3>1
    <3> HIDE DEF rest
    <3> QED BY <2>1, <2>3, <3>2 DEF rest
  <2> QED BY <2>1, <2>2, <2>3
<1>2. IsFiniteSet(B) /\ Cardinality(B) = Cardinality(rest) + (IF x \in B THEN 1 ELSE 0)
  <2>1. CASE x \in B
    <3>1. B = rest \cup {x}
      BY <2>1
    <3> HIDE DEF rest
    <3> QED BY <1>1, <2>1, <3>1, FS_AddElement
  <2>2. CASE x \notin B
    <3>1. B = rest
      BY <2>2
    <3> QED BY <1>1, <2>2, <3>1
  <2> QED BY <2>1, <2>2
<1> QED BY ONLY <1>1, <1>2

\* The positions that k items before them leave to a set of positions.
LEMMA ShiftedPositions ==
  ASSUME NEW A \in SUBSET Nat, NEW B \in SUBSET Nat, NEW k \in Nat, IsFiniteSet(B),
         \A i \in A : i + k \in B,
         \A i \in B : i - k \in A
  PROVE  Cardinality(A) = Cardinality(B)
<1> DEFINE f == [i \in B |-> i - k]
<1>1. f \in [B -> A]
  OBVIOUS
<1>2. \A i, j \in B : f[i] = f[j] => i = j
  OBVIOUS
<1>3. \A j \in A : \E i \in B : f[i] = j
  OBVIOUS
<1>4. f \in Bijection(B, A)
  <2> HIDE DEF f
  <2> QED BY <1>1, <1>2, <1>3, Fun_IsBij
<1>5. ExistsBijection(B, A)
  BY <1>4 DEF ExistsBijection
<1> QED BY <1>5, FS_Bijection

\* A set of positions that holds with a position all before it is an interval.
LEMMA InitialSegment ==
  ASSUME NEW n \in Nat, NEW S \in SUBSET (1 .. n),
         \A i \in S : 1 .. i \subseteq S
  PROVE  /\ Cardinality(S) \in 0 .. n
         /\ S = 1 .. Cardinality(S)
<1> DEFINE c == Cardinality(S)
<1>1. IsFiniteSet(S) /\ c \in Nat /\ c <= n
  <2>1. IsFiniteSet(1 .. n) /\ Cardinality(1 .. n) = n
    BY FS_Interval
  <2> QED BY <2>1, FS_Subset, FS_CardinalityType, ZenonT(40)
<1>2. \A k \in Nat : 1 .. k \subseteq S => k <= c
  <2> SUFFICES ASSUME NEW k \in Nat, 1 .. k \subseteq S PROVE k <= c
    OBVIOUS
  <2>1. Cardinality(1 .. k) = k
    BY FS_Interval
  <2> QED BY <1>1, <2>1, FS_Subset
<1>3. S \subseteq 1 .. c
  BY <1>1, <1>2
<1>4. S = 1 .. c
  <2>1. IsFiniteSet(1 .. c) /\ Cardinality(1 .. c) = c
    BY <1>1, FS_Interval
  <2> QED BY <1>3, <2>1, FS_Subset
<1> QED BY <1>1, <1>4

\* Of a set of positions, those with a rank up to n are at most n.
LEMMA RankedFew ==
  ASSUME NEW A \in SUBSET Nat, IsFiniteSet(A), NEW n \in Nat, NEW C \in SUBSET A,
         \A i \in C : Cardinality({j \in A : j <= i}) <= n
  PROVE  IsFiniteSet(C) /\ Cardinality(C) \in Nat /\ Cardinality(C) <= n
<1> DEFINE upTo(i) == {j \in A : j <= i}
           rank == [i \in C |-> Cardinality(upTo(i))]
<1>1. \A i \in C : IsFiniteSet(upTo(i)) /\ Cardinality(upTo(i)) \in Nat
  BY FS_Subset, FS_CardinalityType
<1>2. \A i, k \in C : i < k => Cardinality(upTo(i)) < Cardinality(upTo(k))
  <2> SUFFICES ASSUME NEW i \in C, NEW k \in C, i < k
               PROVE  Cardinality(upTo(i)) < Cardinality(upTo(k))
    OBVIOUS
  <2>1. upTo(i) \in SUBSET upTo(k) /\ k \in upTo(k) /\ k \notin upTo(i)
    <3>1. i \in Nat /\ k \in Nat /\ \A j \in A : j \in Nat /\ (j <= i => j <= k)
      OBVIOUS
    <3>2. k \in A /\ k <= k /\ ~(k <= i)
      BY <3>1
    <3> QED BY <3>1, <3>2
  <2> HIDE DEF upTo
  <2>2. upTo(i) # upTo(k)
    BY <2>1
  <2>3. /\ Cardinality(upTo(i)) <= Cardinality(upTo(k))
        /\ Cardinality(upTo(i)) # Cardinality(upTo(k))
    BY <1>1, <2>1, <2>2, FS_Subset
  <2> QED BY <1>1, <2>3
<1>3. \A i \in C : Cardinality(upTo(i)) \in 1 .. n
  <2> SUFFICES ASSUME NEW i \in C PROVE Cardinality(upTo(i)) \in 1 .. n
    OBVIOUS
  <2>1. upTo(i) # {}
    OBVIOUS
  <2>2. Cardinality(upTo(i)) <= n
    BY Zenon
  <2> HIDE DEF upTo
  <2>3. Cardinality(upTo(i)) # 0
    BY <1>1, <2>1, FS_EmptySet
  <2> QED BY <1>1, <2>2, <2>3
<1> HIDE DEF upTo
<1>4. rank \in [C -> 1 .. n]
  BY <1>3
<1>5. \A i, k \in C : rank[i] = rank[k] => i = k
  <2>1. \A i, k \in C : i < k \/ k < i \/ i = k
    OBVIOUS
  <2> QED BY <1>1, <1>2, <2>1
<1> HIDE DEF rank
<1>6. rank \in Injection(C, 1 .. n)
  BY <1>4, <1>5, Fun_IsInj
<1>7. IsFiniteSet(1 .. n) /\ Cardinality(1 .. n) = n
  BY IntervalSize
<1> QED BY <1>6, <1>7, FS_Injection, FS_CardinalityType

\* No more items than positions they are at.
LEMMA ItemsFew ==
  ASSUME NEW f, NEW C \in SUBSET (DOMAIN f), IsFiniteSet(C)
  PROVE  /\ IsFiniteSet({f[i] : i \in C})
         /\ Cardinality({f[i] : i \in C}) \in Nat
         /\ Cardinality({f[i] : i \in C}) <= Cardinality(C)
<1> DEFINE T == {f[i] : i \in C}
           g == [i \in C |-> f[i]]
<1>1. g \in [C -> T] /\ \A t \in T : \E i \in C : g[i] = t
  OBVIOUS
<1> HIDE DEF g, T
<1>2. g \in Surjection(C, T)
  BY <1>1, Fun_IsSurj
<1>3. IsFiniteSet(T) /\ Cardinality(T) \in Nat /\ Cardinality(T) <= Cardinality(C)
  BY <1>2, FS_Surjection, FS_CardinalityType
<1> QED BY <1>3 DEF T

-----------------------------------------------------------------------------
\* Two sets whose members pair off have one size.
LEMMA SameSize ==
  ASSUME NEW A, NEW B, NEW f, IsFiniteSet(A), f \in [A -> B],
         \A x, y \in A : f[x] = f[y] => x = y,
         \A z \in B : \E x \in A : f[x] = z
  PROVE  IsFiniteSet(B) /\ Cardinality(B) = Cardinality(A)
<1>1. f \in Bijection(A, B)
  BY Fun_IsBij
<1>2. ExistsBijection(A, B)
  BY <1>1 DEF ExistsBijection
<1> QED BY <1>2, FS_Bijection

LEMMA UnitsMembers ==
  ASSUME NEW a
  PROVE  \A u : u \in UnitsOf(a) <=>
                  u = <<u[1], u[2]>> /\ u[1] \in DOMAIN a /\ u[2] \in 1 .. a[u[1]]
BY DEF UnitsOf

\* Finitely many finite sets have a finite union.
LEMMA FiniteUnion ==
  ASSUME NEW S, IsFiniteSet(DOMAIN S), \A y \in DOMAIN S : IsFiniteSet(S[y])
  PROVE  IsFiniteSet(UNION {S[y] : y \in DOMAIN S})
<1> DEFINE T == {S[y] : y \in DOMAIN S}
           g == [y \in DOMAIN S |-> S[y]]
<1>1. g \in [DOMAIN S -> T] /\ \A t \in T : \E y \in DOMAIN S : g[y] = t
  OBVIOUS
<1>2. \A t \in T : IsFiniteSet(t)
  OBVIOUS
<1> HIDE DEF g, T
<1>3. g \in Surjection(DOMAIN S, T)
  BY <1>1, Fun_IsSurj
<1>4. IsFiniteSet(T)
  BY <1>3, FS_Surjection
<1>5. IsFiniteSet(UNION T)
  BY <1>2, <1>4, FS_UNION
<1> QED BY <1>5 DEF T

LEMMA FiniteImage ==
  ASSUME NEW f, IsFiniteSet(DOMAIN f)
  PROVE  IsFiniteSet({f[x] : x \in DOMAIN f})
<1> DEFINE S == [x \in DOMAIN f |-> {f[x]}]
<1>1. \A x \in DOMAIN S : IsFiniteSet(S[x])
  BY FS_Singleton
<1>2. DOMAIN S = DOMAIN f /\ {f[x] : x \in DOMAIN f} = UNION {S[x] : x \in DOMAIN S}
  OBVIOUS
<1> HIDE DEF S
<1> QED BY <1>1, <1>2, FiniteUnion

\* A sum of finitely many numbers is a number.
LEMMA SumType ==
  ASSUME NEW a, IsFiniteSet(DOMAIN a), \A x \in DOMAIN a : a[x] \in Nat
  PROVE  IsFiniteSet(UnitsOf(a)) /\ TotalOf(a) \in Nat
<1> DEFINE S == [x \in DOMAIN a |-> {x} \X (1 .. a[x])]
<1>1. \A x \in DOMAIN S : IsFiniteSet(S[x])
  <2> SUFFICES ASSUME NEW x \in DOMAIN a PROVE IsFiniteSet({x} \X (1 .. a[x]))
    OBVIOUS
  <2>1. IsFiniteSet({x}) /\ IsFiniteSet(1 .. a[x])
    BY FS_Singleton, IntervalSize
  <2> QED BY <2>1, FS_Product
<1>2. UnitsOf(a) = UNION {S[x] : x \in DOMAIN S} /\ DOMAIN S = DOMAIN a
  BY DEF UnitsOf
<1> HIDE DEF S
<1>3. IsFiniteSet(UnitsOf(a))
  BY <1>1, <1>2, FiniteUnion
<1> QED BY <1>3, FS_CardinalityType DEF TotalOf

\* The size of a union of disjoint sets is the sum of their sizes.
LEMMA DisjointUnionSize ==
  ASSUME NEW S, IsFiniteSet(DOMAIN S), \A y \in DOMAIN S : IsFiniteSet(S[y]),
         \A y, z \in DOMAIN S : y # z => S[y] \cap S[z] = {}
  PROVE  /\ IsFiniteSet(UNION {S[y] : y \in DOMAIN S})
         /\ Cardinality(UNION {S[y] : y \in DOMAIN S})
              = TotalOf([y \in DOMAIN S |-> Cardinality(S[y])])
<1> DEFINE size == [y \in DOMAIN S |-> Cardinality(S[y])]
           item == [y \in DOMAIN S |-> CHOOSE g : g \in Bijection(1 .. Cardinality(S[y]), S[y])]
           all  == UNION {S[y] : y \in DOMAIN S}
           f    == [u \in UnitsOf(size) |-> item[u[1]][u[2]]]
<1>1. ASSUME NEW y \in DOMAIN S
      PROVE  /\ size[y] \in Nat
             /\ \A k \in 1 .. size[y] : item[y][k] \in S[y]
             /\ \A j, k \in 1 .. size[y] : item[y][j] = item[y][k] => j = k
             /\ \A s \in S[y] : \E k \in 1 .. size[y] : item[y][k] = s
  <2>1. Cardinality(S[y]) \in Nat /\ ExistsBijection(1 .. Cardinality(S[y]), S[y])
    BY FS_CardinalityType
  <2>2. \E g : g \in Bijection(1 .. Cardinality(S[y]), S[y])
    BY <2>1 DEF ExistsBijection
  <2>3. item[y] \in Bijection(1 .. Cardinality(S[y]), S[y]) /\ size[y] = Cardinality(S[y])
    BY <2>2
  <2> HIDE DEF item, size
  <2>4. item[y] \in Bijection(1 .. size[y], S[y])
    BY <2>3
  <2>a. PICK g : g = item[y]
    OBVIOUS
  <2>b. PICK n : n = size[y]
    OBVIOUS
  <2>i. PICK I : I = 1 .. n
    OBVIOUS
  <2>c. g \in Bijection(I, S[y])
    BY <2>4, <2>a, <2>b, <2>i
  <2>d. g \in [I -> S[y]]
    BY <2>c, Fun_BijectionProperties
  <2>e. \A j, k \in I : g[j] = g[k] => j = k
    BY <2>c, Fun_BijectionProperties
  <2>f. \A s \in S[y] : \E k \in I : g[k] = s
    BY <2>c, Fun_BijectionProperties
  <2>5. /\ item[y] \in [1 .. size[y] -> S[y]]
        /\ \A j, k \in 1 .. size[y] : item[y][j] = item[y][k] => j = k
        /\ \A s \in S[y] : \E k \in 1 .. size[y] : item[y][k] = s
    BY <2>a, <2>b, <2>d, <2>e, <2>f, <2>i
  <2> QED BY <2>1, <2>3, <2>5
<1>2. /\ DOMAIN size = DOMAIN S
      /\ \A u \in UnitsOf(size) : f[u] = item[u[1]][u[2]]
      /\ \A s : s \in all <=> \E y \in DOMAIN S : s \in S[y]
      /\ DOMAIN f = UnitsOf(size) /\ f = [u \in UnitsOf(size) |-> f[u]]
  OBVIOUS
<1> HIDE DEF item, size, f, all
<1>3. \A u \in UnitsOf(size) : /\ u = <<u[1], u[2]>>
                               /\ u[1] \in DOMAIN S
                               /\ u[2] \in 1 .. size[u[1]]
                               /\ f[u] \in S[u[1]]
  BY <1>1, <1>2, UnitsMembers
<1>4. f \in [UnitsOf(size) -> all]
  BY <1>2, <1>3
<1>5. ASSUME NEW u \in UnitsOf(size), NEW v \in UnitsOf(size), f[u] = f[v]
      PROVE  u = v
  <2>1. u[1] = v[1]
    BY <1>3, <1>5
  <2>2. item[u[1]][u[2]] = item[u[1]][v[2]]
    BY <1>2, <1>5, <2>1
  <2>3. u[2] = v[2]
    BY <1>1, <1>3, <2>1, <2>2
  <2> QED BY <1>3, <2>1, <2>3
<1>6. ASSUME NEW s \in all PROVE \E u \in UnitsOf(size) : f[u] = s
  <2>1. PICK y \in DOMAIN S : s \in S[y]
    BY <1>2
  <2>2. PICK k \in 1 .. size[y] : item[y][k] = s
    BY <1>1, <2>1
  <2>3. <<y, k>> \in UnitsOf(size)
    BY <1>2, <2>2, UnitsMembers
  <2> QED BY <1>2, <2>2, <2>3
<1>7. IsFiniteSet(UnitsOf(size)) /\ TotalOf(size) = Cardinality(UnitsOf(size))
  BY <1>1, <1>2, SumType DEF TotalOf
<1>8. IsFiniteSet(all) /\ Cardinality(all) = TotalOf(size)
  BY <1>4, <1>5, <1>6, <1>7, SameSize
<1> QED BY <1>8 DEF all, size

\* A list of sets parts a set, and sizes and sums part by part.
Parts(P, N, D) ==
  /\ IsFiniteSet(N) /\ P = [y \in N |-> P[y]]
  /\ \A y \in N : P[y] \subseteq D
  /\ \A y, z \in N : y # z => P[y] \cap P[z] = {}
  /\ \A i \in D : \E y \in N : i \in P[y]
SizeByParts(P, N)   == TotalOf([y \in N |-> Cardinality(P[y])])
SumByParts(a, P, N) == TotalOf([y \in N |-> TotalOf([i \in P[y] |-> a[i]])])
Amounts(a)          == IsFiniteSet(DOMAIN a) /\ \A i \in DOMAIN a : a[i] \in Nat

\* The members of a list of sets, by the set and by the whole.
LEMMA PartSizes ==
  ASSUME NEW D, IsFiniteSet(D), NEW N, NEW P, Parts(P, N, D)
  PROVE  Cardinality(D) = SizeByParts(P, N)
<1> USE DEF Parts, SizeByParts
<1>1. DOMAIN P = N
  OBVIOUS
<1>2. \A y \in N : IsFiniteSet(P[y])
  BY FS_Subset
<1>3. D = UNION {P[y] : y \in N}
  OBVIOUS
<1>4. Cardinality(UNION {P[y] : y \in DOMAIN P}) = TotalOf([y \in DOMAIN P |-> Cardinality(P[y])])
  BY <1>1, <1>2, DisjointUnionSize
<1> QED BY <1>1, <1>3, <1>4

\* The sum over all items is the sum over the parts of what each part adds up to.
LEMMA PartSums ==
  ASSUME NEW a, Amounts(a), NEW N, NEW P, Parts(P, N, DOMAIN a)
  PROVE  TotalOf(a) = SumByParts(a, P, N)
<1> USE DEF Parts, Amounts
<1> DEFINE part(y) == [i \in P[y] |-> a[i]]
           S == [y \in N |-> UnitsOf(part(y))]
<1>1. ASSUME NEW y \in N
      PROVE  /\ IsFiniteSet(UnitsOf(part(y)))
             /\ \A u : u \in UnitsOf(part(y)) <=> u[1] \in P[y] /\ u \in UnitsOf(a)
  <2>1. /\ DOMAIN part(y) = P[y]
        /\ \A i \in P[y] : part(y)[i] = a[i] /\ i \in DOMAIN a
    OBVIOUS
  <2>2. IsFiniteSet(P[y])
    BY FS_Subset
  <2> HIDE DEF part
  <2>3. IsFiniteSet(UnitsOf(part(y)))
    BY <2>1, <2>2, SumType
  <2>4. \A u : u \in UnitsOf(part(y)) <=>
                 u = <<u[1], u[2]>> /\ u[1] \in P[y] /\ u[2] \in 1 .. a[u[1]]
    BY <2>1, UnitsMembers
  <2>5. \A u : u \in UnitsOf(a) <=>
                 u = <<u[1], u[2]>> /\ u[1] \in DOMAIN a /\ u[2] \in 1 .. a[u[1]]
    BY UnitsMembers
  <2> QED BY <2>1, <2>3, <2>4, <2>5
<1>2. \A u \in UnitsOf(a) : u[1] \in DOMAIN a
  BY UnitsMembers
<1>3. /\ DOMAIN S = N
      /\ \A y \in N : S[y] = UnitsOf(part(y))
  OBVIOUS
<1> HIDE DEF part
<1>4. UnitsOf(a) = UNION {S[y] : y \in N}
  <2> HIDE DEF S
  <2> QED BY <1>1, <1>2, <1>3
<1>5. /\ \A y \in DOMAIN S : IsFiniteSet(S[y])
      /\ \A y, z \in DOMAIN S : y # z => S[y] \cap S[z] = {}
  <2> HIDE DEF S
  <2> QED BY <1>1, <1>3
<1>6. Cardinality(UNION {S[y] : y \in DOMAIN S}) = TotalOf([y \in DOMAIN S |-> Cardinality(S[y])])
  <2> HIDE DEF S
  <2> QED BY <1>3, <1>5, DisjointUnionSize
<1>7. [y \in DOMAIN S |-> Cardinality(S[y])] = [y \in N |-> TotalOf(part(y))]
  BY DEF TotalOf
<1> HIDE DEF S
<1>8. TotalOf(a) = TotalOf([y \in N |-> TotalOf(part(y))])
  <2>1. TotalOf(a) = Cardinality(UNION {S[y] : y \in DOMAIN S})
    BY <1>3, <1>4 DEF TotalOf
  <2> QED BY <1>6, <1>7, <2>1
<1> QED BY <1>8 DEF part, SumByParts

\* Sums of the same amounts, up to the names of the items.
LEMMA SumRenamed ==
  ASSUME NEW a, NEW b, IsFiniteSet(DOMAIN a), \A x \in DOMAIN a : a[x] \in Nat,
         NEW f, f \in [DOMAIN a -> DOMAIN b],
         \A x, y \in DOMAIN a : f[x] = f[y] => x = y,
         \A z \in DOMAIN b : \E x \in DOMAIN a : f[x] = z,
         \A x \in DOMAIN a : b[f[x]] = a[x]
  PROVE  TotalOf(b) = TotalOf(a)
<1> DEFINE g == [u \in UnitsOf(a) |-> <<f[u[1]], u[2]>>]
<1>1. \A u : u \in UnitsOf(a) <=> u = <<u[1], u[2]>> /\ u[1] \in DOMAIN a /\ u[2] \in 1 .. a[u[1]]
  BY UnitsMembers
<1>2. \A u : u \in UnitsOf(b) <=> u = <<u[1], u[2]>> /\ u[1] \in DOMAIN b /\ u[2] \in 1 .. b[u[1]]
  BY UnitsMembers
<1>3. \A u \in UnitsOf(a) : <<f[u[1]], u[2]>> \in UnitsOf(b)
  BY <1>1, <1>2
<1>4. g \in [UnitsOf(a) -> UnitsOf(b)]
  BY <1>3
<1>5. \A u, v \in UnitsOf(a) : g[u] = g[v] => u = v
  <2> SUFFICES ASSUME NEW u \in UnitsOf(a), NEW v \in UnitsOf(a), g[u] = g[v] PROVE u = v
    OBVIOUS
  <2>1. f[u[1]] = f[v[1]] /\ u[2] = v[2]
    OBVIOUS
  <2>2. u[1] \in DOMAIN a /\ v[1] \in DOMAIN a
    BY <1>1
  <2>3. u[1] = v[1]
    BY <2>1, <2>2
  <2> QED BY <1>1, <2>1, <2>3
<1>6. \A v \in UnitsOf(b) : \E u \in UnitsOf(a) : g[u] = v
  <2> SUFFICES ASSUME NEW v \in UnitsOf(b) PROVE \E u \in UnitsOf(a) : g[u] = v
    OBVIOUS
  <2>1. v = <<v[1], v[2]>> /\ v[1] \in DOMAIN b /\ v[2] \in 1 .. b[v[1]]
    BY <1>2
  <2>2. PICK x \in DOMAIN a : f[x] = v[1]
    BY <2>1
  <2>3. <<x, v[2]>> \in UnitsOf(a)
    BY <1>1, <2>1, <2>2
  <2> QED BY <2>1, <2>2, <2>3
<1>7. IsFiniteSet(UnitsOf(a))
  BY SumType
<1> HIDE DEF g
<1> QED BY <1>4, <1>5, <1>6, <1>7, SameSize DEF TotalOf

\* Smaller amounts of fewer items have a smaller sum.
LEMMA SumMonotone ==
  ASSUME NEW a, NEW b, IsFiniteSet(DOMAIN b), \A x \in DOMAIN b : b[x] \in Nat,
         DOMAIN a \subseteq DOMAIN b,
         \A x \in DOMAIN a : a[x] \in Nat /\ a[x] <= b[x]
  PROVE  TotalOf(a) \in Nat /\ TotalOf(b) \in Nat /\ TotalOf(a) <= TotalOf(b)
<1>1. \A u \in UnitsOf(a) : u \in UnitsOf(b)
  <2>1. \A x \in DOMAIN a : \A k \in 1 .. a[x] : k \in 1 .. b[x]
    OBVIOUS
  <2> QED BY <2>1, UnitsMembers
<1>2. IsFiniteSet(UnitsOf(b))
  BY SumType
<1>3. UnitsOf(a) \in SUBSET UnitsOf(b)
  BY <1>1
<1> QED BY <1>2, <1>3, FS_Subset, FS_CardinalityType DEF TotalOf

\* Items with an amount of 0 may be left out of a sum.
LEMMA SumWithoutZeros ==
  ASSUME NEW a, NEW b, DOMAIN a \subseteq DOMAIN b,
         \A x \in DOMAIN a : a[x] = b[x],
         \A x \in DOMAIN b : x \notin DOMAIN a => b[x] = 0
  PROVE  TotalOf(a) = TotalOf(b)
<1>1. \A x \in DOMAIN b : x \notin DOMAIN a => 1 .. b[x] = {}
  OBVIOUS
<1>2. \A u : u \in UnitsOf(a) <=> u \in UnitsOf(b)
  BY <1>1, UnitsMembers
<1> QED BY <1>2 DEF TotalOf

\* A sum of one item.
LEMMA SumOfOne ==
  ASSUME NEW x, NEW n \in Nat
  PROVE  TotalOf([y \in {x} |-> n]) = n
<1>1. UnitsOf([y \in {x} |-> n]) = {x} \X (1 .. n)
  BY DEF UnitsOf
<1>2. IsFiniteSet({x}) /\ Cardinality({x}) = 1 /\ IsFiniteSet(1 .. n) /\ Cardinality(1 .. n) = n
  BY FS_Singleton, IntervalSize
<1>3. Cardinality({x} \X (1 .. n)) = 1 * n
  BY <1>2, FS_Product
<1> QED BY <1>1, <1>3 DEF TotalOf

\* A sum of equal amounts, and no sum at all.
LEMMA SumOfEqual ==
  ASSUME NEW S, IsFiniteSet(S), NEW c \in Nat
  PROVE  TotalOf([x \in S |-> c]) = c * Cardinality(S)
<1>1. UnitsOf([x \in S |-> c]) = S \X (1 .. c)
  BY DEF UnitsOf
<1>2. IsFiniteSet(1 .. c) /\ Cardinality(1 .. c) = c
  BY IntervalSize
<1>3. Cardinality(S \X (1 .. c)) = Cardinality(S) * Cardinality(1 .. c)
  BY <1>2, FS_Product, Zenon
<1>4. Cardinality(S) \in Nat
  BY FS_CardinalityType
<1>5. PICK n \in Nat : n = Cardinality(S)
  BY <1>4
<1>6. n * c = c * n
  OBVIOUS
<1> QED BY <1>1, <1>2, <1>3, <1>5, <1>6 DEF TotalOf

LEMMA SumOfNothing ==
  ASSUME NEW a, DOMAIN a = {}
  PROVE  TotalOf(a) = 0
<1>1. UnitsOf(a) = {}
  BY UnitsMembers
<1> QED BY <1>1, FS_EmptySet DEF TotalOf

\* A sum over two sets of items.
SumOver(a, S) == TotalOf([x \in S |-> a[x]])
LEMMA SumSplit ==
  ASSUME NEW a, Amounts(a), NEW S, NEW T, S \cup T = DOMAIN a, S \cap T = {}
  PROVE  /\ SumOver(a, S) \in Nat /\ SumOver(a, T) \in Nat
         /\ TotalOf(a) = SumOver(a, S) + SumOver(a, T)
<1> DEFINE b == [x \in S |-> a[x]]
           c == [x \in T |-> a[x]]
<1>1. /\ DOMAIN b = S /\ \A x \in S : b[x] = a[x] /\ x \in DOMAIN a
      /\ DOMAIN c = T /\ \A x \in T : c[x] = a[x] /\ x \in DOMAIN a
  OBVIOUS
<1>2. IsFiniteSet(S) /\ IsFiniteSet(T)
  <2>1. S \in SUBSET DOMAIN a /\ T \in SUBSET DOMAIN a
    OBVIOUS
  <2> QED BY <2>1, FS_Subset DEF Amounts
<1> HIDE DEF b, c
<1>3. /\ IsFiniteSet(UnitsOf(b)) /\ TotalOf(b) \in Nat
      /\ IsFiniteSet(UnitsOf(c)) /\ TotalOf(c) \in Nat
  BY <1>1, <1>2, SumType DEF Amounts
<1>4. /\ \A u : u \in UnitsOf(a) <=> u = <<u[1], u[2]>> /\ u[1] \in DOMAIN a /\ u[2] \in 1 .. a[u[1]]
      /\ \A u : u \in UnitsOf(b) <=> u = <<u[1], u[2]>> /\ u[1] \in S /\ u[2] \in 1 .. a[u[1]]
      /\ \A u : u \in UnitsOf(c) <=> u = <<u[1], u[2]>> /\ u[1] \in T /\ u[2] \in 1 .. a[u[1]]
  BY <1>1, UnitsMembers
<1>5. UnitsOf(a) = UnitsOf(b) \cup UnitsOf(c) /\ UnitsOf(b) \cap UnitsOf(c) = {}
  BY <1>4
<1>6. Cardinality(UnitsOf(a)) = Cardinality(UnitsOf(b)) + Cardinality(UnitsOf(c))
  BY <1>3, <1>5, DisjointSizes
<1> QED BY <1>3, <1>6 DEF TotalOf, SumOver, b, c

\* A common factor.
LEMMA SumScaled ==
  ASSUME NEW a, IsFiniteSet(DOMAIN a), \A x \in DOMAIN a : a[x] \in Nat, NEW c \in Nat
  PROVE  TotalOf([x \in DOMAIN a |-> c * a[x]]) = c * TotalOf(a)
<1> DEFINE U(x) == {u \in UnitsOf(a) : u[1] = x}
           S == [x \in DOMAIN a |-> (1 .. c) \X U(x)]
<1>1. IsFiniteSet(UnitsOf(a))
  BY SumType
<1>2. ASSUME NEW x \in DOMAIN a
      PROVE  IsFiniteSet(S[x]) /\ Cardinality(S[x]) = c * a[x]
  <2>1. U(x) = {x} \X (1 .. a[x])
    BY UnitsMembers
  <2>2. IsFiniteSet({x}) /\ Cardinality({x}) = 1 /\ IsFiniteSet(1 .. a[x]) /\ Cardinality(1 .. a[x]) = a[x]
    BY FS_Singleton, IntervalSize
  <2>3. IsFiniteSet({x} \X (1 .. a[x])) /\ Cardinality({x} \X (1 .. a[x])) = 1 * a[x]
    BY <2>2, FS_Product, ZenonT(40)
  <2>4. S[x] = (1 .. c) \X U(x)
    OBVIOUS
  <2>i. PICK I : I = 1 .. c
    OBVIOUS
  <2>5. IsFiniteSet(I) /\ Cardinality(I) = c
    BY <2>i, IntervalSize
  <2> HIDE DEF U, S
  <2>6. IsFiniteSet(U(x)) /\ Cardinality(U(x)) = a[x]
    BY <2>1, <2>3
  <2>7. IsFiniteSet(I \X U(x)) /\ Cardinality(I \X U(x)) = Cardinality(I) * Cardinality(U(x))
    BY <2>5, <2>6, FS_Product, Zenon
  <2> QED BY <2>4, <2>5, <2>6, <2>7, <2>i
<1>3. \A x, y \in DOMAIN S : x # y => S[x] \cap S[y] = {}
  OBVIOUS
<1>4. UNION {S[x] : x \in DOMAIN S} = (1 .. c) \X UnitsOf(a)
  <2>1. \A u \in UnitsOf(a) : u[1] \in DOMAIN a
    BY UnitsMembers
  <2> QED BY <2>1
<1>5. [x \in DOMAIN S |-> Cardinality(S[x])] = [x \in DOMAIN a |-> c * a[x]]
  BY <1>2
<1>6. Cardinality((1 .. c) \X UnitsOf(a)) = c * TotalOf(a)
  <2>1. IsFiniteSet(1 .. c) /\ Cardinality(1 .. c) = c
    BY IntervalSize
  <2>2. Cardinality((1 .. c) \X UnitsOf(a)) = Cardinality(1 .. c) * Cardinality(UnitsOf(a))
    BY <1>1, <2>1, FS_Product, ZenonT(40)
  <2> QED BY <2>1, <2>2 DEF TotalOf
<1>7. DOMAIN S = DOMAIN a
  OBVIOUS
<1> HIDE DEF S
<1>8. Cardinality(UNION {S[x] : x \in DOMAIN S}) = TotalOf([x \in DOMAIN S |-> Cardinality(S[x])])
  BY <1>2, <1>3, <1>7, DisjointUnionSize
<1> QED BY <1>4, <1>5, <1>6, <1>8

\* Rows first or columns first: one sum.
RowsFirst(D, E, m)    == TotalOf([i \in D |-> TotalOf([j \in E |-> m[i][j]])])
ColumnsFirst(D, E, m) == TotalOf([j \in E |-> TotalOf([i \in D |-> m[i][j]])])
LEMMA SumsCommute ==
  ASSUME NEW D, IsFiniteSet(D), NEW E, IsFiniteSet(E), NEW m,
         \A i \in D, j \in E : m[i][j] \in Nat
  PROVE  RowsFirst(D, E, m) = ColumnsFirst(D, E, m)
<1> DEFINE all == [p \in D \X E |-> m[p[1]][p[2]]]
           rows == [i \in D |-> {i} \X E]
           cols == [j \in E |-> D \X {j}]
<1>1. IsFiniteSet(D \X E)
  BY FS_Product
<1>2. \A p \in D \X E : all[p] = m[p[1]][p[2]] /\ all[p] \in Nat
  OBVIOUS
<1>3. TotalOf(all) = TotalOf([i \in D |-> TotalOf([p \in rows[i] |-> all[p]])])
  <2>1. /\ \A i \in D : rows[i] \subseteq DOMAIN all
        /\ \A i, j \in D : i # j => rows[i] \cap rows[j] = {}
        /\ \A p \in DOMAIN all : \E i \in D : p \in rows[i]
        /\ rows = [i \in D |-> rows[i]]
    OBVIOUS
  <2>2. IsFiniteSet(DOMAIN all) /\ \A p \in DOMAIN all : all[p] \in Nat
    BY <1>1, <1>2
  <2> HIDE DEF all, rows
  <2> QED BY ONLY <2>1, <2>2, IsFiniteSet(D), IsFiniteSet(E), PartSums DEF Parts, Amounts, SumByParts
<1>4. TotalOf(all) = TotalOf([j \in E |-> TotalOf([p \in cols[j] |-> all[p]])])
  <2>1. /\ \A i \in E : cols[i] \subseteq DOMAIN all
        /\ \A i, j \in E : i # j => cols[i] \cap cols[j] = {}
        /\ \A p \in DOMAIN all : \E i \in E : p \in cols[i]
        /\ cols = [i \in E |-> cols[i]]
    OBVIOUS
  <2>2. IsFiniteSet(DOMAIN all) /\ \A p \in DOMAIN all : all[p] \in Nat
    BY <1>1, <1>2
  <2> HIDE DEF all, cols
  <2> QED BY ONLY <2>1, <2>2, IsFiniteSet(D), IsFiniteSet(E), PartSums DEF Parts, Amounts, SumByParts
<1>5. ASSUME NEW i \in D
      PROVE  TotalOf([p \in rows[i] |-> all[p]]) = TotalOf([j \in E |-> m[i][j]])
  <2> DEFINE a == [j \in E |-> m[i][j]]
             b == [p \in rows[i] |-> all[p]]
             f == [j \in E |-> <<i, j>>]
  <2>0. \A x \in E : /\ f[x] = <<i, x>> /\ f[x] \in rows[i] /\ f[x] \in D \X E
                     /\ a[x] = m[i][x] /\ b[f[x]] = all[f[x]]
    OBVIOUS
  <2>a. \A x \in E : all[f[x]] = m[i][x]
    BY <2>0
  <2>1. /\ DOMAIN a = E /\ f \in [DOMAIN a -> DOMAIN b]
        /\ \A x \in DOMAIN a : a[x] \in Nat /\ b[f[x]] = a[x]
        /\ \A x, y \in DOMAIN a : f[x] = f[y] => x = y
        /\ \A z \in DOMAIN b : \E x \in DOMAIN a : f[x] = z
    BY <2>0, <2>a
  <2> HIDE DEF a, b, f
  <2>2. TotalOf(b) = TotalOf(a)
    BY <2>1, SumRenamed
  <2> QED BY <2>2 DEF a, b
<1>6. ASSUME NEW j \in E
      PROVE  TotalOf([p \in cols[j] |-> all[p]]) = TotalOf([i \in D |-> m[i][j]])
  <2> DEFINE a == [i \in D |-> m[i][j]]
             b == [p \in cols[j] |-> all[p]]
             f == [i \in D |-> <<i, j>>]
  <2>0. \A x \in D : /\ f[x] = <<x, j>> /\ f[x] \in cols[j] /\ f[x] \in D \X E
                     /\ a[x] = m[x][j] /\ b[f[x]] = all[f[x]]
    OBVIOUS
  <2>a. \A x \in D : all[f[x]] = m[x][j]
    BY <2>0
  <2>1. /\ DOMAIN a = D /\ f \in [DOMAIN a -> DOMAIN b]
        /\ \A x \in DOMAIN a : a[x] \in Nat /\ b[f[x]] = a[x]
        /\ \A x, y \in DOMAIN a : f[x] = f[y] => x = y
        /\ \A z \in DOMAIN b : \E x \in DOMAIN a : f[x] = z
    BY <2>0, <2>a
  <2> HIDE DEF a, b, f
  <2>2. TotalOf(b) = TotalOf(a)
    BY <2>1, SumRenamed
  <2> QED BY <2>2 DEF a, b
<1> HIDE DEF all, rows, cols
<1>7. [i \in D |-> TotalOf([p \in rows[i] |-> all[p]])] = [i \in D |-> TotalOf([j \in E |-> m[i][j]])]
  BY <1>5
<1>8. [j \in E |-> TotalOf([p \in cols[j] |-> all[p]])] = [j \in E |-> TotalOf([i \in D |-> m[i][j]])]
  BY <1>6
<1> QED BY <1>3, <1>4, <1>7, <1>8 DEF RowsFirst, ColumnsFirst

\* A relation has as many pairs counted by its first items as by its second.
ByFirst(D, T, R)  == TotalOf([i \in D |-> Cardinality({t \in T : <<i, t>> \in R})])
BySecond(D, T, R) == TotalOf([t \in T |-> Cardinality({i \in D : <<i, t>> \in R})])
LEMMA PairsBothWays ==
  ASSUME NEW D, IsFiniteSet(D), NEW T, IsFiniteSet(T), NEW R
  PROVE  ByFirst(D, T, R) = BySecond(D, T, R)
<1> DEFINE all  == {p \in D \X T : p \in R}
           rows == [i \in D |-> {p \in all : p[1] = i}]
           cols == [t \in T |-> {p \in all : p[2] = t}]
<1>1. IsFiniteSet(all)
  <2>1. IsFiniteSet(D \X T)
    BY FS_Product
  <2> QED BY <2>1, FS_Subset
<1>2. Cardinality(all) = TotalOf([i \in D |-> Cardinality(rows[i])])
  <2>1. /\ \A i \in D : rows[i] \subseteq all
        /\ \A i, j \in D : i # j => rows[i] \cap rows[j] = {}
        /\ \A p \in all : \E i \in D : p \in rows[i]
        /\ rows = [i \in D |-> rows[i]]
    OBVIOUS
  <2> HIDE DEF all, rows
  <2> QED BY <1>1, <2>1, PartSizes DEF Parts, SizeByParts
<1>3. Cardinality(all) = TotalOf([t \in T |-> Cardinality(cols[t])])
  <2>1. /\ \A i \in T : cols[i] \subseteq all
        /\ \A i, j \in T : i # j => cols[i] \cap cols[j] = {}
        /\ \A p \in all : \E i \in T : p \in cols[i]
        /\ cols = [i \in T |-> cols[i]]
    OBVIOUS
  <2> HIDE DEF all, cols
  <2> QED BY <1>1, <2>1, PartSizes DEF Parts, SizeByParts
<1>4. ASSUME NEW i \in D
      PROVE  Cardinality(rows[i]) = Cardinality({t \in T : <<i, t>> \in R})
  <2> DEFINE A == {t \in T : <<i, t>> \in R}
             f == [t \in A |-> <<i, t>>]
  <2>1. /\ f \in [A -> rows[i]]
        /\ \A x, y \in A : f[x] = f[y] => x = y
        /\ \A z \in rows[i] : \E x \in A : f[x] = z
    OBVIOUS
  <2>2. IsFiniteSet(A)
    BY FS_Subset
  <2> HIDE DEF A, f, rows
  <2>3. Cardinality(rows[i]) = Cardinality(A)
    BY <2>1, <2>2, SameSize
  <2> QED BY <2>3 DEF A
<1>5. ASSUME NEW t \in T
      PROVE  Cardinality(cols[t]) = Cardinality({i \in D : <<i, t>> \in R})
  <2> DEFINE A == {i \in D : <<i, t>> \in R}
             f == [i \in A |-> <<i, t>>]
  <2>1. /\ f \in [A -> cols[t]]
        /\ \A x, y \in A : f[x] = f[y] => x = y
        /\ \A z \in cols[t] : \E x \in A : f[x] = z
    OBVIOUS
  <2>2. IsFiniteSet(A)
    BY FS_Subset
  <2> HIDE DEF A, f, cols
  <2>3. Cardinality(cols[t]) = Cardinality(A)
    BY <2>1, <2>2, SameSize
  <2> QED BY <2>3 DEF A
<1> HIDE DEF all, rows, cols
<1>6. [i \in D |-> Cardinality(rows[i])] = [i \in D |-> Cardinality({t \in T : <<i, t>> \in R})]
  BY <1>4
<1>7. [t \in T |-> Cardinality(cols[t])] = [t \in T |-> Cardinality({i \in D : <<i, t>> \in R})]
  BY <1>5
<1> QED BY <1>2, <1>3, <1>6, <1>7 DEF ByFirst, BySecond
\* A set of positions of a list has a greatest one.
LEMMA GreatestPosition ==
  ASSUME NEW n \in Nat, NEW S \in SUBSET (1 .. n), S # {}
  PROVE  Max(S) \in S /\ \A i \in S : i <= Max(S)
<1> DEFINE T == {n - i : i \in S}
<1>1. T \subseteq Nat /\ T # {}
  <2>1. \A i \in S : i \in 1 .. n
    OBVIOUS
  <2>2. \A i \in 1 .. n : n - i \in Nat
    OBVIOUS
  <2>3. T \subseteq Nat
    BY <2>1, <2>2
  <2> QED BY <2>3
<1>2. PICK k \in T : \A j \in T : <<j, k>> \notin OpToRel(<, Nat)
  BY <1>1, WFMin, NatLessThanWellFounded, Zenon
<1>3. \A j \in T : j >= k
  <2> HIDE DEF T
  <2> SUFFICES ASSUME NEW j \in T, j < k PROVE FALSE
    BY <1>1
  <2> j \in Nat /\ k \in Nat
    BY <1>1
  <2>1. <<j, k>> \in OpToRel(<, Nat)
    BY Zenon DEF OpToRel
  <2> QED BY <2>1, <1>2
<1>4. PICK g \in S : k = n - g
  OBVIOUS
<1>5. \A i \in S : g >= i
  BY <1>3, <1>4
<1> QED BY <1>5 DEF Max

\* The greater and the lesser of two numbers.
LEMMA GreaterOfTwo ==
  ASSUME NEW a \in Int, NEW b \in Int
  PROVE  Max({a, b}) = IF a >= b THEN a ELSE b
BY DEF Max

LEMMA LesserOfTwo ==
  ASSUME NEW a \in Int, NEW b \in Int
  PROVE  Min({a, b}) = IF a <= b THEN a ELSE b
BY DEF Min

\* The greatest and the least of finitely many numbers.
LEMMA GreatestOf ==
  ASSUME NEW S \in SUBSET Nat, IsFiniteSet(S), S # {}
  PROVE  Max(S) \in S /\ \A i \in S : i <= Max(S)
<1> DEFINE upTo(i) == {j \in S : j <= i}
           C == {Cardinality(upTo(i)) : i \in S}
           n == Cardinality(S)
<1>1. n \in Nat
  BY FS_CardinalityType
<1>2. ASSUME NEW i \in S
      PROVE  IsFiniteSet(upTo(i)) /\ Cardinality(upTo(i)) \in 1 .. n
  <2>1. upTo(i) \in SUBSET S /\ i \in upTo(i)
    OBVIOUS
  <2> HIDE DEF upTo
  <2>2. IsFiniteSet(upTo(i)) /\ Cardinality(upTo(i)) <= n /\ Cardinality(upTo(i)) \in Nat
    BY <2>1, FS_Subset, FS_CardinalityType
  <2>3. Cardinality(upTo(i)) # 0
    BY <2>1, <2>2, FS_EmptySet
  <2> QED BY <1>1, <2>2, <2>3
<1>3. C \in SUBSET (1 .. n) /\ C # {}
  BY <1>2
<1>4. Max(C) \in C /\ \A k \in C : k <= Max(C)
  <2> HIDE DEF C, n
  <2> QED BY <1>1, <1>3, GreatestPosition
<1>5. PICK g \in S : Max(C) = Cardinality(upTo(g))
  BY <1>4
<1>6. \A i \in S : Cardinality(upTo(i)) <= Cardinality(upTo(g))
  BY <1>4, <1>5
<1>7. \A i \in S : g >= i
  <2> SUFFICES ASSUME NEW i \in S, ~(g >= i) PROVE FALSE
    OBVIOUS
  <2>0. i > g
    OBVIOUS
  <2>1. upTo(g) \in SUBSET upTo(i) /\ i \in upTo(i) /\ i \notin upTo(g)
    <3>1. \A j \in S : j \in Nat /\ (j <= g => j <= i)
      BY <2>0
    <3>2. i <= i /\ ~(i <= g)
      BY <2>0, <3>1
    <3> QED BY <3>1, <3>2
  <2>2. upTo(g) # upTo(i)
    BY <2>1
  <2>3. Cardinality(upTo(g)) \in Nat /\ Cardinality(upTo(i)) \in Nat
    BY <1>2
  <2>4. Cardinality(upTo(i)) <= Cardinality(upTo(g))
    BY <1>6
  <2>5. Cardinality(upTo(g)) <= Cardinality(upTo(i)) /\ Cardinality(upTo(i)) # Cardinality(upTo(g))
    <3> HIDE DEF upTo
    <3> QED BY <1>2, <2>1, <2>2, FS_Subset
  <2> QED BY ONLY <2>3, <2>4, <2>5
<1> QED BY <1>7 DEF Max

LEMMA LeastOf ==
  ASSUME NEW S \in SUBSET Nat, S # {}
  PROVE  Min(S) \in S /\ \A i \in S : Min(S) <= i
<1>1. PICK k \in S : \A j \in S : <<j, k>> \notin OpToRel(<, Nat)
  BY WFMin, NatLessThanWellFounded, Zenon
<1>2. \A j \in S : k <= j
  <2> SUFFICES ASSUME NEW j \in S, j < k PROVE FALSE
    OBVIOUS
  <2>1. <<j, k>> \in OpToRel(<, Nat)
    BY Zenon DEF OpToRel
  <2> QED BY <2>1, <1>1
<1> QED BY <1>2 DEF Min

LEMMA ProductMonotone ==
  ASSUME NEW a \in Nat, NEW b \in Nat, NEW c \in Nat, NEW d \in Nat, a <= b, c <= d
  PROVE  a * c \in Nat /\ b * d \in Nat /\ a * c <= b * d
<1>1. PICK k \in Nat : b = a + k
  <2>1. b - a \in Nat /\ b = a + (b - a)
    OBVIOUS
  <2> QED BY <2>1
<1>2. PICK l \in Nat : d = c + l
  <2>1. d - c \in Nat /\ d = c + (d - c)
    OBVIOUS
  <2> QED BY <2>1
<1>3. b * d = a * c + a * l + k * c + k * l
  BY <1>1, <1>2
<1>4. a * c \in Nat /\ a * l \in Nat /\ k * c \in Nat /\ k * l \in Nat
  OBVIOUS
<1> QED BY ONLY <1>3, <1>4
=============================================================================
