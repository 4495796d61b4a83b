----------------------------- MODULE SetLemmas ------------------------------
(***************************************************************************)
(* Facts about finite sets that the proofs of several components need.     *)
(***************************************************************************)
EXTENDS Integers, FiniteSets, FiniteSetsExt, FiniteSetTheorems,
        WellFoundedInduction, TLAPS

\* A finite set has no endless chain of ever smaller subsets: of the subsets
\* that a function gives its elements, one has none other strictly inside.
LEMMA SmallestSubset ==
    ASSUME NEW S, IsFiniteSet(S), S # {}, NEW f \in [S -> SUBSET S]
    PROVE  \E x \in S : \A y \in S : f[y] \subseteq f[x] => f[y] = f[x]
<1> DEFINE T == {f[x] : x \in S}
<1>1. IsWellFoundedOn(StrictSubsetOrdering(S), SUBSET S)
  BY FS_StrictSubsetOrderingWellFounded, FS_FiniteSubsetsOfFinite
<1>2. T # {} /\ T \subseteq SUBSET S
  OBVIOUS
<1> HIDE DEF T
<1>3. PICK U \in T : \A V \in T : ~(<<V, U>> \in StrictSubsetOrdering(S))
  BY <1>1, <1>2, WFMin, Zenon
<1>4. PICK x \in S : U = f[x]
  BY <1>3 DEF T
<1>5. ASSUME NEW y \in S, f[y] \subseteq f[x], f[y] # f[x] PROVE FALSE
  <2>1. f[y] \in T /\ f[y] \in SUBSET S /\ f[x] \in SUBSET S
    BY DEF T
  <2>2. <<f[y], f[x]>> \in StrictSubsetOrdering(S)
    BY <1>5, <2>1, Zenon DEF StrictSubsetOrdering
  <2> QED
    BY <1>3, <1>4, <2>1, <2>2
<1> QED
  BY <1>5

LEMMA MinExists ==
    ASSUME NEW S, S \subseteq Int, S # {}, IsFiniteSet(S)
    PROVE  Min(S) \in S /\ \A y \in S : Min(S) <= y
<1> DEFINE f == [x \in S |-> {y \in S : y <= x}]
<1>1. PICK x \in S : \A y \in S : f[y] \subseteq f[x] => f[y] = f[x]
  <2>1. f \in [S -> SUBSET S]
    OBVIOUS
  <2>2. \A g \in [S -> SUBSET S] :
            \E x \in S : \A y \in S : g[y] \subseteq g[x] => g[y] = g[x]
    <3> HIDE DEF f
    <3> QED
      BY SmallestSubset
  <2> HIDE DEF f
  <2> QED
    BY <2>1, <2>2
<1>2. ASSUME NEW y \in S, y < x PROVE FALSE
  <2>1. ASSUME NEW z \in f[y] PROVE z \in f[x]
    BY <1>2
  <2>2. x \in f[x] /\ x \notin f[y]
    BY <1>2
  <2> QED
    BY <1>1, <2>1, <2>2
<1>3. \A y \in S : x <= y
  BY <1>2
<1> QED
  BY <1>3 DEF Min

LEMMA MaxExists ==
    ASSUME NEW S, S \subseteq Int, S # {}, IsFiniteSet(S)
    PROVE  Max(S) \in S /\ \A y \in S : y <= Max(S)
<1> DEFINE f == [x \in S |-> {y \in S : x <= y}]
<1>1. PICK x \in S : \A y \in S : f[y] \subseteq f[x] => f[y] = f[x]
  <2>1. f \in [S -> SUBSET S]
    OBVIOUS
  <2>2. \A g \in [S -> SUBSET S] :
            \E x \in S : \A y \in S : g[y] \subseteq g[x] => g[y] = g[x]
    <3> HIDE DEF f
    <3> QED
      BY SmallestSubset
  <2> HIDE DEF f
  <2> QED
    BY <2>1, <2>2
<1>2. ASSUME NEW y \in S, x < y PROVE FALSE
  <2>1. ASSUME NEW z \in f[y] PROVE z \in f[x]
    BY <1>2
  <2>2. x \in f[x] /\ x \notin f[y]
    BY <1>2
  <2> QED
    BY <1>1, <2>1, <2>2
<1>3. \A y \in S : y <= x
  BY <1>2
<1> QED
  BY <1>3 DEF Max

LEMMA MaxIs ==
    ASSUME NEW S, S \subseteq Int, IsFiniteSet(S), NEW k \in S,
           \A y \in S : y <= k
    PROVE  Max(S) = k
<1>1. Max(S) \in S /\ \A y \in S : y <= Max(S)
  BY MaxExists
<1>2. Max(S) <= k /\ k <= Max(S) /\ Max(S) \in Int /\ k \in Int
  BY <1>1
<1> QED
  BY <1>2

\* The values that a function takes on a finite set.
LEMMA ImageFinite ==
    ASSUME NEW S, IsFiniteSet(S), NEW f, DOMAIN f = S
    PROVE  IsFiniteSet({f[x] : x \in S})
<1> DEFINE g == [x \in S |-> f[x]]
<1>1. g \in Surjection(S, {f[x] : x \in S})
  BY DEF Surjection
<1> QED
  BY <1>1, FS_Surjection

\* What is left of a set of numbers when only its greatest are kept: at most as
\* many as were to be kept, just as many when any was taken away, and all of
\* them greater than those.
LEMMA GreatestKept ==
    ASSUME NEW S, S \subseteq Int, IsFiniteSet(S), NEW n \in Nat,
           NEW old, old = {f \in S : Cardinality({g \in S : g >= f}) > n}
    PROVE  /\ Cardinality(S \ old) <= n
           /\ old # {} => Cardinality(S \ old) >= n
           /\ \A o \in old, t \in S \ old : o < t
<1> DEFINE Above(f) == {g \in S : g >= f}
<1> DEFINE rest == S \ old
<1>1. \A f \in S : IsFiniteSet(Above(f)) /\ Cardinality(Above(f)) \in Nat
  BY FS_Subset, FS_CardinalityType
<1>2. IsFiniteSet(rest) /\ IsFiniteSet(old) /\ Cardinality(rest) \in Nat
  BY FS_Subset, FS_CardinalityType
<1>3. \A f \in S : f \in old <=> Cardinality(Above(f)) > n
  OBVIOUS
<1>4. Cardinality(rest) <= n
  <2>1. CASE rest = {}
    <3>1. Cardinality(rest) = 0
      BY <2>1, FS_EmptySet
    <3> QED
      BY <3>1
  <2>2. CASE rest # {}
    <3> DEFINE m == Min(rest)
    <3>1. m \in rest /\ \A y \in rest : m <= y
      BY <1>2, <2>2, MinExists
    <3>2. rest \subseteq Above(m)
      BY <3>1
    <3>3. m \in S /\ ~(m \in old)
      BY <3>1
    <3> HIDE DEF m, Above, rest
    <3>4. Cardinality(rest) <= Cardinality(Above(m))
      BY <1>1, <3>3, <3>2, FS_Subset
    <3> QED
      BY <1>1, <1>2, <1>3, <3>3, <3>4
  <2> QED
    BY <2>1, <2>2
<1>5. ASSUME old # {} PROVE Cardinality(rest) >= n
  <2> DEFINE m == Max(old)
  <2>1. m \in old /\ \A y \in old : y <= m
    BY <1>2, <1>5, MaxExists
  <2> HIDE DEF m
  <2>2. Above(m) \subseteq rest \cup {m}
    <3> SUFFICES ASSUME NEW x \in S, x >= m, x # m PROVE x \notin old
      OBVIOUS
    <3>1. m \in Int /\ x \in Int /\ ~(x <= m)
      BY <2>1
    <3> QED
      BY <2>1, <3>1
  <2>3. m \notin rest /\ m \in S
    BY <2>1
  <2> HIDE DEF Above, rest
  <2>4. /\ IsFiniteSet(rest \cup {m})
        /\ Cardinality(rest \cup {m}) = Cardinality(rest) + 1
    BY <1>2, <2>3, FS_AddElement
  <2>5. Cardinality(Above(m)) <= Cardinality(rest \cup {m})
    BY <2>2, <2>4, FS_Subset
  <2> QED
    BY <1>1, <1>2, <1>3, <2>1, <2>3, <2>4, <2>5
<1>6. ASSUME NEW o \in old, NEW t \in rest PROVE o < t
  <2>1. CASE t <= o
    <3>1. o \in S /\ t \in S /\ ~(t \in old)
      OBVIOUS
    <3>2. Above(o) \subseteq Above(t)
      <4> SUFFICES ASSUME NEW x \in S, x >= o PROVE x >= t
        OBVIOUS
      <4> QED
        BY <2>1, <3>1
    <3> HIDE DEF Above, rest
    <3>3. Cardinality(Above(o)) <= Cardinality(Above(t))
      BY <1>1, <3>1, <3>2, FS_Subset
    <3> QED
      BY <1>1, <1>3, <1>6, <3>1, <3>3
  <2> QED
    BY <2>1
<1> QED
  BY <1>4, <1>5, <1>6

\* So many numbers do not fit between two bounds that are closer.
LEMMA Crowded ==
    ASSUME NEW S, S \subseteq Int, IsFiniteSet(S), NEW n \in Nat \ {0},
           Cardinality(S) >= n, NEW h \in Int, \A k \in S : k <= h
    PROVE  \E k \in S : k <= h - n + 1
<1> SUFFICES ASSUME \A k \in S : k > h - n + 1 PROVE FALSE
  OBVIOUS
<1>1. S \subseteq (h - n + 2)..h
  OBVIOUS
<1>2. /\ IsFiniteSet((h - n + 2)..h)
      /\ Cardinality((h - n + 2)..h) = n - 1
  <2>1. h - n + 2 \in Int
    OBVIOUS
  <2>2. /\ IsFiniteSet((h - n + 2)..h)
        /\ Cardinality((h - n + 2)..h) =
              IF h - n + 2 > h THEN 0 ELSE h - (h - n + 2) + 1
    BY <2>1, FS_Interval
  <2> QED
    BY <2>2
<1>3. Cardinality(S) <= n - 1
  BY <1>1, <1>2, FS_Subset
<1> QED
  BY <1>3, FS_CardinalityType
=============================================================================
