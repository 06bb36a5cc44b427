---------------------------- MODULE Series_proofs ----------------------------
(***************************************************************************)
(* What the operators on lists and numbers that the rules are built from    *)
(* return: least and greatest elements, the ascending list of a set, the    *)
(* kept elements of a list, and the concatenation of lists.                 *)
(*                                                                         *)
(* None of the facts is by an induction theorem: the rank in a finite set   *)
(* is an injection between sets of one size, and what is said of every      *)
(* number is said of the least counterexample.                              *)
(***************************************************************************)
EXTENDS SequencesExt, Series, FiniteSetTheorems, SequenceTheorems, WellFoundedInduction, TLAPS

-----------------------------------------------------------------------------
(* Least and greatest elements.                                             *)

\* Every set of naturals that is not empty has a least element.
LEMMA LeastNatural ==
    ASSUME NEW S \in SUBSET Nat, S # {}
    PROVE  \E x \in S : \A y \in S : x <= y
<1> DEFINE Less == {p \in Nat \X Nat : p[1] < p[2]}
<1>1. IsWellFoundedOn(Less, Nat)
  BY NatLessThanWellFounded DEF OpToRel
<1> HIDE DEF Less
<1>2. PICK x \in S : \A y \in S : ~ (<<y, x>> \in Less)
  BY <1>1, WFMin
<1>3. \A y \in S : ~ (y < x)
  <2> SUFFICES ASSUME NEW y \in S, y < x PROVE FALSE
    OBVIOUS
  <2>1. <<y, x>>[1] < <<y, x>>[2] /\ <<y, x>> \in Nat \X Nat
    OBVIOUS
  <2> QED BY <1>2, <2>1 DEF Less
<1> QED BY <1>3

\* Min returns it.
LEMMA MinOfNaturals ==
    ASSUME NEW S \in SUBSET Nat, S # {}
    PROVE  Min(S) \in S /\ \A y \in S : Min(S) <= y
BY LeastNatural DEF Min

\* A bounded set of naturals has a greatest element: the least upper bound.
LEMMA MaxOfNaturals ==
    ASSUME NEW S \in SUBSET Nat, S # {}, NEW b \in Nat, \A x \in S : x <= b
    PROVE  Max(S) \in S /\ \A y \in S : y <= Max(S)
<1> DEFINE Bounds == {n \in Nat : \A x \in S : x <= n}
<1>1. PICK m \in Bounds : \A n \in Bounds : m <= n
  <2>1. b \in Bounds
    OBVIOUS
  <2> QED BY <2>1, LeastNatural
<1>2. m \in S
  <2> SUFFICES ASSUME m \notin S PROVE FALSE
    OBVIOUS
  <2>1. \A x \in S : x < m
    BY <1>1
  <2>2. PICK x \in S : TRUE
    OBVIOUS
  <2>3. m - 1 \in Nat
    BY <2>1, <2>2
  <2>4. \A y \in S : y \in Nat /\ y <= m - 1
    BY <2>1
  <2> QED BY <1>1, <2>3, <2>4
<1>3. \A y \in S : m >= y
  BY <1>1
<1> QED BY <1>2, <1>3 DEF Max

\* Max of two numbers.
LEMMA MaxOfTwo ==
    ASSUME NEW a \in Int, NEW b \in Int
    PROVE  Max({a, b}) = IF a >= b THEN a ELSE b
<1> DEFINE w == IF a >= b THEN a ELSE b
<1>1. w \in {a, b} /\ w \in Int /\ \A y \in {a, b} : w >= y
  OBVIOUS
<1> HIDE DEF w
<1>2. Max({a, b}) \in {a, b} /\ \A y \in {a, b} : Max({a, b}) >= y
  BY <1>1 DEF Max
<1>3. Max({a, b}) = w
  BY <1>1, <1>2
<1> QED BY <1>3 DEF w

-----------------------------------------------------------------------------
(* The ascending list of a finite set of numbers.                           *)

Below(S, d) == {e \in S : e < d}

Rank(S, d) == Cardinality(Below(S, d))

\* The number of smaller elements tells the elements apart and takes every value.
LEMMA Ranks ==
    ASSUME NEW S \in SUBSET Nat, IsFiniteSet(S)
    PROVE  /\ \A d \in S : Rank(S, d) \in 0..(Cardinality(S) - 1)
           /\ \A c, d \in S : c < d => Rank(S, c) < Rank(S, d)
           /\ \A i \in 1..Cardinality(S) : \E d \in S : Rank(S, d) = i - 1
<1> DEFINE n == Cardinality(S)
<1>1. \A d \in S : IsFiniteSet(Below(S, d)) /\ Rank(S, d) \in Nat
  <2> SUFFICES ASSUME NEW d \in S PROVE IsFiniteSet(Below(S, d)) /\ Rank(S, d) \in Nat
    OBVIOUS
  <2>1. Below(S, d) \in SUBSET S
    BY DEF Below
  <2> QED BY <2>1, FS_Subset, FS_CardinalityType DEF Rank
<1>2. n \in Nat
  BY FS_CardinalityType
<1>3. ASSUME NEW d \in S PROVE Rank(S, d) \in 0..(n - 1)
  <2>1. Below(S, d) \in SUBSET S /\ d \notin Below(S, d)
    BY DEF Below
  <2>2. Cardinality(Below(S, d)) <= n /\ (n = Cardinality(Below(S, d)) => S = Below(S, d))
    BY <2>1, FS_Subset
  <2> QED BY <1>1, <1>2, <2>1, <2>2 DEF Rank
<1>4. ASSUME NEW c \in S, NEW d \in S, c < d
      PROVE  Rank(S, c) < Rank(S, d)
  <2>1. c \in Nat /\ d \in Nat /\ \A e \in S : e \in Nat
    OBVIOUS
  <2>4. \A e \in S : e < c => e < d
    BY <1>4, <2>1
  <2>5. ~ (c < c)
    BY <2>1
  <2>2. Below(S, c) \in SUBSET Below(S, d) /\ c \in Below(S, d) /\ c \notin Below(S, c)
    BY <1>4, <2>4, <2>5, Zenon DEF Below
  <2>3. /\ Cardinality(Below(S, c)) <= Cardinality(Below(S, d))
        /\ Cardinality(Below(S, d)) = Cardinality(Below(S, c)) => Below(S, d) = Below(S, c)
    BY <1>1, <2>2, FS_Subset
  <2> QED BY <1>1, <2>2, <2>3 DEF Rank
<1>5. ASSUME NEW i \in 1..n PROVE \E d \in S : Rank(S, d) = i - 1
  <2> DEFINE rank == [d \in S |-> Rank(S, d)]
  <2>1. rank \in [S -> 0..(n - 1)]
    BY <1>3
  <2>2. \A c, d \in S : rank[c] = rank[d] => c = d
    <3> SUFFICES ASSUME NEW c \in S, NEW d \in S, rank[c] = rank[d], c # d PROVE FALSE
      OBVIOUS
    <3>1. c < d \/ d < c
      OBVIOUS
    <3>2. Rank(S, c) < Rank(S, d) \/ Rank(S, d) < Rank(S, c)
      BY <3>1, <1>4
    <3> QED BY <3>2, <1>1
  <2>3. rank \in Injection(S, 0..(n - 1))
    BY <2>1, <2>2 DEF Injection, IsInjective
  <2>4. IsFiniteSet(0..(n - 1)) /\ Cardinality(0..(n - 1)) = n
    <3>1. n - 1 \in Int /\ 0 \in Int /\ (IF 0 > n - 1 THEN 0 ELSE n - 1 - 0 + 1) = n
      BY <1>2
    <3> HIDE DEF n
    <3> QED BY <3>1, FS_Interval
  <2> HIDE DEF rank
  <2>5. rank \in Surjection(S, 0..(n - 1))
    BY <2>3, <2>4, FS_Injection
  <2>6. i - 1 \in 0..(n - 1)
    BY <1>2
  <2>7. \E d \in S : rank[d] = i - 1
    BY <2>5, <2>6 DEF Surjection
  <2> QED BY <2>7 DEF rank
<1> QED BY <1>3, <1>4, <1>5

\* Ascending lists the elements of the set from the least on, each once.
LEMMA AscendingLists ==
    ASSUME NEW S \in SUBSET Nat, IsFiniteSet(S)
    PROVE  /\ Cardinality(S) \in Nat
           /\ Ascending(S) \in Seq(S) /\ Len(Ascending(S)) = Cardinality(S)
           /\ \A i \in 1..Cardinality(S) : Ascending(S)[i] \in S
           /\ \A i, j \in 1..Cardinality(S) : i < j => Ascending(S)[i] < Ascending(S)[j]
           /\ \A d \in S : \E i \in 1..Cardinality(S) : Ascending(S)[i] = d
<1> DEFINE n == Cardinality(S)
<1>1. n \in Nat
  BY FS_CardinalityType
<1>2. ASSUME NEW i \in 1..n PROVE Ascending(S)[i] \in S /\ Rank(S, Ascending(S)[i]) = i - 1
  <2>1. \E d \in S : Rank(S, d) = i - 1
    BY Ranks
  <2>2. Ascending(S)[i] = CHOOSE d \in S : Rank(S, d) = i - 1
    BY DEF Ascending, Rank, Below
  <2> QED BY <2>1, <2>2
<1>3. Ascending(S) \in Seq(S) /\ Len(Ascending(S)) = n
  <2>1. Ascending(S) \in [1..n -> S]
    BY <1>2 DEF Ascending
  <2> QED BY <1>1, <2>1
<1>4. ASSUME NEW i \in 1..n, NEW j \in 1..n, i < j
      PROVE  Ascending(S)[i] < Ascending(S)[j]
  <2> DEFINE c == Ascending(S)[i]
             d == Ascending(S)[j]
  <2>1. c \in S /\ d \in S /\ Rank(S, c) = i - 1 /\ Rank(S, d) = j - 1
    BY <1>2
  <2>2. \A a, b \in S : a < b => Rank(S, a) < Rank(S, b)
    BY Ranks
  <2>5. i \in Nat /\ j \in Nat
    BY <1>1
  <2> HIDE DEF c, d
  <2>3. c \in Nat /\ d \in Nat /\ i \in Nat /\ j \in Nat
    BY <2>5, <2>1
  <2>4. c < d
    BY <1>4, <2>1, <2>2, <2>3
  <2> QED BY <2>4 DEF c, d
<1>5. ASSUME NEW d \in S PROVE \E i \in 1..n : Ascending(S)[i] = d
  <2>1. Rank(S, d) \in 0..(n - 1)
    BY Ranks
  <2> DEFINE i == Rank(S, d) + 1
  <2>2. i \in 1..n
    BY <1>1, <2>1
  <2>3. Ascending(S)[i] \in S /\ Rank(S, Ascending(S)[i]) = Rank(S, d)
    BY <1>2, <2>1, <2>2
  <2>4. \A a, b \in S : a < b => Rank(S, a) < Rank(S, b)
    BY Ranks
  <2>5. Ascending(S)[i] \in Nat /\ d \in Nat
    BY <2>3
  <2>6. Ascending(S)[i] = d
    BY <2>1, <2>3, <2>4, <2>5
  <2> QED BY <2>2, <2>6
<1> QED BY <1>1, <1>2, <1>3, <1>4, <1>5

-----------------------------------------------------------------------------
(* The kept elements of a list.                                             *)

\* Kept has the elements at the kept positions, in their order, each once.
LEMMA KeptElements ==
    ASSUME NEW T, NEW s \in Seq(T), NEW at \in SUBSET DOMAIN s
    PROVE  /\ IsFiniteSet(at) /\ at \in SUBSET Nat
           /\ Cardinality(at) \in Nat
           /\ Kept(s, at) \in Seq(T) /\ Len(Kept(s, at)) = Cardinality(at)
           /\ DOMAIN Kept(s, at) = 1..Cardinality(at)
           /\ \A k \in DOMAIN Kept(s, at) :
                 Ascending(at)[k] \in at /\ Kept(s, at)[k] = s[Ascending(at)[k]]
           /\ \A j, k \in DOMAIN Kept(s, at) : j < k => Ascending(at)[j] < Ascending(at)[k]
           /\ \A i \in at : \E k \in DOMAIN Kept(s, at) : Ascending(at)[k] = i
<1> DEFINE n == Cardinality(at)
<1>1. Len(s) \in Nat /\ DOMAIN s = 1..Len(s) /\ \A i \in DOMAIN s : s[i] \in T
  OBVIOUS
<1>2. IsFiniteSet(at) /\ at \in SUBSET Nat
  <2>1. IsFiniteSet(1..Len(s))
    BY <1>1, FS_Interval
  <2> QED BY <1>1, <2>1, FS_Subset
<1>3. /\ n \in Nat
      /\ \A i \in 1..n : Ascending(at)[i] \in at
      /\ \A i, j \in 1..n : i < j => Ascending(at)[i] < Ascending(at)[j]
      /\ \A i \in at : \E k \in 1..n : Ascending(at)[k] = i
  BY <1>2, AscendingLists
<1>4. Kept(s, at) \in [1..n -> T] /\ \A k \in 1..n : Kept(s, at)[k] = s[Ascending(at)[k]]
  BY <1>1, <1>3 DEF Kept
<1>5. DOMAIN Kept(s, at) = 1..n /\ Kept(s, at) \in Seq(T) /\ Len(Kept(s, at)) = n
  <2> HIDE DEF n
  <2> QED BY <1>3, <1>4
<1> HIDE DEF n
<1>6. /\ \A k \in DOMAIN Kept(s, at) :
            Ascending(at)[k] \in at /\ Kept(s, at)[k] = s[Ascending(at)[k]]
      /\ \A j, k \in DOMAIN Kept(s, at) : j < k => Ascending(at)[j] < Ascending(at)[k]
      /\ \A i \in at : \E k \in DOMAIN Kept(s, at) : Ascending(at)[k] = i
  BY <1>3, <1>4, <1>5
<1> QED BY <1>2, <1>3, <1>5, <1>6 DEF n

\* Its elements are those of the list at the kept positions.
LEMMA KeptRange ==
    ASSUME NEW T, NEW s \in Seq(T), NEW at \in SUBSET DOMAIN s
    PROVE  Range(Kept(s, at)) = {s[i] : i \in at}
<1>1. ASSUME NEW x \in Range(Kept(s, at)) PROVE x \in {s[i] : i \in at}
  BY <1>1, KeptElements DEF Range
<1>2. ASSUME NEW i \in at PROVE s[i] \in Range(Kept(s, at))
  BY <1>2, KeptElements DEF Range
<1> QED BY <1>1, <1>2

\* What a list holds is finite.
LEMMA RangeOfList ==
    ASSUME NEW T, NEW s \in Seq(T)
    PROVE  IsFiniteSet(Range(s)) /\ Range(s) \in SUBSET T
<1>1. Len(s) \in Nat /\ DOMAIN s = 1..Len(s) /\ s \in [1..Len(s) -> T]
  OBVIOUS
<1>2. s \in Surjection(1..Len(s), Range(s)) /\ Range(s) \in SUBSET T
  BY <1>1 DEF Surjection, Range
<1>3. IsFiniteSet(1..Len(s))
  BY <1>1, FS_Interval
<1> QED BY <1>2, <1>3, FS_Surjection

\* A list whose neighbours ascend is ascending.
LEMMA NeighboursAscend ==
    ASSUME NEW n \in Nat, NEW f, \A i \in 1..n : f[i] \in Nat,
           \A i \in 2..n : f[i - 1] < f[i]
    PROVE  \A i, j \in 1..n : i < j => f[i] < f[j]
<1> DEFINE Bad == {j \in Nat : j \in 1..n /\ \E i \in 1..n : i < j /\ ~ (f[i] < f[j])}
<1>1. Bad = {}
  <2> SUFFICES ASSUME Bad # {} PROVE FALSE
    OBVIOUS
  <2>1. Bad \in SUBSET Nat
    OBVIOUS
  <2> HIDE DEF Bad
  <2>2. PICK j \in Bad : \A k \in Bad : j <= k
    BY <2>1, LeastNatural
  <2>3. j \in 1..n /\ \E i \in 1..n : i < j /\ ~ (f[i] < f[j])
    BY <2>2 DEF Bad
  <2>4. PICK i \in 1..n : i < j /\ ~ (f[i] < f[j])
    BY <2>3
  <2>5. j \in 2..n /\ j - 1 \in 1..n /\ f[j - 1] < f[j]
    BY <2>3, <2>4
  <2>6. i < j - 1
    BY <2>4, <2>5
  <2>7. j - 1 \notin Bad
    BY <2>2, <2>5
  <2>8. f[i] < f[j - 1]
    BY <2>5, <2>6, <2>7 DEF Bad
  <2> QED BY <2>3, <2>4, <2>5, <2>8
<1> QED BY <1>1

-----------------------------------------------------------------------------
(* Concatenation.                                                           *)

\* FlattenSeq joins lists of elements of T to a list of elements of T.
LEMMA FlattenElements ==
    ASSUME NEW T, NEW n \in Nat, NEW s, s \in [1..n -> Seq(T)]
    PROVE  FlattenSeq(s) \in Seq(T)
<1> DEFINE Joins(f, m) ==
              f = [i \in 1..m |-> IF i = 1 THEN s[i] ELSE f[i - 1] \o s[i]]
           Bad == {m \in Nat : m <= n /\ ~ \E f \in [1..m -> Seq(T)] : Joins(f, m)}
<1>1. s \in Seq(Seq(T)) /\ Len(s) = n
  OBVIOUS
<1>2. CASE n = 0
  <2>1. s = <<>>
    BY <1>1, <1>2
  <2> QED BY <1>1, <1>2, <2>1 DEF FlattenSeq
<1>3. CASE n # 0
  <2>1. Bad = {}
    <3> SUFFICES ASSUME Bad # {} PROVE FALSE
      OBVIOUS
    <3>1. Bad \in SUBSET Nat
      OBVIOUS
    <3> HIDE DEF Bad
    <3>2. PICK m \in Bad : \A k \in Bad : m <= k
      BY <3>1, LeastNatural
    <3>3. m \in Nat /\ m <= n /\ ~ \E f \in [1..m -> Seq(T)] : Joins(f, m)
      BY <3>2 DEF Bad
    <3>4. m # 0
      <4>1. <<>> \in [1..0 -> Seq(T)] /\ Joins(<<>>, 0)
        OBVIOUS
      <4> QED BY <4>1, <3>3
    <3>5. PICK g \in [1..(m - 1) -> Seq(T)] : Joins(g, m - 1)
      <4>1. m - 1 \notin Bad /\ m - 1 \in Nat /\ m - 1 <= n
        BY <3>2, <3>3, <3>4
      <4> QED BY <4>1 DEF Bad
    <3> DEFINE f == [i \in 1..m |-> IF i = 1 THEN s[i] ELSE g[i - 1] \o s[i]]
    <3>6. \A i \in 1..m : s[i] \in Seq(T)
      BY <3>3
    <3>7. ASSUME NEW i \in 1..m PROVE f[i] \in Seq(T)
      <4>1. CASE i = 1
        BY <4>1, <3>6
      <4>2. CASE i # 1
        <5>1. i - 1 \in 1..(m - 1)
          BY <4>2, <3>3
        <5>3. f[i] = g[i - 1] \o s[i]
          BY <4>2
        <5>2. g[i - 1] \in Seq(T) /\ s[i] \in Seq(T)
          BY <5>1, <3>5, <3>6
        <5> HIDE DEF f
        <5> QED BY <5>2, <5>3, ConcatProperties
      <4> QED BY <4>1, <4>2
    <3>8. ASSUME NEW i \in 1..(m - 1) PROVE f[i] = g[i]
      <4>1. i \in 1..m /\ f[i] = IF i = 1 THEN s[i] ELSE g[i - 1] \o s[i]
        BY <3>3
      <4>2. g[i] = IF i = 1 THEN s[i] ELSE g[i - 1] \o s[i]
        BY <3>5
      <4> QED BY <4>1, <4>2
    <3>9. ASSUME NEW i \in 1..m PROVE f[i] = IF i = 1 THEN s[i] ELSE f[i - 1] \o s[i]
      <4>1. CASE i = 1
        BY <4>1
      <4>2. CASE i # 1
        <5>1. i - 1 \in 1..(m - 1)
          BY <4>2, <3>3
        <5>2. f[i - 1] = g[i - 1]
          BY <5>1, <3>8
        <5>3. f[i] = g[i - 1] \o s[i]
          BY <4>2
        <5> QED BY <4>2, <5>2, <5>3
      <4> QED BY <4>1, <4>2
    <3>10. f \in [1..m -> Seq(T)] /\ DOMAIN f = 1..m
      BY <3>7
    <3> HIDE DEF f
    <3>11. Joins(f, m)
      BY <3>9, <3>10
    <3> QED BY <3>3, <3>10, <3>11
  <2>2. \E f : Joins(f, n)
    <3>1. \E f \in [1..n -> Seq(T)] : Joins(f, n)
      <4> HIDE DEF Joins
      <4> QED BY <2>1
    <3> QED BY <3>1
  <2> DEFINE flatten == CHOOSE f : Joins(f, n)
             Wrong == {i \in Nat : i \in 1..n /\ flatten[i] \notin Seq(T)}
  <2>3. Joins(flatten, n)
    BY <2>2
  <2>4. FlattenSeq(s) = flatten[n]
    BY <1>1, <1>3 DEF FlattenSeq
  <2> HIDE DEF flatten
  <2>5. \A i \in 1..n : flatten[i] = IF i = 1 THEN s[i] ELSE flatten[i - 1] \o s[i]
    BY <2>3
  <2>6. Wrong = {}
    <3> SUFFICES ASSUME Wrong # {} PROVE FALSE
      OBVIOUS
    <3>1. PICK i \in Wrong : \A j \in Wrong : i <= j
      <4>1. Wrong \in SUBSET Nat
        OBVIOUS
      <4> HIDE DEF Wrong
      <4> QED BY <4>1, LeastNatural
    <3>2. i \in 1..n /\ flatten[i] \notin Seq(T) /\ s[i] \in Seq(T)
      BY <3>1
    <3>3. i # 1
      BY <2>5, <3>2
    <3>4. i - 1 \in 1..n /\ i - 1 \in Nat /\ ~ (i <= i - 1)
      BY <3>2, <3>3
    <3>5. flatten[i - 1] \in Seq(T)
      BY <3>1, <3>4
    <3>6. flatten[i] = flatten[i - 1] \o s[i]
      BY <2>5, <3>2, <3>3
    <3> QED BY <3>2, <3>5, <3>6, ConcatProperties
  <2> QED BY <1>3, <2>4, <2>6
<1> QED BY <1>2, <1>3

=============================================================================
