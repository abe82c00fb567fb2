--------------------------- MODULE PathListProofs ---------------------------
(***************************************************************************)
(* What sort() does with the list of a prefix, and why it may be used.     *)
(* First the order of paths, for paths of any kind: impl Ord for           *)
(* RouteAttributes is a strict weak order, and two paths it ties are equal *)
(* for PartialEq. Then the operations on the list, for lists of any        *)
(* length: sort() followed by reverse() yields the same paths in order of  *)
(* preference, retain() drops one peer's paths and keeps the order.        *)
(***************************************************************************)
EXTENDS PathList, FiniteSetTheorems, FunctionTheorems, SequenceTheorems, TLAPS

-----------------------------------------------------------------------------
(* The order                                                               *)

\* Each part cmp consults is a number.
LEMMA PartType ==
    ASSUME NEW a, IsPath(a), NEW i \in Keys
    PROVE  Part(a, i) \in Nat
  BY DEF IsPath, Part, Keys

\* Two paths that differ in a part differ strictly, one way or the other.
LEMMA PartTotal ==
    ASSUME NEW a, NEW b, IsPath(a), IsPath(b), NEW i \in Keys
    PROVE  /\ ~(PartLess(a, b, i) /\ PartLess(b, a, i))
           /\ PartLess(a, b, i) => Part(a, i) # Part(b, i)
           /\ Part(a, i) # Part(b, i) => PartLess(a, b, i) \/ PartLess(b, a, i)
  BY PartType DEF PartLess

\* Within one part the comparison is transitive.
LEMMA PartTransitive ==
    ASSUME NEW a, NEW b, NEW c, IsPath(a), IsPath(b), IsPath(c), NEW i \in Keys,
           PartLess(a, b, i), PartLess(b, c, i)
    PROVE  PartLess(a, c, i)
  BY PartType DEF PartLess

\* A comparison does not depend on which of two equal parts is compared.
LEMMA PartReplace ==
    ASSUME NEW a, NEW b, NEW c, NEW i \in Keys, Part(a, i) = Part(b, i)
    PROVE  /\ PartLess(a, c, i) <=> PartLess(b, c, i)
           /\ PartLess(c, a, i) <=> PartLess(c, b, i)
  BY DEF PartLess

\* cmp never answers Less of a path and itself, nor Less both ways.
THEOREM LessAsymmetric ==
    ASSUME NEW a, NEW b, IsPath(a), IsPath(b), Less(a, b)
    PROVE  ~Less(b, a)
<1> SUFFICES ASSUME Less(b, a) PROVE FALSE
  OBVIOUS
<1>1. PICK i \in Keys : PartLess(a, b, i) /\ \A j \in 1..(i - 1) : Part(a, j) = Part(b, j)
  BY DEF Less
<1>2. PICK k \in Keys : PartLess(b, a, k) /\ \A j \in 1..(k - 1) : Part(b, j) = Part(a, j)
  BY DEF Less
<1>3. CASE i < k
  BY <1>1, <1>2, <1>3, PartTotal DEF Keys
<1>4. CASE k < i
  BY <1>1, <1>2, <1>4, PartTotal DEF Keys
<1>5. CASE i = k
  BY <1>1, <1>2, <1>5, PartTotal
<1> QED
  BY <1>3, <1>4, <1>5 DEF Keys

\* cmp is transitive, across the clauses it returns early from.
THEOREM LessTransitive ==
    ASSUME NEW a, NEW b, NEW c, IsPath(a), IsPath(b), IsPath(c), Less(a, b), Less(b, c)
    PROVE  Less(a, c)
<1>1. PICK i \in Keys : PartLess(a, b, i) /\ \A j \in 1..(i - 1) : Part(a, j) = Part(b, j)
  BY DEF Less
<1>2. PICK k \in Keys : PartLess(b, c, k) /\ \A j \in 1..(k - 1) : Part(b, j) = Part(c, j)
  BY DEF Less
<1> SUFFICES \E m \in Keys : /\ PartLess(a, c, m)
                             /\ \A j \in 1..(m - 1) : Part(a, j) = Part(c, j)
  BY DEF Less
<1>3. CASE i < k
  <2>1. Part(b, i) = Part(c, i)
    BY <1>2, <1>3 DEF Keys
  <2>2. PartLess(a, c, i)
    BY <1>1, <2>1, PartReplace
  <2>3. \A j \in 1..(i - 1) : Part(a, j) = Part(c, j)
    BY <1>1, <1>2, <1>3 DEF Keys
  <2> QED
    BY <2>2, <2>3
<1>4. CASE k < i
  <2>1. Part(a, k) = Part(b, k)
    BY <1>1, <1>4 DEF Keys
  <2>2. PartLess(a, c, k)
    BY <1>2, <2>1, PartReplace
  <2>3. \A j \in 1..(k - 1) : Part(a, j) = Part(c, j)
    BY <1>1, <1>2, <1>4 DEF Keys
  <2> QED
    BY <2>2, <2>3
<1>5. CASE i = k
  <2>1. PartLess(a, c, i)
    BY <1>1, <1>2, <1>5, PartTransitive
  <2>2. \A j \in 1..(i - 1) : Part(a, j) = Part(c, j)
    BY <1>1, <1>2, <1>5
  <2> QED
    BY <2>1, <2>2
<1> QED
  BY <1>3, <1>4, <1>5 DEF Keys

\* Of two tied paths the first part that could differ does not.
LEMMA NextPartEqual ==
    ASSUME NEW a, NEW b, IsPath(a), IsPath(b), Tied(a, b), NEW i \in Keys,
           \A j \in 1..(i - 1) : Part(a, j) = Part(b, j)
    PROVE  Part(a, i) = Part(b, i)
<1> SUFFICES ASSUME Part(a, i) # Part(b, i) PROVE FALSE
  OBVIOUS
<1>1. PartLess(a, b, i) \/ PartLess(b, a, i)
  BY PartTotal
<1>2. \A j \in 1..(i - 1) : Part(b, j) = Part(a, j)
  OBVIOUS
<1> QED
  BY <1>1, <1>2 DEF Tied, Less

\* cmp answers Equal exactly when every part it consults is equal.
THEOREM TiedIsEqualParts ==
    ASSUME NEW a, NEW b, IsPath(a), IsPath(b)
    PROVE  Tied(a, b) <=> \A i \in Keys : Part(a, i) = Part(b, i)
<1>1. ASSUME Tied(a, b) PROVE \A i \in Keys : Part(a, i) = Part(b, i)
  <2> DEFINE Eq(i) == Part(a, i) = Part(b, i)
  <2>1. Eq(1)
    BY <1>1, NextPartEqual DEF Keys
  <2>2. Eq(2)
    BY <1>1, <2>1, NextPartEqual DEF Keys
  <2>3. Eq(3)
    BY <1>1, <2>1, <2>2, NextPartEqual DEF Keys
  <2>4. Eq(4)
    BY <1>1, <2>1, <2>2, <2>3, NextPartEqual DEF Keys
  <2>5. Eq(5)
    BY <1>1, <2>1, <2>2, <2>3, <2>4, NextPartEqual DEF Keys
  <2>6. Eq(6)
    BY <1>1, <2>1, <2>2, <2>3, <2>4, <2>5, NextPartEqual DEF Keys
  <2>7. Eq(7)
    BY <1>1, <2>1, <2>2, <2>3, <2>4, <2>5, <2>6, NextPartEqual DEF Keys
  <2>8. Eq(8)
    BY <1>1, <2>1, <2>2, <2>3, <2>4, <2>5, <2>6, <2>7, NextPartEqual DEF Keys
  <2>9. Eq(9)
    BY <1>1, <2>1, <2>2, <2>3, <2>4, <2>5, <2>6, <2>7, <2>8, NextPartEqual DEF Keys
  <2> QED
    BY <2>1, <2>2, <2>3, <2>4, <2>5, <2>6, <2>7, <2>8, <2>9 DEF Keys
<1>2. ASSUME \A i \in Keys : Part(a, i) = Part(b, i) PROVE Tied(a, b)
  BY <1>2, PartTotal DEF Tied, Less
<1> QED
  BY <1>1, <1>2

\* Ties are transitive: with LessAsymmetric and LessTransitive this makes cmp a
\* strict weak order, the contract sort() has with Ord.
THEOREM TiedTransitive ==
    ASSUME NEW a, NEW b, NEW c, IsPath(a), IsPath(b), IsPath(c), Tied(a, b), Tied(b, c)
    PROVE  Tied(a, c)
<1>1. \A i \in Keys : Part(a, i) = Part(b, i) /\ Part(b, i) = Part(c, i)
  BY TiedIsEqualParts
<1> QED
  BY <1>1, TiedIsEqualParts

\* Where cmp answers Equal, == answers true.  The converse is false.
THEOREM OrdAgreesWithEq ==
    ASSUME NEW a, NEW b, IsPath(a), IsPath(b), Tied(a, b)
    PROVE  SameAttributes(a, b)
<1>1. \A i \in Keys : Part(a, i) = Part(b, i)
  BY TiedIsEqualParts
<1>2. Part(a, 1) = Part(b, 1) /\ Part(a, 3) = Part(b, 3)
      /\ Part(a, 4) = Part(b, 4) /\ Part(a, 5) = Part(b, 5)
  BY <1>1 DEF Keys
<1> QED
  BY <1>2 DEF Part, SameAttributes

-----------------------------------------------------------------------------
(* Lists                                                                   *)

Elems(s) == {s[i] : i \in DOMAIN s}

-----------------------------------------------------------------------------
(* Counting                                                                *)

\* The first n numbers are n.
LEMMA FirstNumbers ==
    ASSUME NEW n \in Nat
    PROVE  IsFiniteSet(1..n) /\ Cardinality(1..n) = n
  BY FS_Interval

\* A subset that lacks an element is smaller.
LEMMA SmallerSubset ==
    ASSUME NEW S, IsFiniteSet(S), NEW T, T \subseteq S, NEW x \in S, x \notin T
    PROVE  IsFiniteSet(T) /\ Cardinality(T) < Cardinality(S)
           /\ Cardinality(T) \in Nat /\ Cardinality(S) \in Nat
<1>1. /\ IsFiniteSet(T) /\ Cardinality(T) <= Cardinality(S)
      /\ Cardinality(S) = Cardinality(T) => S = T
  BY FS_Subset
<1>2. Cardinality(T) \in Nat /\ Cardinality(S) \in Nat
  BY <1>1, FS_CardinalityType
<1> QED
  BY <1>1, <1>2

\* A numbering of a finite set that never repeats a number and stays within its
\* size uses every number up to it.
LEMMA NumberingIsOnto ==
    ASSUME NEW S, IsFiniteSet(S), NEW f \in [S -> 1..Cardinality(S)],
           \A x, y \in S : f[x] = f[y] => x = y,
           NEW k \in 1..Cardinality(S)
    PROVE  \E x \in S : f[x] = k
<1> DEFINE n == Cardinality(S)
<1>1. n \in Nat
  BY FS_CardinalityType
<1>2. f \in Injection(S, 1..n)
  BY Fun_IsInj
<1>3. IsFiniteSet(1..n) /\ Cardinality(1..n) = n
  BY <1>1, FirstNumbers
<1>4. f \in Surjection(S, 1..n)
  BY <1>2, <1>3, FS_Injection
<1>5. \A t \in 1..n : \E x \in S : f[x] = t
  <2> HIDE DEF n
  <2> QED BY <1>4, Fun_SurjectionProperties
<1> QED
  BY <1>5

-----------------------------------------------------------------------------
(* Positions                                                               *)

\* The rank of a position among those of a set.
Rank(S, i) == Cardinality({j \in S : j <= i})

\* A rank is between one and the size of the set, and grows with the position.
LEMMA RankType ==
    ASSUME NEW S, S \subseteq Nat, IsFiniteSet(S), NEW i \in S
    PROVE  Rank(S, i) \in 1..Cardinality(S)
<1> DEFINE T == {j \in S : j <= i}
<1>1. T \subseteq S /\ i \in T
  OBVIOUS
<1> HIDE DEF T
<1>2. /\ IsFiniteSet(T) /\ Cardinality(T) <= Cardinality(S)
  BY <1>1, FS_Subset
<1>3. Cardinality(T) \in Nat /\ Cardinality(S) \in Nat /\ Cardinality(T) # 0
  BY <1>1, <1>2, FS_CardinalityType, FS_EmptySet
<1>4. Rank(S, i) = Cardinality(T)
  BY DEF Rank, T
<1> QED
  BY <1>2, <1>3, <1>4

\* Ranks respect the order of positions.
LEMMA RankGrows ==
    ASSUME NEW S, S \subseteq Nat, IsFiniteSet(S), NEW i \in S, NEW j \in S, i < j
    PROVE  Rank(S, i) < Rank(S, j)
<1> DEFINE T(m) == {x \in S : x <= m}
<1>0. i \in Nat /\ j \in Nat /\ \A x \in S : x \in Nat
  OBVIOUS
<1>a. ASSUME NEW x \in T(i) PROVE x \in T(j)
  <2>1. x \in S /\ x <= i
    OBVIOUS
  <2>2. x \in Nat
    BY <2>1, <1>0
  <2>3. x <= j
    BY <2>1, <2>2, <1>0
  <2> QED
    BY <2>1, <2>3
<1>b. j \in T(j) /\ j \notin T(i) /\ T(j) \subseteq S
  BY <1>0
<1>1. T(i) \subseteq T(j) /\ j \in T(j) /\ j \notin T(i) /\ T(j) \subseteq S
  BY <1>a, <1>b
<1>2. Rank(S, i) = Cardinality(T(i)) /\ Rank(S, j) = Cardinality(T(j))
  BY DEF Rank
<1> HIDE DEF T
<1>3. IsFiniteSet(T(j))
  BY <1>1, FS_Subset
<1>4. Cardinality(T(i)) < Cardinality(T(j))
  BY <1>1, <1>3, SmallerSubset
<1> QED
  BY <1>2, <1>4

\* Nth finds the position of every rank.
LEMMA NthType ==
    ASSUME NEW S, S \subseteq Nat, IsFiniteSet(S), NEW k \in 1..Cardinality(S)
    PROVE  Nth(S, k) \in S /\ Rank(S, Nth(S, k)) = k
<1> DEFINE f == [i \in S |-> Rank(S, i)]
<1>1. f \in [S -> 1..Cardinality(S)]
  BY RankType
<1>2. ASSUME NEW x \in S, NEW y \in S, f[x] = f[y] PROVE x = y
  <2>1. Rank(S, x) = Rank(S, y)
    BY <1>2
  <2>2. Rank(S, x) \in 1..Cardinality(S) /\ Cardinality(S) \in Nat
    BY RankType, FS_CardinalityType
  <2>3. Rank(S, x) \in Nat /\ x \in Nat /\ y \in Nat
    BY <2>2
  <2>4. x < y => Rank(S, x) < Rank(S, y)
    BY RankGrows
  <2>5. y < x => Rank(S, y) < Rank(S, x)
    BY RankGrows
  <2> QED
    BY <2>1, <2>3, <2>4, <2>5
<1>3. \E i \in S : f[i] = k
  <2> HIDE DEF f
  <2> QED
    BY <1>1, <1>2, NumberingIsOnto
<1>4. \E i \in S : Cardinality({j \in S : j <= i}) = k
  BY <1>3 DEF Rank
<1> QED
  BY <1>4 DEF Nth, Rank

\* It keeps their order,
LEMMA NthGrows ==
    ASSUME NEW S, S \subseteq Nat, IsFiniteSet(S),
           NEW k \in 1..Cardinality(S), NEW l \in 1..Cardinality(S), k < l
    PROVE  Nth(S, k) < Nth(S, l)
<1>1. /\ Nth(S, k) \in S /\ Rank(S, Nth(S, k)) = k
      /\ Nth(S, l) \in S /\ Rank(S, Nth(S, l)) = l
  BY NthType
<1>a. Cardinality(S) \in Nat
  BY FS_CardinalityType
<1>b. k \in Nat /\ l \in Nat
  BY <1>a
<1>2. Nth(S, k) \in Nat /\ Nth(S, l) \in Nat /\ k \in Nat /\ l \in Nat
  BY <1>1, <1>b
<1>3. ASSUME Nth(S, l) < Nth(S, k) PROVE FALSE
  <2>1. Rank(S, Nth(S, l)) < Rank(S, Nth(S, k))
    BY <1>1, <1>3, RankGrows
  <2> QED
    BY <2>1, <1>1, <1>2
<1>4. Nth(S, l) # Nth(S, k)
  BY <1>1, <1>2
<1> QED
  BY <1>2, <1>3, <1>4

\* and misses none.
LEMMA NthOfRank ==
    ASSUME NEW S, S \subseteq Nat, IsFiniteSet(S), NEW i \in S
    PROVE  Nth(S, Rank(S, i)) = i
<1> DEFINE k == Rank(S, i)
<1>1. k \in 1..Cardinality(S)
  BY RankType
<1>2. Nth(S, k) \in S /\ Rank(S, Nth(S, k)) = k
  BY <1>1, NthType
<1>a. Cardinality(S) \in Nat
  BY FS_CardinalityType
<1>b. k \in Nat
  BY <1>1, <1>a
<1>c. i \in Nat /\ Nth(S, k) \in Nat
  BY <1>2
<1>3. k \in Nat /\ i \in Nat /\ Nth(S, k) \in Nat
  BY <1>b, <1>c
<1>4. Nth(S, k) < i => Rank(S, Nth(S, k)) < Rank(S, i)
  BY <1>2, RankGrows
<1>5. i < Nth(S, k) => Rank(S, i) < Rank(S, Nth(S, k))
  BY <1>2, RankGrows
<1> QED
  BY <1>2, <1>3, <1>4, <1>5

\* The first and the last position of a set.
LEMMA NthEnds ==
    ASSUME NEW S, S \subseteq Nat, IsFiniteSet(S), S # {}
    PROVE  /\ Nth(S, 1) \in S /\ \A i \in S : Nth(S, 1) <= i
           /\ Nth(S, Cardinality(S)) \in S /\ \A i \in S : i <= Nth(S, Cardinality(S))
<1> DEFINE c == Cardinality(S)
<1>1. c \in Nat /\ c # 0
  BY FS_CardinalityType, FS_EmptySet
<1>2. 1 \in 1..c /\ c \in 1..c
  BY <1>1
<1>3. Nth(S, 1) \in S /\ Nth(S, c) \in S
  BY <1>2, NthType
<1>4. ASSUME NEW i \in S PROVE Nth(S, 1) <= i /\ i <= Nth(S, c)
  <2>1. Rank(S, i) \in 1..c /\ Nth(S, Rank(S, i)) = i
    BY RankType, NthOfRank
  <2>2. Rank(S, i) = 1 \/ 1 < Rank(S, i)
    BY <2>1, <1>1
  <2>3. Rank(S, i) = c \/ Rank(S, i) < c
    BY <2>1, <1>1
  <2>4. 1 < Rank(S, i) => Nth(S, 1) < Nth(S, Rank(S, i))
    BY <1>2, <2>1, NthGrows
  <2>5. Rank(S, i) < c => Nth(S, Rank(S, i)) < Nth(S, c)
    BY <1>2, <2>1, NthGrows
  <2>6. i \in Nat /\ Nth(S, 1) \in Nat /\ Nth(S, c) \in Nat
    BY <1>3
  <2> QED
    BY <2>1, <2>2, <2>3, <2>4, <2>5, <2>6
<1> QED
  BY <1>3, <1>4

-----------------------------------------------------------------------------
(* The order of a list                                                     *)

IsPathList(s) == s \in Seq(Elems(s)) /\ \A a \in Elems(s) : IsPath(a)

\* Nothing is less than itself, and a path is less than all that its betters tie
\* with or are less than.
LEMMA LessIrreflexive == ASSUME NEW a, IsPath(a) PROVE ~Less(a, a) /\ Tied(a, a)
  BY LessAsymmetric DEF Tied

\* A tie may replace the right side of a comparison,
LEMMA LessThenTied ==
    ASSUME NEW a, NEW b, NEW c, IsPath(a), IsPath(b), IsPath(c), Less(a, b), Tied(b, c)
    PROVE  Less(a, c)
<1>1. CASE Less(c, a)
  BY <1>1, LessTransitive DEF Tied
<1>2. CASE Tied(a, c)
  <2>1. Tied(c, b)
    BY DEF Tied
  <2>2. Tied(a, b)
    BY <1>2, <2>1, TiedTransitive
  <2> QED
    BY <2>2 DEF Tied
<1> QED
  BY <1>1, <1>2 DEF Tied

\* and the left side.
LEMMA TiedThenLess ==
    ASSUME NEW a, NEW b, NEW c, IsPath(a), IsPath(b), IsPath(c), Tied(a, b), Less(b, c)
    PROVE  Less(a, c)
<1>1. CASE Less(c, a)
  BY <1>1, LessTransitive DEF Tied
<1>2. CASE Tied(a, c)
  <2>1. Tied(b, a)
    BY DEF Tied
  <2>2. Tied(b, c)
    BY <1>2, <2>1, TiedTransitive
  <2> QED
    BY <2>2 DEF Tied
<1> QED
  BY <1>1, <1>2 DEF Tied

\* Not being less is transitive: what a list ordered in neighbours needs.
LEMMA NotLessTransitive ==
    ASSUME NEW a, NEW b, NEW c, IsPath(a), IsPath(b), IsPath(c), ~Less(a, b), ~Less(b, c)
    PROVE  ~Less(a, c)
<1> SUFFICES ASSUME Less(a, c) PROVE FALSE
  OBVIOUS
<1>1. CASE Less(b, a)
  BY <1>1, LessTransitive
<1>2. CASE Tied(a, b)
  <2>1. Tied(b, a)
    BY <1>2 DEF Tied
  <2> QED
    BY <2>1, TiedThenLess
<1> QED
  BY <1>1, <1>2 DEF Tied

\* The positions that sort() and reverse() put before position i.
Ahead(s, i) == {j \in DOMAIN s : Less(s[i], s[j]) \/ (Tied(s[i], s[j]) /\ j > i)}

\* They are a strict total order on the positions.
LEMMA AheadIrreflexive ==
    ASSUME NEW s, IsPathList(s), NEW i \in DOMAIN s
    PROVE  i \notin Ahead(s, i)
<1>1. DOMAIN s \subseteq Nat /\ IsPath(s[i])
  BY DEF IsPathList, Elems
<1>2. i \in Nat /\ ~(i > i)
  BY <1>1
<1> QED
  BY <1>1, <1>2, LessIrreflexive DEF Ahead

\* Of two positions one is ahead of the other.
LEMMA AheadTotal ==
    ASSUME NEW s, IsPathList(s), NEW i \in DOMAIN s, NEW j \in DOMAIN s, i # j
    PROVE  j \in Ahead(s, i) \/ i \in Ahead(s, j)
<1>1. i \in Nat /\ j \in Nat
  BY DEF IsPathList
<1>2. i < j \/ j < i
  BY <1>1
<1> QED
  BY <1>1, <1>2 DEF Ahead, Tied

\* Being ahead is transitive.
LEMMA AheadTransitive ==
    ASSUME NEW s, IsPathList(s), NEW i \in DOMAIN s, NEW j \in Ahead(s, i),
           NEW k \in Ahead(s, j)
    PROVE  k \in Ahead(s, i)
<1>1. /\ i \in DOMAIN s /\ j \in DOMAIN s /\ k \in DOMAIN s
      /\ i \in Nat /\ j \in Nat /\ k \in Nat
      /\ IsPath(s[i]) /\ IsPath(s[j]) /\ IsPath(s[k])
  BY DEF IsPathList, Elems, Ahead
<1>2. CASE Less(s[i], s[j]) /\ Less(s[j], s[k])
  BY <1>1, <1>2, LessTransitive DEF Ahead
<1>3. CASE Less(s[i], s[j]) /\ Tied(s[j], s[k])
  BY <1>1, <1>3, LessThenTied DEF Ahead
<1>4. CASE Tied(s[i], s[j]) /\ Less(s[j], s[k])
  BY <1>1, <1>4, TiedThenLess DEF Ahead
<1>5. CASE Tied(s[i], s[j]) /\ Tied(s[j], s[k]) /\ j > i /\ k > j
  <2>1. Tied(s[i], s[k])
    BY <1>1, <1>5, TiedTransitive
  <2>2. k > i
    BY <1>1, <1>5
  <2> QED
    BY <1>1, <2>1, <2>2 DEF Ahead
<1> QED
  BY <1>2, <1>3, <1>4, <1>5 DEF Ahead

\* A position that is ahead has a smaller place.
LEMMA PlaceGrows ==
    ASSUME NEW s, IsPathList(s), NEW i \in DOMAIN s, NEW j \in Ahead(s, i)
    PROVE  Place(s, j) < Place(s, i)
<1>1. DOMAIN s = 1..Len(s) /\ Len(s) \in Nat /\ j \in DOMAIN s
  BY LenProperties DEF IsPathList, Ahead
<1>2. IsFiniteSet(DOMAIN s)
  BY <1>1, FirstNumbers
<1>3. Ahead(s, i) \subseteq DOMAIN s /\ IsFiniteSet(Ahead(s, i))
  BY <1>2, FS_Subset DEF Ahead
<1>4. Ahead(s, j) \subseteq Ahead(s, i) /\ j \notin Ahead(s, j)
  BY <1>1, AheadTransitive, AheadIrreflexive
<1>5. /\ Cardinality(Ahead(s, j)) < Cardinality(Ahead(s, i))
      /\ Cardinality(Ahead(s, j)) \in Nat /\ Cardinality(Ahead(s, i)) \in Nat
  BY <1>3, <1>4, SmallerSubset
<1>6. /\ Place(s, i) = 1 + Cardinality(Ahead(s, i))
      /\ Place(s, j) = 1 + Cardinality(Ahead(s, j))
  BY DEF Place, Ahead
<1> QED
  BY <1>5, <1>6

\* Places are positions,
LEMMA PlaceType ==
    ASSUME NEW s, IsPathList(s), NEW i \in DOMAIN s
    PROVE  Place(s, i) \in DOMAIN s
<1>1. DOMAIN s = 1..Len(s) /\ Len(s) \in Nat
  BY LenProperties DEF IsPathList
<1>2. IsFiniteSet(DOMAIN s) /\ Cardinality(DOMAIN s) = Len(s)
  BY <1>1, FirstNumbers
<1>3. Ahead(s, i) \subseteq DOMAIN s /\ i \notin Ahead(s, i)
  BY AheadIrreflexive DEF Ahead
<1>4. Cardinality(Ahead(s, i)) < Len(s) /\ Cardinality(Ahead(s, i)) \in Nat
  BY <1>2, <1>3, SmallerSubset
<1>5. Place(s, i) = 1 + Cardinality(Ahead(s, i))
  BY DEF Place, Ahead
<1> QED
  BY <1>1, <1>4, <1>5

\* and every position is the place of one: sort() loses nothing.
LEMMA PlaceOnto ==
    ASSUME NEW s, IsPathList(s), NEW k \in DOMAIN s
    PROVE  \E i \in DOMAIN s : Place(s, i) = k
<1>1. DOMAIN s = 1..Len(s) /\ Len(s) \in Nat
  BY LenProperties DEF IsPathList
<1>2. IsFiniteSet(DOMAIN s) /\ Cardinality(DOMAIN s) = Len(s)
  BY <1>1, FirstNumbers
<1> DEFINE f == [i \in DOMAIN s |-> Place(s, i)]
<1>3. f \in [DOMAIN s -> 1..Cardinality(DOMAIN s)]
  BY <1>1, <1>2, PlaceType
<1>4. ASSUME NEW i \in DOMAIN s, NEW j \in DOMAIN s, f[i] = f[j] PROVE i = j
  <2>1. Place(s, i) = Place(s, j)
    BY <1>4
  <2>2. Place(s, i) \in Nat
    BY <1>1, PlaceType
  <2>3. j \notin Ahead(s, i) /\ i \notin Ahead(s, j)
    BY <2>1, <2>2, PlaceGrows
  <2> QED
    BY <2>3, AheadTotal
<1>5. k \in 1..Cardinality(DOMAIN s)
  BY <1>1, <1>2
<1>6. \E i \in DOMAIN s : f[i] = k
  <2> HIDE DEF f
  <2> QED
    BY <1>2, <1>3, <1>4, <1>5, NumberingIsOnto
<1> QED
  BY <1>6

-----------------------------------------------------------------------------
(* The theorems                                                            *)

\* sort() and reverse() rearrange a list: as long, the same paths.
THEOREM SortRearranges ==
    ASSUME NEW s, IsPathList(s)
    PROVE  /\ Elems(SortReverse(s)) = Elems(s)
           /\ DOMAIN SortReverse(s) = DOMAIN s /\ IsPathList(SortReverse(s))
<1> DEFINE t == SortReverse(s)
           src(k) == CHOOSE i \in DOMAIN s : Place(s, i) = k
<1>1. DOMAIN s = 1..Len(s) /\ Len(s) \in Nat
  BY LenProperties DEF IsPathList
<1>2. ASSUME NEW k \in DOMAIN s PROVE src(k) \in DOMAIN s /\ Place(s, src(k)) = k
  BY PlaceOnto
<1>3. DOMAIN t = DOMAIN s /\ \A k \in DOMAIN s : t[k] = s[src(k)]
  BY DEF SortReverse
<1>4. Elems(t) \subseteq Elems(s)
  BY <1>2, <1>3 DEF Elems
<1>5. ASSUME NEW i \in DOMAIN s PROVE s[i] \in Elems(t)
  <2> DEFINE k == Place(s, i)
  <2>1. k \in DOMAIN s
    BY PlaceType
  <2>2. src(k) \in DOMAIN s /\ Place(s, src(k)) = k
    BY <2>1, <1>2
  <2>3. k \in Nat
    BY <1>1, <2>1
  <2>4. src(k) = i
    <3>1. i \notin Ahead(s, src(k)) /\ src(k) \notin Ahead(s, i)
      BY <2>2, <2>3, PlaceGrows
    <3> QED
      BY <2>2, <3>1, AheadTotal
  <2>5. t[k] = s[i]
    BY <1>3, <2>1, <2>4
  <2> QED
    BY <1>3, <2>1, <2>5 DEF Elems
<1>6. Elems(t) = Elems(s)
  BY <1>4, <1>5 DEF Elems
<1>7. t \in Seq(Elems(s))
  <2>1. t = [k \in 1..Len(s) |-> s[src(k)]]
    BY <1>1 DEF SortReverse
  <2>2. \A k \in 1..Len(s) : s[src(k)] \in Elems(s)
    BY <1>1, <1>2 DEF Elems
  <2> HIDE DEF t, src
  <2>3. t \in [1..Len(s) -> Elems(s)]
    BY <2>1, <2>2
  <2> QED
    BY <1>1, <2>3, SeqDef
<1> QED
  BY <1>3, <1>6, <1>7 DEF IsPathList

\* and the result is in order of preference, whatever the order before.
THEOREM SortSorts ==
    ASSUME NEW s, IsPathList(s)
    PROVE  Descending(SortReverse(s))
<1> DEFINE t == SortReverse(s)
           src(k) == CHOOSE i \in DOMAIN s : Place(s, i) = k
<1>1. DOMAIN s = 1..Len(s) /\ Len(s) \in Nat
  BY LenProperties DEF IsPathList
<1>2. ASSUME NEW k \in DOMAIN s PROVE src(k) \in DOMAIN s /\ Place(s, src(k)) = k
  BY PlaceOnto
<1>3. DOMAIN t = DOMAIN s /\ \A k \in DOMAIN s : t[k] = s[src(k)]
  BY DEF SortReverse
<1> SUFFICES ASSUME NEW k \in DOMAIN s, NEW l \in DOMAIN s, k < l, Less(t[k], t[l])
             PROVE  FALSE
  BY <1>3 DEF Descending
<1>4. src(l) \in Ahead(s, src(k))
  BY <1>2, <1>3 DEF Ahead
<1>5. Place(s, src(l)) < Place(s, src(k))
  BY <1>2, <1>4, PlaceGrows
<1>6. l < k /\ k \in Nat /\ l \in Nat
  BY <1>1, <1>2, <1>5
<1> QED
  BY <1>6

\* A list is the empty one if it has no path.
LEMMA EmptyList ==
    ASSUME NEW s, IsPathList(s)
    PROVE  s = <<>> <=> Elems(s) = {}
<1>1. DOMAIN s = 1..Len(s) /\ Len(s) \in Nat
  BY LenProperties DEF IsPathList
<1>2. CASE s = <<>>
  BY <1>2 DEF Elems
<1>3. CASE s # <<>>
  <2>1. Len(s) # 0
    BY <1>3, EmptySeq DEF IsPathList
  <2>2. 1 \in DOMAIN s
    BY <1>1, <2>1
  <2> QED
    BY <1>3, <2>2 DEF Elems
<1> QED
  BY <1>2, <1>3

\* The positions of any kind of path can be counted.
LEMMA Positions ==
    ASSUME NEW s, IsPathList(s), NEW S, S \subseteq DOMAIN s
    PROVE  S \subseteq Nat /\ IsFiniteSet(S) /\ Cardinality(S) \in Nat
<1>1. DOMAIN s = 1..Len(s) /\ Len(s) \in Nat
  BY LenProperties DEF IsPathList
<1>2. S \subseteq Nat
  BY <1>1
<1>3. IsFiniteSet(S)
  BY <1>1, FirstNumbers, FS_Subset
<1> QED
  BY <1>2, <1>3, FS_CardinalityType

\* retain() drops the paths of one peer and no others, and keeps the order.
THEOREM RetainDrops ==
    ASSUME NEW s, IsPathList(s), NEW rid
    PROVE  /\ IsPathList(Retained(s, rid))
           /\ Elems(Retained(s, rid)) = {a \in Elems(s) : a.peer_rid # rid}
           /\ Descending(s) => Descending(Retained(s, rid))
<1> DEFINE K == {i \in DOMAIN s : ~is_from_neighbor(s[i], rid)}
           c == Cardinality(K)
           t == Retained(s, rid)
<1>1. K \subseteq DOMAIN s /\ K \subseteq Nat /\ IsFiniteSet(K) /\ c \in Nat
  BY Positions
<1>2. t = [k \in 1..c |-> s[Nth(K, k)]]
  BY DEF Retained
<1>a. \A i \in K : i \in DOMAIN s /\ s[i].peer_rid # rid
  BY DEF is_from_neighbor
<1>b. \A i \in DOMAIN s : s[i].peer_rid # rid => i \in K
  BY DEF is_from_neighbor
<1> HIDE DEF K, t
<1>3. ASSUME NEW k \in 1..c PROVE Nth(K, k) \in K
  BY <1>1, NthType
<1>4. \A k \in 1..c : t[k] \in Elems(s) /\ t[k].peer_rid # rid
  BY <1>2, <1>3, <1>a DEF Elems
<1>5. ASSUME NEW i \in DOMAIN s, s[i].peer_rid # rid PROVE s[i] \in Elems(t)
  <2>1. i \in K
    BY <1>5, <1>b
  <2>2. Rank(K, i) \in 1..c /\ Nth(K, Rank(K, i)) = i
    BY <1>1, <2>1, RankType, NthOfRank
  <2>3. Rank(K, i) \in DOMAIN t /\ t[Rank(K, i)] = s[i]
    BY <1>2, <2>2
  <2> QED
    BY <2>3 DEF Elems
<1>6. Elems(t) = {a \in Elems(s) : a.peer_rid # rid}
  <2>1. DOMAIN t = 1..c
    BY <1>2
  <2>2. Elems(t) \subseteq {a \in Elems(s) : a.peer_rid # rid}
    BY <1>4, <2>1 DEF Elems
  <2>3. {a \in Elems(s) : a.peer_rid # rid} \subseteq Elems(t)
    BY <1>5 DEF Elems
  <2> QED
    BY <2>2, <2>3
<1>7. t \in Seq(Elems(t))
  <2>1. t \in [1..c -> Elems(t)]
    BY <1>2 DEF Elems
  <2> QED
    BY <1>1, <2>1, SeqDef
<1>8. IsPathList(t)
  BY <1>6, <1>7 DEF IsPathList
<1>9. ASSUME Descending(s) PROVE Descending(t)
  <2> SUFFICES ASSUME NEW k \in 1..c, NEW l \in 1..c, k < l PROVE ~Less(t[k], t[l])
    BY <1>2 DEF Descending
  <2>1. Nth(K, k) < Nth(K, l)
    BY <1>1, NthGrows
  <2>2. Nth(K, k) \in DOMAIN s /\ Nth(K, l) \in DOMAIN s
    BY <1>3, <1>a
  <2> QED
    BY <1>2, <1>9, <2>1, <2>2 DEF Descending
<1> QED
  BY <1>6, <1>8, <1>9 DEF t

-----------------------------------------------------------------------------
(* Tables                                                                  *)

PathsOf(table, n) == IF n \in DOMAIN table THEN Elems(table[n]) ELSE {}

\* No entry without a path, none out of order.
GoodTable(table) ==
    \A n \in DOMAIN table :
        IsPathList(table[n]) /\ Descending(table[n]) /\ table[n] # <<>>

\* Two tables differ by one path of one prefix, or by the paths that one prefix
\* has of one peer.
Adds(table, table2, n, a) ==
    /\ DOMAIN table2 = DOMAIN table \cup {n}
    /\ PathsOf(table2, n) = PathsOf(table, n) \cup {a}
    /\ \A m : m # n => PathsOf(table2, m) = PathsOf(table, m)

Drops(table, table2, n, rid) ==
    /\ DOMAIN table2 \subseteq DOMAIN table
    /\ PathsOf(table2, n) = {a \in PathsOf(table, n) : a.peer_rid # rid}
    /\ \A m : m # n => PathsOf(table2, m) = PathsOf(table, m)

\* In such a table a prefix is there if and only if it has a path.
LEMMA EntryHasPaths ==
    ASSUME NEW table, GoodTable(table), NEW n
    PROVE  n \in DOMAIN table <=> PathsOf(table, n) # {}
  BY EmptyList DEF GoodTable, PathsOf

\* What loc_rib_added does to the table.
THEOREM InsertedTable ==
    ASSUME NEW table, GoodTable(table), NEW n, NEW a, IsPath(a),
           NEW table2, table2 = Inserted(table, n, a)
    PROVE  GoodTable(table2) /\ Adds(table, table2, n, a)
<1> SUFFICES /\ GoodTable(table2)
             /\ DOMAIN table2 = DOMAIN table \cup {n}
             /\ PathsOf(table2, n) = PathsOf(table, n) \cup {a}
             /\ \A m : m # n => PathsOf(table2, m) = PathsOf(table, m)
  BY DEF Adds
<1>1. CASE n \in DOMAIN table
  <2> DEFINE s == table[n]
             u == Append(s, a)
             t == SortReverse(u)
  <2>1. IsPathList(s) /\ s \in Seq(Elems(s)) /\ Len(s) \in Nat /\ DOMAIN s = 1..Len(s)
    BY <1>1, LenProperties DEF GoodTable, IsPathList
  <2>2. /\ u \in Seq(Elems(s) \cup {a}) /\ Len(u) = Len(s) + 1 /\ u[Len(s) + 1] = a
        /\ \A i \in 1..Len(s) : u[i] = s[i]
    <3>1. s \in Seq(Elems(s) \cup {a})
      BY <2>1, SeqMonotonic
    <3> QED
      BY <3>1, AppendProperties
  <2>3. DOMAIN u = 1..(Len(s) + 1)
    BY <2>2, LenProperties
  <2>4. Elems(u) = Elems(s) \cup {a}
    <3>1. ASSUME NEW i \in DOMAIN u PROVE u[i] \in Elems(s) \cup {a}
      <4>1. i = Len(s) + 1 \/ i \in 1..Len(s)
        BY <2>1, <2>3
      <4> QED
        BY <4>1, <2>1, <2>2 DEF Elems
    <3>2. Len(s) + 1 \in DOMAIN u /\ \A i \in 1..Len(s) : i \in DOMAIN u
      BY <2>1, <2>3
    <3>3. a \in Elems(u)
      BY <2>2, <3>2 DEF Elems
    <3>4. Elems(s) \subseteq Elems(u)
      BY <2>1, <2>2, <3>2 DEF Elems
    <3>5. Elems(u) \subseteq Elems(s) \cup {a}
      BY <3>1 DEF Elems
    <3> QED
      BY <3>3, <3>4, <3>5
  <2>5. IsPathList(u)
    BY <2>1, <2>2, <2>4 DEF IsPathList
  <2>6. Elems(t) = Elems(s) \cup {a} /\ IsPathList(t) /\ Descending(t)
    BY <2>4, <2>5, SortRearranges, SortSorts
  <2>7. t # <<>>
    BY <2>6, EmptyList
  <2>8. table2 = [x \in DOMAIN table \cup {n} |-> IF x = n THEN t ELSE table[x]]
    BY <1>1 DEF Inserted, Put
  <2> HIDE DEF s, t
  <2> QED
    BY <1>1, <2>6, <2>7, <2>8 DEF GoodTable, PathsOf, s
<1>2. CASE n \notin DOMAIN table
  <2> DEFINE t == <<a>>
  <2>1. Elems(t) = {a} /\ t \in Seq({a}) /\ t # <<>>
    BY DEF Elems
  <2>2. IsPathList(t) /\ Descending(t)
    BY <2>1, LessIrreflexive DEF IsPathList, Descending
  <2>3. table2 = [x \in DOMAIN table \cup {n} |-> IF x = n THEN t ELSE table[x]]
    BY <1>2 DEF Inserted, Put
  <2> HIDE DEF t
  <2> QED
    BY <1>2, <2>1, <2>2, <2>3 DEF GoodTable, PathsOf
<1> QED
  BY <1>1, <1>2

\* What loc_rib_withdraw does to the table.
THEOREM WithdrawnTable ==
    ASSUME NEW table, GoodTable(table), NEW n \in DOMAIN table, NEW rid,
           NEW table2, table2 = Withdrawn(table, n, rid)
    PROVE  GoodTable(table2) /\ Drops(table, table2, n, rid)
<1> SUFFICES /\ GoodTable(table2)
             /\ DOMAIN table2 \subseteq DOMAIN table
             /\ PathsOf(table2, n) = {a \in PathsOf(table, n) : a.peer_rid # rid}
             /\ \A m : m # n => PathsOf(table2, m) = PathsOf(table, m)
  BY DEF Drops
<1> DEFINE t == Retained(table[n], rid)
<1>1. /\ IsPathList(t) /\ Descending(t)
      /\ Elems(t) = {a \in PathsOf(table, n) : a.peer_rid # rid}
  BY RetainDrops DEF GoodTable, PathsOf
<1>2. t = <<>> <=> Elems(t) = {}
  BY <1>1, EmptyList
<1>3. CASE t = <<>>
  <2>1. table2 = [x \in DOMAIN table \ {n} |-> table[x]]
    BY <1>3 DEF Withdrawn, Without
  <2> HIDE DEF t
  <2> QED
    BY <1>1, <1>2, <1>3, <2>1 DEF GoodTable, PathsOf
<1>4. CASE t # <<>>
  <2>1. table2 = [x \in DOMAIN table \cup {n} |-> IF x = n THEN t ELSE table[x]]
    BY <1>4 DEF Withdrawn, Put
  <2> HIDE DEF t
  <2> QED
    BY <1>1, <1>2, <1>4, <2>1 DEF GoodTable, PathsOf
<1> QED
  BY <1>3, <1>4
=============================================================================
