--------------------------- MODULE KeyOrderProofs ---------------------------
(***************************************************************************)
(* Facts about naturals, finite sets of keys in increasing order, the      *)
(* edits of a sequence, maps read off in key order, and folds: what the    *)
(* other proofs rest on.                                                   *)
(***************************************************************************)
EXTENDS KeyOrder, SequencesExt, TLAPS, FiniteSetTheorems, SequenceTheorems, WellFoundedInduction

(* Naturals *)

\* A nonempty set of naturals has a least element.
LEMMA Least ==
    ASSUME NEW S \in SUBSET Nat, S # {}
    PROVE  \E i \in S : \A j \in S : i <= j
<1> DEFINE R == {p \in Nat \X Nat : p[1] < p[2]}
<1>1. IsWellFoundedOn(R, Nat)
    BY NatLessThanWellFounded DEF OpToRel
<1>2. PICK i \in S : \A j \in S : ~(<<j, i>> \in R)
    BY <1>1, WFMin
<1>3. ASSUME NEW j \in S PROVE i <= j
  <2>1. i \in Nat /\ j \in Nat /\ <<j, i>> \in Nat \X Nat
      BY <1>2
  <2>2. ~(j < i)
      BY <1>2, <2>1
  <2> QED BY <2>1, <2>2
<1> QED BY <1>3

\* A set that holds 0 and, with a number, the next one, holds them all.
LEMMA Induction ==
    ASSUME NEW S \in SUBSET Nat, 0 \in S, \A n \in S : n + 1 \in S
    PROVE  S = Nat
<1> SUFFICES ASSUME Nat \ S # {} PROVE FALSE
    OBVIOUS
<1>1. PICK i \in Nat \ S : \A j \in Nat \ S : i <= j
  <2> DEFINE Rest == Nat \ S
  <2>1. Rest \in SUBSET Nat /\ Rest # {}
      OBVIOUS
  <2> HIDE DEF Rest
  <2>2. \E i \in Rest : \A j \in Rest : i <= j
      BY <2>1, Least
  <2> QED BY <2>2 DEF Rest
<1>2. i - 1 \in Nat
    BY <1>1
<1> QED BY <1>1, <1>2

LEMMA MinIs ==
    ASSUME NEW S \in SUBSET Nat, S # {}
    PROVE  Min(S) \in S /\ \A y \in S : Min(S) <= y
BY Least DEF Min

\* A finite set of naturals has a bound, and so a greatest element.
LEMMA FiniteIsBounded ==
    ASSUME NEW S \in SUBSET Nat, IsFiniteSet(S)
    PROVE  \E b \in Nat : \A x \in S : x <= b
<1> DEFINE Bounded(T) == \E b \in Nat : \A x \in T : x <= b
           Sizes == {n \in Nat : \A T \in SUBSET Nat : IsFiniteSet(T) /\ Cardinality(T) = n => Bounded(T)}
<1>1. 0 \in Sizes
    BY FS_EmptySet
<1>2. ASSUME NEW n \in Sizes
      PROVE  n + 1 \in Sizes
  <2> SUFFICES ASSUME NEW T \in SUBSET Nat, IsFiniteSet(T), Cardinality(T) = n + 1
               PROVE  Bounded(T)
      OBVIOUS
  <2>1. n \in Nat
      OBVIOUS
  <2>2. T # {}
      BY <2>1, FS_EmptySet
  <2>3. PICK x \in T : TRUE
      BY <2>2
  <2>4. IsFiniteSet(T \ {x}) /\ Cardinality(T \ {x}) = n
    <3> HIDE DEF Sizes
    <3>1. IsFiniteSet(T \ {x}) /\ Cardinality(T \ {x}) = IF x \in T THEN Cardinality(T) - 1 ELSE Cardinality(T)
        BY FS_RemoveElement
    <3> QED BY <2>1, <2>3, <3>1
  <2>5. PICK b \in Nat : \A y \in T \ {x} : y <= b
      BY <2>4
  <2>6. b + x \in Nat /\ \A y \in T : y <= b + x
      BY <2>5
  <2> QED BY <2>6
<1>3. Sizes = Nat
  <2> HIDE DEF Bounded
  <2>1. Sizes \in SUBSET Nat
      OBVIOUS
  <2> HIDE DEF Sizes
  <2> QED BY <1>1, <1>2, <2>1, Induction
<1>4. Cardinality(S) \in Nat
    BY FS_CardinalityType
<1> QED BY <1>3, <1>4

LEMMA MaxIs ==
    ASSUME NEW S \in SUBSET Nat, IsFiniteSet(S), S # {}
    PROVE  Max(S) \in S /\ \A y \in S : y <= Max(S)
<1> DEFINE Bounds == {b \in Nat : \A x \in S : x <= b}
<1>1. Bounds \in SUBSET Nat /\ Bounds # {}
    BY FiniteIsBounded
<1>2. PICK b \in Bounds : \A j \in Bounds : b <= j
  <2> HIDE DEF Bounds
  <2> QED BY <1>1, Least
<1>3. b \in S
  <2>1. SUFFICES ASSUME b \notin S PROVE FALSE
      OBVIOUS
  <2>2. \A x \in S : x < b
      BY <1>2, <2>1
  <2>3. b - 1 \in Bounds
    <3>1. PICK x \in S : x < b
        BY <2>2
    <3>2. b \in Nat /\ b - 1 \in Nat
        BY <1>2, <3>1
    <3>3. \A y \in S : y <= b - 1
        BY <2>2, <3>2
    <3> QED BY <3>2, <3>3
  <2> QED BY <1>2, <2>3
<1>4. \E x \in S : \A y \in S : x >= y
    BY <1>2, <1>3
<1> QED BY <1>4 DEF Max

\* A set of numbers up to n that holds with a number all below it is an initial segment.
LEMMA InitialSegment ==
    ASSUME NEW n \in Nat, NEW S \in SUBSET (1 .. n),
           \A i \in S : \A j \in 1 .. i : j \in S
    PROVE  /\ Cardinality(S) \in 0 .. n
           /\ S = 1 .. Cardinality(S)
<1> DEFINE Ends == {m \in Nat : m + 1 \notin S}
<1>1. n \in Ends
    OBVIOUS
<1>2. PICK m \in Ends : \A j \in Ends : m <= j
  <2>1. Ends \in SUBSET Nat /\ Ends # {}
      BY <1>1
  <2> HIDE DEF Ends
  <2> QED BY <2>1, Least
<1>3. \A i \in 1 .. m : i \in S
  <2> SUFFICES ASSUME NEW i \in 1 .. m PROVE i \in S
      OBVIOUS
  <2>1. i - 1 \in Nat /\ i - 1 < m
      BY <1>2
  <2> QED BY <1>2, <2>1
<1>4. \A i \in S : i <= m
  <2> SUFFICES ASSUME NEW i \in S, i > m PROVE FALSE
      BY <1>2
  <2>1. m + 1 \in 1 .. i
      BY <1>2
  <2> QED BY <1>2, <2>1
<1>5. S = 1 .. m
  <2> HIDE DEF Ends
  <2>1. m \in Nat /\ S \subseteq 1 .. n
      BY <1>2 DEF Ends
  <2>2. ASSUME NEW i \in 1 .. m PROVE i \in S
      BY <1>3
  <2>3. ASSUME NEW i \in S PROVE i \in 1 .. m
      BY <1>4, <2>1, <2>3
  <2> QED BY <2>2, <2>3
<1>6. Cardinality(S) = m
    BY <1>2, <1>5, FS_Interval
<1> QED BY <1>1, <1>2, <1>5, <1>6

-----------------------------------------------------------------------------
(* Finite sets in increasing order *)

\* How many elements of S are below x tells where x comes in S.
LEMMA Ranks ==
    ASSUME NEW S \in SUBSET Nat, IsFiniteSet(S)
    PROVE  /\ Cardinality(S) \in Nat
           /\ \A x \in S : Cardinality(Below(S, x)) \in 0 .. Cardinality(S) - 1
           /\ \A x, y \in S : x < y <=> Cardinality(Below(S, x)) < Cardinality(Below(S, y))
           /\ \A r \in 0 .. Cardinality(S) - 1 : \E x \in S : Cardinality(Below(S, x)) = r
<1> DEFINE n == Cardinality(S)
           rank == [x \in S |-> Cardinality(Below(S, x))]
<1>1. n \in Nat
    BY FS_CardinalityType
<1>2. ASSUME NEW x \in S
      PROVE  IsFiniteSet(Below(S, x)) /\ Cardinality(Below(S, x)) \in 0 .. n - 1
  <2>1. Below(S, x) \in SUBSET S /\ x \notin Below(S, x)
      BY DEF Below
  <2>2. IsFiniteSet(Below(S, x)) /\ Cardinality(Below(S, x)) <= n
      BY <2>1, FS_Subset
  <2>3. Cardinality(Below(S, x)) # n
      BY <2>1, FS_Subset
  <2>4. Cardinality(Below(S, x)) \in Nat
      BY <2>2, FS_CardinalityType
  <2> QED BY <1>1, <2>2, <2>3, <2>4
<1>3. ASSUME NEW x \in S, NEW y \in S, x < y
      PROVE  Cardinality(Below(S, x)) < Cardinality(Below(S, y))
  <2> DEFINE low == Below(S, x)
             high == Below(S, y)
  <2>1. IsFiniteSet(low) /\ IsFiniteSet(high) /\ Cardinality(low) \in Nat /\ Cardinality(high) \in Nat
      BY <1>1, <1>2
  <2>2. low \cup {x} \in SUBSET high /\ x \notin low
    <3>1. x \in Nat /\ y \in Nat /\ \A z \in S : z \in Nat
        OBVIOUS
    <3>2. \A z \in S : z < x => z < y
        BY <1>3, <3>1
    <3>3. x \in high /\ x \notin low
        BY <1>3, <3>1 DEF Below
    <3>4. \A z \in low : z \in high
        BY <3>2 DEF Below
    <3> HIDE DEF low, high
    <3> QED BY <3>3, <3>4
  <2> HIDE DEF low, high
  <2>3. Cardinality(low \cup {x}) = IF x \in low THEN Cardinality(low) ELSE Cardinality(low) + 1
      BY <2>1, FS_AddElement
  <2>4. Cardinality(low \cup {x}) <= Cardinality(high)
      BY <2>1, <2>2, FS_Subset
  <2>5. Cardinality(low) < Cardinality(high)
      BY <2>1, <2>2, <2>3, <2>4
  <2> QED BY <2>5 DEF low, high
<1>4. ASSUME NEW x \in S, NEW y \in S
      PROVE  x < y <=> Cardinality(Below(S, x)) < Cardinality(Below(S, y))
  <2>1. /\ Cardinality(Below(S, x)) \in Nat /\ Cardinality(Below(S, y)) \in Nat
        /\ x < y \/ x = y \/ y < x
      BY <1>1, <1>2
  <2>2. CASE x < y
      BY <1>3, <2>2
  <2>3. CASE y < x
    <3>1. Cardinality(Below(S, y)) < Cardinality(Below(S, x))
        BY <1>3, <2>3
    <3> QED BY <2>1, <2>3, <3>1
  <2>4. CASE x = y
      BY <2>1, <2>4
  <2> QED BY <2>1, <2>2, <2>3, <2>4
<1>5. rank \in Injection(S, 0 .. n - 1)
  <2>1. rank \in [S -> 0 .. n - 1]
      BY <1>2
  <2>2. ASSUME NEW x \in S, NEW y \in S, rank[x] = rank[y]
        PROVE  x = y
    <3>1. Cardinality(Below(S, x)) = Cardinality(Below(S, y)) /\ Cardinality(Below(S, x)) \in Nat
        BY <1>1, <1>2, <2>2
    <3>2. ~(x < y) /\ ~(y < x)
        BY <1>4, <3>1
    <3> QED BY <3>2
  <2> HIDE DEF rank
  <2> QED BY <2>1, <2>2 DEF Injection, IsInjective
<1>6. IsFiniteSet(0 .. n - 1) /\ Cardinality(0 .. n - 1) = n
  <2>1. 0 \in Int /\ n - 1 \in Int
      BY <1>1
  <2>2. IsFiniteSet(0 .. n - 1) /\ Cardinality(0 .. n - 1) = IF 0 > n - 1 THEN 0 ELSE n - 1 - 0 + 1
      BY <2>1, FS_Interval
  <2> QED BY <1>1, <2>2
<1>7. rank \in Surjection(S, 0 .. n - 1)
  <2> HIDE DEF rank
  <2> QED BY <1>5, <1>6, FS_Injection
<1>8. \A r \in 0 .. n - 1 : \E x \in S : rank[x] = r
  <2> HIDE DEF rank
  <2> QED BY <1>7 DEF Surjection
<1> QED BY <1>1, <1>2, <1>4, <1>8

\* A set of small numbers can be counted.
LEMMA CountRanks ==
    ASSUME NEW S \in SUBSET Nat, IsFiniteSet(S), NEW n \in 0 .. Cardinality(S)
    PROVE  Cardinality(Lowest(S, n)) = n /\ IsFiniteSet(Lowest(S, n))
<1> DEFINE rank == [x \in Lowest(S, n) |-> Cardinality(Below(S, x))]
           low == Lowest(S, n)
<1>1. n \in Nat /\ Cardinality(S) \in Nat
    BY Ranks
<1>2. low \in SUBSET S /\ IsFiniteSet(low)
  <2>1. low \in SUBSET S
      BY DEF Lowest
  <2> HIDE DEF low
  <2> QED BY <2>1, FS_Subset
<1>3. rank \in [low -> 0 .. n - 1]
  <2> SUFFICES ASSUME NEW x \in low PROVE Cardinality(Below(S, x)) \in 0 .. n - 1
      OBVIOUS
  <2>1. x \in S /\ Cardinality(Below(S, x)) < n
      BY DEF Lowest
  <2>2. Cardinality(Below(S, x)) \in 0 .. Cardinality(S) - 1
      BY <2>1, Ranks
  <2> QED BY <1>1, <2>1, <2>2
<1>4. ASSUME NEW x \in low, NEW y \in low, rank[x] = rank[y]
      PROVE  x = y
  <2>1. x \in S /\ y \in S /\ x \in Nat /\ y \in Nat
      BY <1>2
  <2>2. Cardinality(Below(S, x)) = Cardinality(Below(S, y)) /\ Cardinality(Below(S, x)) \in Nat
      BY <1>4, <2>1, <1>1, Ranks
  <2>3. ~(x < y) /\ ~(y < x)
      BY <2>1, <2>2, Ranks
  <2> QED BY <2>1, <2>3
<1>5. ASSUME NEW r \in 0 .. n - 1
      PROVE  \E x \in low : rank[x] = r
  <2>1. r \in 0 .. Cardinality(S) - 1 /\ r < n
      BY <1>1
  <2>2. PICK x \in S : Cardinality(Below(S, x)) = r
      BY <2>1, Ranks
  <2>3. x \in low
      BY <2>1, <2>2 DEF Lowest
  <2> QED BY <2>2, <2>3
<1>6. rank \in Bijection(low, 0 .. n - 1)
  <2> HIDE DEF rank, low
  <2> QED BY <1>3, <1>4, <1>5 DEF Bijection, Injection, Surjection, IsInjective
<1>7. Cardinality(0 .. n - 1) = n
  <2>1. Cardinality(0 .. n - 1) = IF 0 > n - 1 THEN 0 ELSE n - 1 - 0 + 1
      BY <1>1, FS_Interval
  <2> QED BY <1>1, <2>1
<1>8. ExistsBijection(low, 0 .. n - 1)
    BY <1>6 DEF ExistsBijection
<1>9. Cardinality(0 .. n - 1) = Cardinality(low)
  <2> HIDE DEF low
  <2> QED BY <1>2, <1>8, FS_Bijection
<1> QED BY <1>2, <1>7, <1>9

\* The n smallest elements, and the others.
LEMMA LowestIs ==
    ASSUME NEW S \in SUBSET Nat, IsFiniteSet(S), NEW n \in 0 .. Cardinality(S)
    PROVE  LET low == Lowest(S, n)
               high == S \ low
           IN  /\ low \subseteq S /\ IsFiniteSet(low) /\ IsFiniteSet(high)
               /\ Cardinality(low) = n /\ Cardinality(high) = Cardinality(S) - n
               /\ \A x \in low, y \in high : x < y
<1> DEFINE low == Lowest(S, n)
           high == S \ low
<1>1. low \in SUBSET S /\ Cardinality(S) \in Nat /\ n \in Nat
    BY Ranks DEF Lowest
<1>2. IsFiniteSet(low) /\ Cardinality(low) = n
    BY CountRanks
<1>3. IsFiniteSet(high) /\ Cardinality(high) = Cardinality(S) - n
  <2>1. S \cap low = low
      BY <1>1
  <2> HIDE DEF low
  <2>2. IsFiniteSet(S \ low) /\ Cardinality(S \ low) = Cardinality(S) - Cardinality(S \cap low)
      BY FS_Difference
  <2> QED BY <1>2, <2>1, <2>2
<1>4. ASSUME NEW x \in low, NEW y \in high
      PROVE  x < y
  <2>1. /\ x \in S /\ y \in S /\ x \in Nat /\ y \in Nat
        /\ Cardinality(Below(S, x)) < n /\ ~(Cardinality(Below(S, y)) < n)
      BY DEF Lowest
  <2>2. Cardinality(Below(S, x)) \in Nat /\ Cardinality(Below(S, y)) \in Nat
      BY <2>1, <1>1, Ranks
  <2>3. Cardinality(Below(S, x)) < Cardinality(Below(S, y))
      BY <1>1, <2>1, <2>2
  <2> QED BY <2>1, <2>3, Ranks
<1> QED BY <1>1, <1>2, <1>3, <1>4

\* Ascending lists every element once, in increasing order.
LEMMA AscendingIs ==
    ASSUME NEW S \in SUBSET Nat, IsFiniteSet(S)
    PROVE  /\ Ascending(S) \in [1 .. Cardinality(S) -> S]
           /\ \A i \in 1 .. Cardinality(S) : Cardinality(Below(S, Ascending(S)[i])) = i - 1
           /\ \A x \in S : Ascending(S)[Cardinality(Below(S, x)) + 1] = x
<1> DEFINE n == Cardinality(S)
           rank(x) == Cardinality(Below(S, x))
<1>1. n \in Nat
    BY Ranks
<1>2. ASSUME NEW i \in 1 .. n
      PROVE  \E x \in S : rank(x) = i - 1
  <2>1. i - 1 \in 0 .. n - 1
      BY <1>1
  <2> QED BY <2>1, Ranks
<1>3. ASSUME NEW i \in 1 .. n
      PROVE  Ascending(S)[i] \in S /\ rank(Ascending(S)[i]) = i - 1
  <2>1. Ascending(S)[i] = CHOOSE x \in S : rank(x) = i - 1
      BY DEF Ascending
  <2> HIDE DEF rank
  <2> QED BY <1>2, <2>1
<1>4. Ascending(S) \in [1 .. n -> S]
  <2>1. DOMAIN Ascending(S) = 1 .. n /\ Ascending(S) = [i \in 1 .. n |-> Ascending(S)[i]]
      BY DEF Ascending
  <2> HIDE DEF n
  <2> QED BY <1>3, <2>1
<1>5. ASSUME NEW x \in S
      PROVE  Ascending(S)[rank(x) + 1] = x
  <2> DEFINE i == rank(x) + 1
             y == Ascending(S)[i]
  <2>1. rank(x) \in 0 .. n - 1
      BY Ranks
  <2>2. i \in 1 .. n /\ i - 1 = rank(x)
      BY <1>1, <2>1
  <2>3. y \in S /\ rank(y) = rank(x)
      BY <1>3, <2>2
  <2>4. ~(x < y) /\ ~(y < x)
    <3>1. rank(x) \in Nat
        BY <1>1, <2>1
    <3> HIDE DEF y
    <3> QED BY <2>3, <3>1, Ranks
  <2> HIDE DEF y
  <2>5. x \in Nat /\ y \in Nat
      BY <2>3
  <2>6. y = x
      BY <2>4, <2>5
  <2> QED BY <2>6 DEF y
<1> QED BY <1>3, <1>4, <1>5

\* Two sets one after the other.
LEMMA AscendingUnion ==
    ASSUME NEW S \in SUBSET Nat, IsFiniteSet(S), NEW T \in SUBSET Nat, IsFiniteSet(T),
           \A x \in S, y \in T : x < y
    PROVE  Ascending(S \cup T) = Ascending(S) \o Ascending(T)
<1> DEFINE U == S \cup T
           s == Ascending(S)
           t == Ascending(T)
           m == Cardinality(S)
           n == Cardinality(T)
<1>1. U \in SUBSET Nat /\ IsFiniteSet(U) /\ Cardinality(U) = m + n /\ m \in Nat /\ n \in Nat
  <2>1. IsFiniteSet(S \cup T) /\ Cardinality(S \cup T) = Cardinality(S) + Cardinality(T) - Cardinality(S \cap T)
      BY FS_Union
  <2>2. S \cap T = {}
      OBVIOUS
  <2>3. Cardinality(S \cap T) = 0
      BY <2>2, FS_EmptySet
  <2>4. m \in Nat /\ n \in Nat
      BY FS_CardinalityType
  <2> QED BY <2>1, <2>3, <2>4
<1>2. /\ s \in [1 .. m -> S] /\ t \in [1 .. n -> T]
      /\ \A i \in 1 .. m : Cardinality(Below(S, s[i])) = i - 1
      /\ \A i \in 1 .. n : Cardinality(Below(T, t[i])) = i - 1
    BY AscendingIs
<1>3. /\ Ascending(U) \in [1 .. m + n -> U]
      /\ \A x \in U : Ascending(U)[Cardinality(Below(U, x)) + 1] = x
  <2> HIDE DEF U
  <2> QED BY <1>1, AscendingIs
<1>4. ASSUME NEW x \in S
      PROVE  Below(U, x) = Below(S, x)
  <2>1. \A y \in T : ~(y < x)
    <3> SUFFICES ASSUME NEW y \in T PROVE ~(y < x)
        OBVIOUS
    <3>1. x < y /\ x \in Nat /\ y \in Nat
        OBVIOUS
    <3> QED BY <3>1
  <2> QED BY <2>1 DEF Below
<1>5. ASSUME NEW x \in T
      PROVE  Cardinality(Below(U, x)) = m + Cardinality(Below(T, x))
  <2>1. Below(U, x) = S \cup Below(T, x)
      BY DEF Below
  <2>2. S \cap Below(T, x) = {}
    <3>1. \A y \in S : y \notin T
      <4> SUFFICES ASSUME NEW y \in S, y \in T PROVE FALSE
          OBVIOUS
      <4>1. y < y /\ y \in Nat
          OBVIOUS
      <4> QED BY <4>1
    <3> QED BY <3>1 DEF Below
  <2>3. IsFiniteSet(Below(T, x)) /\ Cardinality(Below(T, x)) \in Nat
    <3>1. Below(T, x) \in SUBSET T
        BY DEF Below
    <3> QED BY <3>1, FS_Subset, FS_CardinalityType
  <2> DEFINE low == Below(T, x)
  <2> HIDE DEF low
  <2>4. Cardinality(S \cup low) = Cardinality(S) + Cardinality(low) - Cardinality(S \cap low)
      BY <2>3, FS_Union DEF low
  <2>5. Cardinality(S \cap low) = 0
      BY <2>2, FS_EmptySet DEF low
  <2>6. Cardinality(S \cup low) = m + Cardinality(low)
    <3>1. Cardinality(low) \in Nat
        BY <2>3 DEF low
    <3> QED BY <1>1, <2>4, <2>5, <3>1
  <2>7. Below(U, x) = S \cup low
      BY <2>1 DEF low
  <2> HIDE DEF m, U
  <2>8. Cardinality(Below(U, x)) = m + Cardinality(low)
      BY <2>6, <2>7
  <2> QED BY <2>8 DEF low
<1>6. s \in Seq(S) /\ t \in Seq(T) /\ Len(s) = m /\ Len(t) = n
  <2> HIDE DEF s, t, m, n
  <2> QED BY <1>1, <1>2, IsASeq
<1>7. /\ Len(s \o t) = m + n /\ DOMAIN (s \o t) = 1 .. m + n
      /\ \A i \in 1 .. m : (s \o t)[i] = s[i]
      /\ \A i \in m + 1 .. m + n : (s \o t)[i] = t[i - m]
  <2> HIDE DEF s, t, m, n
  <2>1. s \in Seq(U) /\ t \in Seq(U)
      BY <1>6
  <2> HIDE DEF U
  <2> QED BY <1>1, <1>6, <2>1, ConcatProperties, LenProperties
<1>8. ASSUME NEW i \in 1 .. m + n
      PROVE  Ascending(U)[i] = (s \o t)[i]
  <2>1. CASE i <= m
    <3>1. i \in 1 .. m /\ s[i] \in S
        BY <1>1, <1>2, <2>1
    <3>2. Cardinality(Below(U, s[i])) = i - 1
        BY <1>2, <1>4, <3>1
    <3>3. Ascending(U)[i - 1 + 1] = s[i]
      <4> HIDE DEF s
      <4> QED BY <1>3, <3>1, <3>2
    <3>4. i - 1 + 1 = i
        BY <1>1
    <3> QED BY <1>7, <3>1, <3>3, <3>4
  <2>2. CASE i > m
    <3>1. i - m \in 1 .. n /\ i \in m + 1 .. m + n
        BY <1>1, <2>2
    <3>2. t[i - m] \in T
        BY <1>2, <3>1
    <3>3. Cardinality(Below(T, t[i - m])) = i - m - 1
        BY <1>2, <3>1
    <3>4. Cardinality(Below(U, t[i - m])) + 1 = i
      <4> HIDE DEF t, m, n, U
      <4>1. Cardinality(Below(U, t[i - m])) = m + Cardinality(Below(T, t[i - m]))
          BY <1>5, <3>2
      <4> QED BY <1>1, <3>3, <4>1
    <3>5. Ascending(U)[Cardinality(Below(U, t[i - m])) + 1] = t[i - m]
      <4> HIDE DEF t
      <4> QED BY <1>3, <3>2
    <3> QED BY <1>7, <3>1, <3>4, <3>5
  <2> HIDE DEF m, n, s, t, U
  <2>3. i <= m \/ i > m
      BY <1>1
  <2> QED BY <2>1, <2>2, <2>3
<1>9. Ascending(U) = s \o t
  <2> HIDE DEF s, t, m, n, U
  <2>1. s \in Seq(U) /\ t \in Seq(U)
      BY <1>6 DEF U
  <2>2. s \o t \in Seq(U)
      BY <2>1, ConcatProperties
  <2>3. Ascending(U) \in Seq(U) /\ Len(Ascending(U)) = m + n
      BY <1>1, <1>3, LenProperties
  <2> QED BY <1>7, <1>8, <2>2, <2>3, SeqEqual
<1> QED BY <1>9

-----------------------------------------------------------------------------
(* Edits of a sequence *)

LEMMA InsertAtIs ==
    ASSUME NEW T, NEW s \in Seq(T), NEW i \in 1 .. Len(s) + 1, NEW e \in T
    PROVE  /\ InsertAt(s, i, e) \in Seq(T) /\ Len(InsertAt(s, i, e)) = Len(s) + 1
           /\ \A j \in 1 .. Len(s) + 1 :
                 InsertAt(s, i, e)[j] = IF j < i THEN s[j] ELSE IF j = i THEN e ELSE s[j - 1]
<1> DEFINE a == SubSeq(s, 1, i - 1)
           b == <<e>>
           c == SubSeq(s, i, Len(s))
<1>1. Len(s) \in Nat /\ \A j \in 1 .. Len(s) : s[j] \in T
    BY LenProperties
<1>2. /\ a \in Seq(T) /\ Len(a) = i - 1 /\ \A j \in 1 .. i - 1 : a[j] = s[j]
      /\ c \in Seq(T) /\ Len(c) = Len(s) - i + 1 /\ \A j \in 1 .. Len(s) - i + 1 : c[j] = s[i + j - 1]
    BY <1>1, SubSeqProperties
<1>3. b \in Seq(T) /\ Len(b) = 1 /\ b[1] = e
    OBVIOUS
<1> HIDE DEF a, b, c
<1>4. /\ a \o b \in Seq(T) /\ Len(a \o b) = i
      /\ \A j \in 1 .. i : (a \o b)[j] = IF j < i THEN s[j] ELSE e
  <2>1. /\ a \o b \in Seq(T) /\ Len(a \o b) = Len(a) + Len(b)
        /\ \A j \in 1 .. Len(a) + Len(b) : (a \o b)[j] = IF j <= Len(a) THEN a[j] ELSE b[j - Len(a)]
      BY <1>2, <1>3, ConcatProperties
  <2>2. Len(a) + Len(b) = i /\ \A j \in 1 .. i : j - Len(a) = 1 \/ j <= Len(a)
      BY <1>1, <1>2, <1>3
  <2> QED BY <1>1, <1>2, <1>3, <2>1, <2>2
<1>5. /\ (a \o b) \o c \in Seq(T) /\ Len((a \o b) \o c) = Len(s) + 1
      /\ \A j \in 1 .. Len(s) + 1 : ((a \o b) \o c)[j] = IF j <= i THEN (a \o b)[j] ELSE c[j - i]
    BY <1>1, <1>2, <1>4, ConcatProperties
<1>6. InsertAt(s, i, e) = (a \o b) \o c
    BY DEF InsertAt, a, b, c
<1> QED BY <1>1, <1>2, <1>4, <1>5, <1>6

LEMMA RemoveAtIs ==
    ASSUME NEW T, NEW s \in Seq(T), NEW i \in 1 .. Len(s)
    PROVE  /\ RemoveAt(s, i) \in Seq(T) /\ Len(RemoveAt(s, i)) = Len(s) - 1
           /\ \A j \in 1 .. Len(s) - 1 : RemoveAt(s, i)[j] = IF j < i THEN s[j] ELSE s[j + 1]
<1> DEFINE a == SubSeq(s, 1, i - 1)
           c == SubSeq(s, i + 1, Len(s))
<1>1. Len(s) \in Nat /\ \A j \in 1 .. Len(s) : s[j] \in T
    BY LenProperties
<1>2. /\ a \in Seq(T) /\ Len(a) = i - 1 /\ \A j \in 1 .. i - 1 : a[j] = s[j]
      /\ c \in Seq(T) /\ Len(c) = Len(s) - i /\ \A j \in 1 .. Len(s) - i : c[j] = s[i + j]
    BY <1>1, SubSeqProperties
<1> HIDE DEF a, c
<1>3. /\ a \o c \in Seq(T) /\ Len(a \o c) = Len(s) - 1
      /\ \A j \in 1 .. Len(s) - 1 : (a \o c)[j] = IF j <= i - 1 THEN a[j] ELSE c[j - (i - 1)]
  <2>1. /\ a \o c \in Seq(T) /\ Len(a \o c) = Len(a) + Len(c)
        /\ \A j \in 1 .. Len(a) + Len(c) : (a \o c)[j] = IF j <= Len(a) THEN a[j] ELSE c[j - Len(a)]
      BY <1>2, ConcatProperties
  <2> QED BY <1>1, <1>2, <2>1
<1>4. RemoveAt(s, i) = a \o c
    BY DEF RemoveAt, a, c
<1> QED BY <1>1, <1>2, <1>3, <1>4

LEMMA ReplaceAtIs ==
    ASSUME NEW T, NEW s \in Seq(T), NEW i \in 1 .. Len(s), NEW e \in T
    PROVE  /\ ReplaceAt(s, i, e) \in Seq(T) /\ Len(ReplaceAt(s, i, e)) = Len(s)
           /\ \A j \in 1 .. Len(s) : ReplaceAt(s, i, e)[j] = IF j = i THEN e ELSE s[j]
BY ExceptSeq DEF ReplaceAt

LEMMA FrontIs ==
    ASSUME NEW T, NEW s \in Seq(T), s # <<>>
    PROVE  /\ Len(s) \in Nat \ {0}
           /\ Front(s) \in Seq(T) /\ Len(Front(s)) = Len(s) - 1
           /\ \A j \in 1 .. Len(s) - 1 : Front(s)[j] = s[j]
<1>1. Len(s) \in Nat \ {0} /\ \A j \in 1 .. Len(s) : s[j] \in T
    BY LenProperties, EmptySeq
<1>2. \A j \in 1 .. Len(s) - 1 : s[j] \in T
    BY <1>1
<1>3. /\ SubSeq(s, 1, Len(s) - 1) \in Seq(T)
      /\ Len(SubSeq(s, 1, Len(s) - 1)) = IF 1 <= Len(s) - 1 THEN Len(s) - 1 - 1 + 1 ELSE 0
      /\ \A j \in 1 .. Len(s) - 1 - 1 + 1 : SubSeq(s, 1, Len(s) - 1)[j] = s[1 + j - 1]
    BY <1>1, <1>2, SubSeqProperties
<1> DEFINE f == SubSeq(s, 1, Len(s) - 1)
<1> HIDE DEF f
<1>4. /\ f \in Seq(T) /\ Len(f) = IF 1 <= Len(s) - 1 THEN Len(s) - 1 - 1 + 1 ELSE 0
      /\ \A j \in 1 .. Len(s) - 1 - 1 + 1 : f[j] = s[1 + j - 1]
    BY <1>3 DEF f
<1>5. Len(f) = Len(s) - 1 /\ \A j \in 1 .. Len(s) - 1 : f[j] = s[j]
  <2>1. Len(f) = Len(s) - 1
    <3> DEFINE l == Len(s)
               k == Len(f)
    <3>1. l \in Nat \ {0} /\ k = IF 1 <= l - 1 THEN l - 1 - 1 + 1 ELSE 0
        BY <1>1, <1>4
    <3> HIDE DEF l, k
    <3>2. k = l - 1
        BY <3>1
    <3> QED BY <3>2 DEF l, k
  <2>2. ASSUME NEW j \in 1 .. Len(s) - 1 PROVE f[j] = s[j]
    <3>1. j \in 1 .. Len(s) - 1 - 1 + 1 /\ 1 + j - 1 = j
        BY <1>1
    <3> QED BY <1>4, <3>1
  <2> QED BY <2>1, <2>2
<1>6. Front(s) = f
    BY DEF Front, f
<1> QED BY <1>1, <1>4, <1>5, <1>6

LEMMA SubSeqIs ==
    ASSUME NEW T, NEW s \in Seq(T), NEW m \in 1 .. Len(s) + 1, NEW n \in m - 1 .. Len(s)
    PROVE  /\ SubSeq(s, m, n) \in Seq(T) /\ Len(SubSeq(s, m, n)) = n - m + 1
           /\ \A j \in 1 .. n - m + 1 : SubSeq(s, m, n)[j] = s[m + j - 1]
<1>1. Len(s) \in Nat /\ \A j \in 1 .. Len(s) : s[j] \in T
    BY LenProperties
<1> QED BY <1>1, SubSeqProperties

\* A sequence with one element put before it.
LEMMA PrependIs ==
    ASSUME NEW T, NEW s \in Seq(T), NEW e \in T
    PROVE  /\ <<e>> \o s \in Seq(T) /\ Len(<<e>> \o s) = Len(s) + 1
           /\ \A j \in 1 .. Len(s) + 1 : (<<e>> \o s)[j] = IF j = 1 THEN e ELSE s[j - 1]
<1>1. <<e>> \in Seq(T) /\ Len(<<e>>) = 1 /\ <<e>>[1] = e /\ Len(s) \in Nat BY LenProperties
<1> QED BY <1>1

\* Two sequences with an element put between them.
LEMMA JoinIs ==
    ASSUME NEW T, NEW s \in Seq(T), NEW t \in Seq(T), NEW e \in T
    PROVE  /\ Append(s, e) \o t \in Seq(T) /\ Len(Append(s, e) \o t) = Len(s) + 1 + Len(t)
           /\ \A j \in 1 .. Len(s) + 1 + Len(t) :
                 (Append(s, e) \o t)[j] = IF j < Len(s) + 1 THEN s[j] ELSE IF j = Len(s) + 1 THEN e ELSE t[j - (Len(s) + 1)]
<1> DEFINE u == Append(s, e)
<1>1. u \in Seq(T) /\ Len(u) = Len(s) + 1 /\ \A j \in 1 .. Len(s) + 1 : u[j] = IF j < Len(s) + 1 THEN s[j] ELSE e
    BY LenProperties
<1>2. Len(s) \in Nat /\ Len(t) \in Nat BY LenProperties
<1> HIDE DEF u
<1>3. u \o t \in Seq(T) /\ Len(u \o t) = Len(s) + 1 + Len(t) BY <1>1, <1>2
<1>4. ASSUME NEW j \in 1 .. Len(s) + 1 + Len(t)
      PROVE  (u \o t)[j] = IF j < Len(s) + 1 THEN s[j] ELSE IF j = Len(s) + 1 THEN e ELSE t[j - (Len(s) + 1)]
  <2>1. (u \o t)[j] = IF j <= Len(u) THEN u[j] ELSE t[j - Len(u)] BY <1>1, <1>2
  <2>2. CASE j <= Len(s) + 1
    <3>1. j \in 1 .. Len(s) + 1 /\ (j < Len(s) + 1 \/ j = Len(s) + 1) BY <2>2, <1>2
    <3> QED BY <3>1, <2>1, <2>2, <1>1, <1>2
  <2>3. CASE ~(j <= Len(s) + 1) BY <2>1, <2>3, <1>1, <1>2
  <2> QED BY <2>2, <2>3
<1> QED BY <1>3, <1>4 DEF u

LEMMA ConcatIs ==
    ASSUME NEW T, NEW s \in Seq(T), NEW t \in Seq(T)
    PROVE  /\ s \o t \in Seq(T) /\ Len(s \o t) = Len(s) + Len(t)
           /\ \A j \in 1 .. Len(s) + Len(t) : (s \o t)[j] = IF j <= Len(s) THEN s[j] ELSE t[j - Len(s)]
<1>1. Len(s) \in Nat /\ Len(t) \in Nat BY LenProperties
<1> QED BY <1>1

-----------------------------------------------------------------------------
(* Reading a function in key order *)

ReadOff(f, S) == [i \in DOMAIN Ascending(S) |-> f[Ascending(S)[i]]]

LEMMA ReadOffIs ==
    ASSUME NEW S \in SUBSET Nat, IsFiniteSet(S), NEW f, NEW V, \A x \in S : f[x] \in V
    PROVE  /\ ReadOff(f, S) \in Seq(V) /\ Len(ReadOff(f, S)) = Cardinality(S) /\ Cardinality(S) \in Nat
           /\ \A i \in 1 .. Cardinality(S) : Ascending(S)[i] \in S /\ ReadOff(f, S)[i] = f[Ascending(S)[i]]
<1> DEFINE s == Ascending(S)
           r == ReadOff(f, S)
           n == Cardinality(S)
<1>1. s \in [1 .. n -> S] /\ n \in Nat BY AscendingIs, FS_CardinalityType
<1>2. r \in [1 .. n -> V] /\ \A i \in 1 .. n : s[i] \in S /\ r[i] = f[s[i]] BY <1>1 DEF ReadOff
<1> HIDE DEF s, r, n
<1>3. r \in Seq(V) /\ Len(r) = n BY <1>1, <1>2
<1> QED BY <1>1, <1>2, <1>3 DEF s, r, n

LEMMA ReadOffEmpty ==
    ASSUME NEW f
    PROVE  ReadOff(f, {}) = <<>>
<1>1. Ascending({}) \in [1 .. Cardinality({}) -> {}] /\ Cardinality({}) = 0 BY AscendingIs, FS_EmptySet
<1>2. DOMAIN Ascending({}) = {} BY <1>1
<1> QED BY <1>2 DEF ReadOff

LEMMA ReadOffUnion ==
    ASSUME NEW S \in SUBSET Nat, IsFiniteSet(S), NEW T \in SUBSET Nat, IsFiniteSet(T),
           \A x \in S, y \in T : x < y, NEW f
    PROVE  ReadOff(f, S \cup T) = ReadOff(f, S) \o ReadOff(f, T)
<1> DEFINE U == S \cup T
           V == {f[x] : x \in U}
           m == Cardinality(S)
           n == Cardinality(T)
           s == Ascending(S)
           t == Ascending(T)
           a == ReadOff(f, S)
           b == ReadOff(f, T)
           c == ReadOff(f, U)
<1>1. U \in SUBSET Nat /\ IsFiniteSet(U) /\ \A x \in U : f[x] \in V BY FS_Union
<1>2. /\ a \in Seq(V) /\ Len(a) = m /\ m \in Nat /\ \A i \in 1 .. m : a[i] = f[s[i]] BY <1>1, ReadOffIs
<1>3. /\ b \in Seq(V) /\ Len(b) = n /\ n \in Nat /\ \A i \in 1 .. n : b[i] = f[t[i]] BY <1>1, ReadOffIs
<1>4. /\ c \in Seq(V) /\ Len(c) = Cardinality(U) /\ \A i \in 1 .. Cardinality(U) : c[i] = f[Ascending(U)[i]]
  <2> HIDE DEF U, V
  <2> QED BY <1>1, ReadOffIs
<1>5. Ascending(U) = s \o t BY AscendingUnion
<1>6. s \in Seq(U) /\ t \in Seq(U) /\ Len(s) = m /\ Len(t) = n
  <2>1. s \in [1 .. m -> S] /\ t \in [1 .. n -> T] BY AscendingIs
  <2> HIDE DEF s, t, m, n
  <2> QED BY <2>1, <1>2, <1>3
<1>7. Cardinality(U) = m + n
  <2>1. Ascending(U) \in [1 .. Cardinality(U) -> U] /\ Cardinality(U) \in Nat
      BY <1>1, AscendingIs, FS_CardinalityType
  <2> HIDE DEF U, s, t, m, n
  <2>2. Len(s \o t) = m + n /\ s \o t \in Seq(U) BY <1>6, ConcatProperties
  <2>3. Len(Ascending(U)) = Cardinality(U) BY <2>1
  <2> QED BY <2>2, <2>3, <1>5
<1> HIDE DEF U, V, m, n, s, t, a, b, c
<1>8. a \o b \in Seq(V) /\ Len(a \o b) = m + n BY <1>2, <1>3, ConcatProperties
<1>9. ASSUME NEW i \in 1 .. m + n PROVE c[i] = (a \o b)[i]
  <2>1. c[i] = f[(s \o t)[i]] BY <1>4, <1>5, <1>7
  <2>2. (s \o t)[i] = IF i <= m THEN s[i] ELSE t[i - m] BY <1>6, ConcatProperties
  <2>3. (a \o b)[i] = IF i <= m THEN a[i] ELSE b[i - m] BY <1>2, <1>3, ConcatProperties
  <2>4. CASE i <= m
    <3>1. i \in 1 .. m BY <1>2, <1>3, <2>4
    <3> QED BY <3>1, <2>1, <2>2, <2>3, <2>4, <1>2
  <2>5. CASE ~(i <= m)
    <3>1. i - m \in 1 .. n BY <1>2, <1>3, <2>5
    <3> QED BY <3>1, <2>1, <2>2, <2>3, <2>5, <1>3
  <2> QED BY <2>4, <2>5
<1>10. c = a \o b BY <1>4, <1>7, <1>8, <1>9, SeqEqual
<1> QED BY <1>10 DEF a, b, c, U

LEMMA ReadOffPrefix ==
    ASSUME NEW S \in SUBSET Nat, IsFiniteSet(S), NEW T \in SUBSET Nat, IsFiniteSet(T),
           \A x \in S, y \in T : x < y, NEW f
    PROVE  ReadOff(f, S) \in Prefixes(ReadOff(f, S \cup T))
<1> DEFINE V == {f[x] : x \in S \cup T}
           a == ReadOff(f, S)
           b == ReadOff(f, T)
           l == Len(a)
<1>1. a \in Seq(V) /\ b \in Seq(V) BY ReadOffIs
<1>2. ReadOff(f, S \cup T) = a \o b BY ReadOffUnion
<1> HIDE DEF V, a, b
<1>3. /\ l \in Nat /\ Len(b) \in Nat /\ a \o b \in Seq(V) /\ Len(a \o b) = l + Len(b)
      /\ \A i \in 1 .. l : (a \o b)[i] = a[i]
    BY <1>1, ConcatProperties, LenProperties
<1>4. SubSeq(a \o b, 1, l) = a
  <2> DEFINE c == SubSeq(a \o b, 1, l)
  <2>1. 1 \in 1 .. Len(a \o b) + 1 /\ l \in 1 - 1 .. Len(a \o b) BY <1>3
  <2>2. c \in Seq(V) /\ Len(c) = l - 1 + 1 /\ \A j \in 1 .. l - 1 + 1 : c[j] = (a \o b)[1 + j - 1]
    <3> HIDE DEF l
    <3> QED BY <1>3, <2>1, SubSeqIs
  <2> HIDE DEF c
  <2>3. Len(c) = l /\ \A j \in 1 .. l : c[j] = a[j] BY <1>3, <2>2
  <2> QED BY <1>1, <2>2, <2>3, SeqEqual DEF c
<1>5. l \in 0 .. Len(a \o b) BY <1>3
<1> QED BY <1>2, <1>4, <1>5 DEF Prefixes, a, b

-----------------------------------------------------------------------------
(* Folds over finite sets *)

\* A set of subsets that holds {}, and every other subset if it holds the ones with an element
\* less, holds all subsets.
LEMMA SubsetInduction ==
    ASSUME NEW Q, IsFiniteSet(Q), NEW Good \in SUBSET SUBSET Q, {} \in Good,
           \A s \in SUBSET Q : s # {} /\ (\A x \in s : s \ {x} \in Good) => s \in Good
    PROVE  Good = SUBSET Q
<1> DEFINE Sizes == {n \in Nat : \A s \in SUBSET Q : Cardinality(s) = n => s \in Good}
<1>1. \A s \in SUBSET Q : IsFiniteSet(s) /\ Cardinality(s) \in Nat
    BY FS_Subset, FS_CardinalityType
<1>2. 0 \in Sizes
    BY <1>1, FS_EmptySet
<1>3. ASSUME NEW n \in Sizes PROVE n + 1 \in Sizes
  <2>1. n \in Nat
      OBVIOUS
  <2>2. ASSUME NEW s \in SUBSET Q, Cardinality(s) = n + 1 PROVE s \in Good
    <3>1. s # {}
      <4>1. Cardinality({}) = 0 /\ n + 1 # 0
          BY <2>1, FS_EmptySet
      <4> QED BY <2>2, <4>1
    <3>2. ASSUME NEW x \in s PROVE s \ {x} \in Good
      <4>1. Cardinality(s \ {x}) = IF x \in s THEN Cardinality(s) - 1 ELSE Cardinality(s)
          BY <1>1, FS_RemoveElement
      <4>2. Cardinality(s \ {x}) = n
          BY <2>1, <2>2, <4>1
      <4> QED BY <4>2
    <3> QED BY <3>1, <3>2
  <2> QED BY <2>1, <2>2
<1> HIDE DEF Sizes
<1>4. Sizes = Nat
  <2>1. Sizes \in SUBSET Nat
      BY DEF Sizes
  <2> QED BY <1>2, <1>3, <2>1, Induction
<1>5. \A s \in SUBSET Q : s \in Good
    BY <1>1, <1>4 DEF Sizes
<1> QED BY <1>5

Chosen(s) == CHOOSE x \in s : TRUE
IsFold(f, Q, base, H) ==
    \A s \in SUBSET Q : f[s] = IF s = {} THEN base ELSE H[<<Chosen(s), f[s \ {Chosen(s)}]>>]

\* A fold that takes one element after the other into account is defined.
LEMMA FoldExists ==
    ASSUME NEW Q, IsFiniteSet(Q), NEW V, NEW base \in V, NEW H \in [Q \X V -> V]
    PROVE  \E f \in [SUBSET Q -> V] : IsFold(f, Q, base, H)
<1> DEFINE UpTo(n) == {s \in SUBSET Q : Cardinality(s) <= n}
           Is(f, n) == \A s \in UpTo(n) : f[s] = IF s = {} THEN base ELSE H[<<Chosen(s), f[s \ {Chosen(s)}]>>]
           Good == {n \in Nat : \E f \in [UpTo(n) -> V] : Is(f, n)}
<1>1. \A s \in SUBSET Q : IsFiniteSet(s) /\ Cardinality(s) \in Nat /\ Cardinality(s) <= Cardinality(Q)
    BY FS_Subset, FS_CardinalityType
<1>2. 0 \in Good
  <2>1. \A s \in UpTo(0) : s = {}
    <3> TAKE s \in UpTo(0)
    <3>1. Cardinality(s) = 0
        BY <1>1
    <3> QED BY <1>1, <3>1, FS_EmptySet
  <2> DEFINE f == [s \in UpTo(0) |-> base]
  <2>2. f \in [UpTo(0) -> V] /\ Is(f, 0)
    <3> HIDE DEF UpTo
    <3> QED BY <2>1
  <2> QED BY <2>2
<1>3. ASSUME NEW n \in Good PROVE n + 1 \in Good
  <2>1. n \in Nat /\ n + 1 \in Nat
      OBVIOUS
  <2>2. PICK f \in [UpTo(n) -> V] : Is(f, n)
      OBVIOUS
  <2>3. ASSUME NEW s \in UpTo(n + 1), s # {}
        PROVE  Chosen(s) \in s /\ s \ {Chosen(s)} \in UpTo(n)
    <3>1. s \in SUBSET Q /\ Cardinality(s) <= n + 1
        OBVIOUS
    <3>2. Chosen(s) \in s
        BY <2>3 DEF Chosen
    <3>3. Cardinality(s \ {Chosen(s)}) = Cardinality(s) - 1
      <4>1. Cardinality(s \ {Chosen(s)}) = IF Chosen(s) \in s THEN Cardinality(s) - 1 ELSE Cardinality(s)
          BY <1>1, <3>1, FS_RemoveElement
      <4> QED BY <3>2, <4>1
    <3>4. Cardinality(s \ {Chosen(s)}) <= n
        BY <1>1, <2>1, <3>1, <3>3
    <3> QED BY <3>1, <3>2, <3>4
  <2> DEFINE g == [s \in UpTo(n + 1) |-> IF s = {} THEN base ELSE H[<<Chosen(s), f[s \ {Chosen(s)}]>>]]
  <2>4. \A s \in UpTo(n) : s \in UpTo(n + 1)
      BY <1>1, <2>1
  <2>5. \A s \in UpTo(n + 1) : s \in SUBSET Q
      OBVIOUS
  <2>6. \A s \in UpTo(n) : f[s] = IF s = {} THEN base ELSE H[<<Chosen(s), f[s \ {Chosen(s)}]>>]
      BY <2>2
  <2> HIDE DEF UpTo
  <2>7. \A s \in UpTo(n) : g[s] = f[s]
      BY <2>4, <2>6
  <2>8. g \in [UpTo(n + 1) -> V]
    <3> SUFFICES ASSUME NEW s \in UpTo(n + 1), s # {} PROVE H[<<Chosen(s), f[s \ {Chosen(s)}]>>] \in V
        OBVIOUS
    <3>1. Chosen(s) \in Q /\ f[s \ {Chosen(s)}] \in V
        BY <2>2, <2>3, <2>5
    <3> QED BY <3>1
  <2>9. Is(g, n + 1)
    <3> SUFFICES ASSUME NEW s \in UpTo(n + 1)
                 PROVE  g[s] = IF s = {} THEN base ELSE H[<<Chosen(s), g[s \ {Chosen(s)}]>>]
        OBVIOUS
    <3>1. s # {} => g[s \ {Chosen(s)}] = f[s \ {Chosen(s)}]
        BY <2>3, <2>7
    <3>2. g[s] = IF s = {} THEN base ELSE H[<<Chosen(s), f[s \ {Chosen(s)}]>>]
        OBVIOUS
    <3> HIDE DEF g
    <3> QED BY <3>1, <3>2
  <2> HIDE DEF g, Is
  <2> QED BY <2>1, <2>8, <2>9
<1>4. Good = Nat
  <2>1. Good \in SUBSET Nat
      OBVIOUS
  <2> HIDE DEF Good
  <2> QED BY <1>2, <1>3, <2>1, Induction
<1> DEFINE n == Cardinality(Q)
<1>5. n \in Good
    BY <1>4, FS_CardinalityType
<1>6. PICK f \in [UpTo(n) -> V] : Is(f, n)
  <2> HIDE DEF n, Is, UpTo
  <2> QED BY <1>5
<1>7. UpTo(n) = SUBSET Q
    BY <1>1
<1> HIDE DEF UpTo, n
<1> QED BY <1>6, <1>7 DEF IsFold

SumOf(f, P) == MapThenSumSet(LAMBDA i : f[i], P)

\* The sum of f over a set, as the one fold over the subsets of D that ends at D gives it.
SumIn(f, D, s) ==
    (CHOOSE h : h = [t \in SUBSET D |-> IF t = {} THEN 0 ELSE f[Chosen(t)] + h[t \ {Chosen(t)}]])[s]

LEMMA SumIsFold == ASSUME NEW f, NEW D PROVE SumOf(f, D) = SumIn(f, D, D)
BY Zenon DEF SumOf, MapThenSumSet, MapThenFoldSet, Chosen, SumIn

LEMMA SumInIs ==
    ASSUME NEW f, NEW D, IsFiniteSet(D), \A i \in D : f[i] \in Int
    PROVE  \A s \in SUBSET D :
               /\ SumIn(f, D, s) \in Int
               /\ SumIn(f, D, s) = IF s = {} THEN 0 ELSE f[Chosen(s)] + SumIn(f, D, s \ {Chosen(s)})
<1> DEFINE H == [p \in D \X Int |-> f[p[1]] + p[2]]
           Is(h) == h = [t \in SUBSET D |-> IF t = {} THEN 0 ELSE f[Chosen(t)] + h[t \ {Chosen(t)}]]
           g == CHOOSE h : Is(h)
<1>1. \A s \in SUBSET D : s # {} => Chosen(s) \in D /\ f[Chosen(s)] \in Int
    BY DEF Chosen
<1>2. \A x \in D, y \in Int : H[<<x, y>>] = f[x] + y /\ f[x] + y \in Int
    OBVIOUS
<1>3. H \in [D \X Int -> Int]
    OBVIOUS
<1>4. PICK h \in [SUBSET D -> Int] : IsFold(h, D, 0, H)
  <2> DEFINE base == 0
             V == Int
  <2>1. base \in V
      OBVIOUS
  <2> HIDE DEF H, base
  <2>2. H \in [D \X V -> V]
      BY <1>3
  <2> HIDE DEF V
  <2>3. \E h \in [SUBSET D -> V] : IsFold(h, D, base, H)
      BY <2>1, <2>2, FoldExists
  <2> QED BY <2>3 DEF base, V
<1>5. Is(h)
  <2>1. ASSUME NEW s \in SUBSET D, s # {} PROVE H[<<Chosen(s), h[s \ {Chosen(s)}]>>] = f[Chosen(s)] + h[s \ {Chosen(s)}]
    <3>1. h[s \ {Chosen(s)}] \in Int
        OBVIOUS
    <3> HIDE DEF H
    <3> QED BY <1>1, <1>2, <2>1, <3>1
  <2> HIDE DEF H
  <2>2. \A s \in SUBSET D : h[s] = IF s = {} THEN 0 ELSE f[Chosen(s)] + h[s \ {Chosen(s)}]
      BY <1>4, <2>1 DEF IsFold
  <2> QED BY <2>2
<1>6. Is(g)
  <2> HIDE DEF Is
  <2> QED BY <1>5
<1>7. \A s : SumIn(f, D, s) = g[s]
    BY DEF SumIn
<1>8. \A s \in SUBSET D : g[s] = IF s = {} THEN 0 ELSE f[Chosen(s)] + g[s \ {Chosen(s)}]
  <2> HIDE DEF g
  <2> QED BY <1>6
<1> DEFINE Good == {s \in SUBSET D : g[s] \in Int}
<1>9. Good = SUBSET D
  <2>1. {} \in Good
    <3> HIDE DEF g
    <3>1. {} \in SUBSET D
        OBVIOUS
    <3>2. g[{}] = 0
        BY <1>8, <3>1
    <3> QED BY <3>1, <3>2
  <2>2. ASSUME NEW s \in SUBSET D, s # {}, \A x \in s : s \ {x} \in Good PROVE s \in Good
    <3>1. Chosen(s) \in s
        BY <2>2 DEF Chosen
    <3>2. g[s \ {Chosen(s)}] \in Int
        BY <2>2, <3>1
    <3> HIDE DEF g
    <3>3. g[s] = f[Chosen(s)] + g[s \ {Chosen(s)}]
        BY <1>8, <2>2
    <3>4. f[Chosen(s)] \in Int
        BY <1>1, <2>2
    <3>5. g[s] \in Int
        BY <3>2, <3>3, <3>4
    <3> QED BY <3>5
  <2>3. Good \in SUBSET SUBSET D
      OBVIOUS
  <2> HIDE DEF Good
  <2> QED BY <2>1, <2>2, <2>3, SubsetInduction
<1> HIDE DEF g
<1> QED BY <1>7, <1>8, <1>9

\* The fold over a smaller set gives the same.
LEMMA SumInSame ==
    ASSUME NEW f, NEW D, IsFiniteSet(D), \A i \in D : f[i] \in Int, NEW P \in SUBSET D
    PROVE  SumOf(f, P) = SumIn(f, D, P)
<1> DEFINE Good == {s \in SUBSET P : SumIn(f, P, s) = SumIn(f, D, s)}
<1>1. IsFiniteSet(P) /\ \A i \in P : f[i] \in Int
    BY FS_Subset
<1>2. \A s \in SUBSET P : SumIn(f, P, s) = IF s = {} THEN 0 ELSE f[Chosen(s)] + SumIn(f, P, s \ {Chosen(s)})
    BY <1>1, SumInIs
<1>3. \A s \in SUBSET P : SumIn(f, D, s) = IF s = {} THEN 0 ELSE f[Chosen(s)] + SumIn(f, D, s \ {Chosen(s)})
  <2>1. \A s \in SUBSET D : SumIn(f, D, s) = IF s = {} THEN 0 ELSE f[Chosen(s)] + SumIn(f, D, s \ {Chosen(s)})
      BY SumInIs
  <2> QED BY <2>1
<1>4. {} \in Good
    BY <1>2, <1>3
<1>5. ASSUME NEW s \in SUBSET P, s # {}, \A x \in s : s \ {x} \in Good PROVE s \in Good
  <2>1. Chosen(s) \in s
      BY <1>5 DEF Chosen
  <2>2. SumIn(f, P, s \ {Chosen(s)}) = SumIn(f, D, s \ {Chosen(s)})
      BY <1>5, <2>1
  <2> QED BY <1>2, <1>3, <1>5, <2>2
<1>6. Good \in SUBSET SUBSET P
    OBVIOUS
<1>7. Good = SUBSET P
  <2> HIDE DEF Good
  <2> QED BY <1>1, <1>4, <1>5, <1>6, SubsetInduction
<1>8. SumIn(f, P, P) = SumIn(f, D, P)
    BY <1>7
<1> QED BY <1>8, SumIsFold

\* A sum does not depend on the order in which it is taken: any element can be the last.
LEMMA SumTakesAny ==
    ASSUME NEW f, NEW D, IsFiniteSet(D), \A i \in D : f[i] \in Int
    PROVE  \A s \in SUBSET D : \A x \in s : SumIn(f, D, s) = f[x] + SumIn(f, D, s \ {x})
<1> DEFINE sum(s) == SumIn(f, D, s)
           Good == {s \in SUBSET D : \A x \in s : sum(s) = f[x] + sum(s \ {x})}
<1>1. \A s \in SUBSET D : sum(s) \in Int /\ sum(s) = IF s = {} THEN 0 ELSE f[Chosen(s)] + sum(s \ {Chosen(s)})
    BY SumInIs
<1> HIDE DEF sum
<1>2. {} \in Good
    OBVIOUS
<1>3. ASSUME NEW s \in SUBSET D, s # {}, \A x \in s : s \ {x} \in Good PROVE s \in Good
  <2> DEFINE c == Chosen(s)
  <2>1. c \in s /\ c \in D
      BY <1>3 DEF Chosen
  <2>2. sum(s) = f[c] + sum(s \ {c})
      BY <1>1, <1>3
  <2> HIDE DEF c
  <2>3. ASSUME NEW x \in s, x # c PROVE sum(s) = f[x] + sum(s \ {x})
    <3>1. x \in s \ {c} /\ c \in s \ {x} /\ s \ {c} \in Good /\ s \ {x} \in Good
        BY <1>3, <2>1, <2>3
    <3>2. sum(s \ {c}) = f[x] + sum((s \ {c}) \ {x}) /\ sum(s \ {x}) = f[c] + sum((s \ {x}) \ {c})
        BY <3>1
    <3>3. (s \ {c}) \ {x} = (s \ {x}) \ {c}
        OBVIOUS
    <3>4. sum((s \ {x}) \ {c}) \in Int /\ f[c] \in Int /\ f[x] \in Int
      <4>1. (s \ {x}) \ {c} \in SUBSET D /\ x \in D
          OBVIOUS
      <4> QED BY <1>1, <2>1, <4>1
    <3>5. PICK r : r = sum((s \ {x}) \ {c})
        OBVIOUS
    <3>6. sum(s \ {c}) = f[x] + r /\ sum(s \ {x}) = f[c] + r /\ r \in Int
        BY <3>2, <3>3, <3>4, <3>5
    <3> QED BY <2>2, <3>4, <3>6
  <2> QED BY <2>2, <2>3
<1>4. Good \in SUBSET SUBSET D
    OBVIOUS
<1>5. Good = SUBSET D
  <2> HIDE DEF Good
  <2> QED BY <1>2, <1>3, <1>4, SubsetInduction
<1> QED BY <1>5 DEF sum

\* What a sum over a set is.
LEMMA SumGrows ==
    ASSUME NEW f, NEW D, IsFiniteSet(D), \A i \in D : f[i] \in Int, NEW P \in SUBSET D
    PROVE  /\ SumOf(f, {}) = 0
           /\ SumOf(f, P) \in Int
           /\ \A x \in D \ P : SumOf(f, P \cup {x}) = SumOf(f, P) + f[x]
<1>1. SumOf(f, {}) = 0
  <2>1. {} \in SUBSET D
      OBVIOUS
  <2>2. SumIn(f, D, {}) = 0
      BY <2>1, SumInIs
  <2>3. SumOf(f, {}) = SumIn(f, D, {})
      BY <2>1, SumInSame
  <2> QED BY <2>2, <2>3
<1>2. SumIn(f, D, P) \in Int
    BY SumInIs
<1>3. ASSUME NEW x \in D \ P
      PROVE  SumOf(f, P \cup {x}) = SumOf(f, P) + f[x]
  <2> DEFINE s == P \cup {x}
  <2>1. s \in SUBSET D /\ x \in s /\ s \ {x} = P
      OBVIOUS
  <2> HIDE DEF s
  <2>2. SumIn(f, D, s) = f[x] + SumIn(f, D, P)
      BY <2>1, SumTakesAny
  <2>3. SumOf(f, s) = SumIn(f, D, s) /\ SumOf(f, P) = SumIn(f, D, P)
      BY <2>1, SumInSame
  <2>4. f[x] \in Int
      OBVIOUS
  <2>5. SumOf(f, s) = SumOf(f, P) + f[x]
      BY <1>2, <2>2, <2>3, <2>4
  <2> QED BY <2>5 DEF s
<1>4. SumOf(f, P) \in Int
    BY <1>2, SumInSame
<1> QED BY <1>1, <1>3, <1>4

-----------------------------------------------------------------------------
(* Integers, which unlike Nat have no least one *)

\* A finite set of places has one where f is least.
LEMMA LeastPlace ==
    ASSUME NEW f, NEW D, IsFiniteSet(D), \A i \in D : f[i] \in Int
    PROVE  \A s \in SUBSET D : s # {} => \E i \in s : \A j \in s : f[i] <= f[j]
<1> DEFINE Good == {s \in SUBSET D : s # {} => \E i \in s : \A j \in s : f[i] <= f[j]}
<1>1. {} \in Good
    OBVIOUS
<1>2. ASSUME NEW s \in SUBSET D, s # {}, \A x \in s : s \ {x} \in Good PROVE s \in Good
  <2>1. PICK x \in s : s \ {x} \in Good
      BY <1>2
  <2>2. CASE s \ {x} = {}
    <3>1. \A j \in s : j = x
        BY <2>2
    <3>2. f[x] \in Int
        OBVIOUS
    <3>3. \A j \in s : f[x] <= f[j]
        BY <3>1, <3>2
    <3> QED BY <3>3
  <2>3. CASE s \ {x} # {}
    <3>1. PICK i \in s \ {x} : \A j \in s \ {x} : f[i] <= f[j]
        BY <2>1, <2>3
    <3>2. f[i] \in Int /\ f[x] \in Int
        OBVIOUS
    <3>3. CASE f[i] <= f[x]
      <4>1. \A j \in s : f[i] <= f[j]
          BY <3>1, <3>3
      <4> QED BY <4>1
    <3>4. CASE f[x] < f[i]
      <4>1. \A j \in s : f[x] <= f[j]
        <5> TAKE j \in s
        <5>1. f[j] \in Int
            OBVIOUS
        <5> QED BY <3>1, <3>2, <3>4, <5>1
      <4> QED BY <4>1
    <3> QED BY <3>2, <3>3, <3>4
  <2> QED BY <2>2, <2>3
<1>3. Good \in SUBSET SUBSET D
    OBVIOUS
<1>4. Good = SUBSET D
  <2> HIDE DEF Good
  <2> QED BY <1>1, <1>2, <1>3, SubsetInduction
<1> QED BY <1>4

\* What is larger than all elements comes last.
LEMMA AscendingGrows ==
    ASSUME NEW S \in SUBSET Int, IsFiniteSet(S), NEW x \in Int, \A y \in S : y < x
    PROVE  Ascending(S \cup {x}) = Ascending(S) \o <<x>>
<1> DEFINE U == S \cup {x}
           n == Cardinality(S)
           s == Ascending(S)
           u == Ascending(U)
<1>1. x \notin S /\ n \in Nat /\ Cardinality(U) = n + 1
  <2>1. x \notin S
      OBVIOUS
  <2>2. n \in Nat
      BY FS_CardinalityType
  <2> QED BY <2>1, <2>2, FS_AddElement
<1>2. Below(U, x) = S
  <2>1. ~(x < x)
      OBVIOUS
  <2> QED BY <2>1 DEF Below
<1>3. ASSUME NEW y \in S
      PROVE  Below(U, y) = Below(S, y) /\ Cardinality(Below(S, y)) \in Nat /\ Cardinality(Below(S, y)) < n
  <2>1. y < x /\ ~(x < y) /\ ~(y < y)
      OBVIOUS
  <2>2. Below(U, y) = Below(S, y)
      BY <2>1 DEF Below
  <2>3. Below(S, y) \subseteq S /\ y \notin Below(S, y)
      BY <2>1 DEF Below
  <2>4. IsFiniteSet(Below(S, y)) /\ Cardinality(Below(S, y)) <= n /\ (Cardinality(Below(S, y)) = n => Below(S, y) = S)
      BY <2>3, FS_Subset
  <2>5. Cardinality(Below(S, y)) \in Nat /\ Cardinality(Below(S, y)) # n
      BY <2>3, <2>4, FS_CardinalityType
  <2> QED BY <1>1, <2>2, <2>4, <2>5
<1>4. /\ DOMAIN s = 1 .. n /\ s = [i \in 1 .. n |-> s[i]]
      /\ \A i \in 1 .. n : s[i] = CHOOSE y \in S : Cardinality(Below(S, y)) = i - 1
    BY DEF Ascending
<1>5. /\ DOMAIN u = 1 .. n + 1 /\ u = [i \in 1 .. n + 1 |-> u[i]]
      /\ \A i \in 1 .. n + 1 : u[i] = CHOOSE y \in U : Cardinality(Below(U, y)) = i - 1
  <2>1. u = [i \in 1 .. Cardinality(U) |-> CHOOSE y \in U : Cardinality(Below(U, y)) = i - 1]
      BY DEF Ascending
  <2> HIDE DEF u, U
  <2> QED BY <1>1, <2>1
<1>6. ASSUME NEW i \in 1 .. n PROVE u[i] = s[i]
  <2>1. i - 1 # n /\ i \in 1 .. n + 1
      BY <1>1
  <2>2. \A y : (y \in U /\ Cardinality(Below(U, y)) = i - 1) <=> (y \in S /\ Cardinality(Below(S, y)) = i - 1)
      BY <1>1, <1>2, <1>3, <2>1
  <2>3. (CHOOSE y : y \in U /\ Cardinality(Below(U, y)) = i - 1) = (CHOOSE y : y \in S /\ Cardinality(Below(S, y)) = i - 1)
    <3> HIDE DEF U
    <3> QED BY <2>2, Zenon
  <2>4. u[i] = CHOOSE y : y \in U /\ Cardinality(Below(U, y)) = i - 1
      BY <1>5, <2>1
  <2>5. s[i] = CHOOSE y : y \in S /\ Cardinality(Below(S, y)) = i - 1
      BY <1>4
  <2> HIDE DEF u, s, U
  <2> QED BY <2>3, <2>4, <2>5
<1>7. u[n + 1] = x
  <2>1. \A y \in U : Cardinality(Below(U, y)) = (n + 1) - 1 <=> y = x
      BY <1>1, <1>2, <1>3
  <2>2. n + 1 \in 1 .. n + 1 /\ x \in U
      BY <1>1
  <2>3. u[n + 1] = CHOOSE y \in U : Cardinality(Below(U, y)) = (n + 1) - 1
      BY <1>5, <2>2
  <2> HIDE DEF u, U, n
  <2> QED BY <2>1, <2>2, <2>3
<1> HIDE DEF s, u, n
<1> DEFINE t == s \o <<x>>
<1>8. PICK V : s \in Seq(V) /\ x \in V /\ Len(s) = n
  <2> DEFINE V == {s[i] : i \in 1 .. n} \cup {x}
  <2>1. s \in Seq(V) /\ x \in V /\ Len(s) = n
      BY <1>1, <1>4
  <2> QED BY <2>1
<1>9. DOMAIN t = 1 .. n + 1 /\ t = [i \in 1 .. n + 1 |-> t[i]]
  <2>1. t \in Seq(V) /\ Len(t) = n + 1
      BY <1>1, <1>8
  <2> HIDE DEF t
  <2> QED BY <1>1, <2>1
<1>10. \A i \in 1 .. n + 1 : t[i] = u[i]
    BY <1>1, <1>4, <1>6, <1>7, <1>8
<1>11. t = u
  <2> HIDE DEF t
  <2> QED BY <1>5, <1>9, <1>10
<1> QED BY <1>11 DEF t, u, s
=============================================================================
