------------------------ MODULE AscendingOrder_proofs ------------------------
(***************************************************************************)
(* What Ascending makes of a finite set of numbers, and what Place counts.  *)
(***************************************************************************)
EXTENDS AscendingOrder, FiniteSetTheorems, FunctionTheorems, WellFoundedInduction, TLAPS

(* Numbers have a smallest, and below a bound a largest. *)
LEMMA SmallestOf ==
  ASSUME NEW N \in SUBSET Nat, N # {}
  PROVE  \E n \in N : \A k \in N : n <= k
<1>1. OpToRel(<, Nat) = {nn \in Nat \X Nat : nn[1] < nn[2]}
  BY Zenon DEF OpToRel
<1>2. PICK n \in N : \A k \in N : ~ (<<k, n>> \in OpToRel(<, Nat))
  BY WFMin, NatLessThanWellFounded
<1>3. \A k \in N : ~ (k < n)
  BY <1>1, <1>2
<1>4. \A k \in N : n <= k
  BY <1>3
<1>5. QED
  BY <1>4

LEMMA LargestOf ==
  ASSUME NEW N \in SUBSET Nat, N # {}, NEW b \in Nat, \A k \in N : k <= b
  PROVE  \E n \in N : \A k \in N : k <= n
<1> DEFINE gaps == {b - k : k \in N}
<1>1. gaps \in SUBSET Nat /\ gaps # {} /\ \A k \in N : b - k \in gaps
  <2>1. \A k \in N : b - k \in Nat
    OBVIOUS
  <2>2. QED
    BY <2>1
<1>2. PICK g \in gaps : \A h \in gaps : g <= h
  <2> HIDE DEF gaps
  <2>1. QED
    BY <1>1, SmallestOf
<1>3. PICK n \in N : g = b - n
  BY <1>2
<1>4. ASSUME NEW k \in N PROVE k <= n
  <2>1. b - n <= b - k
    BY <1>1, <1>2, <1>3
  <2>2. QED
    BY <2>1
<1>5. QED
  BY <1>4


(* The place of an element is an index. *)
LEMMA PlaceIsIndex ==
  ASSUME NEW S \in SUBSET Int, IsFiniteSet(S), NEW n \in S
  PROVE  Cardinality(S) \in Nat /\ Place(S, n) \in 1 .. Cardinality(S)
<1> DEFINE below == {k \in S : k <= n}
<1>1. Cardinality(S) \in Nat
  BY FS_CardinalityType
<1>2. below \in SUBSET S /\ n \in below
  OBVIOUS
<1> HIDE DEF below
<1>3. IsFiniteSet(below) /\ Cardinality(below) <= Cardinality(S)
  BY <1>2, FS_Subset
<1>4. Cardinality(below) \in Nat /\ Cardinality(below) # 0
  BY <1>2, <1>3, FS_CardinalityType, FS_EmptySet
<1>5. Place(S, n) = Cardinality(below)
  BY DEF Place, below
<1>6. QED
  BY <1>1, <1>3, <1>4, <1>5

(* A larger element has a larger place. *)
LEMMA PlaceGrows ==
  ASSUME NEW S \in SUBSET Int, IsFiniteSet(S), NEW m \in S, NEW n \in S, m < n
  PROVE  Place(S, m) < Place(S, n)
<1> DEFINE low  == {k \in S : k <= m}
           high == {k \in S : k <= n}
<1>1. m \in Int /\ n \in Int /\ \A k \in S : k \in Int
  OBVIOUS
<1>2. low \in SUBSET high /\ n \in high /\ n \notin low /\ high \in SUBSET S
  <2>1. ASSUME NEW k \in S, k <= m PROVE k <= n
    BY <1>1, <2>1
  <2>2. n <= n /\ ~ n <= m
    BY <1>1
  <2>3. QED
    BY <2>1, <2>2
<1>3. Place(S, m) = Cardinality(low) /\ Place(S, n) = Cardinality(high)
  BY DEF Place
<1> HIDE DEF low, high
<1>4. IsFiniteSet(high)
  BY <1>2, FS_Subset
<1>5. /\ IsFiniteSet(low) /\ Cardinality(low) <= Cardinality(high)
      /\ Cardinality(high) = Cardinality(low) => high = low
  BY <1>2, <1>4, FS_Subset
<1>6. Cardinality(low) \in Nat /\ Cardinality(high) \in Nat
  BY <1>4, <1>5, FS_CardinalityType
<1>7. Cardinality(low) # Cardinality(high)
  BY <1>2, <1>5
<1>8. QED
  BY <1>3, <1>5, <1>6, <1>7

(* Every index is the place of one element, and Ascending finds it. *)
LEMMA AscendingFinds ==
  ASSUME NEW S \in SUBSET Int, IsFiniteSet(S)
  PROVE  /\ \A n \in S : Ascending(S)[Place(S, n)] = n
         /\ \A i \in 1 .. Cardinality(S) :
              Ascending(S)[i] \in S /\ Place(S, Ascending(S)[i]) = i
<1> DEFINE size  == Cardinality(S)
           place == [n \in S |-> Place(S, n)]
<1>1. size \in Nat
  BY FS_CardinalityType
<1>2. \A m, n \in S : Place(S, m) = Place(S, n) => m = n
  <2> SUFFICES ASSUME NEW m \in S, NEW n \in S, m # n PROVE Place(S, m) # Place(S, n)
    OBVIOUS
  <2>1. m < n \/ n < m
    OBVIOUS
  <2>2. Place(S, m) \in Int /\ Place(S, n) \in Int
    BY PlaceIsIndex
  <2>3. CASE m < n
    BY <2>2, <2>3, PlaceGrows
  <2>4. CASE n < m
    BY <2>2, <2>4, PlaceGrows
  <2>5. QED
    BY <2>1, <2>3, <2>4
<1>3. \A i \in 1 .. size : \E n \in S : Place(S, n) = i
  <2>1. place \in [S -> 1 .. size]
    BY PlaceIsIndex
  <2>2. \A m, n \in S : place[m] = place[n] => m = n
    BY <1>2
  <2> HIDE DEF place
  <2>3. place \in Injection(S, 1 .. size)
    BY <2>1, <2>2, Fun_IsInj
  <2>4. IsFiniteSet(1 .. size) /\ Cardinality(1 .. size) = size
    <3>1. 1 \in Int /\ size \in Int
      BY <1>1
    <3> HIDE DEF size
    <3>2. QED
      BY <1>1, <3>1, FS_Interval
  <2>5. place \in Surjection(S, 1 .. size)
    BY <2>3, <2>4, FS_Injection
  <2>6. \A i \in 1 .. size : \E n \in S : place[n] = i
    BY <2>5, Fun_SurjectionProperties
  <2>7. QED
    BY <2>6 DEF place
<1>4. ASSUME NEW i \in 1 .. size
      PROVE  Ascending(S)[i] \in S /\ Place(S, Ascending(S)[i]) = i
  <2>1. Ascending(S)[i] = CHOOSE n \in S : Place(S, n) = i
    BY DEF Ascending
  <2>2. PICK n \in S : Place(S, n) = i
    BY <1>3
  <2>3. QED
    BY <2>1, <2>2
<1>5. ASSUME NEW n \in S PROVE Ascending(S)[Place(S, n)] = n
  <2>1. Place(S, n) \in 1 .. size
    BY PlaceIsIndex
  <2>2. Ascending(S)[Place(S, n)] \in S
        /\ Place(S, Ascending(S)[Place(S, n)]) = Place(S, n)
    BY <1>4, <2>1
  <2>3. QED
    BY <1>2, <2>2
<1>6. QED
  BY <1>4, <1>5

(* Ascending has every element once, in ascending order. *)
THEOREM AscendingIsSorted ==
  ASSUME NEW S \in SUBSET Int, IsFiniteSet(S)
  PROVE  /\ Cardinality(S) \in Nat
         /\ Ascending(S) \in [1 .. Cardinality(S) -> S]
         /\ \A n \in S : \E i \in 1 .. Cardinality(S) : Ascending(S)[i] = n
         /\ \A i, j \in 1 .. Cardinality(S) : i < j => Ascending(S)[i] < Ascending(S)[j]
<1>1. Cardinality(S) \in Nat
  BY FS_CardinalityType
<1>2. \A i \in 1 .. Cardinality(S) : Ascending(S)[i] \in S
  BY AscendingFinds
<1>3. Ascending(S) \in [1 .. Cardinality(S) -> S]
  BY <1>2 DEF Ascending
<1>4. \A n \in S : \E i \in 1 .. Cardinality(S) : Ascending(S)[i] = n
  BY AscendingFinds, PlaceIsIndex
<1>5. ASSUME NEW i \in 1 .. Cardinality(S), NEW j \in 1 .. Cardinality(S), i < j,
             ~ Ascending(S)[i] < Ascending(S)[j]
      PROVE  FALSE
  <2>1. PICK m \in S, n \in S : m = Ascending(S)[i] /\ n = Ascending(S)[j]
    BY <1>2
  <2>2. Place(S, m) = i /\ Place(S, n) = j
    BY <2>1, AscendingFinds
  <2>3. m \in Int /\ n \in Int /\ ~ m < n /\ m # n
    BY <1>1, <1>5, <2>1, <2>2
  <2>4. n < m
    BY <2>3
  <2>5. Place(S, n) < Place(S, m)
    BY <2>4, PlaceGrows
  <2>6. QED
    BY <1>1, <1>5, <2>2, <2>5
<1>6. QED
  BY <1>1, <1>3, <1>4, <1>5

(* Between two numbers without an element above the first the place does not    *)
(* change, and it is one higher at the next element.                            *)
LEMMA PlaceRests ==
  ASSUME NEW S \in SUBSET Int, NEW a \in Int, NEW b \in Int, a <= b,
         \A n \in S : n <= b => n <= a
  PROVE  Place(S, b) = Place(S, a)
<1>1. \A n \in S : n \in Int
  OBVIOUS
<1>2. \A n \in S : n <= b <=> n <= a
  BY <1>1
<1>3. {n \in S : n <= b} = {n \in S : n <= a}
  BY <1>2
<1>4. QED
  BY <1>3 DEF Place

LEMMA PlaceOfNext ==
  ASSUME NEW S \in SUBSET Int, IsFiniteSet(S), NEW a \in Int, NEW b \in S, a < b,
         \A n \in S : n < b => n <= a
  PROVE  Place(S, b) = Place(S, a) + 1
<1> DEFINE low == {n \in S : n <= a}
<1>1. b \in Int /\ \A n \in S : n \in Int
  OBVIOUS
<1>2. \A n \in S : n <= b <=> n <= a \/ n = b
  BY <1>1
<1>3. {n \in S : n <= b} = low \union {b}
  BY <1>2
<1>4. b \notin low /\ low \in SUBSET S
  BY <1>1
<1> HIDE DEF low
<1>5. IsFiniteSet(low)
  BY <1>4, FS_Subset
<1>6. Cardinality(low \union {b}) = Cardinality(low) + 1
  BY <1>4, <1>5, FS_AddElement
<1>7. QED
  BY <1>3, <1>6 DEF Place, low

(* No place is higher than there are elements, and the last one is that.        *)
LEMMA PlaceIsBounded ==
  ASSUME NEW S \in SUBSET Int, IsFiniteSet(S), NEW a \in Int
  PROVE  /\ Place(S, a) \in Nat /\ Place(S, a) <= Cardinality(S)
         /\ (\A n \in S : n <= a) => Place(S, a) = Cardinality(S)
<1> DEFINE low == {n \in S : n <= a}
<1>1. low \in SUBSET S /\ ((\A n \in S : n <= a) => low = S)
  OBVIOUS
<1>2. Place(S, a) = Cardinality(low)
  BY DEF Place
<1> HIDE DEF low
<1>3. QED
  BY <1>1, <1>2, FS_Subset, FS_CardinalityType
=============================================================================
