------------------------------- MODULE Extrema -------------------------------
(***************************************************************************)
(* Every nonempty set of numbers in an interval has a least and a greatest *)
(* element, so that Min and Max of FiniteSetsExt are what their names say. *)
(***************************************************************************)
EXTENDS Integers, FiniteSetsExt, WellFoundedInduction, TLAPS

\* The order of the naturals, as a relation.
NatLess == OpToRel(<, Nat)

\* A smaller number comes before a larger one.
LEMMA NatLessElements == \A k, m \in Nat : k < m => <<k, m>> \in NatLess
  BY Zenon DEF OpToRel, NatLess

\* The order is well founded.
LEMMA NatLessWellFounded == IsWellFoundedOn(NatLess, Nat)
  BY NatLessThanWellFounded, Zenon DEF NatLess

\* Every nonempty set of naturals has a least element.
LEMMA LeastNat ==
  ASSUME NEW T \in SUBSET Nat, T # {}
  PROVE  \E m \in T : \A k \in T : m <= k
<1>1. PICK m \in T : \A k \in T : ~ (<<k, m>> \in NatLess)
  BY WFMin, NatLessWellFounded, Zenon
<1>2. \A k \in T : ~ (k < m)
  BY NatLessElements, <1>1, Zenon
<1>3. \A k \in T : m <= k
  BY <1>2
<1> QED  BY <1>3

\* Min(S) is the least element of S.
LEMMA MinOfInterval ==
  ASSUME NEW a \in Int, NEW b \in Int, NEW S \in SUBSET (a .. b), S # {}
  PROVE  Min(S) \in S /\ \A k \in S : Min(S) <= k
<1> DEFINE T == {n \in Nat : \E k \in S : n = k - a}
<1>1. \A k \in S : k - a \in T
  OBVIOUS
<1>2. T # {} /\ T \in SUBSET Nat
  BY <1>1
<1>3. PICK m \in T : \A n \in T : m <= n
  BY <1>2, LeastNat
<1>4. PICK k \in S : m = k - a
  OBVIOUS
<1>5. \A j \in S : k <= j
  BY <1>1, <1>3, <1>4
<1>6. \E x \in S : \A y \in S : x =< y
  BY <1>5
<1> QED  BY <1>6 DEF Min

\* Max(S) is the greatest element of S.
LEMMA MaxOfInterval ==
  ASSUME NEW a \in Int, NEW b \in Int, NEW S \in SUBSET (a .. b), S # {}
  PROVE  Max(S) \in S /\ \A k \in S : k <= Max(S)
<1> DEFINE T == {n \in Nat : \E k \in S : n = b - k}
<1>1. \A k \in S : b - k \in T
  OBVIOUS
<1>2. T # {} /\ T \in SUBSET Nat
  BY <1>1
<1>3. PICK m \in T : \A n \in T : m <= n
  BY <1>2, LeastNat
<1>4. PICK k \in S : m = b - k
  OBVIOUS
<1>5. ASSUME NEW j \in S PROVE j <= k
  <2>1. m <= b - j
    BY <1>1, <1>3
  <2> HIDE DEF T
  <2> QED  BY <2>1, <1>4
<1>6. \E x \in S : \A y \in S : x >= y
  BY <1>5
<1>7. Max(S) \in S /\ \A y \in S : Max(S) >= y
  BY <1>6 DEF Max
<1> QED  BY <1>7

\* No multiple of c but zero lies between - c and c.
LEMMA NoMultiple ==
  ASSUME NEW c \in Nat \ {0}, NEW d \in Int, - c < c * d, c * d < c
  PROVE  d = 0
<1>1. CASE d >= 1
  <2>1. d - 1 >= 0 /\ d - 1 \in Int
    BY <1>1
  <2>2. c * (d - 1) >= 0
    BY <2>1
  <2>3. c * (d - 1) = c * d - c
    OBVIOUS
  <2> QED  BY <2>2, <2>3
<1>2. CASE d <= - 1
  <2>1. - 1 - d >= 0 /\ - 1 - d \in Int
    BY <1>2
  <2>2. c * (- 1 - d) >= 0
    BY <2>1
  <2>3. c * (- 1 - d) = - c - (c * d)
    OBVIOUS
  <2> QED  BY <2>2, <2>3
<1> QED  BY <1>1, <1>2

\* Division with remainder.
LEMMA Division ==
  ASSUME NEW c \in Nat \ {0}, NEW x \in Int
  PROVE  /\ x \div c \in Int /\ x % c \in 0 .. (c - 1)
         /\ x = c * (x \div c) + (x % c)
  OBVIOUS

\* The remainder is unique.
LEMMA Remainder ==
  ASSUME NEW c \in Nat \ {0}, NEW x \in Int, NEW q \in Int,
         NEW r \in 0 .. (c - 1), x = c * q + r
  PROVE  x % c = r
<1> DEFINE p == x \div c
<1> DEFINE s == x % c
<1>1. p \in Int /\ s \in 0 .. (c - 1) /\ x = c * p + s
  BY Division
<1> HIDE DEF p, s
<1>2. c * (p - q) = c * p - c * q
  BY <1>1
<1>3. c * p - c * q = r - s
  BY <1>1
<1>4. - c < r - s /\ r - s < c
  BY <1>1
<1>5. p - q = 0
  BY <1>1, <1>2, <1>3, <1>4, NoMultiple
<1>6. r = s
  BY <1>1, <1>5
<1> QED  BY <1>6 DEF s
=============================================================================
