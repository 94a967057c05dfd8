---------------------------- MODULE NumberProofs ----------------------------
(***************************************************************************)
(* What the proofs of the packet streams need to know of whole numbers:    *)
(* quotients and remainders, with which packets are numbered within their  *)
(* groups, and sets of places.                                             *)
(***************************************************************************)
EXTENDS Integers, Sequences, FiniteSets, SequenceTheorems, FiniteSetTheorems, TLAPS

(* Quotient and remainder of a division. *)
LEMMA RemainderBounds ==
    ASSUME NEW n \in Nat, NEW w \in Nat \ {0}
    PROVE  /\ n % w \in 0..w - 1
           /\ n \div w \in Nat
           /\ n = w * (n \div w) + (n % w)
<1>1. n % w \in 0..w - 1
  BY SMT
<1>2. n = w * (n \div w) + (n % w) /\ n \div w \in Int
  BY SMT
<1>3. 0 <= n \div w
  BY SMT
<1> QED
  BY <1>1, <1>2, <1>3

(* Quotient and remainder are the only such numbers. *)
LEMMA RemainderUnique ==
    ASSUME NEW w \in Nat \ {0}, NEW q \in Nat, NEW r \in 0..w - 1
    PROVE  (w * q + r) % w = r /\ (w * q + r) \div w = q
BY SMT

(* A number below the divisor is its own remainder. *)
LEMMA SmallRemainder ==
    ASSUME NEW w \in Nat \ {0}, NEW n \in Nat, n < w
    PROVE  n % w = n
BY SMT

(* The next number is in the same group, or the first of the next one.     *)
LEMMA NextRemainder ==
    ASSUME NEW n \in Nat, NEW w \in Nat \ {0}
    PROVE  /\ (n % w) + 1 < w => (n + 1) % w = (n % w) + 1
           /\ (n % w) + 1 = w => (n + 1) % w = 0
<1> DEFINE q == n \div w
           r == n % w
<1>1. r \in 0..w - 1 /\ q \in Nat /\ n = w * q + r
  BY RemainderBounds
<1> HIDE DEF q, r
<1>2. CASE r + 1 < w
  <2>1. n + 1 = w * q + (r + 1) /\ r + 1 \in 0..w - 1
    BY <1>1, <1>2
  <2>2. (w * q + (r + 1)) % w = r + 1
    BY <1>1, <2>1, RemainderUnique
  <2>3. (n + 1) % w = r + 1
    BY <2>1, <2>2
  <2> QED
    BY <1>1, <1>2, <2>3 DEF r
<1>3. CASE r + 1 = w
  <2>1. n + 1 = w * (q + 1) + 0 /\ 0 \in 0..w - 1 /\ q + 1 \in Nat
    BY <1>1, <1>3
  <2>2. (w * (q + 1) + 0) % w = 0
    BY <1>1, <2>1, RemainderUnique
  <2>3. (n + 1) % w = 0
    BY <2>1, <2>2
  <2> QED
    BY <1>1, <1>3, <2>3 DEF r
<1> QED
  BY <1>1, <1>2, <1>3 DEF r

(* The numbers of one group. *)
LEMMA OffsetRemainder ==
    ASSUME NEW w \in Nat \ {0}, NEW h \in Nat, h % w = 0, NEW i \in 0..w - 1
    PROVE  (h + i) % w = i /\ (h + i) \div w = h \div w
<1> DEFINE q == h \div w
<1>1. w \in Nat \ {0} /\ i \in 0..w - 1
  OBVIOUS
<1>2. q \in Nat /\ h = w * q
  <2>1. q \in Nat /\ h = w * q + (h % w)
    BY <1>1, RemainderBounds
  <2> QED
    BY <2>1, <1>1
<1>3. (w * q + i) % w = i /\ (w * q + i) \div w = q
  <2> HIDE DEF q
  <2> QED
    BY <1>1, <1>2, RemainderUnique
<1> QED
  BY <1>2, <1>3

(* Groups compare as their numbers do. *)
LEMMA MultiplesApart ==
    ASSUME NEW w \in Nat \ {0}, NEW h \in Nat, h % w = 0, NEW n \in Nat
    PROVE  /\ n < h => n \div w < h \div w
           /\ h <= n => h \div w <= n \div w
           /\ h + w <= n => h \div w < n \div w
           /\ n - (n % w) \in Nat /\ n - (n % w) <= n
           /\ n <= n - (n % w) + (w - 1)
           /\ (n - (n % w)) % w = 0
<1> DEFINE a == h \div w
           b == n \div w
           r == n % w
<1>1. w \in Nat \ {0}
  OBVIOUS
<1>2. a \in Nat /\ h = w * a
  <2>1. a \in Nat /\ h = w * a + (h % w)
    BY <1>1, RemainderBounds
  <2> QED
    BY <2>1, <1>1
<1>3. b \in Nat /\ r \in 0..w - 1 /\ n = w * b + r
  BY <1>1, RemainderBounds
<1>4. (w * b + 0) % w = 0
  <2>1. b \in Nat /\ 0 \in 0..w - 1
    BY <1>1, <1>3
  <2> HIDE DEF b
  <2> QED
    BY <1>1, <2>1, RemainderUnique
<1> HIDE DEF a, b, r
<1>6. n < h => b < a
  <2> SUFFICES ASSUME n < h, a <= b PROVE FALSE
    BY <1>2, <1>3
  <2>1. w * a <= w * b
    BY <1>1, <1>2, <1>3
  <2> QED
    BY <1>2, <1>3, <2>1, <1>1
<1>7. h <= n => a <= b
  <2> SUFFICES ASSUME h <= n, b + 1 <= a PROVE FALSE
    BY <1>2, <1>3
  <2>1. w * (b + 1) <= w * a
    BY <1>1, <1>2, <1>3
  <2>2. w * (b + 1) = w * b + w
    BY <1>1, <1>3
  <2> QED
    BY <1>2, <1>3, <2>1, <2>2, <1>1
<1>8. h + w <= n => a < b
  <2> SUFFICES ASSUME h + w <= n, b <= a PROVE FALSE
    BY <1>2, <1>3
  <2>1. w * b <= w * a
    BY <1>1, <1>2, <1>3
  <2> QED
    BY <1>2, <1>3, <2>1, <1>1
<1>9. w * b \in Nat
  BY <1>1, <1>3
<1>10. n - r = w * b /\ n - r \in Nat /\ n - r <= n /\ n <= n - r + (w - 1)
  BY <1>1, <1>3, <1>9
<1>11. (n - r) % w = 0
  BY <1>4, <1>9, <1>10
<1> QED
  BY <1>6, <1>7, <1>8, <1>10, <1>11 DEF a, b, r

-----------------------------------------------------------------------------
(* Finite sets. *)

(* Two different things make a set of two. *)
LEMMA PairSize ==
    ASSUME NEW a, NEW b, a # b
    PROVE  IsFiniteSet({a} \cup {b}) /\ Cardinality({a} \cup {b}) = 2
<1>1. IsFiniteSet({a}) /\ Cardinality({a}) = 1 /\ b \notin {a}
  BY FS_Singleton
<1> DEFINE S == {a}
<1> HIDE DEF S
<1>2. IsFiniteSet(S) /\ Cardinality(S) = 1 /\ b \notin S
  BY <1>1 DEF S
<1>3. IsFiniteSet(S \cup {b}) /\ Cardinality(S \cup {b}) = Cardinality(S) + 1
  BY <1>2, FS_AddElement
<1>4. IsFiniteSet(S \cup {b}) /\ Cardinality(S \cup {b}) = 2
  BY <1>2, <1>3
<1> QED
  BY <1>4 DEF S

(* The places of the elements of S, counted from one, are 1 up to its      *)
(* size, in their order.                                                   *)
LEMMA Places ==
    ASSUME NEW N \in Nat, NEW S \in SUBSET (0..N)
    PROVE  /\ Cardinality(S) \in 0..N + 1
           /\ \A i \in S : Cardinality({j \in S : j <= i}) \in 1..Cardinality(S)
           /\ \A i, l \in S :
                i < l => Cardinality({j \in S : j <= i}) < Cardinality({j \in S : j <= l})
           /\ \A n \in 1..Cardinality(S) : \E i \in S : Cardinality({j \in S : j <= i}) = n
<1> DEFINE upTo(i) == {j \in S : j <= i}
           Place(i) == Cardinality(upTo(i))
           k == Cardinality(S)
<1>1. IsFiniteSet(0..N) /\ Cardinality(0..N) = N + 1
  BY FS_Interval
<1>2. IsFiniteSet(S) /\ k \in Nat /\ k <= N + 1
  <2>1. IsFiniteSet(S) /\ k <= Cardinality(0..N)
    BY <1>1, FS_Subset
  <2> QED
    BY <1>1, <2>1, FS_CardinalityType
<1>3. ASSUME NEW i \in S
      PROVE  IsFiniteSet(upTo(i)) /\ Place(i) \in 1..k
  <2>1. upTo(i) \in SUBSET S /\ i \in upTo(i)
    OBVIOUS
  <2>2. IsFiniteSet(upTo(i)) /\ Place(i) <= k
    BY <1>2, <2>1, FS_Subset
  <2>3. Place(i) \in Nat /\ Place(i) # 0
    BY <2>1, <2>2, FS_EmptySet, FS_CardinalityType
  <2> HIDE DEF Place, k
  <2> QED
    BY <1>2, <2>2, <2>3
<1>4. ASSUME NEW i \in S, NEW j \in S, i < j
      PROVE  Place(i) < Place(j)
  <2>1. upTo(i) \in SUBSET upTo(j) /\ j \in upTo(j) /\ j \notin upTo(i)
    <3>1. \A l \in S : l \in Int
      OBVIOUS
    <3>2. ASSUME NEW l \in upTo(i)
          PROVE  l \in upTo(j)
      <4>1. l \in S /\ l <= i /\ l \in Int /\ i \in Int /\ j \in Int
        BY <3>1
      <4>2. l <= j
        BY <1>4, <4>1
      <4> QED
        BY <4>1, <4>2
    <3>3. j \in upTo(j) /\ j \notin upTo(i)
      BY <1>4, <3>1
    <3> HIDE DEF upTo
    <3> QED
      BY <3>2, <3>3
  <2>2. Place(i) <= Place(j) /\ Place(i) # Place(j)
    BY <1>3, <2>1, FS_Subset
  <2>3. Place(i) \in Nat /\ Place(j) \in Nat
    BY <1>3, FS_CardinalityType
  <2> HIDE DEF Place
  <2> QED
    BY <2>2, <2>3
<1> DEFINE place == [i \in S |-> Place(i)]
<1>5. place \in [S -> 1..k] /\ \A i \in S : place[i] = Place(i)
  BY <1>3
<1>6. \A i, j \in S : Place(i) = Place(j) => i = j
  <2> SUFFICES ASSUME NEW i \in S, NEW j \in S, i # j
               PROVE  Place(i) # Place(j)
    OBVIOUS
  <2>1. i < j \/ j < i
    OBVIOUS
  <2>2. Place(i) < Place(j) \/ Place(j) < Place(i)
    BY <1>4, <2>1
  <2>3. Place(i) \in Nat /\ Place(j) \in Nat
    BY <1>3, FS_CardinalityType
  <2> HIDE DEF Place
  <2> QED
    BY <2>2, <2>3
<1>7. place \in Injection(S, 1..k)
  BY <1>5, <1>6 DEF Injection, IsInjective
<1>8. place \in Surjection(S, 1..k)
  <2>1. IsFiniteSet(1..k) /\ Cardinality(1..k) = k
    BY <1>2, FS_Interval
  <2> QED
    BY <1>7, <2>1, FS_Injection
<1>9. \A n \in 1..k : \E i \in S : Place(i) = n
  BY <1>5, <1>8 DEF Surjection
<1>10. k \in 0..N + 1
  <2> HIDE DEF k
  <2> QED
    BY <1>2
<1> QED
  BY <1>3, <1>4, <1>9, <1>10

(* The elements of S, each at its place, are S in order. *)
PlaceIn(S, i) == Cardinality({j \in S : j <= i})
OrderOf(S) == [n \in 1..Cardinality(S) |-> CHOOSE i \in S : PlaceIn(S, i) = n]

(* Listing a set by place gives each element once, smallest first. *)
LEMMA Ordered ==
    ASSUME NEW N \in Nat, NEW S \in SUBSET (0..N), NEW k, k = Cardinality(S),
           NEW at, at = OrderOf(S)
    PROVE  /\ k \in 0..N + 1 /\ at \in [1..k -> 0..N]
           /\ \A n \in 1..k : at[n] \in S /\ PlaceIn(S, at[n]) = n
           /\ \A m, n \in 1..k : m < n => at[m] < at[n]
           /\ \A i \in S : \E n \in 1..k : at[n] = i
<1> DEFINE Place(i) == PlaceIn(S, i)
<1>1. /\ k \in 0..N + 1
      /\ \A i \in S : Place(i) \in 1..k
      /\ \A i, l \in S : i < l => Place(i) < Place(l)
      /\ \A n \in 1..k : \E i \in S : Place(i) = n
  BY Places DEF PlaceIn
<1>2. at = [n \in 1..k |-> CHOOSE i \in S : Place(i) = n]
  BY DEF OrderOf
<1>3. \A n \in 1..k : PlaceIn(S, at[n]) = Place(at[n])
  OBVIOUS
<1> HIDE DEF Place
<1>4. \A n \in 1..k : at[n] \in S /\ Place(at[n]) = n
  <2> TAKE n \in 1..k
  <2>1. \E i \in S : Place(i) = n
    BY <1>1
  <2> QED
    BY <1>2, <2>1
<1>5. (\A i \in S : i \in Int) /\ \A n \in 1..k : n \in Int
  BY <1>1
<1>6. ASSUME NEW m \in 1..k, NEW n \in 1..k, m < n
      PROVE  at[m] < at[n]
  <2>1. PICK a \in S : a = at[m] /\ Place(a) = m
    BY <1>4
  <2>2. PICK b \in S : b = at[n] /\ Place(b) = n
    BY <1>4
  <2>3. a \in Int /\ b \in Int /\ m \in Int /\ n \in Int
    BY <1>5
  <2>4. ~ (b < a)
    <3> SUFFICES ASSUME b < a PROVE FALSE
      OBVIOUS
    <3>1. n < m
      BY <1>1, <2>1, <2>2
    <3> QED
      BY <1>6, <2>3, <3>1
  <2>5. m # n
    BY <1>6, <2>3
  <2>6. a # b
    BY <2>1, <2>2, <2>5
  <2>7. a < b
    BY <2>3, <2>4, <2>6
  <2> QED
    BY <2>1, <2>2, <2>7
<1>7. ASSUME NEW i \in S
      PROVE  \E n \in 1..k : at[n] = i
  <2>1. PICK n \in 1..k : n = Place(i)
    BY <1>1
  <2>2. PICK j \in S : j = at[n] /\ Place(j) = n
    BY <1>4
  <2>3. i \in Int /\ j \in Int /\ n \in Int
    BY <1>5
  <2>4. ~ (i < j) /\ ~ (j < i)
    <3>1. i < j => n < n
      BY <1>1, <2>1, <2>2
    <3>2. j < i => n < n
      BY <1>1, <2>1, <2>2
    <3> QED
      BY <2>3, <3>1, <3>2
  <2>5. i = j
    BY <2>3, <2>4
  <2> QED
    BY <2>2, <2>5
<1>8. at \in [1..k -> 0..N]
  <2>1. \A n \in 1..k : at[n] \in 0..N
    BY <1>4
  <2> QED
    BY <1>2, <2>1
<1> QED
  BY <1>1, <1>3, <1>4, <1>6, <1>7, <1>8
=============================================================================
