------------------------------ MODULE NatFacts ------------------------------
(***************************************************************************)
(* Facts about the natural numbers that the proofs about the components    *)
(* share: quotient and remainder, which every mask and shift of the code   *)
(* is an instance of, and induction, stated for sets.                      *)
(***************************************************************************)
EXTENDS Integers, FiniteSets, FiniteSetTheorems, WellFoundedInduction, TLAPS

-----------------------------------------------------------------------------
(* Quotient and remainder. *)

(* Division with remainder stays in the naturals and adds up again. *)
LEMMA DivMod ==
  ASSUME NEW p \in Nat, NEW c \in Nat \ {0}
  PROVE  /\ p \div c \in Nat
         /\ p % c \in Nat
         /\ p % c \in 0 .. (c - 1)
         /\ p = c * (p \div c) + (p % c)
  OBVIOUS

(* And what is put together so comes apart again. *)
LEMMA DivModOf ==
  ASSUME NEW c \in Nat \ {0}, NEW q \in Nat, NEW r \in 0 .. (c - 1)
  PROVE  (c * q + r) \div c = q /\ (c * q + r) % c = r
  OBVIOUS

(* The place behind a table of b entries of c bytes at a. *)
LEMMA SumOfProduct ==
  ASSUME NEW a \in Nat, NEW b \in Nat, NEW c \in Nat
  PROVE  a + b * c \in Nat
<1>1. b * c \in Nat
  OBVIOUS
<1>2. QED
  BY <1>1

(* Offsets that do not leave the cluster: the `remaining_in_cluster' bound *)
(* of Qcow2Reader::read keeps a whole chunk in one cluster.                *)
LEMMA SameCluster ==
  ASSUME NEW p \in Nat, NEW c \in Nat \ {0}, NEW i \in Nat, (p % c) + i < c
  PROVE  (p + i) \div c = p \div c /\ (p + i) % c = (p % c) + i
<1> DEFINE q == p \div c
           r == p % c
<1>1. q \in Nat /\ r \in 0 .. (c - 1) /\ p = c * q + r
  BY DivMod
<1>2. p + i = c * q + (r + i) /\ r + i \in 0 .. (c - 1)
  BY <1>1
<1> HIDE DEF q, r
<1>3. (c * q + (r + i)) \div c = q /\ (c * q + (r + i)) % c = r + i
  BY <1>1, <1>2
<1>4. QED
  BY <1>2, <1>3 DEF q, r

(* A mask with one more low part: what c leaves of a number is the same    *)
(* when it has first been cut to a multiple of c.                          *)
LEMMA ModOfMod ==
  ASSUME NEW a \in Nat, NEW c \in Nat \ {0}, NEW d \in Nat \ {0}, d % c = 0
  PROVE  (a % d) % c = a % c /\ a % c <= a % d
<1> DEFINE k == d \div c
           q == a \div d
           r == a % d
           s == r \div c
           t == r % c
<1>1. k \in Nat /\ d = c * k
  BY DivMod
<1>2. q \in Nat /\ r \in Nat /\ a = d * q + r
  BY DivMod
<1>3. s \in Nat /\ t \in 0 .. (c - 1) /\ r = c * s + t
  BY <1>2, DivMod
<1> HIDE DEF k, q, r, s, t
<1>4. PICK m \in Nat : d * q = c * m
  <2>1. d * q = c * (k * q) /\ k * q \in Nat
    BY <1>1, <1>2
  <2>2. QED
    BY <2>1
<1>5. a = c * (m + s) + t /\ m + s \in Nat
  <2>1. c * (m + s) = c * m + c * s
    BY <1>3
  <2>2. c * m \in Nat /\ c * s \in Nat
    BY <1>3
  <2>3. QED
    BY <1>2, <1>3, <1>4, <2>1, <2>2
<1>6. (c * (m + s) + t) % c = t
  <2>1. ASSUME NEW j \in Nat
        PROVE  (c * j + t) % c = t
    BY <1>3
  <2>2. QED
    BY <1>5, <2>1
<1>7. a % c = t
  BY <1>5, <1>6
<1>8. t <= r
  <2>1. c * s \in Nat
    BY <1>3
  <2>2. QED
    BY <1>3, <2>1
<1>9. QED
  BY <1>7, <1>8 DEF t, r

(* Two multiples of c that are less than c apart are the same one. *)
LEMMA MultipleGap ==
  ASSUME NEW c \in Nat \ {0}, NEW j \in Int, NEW k \in Int,
         c * j < c * k + c, c * k < c * j + c
  PROVE  j = k
<1>1. CASE j >= k + 1
  <2>1. c * j >= c * (k + 1)
    BY <1>1
  <2>2. QED
    BY <2>1
<1>2. CASE k >= j + 1
  <2>1. c * k >= c * (j + 1)
    BY <1>2
  <2>2. QED
    BY <2>1
<1>3. QED
  BY <1>1, <1>2

-----------------------------------------------------------------------------
(* Induction over data.  The library's induction theorems take a predicate *)
(* as their parameter; these take the set of the numbers it holds for.     *)

(* Every set of natural numbers that is not empty has a least element: the *)
(* intervals below its elements are ordered by inclusion.                  *)
LEMMA NatSetMin ==
  ASSUME NEW T \in SUBSET Nat, T # {}
  PROVE  \E m \in T : \A k \in T : m <= k
<1> DEFINE below == {0 .. (k - 1) : k \in T}
<1>1. IsWellFoundedOn(StrictSubsetOrdering(Nat), FiniteSubsetsOf(Nat))
  BY FS_StrictSubsetOrderingWellFounded
<1>2. below \subseteq FiniteSubsetsOf(Nat)
  <2>1. ASSUME NEW k \in T
        PROVE  0 .. (k - 1) \in SUBSET Nat /\ IsFiniteSet(0 .. (k - 1))
    BY FS_Interval
  <2>2. QED
    BY <2>1 DEF FiniteSubsetsOf
<1>3. below # {}
  OBVIOUS
<1> HIDE DEF below
<1>4. PICK b \in below : \A c \in below : ~(<<c, b>> \in StrictSubsetOrdering(Nat))
  BY <1>1, <1>2, <1>3, WFMin
<1> USE DEF below
<1>5. PICK m \in T : b = 0 .. (m - 1)
  BY <1>4
<1>6. ASSUME NEW k \in T, k < m
      PROVE  FALSE
  <2>1. 0 .. (k - 1) \in below
    OBVIOUS
  <2>2. 0 .. (k - 1) \subseteq b /\ 0 .. (k - 1) # b
    BY <1>5, <1>6
  <2>3. <<0 .. (k - 1), b>> \in StrictSubsetOrdering(Nat)
    BY <2>2, <1>5 DEF StrictSubsetOrdering
  <2>4. QED
    BY <2>1, <2>3, <1>4
<1>7. QED
  BY <1>6

(* A set with 0 and the successor of each of its numbers has them all. *)
LEMMA NatSetInduction ==
  ASSUME NEW S, 0 \in S, \A n \in Nat : n \in S => n + 1 \in S
  PROVE  Nat \subseteq S
<1>1. SUFFICES ASSUME Nat \ S # {}
               PROVE  FALSE
  OBVIOUS
<1>2. PICK m \in Nat \ S : \A k \in Nat \ S : m <= k
  BY <1>1, NatSetMin
<1>3. m # 0
  BY <1>2
<1>4. m - 1 \in Nat /\ m - 1 \notin Nat \ S
  BY <1>2, <1>3
<1>5. QED
  BY <1>4, <1>2

(* What is defined step by step on the natural numbers exists: the         *)
(* function that starts at v0 and goes on by h.                            *)
LEMMA Iteration ==
  ASSUME NEW V, NEW v0 \in V, NEW h \in [V -> V]
  PROVE  \E g \in [Nat -> V] : g[0] = v0 /\ \A k \in Nat : g[k + 1] = h[g[k]]
<1> DEFINE Upto(g, n) == /\ g \in [0 .. n -> V]
                         /\ g[0] = v0
                         /\ \A k \in 0 .. (n - 1) : g[k + 1] = h[g[k]]
           S == {n \in Nat : \E g : Upto(g, n)}
<1>1. Nat \subseteq S
  <2>1. 0 \in S
    <3>1. Upto([k \in 0 .. 0 |-> v0], 0)
      OBVIOUS
    <3>2. QED
      BY <3>1
  <2>2. ASSUME NEW n \in Nat, n \in S
        PROVE  n + 1 \in S
    <3>1. PICK g : Upto(g, n)
      BY <2>2
    <3> DEFINE e == [k \in 0 .. (n + 1) |-> IF k <= n THEN g[k] ELSE h[g[n]]]
    <3>2. \A k \in 0 .. n : e[k] = g[k] /\ g[k] \in V
      BY <3>1
    <3>3. e[n + 1] = h[g[n]] /\ h[g[n]] \in V
      BY <3>1
    <3>4. e \in [0 .. (n + 1) -> V]
      BY <3>2, <3>3
    <3>5. ASSUME NEW k \in 0 .. n
          PROVE  e[k + 1] = h[e[k]]
      <4>1. CASE k = n
        BY <3>2, <3>3, <4>1
      <4>2. CASE k # n
        <5>1. k + 1 \in 0 .. n /\ k \in 0 .. (n - 1)
          BY <4>2
        <5>2. QED
          BY <3>1, <3>2, <5>1
      <4>3. QED
        BY <4>1, <4>2
    <3> HIDE DEF e
    <3>6. Upto(e, n + 1)
      BY <3>1, <3>2, <3>4, <3>5
    <3>7. QED
      BY <3>6
  <2> HIDE DEF S
  <2>3. QED
    BY <2>1, <2>2, NatSetInduction
<1>2. ASSUME NEW n \in Nat, NEW m \in Nat, NEW f, NEW g, Upto(f, n), Upto(g, m)
      PROVE  \A k \in Nat : k <= n /\ k <= m => f[k] = g[k]
  <2> DEFINE A == {k \in Nat : k <= n /\ k <= m => f[k] = g[k]}
  <2>1. 0 \in A
    BY <1>2
  <2>2. ASSUME NEW k \in Nat, k \in A
        PROVE  k + 1 \in A
    <3>1. SUFFICES ASSUME k + 1 <= n, k + 1 <= m
                   PROVE  f[k + 1] = g[k + 1]
      OBVIOUS
    <3>2. k \in 0 .. (n - 1) /\ k \in 0 .. (m - 1) /\ f[k] = g[k]
      BY <2>2, <3>1
    <3>3. QED
      BY <1>2, <3>2
  <2> HIDE DEF A
  <2>3. Nat \subseteq A
    BY <2>1, <2>2, NatSetInduction
  <2>4. QED
    BY <2>3 DEF A
<1> DEFINE part(n) == CHOOSE g : Upto(g, n)
           all == [n \in Nat |-> part(n)[n]]
<1>3. \A n \in Nat : Upto(part(n), n)
  BY <1>1
<1> HIDE DEF part, S
<1>4. ASSUME NEW n \in Nat
      PROVE  all[n] = part(n)[n] /\ part(n)[n] \in V
  BY <1>3
<1>5. all[0] = v0
  BY <1>3
<1>6. ASSUME NEW n \in Nat
      PROVE  all[n + 1] = h[all[n]]
  <2>1. Upto(part(n), n) /\ Upto(part(n + 1), n + 1)
    BY <1>3
  <2>2. part(n + 1)[n] = part(n)[n]
    <3> HIDE DEF Upto
    <3>1. n + 1 \in Nat /\ n <= n + 1 /\ n <= n
      OBVIOUS
    <3>2. \A k \in Nat : k <= n + 1 /\ k <= n => part(n + 1)[k] = part(n)[k]
      BY <1>2, <2>1, <3>1
    <3>3. QED
      BY <3>1, <3>2
  <2>3. n \in 0 .. ((n + 1) - 1)
    OBVIOUS
  <2>4. part(n + 1)[n + 1] = h[part(n + 1)[n]]
    BY <2>1, <2>3
  <2>5. QED
    BY <2>2, <2>4
<1>7. all \in [Nat -> V]
  BY <1>4
<1>8. QED
  BY <1>5, <1>6, <1>7

-----------------------------------------------------------------------------
(* Counting the elements of a set of numbers as they are passed. *)

(* One more number is passed. *)
LEMMA CountUpTo ==
  ASSUME NEW S \in SUBSET Nat, NEW a \in Nat
  PROVE  Cardinality(S \cap (0 .. ((a + 1) - 1))) =
           Cardinality(S \cap (0 .. (a - 1))) + (IF a \in S THEN 1 ELSE 0)
<1> DEFINE T == S \cap (0 .. (a - 1))
<1>1. IsFiniteSet(T) /\ a \notin T
  <2>1. IsFiniteSet(0 .. (a - 1))
    BY FS_Interval
  <2>2. QED
    BY <2>1, FS_Subset
<1>2. Cardinality(T) \in Nat
  BY <1>1, FS_CardinalityType
<1>3. S \cap (0 .. ((a + 1) - 1)) = IF a \in S THEN T \cup {a} ELSE T
  OBVIOUS
<1> HIDE DEF T
<1>4. Cardinality(T \cup {a}) = Cardinality(T) + 1
  BY <1>1, FS_AddElement
<1>5. CASE a \in S
  <2>1. S \cap (0 .. ((a + 1) - 1)) = T \cup {a}
    BY <1>3, <1>5
  <2>2. QED
    BY <1>4, <1>5, <2>1 DEF T
<1>6. CASE a \notin S
  <2>1. S \cap (0 .. ((a + 1) - 1)) = T
    BY <1>3, <1>6
  <2>2. Cardinality(S \cap (0 .. ((a + 1) - 1))) = Cardinality(T) + 0
    BY <1>2, <2>1
  <2>3. QED
    BY <1>6, <2>2 DEF T
<1>7. QED
  BY <1>5, <1>6

(* What is passed is no more than there is. *)
LEMMA CountMore ==
  ASSUME NEW S \in SUBSET Nat, NEW T \in SUBSET Nat, NEW a \in Int, NEW b \in Int,
         S \cap (0 .. (a - 1)) \subseteq T, T \subseteq 0 .. (b - 1)
  PROVE  /\ IsFiniteSet(T) /\ Cardinality(T) \in Nat
         /\ Cardinality(S \cap (0 .. (a - 1))) \in Nat
         /\ Cardinality(S \cap (0 .. (a - 1))) <= Cardinality(T)
<1>1. IsFiniteSet(T)
  <2>1. IsFiniteSet(0 .. (b - 1))
    BY FS_Interval
  <2>2. QED
    BY <2>1, FS_Subset
<1>2. /\ IsFiniteSet(S \cap (0 .. (a - 1)))
      /\ Cardinality(S \cap (0 .. (a - 1))) <= Cardinality(T)
  BY <1>1, FS_Subset
<1>3. QED
  BY <1>1, <1>2, FS_CardinalityType
=============================================================================
