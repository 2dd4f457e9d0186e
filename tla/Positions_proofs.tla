--------------------------- MODULE Positions_proofs ---------------------------
(***************************************************************************)
(* What Pick returns, for every sequence and every set of positions.  The  *)
(* induction over naturals is done with sets (a nonempty set of naturals   *)
(* has a least member) rather than with an operator-valued theorem.        *)
(***************************************************************************)
EXTENDS Positions, FiniteSetTheorems, WellFoundedInduction, TLAPS

(* A nonempty set of naturals has a least member. *)
LEMMA LeastNat ==
  ASSUME NEW T, T \in SUBSET Nat, T # {}
  PROVE  \E x \in T : \A y \in T : x <= y
<1>1. PICK x \in T : \A y \in T : ~ (<<y, x>> \in OpToRel(<, Nat))
  BY NatLessThanWellFounded, WFMin
<1>2. ASSUME NEW y \in T PROVE x <= y
  <2>1. ~ (<<y, x>> \in {p \in Nat \X Nat : p[1] < p[2]})
    BY <1>1 DEF OpToRel
  <2>2. y \in Nat /\ x \in Nat OBVIOUS
  <2>3. QED BY <2>1, <2>2
<1>3. QED BY <1>2

(* Positions of a sequence form a finite set. *)
LEMMA PositionsFinite ==
  ASSUME NEW n \in Nat, NEW K \in SUBSET (1..n)
  PROVE  IsFiniteSet(K) /\ Cardinality(K) \in Nat
<1>1. IsFiniteSet(1..n) BY FS_Interval
<1>2. IsFiniteSet(K) BY <1>1, FS_Subset
<1>3. QED BY <1>2, FS_CardinalityType

(* How many chosen positions lie at or below i. *)
Below(K, i) == {j \in K : j <= i}

LEMMA BelowFinite ==
  ASSUME NEW n \in Nat, NEW K \in SUBSET (1..n), NEW i \in 0..n
  PROVE  IsFiniteSet(Below(K, i)) /\ Cardinality(Below(K, i)) \in Nat
<1>1. Below(K, i) \in SUBSET (1..n) BY DEF Below
<1>2. QED BY <1>1, PositionsFinite

(* The k-th smallest position exists: Nth is a member of K of rank k. *)
LEMMA NthIn ==
  ASSUME NEW n \in Nat, NEW K \in SUBSET (1..n), NEW k \in 1..Cardinality(K)
  PROVE  Nth(K, k) \in K /\ Cardinality(Below(K, Nth(K, k))) = k
<1> DEFINE T == {i \in 0..n : Cardinality(Below(K, i)) >= k}
<1>1. IsFiniteSet(K) /\ Cardinality(K) \in Nat
  BY PositionsFinite
<1>2. ASSUME NEW i \in 0..n
      PROVE  IsFiniteSet(Below(K, i)) /\ Cardinality(Below(K, i)) \in Nat
  BY BelowFinite
<1>3. n \in T
  <2>1. \A j \in K : j <= n OBVIOUS
  <2>2. Below(K, n) = K BY <2>1 DEF Below
  <2>3. n \in 0..n OBVIOUS
  <2>4. Cardinality(Below(K, n)) >= k BY <2>2, <1>1
  <2>5. QED BY <2>3, <2>4
<1>4. PICK i \in T : \A y \in T : i <= y
  <2>1. T \in SUBSET Nat OBVIOUS
  <2>2. T # {} BY <1>3
  <2> HIDE DEF T
  <2>3. QED BY <2>1, <2>2, LeastNat
<1>5. Cardinality(Below(K, 0)) = 0
  <2>1. \A j \in K : ~ (j <= 0) OBVIOUS
  <2>2. Below(K, 0) = {} BY <2>1 DEF Below
  <2>3. QED BY <2>2, FS_EmptySet
<1>6. /\ i \in 0..n /\ Cardinality(Below(K, i)) >= k
      /\ Cardinality(Below(K, i)) \in Nat /\ k \in Nat \ {0}
  BY <1>4, <1>2, <1>1
<1>7. i # 0
  BY <1>5, <1>6
<1>8. i - 1 \in 0..n /\ i - 1 < i /\ ~ (i <= i - 1)
  BY <1>7, <1>6
<1>9. Cardinality(Below(K, i - 1)) < k /\ Cardinality(Below(K, i - 1)) \in Nat
  <2>1. i - 1 \notin T
    <3> HIDE DEF T
    <3>1. QED BY <1>8, <1>4, <1>6
  <2>2. ~ (Cardinality(Below(K, i - 1)) >= k) BY <2>1, <1>8
  <2>3. Cardinality(Below(K, i - 1)) \in Nat BY <1>2, <1>8
  <2>4. QED BY <2>2, <2>3, <1>6
<1>10. \A j \in K : j <= i <=> (j <= i - 1 \/ j = i)
  BY <1>6
<1>11. i \in K
  <2> SUFFICES ASSUME i \notin K PROVE FALSE
    OBVIOUS
  <2>1. \A j \in K : j <= i <=> j <= i - 1 BY <1>10
  <2>2. Below(K, i) = Below(K, i - 1) BY <2>1 DEF Below
  <2>3. QED BY <2>2, <1>9, <1>6
<1>12. Cardinality(Below(K, i)) = k
  <2>1. Below(K, i) = Below(K, i - 1) \cup {i} BY <1>10, <1>11 DEF Below
  <2>2. i \notin Below(K, i - 1) BY <1>8 DEF Below
  <2>3. IsFiniteSet(Below(K, i - 1)) BY <1>2, <1>8
  <2>4. Cardinality(Below(K, i)) = Cardinality(Below(K, i - 1)) + 1
    BY <2>1, <2>2, <2>3, FS_AddElement
  <2>5. QED BY <2>4, <1>9, <1>6
<1>13. QED BY <1>11, <1>12 DEF Nth, Below

(* Two positions of one rank are the same position. *)
LEMMA RankInjective ==
  ASSUME NEW n \in Nat, NEW K \in SUBSET (1..n), NEW i \in K, NEW j \in K,
         Cardinality(Below(K, i)) = Cardinality(Below(K, j))
  PROVE  i = j
<1>1. ASSUME NEW p \in K, NEW q \in K, p < q,
             Cardinality(Below(K, p)) = Cardinality(Below(K, q))
      PROVE  FALSE
  <2>1. \A m \in K : m <= p => m <= q BY <1>1
  <2>2. Below(K, p) \in SUBSET Below(K, q) BY <2>1 DEF Below
  <2>3. q \in 0..n OBVIOUS
  <2>4. IsFiniteSet(Below(K, q)) BY <2>3, BelowFinite
  <2>5. Below(K, p) = Below(K, q) BY <2>2, <2>4, <1>1, FS_Subset
  <2>6. q <= q /\ ~ (q <= p) BY <1>1
  <2>7. q \in Below(K, q) /\ q \notin Below(K, p) BY <2>6 DEF Below
  <2>8. QED BY <2>5, <2>7
<1>2. i \in Nat /\ j \in Nat OBVIOUS
<1>3. i < j \/ j < i \/ i = j BY <1>2
<1>4. QED BY <1>1, <1>3

(* Every member of K is the k-th smallest for its own rank k. *)
LEMMA NthOnto ==
  ASSUME NEW n \in Nat, NEW K \in SUBSET (1..n), NEW i \in K
  PROVE  \E k \in 1..Cardinality(K) : Nth(K, k) = i
<1> DEFINE k == Cardinality(Below(K, i))
<1>1. i \in 0..n /\ i <= i OBVIOUS
<1>2. IsFiniteSet(Below(K, i)) /\ k \in Nat BY <1>1, BelowFinite
<1>3. IsFiniteSet(K) /\ Cardinality(K) \in Nat BY PositionsFinite
<1>4. k <= Cardinality(K)
  <2>1. Below(K, i) \in SUBSET K BY DEF Below
  <2>2. QED BY <2>1, <1>3, FS_Subset
<1>5. k # 0
  <2>1. i \in Below(K, i) BY <1>1 DEF Below
  <2>2. QED BY <2>1, <1>2, FS_EmptySet
<1>6. k \in 1..Cardinality(K) BY <1>2, <1>3, <1>4, <1>5
<1>7. Nth(K, k) \in K /\ Cardinality(Below(K, Nth(K, k))) = k
  BY <1>6, NthIn
<1>8. Nth(K, k) = i
  <2>1. Cardinality(Below(K, Nth(K, k))) = Cardinality(Below(K, i)) BY <1>7
  <2> HIDE DEF k
  <2>2. QED BY <2>1, <1>7, RankInjective
<1>9. QED BY <1>6, <1>8

(* Different ranks name different positions. *)
LEMMA NthInjective ==
  ASSUME NEW n \in Nat, NEW K \in SUBSET (1..n),
         NEW k \in 1..Cardinality(K), NEW l \in 1..Cardinality(K), Nth(K, k) = Nth(K, l)
  PROVE  k = l
BY NthIn

(* Picking from a sequence gives a sequence over the same elements, whose  *)
(* values are those at the chosen positions.                               *)
LEMMA PickType ==
  ASSUME NEW S, NEW s \in Seq(S), NEW K \in SUBSET DOMAIN s
  PROVE  /\ Pick(s, K) \in Seq(S)
         /\ Len(Pick(s, K)) = Cardinality(K)
         /\ DOMAIN Pick(s, K) = 1..Cardinality(K)
<1>1. Len(s) \in Nat /\ DOMAIN s = 1..Len(s) OBVIOUS
<1>2. K \in SUBSET (1..Len(s)) BY <1>1
<1>3. Cardinality(K) \in Nat BY <1>1, <1>2, PositionsFinite
<1>4. ASSUME NEW k \in 1..Cardinality(K) PROVE s[Nth(K, k)] \in S
  <2>1. Nth(K, k) \in K BY <1>1, <1>2, NthIn
  <2>2. Nth(K, k) \in 1..Len(s) BY <2>1, <1>2
  <2>3. QED BY <2>2, <1>1
<1>5. Pick(s, K) \in [1..Cardinality(K) -> S] BY <1>4 DEF Pick
<1>6. QED BY <1>5, <1>3

LEMMA PickValues ==
  ASSUME NEW S, NEW s \in Seq(S), NEW K \in SUBSET DOMAIN s
  PROVE  Values(Pick(s, K)) = {s[i] : i \in K}
<1>1. Len(s) \in Nat /\ K \in SUBSET (1..Len(s)) OBVIOUS
<1>2. DOMAIN Pick(s, K) = 1..Cardinality(K) BY PickType
<1>3. ASSUME NEW k \in 1..Cardinality(K)
      PROVE  Pick(s, K)[k] = s[Nth(K, k)] /\ Nth(K, k) \in K
  BY <1>1, NthIn DEF Pick
<1>4. Values(Pick(s, K)) \subseteq {s[i] : i \in K}
  BY <1>2, <1>3 DEF Values
<1>5. ASSUME NEW i \in K PROVE s[i] \in Values(Pick(s, K))
  <2>1. PICK k \in 1..Cardinality(K) : Nth(K, k) = i BY <1>1, NthOnto
  <2>2. Pick(s, K)[k] = s[i] BY <2>1, <1>3
  <2>3. QED BY <2>2, <1>2 DEF Values
<1>6. QED BY <1>4, <1>5

(* Positions with different elements stay apart when picked. *)
LEMMA PickInjective ==
  ASSUME NEW S, NEW s \in Seq(S), NEW K \in SUBSET DOMAIN s,
         \A i, j \in K : s[i] = s[j] => i = j
  PROVE  \A k, l \in DOMAIN Pick(s, K) : Pick(s, K)[k] = Pick(s, K)[l] => k = l
<1>1. Len(s) \in Nat /\ K \in SUBSET (1..Len(s)) OBVIOUS
<1>2. DOMAIN Pick(s, K) = 1..Cardinality(K) BY PickType
<1>3. \A k \in 1..Cardinality(K) : Pick(s, K)[k] = s[Nth(K, k)] /\ Nth(K, k) \in K
  BY <1>1, NthIn DEF Pick
<1>4. ASSUME NEW k \in 1..Cardinality(K), NEW l \in 1..Cardinality(K),
             Pick(s, K)[k] = Pick(s, K)[l]
      PROVE  k = l
  <2>1. Nth(K, k) = Nth(K, l) BY <1>3, <1>4
  <2>2. QED BY <1>1, <2>1, NthInjective
<1>5. QED BY <1>2, <1>4

-------------------------------------------------------------------------------
(* Sequences that list a set: every member, once. *)
Lists(s, T) ==
  /\ Values(s) = T
  /\ \A i, j \in DOMAIN s : s[i] = s[j] => i = j

LEMMA EmptyLists == Lists(<<>>, {})
BY DEF Lists, Values

LEMMA AppendLists ==
  ASSUME NEW S, NEW s \in Seq(S), NEW T, Lists(s, T), NEW e \in S, e \notin T
  PROVE  Lists(Append(s, e), T \cup {e})
<1> DEFINE a == Append(s, e)
<1>1. /\ Len(s) \in Nat /\ DOMAIN s = 1..Len(s) /\ DOMAIN a = 1..(Len(s) + 1)
      /\ \A i \in 1..Len(s) : a[i] = s[i]
      /\ a[Len(s) + 1] = e
  <2>1. a \in Seq(S) /\ Len(a) = Len(s) + 1 OBVIOUS
  <2>2. DOMAIN a = 1..(Len(s) + 1) BY <2>1
  <2>3. a[Len(s) + 1] = e OBVIOUS
  <2>4. \A i \in 1..Len(s) : a[i] = s[i] OBVIOUS
  <2>5. Len(s) \in Nat /\ DOMAIN s = 1..Len(s) OBVIOUS
  <2>6. QED BY <2>2, <2>3, <2>4, <2>5
<1>2. \A i \in DOMAIN a : i \in DOMAIN s \/ i = Len(s) + 1 BY <1>1
<1>3. \A i \in DOMAIN s : i \in DOMAIN a /\ a[i] = s[i] BY <1>1
<1>4. Len(s) + 1 \in DOMAIN a BY <1>1
<1>5. \A i \in DOMAIN s : s[i] # e BY DEF Lists, Values
<1> HIDE DEF a
<1>6. Values(a) = T \cup {e} BY <1>1, <1>2, <1>3, <1>4 DEF Lists, Values
<1>7. \A i, j \in DOMAIN a : a[i] = a[j] => i = j BY <1>1, <1>2, <1>3, <1>5 DEF Lists
<1>8. Lists(a, T \cup {e}) BY <1>6, <1>7 DEF Lists
<1>9. QED BY <1>8 DEF a

LEMMA ConcatElements ==
  ASSUME NEW S, NEW s \in Seq(S), NEW t \in Seq(S)
  PROVE  /\ s \o t \in Seq(S)
         /\ \A i \in DOMAIN s : i \in DOMAIN (s \o t) /\ (s \o t)[i] = s[i]
         /\ \A i \in DOMAIN t : /\ Len(s) + i \in DOMAIN (s \o t)
                                /\ (s \o t)[Len(s) + i] = t[i]
         /\ \A i \in DOMAIN (s \o t) : \/ i \in DOMAIN s
                                       \/ \E j \in DOMAIN t : i = Len(s) + j
<1>1. s \o t \in Seq(S) /\ Len(s \o t) = Len(s) + Len(t) OBVIOUS
<1>2. DOMAIN s = 1..Len(s) /\ DOMAIN t = 1..Len(t) /\ DOMAIN (s \o t) = 1..(Len(s) + Len(t))
  BY <1>1
<1>3. Len(s) \in Nat /\ Len(t) \in Nat OBVIOUS
<1>4. \A i \in 1..(Len(s) + Len(t)) : (s \o t)[i] = IF i <= Len(s) THEN s[i] ELSE t[i - Len(s)]
  OBVIOUS
<1>5. ASSUME NEW i \in DOMAIN t
      PROVE  Len(s) + i \in DOMAIN (s \o t) /\ (s \o t)[Len(s) + i] = t[i]
  <2>1. i \in 1..Len(t) /\ (Len(s) + i) - Len(s) = i /\ ~ (Len(s) + i <= Len(s)) BY <1>2, <1>3
  <2>2. Len(s) + i \in 1..(Len(s) + Len(t)) BY <2>1, <1>3
  <2>3. QED BY <2>1, <2>2, <1>2, <1>4
<1>6. ASSUME NEW i \in DOMAIN (s \o t), i \notin DOMAIN s
      PROVE  \E j \in DOMAIN t : i = Len(s) + j
  <2>1. i - Len(s) \in 1..Len(t) /\ i = Len(s) + (i - Len(s)) BY <1>2, <1>3, <1>6
  <2>2. QED BY <2>1, <1>2
<1>7. ASSUME NEW i \in DOMAIN s
      PROVE  i \in DOMAIN (s \o t) /\ (s \o t)[i] = s[i]
  BY <1>2, <1>3, <1>4
<1>8. /\ \A i \in DOMAIN s : i \in DOMAIN (s \o t) /\ (s \o t)[i] = s[i]
      /\ \A i \in DOMAIN t : /\ Len(s) + i \in DOMAIN (s \o t)
                             /\ (s \o t)[Len(s) + i] = t[i]
  BY <1>5, <1>7
<1>9. \A i \in DOMAIN (s \o t) : i \in DOMAIN s \/ \E j \in DOMAIN t : i = Len(s) + j
  BY <1>6
<1>10. QED BY <1>1, <1>8, <1>9

LEMMA ConcatValues ==
  ASSUME NEW S, NEW s \in Seq(S), NEW t \in Seq(S)
  PROVE  Values(s \o t) = Values(s) \cup Values(t)
<1> DEFINE c == s \o t
<1>1. \A i \in DOMAIN s : i \in DOMAIN c /\ c[i] = s[i] BY ConcatElements
<1>2. \A i \in DOMAIN t : Len(s) + i \in DOMAIN c /\ c[Len(s) + i] = t[i] BY ConcatElements
<1>3. \A i \in DOMAIN c : i \in DOMAIN s \/ \E j \in DOMAIN t : i = Len(s) + j
  BY ConcatElements
<1> HIDE DEF c
<1>4. Values(c) = Values(s) \cup Values(t)
  <2>1. \A i \in DOMAIN s : s[i] \in Values(c) BY <1>1 DEF Values
  <2>2. \A i \in DOMAIN t : t[i] \in Values(c) BY <1>2 DEF Values
  <2>3. \A i \in DOMAIN c : c[i] \in Values(s) \cup Values(t)
    BY <1>1, <1>2, <1>3 DEF Values
  <2>4. Values(s) \cup Values(t) \subseteq Values(c) BY <2>1, <2>2 DEF Values
  <2>5. Values(c) \subseteq Values(s) \cup Values(t) BY <2>3 DEF Values
  <2>6. QED BY <2>4, <2>5
<1>5. QED BY <1>4 DEF c

LEMMA ConcatLists ==
  ASSUME NEW S, NEW s \in Seq(S), NEW t \in Seq(S), NEW A, NEW B,
         Lists(s, A), Lists(t, B), A \cap B = {}
  PROVE  Lists(s \o t, A \cup B)
<1> DEFINE c == s \o t
<1>1. Values(c) = A \cup B BY ConcatValues DEF Lists
<1>2. ASSUME NEW i \in DOMAIN c, NEW j \in DOMAIN c, c[i] = c[j] PROVE i = j
  <2>1. \A k \in DOMAIN s : c[k] = s[k] /\ s[k] \in A BY ConcatElements DEF Lists, Values
  <2>2. \A k \in DOMAIN t : c[Len(s) + k] = t[k] /\ t[k] \in B
    BY ConcatElements DEF Lists, Values
  <2>3. \A k \in DOMAIN c : k \in DOMAIN s \/ \E m \in DOMAIN t : k = Len(s) + m
    BY ConcatElements
  <2> HIDE DEF c
  <2>4. CASE i \in DOMAIN s /\ j \in DOMAIN s BY <2>1, <2>4, <1>2 DEF Lists
  <2>5. CASE i \in DOMAIN s /\ j \notin DOMAIN s
    <3>1. PICK m \in DOMAIN t : j = Len(s) + m BY <2>3, <2>5
    <3>2. QED BY <3>1, <2>1, <2>2, <2>5, <1>2
  <2>6. CASE i \notin DOMAIN s /\ j \in DOMAIN s
    <3>1. PICK m \in DOMAIN t : i = Len(s) + m BY <2>3, <2>6
    <3>2. QED BY <3>1, <2>1, <2>2, <2>6, <1>2
  <2>7. CASE i \notin DOMAIN s /\ j \notin DOMAIN s
    <3>1. PICK m \in DOMAIN t : i = Len(s) + m BY <2>3, <2>7
    <3>2. PICK n \in DOMAIN t : j = Len(s) + n BY <2>3, <2>7
    <3>3. t[m] = t[n] BY <3>1, <3>2, <2>2, <1>2
    <3>4. QED BY <3>1, <3>2, <3>3 DEF Lists
  <2>8. QED BY <2>4, <2>5, <2>6, <2>7
<1> HIDE DEF c
<1>3. Lists(c, A \cup B) BY <1>1, <1>2 DEF Lists
<1>4. QED BY <1>3 DEF c

LEMMA PickLists ==
  ASSUME NEW S, NEW s \in Seq(S), NEW K \in SUBSET DOMAIN s,
         \A i, j \in K : s[i] = s[j] => i = j
  PROVE  Lists(Pick(s, K), {s[i] : i \in K})
BY PickValues, PickInjective DEF Lists

(* Picking keeps as many copies of a value as there are at the chosen      *)
(* positions.                                                              *)
LEMMA PickCopies ==
  ASSUME NEW S, NEW s \in Seq(S), NEW K \in SUBSET DOMAIN s, NEW x
  PROVE  Cardinality(Copies(Pick(s, K), x)) = Cardinality(K \cap Copies(s, x))
<1> DEFINE A == Copies(Pick(s, K), x)
           B == K \cap Copies(s, x)
           f == [k \in A |-> Nth(K, k)]
<1> USE DEF Copies
<1>1. Len(s) \in Nat /\ K \in SUBSET (1..Len(s)) OBVIOUS
<1>2. DOMAIN Pick(s, K) = 1..Cardinality(K) BY PickType
<1>3. \A k \in 1..Cardinality(K) : Pick(s, K)[k] = s[Nth(K, k)] /\ Nth(K, k) \in K
  BY <1>1, NthIn DEF Pick
<1>4. f \in [A -> B] BY <1>2, <1>3
<1>5. \A k, l \in A : f[k] = f[l] => k = l
  <2>1. ASSUME NEW k \in A, NEW l \in A, f[k] = f[l] PROVE k = l
    <3>1. k \in 1..Cardinality(K) /\ l \in 1..Cardinality(K) BY <1>2
    <3>2. Nth(K, k) = Nth(K, l) BY <2>1
    <3>3. QED BY <1>1, <3>1, <3>2, NthInjective
  <2>2. QED BY <2>1
<1>6. \A i \in B : \E k \in A : f[k] = i
  <2>1. ASSUME NEW i \in B PROVE \E k \in A : f[k] = i
    <3>1. PICK k \in 1..Cardinality(K) : Nth(K, k) = i BY <1>1, NthOnto
    <3>2. k \in A BY <3>1, <1>2, <1>3
    <3>3. QED BY <3>1, <3>2
  <2>2. QED BY <2>1
<1>7. Cardinality(K) \in Nat BY <1>1, PositionsFinite
<1>8. IsFiniteSet(A)
  <2>1. A \in SUBSET (1..Cardinality(K)) BY <1>2
  <2>2. QED BY <2>1, <1>7, PositionsFinite
<1> HIDE DEF A, B, f
<1>9. ExistsBijection(A, B)
  BY <1>4, <1>5, <1>6 DEF ExistsBijection, Bijection, Injection, Surjection, IsInjective
<1>10. Cardinality(A) = Cardinality(B) BY <1>8, <1>9, FS_Bijection
<1>11. QED BY <1>10 DEF A, B

(* Of the positions with a property, some is the first. *)
LEMMA FirstPosition ==
  ASSUME NEW S, NEW s \in Seq(S), NEW T \in SUBSET DOMAIN s, T # {}
  PROVE  \E i \in T : \A j \in T : i <= j
<1>1. T \in SUBSET Nat OBVIOUS
<1>2. QED BY <1>1, LeastNat

-------------------------------------------------------------------------------
(* Counting two disjoint finite sets, and two subsets of them. *)
LEMMA DisjointUnion ==
  ASSUME NEW S, NEW T, IsFiniteSet(S), IsFiniteSet(T), S \cap T = {}
  PROVE  /\ IsFiniteSet(S \cup T)
         /\ Cardinality(S) \in Nat /\ Cardinality(T) \in Nat
         /\ Cardinality(S \cup T) = Cardinality(S) + Cardinality(T)
<1>1. Cardinality(S) \in Nat /\ Cardinality(T) \in Nat BY FS_CardinalityType
<1>2. Cardinality({}) = 0 BY FS_EmptySet
<1>3. IsFiniteSet(S \cup T)
      /\ Cardinality(S \cup T) = Cardinality(S) + Cardinality(T) - Cardinality(S \cap T)
  BY FS_Union
<1>4. Cardinality(S \cap T) = 0 BY <1>2
<1>5. QED BY <1>1, <1>3, <1>4

LEMMA SubsetsApart ==
  ASSUME NEW S, NEW T, IsFiniteSet(S), IsFiniteSet(T), S \cap T = {},
         NEW A \in SUBSET S, NEW B \in SUBSET T
  PROVE  Cardinality(A \cup B) = Cardinality(A) + Cardinality(B)
<1>1. IsFiniteSet(A) /\ IsFiniteSet(B) BY FS_Subset
<1>2. A \cap B = {} OBVIOUS
<1>3. QED BY <1>1, <1>2, DisjointUnion

-------------------------------------------------------------------------------
(* Recursion over 0..n, for functions instead of operators: there is one   *)
(* function that starts at b and goes on by h, and no other.  A recursive  *)
(* function definition is a CHOOSE; this says that there is what it        *)
(* chooses.                                                                *)
Recurs(f, n, b, h) ==
  f[0] = b /\ \A k \in 1..n : f[k] = h[<<k, f[k - 1]>>]

LEMMA RecursionExists ==
  ASSUME NEW n \in Nat, NEW S, NEW b \in S, NEW h,
         \A k \in 1..n : \A x \in S : h[<<k, x>>] \in S
  PROVE  \E f \in [0..n -> S] : Recurs(f, n, b, h)
<1> DEFINE Short == {m \in 0..n : ~ \E f \in [0..m -> S] : Recurs(f, m, b, h)}
<1>1. SUFFICES ASSUME Short # {} PROVE FALSE
  <2>1. n \in 0..n OBVIOUS
  <2>2. QED BY <1>1, <2>1
<1>2. PICK m \in Short : \A y \in Short : m <= y
  <2>1. Short \in SUBSET Nat OBVIOUS
  <2> HIDE DEF Short
  <2>2. QED BY <1>1, <2>1, LeastNat
<1>3. m # 0
  <2>1. SUFFICES ASSUME m = 0 PROVE FALSE OBVIOUS
  <2> DEFINE f == [k \in 0..0 |-> b]
  <2>2. f \in [0..0 -> S] /\ f[0] = b OBVIOUS
  <2>3. Recurs(f, 0, b, h) BY <2>2 DEF Recurs
  <2>4. QED BY <2>1, <2>2, <2>3
<1>4. m \in 1..n /\ m - 1 \in 0..n /\ ~ (m <= m - 1) BY <1>3
<1>5. PICK g \in [0..(m - 1) -> S] : Recurs(g, m - 1, b, h)
  BY <1>2, <1>4
<1> DEFINE f == [k \in 0..m |-> IF k = m THEN h[<<m, g[m - 1]>>] ELSE g[k]]
<1>6. \A k \in 0..(m - 1) : f[k] = g[k] BY <1>4
<1>7. f[m] = h[<<m, g[m - 1]>>] BY <1>4
<1>8. f \in [0..m -> S]
  <2>1. g[m - 1] \in S BY <1>4, <1>5
  <2>2. \A k \in 0..m : k = m \/ k \in 0..(m - 1) BY <1>4
  <2>3. QED BY <2>1, <2>2, <1>4
<1>9. Recurs(f, m, b, h)
  <2> HIDE DEF f
  <2>1. f[0] = b BY <1>4, <1>5, <1>6 DEF Recurs
  <2>2. ASSUME NEW k \in 1..m PROVE f[k] = h[<<k, f[k - 1]>>]
    <3>1. k - 1 \in 0..(m - 1) BY <1>4
    <3>2. f[k - 1] = g[k - 1] BY <3>1, <1>6
    <3>3. CASE k = m BY <3>2, <3>3, <1>7
    <3>4. CASE k # m
      <4>1. k \in 1..(m - 1) BY <3>4, <1>4
      <4>2. g[k] = h[<<k, g[k - 1]>>] BY <4>1, <1>5 DEF Recurs
      <4>3. f[k] = g[k] BY <4>1, <1>6
      <4>4. QED BY <4>2, <4>3, <3>2
    <3>5. QED BY <3>3, <3>4
  <2>3. QED BY <2>1, <2>2 DEF Recurs
<1>10. QED BY <1>8, <1>9, <1>2

(* Two functions that recur alike are alike. *)
LEMMA RecursionUnique ==
  ASSUME NEW n \in Nat, NEW b, NEW h, NEW f, NEW g, Recurs(f, n, b, h), Recurs(g, n, b, h)
  PROVE  \A k \in 0..n : f[k] = g[k]
<1> DEFINE Apart == {k \in 0..n : f[k] # g[k]}
<1>1. SUFFICES ASSUME Apart # {} PROVE FALSE OBVIOUS
<1>2. PICK m \in Apart : \A y \in Apart : m <= y
  <2>1. Apart \in SUBSET Nat OBVIOUS
  <2> HIDE DEF Apart
  <2>2. QED BY <1>1, <2>1, LeastNat
<1>3. m # 0 BY DEF Recurs
<1>4. m \in 1..n /\ m - 1 \in 0..n /\ ~ (m <= m - 1) BY <1>3
<1>5. f[m - 1] = g[m - 1] BY <1>2, <1>4
<1>6. f[m] = g[m] BY <1>4, <1>5 DEF Recurs
<1>7. QED BY <1>6

(* Recursion over sets of positions that takes the greatest one away.      *)
Topmost(s, m) == m \in s /\ \A j \in s : j <= m

Unwinds(f, n, b, h) ==
  /\ f[{}] = b
  /\ \A s \in SUBSET (1..n) : \A m \in s : Topmost(s, m) => f[s] = h[<<m, f[s \ {m}]>>]

LEMMA SetRecursionExists ==
  ASSUME NEW n \in Nat, NEW S, NEW b \in S, NEW h,
         \A k \in 1..n : \A x \in S : h[<<k, x>>] \in S
  PROVE  \E f \in [SUBSET (1..n) -> S] : Unwinds(f, n, b, h)
<1> DEFINE P == SUBSET (1..n)
           T == [P -> S]
           B == [s \in P |-> b]
           H == [p \in (1..n) \X T |->
                   [s \in P |-> IF Topmost(s, p[1]) THEN h[<<p[1], p[2][s \ {p[1]}]>>] ELSE p[2][s]]]
<1>1. \A k \in 1..n : \A F \in T :
        H[<<k, F>>] = [s \in P |-> IF Topmost(s, k) THEN h[<<k, F[s \ {k}]>>] ELSE F[s]]
  OBVIOUS
<1>2. ASSUME NEW k \in 1..n, NEW F \in T PROVE H[<<k, F>>] \in T
  <2>1. ASSUME NEW s \in P
        PROVE  (IF Topmost(s, k) THEN h[<<k, F[s \ {k}]>>] ELSE F[s]) \in S
    <3>1. F[s] \in S /\ s \ {k} \in P OBVIOUS
    <3>2. F[s \ {k}] \in S BY <3>1
    <3>3. QED BY <3>1, <3>2
  <2>2. QED BY <1>1, <2>1
<1>3. B \in T OBVIOUS
<1>4. PICK r \in [0..n -> T] : Recurs(r, n, B, H)
  <2> HIDE DEF T, B, H
  <2>1. QED BY <1>2, <1>3, RecursionExists
<1>5. /\ r[0] = B
      /\ \A k \in 1..n : \A s \in P :
           r[k][s] = IF Topmost(s, k) THEN h[<<k, r[k - 1][s \ {k}]>>] ELSE r[k - 1][s]
  <2>1. r[0] = B BY <1>4 DEF Recurs
  <2>2. ASSUME NEW k \in 1..n, NEW s \in P
        PROVE  r[k][s] = IF Topmost(s, k) THEN h[<<k, r[k - 1][s \ {k}]>>] ELSE r[k - 1][s]
    <3>1. k - 1 \in 0..n OBVIOUS
    <3>2. r[k] = H[<<k, r[k - 1]>>] /\ r[k - 1] \in T BY <1>4, <3>1 DEF Recurs
    <3> DEFINE F == r[k - 1]
    <3> HIDE DEF H, T, F
    <3>3. r[k] = [t \in P |-> IF Topmost(t, k) THEN h[<<k, F[t \ {k}]>>] ELSE F[t]]
      <4>1. r[k] = H[<<k, F>>] /\ F \in T BY <3>2 DEF F
      <4>2. QED BY <1>1, <4>1
    <3>4. QED BY <3>3 DEF F
  <2>3. QED BY <2>1, <2>2
<1> HIDE DEF H
<1>6. ASSUME NEW m \in 0..n, NEW s \in P, \A j \in s : j <= m
      PROVE  r[n][s] = r[m][s]
  <2> DEFINE Off == {k \in m..n : r[k][s] # r[m][s]}
  <2>1. SUFFICES ASSUME Off # {} PROVE FALSE
    <3>1. n \in m..n OBVIOUS
    <3>2. QED BY <2>1, <3>1
  <2>2. PICK k \in Off : \A y \in Off : k <= y
    <3>1. Off \in SUBSET Nat OBVIOUS
    <3> HIDE DEF Off
    <3>2. QED BY <2>1, <3>1, LeastNat
  <2>3. k # m OBVIOUS
  <2>4. k \in 1..n /\ k - 1 \in m..n /\ ~ (k <= k - 1) /\ ~ (k <= m) BY <2>3
  <2>5. r[k - 1][s] = r[m][s] BY <2>2, <2>4
  <2>6. ~ Topmost(s, k) BY <1>6, <2>4 DEF Topmost
  <2>7. r[k][s] = r[k - 1][s] BY <1>5, <2>4, <2>6
  <2>8. QED BY <2>5, <2>7
<1> DEFINE f == r[n]
<1>7. f \in T BY <1>4
<1>8. f[{}] = b
  <2>1. {} \in P /\ 0 \in 0..n OBVIOUS
  <2>2. f[{}] = r[0][{}] BY <1>6, <2>1
  <2>3. QED BY <1>5, <2>1, <2>2
<1>9. ASSUME NEW s \in P, NEW m \in s, Topmost(s, m) PROVE f[s] = h[<<m, f[s \ {m}]>>]
  <2>1. m \in 1..n /\ m \in 0..n /\ m - 1 \in 0..n /\ s \ {m} \in P OBVIOUS
  <2>2. f[s] = r[m][s] BY <1>6, <1>9, <2>1 DEF Topmost
  <2>3. \A j \in s \ {m} : j <= m - 1 BY <1>9, <2>1 DEF Topmost
  <2>4. f[s \ {m}] = r[m - 1][s \ {m}] BY <1>6, <2>1, <2>3
  <2>5. r[m][s] = h[<<m, r[m - 1][s \ {m}]>>] BY <1>5, <1>9, <2>1
  <2>6. QED BY <2>2, <2>4, <2>5
<1>10. QED
  <2> HIDE DEF f
  <2>1. Unwinds(f, n, b, h) BY <1>8, <1>9 DEF Unwinds
  <2>2. QED BY <1>7, <2>1

Greatest(s) == CHOOSE x \in s : \A y \in s : x >= y

LEMMA GreatestIs ==
  ASSUME NEW n \in Nat, NEW s \in SUBSET (1..n), s # {}
  PROVE  Greatest(s) \in s /\ Topmost(s, Greatest(s))
<1> DEFINE T == {k \in 0..n : \A j \in s : j <= k}
<1>1. PICK k \in T : \A y \in T : k <= y
  <2>1. n \in T OBVIOUS
  <2>2. T \in SUBSET Nat OBVIOUS
  <2> HIDE DEF T
  <2>3. QED BY <2>1, <2>2, LeastNat
<1>2. k \in 0..n /\ \A j \in s : j <= k /\ j \in 1..n OBVIOUS
<1>3. k \in s
  <2> SUFFICES ASSUME k \notin s PROVE FALSE OBVIOUS
  <2>1. \A j \in s : j <= k - 1 BY <1>2
  <2>2. k - 1 \in 0..n
    <3>1. PICK j \in s : j \in 1..n /\ j <= k BY <1>2
    <3>2. QED BY <1>2, <3>1
  <2>3. k - 1 \in T BY <2>1, <2>2
  <2>4. ~ (k <= k - 1) BY <1>2
  <2> HIDE DEF T
  <2>5. QED BY <1>1, <2>3, <2>4
<1>4. \A y \in s : k >= y BY <1>2
<1>5. Greatest(s) \in s /\ \A y \in s : Greatest(s) >= y BY <1>3, <1>4 DEF Greatest
<1>6. \A y \in s : y <= Greatest(s) BY <1>2, <1>5
<1>7. QED BY <1>5, <1>6 DEF Topmost

LEMMA PrefixTop ==
  ASSUME NEW n \in Nat, NEW k \in 1..n
  PROVE  /\ 1..k \in SUBSET (1..n) /\ 1..k # {}
         /\ Greatest(1..k) = k /\ (1..k) \ {k} = 1..(k - 1)
<1>1. 1..k \in SUBSET (1..n) /\ k \in 1..k /\ (1..k) \ {k} = 1..(k - 1) OBVIOUS
<1>2. Greatest(1..k) \in 1..k /\ Topmost(1..k, Greatest(1..k)) BY <1>1, GreatestIs
<1>3. QED BY <1>1, <1>2 DEF Topmost
==============================================================================
