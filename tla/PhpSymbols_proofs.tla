--------------------------- MODULE PhpSymbols_proofs ---------------------------
(***************************************************************************)
(* Of every symbol table: the walk over a class hierarchy ends, cycles or  *)
(* not, misses no class above the one it starts at, and prefers what       *)
(* implements a member to what only declares it.                           *)
(*                                                                         *)
(* "Above" is what every set of classes closed under the table's parents   *)
(* contains, whatever the order they are looked at.  The walk ends because *)
(* each turn takes from the stack or opens a class for the first time.     *)
(*                                                                         *)
(* And of every project: reading files from fresh tables and linking them  *)
(* gives tables that can be walked so, and whose answers are places those  *)
(* files declare.  These are the steps ReadFile and LinkFiles take.        *)
(***************************************************************************)
EXTENDS PhpSymbols, Positions_proofs, SequenceTheorems

(* Finitely many classes have parents, in lists of classes: what link      *)
(* makes of any declarations (LinkedAsWritten).                            *)
WellFormed(t) ==
  /\ IsFiniteSet(DOMAIN t.parents)
  /\ \E T : Nothing \notin T /\ \A key \in DOMAIN t.parents : t.parents[key] \in Seq(T)

(* d is a parent of c, of one of the kinds in roles. *)
Parent(t, roles, c, d) == \E i \in DOMAIN roles : d \in ToSet(Get(t.parents, <<roles[i], c>>, <<>>))

ClosedUp(t, roles, S) == \A c \in S : \A d : Parent(t, roles, c, d) => d \in S

Above(t, roles, class, c) == \A S : class \in S /\ ClosedUp(t, roles, S) => c \in S

-------------------------------------------------------------------------------
(* Sequences. *)

LEMMA SetOfConcat ==
  ASSUME NEW T, NEW a \in Seq(T), NEW b \in Seq(T)
  PROVE  /\ a \o b \in Seq(T) /\ Len(a \o b) = Len(a) + Len(b)
         /\ ToSet(a \o b) = ToSet(a) \cup ToSet(b)
<1>1. \A s : ToSet(s) = Values(s) BY DEF ToSet, Values
<1>2. QED BY <1>1, ConcatValues

LEMMA SetOfAppend ==
  ASSUME NEW T, NEW s \in Seq(T), NEW e \in T
  PROVE  Append(s, e) \in Seq(T) /\ ToSet(Append(s, e)) = ToSet(s) \cup {e}
<1>1. /\ Append(s, e) \in Seq(T) /\ DOMAIN s = 1..Len(s) /\ Len(s) \in Nat
      /\ DOMAIN Append(s, e) = 1..(Len(s) + 1) /\ Append(s, e)[Len(s) + 1] = e
      /\ \A i \in 1..Len(s) : Append(s, e)[i] = s[i]
  OBVIOUS
<1>2. 1..(Len(s) + 1) = (1..Len(s)) \cup {Len(s) + 1} BY <1>1
<1>3. ToSet(Append(s, e)) = ToSet(s) \cup {e} BY <1>1, <1>2 DEF ToSet
<1>4. QED BY <1>1, <1>3

LEMMA SetOfTail ==
  ASSUME NEW T, NEW s \in Seq(T), s # <<>>
  PROVE  /\ Tail(s) \in Seq(T) /\ Len(Tail(s)) = Len(s) - 1 /\ Len(s) \in Nat \ {0}
         /\ Head(s) \in T /\ ToSet(s) = {Head(s)} \cup ToSet(Tail(s))
<1>1. /\ Tail(s) \in Seq(T) /\ Len(Tail(s)) = Len(s) - 1 /\ Len(s) \in Nat \ {0}
      /\ Head(s) = s[1] /\ DOMAIN s = 1..Len(s) /\ DOMAIN Tail(s) = 1..(Len(s) - 1)
      /\ \A i \in 1..(Len(s) - 1) : Tail(s)[i] = s[i + 1]
  OBVIOUS
<1>2. Head(s) \in T BY <1>1
<1>3. ASSUME NEW x \in ToSet(s), x # s[1] PROVE x \in ToSet(Tail(s))
  <2>1. PICK i \in 1..Len(s) : x = s[i] BY <1>1 DEF ToSet
  <2>2. i - 1 \in DOMAIN Tail(s) /\ x = Tail(s)[i - 1] BY <1>1, <1>3, <2>1
  <2>3. QED BY <2>2 DEF ToSet
<1>4. ASSUME NEW x \in ToSet(Tail(s)) PROVE x \in ToSet(s)
  <2>1. PICK i \in 1..(Len(s) - 1) : x = Tail(s)[i] BY <1>1 DEF ToSet
  <2>2. i + 1 \in DOMAIN s /\ x = s[i + 1] BY <1>1, <2>1
  <2>3. QED BY <2>2 DEF ToSet
<1>5. s[1] \in ToSet(s)
  <2>1. 1 \in DOMAIN s BY <1>1
  <2>2. QED BY <2>1 DEF ToSet
<1>6. QED BY <1>1, <1>2, <1>3, <1>4, <1>5

(* Flattening keeps what the lists hold. *)
LEMMA SetOfFlat ==
  ASSUME NEW T, NEW n \in Nat, NEW seqs, DOMAIN seqs = 1..n, Len(seqs) = n, n # 0,
         \A i \in 1..n : seqs[i] \in Seq(T)
  PROVE  FlattenSeq(seqs) \in Seq(T) /\ ToSet(FlattenSeq(seqs)) = UNION {ToSet(seqs[i]) : i \in 1..n}
<1> DEFINE S == Seq(T)
           h == [p \in (1..n) \X S |-> p[2] \o seqs[p[1]]]
           Is(f) == f = [i \in 1..Len(seqs) |-> IF i = 1 THEN seqs[i] ELSE f[i - 1] \o seqs[i]]
           flatten == CHOOSE f : Is(f)
           Fits(k, s) == s \in S /\ ToSet(s) = UNION {ToSet(seqs[i]) : i \in 1..k}
           Off == {k \in 1..n : ~ Fits(k, flatten[k])}
<1>1. \E f : Is(f)
  <2>1. <<>> \in S /\ \A k \in 1..n : \A x \in S : h[<<k, x>>] = x \o seqs[k] /\ h[<<k, x>>] \in S
    <3>1. \A k \in 1..n : \A x \in S : x \o seqs[k] \in S OBVIOUS
    <3>2. \A k \in 1..n : \A x \in S : h[<<k, x>>] = x \o seqs[k]
      <4> HIDE DEF S
      <4>1. QED OBVIOUS
    <3>3. <<>> \in S OBVIOUS
    <3> HIDE DEF S, h
    <3>4. QED BY <3>1, <3>2, <3>3
  <2>2. PICK g \in [0..n -> S] : Recurs(g, n, <<>>, h)
    <3> HIDE DEF S, h
    <3>1. QED BY <2>1, RecursionExists
  <2> DEFINE f == [i \in 1..n |-> g[i]]
  <2>3. ASSUME NEW i \in 1..n PROVE f[i] = IF i = 1 THEN seqs[i] ELSE f[i - 1] \o seqs[i]
    <3>1. i - 1 \in 0..n /\ g[i - 1] \in S BY <2>2
    <3>2. g[i] = g[i - 1] \o seqs[i] BY <2>1, <2>2, <3>1 DEF Recurs
    <3>3. CASE i = 1
      <4>1. g[0] = <<>> BY <2>2 DEF Recurs
      <4>2. g[i - 1] = g[0] /\ g[i] = g[1] /\ seqs[i] = seqs[1] BY <3>3
      <4>3. g[1] = <<>> \o seqs[1] BY <3>2, <4>1, <4>2
      <4>4. <<>> \o seqs[1] = seqs[1] BY <3>3
      <4>5. QED BY <3>3, <4>3, <4>4
    <3>4. CASE i # 1
      <4>1. i - 1 \in 1..n BY <3>4
      <4>2. QED BY <3>2, <3>4, <4>1
    <3>5. QED BY <3>3, <3>4
  <2>4. Is(f)
    <3>1. f = [i \in 1..n |-> f[i]] OBVIOUS
    <3> HIDE DEF f
    <3>2. QED BY <2>3, <3>1
  <2>5. QED BY <2>4
<1>2. Is(flatten)
  <2> HIDE DEF Is
  <2>1. QED BY <1>1
<1>3. flatten[1] = seqs[1] /\ \A i \in 1..n : i # 1 => flatten[i] = flatten[i - 1] \o seqs[i]
  <2> HIDE DEF flatten
  <2>1. \A i \in 1..n : flatten[i] = IF i = 1 THEN seqs[i] ELSE flatten[i - 1] \o seqs[i] BY <1>2
  <2>2. 1 \in 1..n OBVIOUS
  <2>3. QED BY <2>1, <2>2
<1>4. FlattenSeq(seqs) = flatten[n] BY DEF FlattenSeq
<1> HIDE DEF flatten
<1>5. Off = {}
  <2>1. SUFFICES ASSUME Off # {} PROVE FALSE OBVIOUS
  <2>2. PICK m \in Off : \A y \in Off : m <= y
    <3>1. Off \in SUBSET Nat OBVIOUS
    <3> HIDE DEF Off
    <3>2. QED BY <2>1, <3>1, LeastNat
  <2>3. m # 1
    <3>1. seqs[1] \in Seq(T) /\ 1..1 = {1} OBVIOUS
    <3>2. Fits(1, seqs[1]) BY <3>1
    <3> HIDE DEF Fits
    <3>3. QED BY <3>2, <1>3
  <2>4. m \in 1..n /\ m - 1 \in 1..n /\ ~ (m <= m - 1) BY <2>3
  <2>5. Fits(m - 1, flatten[m - 1]) BY <2>2, <2>4
  <2>6. flatten[m] = flatten[m - 1] \o seqs[m] BY <1>3, <2>3, <2>4
  <2>7. flatten[m] \in S /\ ToSet(flatten[m]) = ToSet(flatten[m - 1]) \cup ToSet(seqs[m])
    BY <2>4, <2>5, <2>6, SetOfConcat
  <2>8. 1..m = (1..(m - 1)) \cup {m} BY <2>4
  <2>9. Fits(m, flatten[m]) BY <2>5, <2>7, <2>8
  <2>10. QED BY <2>9
<1>6. Fits(n, flatten[n])
  <2>1. n \in 1..n OBVIOUS
  <2> HIDE DEF Fits
  <2>2. QED BY <1>5, <2>1
<1>7. QED BY <1>4, <1>6

-------------------------------------------------------------------------------
(* How long a walk may take. *)

LEMMA MaxOfFinite ==
  ASSUME NEW S, IsFiniteSet(S), S \in SUBSET Nat, S # {}
  PROVE  Max(S) \in S /\ \A y \in S : y <= Max(S)
<1>1. PICK n \in Nat : \E f : f \in Bijection(1..n, S) BY FS_NatBijection DEF ExistsBijection
<1>2. PICK f : f \in [1..n -> S] /\ \A y \in S : \E i \in 1..n : f[i] = y
  BY <1>1 DEF Bijection, Surjection, Injection
<1>nat. \A i \in 1..n : f[i] \in Nat BY <1>2
<1> DEFINE Bounded(k) == \E b \in Nat : \A i \in 1..k : f[i] <= b
           Off == {k \in 0..n : ~ Bounded(k)}
<1>3. Off = {}
  <2>1. SUFFICES ASSUME Off # {} PROVE FALSE OBVIOUS
  <2>2. PICK m \in Off : \A y \in Off : m <= y
    <3>1. Off \in SUBSET Nat OBVIOUS
    <3> HIDE DEF Off
    <3>2. QED BY <2>1, <3>1, LeastNat
  <2>3. Bounded(0)
    <3>1. 0 \in Nat /\ \A i \in 1..0 : f[i] <= 0 OBVIOUS
    <3>2. QED BY <3>1
  <2>4. m # 0
    <3> HIDE DEF Bounded
    <3>1. QED BY <2>3
  <2>5. m \in 1..n /\ m - 1 \in 0..n /\ ~ (m <= m - 1) BY <2>4
  <2>6. PICK b \in Nat : \A i \in 1..(m - 1) : f[i] <= b
    <3>1. Bounded(m - 1)
      <4> HIDE DEF Bounded
      <4>1. QED BY <2>2, <2>5
    <3>2. QED BY <3>1
  <2>7. f[m] \in Nat /\ \A i \in 1..m : i \in 1..(m - 1) \/ i = m
    <3>1. f[m] \in Nat BY <1>nat, <2>5
    <3>2. \A i \in 1..m : i \in 1..(m - 1) \/ i = m BY <2>5
    <3>3. QED BY <3>1, <3>2
  <2>8. \E c \in Nat : b <= c /\ f[m] <= c
    <3>1. CASE b <= f[m] BY <2>7, <3>1
    <3>2. CASE ~ (b <= f[m]) BY <2>7, <3>2
    <3>3. QED BY <3>1, <3>2
  <2>9. PICK c \in Nat : b <= c /\ f[m] <= c BY <2>8
  <2>10. \A i \in 1..m : f[i] <= c
    <3>1. \A i \in 1..(m - 1) : i \in 1..n BY <2>5
    <3>2. \A i \in 1..(m - 1) : f[i] \in Nat BY <1>nat, <3>1
    <3>3. \A i \in 1..(m - 1) : f[i] <= c BY <2>6, <2>9, <3>2
    <3>4. QED BY <2>7, <2>9, <3>3
  <2>11. Bounded(m) BY <2>10
  <2>12. QED BY <2>11
<1>4. PICK b \in Nat : \A i \in 1..n : f[i] <= b
  <2>1. n \in 0..n OBVIOUS
  <2>2. Bounded(n)
    <3> HIDE DEF Bounded
    <3>1. QED BY <1>3, <2>1
  <2>3. QED BY <2>2
<1> DEFINE U == {c \in Nat : \A y \in S : y <= c}
<1>5. \A y \in S : y <= b BY <1>2, <1>4
<1>6. PICK c \in U : \A d \in U : c <= d
  <2>1. b \in U BY <1>5
  <2>2. U \in SUBSET Nat OBVIOUS
  <2> HIDE DEF U
  <2>3. QED BY <2>1, <2>2, LeastNat
<1>7. c \in S
  <2>1. SUFFICES ASSUME c \notin S PROVE FALSE OBVIOUS
  <2>2. \A y \in S : y \in Nat /\ y <= c /\ y # c BY <1>6, <2>1
  <2>3. PICK y \in S : TRUE OBVIOUS
  <2>4. c - 1 \in Nat BY <2>2, <2>3
  <2>5. \A z \in S : z <= c - 1 BY <2>2
  <2>6. c - 1 \in U BY <2>4, <2>5
  <2>7. ~ (c <= c - 1) OBVIOUS
  <2>8. QED BY <1>6, <2>6, <2>7
<1>8. \E x \in S : \A y \in S : x >= y BY <1>6, <1>7
<1>9. Max(S) \in S /\ \A y \in S : Max(S) >= y BY <1>8 DEF Max
<1>10. QED BY <1>9

LEMMA FiniteImage ==
  ASSUME NEW S, IsFiniteSet(S), NEW f, DOMAIN f = S
  PROVE  IsFiniteSet({f[x] : x \in S})
<1> DEFINE g == [x \in S |-> f[x]]
           T == {f[x] : x \in S}
<1>1. g \in [S -> T] /\ \A y \in T : \E x \in S : g[x] = y OBVIOUS
<1> HIDE DEF g, T
<1>2. g \in Surjection(S, T) BY <1>1 DEF Surjection
<1>3. IsFiniteSet(T) BY <1>2, FS_Surjection
<1>4. QED BY <1>3 DEF T

LEMMA LinkedFinite ==
  ASSUME NEW t, WellFormed(t)
  PROVE  IsFiniteSet(Linked(t)) /\ \A K \in SUBSET Linked(t) : IsFiniteSet(K) /\ Cardinality(K) \in Nat
<1>1. IsFiniteSet(Linked(t))
  <2> DEFINE f == [key \in DOMAIN t.parents |-> key[2]]
  <2>1. DOMAIN f = DOMAIN t.parents /\ IsFiniteSet(DOMAIN t.parents) BY DEF WellFormed
  <2>2. {f[x] : x \in DOMAIN t.parents} = Linked(t) BY DEF Linked
  <2> HIDE DEF f
  <2>3. IsFiniteSet({f[x] : x \in DOMAIN t.parents}) BY <2>1, FiniteImage
  <2>4. QED BY <2>2, <2>3
<1>2. QED BY <1>1, FS_Subset, FS_CardinalityType

(* Roles to follow, and a set of names for the parents. *)
Following(t, roles, T) ==
  /\ WellFormed(t) /\ \E n \in Nat \ {0} : DOMAIN roles = 1..n /\ Len(roles) = n
  /\ Nothing \notin T /\ \A key \in DOMAIN t.parents : t.parents[key] \in Seq(T)

LEMMA ParentsListed ==
  ASSUME NEW t, NEW roles, NEW T, Following(t, roles, T), NEW c
  PROVE  /\ ParentsOf(t, c, roles) \in Seq(T)
         /\ \A d : d \in ToSet(ParentsOf(t, c, roles)) <=> Parent(t, roles, c, d)
         /\ c \notin Linked(t) => ParentsOf(t, c, roles) = <<>>
<1> DEFINE of(i) == Get(t.parents, <<roles[i], c>>, <<>>)
           lists == [i \in DOMAIN roles |-> of(i)]
<1>1. PICK n \in Nat \ {0} : DOMAIN roles = 1..n /\ Len(roles) = n BY DEF Following
<1>2. \A i \in 1..n : of(i) \in Seq(T) BY DEF Following, Get
<1>3. DOMAIN lists = 1..n /\ (\A i \in 1..n : lists[i] = of(i)) /\ Len(lists) = n
  <2> HIDE DEF of
  <2>1. DOMAIN lists = 1..n /\ (\A i \in 1..n : lists[i] = of(i)) BY <1>1
  <2>2. lists \in Seq({of(i) : i \in 1..n}) BY <1>1
  <2>3. QED BY <2>1, <2>2
<1>4. ParentsOf(t, c, roles) = FlattenSeq(lists) BY DEF ParentsOf
<1> HIDE DEF of, lists
<1>5. /\ FlattenSeq(lists) \in Seq(T)
      /\ ToSet(FlattenSeq(lists)) = UNION {ToSet(lists[i]) : i \in 1..n}
  BY <1>1, <1>2, <1>3, SetOfFlat
<1>6. \A d : d \in ToSet(FlattenSeq(lists)) <=> Parent(t, roles, c, d)
  BY <1>1, <1>3, <1>5 DEF Parent, of
<1>7. ASSUME c \notin Linked(t) PROVE FlattenSeq(lists) = <<>>
  <2>1. \A i \in 1..n : <<roles[i], c>> \notin DOMAIN t.parents
    <3>1. \A r : <<r, c>>[2] = c OBVIOUS
    <3>2. QED BY <1>7, <3>1 DEF Linked
  <2>2. \A i \in 1..n : lists[i] = <<>> BY <1>3, <2>1 DEF of, Get
  <2>3. ToSet(FlattenSeq(lists)) = {}
    <3>1. ToSet(<<>>) = {} BY DEF ToSet
    <3>2. QED BY <1>5, <2>2, <3>1
  <2>4. DOMAIN FlattenSeq(lists) = {} BY <2>3 DEF ToSet
  <2>5. QED BY <1>5, <2>4
<1>8. QED BY <1>4, <1>5, <1>6, <1>7

LEMMA WidthBounds ==
  ASSUME NEW t, NEW roles, NEW T, Following(t, roles, T)
  PROVE  /\ Widest(t, roles) \in Nat
         /\ \A c : Len(ParentsOf(t, c, roles)) \in Nat
         /\ \A c \in Linked(t) : Len(ParentsOf(t, c, roles)) <= Widest(t, roles)
<1> DEFINE lens == [c \in Linked(t) |-> Len(ParentsOf(t, c, roles))]
           W == {0} \cup {lens[c] : c \in Linked(t)}
<1>1. \A c : Len(ParentsOf(t, c, roles)) \in Nat
  <2>1. SUFFICES ASSUME NEW c PROVE Len(ParentsOf(t, c, roles)) \in Nat OBVIOUS
  <2>2. ParentsOf(t, c, roles) \in Seq(T) BY ParentsListed
  <2>3. QED BY <2>2
<1>2. IsFiniteSet(Linked(t)) BY LinkedFinite DEF Following
<1>3. IsFiniteSet({lens[c] : c \in Linked(t)})
  <2>1. DOMAIN lens = Linked(t) OBVIOUS
  <2> HIDE DEF lens
  <2>2. QED BY <1>2, <2>1, FiniteImage
<1>4. IsFiniteSet(W) BY <1>3, FS_Singleton, FS_Union
<1>5. W \in SUBSET Nat /\ W # {} BY <1>1
<1>6. Widest(t, roles) = Max(W)
  <2>1. {lens[c] : c \in Linked(t)} = {Len(ParentsOf(t, c, roles)) : c \in Linked(t)} OBVIOUS
  <2>2. QED BY <2>1 DEF Widest
<1>7. \A c \in Linked(t) : Len(ParentsOf(t, c, roles)) \in W OBVIOUS
<1> HIDE DEF W
<1>8. Max(W) \in W /\ \A y \in W : y <= Max(W) BY <1>4, <1>5, MaxOfFinite
<1>9. QED BY <1>1, <1>5, <1>6, <1>7, <1>8

-------------------------------------------------------------------------------
(* One turn. *)

IsWalk(T, w) ==
  /\ w = [stack |-> w.stack, seen |-> w.seen, met |-> w.met, found |-> w.found]
  /\ w.stack \in Seq(T) /\ w.met \in Seq(T)

Ended(w) == w.stack = <<>> \/ w.found # Nothing

Skips(w, v) ==
  /\ ~ Ended(w) /\ Head(w.stack) \in w.seen
  /\ v.stack = Tail(w.stack) /\ v.seen = w.seen /\ v.met = w.met /\ v.found = Nothing

Hits(hits, w, v) ==
  /\ ~ Ended(w) /\ Head(w.stack) \in hits \ w.seen
  /\ v.stack = Tail(w.stack) /\ v.seen = w.seen /\ v.met = w.met /\ v.found = Head(w.stack)

Opens(t, hits, roles, w, v) ==
  /\ ~ Ended(w) /\ Head(w.stack) \notin hits \cup w.seen
  /\ v.stack = ParentsOf(t, Head(w.stack), roles) \o Tail(w.stack)
  /\ v.seen = w.seen \cup {Head(w.stack)}
  /\ v.met = w.met \o ParentsOf(t, Head(w.stack), <<"interface">>) /\ v.found = Nothing

LEMMA InterfacesFollowing ==
  ASSUME NEW t, NEW roles, NEW T, Following(t, roles, T)
  PROVE  Following(t, <<"interface">>, T)
<1>1. DOMAIN <<"interface">> = 1..1 /\ Len(<<"interface">>) = 1 /\ 1 \in Nat \ {0} OBVIOUS
<1>2. QED BY <1>1 DEF Following

LEMMA TurnIs ==
  ASSUME NEW t, NEW hits, NEW roles, NEW T, Following(t, roles, T), NEW w, IsWalk(T, w)
  PROVE  LET v == Turn(t, hits, roles, w) IN
         /\ IsWalk(T, v)
         /\ \/ Ended(w) /\ v = w
            \/ Skips(w, v)
            \/ Hits(hits, w, v)
            \/ Opens(t, hits, roles, w, v)
<1> DEFINE v == Turn(t, hits, roles, w)
           class == Head(w.stack)
           up == ParentsOf(t, class, roles)
           ups == ParentsOf(t, class, <<"interface">>)
<1>1. up \in Seq(T) BY ParentsListed
<1>2. ups \in Seq(T) BY InterfacesFollowing, ParentsListed
<1>3. CASE Ended(w)
  <2>1. v = w BY <1>3 DEF Turn, Ended
  <2>2. QED BY <1>3, <2>1
<1>4. CASE ~ Ended(w) /\ class \in w.seen
  <2>1. v = [w EXCEPT !.stack = Tail(@)] BY <1>4 DEF Turn, Ended
  <2>2. v = [stack |-> Tail(w.stack), seen |-> w.seen, met |-> w.met, found |-> w.found]
    BY <2>1 DEF IsWalk
  <2>3. Tail(w.stack) \in Seq(T) BY <1>4, SetOfTail DEF IsWalk, Ended
  <2>4. IsWalk(T, v) BY <2>2, <2>3 DEF IsWalk
  <2>5. Skips(w, v) BY <1>4, <2>2 DEF Skips, Ended
  <2>6. QED BY <2>4, <2>5
<1>5. CASE ~ Ended(w) /\ class \in hits \ w.seen
  <2>1. v = [[w EXCEPT !.stack = Tail(@)] EXCEPT !.found = class] BY <1>5 DEF Turn, Ended
  <2>2. v = [stack |-> Tail(w.stack), seen |-> w.seen, met |-> w.met, found |-> class]
    BY <2>1 DEF IsWalk
  <2>3. Tail(w.stack) \in Seq(T) BY <1>5, SetOfTail DEF IsWalk, Ended
  <2>4. IsWalk(T, v) BY <2>2, <2>3 DEF IsWalk
  <2>5. Hits(hits, w, v) BY <1>5, <2>2 DEF Hits
  <2>6. QED BY <2>4, <2>5
<1>6. CASE ~ Ended(w) /\ class \notin hits \cup w.seen
  <2>1. v = [stack |-> up \o Tail(w.stack), seen |-> w.seen \cup {class}, met |-> w.met \o ups,
             found |-> Nothing]
    BY <1>6 DEF Turn, Ended
  <2>2. Tail(w.stack) \in Seq(T) BY <1>6, SetOfTail DEF IsWalk, Ended
  <2>3. up \o Tail(w.stack) \in Seq(T) /\ w.met \o ups \in Seq(T)
    BY <1>1, <1>2, <2>2 DEF IsWalk
  <2> HIDE DEF up, ups
  <2>4. IsWalk(T, v) BY <2>1, <2>3 DEF IsWalk
  <2>5. /\ v.stack = up \o Tail(w.stack) /\ v.seen = w.seen \cup {class}
        /\ v.met = w.met \o ups /\ v.found = Nothing
    BY <2>1
  <2>6. Opens(t, hits, roles, w, v)
    <3> HIDE DEF v
    <3>1. QED BY <1>6, <2>5 DEF Opens, up, ups
  <2>7. QED BY <2>4, <2>6
<1>7. QED BY <1>3, <1>4, <1>5, <1>6

-------------------------------------------------------------------------------
(* What holds of a walk after n turns, from start with seen0 behind it. *)

FoundHolds(hits, seen0, w) ==
  /\ seen0 \subseteq w.seen
  /\ \A c \in w.seen \ seen0 : c \notin hits
  /\ w.found # Nothing => w.found \in hits

NothingMissed(t, roles, start, seen0, w) ==
  w.found = Nothing =>
    /\ ToSet(start) \subseteq w.seen \cup ToSet(w.stack)
    /\ \A c \in w.seen \ seen0 : \A d : Parent(t, roles, c, d) => d \in w.seen \cup ToSet(w.stack)

InterfacesMet(t, seen0, w) ==
  /\ \A c \in w.seen \ seen0 : \A d : Parent(t, <<"interface">>, c, d) => d \in ToSet(w.met)
  /\ \A d \in ToSet(w.met) : \E c \in w.seen \ seen0 : Parent(t, <<"interface">>, c, d)

NothingInvented(t, roles, start, seen0, w) ==
  \A S : ToSet(start) \subseteq S /\ ClosedUp(t, roles, S) =>
    /\ ToSet(w.stack) \subseteq S /\ w.seen \ seen0 \subseteq S
    /\ w.found # Nothing => w.found \in S

Unopened(t, w) == Cardinality(Linked(t) \ w.seen)

EndsInTime(t, roles, start, n, w) ==
  Ended(w) \/ Len(w.stack) + Widest(t, roles) * Unopened(t, w) + n <= Turns(t, roles, start)

Walked(t, hits, roles, T, start, seen0, n, w) ==
  /\ IsWalk(T, w)
  /\ FoundHolds(hits, seen0, w)
  /\ NothingMissed(t, roles, start, seen0, w)
  /\ InterfacesMet(t, seen0, w)
  /\ NothingInvented(t, roles, start, seen0, w)
  /\ EndsInTime(t, roles, start, n, w)

LEMMA UnopenedFinite ==
  ASSUME NEW t, WellFormed(t), NEW w
  PROVE  /\ Unopened(t, w) \in Nat /\ Unopened(t, w) <= Cardinality(Linked(t))
         /\ \A v, c : v.seen = w.seen \cup {c} /\ c \in Linked(t) \ w.seen =>
              Unopened(t, w) = Unopened(t, v) + 1
<1> DEFINE K == Linked(t) \ w.seen
<1>1. IsFiniteSet(Linked(t)) /\ IsFiniteSet(K) /\ Cardinality(K) \in Nat
  <2>1. K \in SUBSET Linked(t) OBVIOUS
  <2> HIDE DEF K
  <2>2. QED BY <2>1, LinkedFinite
<1>2. Cardinality(K) <= Cardinality(Linked(t))
  <2>1. K \subseteq Linked(t) OBVIOUS
  <2> HIDE DEF K
  <2>2. QED BY <1>1, <2>1, FS_Subset
<1>3. ASSUME NEW v, NEW c, v.seen = w.seen \cup {c}, c \in Linked(t) \ w.seen
      PROVE  Unopened(t, w) = Unopened(t, v) + 1
  <2>1. Linked(t) \ v.seen = K \ {c} /\ c \in K BY <1>3
  <2> HIDE DEF K
  <2>2. Cardinality(K \ {c}) = Cardinality(K) - 1 BY <1>1, <2>1, FS_RemoveElement
  <2>3. Unopened(t, w) = Cardinality(K) BY DEF Unopened, K
  <2>4. Unopened(t, v) = Cardinality(K \ {c}) BY <2>1 DEF Unopened
  <2>5. QED BY <1>1, <2>2, <2>3, <2>4
<1>4. QED BY <1>1, <1>2, <1>3 DEF Unopened

LEMMA WalkStarts ==
  ASSUME NEW t, NEW hits, NEW roles, NEW T, Following(t, roles, T), NEW start \in Seq(T), NEW seen0
  PROVE  /\ Walked(t, hits, roles, T, start, seen0, 0,
                   [stack |-> start, seen |-> seen0, met |-> <<>>, found |-> Nothing])
         /\ Turns(t, roles, start) \in Nat
<1> DEFINE w == [stack |-> start, seen |-> seen0, met |-> <<>>, found |-> Nothing]
           W == Widest(t, roles)
           C == Cardinality(Linked(t))
<1>1. W \in Nat BY WidthBounds
<1>2. C \in Nat /\ Unopened(t, w) \in Nat /\ Unopened(t, w) <= C
  <2>1. WellFormed(t) BY DEF Following
  <2>2. C \in Nat BY <2>1, LinkedFinite
  <2> HIDE DEF w
  <2>3. QED BY <2>1, <2>2, UnopenedFinite
<1>3. Turns(t, roles, start) = Len(start) + W * C BY DEF Turns
<1>4. Len(start) \in Nat OBVIOUS
<1>5. w.stack = start /\ w.seen = seen0 /\ w.met = <<>> /\ w.found = Nothing OBVIOUS
<1>6. EndsInTime(t, roles, start, 0, w)
  <2> DEFINE u == Unopened(t, w)
  <2>1. \A a, b, c \in Nat : b <= c => a * b <= a * c /\ a * b \in Nat /\ a * c \in Nat OBVIOUS
  <2> HIDE DEF W, C, w
  <2>2. W * u <= W * C /\ W * u \in Nat /\ W * C \in Nat
    <3> HIDE DEF u
    <3>1. QED BY <1>1, <1>2, <2>1 DEF u
  <2>3. Len(w.stack) + W * u + 0 <= Turns(t, roles, start)
    <3> HIDE DEF u
    <3>1. QED BY <1>3, <1>4, <1>5, <2>2
  <2>4. QED BY <2>3 DEF EndsInTime, W
<1>7. Turns(t, roles, start) \in Nat
  <2>1. \A a, b \in Nat : a * b \in Nat OBVIOUS
  <2> HIDE DEF W, C
  <2>2. QED BY <1>1, <1>2, <1>3, <1>4, <2>1
<1>8. IsWalk(T, w) BY DEF IsWalk
<1>9. ToSet(w.met) = {} BY DEF ToSet
<1> HIDE DEF w
<1>10. FoundHolds(hits, seen0, w) BY <1>5 DEF FoundHolds
<1>11. NothingMissed(t, roles, start, seen0, w) BY <1>5 DEF NothingMissed
<1>12. InterfacesMet(t, seen0, w) BY <1>5, <1>9 DEF InterfacesMet
<1>13. NothingInvented(t, roles, start, seen0, w) BY <1>5 DEF NothingInvented
<1>14. Walked(t, hits, roles, T, start, seen0, 0, w)
  BY <1>6, <1>8, <1>10, <1>11, <1>12, <1>13 DEF Walked
<1>15. QED BY <1>7, <1>14 DEF w

LEMMA LessToDo ==
  /\ \A m, x, n, e \in Nat : m + x + n <= e => (m - 1) + x + (n + 1) <= e
  /\ \A m, x, n, e \in Nat : m + x + n <= e => (0 + (m - 1)) + x + (n + 1) <= e
  /\ \A m, u, w, x, y, n, e \in Nat :
       m + x + n <= e /\ x = y + w /\ u <= w => (u + (m - 1)) + y + (n + 1) <= e
OBVIOUS

LEMMA TurnWalks ==
  ASSUME NEW t, NEW hits, NEW roles, NEW T, Following(t, roles, T), NEW start \in Seq(T), NEW seen0,
         NEW n \in Nat, NEW w, Walked(t, hits, roles, T, start, seen0, n, w)
  PROVE  Walked(t, hits, roles, T, start, seen0, n + 1, Turn(t, hits, roles, w))
<1> DEFINE v == Turn(t, hits, roles, w)
           c == Head(w.stack)
           up == ParentsOf(t, c, roles)
           ups == ParentsOf(t, c, <<"interface">>)
<1>1. /\ IsWalk(T, v)
      /\ (Ended(w) /\ v = w) \/ Skips(w, v) \/ Hits(hits, w, v) \/ Opens(t, hits, roles, w, v)
  <2>1. IsWalk(T, w) BY DEF Walked
  <2>2. QED BY <2>1, TurnIs
<1>2. WellFormed(t) /\ Following(t, <<"interface">>, T) BY InterfacesFollowing DEF Following
<1>3. /\ up \in Seq(T) /\ \A d : d \in ToSet(up) <=> Parent(t, roles, c, d)
      /\ c \notin Linked(t) => up = <<>>
  BY ParentsListed
<1>4. ups \in Seq(T) /\ \A d : d \in ToSet(ups) <=> Parent(t, <<"interface">>, c, d)
  BY <1>2, ParentsListed
<1>5. /\ IsWalk(T, w) /\ w.stack \in Seq(T) /\ w.met \in Seq(T)
      /\ FoundHolds(hits, seen0, w) /\ NothingMissed(t, roles, start, seen0, w)
      /\ InterfacesMet(t, seen0, w) /\ NothingInvented(t, roles, start, seen0, w)
      /\ EndsInTime(t, roles, start, n, w)
  BY DEF Walked, IsWalk
<1>6. ASSUME ~ Ended(w)
      PROVE  /\ w.found = Nothing /\ Tail(w.stack) \in Seq(T) /\ Len(w.stack) \in Nat \ {0}
             /\ Len(Tail(w.stack)) = Len(w.stack) - 1 /\ c \in T
             /\ ToSet(w.stack) = {c} \cup ToSet(Tail(w.stack))
  BY <1>5, <1>6, SetOfTail DEF Ended
<1>7. ASSUME Opens(t, hits, roles, w, v)
      PROVE  /\ Len(v.stack) = Len(up) + Len(Tail(w.stack))
             /\ ToSet(v.stack) = ToSet(up) \cup ToSet(Tail(w.stack))
             /\ ToSet(v.met) = ToSet(w.met) \cup ToSet(ups)
  <2>1. v.stack = up \o Tail(w.stack) /\ v.met = w.met \o ups /\ ~ Ended(w) BY <1>7 DEF Opens
  <2> HIDE DEF v, up, ups
  <2>2. /\ Len(v.stack) = Len(up) + Len(Tail(w.stack))
        /\ ToSet(v.stack) = ToSet(up) \cup ToSet(Tail(w.stack))
    <3> DEFINE rest == Tail(w.stack)
    <3>1. up \in Seq(T) /\ rest \in Seq(T) /\ v.stack = up \o rest BY <1>3, <1>6, <2>1
    <3> HIDE DEF rest
    <3>2. Len(v.stack) = Len(up) + Len(rest) /\ ToSet(v.stack) = ToSet(up) \cup ToSet(rest)
      BY <3>1, SetOfConcat
    <3>3. QED BY <3>2 DEF rest
  <2>3. ToSet(v.met) = ToSet(w.met) \cup ToSet(ups) BY <1>4, <1>5, <2>1, SetOfConcat
  <2>4. QED BY <2>2, <2>3
<1>8. /\ Widest(t, roles) \in Nat /\ Len(up) \in Nat
      /\ c \in Linked(t) => Len(up) <= Widest(t, roles)
  BY WidthBounds
<1>9. /\ Turns(t, roles, start) \in Nat /\ Unopened(t, w) \in Nat /\ Unopened(t, v) \in Nat
      /\ v.seen = w.seen \cup {c} /\ c \in Linked(t) \ w.seen => Unopened(t, w) = Unopened(t, v) + 1
      /\ v.seen = w.seen => Unopened(t, v) = Unopened(t, w)
  <2> HIDE DEF v
  <2>1. v.seen = w.seen => Unopened(t, v) = Unopened(t, w) BY DEF Unopened
  <2>2. Turns(t, roles, start) \in Nat BY WalkStarts
  <2>3. QED BY <1>2, <2>1, <2>2, UnopenedFinite
<1> HIDE DEF v, c, up, ups
<1>10. CASE Ended(w) /\ v = w
  <2>1. EndsInTime(t, roles, start, n + 1, v) BY <1>10 DEF EndsInTime
  <2>2. QED BY <1>5, <1>10, <2>1 DEF Walked, v
<1>11. CASE Skips(w, v)
  <2>1. /\ ~ Ended(w) /\ c \in w.seen /\ v.stack = Tail(w.stack) /\ v.seen = w.seen
        /\ v.met = w.met /\ v.found = Nothing
    BY <1>11 DEF Skips, c
  <2>2. FoundHolds(hits, seen0, v) BY <1>5, <2>1 DEF FoundHolds
  <2>3. NothingMissed(t, roles, start, seen0, v) BY <1>5, <1>6, <2>1 DEF NothingMissed
  <2>4. InterfacesMet(t, seen0, v) BY <1>5, <2>1 DEF InterfacesMet
  <2>5. NothingInvented(t, roles, start, seen0, v) BY <1>5, <1>6, <2>1 DEF NothingInvented
  <2>6. EndsInTime(t, roles, start, n + 1, v)
    <3>1. Len(w.stack) + Widest(t, roles) * Unopened(t, w) + n <= Turns(t, roles, start)
      BY <1>5, <2>1 DEF EndsInTime
    <3> DEFINE x == Widest(t, roles) * Unopened(t, w)
    <3>2. x \in Nat
      <4>1. \A a, b \in Nat : a * b \in Nat OBVIOUS
      <4>2. QED BY <1>8, <1>9, <4>1
    <3>3. Widest(t, roles) * Unopened(t, v) = x BY <1>9, <2>1
    <3> HIDE DEF x
    <3>4. Len(w.stack) + x + n <= Turns(t, roles, start) BY <3>1 DEF x
    <3>5. Len(v.stack) = Len(w.stack) - 1 /\ Len(w.stack) \in Nat BY <1>6, <2>1
    <3>6. Len(v.stack) + x + (n + 1) <= Turns(t, roles, start)
      BY <1>9, <3>2, <3>4, <3>5, LessToDo
    <3>7. QED BY <3>3, <3>6 DEF EndsInTime
  <2>7. QED BY <1>1, <2>2, <2>3, <2>4, <2>5, <2>6 DEF Walked, v
<1>12. CASE Hits(hits, w, v)
  <2>1. /\ ~ Ended(w) /\ c \in hits \ w.seen /\ v.stack = Tail(w.stack) /\ v.seen = w.seen
        /\ v.met = w.met /\ v.found = c
    BY <1>12 DEF Hits, c
  <2>2. FoundHolds(hits, seen0, v) BY <1>5, <2>1 DEF FoundHolds
  <2>3. c # Nothing BY <1>6, <2>1 DEF Following
  <2>4. NothingMissed(t, roles, start, seen0, v) BY <2>1, <2>3 DEF NothingMissed
  <2>5. InterfacesMet(t, seen0, v) BY <1>5, <2>1 DEF InterfacesMet
  <2>6. NothingInvented(t, roles, start, seen0, v) BY <1>5, <1>6, <2>1 DEF NothingInvented
  <2>7. EndsInTime(t, roles, start, n + 1, v) BY <2>1, <2>3 DEF EndsInTime, Ended
  <2>8. QED BY <1>1, <2>2, <2>4, <2>5, <2>6, <2>7 DEF Walked, v
<1>13. CASE Opens(t, hits, roles, w, v)
  <2>1. /\ ~ Ended(w) /\ c \notin hits \cup w.seen /\ v.seen = w.seen \cup {c} /\ v.found = Nothing
    BY <1>13 DEF Opens, c
  <2>2. FoundHolds(hits, seen0, v) BY <1>5, <2>1 DEF FoundHolds
  <2>3. NothingMissed(t, roles, start, seen0, v)
    BY <1>3, <1>5, <1>6, <1>7, <1>13, <2>1 DEF NothingMissed
  <2>4. InterfacesMet(t, seen0, v)
    <3>1. c \notin seen0 BY <1>5, <2>1 DEF FoundHolds
    <3>2. QED BY <1>4, <1>5, <1>7, <1>13, <2>1, <3>1 DEF InterfacesMet
  <2>5. NothingInvented(t, roles, start, seen0, v)
    <3>1. SUFFICES ASSUME NEW S, ToSet(start) \subseteq S, ClosedUp(t, roles, S)
                   PROVE  /\ ToSet(v.stack) \subseteq S /\ v.seen \ seen0 \subseteq S
      BY <2>1 DEF NothingInvented
    <3>2. ToSet(w.stack) \subseteq S /\ w.seen \ seen0 \subseteq S BY <1>5, <3>1 DEF NothingInvented
    <3>3. c \in S /\ ToSet(Tail(w.stack)) \subseteq S BY <1>6, <2>1, <3>2
    <3>4. ToSet(up) \subseteq S BY <1>3, <3>1, <3>3 DEF ClosedUp
    <3>5. QED BY <1>7, <1>13, <2>1, <3>2, <3>3, <3>4
  <2>6. EndsInTime(t, roles, start, n + 1, v)
    <3> DEFINE W == Widest(t, roles)
               x == W * Unopened(t, w)
               y == W * Unopened(t, v)
    <3>1. Len(w.stack) + x + n <= Turns(t, roles, start) BY <1>5, <2>1 DEF EndsInTime
    <3>2. \A a, b \in Nat : a * b \in Nat /\ a * (b + 1) = a * b + a OBVIOUS
    <3>3. x \in Nat /\ y \in Nat BY <1>8, <1>9, <3>2
    <3>4. Len(v.stack) = Len(up) + (Len(w.stack) - 1) /\ Len(w.stack) \in Nat
      BY <1>6, <1>7, <1>13, <2>1
    <3>5. CASE c \in Linked(t)
      <4>1. Unopened(t, w) = Unopened(t, v) + 1 BY <1>9, <2>1, <3>5
      <4>2. x = y + W BY <1>8, <1>9, <3>2, <4>1
      <4>3. Len(up) <= W BY <1>8, <3>5
      <4>4. W \in Nat BY <1>8
      <4> HIDE DEF x, y, W
      <4>5. Len(v.stack) + y + (n + 1) <= Turns(t, roles, start)
        BY <1>8, <1>9, <3>1, <3>3, <3>4, <4>2, <4>3, <4>4, LessToDo
      <4>6. QED BY <4>5 DEF EndsInTime, y, W
    <3>6. CASE c \notin Linked(t)
      <4>1. Linked(t) \ v.seen = Linked(t) \ w.seen BY <2>1, <3>6
      <4>2. Unopened(t, w) = Unopened(t, v) BY <4>1 DEF Unopened
      <4>3. x = y BY <4>2
      <4>4. Len(up) = 0 BY <1>3, <3>6
      <4> HIDE DEF x, y, W
      <4>5. Len(v.stack) = 0 + (Len(w.stack) - 1) BY <3>4, <4>4
      <4>6. (0 + (Len(w.stack) - 1)) + x + (n + 1) <= Turns(t, roles, start)
        BY <1>9, <3>1, <3>3, <3>4, LessToDo
      <4>7. Len(v.stack) + y + (n + 1) <= Turns(t, roles, start) BY <4>3, <4>5, <4>6
      <4>8. QED BY <4>7 DEF EndsInTime, y, W
    <3>7. QED BY <3>5, <3>6
  <2>7. QED BY <1>1, <2>2, <2>3, <2>4, <2>5, <2>6 DEF Walked, v
<1>14. QED BY <1>1, <1>10, <1>11, <1>12, <1>13

-------------------------------------------------------------------------------
(* A whole walk. *)

LEMMA VisitWalks ==
  ASSUME NEW t, NEW hits, NEW roles, NEW T, Following(t, roles, T), NEW start \in Seq(T), NEW seen0
  PROVE  LET w == Visit(t, hits, roles, start, seen0) IN
         /\ Ended(w) /\ IsWalk(T, w)
         /\ FoundHolds(hits, seen0, w) /\ NothingMissed(t, roles, start, seen0, w)
         /\ InterfacesMet(t, seen0, w) /\ NothingInvented(t, roles, start, seen0, w)
<1> DEFINE N == Turns(t, roles, start)
           first == [stack |-> start, seen |-> seen0, met |-> <<>>, found |-> Nothing]
           Goes(f, m) == f = [n \in 0..m |-> IF n = 0 THEN first ELSE Turn(t, hits, roles, f[n - 1])]
           after == CHOOSE f : Goes(f, N)
           Short == {m \in 0..N : ~ \E f : Goes(f, m)}
<1>1. N \in Nat /\ Walked(t, hits, roles, T, start, seen0, 0, first) BY WalkStarts
<1> HIDE DEF N, first
<1>2. Short = {}
  <2>1. SUFFICES ASSUME Short # {} PROVE FALSE OBVIOUS
  <2>2. PICK m \in Short : \A y \in Short : m <= y
    <3>1. Short \in SUBSET Nat OBVIOUS
    <3> HIDE DEF Short
    <3>2. QED BY <2>1, <3>1, LeastNat
  <2>3. m # 0
    <3> DEFINE f == [n \in 0..0 |-> first]
    <3>1. \A n \in 0..0 : n = 0 OBVIOUS
    <3>2. f = [n \in 0..0 |-> IF n = 0 THEN first ELSE Turn(t, hits, roles, f[n - 1])] BY <3>1
    <3>3. Goes(f, 0) BY <3>2
    <3> HIDE DEF Goes
    <3>4. QED BY <3>3
  <2>4. m \in 1..N /\ m - 1 \in 0..N /\ ~ (m <= m - 1) BY <1>1, <2>3
  <2>5. PICK g : Goes(g, m - 1) BY <2>2, <2>4
  <2> DEFINE f == [n \in 0..m |-> IF n = m THEN Turn(t, hits, roles, g[m - 1]) ELSE g[n]]
  <2>6. \A n \in 0..(m - 1) : g[n] = IF n = 0 THEN first ELSE Turn(t, hits, roles, g[n - 1]) BY <2>5
  <2>7. ASSUME NEW n \in 0..m
        PROVE  f[n] = IF n = 0 THEN first ELSE Turn(t, hits, roles, f[n - 1])
    <3>1. CASE n = m
      <4>1. n # 0 /\ m - 1 \in 0..m /\ m - 1 # m BY <2>4, <3>1
      <4>2. f[n - 1] = g[m - 1] BY <3>1, <4>1
      <4>3. f[n] = Turn(t, hits, roles, g[m - 1]) BY <3>1
      <4> HIDE DEF f
      <4>4. QED BY <4>1, <4>2, <4>3
    <3>2. CASE n # m
      <4>1. n \in 0..(m - 1) /\ (n # 0 => n - 1 \in 0..m /\ n - 1 # m) BY <2>4, <3>2
      <4>2. f[n] = g[n] /\ (n # 0 => f[n - 1] = g[n - 1]) BY <3>2, <4>1
      <4> HIDE DEF f
      <4>3. QED BY <2>6, <4>1, <4>2
    <3>3. QED BY <3>1, <3>2
  <2>8. Goes(f, m)
    <3>1. f = [n \in 0..m |-> f[n]] OBVIOUS
    <3> HIDE DEF f
    <3>2. QED BY <2>7, <3>1
  <2>9. QED
    <3> HIDE DEF Goes
    <3>1. QED BY <2>2, <2>8
<1>3. Goes(after, N)
  <2>1. N \in 0..N BY <1>1
  <2> HIDE DEF Goes
  <2>2. \E f : Goes(f, N) BY <1>2, <2>1
  <2>3. QED BY <2>2
<1>4. Visit(t, hits, roles, start, seen0) = after[N] BY DEF Visit, N, first
<1> HIDE DEF after
<1>5. after[0] = first /\ \A n \in 1..N : after[n] = Turn(t, hits, roles, after[n - 1])
  <2>1. 0 \in 0..N /\ \A n \in 1..N : n \in 0..N /\ n # 0 BY <1>1
  <2>2. \A n \in 0..N : after[n] = IF n = 0 THEN first ELSE Turn(t, hits, roles, after[n - 1]) BY <1>3
  <2>3. QED BY <2>1, <2>2
<1> DEFINE Off == {n \in 0..N : ~ Walked(t, hits, roles, T, start, seen0, n, after[n])}
<1>6. Off = {}
  <2>1. SUFFICES ASSUME Off # {} PROVE FALSE OBVIOUS
  <2>2. PICK m \in Off : \A y \in Off : m <= y
    <3>1. Off \in SUBSET Nat OBVIOUS
    <3> HIDE DEF Off
    <3>2. QED BY <2>1, <3>1, LeastNat
  <2>3. m # 0 BY <1>1, <1>5
  <2>4. m \in 1..N /\ m - 1 \in 0..N /\ ~ (m <= m - 1) /\ m - 1 \in Nat /\ (m - 1) + 1 = m
    BY <1>1, <2>3
  <2>5. Walked(t, hits, roles, T, start, seen0, m - 1, after[m - 1]) BY <2>2, <2>4
  <2>6. Walked(t, hits, roles, T, start, seen0, (m - 1) + 1, Turn(t, hits, roles, after[m - 1]))
    BY <2>4, <2>5, TurnWalks
  <2>7. Walked(t, hits, roles, T, start, seen0, m, after[m]) BY <1>5, <2>4, <2>6
  <2>8. QED BY <2>7
<1>7. Walked(t, hits, roles, T, start, seen0, N, after[N])
  <2>1. N \in 0..N BY <1>1
  <2>2. QED BY <1>6, <2>1
<1> DEFINE w == after[N]
<1>8. Ended(w)
  <2>1. SUFFICES ASSUME ~ Ended(w) PROVE FALSE OBVIOUS
  <2>2. Len(w.stack) + Widest(t, roles) * Unopened(t, w) + N <= N
    BY <1>7, <2>1 DEF Walked, EndsInTime, N
  <2>3. Len(w.stack) \in Nat /\ (Len(w.stack) = 0 => w.stack = <<>>) BY <1>7 DEF Walked, IsWalk
  <2>4. Widest(t, roles) * Unopened(t, w) \in Nat
    <3>1. Widest(t, roles) \in Nat BY WidthBounds
    <3>2. Unopened(t, w) \in Nat
      <4>1. WellFormed(t) BY DEF Following
      <4> HIDE DEF w
      <4>2. QED BY <4>1, UnopenedFinite
    <3>3. \A a, b \in Nat : a * b \in Nat OBVIOUS
    <3>4. QED BY <3>1, <3>2, <3>3
  <2>5. \A a, b, c \in Nat : a + b + c <= c => a = 0 OBVIOUS
  <2>6. Len(w.stack) = 0 BY <1>1, <2>2, <2>3, <2>4, <2>5
  <2>7. QED BY <2>1, <2>3, <2>6 DEF Ended
<1>9. QED BY <1>4, <1>7, <1>8 DEF Walked

-------------------------------------------------------------------------------
(* The hierarchy. *)

Lineage == <<"trait", "base">>
Roles == <<"trait", "interface", "base">>
Interfaces == <<"interface", "base", "trait">>

LEMMA RoleSets ==
  /\ \A t, c, d : Parent(t, Lineage, c, d) => Parent(t, Roles, c, d)
  /\ \A t, c, d : Parent(t, <<"interface">>, c, d) => Parent(t, Roles, c, d)
  /\ \A t, c, d : Parent(t, Interfaces, c, d) <=> Parent(t, Roles, c, d)
  /\ \A t, c, d : Parent(t, Roles, c, d) => Parent(t, Lineage, c, d) \/ Parent(t, <<"interface">>, c, d)
<1> DEFINE up(t, role, c) == ToSet(Get(t.parents, <<role, c>>, <<>>))
<1>1. \A t, c, d : Parent(t, Lineage, c, d) <=> d \in up(t, "trait", c) \/ d \in up(t, "base", c)
  <2>1. DOMAIN Lineage = {1, 2} /\ Lineage[1] = "trait" /\ Lineage[2] = "base" BY DEF Lineage
  <2>2. QED BY <2>1 DEF Parent
<1>2. \A t, c, d : Parent(t, <<"interface">>, c, d) <=> d \in up(t, "interface", c)
  <2>1. DOMAIN <<"interface">> = {1} /\ <<"interface">>[1] = "interface" OBVIOUS
  <2>2. QED BY <2>1 DEF Parent
<1>3. \A t, c, d : Parent(t, Roles, c, d) <=>
        d \in up(t, "trait", c) \/ d \in up(t, "interface", c) \/ d \in up(t, "base", c)
  <2>1. DOMAIN Roles = {1, 2, 3} /\ Roles[1] = "trait" /\ Roles[2] = "interface" /\ Roles[3] = "base"
    BY DEF Roles
  <2>2. QED BY <2>1 DEF Parent
<1>4. \A t, c, d : Parent(t, Interfaces, c, d) <=>
        d \in up(t, "trait", c) \/ d \in up(t, "interface", c) \/ d \in up(t, "base", c)
  <2>1. /\ DOMAIN Interfaces = {1, 2, 3}
        /\ Interfaces[1] = "interface" /\ Interfaces[2] = "base" /\ Interfaces[3] = "trait"
    BY DEF Interfaces
  <2>2. QED BY <2>1 DEF Parent
<1> HIDE DEF up
<1>5. QED BY <1>1, <1>2, <1>3, <1>4

LEMMA SomeNames ==
  ASSUME NEW t, WellFormed(t), NEW class, class # Nothing
  PROVE  \E T : /\ Following(t, Lineage, T) /\ Following(t, Interfaces, T) /\ Following(t, Roles, T)
                /\ class \in T
<1>1. PICK T : Nothing \notin T /\ \A key \in DOMAIN t.parents : t.parents[key] \in Seq(T)
  BY DEF WellFormed
<1> DEFINE U == T \cup {class}
<1>2. Nothing \notin U /\ class \in U /\ \A key \in DOMAIN t.parents : t.parents[key] \in Seq(U)
  BY <1>1
<1>3. /\ DOMAIN Lineage = 1..2 /\ Len(Lineage) = 2
      /\ DOMAIN Roles = 1..3 /\ Len(Roles) = 3
      /\ DOMAIN Interfaces = 1..3 /\ Len(Interfaces) = 3
  BY DEF Lineage, Roles, Interfaces
<1>4. 2 \in Nat \ {0} /\ 3 \in Nat \ {0} OBVIOUS
<1> HIDE DEF U
<1>5. Following(t, Lineage, U) /\ Following(t, Interfaces, U) /\ Following(t, Roles, U)
  BY <1>2, <1>3, <1>4 DEF Following
<1>6. QED BY <1>2, <1>5

(* "PHP rejects a cycle, but a half-written file can still describe one    *)
(* and this must not hang" (in_hierarchy): whatever the parents are, a     *)
(* walk from any class has nothing left to look at, or has found one.      *)
THEOREM WalksEnd ==
  ASSUME NEW t, WellFormed(t), NEW class, class # Nothing, NEW hits
  PROVE  LET first == Visit(t, hits, Lineage, <<class>>, {})
             second == Visit(t, hits, Interfaces, first.met, first.seen)
         IN Ended(first) /\ Ended(second)
<1> DEFINE first == Visit(t, hits, Lineage, <<class>>, {})
<1>1. PICK T : Following(t, Lineage, T) /\ Following(t, Interfaces, T) /\ class \in T BY SomeNames
<1>2. <<class>> \in Seq(T) BY <1>1
<1>3. Ended(first) /\ IsWalk(T, first) BY <1>1, <1>2, VisitWalks
<1>4. first.met \in Seq(T) BY <1>3 DEF IsWalk
<1> HIDE DEF first
<1>5. Ended(Visit(t, hits, Interfaces, first.met, first.seen)) BY <1>1, <1>4, VisitWalks
<1>6. QED BY <1>3, <1>5 DEF first

LEMMA FirstPass ==
  ASSUME NEW t, WellFormed(t), NEW class, class # Nothing, NEW hits
  PROVE  LET w == Visit(t, hits, Lineage, <<class>>, {}) IN
         /\ \A T : Following(t, Lineage, T) /\ class \in T => w.met \in Seq(T)
         /\ w.found # Nothing => w.found \in hits /\ Above(t, Lineage, class, w.found)
         /\ w.found = Nothing =>
              /\ class \in w.seen /\ ClosedUp(t, Lineage, w.seen) /\ w.seen \cap hits = {}
              /\ \A c \in w.seen : \A d : Parent(t, <<"interface">>, c, d) => d \in ToSet(w.met)
         /\ \A S : class \in S /\ ClosedUp(t, Roles, S) => ToSet(w.met) \subseteq S
<1> DEFINE w == Visit(t, hits, Lineage, <<class>>, {})
<1>1. PICK T : Following(t, Lineage, T) /\ class \in T BY SomeNames
<1>2. <<class>> \in Seq(T) BY <1>1
<1>3. ToSet(<<class>>) = {class} BY DEF ToSet
<1>4. /\ Ended(w)
      /\ FoundHolds(hits, {}, w) /\ NothingMissed(t, Lineage, <<class>>, {}, w)
      /\ InterfacesMet(t, {}, w) /\ NothingInvented(t, Lineage, <<class>>, {}, w)
  BY <1>1, <1>2, VisitWalks
<1>5. \A U : Following(t, Lineage, U) /\ class \in U => w.met \in Seq(U)
  <2>1. SUFFICES ASSUME NEW U, Following(t, Lineage, U), class \in U PROVE w.met \in Seq(U) OBVIOUS
  <2>2. <<class>> \in Seq(U) BY <2>1
  <2>3. IsWalk(U, w) BY <2>1, <2>2, VisitWalks
  <2>4. QED BY <2>3 DEF IsWalk
<1> HIDE DEF w
<1>6. ASSUME w.found # Nothing PROVE w.found \in hits /\ Above(t, Lineage, class, w.found)
  BY <1>3, <1>4, <1>6 DEF FoundHolds, NothingInvented, Above
<1>7. ASSUME w.found = Nothing
      PROVE  /\ class \in w.seen /\ ClosedUp(t, Lineage, w.seen) /\ w.seen \cap hits = {}
             /\ \A c \in w.seen : \A d : Parent(t, <<"interface">>, c, d) => d \in ToSet(w.met)
  <2>1. ToSet(w.stack) = {} BY <1>4, <1>7 DEF Ended, ToSet
  <2>2. class \in w.seen /\ ClosedUp(t, Lineage, w.seen)
    BY <1>3, <1>4, <1>7, <2>1 DEF NothingMissed, ClosedUp
  <2>3. w.seen \cap hits = {} BY <1>4 DEF FoundHolds
  <2>4. QED BY <1>4, <2>2, <2>3 DEF InterfacesMet
<1>8. ASSUME NEW S, class \in S, ClosedUp(t, Roles, S) PROVE ToSet(w.met) \subseteq S
  <2>1. ClosedUp(t, Lineage, S) BY <1>8, RoleSets DEF ClosedUp
  <2>2. w.seen \subseteq S BY <1>3, <1>4, <1>8, <2>1 DEF NothingInvented
  <2>3. SUFFICES ASSUME NEW d \in ToSet(w.met) PROVE d \in S OBVIOUS
  <2>4. PICK c \in w.seen : Parent(t, <<"interface">>, c, d) BY <1>4 DEF InterfacesMet
  <2>5. Parent(t, Roles, c, d) BY <2>4, RoleSets
  <2>6. QED BY <1>8, <2>2, <2>4, <2>5 DEF ClosedUp
<1>9. QED BY <1>5, <1>6, <1>7, <1>8 DEF w

(* "An interface method is the target only when nothing implements it on   *)
(* the way" (in_hierarchy): the two passes together find a class exactly   *)
(* when one of hits is above, one that is above, and one that is above by  *)
(* way of traits and base classes alone when there is such a one.          *)
THEOREM HierarchyIsSearched ==
  ASSUME NEW t, WellFormed(t), NEW class, class # Nothing, NEW hits
  PROVE  LET found == InHierarchy(t, class, hits) IN
         /\ found = Nothing <=> ~ \E c \in hits : Above(t, Roles, class, c)
         /\ found # Nothing => found \in hits /\ Above(t, Roles, class, found)
         /\ (\E c \in hits : Above(t, Lineage, class, c)) => Above(t, Lineage, class, found)
<1> DEFINE first == Visit(t, hits, Lineage, <<class>>, {})
           second == Visit(t, hits, Interfaces, first.met, first.seen)
           found == InHierarchy(t, class, hits)
<1>1. found = IF first.found # Nothing THEN first.found ELSE second.found
  BY DEF InHierarchy, Lineage, Interfaces
<1>2. PICK T : Following(t, Lineage, T) /\ Following(t, Interfaces, T) /\ class \in T BY SomeNames
<1>3. /\ first.met \in Seq(T)
      /\ first.found # Nothing => first.found \in hits /\ Above(t, Lineage, class, first.found)
      /\ first.found = Nothing =>
           /\ class \in first.seen /\ ClosedUp(t, Lineage, first.seen) /\ first.seen \cap hits = {}
           /\ \A c \in first.seen : \A d : Parent(t, <<"interface">>, c, d) => d \in ToSet(first.met)
      /\ \A S : class \in S /\ ClosedUp(t, Roles, S) => ToSet(first.met) \subseteq S
  BY <1>2, FirstPass
<1> HIDE DEF first
<1>4. /\ Ended(second)
      /\ FoundHolds(hits, first.seen, second)
      /\ NothingMissed(t, Interfaces, first.met, first.seen, second)
      /\ NothingInvented(t, Interfaces, first.met, first.seen, second)
  BY <1>2, <1>3, VisitWalks
<1> HIDE DEF second, found
<1>5. \A c : Above(t, Lineage, class, c) => Above(t, Roles, class, c)
  BY RoleSets DEF Above, ClosedUp
<1>6. CASE first.found # Nothing
  <2>1. found \in hits /\ Above(t, Lineage, class, found) /\ found # Nothing BY <1>1, <1>3, <1>6
  <2>2. QED BY <1>5, <2>1 DEF found
<1>7. CASE first.found = Nothing
  <2>1. found = second.found BY <1>1, <1>7
  <2>2. ~ \E c \in hits : Above(t, Lineage, class, c) BY <1>3, <1>7 DEF Above
  <2>3. ASSUME found # Nothing PROVE found \in hits /\ Above(t, Roles, class, found)
    <3>1. found \in hits BY <1>4, <2>1, <2>3 DEF FoundHolds
    <3>2. ASSUME NEW S, class \in S, ClosedUp(t, Roles, S) PROVE found \in S
      <4>1. ToSet(first.met) \subseteq S BY <1>3, <3>2
      <4>2. ClosedUp(t, Interfaces, S) BY <3>2, RoleSets DEF ClosedUp
      <4>3. QED BY <1>4, <2>1, <2>3, <4>1, <4>2 DEF NothingInvented
    <3>3. QED BY <3>1, <3>2 DEF Above
  <2>4. ASSUME found = Nothing PROVE ~ \E c \in hits : Above(t, Roles, class, c)
    <3>1. ToSet(second.stack) = {} BY <1>4, <2>1, <2>4 DEF Ended, ToSet
    <3>2. first.seen \subseteq second.seen /\ second.seen \cap hits = {}
      BY <1>3, <1>4, <1>7 DEF FoundHolds
    <3>3. /\ ToSet(first.met) \subseteq second.seen
          /\ \A c \in second.seen \ first.seen : \A d : Parent(t, Interfaces, c, d) => d \in second.seen
      BY <1>4, <2>1, <2>4, <3>1 DEF NothingMissed
    <3>4. ClosedUp(t, Roles, second.seen)
      <4>1. SUFFICES ASSUME NEW c \in second.seen, NEW d, Parent(t, Roles, c, d)
                     PROVE  d \in second.seen
        BY DEF ClosedUp
      <4>2. CASE c \in first.seen
        <5>1. Parent(t, Lineage, c, d) \/ Parent(t, <<"interface">>, c, d) BY <4>1, RoleSets
        <5>2. d \in first.seen \/ d \in ToSet(first.met) BY <1>3, <1>7, <4>2, <5>1 DEF ClosedUp
        <5>3. QED BY <3>2, <3>3, <5>2
      <4>3. CASE c \notin first.seen
        <5>1. Parent(t, Interfaces, c, d) BY <4>1, RoleSets
        <5>2. QED BY <3>3, <4>3, <5>1
      <4>4. QED BY <4>2, <4>3
    <3>5. class \in second.seen BY <1>3, <1>7, <3>2
    <3>6. QED BY <3>2, <3>4, <3>5 DEF Above
  <2>5. QED BY <2>2, <2>3, <2>4 DEF found
<1>8. QED BY <1>6, <1>7

-------------------------------------------------------------------------------
(* Members. *)

(* A member is held under its kind, its class and its name, with a place. *)
MembersNamed(t) ==
  \A key \in DOMAIN t.members :
    \E slot, class, name : key = <<slot, class, name>> /\ class # Nothing /\ t.members[key] # Nothing

(* The classes above class that declare a member, and the places they do.  *)
Declaring(t, class, slot, name) ==
  {c \in OwnersIn(t.members, slot, name) : Above(t, Roles, class, c)}
DeclaredAt(t, c, slot, name) == t.members[<<slot, c, name>>]

(* site is that of the declaration in a class above, and in one that       *)
(* implements it if there is one.                                          *)
IsNearby(t, class, slot, name, site) ==
  \E c \in Declaring(t, class, slot, name) :
    /\ site = DeclaredAt(t, c, slot, name)
    /\ (\E d \in OwnersIn(t.members, slot, name) : Above(t, Lineage, class, d)) =>
         Above(t, Lineage, class, c)

LEMMA OwnersHold ==
  ASSUME NEW t, MembersNamed(t), NEW slot, NEW name, NEW c
  PROVE  /\ c \in OwnersIn(t.members, slot, name) <=> <<slot, c, name>> \in DOMAIN t.members
         /\ c \in OwnersIn(t.members, slot, name) =>
              c # Nothing /\ DeclaredAt(t, c, slot, name) # Nothing
<1> DEFINE D == DOMAIN t.members
           key == <<slot, c, name>>
<1>1. key[1] = slot /\ key[2] = c /\ key[3] = name OBVIOUS
<1>2. ASSUME key \in D PROVE c \in OwnersIn(t.members, slot, name) BY <1>1, <1>2 DEF OwnersIn
<1>3. ASSUME c \in OwnersIn(t.members, slot, name) PROVE key \in D /\ c # Nothing /\ t.members[key] # Nothing
  <2>1. PICK k \in D : k[1] = slot /\ k[3] = name /\ k[2] = c BY <1>3 DEF OwnersIn
  <2>2. PICK s, d, m : k = <<s, d, m>> /\ d # Nothing /\ t.members[k] # Nothing BY <2>1 DEF MembersNamed
  <2>3. s = slot /\ d = c /\ m = name BY <2>1, <2>2
  <2>4. k = key BY <2>2, <2>3
  <2> HIDE DEF D, key
  <2>5. QED BY <2>1, <2>2, <2>3, <2>4
<1>4. QED BY <1>2, <1>3 DEF DeclaredAt

LEMMA MemberIsFound ==
  ASSUME NEW t, WellFormed(t), MembersNamed(t), NEW class, class # Nothing, NEW slot, NEW name
  PROVE  LET site == FindMember(t, class, slot, name) IN
         /\ site = Nothing <=> Declaring(t, class, slot, name) = {}
         /\ site # Nothing => IsNearby(t, class, slot, name, site)
<1> DEFINE hits == OwnersIn(t.members, slot, name)
           found == InHierarchy(t, class, hits)
           site == FindMember(t, class, slot, name)
<1>1. /\ found = Nothing <=> ~ \E c \in hits : Above(t, Roles, class, c)
      /\ found # Nothing => found \in hits /\ Above(t, Roles, class, found)
      /\ (\E c \in hits : Above(t, Lineage, class, c)) => Above(t, Lineage, class, found)
  BY HierarchyIsSearched
<1>2. /\ found \in hits <=> <<slot, found, name>> \in DOMAIN t.members
      /\ found \in hits => found # Nothing /\ DeclaredAt(t, found, slot, name) # Nothing
  <2> HIDE DEF found
  <2>1. QED BY OwnersHold
<1>3. site = IF <<slot, found, name>> \in DOMAIN t.members THEN DeclaredAt(t, found, slot, name) ELSE Nothing
  BY DEF FindMember, Get, DeclaredAt
<1> HIDE DEF found, site
<1>4. Declaring(t, class, slot, name) = {} <=> found = Nothing BY <1>1 DEF Declaring
<1>5. CASE found = Nothing
  <2>1. site = Nothing BY <1>2, <1>3, <1>5
  <2>2. QED BY <1>4, <1>5, <2>1 DEF site
<1>6. CASE found # Nothing
  <2>1. site = DeclaredAt(t, found, slot, name) /\ site # Nothing BY <1>1, <1>2, <1>3, <1>6
  <2>2. found \in Declaring(t, class, slot, name) BY <1>1, <1>6 DEF Declaring
  <2>3. IsNearby(t, class, slot, name, site) BY <1>1, <2>1, <2>2 DEF IsNearby
  <2>4. QED BY <1>4, <1>6, <2>1, <2>3 DEF site
<1>7. QED BY <1>5, <1>6

LEMMA FirstSomeIs ==
  ASSUME NEW n \in Nat, NEW s, DOMAIN s = 1..n
  PROVE  /\ (\A i \in 1..n : s[i] = Nothing) => FirstSome(s) = Nothing
         /\ \A i \in 1..n : s[i] # Nothing /\ (\A j \in 1..(i - 1) : s[j] = Nothing) => FirstSome(s) = s[i]
<1>1. (\A i \in 1..n : s[i] = Nothing) => FirstSome(s) = Nothing BY DEF FirstSome
<1>2. ASSUME NEW i \in 1..n, s[i] # Nothing, \A j \in 1..(i - 1) : s[j] = Nothing
      PROVE  FirstSome(s) = s[i]
  <2> DEFINE Is(k) == s[k] # Nothing /\ \A j \in 1..(k - 1) : s[j] = Nothing
  <2>1. Is(i) BY <1>2
  <2>2. ASSUME NEW k \in 1..n, Is(k) PROVE k = i
    <3>1. ~ (k < i) BY <1>2, <2>2
    <3>2. ~ (i < k) BY <1>2, <2>2
    <3>3. QED BY <3>1, <3>2
  <2>3. (CHOOSE k \in DOMAIN s : Is(k)) = i
    <3> HIDE DEF Is
    <3>1. QED BY <2>1, <2>2
  <2>4. FirstSome(s) = s[CHOOSE k \in DOMAIN s : Is(k)] BY <1>2 DEF FirstSome
  <2> HIDE DEF Is
  <2>5. QED BY <2>3, <2>4
<1>3. QED BY <1>1, <1>2

(* "A method no class of the hierarchy declares is a call of the one that  *)
(* does [declare __call], unless a base class or trait outside the project *)
(* may declare it" (php.md), for every table: a member some class above    *)
(* declares is that declaration; else, with no parent outside the project  *)
(* above, the first magic method declared above; else a name outside.      *)
THEOREM MembersAnswerAsPhp ==
  ASSUME NEW t, WellFormed(t), MembersNamed(t), NEW class, class # Nothing, NEW slot, NEW member
  PROVE  LET table == IF slot = "static" THEN "method" ELSE slot
             magic == MagicOf(slot)
             Absent(name) == Declaring(t, class, table, name) = {}
             Is(answer, name) == \E site : IsNearby(t, class, table, name, site) /\ answer = Internal(site)
             outside == \E c \in t.foreign_parents : Above(t, Roles, class, c)
             answer == MemberAnswer(t, Declared(class), slot, member)
         IN /\ ~ Absent(member) => Is(answer, member)
            /\ \A i \in DOMAIN magic :
                 Absent(member) /\ ~ outside /\ ~ Absent(magic[i])
                   /\ (\A j \in DOMAIN magic : j < i => Absent(magic[j]))
                 => Is(answer, magic[i])
            /\ Absent(member) /\ (outside \/ \A i \in DOMAIN magic : Absent(magic[i]))
                 => answer = External(Append(class, member))
<1> DEFINE table == IF slot = "static" THEN "method" ELSE slot
           magic == MagicOf(slot)
           known == InHierarchy(t, class, t.foreign_parents) = Nothing
           names == <<member>> \o (IF known THEN magic ELSE <<>>)
           sites == MemberSites(t, class, slot, member)
           answer == MemberAnswer(t, Declared(class), slot, member)
           outside == \E c \in t.foreign_parents : Above(t, Roles, class, c)
<1>1. known <=> ~ outside BY HierarchyIsSearched
<1>2. sites = [i \in DOMAIN names |-> FindMember(t, class, table, names[i])] BY DEF MemberSites
<1>3. answer = IF FirstSome(sites) = Nothing THEN External(Append(class, member))
               ELSE Internal(FirstSome(sites))
  BY DEF MemberAnswer, Declared
<1>4. \E n \in Nat : DOMAIN magic = 1..n /\ magic \in Seq({"__call", "__callstatic"}) /\ Len(magic) = n
  <2>1. \A m : m = <<>> => DOMAIN m = 1..0 /\ m \in Seq({"__call", "__callstatic"}) /\ Len(m) = 0 OBVIOUS
  <2>2. \A m : m = <<"__call">> => DOMAIN m = 1..1 /\ m \in Seq({"__call", "__callstatic"}) /\ Len(m) = 1 OBVIOUS
  <2>3. \A m : m = <<"__callstatic", "__call">> =>
          DOMAIN m = 1..2 /\ m \in Seq({"__call", "__callstatic"}) /\ Len(m) = 2
    OBVIOUS
  <2>4. magic \in {<<"__callstatic", "__call">>, <<"__call">>, <<>>} BY DEF MagicOf
  <2>5. QED BY <2>1, <2>2, <2>3, <2>4
<1>5. PICK n \in Nat : DOMAIN magic = 1..n /\ magic \in Seq({"__call", "__callstatic"}) /\ Len(magic) = n
  BY <1>4
<1> HIDE DEF magic, table, known, outside
<1> DEFINE N == IF known THEN n ELSE 0
<1>6. /\ N \in Nat /\ DOMAIN names = 1..(1 + N) /\ names[1] = member
      /\ known => \A i \in 1..n : names[1 + i] = magic[i]
  <2> DEFINE X == {member, "__call", "__callstatic"}
             more == IF known THEN magic ELSE <<>>
  <2>1. <<member>> \in Seq(X) /\ Len(<<member>>) = 1 /\ <<member>>[1] = member OBVIOUS
  <2>2. more \in Seq(X) /\ Len(more) = N /\ N \in Nat BY <1>5
  <2>3. names = <<member>> \o more OBVIOUS
  <2>4. \A a, b \in Seq(X) : /\ DOMAIN (a \o b) = 1..(Len(a) + Len(b))
                             /\ \A i \in 1..Len(a) : (a \o b)[i] = a[i]
                             /\ \A i \in 1..Len(b) : (a \o b)[Len(a) + i] = b[i]
    OBVIOUS
  <2> HIDE DEF more, X, names, N
  <2>5. /\ DOMAIN names = 1..(1 + N) /\ names[1] = member
        /\ \A i \in 1..N : names[1 + i] = more[i]
    <3>1. 1 \in 1..Len(<<member>>) BY <2>1
    <3>2. QED BY <2>1, <2>2, <2>3, <2>4, <3>1
  <2>6. QED BY <2>2, <2>5 DEF more, N
<1> HIDE DEF names, N
<1>7. DOMAIN sites = 1..(1 + N) /\ \A i \in 1..(1 + N) : sites[i] = FindMember(t, class, table, names[i])
  BY <1>2, <1>6
<1>8. \A name : LET site == FindMember(t, class, table, name) IN
                /\ site = Nothing <=> Declaring(t, class, table, name) = {}
                /\ site # Nothing => IsNearby(t, class, table, name, site)
  BY MemberIsFound
<1> HIDE DEF sites, answer
<1>9. /\ (\A i \in 1..(1 + N) : sites[i] = Nothing) => FirstSome(sites) = Nothing
      /\ \A i \in 1..(1 + N) :
           sites[i] # Nothing /\ (\A j \in 1..(i - 1) : sites[j] = Nothing) => FirstSome(sites) = sites[i]
  <2>1. 1 + N \in Nat BY <1>6
  <2>2. QED BY <1>7, <2>1, FirstSomeIs
<1>10. ASSUME Declaring(t, class, table, member) # {}
       PROVE  \E site : IsNearby(t, class, table, member, site) /\ answer = Internal(site)
  <2>1. 1 \in 1..(1 + N) /\ 1..(1 - 1) = {} BY <1>6
  <2>2. sites[1] = FindMember(t, class, table, member) BY <1>6, <1>7, <2>1
  <2>3. sites[1] # Nothing /\ IsNearby(t, class, table, member, sites[1]) BY <1>8, <1>10, <2>2
  <2>4. FirstSome(sites) = sites[1] BY <1>9, <2>1, <2>3
  <2>5. QED BY <1>3, <2>3, <2>4
<1>11. ASSUME NEW i \in DOMAIN magic, Declaring(t, class, table, member) = {}, ~ outside,
              Declaring(t, class, table, magic[i]) # {},
              \A j \in DOMAIN magic : j < i => Declaring(t, class, table, magic[j]) = {}
       PROVE  \E site : IsNearby(t, class, table, magic[i], site) /\ answer = Internal(site)
  <2>1. i \in 1..n /\ N = n /\ known BY <1>1, <1>5, <1>11 DEF N
  <2>2. 1 + i \in 1..(1 + N) /\ (1 + i) - 1 = i BY <2>1
  <2>3. sites[1 + i] = FindMember(t, class, table, magic[i]) BY <1>6, <1>7, <2>1, <2>2
  <2>4. sites[1 + i] # Nothing /\ IsNearby(t, class, table, magic[i], sites[1 + i])
    BY <1>8, <1>11, <2>3
  <2>5. ASSUME NEW j \in 1..i PROVE sites[j] = Nothing
    <3>1. j \in 1..(1 + N) BY <2>1, <2>5
    <3>2. CASE j = 1 BY <1>6, <1>7, <1>8, <1>11, <3>1, <3>2
    <3>3. CASE j # 1
      <4>1. j - 1 \in 1..n /\ j - 1 < i /\ 1 + (j - 1) = j BY <2>1, <2>5, <3>3
      <4>2. names[j] = magic[j - 1] BY <1>6, <2>1, <4>1
      <4>3. Declaring(t, class, table, names[j]) = {} BY <1>5, <1>11, <4>1, <4>2
      <4>4. QED BY <1>7, <1>8, <3>1, <4>3
    <3>4. QED BY <3>2, <3>3
  <2>6. FirstSome(sites) = sites[1 + i] BY <1>9, <2>2, <2>4, <2>5
  <2>7. QED BY <1>3, <2>4, <2>6
<1>12. ASSUME Declaring(t, class, table, member) = {},
              outside \/ \A i \in DOMAIN magic : Declaring(t, class, table, magic[i]) = {}
       PROVE  answer = External(Append(class, member))
  <2>1. ASSUME NEW j \in 1..(1 + N) PROVE sites[j] = Nothing
    <3>1. CASE j = 1 BY <1>6, <1>7, <1>8, <1>12, <2>1, <3>1
    <3>2. CASE j # 1
      <4>1. j - 1 \in 1..N /\ 1 + (j - 1) = j BY <1>6, <2>1, <3>2
      <4>2. known /\ N = n BY <4>1 DEF N
      <4>3. names[j] = magic[j - 1] BY <1>6, <4>1, <4>2
      <4>4. Declaring(t, class, table, names[j]) = {} BY <1>1, <1>5, <1>12, <4>1, <4>2, <4>3
      <4>5. QED BY <1>7, <1>8, <2>1, <4>4
    <3>3. QED BY <3>1, <3>2
  <2>2. QED BY <1>3, <1>9, <2>1
<1>13. QED BY <1>10, <1>11, <1>12 DEF table, magic, outside, answer

-------------------------------------------------------------------------------
(* The loops over lists.  Each is a fold; what a lemma cannot take as a    *)
(* parameter, the step, it takes by the name of the loop.                  *)

Step(loop, here, u, x) ==
  CASE loop = "link" -> LinkOne(u, x)
    [] loop = "param" ->
         IF ~ x.promoted THEN u
         ELSE DeclareProperty(u, here.class, here.doc, here.namespace, x.at, x.name, x.type)
    [] loop = "member" -> DeclareMember(u, here.class, here.doc, here.namespace, x)
    [] loop = "statement" -> DeclareStatement(u, here.doc, x)

Unwinding(f, m, loop, here, start, list) ==
  f = [s \in SUBSET (1..m) |->
         IF s = {} THEN start ELSE Step(loop, here, f[s \ {Greatest(s)}], list[Greatest(s)])]

LEMMA UnwindingExists ==
  ASSUME NEW N \in Nat, NEW loop, NEW here, NEW start, NEW list
  PROVE  \E f : Unwinding(f, N, loop, here, start, list)
<1> DEFINE Is(f, m) == Unwinding(f, m, loop, here, start, list)
           Short == {m \in 0..N : ~ \E f : Is(f, m)}
<1>1. Short = {}
  <2>1. SUFFICES ASSUME Short # {} PROVE FALSE OBVIOUS
  <2>2. PICK m \in Short : \A y \in Short : m <= y
    <3>1. Short \in SUBSET Nat OBVIOUS
    <3> HIDE DEF Short
    <3>2. QED BY <2>1, <3>1, LeastNat
  <2>3. m # 0
    <3> DEFINE f == [s \in SUBSET (1..0) |-> start]
    <3>1. \A s \in SUBSET (1..0) : s = {} OBVIOUS
    <3>2. f = [s \in SUBSET (1..0) |-> IF s = {} THEN start
                 ELSE Step(loop, here, f[s \ {Greatest(s)}], list[Greatest(s)])]
      BY <3>1
    <3>3. Is(f, 0) BY <3>2 DEF Unwinding
    <3> HIDE DEF Is
    <3>4. QED BY <3>3
  <2>4. m \in 1..N /\ m - 1 \in 0..N /\ ~ (m <= m - 1) BY <2>3
  <2>5. PICK g : Is(g, m - 1) BY <2>2, <2>4
  <2> DEFINE f == [s \in SUBSET (1..m) |-> IF m \in s THEN Step(loop, here, g[s \ {m}], list[m]) ELSE g[s]]
  <2>6. \A s \in SUBSET (1..(m - 1)) :
          g[s] = IF s = {} THEN start ELSE Step(loop, here, g[s \ {Greatest(s)}], list[Greatest(s)])
    BY <2>5 DEF Unwinding
  <2>7. ASSUME NEW s \in SUBSET (1..m)
        PROVE  f[s] = IF s = {} THEN start ELSE Step(loop, here, f[s \ {Greatest(s)}], list[Greatest(s)])
    <3>1. CASE m \in s
      <4>1. Greatest(s) = m
        <5>1. Greatest(s) \in s /\ Topmost(s, Greatest(s))
          <6>1. m \in Nat /\ s # {} BY <3>1
          <6>2. QED BY <6>1, GreatestIs
        <5>2. m <= Greatest(s) /\ Greatest(s) \in 1..m BY <3>1, <5>1 DEF Topmost
        <5>3. QED BY <5>2
      <4>2. s \ {m} \in SUBSET (1..m) /\ m \notin s \ {m} OBVIOUS
      <4>3. f[s \ {m}] = g[s \ {m}] /\ f[s] = Step(loop, here, g[s \ {m}], list[m]) BY <3>1, <4>2
      <4> HIDE DEF f
      <4>4. QED BY <3>1, <4>1, <4>3
    <3>2. CASE m \notin s
      <4>1. s \in SUBSET (1..(m - 1)) BY <2>4, <3>2
      <4>2. s \ {Greatest(s)} \in SUBSET (1..m) /\ m \notin s \ {Greatest(s)} BY <3>2
      <4>3. f[s] = g[s] /\ f[s \ {Greatest(s)}] = g[s \ {Greatest(s)}] BY <3>2, <4>2
      <4> HIDE DEF f
      <4>4. QED BY <2>6, <4>1, <4>3
    <3>3. QED BY <3>1, <3>2
  <2>8. Is(f, m)
    <3>1. f = [s \in SUBSET (1..m) |-> f[s]] OBVIOUS
    <3> HIDE DEF f
    <3>2. QED BY <2>7, <3>1 DEF Unwinding
  <2>9. QED
    <3> HIDE DEF Is
    <3>1. QED BY <2>2, <2>8
<1>2. N \in 0..N OBVIOUS
<1> HIDE DEF Is
<1>3. \E f : Is(f, N) BY <1>1, <1>2
<1>4. QED BY <1>3 DEF Is

LEMMA StepsAlong ==
  ASSUME NEW N \in Nat, NEW loop, NEW here, NEW start, NEW list, NEW f,
         Unwinding(f, N, loop, here, start, list)
  PROVE  \E r : /\ r[0] = start /\ r[N] = f[1..N]
                /\ \A k \in 1..N : r[k] = Step(loop, here, r[k - 1], list[k])
<1> DEFINE r == [k \in 0..N |-> f[1..k]]
<1>1. \A s \in SUBSET (1..N) :
        f[s] = IF s = {} THEN start ELSE Step(loop, here, f[s \ {Greatest(s)}], list[Greatest(s)])
  BY DEF Unwinding
<1>2. r[0] = start
  <2>1. 1..0 = {} /\ {} \in SUBSET (1..N) /\ 0 \in 0..N OBVIOUS
  <2>2. QED BY <1>1, <2>1
<1>3. ASSUME NEW k \in 1..N PROVE r[k] = Step(loop, here, r[k - 1], list[k])
  <2>1. 1..k \in SUBSET (1..N) /\ 1..k # {} /\ Greatest(1..k) = k /\ (1..k) \ {k} = 1..(k - 1)
    BY PrefixTop
  <2>2. k \in 0..N /\ k - 1 \in 0..N OBVIOUS
  <2>3. f[1..k] = Step(loop, here, f[1..(k - 1)], list[k]) BY <1>1, <2>1
  <2>4. QED BY <2>2, <2>3
<1>4. r[N] = f[1..N] OBVIOUS
<1> HIDE DEF r
<1>5. QED BY <1>2, <1>3, <1>4

-------------------------------------------------------------------------------
(* Linking what the files declare. *)

(* What a declaration names: the class, and whether it is a parent.        *)
RefOf(t, p) == ClassOf(t, p.name, p.doc, p.namespace)
NamesParent(p) == p.role \notin {"property", "method"}
Links(t, p, role, class, d) ==
  NamesParent(p) /\ p.role = role /\ p.class = class /\ RefOf(t, p).declared /\ RefOf(t, p).class = d
Leaves(t, p, class) ==
  NamesParent(p) /\ p.role \in MakesForeign /\ p.class = class /\ ~ RefOf(t, p).declared

(* The files were read, and nothing is linked yet: declaring adds to the   *)
(* fresh tables, and touches no parents.                                   *)
ReadOnly(t) ==
  /\ {"uses", "classes", "short_names", "psr4", "members", "pending", "types", "parents",
      "foreign_parents"} \subseteq DOMAIN t
  /\ t.parents = <<>> /\ t.foreign_parents = {}
  /\ \E P : t.pending \in Seq(P)

(* Names mean in u what they mean in t.                                    *)
SameNames(t, u) ==
  /\ u.uses = t.uses /\ u.classes = t.classes /\ u.short_names = t.short_names /\ u.psr4 = t.psr4
  /\ u.members = t.members /\ DOMAIN u = DOMAIN t

LEMMA NamesStay ==
  ASSUME NEW t, NEW u, SameNames(t, u), NEW p
  PROVE  RefOf(u, p) = RefOf(t, p)
<1>1. \A name, doc, namespace : Candidates(u, name, doc, namespace, "class") =
                                Candidates(t, name, doc, namespace, "class")
  BY DEF Candidates, SameNames
<1>2. \A fqn : Psr4Lookup(u, fqn) = Psr4Lookup(t, fqn)
  BY DEF Psr4Lookup, Psr4Hits, SameNames
<1>3. \A name, candidates : ClassAmong(u, name, candidates) = ClassAmong(t, name, candidates)
  BY <1>2 DEF ClassAmong, SameNames
<1>4. QED BY <1>1, <1>3 DEF RefOf, ClassOf

LEMMA DeclaredIsSomething ==
  ASSUME NEW t, NEW p, RefOf(t, p).declared
  PROVE  RefOf(t, p).class # Nothing
<1> DEFINE candidates == Candidates(t, p.name, p.doc, p.namespace, "class")
           class == FirstSome([i \in DOMAIN candidates.names |-> KeyIn(t.classes, candidates.names[i])]
                                \o [i \in DOMAIN candidates.names |-> Psr4Lookup(t, candidates.names[i])])
           builtin == p.name.form # "relative" /\ p.name.path \in Builtins
           fqn == IF builtin THEN p.name.path ELSE Reportable(candidates, "class")
<1>1. RefOf(t, p) = IF class # Nothing THEN Declared(class) ELSE Foreign(fqn)
  BY DEF RefOf, ClassOf, ClassAmong
<1> HIDE DEF class, fqn
<1>2. Foreign(fqn).declared = FALSE BY DEF Foreign
<1>3. class # Nothing BY <1>1, <1>2
<1>4. QED BY <1>1, <1>3 DEF Declared

LEMMA LinkOneIs ==
  ASSUME NEW t, NEW p,
         {"uses", "classes", "short_names", "psr4", "members", "types", "parents", "foreign_parents"}
           \subseteq DOMAIN t
  PROVE  LET u == LinkOne(t, p)
             key == <<p.role, p.class>>
             ref == RefOf(t, p)
         IN /\ SameNames(t, u)
            /\ u.parents = IF NamesParent(p) /\ ref.declared
                           THEN Put(t.parents, key, Append(Get(t.parents, key, <<>>), ref.class))
                           ELSE t.parents
            /\ u.foreign_parents = IF NamesParent(p) /\ ~ ref.declared /\ p.role \in MakesForeign
                                   THEN t.foreign_parents \cup {p.class} ELSE t.foreign_parents
<1> DEFINE u == LinkOne(t, p)
           key == <<p.role, p.class>>
           ref == RefOf(t, p)
           parents == Put(t.parents, key, Append(Get(t.parents, key, <<>>), ref.class))
<1>1. CASE ~ NamesParent(p)
  <2>1. u = t \/ \E x : u = [t EXCEPT !.types = x]
    <3>1. p.role \in {"property", "method"} BY <1>1 DEF NamesParent
    <3>2. CASE Keyword(p.name) = "parent"
      <4>1. u = t BY <3>1, <3>2 DEF LinkOne
      <4>2. QED BY <4>1
    <3>3. CASE Keyword(p.name) # "parent"
      <4>1. \E x : u = [t EXCEPT !.types = x] BY <3>1, <3>3 DEF LinkOne
      <4>2. QED BY <4>1
    <3>4. QED BY <3>2, <3>3
  <2> HIDE DEF u
  <2>2. SameNames(t, u) /\ u.parents = t.parents /\ u.foreign_parents = t.foreign_parents
    BY <2>1 DEF SameNames
  <2>3. QED BY <1>1, <2>2 DEF u
<1>2. CASE NamesParent(p)
  <2>1. p.role \notin {"property", "method"} BY <1>2 DEF NamesParent
  <2>2. Nothing # "parent" /\ Nothing # "enclosing" BY NothingAssumption
  <2>3. u = CASE ref.declared -> [t EXCEPT !.parents = parents]
              [] ~ ref.declared /\ p.role \in MakesForeign ->
                   [t EXCEPT !.foreign_parents = t.foreign_parents \cup {p.class}]
              [] OTHER -> t
    BY <2>1, <2>2 DEF LinkOne, RefOf
  <2> HIDE DEF u, parents, ref
  <2>4. CASE ref.declared
    <3>1. u = [t EXCEPT !.parents = parents] BY <2>3, <2>4
    <3>2. SameNames(t, u) /\ u.parents = parents /\ u.foreign_parents = t.foreign_parents
      BY <3>1 DEF SameNames
    <3>3. QED BY <1>2, <2>4, <3>2 DEF u, parents, ref
  <2>5. CASE ~ ref.declared /\ p.role \in MakesForeign
    <3>1. u = [t EXCEPT !.foreign_parents = t.foreign_parents \cup {p.class}] BY <2>3, <2>5
    <3>2. /\ SameNames(t, u) /\ u.parents = t.parents
          /\ u.foreign_parents = t.foreign_parents \cup {p.class}
      BY <3>1 DEF SameNames
    <3>3. QED BY <1>2, <2>5, <3>2 DEF u, parents, ref
  <2>6. CASE ~ ref.declared /\ p.role \notin MakesForeign
    <3>1. u = t BY <2>3, <2>6
    <3>2. QED BY <1>2, <2>6, <3>1 DEF SameNames, u, parents, ref
  <2>7. QED BY <2>4, <2>5, <2>6
<1>3. QED BY <1>1, <1>2

LEMMA LinksAlong ==
  ASSUME NEW t, NEW P, t.pending \in Seq(P)
  PROVE  \E r : /\ r[0] = [t EXCEPT !.pending = <<>>] /\ r[Len(t.pending)] = Link(t)
                /\ \A k \in 1..Len(t.pending) : r[k] = LinkOne(r[k - 1], t.pending[k])
<1> DEFINE held == t.pending
           N == Len(held)
           start == [t EXCEPT !.pending = <<>>]
           Is(f) == f = [s \in SUBSET (1..N) |->
                           IF s = {} THEN start
                           ELSE LinkOne(f[s \ {Greatest(s)}], held[Greatest(s)])]
           iter == CHOOSE f : Is(f)
<1>1. N \in Nat /\ DOMAIN held = 1..N OBVIOUS
<1>2. Link(t) = iter[1..N]
  <2>1. FoldLeft(LinkOne, start, held) = iter[1..N]
    BY <1>1 DEF FoldLeft, MapThenFoldSet, Max, Greatest
  <2>2. Link(t) = FoldLeft(LinkOne, start, held) BY DEF Link
  <2> HIDE DEF iter
  <2>3. QED BY <2>1, <2>2
<1> HIDE DEF held, N, start
<1>3. \A u, x : Step("link", {}, u, x) = LinkOne(u, x) BY DEF Step
<1>4. \A f : Unwinding(f, N, "link", {}, start, held) <=> Is(f) BY <1>3 DEF Unwinding
<1>5. Unwinding(iter, N, "link", {}, start, held)
  <2> HIDE DEF Is
  <2>1. \E f : Is(f) BY <1>1, <1>4, UnwindingExists
  <2>2. QED BY <1>4, <2>1
<1> HIDE DEF iter
<1>6. QED BY <1>1, <1>2, <1>3, <1>5, StepsAlong DEF held, N, start

(* What the tables say of the first n held names. *)
LinkedUpTo(t, n, T, u) ==
  /\ SameNames(t, u)
  /\ IsFiniteSet(DOMAIN u.parents)
  /\ \A key \in DOMAIN u.parents : u.parents[key] \in Seq(T)
  /\ \A role, class, d : d \in ToSet(Get(u.parents, <<role, class>>, <<>>)) <=>
                           \E j \in 1..n : Links(t, t.pending[j], role, class, d)
  /\ \A class : class \in u.foreign_parents <=> \E j \in 1..n : Leaves(t, t.pending[j], class)

LEMMA LinkOneMore ==
  ASSUME NEW t, ReadOnly(t), NEW T, NEW n \in Nat, NEW u, LinkedUpTo(t, n, T, u),
         RefOf(t, t.pending[n + 1]).declared => RefOf(t, t.pending[n + 1]).class \in T
  PROVE  LinkedUpTo(t, n + 1, T, LinkOne(u, t.pending[n + 1]))
<1> DEFINE p == t.pending[n + 1]
           v == LinkOne(u, p)
           key == <<p.role, p.class>>
           ref == RefOf(t, p)
           list == Get(u.parents, key, <<>>)
<1>1. /\ SameNames(t, u) /\ IsFiniteSet(DOMAIN u.parents)
      /\ \A k \in DOMAIN u.parents : u.parents[k] \in Seq(T)
      /\ \A role, class, d : d \in ToSet(Get(u.parents, <<role, class>>, <<>>)) <=>
                               \E j \in 1..n : Links(t, t.pending[j], role, class, d)
      /\ \A class : class \in u.foreign_parents <=> \E j \in 1..n : Leaves(t, t.pending[j], class)
  BY DEF LinkedUpTo
<1>2. RefOf(u, p) = ref BY <1>1, NamesStay
<1>3. {"uses", "classes", "short_names", "psr4", "members", "types", "parents", "foreign_parents"}
        \subseteq DOMAIN u
  BY <1>1 DEF SameNames, ReadOnly
<1> HIDE DEF p, ref
<1>4. /\ SameNames(u, v)
      /\ v.parents = IF NamesParent(p) /\ ref.declared
                     THEN Put(u.parents, key, Append(list, ref.class)) ELSE u.parents
      /\ v.foreign_parents = IF NamesParent(p) /\ ~ ref.declared /\ p.role \in MakesForeign
                             THEN u.foreign_parents \cup {p.class} ELSE u.foreign_parents
  BY <1>2, <1>3, LinkOneIs
<1>5. 1..(n + 1) = (1..n) \cup {n + 1} OBVIOUS
<1>6. SameNames(t, v) BY <1>1, <1>4 DEF SameNames
<1> HIDE DEF v
<1>7. \A class : class \in v.foreign_parents <=> \E j \in 1..(n + 1) : Leaves(t, t.pending[j], class)
  <2>1. \A class : Leaves(t, p, class) <=>
                     NamesParent(p) /\ ~ ref.declared /\ p.role \in MakesForeign /\ class = p.class
    BY DEF Leaves, ref
  <2>2. \A class : class \in v.foreign_parents <=> class \in u.foreign_parents \/ Leaves(t, p, class)
    BY <1>4, <2>1
  <2>3. QED BY <1>1, <1>5, <2>2 DEF p
<1>8. list \in Seq(T) BY <1>1 DEF Get
<1>9. CASE NamesParent(p) /\ ref.declared
  <2> DEFINE longer == Append(list, ref.class)
  <2>1. v.parents = Put(u.parents, key, longer) BY <1>4, <1>9
  <2>2. longer \in Seq(T) /\ ToSet(longer) = ToSet(list) \cup {ref.class}
    <3>1. ref.class \in T BY <1>9 DEF p, ref
    <3> HIDE DEF list
    <3>2. QED BY <1>8, <3>1, SetOfAppend
  <2> HIDE DEF longer
  <2>3. DOMAIN v.parents = DOMAIN u.parents \cup {key} BY <2>1 DEF Put
  <2>4. IsFiniteSet(DOMAIN v.parents) BY <1>1, <2>3, FS_AddElement
  <2>5. \A k \in DOMAIN v.parents : v.parents[k] = IF k = key THEN longer ELSE u.parents[k]
    BY <2>1 DEF Put
  <2>6. \A k \in DOMAIN v.parents : v.parents[k] \in Seq(T)
    <3> HIDE DEF key
    <3>1. QED BY <1>1, <2>2, <2>3, <2>5
  <2>7. ASSUME NEW role, NEW class, NEW d
        PROVE  d \in ToSet(Get(v.parents, <<role, class>>, <<>>)) <=>
                 d \in ToSet(Get(u.parents, <<role, class>>, <<>>)) \/ Links(t, p, role, class, d)
    <3>1. <<role, class>> = key <=> role = p.role /\ class = p.class OBVIOUS
    <3>2. Links(t, p, role, class, d) <=> <<role, class>> = key /\ d = ref.class
      BY <1>9, <3>1 DEF Links, ref
    <3> DEFINE k == <<role, class>>
    <3>3. Get(v.parents, k, <<>>) = IF k = key THEN longer ELSE Get(u.parents, k, <<>>)
      <4> HIDE DEF key, k
      <4>1. QED BY <2>3, <2>5 DEF Get
    <3>4. QED
      <4>1. k = key => Get(u.parents, k, <<>>) = list OBVIOUS
      <4> HIDE DEF key, k, list
      <4>2. Links(t, p, role, class, d) <=> k = key /\ d = ref.class BY <3>2 DEF k
      <4>3. QED BY <2>2, <3>3, <4>1, <4>2 DEF k
  <2>8. \A role, class, d : d \in ToSet(Get(v.parents, <<role, class>>, <<>>)) <=>
                              \E j \in 1..(n + 1) : Links(t, t.pending[j], role, class, d)
    BY <1>1, <1>5, <2>7 DEF p
  <2>9. LinkedUpTo(t, n + 1, T, v) BY <1>6, <1>7, <2>4, <2>6, <2>8 DEF LinkedUpTo
  <2>10. QED BY <2>9 DEF v, p
<1>10. CASE ~ (NamesParent(p) /\ ref.declared)
  <2>1. v.parents = u.parents BY <1>4, <1>10
  <2>2. \A role, class, d : ~ Links(t, p, role, class, d) BY <1>10 DEF Links, ref
  <2>3. \A role, class, d : d \in ToSet(Get(v.parents, <<role, class>>, <<>>)) <=>
                              \E j \in 1..(n + 1) : Links(t, t.pending[j], role, class, d)
    BY <1>1, <1>5, <2>1, <2>2 DEF p
  <2>4. LinkedUpTo(t, n + 1, T, v) BY <1>1, <1>6, <1>7, <2>1, <2>3 DEF LinkedUpTo
  <2>5. QED BY <2>4 DEF v, p
<1>11. QED BY <1>9, <1>10

(* The names held over until every file has been read are all linked       *)
(* (link), whatever their order: a class has the parents its declarations  *)
(* name, and is foreign exactly when one of its base classes or traits is  *)
(* not found; what link makes can be walked, and no member is lost.        *)
THEOREM LinkedAsWritten ==
  ASSUME NEW t, ReadOnly(t)
  PROVE  LET u == Link(t)
             names == 1..Len(t.pending)
         IN /\ WellFormed(u)
            /\ \A roles, class, d :
                 Parent(u, roles, class, d) <=>
                   \E i \in DOMAIN roles : \E j \in names : Links(t, t.pending[j], roles[i], class, d)
            /\ \A class : class \in u.foreign_parents <=> \E j \in names : Leaves(t, t.pending[j], class)
            /\ u.members = t.members
<1> DEFINE N == Len(t.pending)
           u == Link(t)
           T == {RefOf(t, t.pending[j]).class : j \in {i \in 1..N : RefOf(t, t.pending[i]).declared}}
<1>1. PICK P : t.pending \in Seq(P) BY DEF ReadOnly
<1>2. N \in Nat BY <1>1
<1>3. PICK r : /\ r[0] = [t EXCEPT !.pending = <<>>] /\ r[N] = u
               /\ \A k \in 1..N : r[k] = LinkOne(r[k - 1], t.pending[k])
  BY <1>1, LinksAlong
<1>4. Nothing \notin T BY DeclaredIsSomething
<1>5. \A j \in 1..N : RefOf(t, t.pending[j]).declared => RefOf(t, t.pending[j]).class \in T OBVIOUS
<1> HIDE DEF u, N, T
<1>6. LinkedUpTo(t, 0, T, r[0])
  <2>1. /\ SameNames(t, r[0]) /\ r[0].parents = <<>> /\ r[0].foreign_parents = {}
    BY <1>3 DEF ReadOnly, SameNames
  <2>2. DOMAIN <<>> = {} /\ 1..0 = {} OBVIOUS
  <2>3. IsFiniteSet({}) BY FS_EmptySet
  <2>4. \A role, class : ToSet(Get(<<>>, <<role, class>>, <<>>)) = {} BY <2>2 DEF Get, ToSet
  <2>5. QED BY <2>1, <2>2, <2>3, <2>4 DEF LinkedUpTo
<1> DEFINE Off == {k \in 0..N : ~ LinkedUpTo(t, k, T, r[k])}
<1>7. Off = {}
  <2>1. SUFFICES ASSUME Off # {} PROVE FALSE OBVIOUS
  <2>2. PICK m \in Off : \A y \in Off : m <= y
    <3>1. Off \in SUBSET Nat OBVIOUS
    <3> HIDE DEF Off
    <3>2. QED BY <2>1, <3>1, LeastNat
  <2>3. m # 0 BY <1>6
  <2>4. /\ m \in 1..N /\ m - 1 \in 0..N /\ ~ (m <= m - 1) /\ m - 1 \in Nat /\ (m - 1) + 1 = m
    BY <1>2, <2>3
  <2>5. LinkedUpTo(t, m - 1, T, r[m - 1]) BY <2>2, <2>4
  <2>6. LinkedUpTo(t, (m - 1) + 1, T, LinkOne(r[m - 1], t.pending[(m - 1) + 1]))
    BY <1>5, <2>4, <2>5, LinkOneMore
  <2>7. LinkedUpTo(t, m, T, r[m]) BY <1>3, <2>4, <2>6
  <2>8. QED BY <2>7
<1>8. LinkedUpTo(t, N, T, u)
  <2>1. N \in 0..N BY <1>2
  <2>2. QED BY <1>3, <1>7, <2>1
<1>9. WellFormed(u) BY <1>4, <1>8 DEF LinkedUpTo, WellFormed
<1>10. \A roles, class, d :
         Parent(u, roles, class, d) <=>
           \E i \in DOMAIN roles : \E j \in 1..N : Links(t, t.pending[j], roles[i], class, d)
  BY <1>8 DEF Parent, LinkedUpTo
<1>11. /\ \A class : class \in u.foreign_parents <=> \E j \in 1..N : Leaves(t, t.pending[j], class)
       /\ u.members = t.members
  BY <1>8 DEF LinkedUpTo, SameNames
<1>12. QED BY <1>9, <1>10, <1>11 DEF u, N

-------------------------------------------------------------------------------
(* Reading files. *)

(* A name of a class and a place are no None.                              *)
NoneIsApart ==
  /\ \A namespace, name : Qualify(namespace, <<name>>) # Nothing
  /\ \A doc, at : Site(doc, at) # Nothing

Listed(s) == \E X : s \in Seq(X)

(* What the parser makes of a file: statements, members of classes, the    *)
(* parameters and the names in them are lists.                             *)
IsMember(m) ==
  /\ m.k \in {"method", "property", "const", "use_traits"}
  /\ m.k = "method" => Listed(m.params)
  /\ m.k = "use_traits" => Listed(m.refs)

IsClass(s) ==
  /\ Listed(s.extends) /\ Listed(s.implements) /\ Listed(s.members)
  /\ \A i \in DOMAIN s.members : IsMember(s.members[i])

IsFile(file) ==
  Listed(file.body) /\ \A i \in DOMAIN file.body : file.body[i].k = "class" => IsClass(file.body[i])

Columns == {"docs", "uses", "classes", "functions", "constants", "members", "parents",
            "foreign_parents", "types", "self_returning", "enums", "short_names", "pending", "psr4"}

(* Every entry is a place in S, and every class the tables speak of is one *)
(* they have an entry for.                                                 *)
Entered(t, S) ==
  /\ \A key \in DOMAIN t.members : t.members[key] \in S
  /\ \A key \in DOMAIN t.classes : t.classes[key] \in S
  /\ \A key \in DOMAIN t.functions : t.functions[key] \in S
  /\ \A key \in DOMAIN t.constants : t.constants[key] \in S
  /\ \A key \in DOMAIN t.short_names : t.short_names[key] \in DOMAIN t.classes

(* There are finitely many prefixes to compare by length.                  *)
Autoloads(t) == IsFiniteSet(t.psr4) /\ \A e \in t.psr4 : Len(e.prefix) \in Nat

Read(t, S) ==
  /\ Columns = DOMAIN t
  /\ Entered(t, S)
  /\ t.parents = <<>> /\ t.foreign_parents = {} /\ t.types = <<>>
  /\ Autoloads(t)
  /\ Nothing \notin DOMAIN t.classes
  /\ \A key \in DOMAIN t.members :
       \E slot, class, name : key = <<slot, class, name>> /\ class \in DOMAIN t.classes
  /\ Listed(t.pending)
  /\ \A i \in DOMAIN t.pending : t.pending[i].class \in DOMAIN t.classes

LEMMA ReadIsReadOnly ==
  ASSUME NEW t, NEW S, Read(t, S), Nothing \notin S
  PROVE  ReadOnly(t) /\ MembersNamed(t)
<1>1. {"uses", "classes", "short_names", "psr4", "members", "pending", "types", "parents",
       "foreign_parents"} \subseteq DOMAIN t
  BY DEF Read, Columns
<1>2. ReadOnly(t) BY <1>1 DEF Read, ReadOnly, Listed
<1>3. MembersNamed(t) BY DEF Read, Entered, Autoloads, MembersNamed
<1>4. QED BY <1>2, <1>3

LEMMA FreshTablesAreRead ==
  ASSUME NEW E, \A e \in E : Len(e.prefix) \in Nat, NEW n \in Nat, NEW roots \in [1..n -> Seq(E)]
  PROVE  Read(EmptyTables(roots), {})
<1> DEFINE t == EmptyTables(roots)
           entries == FlattenSeq(roots)
<1>1. <<>> \in Seq({}) /\ DOMAIN <<>> = {} OBVIOUS
<1>2. /\ t.parents = <<>> /\ t.foreign_parents = {} /\ t.types = <<>>
      /\ t.pending = <<>> /\ t.members = <<>> /\ t.classes = <<>> /\ t.functions = <<>>
      /\ t.constants = <<>> /\ t.short_names = <<>> /\ t.psr4 = Psr4(roots)
      /\ DOMAIN t = Columns
  BY DEF EmptyTables, Columns
<1>3. entries \in Seq(E)
  <2>1. DOMAIN roots = 1..n /\ Len(roots) = n /\ roots \in Seq(Seq(E)) OBVIOUS
  <2>2. CASE n # 0 BY <2>1, <2>2, SetOfFlat
  <2>3. CASE n = 0
    <3>1. FlattenSeq(roots) = <<>> BY <2>1, <2>3 DEF FlattenSeq
    <3>2. QED BY <3>1
  <2>4. QED BY <2>2, <2>3
<1> HIDE DEF entries
<1>4. Autoloads(t)
  <2> DEFINE kept == {i \in DOMAIN entries : \A j \in 1..(i - 1) : entries[j].prefix # entries[i].prefix}
  <2>1. Psr4(roots) = {entries[i] : i \in kept} BY DEF Psr4, entries
  <2>2. kept \subseteq 1..Len(entries) /\ Len(entries) \in Nat /\ DOMAIN entries = 1..Len(entries) BY <1>3
  <2>3. IsFiniteSet(1..Len(entries)) BY <2>2, FS_Interval
  <2>4. IsFiniteSet(kept) BY <2>2, <2>3, FS_Subset
  <2>5. \A e \in Psr4(roots) : Len(e.prefix) \in Nat BY <1>3, <2>1, <2>2
  <2> HIDE DEF kept
  <2>6. IsFiniteSet({entries[i] : i \in kept})
    <3> DEFINE g == [i \in kept |-> entries[i]]
    <3>1. {entries[i] : i \in kept} = {g[i] : i \in kept} /\ DOMAIN g = kept OBVIOUS
    <3> HIDE DEF g
    <3>2. QED BY <2>4, <3>1, FiniteImage
  <2>7. QED BY <1>2, <2>1, <2>5, <2>6 DEF Autoloads
<1> HIDE DEF t
<1>5. QED BY <1>1, <1>2, <1>4 DEF Read, Entered, Listed, t

(* A class of whose members one more is read. *)
Inside(t, S, class) == Read(t, S) /\ class \in DOMAIN t.classes

LEMMA HeldOver ==
  ASSUME NEW t, NEW S, NEW class, Inside(t, S, class), NEW more, Listed(more),
         \A i \in DOMAIN more : more[i].class = class
  PROVE  Inside([t EXCEPT !.pending = @ \o more], S, class)
<1> DEFINE u == [t EXCEPT !.pending = @ \o more]
           both == t.pending \o more
<1>1. PICK X : t.pending \in Seq(X) BY DEF Inside, Read, Autoloads, Listed
<1>2. PICK Y : more \in Seq(Y) BY DEF Listed
<1>3. /\ both \in Seq(X \cup Y) /\ DOMAIN both = 1..(Len(t.pending) + Len(more))
      /\ \A i \in 1..Len(t.pending) : both[i] = t.pending[i]
      /\ \A i \in 1..Len(more) : both[Len(t.pending) + i] = more[i]
      /\ Len(t.pending) \in Nat /\ Len(more) \in Nat
      /\ DOMAIN t.pending = 1..Len(t.pending) /\ DOMAIN more = 1..Len(more)
  <2>1. t.pending \in Seq(X \cup Y) /\ more \in Seq(X \cup Y) BY <1>1, <1>2
  <2>2. \A a, b \in Seq(X \cup Y) :
          /\ a \o b \in Seq(X \cup Y) /\ DOMAIN (a \o b) = 1..(Len(a) + Len(b))
          /\ \A i \in 1..Len(a) : (a \o b)[i] = a[i]
          /\ \A i \in 1..Len(b) : (a \o b)[Len(a) + i] = b[i]
          /\ Len(a) \in Nat /\ DOMAIN a = 1..Len(a)
    OBVIOUS
  <2>3. QED BY <2>1, <2>2
<1> HIDE DEF both
<1>4. ASSUME NEW i \in DOMAIN both PROVE both[i].class \in DOMAIN t.classes
  <2>1. CASE i \in 1..Len(t.pending) BY <1>3, <2>1 DEF Inside, Read, Autoloads
  <2>2. CASE i \notin 1..Len(t.pending)
    <3>1. i - Len(t.pending) \in 1..Len(more) /\ Len(t.pending) + (i - Len(t.pending)) = i
      BY <1>3, <2>2
    <3>2. both[i] = more[i - Len(t.pending)] BY <1>3, <3>1
    <3>3. both[i].class = class BY <1>3, <3>1, <3>2
    <3>4. QED BY <3>3 DEF Inside
  <2>3. QED BY <2>1, <2>2
<1>5. /\ DOMAIN u = DOMAIN t /\ u.pending = both
      /\ \A column \in Columns \ {"pending"} : u[column] = t[column]
  BY DEF Inside, Read, Autoloads, Columns, both
<1>6. /\ u.members = t.members /\ u.classes = t.classes /\ u.functions = t.functions
      /\ u.constants = t.constants /\ u.short_names = t.short_names /\ u.parents = t.parents
      /\ u.foreign_parents = t.foreign_parents /\ u.types = t.types /\ u.psr4 = t.psr4
  BY <1>5 DEF Columns
<1> HIDE DEF u
<1>7. Entered(u, S) BY <1>6 DEF Inside, Read, Autoloads, Entered
<1>8. Listed(u.pending) BY <1>3, <1>5 DEF Listed
<1>9. Inside(u, S, class) BY <1>4, <1>5, <1>6, <1>7, <1>8 DEF Inside, Read, Autoloads
<1>10. QED BY <1>9 DEF u

LEMMA PushedAll ==
  ASSUME NEW t, NEW S, NEW class, Inside(t, S, class), NEW role, NEW refs, Listed(refs),
         NEW doc, NEW namespace
  PROVE  Inside(PushAll(t, class, role, refs, doc, namespace), S, class)
<1> DEFINE p(i) == Pending(class, role, Nothing, refs[i].name, doc, namespace)
           more == [i \in DOMAIN refs |-> p(i)]
<1>1. Listed(more)
  <2>1. PICK X : refs \in Seq(X) BY DEF Listed
  <2>2. Len(refs) \in Nat /\ DOMAIN refs = 1..Len(refs) BY <2>1
  <2>3. more \in Seq({p(i) : i \in DOMAIN refs}) BY <2>2
  <2>4. QED BY <2>3 DEF Listed
<1>2. \A i \in DOMAIN more : more[i].class = class BY DEF Pending
<1>3. PushAll(t, class, role, refs, doc, namespace) = [t EXCEPT !.pending = @ \o more] BY DEF PushAll
<1> HIDE DEF more
<1>4. QED BY <1>1, <1>2, <1>3, HeldOver

LEMMA PushedType ==
  ASSUME NEW t, NEW S, NEW class, Inside(t, S, class), NEW role, NEW what, NEW refs,
         NEW doc, NEW namespace
  PROVE  Inside(PushType(t, class, role, what, refs, doc, namespace), S, class)
<1>1. CASE Len(refs) # 1 BY <1>1 DEF PushType
<1>2. CASE Len(refs) = 1
  <2> DEFINE p == Pending(class, role, what, refs[1].name, doc, namespace)
             more == <<p>>
  <2>1. PushType(t, class, role, what, refs, doc, namespace) = [t EXCEPT !.pending = Append(@, p)]
    BY <1>2 DEF PushType, PushPending
  <2>2. PICK X : t.pending \in Seq(X) BY DEF Inside, Read, Autoloads, Listed
  <2>3. Append(t.pending, p) = t.pending \o more
    <3> HIDE DEF p
    <3>1. t.pending \in Seq(X \cup {p}) BY <2>2
    <3>2. QED BY <3>1
  <2>4. Listed(more)
    <3>1. more \in Seq({p}) OBVIOUS
    <3>2. QED BY <3>1 DEF Listed
  <2>5. \A i \in DOMAIN more : more[i].class = class BY DEF Pending
  <2> HIDE DEF more, p
  <2>6. Inside([t EXCEPT !.pending = @ \o more], S, class) BY <2>4, <2>5, HeldOver
  <2>7. QED BY <2>1, <2>3, <2>6
<1>3. QED BY <1>1, <1>2

LEMMA MemberEntered ==
  ASSUME NEW t, NEW S, NEW class, Inside(t, S, class), NEW slot, NEW name, NEW site \in S
  PROVE  Inside([t EXCEPT !.members = OrInsert(@, <<slot, class, name>>, site)], S, class)
<1> DEFINE members == OrInsert(t.members, <<slot, class, name>>, site)
           u == [t EXCEPT !.members = members]
<1>1. /\ \A key \in DOMAIN members : members[key] \in S
      /\ \A key \in DOMAIN members :
           \E sl, cl, na : key = <<sl, cl, na>> /\ cl \in DOMAIN t.classes
  BY DEF Inside, Read, Autoloads, Entered, OrInsert
<1> HIDE DEF members
<1>2. /\ DOMAIN u = DOMAIN t /\ u.members = members
      /\ \A column \in Columns \ {"members"} : u[column] = t[column]
  BY DEF Inside, Read, Autoloads, Columns
<1>3. /\ u.pending = t.pending /\ u.classes = t.classes /\ u.functions = t.functions
      /\ u.constants = t.constants /\ u.short_names = t.short_names /\ u.parents = t.parents
      /\ u.foreign_parents = t.foreign_parents /\ u.types = t.types /\ u.psr4 = t.psr4
  BY <1>2 DEF Columns
<1> HIDE DEF u
<1>4. Inside(u, S, class) BY <1>1, <1>2, <1>3 DEF Inside, Read, Autoloads, Entered
<1>5. QED BY <1>4 DEF u, members

(* A column that no answer is read from.                                   *)
LEMMA SelfNoted ==
  ASSUME NEW t, NEW S, NEW class, Inside(t, S, class), NEW x
  PROVE  Inside([t EXCEPT !.self_returning = x], S, class)
<1> DEFINE u == [t EXCEPT !.self_returning = x]
<1>1. /\ DOMAIN u = DOMAIN t
      /\ \A column \in Columns \ {"self_returning"} : u[column] = t[column]
  BY DEF Inside, Read, Autoloads, Columns
<1>2. /\ u.pending = t.pending /\ u.classes = t.classes /\ u.functions = t.functions
      /\ u.constants = t.constants /\ u.short_names = t.short_names /\ u.parents = t.parents
      /\ u.foreign_parents = t.foreign_parents /\ u.types = t.types /\ u.psr4 = t.psr4 /\ u.members = t.members
  BY <1>1 DEF Columns
<1> HIDE DEF u
<1>3. Inside(u, S, class) BY <1>1, <1>2 DEF Inside, Read, Autoloads, Entered
<1>4. QED BY <1>3 DEF u

LEMMA PropertyDeclared ==
  ASSUME NEW t, NEW S, NEW class, Inside(t, S, class), NEW doc, NEW namespace, NEW at, NEW name,
         NEW refs, Site(doc, at) \in S
  PROVE  Inside(DeclareProperty(t, class, doc, namespace, at, name, refs), S, class)
<1> DEFINE u == [t EXCEPT !.members = OrInsert(@, <<"property", class, name>>, Site(doc, at))]
<1>1. Inside(u, S, class) BY MemberEntered
<1>2. DeclareProperty(t, class, doc, namespace, at, name, refs) =
        PushType(u, class, "property", name, refs, doc, namespace)
  BY DEF DeclareProperty
<1> HIDE DEF u
<1>3. QED BY <1>1, <1>2, PushedType

DeclareParam(u, class, doc, namespace, p) ==
  IF ~ p.promoted THEN u ELSE DeclareProperty(u, class, doc, namespace, p.at, p.name, p.type)

AllParams(class, doc, namespace, start, params) ==
  FoldLeft(LAMBDA u, p : IF ~ p.promoted THEN u
             ELSE DeclareProperty(u, class, doc, namespace, p.at, p.name, p.type),
           start, params)
AllMembers(class, doc, namespace, start, members) ==
  FoldLeft(LAMBDA u, m : DeclareMember(u, class, doc, namespace, m), start, members)
AllStatements(doc, start, body) == FoldLeft(LAMBDA d, s : DeclareStatement(d, doc, s), start, body)

LEMMA ParamsAlong ==
  ASSUME NEW class, NEW doc, NEW namespace, NEW start, NEW params, Listed(params)
  PROVE  \E r : /\ r[0] = start
                /\ r[Len(params)] = AllParams(class, doc, namespace, start, params)
                /\ \A k \in 1..Len(params) :
                     r[k] = DeclareParam(r[k - 1], class, doc, namespace, params[k])
<1> DEFINE N == Len(params)
           here == [class |-> class, doc |-> doc, namespace |-> namespace]
           Op(u, p) == IF ~ p.promoted THEN u
                       ELSE DeclareProperty(u, class, doc, namespace, p.at, p.name, p.type)
           Is(f) == f = [s \in SUBSET (1..N) |->
                           IF s = {} THEN start ELSE Op(f[s \ {Greatest(s)}], params[Greatest(s)])]
           iter == CHOOSE f : Is(f)
<1>1. N \in Nat /\ DOMAIN params = 1..N BY DEF Listed
<1>2. AllParams(class, doc, namespace, start, params) = iter[1..N]
  BY <1>1 DEF AllParams, FoldLeft, MapThenFoldSet, Max, Greatest
<1>3. \A u, x : Step("param", here, u, x) = Op(u, x) BY DEF Step
<1> HIDE DEF N, here, Op
<1>4. \A f : Unwinding(f, N, "param", here, start, params) <=> Is(f) BY <1>3 DEF Unwinding
<1>5. Unwinding(iter, N, "param", here, start, params)
  <2> HIDE DEF Is
  <2>1. \E f : Is(f) BY <1>1, <1>4, UnwindingExists
  <2>2. QED BY <1>4, <2>1
<1> HIDE DEF iter
<1>6. PICK r : /\ r[0] = start /\ r[N] = iter[1..N]
               /\ \A k \in 1..N : r[k] = Step("param", here, r[k - 1], params[k])
  <2> HIDE DEF Is
  <2>1. QED BY <1>1, <1>5, StepsAlong
<1>7. \A u, p : Op(u, p) = DeclareParam(u, class, doc, namespace, p) BY DEF DeclareParam, Op
<1>8. QED BY <1>2, <1>3, <1>6, <1>7 DEF N

LEMMA ToTheEnd ==
  ASSUME NEW N \in Nat, NEW good, 0 \in good, \A k \in 1..N : k - 1 \in good => k \in good
  PROVE  N \in good
<1> DEFINE Off == {k \in 0..N : k \notin good}
<1>1. SUFFICES ASSUME Off # {} PROVE FALSE OBVIOUS
<1>2. PICK m \in Off : \A y \in Off : m <= y
  <2>1. Off \in SUBSET Nat OBVIOUS
  <2> HIDE DEF Off
  <2>2. QED BY <1>1, <2>1, LeastNat
<1>3. m # 0 OBVIOUS
<1>4. m \in 1..N /\ m - 1 \in 0..N /\ ~ (m <= m - 1) BY <1>3
<1>5. m - 1 \in good BY <1>2, <1>4
<1>6. QED BY <1>4, <1>5

LEMMA MethodDeclared ==
  ASSUME NEW t, NEW S, NEW class, Inside(t, S, class), NEW doc, NEW namespace, NEW s,
         s.k = "method", Listed(s.params), SitesOfMember(doc, s) \subseteq S
  PROVE  Inside(DeclareMethod(t, class, doc, namespace, s), S, class)
<1> DEFINE declared == [t EXCEPT !.members = OrInsert(@, <<"method", class, s.name>>, Site(doc, s.at))]
           typed == IF Len(s.returns) = 1 /\ Keyword(s.returns[1].name) = "enclosing"
                    THEN [declared EXCEPT !.self_returning = @ \cup {<<class, s.name>>}]
                    ELSE PushType(declared, class, "method", s.name, s.returns, doc, namespace)
           N == Len(s.params)
<1>1. /\ Site(doc, s.at) \in S
      /\ \A i \in DOMAIN s.params : s.params[i].promoted => Site(doc, s.params[i].at) \in S
  BY DEF SitesOfMember
<1>2. Inside(declared, S, class) BY <1>1, MemberEntered
<1>3. Inside(typed, S, class)
  <2> HIDE DEF declared
  <2> DEFINE noted == declared.self_returning \cup {<<class, s.name>>}
  <2>1. Inside([declared EXCEPT !.self_returning = noted], S, class) BY <1>2, SelfNoted
  <2>2. Inside(PushType(declared, class, "method", s.name, s.returns, doc, namespace), S, class)
    BY <1>2, PushedType
  <2>3. QED BY <2>1, <2>2
<1> HIDE DEF declared
<1> DEFINE all == AllParams(class, doc, namespace, typed, s.params)
<1>4. DeclareMethod(t, class, doc, namespace, s) = all BY DEF DeclareMethod, AllParams, declared
<1> HIDE DEF typed
<1>5. PICK r : /\ r[0] = typed /\ r[N] = all
               /\ \A k \in 1..N :
                    r[k] = DeclareParam(r[k - 1], class, doc, namespace, s.params[k])
  BY ParamsAlong
<1> HIDE DEF all
<1>6. N \in Nat /\ DOMAIN s.params = 1..N BY DEF Listed
<1> HIDE DEF N
<1> DEFINE good == {k \in 0..N : Inside(r[k], S, class)}
<1>7. 0 \in good BY <1>3, <1>5, <1>6
<1>8. ASSUME NEW k \in 1..N, k - 1 \in good PROVE k \in good
  <2>1. Inside(r[k - 1], S, class) /\ k \in 0..N BY <1>8
  <2>2. s.params[k].promoted => Site(doc, s.params[k].at) \in S BY <1>1, <1>6
  <2>3. CASE ~ s.params[k].promoted
    <3>1. r[k] = r[k - 1] BY <1>5, <2>3 DEF DeclareParam
    <3>2. QED BY <2>1, <3>1
  <2>4. CASE s.params[k].promoted
    <3>1. r[k] = DeclareProperty(r[k - 1], class, doc, namespace, s.params[k].at,
                                 s.params[k].name, s.params[k].type)
      BY <1>5, <2>4 DEF DeclareParam
    <3>2. Inside(r[k], S, class) BY <2>1, <2>2, <2>4, <3>1, PropertyDeclared
    <3>3. QED BY <2>1, <3>2
  <2>5. QED BY <2>3, <2>4
<1> HIDE DEF good
<1>9. N \in good BY <1>6, <1>7, <1>8, ToTheEnd
<1>10. QED BY <1>4, <1>5, <1>9 DEF good

LEMMA MemberDeclared ==
  ASSUME NEW t, NEW S, NEW class, Inside(t, S, class), NEW doc, NEW namespace, NEW s,
         IsMember(s), SitesOfMember(doc, s) \subseteq S
  PROVE  Inside(DeclareMember(t, class, doc, namespace, s), S, class)
<1>1. CASE s.k = "method"
  <2>1. DeclareMember(t, class, doc, namespace, s) = DeclareMethod(t, class, doc, namespace, s)
    BY <1>1 DEF DeclareMember
  <2>2. QED BY <1>1, <2>1, MethodDeclared DEF IsMember
<1>2. CASE s.k = "property"
  <2>1. DeclareMember(t, class, doc, namespace, s) =
          DeclareProperty(t, class, doc, namespace, s.at, s.name, s.type)
    BY <1>2 DEF DeclareMember
  <2>2. Site(doc, s.at) \in S BY <1>2 DEF SitesOfMember
  <2>3. QED BY <2>1, <2>2, PropertyDeclared
<1>3. CASE s.k = "const"
  <2>1. DeclareMember(t, class, doc, namespace, s) =
          [t EXCEPT !.members = OrInsert(@, <<"const", class, s.name>>, Site(doc, s.at))]
    BY <1>3 DEF DeclareMember
  <2>2. Site(doc, s.at) \in S BY <1>3 DEF SitesOfMember
  <2>3. QED BY <2>1, <2>2, MemberEntered
<1>4. CASE s.k = "use_traits"
  <2>1. DeclareMember(t, class, doc, namespace, s) = PushAll(t, class, "trait", s.refs, doc, namespace)
    BY <1>4 DEF DeclareMember
  <2>2. QED BY <1>4, <2>1, PushedAll DEF IsMember
<1>5. QED BY <1>1, <1>2, <1>3, <1>4 DEF IsMember

LEMMA MembersAlong ==
  ASSUME NEW class, NEW doc, NEW namespace, NEW start, NEW members, Listed(members)
  PROVE  \E r : /\ r[0] = start
                /\ r[Len(members)] = AllMembers(class, doc, namespace, start, members)
                /\ \A k \in 1..Len(members) :
                     r[k] = DeclareMember(r[k - 1], class, doc, namespace, members[k])
<1> DEFINE N == Len(members)
           here == [class |-> class, doc |-> doc, namespace |-> namespace]
           Is(f) == f = [s \in SUBSET (1..N) |->
                           IF s = {} THEN start
                           ELSE DeclareMember(f[s \ {Greatest(s)}], class, doc, namespace,
                                              members[Greatest(s)])]
           iter == CHOOSE f : Is(f)
<1>1. N \in Nat /\ DOMAIN members = 1..N BY DEF Listed
<1>2. AllMembers(class, doc, namespace, start, members) = iter[1..N]
  BY <1>1 DEF AllMembers, FoldLeft, MapThenFoldSet, Max, Greatest
<1>3. \A u, x : Step("member", here, u, x) = DeclareMember(u, class, doc, namespace, x) BY DEF Step
<1> HIDE DEF N, here
<1>4. \A f : Unwinding(f, N, "member", here, start, members) <=> Is(f) BY <1>3 DEF Unwinding
<1>5. Unwinding(iter, N, "member", here, start, members)
  <2> HIDE DEF Is
  <2>1. \E f : Is(f) BY <1>1, <1>4, UnwindingExists
  <2>2. QED BY <1>4, <2>1
<1> HIDE DEF iter
<1>6. PICK r : /\ r[0] = start /\ r[N] = iter[1..N]
               /\ \A k \in 1..N : r[k] = Step("member", here, r[k - 1], members[k])
  <2> HIDE DEF Is
  <2>1. QED BY <1>1, <1>5, StepsAlong
<1>7. QED BY <1>2, <1>3, <1>6 DEF N

LEMMA StatementsAlong ==
  ASSUME NEW doc, NEW start, NEW body, Listed(body)
  PROVE  \E r : /\ r[0] = start
                /\ r[Len(body)] = AllStatements(doc, start, body)
                /\ \A k \in 1..Len(body) : r[k] = DeclareStatement(r[k - 1], doc, body[k])
<1> DEFINE N == Len(body)
           here == [doc |-> doc]
           Is(f) == f = [s \in SUBSET (1..N) |->
                           IF s = {} THEN start
                           ELSE DeclareStatement(f[s \ {Greatest(s)}], doc, body[Greatest(s)])]
           iter == CHOOSE f : Is(f)
<1>1. N \in Nat /\ DOMAIN body = 1..N BY DEF Listed
<1>2. AllStatements(doc, start, body) = iter[1..N]
  BY <1>1 DEF AllStatements, FoldLeft, MapThenFoldSet, Max, Greatest
<1>3. \A u, x : Step("statement", here, u, x) = DeclareStatement(u, doc, x) BY DEF Step
<1> HIDE DEF N, here
<1>4. \A f : Unwinding(f, N, "statement", here, start, body) <=> Is(f) BY <1>3 DEF Unwinding
<1>5. Unwinding(iter, N, "statement", here, start, body)
  <2> HIDE DEF Is
  <2>1. \E f : Is(f) BY <1>1, <1>4, UnwindingExists
  <2>2. QED BY <1>4, <2>1
<1> HIDE DEF iter
<1>6. PICK r : /\ r[0] = start /\ r[N] = iter[1..N]
               /\ \A k \in 1..N : r[k] = Step("statement", here, r[k - 1], body[k])
  <2> HIDE DEF Is
  <2>1. QED BY <1>1, <1>5, StepsAlong
<1>7. QED BY <1>2, <1>3, <1>6 DEF N

LEMMA ClassEntered ==
  ASSUME NEW t, NEW S, Read(t, S), NEW class, class # Nothing, NEW site \in S, NEW doc, NEW name, NEW enums
  PROVE  Inside([t EXCEPT !.classes = OrInsert(@, class, site),
                          !.short_names = OrInsert(@, <<doc, name>>, class),
                          !.enums = enums], S, class)
<1> DEFINE classes == OrInsert(t.classes, class, site)
           short == OrInsert(t.short_names, <<doc, name>>, class)
           u == [t EXCEPT !.classes = classes, !.short_names = short, !.enums = enums]
<1>1. /\ DOMAIN classes = DOMAIN t.classes \cup {class}
      /\ \A key \in DOMAIN classes : classes[key] \in S
      /\ Nothing \notin DOMAIN classes
  BY DEF Read, Entered, Autoloads, OrInsert
<1>2. \A key \in DOMAIN short : short[key] \in DOMAIN classes BY DEF Read, Entered, Autoloads, OrInsert
<1> HIDE DEF classes, short
<1>3. /\ DOMAIN u = Columns /\ u.classes = classes /\ u.short_names = short
      /\ \A column \in Columns \ {"classes", "short_names", "enums"} : u[column] = t[column]
  BY DEF Read, Columns
<1>4. /\ u.pending = t.pending /\ u.functions = t.functions /\ u.members = t.members
      /\ u.constants = t.constants /\ u.parents = t.parents
      /\ u.foreign_parents = t.foreign_parents /\ u.types = t.types /\ u.psr4 = t.psr4
  BY <1>3 DEF Columns
<1> HIDE DEF u
<1>5. Entered(u, S) BY <1>1, <1>2, <1>3, <1>4 DEF Read, Entered, Autoloads
<1>6. /\ \A key \in DOMAIN u.members :
           \E slot, cl, na : key = <<slot, cl, na>> /\ cl \in DOMAIN u.classes
      /\ \A i \in DOMAIN u.pending : u.pending[i].class \in DOMAIN u.classes
  BY <1>1, <1>3, <1>4 DEF Read
<1>7. Inside(u, S, class) BY <1>1, <1>3, <1>4, <1>5, <1>6 DEF Inside, Read, Autoloads
<1>8. QED BY <1>7 DEF u, classes, short

LEMMA ClassDeclared ==
  ASSUME NoneIsApart, NEW t, NEW S, Read(t, S), NEW doc, NEW namespace, NEW s,
         s.k = "class", IsClass(s), SitesOfStatement(doc, s) \subseteq S
  PROVE  Read(DeclareClass(t, doc, namespace, s), S)
<1> DEFINE class == Qualify(namespace, <<s.name>>)
           named == [t EXCEPT !.classes = OrInsert(@, class, Site(doc, s.at)),
                              !.short_names = OrInsert(@, <<doc, s.name>>, class),
                              !.enums = IF s.sort = "enum" THEN @ \cup {class} ELSE @]
           extended == PushAll(named, class, IF s.sort = "interface" THEN "interface" ELSE "base",
                               s.extends, doc, namespace)
           linked == PushAll(extended, class, "interface", s.implements, doc, namespace)
           N == Len(s.members)
           all == AllMembers(class, doc, namespace, linked, s.members)
<1>1. DeclareClass(t, doc, namespace, s) = all BY DEF DeclareClass, AllMembers
<1>2. /\ Site(doc, s.at) \in S
      /\ \A i \in DOMAIN s.members : SitesOfMember(doc, s.members[i]) \subseteq S
  BY DEF SitesOfStatement
<1>3. class # Nothing BY DEF NoneIsApart
<1> HIDE DEF class
<1>4. Inside(named, S, class)
  <2> DEFINE enums == IF s.sort = "enum" THEN t.enums \cup {class} ELSE t.enums
  <2>1. Inside([t EXCEPT !.classes = OrInsert(@, class, Site(doc, s.at)),
                         !.short_names = OrInsert(@, <<doc, s.name>>, class),
                         !.enums = enums], S, class)
    BY <1>2, <1>3, ClassEntered
  <2>2. QED BY <2>1
<1> HIDE DEF named
<1>5. Inside(extended, S, class) BY <1>4, PushedAll DEF IsClass
<1> HIDE DEF extended
<1>6. Inside(linked, S, class) BY <1>5, PushedAll DEF IsClass
<1> HIDE DEF linked
<1>7. PICK r : /\ r[0] = linked /\ r[N] = all
               /\ \A k \in 1..N : r[k] = DeclareMember(r[k - 1], class, doc, namespace, s.members[k])
  BY MembersAlong DEF IsClass
<1>8. N \in Nat /\ DOMAIN s.members = 1..N BY DEF IsClass, Listed
<1> HIDE DEF N, all
<1> DEFINE good == {k \in 0..N : Inside(r[k], S, class)}
<1>9. 0 \in good BY <1>6, <1>7, <1>8
<1>10. ASSUME NEW k \in 1..N, k - 1 \in good PROVE k \in good
  <2>1. Inside(r[k - 1], S, class) /\ k \in 0..N BY <1>10
  <2>2. IsMember(s.members[k]) /\ SitesOfMember(doc, s.members[k]) \subseteq S
    BY <1>2, <1>8 DEF IsClass
  <2>3. Inside(DeclareMember(r[k - 1], class, doc, namespace, s.members[k]), S, class)
    BY <2>1, <2>2, MemberDeclared
  <2>4. QED BY <1>7, <2>1, <2>3
<1> HIDE DEF good
<1>11. N \in good BY <1>8, <1>9, <1>10, ToTheEnd
<1>12. Inside(all, S, class) BY <1>7, <1>11 DEF good
<1>13. QED BY <1>1, <1>12 DEF Inside

(* A column of places outside classes, or one that holds no place.         *)
LEMMA NameEntered ==
  ASSUME NEW t, NEW S, Read(t, S), NEW column \in {"functions", "constants", "uses", "docs"}, NEW x,
         column \in {"functions", "constants"} => \A key \in DOMAIN x : x[key] \in S
  PROVE  Read([t EXCEPT ![column] = x], S)
<1> DEFINE u == [t EXCEPT ![column] = x]
<1>1. /\ DOMAIN u = Columns /\ u[column] = x
      /\ \A other \in Columns \ {column} : u[other] = t[other]
  BY DEF Read, Columns
<1>2. /\ u.pending = t.pending /\ u.classes = t.classes /\ u.members = t.members
      /\ u.short_names = t.short_names /\ u.parents = t.parents
      /\ u.foreign_parents = t.foreign_parents /\ u.types = t.types /\ u.psr4 = t.psr4
      /\ u.functions = IF column = "functions" THEN x ELSE t.functions
      /\ u.constants = IF column = "constants" THEN x ELSE t.constants
  BY <1>1 DEF Columns
<1> HIDE DEF u
<1>3. Entered(u, S) BY <1>2 DEF Read, Entered, Autoloads
<1>4. Read(u, S) BY <1>1, <1>2, <1>3 DEF Read, Autoloads
<1>5. QED BY <1>4 DEF u

Good(d, S) == DOMAIN d = {"t", "namespace"} /\ Read(d.t, S)

LEMMA StatementDeclared ==
  ASSUME NoneIsApart, NEW d, NEW S, Good(d, S), NEW doc, NEW s, s.k = "class" => IsClass(s),
         SitesOfStatement(doc, s) \subseteq S
  PROVE  Good(DeclareStatement(d, doc, s), S)
<1> DEFINE e == DeclareStatement(d, doc, s)
<1>1. ASSUME NEW u, Read(u, S) PROVE Good([d EXCEPT !.t = u], S) BY <1>1 DEF Good
<1>2. CASE s.k = "namespace"
  <2>1. e = [d EXCEPT !.namespace = s.name] BY <1>2 DEF DeclareStatement
  <2>2. QED BY <2>1 DEF Good
<1>3. CASE s.k = "use"
  <2> DEFINE uses == Put(d.t.uses, <<doc, s.kind, s.alias>>, s.target)
             u == [d.t EXCEPT !.uses = uses]
  <2>1. e = [d EXCEPT !.t = u] BY <1>3 DEF DeclareStatement
  <2>2. Read(u, S)
    <3> HIDE DEF uses
    <3>1. QED BY NameEntered DEF Good
  <2> HIDE DEF u, e
  <2>3. QED BY <1>1, <2>1, <2>2 DEF e
<1>4. CASE s.k = "class"
  <2> DEFINE u == DeclareClass(d.t, doc, d.namespace, s)
  <2>1. e = [d EXCEPT !.t = u] BY <1>4 DEF DeclareStatement
  <2>2. Read(u, S) BY <1>4, ClassDeclared DEF Good
  <2> HIDE DEF u, e
  <2>3. QED BY <1>1, <2>1, <2>2 DEF e
<1>5. CASE s.k = "function"
  <2> DEFINE table == OrInsert(d.t.functions, Qualify(d.namespace, <<s.name>>), Site(doc, s.at))
             u == [d.t EXCEPT !.functions = table]
  <2>1. e = [d EXCEPT !.t = u] BY <1>5 DEF DeclareStatement
  <2>2. \A key \in DOMAIN table : table[key] \in S
    <3>1. Site(doc, s.at) \in S BY <1>5 DEF SitesOfStatement
    <3>2. QED BY <3>1 DEF Good, Read, Entered, OrInsert
  <2>3. Read(u, S)
    <3> HIDE DEF table
    <3>1. QED BY <2>2, NameEntered DEF Good
  <2> HIDE DEF u, e
  <2>4. QED BY <1>1, <2>1, <2>3 DEF e
<1>6. CASE s.k = "const"
  <2> DEFINE table == OrInsert(d.t.constants, Qualify(d.namespace, <<s.name>>), Site(doc, s.at))
             u == [d.t EXCEPT !.constants = table]
  <2>1. e = [d EXCEPT !.t = u] BY <1>6 DEF DeclareStatement
  <2>2. \A key \in DOMAIN table : table[key] \in S
    <3>1. Site(doc, s.at) \in S BY <1>6 DEF SitesOfStatement
    <3>2. QED BY <3>1 DEF Good, Read, Entered, OrInsert
  <2>3. Read(u, S)
    <3> HIDE DEF table
    <3>1. QED BY <2>2, NameEntered DEF Good
  <2> HIDE DEF u, e
  <2>4. QED BY <1>1, <2>1, <2>3 DEF e
<1>7. CASE s.k \notin {"namespace", "use", "class", "function", "const"}
  <2>1. e = d BY <1>7 DEF DeclareStatement
  <2>2. QED BY <2>1
<1>8. QED BY <1>2, <1>3, <1>4, <1>5, <1>6, <1>7

(* Declaring a file: the tables hold what they held and the places the     *)
(* file declares, every class they speak of has an entry, and nothing is   *)
(* linked before every file has been read.                                 *)
THEOREM FilesAreRead ==
  ASSUME NoneIsApart, NEW t, NEW S, Read(t, S), NEW file, IsFile(file)
  PROVE  Read(DeclareFile(t, file), S \cup SitesOf(file))
<1> DEFINE more == S \cup SitesOf(file)
           u == [t EXCEPT !.docs = @ \cup {file.doc}]
           start == [t |-> u, namespace |-> <<>>]
           N == Len(file.body)
           all == AllStatements(file.doc, start, file.body)
<1>1. DeclareFile(t, file) = all.t BY DEF DeclareFile, AllStatements
<1>2. Read(t, more)
  <2>1. S \subseteq more OBVIOUS
  <2> HIDE DEF more
  <2>2. QED BY <2>1 DEF Read, Entered, Autoloads
<1>3. \A i \in DOMAIN file.body : SitesOfStatement(file.doc, file.body[i]) \subseteq more BY DEF SitesOf
<1> HIDE DEF more
<1>4. Read(u, more)
  <2> DEFINE docs == t.docs \cup {file.doc}
  <2>1. u = [t EXCEPT !.docs = docs] OBVIOUS
  <2> HIDE DEF docs, u
  <2>2. QED BY <1>2, <2>1, NameEntered
<1> HIDE DEF u
<1>5. Good(start, more) BY <1>4 DEF Good
<1> HIDE DEF start
<1>6. PICK r : /\ r[0] = start /\ r[N] = all
               /\ \A k \in 1..N : r[k] = DeclareStatement(r[k - 1], file.doc, file.body[k])
  BY StatementsAlong DEF IsFile
<1>7. N \in Nat /\ DOMAIN file.body = 1..N BY DEF IsFile, Listed
<1> HIDE DEF N, all
<1> DEFINE good == {k \in 0..N : Good(r[k], more)}
<1>8. 0 \in good BY <1>5, <1>6, <1>7
<1>9. ASSUME NEW k \in 1..N, k - 1 \in good PROVE k \in good
  <2>1. Good(r[k - 1], more) /\ k \in 0..N BY <1>9
  <2>2. /\ file.body[k].k = "class" => IsClass(file.body[k])
        /\ SitesOfStatement(file.doc, file.body[k]) \subseteq more
    BY <1>3, <1>7 DEF IsFile
  <2>3. Good(DeclareStatement(r[k - 1], file.doc, file.body[k]), more)
    BY <2>1, <2>2, StatementDeclared
  <2>4. QED BY <1>6, <2>1, <2>3
<1> HIDE DEF good
<1>10. N \in good BY <1>7, <1>8, <1>9, ToTheEnd
<1>11. Read(all.t, more) BY <1>6, <1>10 DEF good, Good
<1>12. QED BY <1>1, <1>11 DEF more

-------------------------------------------------------------------------------
(* What the lookups answer. *)

(* Tables that hold places in S, in which every class that is named as     *)
(* declared has an entry.                                                  *)
Known(t, ref) == ref.declared => ref.class \in DOMAIN t.classes
Answering(t, S) == Entered(t, S) /\ Autoloads(t) /\ \A key \in DOMAIN t.types : Known(t, t.types[key])

IsOwn(answer, S) == answer.kind = "internal" => answer.is \in S

LEMMA FirstSomeAmong ==
  ASSUME NEW n \in Nat, NEW s, DOMAIN s = 1..n
  PROVE  FirstSome(s) = Nothing \/ \E i \in 1..n : FirstSome(s) = s[i]
<1>1. CASE \A i \in 1..n : s[i] = Nothing BY <1>1 DEF FirstSome
<1>2. CASE \E i \in 1..n : s[i] # Nothing
  <2> DEFINE some == {i \in 1..n : s[i] # Nothing}
  <2>1. PICK i \in some : \A j \in some : i <= j
    <3>1. some \in SUBSET Nat /\ some # {} BY <1>2
    <3> HIDE DEF some
    <3>2. QED BY <3>1, LeastNat
  <2>2. \A j \in 1..(i - 1) : s[j] = Nothing
    <3>1. SUFFICES ASSUME NEW j \in 1..(i - 1), s[j] # Nothing PROVE FALSE OBVIOUS
    <3>2. j \in some /\ ~ (i <= j) BY <3>1
    <3> HIDE DEF some
    <3>3. QED BY <2>1, <3>2
  <2>3. FirstSome(s) = s[i] BY <2>1, <2>2, FirstSomeIs
  <2>4. QED BY <2>1, <2>3
<1>3. QED BY <1>1, <1>2

LEMMA CandidatesListed ==
  ASSUME NEW t, NEW name, NEW doc, NEW namespace, NEW kind
  PROVE  \E n \in Nat : \E X : /\ Candidates(t, name, doc, namespace, kind).names \in Seq(X)
                              /\ Len(Candidates(t, name, doc, namespace, kind).names) = n
<1> DEFINE names == Candidates(t, name, doc, namespace, kind).names
           spaced == Qualify(namespace, name.path)
<1>1. (\E x : names = <<x>>) \/ names = <<spaced>> \o <<name.path>> \/ names = <<>> \o <<name.path>>
  BY DEF Candidates
<1> HIDE DEF names, spaced
<1>2. CASE \E x : names = <<x>>
  <2>1. PICK x : names = <<x>> BY <1>2
  <2>2. names \in Seq({x}) BY <2>1
  <2>3. QED BY <2>2 DEF names
<1>3. CASE names = <<spaced>> \o <<name.path>>
  <2>1. names \in Seq({spaced, name.path}) BY <1>3
  <2>2. QED BY <2>1 DEF names
<1>4. CASE names = <<>> \o <<name.path>>
  <2>1. names \in Seq({name.path}) BY <1>4
  <2>2. QED BY <2>1 DEF names
<1>5. QED BY <1>1, <1>2, <1>3, <1>4

LEMMA LoadedIsKnown ==
  ASSUME NEW t, NEW S, Answering(t, S), NEW fqn
  PROVE  Psr4Lookup(t, fqn) = Nothing \/ Psr4Lookup(t, fqn) \in DOMAIN t.classes
<1> DEFINE hits == Psr4Hits(t, fqn)
           longest == Longest(hits)
<1>1. CASE hits = {} BY <1>1 DEF Psr4Lookup
<1>2. CASE hits # {}
  <2>1. hits \subseteq t.psr4 /\ \A e \in hits : FileKey(fqn, e) \in DOMAIN t.short_names BY DEF Psr4Hits
  <2>2. IsFiniteSet(hits) /\ \A e \in hits : Len(e.prefix) \in Nat
    BY <2>1, FS_Subset DEF Answering, Autoloads
  <2> HIDE DEF hits
  <2> DEFINE lengths == {Len(e.prefix) : e \in hits}
             g == [e \in hits |-> Len(e.prefix)]
  <2>3. lengths = {g[e] : e \in hits} /\ DOMAIN g = hits OBVIOUS
  <2>4. lengths \in SUBSET Nat /\ lengths # {} BY <1>2, <2>2
  <2>5. \E e \in hits : \A f \in hits : Len(f.prefix) <= Len(e.prefix)
    <3>1. IsFiniteSet(lengths)
      <4> HIDE DEF lengths, g
      <4>1. QED BY <2>2, <2>3, FiniteImage
    <3>2. Max(lengths) \in lengths /\ \A y \in lengths : y <= Max(lengths)
      <4> HIDE DEF lengths
      <4>1. QED BY <2>4, <3>1, MaxOfFinite
    <3>3. QED BY <3>2
  <2>6. longest \in hits BY <2>5 DEF Longest
  <2>7. Psr4Lookup(t, fqn) = t.short_names[FileKey(fqn, longest)] BY <1>2 DEF Psr4Lookup, hits
  <2> HIDE DEF longest
  <2>8. QED BY <2>1, <2>6, <2>7 DEF Answering, Entered
<1>3. QED BY <1>1, <1>2

(* "declare_class made an entry for every key there is": a name means a    *)
(* class that has one, or none of the project.                             *)
LEMMA NamedIsKnown ==
  ASSUME NEW t, NEW S, Answering(t, S), NEW name, NEW doc, NEW namespace
  PROVE  Known(t, ClassOf(t, name, doc, namespace))
<1> DEFINE candidates == Candidates(t, name, doc, namespace, "class")
           names == candidates.names
           classes == [i \in DOMAIN names |-> KeyIn(t.classes, names[i])]
           loaded == [i \in DOMAIN names |-> Psr4Lookup(t, names[i])]
           class == FirstSome(classes \o loaded)
           builtin == name.form # "relative" /\ name.path \in Builtins
           fqn == IF builtin THEN name.path ELSE Reportable(candidates, "class")
           ref == ClassOf(t, name, doc, namespace)
<1>1. ref = IF class # Nothing THEN Declared(class) ELSE Foreign(fqn) BY DEF ClassOf, ClassAmong
<1>2. PICK n \in Nat : \E X : names \in Seq(X) /\ Len(names) = n BY CandidatesListed
<1>3. DOMAIN names = 1..n BY <1>2
<1> HIDE DEF names, fqn, ref
<1>4. class = Nothing \/ class \in DOMAIN t.classes
  <2> DEFINE X == {Nothing} \cup DOMAIN t.classes
  <2>1. /\ classes \in Seq(X) /\ Len(classes) = n
        /\ loaded \in Seq(X) /\ Len(loaded) = n
    <3>1. \A i \in 1..n : KeyIn(t.classes, names[i]) \in X BY DEF KeyIn
    <3>2. \A i \in 1..n : Psr4Lookup(t, names[i]) \in X BY LoadedIsKnown
    <3> HIDE DEF X
    <3>3. classes \in [1..n -> X] /\ loaded \in [1..n -> X] BY <1>3, <3>1, <3>2
    <3> HIDE DEF classes, loaded
    <3>4. QED BY <3>3
  <2> HIDE DEF X, classes, loaded
  <2> DEFINE both == classes \o loaded
  <2>2. both \in Seq(X) /\ DOMAIN both = 1..(n + n) /\ n + n \in Nat BY <2>1
  <2>3. \A i \in 1..(n + n) : both[i] \in X BY <2>2
  <2> HIDE DEF both
  <2>4. FirstSome(both) = Nothing \/ \E i \in 1..(n + n) : FirstSome(both) = both[i]
    BY <2>2, FirstSomeAmong
  <2>5. FirstSome(both) \in X BY <2>3, <2>4 DEF X
  <2>6. QED BY <2>5 DEF both, X
<1> HIDE DEF class
<1>5. Foreign(fqn).declared = FALSE /\ Declared(class).class = class BY DEF Foreign, Declared
<1>6. Known(t, ref) BY <1>1, <1>4, <1>5 DEF Known
<1>7. QED BY <1>6 DEF ref

LEMMA ClassAnswersOwn ==
  ASSUME NEW t, NEW S, Answering(t, S), NEW ref, Known(t, ref)
  PROVE  IsOwn(ClassAnswer(t, ref), S)
<1>1. CASE ref.declared
  <2>1. ClassAnswer(t, ref) = Internal(t.classes[ref.class]) BY <1>1 DEF ClassAnswer
  <2>2. t.classes[ref.class] \in S BY <1>1 DEF Known, Answering, Entered
  <2>3. QED BY <2>1, <2>2 DEF Internal, IsOwn
<1>2. CASE ~ ref.declared
  <2>1. ClassAnswer(t, ref) = External(ref.class) BY <1>2 DEF ClassAnswer
  <2>2. QED BY <2>1 DEF External, IsOwn
<1>3. QED BY <1>1, <1>2

LEMMA SitesAreOwn ==
  ASSUME NEW t, NEW S, Answering(t, S), NEW name, NEW kind
  PROVE  SiteOf(t, name, kind) = Nothing \/ SiteOf(t, name, kind) \in S
<1> DEFINE all == TablesOf(t, kind)
           sites == [i \in DOMAIN all |-> Get(all[i], name, Nothing)]
<1>1. \E n \in Nat : /\ DOMAIN all = 1..n
                     /\ \A i \in 1..n : all[i] \in {t.classes, t.constants, t.functions}
  <2>1. \A a : a = <<t.classes>> => DOMAIN a = 1..1 /\ a[1] = t.classes OBVIOUS
  <2>2. \A a : a = <<t.functions>> => DOMAIN a = 1..1 /\ a[1] = t.functions OBVIOUS
  <2>3. \A a : a = <<t.classes, t.constants, t.functions>> =>
          /\ DOMAIN a = 1..3 /\ a[1] = t.classes /\ a[2] = t.constants /\ a[3] = t.functions
    OBVIOUS
  <2>4. all \in {<<t.classes>>, <<t.functions>>, <<t.classes, t.constants, t.functions>>}
    BY DEF TablesOf
  <2> HIDE DEF all
  <2>5. CASE all = <<t.classes>> BY <2>1, <2>5
  <2>6. CASE all = <<t.functions>> BY <2>2, <2>6
  <2>7. CASE all = <<t.classes, t.constants, t.functions>>
    <3>1. \A i \in 1..3 : i = 1 \/ i = 2 \/ i = 3 OBVIOUS
    <3>2. \A i \in 1..3 : all[i] \in {t.classes, t.constants, t.functions} BY <2>3, <2>7, <3>1
    <3>3. QED BY <2>3, <2>7, <3>2
  <2>8. QED BY <2>4, <2>5, <2>6, <2>7
<1>2. PICK n \in Nat : /\ DOMAIN all = 1..n
                       /\ \A i \in 1..n : all[i] \in {t.classes, t.constants, t.functions}
  BY <1>1
<1> HIDE DEF all
<1>3. \A i \in 1..n : sites[i] = Nothing \/ sites[i] \in S
  BY <1>2 DEF Get, Answering, Entered
<1>4. DOMAIN sites = 1..n BY <1>2
<1>5. SiteOf(t, name, kind) = FirstSome(sites) BY DEF SiteOf, all
<1> HIDE DEF sites
<1>6. QED BY <1>3, <1>4, <1>5, FirstSomeAmong

LEMMA NamesAnswerOwn ==
  ASSUME NEW t, NEW S, Answering(t, S), NEW name, NEW doc, NEW namespace, NEW kind
  PROVE  IsOwn(NameAnswer(t, name, doc, namespace, kind), S)
<1> DEFINE candidates == Candidates(t, name, doc, namespace, kind)
           names == candidates.names
           class == ClassOf(t, name, doc, namespace)
           sites == [i \in DOMAIN names |-> SiteOf(t, names[i], kind)]
           site == FirstSome(sites)
           answer == NameAnswer(t, name, doc, namespace, kind)
<1>1. answer = CASE site # Nothing -> Internal(site)
                 [] site = Nothing /\ kind # "function" /\ class.declared -> ClassAnswer(t, class)
                 [] OTHER -> External(Reportable(candidates, kind))
  BY DEF NameAnswer, AnswerAmong
<1>2. PICK n \in Nat : \E X : names \in Seq(X) /\ Len(names) = n BY CandidatesListed
<1>3. DOMAIN names = 1..n BY <1>2
<1>4. Known(t, class) BY NamedIsKnown
<1> HIDE DEF candidates, names, class, answer
<1>5. site = Nothing \/ site \in S
  <2>1. \A i \in 1..n : sites[i] = Nothing \/ sites[i] \in S BY <1>3, SitesAreOwn
  <2>2. DOMAIN sites = 1..n BY <1>3
  <2> HIDE DEF sites
  <2>3. QED BY <2>1, <2>2, FirstSomeAmong
<1> HIDE DEF site
<1>6. CASE site # Nothing BY <1>1, <1>5, <1>6 DEF Internal, IsOwn, answer
<1>7. CASE site = Nothing /\ kind # "function" /\ class.declared
  <2>1. answer = ClassAnswer(t, class) BY <1>1, <1>7
  <2>2. QED BY <1>4, <2>1, ClassAnswersOwn DEF answer
<1>8. CASE site = Nothing /\ ~ (kind # "function" /\ class.declared)
  <2>1. answer = External(Reportable(candidates, kind)) BY <1>1, <1>8
  <2>2. QED BY <2>1 DEF External, IsOwn, answer
<1>9. QED BY <1>6, <1>7, <1>8

LEMMA ImportsAnswerOwn ==
  ASSUME NEW t, NEW S, Answering(t, S), NEW doc, NEW s, s.kind \in {"function", "const", "class"}
  PROVE  IsOwn(UseAnswer(t, doc, s), S)
<1> DEFINE answer == UseAnswer(t, doc, s)
<1>1. CASE s.kind = "function"
  <2>1. answer = IF s.target \in DOMAIN t.functions THEN Internal(t.functions[s.target]) ELSE External(s.target)
    BY <1>1 DEF UseAnswer
  <2>2. QED BY <2>1 DEF Internal, External, IsOwn, Answering, Entered
<1>2. CASE s.kind = "const"
  <2>1. answer = IF s.target \in DOMAIN t.constants THEN Internal(t.constants[s.target]) ELSE External(s.target)
    BY <1>2 DEF UseAnswer
  <2>2. QED BY <2>1 DEF Internal, External, IsOwn, Answering, Entered
<1>3. CASE s.kind = "class"
  <2> DEFINE ref == ClassOf(t, [form |-> "absolute", path |-> s.target], doc, <<>>)
  <2>1. answer = IF ref.declared THEN ClassAnswer(t, ref) ELSE External(s.target)
    BY <1>3 DEF UseAnswer
  <2>2. Known(t, ref) BY NamedIsKnown
  <2> HIDE DEF ref
  <2>3. IsOwn(ClassAnswer(t, ref), S) BY <2>2, ClassAnswersOwn
  <2>4. IsOwn(External(s.target), S) BY DEF External, IsOwn
  <2>5. QED BY <2>1, <2>3, <2>4
<1>4. QED BY <1>1, <1>2, <1>3

LEMMA MembersAnswerOwn ==
  ASSUME NEW t, NEW S, Answering(t, S), NEW ref, NEW slot, NEW member
  PROVE  IsOwn(MemberAnswer(t, ref, slot, member), S)
<1> DEFINE table == IF slot = "static" THEN "method" ELSE slot
           known == InHierarchy(t, ref.class, t.foreign_parents) = Nothing
           names == <<member>> \o (IF known THEN MagicOf(slot) ELSE <<>>)
           found == [i \in DOMAIN names |-> FindMember(t, ref.class, table, names[i])]
           sites == IF ref.declared THEN found ELSE <<>>
           site == FirstSome(sites)
<1>1. MemberAnswer(t, ref, slot, member) =
        IF site = Nothing THEN External(Append(ref.class, member)) ELSE Internal(site)
  BY DEF MemberAnswer, MemberSites
<1>2. \E n \in Nat : DOMAIN names = 1..n
  <2> DEFINE X == {member, "__call", "__callstatic"}
             magic == MagicOf(slot)
             more == IF known THEN magic ELSE <<>>
  <2>1. <<>> \in Seq(X) /\ <<member>> \in Seq(X) /\ <<"__callstatic", "__call">> \in Seq(X)
        /\ <<"__call">> \in Seq(X)
    OBVIOUS
  <2>2. magic \in {<<"__callstatic", "__call">>, <<"__call">>, <<>>} BY DEF MagicOf
  <2> HIDE DEF magic, X, known
  <2>3. more \in Seq(X) BY <2>1, <2>2
  <2>4. names = <<member>> \o more BY DEF magic
  <2> HIDE DEF more, names
  <2>5. names \in Seq(X) BY <2>1, <2>3, <2>4
  <2>6. QED BY <2>5
<1>3. PICK n \in Nat : DOMAIN names = 1..n BY <1>2
<1> HIDE DEF names, table
<1>4. \A i \in 1..n : found[i] = Nothing \/ found[i] \in S
  <2>1. \A name : FindMember(t, ref.class, table, name) = Nothing
                  \/ FindMember(t, ref.class, table, name) \in S
    BY DEF FindMember, Get, Answering, Entered
  <2>2. QED BY <1>3, <2>1
<1>5. DOMAIN found = 1..n BY <1>3
<1> HIDE DEF found
<1>6. site = Nothing \/ site \in S
  <2>1. CASE ref.declared BY <1>4, <1>5, <2>1, FirstSomeAmong
  <2>2. CASE ~ ref.declared
    <3>1. site = Nothing BY <2>2 DEF FirstSome
    <3>2. QED BY <3>1
  <2>3. QED BY <2>1, <2>2
<1> HIDE DEF site
<1>7. CASE site = Nothing BY <1>1, <1>7 DEF External, IsOwn
<1>8. CASE site # Nothing BY <1>1, <1>6, <1>8 DEF Internal, IsOwn
<1>9. QED BY <1>7, <1>8

LEMMA TypesAreKnown ==
  ASSUME NEW t, NEW S, Answering(t, S), NEW class
  PROVE  /\ \A role, what : LET ref == TypeOf(t, class, role, what) IN ref = Nothing \/ Known(t, ref)
         /\ class \in DOMAIN t.classes =>
              \A method : LET ref == ReturnType(t, class, method) IN ref = Nothing \/ Known(t, ref)
<1>1. ASSUME NEW key PROVE Get(t.types, key, Nothing) = Nothing \/ Known(t, Get(t.types, key, Nothing))
  BY DEF Get, Answering
<1>2. \A role, what : LET ref == TypeOf(t, class, role, what) IN ref = Nothing \/ Known(t, ref)
  BY <1>1 DEF TypeOf
<1>3. ASSUME class \in DOMAIN t.classes, NEW method
      PROVE  LET ref == ReturnType(t, class, method) IN ref = Nothing \/ Known(t, ref)
  <2> DEFINE ref == ReturnType(t, class, method)
  <2>1. ref = Declared(class) \/ \E key : ref = Get(t.types, key, Nothing) BY DEF ReturnType
  <2>2. Known(t, Declared(class)) BY <1>3 DEF Known, Declared
  <2> HIDE DEF ref
  <2>3. ref = Nothing \/ Known(t, ref) BY <1>1, <2>1, <2>2
  <2>4. QED BY <2>3 DEF ref
<1>4. QED BY <1>2, <1>3

-------------------------------------------------------------------------------
(* Linking adds types and parents to what was read, and takes nothing.     *)
Extends(t, u) ==
  /\ DOMAIN u = Columns /\ SameNames(t, u)
  /\ u.functions = t.functions /\ u.constants = t.constants
  /\ \A key \in DOMAIN u.types : Known(t, u.types[key])

LEMMA ExtendedAnswers ==
  ASSUME NEW t, NEW S, Read(t, S), NEW u, Extends(t, u)
  PROVE  Answering(u, S)
<1>1. /\ u.classes = t.classes /\ u.short_names = t.short_names /\ u.psr4 = t.psr4
      /\ u.members = t.members /\ u.functions = t.functions /\ u.constants = t.constants
  BY DEF Extends, SameNames
<1>2. Entered(u, S) /\ Autoloads(u) BY <1>1 DEF Read, Entered, Autoloads
<1>3. \A key \in DOMAIN u.types : Known(u, u.types[key]) BY <1>1 DEF Extends, Known
<1>4. QED BY <1>2, <1>3 DEF Answering

LEMMA LinkOneExtends ==
  ASSUME NEW t, NEW S, Read(t, S), NEW u, Extends(t, u), NEW p, p.class \in DOMAIN t.classes
  PROVE  Extends(t, LinkOne(u, p))
<1> DEFINE v == LinkOne(u, p)
           typing == p.role \in {"property", "method"}
           keyword == IF typing THEN Keyword(p.name) ELSE Nothing
           ref == IF keyword = "enclosing" THEN Declared(p.class)
                  ELSE ClassOf(u, p.name, p.doc, p.namespace)
           key == <<p.role, p.class, p.what>>
           types == Put(u.types, key, ref)
           line == <<p.role, p.class>>
           parents == Put(u.parents, line, Append(Get(u.parents, line, <<>>), ref.class))
           foreign == u.foreign_parents \cup {p.class}
<1>1. Known(t, ref)
  <2>1. Answering(u, S) BY ExtendedAnswers
  <2>2. Known(u, ClassOf(u, p.name, p.doc, p.namespace)) BY <2>1, NamedIsKnown
  <2>3. u.classes = t.classes BY DEF Extends, SameNames
  <2>4. Known(t, Declared(p.class)) BY DEF Known, Declared
  <2>5. QED BY <2>2, <2>3, <2>4 DEF Known
<1>2. v \in {u, [u EXCEPT !.types = types], [u EXCEPT !.parents = parents],
             [u EXCEPT !.foreign_parents = foreign]}
  <2>1. v = CASE keyword = "parent" -> u
              [] keyword # "parent" /\ typing -> [u EXCEPT !.types = types]
              [] ~ typing /\ ref.declared -> [u EXCEPT !.parents = parents]
              [] ~ typing /\ ~ ref.declared /\ p.role \in MakesForeign ->
                   [u EXCEPT !.foreign_parents = foreign]
              [] OTHER -> u
    BY DEF LinkOne
  <2> HIDE DEF v, typing, keyword, ref, types, parents, foreign
  <2>2. QED BY <2>1
<1>3. \A k \in DOMAIN types : Known(t, types[k])
  <2>1. DOMAIN types = DOMAIN u.types \cup {key} /\ \A k \in DOMAIN types :
          types[k] = IF k = key THEN ref ELSE u.types[k]
    BY DEF Put
  <2> HIDE DEF types, key, ref
  <2>2. QED BY <1>1, <2>1 DEF Extends
<1> HIDE DEF v, types, parents, foreign, ref
<1>4. CASE v = u BY <1>4 DEF v
<1>5. CASE v = [u EXCEPT !.types = types]
  <2>1. /\ DOMAIN v = DOMAIN u /\ v.types = types
        /\ \A column \in Columns \ {"types"} : v[column] = u[column]
    BY <1>5 DEF Extends, Columns
  <2>2. /\ v.uses = u.uses /\ v.classes = u.classes /\ v.short_names = u.short_names
        /\ v.psr4 = u.psr4 /\ v.members = u.members /\ v.functions = u.functions
        /\ v.constants = u.constants
    BY <2>1 DEF Columns
  <2>3. Extends(t, v) BY <1>3, <2>1, <2>2 DEF Extends, SameNames
  <2>4. QED BY <2>3 DEF v
<1>6. CASE v = [u EXCEPT !.parents = parents]
  <2>1. /\ DOMAIN v = DOMAIN u
        /\ \A column \in Columns \ {"parents"} : v[column] = u[column]
    BY <1>6 DEF Extends, Columns
  <2>2. /\ v.uses = u.uses /\ v.classes = u.classes /\ v.short_names = u.short_names
        /\ v.psr4 = u.psr4 /\ v.members = u.members /\ v.functions = u.functions
        /\ v.constants = u.constants /\ v.types = u.types
    BY <2>1 DEF Columns
  <2>3. Extends(t, v) BY <2>1, <2>2 DEF Extends, SameNames
  <2>4. QED BY <2>3 DEF v
<1>7. CASE v = [u EXCEPT !.foreign_parents = foreign]
  <2>1. /\ DOMAIN v = DOMAIN u
        /\ \A column \in Columns \ {"foreign_parents"} : v[column] = u[column]
    BY <1>7 DEF Extends, Columns
  <2>2. /\ v.uses = u.uses /\ v.classes = u.classes /\ v.short_names = u.short_names
        /\ v.psr4 = u.psr4 /\ v.members = u.members /\ v.functions = u.functions
        /\ v.constants = u.constants /\ v.types = u.types
    BY <2>1 DEF Columns
  <2>3. Extends(t, v) BY <2>1, <2>2 DEF Extends, SameNames
  <2>4. QED BY <2>3 DEF v
<1>8. QED BY <1>2, <1>4, <1>5, <1>6, <1>7

LEMMA LinkingExtends ==
  ASSUME NEW t, NEW S, Read(t, S)
  PROVE  Extends(t, Link(t))
<1> DEFINE N == Len(t.pending)
<1>1. PICK P : t.pending \in Seq(P) BY DEF Read, Listed
<1>2. N \in Nat /\ DOMAIN t.pending = 1..N BY <1>1
<1>3. PICK r : /\ r[0] = [t EXCEPT !.pending = <<>>] /\ r[N] = Link(t)
               /\ \A k \in 1..N : r[k] = LinkOne(r[k - 1], t.pending[k])
  BY <1>1, LinksAlong
<1> HIDE DEF N
<1>4. Extends(t, r[0])
  <2>1. /\ DOMAIN r[0] = Columns
        /\ \A column \in Columns \ {"pending"} : r[0][column] = t[column]
    BY <1>3 DEF Read, Columns
  <2>2. /\ r[0].uses = t.uses /\ r[0].classes = t.classes /\ r[0].short_names = t.short_names
        /\ r[0].psr4 = t.psr4 /\ r[0].members = t.members /\ r[0].functions = t.functions
        /\ r[0].constants = t.constants /\ r[0].types = <<>>
    BY <2>1 DEF Columns, Read
  <2>3. DOMAIN <<>> = {} OBVIOUS
  <2>4. QED BY <2>1, <2>2, <2>3 DEF Extends, SameNames, Read
<1> DEFINE good == {k \in 0..N : Extends(t, r[k])}
<1>5. 0 \in good BY <1>2, <1>4
<1>6. ASSUME NEW k \in 1..N, k - 1 \in good PROVE k \in good
  <2>1. Extends(t, r[k - 1]) /\ k \in 0..N BY <1>6
  <2>2. t.pending[k].class \in DOMAIN t.classes BY <1>2 DEF Read
  <2>3. Extends(t, LinkOne(r[k - 1], t.pending[k])) BY <2>1, <2>2, LinkOneExtends
  <2>4. QED BY <1>3, <2>1, <2>3
<1> HIDE DEF good
<1>7. N \in good BY <1>2, <1>5, <1>6, ToTheEnd
<1>8. QED BY <1>3, <1>7 DEF good

(* Once the files are linked, every lookup of a resolver that was prepared *)
(* again answers with a place one of the files read last declares, and     *)
(* with nothing older: names, imports, members, and the classes they go    *)
(* by.  A class that is said to be declared always has its entry.          *)
THEOREM AnswersAreDeclared ==
  ASSUME NEW t, NEW S, Read(t, S)
  PROVE  LET u == Link(t) IN
         /\ \A name, doc, namespace, kind : IsOwn(NameAnswer(u, name, doc, namespace, kind), S)
         /\ \A doc, s : s.kind \in {"function", "const", "class"} => IsOwn(UseAnswer(u, doc, s), S)
         /\ \A ref, slot, member : IsOwn(MemberAnswer(u, ref, slot, member), S)
         /\ \A ref : Known(u, ref) => IsOwn(ClassAnswer(u, ref), S)
         /\ \A name, doc, namespace : Known(u, ClassOf(u, name, doc, namespace))
         /\ \A class, role, what :
              LET ref == TypeOf(u, class, role, what) IN ref = Nothing \/ Known(u, ref)
         /\ \A class \in DOMAIN u.classes : \A method :
              LET ref == ReturnType(u, class, method) IN ref = Nothing \/ Known(u, ref)
<1> DEFINE u == Link(t)
<1>1. Answering(u, S) BY LinkingExtends, ExtendedAnswers
<1> HIDE DEF u
<1>2. /\ \A name, doc, namespace, kind : IsOwn(NameAnswer(u, name, doc, namespace, kind), S)
      /\ \A doc, s : s.kind \in {"function", "const", "class"} => IsOwn(UseAnswer(u, doc, s), S)
      /\ \A ref, slot, member : IsOwn(MemberAnswer(u, ref, slot, member), S)
      /\ \A ref : Known(u, ref) => IsOwn(ClassAnswer(u, ref), S)
      /\ \A name, doc, namespace : Known(u, ClassOf(u, name, doc, namespace))
  BY <1>1, NamesAnswerOwn, ImportsAnswerOwn, MembersAnswerOwn, ClassAnswersOwn, NamedIsKnown
<1>3. /\ \A class, role, what :
           LET ref == TypeOf(u, class, role, what) IN ref = Nothing \/ Known(u, ref)
      /\ \A class \in DOMAIN u.classes : \A method :
           LET ref == ReturnType(u, class, method) IN ref = Nothing \/ Known(u, ref)
  BY <1>1, TypesAreKnown
<1>4. QED BY <1>2, <1>3 DEF u

(* So what the theorems on walks and members ask of a table holds of every *)
(* table that files were read into and that was linked.                    *)
LEMMA LinkedCanBeSearched ==
  ASSUME NEW t, NEW S, Read(t, S), Nothing \notin S
  PROVE  WellFormed(Link(t)) /\ MembersNamed(Link(t))
<1> DEFINE u == Link(t)
<1>1. ReadOnly(t) /\ MembersNamed(t) BY ReadIsReadOnly
<1>2. WellFormed(u) /\ u.members = t.members BY <1>1, LinkedAsWritten
<1> HIDE DEF u
<1>3. MembersNamed(u) BY <1>1, <1>2 DEF MembersNamed
<1>4. QED BY <1>2, <1>3 DEF u
===============================================================================
