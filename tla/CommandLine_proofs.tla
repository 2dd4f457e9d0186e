--------------------------- MODULE CommandLine_proofs ---------------------------
(***************************************************************************)
(* What a script of the callix binary keeps to, for any files, processes,  *)
(* commands, languages and graphs: the analysis first, then the files.     *)
(***************************************************************************)
EXTENDS CommandLine, SequenceTheorems, Positions_proofs

(* What the analysis makes of the languages, as a function of its reports  *)
(* and of the graphs the adapters returned.                                *)
Reported(rs) == {r.language : r \in ToSet(rs)}
Contributing(rs, gs) ==
  {i \in DOMAIN gs : ~ \E r \in ToSet(rs) : r.language = gs[i].language /\ r.error # Unset}

(* A graph m holds the graphs gs[i], i in S, and has the worst status.     *)
Holds(m, S, gs) ==
  /\ m.status \in Statuses
  /\ \E i \in S : gs[i].graph.status = m.status
  /\ \A i \in S : Severity(gs[i].graph.status) <= Severity(m.status)
  /\ DOMAIN m.nodes = UNION {DOMAIN gs[i].graph.nodes : i \in S}
  /\ \A i \in S : \A id \in DOMAIN gs[i].graph.nodes : m.nodes[id] = gs[i].graph.nodes[id]

(* Every language that did not fail is in, with the status reported.       *)
Accounted(rs, gs) ==
  /\ \A r \in ToSet(rs) : r.error = Unset =>
       \E i \in Contributing(rs, gs) : gs[i].language = r.language /\ gs[i].graph.status = r.status
  /\ \A i \in Contributing(rs, gs) :
       \E r \in ToSet(rs) : r.error = Unset /\ r.status = gs[i].graph.status

-------------------------------------------------------------------------------
(* Sequences and sets. *)

LEMMA AppendSet ==
  ASSUME NEW s, s \in Seq(ToSet(s)), NEW e
  PROVE  /\ Append(s, e) \in Seq(ToSet(Append(s, e)))
         /\ ToSet(Append(s, e)) = ToSet(s) \cup {e}
         /\ DOMAIN Append(s, e) = DOMAIN s \cup {Len(s) + 1} /\ Len(s) + 1 \notin DOMAIN s
         /\ \A i \in DOMAIN s : Append(s, e)[i] = s[i]
         /\ Append(s, e)[Len(s) + 1] = e
<1> DEFINE T == ToSet(s) \cup {e}
<1>1. s \in Seq(T) /\ e \in T
  OBVIOUS
<1>2. /\ Append(s, e) \in Seq(T) /\ Len(s) \in Nat /\ DOMAIN s = 1..Len(s)
      /\ DOMAIN Append(s, e) = 1..(Len(s) + 1)
      /\ \A i \in 1..Len(s) : Append(s, e)[i] = s[i]
      /\ Append(s, e)[Len(s) + 1] = e
  BY <1>1
<1>3. DOMAIN Append(s, e) = DOMAIN s \cup {Len(s) + 1} /\ Len(s) + 1 \notin DOMAIN s
  BY <1>2
<1>4. ToSet(Append(s, e)) = T
  BY <1>2, <1>3 DEF ToSet
<1> QED
  BY <1>2, <1>3, <1>4

LEMMA TailShape ==
  ASSUME NEW S, NEW s \in Seq(S), s # <<>>
  PROVE  /\ Tail(s) \in Seq(Range(Tail(s)))
         /\ Head(s) = s[1] /\ 1 \in DOMAIN s
         /\ \A i \in DOMAIN Tail(s) : i + 1 \in DOMAIN s /\ i + 1 # 1 /\ Tail(s)[i] = s[i + 1]
         /\ \A i \in DOMAIN s : i = 1 \/ (i - 1 \in DOMAIN Tail(s) /\ s[i] = Tail(s)[i - 1])
<1> DEFINE t == Tail(s)
<1>1. t \in Seq(S) /\ Len(t) = Len(s) - 1 /\ \A i \in 1..Len(t) : t[i] = s[i + 1]
  BY HeadTailProperties
<1>2. Len(s) \in Nat \ {0} /\ DOMAIN s = 1..Len(s) /\ Head(s) = s[1]
  BY LenProperties, EmptySeq
<1> HIDE DEF t
<1>3. DOMAIN t = 1..Len(t) /\ t \in Seq(Range(t))
  BY <1>1, LenProperties, SeqOfRange
<1>4. \A i \in DOMAIN t : i \in Int /\ i + 1 \in DOMAIN s /\ i + 1 # 1 /\ t[i] = s[i + 1]
  BY <1>1, <1>2, <1>3
<1>5. \A i \in DOMAIN s : i = 1 \/ (i - 1 \in DOMAIN t /\ s[i] = t[i - 1])
  BY <1>1, <1>2, <1>3
<1>6. 1 \in DOMAIN s
  BY <1>2
<1> QED
  BY <1>2, <1>3, <1>4, <1>5, <1>6 DEF t

LEMMA TailSet ==
  ASSUME NEW s, s \in Seq(ToSet(s)), s # <<>>, IsInjective(s)
  PROVE  /\ Tail(s) \in Seq(ToSet(Tail(s))) /\ IsInjective(Tail(s))
         /\ ToSet(s) = {Head(s)} \cup ToSet(Tail(s)) /\ Head(s) \notin ToSet(Tail(s))
<1> DEFINE t == Tail(s)
<1>1. /\ t \in Seq(Range(t)) /\ Head(s) = s[1] /\ 1 \in DOMAIN s
      /\ \A i \in DOMAIN t : i + 1 \in DOMAIN s /\ i + 1 # 1 /\ t[i] = s[i + 1]
      /\ \A i \in DOMAIN s : i = 1 \/ (i - 1 \in DOMAIN t /\ s[i] = t[i - 1])
  BY TailShape
<1>2. \A i \in DOMAIN t : i \in Int
  BY <1>1, LenProperties
<1> HIDE DEF t
<1>3. IsInjective(t)
  BY <1>1, <1>2 DEF IsInjective
<1>4. ToSet(s) = {Head(s)} \cup ToSet(t)
  BY <1>1 DEF ToSet
<1>5. Head(s) \notin ToSet(t)
  BY <1>1, <1>2 DEF ToSet, IsInjective
<1> QED
  BY <1>1, <1>3, <1>4, <1>5 DEF t, Range, ToSet

(* FlattenSeq along the positions of ss. *)
Flattens(f, ss) ==
  /\ FlattenSeq(ss) = f[Len(ss)]
  /\ f[1] = ss[1]
  /\ \A i \in 2..Len(ss) : f[i] = f[i - 1] \o ss[i]

LEMMA FlattenRecurs ==
  ASSUME NEW X, NEW ss \in Seq(Seq(X)), ss # <<>>
  PROVE  \E f \in [1..Len(ss) -> Seq(X)] : Flattens(f, ss)
<1> DEFINE n == Len(ss) - 1
           h == [p \in (1..n) \X Seq(X) |-> p[2] \o ss[p[1] + 1]]
           Is(f) == f = [i \in 1..Len(ss) |-> IF i = 1 THEN ss[i] ELSE f[i - 1] \o ss[i]]
           flatten == CHOOSE f : Is(f)
<1>1. Len(ss) \in Nat \ {0} /\ n \in Nat /\ \A i \in 1..Len(ss) : ss[i] \in Seq(X)
  OBVIOUS
<1>2. \A k \in 1..n : \A x \in Seq(X) : h[<<k, x>>] = x \o ss[k + 1] /\ h[<<k, x>>] \in Seq(X)
  <2>1. ASSUME NEW k \in 1..n, NEW x \in Seq(X)
        PROVE  h[<<k, x>>] = x \o ss[k + 1] /\ h[<<k, x>>] \in Seq(X)
    <3>1. k + 1 \in 1..Len(ss) BY <1>1
    <3>2. ss[k + 1] \in Seq(X) BY <3>1, <1>1
    <3>3. h[<<k, x>>] = x \o ss[k + 1] OBVIOUS
    <3> HIDE DEF h
    <3>4. QED BY <3>2, <3>3
  <2>2. QED BY <2>1
<1>3. PICK r \in [0..n -> Seq(X)] : Recurs(r, n, ss[1], h)
  <2>1. ss[1] \in Seq(X) BY <1>1
  <2> HIDE DEF h, n
  <2>2. QED BY <1>1, <1>2, <2>1, RecursionExists
<1> DEFINE g == [i \in 1..Len(ss) |-> r[i - 1]]
<1>4. g[1] = ss[1] BY <1>1, <1>3 DEF Recurs
<1>5. ASSUME NEW i \in 2..Len(ss) PROVE g[i] = g[i - 1] \o ss[i]
  <2>1. i - 1 \in 1..n /\ i - 1 \in 1..Len(ss) /\ (i - 1) - 1 \in 0..n /\ (i - 1) + 1 = i /\ i \in 1..Len(ss) BY <1>1
  <2>2. r[(i - 1) - 1] \in Seq(X) BY <2>1
  <2>3. r[i - 1] = h[<<i - 1, r[(i - 1) - 1]>>] BY <2>1, <1>3 DEF Recurs
  <2>4. g[i] = r[i - 1] /\ g[i - 1] = r[(i - 1) - 1] BY <2>1
  <2> HIDE DEF h, g
  <2>5. QED BY <2>1, <2>2, <2>3, <2>4, <1>2
<1>6. g \in [1..Len(ss) -> Seq(X)]
  <2>1. \A i \in 1..Len(ss) : i - 1 \in 0..n BY <1>1
  <2>2. QED BY <2>1
<1>7. Is(g)
  <2>1. \A i \in 1..Len(ss) : i = 1 \/ i \in 2..Len(ss) BY <1>1
  <2>2. \A i \in 1..Len(ss) : g[i] = IF i = 1 THEN ss[i] ELSE g[i - 1] \o ss[i]
    <3> HIDE DEF g
    <3>1. \A i \in 2..Len(ss) : i # 1 BY <1>1
    <3>2. QED BY <2>1, <1>4, <1>5, <3>1
  <2>3. QED BY <2>2, <1>6
<1>8. Is(flatten)
  <2> HIDE DEF Is
  <2>1. QED BY <1>7
<1>9. FlattenSeq(ss) = flatten[Len(ss)] BY <1>1 DEF FlattenSeq
<1> HIDE DEF flatten
<1>10. flatten[1] = ss[1] BY <1>1, <1>8
<1>11. ASSUME NEW i \in 2..Len(ss) PROVE flatten[i] = flatten[i - 1] \o ss[i]
  <2>1. i \in 1..Len(ss) /\ i # 1 BY <1>1
  <2>2. QED BY <2>1, <1>8
<1> HIDE DEF g, Is, h, n
<1>12. \A i \in 1..Len(ss) : flatten[i] = g[i]
  <2> DEFINE Apart == {i \in 1..Len(ss) : flatten[i] # g[i]}
  <2>1. SUFFICES ASSUME Apart # {} PROVE FALSE OBVIOUS
  <2>2. PICK m \in Apart : \A y \in Apart : m <= y
    <3>1. Apart \in SUBSET Nat BY <1>1
    <3> HIDE DEF Apart
    <3>2. QED BY <2>1, <3>1, LeastNat
  <2>3. m # 1 BY <1>4, <1>10
  <2>4. m \in 2..Len(ss) /\ m - 1 \in 1..Len(ss) /\ ~ (m <= m - 1) BY <2>3, <1>1
  <2>5. flatten[m - 1] = g[m - 1] BY <2>2, <2>4
  <2>6. flatten[m] = g[m] BY <2>4, <2>5, <1>5, <1>11
  <2>7. QED BY <2>6
<1>13. Len(ss) \in 1..Len(ss) BY <1>1
<1>14. Flattens(g, ss) BY <1>4, <1>5, <1>9, <1>12, <1>13 DEF Flattens
<1>15. QED BY <1>6, <1>14

(* One more sequence goes to the end. *)
LEMMA FlattenAppend ==
  ASSUME NEW X, NEW ss \in Seq(Seq(X)), NEW s \in Seq(X)
  PROVE  FlattenSeq(Append(ss, s)) = FlattenSeq(ss) \o s
<1> DEFINE more == Append(ss, s)
           n == Len(ss)
<1>1. /\ more \in Seq(Seq(X)) /\ Len(more) = n + 1 /\ n \in Nat
      /\ more[n + 1] = s /\ \A i \in 1..n : more[i] = ss[i]
  OBVIOUS
<1>2. more # <<>>
  <2> HIDE DEF more
  <2>1. QED BY <1>1, EmptySeq
<1> HIDE DEF more, n
<1>3. PICK f \in [1..Len(more) -> Seq(X)] : Flattens(f, more)
  BY <1>1, <1>2, FlattenRecurs
<1>4. CASE ss = <<>>
  <2>1. n = 0 BY <1>4 DEF n
  <2>2. FlattenSeq(more) = s BY <1>1, <1>3, <2>1 DEF Flattens
  <2>3. FlattenSeq(ss) = <<>> BY <1>4 DEF FlattenSeq
  <2>4. QED BY <2>2, <2>3 DEF more
<1>5. CASE ss # <<>>
  <2>1. PICK g \in [1..Len(ss) -> Seq(X)] : Flattens(g, ss)
    BY <1>5, FlattenRecurs DEF n
  <2>2. n \in Nat \ {0} BY <1>5, <1>1, EmptySeq DEF n
  <2>3. ASSUME NEW i \in 1..n PROVE f[i] = g[i]
    <3> DEFINE Apart == {k \in 1..n : f[k] # g[k]}
    <3>1. SUFFICES ASSUME Apart # {} PROVE FALSE OBVIOUS
    <3>2. PICK m \in Apart : \A y \in Apart : m <= y
      <4>1. Apart \in SUBSET Nat BY <1>1
      <4> HIDE DEF Apart
      <4>2. QED BY <3>1, <4>1, LeastNat
    <3>3. m # 1 BY <1>1, <1>3, <2>1 DEF Flattens
    <3>4. m \in 2..n /\ m \in 2..Len(more) /\ m - 1 \in 1..n /\ ~ (m <= m - 1) /\ m \in 1..n
      BY <3>3, <1>1
    <3>5. f[m - 1] = g[m - 1] BY <3>2, <3>4
    <3>6. f[m] = f[m - 1] \o more[m] /\ g[m] = g[m - 1] \o ss[m] /\ more[m] = ss[m]
      BY <3>4, <1>1, <1>3, <2>1 DEF Flattens, n
    <3>7. QED BY <3>5, <3>6
  <2>4. n \in 1..n /\ n + 1 \in 2..Len(more) /\ (n + 1) - 1 = n BY <1>1, <2>2
  <2>5. f[n + 1] = f[n] \o s BY <1>1, <1>3, <2>4 DEF Flattens
  <2>6. QED BY <1>1, <1>3, <2>1, <2>3, <2>4, <2>5 DEF more, Flattens, n
<1>6. QED BY <1>4, <1>5

(* As many values as positions means no value twice.                       *)
LEMMA DistinctIffCounted ==
  ASSUME NEW X, NEW s \in Seq(X), NEW V, NEW f \in Surjection(DOMAIN s, V)
  PROVE  Cardinality(V) = Len(s) <=> \A i, j \in DOMAIN s : f[i] = f[j] => i = j
<1>1. Len(s) \in Nat /\ DOMAIN s = 1..Len(s) OBVIOUS
<1>2. IsFiniteSet(DOMAIN s) /\ Cardinality(DOMAIN s) = Len(s)
  <2>1. IsFiniteSet(1..Len(s)) /\ Cardinality(1..Len(s)) = IF 1 > Len(s) THEN 0 ELSE Len(s) - 1 + 1
    BY <1>1, FS_Interval
  <2>2. QED BY <1>1, <2>1
<1>3. Cardinality(V) = Len(s) <=> f \in Injection(DOMAIN s, V) BY <1>2, FS_Surjection
<1>4. f \in [DOMAIN s -> V] BY DEF Surjection
<1>5. QED BY <1>3, <1>4 DEF Injection, IsInjective

(* FoldLeft of a sum, along the positions of a sequence of counts c.       *)
Sums(f, n, c) ==
  f = [s \in SUBSET (1..n) |-> IF s = {} THEN 0 ELSE f[s \ {Greatest(s)}] + c[Greatest(s)]]

LEMMA SumsExist ==
  ASSUME NEW n \in Nat, NEW c \in [1..n -> Int]
  PROVE  \E f : Sums(f, n, c)
<1> DEFINE h == [p \in (1..n) \X Int |-> p[2] + c[p[1]]]
<1>1. \A k \in 1..n : \A x \in Int : h[<<k, x>>] = x + c[k] /\ h[<<k, x>>] \in Int OBVIOUS
<1>2. PICK f \in [SUBSET (1..n) -> Int] : Unwinds(f, n, 0, h)
  <2> DEFINE S == Int
  <2>1. 0 \in S /\ \A k \in 1..n : \A x \in S : h[<<k, x>>] \in S BY <1>1
  <2> HIDE DEF h, S
  <2>2. \E f \in [SUBSET (1..n) -> S] : Unwinds(f, n, 0, h) BY <2>1, SetRecursionExists
  <2>3. QED BY <2>2 DEF S
<1> HIDE DEF h
<1>3. ASSUME NEW s \in SUBSET (1..n), s # {}
      PROVE  f[s] = f[s \ {Greatest(s)}] + c[Greatest(s)]
  <2>1. Greatest(s) \in s /\ Topmost(s, Greatest(s)) BY <1>3, GreatestIs
  <2>2. f[s] = h[<<Greatest(s), f[s \ {Greatest(s)}]>>] BY <1>2, <2>1 DEF Unwinds
  <2>3. f[s \ {Greatest(s)}] \in Int OBVIOUS
  <2>4. QED BY <1>1, <2>1, <2>2, <2>3
<1>4. Sums(f, n, c) BY <1>2, <1>3 DEF Unwinds, Sums
<1>5. QED BY <1>4

LEMMA SumsAlong ==
  ASSUME NEW n \in Nat, NEW c, NEW f, Sums(f, n, c)
  PROVE  /\ f[1..0] = 0
         /\ \A k \in 1..n : f[1..k] = f[1..(k - 1)] + c[k]
<1>1. 1..0 = {} /\ {} \in SUBSET (1..n) OBVIOUS
<1>2. f[1..0] = 0 BY <1>1 DEF Sums
<1>3. ASSUME NEW k \in 1..n PROVE f[1..k] = f[1..(k - 1)] + c[k]
  <2>1. 1..k \in SUBSET (1..n) /\ 1..k # {} /\ Greatest(1..k) = k /\ (1..k) \ {k} = 1..(k - 1)
    BY PrefixTop
  <2>2. QED BY <2>1 DEF Sums
<1>4. QED BY <1>2, <1>3

LEMMA LastSum ==
  ASSUME NEW n \in Nat, n > 0, NEW c, NEW f, Sums(f, n, c)
  PROVE  f[1..0] = 0 /\ f[1..n] = f[1..(n - 1)] + c[n]
<1>1. n \in 1..n OBVIOUS
<1>2. QED BY <1>1, SumsAlong

LEMMA OneSum ==
  ASSUME NEW n \in Nat, n = 1, NEW c, NEW f, Sums(f, n, c)
  PROVE  f[1..n] = 0 + c[1]
<1>1. n > 0 /\ n - 1 = 0 OBVIOUS
<1>2. f[1..0] = 0 /\ f[1..n] = f[1..(n - 1)] + c[n] BY <1>1, LastSum
<1>3. QED BY <1>1, <1>2

LEMMA SumsUnique ==
  ASSUME NEW n \in Nat, NEW c, NEW f, NEW g, Sums(f, n, c), Sums(g, n, c)
  PROVE  f[1..n] = g[1..n]
<1> DEFINE Apart == {k \in 0..n : f[1..k] # g[1..k]}
<1>1. SUFFICES ASSUME Apart # {} PROVE FALSE
  <2>1. n \in 0..n OBVIOUS
  <2>2. QED BY <1>1, <2>1
<1>2. PICK m \in Apart : \A y \in Apart : m <= y
  <2>1. Apart \in SUBSET Nat OBVIOUS
  <2> HIDE DEF Apart
  <2>2. QED BY <1>1, <2>1, LeastNat
<1>3. m # 0 BY SumsAlong
<1>4. m \in 1..n /\ m - 1 \in 0..n /\ ~ (m <= m - 1) BY <1>3
<1>5. f[1..(m - 1)] = g[1..(m - 1)] BY <1>2, <1>4
<1>6. f[1..m] = f[1..(m - 1)] + c[m] /\ g[1..m] = g[1..(m - 1)] + c[m] BY <1>4, SumsAlong
<1>7. QED BY <1>5, <1>6

(* FoldLeft over numbers, and over what holds the same numbers, is one sum.*)
Total(c, n) == CHOOSE t : \E f : Sums(f, n, c) /\ t = f[1..n]

LEMMA TotalIs ==
  ASSUME NEW n \in Nat, NEW c \in [1..n -> Int], NEW f, Sums(f, n, c)
  PROVE  f[1..n] = Total(c, n)
<1>1. \E t : \E g : Sums(g, n, c) /\ t = g[1..n] OBVIOUS
<1>2. PICK g : Sums(g, n, c) /\ Total(c, n) = g[1..n] BY <1>1 DEF Total
<1>3. QED BY <1>2, SumsUnique

-------------------------------------------------------------------------------
(* Graphs. *)

LEMMA SeverityType ==
  ASSUME NEW s
  PROVE  Severity(s) \in Nat /\ (s \in Statuses => (Severity(s) = 0 <=> s = "ok"))
BY DEF Severity, Statuses

(* The worst of two statuses is one of them. *)
LEMMA WorstOfTwo ==
  ASSUME NEW s \in Statuses, NEW t \in Statuses, Unset \notin Statuses
  PROVE  /\ A!MergedStatus(s, t) \in {s, t}
         /\ Severity(s) <= Severity(A!MergedStatus(s, t))
         /\ Severity(t) <= Severity(A!MergedStatus(s, t))
<1> SUFFICES ASSUME s # Unset, t # Unset
             PROVE  /\ A!Combine(s, t) \in {s, t}
                    /\ Severity(s) <= Severity(A!Combine(s, t))
                    /\ Severity(t) <= Severity(A!Combine(s, t))
  BY DEF A!MergedStatus
<1>1. \A r : A!Severity(r) = Severity(r)
  BY DEF A!Severity, Severity
<1>2. A!Coerce(s) = s /\ A!Coerce(t) = t
  BY DEF A!Coerce, A!Statuses, Statuses
<1> QED
  BY <1>1, <1>2, SeverityType DEF A!Combine

LEMMA NoStatusUnset == Unset \notin Statuses
BY UnsetAssumption DEF StoredStatuses

LEMMA MergedIsRecord ==
  ASSUME NEW m \in GraphRecords, NEW g \in GraphRecords
  PROVE  /\ A!MergedGraph(m, g) \in GraphRecords
         /\ DOMAIN A!MergedGraph(m, g).nodes = DOMAIN m.nodes \cup DOMAIN g.nodes
         /\ \A id \in DOMAIN m.nodes : A!MergedGraph(m, g).nodes[id] = m.nodes[id]
         /\ \A id \in DOMAIN g.nodes \ DOMAIN m.nodes : A!MergedGraph(m, g).nodes[id] = g.nodes[id]
         /\ A!MergedGraph(m, g).status = A!MergedStatus(m.status, g.status)
<1> DEFINE ids == UNION {DOMAIN h.nodes : h \in Graphs}
           contents == UNION {{h.nodes[id] : id \in DOMAIN h.nodes} : h \in Graphs}
           tables == UNION {[D -> contents] : D \in SUBSET ids}
           both == A!Union(m.nodes, g.nodes)
<1>1. GraphRecords = [nodes : tables, status : Statuses, queries : {h.queries : h \in Graphs}]
  BY DEF GraphRecords
<1>2. /\ m.nodes \in tables /\ m.status \in Statuses
      /\ g.nodes \in tables /\ g.status \in Statuses /\ g.queries \in {h.queries : h \in Graphs}
  BY <1>1
<1> HIDE DEF ids, contents
<1>3. PICK C \in SUBSET ids : m.nodes \in [C -> contents]
  BY <1>2
<1>4. PICK D \in SUBSET ids : g.nodes \in [D -> contents]
  BY <1>2
<1>5. both \in [C \cup D -> contents]
  BY <1>3, <1>4 DEF A!Union
<1>6. both \in tables
  BY <1>5
<1>7. A!MergedStatus(m.status, g.status) \in Statuses
  BY <1>2, WorstOfTwo, NoStatusUnset
<1>8. A!MergedGraph(m, g) =
        [nodes |-> both, status |-> A!MergedStatus(m.status, g.status), queries |-> g.queries]
  BY DEF A!MergedGraph
<1>9. DOMAIN both = DOMAIN m.nodes \cup DOMAIN g.nodes
  BY DEF A!Union
<1>10. /\ \A id \in DOMAIN m.nodes : both[id] = m.nodes[id]
       /\ \A id \in DOMAIN g.nodes \ DOMAIN m.nodes : both[id] = g.nodes[id]
  BY DEF A!Union
<1> HIDE DEF both, tables
<1>11. A!MergedGraph(m, g) \in GraphRecords
  BY <1>1, <1>2, <1>6, <1>7, <1>8
<1> QED
  BY <1>8, <1>9, <1>10, <1>11

(* The first graph holds itself; a graph that does not collide is added.   *)
LEMMA FirstHolds ==
  ASSUME NEW g \in Graphs, NEW gs, gs \in Seq(ToSet(gs)), NEW l
  PROVE  Holds(g, {Len(gs) + 1}, Append(gs, [language |-> l, graph |-> g]))
<1> DEFINE e == [language |-> l, graph |-> g]
           more == Append(gs, e)
           n == Len(gs) + 1
<1>1. more[n].graph = g
  BY AppendSet
<1>2. g.status \in Statuses
  BY GraphAssumption DEF GraphRecords
<1> HIDE DEF more, n
<1>3. Severity(g.status) <= Severity(g.status)
  BY SeverityType
<1>4. UNION {DOMAIN more[i].graph.nodes : i \in {n}} = DOMAIN g.nodes
  BY <1>1
<1>5. Holds(g, {n}, more)
  BY <1>1, <1>2, <1>3, <1>4 DEF Holds
<1> QED
  BY <1>5 DEF more, n

LEMMA MoreHolds ==
  ASSUME NEW g \in Graphs, NEW gs, gs \in Seq(ToSet(gs)), NEW l,
         NEW m \in GraphRecords, NEW S, S \subseteq DOMAIN gs, Holds(m, S, gs), ~ A!Collide(m, g)
  PROVE  Holds(A!MergedGraph(m, g), S \cup {Len(gs) + 1},
               Append(gs, [language |-> l, graph |-> g]))
<1> DEFINE e == [language |-> l, graph |-> g]
           more == Append(gs, e)
           n == Len(gs) + 1
           mg == A!MergedGraph(m, g)
<1>1. more[n].graph = g /\ n \notin S /\ \A i \in S : more[i] = gs[i]
  BY AppendSet
<1>2. g \in GraphRecords /\ g.status \in Statuses
  BY GraphAssumption DEF GraphRecords
<1>3. /\ DOMAIN mg.nodes = DOMAIN m.nodes \cup DOMAIN g.nodes
      /\ \A id \in DOMAIN m.nodes : mg.nodes[id] = m.nodes[id]
      /\ \A id \in DOMAIN g.nodes \ DOMAIN m.nodes : mg.nodes[id] = g.nodes[id]
      /\ mg.status = A!MergedStatus(m.status, g.status)
  BY <1>2, MergedIsRecord
<1> HIDE DEF mg, more, n
<1>4. /\ mg.status \in {m.status, g.status}
      /\ Severity(m.status) <= Severity(mg.status) /\ Severity(g.status) <= Severity(mg.status)
  BY <1>2, <1>3, WorstOfTwo, NoStatusUnset DEF Holds
<1>5. mg.status \in Statuses /\ \E i \in S \cup {n} : more[i].graph.status = mg.status
  BY <1>1, <1>2, <1>4 DEF Holds
<1>6. ASSUME NEW i \in S \cup {n} PROVE Severity(more[i].graph.status) <= Severity(mg.status)
  <2>1. CASE i = n
    BY <1>1, <1>4, <2>1
  <2>2. CASE i \in S
    <3>1. Severity(gs[i].graph.status) <= Severity(m.status)
      BY <2>2 DEF Holds
    <3> QED
      BY <1>1, <1>4, <2>2, <3>1, SeverityType
  <2> QED
    BY <2>1, <2>2
<1>7. DOMAIN mg.nodes = UNION {DOMAIN more[i].graph.nodes : i \in S \cup {n}}
  <2>1. UNION {DOMAIN more[i].graph.nodes : i \in S \cup {n}} =
          (UNION {DOMAIN gs[i].graph.nodes : i \in S}) \cup DOMAIN g.nodes
    BY <1>1
  <2> QED
    BY <1>3, <2>1 DEF Holds
<1>8. ASSUME NEW i \in S \cup {n}, NEW id \in DOMAIN more[i].graph.nodes
      PROVE  mg.nodes[id] = more[i].graph.nodes[id]
  <2>1. CASE i \in S
    <3>1. id \in DOMAIN gs[i].graph.nodes /\ id \in DOMAIN m.nodes
      BY <1>1, <2>1 DEF Holds
    <3>2. m.nodes[id] = gs[i].graph.nodes[id]
      BY <2>1, <3>1 DEF Holds
    <3> QED
      BY <1>1, <1>3, <2>1, <3>1, <3>2
  <2>2. CASE i = n /\ id \in DOMAIN m.nodes
    BY <1>1, <1>3, <2>2 DEF A!Collide
  <2>3. CASE i = n /\ id \notin DOMAIN m.nodes
    BY <1>1, <1>3, <2>3
  <2> QED
    BY <2>1, <2>2, <2>3
<1>9. Holds(mg, S \cup {n}, more)
  BY <1>5, <1>6, <1>7, <1>8 DEF Holds
<1> QED
  BY <1>9 DEF mg, more, n

(* What is appended to the history changes nothing of what is held.        *)
LEMMA StillHolds ==
  ASSUME NEW gs, gs \in Seq(ToSet(gs)), NEW e, NEW m, NEW S, S \subseteq DOMAIN gs, Holds(m, S, gs)
  PROVE  Holds(m, S, Append(gs, e))
<1> DEFINE more == Append(gs, e)
<1>1. \A i \in S : more[i] = gs[i]
  BY AppendSet
<1> HIDE DEF more
<1>2. UNION {DOMAIN more[i].graph.nodes : i \in S} = UNION {DOMAIN gs[i].graph.nodes : i \in S}
  BY <1>1
<1>3. Holds(m, S, more)
  BY <1>1, <1>2 DEF Holds
<1> QED
  BY <1>3 DEF more

-------------------------------------------------------------------------------
(* What a further report changes. *)

(* Of a language that failed, a graph may be in the history, or none.      *)
LEMMA ReportFails ==
  ASSUME NEW rs, rs \in Seq(ToSet(rs)), NEW gs, gs \in Seq(ToSet(gs)), NEW r, NEW g,
         r.language \notin Reported(rs), r.error # Unset,
         \A i \in DOMAIN gs : gs[i].language \in Reported(rs),
         NEW more \in {gs, Append(gs, [language |-> r.language, graph |-> g])}
  PROVE  /\ Contributing(Append(rs, r), more) = Contributing(rs, gs)
         /\ Accounted(rs, gs) => Accounted(Append(rs, r), more)
<1> DEFINE all == Append(rs, r)
<1>1. ToSet(all) = ToSet(rs) \cup {r}
  BY AppendSet
<1>2. /\ DOMAIN gs \subseteq DOMAIN more /\ \A i \in DOMAIN gs : more[i] = gs[i]
      /\ \A i \in DOMAIN more : i \notin DOMAIN gs => more[i].language = r.language
  <2>1. CASE more = gs
    BY <2>1
  <2>2. CASE more = Append(gs, [language |-> r.language, graph |-> g])
    BY <2>2, AppendSet
  <2> QED
    BY <2>1, <2>2
<1> HIDE DEF all
<1>3. \A i \in DOMAIN gs : gs[i].language # r.language
  BY DEF Reported
<1>4. Contributing(all, more) = Contributing(rs, gs)
  BY <1>1, <1>2, <1>3 DEF Contributing
<1>5. Contributing(rs, gs) \subseteq DOMAIN gs
  BY DEF Contributing
<1>6. \A i \in Contributing(rs, gs) : more[i] = gs[i]
  BY <1>2, <1>5
<1>7. ASSUME Accounted(rs, gs) PROVE Accounted(all, more)
  <2>1. ASSUME NEW q \in ToSet(all), q.error = Unset
        PROVE  \E i \in Contributing(rs, gs) :
                 more[i].language = q.language /\ more[i].graph.status = q.status
    <3>1. q \in ToSet(rs)
      BY <1>1, <2>1
    <3> QED
      BY <1>6, <1>7, <2>1, <3>1 DEF Accounted
  <2>2. ASSUME NEW i \in Contributing(rs, gs)
        PROVE  \E q \in ToSet(all) : q.error = Unset /\ q.status = more[i].graph.status
    BY <1>1, <1>6, <1>7 DEF Accounted
  <2> QED
    BY <1>4, <2>1, <2>2 DEF Accounted
<1> QED
  BY <1>4, <1>7 DEF all

LEMMA ReportHolds ==
  ASSUME NEW rs, rs \in Seq(ToSet(rs)), NEW gs, gs \in Seq(ToSet(gs)), NEW r, NEW g,
         r.language \notin Reported(rs), r.error = Unset, r.status = g.status,
         \A i \in DOMAIN gs : gs[i].language \in Reported(rs)
  PROVE  LET more == Append(gs, [language |-> r.language, graph |-> g])
         IN  /\ Contributing(Append(rs, r), more) = Contributing(rs, gs) \cup {Len(gs) + 1}
             /\ Accounted(rs, gs) => Accounted(Append(rs, r), more)
<1> DEFINE all == Append(rs, r)
           e == [language |-> r.language, graph |-> g]
           more == Append(gs, e)
           n == Len(gs) + 1
<1>1. ToSet(all) = ToSet(rs) \cup {r}
  BY AppendSet
<1>2. /\ DOMAIN more = DOMAIN gs \cup {n} /\ n \notin DOMAIN gs
      /\ \A i \in DOMAIN gs : more[i] = gs[i]
      /\ more[n] = e
  BY AppendSet
<1>3. more[n].language = r.language /\ more[n].graph = g
  BY <1>2
<1> HIDE DEF all, more, n
<1>4. \A i \in DOMAIN gs : gs[i].language # r.language
  OBVIOUS
<1>5. ~ \E q \in ToSet(all) : q.language = more[n].language /\ q.error # Unset
  BY <1>1, <1>3 DEF Reported
<1>6. Contributing(all, more) = Contributing(rs, gs) \cup {n}
  BY <1>1, <1>2, <1>4, <1>5 DEF Contributing
<1>7. Contributing(rs, gs) \subseteq DOMAIN gs
  BY DEF Contributing
<1>8. ASSUME Accounted(rs, gs) PROVE Accounted(all, more)
  <2>1. ASSUME NEW q \in ToSet(all), q.error = Unset
        PROVE  \E i \in Contributing(all, more) :
                 more[i].language = q.language /\ more[i].graph.status = q.status
    <3>1. CASE q = r
      BY <1>3, <1>6, <3>1
    <3>2. CASE q \in ToSet(rs)
      BY <1>2, <1>6, <1>7, <1>8, <2>1, <3>2 DEF Accounted
    <3> QED
      BY <1>1, <3>1, <3>2
  <2>2. ASSUME NEW i \in Contributing(all, more)
        PROVE  \E q \in ToSet(all) : q.error = Unset /\ q.status = more[i].graph.status
    <3>1. CASE i = n
      BY <1>1, <1>3, <3>1
    <3>2. CASE i \in Contributing(rs, gs)
      BY <1>1, <1>2, <1>7, <1>8, <3>2 DEF Accounted
    <3> QED
      BY <1>6, <3>1, <3>2
  <2> QED
    BY <2>1, <2>2 DEF Accounted
<1> QED
  BY <1>6, <1>8 DEF all, more, n

-------------------------------------------------------------------------------
(* The analysis. *)

WeakReports(rs) == \E r \in ToSet(rs) : r.error = Unset /\ r.status # "ok"
AskedFailed(rs, asked) == \E r \in ToSet(rs) : r.error # Unset /\ r.language \in ToSet(asked)

(* Every language is either to come or reported, once; the reports and the *)
(* graphs held agree; the verdict was given on these reports.              *)
LanguagesInv ==
  /\ reports \in Seq(ToSet(reports)) /\ got \in Seq(ToSet(got))
  /\ todo \in Seq(ToSet(todo)) /\ IsInjective(todo)
  /\ Reported(reports) \cap ToSet(todo) = {}
  /\ requested # <<>> => ToSet(requested) = Reported(reports) \cup ToSet(todo)
  /\ \A i \in DOMAIN got : got[i].graph \in Graphs /\ got[i].language \in Reported(reports)
  /\ Accounted(reports, got)

MergedInv ==
  /\ outcome = "running" /\ merged = Unset => Contributing(reports, got) = {}
  /\ outcome = "running" /\ merged # Unset => merged \in GraphRecords
  /\ (outcome = "running" /\ merged # Unset) \/ outcome \in {"refused", "written"} =>
       Holds(merged, Contributing(reports, got), got)

VerdictInv ==
  /\ outcome # "running" => todo = <<>>
  /\ outcome = "refused" => WeakReports(reports)
  /\ outcome = "written" => ~ AskedFailed(reports, requested) /\ (strict => ~ WeakReports(reports))

AnalysisInv == LanguagesInv /\ MergedInv /\ VerdictInv

LEMMA EmptyShape ==
  /\ <<>> \in Seq(ToSet(<<>>)) /\ ToSet(<<>>) = {} /\ Reported(<<>>) = {}
  /\ Contributing(<<>>, <<>>) = {} /\ Accounted(<<>>, <<>>)
<1>1. <<>> \in Seq(ToSet(<<>>)) /\ ToSet(<<>>) = {} /\ DOMAIN <<>> = {}
  BY DEF ToSet
<1> QED
  BY <1>1 DEF Reported, Contributing, Accounted

LEMMA DetectableShape ==
  ASSUME NEW s \in A!Detectable
  PROVE  s \in Seq(ToSet(s)) /\ IsInjective(s)
<1>1. ALL \in Seq(ToSet(ALL)) /\ IsInjective(ALL)
  BY RequestAssumption
<1>2. PICK n \in 0..Len(ALL) : s \in {[k \in 1..n |-> ALL[at[k]]] : at \in A!InOrder(n)}
  BY DEF A!Detectable
<1>3. PICK at \in A!InOrder(n) : s = [k \in 1..n |-> ALL[at[k]]]
  BY <1>2
<1>4. n \in Nat
  BY <1>1, LenProperties
<1>5. at \in [1..n -> DOMAIN ALL] /\ \A i, j \in 1..n : i < j => at[i] < at[j]
  BY DEF A!InOrder
<1>6. DOMAIN ALL = 1..Len(ALL) /\ Len(ALL) \in Nat
  BY <1>1, LenProperties
<1>7. \A i, j \in 1..n : s[i] = s[j] => i = j
  <2> SUFFICES ASSUME NEW i \in 1..n, NEW j \in 1..n, s[i] = s[j] PROVE i = j
    OBVIOUS
  <2>1. at[i] \in DOMAIN ALL /\ at[j] \in DOMAIN ALL /\ ALL[at[i]] = ALL[at[j]]
    BY <1>3, <1>5
  <2>2. at[i] = at[j] /\ at[i] \in Int
    BY <1>1, <1>6, <2>1 DEF IsInjective
  <2> QED
    BY <1>4, <1>5, <2>2
<1>8. DOMAIN s = 1..n
  BY <1>3
<1>9. s \in Seq(ToSet(s))
  BY <1>3, <1>4, <1>8 DEF ToSet
<1> QED
  BY <1>7, <1>8, <1>9 DEF IsInjective

LEMMA AnalysisStarts ==
  ASSUME A!Init
  PROVE  AnalysisInv
<1>1. /\ requested \in Requests /\ reports = <<>> /\ got = <<>> /\ merged = Unset
      /\ outcome = "running"
      /\ todo \in IF requested = <<>> THEN A!Detectable ELSE {requested}
  BY DEF A!Init
<1>2. todo \in Seq(ToSet(todo)) /\ IsInjective(todo)
  BY <1>1, DetectableShape, RequestAssumption
<1>3. requested # <<>> => todo = requested
  BY <1>1
<1>4. LanguagesInv
  BY <1>1, <1>2, <1>3, EmptyShape DEF LanguagesInv
<1> QED
  BY <1>1, <1>4, EmptyShape DEF AnalysisInv, MergedInv, VerdictInv

(* The head of todo is reported, once.                                     *)
LEMMA NextReported ==
  ASSUME LanguagesInv, todo # <<>>, NEW r, r.language = Head(todo),
         reports' = Append(reports, r), todo' = Tail(todo), requested' = requested
  PROVE  /\ reports' \in Seq(ToSet(reports'))
         /\ todo' \in Seq(ToSet(todo')) /\ IsInjective(todo')
         /\ Reported(reports') = Reported(reports) \cup {r.language}
         /\ r.language \notin Reported(reports)
         /\ Reported(reports') \cap ToSet(todo') = {}
         /\ requested' # <<>> => ToSet(requested') = Reported(reports') \cup ToSet(todo')
<1>1. /\ Tail(todo) \in Seq(ToSet(Tail(todo))) /\ IsInjective(Tail(todo))
      /\ ToSet(todo) = {Head(todo)} \cup ToSet(Tail(todo)) /\ Head(todo) \notin ToSet(Tail(todo))
  BY TailSet DEF LanguagesInv
<1>2. /\ Append(reports, r) \in Seq(ToSet(Append(reports, r)))
      /\ ToSet(Append(reports, r)) = ToSet(reports) \cup {r}
  BY AppendSet DEF LanguagesInv
<1>3. Reported(Append(reports, r)) = Reported(reports) \cup {r.language}
  BY <1>2 DEF Reported
<1>4. /\ Reported(reports) \cap ToSet(todo) = {}
      /\ requested # <<>> => ToSet(requested) = Reported(reports) \cup ToSet(todo)
  BY DEF LanguagesInv
<1> QED
  BY <1>1, <1>2, <1>3, <1>4

LEMMA FailedStep ==
  ASSUME AnalysisInv, A!AnalyzeFails
  PROVE  AnalysisInv'
<1> DEFINE r == [language |-> Head(todo), status |-> Unset, error |-> "analysis"]
<1>1. /\ outcome = "running" /\ todo # <<>> /\ reports' = Append(reports, r) /\ todo' = Tail(todo)
      /\ requested' = requested /\ strict' = strict
      /\ merged' = merged /\ got' = got /\ outcome' = outcome
  BY DEF A!AnalyzeFails, A!Report
<1>2. r.language = Head(todo) /\ r.error # Unset
  BY GraphAssumption
<1> HIDE DEF r
<1>3. /\ reports' \in Seq(ToSet(reports')) /\ todo' \in Seq(ToSet(todo')) /\ IsInjective(todo')
      /\ Reported(reports') = Reported(reports) \cup {r.language} /\ r.language \notin Reported(reports)
      /\ Reported(reports') \cap ToSet(todo') = {}
      /\ requested' # <<>> => ToSet(requested') = Reported(reports') \cup ToSet(todo')
  BY <1>1, <1>2, NextReported DEF AnalysisInv
<1>4. /\ reports \in Seq(ToSet(reports)) /\ got \in Seq(ToSet(got)) /\ Accounted(reports, got)
      /\ \A i \in DOMAIN got : got[i].graph \in Graphs /\ got[i].language \in Reported(reports)
  BY DEF AnalysisInv, LanguagesInv
<1>5. /\ Contributing(Append(reports, r), got) = Contributing(reports, got)
      /\ Accounted(Append(reports, r), got)
  BY <1>2, <1>3, <1>4, ReportFails
<1>6. LanguagesInv'
  BY <1>1, <1>3, <1>4, <1>5 DEF LanguagesInv
<1>7. Contributing(reports', got') = Contributing(reports, got)
  BY <1>1, <1>5
<1>8. MergedInv'
  BY <1>1, <1>7 DEF AnalysisInv, MergedInv
<1>9. VerdictInv'
  BY <1>1 DEF VerdictInv
<1> QED
  BY <1>6, <1>8, <1>9 DEF AnalysisInv

LEMMA AnalyzeStep ==
  ASSUME AnalysisInv, NEW g \in Graphs, A!Analyze(g)
  PROVE  AnalysisInv'
<1> DEFINE clash == merged # Unset /\ A!Collide(merged, g)
           r == [language |-> Head(todo), status |-> g.status,
                 error |-> IF clash THEN "collision" ELSE Unset]
           e == [language |-> Head(todo), graph |-> g]
           C == Contributing(reports, got)
           n == Len(got) + 1
<1>1. /\ outcome = "running" /\ todo # <<>> /\ reports' = Append(reports, r) /\ todo' = Tail(todo)
      /\ got' = Append(got, e) /\ requested' = requested /\ strict' = strict /\ outcome' = outcome
      /\ A!MergeInto(g)
  BY DEF A!Analyze, A!Report
<1>2. r.language = Head(todo) /\ r.status = g.status /\ e.language = Head(todo) /\ e.graph = g
  OBVIOUS
<1>3. (clash => r.error # Unset) /\ (~ clash => r.error = Unset)
  BY GraphAssumption
<1>4. e = [language |-> r.language, graph |-> g]
  OBVIOUS
<1> HIDE DEF r
<1>5. /\ reports' \in Seq(ToSet(reports')) /\ todo' \in Seq(ToSet(todo')) /\ IsInjective(todo')
      /\ Reported(reports') = Reported(reports) \cup {r.language} /\ r.language \notin Reported(reports)
      /\ Reported(reports') \cap ToSet(todo') = {}
      /\ requested' # <<>> => ToSet(requested') = Reported(reports') \cup ToSet(todo')
  BY <1>1, <1>2, NextReported DEF AnalysisInv
<1>6. /\ reports \in Seq(ToSet(reports)) /\ got \in Seq(ToSet(got)) /\ Accounted(reports, got)
      /\ \A i \in DOMAIN got : got[i].graph \in Graphs /\ got[i].language \in Reported(reports)
  BY DEF AnalysisInv, LanguagesInv
<1>7. /\ got' \in Seq(ToSet(got')) /\ DOMAIN got' = DOMAIN got \cup {n}
      /\ \A i \in DOMAIN got : got'[i] = got[i]
      /\ got'[n] = e
  BY <1>1, <1>6, AppendSet
<1>8. \A i \in DOMAIN got' : got'[i].graph \in Graphs /\ got'[i].language \in Reported(reports')
  BY <1>2, <1>5, <1>6, <1>7
<1>9. /\ outcome = "running" /\ merged = Unset => C = {}
      /\ merged # Unset => merged \in GraphRecords /\ Holds(merged, C, got)
  BY <1>1 DEF AnalysisInv, MergedInv
<1>10. C \subseteq DOMAIN got
  BY DEF Contributing
<1>11. VerdictInv'
  BY <1>1 DEF VerdictInv
<1>12. Unset \notin GraphRecords /\ g \in GraphRecords
  BY GraphAssumption
<1> HIDE DEF C, e, n, clash
<1>13. CASE clash
  <2>1. merged' = merged /\ merged # Unset
    BY <1>1, <1>13 DEF A!MergeInto, clash
  <2>2. Contributing(reports', got') = C /\ Accounted(reports', got')
    BY <1>1, <1>3, <1>4, <1>5, <1>6, <1>13, ReportFails DEF C
  <2>3. Holds(merged, C, got')
    BY <1>1, <1>6, <1>9, <1>10, <2>1, StillHolds
  <2>4. MergedInv'
    BY <1>1, <1>9, <2>1, <2>2, <2>3 DEF MergedInv
  <2>5. LanguagesInv'
    BY <1>5, <1>7, <1>8, <2>2 DEF LanguagesInv
  <2> QED
    BY <1>11, <2>4, <2>5 DEF AnalysisInv
<1>14. CASE ~ clash
  <2>1. Contributing(reports', got') = C \cup {n} /\ Accounted(reports', got')
    BY <1>1, <1>2, <1>3, <1>4, <1>5, <1>6, <1>14, ReportHolds DEF C, n
  <2>2. merged' \in GraphRecords /\ Holds(merged', C \cup {n}, got')
    <3>1. CASE merged = Unset
      <4>1. merged' = g /\ C = {}
        BY <1>1, <1>9, <3>1 DEF A!MergeInto
      <4>2. Holds(g, {n}, got')
        BY <1>1, <1>6, FirstHolds DEF e, n
      <4> QED
        BY <1>12, <4>1, <4>2
    <3>2. CASE merged # Unset
      <4>1. merged' = A!MergedGraph(merged, g) /\ ~ A!Collide(merged, g)
        BY <1>1, <1>14, <3>2 DEF A!MergeInto, clash
      <4>2. merged \in GraphRecords /\ Holds(merged, C, got)
        BY <1>9, <3>2
      <4>3. A!MergedGraph(merged, g) \in GraphRecords
        BY <1>12, <4>2, MergedIsRecord
      <4>4. Holds(A!MergedGraph(merged, g), C \cup {n}, got')
        BY <1>1, <1>6, <1>10, <4>1, <4>2, MoreHolds DEF e, n
      <4> QED
        BY <4>1, <4>3, <4>4
    <3> QED
      BY <3>1, <3>2
  <2>3. MergedInv'
    BY <1>1, <1>12, <2>1, <2>2 DEF MergedInv
  <2>4. LanguagesInv'
    BY <1>5, <1>7, <1>8, <2>1 DEF LanguagesInv
  <2> QED
    BY <1>11, <2>3, <2>4 DEF AnalysisInv
<1> QED
  BY <1>13, <1>14

(* Putting the sums in leaves the nodes and the status.                    *)
LEMMA SummedHolds ==
  ASSUME merged \in GraphRecords, NEW S, NEW gs, Holds(merged, S, gs)
  PROVE  Holds(A!Summed(merged), S, gs)
<1>1. A!Summed(merged).nodes = merged.nodes /\ A!Summed(merged).status = merged.status
  <2>1. \A q : [merged EXCEPT !.queries = q].nodes = merged.nodes
               /\ [merged EXCEPT !.queries = q].status = merged.status
    BY DEF GraphRecords
  <2> QED
    BY <2>1 DEF A!Summed
<1> QED
  BY <1>1 DEF Holds

LEMMA FinishStep ==
  ASSUME AnalysisInv, A!Finish
  PROVE  AnalysisInv'
<1>1. /\ outcome = "running" /\ todo = <<>>
      /\ merged' = (IF merged = Unset THEN Unset ELSE A!Summed(merged))
      /\ requested' = requested /\ strict' = strict /\ todo' = todo
      /\ reports' = reports /\ got' = got
  BY DEF A!Finish
<1>2. /\ A!RequestedFailed <=> AskedFailed(reports, requested)
      /\ A!Weak <=> WeakReports(reports)
  BY DEF A!RequestedFailed, A!Weak, A!Failed, AskedFailed, WeakReports, A!ToSet, ToSet
<1>3. /\ outcome' \in {"failed", "refused", "written"}
      /\ outcome' \in {"refused", "written"} => merged # Unset
      /\ outcome' = "refused" => WeakReports(reports)
      /\ outcome' = "written" => ~ AskedFailed(reports, requested) /\ (strict => ~ WeakReports(reports))
  BY <1>1, <1>2 DEF A!Finish
<1>4. VerdictInv'
  BY <1>1, <1>3 DEF VerdictInv
<1>5. LanguagesInv'
  BY <1>1 DEF AnalysisInv, LanguagesInv
<1>6. merged # Unset => merged \in GraphRecords /\ Holds(merged, Contributing(reports, got), got)
  BY <1>1 DEF AnalysisInv, MergedInv
<1>7. merged # Unset => Holds(merged', Contributing(reports, got), got)
  BY <1>1, <1>6, SummedHolds
<1>8. MergedInv'
  BY <1>1, <1>3, <1>7 DEF MergedInv
<1> QED
  BY <1>4, <1>5, <1>8 DEF AnalysisInv

LEMMA AnalysisUnchanged ==
  ASSUME AnalysisInv, UNCHANGED analysisVars
  PROVE  AnalysisInv'
BY DEF AnalysisInv, LanguagesInv, MergedInv, VerdictInv, analysisVars

LEMMA AnalysisStep ==
  ASSUME AnalysisInv, [ScriptNext]_scriptVars
  PROVE  AnalysisInv'
<1>1. CASE A!Next
  BY <1>1, FailedStep, AnalyzeStep, FinishStep DEF A!Next
<1>2. CASE UNCHANGED analysisVars
  BY <1>2, AnalysisUnchanged
<1> QED
  BY <1>1, <1>2 DEF ScriptNext, scriptVars, Analyse, OpenFile, WriteFile, KillAnalysis, Command

LEMMA AnalysisAlways == ScriptSpec => []AnalysisInv
<1>1. ScriptInit => AnalysisInv
  BY AnalysisStarts DEF ScriptInit
<1>2. AnalysisInv /\ [ScriptNext]_scriptVars => AnalysisInv'
  BY AnalysisStep
<1> QED
  BY <1>1, <1>2, PTL DEF ScriptSpec

(* Whatever a tree's languages come to, --strict on the tree and --strict  *)
(* on the saved graph refuse and pass the same: the worst of the statuses  *)
(* merged is the worst of the statuses reported.                           *)
THEOREM StrictIsOneRule == ScriptSpec => []StrictAgreesWithSaved
<1>1. AnalysisInv => StrictAgreesWithSaved
  <2> SUFFICES ASSUME AnalysisInv
               PROVE  /\ outcome = "refused" => merged.status # "ok"
                      /\ outcome = "written" /\ strict => merged.status = "ok"
    BY DEF StrictAgreesWithSaved, A!StrictAgreesWithSaved
  <2> DEFINE C == Contributing(reports, got)
  <2>1. Accounted(reports, got)
    BY DEF AnalysisInv, LanguagesInv
  <2>2. outcome \in {"refused", "written"} => Holds(merged, C, got)
    BY DEF AnalysisInv, MergedInv
  <2>3. ASSUME outcome = "refused" PROVE merged.status # "ok"
    <3>1. PICK r \in ToSet(reports) : r.error = Unset /\ r.status # "ok"
      BY <2>3 DEF AnalysisInv, VerdictInv, WeakReports
    <3>2. PICK i \in C : got[i].graph.status # "ok"
      BY <2>1, <3>1 DEF Accounted
    <3>3. Severity(got[i].graph.status) > 0
      BY <3>2 DEF Severity
    <3>4. Severity(merged.status) >= Severity(got[i].graph.status)
      BY <2>2, <2>3, SeverityType DEF Holds
    <3> QED
      BY <3>3, <3>4, SeverityType DEF Severity
  <2>4. ASSUME outcome = "written", strict PROVE merged.status = "ok"
    <3>1. PICK i \in C : got[i].graph.status = merged.status
      BY <2>2, <2>4 DEF Holds
    <3>2. PICK r \in ToSet(reports) : r.error = Unset /\ r.status = got[i].graph.status
      BY <2>1 DEF Accounted
    <3> QED
      BY <2>4, <3>1, <3>2 DEF AnalysisInv, VerdictInv, WeakReports
  <2> QED
    BY <2>3, <2>4
<1> QED
  BY <1>1, AnalysisAlways, PTL

(* A language asked for by name is never missing from a graph written, and *)
(* a graph written is the union of those reported as analysed.             *)
THEOREM NothingAskedForIsMissing == ScriptSpec => []RequestedAreThere
<1>1. AnalysisInv => RequestedAreThere
  <2> DEFINE C == Contributing(reports, got)
  <2>1. A!Contributed = C
    BY DEF A!Contributed, A!Failed, Contributing, A!ToSet, ToSet
  <2> SUFFICES ASSUME AnalysisInv, outcome = "written"
               PROVE  /\ \A l \in ToSet(requested) : \E i \in C : got[i].language = l
                      /\ DOMAIN merged.nodes = UNION {DOMAIN got[i].graph.nodes : i \in C}
                      /\ \A i \in C : \A id \in DOMAIN got[i].graph.nodes :
                           merged.nodes[id] = got[i].graph.nodes[id]
    <3> HIDE DEF C
    <3> QED
      BY <2>1 DEF RequestedAreThere, A!RequestedAreThere, A!ToSet, ToSet
  <2>2. Holds(merged, C, got)
    BY DEF AnalysisInv, MergedInv
  <2>3. ASSUME NEW l \in ToSet(requested) PROVE \E i \in C : got[i].language = l
    <3>1. todo = <<>> /\ ~ AskedFailed(reports, requested)
      BY DEF AnalysisInv, VerdictInv
    <3>2. requested # <<>> /\ ToSet(todo) = {}
      BY <2>3, <3>1, EmptyShape
    <3>3. PICK r \in ToSet(reports) : r.language = l
      BY <2>3, <3>2 DEF AnalysisInv, LanguagesInv, Reported
    <3>4. r.error = Unset
      BY <2>3, <3>1, <3>3 DEF AskedFailed
    <3> QED
      BY <3>3, <3>4 DEF AnalysisInv, LanguagesInv, Accounted
  <2> QED
    BY <2>2, <2>3 DEF Holds
<1> QED
  BY <1>1, AnalysisAlways, PTL

-------------------------------------------------------------------------------
(* The files. *)

SoundText(text) == text \in {Missing, Torn, Rendered} \/ Sound(text)

DiskInv ==
  /\ disk = [f \in Files |-> disk[f]]
  /\ \A f \in Files : SoundText(disk[f])

(* What a command has read is sound, and passed --strict; it judges only   *)
(* once it has read everything.                                            *)
ReadInv(p) ==
  /\ job[p] \in Jobs
  /\ taken[p] \in Seq(ToSet(taken[p]))
  /\ \A g \in ToSet(taken[p]) : Sound(g) /\ (job[p].strict => g.status = "ok")
  /\ Sound(acc[p])
  /\ Len(taken[p]) <= Len(job[p].inputs)
  /\ pc[p] \in {"writing", "done"} => Len(taken[p]) = Len(job[p].inputs)

CommandsInv ==
  /\ job = [p \in Procs |-> job[p]] /\ pc = [p \in Procs |-> pc[p]]
  /\ taken = [p \in Procs |-> taken[p]] /\ acc = [p \in Procs |-> acc[p]]
  /\ \A p \in Procs : ReadInv(p)

OutputInv ==
  /\ output \in {"unopened", "opened", "left"}
  /\ output # "unopened" => outcome = "written"

FilesInv == DiskInv /\ CommandsInv /\ OutputInv

LEMMA JobShape ==
  ASSUME NEW j \in Jobs
  PROVE  j.inputs \in Seq(Files) /\ Len(j.inputs) \in Nat /\ Len(j.inputs) >= 1
<1>1. j.inputs \in Seq(Files) /\ j.inputs # <<>>
  BY JobAssumption
<1> QED
  BY <1>1, LenProperties, EmptySeq

LEMMA EmptyIsSound == Sound(EmptyGraph)
BY UnsetAssumption DEF Sound, EmptyGraph, StoredStatuses, Statuses

(* ok beside anything that is a status and not ok does not stay ok; beside *)
(* another value it may, and the graph then remembers that value.          *)
LEMMA MergedIsSound ==
  ASSUME NEW m, NEW g, Sound(m), Sound(g)
  PROVE  Sound(Merged(m, g))
<1>1. /\ Merged(m, g).status = SavedStatus(m.status, g.status)
      /\ Merged(m, g).recorded = m.recorded \cup g.recorded
  BY DEF Merged
<1>2. \A s \in StoredStatuses : Severity(s) \in Nat /\ (Severity(s) = 0 <=> s = "ok")
  BY DEF Severity, StoredStatuses, Statuses
<1>3. "ok" \in StoredStatuses BY DEF StoredStatuses, Statuses
<1>4. CASE IsString(m.status) /\ IsString(g.status)
  <2>1. m.status \in StoredStatuses /\ g.status \in StoredStatuses
    BY <1>4 DEF Sound, IsString
  <2>2. /\ SavedStatus(m.status, g.status) \in StoredStatuses
        /\ SavedStatus(m.status, g.status) = "ok" => m.status = "ok" /\ g.status = "ok"
    BY <1>2, <1>4, <2>1 DEF SavedStatus
  <2>3. Honest(m.recorded) /\ Honest(g.recorded) => Honest(m.recorded \cup g.recorded)
    BY DEF Honest
  <2> QED
    BY <1>1, <2>2, <2>3, UnsetAssumption DEF Sound
<1>5. CASE g.status = Unset
  <2>1. SavedStatus(m.status, g.status) = m.status /\ g.recorded = {}
    BY <1>5 DEF Sound, SavedStatus, IsString
  <2>2. m.recorded \cup g.recorded = m.recorded BY <2>1
  <2> QED
    BY <1>1, <2>1, <2>2 DEF Sound
<1>6. CASE m.status \in {Unset, NotString} /\ g.status # Unset
  <2>1. SavedStatus(m.status, g.status) = g.status
    BY <1>6 DEF SavedStatus, IsString
  <2>2. g.status = "ok" => Honest(m.recorded \cup g.recorded)
    BY <1>3, <1>6, UnsetAssumption DEF Sound, Honest
  <2> QED
    BY <1>1, <1>6, <2>1, <2>2 DEF Sound
<1>7. CASE g.status = NotString
  <2>1. SavedStatus(m.status, g.status) = NotString
    BY <1>7, UnsetAssumption DEF SavedStatus, IsString
  <2> QED
    BY <1>1, <1>3, <1>7, <2>1, UnsetAssumption DEF Sound
<1> QED
  BY <1>4, <1>5, <1>6, <1>7 DEF IsString

(* The graph an analysis writes says ok only when each of its languages    *)
(* was.                                                                    *)
LEMMA WrittenIsSound ==
  ASSUME AnalysisInv, outcome = "written"
  PROVE  Sound(Written)
<1> DEFINE C == Contributing(reports, got)
<1>1. A!Contributed = C
  BY DEF A!Contributed, A!Failed, Contributing, A!ToSet, ToSet
<1>2. Written.status = merged.status /\ Written.recorded = {got[i].graph.status : i \in A!Contributed}
  BY DEF Written
<1>3. Holds(merged, C, got)
  BY DEF AnalysisInv, MergedInv
<1> HIDE DEF C
<1>4. merged.status \in Statuses /\ merged.status # Unset
  BY <1>3, NoStatusUnset DEF Holds
<1>5. ASSUME merged.status = "ok" PROVE {got[i].graph.status : i \in C} = {"ok"}
  <2>1. \A i \in C : Severity(got[i].graph.status) <= 0
    BY <1>3, <1>5 DEF Holds, Severity
  <2>2. \A i \in C : got[i].graph.status = "ok"
    BY <2>1 DEF Severity
  <2>3. C # {}
    BY <1>3 DEF Holds
  <2> QED
    BY <2>2, <2>3
<1>6. merged.status \in StoredStatuses /\ merged.status \notin {Unset, NotString}
  BY <1>4, UnsetAssumption DEF StoredStatuses
<1> QED
  BY <1>1, <1>2, <1>5, <1>6 DEF Sound, Honest

LEMMA FilesStart ==
  ASSUME ScriptInit
  PROVE  FilesInv
<1>1. /\ disk \in StartDisks /\ job \in [Procs -> {CHOOSE j \in Jobs : TRUE}]
      /\ pc = [p \in Procs |-> "idle"] /\ taken = [p \in Procs |-> <<>>]
      /\ acc = [p \in Procs |-> EmptyGraph] /\ output = "unopened"
  BY DEF ScriptInit, Init
<1>2. \A p \in Procs : job[p] \in Jobs
  BY <1>1, JobAssumption
<1>3. DiskInv
  BY <1>1, DiskAssumption DEF SoundDisks, DiskInv, SoundText
<1>4. CommandsInv
  BY <1>1, <1>2, JobShape, EmptyShape, EmptyIsSound DEF CommandsInv, ReadInv
<1> QED
  BY <1>1, <1>3, <1>4 DEF FilesInv, OutputInv

LEMMA CommandStep ==
  ASSUME DiskInv, CommandsInv, Next
  PROVE  DiskInv' /\ CommandsInv'
<1>1. PICK p \in Procs : \/ \E j \in Jobs : Start(p, j)
                         \/ ReadFails(p) \/ Read(p) \/ CreateOutput(p) \/ Flush(p)
                         \/ RunDiff(p) \/ Kill(p)
  BY DEF Next
<1>2. ReadInv(p) /\ \A q \in Procs : ReadInv(q)
  BY DEF CommandsInv
<1>3. ASSUME NEW j \in Jobs, Start(p, j) PROVE DiskInv' /\ CommandsInv'
  <2>1. DiskInv'
    BY <1>3 DEF Start, DiskInv
  <2>2. ReadInv(p)'
    BY <1>3, JobShape, EmptyShape, EmptyIsSound DEF Start, CommandsInv, ReadInv
  <2>3. \A q \in Procs \ {p} : ReadInv(q)'
    BY <1>2, <1>3 DEF Start, CommandsInv, ReadInv
  <2> QED
    BY <1>3, <2>1, <2>2, <2>3 DEF Start, CommandsInv
<1>4. CASE ReadFails(p) \/ Kill(p)
  <2>1. /\ UNCHANGED <<disk, job, taken, acc>>
        /\ \E s \in {"failed", "idle"} : pc' = [pc EXCEPT ![p] = s]
    BY <1>4 DEF ReadFails, Fail, Kill
  <2> QED
    BY <1>2, <2>1 DEF DiskInv, CommandsInv, ReadInv
<1>5. CASE Read(p)
  <2> DEFINE g == NextFile(p)
  <2>1. /\ UNCHANGED <<disk, job, pc>> /\ pc[p] = "reading"
        /\ taken' = [taken EXCEPT ![p] = Append(@, g)]
        /\ Readable(g) /\ ~ StrictRefuses(job[p], g)
        /\ acc' = acc \/ acc' = [acc EXCEPT ![p] = g] \/ acc' = [acc EXCEPT ![p] = Merged(@, g)]
    BY <1>5 DEF Read
  <2>2. Sound(g)
    <3>1. Len(taken[p]) \in Nat /\ taken[p] \in Seq(ToSet(taken[p]))
      BY <1>2, LenProperties DEF ReadInv
    <3>2. job[p].inputs \in Seq(Files) /\ Len(job[p].inputs) \in Nat
      BY <1>2, JobShape DEF ReadInv
    <3>3. Len(taken[p]) + 1 \in 1..Len(job[p].inputs)
      <4>1. Len(taken[p]) # Len(job[p].inputs) /\ Len(taken[p]) <= Len(job[p].inputs)
        BY <1>2, <1>5 DEF Read, AllRead, ReadInv
      <4> QED
        BY <3>1, <3>2, <4>1
    <3>4. SoundText(g)
      BY <3>2, <3>3 DEF NextFile, DiskInv
    <3> QED
      BY <2>1, <3>4 DEF SoundText, Readable
  <2> HIDE DEF g
  <2>3. /\ taken'[p] = Append(taken[p], g) /\ taken'[p] \in Seq(ToSet(taken'[p]))
        /\ ToSet(taken'[p]) = ToSet(taken[p]) \cup {g}
    BY <1>2, <2>1, AppendSet DEF CommandsInv, ReadInv
  <2>4. Len(taken'[p]) <= Len(job[p].inputs)
    <3>1. Len(taken[p]) # Len(job[p].inputs) /\ Len(taken[p]) <= Len(job[p].inputs)
      BY <1>2, <1>5 DEF Read, AllRead, ReadInv
    <3>2. Len(job[p].inputs) \in Nat /\ Len(taken[p]) \in Nat
      BY <1>2, JobShape, LenProperties DEF ReadInv
    <3>3. Len(taken'[p]) = Len(taken[p]) + 1
      BY <1>2, <2>3 DEF ReadInv
    <3> QED
      BY <3>1, <3>2, <3>3
  <2>5. Sound(acc'[p])
    BY <1>2, <2>1, <2>2, MergedIsSound DEF CommandsInv, ReadInv
  <2>6. ReadInv(p)'
    BY <1>2, <2>1, <2>2, <2>3, <2>5, <2>4 DEF ReadInv, StrictRefuses
  <2>7. \A q \in Procs \ {p} : ReadInv(q)'
    BY <1>2, <2>1 DEF CommandsInv, ReadInv
  <2> QED
    BY <2>1, <2>6, <2>7 DEF CommandsInv, DiskInv
<1>6. CASE CreateOutput(p)
  <2>1. /\ disk' = [f \in Files |-> IF f = job[p].out THEN Torn ELSE disk[f]]
        /\ pc' = [pc EXCEPT ![p] = "writing"] /\ AllRead(p) /\ UNCHANGED <<job, taken, acc>>
    BY <1>6 DEF CreateOutput
  <2>2. DiskInv'
    BY <2>1 DEF DiskInv, SoundText
  <2>3. \A q \in Procs : ReadInv(q)'
    BY <1>2, <2>1 DEF CommandsInv, ReadInv, AllRead
  <2> QED
    BY <2>1, <2>2, <2>3 DEF CommandsInv
<1>7. CASE Flush(p)
  <2>1. PICK text \in {IF job[p].command = "merge" THEN acc[p] ELSE Rendered} \cup {Torn} :
          disk' = [f \in Files |-> IF f = job[p].out THEN text ELSE disk[f]]
    BY <1>7 DEF Flush
  <2>2. SoundText(text)
    BY <1>2 DEF ReadInv, SoundText
  <2>3. DiskInv'
    BY <2>1, <2>2 DEF DiskInv
  <2>4. /\ \E s \in {"done", "failed"} : pc' = [pc EXCEPT ![p] = s]
        /\ pc[p] = "writing" /\ UNCHANGED <<job, taken, acc>>
    BY <1>7 DEF Flush
  <2>5. \A q \in Procs : ReadInv(q)'
    BY <1>2, <2>4 DEF CommandsInv, ReadInv
  <2> QED
    BY <2>3, <2>4, <2>5 DEF CommandsInv
<1>8. CASE RunDiff(p)
  <2>1. pc' = [pc EXCEPT ![p] = "done"] /\ AllRead(p) /\ UNCHANGED <<disk, job, taken, acc>>
    BY <1>8 DEF RunDiff
  <2>2. \A q \in Procs : ReadInv(q)'
    BY <1>2, <2>1 DEF CommandsInv, ReadInv, AllRead
  <2> QED
    BY <2>1, <2>2 DEF CommandsInv, DiskInv
<1> QED
  BY <1>1, <1>3, <1>4, <1>5, <1>6, <1>7, <1>8

LEMMA CommandsUnchanged ==
  ASSUME CommandsInv, UNCHANGED <<job, pc, taken, acc>>
  PROVE  CommandsInv'
BY DEF CommandsInv, ReadInv

(* The analysis ends once: what it found does not change any more.         *)
LEMMA OutcomeStays ==
  ASSUME A!Next
  PROVE  outcome = "running"
BY DEF A!Next, A!AnalyzeFails, A!Analyze, A!Finish

LEMMA FilesStep ==
  ASSUME AnalysisInv, FilesInv, [ScriptNext]_scriptVars
  PROVE  FilesInv'
<1> USE DEF FilesInv
<1>1. CASE Analyse
  <2>1. UNCHANGED <<disk, job, pc, taken, acc, output>> /\ outcome = "running"
    BY <1>1, OutcomeStays DEF Analyse, vars
  <2> QED
    BY <2>1, CommandsUnchanged DEF DiskInv, OutputInv
<1>2. CASE OpenFile
  <2>1. /\ disk' = [disk EXCEPT ![AnalysisFile] = Torn] /\ output' = "opened"
        /\ outcome = "written" /\ UNCHANGED <<job, pc, taken, acc, outcome>>
    BY <1>2 DEF OpenFile, analysisVars
  <2>2. DiskInv'
    BY <2>1 DEF DiskInv, SoundText
  <2> QED
    BY <2>1, <2>2, CommandsUnchanged DEF OutputInv
<1>3. CASE WriteFile
  <2>1. /\ output = "opened" /\ output' = "left" /\ UNCHANGED <<job, pc, taken, acc, outcome>>
        /\ \E text \in {Written, Torn} : disk' = [disk EXCEPT ![AnalysisFile] = text]
    BY <1>3 DEF WriteFile, analysisVars
  <2>2. outcome = "written"
    BY <2>1 DEF OutputInv
  <2>3. SoundText(Written) /\ SoundText(Torn)
    BY <2>2, WrittenIsSound DEF SoundText
  <2>4. DiskInv'
    BY <2>1, <2>3 DEF DiskInv
  <2> QED
    BY <2>1, <2>2, <2>4, CommandsUnchanged DEF OutputInv
<1>4. CASE KillAnalysis
  <2>1. output = "opened" /\ output' = "left" /\ UNCHANGED <<disk, job, pc, taken, acc, outcome>>
    BY <1>4 DEF KillAnalysis, vars, analysisVars
  <2> QED
    BY <2>1, CommandsUnchanged DEF OutputInv, DiskInv
<1>5. CASE Command
  <2>1. Next /\ UNCHANGED <<outcome, output>>
    BY <1>5 DEF Command, analysisVars
  <2> QED
    BY <2>1, CommandStep DEF OutputInv
<1>6. CASE UNCHANGED scriptVars
  <2>1. UNCHANGED <<disk, job, pc, taken, acc, outcome, output>>
    BY <1>6 DEF scriptVars, vars, analysisVars
  <2> QED
    BY <2>1, CommandsUnchanged DEF DiskInv, OutputInv
<1> QED
  BY <1>1, <1>2, <1>3, <1>4, <1>5, <1>6 DEF ScriptNext

LEMMA FilesAlways == ScriptSpec => []FilesInv
<1>1. ScriptInit => FilesInv
  BY FilesStart
<1>2. AnalysisInv /\ FilesInv /\ [ScriptNext]_scriptVars => FilesInv'
  BY FilesStep
<1> QED
  BY <1>1, <1>2, AnalysisAlways, PTL DEF ScriptSpec

(* Through any chain of analyses and merges, whichever processes run them  *)
(* and wherever they are killed, --strict renders only complete graphs,    *)
(* but for what a status that is no string has hidden.                     *)
THEOREM StrictRendersComplete == ScriptSpec => []StrictIsSound
<1>1. FilesInv => StrictIsSound
  <2> SUFFICES ASSUME FilesInv, NEW p \in Procs, job[p].strict, pc[p] \in {"writing", "done"}
               PROVE  Honest(taken[p][1].recorded)
    BY DEF StrictIsSound
  <2>1. /\ job[p] \in Jobs /\ taken[p] \in Seq(ToSet(taken[p]))
        /\ \A g \in ToSet(taken[p]) : Sound(g) /\ g.status = "ok"
        /\ Len(taken[p]) = Len(job[p].inputs)
    BY DEF FilesInv, CommandsInv, ReadInv
  <2>2. Len(taken[p]) \in Nat /\ Len(taken[p]) >= 1
    BY <2>1, JobShape
  <2>3. 1 \in DOMAIN taken[p]
    BY <2>1, <2>2, LenProperties
  <2>4. taken[p][1] \in ToSet(taken[p])
    BY <2>3 DEF ToSet
  <2> QED
    BY <2>1, <2>4 DEF Sound
<1> QED
  BY <1>1, FilesAlways, PTL

(* No file changes but at the hand of a command that has read and judged   *)
(* all its inputs, or of an analysis that passed all its rules.            *)
THEOREM NothingIsDestroyed == ScriptSpec => OutputOnlyAfterSuccess
<1> DEFINE Allowed ==
      \A f \in Files : disk'[f] # disk[f] =>
        \/ f = AnalysisFile /\ outcome = "written"
        \/ \E p \in Procs : /\ job[p].out = f /\ pc[p] # pc'[p]
                            /\ pc'[p] \in {"writing", "done", "failed"}
                            /\ Len(taken[p]) = Len(job[p].inputs)
                            /\ job[p].strict => taken[p][1].status = "ok"
<1>1. FilesInv /\ [ScriptNext]_scriptVars => [Allowed]_scriptVars
  <2> SUFFICES ASSUME FilesInv, ScriptNext PROVE Allowed
    OBVIOUS
  <2>1. CASE Analyse \/ KillAnalysis
    BY <2>1 DEF Analyse, KillAnalysis, vars
  <2>2. CASE OpenFile \/ WriteFile
    <3>1. outcome = "written" /\ \E text : disk' = [disk EXCEPT ![AnalysisFile] = text]
      BY <2>2 DEF OpenFile, WriteFile, FilesInv, OutputInv
    <3> QED
      BY <3>1 DEF FilesInv, DiskInv
  <2>3. CASE Command
    <3>1. PICK p \in Procs : \/ \E j \in Jobs : Start(p, j)
                             \/ ReadFails(p) \/ Read(p) \/ CreateOutput(p) \/ Flush(p)
                             \/ RunDiff(p) \/ Kill(p)
      BY <2>3 DEF Command, Next
    <3>2. CASE CreateOutput(p) \/ Flush(p)
      <4>1. /\ pc[p] # pc'[p] /\ pc'[p] \in {"writing", "done", "failed"}
            /\ \A f \in Files : disk'[f] # disk[f] => job[p].out = f
        BY <3>2 DEF CreateOutput, Flush, FilesInv, CommandsInv
      <4>2. ReadInv(p)
        BY DEF FilesInv, CommandsInv
      <4>3. Len(taken[p]) = Len(job[p].inputs)
        BY <3>2, <4>2 DEF CreateOutput, Flush, AllRead, ReadInv
      <4>4. Len(taken[p]) >= 1 /\ 1 \in DOMAIN taken[p]
        BY <4>2, <4>3, JobShape, LenProperties DEF ReadInv
      <4>5. job[p].strict => taken[p][1].status = "ok"
        BY <4>2, <4>4 DEF ReadInv, ToSet
      <4> QED
        BY <4>1, <4>3, <4>5
    <3>3. CASE ~ (CreateOutput(p) \/ Flush(p))
      <4>1. disk' = disk
        BY <3>1, <3>3 DEF Start, ReadFails, Fail, Read, RunDiff, Kill
      <4> QED
        BY <4>1
    <3> QED
      BY <3>2, <3>3
  <2> QED
    BY <2>1, <2>2, <2>3 DEF ScriptNext
<1> QED
  BY <1>1, FilesAlways, PTL DEF ScriptSpec, OutputOnlyAfterSuccess

-------------------------------------------------------------------------------
(* Graphs in memory: arrays, in which no node id comes twice.              *)
Whole(g) ==
  /\ Listed(g)
  /\ \A i, j \in DOMAIN g.nodes : g.nodes[i][1] = g.nodes[j][1] => i = j

LEMMA SeqOfOwn ==
  ASSUME NEW X, NEW s \in Seq(X)
  PROVE  s \in Seq(ToSet(s)) /\ ToSet(s) \subseteq X /\ ToSet(s) = Values(s)
<1>1. s \in Seq(Range(s)) BY SeqOfRange
<1>2. DOMAIN s = 1..Len(s) /\ \A i \in 1..Len(s) : s[i] \in X OBVIOUS
<1>3. QED BY <1>1, <1>2 DEF Range, ToSet, Values

LEMMA EmptyIsWhole == Whole(EmptyGraph)
<1>1. DOMAIN <<>> = {} /\ <<>> \in Seq(ToSet(<<>>)) BY EmptyShape
<1>2. EmptyGraph.nodes = <<>> /\ EmptyGraph.rels = <<>> BY DEF EmptyGraph
<1>3. QED BY <1>1, <1>2 DEF Whole, Listed

(* push_node refuses an id that is there: what was read is whole.          *)
LEMMA ReadableIsWhole ==
  ASSUME NEW g, Listed(g)
  PROVE  /\ Whole(g) <=> Cardinality(IdsOf(g.nodes)) = Len(g.nodes)
         /\ Readable(g) => Whole(g)
<1> DEFINE s == g.nodes
           f == [i \in DOMAIN s |-> s[i][1]]
<1>1. s \in Seq(ToSet(s)) BY DEF Listed
<1>2. f \in Surjection(DOMAIN s, IdsOf(s)) BY DEF Surjection, IdsOf
<1>3. \A i \in DOMAIN s : f[i] = s[i][1] OBVIOUS
<1> HIDE DEF f, s
<1>4. Cardinality(IdsOf(s)) = Len(s) <=> \A i, j \in DOMAIN s : f[i] = f[j] => i = j
  BY <1>1, <1>2, DistinctIffCounted
<1>5. Whole(g) <=> Cardinality(IdsOf(s)) = Len(s)
  BY <1>3, <1>4 DEF Whole, s
<1>6. QED BY <1>5 DEF s, Readable

(* What merge adds to its first operand. *)
Fresh(m, g) == {i \in DOMAIN g.nodes : g.nodes[i][1] \notin IdsOf(m.nodes)}

LEMMA MergedShape ==
  ASSUME NEW m, NEW g, Listed(m), Listed(g)
  PROVE  LET X == ToSet(m.nodes) \cup ToSet(g.nodes)
             more == Pick(g.nodes, Fresh(m, g))
         IN  /\ Merged(m, g).nodes = m.nodes \o more
             /\ Merged(m, g).rels = m.rels \o g.rels
             /\ m.nodes \in Seq(X) /\ g.nodes \in Seq(X) /\ more \in Seq(X)
             /\ Listed(Merged(m, g))
<1> DEFINE X == ToSet(m.nodes) \cup ToSet(g.nodes)
           Y == ToSet(m.rels) \cup ToSet(g.rels)
           more == Pick(g.nodes, Fresh(m, g))
<1>1. m.nodes \in Seq(X) /\ g.nodes \in Seq(X) /\ m.rels \in Seq(Y) /\ g.rels \in Seq(Y)
  BY DEF Listed
<1>2. Merged(m, g).nodes = m.nodes \o more /\ Merged(m, g).rels = m.rels \o g.rels
  BY DEF Merged, Fresh
<1>3. Fresh(m, g) \in SUBSET DOMAIN g.nodes BY DEF Fresh
<1> HIDE DEF X, Y
<1>4. more \in Seq(X) BY <1>1, <1>3, PickType
<1> HIDE DEF more
<1>5. m.nodes \o more \in Seq(X) /\ m.rels \o g.rels \in Seq(Y) BY <1>1, <1>4
<1>6. Listed(Merged(m, g))
  <2>1. \A q \in Seq(X) \cup Seq(Y) : q \in Seq(ToSet(q)) BY SeqOfOwn
  <2>2. QED BY <1>2, <1>5, <2>1 DEF Listed
<1>7. QED BY <1>1, <1>2, <1>4, <1>6 DEF X, more

LEMMA MergedIsWhole ==
  ASSUME NEW m, NEW g, Whole(m), Whole(g)
  PROVE  Whole(Merged(m, g))
<1> DEFINE K == Fresh(m, g)
           more == Pick(g.nodes, K)
           s == m.nodes
           t == g.nodes
           c == s \o more
           X == ToSet(s) \cup ToSet(t)
<1>1. /\ Merged(m, g).nodes = c /\ Listed(Merged(m, g))
      /\ s \in Seq(X) /\ t \in Seq(X) /\ more \in Seq(X)
  BY MergedShape DEF Whole
<1>2. K \in SUBSET DOMAIN t /\ Len(t) \in Nat /\ DOMAIN t = 1..Len(t)
  BY <1>1 DEF Fresh
<1>3. DOMAIN more = 1..Cardinality(K) BY <1>1, <1>2, PickType
<1>4. \A k \in DOMAIN more : Nth(K, k) \in K /\ more[k] = t[Nth(K, k)]
  <2>1. \A k \in 1..Cardinality(K) : Nth(K, k) \in K
    <3> HIDE DEF K
    <3>1. QED BY <1>2, NthIn
  <2>2. QED BY <1>3, <2>1 DEF Pick
<1>5. \A k \in DOMAIN more, i \in DOMAIN s : more[k][1] # s[i][1]
  BY <1>4 DEF Fresh, IdsOf
<1>6. \A k, l \in DOMAIN more : more[k][1] = more[l][1] => k = l
  <2> SUFFICES ASSUME NEW k \in DOMAIN more, NEW l \in DOMAIN more, more[k][1] = more[l][1]
               PROVE  k = l
    OBVIOUS
  <2>1. Nth(K, k) = Nth(K, l) BY <1>2, <1>4 DEF Whole
  <2> HIDE DEF K
  <2>2. QED BY <1>2, <1>3, <2>1, NthInjective
<1>7. /\ \A i \in DOMAIN s : i \in DOMAIN c /\ c[i] = s[i]
      /\ \A i \in DOMAIN more : Len(s) + i \in DOMAIN c /\ c[Len(s) + i] = more[i]
      /\ \A i \in DOMAIN c : i \in DOMAIN s \/ \E j \in DOMAIN more : i = Len(s) + j
  <2> HIDE DEF s, more, X
  <2>1. QED BY <1>1, ConcatElements
<1>8. \A i, j \in DOMAIN s : s[i][1] = s[j][1] => i = j BY DEF Whole
<1> HIDE DEF K, more, s, t, c, X
<1>9. ASSUME NEW i \in DOMAIN c, NEW j \in DOMAIN c, c[i][1] = c[j][1] PROVE i = j
  <2>1. CASE i \in DOMAIN s /\ j \in DOMAIN s BY <2>1, <1>7, <1>8, <1>9
  <2>2. CASE i \in DOMAIN s /\ j \notin DOMAIN s
    <3>1. PICK l \in DOMAIN more : j = Len(s) + l BY <1>7, <2>2
    <3>2. QED BY <1>5, <1>7, <1>9, <2>2, <3>1
  <2>3. CASE i \notin DOMAIN s /\ j \in DOMAIN s
    <3>1. PICK l \in DOMAIN more : i = Len(s) + l BY <1>7, <2>3
    <3>2. QED BY <1>5, <1>7, <1>9, <2>3, <3>1
  <2>4. CASE i \notin DOMAIN s /\ j \notin DOMAIN s
    <3>1. PICK k \in DOMAIN more : i = Len(s) + k BY <1>7, <2>4
    <3>2. PICK l \in DOMAIN more : j = Len(s) + l BY <1>7, <2>4
    <3>3. more[k][1] = more[l][1] BY <1>7, <1>9, <3>1, <3>2
    <3>4. QED BY <1>6, <3>1, <3>2, <3>3
  <2>5. QED BY <2>1, <2>2, <2>3, <2>4
<1>10. QED BY <1>1, <1>9 DEF Whole

LEMMA NodeOfIs ==
  ASSUME NEW g, Whole(g), NEW i \in DOMAIN g.nodes
  PROVE  NodeOf(g.nodes, g.nodes[i][1]) = g.nodes[i]
<1> DEFINE j == CHOOSE j \in DOMAIN g.nodes : g.nodes[j][1] = g.nodes[i][1]
<1>1. j \in DOMAIN g.nodes /\ g.nodes[j][1] = g.nodes[i][1] OBVIOUS
<1>2. j = i BY <1>1 DEF Whole
<1>3. QED BY <1>2 DEF NodeOf

(* A merge that nothing stops loses no node and no relation.               *)
LEMMA MergedHoldsBoth ==
  ASSUME NEW m, NEW g, Whole(m), Whole(g), NEW d, ~ Collides(m, g, d)
  PROVE  ToSet(Merged(m, g).nodes) = ToSet(m.nodes) \cup ToSet(g.nodes)
<1> DEFINE K == Fresh(m, g)
           more == Pick(g.nodes, K)
           X == ToSet(m.nodes) \cup ToSet(g.nodes)
<1>1. /\ Merged(m, g).nodes = m.nodes \o more
      /\ m.nodes \in Seq(X) /\ g.nodes \in Seq(X) /\ more \in Seq(X)
  BY MergedShape DEF Whole
<1>2. K \in SUBSET DOMAIN g.nodes BY DEF Fresh
<1> HIDE DEF X, K
<1>3. Values(more) = {g.nodes[i] : i \in K} BY <1>1, <1>2, PickValues
<1> HIDE DEF more
<1>4. ToSet(m.nodes \o more) = ToSet(m.nodes) \cup {g.nodes[i] : i \in K}
  <2>1. Values(m.nodes \o more) = Values(m.nodes) \cup Values(more) BY <1>1, ConcatValues
  <2>2. \A q : ToSet(q) = Values(q) BY DEF ToSet, Values
  <2>3. QED BY <1>3, <2>1, <2>2
<1>5. ASSUME NEW i \in DOMAIN g.nodes, i \notin K PROVE g.nodes[i] \in ToSet(m.nodes)
  <2>1. PICK j \in DOMAIN m.nodes : m.nodes[j][1] = g.nodes[i][1]
    BY <1>5 DEF K, Fresh, IdsOf
  <2>2. g.nodes[i][1] \in IdsOf(m.nodes) \cap IdsOf(g.nodes) BY <2>1 DEF IdsOf
  <2>3. NodeOf(m.nodes, g.nodes[i][1]) = NodeOf(g.nodes, g.nodes[i][1]) BY <2>2 DEF Collides
  <2>4. NodeOf(g.nodes, g.nodes[i][1]) = g.nodes[i] BY NodeOfIs
  <2>5. NodeOf(m.nodes, m.nodes[j][1]) = m.nodes[j] BY NodeOfIs
  <2>6. QED BY <2>1, <2>3, <2>4, <2>5 DEF ToSet
<1>6. QED BY <1>1, <1>2, <1>4, <1>5 DEF ToSet

(* Nodes are told apart by their ids, on both sides of a diff.             *)
LEMMA DiffUndoes ==
  ASSUME NEW old, NEW new, Whole(old), Whole(new)
  PROVE  LET d == Diff(old, new)
         IN  /\ ToSet(old.nodes) =
                  ((ToSet(new.nodes) \ d.added) \ {c[2] : c \in d.changed})
                    \cup d.removed \cup {c[1] : c \in d.changed}
             /\ ToSet(old.rels) = (ToSet(new.rels) \ d.addedRels) \cup d.removedRels
<1> DEFINE O == ToSet(old.nodes)
           N == ToSet(new.nodes)
           d == Diff(old, new)
           back == ((N \ d.added) \ {c[2] : c \in d.changed}) \cup d.removed \cup {c[1] : c \in d.changed}
<1>1. /\ \A x, y \in O : x[1] = y[1] => x = y
      /\ \A x, y \in N : x[1] = y[1] => x = y
      /\ \A id : id \in IdsOf(old.nodes) <=> \E x \in O : x[1] = id
      /\ \A id : id \in IdsOf(new.nodes) <=> \E x \in N : x[1] = id
  BY DEF Whole, ToSet, IdsOf
<1>2. /\ d.added = {n \in N \ O : n[1] \notin IdsOf(old.nodes)}
      /\ d.removed = {n \in O \ N : n[1] \notin IdsOf(new.nodes)}
      /\ d.changed = {c \in (O \ N) \X (N \ O) : c[1][1] = c[2][1]}
      /\ d.addedRels = ToSet(new.rels) \ ToSet(old.rels)
      /\ d.removedRels = ToSet(old.rels) \ ToSet(new.rels)
  BY DEF Diff
<1> HIDE DEF O, N, d
<1>3. \A x, y : <<x, y>> \in d.changed <=> x \in O \ N /\ y \in N \ O /\ x[1] = y[1]
  BY <1>2
<1>4. \A c \in d.changed : c[1] \in O \ N /\ c[2] \in N \ O /\ c[1][1] = c[2][1]
  BY <1>2
<1>5. ASSUME NEW x \in O PROVE x \in back
  <2>1. CASE x \in N BY <1>2, <1>4, <2>1
  <2>2. CASE x \notin N /\ x[1] \notin IdsOf(new.nodes) BY <1>2, <2>2
  <2>3. CASE x \notin N /\ x[1] \in IdsOf(new.nodes)
    <3>1. PICK y \in N : y[1] = x[1] BY <1>1, <2>3
    <3>2. y \notin O BY <1>1, <2>3, <3>1
    <3>3. <<x, y>> \in d.changed BY <1>3, <2>3, <3>1, <3>2
    <3>4. <<x, y>>[1] = x OBVIOUS
    <3>5. QED BY <3>3, <3>4
  <2>4. QED BY <2>1, <2>2, <2>3
<1>6. ASSUME NEW x \in back PROVE x \in O
  <2>1. CASE x \in d.removed \cup {c[1] : c \in d.changed} BY <1>2, <1>4, <2>1
  <2>2. CASE x \in N /\ x \notin d.added /\ x \notin {c[2] : c \in d.changed} /\ x \notin O
    <3>1. PICK y \in O : y[1] = x[1] BY <1>1, <1>2, <2>2
    <3>2. y \notin N BY <1>1, <2>2, <3>1
    <3>3. <<y, x>> \in d.changed BY <1>3, <2>2, <3>1, <3>2
    <3>4. <<y, x>>[2] = x OBVIOUS
    <3>5. x \in {c[2] : c \in d.changed} BY <3>3, <3>4
    <3>6. QED BY <2>2, <3>5
  <2>3. QED BY <2>1, <2>2
<1>7. O = back BY <1>5, <1>6
<1>8. ToSet(old.rels) = (ToSet(new.rels) \ d.addedRels) \cup d.removedRels BY <1>2
<1>9. QED BY <1>7, <1>8 DEF O, N, d

LEMMA SetToSeqLists ==
  ASSUME NEW S, IsFiniteSet(S)
  PROVE  SetToSeq(S) \in Seq(S)
<1>1. PICK n \in Nat : ExistsBijection(1..n, S) BY FS_NatBijection
<1>2. PICK f : f \in Bijection(1..n, S) BY <1>1 DEF ExistsBijection
<1>3. IsFiniteSet(1..n) /\ Cardinality(1..n) = IF 1 > n THEN 0 ELSE n - 1 + 1 BY FS_Interval
<1>4. Cardinality(S) = n
  <2>1. Cardinality(S) = Cardinality(1..n) BY <1>1, <1>3, FS_Bijection
  <2>2. QED BY <1>3, <2>1
<1>5. f \in [1..Cardinality(S) -> S] /\ IsInjective(f)
  BY <1>2, <1>4 DEF Bijection, Injection
<1>6. SetToSeq(S) \in [1..Cardinality(S) -> S]
  <2> DEFINE Fits(g) == g \in [1..Cardinality(S) -> S] /\ IsInjective(g)
  <2>1. \E g \in [1..Cardinality(S) -> S] : IsInjective(g) BY <1>5
  <2>2. QED BY <2>1 DEF SetToSeq
<1>7. QED BY <1>4, <1>6

(* The graph an analysis writes is made of finitely many nodes. *)
LEMMA WrittenIsListed ==
  ASSUME AnalysisInv, outcome = "written"
  PROVE  Listed(Written)
<1> DEFINE C == Contributing(reports, got)
           S == {<<id, merged.nodes[id]>> : id \in DOMAIN merged.nodes}
           D == {DOMAIN got[i].graph.nodes : i \in C}
<1>1. /\ got \in Seq(ToSet(got)) /\ \A i \in DOMAIN got : got[i].graph \in Graphs
      /\ DOMAIN merged.nodes = UNION D
  BY DEF AnalysisInv, LanguagesInv, MergedInv, Holds
<1>2. Len(got) \in Nat /\ C \in SUBSET (1..Len(got)) /\ DOMAIN got = 1..Len(got)
  BY <1>1 DEF Contributing
<1>3. IsFiniteSet(C)
  <2> HIDE DEF C
  <2>1. QED BY <1>2, PositionsFinite
<1>4. IsFiniteSet(D)
  <2> DEFINE f == [i \in C |-> DOMAIN got[i].graph.nodes]
  <2>1. f \in Surjection(C, D) BY DEF Surjection
  <2> HIDE DEF f, C, D
  <2>2. QED BY <1>3, <2>1, FS_Surjection
<1>5. \A T \in D : IsFiniteSet(T) BY <1>1, <1>2, GraphAssumption
<1> HIDE DEF D, C
<1>6. IsFiniteSet(DOMAIN merged.nodes) BY <1>1, <1>4, <1>5, FS_UNION
<1>7. IsFiniteSet(S)
  <2> DEFINE f == [id \in DOMAIN merged.nodes |-> <<id, merged.nodes[id]>>]
  <2>1. f \in Surjection(DOMAIN merged.nodes, S) BY DEF Surjection
  <2> HIDE DEF f, S
  <2>2. QED BY <1>6, <2>1, FS_Surjection
<1>8. Written.nodes = SetToSeq(S) /\ Written.rels = <<>> BY DEF Written
<1> HIDE DEF S
<1>9. Written.nodes \in Seq(S) BY <1>7, <1>8, SetToSeqLists
<1>10. Written.rels \in Seq({}) BY <1>8
<1>11. QED BY <1>9, <1>10, SeqOfOwn DEF Listed

-------------------------------------------------------------------------------
(* What a merge holds, and what a diff has printed. *)

MergedFrom(g, read) ==
  /\ ToSet(g.nodes) = UNION {ToSet(read[i].nodes) : i \in DOMAIN read}
  /\ g.rels = FlattenSeq([i \in DOMAIN read |-> read[i].rels])

Held(p) ==
  /\ Whole(acc[p])
  /\ \A g \in ToSet(taken[p]) : Whole(g)
  /\ job[p].command = "merge" => MergedFrom(acc[p], taken[p])
  /\ taken[p] = <<>> => acc[p] = EmptyGraph
  /\ pc[p] = "writing" => job[p].command # "diff"
  /\ job[p].command = "diff" /\ pc[p] = "done" =>
       Len(taken[p]) = 2 /\ delta[p] = Diff(taken[p][1], taken[p][2])

ListedText(file) == file \in {Missing, Torn, Rendered} \/ Listed(file)

HeldInv ==
  /\ delta = [p \in Procs |-> delta[p]]
  /\ \A f \in Files : ListedText(disk[f])
  /\ \A p \in Procs : Held(p)

LEMMA NothingMerged == MergedFrom(EmptyGraph, <<>>)
<1>1. DOMAIN <<>> = {} /\ ToSet(<<>>) = {} BY EmptyShape DEF ToSet
<1>2. [i \in DOMAIN <<>> |-> <<>>[i].rels] = <<>> BY <1>1
<1>3. FlattenSeq(<<>>) = <<>> BY DEF FlattenSeq
<1>4. UNION {ToSet(<<>>[i].nodes) : i \in DOMAIN <<>>} = {} BY <1>1
<1>5. EmptyGraph.nodes = <<>> /\ EmptyGraph.rels = <<>> BY DEF EmptyGraph
<1>6. QED BY <1>1, <1>2, <1>3, <1>4, <1>5 DEF MergedFrom

(* One more graph read and merged. *)
LEMMA MergedFromMore ==
  ASSUME NEW read, read \in Seq(ToSet(read)), NEW m, NEW g, NEW more,
         \A h \in ToSet(read) : Whole(h), Whole(g), MergedFrom(m, read),
         ToSet(more.nodes) = ToSet(m.nodes) \cup ToSet(g.nodes), more.rels = m.rels \o g.rels
  PROVE  MergedFrom(more, Append(read, g))
<1> DEFINE all == Append(read, g)
           n == Len(read)
           X == UNION {ToSet(h.rels) : h \in ToSet(read) \cup {g}}
           ss == [i \in DOMAIN read |-> read[i].rels]
           tt == [i \in DOMAIN all |-> all[i].rels]
<1>1. /\ DOMAIN all = DOMAIN read \cup {n + 1} /\ n + 1 \notin DOMAIN read
      /\ \A i \in DOMAIN read : all[i] = read[i]
      /\ all[n + 1] = g
      /\ n \in Nat /\ DOMAIN read = 1..n /\ DOMAIN all = 1..(n + 1)
  <2>1. n \in Nat /\ DOMAIN read = 1..n OBVIOUS
  <2>2. DOMAIN all = DOMAIN read \cup {n + 1} /\ n + 1 \notin DOMAIN read
        /\ (\A i \in DOMAIN read : all[i] = read[i]) /\ all[n + 1] = g
    BY AppendSet
  <2>3. 1..(n + 1) = 1..n \cup {n + 1} BY <2>1
  <2>4. QED BY <2>1, <2>2, <2>3
<1> HIDE DEF all, n
<1>2. \A h \in ToSet(read) \cup {g} : h.rels \in Seq(X)
  <2>1. SUFFICES ASSUME NEW h \in ToSet(read) \cup {g} PROVE h.rels \in Seq(X) OBVIOUS
  <2>2. h.rels \in Seq(ToSet(h.rels)) BY DEF Whole, Listed
  <2>3. ToSet(h.rels) \subseteq X OBVIOUS
  <2> HIDE DEF X
  <2>4. QED BY <2>2, <2>3
<1> HIDE DEF X
<1>3. \A i \in DOMAIN read : read[i] \in ToSet(read) BY DEF ToSet
<1>4. ss \in Seq(Seq(X)) /\ Len(ss) = n
  <2>1. ss \in [1..n -> Seq(X)] BY <1>1, <1>2, <1>3
  <2>2. QED BY <1>1, <2>1
<1>5. tt = Append(ss, g.rels)
  <2>1. Append(ss, g.rels) \in [1..(n + 1) -> Seq(X)]
    <3>1. g.rels \in Seq(X) BY <1>2
    <3> HIDE DEF ss
    <3>2. Append(ss, g.rels) \in Seq(Seq(X)) /\ Len(Append(ss, g.rels)) = n + 1 BY <1>4, <3>1
    <3> DEFINE q == Append(ss, g.rels)
    <3> HIDE DEF q
    <3>3. q \in Seq(Seq(X)) /\ Len(q) = n + 1 BY <3>2 DEF q
    <3>4. q \in [1..(n + 1) -> Seq(X)] BY <3>3
    <3>5. QED BY <3>4 DEF q
  <2>2. ASSUME NEW i \in 1..(n + 1) PROVE Append(ss, g.rels)[i] = tt[i]
    <3>1. CASE i \in 1..n
      <4>1. Append(ss, g.rels)[i] = ss[i] BY <1>1, <1>2, <1>4, <3>1
      <4>2. QED BY <4>1, <3>1, <1>1
    <3>2. CASE i = n + 1
      <4>1. Append(ss, g.rels)[i] = g.rels BY <1>1, <1>2, <1>4, <3>2
      <4>2. QED BY <4>1, <3>2, <1>1
    <3>3. QED BY <1>1, <3>1, <3>2
  <2>3. tt = [i \in 1..(n + 1) |-> tt[i]] BY <1>1
  <2> HIDE DEF ss, tt
  <2>4. QED BY <2>1, <2>2, <2>3
<1>6. m.rels = FlattenSeq(ss) BY DEF MergedFrom
<1>7. more.rels = FlattenSeq(tt)
  <2> HIDE DEF ss, tt
  <2>1. QED BY <1>2, <1>4, <1>5, <1>6, FlattenAppend
<1>8. ToSet(more.nodes) = UNION {ToSet(all[i].nodes) : i \in DOMAIN all}
  <2>1. ToSet(m.nodes) = UNION {ToSet(read[i].nodes) : i \in DOMAIN read} BY DEF MergedFrom
  <2>2. ASSUME NEW x
        PROVE  x \in ToSet(more.nodes) <=> \E i \in DOMAIN all : x \in ToSet(all[i].nodes)
    <3>1. x \in ToSet(more.nodes) <=> x \in ToSet(m.nodes) \/ x \in ToSet(g.nodes) OBVIOUS
    <3>2. x \in ToSet(m.nodes) <=> \E i \in DOMAIN read : x \in ToSet(read[i].nodes) BY <2>1
    <3>3. QED BY <1>1, <3>1, <3>2
  <2>3. QED BY <2>2
<1>9. MergedFrom(more, all) BY <1>7, <1>8 DEF MergedFrom
<1>10. QED BY <1>9 DEF all

LEMMA HeldStarts ==
  ASSUME ScriptInit
  PROVE  HeldInv
<1>1. /\ disk \in StartDisks /\ delta = [p \in Procs |-> NoDelta]
      /\ pc = [p \in Procs |-> "idle"] /\ taken = [p \in Procs |-> <<>>]
      /\ acc = [p \in Procs |-> EmptyGraph]
  BY DEF ScriptInit, Init
<1>2. \A f \in Files : ListedText(disk[f]) BY <1>1, DiskAssumption DEF SoundDisks, ListedText
<1>3. \A p \in Procs : Held(p)
  BY <1>1, EmptyIsWhole, EmptyShape, NothingMerged DEF Held
<1>4. QED BY <1>1, <1>2, <1>3 DEF HeldInv

LEMMA ReadHeld ==
  ASSUME FilesInv, HeldInv, NEW p \in Procs, Read(p)
  PROVE  HeldInv'
<1> DEFINE g == NextFile(p)
<1>1. /\ UNCHANGED <<disk, job, pc, delta>> /\ pc[p] = "reading"
      /\ taken' = [taken EXCEPT ![p] = Append(@, g)]
      /\ Readable(g)
      /\ job[p].command # "merge" => acc' = acc
      /\ job[p].command = "merge" /\ taken[p] = <<>> => acc' = [acc EXCEPT ![p] = g]
      /\ job[p].command = "merge" /\ taken[p] # <<>> =>
           ~ Collides(acc[p], g, job[p].disjoint) /\ acc' = [acc EXCEPT ![p] = Merged(@, g)]
  BY DEF Read
<1>2. ReadInv(p) /\ taken[p] \in Seq(ToSet(taken[p])) BY DEF FilesInv, CommandsInv, ReadInv
<1>3. Held(p) /\ \A q \in Procs : Held(q) BY DEF HeldInv
<1>4. /\ taken = [q \in Procs |-> taken[q]] /\ acc = [q \in Procs |-> acc[q]]
  BY DEF FilesInv, CommandsInv
<1>5. Whole(g)
  <2>1. Len(taken[p]) \in Nat BY <1>2
  <2>2. job[p].inputs \in Seq(Files) /\ Len(job[p].inputs) \in Nat
    BY <1>2, JobShape DEF ReadInv
  <2>3. Len(taken[p]) # Len(job[p].inputs) /\ Len(taken[p]) <= Len(job[p].inputs)
    BY <1>2 DEF Read, AllRead, ReadInv
  <2>4. Len(taken[p]) + 1 \in 1..Len(job[p].inputs) BY <2>1, <2>2, <2>3
  <2>5. ListedText(g) BY <2>2, <2>4 DEF NextFile, HeldInv
  <2> HIDE DEF g
  <2>6. Listed(g) BY <1>1, <2>5 DEF ListedText, Readable
  <2>7. QED BY <1>1, <2>6, ReadableIsWhole
<1> HIDE DEF g
<1>6. /\ taken'[p] = Append(taken[p], g) /\ taken'[p] # <<>>
      /\ ToSet(taken'[p]) = ToSet(taken[p]) \cup {g}
  <2>1. taken'[p] = Append(taken[p], g) BY <1>1, <1>4
  <2>2. DOMAIN Append(taken[p], g) = DOMAIN taken[p] \cup {Len(taken[p]) + 1}
        /\ ToSet(Append(taken[p], g)) = ToSet(taken[p]) \cup {g}
    BY <1>2, AppendSet
  <2>3. DOMAIN <<>> = {} OBVIOUS
  <2>4. QED BY <2>1, <2>2, <2>3
<1>7. Whole(acc'[p]) /\ (job[p].command = "merge" => MergedFrom(acc'[p], taken'[p]))
  <2>1. CASE job[p].command # "merge" BY <1>1, <1>3, <2>1 DEF Held
  <2>2. CASE job[p].command = "merge" /\ taken[p] # <<>>
    <3> DEFINE m == acc[p]
    <3>1. acc'[p] = Merged(m, g) /\ ~ Collides(m, g, job[p].disjoint) BY <1>1, <1>4, <2>2
    <3>2. /\ Whole(m) /\ MergedFrom(m, taken[p])
          /\ \A h \in ToSet(taken[p]) : Whole(h)
      BY <1>3, <2>2 DEF Held
    <3> HIDE DEF m
    <3>3. ToSet(Merged(m, g).nodes) = ToSet(m.nodes) \cup ToSet(g.nodes)
      BY <1>5, <3>1, <3>2, MergedHoldsBoth
    <3>4. Merged(m, g).rels = m.rels \o g.rels BY DEF Merged
    <3>5. MergedFrom(Merged(m, g), Append(taken[p], g))
      BY <1>2, <1>5, <3>2, <3>3, <3>4, MergedFromMore
    <3>6. Whole(Merged(m, g)) BY <1>5, <3>2, MergedIsWhole
    <3>7. QED BY <1>6, <3>1, <3>5, <3>6
  <2>3. CASE job[p].command = "merge" /\ taken[p] = <<>>
    <3>1. acc'[p] = g BY <1>1, <1>4, <2>3
    <3>2. MergedFrom(EmptyGraph, taken[p]) /\ (\A h \in ToSet(taken[p]) : Whole(h))
      BY <1>3, <2>3 DEF Held
    <3>3. /\ ToSet(g.nodes) = ToSet(EmptyGraph.nodes) \cup ToSet(g.nodes)
          /\ g.rels = EmptyGraph.rels \o g.rels
      <4>1. EmptyGraph.nodes = <<>> /\ EmptyGraph.rels = <<>> BY DEF EmptyGraph
      <4>2. g.rels \in Seq(ToSet(g.rels)) BY <1>5 DEF Whole, Listed
      <4>3. <<>> \o g.rels = g.rels BY <4>2, ConcatEmptySeq
      <4>4. QED BY <4>1, <4>3, EmptyShape
    <3>4. MergedFrom(g, Append(taken[p], g))
      BY <1>2, <1>5, <3>2, <3>3, MergedFromMore
    <3>5. QED BY <1>5, <1>6, <3>1, <3>4
  <2>4. QED BY <2>1, <2>2, <2>3
<1>8. Held(p)'
  BY <1>1, <1>3, <1>5, <1>6, <1>7 DEF Held
<1>9. \A q \in Procs \ {p} : Held(q)'
  <2>1. \A q \in Procs \ {p} : taken'[q] = taken[q] /\ acc'[q] = acc[q] BY <1>1, <1>4
  <2>2. QED BY <1>1, <1>3, <2>1 DEF Held
<1>10. QED BY <1>1, <1>8, <1>9 DEF HeldInv

LEMMA CommandHeld ==
  ASSUME FilesInv, HeldInv, Next
  PROVE  HeldInv'
<1>1. PICK p \in Procs : \/ \E j \in Jobs : Start(p, j)
                         \/ ReadFails(p) \/ Read(p) \/ CreateOutput(p) \/ Flush(p)
                         \/ RunDiff(p) \/ Kill(p)
  BY DEF Next
<1>2. \A q \in Procs : Held(q) BY DEF HeldInv
<1>3. /\ job = [q \in Procs |-> job[q]] /\ pc = [q \in Procs |-> pc[q]]
      /\ taken = [q \in Procs |-> taken[q]] /\ acc = [q \in Procs |-> acc[q]]
      /\ delta = [q \in Procs |-> delta[q]]
  BY DEF FilesInv, CommandsInv, HeldInv
<1>4. ASSUME NEW j \in Jobs, Start(p, j) PROVE HeldInv'
  <2>1. /\ disk' = disk /\ job' = [job EXCEPT ![p] = j] /\ pc' = [pc EXCEPT ![p] = "reading"]
        /\ taken' = [taken EXCEPT ![p] = <<>>] /\ acc' = [acc EXCEPT ![p] = EmptyGraph]
        /\ delta' = [delta EXCEPT ![p] = NoDelta]
    BY <1>4 DEF Start
  <2>2. Held(p)'
    BY <1>3, <2>1, EmptyIsWhole, EmptyShape, NothingMerged DEF Held
  <2>3. \A q \in Procs \ {p} : Held(q)' BY <1>2, <1>3, <2>1 DEF Held
  <2>4. QED BY <1>3, <2>1, <2>2, <2>3 DEF HeldInv
<1>5. CASE ReadFails(p) \/ Kill(p)
  <2>1. /\ UNCHANGED <<disk, job, taken, acc, delta>>
        /\ \E s \in {"failed", "idle"} : pc' = [pc EXCEPT ![p] = s]
    BY <1>5 DEF ReadFails, Fail, Kill
  <2>2. \A q \in Procs : Held(q)' BY <1>2, <1>3, <2>1 DEF Held
  <2>3. QED BY <2>1, <2>2 DEF HeldInv
<1>6. CASE Read(p) BY <1>6, ReadHeld
<1>7. CASE CreateOutput(p)
  <2>1. /\ disk' = [f \in Files |-> IF f = job[p].out THEN Torn ELSE disk[f]]
        /\ pc' = [pc EXCEPT ![p] = "writing"] /\ UNCHANGED <<job, taken, acc, delta>>
    BY <1>7 DEF CreateOutput
  <2>2. job[p].command # "diff" BY <1>7 DEF CreateOutput
  <2>3. Held(p)' /\ \A q \in Procs \ {p} : Held(q)' BY <1>2, <1>3, <2>1, <2>2 DEF Held
  <2>4. \A f \in Files : ListedText(disk'[f]) BY <2>1 DEF HeldInv, ListedText
  <2>5. QED BY <2>1, <2>3, <2>4 DEF HeldInv
<1>8. CASE Flush(p)
  <2>1. PICK text \in {IF job[p].command = "merge" THEN acc[p] ELSE Rendered} \cup {Torn} :
          disk' = [f \in Files |-> IF f = job[p].out THEN text ELSE disk[f]]
    BY <1>8 DEF Flush
  <2>2. ListedText(text) BY <1>2 DEF Held, Whole, ListedText
  <2>3. \A f \in Files : ListedText(disk'[f]) BY <2>1, <2>2 DEF HeldInv
  <2>4. /\ \E s \in {"done", "failed"} : pc' = [pc EXCEPT ![p] = s]
        /\ pc[p] = "writing" /\ UNCHANGED <<job, taken, acc, delta>>
    BY <1>8 DEF Flush
  <2>5. \A q \in Procs \ {p} : Held(q)' BY <1>2, <1>3, <2>4 DEF Held
  <2>6. job[p].command # "diff" BY <1>2, <2>4 DEF Held
  <2>7. Held(p)' BY <1>2, <1>3, <2>4, <2>6 DEF Held
  <2>8. QED BY <2>3, <2>4, <2>5, <2>7 DEF HeldInv
<1>9. CASE RunDiff(p)
  <2>1. /\ pc' = [pc EXCEPT ![p] = "done"] /\ AllRead(p) /\ job[p].command = "diff"
        /\ delta' = [delta EXCEPT ![p] = Diff(taken[p][1], taken[p][2])]
        /\ UNCHANGED <<disk, job, taken, acc>>
    BY <1>9 DEF RunDiff
  <2>2. job[p] \in Jobs BY DEF FilesInv, CommandsInv, ReadInv
  <2>3. Len(taken[p]) = 2
    <3>1. Len(job[p].inputs) = 2 BY <2>1, <2>2, JobAssumption
    <3>2. QED BY <2>1, <3>1 DEF AllRead
  <2>4. delta'[p] = Diff(taken[p][1], taken[p][2]) BY <1>3, <2>1
  <2>5. Held(p)' BY <1>2, <2>1, <2>3, <2>4 DEF Held
  <2>6. \A q \in Procs \ {p} : Held(q)' BY <1>2, <1>3, <2>1 DEF Held
  <2>7. QED BY <1>3, <2>1, <2>5, <2>6 DEF HeldInv
<1>10. QED BY <1>1, <1>4, <1>5, <1>6, <1>7, <1>8, <1>9

LEMMA OthersHeld ==
  ASSUME HeldInv, UNCHANGED <<job, pc, taken, acc, delta>>, \A f \in Files : ListedText(disk'[f])
  PROVE  HeldInv'
BY DEF HeldInv, Held
LEMMA HeldStep ==
  ASSUME AnalysisInv, FilesInv, HeldInv, [ScriptNext]_scriptVars
  PROVE  HeldInv'
<1>1. \A f \in Files : ListedText(disk[f]) BY DEF HeldInv
<1>2. disk = [f \in Files |-> disk[f]] BY DEF FilesInv, DiskInv
<1>3. CASE Command BY <1>3, CommandHeld DEF Command
<1>4. CASE Analyse \/ KillAnalysis \/ UNCHANGED scriptVars
  <2>1. UNCHANGED vars BY <1>4 DEF Analyse, KillAnalysis, scriptVars
  <2>2. UNCHANGED <<disk, job, pc, taken, acc, delta>> BY <2>1 DEF vars
  <2>3. QED BY <1>1, <2>2, OthersHeld
<1>5. CASE OpenFile
  <2>1. disk' = [disk EXCEPT ![AnalysisFile] = Torn] /\ UNCHANGED <<job, pc, taken, acc, delta>>
    BY <1>5 DEF OpenFile
  <2>2. \A f \in Files : ListedText(disk'[f]) BY <1>1, <1>2, <2>1 DEF ListedText
  <2>3. QED BY <2>1, <2>2, OthersHeld
<1>6. CASE WriteFile
  <2>1. /\ output = "opened" /\ UNCHANGED <<job, pc, taken, acc, delta>>
        /\ \E text \in {Written, Torn} : disk' = [disk EXCEPT ![AnalysisFile] = text]
    BY <1>6 DEF WriteFile
  <2>2. outcome = "written" BY <2>1 DEF FilesInv, OutputInv
  <2>3. ListedText(Written) /\ ListedText(Torn) BY <2>2, WrittenIsListed DEF ListedText
  <2>4. \A f \in Files : ListedText(disk'[f]) BY <1>1, <1>2, <2>1, <2>3
  <2>5. QED BY <2>1, <2>4, OthersHeld
<1>7. QED BY <1>3, <1>4, <1>5, <1>6 DEF ScriptNext

LEMMA HeldAlways == ScriptSpec => []HeldInv
<1>1. ScriptInit => HeldInv BY HeldStarts
<1>2. AnalysisInv /\ FilesInv /\ HeldInv /\ [ScriptNext]_scriptVars => HeldInv' BY HeldStep
<1>3. QED BY <1>1, <1>2, AnalysisAlways, FilesAlways, PTL DEF ScriptSpec

(* Whatever files a merge reads while others write them, what it holds is  *)
(* all of what it has read, each node once and every relation in order.    *)
THEOREM MergeLosesNothing == ScriptSpec => []MergeHoldsItsInputs
<1>1. HeldInv => MergeHoldsItsInputs
  <2> SUFFICES ASSUME HeldInv, NEW p \in Procs, job[p].command = "merge"
               PROVE  /\ ToSet(acc[p].nodes) = UNION {ToSet(taken[p][i].nodes) : i \in DOMAIN taken[p]}
                      /\ Cardinality(IdsOf(acc[p].nodes)) = Len(acc[p].nodes)
                      /\ acc[p].rels = FlattenSeq([i \in DOMAIN taken[p] |-> taken[p][i].rels])
    BY DEF MergeHoldsItsInputs
  <2>1. Whole(acc[p]) /\ MergedFrom(acc[p], taken[p]) BY DEF HeldInv, Held
  <2>2. Cardinality(IdsOf(acc[p].nodes)) = Len(acc[p].nodes)
    BY <2>1, ReadableIsWhole DEF Whole
  <2>3. QED BY <2>1, <2>2 DEF MergedFrom
<1>2. QED BY <1>1, HeldAlways, PTL

(* What diff prints is enough to get the old graph back from the new one,  *)
(* whatever the two graphs read from the files.                            *)
THEOREM DiffsCanBeUndone == ScriptSpec => []DiffReconstructs
<1>1. FilesInv /\ HeldInv => DiffReconstructs
  <2> SUFFICES ASSUME FilesInv, HeldInv, NEW p \in Procs, job[p].command = "diff", pc[p] = "done"
               PROVE  LET old == taken[p][1]
                          new == taken[p][2]
                          d == delta[p]
                      IN  /\ ToSet(old.nodes) =
                               ((ToSet(new.nodes) \ d.added) \ {c[2] : c \in d.changed})
                                 \cup d.removed \cup {c[1] : c \in d.changed}
                          /\ ToSet(old.rels) = (ToSet(new.rels) \ d.addedRels) \cup d.removedRels
    BY DEF DiffReconstructs
  <2>1. /\ \A g \in ToSet(taken[p]) : Whole(g)
        /\ Len(taken[p]) = 2 /\ delta[p] = Diff(taken[p][1], taken[p][2])
    BY DEF HeldInv, Held
  <2>2. taken[p] \in Seq(ToSet(taken[p])) BY DEF FilesInv, CommandsInv, ReadInv
  <2>3. Whole(taken[p][1]) /\ Whole(taken[p][2]) BY <2>1, <2>2
  <2>4. QED BY <2>1, <2>3, DiffUndoes
<1>2. QED BY <1>1, FilesAlways, HeldAlways, PTL

-------------------------------------------------------------------------------
(* Adding the counters up, and adding up what the history holds, gives the *)
(* same total when the counters are those of the history.                  *)
LEMMA CountersTotal ==
  ASSUME NEW c \in Seq(Int)
  PROVE  A!FoldLeft(LAMBDA n, count : n + count, 0, c) = Total(c, Len(c))
<1> DEFINE N == Len(c)
           Is(f) == f = [s \in SUBSET (1..N) |->
                           IF s = {} THEN 0 ELSE f[s \ {Greatest(s)}] + c[Greatest(s)]]
           iter == CHOOSE f : Is(f)
<1>1. N \in Nat /\ DOMAIN c = 1..N /\ c \in [1..N -> Int] OBVIOUS
<1>2. A!FoldLeft(LAMBDA n, count : n + count, 0, c) = iter[1..N]
  BY <1>1 DEF A!FoldLeft, A!MapThenFoldSet, A!Max, Greatest
<1>3. \E f : Is(f) BY <1>1, SumsExist DEF Sums
<1>4. Is(iter)
  <2> HIDE DEF Is
  <2>1. QED BY <1>3
<1>5. Sums(iter, N, c) BY <1>4 DEF Sums
<1> HIDE DEF iter, N
<1>6. QED BY <1>1, <1>2, <1>5, TotalIs DEF N

LEMMA HistoryTotal ==
  ASSUME NEW gs, gs \in Seq(ToSet(gs)), NEW c \in Seq(Int), Len(c) = Len(gs),
         \A i \in DOMAIN gs : c[i] = gs[i].graph.queries
  PROVE  A!FoldLeft(LAMBDA n, x : n + x.graph.queries, 0, gs) = Total(c, Len(c))
<1> DEFINE N == Len(gs)
           Is(f) == f = [s \in SUBSET (1..N) |->
                           IF s = {} THEN 0 ELSE f[s \ {Greatest(s)}] + gs[Greatest(s)].graph.queries]
           iter == CHOOSE f : Is(f)
<1>1. N \in Nat /\ DOMAIN gs = 1..N /\ c \in [1..N -> Int] OBVIOUS
<1>2. A!FoldLeft(LAMBDA n, x : n + x.graph.queries, 0, gs) = iter[1..N]
  BY <1>1 DEF A!FoldLeft, A!MapThenFoldSet, A!Max, Greatest
<1>3. \A s \in SUBSET (1..N) : s # {} => c[Greatest(s)] = gs[Greatest(s)].graph.queries
  <2> SUFFICES ASSUME NEW s \in SUBSET (1..N), s # {}
               PROVE  c[Greatest(s)] = gs[Greatest(s)].graph.queries
    OBVIOUS
  <2>1. Greatest(s) \in s BY <1>1, GreatestIs
  <2>2. QED BY <1>1, <2>1
<1>4. \A f : Is(f) <=> Sums(f, N, c)
  <2> SUFFICES ASSUME NEW f PROVE Is(f) <=> Sums(f, N, c) OBVIOUS
  <2>1. [s \in SUBSET (1..N) |->
           IF s = {} THEN 0 ELSE f[s \ {Greatest(s)}] + gs[Greatest(s)].graph.queries] =
        [s \in SUBSET (1..N) |-> IF s = {} THEN 0 ELSE f[s \ {Greatest(s)}] + c[Greatest(s)]]
    BY <1>3
  <2>2. QED BY <2>1 DEF Sums
<1>5. Is(iter)
  <2>1. \E f : Is(f)
    <3> HIDE DEF Is
    <3>1. QED BY <1>1, <1>4, SumsExist
  <2> HIDE DEF Is
  <2>2. QED BY <2>1
<1>6. Sums(iter, N, c)
  <2> HIDE DEF Is, iter
  <2>1. QED BY <1>4, <1>5
<1> HIDE DEF iter, N
<1>7. QED BY <1>1, <1>2, <1>6, TotalIs DEF N

(* The total of one number. *)
LEMMA OneTotal ==
  ASSUME NEW c \in Seq(Int), NEW n \in Nat, n = 1, Len(c) = n
  PROVE  Total(c, n) = c[1]
<1>1. c \in [1..n -> Int] /\ c[1] \in Int OBVIOUS
<1>2. PICK f : Sums(f, n, c) BY <1>1, SumsExist
<1>3. f[1..n] = 0 + c[1] BY <1>2, OneSum
<1>4. f[1..n] = c[1] BY <1>1, <1>3
<1>5. QED BY <1>1, <1>2, <1>4, TotalIs

(* The counters are those of the history, whatever collided; until the     *)
(* sums are put in, the first graph merged has its own.                    *)
CountersInv ==
  /\ counters \in Seq(Int) /\ Len(counters) = Len(got)
  /\ \A i \in DOMAIN got : counters[i] = got[i].graph.queries
  /\ outcome = "running" /\ got = <<>> => merged = Unset
  /\ outcome = "running" /\ Len(got) = 1 => merged # Unset /\ merged.queries = got[1].graph.queries
  /\ outcome = "written" => merged.queries = Total(counters, Len(counters))

LEMMA CountersStart ==
  ASSUME A!Init
  PROVE  CountersInv
<1>1. counters = <<>> /\ got = <<>> /\ merged = Unset /\ outcome = "running" BY DEF A!Init
<1>2. QED BY <1>1 DEF CountersInv

LEMMA CountersUnchanged ==
  ASSUME CountersInv, UNCHANGED analysisVars
  PROVE  CountersInv'
BY DEF CountersInv, analysisVars

LEMMA CountersAnalyze ==
  ASSUME AnalysisInv, CountersInv, NEW g \in Graphs, A!Analyze(g)
  PROVE  CountersInv'
<1> DEFINE e == [language |-> Head(todo), graph |-> g]
           n == Len(got) + 1
<1>1. /\ outcome = "running" /\ outcome' = outcome
      /\ counters' = Append(counters, g.queries) /\ got' = Append(got, e)
      /\ A!MergeInto(g)
  BY DEF A!Analyze
<1>2. got \in Seq(ToSet(got)) /\ Len(got) \in Nat /\ DOMAIN got = 1..Len(got)
  BY DEF AnalysisInv, LanguagesInv
<1>3. g.queries \in Int BY GraphAssumption
<1>4. /\ got' \in Seq(ToSet(got')) /\ DOMAIN got' = DOMAIN got \cup {n} /\ n \notin DOMAIN got
      /\ \A i \in DOMAIN got : got'[i] = got[i]
      /\ got'[n] = e
  BY <1>1, <1>2, AppendSet
<1>5. e.graph = g OBVIOUS
<1> HIDE DEF e
<1>6. Len(got') = n BY <1>1, <1>2
<1>7. /\ counters' \in Seq(Int) /\ Len(counters') = n /\ counters'[n] = g.queries
      /\ \A i \in DOMAIN got : counters'[i] = counters[i]
  BY <1>1, <1>2, <1>3 DEF CountersInv
<1>8. \A i \in DOMAIN got' : counters'[i] = got'[i].graph.queries
  BY <1>4, <1>5, <1>7 DEF CountersInv
<1>9. got' # <<>> BY <1>2, <1>6, EmptySeq
<1>10. ASSUME Len(got') = 1 PROVE merged' # Unset /\ merged'.queries = got'[1].graph.queries
  <2>1. n = 1 /\ got = <<>>
    <3>1. Len(got) + 1 = 1 BY <1>6, <1>10
    <3>2. Len(got) = 0 BY <1>2, <3>1
    <3>3. n = 1 BY <3>2
    <3>4. QED BY <1>2, <3>2, <3>3, EmptySeq
  <2>2. merged = Unset BY <1>1, <2>1 DEF CountersInv
  <2>3. merged' = g BY <1>1, <2>2 DEF A!MergeInto
  <2>4. g # Unset BY GraphAssumption
  <2>5. got'[1] = e BY <1>4, <2>1
  <2>6. QED BY <1>5, <2>3, <2>4, <2>5
<1>11. QED BY <1>1, <1>6, <1>7, <1>8, <1>9, <1>10 DEF CountersInv

LEMMA CountersFinish ==
  ASSUME AnalysisInv, CountersInv, A!Finish
  PROVE  CountersInv'
<1>1. /\ outcome = "running" /\ outcome' # "running"
      /\ merged' = (IF merged = Unset THEN Unset ELSE A!Summed(merged))
      /\ outcome' = "written" => merged # Unset
      /\ counters' = counters /\ got' = got
  BY DEF A!Finish
<1>2. /\ counters \in Seq(Int) /\ Len(counters) = Len(got) /\ Len(counters) \in Nat
      /\ \A i \in DOMAIN got : counters[i] = got[i].graph.queries
      /\ got = <<>> => merged = Unset
      /\ Len(got) = 1 => merged.queries = got[1].graph.queries
  BY <1>1 DEF CountersInv
<1>3. merged # Unset => merged \in GraphRecords BY <1>1 DEF AnalysisInv, MergedInv
<1>4. ASSUME merged # Unset PROVE A!Summed(merged).queries = Total(counters, Len(counters))
  <2>1. CASE Len(counters) > 1
    <3>1. \A q : [merged EXCEPT !.queries = q].queries = q BY <1>3, <1>4 DEF GraphRecords
    <3>2. A!Summed(merged).queries = A!FoldLeft(LAMBDA n, count : n + count, 0, counters)
      BY <2>1, <3>1 DEF A!Summed
    <3>3. QED BY <1>2, <3>2, CountersTotal
  <2>2. CASE ~ (Len(counters) > 1)
    <3>1. got \in Seq(ToSet(got)) /\ Len(got) # 0
      BY <1>2, <1>4, EmptySeq DEF AnalysisInv, LanguagesInv
    <3>2. Len(counters) = 1 /\ 1 \in DOMAIN got BY <1>2, <2>2, <3>1
    <3>3. Total(counters, Len(counters)) = counters[1] BY <1>2, <3>2, OneTotal
    <3>4. A!Summed(merged) = merged BY <2>2 DEF A!Summed
    <3>5. QED BY <1>2, <3>2, <3>3, <3>4
  <2>3. QED BY <2>1, <2>2
<1>5. outcome' = "written" => merged'.queries = Total(counters, Len(counters)) BY <1>1, <1>4
<1>6. QED BY <1>1, <1>2, <1>5 DEF CountersInv

LEMMA CountersStep ==
  ASSUME AnalysisInv, CountersInv, [ScriptNext]_scriptVars
  PROVE  CountersInv'
<1>1. CASE A!AnalyzeFails
  <2>1. UNCHANGED <<counters, got, merged, outcome>> BY <1>1 DEF A!AnalyzeFails
  <2>2. QED BY <2>1 DEF CountersInv
<1>2. CASE A!Next
  BY <1>1, <1>2, CountersAnalyze, CountersFinish DEF A!Next
<1>3. CASE UNCHANGED analysisVars BY <1>3, CountersUnchanged
<1>4. QED
  BY <1>2, <1>3 DEF ScriptNext, scriptVars, Analyse, OpenFile, WriteFile, KillAnalysis, Command

(* When no graph is refused, resolver_metrics of the graph written add up  *)
(* what every adapter counted.                                             *)
THEOREM NoCountIsLost == ScriptSpec => []MetricsAreSums
<1>1. AnalysisInv /\ CountersInv => MetricsAreSums
  <2> SUFFICES ASSUME AnalysisInv, CountersInv, outcome = "written"
               PROVE  merged.queries = A!FoldLeft(LAMBDA n, x : n + x.graph.queries, 0, got)
    BY DEF MetricsAreSums, A!MetricsAreSums
  <2>1. got \in Seq(ToSet(got)) BY DEF AnalysisInv, LanguagesInv
  <2>2. /\ counters \in Seq(Int) /\ Len(counters) = Len(got)
        /\ \A i \in DOMAIN got : counters[i] = got[i].graph.queries
        /\ merged.queries = Total(counters, Len(counters))
    BY DEF CountersInv
  <2>3. QED BY <2>1, <2>2, HistoryTotal
<1>2. ScriptInit => CountersInv BY CountersStart DEF ScriptInit
<1>3. AnalysisInv /\ CountersInv /\ [ScriptNext]_scriptVars => CountersInv' BY CountersStep
<1>4. QED BY <1>1, <1>2, <1>3, AnalysisAlways, PTL DEF ScriptSpec
===============================================================================
