------------------------ MODULE AdapterPipeline_proofs ------------------------
(***************************************************************************)
(* Of every tree, every list of use-sites and every answer: the metrics of *)
(* a graph count its own edges, an answer is bound to the occurrence it    *)
(* was given for, and the status covers the resolver's state throughout.   *)
(*                                                                         *)
(* The first two are one induction over the passes.  An invariant says     *)
(* that the graph is the union of what each pass wrote for its own list of *)
(* occurrences (`got` keeps the answers); edges are told apart by the pass *)
(* and the occurrence, so a pass adds to each counter exactly the edges it *)
(* adds to the graph.                                                      *)
(*                                                                         *)
(* The last two are the halves of what the value-flow pass promises: an    *)
(* edge ends only where every set of pairs closed under the facts has it,  *)
(* and no chain of facts within the cap on hops is missed.                 *)
(***************************************************************************)
EXTENDS AdapterPipeline, Positions_proofs, SequenceTheorems

-------------------------------------------------------------------------------
(* What the backend is allowed to answer. *)

LEMMA AllAnswersRecur ==
  ASSUME NEW T, NEW occs \in Seq(T)
  PROVE  \E first : /\ AllAnswers(occs) = first[Len(occs)]
                    /\ first[0] = {<<>>}
                    /\ \A i \in 1..Len(occs) :
                         first[i] = {Append(z[1], z[2]) : z \in first[i - 1] \X Answers(occs[i])}
<1> DEFINE U == UNION {Answers(occs[i]) : i \in 1..Len(occs)}
           S == SUBSET Seq(U)
           h == [p \in (1..Len(occs)) \X S |-> {Append(z[1], z[2]) : z \in p[2] \X Answers(occs[p[1]])}]
           Is(f) == f = [i \in 0..Len(occs) |->
                          IF i = 0 THEN {<<>>}
                          ELSE {Append(z[1], z[2]) : z \in f[i - 1] \X Answers(occs[i])}]
           first == CHOOSE f : Is(f)
<1>1. Len(occs) \in Nat /\ DOMAIN occs = 1..Len(occs) OBVIOUS
<1>2. {<<>>} \in S OBVIOUS
<1>3. \A k \in 1..Len(occs) : \A x \in S :
        h[<<k, x>>] = {Append(z[1], z[2]) : z \in x \X Answers(occs[k])}
  OBVIOUS
<1>4. ASSUME NEW k \in 1..Len(occs), NEW x \in S PROVE h[<<k, x>>] \in S
  <2>1. h[<<k, x>>] = {Append(z[1], z[2]) : z \in x \X Answers(occs[k])} BY <1>3
  <2>2. Answers(occs[k]) \subseteq U OBVIOUS
  <2>3. \A z \in x \X Answers(occs[k]) : Append(z[1], z[2]) \in Seq(U) BY <2>2
  <2>4. QED BY <2>1, <2>3
<1>5. \E f : Is(f)
  <2>1. PICK f \in [0..Len(occs) -> S] : Recurs(f, Len(occs), {<<>>}, h)
    <3> HIDE DEF S, h
    <3>1. QED BY <1>1, <1>2, <1>4, RecursionExists
  <2>2. ASSUME NEW i \in 0..Len(occs)
        PROVE  f[i] = IF i = 0 THEN {<<>>}
                      ELSE {Append(z[1], z[2]) : z \in f[i - 1] \X Answers(occs[i])}
    <3>1. CASE i = 0 BY <2>1, <3>1 DEF Recurs
    <3>2. CASE i # 0
      <4>1. i \in 1..Len(occs) /\ i - 1 \in 0..Len(occs) BY <3>2, <1>1
      <4>2. f[i - 1] \in S BY <4>1
      <4>3. f[i] = h[<<i, f[i - 1]>>] BY <4>1, <2>1 DEF Recurs
      <4> HIDE DEF S, h
      <4>4. QED BY <4>1, <4>2, <4>3, <3>2, <1>3
    <3>3. QED BY <3>1, <3>2
  <2>3. Is(f) BY <2>2
  <2>4. QED BY <2>3
<1>6. Is(first)
  <2> HIDE DEF Is
  <2>1. QED BY <1>5
<1>7. AllAnswers(occs) = first[Len(occs)] BY DEF AllAnswers
<1>8. first[0] = {<<>>}
  <2> HIDE DEF first
  <2>1. 0 \in 0..Len(occs) BY <1>1
  <2>2. QED BY <1>6, <2>1
<1>9. \A i \in 1..Len(occs) :
        first[i] = {Append(z[1], z[2]) : z \in first[i - 1] \X Answers(occs[i])}
  <2> HIDE DEF first
  <2>1. \A i \in 1..Len(occs) : i \in 0..Len(occs) /\ i # 0 BY <1>1
  <2>2. QED BY <1>6, <2>1
<1>10. QED BY <1>7, <1>8, <1>9

LEMMA AnswersMatch ==
  ASSUME NEW T, NEW occs \in Seq(T), NEW truth \in AllAnswers(occs)
  PROVE  /\ \E U : truth \in Seq(U)
         /\ Len(truth) = Len(occs) /\ DOMAIN truth = DOMAIN occs
         /\ \A i \in DOMAIN occs : truth[i] \in Answers(occs[i])
<1>1. PICK first : /\ AllAnswers(occs) = first[Len(occs)]
                   /\ first[0] = {<<>>}
                   /\ \A i \in 1..Len(occs) :
                        first[i] = {Append(z[1], z[2]) : z \in first[i - 1] \X Answers(occs[i])}
  BY AllAnswersRecur
<1> DEFINE U == UNION {Answers(occs[i]) : i \in 1..Len(occs)}
           Fits(z, k) == /\ z \in Seq(U) /\ Len(z) = k
                         /\ \A i \in 1..k : z[i] \in Answers(occs[i])
           Off == {k \in 0..Len(occs) : ~ \A z \in first[k] : Fits(z, k)}
<1>2. Len(occs) \in Nat /\ DOMAIN occs = 1..Len(occs) OBVIOUS
<1>3. Off = {}
  <2>1. SUFFICES ASSUME Off # {} PROVE FALSE OBVIOUS
  <2>2. PICK m \in Off : \A y \in Off : m <= y
    <3>1. Off \in SUBSET Nat OBVIOUS
    <3> HIDE DEF Off
    <3>2. QED BY <2>1, <3>1, LeastNat
  <2>3. m # 0
    <3>1. Fits(<<>>, 0) OBVIOUS
    <3> HIDE DEF Fits
    <3>2. QED BY <3>1, <1>1
  <2>4. m \in 1..Len(occs) /\ m - 1 \in 0..Len(occs) /\ ~ (m <= m - 1) BY <2>3, <1>2
  <2>5. \A z \in first[m - 1] : Fits(z, m - 1) BY <2>2, <2>4
  <2>6. ASSUME NEW z \in first[m] PROVE Fits(z, m)
    <3>0. first[m] = {Append(y[1], y[2]) : y \in first[m - 1] \X Answers(occs[m])}
      <4> HIDE DEF Off
      <4>1. QED BY <1>1, <2>4
    <3>1. PICK y \in first[m - 1] \X Answers(occs[m]) : z = Append(y[1], y[2])
      <4> HIDE DEF Off, Fits, U
      <4>1. QED BY <3>0
    <3>2. y[1] \in first[m - 1] /\ y[2] \in Answers(occs[m]) BY <3>1
    <3>3. y[1] \in Seq(U) /\ Len(y[1]) = m - 1 /\ \A i \in 1..(m - 1) : y[1][i] \in Answers(occs[i])
      BY <2>5, <3>2
    <3>4. y[2] \in U BY <2>4, <3>2
    <3>5. /\ z \in Seq(U) /\ Len(z) = m
          /\ \A i \in 1..(m - 1) : z[i] = y[1][i]
          /\ z[m] = y[2]
      <4> HIDE DEF U
      <4>1. QED BY <3>1, <3>3, <3>4, <2>4
    <3>6. \A i \in 1..m : z[i] \in Answers(occs[i])
      <4>1. \A i \in 1..m : i = m \/ i \in 1..(m - 1) BY <2>4
      <4> HIDE DEF U
      <4>2. QED BY <4>1, <3>2, <3>3, <3>5
    <3>7. QED BY <3>5, <3>6
  <2>7. QED BY <2>6
<1>4. Fits(truth, Len(occs))
  <2> HIDE DEF Fits
  <2>1. Len(occs) \in 0..Len(occs) BY <1>2
  <2>2. \A z \in first[Len(occs)] : Fits(z, Len(occs)) BY <1>3, <2>1
  <2>3. QED BY <1>1, <2>2
<1>5. DOMAIN truth = 1..Len(truth)
  <2> HIDE DEF U
  <2>1. QED BY <1>4
<1>6. QED BY <1>2, <1>4, <1>5

LEMMA OutcomeCases ==
  ASSUME NEW o, NEW ref
  PROVE  /\ Outcome(o, ref) \in {"own", "unplaced", "unanswered", "declares", "dropped", "followed", "edge"}
         /\ Outcome(o, ref) \in {"own", "unplaced"} <=>
              o.use \in Own \/ (o.use = "decorate" /\ ref = Unset)
         /\ Outcome(o, ref) = "edge" => o.use \notin Own
         /\ Outcome(o, ref) = "edge" => ref # Unset
BY DEF Outcome, Own

LEMMA BoundCases ==
  ASSUME order \in Orders, NEW ref
  PROVE  /\ Bound(ref) # Unset => /\ Bound(ref) = ref.at /\ ref.at \in DOMAIN KindOf
                                  /\ ref.origin = "internal" /\ ref.at \in Spans
         /\ Bound(ref) = Unset => ~ (ref.origin = "internal" /\ ref.at \in Spans)
<1>1. Spans \subseteq DOMAIN KindOf
  <2>1. \A i \in DOMAIN order : order[i] \in DOMAIN UseSites BY OrdersAssumption
  <2>2. \A r \in ToSet(order) : Structure[r] \subseteq DOMAIN KindOf
    BY <2>1, StructureAssumption DEF ToSet
  <2>3. QED BY <2>2 DEF Spans
<1>2. Unset \notin Spans BY <1>1, StructureAssumption
<1>3. QED BY <1>1, <1>2 DEF Bound

(* The k-th pass, with an answer for each occurrence. *)
PassOf(occs, refs, k) ==
  /\ k \in DOMAIN order /\ occs \in UseSites[order[k]]
  /\ DOMAIN refs = DOMAIN occs /\ Len(refs) = Len(occs)
  /\ \A i \in DOMAIN occs : refs[i] \in Answers(occs[i])

LEMMA PassShape ==
  ASSUME order \in Orders, NEW occs, NEW refs, NEW k, PassOf(occs, refs, k)
  PROVE  /\ order[k] \in DOMAIN UseSites
         /\ occs \in Seq(ToSet(occs)) /\ Len(occs) \in Nat /\ DOMAIN occs = 1..Len(occs)
         /\ Paired(occs, refs) = DOMAIN occs
<1>1. order[k] \in DOMAIN UseSites BY OrdersAssumption DEF PassOf
<1>2. occs \in Seq(ToSet(occs)) BY <1>1, UseSitesAssumption DEF PassOf
<1>3. Len(occs) \in Nat /\ DOMAIN occs = 1..Len(occs) BY <1>2
<1>4. Paired(occs, refs) = DOMAIN occs BY <1>3 DEF Paired, PassOf
<1>5. QED BY <1>1, <1>2, <1>3, <1>4

(* Where an edge of a pass ends. *)
LEMMA EdgeEnds ==
  ASSUME order \in Orders, NEW occs, NEW refs, NEW k, PassOf(occs, refs, k),
         NEW i \in With(occs, refs, "edge")
  PROVE  /\ i \in DOMAIN occs /\ occs[i].use \notin Own /\ refs[i] # Unset
         /\ Bound(refs[i]) # Unset =>
              /\ EdgeOf(occs[i], refs[i], k, i).tgt = refs[i].at
              /\ refs[i].at \in DOMAIN KindOf
         /\ Bound(refs[i]) = Unset =>
              /\ EdgeOf(occs[i], refs[i], k, i).tgt = Symbol(occs[i], refs[i], order[k])
              /\ Symbol(occs[i], refs[i], order[k]) \notin DOMAIN KindOf
<1>1. i \in DOMAIN occs /\ Outcome(occs[i], refs[i]) = "edge" BY PassShape DEF With
<1>2. occs[i].use \notin Own /\ refs[i] # Unset BY <1>1, OutcomeCases
<1>3. Bound(refs[i]) # Unset => Bound(refs[i]) = refs[i].at /\ refs[i].at \in DOMAIN KindOf
  BY BoundCases
<1>4. Symbol(occs[i], refs[i], order[k]) \notin DOMAIN KindOf
  <2>1. refs[i] \in Answers(occs[i]) \ {Unset} BY <1>1, <1>2 DEF PassOf
  <2>2. order[k] \in DOMAIN UseSites /\ occs \in UseSites[order[k]] BY PassShape DEF PassOf
  <2>3. QED BY <1>1, <2>1, <2>2, SymbolsAssumption
<1>5. EdgeOf(occs[i], refs[i], k, i).tgt =
        IF Bound(refs[i]) = Unset THEN Symbol(occs[i], refs[i], order[k]) ELSE Bound(refs[i])
  BY DEF EdgeOf
<1>6. QED BY <1>1, <1>2, <1>3, <1>4, <1>5

AtNode(es) == {e \in es : e.tgt \in DOMAIN KindOf}
AtSymbol(es) == {e \in es : e.tgt \notin DOMAIN KindOf}
AtValue(es) == {e \in es : e.how = "value"}
Unlocated(es) == {e \in es : e.how = "unlocated"}

(* As many edges end at a node as answers were bound, and the others end   *)
(* at symbols.                                                             *)
LEMMA EdgesCounted ==
  ASSUME order \in Orders, NEW occs, NEW refs, NEW k, PassOf(occs, refs, k)
  PROVE  /\ IsFiniteSet(Written(occs, refs, k))
         /\ Cardinality(AtNode(Written(occs, refs, k)))
              = Cardinality({i \in With(occs, refs, "edge") : Bound(refs[i]) # Unset})
         /\ Cardinality(AtSymbol(Written(occs, refs, k)))
              = Cardinality({i \in With(occs, refs, "edge") : Bound(refs[i]) = Unset})
<1> DEFINE W == Written(occs, refs, k)
           I == With(occs, refs, "edge")
           E(i) == EdgeOf(occs[i], refs[i], k, i)
<1>1. IsFiniteSet(I)
  <2>1. I \in SUBSET (1..Len(occs)) /\ Len(occs) \in Nat BY PassShape DEF With
  <2>2. QED BY <2>1, PositionsFinite
<1>2. W = {E(i) : i \in I} BY DEF Written
<1>3. \A i, j \in I : E(i) = E(j) => i = j
  <2>1. \A i \in I : E(i).nth = i BY DEF EdgeOf
  <2>2. QED BY <2>1
<1>4. \A i \in I : E(i).tgt \in DOMAIN KindOf <=> Bound(refs[i]) # Unset BY EdgeEnds
<1> HIDE DEF W, I, E
<1>5. ASSUME NEW J \in SUBSET I
      PROVE  IsFiniteSet({E(i) : i \in J}) /\ Cardinality({E(i) : i \in J}) = Cardinality(J)
  <2>1. IsFiniteSet(J) BY <1>1, FS_Subset
  <2> DEFINE f == [i \in J |-> E(i)]
             T == {E(i) : i \in J}
  <2>2. f \in [J -> T] OBVIOUS
  <2>3. \A i, j \in J : f[i] = f[j] => i = j BY <1>3
  <2>4. \A e \in T : \E i \in J : f[i] = e OBVIOUS
  <2> HIDE DEF f, T
  <2>5. ExistsBijection(J, T)
    BY <2>2, <2>3, <2>4 DEF ExistsBijection, Bijection, Injection, Surjection, IsInjective
  <2>6. IsFiniteSet(T) /\ Cardinality(T) = Cardinality(J) BY <2>1, <2>5, FS_Bijection
  <2>7. QED BY <2>6 DEF T
<1>6. IsFiniteSet(W) BY <1>2, <1>5
<1>7. AtNode(W) = {E(i) : i \in {j \in I : Bound(refs[j]) # Unset}}
  BY <1>2, <1>4 DEF AtNode
<1>8. AtSymbol(W) = {E(i) : i \in {j \in I : Bound(refs[j]) = Unset}}
  BY <1>2, <1>4 DEF AtSymbol
<1>9. QED BY <1>5, <1>6, <1>7, <1>8 DEF W, I

(* A query is resolved, unresolved, or names itself. *)
LEMMA QueriesCounted ==
  ASSUME order \in Orders, NEW occs, NEW refs, NEW k, PassOf(occs, refs, k)
  PROVE  /\ Cardinality(Uncounted(occs, refs)) \in Nat
         /\ Counted(occs, refs, k).queries =
              Counted(occs, refs, k).resolved + Counted(occs, refs, k).unresolved
                + Cardinality(Uncounted(occs, refs))
<1> DEFINE P == DOMAIN occs
           A == {i \in P : Outcome(occs[i], refs[i]) \in {"declares", "followed", "edge"}}
           B == {i \in P : Outcome(occs[i], refs[i]) \in {"unanswered", "dropped"}}
           C == Uncounted(occs, refs)
<1>1. Len(occs) \in Nat /\ P = 1..Len(occs) /\ Paired(occs, refs) = P BY PassShape
<1>2. IsFiniteSet(A) /\ IsFiniteSet(B) /\ IsFiniteSet(C) BY <1>1, PositionsFinite DEF Uncounted
<1>3. \A i \in P : Outcome(occs[i], refs[i]) \in {"own", "unplaced", "unanswered", "declares", "dropped", "followed", "edge"}
                   /\ (Outcome(occs[i], refs[i]) \in {"own", "unplaced"} <=> i \in C)
  BY OutcomeCases DEF Uncounted
<1>4. P = (A \cup B) \cup C /\ A \cap B = {} /\ (A \cup B) \cap C = {}
  <2>1. C \subseteq P BY DEF Uncounted
  <2> HIDE DEF C
  <2>2. QED BY <1>3, <2>1
<1>5. Cardinality(P) = Len(occs)
  <2>1. Cardinality(1..Len(occs)) = IF 1 > Len(occs) THEN 0 ELSE Len(occs) - 1 + 1
    BY <1>1, FS_Interval
  <2>2. QED BY <1>1, <2>1
<1>6. /\ Counted(occs, refs, k).queries = Len(occs)
      /\ Counted(occs, refs, k).resolved = Cardinality(A)
      /\ Counted(occs, refs, k).unresolved = Cardinality(B)
  BY <1>1 DEF Counted
<1> HIDE DEF P, A, B, C
<1>7. IsFiniteSet(A \cup B) /\ Cardinality(A \cup B) = Cardinality(A) + Cardinality(B)
      /\ Cardinality(A) \in Nat /\ Cardinality(B) \in Nat
  BY <1>2, <1>4, DisjointUnion
<1>8. Cardinality(P) = Cardinality(A \cup B) + Cardinality(C) /\ Cardinality(C) \in Nat
  BY <1>2, <1>4, <1>7, DisjointUnion
<1>9. QED BY <1>5, <1>6, <1>7, <1>8 DEF C, P

LEMMA Unmoved ==
  ASSUME order' = order, NEW occs, NEW refs, NEW k
  PROVE  /\ Written(occs, refs, k)' = Written(occs, refs, k)
         /\ NewSymbols(occs, refs, k)' = NewSymbols(occs, refs, k)
         /\ PassOf(occs, refs, k)' <=> PassOf(occs, refs, k)
<1>1. Spans' = Spans BY DEF Spans
<1>2. \A ref : Bound(ref)' = Bound(ref) BY <1>1 DEF Bound
<1>3. \A o, ref : Outcome(o, ref)' = Outcome(o, ref) BY <1>2 DEF Outcome
<1>4. With(occs, refs, "edge")' = With(occs, refs, "edge") BY <1>3 DEF With, Paired
<1>5. \A o, ref, i : EdgeOf(o, ref, k, i)' = EdgeOf(o, ref, k, i) BY <1>2 DEF EdgeOf, Classify
<1>6. Written(occs, refs, k)' = Written(occs, refs, k) BY <1>4, <1>5 DEF Written
<1>7. NewSymbols(occs, refs, k)' = NewSymbols(occs, refs, k) BY <1>2, <1>4 DEF NewSymbols, Symbol
<1>8. QED BY <1>6, <1>7 DEF PassOf


-------------------------------------------------------------------------------
(* The lists of answers a pass may get. *)
AnswerLists == UNION {AllAnswers(occs) : occs \in UNION {UseSites[r] : r \in DOMAIN UseSites}}

Direct(es) == {e \in es : e.by = "answer"}
AllWritten == UNION {Written(built[k], got[k], k) : k \in Passes}
AllSymbols == UNION {NewSymbols(built[k], got[k], k) : k \in Passes}
UncountedSites == UNION {{k} \X Uncounted(built[k], got[k]) : k \in Passes}

(* The roots before `done` are resolved, those after it are not yet.       *)
PassesInv ==
  /\ order \in Orders /\ done \in 0..Len(order)
  /\ phase \in {"start", "structured"} => done = 0
  /\ phase \notin {"start", "raised"} => \A k \in DOMAIN order : built[k] \in UseSites[order[k]]
  /\ got \in Seq(AnswerLists) /\ Len(got) = done
  /\ \A k \in Passes : PassOf(built[k], got[k], k)

(* The graph is what the passes wrote. *)
WrittenInv == Direct(edges) = AllWritten /\ AllSymbols \subseteq symbols

(* The counters have been added up over them. *)
CountedInv ==
  /\ IsFiniteSet(Direct(edges)) /\ IsFiniteSet(UncountedSites)
  /\ metrics \in [DOMAIN NoMetrics -> Nat]
  /\ CountersDescribeEdges

PassInv == PassesInv /\ WrittenInv /\ CountedInv

-------------------------------------------------------------------------------
(* A pass is made with an answer for each occurrence. *)
LEMMA OnlyWholeAnswers ==
  ASSUME NEW T, NEW truth \in Seq(T), NEW occs, Len(truth) = Len(occs),
         NEW refs \in Returned(truth), OnePerQuery(refs, occs)
  PROVE  refs = truth
<1>1. SUFFICES ASSUME NEW i \in DOMAIN truth, refs = RemoveAt(truth, i) PROVE FALSE
  BY DEF Returned
<1>2. Len(truth) \in Nat /\ i \in 1..Len(truth) OBVIOUS
<1> DEFINE a == SubSeq(truth, 1, i - 1)
           b == SubSeq(truth, i + 1, Len(truth))
<1>3. a \in Seq(T) /\ Len(a) = i - 1
  BY <1>2, SubSeqProperties
<1>4. b \in Seq(T) /\ Len(b) = Len(truth) - i
  BY <1>2, SubSeqProperties
<1>5. refs = a \o b BY <1>1 DEF RemoveAt
<1> HIDE DEF a, b
<1>6. Len(refs) = Len(truth) - 1 BY <1>2, <1>3, <1>4, <1>5, ConcatProperties
<1>7. QED BY <1>2, <1>6 DEF OnePerQuery

LEMMA CountersOf ==
  CountersDescribeEdges <=>
    /\ metrics.internal = Cardinality(AtNode(Direct(edges)))
    /\ metrics.external = Cardinality(AtSymbol(Direct(edges)))
    /\ metrics.to_value = Cardinality(AtValue(Direct(edges)))
    /\ metrics.unlocated = Cardinality(Unlocated(Direct(edges)))
    /\ metrics.queries = metrics.resolved + metrics.unresolved + Cardinality(UncountedSites)
BY DEF CountersDescribeEdges, Direct, UncountedSites, AtNode, AtSymbol, AtValue, Unlocated

LEMMA PassesInit == Init => PassInv
<1> SUFFICES ASSUME Init PROVE PassInv OBVIOUS
<1>1. /\ order \in Orders /\ done = 0 /\ phase = "start" /\ got = <<>>
      /\ edges = {} /\ symbols = {} /\ metrics = NoMetrics
  BY DEF Init
<1>2. Len(order) \in Nat BY <1>1, OrdersAssumption
<1>3. Passes = {} BY <1>1 DEF Passes
<1>4. PassesInv BY <1>1, <1>2, <1>3 DEF PassesInv
<1>5. Direct(edges) = {} /\ AllWritten = {} /\ AllSymbols = {} /\ UncountedSites = {}
  BY <1>1, <1>3 DEF Direct, AllWritten, AllSymbols, UncountedSites
<1>6. WrittenInv BY <1>5 DEF WrittenInv
<1>7. IsFiniteSet({}) /\ Cardinality({}) = 0 BY FS_EmptySet
<1>8. CountersDescribeEdges
  <2>1. /\ metrics.internal = 0 /\ metrics.external = 0 /\ metrics.to_value = 0
        /\ metrics.unlocated = 0 /\ metrics.queries = 0 /\ metrics.resolved = 0 /\ metrics.unresolved = 0
    BY <1>1 DEF NoMetrics
  <2>2. AtNode({}) = {} /\ AtSymbol({}) = {} /\ AtValue({}) = {} /\ Unlocated({}) = {}
    BY DEF AtNode, AtSymbol, AtValue, Unlocated
  <2>3. QED BY <1>5, <1>7, <2>1, <2>2, CountersOf
<1>9. CountedInv
  <2>1. NoMetrics \in [DOMAIN NoMetrics -> Nat] BY DEF NoMetrics
  <2>2. QED BY <1>1, <1>5, <1>7, <1>8, <2>1 DEF CountedInv
<1>10. QED BY <1>4, <1>6, <1>9 DEF PassInv

(* What the steps other than a pass leave alone. *)
Kept == UNCHANGED <<order, done, edges, symbols, metrics, got>>

LEMMA KeptInv ==
  ASSUME PassInv, Kept, built' = built \/ done = 0,
         phase' \in {"start", "structured"} => done = 0,
         phase' \notin {"start", "raised"} => \A k \in DOMAIN order : built'[k] \in UseSites[order[k]]
  PROVE  PassInv'
<1>1. Passes' = Passes BY DEF Kept, Passes
<1>2. \A k \in Passes : built'[k] = built[k] BY DEF Passes, PassInv, PassesInv
<1>3. order' = order /\ got' = got /\ edges' = edges /\ symbols' = symbols /\ metrics' = metrics /\ done' = done
  BY DEF Kept
<1>4. \A k \in Passes : /\ PassOf(built[k], got[k], k)' <=> PassOf(built[k], got[k], k)
                        /\ Written(built[k], got[k], k)' = Written(built[k], got[k], k)
                        /\ NewSymbols(built[k], got[k], k)' = NewSymbols(built[k], got[k], k)
                        /\ Uncounted(built[k], got[k])' = Uncounted(built[k], got[k])
  BY <1>1, <1>2, <1>3, Unmoved DEF Uncounted
<1>5. PassesInv' BY <1>1, <1>3, <1>4 DEF PassInv, PassesInv
<1>6. AllWritten' = AllWritten /\ AllSymbols' = AllSymbols /\ UncountedSites' = UncountedSites
  BY <1>1, <1>4 DEF AllWritten, AllSymbols, UncountedSites
<1>7. WrittenInv' BY <1>3, <1>6 DEF PassInv, WrittenInv, Direct
<1>8. CountersDescribeEdges'
  BY <1>3, <1>6 DEF PassInv, CountedInv, CountersDescribeEdges, UncountedSites
<1>9. CountedInv' BY <1>3, <1>6, <1>8 DEF PassInv, CountedInv, Direct
<1>10. QED BY <1>5, <1>7, <1>9 DEF PassInv

LEMMA SumsOfCounters ==
  ASSUME NEW m \in [DOMAIN NoMetrics -> Nat], NEW occs, NEW refs, NEW k,
         order \in Orders, PassOf(occs, refs, k)
  PROVE  /\ MetricsSum(m, Counted(occs, refs, k)) \in [DOMAIN NoMetrics -> Nat]
         /\ Counted(occs, refs, k) \in [DOMAIN NoMetrics -> Nat]
         /\ \A c \in DOMAIN NoMetrics :
              MetricsSum(m, Counted(occs, refs, k))[c] = m[c] + Counted(occs, refs, k)[c]
<1> DEFINE n == Counted(occs, refs, k)
           I == With(occs, refs, "edge")
           W == Written(occs, refs, k)
<1>1. Len(occs) \in Nat /\ DOMAIN occs = 1..Len(occs) /\ Paired(occs, refs) = 1..Len(occs) BY PassShape
<1>2. \A K \in SUBSET (1..Len(occs)) : Cardinality(K) \in Nat BY <1>1, PositionsFinite
<1>3. I \in SUBSET (1..Len(occs)) BY <1>1 DEF With
<1>4. \A X \in SUBSET W : Cardinality(X) \in Nat
  BY EdgesCounted, FS_Subset, FS_CardinalityType
<1>5. \A O : Cardinality({i \in Paired(occs, refs) : Outcome(occs[i], refs[i]) \in O}) \in Nat
  BY <1>1, <1>2
<1>6. Cardinality({i \in I : Bound(refs[i]) # Unset}) \in Nat
      /\ Cardinality({i \in I : Bound(refs[i]) = Unset}) \in Nat
  BY <1>2, <1>3
<1>7. \A H : Cardinality({e \in W : e.how \in H}) \in Nat BY <1>4
<1> HIDE DEF I, W
<1>8. DOMAIN NoMetrics = {"queries", "resolved", "unresolved", "internal", "external", "to_value", "unlocated"}
  BY DEF NoMetrics
<1>9. n \in [DOMAIN NoMetrics -> Nat]
  <2>1. n.queries \in Nat BY <1>1 DEF Counted
  <2>2. n.resolved \in Nat /\ n.unresolved \in Nat BY <1>5 DEF Counted
  <2>3. n.internal \in Nat /\ n.external \in Nat BY <1>6 DEF Counted, I
  <2>4. n.to_value \in Nat /\ n.unlocated \in Nat BY <1>7 DEF Counted, W
  <2>5. n \in [queries : {n.queries}, resolved : {n.resolved}, unresolved : {n.unresolved},
               internal : {n.internal}, external : {n.external}, to_value : {n.to_value},
               unlocated : {n.unlocated}]
    BY DEF Counted
  <2> HIDE DEF n
  <2>6. QED BY <2>1, <2>2, <2>3, <2>4, <2>5, <1>8
<1> HIDE DEF n
<1>10. QED BY <1>9 DEF MetricsSum, n

(* An edge of a pass is marked with it, and none of the value-flow pass is *)
(* taken for one an answer made.                                           *)
LEMMA PassEdges ==
  ASSUME NEW occs, NEW refs, NEW k, NEW e \in Written(occs, refs, k)
  PROVE  e.by = "answer" /\ e.pass = k
<1>1. PICK i \in With(occs, refs, "edge") : e = EdgeOf(occs[i], refs[i], k, i) BY DEF Written
<1>2. QED BY <1>1 DEF EdgeOf

LEMMA FlowEdges ==
  ASSUME NEW es, NEW facts, NEW k, NEW e \in Followed(es, facts, k)
  PROVE  e.by # "answer"
<1> DEFINE holds == BoundHolds(facts)
           added == FollowedValues(es, holds, k)
<1>1. e \in added \/ e \in FollowedParameters(es, added, facts, holds, k) BY DEF Followed
<1> HIDE DEF holds, added
<1>2. \A caller, callable, site, by : FlowEdge(caller, callable, site, k, by).by = by BY DEF FlowEdge
<1>3. CASE e \in added
  <2>1. PICK d, c : e = FlowEdge(d.src, c, d.site, k, "value") BY <1>3 DEF FollowedValues, added
  <2>2. QED BY <2>1, <1>2
<1>4. CASE e \in FollowedParameters(es, added, facts, holds, k)
  <2>1. PICK p, c : e = FlowEdge(p[1], c, p[3], k, "parameter") BY <1>4 DEF FollowedParameters
  <2>2. QED BY <2>1, <1>2
<1>5. QED BY <1>1, <1>3, <1>4

LEMMA DirectGrows ==
  ASSUME NEW es, NEW occs, NEW refs, NEW k, NEW facts, NEW more,
         more = es \cup Written(occs, refs, k)
  PROVE  Direct(more \cup Followed(more, facts, k)) = Direct(es) \cup Written(occs, refs, k)
<1>1. \A e \in Followed(more, facts, k) : e.by # "answer" BY FlowEdges
<1>2. \A e \in Written(occs, refs, k) : e.by = "answer" BY PassEdges
<1>3. QED BY <1>1, <1>2 DEF Direct

(* The edges of two disjoint sets are counted apart. *)
LEMMA EdgesAdd ==
  ASSUME NEW S, NEW T, IsFiniteSet(S), IsFiniteSet(T), S \cap T = {}
  PROVE  /\ Cardinality(AtNode(S \cup T)) = Cardinality(AtNode(S)) + Cardinality(AtNode(T))
         /\ Cardinality(AtSymbol(S \cup T)) = Cardinality(AtSymbol(S)) + Cardinality(AtSymbol(T))
         /\ Cardinality(AtValue(S \cup T)) = Cardinality(AtValue(S)) + Cardinality(AtValue(T))
         /\ Cardinality(Unlocated(S \cup T)) = Cardinality(Unlocated(S)) + Cardinality(Unlocated(T))
<1>1. /\ AtNode(S \cup T) = AtNode(S) \cup AtNode(T)
      /\ AtNode(S) \in SUBSET S /\ AtNode(T) \in SUBSET T
  BY DEF AtNode
<1>2. /\ AtSymbol(S \cup T) = AtSymbol(S) \cup AtSymbol(T)
      /\ AtSymbol(S) \in SUBSET S /\ AtSymbol(T) \in SUBSET T
  BY DEF AtSymbol
<1>3. /\ AtValue(S \cup T) = AtValue(S) \cup AtValue(T)
      /\ AtValue(S) \in SUBSET S /\ AtValue(T) \in SUBSET T
  BY DEF AtValue
<1>4. /\ Unlocated(S \cup T) = Unlocated(S) \cup Unlocated(T)
      /\ Unlocated(S) \in SUBSET S /\ Unlocated(T) \in SUBSET T
  BY DEF Unlocated
<1>5. ASSUME NEW A \in SUBSET S, NEW B \in SUBSET T
      PROVE  Cardinality(A \cup B) = Cardinality(A) + Cardinality(B)
  BY SubsetsApart
<1>6. Cardinality(AtNode(S \cup T)) = Cardinality(AtNode(S)) + Cardinality(AtNode(T)) BY <1>1, <1>5
<1>7. Cardinality(AtSymbol(S \cup T)) = Cardinality(AtSymbol(S)) + Cardinality(AtSymbol(T)) BY <1>2, <1>5
<1>8. Cardinality(AtValue(S \cup T)) = Cardinality(AtValue(S)) + Cardinality(AtValue(T)) BY <1>3, <1>5
<1>9. Cardinality(Unlocated(S \cup T)) = Cardinality(Unlocated(S)) + Cardinality(Unlocated(T)) BY <1>4, <1>5
<1>10. QED BY <1>6, <1>7, <1>8, <1>9

LEMMA SumsAdd ==
  ASSUME NEW q \in Nat, NEW r \in Nat, NEW u \in Nat, NEW c \in Nat, q = r + u + c,
         NEW p \in Nat, NEW s \in Nat, NEW v \in Nat, NEW d \in Nat, p = s + v + d
  PROVE  q + p = (r + s) + (u + v) + (c + d)
OBVIOUS

LEMMA PassStep ==
  ASSUME PassInv, phase = "resolving", done < Len(order), order' = order, built' = built,
         phase' = phase, NEW k, k = done + 1, NEW occs, occs = built[k],
         NEW truth \in AllAnswers(occs),
         metrics' = MetricsSum(metrics, Counted(occs, truth, k)),
         symbols' = symbols \cup NewSymbols(occs, truth, k),
         LET es == edges \cup Written(occs, truth, k)
         IN  edges' = es \cup Followed(es, Noted(occs, truth), k),
         got' = Append(got, truth), done' = k
  PROVE  PassInv'
<1>1. /\ order \in Orders /\ Len(order) \in Nat /\ DOMAIN order = 1..Len(order)
      /\ order[k] \in DOMAIN UseSites
      /\ done \in Nat /\ k \in DOMAIN order /\ k \in Nat
  <2>1. order \in Orders /\ done \in 0..Len(order) BY DEF PassInv, PassesInv
  <2>2. order \in Seq(DOMAIN UseSites) BY <2>1, OrdersAssumption
  <2>3. Len(order) \in Nat /\ DOMAIN order = 1..Len(order) /\ \A j \in 1..Len(order) : order[j] \in DOMAIN UseSites
    BY <2>2
  <2>4. done \in Nat /\ k \in DOMAIN order BY <2>1, <2>3
  <2>5. QED BY <2>1, <2>3, <2>4
<1>2. occs \in UseSites[order[k]] BY <1>1 DEF PassInv, PassesInv
<1>3. occs \in Seq(ToSet(occs)) BY <1>1, <1>2, UseSitesAssumption
<1>4. PassOf(occs, truth, k)
  <2>1. DOMAIN truth = DOMAIN occs /\ Len(truth) = Len(occs)
        /\ \A i \in DOMAIN occs : truth[i] \in Answers(occs[i])
    BY <1>3, AnswersMatch
  <2>2. QED BY <1>1, <1>2, <2>1 DEF PassOf
<1>5. truth \in AnswerLists BY <1>1, <1>2 DEF AnswerLists
<1> DEFINE W == Written(occs, truth, k)
           V == NewSymbols(occs, truth, k)
           N == Counted(occs, truth, k)
           Mine == {k} \X Uncounted(occs, truth)
<1>6. Passes' = Passes \cup {k} /\ k \notin Passes BY <1>1 DEF Passes
<1>7. got \in Seq(AnswerLists) /\ Len(got) = done BY DEF PassInv, PassesInv
<1>8. /\ got' \in Seq(AnswerLists) /\ Len(got') = done'
      /\ \A j \in Passes : got'[j] = got[j]
      /\ got'[k] = truth
  BY <1>1, <1>5, <1>7 DEF Passes
<1>9. \A j \in Passes : /\ PassOf(built[j], got[j], j)' <=> PassOf(built[j], got[j], j)
                        /\ Written(built[j], got[j], j)' = Written(built[j], got[j], j)
                        /\ NewSymbols(built[j], got[j], j)' = NewSymbols(built[j], got[j], j)
  BY <1>8, Unmoved
<1>10. /\ PassOf(built[k], got[k], k)'
       /\ Written(built[k], got[k], k)' = W
       /\ NewSymbols(built[k], got[k], k)' = V
  BY <1>4, <1>8, Unmoved
<1>11. /\ \A j \in Passes : Uncounted(built[j], got[j])' = Uncounted(built[j], got[j])
       /\ Uncounted(built[k], got[k])' = Uncounted(occs, truth)
  BY <1>8 DEF Uncounted
<1>12. \A j \in Passes' : PassOf(built[j], got[j], j)'
  BY <1>6, <1>9, <1>10 DEF PassInv, PassesInv
<1>13. PassesInv'
  <2>1. order' \in Orders /\ done' \in 0..Len(order') BY <1>1
  <2>2. phase' \notin {"start", "structured"} OBVIOUS
  <2>3. \A j \in DOMAIN order' : built'[j] \in UseSites[order'[j]] BY DEF PassInv, PassesInv
  <2>4. QED BY <1>8, <1>12, <2>1, <2>2, <2>3 DEF PassesInv
<1> HIDE DEF W, V, N, Mine
<1>14. AllWritten' = AllWritten \cup W
  <2>1. \A e : e \in AllWritten <=> \E j \in Passes : e \in Written(built[j], got[j], j)
    BY DEF AllWritten
  <2>2. \A e : e \in AllWritten' <=> \E j \in Passes' : e \in Written(built[j], got[j], j)'
    BY DEF AllWritten
  <2>3. \A e : e \in AllWritten' <=> (\E j \in Passes : e \in Written(built[j], got[j], j)) \/ e \in W
    BY <2>2, <1>6, <1>9, <1>10
  <2>4. QED BY <2>1, <2>3
<1>15. AllSymbols' = AllSymbols \cup V
  <2>1. \A e : e \in AllSymbols <=> \E j \in Passes : e \in NewSymbols(built[j], got[j], j)
    BY DEF AllSymbols
  <2>2. \A e : e \in AllSymbols' <=> \E j \in Passes' : e \in NewSymbols(built[j], got[j], j)'
    BY DEF AllSymbols
  <2>3. \A e : e \in AllSymbols' <=> (\E j \in Passes : e \in NewSymbols(built[j], got[j], j)) \/ e \in V
    BY <2>2, <1>6, <1>9, <1>10
  <2>4. QED BY <2>1, <2>3
<1>16. UncountedSites' = UncountedSites \cup Mine
  <2>1. \A e : e \in UncountedSites <=> \E j \in Passes : e \in {j} \X Uncounted(built[j], got[j])
    BY DEF UncountedSites
  <2>2. \A e : e \in UncountedSites' <=> \E j \in Passes' : e \in {j} \X Uncounted(built[j], got[j])'
    BY DEF UncountedSites
  <2>3. \A e : e \in UncountedSites' <=>
          (\E j \in Passes : e \in {j} \X Uncounted(built[j], got[j])) \/ e \in Mine
    BY <2>2, <1>6, <1>11 DEF Mine
  <2>4. QED BY <2>1, <2>3
<1>17. Direct(edges') = Direct(edges) \cup W
  <2>1. PICK more : more = edges \cup W OBVIOUS
  <2>2. edges' = more \cup Followed(more, Noted(occs, truth), k) BY <2>1 DEF W
  <2>3. Direct(more \cup Followed(more, Noted(occs, truth), k)) = Direct(edges) \cup W
    BY <2>1, DirectGrows DEF W
  <2>4. QED BY <2>2, <2>3
<1>18. WrittenInv' BY <1>14, <1>15, <1>17 DEF PassInv, WrittenInv, Direct, V
<1>19. Direct(edges) \cap W = {}
  <2>1. \A e \in Direct(edges) : e.pass \in Passes
    BY PassEdges DEF PassInv, WrittenInv, AllWritten
  <2>2. \A e \in W : e.pass = k BY PassEdges DEF W
  <2>3. QED BY <2>1, <2>2, <1>6
<1>20. IsFiniteSet(Direct(edges)) /\ IsFiniteSet(W)
       /\ metrics \in [DOMAIN NoMetrics -> Nat] /\ CountersDescribeEdges
  BY <1>1, <1>4, EdgesCounted DEF PassInv, CountedInv, W
<1>21. /\ metrics' \in [DOMAIN NoMetrics -> Nat] /\ N \in [DOMAIN NoMetrics -> Nat]
       /\ \A c \in DOMAIN NoMetrics : metrics'[c] = metrics[c] + N[c]
  BY <1>1, <1>4, <1>20, SumsOfCounters DEF N
<1>22. /\ metrics'.internal = Cardinality(AtNode(Direct(edges')))
       /\ metrics'.external = Cardinality(AtSymbol(Direct(edges')))
       /\ metrics'.to_value = Cardinality(AtValue(Direct(edges')))
       /\ metrics'.unlocated = Cardinality(Unlocated(Direct(edges')))
  <2>1. N.internal = Cardinality(AtNode(W)) /\ N.external = Cardinality(AtSymbol(W))
    <3>1. /\ N.internal = Cardinality({i \in With(occs, truth, "edge") : Bound(truth[i]) # Unset})
          /\ N.external = Cardinality({i \in With(occs, truth, "edge") : Bound(truth[i]) = Unset})
      BY DEF N, Counted
    <3>2. QED BY <1>1, <1>4, <3>1, EdgesCounted DEF W
  <2>2. N.to_value = Cardinality(AtValue(W)) /\ N.unlocated = Cardinality(Unlocated(W))
    <3>1. N.to_value = Cardinality({e \in W : e.how \in {"value"}})
          /\ N.unlocated = Cardinality({e \in W : e.how \in {"unlocated"}})
      BY DEF N, W, Counted
    <3>2. {e \in W : e.how \in {"value"}} = AtValue(W)
          /\ {e \in W : e.how \in {"unlocated"}} = Unlocated(W)
      BY DEF AtValue, Unlocated
    <3>3. QED BY <3>1, <3>2
  <2>3. /\ metrics.internal = Cardinality(AtNode(Direct(edges)))
        /\ metrics.external = Cardinality(AtSymbol(Direct(edges)))
        /\ metrics.to_value = Cardinality(AtValue(Direct(edges)))
        /\ metrics.unlocated = Cardinality(Unlocated(Direct(edges)))
    BY <1>20, CountersOf
  <2>4. /\ metrics'.internal = metrics.internal + N.internal
        /\ metrics'.external = metrics.external + N.external
        /\ metrics'.to_value = metrics.to_value + N.to_value
        /\ metrics'.unlocated = metrics.unlocated + N.unlocated
    BY <1>21 DEF NoMetrics
  <2>5. /\ Cardinality(AtNode(Direct(edges'))) = Cardinality(AtNode(Direct(edges))) + Cardinality(AtNode(W))
        /\ Cardinality(AtSymbol(Direct(edges'))) = Cardinality(AtSymbol(Direct(edges))) + Cardinality(AtSymbol(W))
        /\ Cardinality(AtValue(Direct(edges'))) = Cardinality(AtValue(Direct(edges))) + Cardinality(AtValue(W))
        /\ Cardinality(Unlocated(Direct(edges'))) = Cardinality(Unlocated(Direct(edges))) + Cardinality(Unlocated(W))
    <3> DEFINE D == Direct(edges)
    <3>1. IsFiniteSet(D) /\ IsFiniteSet(W) /\ D \cap W = {} BY <1>19, <1>20
    <3>2. Direct(edges') = D \cup W BY <1>17
    <3> HIDE DEF D
    <3>3. /\ Cardinality(AtNode(D \cup W)) = Cardinality(AtNode(D)) + Cardinality(AtNode(W))
          /\ Cardinality(AtSymbol(D \cup W)) = Cardinality(AtSymbol(D)) + Cardinality(AtSymbol(W))
          /\ Cardinality(AtValue(D \cup W)) = Cardinality(AtValue(D)) + Cardinality(AtValue(W))
          /\ Cardinality(Unlocated(D \cup W)) = Cardinality(Unlocated(D)) + Cardinality(Unlocated(W))
      BY <3>1, EdgesAdd
    <3>4. QED BY <3>2, <3>3 DEF D
  <2>6. QED BY <2>1, <2>2, <2>3, <2>4, <2>5
<1>23. /\ IsFiniteSet(UncountedSites')
       /\ metrics'.queries = metrics'.resolved + metrics'.unresolved + Cardinality(UncountedSites')
  <2> DEFINE Here == Uncounted(occs, truth)
  <2>1. Mine = {k} \X Here BY DEF Mine
  <2>2. IsFiniteSet(Here)
    <3>1. Len(occs) \in Nat /\ Here \in SUBSET (1..Len(occs)) BY <1>3 DEF Uncounted
    <3>2. QED BY <3>1, PositionsFinite
  <2>3. Cardinality(Here) \in Nat /\ N.queries = N.resolved + N.unresolved + Cardinality(Here)
    BY <1>1, <1>4, QueriesCounted DEF N
  <2> HIDE DEF Here
  <2>4. IsFiniteSet(Mine) /\ Cardinality(Mine) = Cardinality(Here)
    <3> DEFINE f == [i \in Here |-> <<k, i>>]
    <3>1. Mine = {<<k, i>> : i \in Here} BY <2>1
    <3>2. f \in [Here -> Mine] /\ (\A i, j \in Here : f[i] = f[j] => i = j)
          /\ \A m \in Mine : \E i \in Here : f[i] = m
      BY <3>1
    <3> HIDE DEF f
    <3>3. ExistsBijection(Here, Mine)
      BY <3>2 DEF ExistsBijection, Bijection, Injection, Surjection, IsInjective
    <3>4. QED BY <2>2, <3>3, FS_Bijection
  <2>5. UncountedSites \cap Mine = {}
    <3>1. \A m \in UncountedSites : m[1] \in Passes BY DEF UncountedSites
    <3>2. \A m \in Mine : m[1] = k BY DEF Mine
    <3>3. QED BY <3>1, <3>2, <1>6
  <2>6. IsFiniteSet(UncountedSites) BY DEF PassInv, CountedInv
  <2>7. /\ IsFiniteSet(UncountedSites') /\ Cardinality(UncountedSites) \in Nat
        /\ Cardinality(UncountedSites') = Cardinality(UncountedSites) + Cardinality(Here)
    BY <1>16, <2>4, <2>5, <2>6, DisjointUnion
  <2>8. metrics.queries = metrics.resolved + metrics.unresolved + Cardinality(UncountedSites)
    BY <1>20, CountersOf
  <2>9. /\ metrics'.queries = metrics.queries + N.queries
        /\ metrics'.resolved = metrics.resolved + N.resolved
        /\ metrics'.unresolved = metrics.unresolved + N.unresolved
        /\ metrics.queries \in Nat /\ metrics.resolved \in Nat /\ metrics.unresolved \in Nat
        /\ N.queries \in Nat /\ N.resolved \in Nat /\ N.unresolved \in Nat
    BY <1>20, <1>21 DEF NoMetrics
  <2>10. metrics'.queries = metrics'.resolved + metrics'.unresolved + Cardinality(UncountedSites')
    <3>1. PICK q, r, u, c : q = metrics.queries /\ r = metrics.resolved /\ u = metrics.unresolved
                            /\ c = Cardinality(UncountedSites)
      OBVIOUS
    <3>2. PICK p, s, v, d : p = N.queries /\ s = N.resolved /\ v = N.unresolved /\ d = Cardinality(Here)
      OBVIOUS
    <3>3. q \in Nat /\ r \in Nat /\ u \in Nat /\ c \in Nat /\ q = r + u + c BY <2>7, <2>8, <2>9, <3>1
    <3>4. p \in Nat /\ s \in Nat /\ v \in Nat /\ d \in Nat /\ p = s + v + d BY <2>3, <2>9, <3>2
    <3>5. q + p = (r + s) + (u + v) + (c + d) BY <3>3, <3>4, SumsAdd
    <3>6. QED BY <2>7, <2>9, <3>1, <3>2, <3>5
  <2>11. QED BY <2>7, <2>10
<1>24. CountersDescribeEdges'
  BY <1>22, <1>23 DEF CountersDescribeEdges, Direct, UncountedSites, AtNode, AtSymbol, AtValue, Unlocated
<1>25. IsFiniteSet(Direct(edges'))
  <2>1. IsFiniteSet(Direct(edges) \cup W) BY <1>20, FS_Union
  <2>2. QED BY <1>17, <2>1
<1>26. CountedInv' BY <1>21, <1>23, <1>24, <1>25 DEF CountedInv, Direct
<1>27. QED BY <1>13, <1>18, <1>26 DEF PassInv

(* A step of resolve is a pass over the backend's own answers.             *)
LEMMA ResolveIsPass ==
  ASSUME PassInv, Resolve, NEW k, k = done + 1, NEW occs, occs = built[k]
  PROVE  \E truth \in AllAnswers(occs) :
           /\ metrics' = MetricsSum(metrics, Counted(occs, truth, k))
           /\ symbols' = symbols \cup NewSymbols(occs, truth, k)
           /\ LET es == edges \cup Written(occs, truth, k)
              IN  edges' = es \cup Followed(es, Noted(occs, truth), k)
           /\ got' = Append(got, truth)
           /\ done' = k
<1>1. phase = "resolving" /\ done < Len(order) BY DEF Resolve
<1>2. PICK truth \in AllAnswers(occs) : \E refs \in Returned(truth) :
          /\ OnePerQuery(refs, occs)
          /\ metrics' = MetricsSum(metrics, Counted(occs, refs, k))
          /\ symbols' = symbols \cup NewSymbols(occs, refs, k)
          /\ LET es == edges \cup Written(occs, refs, k)
             IN  edges' = es \cup Followed(es, Noted(occs, refs), k)
          /\ got' = Append(got, truth)
          /\ done' = k
  BY DEF Resolve
<1>3. \A refs \in Returned(truth) : OnePerQuery(refs, occs) => refs = truth
  <2>1. order \in Seq(DOMAIN UseSites) /\ done \in 0..Len(order)
    BY OrdersAssumption DEF PassInv, PassesInv
  <2>2. k \in DOMAIN order /\ order[k] \in DOMAIN UseSites BY <1>1, <2>1
  <2>3. occs \in UseSites[order[k]] BY <1>1, <2>2 DEF PassInv, PassesInv
  <2>4. occs \in Seq(ToSet(occs)) BY <2>2, <2>3, UseSitesAssumption
  <2>5. Len(truth) = Len(occs) BY <2>4, AnswersMatch
  <2>6. PICK U : truth \in Seq(U) BY <2>4, AnswersMatch
  <2>7. QED BY <2>5, <2>6, OnlyWholeAnswers
<1>4. QED BY <1>2, <1>3

LEMMA ResolveInv == PassInv /\ Resolve => PassInv'
<1> SUFFICES ASSUME PassInv, Resolve PROVE PassInv' OBVIOUS
<1>1. PICK k, occs : k = done + 1 /\ occs = built[k] OBVIOUS
<1>2. phase = "resolving" /\ done < Len(order) /\ order' = order /\ built' = built /\ phase' = phase
  BY DEF Resolve
<1>3. PICK truth \in AllAnswers(occs) :
          /\ metrics' = MetricsSum(metrics, Counted(occs, truth, k))
          /\ symbols' = symbols \cup NewSymbols(occs, truth, k)
          /\ LET es == edges \cup Written(occs, truth, k)
             IN  edges' = es \cup Followed(es, Noted(occs, truth), k)
          /\ got' = Append(got, truth)
          /\ done' = k
  BY <1>1, ResolveIsPass
<1>4. QED BY <1>1, <1>2, <1>3, PassStep

LEMMA PassInvInductive == PassInv /\ [Next]_vars => PassInv'
<1> SUFFICES ASSUME PassInv, [Next]_vars PROVE PassInv' OBVIOUS
<1>1. /\ phase \in {"start", "structured"} => done = 0
      /\ phase \notin {"start", "raised"} => \A k \in DOMAIN order : built[k] \in UseSites[order[k]]
  BY DEF PassInv, PassesInv
<1>2. CASE UNCHANGED vars BY <1>1, <1>2, KeptInv DEF vars, Kept
<1>3. CASE Raise BY <1>1, <1>3, KeptInv DEF Raise, Kept
<1>4. CASE BuildStructure
  <2>1. order \in Seq(DOMAIN UseSites) BY OrdersAssumption DEF PassInv, PassesInv
  <2>2. phase = "start" /\ phase' = "structured" /\ Kept
        /\ \A k \in 1..Len(order) : built'[k] \in UseSites[order[k]]
    BY <1>4 DEF BuildStructure, Kept
  <2>3. \A k \in DOMAIN order : built'[k] \in UseSites[order[k]] BY <2>1, <2>2
  <2>4. done = 0 BY <1>1, <2>2
  <2>5. QED BY <2>2, <2>3, <2>4, KeptInv
<1>5. CASE Prepare BY <1>1, <1>5, KeptInv DEF Prepare, Kept
<1>6. CASE Worsen BY <1>1, <1>6, KeptInv DEF Worsen, Kept
<1>7. CASE Resolve BY <1>7, ResolveInv
<1>8. CASE ReadStatus BY <1>1, <1>8, KeptInv DEF ReadStatus, Kept
<1>9. CASE Finish BY <1>1, <1>9, KeptInv DEF Finish, Kept
<1>10. QED BY <1>2, <1>3, <1>4, <1>5, <1>6, <1>7, <1>8, <1>9
       DEF Next, StructureRaises, PrepareRaises, ResolveRaises, StatusRaises

(* The metrics stored in a graph count its own edges, for any roots and    *)
(* any answers.                                                            *)
THEOREM MetricsTellTheTruth == Spec => []CountersDescribeEdges
<1>1. PassInv => CountersDescribeEdges BY DEF PassInv, CountedInv
<1>2. QED BY <1>1, PassesInit, PassInvInductive, PTL DEF Spec

LEMMA WrittenKeepTheirSites == PassInv => AnswersKeepTheirSites
<1> SUFFICES ASSUME PassInv, NEW e \in Direct(edges)
             PROVE  \E k \in Passes : \E i \in DOMAIN built[k] :
                      LET o == built[k][i]
                          truth == got[k][i]
                      IN  /\ o.use \notin Own /\ truth # Unset
                          /\ <<e.src, e.site>> = <<o.enclosing, o.site>>
                          /\ IF truth.origin = "internal" /\ \E r \in ToSet(order) : truth.at \in Structure[r]
                             THEN e.tgt = truth.at
                             ELSE e.tgt \in symbols
  BY DEF AnswersKeepTheirSites, Direct
<1>1. PICK k \in Passes : e \in Written(built[k], got[k], k)
  BY DEF PassInv, WrittenInv, AllWritten
<1> DEFINE occs == built[k]
           refs == got[k]
<1>2. PICK i \in With(occs, refs, "edge") : e = EdgeOf(occs[i], refs[i], k, i) BY <1>1 DEF Written
<1>3. PassOf(occs, refs, k) /\ order \in Orders BY <1>1 DEF PassInv, PassesInv
<1>4. NewSymbols(occs, refs, k) \subseteq symbols
  BY DEF PassInv, WrittenInv, AllSymbols
<1> HIDE DEF occs, refs
<1>5. i \in DOMAIN occs /\ occs[i].use \notin Own /\ refs[i] # Unset BY <1>2, <1>3, EdgeEnds
<1>6. e.src = occs[i].enclosing /\ e.site = occs[i].site BY <1>2 DEF EdgeOf
<1>7. (refs[i].origin = "internal" /\ \E r \in ToSet(order) : refs[i].at \in Structure[r])
        <=> Bound(refs[i]) # Unset
  <2>1. (\E r \in ToSet(order) : refs[i].at \in Structure[r]) <=> refs[i].at \in Spans BY DEF Spans
  <2>2. QED BY <1>3, <2>1, BoundCases
<1>8. CASE Bound(refs[i]) # Unset
  <2>1. e.tgt = refs[i].at BY <1>2, <1>3, <1>8, EdgeEnds
  <2>2. QED BY <1>5, <1>6, <1>7, <1>8, <2>1 DEF occs, refs
<1>9. CASE Bound(refs[i]) = Unset
  <2>1. e.tgt = Symbol(occs[i], refs[i], order[k]) BY <1>2, <1>3, <1>9, EdgeEnds
  <2>2. Symbol(occs[i], refs[i], order[k]) \in NewSymbols(occs, refs, k)
    BY <1>2, <1>9 DEF NewSymbols
  <2>3. e.tgt \in symbols BY <1>4, <2>1, <2>2
  <2>4. QED BY <1>5, <1>6, <1>7, <1>9, <2>3 DEF occs, refs
<1>10. QED BY <1>8, <1>9

(* Answers are bound to the occurrences they were given for.               *)
THEOREM AnswersStayWithTheirSites == Spec => []AnswersKeepTheirSites
BY WrittenKeepTheirSites, PassesInit, PassInvInductive, PTL DEF Spec

-------------------------------------------------------------------------------
(* What the status says. *)

(* Before the status is read it is the resolver's health that covers what  *)
(* was asked so far; a resolver only gets worse while it is asked.         *)
StatusInv ==
  /\ asked \subseteq Statuses
  /\ phase \in {"start", "structured"} => asked = {}
  /\ phase = "resolving" =>
       slot # "disabled" /\ \A s \in asked : Severity(s) <= Severity(Coerce(health))
  /\ phase \in {"resolved", "returned"} =>
       /\ \A s \in asked : Severity(s) <= Severity(status)
       /\ slot = "disabled" => status = "unavailable"
  /\ phase = "returned" /\ strict => status = "ok"

LEMMA CoercedIsStatus ==
  ASSUME NEW s
  PROVE  Coerce(s) \in Statuses /\ Severity(Coerce(s)) \in Nat
BY DEF Coerce, Statuses, Severity

LEMMA StatusInvInductive == StatusInv /\ [Next]_vars => StatusInv'
<1> SUFFICES ASSUME StatusInv, [Next]_vars PROVE StatusInv'
  OBVIOUS
<1> USE DEF StatusInv
<1>1. CASE UNCHANGED vars BY <1>1 DEF vars
<1>2. CASE Raise BY <1>2 DEF Raise
<1>3. CASE BuildStructure BY <1>3 DEF BuildStructure
<1>4. CASE Prepare BY <1>4 DEF Prepare
<1>5. CASE Worsen
  <2>1. phase = "resolving" /\ UNCHANGED <<phase, slot, asked>> BY <1>5 DEF Worsen
  <2>2. Severity(Coerce(health')) > Severity(Coerce(health)) BY <1>5 DEF Worsen
  <2>3. ASSUME NEW s \in asked PROVE Severity(s) <= Severity(Coerce(health'))
    <3>1. Severity(s) <= Severity(Coerce(health)) BY <2>1
    <3>2. Severity(s) \in Nat BY DEF Statuses, Severity
    <3>3. QED BY <2>2, <3>1, <3>2, CoercedIsStatus
  <2>4. QED BY <2>1, <2>3
<1>6. CASE Resolve
  <2>1. phase = "resolving" /\ UNCHANGED <<phase, slot, health>> BY <1>6 DEF Resolve
  <2>2. asked' \subseteq asked \cup {Coerce(health)} BY <1>6 DEF Resolve
  <2>3. Severity(Coerce(health)) <= Severity(Coerce(health)) BY CoercedIsStatus
  <2>4. QED BY <2>1, <2>2, <2>3, CoercedIsStatus
<1>7. CASE ReadStatus BY <1>7 DEF ReadStatus
<1>8. CASE Finish BY <1>8 DEF Finish
<1>9. QED BY <1>1, <1>2, <1>3, <1>4, <1>5, <1>6, <1>7, <1>8
      DEF Next, StructureRaises, PrepareRaises, ResolveRaises, StatusRaises

(* The status of a returned graph is at least as bad as the resolver was   *)
(* at any root, for any roots, answers and ways to get worse; and strict   *)
(* returns only what was ok throughout.                                    *)
THEOREM StatusIsHonest == Spec => []StatusCoversAnswers
<1>1. Init => StatusInv BY DEF Init, StatusInv
<1>2. StatusInv => StatusCoversAnswers BY DEF StatusInv, StatusCoversAnswers
<1>3. QED BY <1>1, <1>2, StatusInvInductive, PTL DEF Spec

-------------------------------------------------------------------------------
(* What the value-flow pass adds. *)

(* What a pass's facts show: S holds what is assigned, hands on what the   *)
(* holders in it hold, and gives a parameter the argument of every call    *)
(* that reaches its callable.  No round and no hop is counted.             *)
Closed(S, facts) ==
  /\ facts.holds \subseteq S
  /\ \A y, z : <<y, z>> \in S /\ KindOf[z] \in Holders =>
       \A c : <<z, c>> \in S => <<y, c>> \in S
  /\ \A a \in facts.args, c \in facts.calls : a[1] = c[1] =>
       \A f : (f = c[2] \/ <<c[2], f>> \in S) /\ a[2] \in DOMAIN Parameters[f] =>
         <<Parameters[f][a[2]], a[3]>> \in S

FactsOf(k) == Noted(built[k], got[k])

(* An answer of this pass or an earlier one is a call of the value h at    *)
(* the site of e; or this pass noted one of the parameter h there.         *)
ValueCalled(h, e) ==
  /\ KindOf[h] \in Holders
  /\ \E d \in edges : /\ d.how = "value" /\ d.by = "answer" /\ d.pass <= e.pass
                      /\ <<d.src, d.tgt, d.site>> = <<e.src, h, e.site>>

ParameterCalled(h, e) == <<e.src, h, e.site>> \in FactsOf(e.pass).params

(* A call is followed to what the facts of one pass show: it ends at a     *)
(* callable that every closed set says the called value or parameter holds.*)
FlowEdgesAreShown ==
  \A e \in edges : e.how = "flow" =>
    /\ e.pass \in Passes /\ KindOf[e.tgt] \in Callable
    /\ \E h : /\ ValueCalled(h, e) \/ ParameterCalled(h, e)
              /\ KindOf[h] \in Holders =>
                   \A S : Closed(S, FactsOf(e.pass)) => <<h, e.tgt>> \in S

Hop(holds, met) == met \cup {h[2] : h \in {x \in holds : x[1] \in met /\ KindOf[x[1]] \in Holders}}

LEMMA CallablesRecur ==
  ASSUME NEW holds, NEW holder
  PROVE  \E reach : /\ Callables(holds, holder) = {c \in reach[Hops] : KindOf[c] \in Callable}
                    /\ reach[0] = {holder}
                    /\ \A n \in 1..Hops : reach[n] = Hop(holds, reach[n - 1])
<1> DEFINE U == {holder} \cup {h[2] : h \in holds}
           S == SUBSET U
           h == [p \in (1..Hops) \X S |-> Hop(holds, p[2])]
           Is(f) == f = [n \in 0..Hops |->
                          IF n = 0 THEN {holder}
                          ELSE LET met == f[n - 1]
                               IN  met \cup {x[2] : x \in {y \in holds : y[1] \in met /\ KindOf[y[1]] \in Holders}}]
           reach == CHOOSE f : Is(f)
<1>1. Hops \in Nat BY DEF Hops
<1>2. \A k \in 1..Hops : \A x \in S : h[<<k, x>>] = Hop(holds, x) OBVIOUS
<1>3. \A x \in S : Hop(holds, x) \in S BY DEF Hop
<1>4. \E f : Is(f)
  <2>1. PICK f \in [0..Hops -> S] : Recurs(f, Hops, {holder}, h)
    <3>1. {holder} \in S OBVIOUS
    <3>2. \A k \in 1..Hops : \A x \in S : h[<<k, x>>] \in S BY <1>2, <1>3
    <3> HIDE DEF S, h
    <3>3. QED BY <1>1, <3>1, <3>2, RecursionExists
  <2>2. ASSUME NEW n \in 0..Hops
        PROVE  f[n] = IF n = 0 THEN {holder} ELSE Hop(holds, f[n - 1])
    <3>1. CASE n = 0 BY <2>1, <3>1 DEF Recurs
    <3>2. CASE n # 0
      <4>1. n \in 1..Hops /\ n - 1 \in 0..Hops BY <3>2, <1>1
      <4>2. f[n - 1] \in S BY <4>1, <2>1
      <4>3. f[n] = h[<<n, f[n - 1]>>] BY <4>1, <2>1 DEF Recurs
      <4> HIDE DEF S, h
      <4>4. QED BY <4>1, <4>2, <4>3, <3>2, <1>2
    <3>3. QED BY <3>1, <3>2
  <2>3. Is(f) BY <2>2 DEF Hop
  <2>4. QED BY <2>3
<1>5. Is(reach)
  <2> HIDE DEF Is
  <2>1. QED BY <1>4
<1>6. Callables(holds, holder) = {c \in reach[Hops] : KindOf[c] \in Callable} BY DEF Callables
<1>7. reach[0] = {holder}
  <2> HIDE DEF reach
  <2>1. 0 \in 0..Hops BY <1>1
  <2>2. QED BY <1>5, <2>1
<1>8. \A n \in 1..Hops : reach[n] = Hop(holds, reach[n - 1])
  <2> HIDE DEF reach
  <2>1. \A n \in 1..Hops : n \in 0..Hops /\ n # 0 BY <1>1
  <2>2. QED BY <1>5, <2>1 DEF Hop
<1>9. QED BY <1>6, <1>7, <1>8

(* However far it looks, Flow::resolve finds nothing that is not shown.    *)
LEMMA CallablesAreShown ==
  ASSUME NEW holds, NEW holder, NEW S, NEW facts, Closed(S, facts), holds \subseteq S,
         \A x \in holds : x = <<x[1], x[2]>>,
         NEW c \in Callables(holds, holder)
  PROVE  KindOf[c] \in Callable /\ (c = holder \/ <<holder, c>> \in S)
<1>1. PICK reach : /\ Callables(holds, holder) = {x \in reach[Hops] : KindOf[x] \in Callable}
                   /\ reach[0] = {holder}
                   /\ \A n \in 1..Hops : reach[n] = Hop(holds, reach[n - 1])
  BY CallablesRecur
<1> DEFINE Fits(met) == \A x \in met : x = holder \/ <<holder, x>> \in S
           Off == {n \in 0..Hops : ~ Fits(reach[n])}
<1>2. Hops \in Nat BY DEF Hops
<1>3. ASSUME NEW met, Fits(met) PROVE Fits(Hop(holds, met))
  <2>1. SUFFICES ASSUME NEW x \in Hop(holds, met), x \notin met PROVE <<holder, x>> \in S
    BY <1>3
  <2>2. PICK h \in holds : h[1] \in met /\ KindOf[h[1]] \in Holders /\ x = h[2] BY <2>1 DEF Hop
  <2>3. <<h[1], x>> \in S BY <2>2
  <2>4. h[1] = holder \/ <<holder, h[1]>> \in S BY <1>3, <2>2
  <2>5. CASE h[1] = holder BY <2>3, <2>5
  <2>6. CASE <<holder, h[1]>> \in S BY <2>2, <2>3, <2>6 DEF Closed
  <2>7. QED BY <2>4, <2>5, <2>6
<1>4. Off = {}
  <2>1. SUFFICES ASSUME Off # {} PROVE FALSE OBVIOUS
  <2>2. PICK m \in Off : \A y \in Off : m <= y
    <3>1. Off \in SUBSET Nat OBVIOUS
    <3> HIDE DEF Off
    <3>2. QED BY <2>1, <3>1, LeastNat
  <2>3. m # 0 BY <1>1
  <2>4. m \in 1..Hops /\ m - 1 \in 0..Hops /\ ~ (m <= m - 1) BY <2>3, <1>2
  <2>5. Fits(reach[m - 1]) BY <2>2, <2>4
  <2>6. reach[m] = Hop(holds, reach[m - 1])
    <3> HIDE DEF Off
    <3>1. QED BY <1>1, <2>4
  <2> HIDE DEF Fits
  <2>7. Fits(reach[m]) BY <2>5, <2>6, <1>3
  <2>8. QED BY <2>7
<1>5. Fits(reach[Hops])
  <2> HIDE DEF Fits
  <2>1. Hops \in 0..Hops BY <1>2
  <2>2. QED BY <1>4, <2>1
<1>6. QED BY <1>1, <1>5

Pairs(holds) == \A x \in holds : x = <<x[1], x[2]>>

LEMMA LearnedIsShown ==
  ASSUME NEW holds, NEW facts, NEW S, Closed(S, facts), holds \subseteq S, Pairs(holds)
  PROVE  Learn(holds, facts) \subseteq S /\ Pairs(Learn(holds, facts))
<1> DEFINE Callees(id) == IF KindOf[id] \in Holders THEN Callables(holds, id) ELSE {id}
<1>1. SUFFICES ASSUME NEW x \in Learn(holds, facts)
               PROVE  x \in S /\ x = <<x[1], x[2]>>
  BY DEF Pairs
<1>2. PICK m \in facts.args \X facts.calls :
        /\ m[1][1] = m[2][1]
        /\ \E c \in Callees(m[2][2]) : /\ m[1][2] \in DOMAIN Parameters[c]
                                       /\ x = <<Parameters[c][m[1][2]], m[1][3]>>
  BY DEF Learn
<1>3. PICK c \in Callees(m[2][2]) : /\ m[1][2] \in DOMAIN Parameters[c]
                                    /\ x = <<Parameters[c][m[1][2]], m[1][3]>>
  BY <1>2
<1>4. c = m[2][2] \/ <<m[2][2], c>> \in S
  <2>1. CASE KindOf[m[2][2]] \in Holders
    <3>1. c \in Callables(holds, m[2][2]) BY <1>3, <2>1
    <3>2. QED BY <3>1, CallablesAreShown DEF Pairs
  <2>2. CASE KindOf[m[2][2]] \notin Holders BY <1>3, <2>2
  <2>3. QED BY <2>1, <2>2
<1>5. x \in S BY <1>2, <1>3, <1>4 DEF Closed
<1>6. QED BY <1>3, <1>5

Round(holds, facts) == holds \cup Learn(holds, facts)

LEMMA BoundInFourRounds ==
  ASSUME NEW facts
  PROVE  BoundHolds(facts) = Round(Round(Round(Round(facts.holds, facts), facts), facts), facts)
<1> DEFINE R(x) == x \cup Learn(x, facts)
           Is(f) == f = [n \in 0..4 |-> IF n = 0 THEN facts.holds
                                        ELSE LET known == f[n - 1] IN known \cup Learn(known, facts)]
           after == CHOOSE f : Is(f)
<1>1. \E f : Is(f)
  <2> DEFINE r1 == R(facts.holds)
             r2 == R(r1)
             r3 == R(r2)
             r4 == R(r3)
             f == [n \in 0..4 |-> IF n = 0 THEN facts.holds ELSE IF n = 1 THEN r1
                                  ELSE IF n = 2 THEN r2 ELSE IF n = 3 THEN r3 ELSE r4]
  <2>1. f[0] = facts.holds /\ f[1] = r1 /\ f[2] = r2 /\ f[3] = r3 /\ f[4] = r4
    <3> HIDE DEF r1, r2, r3, r4
    <3>1. QED OBVIOUS
  <2>2. r1 = R(facts.holds) /\ r2 = R(r1) /\ r3 = R(r2) /\ r4 = R(r3) OBVIOUS
  <2>3. f = [n \in 0..4 |-> f[n]] OBVIOUS
  <2> HIDE DEF r1, r2, r3, r4, f
  <2>4. \A n \in 0..4 : f[n] = IF n = 0 THEN facts.holds ELSE R(f[n - 1])
    <3>1. \A n \in 0..4 : n = 0 \/ n = 1 \/ n = 2 \/ n = 3 \/ n = 4 OBVIOUS
    <3>2. 4 - 1 = 3 /\ 3 - 1 = 2 /\ 2 - 1 = 1 /\ 1 - 1 = 0 OBVIOUS
    <3> HIDE DEF R
    <3>3. QED BY <2>1, <2>2, <3>1, <3>2
  <2>5. Is(f) BY <2>3, <2>4
  <2>6. QED BY <2>5
<1>2. Is(after)
  <2> HIDE DEF Is
  <2>1. QED BY <1>1
<1>3. BoundHolds(facts) = after[4] BY DEF BoundHolds
<1>4. \A n \in 0..4 : after[n] = IF n = 0 THEN facts.holds ELSE R(after[n - 1])
  <2> HIDE DEF after
  <2>1. QED BY <1>2
<1>5. \A x : R(x) = Round(x, facts) BY DEF Round
<1> HIDE DEF after, R, Is
<1>6. after[0] = facts.holds /\ after[1] = R(after[0]) /\ after[2] = R(after[1])
      /\ after[3] = R(after[2]) /\ after[4] = R(after[3])
  <2>1. after[0] = facts.holds BY <1>4
  <2>2. 4 - 1 = 3 /\ 3 - 1 = 2 /\ 2 - 1 = 1 /\ 1 - 1 = 0 OBVIOUS
  <2>3. QED BY <1>4, <2>1, <2>2
<1>7. QED BY <1>3, <1>5, <1>6

LEMMA BoundIsShown ==
  ASSUME NEW facts, NEW S, Closed(S, facts), Pairs(facts.holds)
  PROVE  BoundHolds(facts) \subseteq S /\ Pairs(BoundHolds(facts))
<1> DEFINE Good(h) == h \subseteq S /\ Pairs(h)
<1>1. ASSUME NEW h, Good(h) PROVE Good(Round(h, facts))
  BY <1>1, LearnedIsShown DEF Round, Pairs
<1>2. Good(facts.holds) BY DEF Closed
<1> HIDE DEF Good
<1>3. Good(BoundHolds(facts)) BY <1>1, <1>2, BoundInFourRounds
<1>4. QED BY <1>3 DEF Good

(* The edges one call of finish adds.                                      *)
LEMMA FollowedIsShown ==
  ASSUME NEW es, NEW facts, Pairs(facts.holds), NEW k, NEW e \in Followed(es, facts, k)
  PROVE  /\ e.how = "flow" /\ e.pass = k /\ KindOf[e.tgt] \in Callable
         /\ \E h : /\ \/ \E d \in es : /\ d.kind = "CALLS" /\ d.how = "value"
                                       /\ <<d.src, d.tgt, d.site>> = <<e.src, h, e.site>>
                      \/ \E p \in facts.params : p[1] = e.src /\ p[2] = h /\ p[3] = e.site
                   /\ KindOf[h] \in Holders =>
                        \A S : Closed(S, facts) => <<h, e.tgt>> \in S
<1> DEFINE holds == BoundHolds(facts)
           added == FollowedValues(es, holds, k)
<1>1. ASSUME NEW h, NEW c \in Callables(holds, h)
      PROVE  /\ KindOf[c] \in Callable
             /\ KindOf[h] \in Holders => \A S : Closed(S, facts) => <<h, c>> \in S
  <2>1. KindOf[c] \in Callable
    <3> HIDE DEF holds
    <3>1. QED BY <1>1 DEF Callables
  <2>2. ASSUME KindOf[h] \in Holders, NEW S, Closed(S, facts) PROVE <<h, c>> \in S
    <3>1. holds \subseteq S /\ Pairs(holds) BY <2>2, BoundIsShown
    <3> HIDE DEF holds
    <3>2. c = h \/ <<h, c>> \in S BY <1>1, <2>2, <3>1, CallablesAreShown DEF Pairs
    <3>3. c # h BY <2>1, <2>2 DEF Callable, Holders
    <3>4. QED BY <3>2, <3>3
  <2>3. QED BY <2>1, <2>2
<1>2. e \in added \/ e \in FollowedParameters(es, added, facts, holds, k) BY DEF Followed
<1> HIDE DEF holds, added
<1>3. \A caller, callable, site, by :
        /\ FlowEdge(caller, callable, site, k, by).how = "flow"
        /\ FlowEdge(caller, callable, site, k, by).pass = k
        /\ FlowEdge(caller, callable, site, k, by).src = caller
        /\ FlowEdge(caller, callable, site, k, by).tgt = callable
        /\ FlowEdge(caller, callable, site, k, by).site = site
  BY DEF FlowEdge
<1>4. CASE e \in added
  <2>1. PICK d \in es : /\ d.kind = "CALLS" /\ d.how = "value"
                        /\ \E c \in Callables(holds, d.tgt) : e = FlowEdge(d.src, c, d.site, k, "value")
    BY <1>4 DEF FollowedValues, added
  <2>2. PICK c \in Callables(holds, d.tgt) : e = FlowEdge(d.src, c, d.site, k, "value") BY <2>1
  <2>3. /\ e.how = "flow" /\ e.pass = k /\ e.tgt = c
        /\ <<d.src, d.tgt, d.site>> = <<e.src, d.tgt, e.site>>
    BY <2>2, <1>3
  <2>4. /\ KindOf[e.tgt] \in Callable
        /\ KindOf[d.tgt] \in Holders => \A S : Closed(S, facts) => <<d.tgt, e.tgt>> \in S
    BY <1>1, <2>2, <2>3
  <2>5. QED BY <2>1, <2>3, <2>4
<1>5. CASE e \in FollowedParameters(es, added, facts, holds, k)
  <2>1. PICK p \in facts.params : \E c \in Callables(holds, p[2]) :
          e = FlowEdge(p[1], c, p[3], k, "parameter")
    BY <1>5 DEF FollowedParameters
  <2>2. PICK c \in Callables(holds, p[2]) : e = FlowEdge(p[1], c, p[3], k, "parameter") BY <2>1
  <2>3. e.how = "flow" /\ e.pass = k /\ e.tgt = c /\ p[1] = e.src /\ p[3] = e.site
    BY <2>2, <1>3
  <2>4. /\ KindOf[e.tgt] \in Callable
        /\ KindOf[p[2]] \in Holders => \A S : Closed(S, facts) => <<p[2], e.tgt>> \in S
    BY <1>1, <2>2, <2>3
  <2>5. QED BY <2>1, <2>3, <2>4
<1>6. QED BY <1>2, <1>4, <1>5

(* A chain of holders from h to c, within the hops the code looks.         *)
Chain(links, h, c) ==
  \E n \in 1..Hops : \E p :
    /\ p[0] = h /\ p[n] = c
    /\ \A i \in 1..n : KindOf[p[i - 1]] \in Holders /\ <<p[i - 1], p[i]>> \in links

Reaches(links, id, f) ==
  IF KindOf[id] \in Holders THEN KindOf[f] \in Callable /\ Chain(links, id, f) ELSE f = id

(* What is assigned, and what a parameter is given by a call whose callee  *)
(* is named or held by way of assignments.                                 *)
LinksOf(facts) ==
  facts.holds \cup
    UNION {{<<Parameters[f][m[1][2]], m[1][3]>> :
              f \in {g \in DOMAIN Parameters : /\ Reaches(facts.holds, m[2][2], g)
                                               /\ m[1][2] \in DOMAIN Parameters[g]}} :
             m \in {x \in facts.args \X facts.calls : x[1][1] = x[2][1]}}

(* A chain of assignments and arguments that ends at a callable is         *)
(* followed, from every value called in this root or an earlier one and    *)
(* from every parameter called in this root.                               *)
ChainsAreFollowed ==
  \A k \in Passes : \A h, c : Chain(LinksOf(FactsOf(k)), h, c) /\ KindOf[c] \in Callable =>
    /\ \A d \in edges : d.how = "value" /\ d.by = "answer" /\ d.pass <= k /\ d.tgt = h =>
         \E e \in edges : e.how = "flow" /\ <<e.src, e.tgt, e.site>> = <<d.src, c, d.site>>
    /\ \A q \in FactsOf(k).params : q[2] = h =>
         \E e \in edges : e.kind = "CALLS" /\ <<e.src, e.tgt, e.site>> = <<q[1], c, q[3]>>

LEMMA ChainsAreCallables ==
  ASSUME NEW links, NEW holds, links \subseteq holds, NEW h, NEW c, Chain(links, h, c),
         KindOf[c] \in Callable
  PROVE  c \in Callables(holds, h)
<1>1. PICK reach : /\ Callables(holds, h) = {x \in reach[Hops] : KindOf[x] \in Callable}
                   /\ reach[0] = {h}
                   /\ \A n \in 1..Hops : reach[n] = Hop(holds, reach[n - 1])
  BY CallablesRecur
<1>2. PICK n \in 1..Hops : \E p :
        /\ p[0] = h /\ p[n] = c
        /\ \A i \in 1..n : KindOf[p[i - 1]] \in Holders /\ <<p[i - 1], p[i]>> \in links
  BY DEF Chain
<1>3. PICK p : /\ p[0] = h /\ p[n] = c
               /\ \A i \in 1..n : KindOf[p[i - 1]] \in Holders /\ <<p[i - 1], p[i]>> \in links
  BY <1>2
<1>4. Hops \in Nat /\ n \in 1..Hops BY DEF Hops
<1> DEFINE At(i) == IF i <= n THEN p[i] ELSE c
           Off == {i \in 0..Hops : At(i) \notin reach[i]}
<1>5. Off = {}
  <2>1. SUFFICES ASSUME Off # {} PROVE FALSE OBVIOUS
  <2>2. PICK m \in Off : \A y \in Off : m <= y
    <3>1. Off \in SUBSET Nat OBVIOUS
    <3> HIDE DEF Off
    <3>2. QED BY <2>1, <3>1, LeastNat
  <2>3. m # 0
    <3>1. At(0) = h BY <1>3, <1>4
    <3> HIDE DEF At
    <3>2. QED BY <3>1, <1>1
  <2>4. m \in 1..Hops /\ m - 1 \in 0..Hops /\ ~ (m <= m - 1) BY <2>3, <1>4
  <2>5. At(m - 1) \in reach[m - 1] BY <2>2, <2>4
  <2>6. reach[m] = Hop(holds, reach[m - 1])
    <3> HIDE DEF Off
    <3>1. QED BY <1>1, <2>4
  <2>7. CASE m <= n
    <3>1. m \in 1..n /\ m - 1 <= n BY <2>4, <2>7, <1>4
    <3>2. At(m - 1) = p[m - 1] /\ At(m) = p[m] BY <2>7, <3>1
    <3>3. KindOf[p[m - 1]] \in Holders /\ <<p[m - 1], p[m]>> \in holds BY <1>3, <3>1
    <3>4. p[m] \in Hop(holds, reach[m - 1])
      <4> DEFINE x == <<p[m - 1], p[m]>>
      <4>1. x \in holds /\ x[1] \in reach[m - 1] /\ KindOf[x[1]] \in Holders /\ x[2] = p[m]
        BY <2>5, <3>2, <3>3
      <4> HIDE DEF x
      <4>2. QED BY <4>1 DEF Hop
    <3>5. At(m) \in reach[m] BY <2>6, <3>2, <3>4
    <3>6. QED BY <3>5
  <2>8. CASE ~ (m <= n)
    <3>1. At(m) = c BY <2>8
    <3>2. At(m - 1) = c
      <4>1. m - 1 = n \/ ~ (m - 1 <= n) BY <2>4, <2>8, <1>4
      <4>2. QED BY <4>1, <1>3
    <3> HIDE DEF At
    <3>3. At(m) \in reach[m] BY <2>5, <2>6, <3>1, <3>2 DEF Hop
    <3>4. QED BY <3>3
  <2>9. QED BY <2>7, <2>8
<1>6. At(Hops) = c
  <2>1. ~ (Hops <= n) \/ Hops = n BY <1>4
  <2>2. QED BY <2>1, <1>3
<1>7. c \in reach[Hops]
  <2>1. Hops \in 0..Hops BY <1>4
  <2> HIDE DEF At
  <2>2. QED BY <1>5, <1>6, <2>1
<1>8. QED BY <1>1, <1>7

LEMMA LinksAreBound ==
  ASSUME NEW facts
  PROVE  LinksOf(facts) \subseteq BoundHolds(facts)
<1>1. Learn(facts.holds, facts) \subseteq BoundHolds(facts) /\ facts.holds \subseteq BoundHolds(facts)
  BY BoundInFourRounds DEF Round
<1>2. ASSUME NEW m \in facts.args \X facts.calls, m[1][1] = m[2][1],
             NEW f, Reaches(facts.holds, m[2][2], f), m[1][2] \in DOMAIN Parameters[f]
      PROVE  <<Parameters[f][m[1][2]], m[1][3]>> \in Learn(facts.holds, facts)
  <2>1. KindOf[m[2][2]] \in Holders => f \in Callables(facts.holds, m[2][2])
    BY <1>2, ChainsAreCallables DEF Reaches
  <2>2. KindOf[m[2][2]] \notin Holders => f \in {m[2][2]} BY <1>2 DEF Reaches
  <2>3. QED BY <1>2, <2>1, <2>2 DEF Learn
<1>3. QED BY <1>1, <1>2 DEF LinksOf

LEMMA ChainsOfPass ==
  ASSUME NEW es, NEW facts, NEW k, NEW h, NEW c,
         Chain(LinksOf(facts), h, c), KindOf[c] \in Callable
  PROVE  /\ \A d \in es : d.kind = "CALLS" /\ d.how = "value" /\ d.tgt = h =>
              \E e \in Followed(es, facts, k) :
                e.how = "flow" /\ <<e.src, e.tgt, e.site>> = <<d.src, c, d.site>>
         /\ \A q \in facts.params : q[2] = h =>
              \E e \in es \cup Followed(es, facts, k) :
                e.kind = "CALLS" /\ <<e.src, e.tgt, e.site>> = <<q[1], c, q[3]>>
<1> DEFINE holds == BoundHolds(facts)
           added == FollowedValues(es, holds, k)
           more == FollowedParameters(es, added, facts, holds, k)
<1>1. c \in Callables(holds, h) BY LinksAreBound, ChainsAreCallables
<1>2. Followed(es, facts, k) = added \cup more BY DEF Followed
<1> HIDE DEF holds
<1>3. ASSUME NEW d \in es, d.kind = "CALLS", d.how = "value", d.tgt = h
      PROVE  \E e \in added : e.how = "flow" /\ <<e.src, e.tgt, e.site>> = <<d.src, c, d.site>>
  <2> DEFINE e == FlowEdge(d.src, c, d.site, k, "value")
  <2>1. e \in added BY <1>1, <1>3 DEF FollowedValues
  <2>2. e.how = "flow" /\ e.src = d.src /\ e.tgt = c /\ e.site = d.site BY DEF FlowEdge
  <2> HIDE DEF e, added
  <2>3. QED BY <2>1, <2>2
<1>4. ASSUME NEW q \in facts.params, q[2] = h
      PROVE  \E e \in es \cup (added \cup more) :
               e.kind = "CALLS" /\ <<e.src, e.tgt, e.site>> = <<q[1], c, q[3]>>
  <2> HIDE DEF added
  <2>1. CASE \E e \in es \cup added : e.kind = "CALLS" /\ <<e.src, e.tgt, e.site>> = <<q[1], c, q[3]>>
    BY <2>1
  <2>2. CASE ~ \E e \in es \cup added : e.kind = "CALLS" /\ <<e.src, e.tgt, e.site>> = <<q[1], c, q[3]>>
    <3> DEFINE e == FlowEdge(q[1], c, q[3], k, "parameter")
    <3>1. e \in more BY <1>1, <1>4, <2>2 DEF FollowedParameters
    <3>2. e.kind = "CALLS" /\ e.src = q[1] /\ e.tgt = c /\ e.site = q[3] BY DEF FlowEdge
    <3> HIDE DEF e, more
    <3>3. QED BY <3>1, <3>2
  <2>3. QED BY <2>1, <2>2
<1> HIDE DEF added, more
<1>5. QED BY <1>2, <1>3, <1>4

LEMMA NotedPairs ==
  ASSUME NEW occs, NEW refs
  PROVE  Pairs(Noted(occs, refs).holds)
<1>1. PICK I : Noted(occs, refs).holds = {<<occs[i].enclosing, Token(occs[i], refs[i])>> : i \in I}
  BY DEF Noted
<1>2. \A a, b : <<a, b>> = << <<a, b>>[1], <<a, b>>[2] >> OBVIOUS
<1>3. QED BY <1>1, <1>2 DEF Pairs

LEMMA NotedUnmoved ==
  ASSUME order' = order, NEW occs, NEW refs
  PROVE  Noted(occs, refs)' = Noted(occs, refs)
<1>1. Spans' = Spans BY DEF Spans
<1>2. \A ref : Bound(ref)' = Bound(ref) BY <1>1 DEF Bound
<1>3. \A o, ref : Outcome(o, ref)' = Outcome(o, ref) BY <1>2 DEF Outcome
<1>4. \A o, ref : Token(o, ref)' = Token(o, ref) BY <1>1, <1>2 DEF Token
<1>5. With(occs, refs, "edge")' = With(occs, refs, "edge") BY <1>3 DEF With, Paired
<1>6. QED BY <1>1, <1>2, <1>4, <1>5 DEF Noted, Paired

LEMMA ValueEdgesAreCalls ==
  ASSUME order \in Orders, NEW occs, NEW refs, NEW k, PassOf(occs, refs, k), NEW e \in Written(occs, refs, k)
  PROVE  /\ e.how # "flow"
         /\ e.how = "value" => e.kind = "CALLS" /\ KindOf[e.tgt] \in Holders
<1>1. PICK i \in With(occs, refs, "edge") : e = EdgeOf(occs[i], refs[i], k, i) BY DEF Written
<1>2. /\ e.kind = RelationKind(occs[i]) /\ e.how = Classify(RelationKind(occs[i]), refs[i])
      /\ e.tgt = IF Bound(refs[i]) = Unset THEN Symbol(occs[i], refs[i], order[k]) ELSE Bound(refs[i])
  BY <1>1 DEF EdgeOf
<1>3. \A kind : /\ Classify(kind, refs[i]) # "flow"
                /\ Classify(kind, refs[i]) = "value" =>
                     kind = "CALLS" /\ Bound(refs[i]) # Unset /\ KindOf[Bound(refs[i])] \in Holders
  BY DEF Classify
<1>4. QED BY <1>2, <1>3

(* Beside what answers wrote there is only what was followed.              *)
FlowInv ==
  /\ \A e \in edges : e.by = "answer" \/ e.how = "flow"
  /\ FlowEdgesAreShown
  /\ ChainsAreFollowed

LEMMA KeptFlow ==
  ASSUME PassInv, FlowInv, Kept, built' = built \/ done = 0
  PROVE  FlowInv'
<1>1. order' = order /\ done' = done /\ edges' = edges /\ got' = got /\ Passes' = Passes
  BY DEF Kept, Passes
<1>2. \A k \in Passes : FactsOf(k)' = FactsOf(k)
  <2>1. SUFFICES ASSUME NEW k \in Passes PROVE FactsOf(k)' = FactsOf(k) OBVIOUS
  <2>2. built' = built BY <2>1 DEF Passes
  <2>3. FactsOf(k)' = Noted(built[k], got[k])' BY <1>1, <2>2 DEF FactsOf
  <2>4. QED BY <1>1, <2>2, <2>3, NotedUnmoved DEF FactsOf
<1>3. \A e \in edges' : e.by = "answer" \/ e.how = "flow" BY <1>1 DEF FlowInv
<1>4. FlowEdgesAreShown'
  <2>1. \A h : \A e \in edges : e.how = "flow" =>
          (ValueCalled(h, e)' <=> ValueCalled(h, e)) /\ (ParameterCalled(h, e)' <=> ParameterCalled(h, e))
    BY <1>1, <1>2 DEF ValueCalled, ParameterCalled, FlowInv, FlowEdgesAreShown
  <2>2. QED BY <1>1, <1>2, <2>1 DEF FlowInv, FlowEdgesAreShown
<1>5. ChainsAreFollowed' BY <1>1, <1>2 DEF FlowInv, ChainsAreFollowed
<1>6. QED BY <1>3, <1>4, <1>5 DEF FlowInv

LEMMA ResolveFlow ==
  ASSUME PassInv, FlowInv, Resolve
  PROVE  FlowInv'
<1>1. PICK k, occs : k = done + 1 /\ occs = built[k] OBVIOUS
<1>2. PICK truth \in AllAnswers(occs) :
          /\ LET es == edges \cup Written(occs, truth, k)
             IN  edges' = es \cup Followed(es, Noted(occs, truth), k)
          /\ got' = Append(got, truth)
          /\ done' = k
  BY <1>1, ResolveIsPass
<1> DEFINE es == edges \cup Written(occs, truth, k)
           facts == Noted(occs, truth)
           new == Followed(es, facts, k)
<1>3. edges' = es \cup new BY <1>2
<1>4. order' = order /\ built' = built BY DEF Resolve
<1>5. /\ order \in Orders /\ done \in Nat /\ Len(got) = done
      /\ \E T : got \in Seq(T)
      /\ k \in Nat /\ Passes' = Passes \cup {k} /\ k \notin Passes /\ Passes = 1..done
      /\ \A j \in Passes : j <= k
  <2>1. order \in Seq(DOMAIN UseSites) /\ done \in 0..Len(order) /\ Len(got) = done /\ got \in Seq(AnswerLists)
        /\ order \in Orders
    BY OrdersAssumption DEF PassInv, PassesInv
  <2>2. done \in Nat BY <2>1
  <2>3. QED BY <2>1, <2>2, <1>1, <1>2 DEF Passes
<1>6. got'[k] = truth /\ \A j \in Passes : got'[j] = got[j] BY <1>1, <1>2, <1>5
<1>7. FactsOf(k)' = facts /\ \A j \in Passes : FactsOf(j)' = FactsOf(j)
  <2>1. FactsOf(k)' = facts
    <3>1. FactsOf(k)' = Noted(occs, truth)' BY <1>1, <1>4, <1>6 DEF FactsOf
    <3>2. QED BY <1>4, <3>1, NotedUnmoved
  <2>2. ASSUME NEW j \in Passes PROVE FactsOf(j)' = FactsOf(j)
    <3>1. PICK o, r : o = built[j] /\ r = got[j] OBVIOUS
    <3>2. built'[j] = o /\ got'[j] = r BY <1>4, <1>6, <3>1
    <3>3. FactsOf(j)' = Noted(o, r)' BY <3>2 DEF FactsOf
    <3>4. FactsOf(j) = Noted(o, r) BY <3>1 DEF FactsOf
    <3>5. QED BY <1>4, <3>3, <3>4, NotedUnmoved
  <2>3. QED BY <2>1, <2>2
<1>8. PassOf(occs, truth, k)
  <2>1. PassInv' BY ResolveInv
  <2>2. PassOf(built[k], got[k], k)' BY <2>1, <1>5 DEF PassInv, PassesInv
  <2>3. PassOf(occs, truth, k)' BY <2>2, <1>1, <1>4, <1>6 DEF PassOf
  <2>4. QED BY <2>3, <1>4, Unmoved
<1>9. \A e \in Written(occs, truth, k) :
        /\ e.by = "answer" /\ e.pass = k /\ e.how # "flow"
        /\ e.how = "value" => e.kind = "CALLS" /\ KindOf[e.tgt] \in Holders
  BY <1>5, <1>8, PassEdges, ValueEdgesAreCalls
<1>10. \A e \in edges : e.how = "value" =>
         /\ e.by = "answer" /\ e.pass \in Passes
         /\ e.kind = "CALLS" /\ KindOf[e.tgt] \in Holders
  <2>1. SUFFICES ASSUME NEW e \in edges, e.how = "value"
                 PROVE  /\ e.by = "answer" /\ e.pass \in Passes
                        /\ e.kind = "CALLS" /\ KindOf[e.tgt] \in Holders
    OBVIOUS
  <2>2. e.by = "answer" BY <2>1 DEF FlowInv
  <2>3. PICK j \in Passes : e \in Written(built[j], got[j], j)
    BY <2>2 DEF PassInv, WrittenInv, Direct, AllWritten
  <2>4. PassOf(built[j], got[j], j) BY DEF PassInv, PassesInv
  <2>5. QED BY <2>1, <2>2, <2>3, <2>4, <1>5, PassEdges, ValueEdgesAreCalls
<1>11. \A e \in es : e.how = "value" =>
         /\ e.by = "answer" /\ e.pass <= k
         /\ e.kind = "CALLS" /\ KindOf[e.tgt] \in Holders
  <2>1. k <= k BY <1>5
  <2>2. QED BY <1>5, <1>9, <1>10, <2>1
<1>12. Pairs(facts.holds) BY NotedPairs
<1> HIDE DEF es, facts, new
<1>13. \A e \in new :
         /\ e.how = "flow" /\ e.pass = k /\ KindOf[e.tgt] \in Callable
         /\ \E h : /\ \/ \E d \in es : /\ d.kind = "CALLS" /\ d.how = "value"
                                       /\ <<d.src, d.tgt, d.site>> = <<e.src, h, e.site>>
                      \/ \E p \in facts.params : p[1] = e.src /\ p[2] = h /\ p[3] = e.site
                   /\ KindOf[h] \in Holders => \A S : Closed(S, facts) => <<h, e.tgt>> \in S
  BY <1>12, FollowedIsShown DEF new
<1>14. \A e \in edges' : e.by = "answer" \/ e.how = "flow"
  BY <1>3, <1>9, <1>13 DEF FlowInv, es
<1>15. FlowEdgesAreShown'
  <2>1. SUFFICES ASSUME NEW e \in edges', e.how = "flow"
                 PROVE  /\ e.pass \in Passes' /\ KindOf[e.tgt] \in Callable
                        /\ \E h : /\ ValueCalled(h, e)' \/ ParameterCalled(h, e)'
                                  /\ KindOf[h] \in Holders =>
                                       \A S : Closed(S, FactsOf(e.pass)') => <<h, e.tgt>> \in S
    BY DEF FlowEdgesAreShown
  <2>2. CASE e \in edges
    <3>1. /\ e.pass \in Passes /\ KindOf[e.tgt] \in Callable
          /\ \E h : /\ ValueCalled(h, e) \/ ParameterCalled(h, e)
                    /\ KindOf[h] \in Holders =>
                         \A S : Closed(S, FactsOf(e.pass)) => <<h, e.tgt>> \in S
      BY <2>1, <2>2 DEF FlowInv, FlowEdgesAreShown
    <3>2. FactsOf(e.pass)' = FactsOf(e.pass) BY <3>1, <1>7
    <3>3. \A h : (ValueCalled(h, e) => ValueCalled(h, e)') /\ (ParameterCalled(h, e) => ParameterCalled(h, e)')
      <4>1. edges \subseteq edges' BY <1>3 DEF es
      <4>2. QED BY <4>1, <3>2 DEF ValueCalled, ParameterCalled
    <3>4. QED BY <3>1, <3>2, <3>3, <1>5
  <2>3. CASE e \in new
    <3>1. e.pass = k /\ KindOf[e.tgt] \in Callable BY <2>3, <1>13
    <3>2. FactsOf(e.pass)' = facts BY <3>1, <1>7
    <3>3. PICK h : /\ \/ \E d \in es : /\ d.kind = "CALLS" /\ d.how = "value"
                                       /\ <<d.src, d.tgt, d.site>> = <<e.src, h, e.site>>
                      \/ \E p \in facts.params : p[1] = e.src /\ p[2] = h /\ p[3] = e.site
                   /\ KindOf[h] \in Holders => \A S : Closed(S, facts) => <<h, e.tgt>> \in S
      BY <2>3, <1>13
    <3>4. ASSUME NEW d \in es, d.how = "value", <<d.src, d.tgt, d.site>> = <<e.src, h, e.site>>
          PROVE  ValueCalled(h, e)'
      <4>1. d.by = "answer" /\ d.pass <= e.pass /\ KindOf[h] \in Holders BY <3>1, <3>4, <1>11
      <4>2. d \in edges' BY <1>3
      <4>3. QED BY <3>4, <4>1, <4>2 DEF ValueCalled
    <3>5. ASSUME NEW p \in facts.params, p[1] = e.src, p[2] = h, p[3] = e.site
          PROVE  ParameterCalled(h, e)'
      <4>1. p = <<e.src, h, e.site>>
        <5>1. PICK I : facts.params = {<<occs[i].enclosing, occs[i].named, occs[i].site>> : i \in I}
          BY DEF facts, Noted
        <5>2. QED BY <5>1, <3>5
      <4>2. QED BY <3>2, <4>1 DEF ParameterCalled
    <3>6. ValueCalled(h, e)' \/ ParameterCalled(h, e)' BY <3>3, <3>4, <3>5
    <3>7. QED BY <3>1, <3>2, <3>3, <3>6, <1>5
  <2>4. CASE e \in Written(occs, truth, k) BY <2>1, <2>4, <1>9
  <2>5. QED BY <2>2, <2>3, <2>4, <1>3 DEF es
<1>16. ChainsAreFollowed'
  <2>1. SUFFICES ASSUME NEW j \in Passes', NEW h, NEW c,
                        Chain(LinksOf(FactsOf(j)'), h, c), KindOf[c] \in Callable
                 PROVE  /\ \A d \in edges' : d.how = "value" /\ d.by = "answer" /\ d.pass <= j /\ d.tgt = h =>
                             \E e \in edges' : e.how = "flow" /\ <<e.src, e.tgt, e.site>> = <<d.src, c, d.site>>
                        /\ \A q \in FactsOf(j)'.params : q[2] = h =>
                             \E e \in edges' : e.kind = "CALLS" /\ <<e.src, e.tgt, e.site>> = <<q[1], c, q[3]>>
    BY DEF ChainsAreFollowed
  <2>2. CASE j \in Passes
    <3>1. FactsOf(j)' = FactsOf(j) BY <2>2, <1>7
    <3>2. Chain(LinksOf(FactsOf(j)), h, c) BY <2>1, <3>1
    <3>3. /\ \A d \in edges : d.how = "value" /\ d.by = "answer" /\ d.pass <= j /\ d.tgt = h =>
               \E e \in edges : e.how = "flow" /\ <<e.src, e.tgt, e.site>> = <<d.src, c, d.site>>
          /\ \A q \in FactsOf(j).params : q[2] = h =>
               \E e \in edges : e.kind = "CALLS" /\ <<e.src, e.tgt, e.site>> = <<q[1], c, q[3]>>
      BY <2>1, <2>2, <3>2 DEF FlowInv, ChainsAreFollowed
    <3>4. edges \subseteq edges' BY <1>3 DEF es
    <3>5. ASSUME NEW d \in edges', d.how = "value", d.pass <= j PROVE d \in edges
      <4>1. ~ (k <= j) BY <2>2, <1>1, <1>5
      <4>2. QED BY <3>5, <4>1, <1>3, <1>9, <1>13 DEF es
    <3>6. QED BY <3>1, <3>3, <3>4, <3>5
  <2>3. CASE j = k
    <3>1. FactsOf(j)' = facts BY <2>3, <1>7
    <3>2. /\ \A d \in es : d.kind = "CALLS" /\ d.how = "value" /\ d.tgt = h =>
               \E e \in new : e.how = "flow" /\ <<e.src, e.tgt, e.site>> = <<d.src, c, d.site>>
          /\ \A q \in facts.params : q[2] = h =>
               \E e \in es \cup new : e.kind = "CALLS" /\ <<e.src, e.tgt, e.site>> = <<q[1], c, q[3]>>
      BY <2>1, <3>1, ChainsOfPass DEF new
    <3>3. ASSUME NEW d \in edges', d.how = "value" PROVE d \in es /\ d.kind = "CALLS"
      BY <3>3, <1>3, <1>11, <1>13
    <3>4. QED BY <3>1, <3>2, <3>3, <1>3
  <2>4. QED BY <2>2, <2>3, <1>5
<1>17. QED BY <1>14, <1>15, <1>16 DEF FlowInv

LEMMA FlowInvInductive == PassInv /\ FlowInv /\ [Next]_vars => FlowInv'
<1> SUFFICES ASSUME PassInv, FlowInv, [Next]_vars PROVE FlowInv' OBVIOUS
<1>1. CASE UNCHANGED vars BY <1>1, KeptFlow DEF vars, Kept
<1>2. CASE Raise BY <1>2, KeptFlow DEF Raise, Kept
<1>3. CASE BuildStructure
  <2>1. Kept /\ done = 0 BY <1>3 DEF BuildStructure, Kept, PassInv, PassesInv
  <2>2. QED BY <2>1, KeptFlow
<1>4. CASE Prepare BY <1>4, KeptFlow DEF Prepare, Kept
<1>5. CASE Worsen BY <1>5, KeptFlow DEF Worsen, Kept
<1>6. CASE Resolve BY <1>6, ResolveFlow
<1>7. CASE ReadStatus BY <1>7, KeptFlow DEF ReadStatus, Kept
<1>8. CASE Finish BY <1>8, KeptFlow DEF Finish, Kept
<1>9. QED BY <1>1, <1>2, <1>3, <1>4, <1>5, <1>6, <1>7, <1>8
      DEF Next, StructureRaises, PrepareRaises, ResolveRaises, StatusRaises

LEMMA FlowInvInit == Init => FlowInv
<1> SUFFICES ASSUME Init PROVE FlowInv OBVIOUS
<1>1. edges = {} /\ Passes = {} BY DEF Init, Passes
<1>2. QED BY <1>1 DEF FlowInv, FlowEdgesAreShown, ChainsAreFollowed

(* For any roots, any structure and any answers: whatever holds what in    *)
(* however long a circle, the four rounds and the cap on hops never make   *)
(* an edge that the facts of its own pass do not show.                     *)
THEOREM FlowInventsNothing == Spec => []FlowEdgesAreShown
<1>1. FlowInv => FlowEdgesAreShown BY DEF FlowInv
<1>2. QED BY <1>1, PassesInit, PassInvInductive, FlowInvInit, FlowInvInductive, PTL DEF Spec

(* And within the cap they miss no chain of assignments and arguments,     *)
(* for calls of earlier roots too.                                         *)
THEOREM FlowFollowsItsChains == Spec => []ChainsAreFollowed
<1>1. FlowInv => ChainsAreFollowed BY DEF FlowInv
<1>2. QED BY <1>1, PassesInit, PassInvInductive, FlowInvInit, FlowInvInductive, PTL DEF Spec
===============================================================================
