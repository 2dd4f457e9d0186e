--------------------------- MODULE GraphStore_proofs ---------------------------
(***************************************************************************)
(* What holds of Graph for every set of graphs, ids, edges and bounds.     *)
(***************************************************************************)
EXTENDS GraphStore, Positions_proofs, SequenceTheorems, TLAPS

USE DEF StoredStatuses, Statuses

-------------------------------------------------------------------------------
(* The edges link_boundaries appends. *)

LEMMA ProductNat ==
  ASSUME NEW i \in Nat, NEW j \in Nat
  PROVE  i * j \in Nat
OBVIOUS

LEMMA ConfidenceNat ==
  ASSUME NEW r \in Relations
  PROVE  Confidence(r) \in Nat
BY StoreAssumption DEF Relations, Confidence

LEMMA LinkEdgeType ==
  ASSUME NEW c \in Relations, NEW p \in Relations, NEW id \in Ids
  PROVE  LinkEdge(c, p, id) \in Relations
<1>1. Confidence(c) \in Nat /\ Confidence(p) \in Nat BY ConfidenceNat
<1>2. Confidence(c) * Confidence(p) \in Nat BY <1>1, ProductNat
<1>3. c.src \in Ids /\ p.src \in Ids BY DEF Relations
<1>4. COMMUNICATES_WITH \in Kinds BY StoreAssumption
<1>5. QED BY <1>2, <1>3, <1>4 DEF LinkEdge, Relations

LEMMA ChosenSlots ==
  ASSUME TypeOK, NEW g \in Graphs, NEW min
  PROVE  /\ Len(order[g]) * Len(relations[g]) * Len(relations[g]) \in Nat
         /\ Chosen(g, min) \in SUBSET Slots(g)
         /\ Cardinality(Chosen(g, min)) \in Nat
<1>1. Len(order[g]) \in Nat /\ Len(relations[g]) \in Nat BY DEF TypeOK
<1>2. Len(order[g]) * Len(relations[g]) \in Nat BY <1>1, ProductNat
<1>3. Len(order[g]) * Len(relations[g]) * Len(relations[g]) \in Nat
  BY <1>1, <1>2, ProductNat
<1>4. Chosen(g, min) \in SUBSET Slots(g) BY DEF Chosen
<1>5. QED BY <1>3, <1>4, PositionsFinite DEF Slots

LEMMA SlotEdgeType ==
  ASSUME TypeOK, NEW g \in Graphs, NEW min, NEW k, Qualifies(g, k, min)
  PROVE  SlotEdge(g, k) \in Relations
<1>1. relations[g] \in Seq(Relations) /\ order[g] \in Seq(Ids) BY DEF TypeOK
<1>2. /\ relations[g][ConsumerAt(g, k)] \in Relations
      /\ relations[g][ProviderAt(g, k)] \in Relations
      /\ order[g][BoundaryAt(g, k)] \in Ids
  BY <1>1, ElementOfSeq DEF Qualifies
<1>3. QED BY <1>2, LinkEdgeType DEF SlotEdge

LEMMA NewLinksType ==
  ASSUME TypeOK, NEW g \in Graphs, NEW min
  PROVE  /\ NewLinks(g, min) \in Seq(Relations)
         /\ Len(NewLinks(g, min)) = Cardinality(Chosen(g, min))
         /\ DOMAIN NewLinks(g, min) = 1..Cardinality(Chosen(g, min))
<1> DEFINE K == Chosen(g, min)
<1>1. Cardinality(K) \in Nat BY ChosenSlots
<1>2. ASSUME NEW m \in 1..Cardinality(K) PROVE SlotEdge(g, Nth(K, m)) \in Relations
  <2>1. Nth(K, m) \in K BY ChosenSlots, NthIn DEF Slots
  <2>2. Qualifies(g, Nth(K, m), min) BY <2>1 DEF Chosen
  <2>3. QED BY <2>2, SlotEdgeType
<1>3. NewLinks(g, min) \in [1..Cardinality(K) -> Relations] BY <1>2 DEF NewLinks
<1>4. QED BY <1>1, <1>3

-------------------------------------------------------------------------------
(* Type correctness. *)

LEMMA MergedStatusType ==
  ASSUME NEW s \in StoredStatuses \cup {Unset}, NEW t \in StoredStatuses \cup {Unset}
  PROVE  MergedStatus(s, t) \in StoredStatuses \cup {Unset}
BY DEF MergedStatus, Combine, Coerce

LEMMA SliceEdgesType ==
  ASSUME TypeOK, NEW g \in Graphs, NEW S
  PROVE  SliceEdges(g, S) \in Seq(Relations)
<1>1. relations[g] \in Seq(Relations) BY DEF TypeOK
<1>2. {i \in DOMAIN relations[g] : Incident(relations[g][i], S)} \in SUBSET DOMAIN relations[g]
  OBVIOUS
<1>3. QED BY <1>1, <1>2, PickType DEF SliceEdges

LEMMA EndListType ==
  ASSUME NEW rels \in Seq(Relations)
  PROVE  EndList(rels) \in Seq(Ids)
<1>1. Len(rels) \in Nat /\ 2 * Len(rels) \in Nat OBVIOUS
<1>2. ASSUME NEW i \in 1..Len(rels) PROVE rels[i].src \in Ids /\ rels[i].tgt \in Ids
  <2>1. rels[i] \in Relations OBVIOUS
  <2>2. QED BY <2>1 DEF Relations
<1>3. ASSUME NEW k \in 1..(2 * Len(rels))
      PROVE  (IF k % 2 = 1 THEN rels[(k + 1) \div 2].src ELSE rels[k \div 2].tgt) \in Ids
  <2>1. CASE k % 2 = 1
    <3>1. (k + 1) \div 2 \in 1..Len(rels) BY <2>1, <1>1
    <3>2. QED BY <2>1, <3>1, <1>2
  <2>2. CASE k % 2 # 1
    <3>1. k \div 2 \in 1..Len(rels) BY <2>2, <1>1
    <3>2. QED BY <2>2, <3>1, <1>2
  <2>3. QED BY <2>1, <2>2
<1>4. EndList(rels) \in [1..(2 * Len(rels)) -> Ids] BY <1>3 DEF EndList
<1>5. QED BY <1>1, <1>4

LEMMA SliceOrderType ==
  ASSUME TypeOK, NEW g \in Graphs, NEW S
  PROVE  SliceOrder(g, S) \in Seq(Ids)
<1> DEFINE A == {i \in DOMAIN order[g] : order[g][i] \in S}
           ends == EndList(SliceEdges(g, S))
           F == {k \in DOMAIN ends : /\ ends[k] \in FarEnds(g, S) /\ Has(g, ends[k])
                                     /\ \A j \in 1..(k - 1) : ends[j] # ends[k]}
<1>1. order[g] \in Seq(Ids) BY DEF TypeOK
<1>2. ends \in Seq(Ids) BY SliceEdgesType, EndListType
<1>3. A \in SUBSET DOMAIN order[g] /\ F \in SUBSET DOMAIN ends OBVIOUS
<1>4. Pick(order[g], A) \in Seq(Ids) BY <1>1, <1>3, PickType
<1>5. Pick(ends, F) \in Seq(Ids)
  <2> HIDE DEF ends, F
  <2>1. QED BY <1>2, <1>3, PickType
<1>6. SliceOrder(g, S) = Pick(order[g], A) \o Pick(ends, F) BY DEF SliceOrder
<1> HIDE DEF A, ends, F
<1>7. QED BY <1>4, <1>5, <1>6

LEMMA TypeInductive == TypeOK /\ [Next]_storeVars => TypeOK'
<1> SUFFICES ASSUME TypeOK, [Next]_storeVars PROVE TypeOK'
  OBVIOUS
<1> USE DEF Returns, Raises
<1>1. CASE UNCHANGED storeVars
  BY <1>1 DEF TypeOK, storeVars
<1>2. ASSUME NEW g \in Graphs, NEW n \in NodePool[g],
             AddNode(g, n[1], n[2]) \/ InsertNode(g, n[1], n[2])
      PROVE  TypeOK'
  <2>1. n[1] \in Ids /\ n[2] \in Contents
    <3>1. n \in Ids \X Contents BY StoreAssumption
    <3>2. QED BY <3>1
  <2>2. CASE UNCHANGED <<nodes, order>>
    BY <1>2, <2>2 DEF AddNode, InsertNode, TypeOK
  <2>3. CASE Store(g, n[1], n[2])
    <3>1. nodes' = [nodes EXCEPT ![g][n[1]] = n[2]] /\ order' = [order EXCEPT ![g] = Append(@, n[1])]
      BY <2>3 DEF Store
    <3>2. UNCHANGED <<relations, status, recorded>> /\ outcome' \in {"ok", "duplicate"}
      BY <1>2 DEF AddNode, InsertNode
    <3>3. nodes' \in [Graphs -> [Ids -> Contents \cup {Absent}]] BY <3>1, <2>1 DEF TypeOK
    <3>4. order[g] \in Seq(Ids) BY DEF TypeOK
    <3>5. Append(order[g], n[1]) \in Seq(Ids) BY <3>4, <2>1
    <3>6. order' \in [Graphs -> Seq(Ids)] BY <3>1, <3>5 DEF TypeOK
    <3>7. QED BY <3>2, <3>3, <3>6 DEF TypeOK
  <2>4. QED BY <1>2, <2>2, <2>3 DEF AddNode, InsertNode
<1>3. ASSUME NEW g \in Graphs, NEW r \in RelationPool[g], AddRelation(g, r)
      PROVE  TypeOK'
  <2>1. r \in Relations BY StoreAssumption
  <2>2. relations' \in [Graphs -> Seq(Relations)] BY <1>3, <2>1 DEF AddRelation, TypeOK
  <2>3. QED BY <1>3, <2>2 DEF AddRelation, TypeOK
<1>4. ASSUME NEW g \in Graphs, NEW K \in SUBSET DOMAIN relations[g], RetainRelations(g, K)
      PROVE  TypeOK'
  <2>1. relations[g] \in Seq(Relations) BY DEF TypeOK
  <2>2. Pick(relations[g], K) \in Seq(Relations) BY <2>1, PickType
  <2>3. relations' \in [Graphs -> Seq(Relations)]
    BY <1>4, <2>2 DEF RetainRelations, TypeOK
  <2>4. QED BY <1>4, <2>3 DEF RetainRelations, TypeOK
<1>5. ASSUME NEW g \in Graphs, DedupeStructuralRelations(g)
      PROVE  TypeOK'
  <2>1. relations[g] \in Seq(Relations) BY DEF TypeOK
  <2>2. {i \in DOMAIN relations[g] : ~ Repeats(relations[g], i)} \in SUBSET DOMAIN relations[g]
    OBVIOUS
  <2>3. Deduped(relations[g]) \in Seq(Relations) BY <2>1, <2>2, PickType DEF Deduped
  <2>4. relations' \in [Graphs -> Seq(Relations)]
    BY <1>5, <2>3 DEF DedupeStructuralRelations, TypeOK
  <2>5. QED BY <1>5, <2>4 DEF DedupeStructuralRelations, TypeOK
<1>6. ASSUME NEW g \in Graphs, NEW s \in Statuses, SetResolverStatus(g, s)
      PROVE  TypeOK'
  BY <1>6 DEF SetResolverStatus, TypeOK
<1>7. ASSUME NEW g \in Graphs, ForeignStatus(g)
      PROVE  TypeOK'
  BY <1>7 DEF ForeignStatus, TypeOK
<1>8. ASSUME NEW g \in Graphs, NEW h \in Graphs, NEW allow_shared \in BOOLEAN,
             Merge(g, h, allow_shared)
      PROVE  TypeOK'
  <2>1. CASE Conflicts(g, h, allow_shared) # {}
    <3>1. outcome' = "duplicate" /\ UNCHANGED <<nodes, order, relations, status, recorded>>
      BY <1>8, <2>1 DEF Merge
    <3>2. QED BY <3>1 DEF TypeOK
  <2>2. CASE Conflicts(g, h, allow_shared) = {}
    <3>1. MergeInto(g, h) /\ outcome' = "ok"
      BY <1>8, <2>2 DEF Merge
    <3>2. order[h] \in Seq(Ids) /\ order[g] \in Seq(Ids) BY DEF TypeOK
    <3>3. NewPositions(g, h) \in SUBSET DOMAIN order[h] BY DEF NewPositions
    <3>4. Pick(order[h], NewPositions(g, h)) \in Seq(Ids) BY <3>2, <3>3, PickType
    <3>5. order' \in [Graphs -> Seq(Ids)] BY <3>1, <3>2, <3>4 DEF MergeInto, TypeOK
    <3>6. relations' \in [Graphs -> Seq(Relations)] BY <3>1 DEF MergeInto, TypeOK
    <3>7. MergedStatus(status[g], status[h]) \in StoredStatuses \cup {Unset}
      BY MergedStatusType DEF TypeOK
    <3>8. status' \in [Graphs -> StoredStatuses \cup {Unset}]
      BY <3>1, <3>7 DEF MergeInto, TypeOK
    <3>9. recorded' \in [Graphs -> SUBSET StoredStatuses]
      <4>1. recorded[g] \cup recorded[h] \in SUBSET StoredStatuses BY DEF TypeOK
      <4>2. QED BY <3>1, <4>1 DEF MergeInto, TypeOK
    <3>10. nodes' \in [Graphs -> [Ids -> Contents \cup {Absent}]]
      <4> DEFINE N == [id \in Ids |-> IF nodes[g][id] # Absent THEN nodes[g][id] ELSE nodes[h][id]]
      <4>1. N \in [Ids -> Contents \cup {Absent}] BY DEF TypeOK
      <4>2. nodes' = [nodes EXCEPT ![g] = N] BY <3>1 DEF MergeInto
      <4> HIDE DEF N
      <4>3. QED BY <4>1, <4>2 DEF TypeOK
    <3>11. QED BY <3>1, <3>5, <3>6, <3>8, <3>9, <3>10 DEF TypeOK
  <2>3. QED BY <2>1, <2>2
<1>9. ASSUME NEW g \in Graphs, NEW min \in Thresholds, LinkBoundaries(g, min)
      PROVE  TypeOK'
  <2>1. NewLinks(g, min) \in Seq(Relations) BY NewLinksType
  <2>2. relations' \in [Graphs -> Seq(Relations)]
    BY <1>9, <2>1 DEF LinkBoundaries, TypeOK
  <2>3. QED BY <1>9, <2>2 DEF LinkBoundaries, TypeOK
<1>10. ASSUME NEW g \in Graphs, NEW h \in Graphs, NEW S \in SUBSET Ids, Subgraph(g, h, S)
       PROVE  TypeOK'
  <2>1. SliceEdges(g, S) \in Seq(Relations) BY SliceEdgesType
  <2>2. SliceOrder(g, S) \in Seq(Ids) BY SliceOrderType
  <2>3. relations' \in [Graphs -> Seq(Relations)] BY <1>10, <2>1 DEF Subgraph, TypeOK
  <2>4. order' \in [Graphs -> Seq(Ids)] BY <1>10, <2>2 DEF Subgraph, TypeOK
  <2>5. nodes' \in [Graphs -> [Ids -> Contents \cup {Absent}]]
    BY <1>10 DEF Subgraph, TypeOK
  <2>6. QED BY <1>10, <2>3, <2>4, <2>5 DEF Subgraph, TypeOK
<1>11. ASSUME NEW g \in Graphs, NEW end, NEW id, Edges(g, end, id)
       PROVE  TypeOK'
  BY <1>11 DEF Edges, TypeOK
<1>12. ASSUME NEW g \in Graphs, NEW id, NEW depth, Neighbors(g, id, depth)
       PROVE  TypeOK'
  BY <1>12 DEF Neighbors, TypeOK
<1>13. QED BY <1>1, <1>2, <1>3, <1>4, <1>5, <1>6, <1>7, <1>8, <1>9, <1>10, <1>11, <1>12 DEF Next

(* Every call returns a graph of the shape TypeOK describes. *)
THEOREM TypeCorrect == Spec => []TypeOK
<1>1. Init => TypeOK
  BY DEF Init, TypeOK, EmptyNodes
<1>2. QED BY <1>1, TypeInductive, PTL DEF Spec

-------------------------------------------------------------------------------
(* Resolver statuses. *)

LEMMA MergedStatusCovers ==
  ASSUME NEW s \in StoredStatuses \cup {Unset}, NEW t \in StoredStatuses \cup {Unset}
  PROVE  \A x \in {s, t} : x # Unset =>
           /\ MergedStatus(s, t) # Unset
           /\ Severity(Coerce(x)) <= Severity(Coerce(MergedStatus(s, t)))
<1>1. \A x \in StoredStatuses : Coerce(x) \in Statuses BY DEF Coerce
<1>2. \A x \in Statuses : Severity(x) \in Nat /\ Coerce(x) = x BY DEF Severity, Coerce
<1>3. Unset \notin StoredStatuses BY StoreAssumption
<1>4. CASE s = Unset \/ t = Unset
  BY <1>1, <1>2, <1>4 DEF MergedStatus
<1>5. CASE s # Unset /\ t # Unset
  <2>1. MergedStatus(s, t) = Combine(s, t) BY <1>5 DEF MergedStatus
  <2>2. Coerce(s) \in Statuses /\ Coerce(t) \in Statuses BY <1>1, <1>5
  <2>3. Combine(s, t) \in {Coerce(s), Coerce(t)} BY DEF Combine
  <2>4. Combine(s, t) # Unset /\ Coerce(Combine(s, t)) = Combine(s, t)
    BY <2>2, <2>3, <1>2, <1>3
  <2>5. /\ Severity(Coerce(s)) <= Severity(Combine(s, t))
        /\ Severity(Coerce(t)) <= Severity(Combine(s, t))
    BY <2>2, <1>2 DEF Combine
  <2>6. QED BY <2>1, <2>4, <2>5
<1>6. QED BY <1>4, <1>5

LEMMA SeverityTransitive ==
  ASSUME NEW s \in StoredStatuses, NEW t \in StoredStatuses, NEW u \in StoredStatuses,
         Severity(Coerce(s)) <= Severity(Coerce(t)), Severity(Coerce(t)) <= Severity(Coerce(u))
  PROVE  Severity(Coerce(s)) <= Severity(Coerce(u))
<1>1. \A x \in StoredStatuses : Severity(Coerce(x)) \in Nat BY DEF Severity, Coerce
<1>2. QED BY <1>1

(* No merge or slice masks a worse analysis. *)
THEOREM StatusNeverMasked == Spec => []StatusCoversRecorded
<1>1. Init => StatusCoversRecorded
  BY DEF Init, StatusCoversRecorded
<1>2. TypeOK /\ TypeOK' /\ StatusCoversRecorded /\ [Next]_storeVars => StatusCoversRecorded'
  <2> SUFFICES ASSUME TypeOK, TypeOK', StatusCoversRecorded, [Next]_storeVars
               PROVE  StatusCoversRecorded'
    OBVIOUS
  <2>1. CASE UNCHANGED <<status, recorded>>
    BY <2>1 DEF StatusCoversRecorded
  <2>2. ASSUME NEW g \in Graphs, NEW s \in StoredStatuses, status[g] = Unset,
               status' = [status EXCEPT ![g] = s],
               recorded' = [recorded EXCEPT ![g] = @ \cup {s}]
        PROVE  StatusCoversRecorded'
    <3>1. recorded[g] = {} BY <2>2 DEF StatusCoversRecorded
    <3>2. recorded'[g] = {s} /\ status'[g] = s BY <2>2, <3>1 DEF TypeOK
    <3>3. Severity(Coerce(s)) <= Severity(Coerce(s)) BY DEF Severity, Coerce
    <3>4. s # Unset BY StoreAssumption
    <3>5. \A h \in Graphs \ {g} : recorded'[h] = recorded[h] /\ status'[h] = status[h]
      BY <2>2 DEF TypeOK
    <3>6. QED BY <3>2, <3>3, <3>4, <3>5 DEF StatusCoversRecorded
  <2>3. ASSUME NEW g \in Graphs, NEW h \in Graphs, MergeInto(g, h)
        PROVE  StatusCoversRecorded'
    <3> DEFINE m == MergedStatus(status[g], status[h])
    <3>1. recorded'[g] = recorded[g] \cup recorded[h] /\ status'[g] = m
      BY <2>3 DEF MergeInto, TypeOK
    <3>2. \A x \in Graphs \ {g} : recorded'[x] = recorded[x] /\ status'[x] = status[x]
      BY <2>3 DEF MergeInto, TypeOK
    <3>3. ASSUME NEW x \in {g, h}, NEW s \in recorded[x]
          PROVE  m # Unset /\ Severity(Coerce(s)) <= Severity(Coerce(m))
      <4>1. status[x] # Unset /\ Severity(Coerce(s)) <= Severity(Coerce(status[x]))
        BY DEF StatusCoversRecorded
      <4>2. status[g] \in StoredStatuses \cup {Unset} /\ status[h] \in StoredStatuses \cup {Unset}
        BY DEF TypeOK
      <4>3. m # Unset /\ Severity(Coerce(status[x])) <= Severity(Coerce(m))
        BY <4>1, <4>2, MergedStatusCovers
      <4>4. m \in StoredStatuses
        <5>1. m \in StoredStatuses \cup {Unset} BY <4>2, MergedStatusType
        <5>2. QED BY <5>1, <4>3
      <4>5. s \in StoredStatuses
        <5>1. recorded[x] \in SUBSET StoredStatuses BY DEF TypeOK
        <5>2. QED BY <5>1
      <4>6. status[x] \in StoredStatuses BY <4>1, <4>2
      <4> HIDE DEF m
      <4>7. QED BY <4>1, <4>3, <4>4, <4>5, <4>6, SeverityTransitive
    <3> HIDE DEF m
    <3>4. QED BY <3>1, <3>2, <3>3 DEF StatusCoversRecorded
  <2>4. ASSUME NEW g \in Graphs, NEW h \in Graphs,
               status' = [status EXCEPT ![h] = status[g]],
               recorded' = [recorded EXCEPT ![h] = recorded[g]]
        PROVE  StatusCoversRecorded'
    <3>1. status'[h] = status[g] /\ recorded'[h] = recorded[g] BY <2>4 DEF TypeOK
    <3>2. \A x \in Graphs \ {h} : recorded'[x] = recorded[x] /\ status'[x] = status[x]
      BY <2>4 DEF TypeOK
    <3>3. QED BY <3>1, <3>2 DEF StatusCoversRecorded
  <2>5. CASE UNCHANGED storeVars BY <2>1, <2>5 DEF storeVars
  <2>6. CASE Next
    <3>1. PICK g \in Graphs :
            \/ UNCHANGED <<status, recorded>>
            \/ \E s \in Statuses : SetResolverStatus(g, s)
            \/ ForeignStatus(g)
            \/ \E h \in Graphs : MergeInto(g, h)
            \/ \E h \in Graphs, S \in SUBSET Ids : Subgraph(g, h, S)
      BY <2>6 DEF Next, AddNode, InsertNode, AddRelation, RetainRelations,
           DedupeStructuralRelations, Merge, LinkBoundaries, Edges, Neighbors
    <3>2. CASE \E s \in Statuses : SetResolverStatus(g, s)
      BY <2>2, <3>2 DEF SetResolverStatus
    <3>3. CASE ForeignStatus(g) BY <2>2, <3>3 DEF ForeignStatus
    <3>4. CASE \E h \in Graphs, S \in SUBSET Ids : Subgraph(g, h, S)
      BY <2>4, <3>4 DEF Subgraph
    <3>5. QED BY <3>1, <3>2, <3>3, <3>4, <2>1, <2>3
  <2>7. QED BY <2>5, <2>6
<1>3. QED BY <1>1, <1>2, TypeCorrect, PTL DEF Spec

-------------------------------------------------------------------------------
(* The insertion order. *)

Stored(g) == {id \in Ids : Has(g, id)}

(* The order lists each node there is, once. *)
OrderInv == \A g \in Graphs : Lists(order[g], Stored(g))

LEMMA OrderStep ==
  ASSUME OrderInv, NEW g \in Graphs,
         \A x \in Graphs \ {g} : order'[x] = order[x] /\ nodes'[x] = nodes[x],
         Lists(order'[g], Stored(g)')
  PROVE  OrderInv'
<1>1. ASSUME NEW x \in Graphs \ {g} PROVE Lists(order'[x], Stored(x)')
  <2>1. Stored(x)' = Stored(x) BY DEF Stored, Has
  <2>2. QED BY <2>1 DEF OrderInv
<1>2. QED BY <1>1 DEF OrderInv

LEMMA EndListValues ==
  ASSUME NEW rels \in Seq(Relations)
  PROVE  Values(EndList(rels)) = UNION {{r.src, r.tgt} : r \in Values(rels)}
<1> DEFINE e == EndList(rels)
<1>1. Len(rels) \in Nat /\ DOMAIN rels = 1..Len(rels) OBVIOUS
<1>2. /\ DOMAIN e = 1..(2 * Len(rels))
      /\ \A k \in DOMAIN e :
           e[k] = IF k % 2 = 1 THEN rels[(k + 1) \div 2].src ELSE rels[k \div 2].tgt
  BY DEF EndList
<1>3. ASSUME NEW k \in DOMAIN e
      PROVE  \E i \in DOMAIN rels : e[k] \in {rels[i].src, rels[i].tgt}
  <2>1. CASE k % 2 = 1
    <3>1. (k + 1) \div 2 \in DOMAIN rels BY <2>1, <1>1, <1>2
    <3>2. QED BY <3>1, <2>1, <1>2
  <2>2. CASE k % 2 # 1
    <3>1. k \div 2 \in DOMAIN rels BY <2>2, <1>1, <1>2
    <3>2. QED BY <3>1, <2>2, <1>2
  <2>3. QED BY <2>1, <2>2
<1>4. ASSUME NEW i \in DOMAIN rels
      PROVE  /\ \E k \in DOMAIN e : e[k] = rels[i].src
             /\ \E k \in DOMAIN e : e[k] = rels[i].tgt
  <2>1. i \in 1..Len(rels) BY <1>1
  <2>2. 2 * i - 1 \in DOMAIN e /\ 2 * i \in DOMAIN e BY <2>1, <1>1, <1>2
  <2>3. (2 * i - 1) % 2 = 1 /\ (2 * i) % 2 # 1 BY <2>1
  <2>4. ((2 * i - 1) + 1) \div 2 = i /\ (2 * i) \div 2 = i BY <2>1
  <2>5. e[2 * i - 1] = rels[i].src BY <2>2, <2>3, <2>4, <1>2
  <2>6. e[2 * i] = rels[i].tgt BY <2>2, <2>3, <2>4, <1>2
  <2>7. QED BY <2>2, <2>5, <2>6
<1> HIDE DEF e
<1>5. Values(e) = UNION {{r.src, r.tgt} : r \in Values(rels)}
  <2>1. \A k \in DOMAIN e : e[k] \in UNION {{r.src, r.tgt} : r \in Values(rels)}
    BY <1>3 DEF Values
  <2>2. \A x \in UNION {{r.src, r.tgt} : r \in Values(rels)} : \E k \in DOMAIN e : e[k] = x
    BY <1>4 DEF Values
  <2>3. QED BY <2>1, <2>2 DEF Values
<1>6. QED BY <1>5 DEF e

(* A slice lists what it was asked for and the far ends, each once. *)
LEMMA SliceLists ==
  ASSUME TypeOK, OrderInv, NEW g \in Graphs, NEW S \in SUBSET Ids
  PROVE  Lists(SliceOrder(g, S), {id \in S \cup FarEnds(g, S) : Has(g, id)})
<1> DEFINE A == {i \in DOMAIN order[g] : order[g][i] \in S}
           ends == EndList(SliceEdges(g, S))
           F == {k \in DOMAIN ends : /\ ends[k] \in FarEnds(g, S) /\ Has(g, ends[k])
                                     /\ \A j \in 1..(k - 1) : ends[j] # ends[k]}
           Far == {id \in FarEnds(g, S) : Has(g, id)}
           Asked == {id \in S : Has(g, id)}
<1>1. order[g] \in Seq(Ids) /\ Lists(order[g], Stored(g)) BY DEF TypeOK, OrderInv
<1>2. ends \in Seq(Ids) BY SliceEdgesType, EndListType
<1>3. A \in SUBSET DOMAIN order[g] /\ F \in SUBSET DOMAIN ends OBVIOUS
<1>4. Lists(Pick(order[g], A), Asked)
  <2>1. \A i, j \in A : order[g][i] = order[g][j] => i = j BY <1>1 DEF Lists
  <2>2. Lists(Pick(order[g], A), {order[g][i] : i \in A}) BY <1>1, <1>3, <2>1, PickLists
  <2>3. {order[g][i] : i \in A} = Asked BY <1>1 DEF Lists, Stored, Values
  <2>4. QED BY <2>2, <2>3
<1>5. Values(ends) = UNION {{r.src, r.tgt} : r \in Values(SliceEdges(g, S))}
  BY SliceEdgesType, EndListValues
<1>6. FarEnds(g, S) \subseteq Values(ends) BY <1>5 DEF FarEnds
<1>7. Lists(Pick(ends, F), Far)
  <2>1. DOMAIN ends = 1..Len(ends) /\ Len(ends) \in Nat BY <1>2
  <2>2. ASSUME NEW i \in F, NEW j \in F, ends[i] = ends[j] PROVE i = j
    <3>1. i \in 1..Len(ends) /\ j \in 1..Len(ends) BY <2>1
    <3>2. ~ (i \in 1..(j - 1)) /\ ~ (j \in 1..(i - 1)) BY <2>2
    <3>3. QED BY <2>1, <3>1, <3>2
  <2>3. ASSUME NEW x \in Far PROVE \E k \in F : ends[k] = x
    <3> DEFINE T == {k \in DOMAIN ends : ends[k] = x}
    <3>1. T # {} BY <1>6 DEF Values
    <3>2. T \in SUBSET DOMAIN ends OBVIOUS
    <3>3. PICK k \in T : \A j \in T : k <= j
      <4> HIDE DEF ends, T
      <4>1. QED BY <1>2, <3>1, <3>2, FirstPosition
    <3>4. ASSUME NEW j \in 1..(k - 1) PROVE ends[j] # ends[k]
      <4>1. k \in 1..Len(ends) BY <2>1
      <4>2. j \in DOMAIN ends /\ ~ (k <= j) BY <2>1, <4>1
      <4>3. QED BY <4>2, <3>3
    <3>5. ends[k] = x /\ k \in DOMAIN ends OBVIOUS
    <3>6. x \in FarEnds(g, S) /\ Has(g, x) OBVIOUS
    <3>7. k \in F BY <3>4, <3>5, <3>6
    <3>8. QED BY <3>5, <3>7
  <2>4. {ends[k] : k \in F} = Far BY <2>3
  <2> HIDE DEF ends, F, Far
  <2>5. Lists(Pick(ends, F), {ends[k] : k \in F}) BY <1>2, <1>3, <2>2, PickLists
  <2>6. QED BY <2>4, <2>5
<1>8. Asked \cap Far = {}
  <2>1. FarEnds(g, S) \cap S = {}
    BY DEF FarEnds
  <2>2. Far \subseteq FarEnds(g, S) /\ Asked \subseteq S OBVIOUS
  <2> HIDE DEF Far, Asked
  <2>3. QED BY <2>1, <2>2
<1>9. Pick(order[g], A) \in Seq(Ids) BY <1>1, <1>3, PickType
<1>10. Pick(ends, F) \in Seq(Ids)
  <2> HIDE DEF ends, F
  <2>1. QED BY <1>2, <1>3, PickType
<1>11. SliceOrder(g, S) = Pick(order[g], A) \o Pick(ends, F) BY DEF SliceOrder
<1>12. Asked \cup Far = {id \in S \cup FarEnds(g, S) : Has(g, id)} OBVIOUS
<1> HIDE DEF A, F, ends, Asked, Far
<1>13. QED BY <1>4, <1>7, <1>8, <1>9, <1>10, <1>11, <1>12, ConcatLists

LEMMA OrderInvInductive ==
  TypeOK /\ TypeOK' /\ OrderInv /\ [Next]_storeVars => OrderInv'
<1> SUFFICES ASSUME TypeOK, TypeOK', OrderInv, [Next]_storeVars PROVE OrderInv'
  OBVIOUS
<1>1. CASE UNCHANGED <<nodes, order>>
  BY <1>1 DEF OrderInv, Stored, Has, Lists
<1>2. ASSUME NEW g \in Graphs, NEW n \in NodePool[g], ~ Has(g, n[1]), Store(g, n[1], n[2])
      PROVE  OrderInv'
  <2>1. n[1] \in Ids /\ n[2] \in Contents
    <3>1. n \in Ids \X Contents BY StoreAssumption
    <3>2. QED BY <3>1
  <2>2. order[g] \in Seq(Ids) /\ Lists(order[g], Stored(g)) BY DEF TypeOK, OrderInv
  <2>3. /\ order'[g] = Append(order[g], n[1])
        /\ nodes'[g] = [nodes[g] EXCEPT ![n[1]] = n[2]]
        /\ \A x \in Graphs \ {g} : order'[x] = order[x] /\ nodes'[x] = nodes[x]
    BY <1>2 DEF Store, TypeOK
  <2>4. Stored(g)' = Stored(g) \cup {n[1]}
    <3>1. n[2] # Absent BY <2>1, StoreAssumption
    <3>2. nodes[g] \in [Ids -> Contents \cup {Absent}] BY DEF TypeOK
    <3>3. QED BY <2>1, <2>3, <3>1, <3>2 DEF Stored, Has
  <2>5. n[1] \notin Stored(g) BY <1>2 DEF Stored
  <2>6. Lists(order'[g], Stored(g)') BY <2>1, <2>2, <2>3, <2>4, <2>5, AppendLists
  <2>7. QED BY <2>3, <2>6, OrderStep
<1>3. ASSUME NEW g \in Graphs, NEW h \in Graphs, MergeInto(g, h)
      PROVE  OrderInv'
  <2> DEFINE K == NewPositions(g, h)
             New == {id \in Stored(h) : id \notin Stored(g)}
  <2>1. /\ order[g] \in Seq(Ids) /\ Lists(order[g], Stored(g))
        /\ order[h] \in Seq(Ids) /\ Lists(order[h], Stored(h))
    BY DEF TypeOK, OrderInv
  <2>2. /\ order'[g] = order[g] \o Pick(order[h], K)
        /\ nodes'[g] = [id \in Ids |-> IF nodes[g][id] # Absent THEN nodes[g][id] ELSE nodes[h][id]]
        /\ \A x \in Graphs \ {g} : order'[x] = order[x] /\ nodes'[x] = nodes[x]
    BY <1>3 DEF MergeInto, TypeOK
  <2>3. K \in SUBSET DOMAIN order[h] BY DEF NewPositions
  <2>4. Lists(Pick(order[h], K), New)
    <3>1. \A i, j \in K : order[h][i] = order[h][j] => i = j BY <2>1, <2>3 DEF Lists
    <3>2. \A i \in DOMAIN order[h] : order[h][i] \in Ids BY <2>1
    <3>3. {order[h][i] : i \in K} = New
      <4>1. \A i \in DOMAIN order[h] : order[h][i] \in Stored(h) BY <2>1 DEF Lists, Values
      <4>2. \A id \in Stored(h) : \E i \in DOMAIN order[h] : order[h][i] = id
        BY <2>1 DEF Lists, Values
      <4>3. K = {i \in DOMAIN order[h] : order[h][i] \notin Stored(g)}
        BY <3>2 DEF NewPositions, Stored
      <4> HIDE DEF K
      <4>4. QED BY <4>1, <4>2, <4>3
    <3> HIDE DEF K, New
    <3>4. Lists(Pick(order[h], K), {order[h][i] : i \in K}) BY <2>1, <2>3, <3>1, PickLists
    <3>5. QED BY <3>3, <3>4
  <2>5. Stored(g)' = Stored(g) \cup New BY <2>2 DEF Stored, Has
  <2>6. Stored(g) \cap New = {} OBVIOUS
  <2> HIDE DEF K, New
  <2>7. Pick(order[h], K) \in Seq(Ids) BY <2>1, <2>3, PickType
  <2>8. Lists(order'[g], Stored(g)') BY <2>1, <2>2, <2>4, <2>5, <2>6, <2>7, ConcatLists
  <2>9. QED BY <2>2, <2>8, OrderStep
<1>4. ASSUME NEW g \in Graphs, NEW h \in Graphs, NEW S \in SUBSET Ids, Subgraph(g, h, S)
      PROVE  OrderInv'
  <2>1. /\ order'[h] = SliceOrder(g, S)
        /\ nodes'[h] = [id \in Ids |-> IF id \in S \cup FarEnds(g, S) THEN nodes[g][id] ELSE Absent]
        /\ \A x \in Graphs \ {h} : order'[x] = order[x] /\ nodes'[x] = nodes[x]
    BY <1>4 DEF Subgraph, TypeOK
  <2>2. FarEnds(g, S) \subseteq Ids
    <3>1. SliceEdges(g, S) \in Seq(Relations) BY SliceEdgesType
    <3>2. ASSUME NEW r \in Values(SliceEdges(g, S)) PROVE r.src \in Ids /\ r.tgt \in Ids
      <4>1. PICK i \in DOMAIN SliceEdges(g, S) : r = SliceEdges(g, S)[i] BY DEF Values
      <4>2. r \in Relations BY <3>1, <4>1
      <4>3. QED BY <4>2 DEF Relations
    <3>3. QED BY <3>2 DEF FarEnds
  <2>3. Stored(h)' = {id \in S \cup FarEnds(g, S) : Has(g, id)} BY <2>1, <2>2 DEF Stored, Has
  <2>4. Lists(order'[h], Stored(h)') BY <2>1, <2>3, SliceLists
  <2>5. QED BY <2>1, <2>4, OrderStep
<1>5. CASE UNCHANGED storeVars BY <1>1, <1>5 DEF storeVars
<1>6. CASE Next
  <2>1. PICK g \in Graphs :
          \/ UNCHANGED <<nodes, order>>
          \/ \E n \in NodePool[g] : ~ Has(g, n[1]) /\ Store(g, n[1], n[2])
          \/ \E h \in Graphs : MergeInto(g, h)
          \/ \E h \in Graphs, S \in SUBSET Ids : Subgraph(g, h, S)
    BY <1>6 DEF Next, AddNode, InsertNode, AddRelation, RetainRelations, SetResolverStatus,
         ForeignStatus, DedupeStructuralRelations, Merge, LinkBoundaries, Edges, Neighbors
  <2>2. QED BY <2>1, <1>1, <1>2, <1>3, <1>4
<1>7. QED BY <1>5, <1>6

LEMMA OrderInvInvariant == Spec => []OrderInv
<1>1. Init => OrderInv
  <2> SUFFICES ASSUME Init PROVE OrderInv
    OBVIOUS
  <2>1. \A g \in Graphs : Stored(g) = {} /\ order[g] = <<>>
    BY DEF Init, EmptyNodes, Stored, Has
  <2>2. QED BY <2>1, EmptyLists DEF OrderInv
<1>2. QED BY <1>1, OrderInvInductive, TypeCorrect, PTL DEF Spec

-------------------------------------------------------------------------------
(* What a step may never do. *)

(* No call overwrites or drops a node, or changes the order of the nodes   *)
(* already there.                                                          *)
THEOREM NodesNeverLost == Spec => NodesPersist
<1> DEFINE A == \A g \in Graphs :
       /\ \A id \in Ids : Has(g, id) => nodes'[g][id] = nodes[g][id]
       /\ \A i \in DOMAIN order[g] : i \in DOMAIN order'[g] /\ order'[g][i] = order[g][i]
<1>1. TypeOK /\ OrderInv /\ [Next]_storeVars => A \/ UNCHANGED storeVars
  <2> SUFFICES ASSUME TypeOK, OrderInv, [Next]_storeVars PROVE A \/ UNCHANGED storeVars
    OBVIOUS
  <2>1. CASE UNCHANGED <<nodes, order>> BY <2>1
  <2>2. ASSUME NEW g \in Graphs, NEW n \in NodePool[g], ~ Has(g, n[1]), Store(g, n[1], n[2])
        PROVE  A
    <3>1. n[1] \in Ids
      <4>1. n \in Ids \X Contents BY StoreAssumption
      <4>2. QED BY <4>1
    <3>2. order[g] \in Seq(Ids) BY DEF TypeOK
    <3>3. order'[g] = Append(order[g], n[1]) BY <2>2 DEF Store, TypeOK
    <3>4. \A i \in DOMAIN order[g] : i \in DOMAIN order'[g] /\ order'[g][i] = order[g][i]
      BY <3>1, <3>2, <3>3
    <3>5. \A x \in Graphs, id \in Ids : Has(x, id) => nodes'[x][id] = nodes[x][id]
      BY <2>2 DEF Store, TypeOK, Has
    <3>6. \A x \in Graphs \ {g} : order'[x] = order[x] BY <2>2 DEF Store, TypeOK
    <3>7. QED BY <3>4, <3>5, <3>6
  <2>3. ASSUME NEW g \in Graphs, NEW h \in Graphs, MergeInto(g, h) PROVE A
    <3>1. order[g] \in Seq(Ids) /\ order[h] \in Seq(Ids) BY DEF TypeOK
    <3>2. NewPositions(g, h) \in SUBSET DOMAIN order[h] BY DEF NewPositions
    <3>3. Pick(order[h], NewPositions(g, h)) \in Seq(Ids) BY <3>1, <3>2, PickType
    <3>4. order'[g] = order[g] \o Pick(order[h], NewPositions(g, h))
      BY <2>3 DEF MergeInto, TypeOK
    <3>5. \A i \in DOMAIN order[g] : i \in DOMAIN order'[g] /\ order'[g][i] = order[g][i]
      <4> HIDE DEF A
      <4> DEFINE t == Pick(order[h], NewPositions(g, h))
      <4>1. t \in Seq(Ids) /\ order'[g] = order[g] \o t BY <3>3, <3>4
      <4> HIDE DEF t
      <4>2. QED BY <3>1, <4>1, ConcatElements
    <3>6. \A x \in Graphs, id \in Ids : Has(x, id) => nodes'[x][id] = nodes[x][id]
      BY <2>3 DEF MergeInto, TypeOK, Has
    <3>7. \A x \in Graphs \ {g} : order'[x] = order[x] BY <2>3 DEF MergeInto, TypeOK
    <3>8. QED BY <3>5, <3>6, <3>7
  <2>4. ASSUME NEW g \in Graphs, NEW h \in Graphs, NEW S \in SUBSET Ids, Subgraph(g, h, S)
        PROVE  A
    <3>1. order[h] = <<>> /\ Lists(order[h], Stored(h)) BY <2>4 DEF Subgraph, Untouched, OrderInv
    <3>2. \A id \in Ids : ~ Has(h, id) BY <3>1 DEF Lists, Stored, Values
    <3>3. \A x \in Graphs \ {h} : order'[x] = order[x] /\ nodes'[x] = nodes[x]
      BY <2>4 DEF Subgraph, TypeOK
    <3>4. DOMAIN order[h] = {} BY <3>1
    <3>5. QED BY <3>2, <3>3, <3>4
  <2>5. CASE Next
    <3>1. PICK g \in Graphs :
            \/ UNCHANGED <<nodes, order>>
            \/ \E n \in NodePool[g] : ~ Has(g, n[1]) /\ Store(g, n[1], n[2])
            \/ \E h \in Graphs : MergeInto(g, h)
            \/ \E h \in Graphs, S \in SUBSET Ids : Subgraph(g, h, S)
      BY <2>5 DEF Next, AddNode, InsertNode, AddRelation, RetainRelations, SetResolverStatus,
           ForeignStatus, DedupeStructuralRelations, Merge, LinkBoundaries, Edges, Neighbors
    <3> HIDE DEF A
    <3>2. QED BY <3>1, <2>1, <2>2, <2>3, <2>4
  <2>6. QED BY <2>5
<1>2. QED BY <1>1, TypeCorrect, OrderInvInvariant, PTL DEF Spec, NodesPersist

(* An error leaves nodes, order, relations and statuses as they were.      *)
THEOREM FailureIsAtomic == Spec => FailedCallChangesNothing
<1>1. ASSUME [Next]_storeVars
      PROVE  \/ outcome' # "ok" => UNCHANGED <<nodes, order, relations, status>>
             \/ UNCHANGED storeVars
  BY <1>1 DEF Next, AddNode, InsertNode, AddRelation, RetainRelations, SetResolverStatus,
     ForeignStatus, DedupeStructuralRelations, Merge, LinkBoundaries, Subgraph, Edges,
     Neighbors, Returns, Raises
<1>2. QED BY <1>1, PTL DEF Spec, FailedCallChangesNothing

(* Dropping repeats drops no fact. *)
LEMMA DedupedValues ==
  ASSUME NEW rels \in Seq(Relations)
  PROVE  Deduped(rels) \in Seq(Relations) /\ Values(Deduped(rels)) = Values(rels)
<1> DEFINE K == {i \in DOMAIN rels : ~ Repeats(rels, i)}
<1>1. K \in SUBSET DOMAIN rels /\ Deduped(rels) = Pick(rels, K) BY DEF Deduped
<1>2. DOMAIN rels \in SUBSET Nat OBVIOUS
<1>3. ASSUME NEW x \in Values(rels) PROVE \E i \in K : rels[i] = x
  <2> DEFINE T == {i \in DOMAIN rels : rels[i] = x}
  <2>1. T # {} BY DEF Values
  <2>2. T \in SUBSET DOMAIN rels OBVIOUS
  <2>3. PICK i \in T : \A j \in T : i <= j
    <3> HIDE DEF T
    <3>1. QED BY <2>1, <2>2, FirstPosition
  <2>4. \A j \in DOMAIN rels : j < i => rels[j] # rels[i] BY <2>3, <1>2
  <2>5. ~ Repeats(rels, i) BY <2>4 DEF Repeats
  <2>6. QED BY <2>5
<1>4. {rels[i] : i \in K} = Values(rels) BY <1>3 DEF Values
<1> HIDE DEF K
<1>5. QED BY <1>1, <1>4, PickType, PickValues

(* Only retain_relations loses a relation. *)
THEOREM FactsNeverLost == Spec => FactsPersist
<1> DEFINE A == \A g \in Graphs :
       \/ Values(relations[g]) \subseteq Values(relations'[g])
       \/ /\ \E K \in SUBSET DOMAIN relations[g] : RetainRelations(g, K)
          /\ ~ DedupeStructuralRelations(g)
<1>1. TypeOK /\ [Next]_storeVars => A \/ UNCHANGED storeVars
  <2> SUFFICES ASSUME TypeOK, [Next]_storeVars PROVE A \/ UNCHANGED storeVars
    OBVIOUS
  <2>1. CASE UNCHANGED relations BY <2>1
  <2>2. ASSUME NEW g \in Graphs, NEW t \in Seq(Relations),
               relations' = [relations EXCEPT ![g] = @ \o t]
        PROVE  A
    <3>1. relations[g] \in Seq(Relations) BY DEF TypeOK
    <3>2. relations'[g] = relations[g] \o t BY <2>2 DEF TypeOK
    <3>3. Values(relations[g]) \subseteq Values(relations'[g])
      BY <3>1, <3>2, ConcatValues
    <3>4. \A x \in Graphs \ {g} : relations'[x] = relations[x] BY <2>2 DEF TypeOK
    <3>5. QED BY <3>3, <3>4
  <2>3. ASSUME NEW g \in Graphs, NEW r \in RelationPool[g], AddRelation(g, r) PROVE A
    <3>1. r \in Relations BY StoreAssumption
    <3>2. relations[g] \in Seq(Relations) BY DEF TypeOK
    <3>3. relations'[g] = Append(relations[g], r) BY <2>3 DEF AddRelation, TypeOK
    <3>4. \A i \in DOMAIN relations[g] :
            i \in DOMAIN relations'[g] /\ relations'[g][i] = relations[g][i]
      BY <3>1, <3>2, <3>3
    <3>5. Values(relations[g]) \subseteq Values(relations'[g]) BY <3>4 DEF Values
    <3>6. \A x \in Graphs \ {g} : relations'[x] = relations[x] BY <2>3 DEF AddRelation, TypeOK
    <3>7. QED BY <3>5, <3>6
  <2>4. ASSUME NEW g \in Graphs, DedupeStructuralRelations(g) PROVE A
    <3>1. relations[g] \in Seq(Relations) BY DEF TypeOK
    <3>2. relations'[g] = Deduped(relations[g]) BY <2>4 DEF DedupeStructuralRelations, TypeOK
    <3>3. Values(relations'[g]) = Values(relations[g]) BY <3>1, <3>2, DedupedValues
    <3>4. \A x \in Graphs \ {g} : relations'[x] = relations[x]
      BY <2>4 DEF DedupeStructuralRelations, TypeOK
    <3>5. QED BY <3>3, <3>4
  <2>5. ASSUME NEW g \in Graphs, NEW K \in SUBSET DOMAIN relations[g], RetainRelations(g, K)
        PROVE  A
    <3>1. \A x \in Graphs \ {g} : relations'[x] = relations[x]
      BY <2>5 DEF RetainRelations, TypeOK
    <3>2. CASE DedupeStructuralRelations(g) BY <3>2, <2>4
    <3>3. CASE ~ DedupeStructuralRelations(g) BY <3>3, <2>5, <3>1
    <3>4. QED BY <3>2, <3>3
  <2>6. ASSUME NEW g \in Graphs, NEW h \in Graphs, NEW S \in SUBSET Ids, Subgraph(g, h, S)
        PROVE  A
    <3>1. \A x \in Graphs \ {h} : relations'[x] = relations[x] BY <2>6 DEF Subgraph, TypeOK
    <3>2. relations[h] = <<>> BY <2>6 DEF Subgraph, Untouched
    <3>3. Values(relations[h]) = {} BY <3>2 DEF Values
    <3>4. QED BY <3>1, <3>3
  <2>7. ASSUME NEW g \in Graphs, NEW h \in Graphs, MergeInto(g, h) PROVE A
    <3>1. relations[h] \in Seq(Relations) BY DEF TypeOK
    <3>2. relations' = [relations EXCEPT ![g] = @ \o relations[h]] BY <2>7 DEF MergeInto
    <3> HIDE DEF A
    <3>3. QED BY <3>1, <3>2, <2>2
  <2>8. ASSUME NEW g \in Graphs, NEW min \in Thresholds, LinkBoundaries(g, min) PROVE A
    <3>1. NewLinks(g, min) \in Seq(Relations) BY NewLinksType
    <3>2. relations' = [relations EXCEPT ![g] = @ \o NewLinks(g, min)]
      BY <2>8 DEF LinkBoundaries
    <3> HIDE DEF A
    <3>3. QED BY <3>1, <3>2, <2>2
  <2>9. CASE Next
    <3>1. PICK g \in Graphs :
            \/ UNCHANGED relations
            \/ \E r \in RelationPool[g] : AddRelation(g, r)
            \/ \E K \in SUBSET DOMAIN relations[g] : RetainRelations(g, K)
            \/ DedupeStructuralRelations(g)
            \/ \E h \in Graphs : MergeInto(g, h)
            \/ \E min \in Thresholds : LinkBoundaries(g, min)
            \/ \E h \in Graphs, S \in SUBSET Ids : Subgraph(g, h, S)
      BY <2>9 DEF Next, AddNode, InsertNode, Store, SetResolverStatus, ForeignStatus, Merge, Edges,
         Neighbors
    <3> HIDE DEF A
    <3>2. QED BY <3>1, <2>1, <2>3, <2>4, <2>5, <2>6, <2>7, <2>8
  <2>10. QED BY <2>9
<1>2. QED BY <1>1, TypeCorrect, PTL DEF Spec, FactsPersist

(* Dropping repeats leaves one copy of a plain edge, all of the others.    *)
LEMMA DedupedCopies ==
  ASSUME NEW rels \in Seq(Relations), NEW r \in Values(rels)
  PROVE  Cardinality(Copies(Deduped(rels), r))
           = IF Plain(r) THEN 1 ELSE Cardinality(Copies(rels, r))
<1> DEFINE K == {i \in DOMAIN rels : ~ Repeats(rels, i)}
           T == Copies(rels, r)
           B == K \cap Copies(rels, r)
<1>1. K \in SUBSET DOMAIN rels OBVIOUS
<1>2. Cardinality(Copies(Deduped(rels), r)) = Cardinality(B)
  <2>1. Deduped(rels) = Pick(rels, K) BY DEF Deduped
  <2> HIDE DEF K
  <2>2. QED BY <1>1, <2>1, PickCopies
<1>3. CASE ~ Plain(r)
  <2>1. B = T BY <1>3 DEF Repeats, Copies
  <2>2. QED BY <1>2, <1>3, <2>1
<1>4. CASE Plain(r)
  <2>1. T # {} /\ T \in SUBSET DOMAIN rels BY DEF Values, Copies
  <2>2. PICK i \in T : \A j \in T : i <= j
    <3> HIDE DEF T
    <3>1. QED BY <2>1, FirstPosition
  <2>3. DOMAIN rels \in SUBSET Nat OBVIOUS
  <2>4. i \in B
    <3>1. \A j \in DOMAIN rels : j < i => rels[j] # rels[i] BY <2>2, <2>3 DEF Copies
    <3>2. QED BY <2>2, <3>1 DEF Repeats, Copies
  <2>5. ASSUME NEW j \in B PROVE j = i
    <3>1. j \in T /\ i <= j /\ i \in Nat /\ j \in Nat BY <2>2, <2>3 DEF Copies
    <3>2. ~ (i < j)
      <4>1. SUFFICES ASSUME i < j PROVE FALSE OBVIOUS
      <4>2. rels[i] = rels[j] /\ Plain(rels[j]) /\ i \in DOMAIN rels BY <1>4, <2>2 DEF Copies
      <4>3. Repeats(rels, j) BY <4>1, <4>2 DEF Repeats
      <4>4. QED BY <4>3
    <3>3. QED BY <3>1, <3>2
  <2>6. B = {i} BY <2>4, <2>5
  <2>7. Cardinality(B) = 1 BY <2>6, FS_Singleton
  <2>8. QED BY <1>2, <1>4, <2>7
<1>5. QED BY <1>3, <1>4

(* A dedupe leaves one copy of a structural edge, every use-site of others. *)
THEOREM DedupeKeepsSites == Spec => DedupeContract
<1> DEFINE A == \A g \in Graphs : DedupeStructuralRelations(g) =>
       \A r \in Values(relations[g]) :
         Cardinality(Copies(relations'[g], r)) =
           IF Plain(r) THEN 1 ELSE Cardinality(Copies(relations[g], r))
<1>1. TypeOK => A
  <2> SUFFICES ASSUME TypeOK, NEW g \in Graphs, DedupeStructuralRelations(g),
                      NEW r \in Values(relations[g])
               PROVE  Cardinality(Copies(relations'[g], r)) =
                        IF Plain(r) THEN 1 ELSE Cardinality(Copies(relations[g], r))
    OBVIOUS
  <2>1. relations[g] \in Seq(Relations) BY DEF TypeOK
  <2>2. relations'[g] = Deduped(relations[g]) BY DEF DedupeStructuralRelations, TypeOK
  <2>3. QED BY <2>1, <2>2, DedupedCopies
<1>2. QED BY <1>1, TypeCorrect, PTL DEF Spec, DedupeContract

-------------------------------------------------------------------------------
(* link_boundaries: slots, the edges of the chosen ones, and the contract. *)

(* A quotient and a remainder are what they were put together from. *)
LEMMA DivMod ==
  ASSUME NEW n \in Nat \ {0}, NEW q \in Nat, NEW r \in 0..(n - 1)
  PROVE  (q * n + r) \div n = q /\ (q * n + r) % n = r
<1> DEFINE x == q * n + r
           d == x \div n
<1>1. q * n \in Nat /\ x \in Nat BY ProductNat
<1>2. d \in Nat /\ x % n \in 0..(n - 1) /\ x = n * d + (x % n)
  BY <1>1
<1>3. d = q
  <2>1. CASE d > q
    <3>1. n * d >= n * (q + 1) BY <2>1, <1>2
    <3>2. n * (q + 1) = q * n + n OBVIOUS
    <3>3. QED BY <3>1, <3>2, <1>1, <1>2
  <2>2. CASE d < q
    <3>1. n * q >= n * (d + 1) BY <2>2, <1>2
    <3>2. n * (d + 1) = n * d + n /\ n * q = q * n BY <1>2
    <3>3. QED BY <3>1, <3>2, <1>1, <1>2
  <2>3. QED BY <2>1, <2>2, <1>2
<1>4. x % n = r
  BY <1>1, <1>2, <1>3
<1>5. QED BY <1>3, <1>4

(* The slot of three positions, in a graph of n relations. *)
SlotNo(n, b, c, p) == ((b - 1) * n + (c - 1)) * n + (p - 1) + 1

(* Every boundary, consumer and provider position has its slot. *)
LEMMA SlotOf ==
  ASSUME NEW m \in Nat, NEW n \in Nat, NEW b \in 1..m, NEW c \in 1..n, NEW p \in 1..n
  PROVE  /\ SlotNo(n, b, c, p) \in 1..(m * n * n)
         /\ ((SlotNo(n, b, c, p) - 1) \div (n * n)) + 1 = b
         /\ (((SlotNo(n, b, c, p) - 1) \div n) % n) + 1 = c
         /\ ((SlotNo(n, b, c, p) - 1) % n) + 1 = p
<1> DEFINE row == (b - 1) * n + (c - 1)
           x == row * n + (p - 1)
           rest == (c - 1) * n + (p - 1)
<1>1. n \in Nat \ {0} /\ m \in Nat \ {0} OBVIOUS
<1>2. b - 1 \in Nat /\ c - 1 \in 0..(n - 1) /\ p - 1 \in 0..(n - 1) OBVIOUS
<1>3. row \in Nat
  <2>1. (b - 1) * n \in Nat BY <1>2, ProductNat
  <2>2. QED BY <2>1, <1>2
<1>4. x \div n = row /\ x % n = p - 1 BY <1>1, <1>2, <1>3, DivMod
<1>5. row % n = c - 1 BY <1>1, <1>2, DivMod
<1>6. n * n \in Nat \ {0} BY <1>1
<1>7. rest \in 0..(n * n - 1)
  <2>1. (c - 1) * n \in Nat BY <1>2, ProductNat
  <2>2. (c - 1) * n <= (n - 1) * n BY <1>1, <1>2
  <2>3. (n - 1) * n = n * n - n OBVIOUS
  <2>4. QED BY <2>1, <2>2, <2>3, <1>2, <1>6
<1>8. x = (b - 1) * (n * n) + rest
  <2>1. row * n = ((b - 1) * n) * n + (c - 1) * n OBVIOUS
  <2>2. ((b - 1) * n) * n = (b - 1) * (n * n) OBVIOUS
  <2>3. QED BY <2>1, <2>2, <1>3
<1>9. x \div (n * n) = b - 1
  <2> DEFINE w == n * n
  <2>1. w \in Nat \ {0} /\ rest \in 0..(w - 1) /\ x = (b - 1) * w + rest BY <1>6, <1>7, <1>8
  <2> HIDE DEF w, rest, x
  <2>2. x \div w = b - 1 BY <2>1, <1>2, DivMod
  <2>3. QED BY <2>2 DEF w
<1>10. x \in 0..(m * n * n - 1)
  <2>1. x \in Nat
    <3>1. row * n \in Nat BY <1>3, ProductNat
    <3>2. QED BY <3>1, <1>2
  <2>2. (b - 1) * (n * n) <= (m - 1) * (n * n) BY <1>1, <1>2, <1>6
  <2>3. (m - 1) * (n * n) = m * n * n - n * n OBVIOUS
  <2>4. m * n * n \in Int /\ (b - 1) * (n * n) \in Int OBVIOUS
  <2> HIDE DEF x, rest
  <2>5. QED BY <2>1, <2>2, <2>3, <2>4, <1>6, <1>7, <1>8
<1>11. x \in Nat /\ x + 1 \in 1..(m * n * n)
  <2>1. m * n * n \in Int OBVIOUS
  <2> HIDE DEF x
  <2>2. QED BY <1>10, <2>1
<1>12. SlotNo(n, b, c, p) = x + 1 BY DEF SlotNo
<1> HIDE DEF x, row
<1>13. SlotNo(n, b, c, p) - 1 = x BY <1>11, <1>12
<1>14. QED BY <1>2, <1>4, <1>5, <1>9, <1>11, <1>12, <1>13

(* Slots are numbered from 1 without a gap. *)
LEMMA SlotsAreNat ==
  ASSUME TypeOK, NEW g \in Graphs
  PROVE  /\ \A k \in Slots(g) : k \in Nat \ {0}
         /\ \A k \in Slots(g) : \A l \in 1..(k - 1) : l \in Slots(g) /\ l < k
<1> DEFINE N == Len(order[g]) * Len(relations[g]) * Len(relations[g])
<1>1. N \in Nat
  <2>1. Len(order[g]) \in Nat /\ Len(relations[g]) \in Nat BY DEF TypeOK
  <2>2. Len(order[g]) * Len(relations[g]) \in Nat BY <2>1, ProductNat
  <2>3. QED BY <2>1, <2>2, ProductNat
<1>2. Slots(g) = 1..N BY DEF Slots
<1> HIDE DEF N
<1>3. QED BY <1>1, <1>2

(* The links a call appends: one per chosen slot, in slot order. *)
LEMMA LinkPositions ==
  ASSUME TypeOK, NEW g \in Graphs, NEW min \in Thresholds, LinkBoundaries(g, min)
  PROVE  /\ \A i \in DOMAIN relations[g] :
              i \in DOMAIN relations'[g] /\ relations'[g][i] = relations[g][i]
         /\ \A i \in DOMAIN relations'[g] :
              \/ i \in DOMAIN relations[g]
              \/ /\ i > Len(relations[g])
                 /\ \E m \in DOMAIN NewLinks(g, min) :
                      /\ i = Len(relations[g]) + m
                      /\ Nth(Chosen(g, min), m) \in Chosen(g, min)
                      /\ relations'[g][i] = SlotEdge(g, Nth(Chosen(g, min), m))
         /\ \A k \in Chosen(g, min) :
              \E i \in DOMAIN relations'[g] : i > Len(relations[g]) /\ relations'[g][i] = SlotEdge(g, k)
<1> DEFINE old == relations[g]
           rels == relations'[g]
           K == Chosen(g, min)
           links == NewLinks(g, min)
           new == {i \in DOMAIN rels : i > Len(old)}
<1>1. old \in Seq(Relations) /\ links \in Seq(Relations) BY NewLinksType DEF TypeOK
<1>2. /\ \A i \in DOMAIN old : i \in DOMAIN rels /\ rels[i] = old[i]
      /\ \A i \in DOMAIN links : Len(old) + i \in DOMAIN rels /\ rels[Len(old) + i] = links[i]
      /\ \A i \in DOMAIN rels : i \in DOMAIN old \/ \E j \in DOMAIN links : i = Len(old) + j
  <2>1. rels = old \o links BY DEF LinkBoundaries, TypeOK
  <2> HIDE DEF old, links, rels
  <2>2. QED BY <1>1, <2>1, ConcatElements
<1>3. DOMAIN links = 1..Cardinality(K) /\ DOMAIN old = 1..Len(old) /\ Len(old) \in Nat
  BY <1>1, NewLinksType
<1>4. \A m \in DOMAIN links : Nth(K, m) \in K /\ links[m] = SlotEdge(g, Nth(K, m))
  <2>1. ASSUME NEW m \in 1..Cardinality(K) PROVE Nth(K, m) \in K
    BY ChosenSlots, NthIn DEF Slots
  <2>2. QED BY <1>3, <2>1 DEF NewLinks
<1>5. ASSUME NEW k \in K PROVE \E m \in DOMAIN links : Nth(K, m) = k
  <2>1. \E m \in 1..Cardinality(K) : Nth(K, m) = k
    <3>1. PICK n \in Nat : K \in SUBSET (1..n) BY ChosenSlots DEF Slots
    <3> HIDE DEF K
    <3>2. QED BY <3>1, NthOnto
  <2>2. QED BY <1>3, <2>1
<1>6. \A m \in DOMAIN links : Len(old) + m \in new
  <2> HIDE DEF links, old, rels
  <2>1. QED BY <1>2, <1>3
<1> HIDE DEF old, K, links, rels
<1>7. ASSUME NEW i \in DOMAIN rels, ~ (i \in DOMAIN old)
      PROVE  /\ i > Len(old)
             /\ \E m \in DOMAIN links :
                  i = Len(old) + m /\ Nth(K, m) \in K /\ rels[i] = SlotEdge(g, Nth(K, m))
  <2>1. PICK m \in DOMAIN links : i = Len(old) + m BY <1>2, <1>7
  <2>2. QED BY <1>2, <1>4, <1>6, <2>1
<1>8. ASSUME NEW k \in K PROVE \E i \in DOMAIN rels : i > Len(old) /\ rels[i] = SlotEdge(g, k)
  <2>1. PICK m \in DOMAIN links : Nth(K, m) = k BY <1>5
  <2>2. QED BY <1>2, <1>4, <1>6, <2>1
<1>9. QED BY <1>2, <1>7, <1>8 DEF old, K, links, rels

(* What a chosen slot links, and which slots are chosen. *)
LEMMA ChosenEdge ==
  ASSUME TypeOK, NEW g \in Graphs, NEW min, NEW k \in Chosen(g, min)
  PROVE  /\ \E c, p \in Values(relations[g]), b \in Values(order[g]) :
              Pairs(c, p, b, min) /\ SlotEdge(g, k) = LinkEdge(c, p, b)
         /\ LinkKey(SlotEdge(g, k)) \notin LinkedKeys(relations[g])
         /\ \A l \in Chosen(g, min) :
              LinkKey(SlotEdge(g, l)) = LinkKey(SlotEdge(g, k)) => l = k
<1>1. \A l \in Chosen(g, min) : Qualifies(g, l, min) /\ l \in Nat
  BY SlotsAreNat DEF Chosen
<1>2. Qualifies(g, k, min) BY <1>1
<1>3. \E c, p \in Values(relations[g]), b \in Values(order[g]) :
        Pairs(c, p, b, min) /\ SlotEdge(g, k) = LinkEdge(c, p, b)
  BY <1>2 DEF Qualifies, SlotEdge, Values
<1>4. LinkKey(SlotEdge(g, k)) \notin LinkedKeys(relations[g]) BY DEF Chosen
<1>5. ASSUME NEW l \in Chosen(g, min), LinkKey(SlotEdge(g, l)) = LinkKey(SlotEdge(g, k))
      PROVE  l = k
  <2>1. ~ (l \in 1..(k - 1)) BY <1>1, <1>5 DEF Chosen
  <2>2. ~ (k \in 1..(l - 1)) BY <1>1, <1>5 DEF Chosen
  <2>3. l \in Nat \ {0} /\ k \in Nat \ {0}
    BY SlotsAreNat DEF Chosen
  <2>4. QED BY <2>1, <2>2, <2>3
<1>6. QED BY <1>3, <1>4, <1>5

(* A slot is put together from its three positions. *)
LEMMA SlotParts ==
  ASSUME NEW n \in Nat \ {0}, NEW x \in Nat
  PROVE  /\ x \div (n * n) \in Nat /\ (x \div n) % n \in 0..(n - 1) /\ x % n \in 0..(n - 1)
         /\ x = n * (n * (x \div (n * n)) + ((x \div n) % n)) + (x % n)
<1> DEFINE r == x \div n
           b == r \div n
           c == r % n
           p == x % n
           rest == n * c + p
           w == n * n
<1>1. r \in Nat /\ p \in 0..(n - 1) /\ x = n * r + p OBVIOUS
<1> HIDE DEF r, p
<1>2. b \in Nat /\ c \in 0..(n - 1) /\ r = n * b + c BY <1>1
<1> HIDE DEF b, c
<1>3. w \in Nat \ {0} OBVIOUS
<1>4. rest \in 0..(w - 1)
  <2>1. n * c \in Nat BY <1>2, ProductNat
  <2>2. n * c <= n * (n - 1) BY <1>2
  <2>3. n * (n - 1) = w - n OBVIOUS
  <2>4. w \in Nat BY <1>3
  <2> HIDE DEF w
  <2>5. QED BY <1>1, <2>1, <2>2, <2>3, <2>4
<1>5. x = b * w + rest
  <2>1. n * r = n * (n * b) + n * c BY <1>2
  <2>2. n * (n * b) = b * w BY <1>2
  <2>3. n * c \in Int /\ n * r \in Int /\ b * w \in Int BY <1>1, <1>2, <1>3
  <2> HIDE DEF w
  <2>4. QED BY <1>1, <2>1, <2>2, <2>3
<1>6. x \div w = b
  <2> HIDE DEF w, rest
  <2>1. QED BY <1>2, <1>3, <1>4, <1>5, DivMod
<1>7. QED BY <1>1, <1>2, <1>6 DEF r, c, p

(* A smaller or equal slot of one boundary comes first, by consumer and    *)
(* then by provider.                                                       *)
LEMMA SlotOrder ==
  ASSUME NEW n \in Nat \ {0}, NEW x \in Nat, NEW y \in Nat, x <= y,
         x \div (n * n) = y \div (n * n)
  PROVE  \/ (x \div n) % n < (y \div n) % n
         \/ (x \div n) % n = (y \div n) % n /\ x % n <= y % n
<1> DEFINE b == x \div (n * n)
           c == (x \div n) % n
           p == x % n
           d == (y \div n) % n
           q == y % n
<1>1. /\ b \in Nat /\ c \in 0..(n - 1) /\ p \in 0..(n - 1) /\ x = n * (n * b + c) + p
      /\ d \in 0..(n - 1) /\ q \in 0..(n - 1) /\ y = n * (n * b + d) + q
  BY SlotParts
<1> HIDE DEF b, c, p, d, q
<1>2. n * (n * b + c) = n * (n * b) + n * c /\ n * (n * b + d) = n * (n * b) + n * d
  BY <1>1
<1>3. n * (n * b) \in Nat /\ n * c \in Nat /\ n * d \in Nat BY <1>1, ProductNat
<1>4. n * c + p <= n * d + q BY <1>1, <1>2, <1>3
<1>5. ~ (d < c)
  <2> SUFFICES ASSUME d < c PROVE FALSE
    OBVIOUS
  <2>1. n * (d + 1) <= n * c BY <1>1
  <2>2. n * (d + 1) = n * d + n BY <1>1
  <2>3. QED BY <1>1, <1>3, <1>4, <2>1, <2>2
<1>6. c = d => p <= q BY <1>1, <1>3, <1>4
<1>7. QED BY <1>1, <1>5, <1>6 DEF c, p, d, q

(* The edge of a chosen slot is the word of the first pair there is. *)
LEMMA ChosenIsFirst ==
  ASSUME TypeOK, NEW g \in Graphs, NEW min, NEW k \in Chosen(g, min)
  PROVE  \E c, p \in DOMAIN relations[g] :
           /\ IsFirstPair(relations[g], c, p, SlotEdge(g, k).via, min)
           /\ SlotEdge(g, k) = LinkEdge(relations[g][c], relations[g][p], SlotEdge(g, k).via)
<1> DEFINE rels == relations[g]
           m == Len(order[g])
           n == Len(rels)
           c == ConsumerAt(g, k)
           p == ProviderAt(g, k)
           B == BoundaryAt(g, k)
           b == order[g][B]
<1>1. Qualifies(g, k, min) /\ k \in Slots(g) BY DEF Chosen
<1>2. k \in Nat \ {0} BY <1>1, SlotsAreNat
<1>3. B \in DOMAIN order[g] /\ c \in DOMAIN rels /\ p \in DOMAIN rels /\ Pairs(rels[c], rels[p], b, min)
  BY <1>1 DEF Qualifies
<1>4. SlotEdge(g, k) = LinkEdge(rels[c], rels[p], b) /\ SlotEdge(g, k).via = b
  BY DEF SlotEdge, LinkEdge
<1>5. /\ m \in Nat /\ DOMAIN order[g] = 1..m
      /\ n \in Nat \ {0} /\ DOMAIN rels = 1..n
  BY <1>3 DEF TypeOK
<1>6. ASSUME NEW d \in DOMAIN rels, NEW q \in DOMAIN rels, Pairs(rels[d], rels[q], b, min),
             rels[d].src = rels[c].src, rels[q].src = rels[p].src
      PROVE  c < d \/ (c = d /\ p <= q)
  <2> DEFINE l == SlotNo(n, B, d, q)
  <2>1. /\ l \in 1..(m * n * n)
        /\ ((l - 1) \div (n * n)) + 1 = B
        /\ (((l - 1) \div n) % n) + 1 = d
        /\ ((l - 1) % n) + 1 = q
    <3>1. n \in Nat /\ B \in 1..m /\ d \in 1..n /\ q \in 1..n BY <1>3, <1>5, <1>6
    <3> HIDE DEF m, n, B
    <3>2. QED BY <1>5, <3>1, SlotOf
  <2> HIDE DEF l
  <2>2. BoundaryAt(g, l) = B /\ ConsumerAt(g, l) = d /\ ProviderAt(g, l) = q
    BY <2>1 DEF BoundaryAt, ConsumerAt, ProviderAt
  <2>3. Qualifies(g, l, min) BY <1>3, <1>6, <2>2 DEF Qualifies
  <2>4. LinkKey(SlotEdge(g, l)) = LinkKey(SlotEdge(g, k))
    BY <1>4, <1>6, <2>2 DEF SlotEdge, LinkEdge, LinkKey
  <2>5. ~ (l \in 1..(k - 1)) BY <2>3, <2>4 DEF Chosen
  <2>6. m * n * n \in Int BY <1>5
  <2>7. l \in Nat \ {0} BY <2>1, <2>6
  <2>8. k <= l BY <1>2, <2>5, <2>7
  <2> DEFINE x == k - 1
             y == l - 1
  <2>9. x \in Nat /\ y \in Nat /\ x <= y BY <1>2, <2>7, <2>8
  <2>10. /\ c = ((x \div n) % n) + 1 /\ p = (x % n) + 1 /\ B = (x \div (n * n)) + 1
    BY DEF ConsumerAt, ProviderAt, BoundaryAt
  <2>11. /\ d = ((y \div n) % n) + 1 /\ q = (y % n) + 1 /\ B = (y \div (n * n)) + 1
    BY <2>1
  <2> HIDE DEF x, y, n, c, p, B
  <2>12. /\ x \div (n * n) \in Nat /\ (x \div n) % n \in Nat /\ x % n \in Nat
         /\ y \div (n * n) \in Nat /\ (y \div n) % n \in Nat /\ y % n \in Nat
    <3>1. n \in Nat \ {0} BY <1>5
    <3>2. x \div (n * n) \in Nat /\ (x \div n) % n \in 0..(n - 1) /\ x % n \in 0..(n - 1)
      BY <3>1, <2>9, SlotParts
    <3>3. y \div (n * n) \in Nat /\ (y \div n) % n \in 0..(n - 1) /\ y % n \in 0..(n - 1)
      BY <3>1, <2>9, SlotParts
    <3>4. \A i \in 0..(n - 1) : i \in Nat BY <3>1
    <3>5. QED BY <3>2, <3>3, <3>4
  <2>13. x \div (n * n) = y \div (n * n) BY <2>10, <2>11, <2>12
  <2>14. \/ (x \div n) % n < (y \div n) % n
         \/ (x \div n) % n = (y \div n) % n /\ x % n <= y % n
    BY <1>5, <2>9, <2>13, SlotOrder
  <2>15. QED BY <2>10, <2>11, <2>12, <2>14
<1>7. IsFirstPair(rels, c, p, b, min) BY <1>3, <1>6 DEF IsFirstPair
<1>8. QED BY <1>3, <1>4, <1>7

(* A pair to be linked that is not linked yet has a chosen slot: the first *)
(* that qualifies for it.                                                  *)
LEMMA ChosenFor ==
  ASSUME TypeOK, NEW g \in Graphs, NEW min, NEW x \in Linkable(g, min),
         x \notin LinkedKeys(relations[g])
  PROVE  \E k \in Chosen(g, min) : LinkKey(SlotEdge(g, k)) = x
<1> DEFINE T == {k \in Slots(g) : Qualifies(g, k, min) /\ LinkKey(SlotEdge(g, k)) = x}
           m == Len(order[g])
           n == Len(relations[g])
<1>1. relations[g] \in Seq(Relations) /\ order[g] \in Seq(Ids) BY DEF TypeOK
<1>2. PICK u \in Values(relations[g]) \X Values(relations[g]) \X Values(order[g]) :
        Pairs(u[1], u[2], u[3], min) /\ x = LinkKey(LinkEdge(u[1], u[2], u[3]))
  BY DEF Linkable
<1>3. PICK c \in DOMAIN relations[g], p \in DOMAIN relations[g], b \in DOMAIN order[g] :
        u[1] = relations[g][c] /\ u[2] = relations[g][p] /\ u[3] = order[g][b]
  BY DEF Values
<1>4. m \in Nat /\ n \in Nat /\ b \in 1..m /\ c \in 1..n /\ p \in 1..n BY <1>1
<1> DEFINE here == SlotNo(n, b, c, p)
<1>5. /\ here \in 1..(m * n * n)
      /\ ((here - 1) \div (n * n)) + 1 = b
      /\ (((here - 1) \div n) % n) + 1 = c
      /\ ((here - 1) % n) + 1 = p
  <2> HIDE DEF m, n
  <2>1. QED BY <1>4, SlotOf
<1> HIDE DEF here
<1>6. BoundaryAt(g, here) = b /\ ConsumerAt(g, here) = c /\ ProviderAt(g, here) = p
  BY <1>5 DEF BoundaryAt, ConsumerAt, ProviderAt
<1>7. here \in T
  <2>1. here \in Slots(g) BY <1>5 DEF Slots
  <2>2. Qualifies(g, here, min) BY <1>2, <1>3, <1>6 DEF Qualifies
  <2>3. LinkKey(SlotEdge(g, here)) = x BY <1>2, <1>3, <1>6 DEF SlotEdge
  <2>4. QED BY <2>1, <2>2, <2>3
<1>8. \A k \in Slots(g) : k \in Nat BY SlotsAreNat
<1>9. PICK first \in T : \A l \in T : first <= l
  <2>1. T \in SUBSET Nat /\ T # {} BY <1>7, <1>8
  <2> HIDE DEF T
  <2>2. QED BY <2>1, LeastNat
<1>10. first \in Chosen(g, min)
  <2>1. ASSUME NEW l \in 1..(first - 1), Qualifies(g, l, min),
               LinkKey(SlotEdge(g, l)) = LinkKey(SlotEdge(g, first))
        PROVE  FALSE
    <3>1. l \in Slots(g) /\ l < first BY SlotsAreNat
    <3>2. l \in T BY <2>1, <3>1
    <3>3. first <= l /\ l \in Nat /\ first \in Nat BY <1>8, <1>9, <3>1, <3>2
    <3>4. QED BY <3>1, <3>3
  <2>2. QED BY <2>1 DEF Chosen
<1>11. QED BY <1>10

(* The links a call adds, whatever the graph: those asked for and missing, *)
(* each once, and nothing when asked again.                                *)
LEMMA LinkOnce ==
  ASSUME TypeOK, NEW g \in Graphs, NEW min \in Thresholds, LinkBoundaries(g, min)
  PROVE  LET old == relations[g]
             new == {i \in DOMAIN relations'[g] : i > Len(old)}
             at(i) == relations'[g][i]
         IN  /\ \A i \in DOMAIN old : at(i) = old[i]
             /\ {LinkKey(at(i)) : i \in new} = Linkable(g, min) \ LinkedKeys(old)
             /\ \A i, j \in new : LinkKey(at(i)) = LinkKey(at(j)) => i = j
             /\ \A i \in new : \E c, p \in DOMAIN old :
                  /\ IsFirstPair(old, c, p, at(i).via, min)
                  /\ at(i) = LinkEdge(old[c], old[p], at(i).via)
             /\ \A stricter \in Thresholds :
                  stricter >= min => (Chosen(g, stricter))' = {}
<1> DEFINE old == relations[g]
           rels == relations'[g]
           K == Chosen(g, min)
           new == {i \in DOMAIN rels : i > Len(old)}
<1>2. /\ \A i \in DOMAIN old : i \in DOMAIN rels /\ rels[i] = old[i]
      /\ \A i \in DOMAIN rels : i \in new \/ i \in DOMAIN old
      /\ \A i \in new : \E m \in DOMAIN NewLinks(g, min) :
           i = Len(old) + m /\ Nth(K, m) \in K /\ rels[i] = SlotEdge(g, Nth(K, m))
      /\ \A k \in K : \E i \in new : rels[i] = SlotEdge(g, k)
  <2>1. /\ \A i \in DOMAIN old : i \in DOMAIN rels /\ rels[i] = old[i]
        /\ \A i \in DOMAIN rels :
             \/ i \in DOMAIN old
             \/ /\ i > Len(old)
                /\ \E m \in DOMAIN NewLinks(g, min) :
                     i = Len(old) + m /\ Nth(K, m) \in K /\ rels[i] = SlotEdge(g, Nth(K, m))
        /\ \A k \in K : \E i \in DOMAIN rels : i > Len(old) /\ rels[i] = SlotEdge(g, k)
    BY LinkPositions
  <2>2. \A i \in new : ~ (i \in DOMAIN old)
    <3>1. old \in Seq(Relations) BY DEF TypeOK
    <3>2. DOMAIN old = 1..Len(old) /\ Len(old) \in Nat BY <3>1
    <3> HIDE DEF old, rels
    <3>3. QED BY <3>2
  <2> HIDE DEF old, rels, K
  <2>3. QED BY <2>1, <2>2
<1>3. /\ \A k \in K : \E c, p \in Values(old), b \in Values(order[g]) :
           Pairs(c, p, b, min) /\ SlotEdge(g, k) = LinkEdge(c, p, b)
      /\ \A k \in K : \E c, p \in DOMAIN old :
           /\ IsFirstPair(old, c, p, SlotEdge(g, k).via, min)
           /\ SlotEdge(g, k) = LinkEdge(old[c], old[p], SlotEdge(g, k).via)
      /\ \A k \in K : LinkKey(SlotEdge(g, k)) \notin LinkedKeys(old)
      /\ \A k, l \in K : LinkKey(SlotEdge(g, l)) = LinkKey(SlotEdge(g, k)) => l = k
  BY ChosenEdge, ChosenIsFirst
<1>4. \A x \in Linkable(g, min) \ LinkedKeys(old) : \E k \in K : LinkKey(SlotEdge(g, k)) = x
  BY ChosenFor
<1> HIDE DEF old, rels, K
<1>5. ASSUME NEW i \in new
      PROVE  /\ LinkKey(rels[i]) \in Linkable(g, min) \ LinkedKeys(old)
             /\ rels[i].kind = COMMUNICATES_WITH
             /\ \E c, p \in DOMAIN old :
                  /\ IsFirstPair(old, c, p, rels[i].via, min)
                  /\ rels[i] = LinkEdge(old[c], old[p], rels[i].via)
  <2>1. PICK k \in K : rels[i] = SlotEdge(g, k) BY <1>2
  <2>2. PICK c \in Values(old), p \in Values(old), b \in Values(order[g]) :
          Pairs(c, p, b, min) /\ rels[i] = LinkEdge(c, p, b)
    BY <1>3, <2>1
  <2>3. rels[i].via = b /\ rels[i].kind = COMMUNICATES_WITH BY <2>2 DEF LinkEdge
  <2>4. LinkKey(rels[i]) \in Linkable(g, min)
    <3> DEFINE u == <<c, p, b>>
    <3>1. u \in Values(old) \X Values(old) \X Values(order[g]) /\ Pairs(u[1], u[2], u[3], min)
      BY <2>2
    <3>2. LinkKey(rels[i]) = LinkKey(LinkEdge(u[1], u[2], u[3])) BY <2>2
    <3> HIDE DEF u
    <3>3. QED BY <3>1, <3>2 DEF Linkable, old
  <2>5. QED BY <1>3, <2>1, <2>2, <2>3, <2>4
<1>6. {LinkKey(rels[i]) : i \in new} = Linkable(g, min) \ LinkedKeys(old)
  <2>1. \A x \in Linkable(g, min) \ LinkedKeys(old) : \E i \in new : LinkKey(rels[i]) = x
    BY <1>2, <1>4
  <2>2. QED BY <1>5, <2>1
<1>7. ASSUME NEW i \in new, NEW j \in new, LinkKey(rels[i]) = LinkKey(rels[j])
      PROVE  i = j
  <2>1. PICK m \in DOMAIN NewLinks(g, min) :
          i = Len(old) + m /\ Nth(K, m) \in K /\ rels[i] = SlotEdge(g, Nth(K, m))
    BY <1>2
  <2>2. PICK q \in DOMAIN NewLinks(g, min) :
          j = Len(old) + q /\ Nth(K, q) \in K /\ rels[j] = SlotEdge(g, Nth(K, q))
    BY <1>2
  <2>3. Nth(K, m) = Nth(K, q) BY <1>3, <1>7, <2>1, <2>2
  <2>4. m \in 1..Cardinality(K) /\ q \in 1..Cardinality(K) BY NewLinksType DEF K
  <2>5. PICK n \in Nat : K \in SUBSET (1..n) BY ChosenSlots DEF Slots, K
  <2>6. m = q BY <2>3, <2>4, <2>5, NthInjective
  <2>7. QED BY <2>1, <2>2, <2>6
<1>8. Linkable(g, min) \subseteq LinkedKeys(rels)
  <2>1. ASSUME NEW x \in LinkedKeys(old) PROVE x \in LinkedKeys(rels)
    <3>1. PICK i \in DOMAIN old : old[i].kind = COMMUNICATES_WITH /\ x = LinkKey(old[i])
      BY DEF LinkedKeys
    <3>2. i \in DOMAIN rels /\ rels[i] = old[i] BY <1>2
    <3>3. QED BY <3>1, <3>2 DEF LinkedKeys
  <2>2. ASSUME NEW x \in Linkable(g, min) \ LinkedKeys(old) PROVE x \in LinkedKeys(rels)
    <3>1. PICK i \in new : x = LinkKey(rels[i]) BY <1>6
    <3>2. i \in DOMAIN rels /\ rels[i].kind = COMMUNICATES_WITH BY <1>5
    <3>3. QED BY <3>1, <3>2 DEF LinkedKeys
  <2>3. QED BY <2>1, <2>2
<1>9. ASSUME NEW stricter \in Thresholds, stricter >= min, NEW k \in (Chosen(g, stricter))'
      PROVE  FALSE
  <2>1. order' = order BY DEF LinkBoundaries
  <2>2. /\ (Qualifies(g, k, stricter))'
        /\ LinkKey((SlotEdge(g, k))') \notin LinkedKeys(rels)
    BY <1>9 DEF Chosen, rels, LinkKey, SlotEdge
  <2>3. PICK c \in Values(rels), p \in Values(rels), b \in Values(order[g]) :
          Pairs(c, p, b, stricter) /\ (SlotEdge(g, k))' = LinkEdge(c, p, b)
    BY <2>1, <2>2 DEF Qualifies, SlotEdge, Values, rels
  <2>4. c.kind # COMMUNICATES_WITH /\ p.kind # COMMUNICATES_WITH
    BY <2>3 DEF Pairs, CONSUMES, EXPOSES, COMMUNICATES_WITH
  <2>5. c \in Values(old) /\ p \in Values(old)
    BY <1>2, <1>5, <2>4 DEF Values
  <2>6. Pairs(c, p, b, min)
    <3>1. old \in Seq(Relations) BY DEF TypeOK, old
    <3>2. c \in Relations /\ p \in Relations BY <2>5, <3>1 DEF Values
    <3>3. Confidence(c) * Confidence(p) \in Nat BY <3>2, ConfidenceNat, ProductNat
    <3>4. min \in Nat /\ stricter \in Nat BY StoreAssumption
    <3>5. Confidence(c) * Confidence(p) >= min
      <4>1. Confidence(c) * Confidence(p) >= stricter BY <2>3 DEF Pairs
      <4> DEFINE v == Confidence(c) * Confidence(p)
      <4> HIDE DEF v
      <4>2. v >= stricter /\ v \in Nat BY <3>3, <4>1 DEF v
      <4>3. v >= min BY <1>9, <3>4, <4>2
      <4>4. QED BY <4>3 DEF v
    <3>6. QED BY <2>3, <3>5 DEF Pairs
  <2>7. LinkKey(LinkEdge(c, p, b)) \in Linkable(g, min)
    <3> DEFINE u == <<c, p, b>>
    <3>1. u \in Values(old) \X Values(old) \X Values(order[g]) /\ Pairs(u[1], u[2], u[3], min)
      BY <2>5, <2>6
    <3>2. LinkKey(LinkEdge(c, p, b)) = LinkKey(LinkEdge(u[1], u[2], u[3])) OBVIOUS
    <3> HIDE DEF u
    <3>3. QED BY <3>1, <3>2 DEF Linkable, old
  <2>8. QED BY <1>8, <2>2, <2>3, <2>7
<1>10. \A i \in DOMAIN old : rels[i] = old[i] BY <1>2
<1>11. \A stricter \in Thresholds : stricter >= min => (Chosen(g, stricter))' = {}
  BY <1>9
<1>12. \A i, j \in new : LinkKey(rels[i]) = LinkKey(rels[j]) => i = j BY <1>7
<1>13. \A i \in new : \E c, p \in DOMAIN old :
         /\ IsFirstPair(old, c, p, rels[i].via, min)
         /\ rels[i] = LinkEdge(old[c], old[p], rels[i].via)
  BY <1>5
<1>14. QED BY <1>6, <1>10, <1>11, <1>12, <1>13 DEF old, rels

(* link_boundaries links each pair that qualifies once, keeps what is      *)
(* there, and finds nothing to add when asked again.                       *)
THEOREM LinksOnce == Spec => LinkContract
<1> DEFINE A == \A g \in Graphs, min \in Thresholds : LinkBoundaries(g, min) =>
       LET old == relations[g]
           new == {i \in DOMAIN relations'[g] : i > Len(old)}
           at(i) == relations'[g][i]
       IN  /\ \A i \in DOMAIN old : at(i) = old[i]
           /\ {LinkKey(at(i)) : i \in new} = Linkable(g, min) \ LinkedKeys(old)
           /\ \A i, j \in new : LinkKey(at(i)) = LinkKey(at(j)) => i = j
           /\ \A i \in new : \E c, p \in DOMAIN old :
                /\ IsFirstPair(old, c, p, at(i).via, min)
                /\ at(i) = LinkEdge(old[c], old[p], at(i).via)
           /\ \A stricter \in Thresholds :
                stricter >= min => (Chosen(g, stricter))' = {}
<1>1. TypeOK => A BY LinkOnce
<1> HIDE DEF A
<1>2. TypeOK /\ [Next]_storeVars => [A]_storeVars BY <1>1
<1>3. QED BY <1>2, TypeCorrect, PTL DEF Spec, LinkContract, A

-------------------------------------------------------------------------------
(* GraphStore implements FactBase, for every number of graphs, nodes and   *)
(* relations: each call is one of FactBase's, or leaves what the graphs    *)
(* say as it was.  The argument needs the types only; what is not obvious  *)
(* is that picking positions of a list and chaining lists are, on what the *)
(* lists say, taking a part and uniting.                                   *)

(* A call that writes the relations of one graph writes its facts. *)
LEMMA FactsStep ==
  ASSUME TypeOK, NEW g \in Graphs, NEW s, relations' = [relations EXCEPT ![g] = s]
  PROVE  Facts' = [Facts EXCEPT ![g] = Values(s)]
<1>1. \A x \in Graphs : relations'[x] = IF x = g THEN s ELSE relations[x]
  BY DEF TypeOK
<1>2. \A x \in Graphs : Values(relations[x])' = IF x = g THEN Values(s) ELSE Values(relations[x])
  BY <1>1 DEF Values
<1>3. QED BY <1>2 DEF Facts

LEMMA SameFacts ==
  ASSUME TypeOK, NEW g \in Graphs, NEW s, relations' = [relations EXCEPT ![g] = s],
         Values(s) = Values(relations[g])
  PROVE  Facts' = Facts
<1>1. Facts' = [Facts EXCEPT ![g] = Values(s)] BY FactsStep
<1>2. Facts[g] = Values(relations[g]) BY DEF Facts
<1>3. QED BY <1>1, <1>2 DEF Facts

(* What link_boundaries adds is what its chosen slots say. *)
LEMMA NewLinkValues ==
  ASSUME TypeOK, NEW g \in Graphs, NEW min
  PROVE  Values(NewLinks(g, min)) = {SlotEdge(g, k) : k \in Chosen(g, min)}
<1> DEFINE K == Chosen(g, min)
           n == Len(order[g]) * Len(relations[g]) * Len(relations[g])
<1>1. n \in Nat /\ K \in SUBSET (1..n) BY ChosenSlots DEF Slots
<1>2. DOMAIN NewLinks(g, min) = 1..Cardinality(K) BY NewLinksType
<1>3. \A m \in 1..Cardinality(K) : NewLinks(g, min)[m] = SlotEdge(g, Nth(K, m))
  BY DEF NewLinks
<1> HIDE DEF K, n
<1>4. \A m \in 1..Cardinality(K) : Nth(K, m) \in K BY <1>1, NthIn
<1>5. \A k \in K : \E m \in 1..Cardinality(K) : Nth(K, m) = k BY <1>1, NthOnto
<1>6. Values(NewLinks(g, min)) = {SlotEdge(g, k) : k \in K}
  BY <1>2, <1>3, <1>4, <1>5 DEF Values
<1>7. QED BY <1>6 DEF K

(* The links a call adds are explained by the facts of the graph, and no   *)
(* two links, old or new, are between the same sides over one boundary.    *)
LEMMA LinksConnect ==
  ASSUME TypeOK, NEW g \in Graphs, NEW min \in Thresholds, LinkBoundaries(g, min)
  PROVE  Base!Connect(g, Facts'[g] \ Facts[g])
<1> DEFINE L == {SlotEdge(g, k) : k \in Chosen(g, min)}
           F == Values(relations[g])
           links == Facts'[g] \ Facts[g]
<1>1. relations[g] \in Seq(Relations) /\ NewLinks(g, min) \in Seq(Relations)
  BY NewLinksType DEF TypeOK
<1>2. relations' = [relations EXCEPT ![g] = relations[g] \o NewLinks(g, min)]
  BY DEF LinkBoundaries
<1>3. Values(relations[g] \o NewLinks(g, min)) = F \cup L
  BY <1>1, ConcatValues, NewLinkValues
<1>4. Facts' = [Facts EXCEPT ![g] = F \cup L] BY <1>2, <1>3, FactsStep
<1>5. Facts[g] = F /\ Facts \in [Graphs -> {Facts[x] : x \in Graphs}] BY DEF Facts
<1>6. Facts' = [Facts EXCEPT ![g] = Facts[g] \cup links] /\ links = L \ F
  BY <1>4, <1>5
<1>7. ASSUME NEW k \in Chosen(g, min)
      PROVE  /\ SlotEdge(g, k).kind = "COMMUNICATES_WITH"
             /\ Base!Explained(SlotEdge(g, k), F)
             /\ LinkKey(SlotEdge(g, k)) \notin LinkedKeys(relations[g])
  <2>1. Qualifies(g, k, min) /\ LinkKey(SlotEdge(g, k)) \notin LinkedKeys(relations[g])
    BY DEF Chosen
  <2> DEFINE c == relations[g][ConsumerAt(g, k)]
             p == relations[g][ProviderAt(g, k)]
             b == order[g][BoundaryAt(g, k)]
  <2>2. c \in F /\ p \in F BY <2>1 DEF Qualifies, Values
  <2>3. Pairs(c, p, b, min) BY <2>1 DEF Qualifies
  <2>4. SlotEdge(g, k) = LinkEdge(c, p, b) BY DEF SlotEdge
  <2> HIDE DEF c, p, b, F
  <2>5. QED BY <2>1, <2>2, <2>3, <2>4 DEF Pairs, LinkEdge, Base!Explained,
          CONSUMES, EXPOSES, COMMUNICATES_WITH
<1>8. ASSUME NEW k \in Chosen(g, min), NEW q \in F, q.kind = "COMMUNICATES_WITH",
             Base!SameLink(SlotEdge(g, k), q)
      PROVE  FALSE
  <2>1. LinkKey(q) \in LinkedKeys(relations[g])
    BY <1>8 DEF LinkedKeys, Values, COMMUNICATES_WITH
  <2>2. LinkKey(q) = LinkKey(SlotEdge(g, k)) BY <1>8 DEF LinkKey, Base!SameLink
  <2>3. QED BY <2>1, <2>2, <1>7
<1>9. ASSUME NEW k \in Chosen(g, min), NEW l \in Chosen(g, min),
             Base!SameLink(SlotEdge(g, k), SlotEdge(g, l))
      PROVE  k = l
  <2> DEFINE n == Len(order[g]) * Len(relations[g]) * Len(relations[g])
  <2>1. k \in Nat /\ l \in Nat /\ k > 0 /\ l > 0
    <3>1. n \in Nat /\ Chosen(g, min) \in SUBSET (1..n) BY ChosenSlots DEF Slots
    <3> HIDE DEF n
    <3>2. QED BY <3>1
  <2>2. LinkKey(SlotEdge(g, k)) = LinkKey(SlotEdge(g, l)) BY <1>9 DEF LinkKey, Base!SameLink
  <2>3. Qualifies(g, k, min) /\ Qualifies(g, l, min) BY DEF Chosen
  <2>4. ~ (l \in 1..(k - 1)) /\ ~ (k \in 1..(l - 1)) BY <2>2, <2>3 DEF Chosen
  <2>5. QED BY <2>1, <2>4
<1>10. ASSUME NEW r \in links
       PROVE  /\ r.kind = "COMMUNICATES_WITH"
              /\ Base!Explained(r, Facts[g])
              /\ \A q \in Facts[g] \cup links :
                   q.kind = "COMMUNICATES_WITH" /\ Base!SameLink(r, q) => q = r /\ q \notin Facts[g]
  <2>1. PICK k \in Chosen(g, min) : r = SlotEdge(g, k) BY <1>6
  <2>2. r.kind = "COMMUNICATES_WITH" /\ Base!Explained(r, Facts[g]) BY <2>1, <1>5, <1>7
  <2>3. ASSUME NEW q \in Facts[g] \cup links, q.kind = "COMMUNICATES_WITH", Base!SameLink(r, q)
        PROVE  q = r /\ q \notin Facts[g]
    <3>1. q \notin Facts[g] BY <2>1, <2>3, <1>5, <1>8
    <3>2. PICK l \in Chosen(g, min) : q = SlotEdge(g, l) BY <3>1, <1>6
    <3>3. k = l BY <2>1, <2>3, <3>2, <1>9
    <3>4. QED BY <3>1, <3>2, <3>3, <2>1
  <2>4. QED BY <2>2, <2>3
<1>11. outcome' = "ok" /\ UNCHANGED <<nodes, status>> BY DEF LinkBoundaries, Returns
<1> HIDE DEF links
<1>12. QED BY <1>6, <1>10, <1>11 DEF Base!Connect, links

(* A slice says what its parent says of the ids asked for, and knows the   *)
(* ends of that.                                                           *)
LEMMA SliceCuts ==
  ASSUME TypeOK, NEW g \in Graphs, NEW h \in Graphs, NEW S \in SUBSET Ids, Subgraph(g, h, S)
  PROVE  Base!Cut(g, h, S)
<1> DEFINE K == {i \in DOMAIN relations[g] : Incident(relations[g][i], S)}
           F == Values(relations[g])
<1>1. relations[g] \in Seq(Relations) /\ K \in SUBSET DOMAIN relations[g] BY DEF TypeOK
<1>2. Values(SliceEdges(g, S)) = {relations[g][i] : i \in K}
  <2>1. SliceEdges(g, S) = Pick(relations[g], K) BY DEF SliceEdges
  <2> HIDE DEF K
  <2>2. QED BY <2>1, <1>1, PickValues
<1>3. {relations[g][i] : i \in K} = Base!About(F, S) BY DEF Incident, Values, Base!About
<1>4. FarEnds(g, S) \cup S = S \cup Base!EndsOf(Base!About(F, S))
  <2>1. Values(SliceEdges(g, S)) = Base!About(F, S) BY <1>2, <1>3
  <2>2. QED BY <2>1 DEF FarEnds, Base!EndsOf
<1>5. relations' = [relations EXCEPT ![h] = SliceEdges(g, S)] BY DEF Subgraph
<1>6. Facts' = [Facts EXCEPT ![h] = Base!About(F, S)] BY <1>2, <1>3, <1>5, FactsStep
<1>7. Facts[g] = F /\ Facts[h] = {}
  <2>1. relations[h] = <<>> BY DEF Subgraph, Untouched
  <2>2. Values(relations[h]) = {} BY <2>1 DEF Values
  <2>3. QED BY <2>2 DEF Facts
<1>8. nodes' = [nodes EXCEPT ![h] = [id \in Ids |->
        IF id \in S \cup Base!EndsOf(Base!About(F, S)) THEN nodes[g][id] ELSE Absent]]
  <2>1. \A id : id \in S \cup FarEnds(g, S) <=> id \in S \cup Base!EndsOf(Base!About(F, S))
    BY <1>4
  <2>2. [id \in Ids |-> IF id \in S \cup FarEnds(g, S) THEN nodes[g][id] ELSE Absent]
        = [id \in Ids |-> IF id \in S \cup Base!EndsOf(Base!About(F, S))
                         THEN nodes[g][id] ELSE Absent]
    BY <2>1
  <2>3. QED BY <2>2 DEF Subgraph
<1>9. status[h] = Unset /\ outcome' = "ok" /\ status' = [status EXCEPT ![h] = status[g]]
  BY DEF Subgraph, Untouched, Returns
<1> HIDE DEF F
<1>10. QED BY <1>6, <1>7, <1>8, <1>9 DEF Base!Cut

(* A merge that goes through unites two graphs that agree.                 *)
LEMMA MergeUnites ==
  ASSUME TypeOK, NEW g \in Graphs, NEW h \in Graphs, NEW allow_shared \in BOOLEAN,
         Merge(g, h, allow_shared)
  PROVE  Base!Unite(g, h) \/ Base!Refuse
<1>1. CASE Conflicts(g, h, allow_shared) # {}
  <2>1. outcome' = "duplicate" /\ UNCHANGED <<nodes, relations, status>>
    BY <1>1 DEF Merge, Raises
  <2>2. Facts' = Facts BY <2>1 DEF Facts
  <2>3. QED BY <2>1, <2>2 DEF Base!Refuse
<1>2. CASE Conflicts(g, h, allow_shared) = {}
  <2>1. MergeInto(g, h) /\ outcome' = "ok" BY <1>2 DEF Merge, Returns
  <2>2. \A id \in Ids : Absent \in {nodes[g][id], nodes[h][id]} \/ nodes[g][id] = nodes[h][id]
    BY <1>2 DEF Conflicts, Has
  <2>3. relations[g] \in Seq(Relations) /\ relations[h] \in Seq(Relations) BY DEF TypeOK
  <2>4. Values(relations[g] \o relations[h]) = Values(relations[g]) \cup Values(relations[h])
    BY <2>3, ConcatValues
  <2>5. relations' = [relations EXCEPT ![g] = relations[g] \o relations[h]]
    BY <2>1 DEF MergeInto
  <2>6. Facts' = [Facts EXCEPT ![g] = Values(relations[g]) \cup Values(relations[h])]
    BY <2>4, <2>5, FactsStep
  <2>7. Facts[g] = Values(relations[g]) /\ Facts[h] = Values(relations[h]) BY DEF Facts
  <2>8. Facts' = [Facts EXCEPT ![g] = Facts[g] \cup Facts[h]] BY <2>6, <2>7
  <2>9. /\ nodes' = [nodes EXCEPT ![g] =
               [id \in Ids |-> IF nodes[g][id] # Absent THEN nodes[g][id] ELSE nodes[h][id]]]
        /\ status' = [status EXCEPT ![g] = MergedStatus(status[g], status[h])]
    BY <2>1 DEF MergeInto
  <2>10. Base!MergedStatus(status[g], status[h]) = MergedStatus(status[g], status[h])
    BY DEF MergedStatus, Combine, Coerce, Severity, Statuses,
       Base!MergedStatus, Base!Combine, Base!Coerce, Base!Severity, Base!Statuses
  <2>11. QED BY <2>1, <2>2, <2>8, <2>9, <2>10 DEF Base!Unite
<1>3. QED BY <1>1, <1>2

(* One call is one step of what it says. *)
LEMMA StepOfFacts ==
  ASSUME TypeOK, [Next]_storeVars
  PROVE  [Base!BNext]_(Base!baseVars)
<1> USE DEF Returns, Raises
<1>1. CASE UNCHANGED storeVars
  <2>1. UNCHANGED <<nodes, relations, status, outcome>> BY <1>1 DEF storeVars
  <2>2. Facts' = Facts BY <2>1 DEF Facts
  <2>3. QED BY <2>1, <2>2 DEF Base!baseVars
<1>2. ASSUME outcome' = "ok", UNCHANGED <<nodes, relations, status>>
      PROVE  Base!BNext
  <2>1. Facts' = Facts BY <1>2 DEF Facts
  <2>2. Base!Keep BY <2>1, <1>2 DEF Base!Keep
  <2>3. QED BY <2>2 DEF Base!BNext
<1>3. ASSUME outcome' = "ok", UNCHANGED <<nodes, status>>, NEW g \in Graphs, NEW s,
             relations' = [relations EXCEPT ![g] = s],
             Values(s) \in SUBSET Values(relations[g])
      PROVE  Base!BNext
  <2>1. Facts' = [Facts EXCEPT ![g] = Values(s)] BY <1>3, FactsStep
  <2>2. Values(s) \in SUBSET Facts[g] BY <1>3 DEF Facts
  <2>3. Base!Forget(g, Values(s)) BY <2>1, <1>3 DEF Base!Forget
  <2>4. QED BY <2>2, <2>3 DEF Base!BNext
<1>4. ASSUME NEW g \in Graphs, NEW n \in NodePool[g],
             AddNode(g, n[1], n[2]) \/ InsertNode(g, n[1], n[2])
      PROVE  Base!BNext
  <2>1. n[1] \in Ids /\ n[2] \in Contents
    <3>1. n \in Ids \X Contents BY StoreAssumption
    <3>2. QED BY <3>1
  <2>2. UNCHANGED <<relations, status>> BY <1>4 DEF AddNode, InsertNode
  <2>3. Facts' = Facts BY <2>2 DEF Facts
  <2>4. \/ UNCHANGED nodes /\ outcome' \in {"ok", "duplicate"}
        \/ ~ Has(g, n[1]) /\ outcome' = "ok" /\ Store(g, n[1], n[2])
    BY <1>4 DEF AddNode, InsertNode
  <2>5. CASE UNCHANGED nodes /\ outcome' \in {"ok", "duplicate"}
    <3>1. Base!Keep \/ Base!Refuse BY <2>2, <2>3, <2>5 DEF Base!Keep, Base!Refuse
    <3>2. QED BY <3>1 DEF Base!BNext
  <2>6. CASE ~ Has(g, n[1]) /\ outcome' = "ok" /\ Store(g, n[1], n[2])
    <3>1. Base!Know(g, n[1], n[2]) BY <2>2, <2>3, <2>6 DEF Store, Has, Base!Know
    <3>2. QED BY <2>1, <3>1 DEF Base!BNext
  <2>7. QED BY <2>4, <2>5, <2>6
<1>5. ASSUME NEW g \in Graphs, NEW r \in RelationPool[g], AddRelation(g, r)
      PROVE  Base!BNext
  <2>1. r \in Relations BY StoreAssumption
  <2>2. relations[g] \in Seq(Relations) BY DEF TypeOK
  <2>3. Values(Append(relations[g], r)) = Values(relations[g]) \cup {r}
    <3> DEFINE s == relations[g]
               a == Append(s, r)
    <3>1. /\ Len(s) \in Nat /\ DOMAIN s = 1..Len(s) /\ DOMAIN a = 1..(Len(s) + 1)
          /\ \A i \in 1..Len(s) : a[i] = s[i]
          /\ a[Len(s) + 1] = r
      <4>1. s \in Seq(Relations) BY <2>2
      <4> HIDE DEF s
      <4>2. QED BY <4>1, <2>1
    <3> HIDE DEF s, a
    <3>2. \A i \in DOMAIN a : i \in DOMAIN s \/ i = Len(s) + 1 BY <3>1
    <3>3. \A i \in DOMAIN s : i \in DOMAIN a /\ a[i] = s[i] BY <3>1
    <3>4. Len(s) + 1 \in DOMAIN a BY <3>1
    <3>5. Values(a) = Values(s) \cup {r} BY <3>1, <3>2, <3>3, <3>4 DEF Values
    <3>6. QED BY <3>5 DEF s, a
  <2>4. relations' = [relations EXCEPT ![g] = Append(relations[g], r)] BY <1>5 DEF AddRelation
  <2>5. Facts' = [Facts EXCEPT ![g] = Values(relations[g]) \cup {r}]
    BY <2>3, <2>4, FactsStep
  <2>6. Facts[g] = Values(relations[g]) BY DEF Facts
  <2>7. r \in Facts'[g] BY <2>5 DEF Facts
  <2>8. Base!State(g, r) BY <1>5, <2>5, <2>6 DEF AddRelation, Base!State
  <2>9. QED BY <2>7, <2>8 DEF Base!BNext
<1>6. ASSUME NEW g \in Graphs, NEW K \in SUBSET DOMAIN relations[g], RetainRelations(g, K)
      PROVE  Base!BNext
  <2>1. relations[g] \in Seq(Relations) BY DEF TypeOK
  <2>2. Values(Pick(relations[g], K)) = {relations[g][i] : i \in K} BY <2>1, PickValues
  <2>3. Values(Pick(relations[g], K)) \in SUBSET Values(relations[g]) BY <2>2 DEF Values
  <2>4. /\ outcome' = "ok" /\ UNCHANGED <<nodes, status>>
        /\ relations' = [relations EXCEPT ![g] = Pick(relations[g], K)]
    BY <1>6 DEF RetainRelations
  <2>5. QED BY <2>3, <2>4, <1>3
<1>7. ASSUME NEW g \in Graphs, DedupeStructuralRelations(g)
      PROVE  Base!BNext
  <2>1. relations[g] \in Seq(Relations) BY DEF TypeOK
  <2>2. Values(Deduped(relations[g])) \in SUBSET Values(relations[g]) BY <2>1, DedupedValues
  <2>3. /\ outcome' = "ok" /\ UNCHANGED <<nodes, status>>
        /\ relations' = [relations EXCEPT ![g] = Deduped(relations[g])]
    BY <1>7 DEF DedupeStructuralRelations
  <2>4. QED BY <2>2, <2>3, <1>3
<1>8. ASSUME NEW g \in Graphs, NEW s \in StoredStatuses, status[g] = Unset, outcome' = "ok",
             status' = [status EXCEPT ![g] = s], UNCHANGED <<nodes, relations>>
      PROVE  Base!BNext
  <2>1. Facts' = Facts BY <1>8 DEF Facts
  <2>2. Base!Judge(g, s) BY <1>8, <2>1 DEF Base!Judge
  <2>3. s \in Base!StoredStatuses
    BY DEF StoredStatuses, Statuses, Base!StoredStatuses, Base!Statuses
  <2>4. QED BY <2>2, <2>3 DEF Base!BNext
<1>9. ASSUME NEW g \in Graphs, NEW h \in Graphs, NEW allow_shared \in BOOLEAN,
             Merge(g, h, allow_shared)
      PROVE  Base!BNext
  <2>1. h \in Graphs \ {g} BY <1>9 DEF Merge
  <2>2. Base!Unite(g, h) \/ Base!Refuse BY <1>9, MergeUnites
  <2>3. QED BY <2>1, <2>2 DEF Base!BNext
<1>10. ASSUME NEW g \in Graphs, NEW min \in Thresholds, LinkBoundaries(g, min)
       PROVE  Base!BNext
  <2>1. Base!Connect(g, Facts'[g] \ Facts[g]) BY <1>10, LinksConnect
  <2>2. QED BY <2>1 DEF Base!BNext
<1>11. ASSUME NEW g \in Graphs, NEW h \in Graphs, NEW S \in SUBSET Ids, Subgraph(g, h, S)
       PROVE  Base!BNext
  <2>1. h \in Graphs \ {g} BY <1>11 DEF Subgraph
  <2>2. Base!Cut(g, h, S) BY <1>11, SliceCuts
  <2>3. QED BY <2>1, <2>2 DEF Base!BNext
<1>12. CASE Next
  <2>1. PICK g \in Graphs :
          \/ \E n \in NodePool[g] : AddNode(g, n[1], n[2]) \/ InsertNode(g, n[1], n[2])
          \/ \E r \in RelationPool[g] : AddRelation(g, r)
          \/ \E K \in SUBSET DOMAIN relations[g] : RetainRelations(g, K)
          \/ DedupeStructuralRelations(g)
          \/ \E s \in Statuses : SetResolverStatus(g, s)
          \/ ForeignStatus(g)
          \/ \E h \in Graphs, allow_shared \in BOOLEAN : Merge(g, h, allow_shared)
          \/ \E min \in Thresholds : LinkBoundaries(g, min)
          \/ \E h \in Graphs, S \in SUBSET Ids : Subgraph(g, h, S)
          \/ \E end \in {"src", "tgt"}, id \in Ids : Edges(g, end, id)
          \/ \E id \in Ids, depth \in Depths : Neighbors(g, id, depth)
    BY <1>12 DEF Next
  <2>2. ASSUME NEW s \in Statuses, SetResolverStatus(g, s) PROVE Base!BNext
    <3>1. s \in StoredStatuses BY DEF StoredStatuses
    <3>2. QED BY <3>1, <2>2, <1>8 DEF SetResolverStatus
  <2>3. CASE ForeignStatus(g)
    <3>1. "unreadable" \in StoredStatuses BY DEF StoredStatuses
    <3>2. QED BY <3>1, <2>3, <1>8 DEF ForeignStatus
  <2>4. ASSUME NEW end \in {"src", "tgt"}, NEW id \in Ids, Edges(g, end, id) PROVE Base!BNext
    BY <2>4, <1>2 DEF Edges
  <2>6. ASSUME NEW id \in Ids, NEW depth \in Depths, Neighbors(g, id, depth) PROVE Base!BNext
    BY <2>6, <1>2 DEF Neighbors
  <2>7. QED BY <2>1, <2>2, <2>3, <2>4, <2>6, <1>4, <1>5, <1>6, <1>7, <1>9, <1>10, <1>11
<1>13. QED BY <1>1, <1>12

(* However calls follow one another, a graph says what it was told:        *)
(* GraphStore's lists of relations implement FactBase's sets.              *)
THEOREM StoreImplementsFacts == Spec => ImplementsFacts
<1>1. Init => Base!BInit
  <2> SUFFICES ASSUME Init PROVE Base!BInit
    OBVIOUS
  <2>1. \A g \in Graphs : Values(relations[g]) = {} BY DEF Init, Values
  <2>2. Facts = [g \in Graphs |-> {}] BY <2>1 DEF Facts
  <2>3. QED BY <2>2 DEF Init, EmptyNodes, Base!BInit
<1>2. TypeOK /\ [Next]_storeVars => [Base!BNext]_(Base!baseVars)
  BY StepOfFacts
<1>3. QED BY <1>1, <1>2, TypeCorrect, PTL DEF Spec, ImplementsFacts, Base!BSpec

(* A slice keeps the edges incident to what was asked for, and their ends  *)
(* with what the parent knows of them.                                     *)
THEOREM SlicesStayClosed == Spec => SliceClosed
<1> DEFINE A == \A g, h \in Graphs, S \in SUBSET Ids : Subgraph(g, h, S) =>
       /\ Values(relations'[h]) = {r \in Values(relations[g]) : Incident(r, S)}
       /\ \A r \in Values(relations'[h]) : \A id \in {r.src, r.tgt} :
            nodes'[h][id] = nodes[g][id]
<1>1. ASSUME TypeOK PROVE A
  <2> SUFFICES ASSUME NEW g \in Graphs, NEW h \in Graphs, NEW S \in SUBSET Ids,
                      Subgraph(g, h, S)
               PROVE  /\ Values(relations'[h]) = {r \in Values(relations[g]) : Incident(r, S)}
                      /\ \A r \in Values(relations'[h]) : \A id \in {r.src, r.tgt} :
                           nodes'[h][id] = nodes[g][id]
    OBVIOUS
  <2> DEFINE K == {i \in DOMAIN relations[g] : Incident(relations[g][i], S)}
  <2>1. relations[g] \in Seq(Relations) /\ K \in SUBSET DOMAIN relations[g]
    BY <1>1 DEF TypeOK
  <2>2. SliceEdges(g, S) = Pick(relations[g], K) BY DEF SliceEdges
  <2>3. Values(SliceEdges(g, S)) = {relations[g][i] : i \in K}
    <3> HIDE DEF K
    <3>1. QED BY <2>1, <2>2, PickValues
  <2>4. Values(SliceEdges(g, S)) = {r \in Values(relations[g]) : Incident(r, S)}
    BY <2>3 DEF Values
  <2>5. relations'[h] = SliceEdges(g, S) BY <1>1 DEF Subgraph, TypeOK
  <2>6. Values(relations'[h]) = Values(SliceEdges(g, S)) BY <2>5
  <2>7. ASSUME NEW r \in Values(SliceEdges(g, S)), NEW id \in {r.src, r.tgt}
        PROVE  nodes'[h][id] = nodes[g][id]
    <3>1. id \in S \cup FarEnds(g, S) BY <2>7 DEF FarEnds
    <3>2. r \in Relations BY <2>7, <2>1, <2>3
    <3>3. id \in Ids BY <2>7, <3>2 DEF Relations
    <3>4. nodes'[h] = [i \in Ids |-> IF i \in S \cup FarEnds(g, S) THEN nodes[g][i] ELSE Absent]
      BY <1>1 DEF Subgraph, TypeOK
    <3>5. QED BY <3>1, <3>3, <3>4
  <2>8. QED BY <2>4, <2>6, <2>7
<1> HIDE DEF A
<1>2. TypeOK /\ [Next]_storeVars => A \/ UNCHANGED storeVars BY <1>1
<1>3. QED BY <1>2, TypeCorrect, PTL DEF Spec, SliceClosed, A
===============================================================================
