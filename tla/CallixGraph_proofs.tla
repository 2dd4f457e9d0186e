--------------------------- MODULE CallixGraph_proofs ---------------------------
(***************************************************************************)
(* The lazy indices of Graph never show: CallixGraph implements            *)
(* GraphStore.  The invariant is that the indices, when built, describe    *)
(* the relations as they are now; a query then answers what GraphStore's   *)
(* answers, and every other call is the same call.                         *)
(***************************************************************************)
EXTENDS CallixGraph, GraphStore_proofs

(* The indices are maps over the graphs. *)
IndexType ==
  /\ out_index = [g \in Graphs |-> out_index[g]]
  /\ in_index = [g \in Graphs |-> in_index[g]]

CInv == TypeOK /\ IndexType /\ IndexCoherent

LEMMA InvalidateCoherent ==
  ASSUME IndexType, IndexCoherent, NEW g \in Graphs, Invalidate(g),
         \A x \in Graphs \ {g} : relations'[x] = relations[x]
  PROVE  IndexType' /\ IndexCoherent'
<1>1. /\ \A x \in Graphs \ {g} : out_index'[x] = out_index[x] /\ in_index'[x] = in_index[x]
      /\ out_index'[g] = None /\ in_index'[g] = None
      /\ IndexType'
  BY DEF Invalidate, IndexType
<1>2. QED BY <1>1 DEF IndexCoherent

LEMMA KeepCoherent ==
  ASSUME IndexType, IndexCoherent, KeepIndices, UNCHANGED relations
  PROVE  IndexType' /\ IndexCoherent'
BY DEF KeepIndices, IndexType, IndexCoherent

(* The call adds no edge when no slot is chosen. *)
LEMMA NothingChosen ==
  ASSUME TypeOK, NEW g \in Graphs, NEW min, LinkBoundaries(g, min), Chosen(g, min) = {}
  PROVE  UNCHANGED relations
<1>1. NewLinks(g, min) = <<>>
  <2>1. Cardinality(Chosen(g, min)) = 0 BY FS_EmptySet
  <2>2. NewLinks(g, min) \in Seq(Relations) /\ Len(NewLinks(g, min)) = 0
    BY <2>1, NewLinksType
  <2>3. QED BY <2>2
<1>2. relations[g] \in Seq(Relations) BY DEF TypeOK
<1>3. relations[g] \o <<>> = relations[g] BY <1>2
<1>4. relations' = [relations EXCEPT ![g] = relations[g]]
  BY <1>1, <1>3 DEF LinkBoundaries
<1>5. QED BY <1>4 DEF TypeOK

(* Once ensured, both indices are those of the relations. *)
LEMMA EnsuredIndices ==
  ASSUME CInv, NEW g \in Graphs, EnsureIndex(g)
  PROVE  /\ out_index'[g] = IndexOf(relations[g], "src")
         /\ in_index'[g] = IndexOf(relations[g], "tgt")
         /\ \A x \in Graphs \ {g} : out_index'[x] = out_index[x] /\ in_index'[x] = in_index[x]
         /\ IndexType'
<1> USE DEF CInv, IndexType
<1>1. CASE out_index[g] = None BY <1>1 DEF EnsureIndex
<1>2. CASE out_index[g] # None BY <1>2 DEF EnsureIndex, KeepIndices, IndexCoherent
<1>3. QED BY <1>1, <1>2

(* A query answers what GraphStore answers. *)
LEMMA QueryImplements ==
  ASSUME CInv, NEW g \in Graphs, NEW end \in {"src", "tgt"}, NEW id \in Ids, CEdges(g, end, id)
  PROVE  Edges(g, end, id)
<1> DEFINE positions == IF end = "src" THEN out_index'[g][id] ELSE in_index'[g][id]
<1>1. positions = EdgesAt(relations[g], end, id)
  <2>1. EnsureIndex(g) BY DEF CEdges
  <2>2. out_index'[g][id] = EdgesAt(relations[g], "src", id)
    BY <2>1, EnsuredIndices DEF IndexOf
  <2>3. in_index'[g][id] = EdgesAt(relations[g], "tgt", id)
    BY <2>1, EnsuredIndices DEF IndexOf
  <2>4. QED BY <2>2, <2>3
<1>2. answer' = [i \in positions |-> relations[g][i]] BY DEF CEdges
<1>3. outcome' = "ok" /\ UNCHANGED <<nodes, order, relations, status, recorded>>
  BY DEF CEdges
<1> HIDE DEF positions
<1>4. QED BY <1>1, <1>2, <1>3 DEF Edges

(* A walk from node to node leads where it leads in GraphStore: each round *)
(* reads indices that are the relations'.                                  *)
LEMMA NeighborsImplement ==
  ASSUME CInv, NEW g \in Graphs, NEW id \in Ids, NEW depth \in Depths, CNeighbors(g, id, depth)
  PROVE  Neighbors(g, id, depth)
<1>1. /\ answer' = NodesAt(g, Reached(relations[g], out_index'[g], in_index'[g], id, depth))
      /\ outcome' = "ok" /\ UNCHANGED <<nodes, order, relations, status, recorded>>
  BY DEF CNeighbors
<1>2. Reached(relations[g], out_index'[g], in_index'[g], id, depth) =
        Reached(relations[g], IndexOf(relations[g], "src"), IndexOf(relations[g], "tgt"), id, depth)
  <2>1. CASE depth = 0 BY <2>1 DEF Reached
  <2>2. CASE depth # 0
    <3>1. EnsureIndex(g) BY <2>2 DEF CNeighbors
    <3>2. out_index'[g] = IndexOf(relations[g], "src") /\ in_index'[g] = IndexOf(relations[g], "tgt")
      BY <3>1, EnsuredIndices
    <3>3. QED BY <3>2
  <2>3. QED BY <2>1, <2>2
<1>3. QED BY <1>1, <1>2 DEF Neighbors

(* Every step of the program is a step of GraphStore. *)
LEMMA StepImplements ==
  CInv /\ [CNext]_vars => [Next]_storeVars
<1> SUFFICES ASSUME CInv, [CNext]_vars PROVE [Next]_storeVars
  OBVIOUS
<1>1. CASE UNCHANGED vars BY <1>1 DEF vars, storeVars
<1>2. CASE CNext
  <2>1. PICK g \in Graphs :
          \/ \E n \in NodePool[g] : AddNode(g, n[1], n[2]) \/ InsertNode(g, n[1], n[2])
          \/ \E r \in RelationPool[g] : AddRelation(g, r)
          \/ \E K \in SUBSET DOMAIN relations[g] : RetainRelations(g, K)
          \/ DedupeStructuralRelations(g)
          \/ \E s \in Statuses : SetResolverStatus(g, s)
          \/ ForeignStatus(g)
          \/ \E h \in Graphs, allow_shared \in BOOLEAN : Merge(g, h, allow_shared)
          \/ \E min \in Thresholds : LinkBoundaries(g, min)
          \/ \E h \in Graphs, S \in SUBSET Ids : Subgraph(g, h, S)
          \/ \E end \in {"src", "tgt"}, id \in Ids : CEdges(g, end, id)
          \/ \E id \in Ids, depth \in Depths : CNeighbors(g, id, depth)
    BY <1>2 DEF CNext, CAddNode, CInsertNode, CAddRelation, CRetainRelations, CDedupe,
         CSetResolverStatus, CForeignStatus, CMerge, CLinkBoundaries, CSubgraph
  <2>2. CASE \E end \in {"src", "tgt"}, id \in Ids : CEdges(g, end, id)
    BY <2>2, QueryImplements DEF Next
  <2>3. CASE \E id \in Ids, depth \in Depths : CNeighbors(g, id, depth)
    BY <2>3, NeighborsImplement DEF Next
  <2>4. QED BY <2>1, <2>2, <2>3 DEF Next
<1>3. QED BY <1>1, <1>2

LEMMA CInvInductive == CInv /\ [CNext]_vars => CInv'
<1> SUFFICES ASSUME CInv, [CNext]_vars PROVE CInv'
  OBVIOUS
<1>1. TypeOK' BY StepImplements, TypeInductive DEF CInv
<1>2. IndexType /\ IndexCoherent /\ TypeOK BY DEF CInv
<1>3. IndexType' /\ IndexCoherent'
  <2>1. CASE UNCHANGED vars
    BY <2>1, <1>2 DEF vars, IndexType, IndexCoherent
  <2>2. ASSUME KeepIndices, UNCHANGED relations PROVE IndexType' /\ IndexCoherent'
    BY <2>2, <1>2, KeepCoherent
  <2>3. ASSUME NEW g \in Graphs, Invalidate(g), NEW s, relations' = [relations EXCEPT ![g] = s]
        PROVE  IndexType' /\ IndexCoherent'
    <3>1. \A x \in Graphs \ {g} : relations'[x] = relations[x] BY <2>3, <1>2 DEF TypeOK
    <3>2. QED BY <3>1, <2>3, <1>2, InvalidateCoherent
  <2>4. ASSUME NEW g \in Graphs, EnsureIndex(g), UNCHANGED relations
        PROVE  IndexType' /\ IndexCoherent'
    BY <2>4, <1>2, EnsuredIndices DEF IndexCoherent
  <2>5. ASSUME NEW g \in Graphs, NEW h \in Graphs, NEW allow_shared \in BOOLEAN,
               CMerge(g, h, allow_shared)
        PROVE  IndexType' /\ IndexCoherent'
    <3>1. CASE outcome' = "ok"
      <4>1. relations' = [relations EXCEPT ![g] = relations[g] \o relations[h]]
        BY <2>5, <3>1 DEF CMerge, Merge, MergeInto, Raises
      <4>2. Invalidate(g) BY <2>5, <3>1 DEF CMerge
      <4>3. QED BY <4>1, <4>2, <2>3
    <3>2. CASE outcome' # "ok"
      <4>1. UNCHANGED relations BY <2>5, <3>2 DEF CMerge, Merge, Returns
      <4>2. KeepIndices BY <2>5, <3>2 DEF CMerge
      <4>3. QED BY <4>1, <4>2, <2>2
    <3>3. QED BY <3>1, <3>2
  <2>6. ASSUME NEW g \in Graphs, NEW min \in Thresholds, CLinkBoundaries(g, min)
        PROVE  IndexType' /\ IndexCoherent'
    <3>1. CASE Chosen(g, min) = {}
      BY <2>6, <3>1, <1>2, <2>2, NothingChosen DEF CLinkBoundaries
    <3>2. CASE Chosen(g, min) # {}
      BY <2>6, <3>2, <2>3 DEF CLinkBoundaries, LinkBoundaries
    <3>3. QED BY <3>1, <3>2
  <2>7. CASE CNext
    <3>1. PICK g \in Graphs :
            \/ KeepIndices /\ UNCHANGED relations
            \/ \E r \in RelationPool[g] : CAddRelation(g, r)
            \/ \E K \in SUBSET DOMAIN relations[g] : CRetainRelations(g, K)
            \/ CDedupe(g)
            \/ \E h \in Graphs, allow_shared \in BOOLEAN : CMerge(g, h, allow_shared)
            \/ \E min \in Thresholds : CLinkBoundaries(g, min)
            \/ \E h \in Graphs, S \in SUBSET Ids : CSubgraph(g, h, S)
            \/ EnsureIndex(g) /\ UNCHANGED relations
      BY <2>7 DEF CNext, CAddNode, CInsertNode, CSetResolverStatus, CForeignStatus,
           CEdges, CNeighbors, AddNode, InsertNode, SetResolverStatus, ForeignStatus
    <3>2. CASE \E r \in RelationPool[g] : CAddRelation(g, r)
      BY <3>2, <2>3 DEF CAddRelation, AddRelation
    <3>3. CASE \E K \in SUBSET DOMAIN relations[g] : CRetainRelations(g, K)
      BY <3>3, <2>3 DEF CRetainRelations, RetainRelations
    <3>4. CASE CDedupe(g)
      BY <3>4, <2>3 DEF CDedupe, DedupeStructuralRelations
    <3>5. CASE \E h \in Graphs, S \in SUBSET Ids : CSubgraph(g, h, S)
      BY <3>5, <2>3 DEF CSubgraph, Subgraph
    <3>6. QED BY <3>1, <3>2, <3>3, <3>4, <3>5, <2>2, <2>4, <2>5, <2>6
  <2>8. QED BY <2>1, <2>7
<1>4. QED BY <1>1, <1>3 DEF CInv

LEMMA CInvInvariant == CSpec => []CInv
<1>1. CInit => CInv
  <2>1. CInit => TypeOK BY DEF CInit, Init, TypeOK, EmptyNodes
  <2>2. CInit => IndexType /\ IndexCoherent BY DEF CInit, IndexType, IndexCoherent
  <2>3. QED BY <2>1, <2>2 DEF CInv
<1>2. QED BY <1>1, CInvInductive, PTL DEF CSpec

(* The indices are both current or both absent, after every call. *)
THEOREM IndexNeverStale == CSpec => []IndexCoherent
<1>1. CInv => IndexCoherent BY DEF CInv
<1>2. QED BY <1>1, CInvInvariant, PTL

(* The program implements the store without indices. *)
THEOREM IndexedImplementsStore == CSpec => Implements
<1>1. CInit => Init BY DEF CInit
<1>2. QED BY <1>1, StepImplements, CInvInvariant, PTL DEF CSpec, Spec, Implements

(* What holds of the store holds of the program: here, that no node is     *)
(* lost, no fact is, and no status is masked.                              *)
THEOREM ProgramInherits ==
  CSpec => NodesPersist /\ FactsPersist /\ []StatusCoversRecorded
BY IndexedImplementsStore, NodesNeverLost, FactsNeverLost, StatusNeverMasked, PTL DEF Implements
===============================================================================
