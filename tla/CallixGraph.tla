------------------------------ MODULE CallixGraph ------------------------------
(***************************************************************************)
(* The Graph of src/src/graph.rs with its lazy edge indices.  A query      *)
(* builds both indices when out_index is None and then reads positions     *)
(* from one of them; every call that changes `relations` must reset both,  *)
(* or later queries answer from positions that have moved.                 *)
(***************************************************************************)
EXTENDS GraphStore

VARIABLES
  out_index,   (* out_index[g][id]: positions of the edges leaving id, or None *)
  in_index     (* in_index[g][id]: positions of the edges entering id, or None *)

vars == <<nodes, order, relations, status, recorded, outcome, answer, out_index, in_index>>

None == <<>>

CInit ==
  /\ Init
  /\ out_index = [g \in Graphs |-> None]
  /\ in_index = [g \in Graphs |-> None]

Invalidate(g) ==
  /\ out_index' = [out_index EXCEPT ![g] = None]
  /\ in_index' = [in_index EXCEPT ![g] = None]

KeepIndices == UNCHANGED <<out_index, in_index>>

CAddNode(g, id, content) == AddNode(g, id, content) /\ KeepIndices
CInsertNode(g, id, content) == InsertNode(g, id, content) /\ KeepIndices

(* Mutant: add_relation forgets the indices. *)
CAddRelationStale(g, r) == AddRelation(g, r) /\ KeepIndices

CAddRelation(g, r) == AddRelation(g, r) /\ Invalidate(g)

(* Mutant: retain_relations resets out_index only. *)
CRetainHalf(g, K) ==
  /\ RetainRelations(g, K)
  /\ out_index' = [out_index EXCEPT ![g] = None]
  /\ UNCHANGED in_index

CRetainRelations(g, K) == RetainRelations(g, K) /\ Invalidate(g)
CDedupe(g) == DedupeStructuralRelations(g) /\ Invalidate(g)
CSetResolverStatus(g, s) == SetResolverStatus(g, s) /\ KeepIndices
CForeignStatus(g) == ForeignStatus(g) /\ KeepIndices

(* A merge that fails returns before the reset. *)
CMerge(g, h, allow_shared) ==
  /\ Merge(g, h, allow_shared)
  /\ IF outcome' = "ok" THEN Invalidate(g) ELSE KeepIndices

(* The reset is in push_relation, so a call that adds no edge keeps them. *)
CLinkBoundaries(g, min) ==
  /\ LinkBoundaries(g, min)
  /\ IF Chosen(g, min) # {} THEN Invalidate(g) ELSE KeepIndices

(* The slice is built by add_relation on a graph of its own. *)
CSubgraph(g, h, S) == Subgraph(g, h, S) /\ Invalidate(h)

(* ensure_index: both indices are built when out_index is not there. *)
EnsureIndex(g) ==
  IF out_index[g] = None
  THEN /\ out_index' = [out_index EXCEPT ![g] = IndexOf(relations[g], "src")]
       /\ in_index' = [in_index EXCEPT ![g] = IndexOf(relations[g], "tgt")]
  ELSE KeepIndices

(* The positions of one index. *)
CEdges(g, end, id) ==
  /\ EnsureIndex(g)
  /\ LET positions == IF end = "src" THEN out_index'[g][id] ELSE in_index'[g][id]
     IN  answer' = [i \in positions |-> relations[g][i]]
  /\ outcome' = "ok"
  /\ UNCHANGED <<nodes, order, relations, status, recorded>>

(* Every round reads both indices; no round, no index. *)
CNeighbors(g, id, depth) ==
  /\ IF depth = 0 THEN KeepIndices ELSE EnsureIndex(g)
  /\ answer' = NodesAt(g, Reached(relations[g], out_index'[g], in_index'[g], id, depth))
  /\ outcome' = "ok"
  /\ UNCHANGED <<nodes, order, relations, status, recorded>>

CNext ==
  \E g \in Graphs :
    \/ \E n \in NodePool[g] : CAddNode(g, n[1], n[2]) \/ CInsertNode(g, n[1], n[2])
    \/ \E r \in RelationPool[g] : CAddRelation(g, r)
    \/ \E K \in SUBSET DOMAIN relations[g] : CRetainRelations(g, K)
    \/ CDedupe(g)
    \/ \E s \in Statuses : CSetResolverStatus(g, s)
    \/ CForeignStatus(g)
    \/ \E h \in Graphs, allow_shared \in BOOLEAN : CMerge(g, h, allow_shared)
    \/ \E min \in Thresholds : CLinkBoundaries(g, min)
    \/ \E h \in Graphs, S \in SUBSET Ids : CSubgraph(g, h, S)
    \/ \E end \in {"src", "tgt"}, id \in Ids : CEdges(g, end, id)
    \/ \E id \in Ids, depth \in Depths : CNeighbors(g, id, depth)

CSpec == CInit /\ [][CNext]_vars

-------------------------------------------------------------------------------
(* Both indices are there or neither is, and they describe the relations   *)
(* as they are now: ensure_index looks at out_index alone, and a stale     *)
(* position is a wrong edge or an index out of bounds.                     *)
IndexCoherent ==
  \A g \in Graphs :
    \/ out_index[g] = None /\ in_index[g] = None
    \/ /\ out_index[g] = IndexOf(relations[g], "src")
       /\ in_index[g] = IndexOf(relations[g], "tgt")

(* The indices are invisible: every call answers as GraphStore does. *)
Implements == Spec
===============================================================================
