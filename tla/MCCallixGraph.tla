---------------------------- MODULE MCCallixGraph ----------------------------
(***************************************************************************)
(* Small instances of CallixGraph for TLC.  The scenario of a behaviour    *)
(* picks the calls that are made and the nodes and edges they are given;   *)
(* the properties are the same in all of them.                             *)
(***************************************************************************)
EXTENDS CallixGraph

CONSTANTS g1, g2, a, b, x, v1, v2, s1

VARIABLE scenario   (* which calls are made: never changes *)

MCKinds == {"CALLS", CONSUMES, EXPOSES, COMMUNICATES_WITH}

Edge(src, tgt, kind, site, conf) ==
  [src |-> src, tgt |-> tgt, kind |-> kind, site |-> site, conf |-> conf, via |-> Unset]

(* Two sides of one contract x; a consumes it twice, once by inference. *)
ConsumesSure == Edge(a, x, CONSUMES, Unset, Unset)
ConsumesMaybe == Edge(a, x, CONSUMES, s1, 1)
Exposes == Edge(b, x, EXPOSES, s1, 2)
SelfExposes == Edge(a, x, EXPOSES, Unset, Unset)
Recursion == Edge(a, a, "CALLS", s1, Unset)

MCNodes == [g \in Graphs |->
  IF g = g1 THEN {<<a, v1>>, <<b, v1>>, <<x, v1>>} ELSE {<<x, v1>>, <<x, v2>>}]
MCRelations == [g \in Graphs |->
  IF g = g1 THEN {ConsumesSure, ConsumesMaybe, Exposes, SelfExposes, Recursion} ELSE {Exposes}]

(* The bound on the relations of one graph, by scenario. *)
Limit == [indices |-> 3, links |-> 4, merges |-> 2, hops |-> 3]

(* Every call that moves edges, with queries in between. *)
IndicesNext ==
  \/ CAddNode(g1, x, v1)
  \/ \E r \in {ConsumesSure, Exposes} : CAddRelation(g1, r)
  \/ \E i \in DOMAIN relations[g1] : CRetainRelations(g1, DOMAIN relations[g1] \ {i})
  \/ CDedupe(g1)
  \/ CLinkBoundaries(g1, 1)
  \/ \E S \in {{a}, {x}} : CSubgraph(g1, g2, S)
  \/ \E g, h \in Graphs : CMerge(g, h, TRUE)
  \/ CEdges(g1, "src", a) \/ CEdges(g2, "tgt", x)

(* One graph, long enough for two consumers, two providers and links. *)
LinksNext ==
  \/ CAddNode(g1, x, v1)
  \/ \E r \in RelationPool[g1] \ {Recursion} : CAddRelation(g1, r)
  \/ \E i \in DOMAIN relations[g1] : CRetainRelations(g1, DOMAIN relations[g1] \ {i})
  \/ CDedupe(g1)
  \/ \E min \in Thresholds : CLinkBoundaries(g1, min)

(* Two graphs that meet at the boundary x, and may disagree on it. *)
MergesNext ==
  \E g \in Graphs :
    \/ \E n \in NodePool[g] \ {<<b, v1>>} : CAddNode(g, n[1], n[2]) \/ CInsertNode(g, n[1], n[2])
    \/ CAddRelation(g, IF g = g1 THEN ConsumesMaybe ELSE Exposes)
    \/ \E s \in {"ok", "degraded"} : CSetResolverStatus(g, s)
    \/ CForeignStatus(g)
    \/ \E h \in Graphs, allow_shared \in BOOLEAN : CMerge(g, h, allow_shared)
    \/ \E h \in Graphs, S \in {{a}, {x}, {a, x}, {}} : CSubgraph(g, h, S)

(* Walks over x, which may have no node, between queries and rewrites. *)
HopsNext ==
  \/ \E n \in NodePool[g1] : CInsertNode(g1, n[1], n[2])
  \/ \E r \in {ConsumesSure, Exposes, Recursion} : CAddRelation(g1, r)
  \/ \E i \in DOMAIN relations[g1] : CRetainRelations(g1, DOMAIN relations[g1] \ {i})
  \/ \E id \in {a, x}, depth \in Depths : CNeighbors(g1, id, depth)

MCNext ==
  /\ \/ scenario = "indices" /\ IndicesNext
     \/ scenario = "links" /\ LinksNext
     \/ scenario = "merges" /\ MergesNext
     \/ scenario = "hops" /\ HopsNext
  /\ \A g \in Graphs : Len(relations'[g]) <= Limit[scenario]
  /\ UNCHANGED scenario

MCInit == CInit /\ scenario \in DOMAIN Limit
MCSpec == MCInit /\ [][MCNext]_<<vars, scenario>>
==============================================================================
