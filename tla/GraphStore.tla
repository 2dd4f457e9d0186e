------------------------------ MODULE GraphStore ------------------------------
(***************************************************************************)
(* What callix.Graph promises its callers (src/src/graph.rs), without the  *)
(* lazy edge indices: CallixGraph adds those and is shown to implement     *)
(* this module.                                                            *)
(*                                                                         *)
(* A graph is an insertion-ordered map of nodes, a list of relations and   *)
(* a metadata dictionary, of which only resolver_status is kept here.      *)
(* Several Graph objects are alive at once: adapters build one per         *)
(* language, callers merge, slice and link them.  One action is one call;  *)
(* PyO3's borrow of `self` makes a call atomic.                            *)
(***************************************************************************)
EXTENDS Positions, ResolverStatus

CONSTANTS
  Graphs,        (* Graph objects                                          *)
  Ids,           (* node ids                                               *)
  BoundaryIds,   (* the ids whose node kind is BOUNDARY                    *)
  Contents,      (* what two nodes of one id can differ in (Node.__eq__)   *)
  Kinds,         (* relation kinds                                         *)
  Sites,         (* use-sites an edge's metadata can record                *)
  Confidences,   (* values of metadata["confidence"], as integers          *)
  Full,          (* the confidence of an edge that records none (1.0)      *)
  Thresholds,    (* min_confidence values, in units of Full * Full         *)
  Depths,        (* numbers of hops asked for                              *)
  Absent,        (* an id the graph has no node for                        *)
  NodePool,      (* the <<id, content>> pairs callers build, per graph     *)
  RelationPool,  (* the relations callers build, per graph                 *)
  MaxRelations   (* bound on the relations of one graph                    *)

(* Edges that pairing reads and the one it writes. *)
CONSUMES == "CONSUMES"
EXPOSES == "EXPOSES"
COMMUNICATES_WITH == "COMMUNICATES_WITH"

(* Relation: the endpoints, the kind and three metadata keys. *)
Relations ==
  [src : Ids, tgt : Ids, kind : Kinds, site : Sites \cup {Unset},
   conf : Nat \cup {Unset}, via : Ids \cup {Unset}]

ASSUME StoreAssumption ==
  /\ BoundaryIds \subseteq Ids
  /\ {CONSUMES, EXPOSES, COMMUNICATES_WITH} \subseteq Kinds
  /\ Confidences \subseteq Nat
  /\ Full \in Nat
  /\ Thresholds \subseteq Nat
  /\ Depths \subseteq Nat
  /\ Absent \notin Contents
  /\ Unset \notin Nat \cup Ids \cup Sites \cup {"ok", "degraded", "unavailable", "unreadable"}
  /\ NodePool \in [Graphs -> SUBSET (Ids \X Contents)]
  /\ RelationPool \in [Graphs -> SUBSET Relations]
  /\ MaxRelations \in Nat

VARIABLES
  nodes,      (* nodes[g][id]: the stored node's content, or Absent        *)
  order,      (* order[g]: ids in insertion order (IndexMap)               *)
  relations,  (* relations[g]: Vec<Relation>                               *)
  status,     (* status[g]: metadata["resolver_status"], or Unset          *)
  recorded,   (* the statuses of every analysis whose edges are in g: a    *)
              (* history variable                                          *)
  outcome,    (* "ok", or the error the last call raised                   *)
  answer      (* what the last query returned: edges by position, or the   *)
              (* contents of nodes by id                                   *)

storeVars == <<nodes, order, relations, status, recorded, outcome, answer>>

-------------------------------------------------------------------------------
(* Nodes and edges of one graph. *)

Has(g, id) == nodes[g][id] # Absent
EmptyNodes == [id \in Ids |-> Absent]

(* Relation.metadata is an empty dictionary. *)
Plain(r) == r.site = Unset /\ r.conf = Unset /\ r.via = Unset

Incident(r, S) == r.src \in S \/ r.tgt \in S

EdgesAt(rels, end, id) == {i \in DOMAIN rels : rels[i][end] = id}
IndexOf(rels, end) == [id \in Ids |-> EdgesAt(rels, end, id)]

(* What a failed merge would collide on. *)
Conflicts(g, h, allow_shared) ==
  {id \in Ids : Has(g, id) /\ Has(h, id)
                /\ ~ (allow_shared /\ nodes[g][id] = nodes[h][id])}

NewPositions(g, h) == {i \in DOMAIN order[h] : ~ Has(g, order[h][i])}

(* Mutant: a use-site's metadata is not looked at. *)
RepeatsAnything(rels, i) == \E j \in DOMAIN rels : j < i /\ rels[j] = rels[i]

(* Mutant: every copy counts as a repeat, the first one too. *)
RepeatsEither(rels, i) == Plain(rels[i]) /\ \E j \in DOMAIN rels : j # i /\ rels[j] = rels[i]

(* An equal plain edge comes earlier. *)
Repeats(rels, i) == Plain(rels[i]) /\ \E j \in DOMAIN rels : j < i /\ rels[j] = rels[i]

Deduped(rels) == Pick(rels, {i \in DOMAIN rels : ~ Repeats(rels, i)})

-------------------------------------------------------------------------------
(***************************************************************************)
(* link_boundaries.  The three nested loops (boundaries in node order,     *)
(* then CONSUMES edges, then EXPOSES edges) visit the slots 1, 2, ...; a   *)
(* slot names a position in the node order and two positions in the        *)
(* relations.                                                              *)
(***************************************************************************)
Slots(g) == 1..(Len(order[g]) * Len(relations[g]) * Len(relations[g]))

BoundaryAt(g, k) == ((k - 1) \div (Len(relations[g]) * Len(relations[g]))) + 1
ConsumerAt(g, k) == (((k - 1) \div Len(relations[g])) % Len(relations[g])) + 1
ProviderAt(g, k) == ((k - 1) % Len(relations[g])) + 1

Confidence(r) == IF r.conf = Unset THEN Full ELSE r.conf

(* c consumes what p exposes: same boundary, two services, confident enough. *)
Pairs(c, p, b, min) ==
  /\ b \in BoundaryIds
  /\ c.kind = CONSUMES /\ c.tgt = b
  /\ p.kind = EXPOSES /\ p.tgt = b
  /\ c.src # p.src
  /\ Confidence(c) * Confidence(p) >= min

LinkEdge(c, p, b) ==
  [src |-> c.src, tgt |-> p.src, kind |-> COMMUNICATES_WITH, site |-> Unset,
   conf |-> Confidence(c) * Confidence(p), via |-> b]

LinkKey(r) == <<r.src, r.tgt, r.via>>
LinkedKeys(rels) ==
  {LinkKey(rels[i]) : i \in {j \in DOMAIN rels : rels[j].kind = COMMUNICATES_WITH}}

Qualifies(g, k, min) ==
  /\ BoundaryAt(g, k) \in DOMAIN order[g]
  /\ ConsumerAt(g, k) \in DOMAIN relations[g]
  /\ ProviderAt(g, k) \in DOMAIN relations[g]
  /\ Pairs(relations[g][ConsumerAt(g, k)], relations[g][ProviderAt(g, k)],
           order[g][BoundaryAt(g, k)], min)

SlotEdge(g, k) ==
  LinkEdge(relations[g][ConsumerAt(g, k)], relations[g][ProviderAt(g, k)],
           order[g][BoundaryAt(g, k)])

(* Mutant: `seen` starts empty, not with the links that are there. *)
ChosenAnew(g, min) ==
  {k \in Slots(g) :
     /\ Qualifies(g, k, min)
     /\ \A l \in 1..(k - 1) :
          Qualifies(g, l, min) => LinkKey(SlotEdge(g, l)) # LinkKey(SlotEdge(g, k))}

(* The slots that push an edge: the `seen` set stops a key already linked, *)
(* by an earlier call or by an earlier slot.                               *)
Chosen(g, min) ==
  {k \in Slots(g) :
     /\ Qualifies(g, k, min)
     /\ LinkKey(SlotEdge(g, k)) \notin LinkedKeys(relations[g])
     /\ \A l \in 1..(k - 1) :
          Qualifies(g, l, min) => LinkKey(SlotEdge(g, l)) # LinkKey(SlotEdge(g, k))}

NewLinks(g, min) ==
  [m \in 1..Cardinality(Chosen(g, min)) |-> SlotEdge(g, Nth(Chosen(g, min), m))]

-------------------------------------------------------------------------------
(* The calls. *)

Init ==
  /\ nodes = [g \in Graphs |-> EmptyNodes]
  /\ order = [g \in Graphs |-> <<>>]
  /\ relations = [g \in Graphs |-> <<>>]
  /\ status = [g \in Graphs |-> Unset]
  /\ recorded = [g \in Graphs |-> {}]
  /\ outcome = "ok"
  /\ answer = <<>>

Returns == outcome' = "ok" /\ answer' = <<>>
Raises(error) == outcome' = error /\ answer' = <<>>

Store(g, id, content) ==
  /\ nodes' = [nodes EXCEPT ![g][id] = content]
  /\ order' = [order EXCEPT ![g] = Append(@, id)]

(* Graph.add_node: a collision raises. *)
AddNode(g, id, content) ==
  /\ \/ Has(g, id) /\ Raises("duplicate") /\ UNCHANGED <<nodes, order>>
     \/ ~ Has(g, id) /\ Returns /\ Store(g, id, content)
  /\ UNCHANGED <<relations, status, recorded>>

(* Mutant: IndexMap::insert in place of entry().or_insert(). *)
InsertNodeOver(g, id, content) ==
  /\ Returns
  /\ IF Has(g, id)
     THEN nodes' = [nodes EXCEPT ![g][id] = content] /\ UNCHANGED order
     ELSE Store(g, id, content)
  /\ UNCHANGED <<relations, status, recorded>>

(* insert_node: the adapters' variant, a repeated id keeps the first node. *)
InsertNode(g, id, content) ==
  /\ Returns
  /\ IF Has(g, id) THEN UNCHANGED <<nodes, order>> ELSE Store(g, id, content)
  /\ UNCHANGED <<relations, status, recorded>>

(* add_relation and push_relation; an endpoint need not exist. *)
AddRelation(g, r) ==
  /\ Len(relations[g]) < MaxRelations
  /\ Returns
  /\ relations' = [relations EXCEPT ![g] = Append(@, r)]
  /\ UNCHANGED <<nodes, order, status, recorded>>

(* retain_relations: the flow pass drops the call edges it has replaced. *)
RetainRelations(g, K) ==
  /\ K \subseteq DOMAIN relations[g]
  /\ Returns
  /\ relations' = [relations EXCEPT ![g] = Pick(@, K)]
  /\ UNCHANGED <<nodes, order, status, recorded>>

(* dedupe_structural_relations, at the end of every analyze. *)
DedupeStructuralRelations(g) ==
  /\ Returns
  /\ relations' = [relations EXCEPT ![g] = Deduped(@)]
  /\ UNCHANGED <<nodes, order, status, recorded>>

(* An adapter records how complete its resolution was, once. *)
SetResolverStatus(g, s) ==
  /\ status[g] = Unset
  /\ Returns
  /\ status' = [status EXCEPT ![g] = s]
  /\ recorded' = [recorded EXCEPT ![g] = @ \cup {s}]
  /\ UNCHANGED <<nodes, order, relations>>

(* graph.metadata is the dictionary itself, and from_dict fills it from a  *)
(* file: what is stored under the key need not be a status.                *)
ForeignStatus(g) ==
  /\ status[g] = Unset
  /\ Returns
  /\ status' = [status EXCEPT ![g] = "unreadable"]
  /\ recorded' = [recorded EXCEPT ![g] = @ \cup {"unreadable"}]
  /\ UNCHANGED <<nodes, order, relations>>

(* Mutant: ids are checked one by one, as the nodes go in. *)
MergeAsItGoes(g, h, allow_shared) ==
  /\ g # h
  /\ LET bad  == {i \in DOMAIN order[h] : order[h][i] \in Conflicts(g, h, allow_shared)}
         done == {i \in NewPositions(g, h) : \A j \in bad : i < j}
         ids  == {order[h][i] : i \in done}
     IN  /\ bad # {}
         /\ Raises("duplicate")
         /\ nodes' = [nodes EXCEPT ![g] =
                        [id \in Ids |-> IF id \in ids THEN nodes[h][id] ELSE @[id]]]
         /\ order' = [order EXCEPT ![g] = @ \o Pick(order[h], done)]
         /\ UNCHANGED <<relations, status, recorded>>

(* What a merge that goes through does. *)
MergeInto(g, h) ==
  /\ nodes' = [nodes EXCEPT ![g] =
                 [id \in Ids |-> IF @[id] # Absent THEN @[id] ELSE nodes[h][id]]]
  /\ order' = [order EXCEPT ![g] = @ \o Pick(order[h], NewPositions(g, h))]
  /\ relations' = [relations EXCEPT ![g] = @ \o relations[h]]
  /\ status' = [status EXCEPT ![g] = MergedStatus(@, status[h])]
  /\ recorded' = [recorded EXCEPT ![g] = @ \cup recorded[h]]

(* Graph.merge: every id is checked before any is inserted. *)
Merge(g, h, allow_shared) ==
  /\ g # h
  /\ \/ /\ Conflicts(g, h, allow_shared) # {}
        /\ Raises("duplicate")
        /\ UNCHANGED <<nodes, order, relations, status, recorded>>
     \/ /\ Conflicts(g, h, allow_shared) = {}
        /\ Len(relations[g]) + Len(relations[h]) <= MaxRelations
        /\ Returns
        /\ MergeInto(g, h)

(* Graph.link_boundaries. *)
LinkBoundaries(g, min) ==
  /\ Len(relations[g]) + Cardinality(Chosen(g, min)) <= MaxRelations
  /\ Returns
  /\ relations' = [relations EXCEPT ![g] = @ \o NewLinks(g, min)]
  /\ UNCHANGED <<nodes, order, status, recorded>>

(* Graph.subgraph into a new Graph h: the nodes asked for, every edge      *)
(* incident to them, and the far ends of those edges.                      *)
Untouched(h) == order[h] = <<>> /\ relations[h] = <<>> /\ status[h] = Unset

SliceEdges(g, S) == Pick(relations[g], {i \in DOMAIN relations[g] : Incident(relations[g][i], S)})

(* Mutant: only the target end is pulled in. *)
FarTargets(g, S) == {r.tgt : r \in Values(SliceEdges(g, S))} \ S

FarEnds(g, S) ==
  (UNION {{r.src, r.tgt} : r \in Values(SliceEdges(g, S))}) \ S

(* Ends in the order the loop over relations reaches them. *)
EndList(rels) == [k \in 1..(2 * Len(rels)) |->
                    IF k % 2 = 1 THEN rels[(k + 1) \div 2].src ELSE rels[k \div 2].tgt]

SliceOrder(g, S) ==
  LET asked == Pick(order[g], {i \in DOMAIN order[g] : order[g][i] \in S})
      ends  == EndList(SliceEdges(g, S))
      first == {k \in DOMAIN ends : /\ ends[k] \in FarEnds(g, S) /\ Has(g, ends[k])
                                    /\ \A j \in 1..(k - 1) : ends[j] # ends[k]}
  IN  asked \o Pick(ends, first)

Subgraph(g, h, S) ==
  /\ g # h
  /\ S \subseteq Ids
  /\ Untouched(h)
  /\ Returns
  /\ nodes' = [nodes EXCEPT ![h] = [id \in Ids |->
                 IF id \in S \cup FarEnds(g, S) THEN nodes[g][id] ELSE Absent]]
  /\ order' = [order EXCEPT ![h] = SliceOrder(g, S)]
  /\ relations' = [relations EXCEPT ![h] = SliceEdges(g, S)]
  /\ status' = [status EXCEPT ![h] = status[g]]
  /\ recorded' = [recorded EXCEPT ![h] = recorded[g]]

(* Graph.outgoing (end = "src") and Graph.incoming (end = "tgt"). *)
Edges(g, end, id) ==
  /\ outcome' = "ok"
  /\ answer' = [i \in EdgesAt(relations[g], end, id) |-> relations[g][i]]
  /\ UNCHANGED <<nodes, order, relations, status, recorded>>

(* Mutant: an edge is followed to its target, whichever end it was met at. *)
AroundTargets(rels, leaving, entering, S) ==
  UNION {{rels[i].tgt : i \in leaving[n] \cup entering[n]} : n \in S}

(* The other ends of the edges at S, by an index of each end. *)
Around(rels, leaving, entering, S) ==
  UNION {{rels[i].tgt : i \in leaving[n]} \cup {rels[i].src : i \in entering[n]} : n \in S}

(* The rounds of the breadth-first loop; an id without a node is passed    *)
(* through like any other.                                                 *)
Reached(rels, leaving, entering, id, depth) ==
  LET round[k \in 0..depth] ==
        IF k = 0 THEN [seen |-> {id}, frontier |-> {id}]
        ELSE LET last == round[k - 1]
                 next == Around(rels, leaving, entering, last.frontier) \ last.seen
             IN  [seen |-> last.seen \cup next, frontier |-> next]
  IN  IF depth = 0 THEN {} ELSE round[depth].seen \ {id}

(* `found`: the nodes there are, by id. *)
NodesAt(g, S) == [n \in {m \in S : Has(g, m)} |-> nodes[g][n]]

(* Graph.neighbors. *)
Neighbors(g, id, depth) ==
  /\ UNCHANGED <<nodes, order, relations, status, recorded>>
  /\ outcome' = "ok"
  /\ answer' = NodesAt(g, Reached(relations[g], IndexOf(relations[g], "src"),
                                  IndexOf(relations[g], "tgt"), id, depth))

Next ==
  \E g \in Graphs :
    \/ \E n \in NodePool[g] : AddNode(g, n[1], n[2]) \/ InsertNode(g, n[1], n[2])
    \/ \E r \in RelationPool[g] : AddRelation(g, r)
    \/ \E K \in SUBSET DOMAIN relations[g] : RetainRelations(g, K)
    \/ DedupeStructuralRelations(g)
    \/ \E s \in Statuses : SetResolverStatus(g, s)
    \/ ForeignStatus(g)
    \/ \E h \in Graphs, allow_shared \in BOOLEAN : Merge(g, h, allow_shared)
    \/ \E min \in Thresholds : LinkBoundaries(g, min)
    \/ \E h \in Graphs, S \in SUBSET Ids : Subgraph(g, h, S)
    \/ \E end \in {"src", "tgt"}, id \in Ids : Edges(g, end, id)
    \/ \E id \in Ids, depth \in Depths : Neighbors(g, id, depth)

Spec == Init /\ [][Next]_storeVars

-------------------------------------------------------------------------------
(* Properties. *)

(* Shape of the state: maps keyed by id, relations over known ids, and     *)
(* only values the calls can store (the fields of Graph).                  *)
TypeOK ==
  /\ nodes \in [Graphs -> [Ids -> Contents \cup {Absent}]]
  /\ order \in [Graphs -> Seq(Ids)]
  /\ relations \in [Graphs -> Seq(Relations)]
  /\ status \in [Graphs -> StoredStatuses \cup {Unset}]
  /\ recorded \in [Graphs -> SUBSET StoredStatuses]
  /\ outcome \in {"ok", "duplicate"}

(* No sequence of merges and slices lets a graph look better resolved than *)
(* the worst analysis that contributed to it: "otherwise a degraded side   *)
(* would be silently masked" (graph.rs, merge).                            *)
StatusCoversRecorded ==
  \A g \in Graphs : \A s \in recorded[g] :
    status[g] # Unset /\ Severity(Coerce(s)) <= Severity(Coerce(status[g]))

(* A stored node is never overwritten or lost, and the insertion order     *)
(* (part of the serialized output) only grows at its end.                  *)
NodesPersist ==
  [][\A g \in Graphs :
       /\ \A id \in Ids : Has(g, id) => nodes'[g][id] = nodes[g][id]
       /\ \A i \in DOMAIN order[g] : i \in DOMAIN order'[g] /\ order'[g][i] = order[g][i]]_storeVars

(* A call that raises leaves every graph as it was (merge: "either the     *)
(* whole graph merges or nothing does").                                   *)
FailedCallChangesNothing ==
  [][outcome' # "ok" => UNCHANGED <<nodes, order, relations, status>>]_storeVars

(* A relation is lost only to retain_relations: every other call, and      *)
(* dedupe too, leaves at least one copy of each.                           *)
FactsPersist ==
  [][\A g \in Graphs :
       \/ Values(relations[g]) \subseteq Values(relations'[g])
       \/ /\ \E K \in SUBSET DOMAIN relations[g] : RetainRelations(g, K)
          /\ ~ DedupeStructuralRelations(g)]_storeVars

(* dedupe_structural_relations leaves one copy of a structural edge and    *)
(* every copy of an edge that records a use-site.                          *)
DedupeContract ==
  [][\A g \in Graphs : DedupeStructuralRelations(g) =>
       \A r \in Values(relations[g]) :
         Cardinality(Copies(relations'[g], r)) =
           IF Plain(r) THEN 1 ELSE Cardinality(Copies(relations[g], r))]_storeVars

(* The pairs a link_boundaries(min) call must leave linked. *)
Linkable(g, min) ==
  {LinkKey(LinkEdge(t[1], t[2], t[3])) : t \in
     {u \in Values(relations[g]) \X Values(relations[g]) \X Values(order[g]) :
        Pairs(u[1], u[2], u[3], min)}}

(* No pair of the same two services at b comes before positions c and p.   *)
IsFirstPair(rels, c, p, b, min) ==
  /\ Pairs(rels[c], rels[p], b, min)
  /\ \A d, q \in DOMAIN rels :
       /\ Pairs(rels[d], rels[q], b, min)
       /\ rels[d].src = rels[c].src /\ rels[q].src = rels[p].src
       => c < d \/ (c = d /\ p <= q)

(* link_boundaries keeps what is there, links exactly the pairs that are   *)
(* not linked yet, each once, and is idempotent: asking again, for the     *)
(* same threshold or a stricter one, finds nothing to add.  Where several  *)
(* edges qualify for one link, its confidence is that of the first         *)
(* consumer edge and, for that one, the first provider edge.               *)
LinkContract ==
  [][\A g \in Graphs, min \in Thresholds : LinkBoundaries(g, min) =>
       LET old == relations[g]
           new == {i \in DOMAIN relations'[g] : i > Len(old)}
           at(i) == relations'[g][i]
       IN  /\ \A i \in DOMAIN old : at(i) = old[i]
           /\ {LinkKey(at(i)) : i \in new} = Linkable(g, min) \ LinkedKeys(old)
           /\ \A i, j \in new : LinkKey(at(i)) = LinkKey(at(j)) => i = j
           /\ \A i \in new : \E c, p \in DOMAIN old :
                /\ IsFirstPair(old, c, p, at(i).via, min)
                /\ at(i) = LinkEdge(old[c], old[p], at(i).via)
           /\ \A stricter \in Thresholds :
                stricter >= min => (Chosen(g, stricter))' = {}]_storeVars

(* A slice keeps the edges incident to what was asked for, whole: an end   *)
(* dangles in the slice only where it dangles in the parent.               *)
SliceClosed ==
  [][\A g, h \in Graphs, S \in SUBSET Ids : Subgraph(g, h, S) =>
       /\ Values(relations'[h]) = {r \in Values(relations[g]) : Incident(r, S)}
       /\ \A r \in Values(relations'[h]) : \A id \in {r.src, r.tgt} :
            nodes'[h][id] = nodes[g][id]]_storeVars

(* neighbors answers with the nodes, and only those, that a walk of at     *)
(* most `depth` edges leads to, along edges of either direction and        *)
(* through ids the graph has no node for, the id asked about left out.     *)
NeighborsContract ==
  [][\A g \in Graphs, id \in Ids, depth \in Depths : Neighbors(g, id, depth) =>
       DOMAIN answer' =
         {n \in Ids \ {id} : Has(g, n) /\ \E walk \in [0..depth -> Ids] :
            /\ walk[0] = id /\ walk[depth] = n
            /\ \A k \in 1..depth :
                 \/ walk[k] = walk[k - 1]
                 \/ \E r \in Values(relations[g]) :
                      {r.src, r.tgt} = {walk[k - 1], walk[k]}}]_storeVars

(* The order of the relations and their copies are not what a graph says:  *)
(* every call is one of FactBase's, so that however adds, merges, links    *)
(* and slices follow one another, a graph says what it was told.           *)
Facts == [g \in Graphs |-> Values(relations[g])]
Base == INSTANCE FactBase WITH known <- nodes, facts <- Facts, trust <- status
ImplementsFacts == Base!BSpec
===============================================================================
