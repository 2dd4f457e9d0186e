----------------------------- MODULE SavedGraphs -----------------------------
(***************************************************************************)
(* Saved graphs and the commands of the callix binary that read and write  *)
(* them (crates/callix-cli, crates/callix-export/src/{model,ops}.rs).      *)
(* Several commands run at once over the same files and may be killed      *)
(* between any two steps.  `merge` here is a second implementation of      *)
(* Graph.merge, over the JSON model and without Python.                    *)
(***************************************************************************)
EXTENDS Integers, FiniteSets, SequencesExt, Positions, ResolverStatus

CONSTANTS
  Files,        (* paths                                                   *)
  Procs,        (* callix processes                                        *)
  Missing,      (* a path with no file                                     *)
  Torn,         (* a file whose text is not JSON: created, not yet flushed *)
  Rendered,     (* a file with an export or a report: no saved graph       *)
  NotString,    (* a saved status that is no JSON string: no analysis or   *)
                (* merge of callix writes one, but a file may hold it      *)
  StartDisks,   (* what the files may hold at first                        *)
  Jobs,         (* the command lines users give                            *)
  MaxCommands   (* bound on the commands started                           *)

ASSUME UnsetAssumption == {Unset, NotString} \cap StoredStatuses = {} /\ NotString # Unset

VARIABLES
  disk,      (* disk[f]: Missing, Torn, Rendered or the graph in the file  *)
  job,       (* job[p]: the command line p runs                            *)
  pc,        (* pc[p]: idle, reading, writing, done or failed              *)
  taken,     (* taken[p]: the graphs p has read, in order                  *)
  acc,       (* acc[p]: `merged`, what merge has put together so far       *)
  delta,     (* delta[p]: the Diff that ops::diff has returned             *)
  started    (* how many commands were started                             *)

vars == <<disk, job, pc, taken, acc, delta, started>>

-------------------------------------------------------------------------------
(* Graphs on disk: nodes as <<id, content>> in order, relations in order,  *)
(* the metadata's status, whether schema, kinds and spans are ones this    *)
(* version knows, and (history) the statuses of the analyses behind it.    *)

EmptyGraph == [nodes |-> <<>>, rels |-> <<>>, status |-> Unset, known |-> TRUE, recorded |-> {}]
NoDelta == [added |-> {}, removed |-> {}, changed |-> {}, addedRels |-> {}, removedRels |-> {}]

IdsOf(nodes) == {nodes[i][1] : i \in DOMAIN nodes}
NodeOf(nodes, id) == nodes[CHOOSE i \in DOMAIN nodes : nodes[i][1] = id]

(* Graph::from_json: the text parses, the schema and every kind are known, *)
(* and no node id comes twice (push_node).                                 *)
Readable(file) ==
  /\ file \notin {Missing, Torn, Rendered}
  /\ file.known
  /\ Cardinality(IdsOf(file.nodes)) = Len(file.nodes)

(* What ok may stand for: an analysis was ok, and every other was too,     *)
(* unless a status that is no string was merged in.                        *)
Honest(recorded) == "ok" \in recorded /\ (NotString \in recorded \/ recorded = {"ok"})

(* What a graph in a file may be held to: it was saved with a status,      *)
(* with some other value in its place, or with none, built by hand.        *)
Sound(graph) ==
  /\ graph.status \in StoredStatuses \cup {Unset, NotString}
  /\ graph.status = "ok" => Honest(graph.recorded)
  /\ graph.status = NotString => NotString \in graph.recorded
  /\ graph.status = Unset => graph.recorded = {}

(* Nodes and relations are JSON arrays.                                    *)
Listed(graph) ==
  graph.nodes \in Seq(ToSet(graph.nodes)) /\ graph.rels \in Seq(ToSet(graph.rels))

(* A saved status is a JSON string or some other value; resolver_status()  *)
(* sees only strings (Value::as_str).                                      *)
IsString(s) == s \notin {Unset, NotString}

(* Mutant: the metadata loop alone, without the worst-of correction. *)
SavedStatusCopied(mine, theirs) == IF theirs # Unset THEN theirs ELSE mine

(* The resolver_status of `merged` after other's metadata is copied in.    *)
SavedStatus(mine, theirs) ==
  IF IsString(mine) /\ IsString(theirs)
  THEN IF Severity(mine) >= Severity(theirs) THEN mine ELSE theirs
  ELSE IF theirs # Unset THEN theirs ELSE mine

(* What stops a merge: an id on both sides, unless sharing is allowed and  *)
(* the two nodes are the same.                                             *)
Collides(mine, theirs, disjoint) ==
  \E id \in IdsOf(mine.nodes) \cap IdsOf(theirs.nodes) :
    disjoint \/ NodeOf(mine.nodes, id) # NodeOf(theirs.nodes, id)

(* Mutant: only nodes are looked at one way round, so a shared node is     *)
(* pushed again.                                                           *)
MergedPushingAll(mine, theirs) ==
  [mine EXCEPT !.nodes = @ \o theirs.nodes, !.rels = @ \o theirs.rels,
               !.status = SavedStatus(@, theirs.status), !.recorded = @ \cup theirs.recorded]

Merged(mine, theirs) ==
  [nodes |-> mine.nodes \o Pick(theirs.nodes, {i \in DOMAIN theirs.nodes :
                                                theirs.nodes[i][1] \notin IdsOf(mine.nodes)}),
   rels |-> mine.rels \o theirs.rels,
   status |-> SavedStatus(mine.status, theirs.status),
   known |-> TRUE,
   recorded |-> mine.recorded \cup theirs.recorded]

(* Mutant: changed nodes are looked up among the removed ones. *)
DiffMissingChanges(old, new) ==
  LET gone == ToSet(old.nodes) \ ToSet(new.nodes)
  IN  [added |-> {n \in ToSet(new.nodes) : n[1] \notin IdsOf(old.nodes)},
       removed |-> {n \in gone : n[1] \notin IdsOf(new.nodes)},
       changed |-> {},
       addedRels |-> ToSet(new.rels) \ ToSet(old.rels),
       removedRels |-> ToSet(old.rels) \ ToSet(new.rels)]

(* ops::diff.  Relations are keyed by endpoints, kind and metadata in a    *)
(* map, so how often an edge occurs is not compared.                       *)
Diff(old, new) ==
  LET gone == ToSet(old.nodes) \ ToSet(new.nodes)
      come == ToSet(new.nodes) \ ToSet(old.nodes)
  IN  [added |-> {n \in come : n[1] \notin IdsOf(old.nodes)},
       removed |-> {n \in gone : n[1] \notin IdsOf(new.nodes)},
       changed |-> {c \in gone \X come : c[1][1] = c[2][1]},
       addedRels |-> ToSet(new.rels) \ ToSet(old.rels),
       removedRels |-> ToSet(old.rels) \ ToSet(new.rels)]

-------------------------------------------------------------------------------
(* A command: "merge" inputs into out, "diff" of two, or "export" or       *)
(* "report" of one, perhaps with --strict; out is Missing for stdout.      *)

SoundDisks(disks) ==
  \A d \in disks :
    /\ d = [f \in Files |-> d[f]]
    /\ \A f \in Files : d[f] \in {Missing, Torn, Rendered} \/ (Sound(d[f]) /\ Listed(d[f]))
ASSUME DiskAssumption == SoundDisks(StartDisks)
ASSUME JobAssumption ==
  /\ Jobs # {}
  /\ \A j \in Jobs :
       /\ j.inputs \in Seq(Files) /\ j.inputs # <<>> /\ j.strict \in BOOLEAN
       /\ j.command = "diff" => Len(j.inputs) = 2

Init ==
  /\ disk \in StartDisks
  /\ job \in [Procs -> {CHOOSE j \in Jobs : TRUE}]
  /\ pc = [p \in Procs |-> "idle"]
  /\ taken = [p \in Procs |-> <<>>]
  /\ acc = [p \in Procs |-> EmptyGraph]
  /\ delta = [p \in Procs |-> NoDelta]
  /\ started = 0

Start(p, j) ==
  /\ pc[p] \in {"idle", "done", "failed"}
  /\ started < MaxCommands
  /\ started' = started + 1
  /\ job' = [job EXCEPT ![p] = j]
  /\ pc' = [pc EXCEPT ![p] = "reading"]
  /\ taken' = [taken EXCEPT ![p] = <<>>]
  /\ acc' = [acc EXCEPT ![p] = EmptyGraph]
  /\ delta' = [delta EXCEPT ![p] = NoDelta]
  /\ UNCHANGED disk

Fail(p) ==
  /\ pc' = [pc EXCEPT ![p] = "failed"]
  /\ UNCHANGED <<disk, job, taken, acc, delta, started>>

AllRead(p) == Len(taken[p]) = Len(job[p].inputs)
NextFile(p) == disk[job[p].inputs[Len(taken[p]) + 1]]

(* Mutant: only a resolver that did not run at all is refused. *)
RefusesUnavailable(j, graph) == j.strict /\ graph.status = "unavailable"

(* load with --strict accepts a saved graph only when its status is ok. *)
StrictRefuses(j, graph) == j.strict /\ graph.status # "ok"

(* read_graph fails, --strict refuses the graph, or it does not merge: the *)
(* command ends with an error and nothing is written.                      *)
ReadFails(p) ==
  /\ pc[p] = "reading" /\ ~ AllRead(p)
  /\ \/ ~ Readable(NextFile(p))
     \/ /\ Readable(NextFile(p))
        /\ \/ StrictRefuses(job[p], NextFile(p))
           \/ /\ job[p].command = "merge" /\ taken[p] # <<>>
              /\ Collides(acc[p], NextFile(p), job[p].disjoint)
  /\ Fail(p)

(* read_graph, and merge into the first graph read.                        *)
Read(p) ==
  /\ pc[p] = "reading" /\ ~ AllRead(p)
  /\ Readable(NextFile(p)) /\ ~ StrictRefuses(job[p], NextFile(p))
  /\ IF job[p].command # "merge" THEN UNCHANGED acc
     ELSE IF taken[p] = <<>> THEN acc' = [acc EXCEPT ![p] = NextFile(p)]
     ELSE /\ ~ Collides(acc[p], NextFile(p), job[p].disjoint)
          /\ acc' = [acc EXCEPT ![p] = Merged(@, NextFile(p))]
  /\ taken' = [taken EXCEPT ![p] = Append(@, NextFile(p))]
  /\ UNCHANGED <<disk, job, pc, delta, started>>

(* Mutant: the output is opened before the last input is read. *)
CreateEarly(p) ==
  /\ pc[p] = "reading" /\ job[p].command = "merge" /\ Len(taken[p]) >= 1
  /\ disk' = [disk EXCEPT ![job[p].out] = Torn]
  /\ pc' = [pc EXCEPT ![p] = IF AllRead(p) THEN "writing" ELSE @]
  /\ UNCHANGED <<job, taken, acc, delta, started>>

(* input::output: File::create truncates what was there. *)
CreateOutput(p) ==
  /\ pc[p] = "reading" /\ AllRead(p) /\ job[p].command # "diff"
  /\ disk' = [f \in Files |-> IF f = job[p].out THEN Torn ELSE disk[f]]
  /\ pc' = [pc EXCEPT ![p] = "writing"]
  /\ UNCHANGED <<job, taken, acc, delta, started>>

(* write_json, or the exporter or renderer, and flush.  When another       *)
(* process has written the file since, its bytes may stick out behind      *)
(* ours.  export --deny-warnings may fail with its file already written.   *)
Flush(p) ==
  /\ pc[p] = "writing"
  /\ \E text \in {IF job[p].command = "merge" THEN acc[p] ELSE Rendered} \cup {Torn} :
       /\ text = Torn => job[p].out \in Files /\ disk[job[p].out] # Torn
       /\ disk' = [f \in Files |-> IF f = job[p].out THEN text ELSE disk[f]]
  /\ \E end \in {"done"} \cup (IF job[p].command = "export" THEN {"failed"} ELSE {}) :
       pc' = [pc EXCEPT ![p] = end]
  /\ UNCHANGED <<job, taken, acc, delta, started>>

(* ops::diff.  What is printed of it is less: ids, kinds and names, of a   *)
(* change the node as it became, of a relation its ends and its kind.      *)
RunDiff(p) ==
  /\ pc[p] = "reading" /\ AllRead(p) /\ job[p].command = "diff"
  /\ delta' = [delta EXCEPT ![p] = Diff(taken[p][1], taken[p][2])]
  /\ pc' = [pc EXCEPT ![p] = "done"]
  /\ UNCHANGED <<disk, job, taken, acc, started>>

(* The process is killed; its files stay as they are. *)
Kill(p) ==
  /\ pc[p] \in {"reading", "writing"}
  /\ pc' = [pc EXCEPT ![p] = "idle"]
  /\ UNCHANGED <<disk, job, taken, acc, delta, started>>

Next ==
  \E p \in Procs :
    \/ \E j \in Jobs : Start(p, j)
    \/ ReadFails(p) \/ Read(p)
    \/ CreateOutput(p) \/ Flush(p)
    \/ RunDiff(p)
    \/ Kill(p)

Spec == Init /\ [][Next]_vars

-------------------------------------------------------------------------------
(* Properties. *)

(* What merge holds is what it has read, at every step: each node of each  *)
(* input once, with the content every input agrees on, and the relations   *)
(* of all inputs in order (ops.rs: "relations are appended without         *)
(* deduplication").                                                        *)
MergeHoldsItsInputs ==
  \A p \in Procs : job[p].command = "merge" =>
    /\ ToSet(acc[p].nodes) = UNION {ToSet(taken[p][i].nodes) : i \in DOMAIN taken[p]}
    /\ Cardinality(IdsOf(acc[p].nodes)) = Len(acc[p].nodes)
    /\ acc[p].rels = FlattenSeq([i \in DOMAIN taken[p] |-> taken[p][i].rels])

(* --strict renders a saved graph only when every analysis in it resolved  *)
(* completely, through whatever chain of merges it was made.  One thing    *)
(* gets past it, and nothing else: a status that is no string, merged in   *)
(* on the way, is overwritten by the next ok and takes with it whatever    *)
(* it had itself overwritten (Graph.merge counts it as unavailable).       *)
StrictIsSound ==
  \A p \in Procs : job[p].strict /\ pc[p] \in {"writing", "done"} =>
    Honest(taken[p][1].recorded)

(* Undoing the Diff that ops::diff returns, whole nodes and relations,     *)
(* turns the new graph back into the old one; an empty one, which is what  *)
(* the exit status tells, means the same nodes and set of relations.       *)
DiffReconstructs ==
  \A p \in Procs : job[p].command = "diff" /\ pc[p] = "done" =>
    LET old == taken[p][1]
        new == taken[p][2]
        d == delta[p]
    IN  /\ ToSet(old.nodes) =
             ((ToSet(new.nodes) \ d.added) \ {c[2] : c \in d.changed})
               \cup d.removed \cup {c[1] : c \in d.changed}
        /\ ToSet(old.rels) = (ToSet(new.rels) \ d.addedRels) \cup d.removedRels
===============================================================================
