----------------------------- MODULE AnalyzeTree -----------------------------
(***************************************************************************)
(* `callix analyze DIR`: one adapter after another over a tree, their      *)
(* graphs merged into the first (analyze_tree in src/src/native.rs), then  *)
(* the rules on failed and weak languages (report_analysis in              *)
(* crates/callix-cli/src/input.rs).                                        *)
(***************************************************************************)
EXTENDS Integers, SequencesExt, ResolverStatus

CONSTANTS
  ALL,        (* the languages that have an adapter, in merge order        *)
  Graphs,     (* graphs an adapter may return: nodes (id -> content),      *)
              (* status, and queries: one of its resolver_metrics counters *)
  Requests    (* what --lang may name: sequences, empty for detection      *)

VARIABLES
  requested, strict,   (* the command line                                 *)
  todo,                (* languages still to analyse                       *)
  reports,             (* [language, status, error] of those analysed      *)
  counters,            (* the metric counters collected                    *)
  merged,              (* the graph so far; Unset when there is none       *)
  got,                 (* history: what each language's adapter returned   *)
  outcome              (* running, failed, refused or written              *)

vars == <<requested, strict, todo, reports, counters, merged, got, outcome>>

-------------------------------------------------------------------------------
Report(language, status, error) == [language |-> language, status |-> status, error |-> error]

Collide(mine, theirs) ==
  \E id \in DOMAIN mine.nodes \cap DOMAIN theirs.nodes : mine.nodes[id] # theirs.nodes[id]

Union(f, g) == [id \in DOMAIN f \cup DOMAIN g |-> IF id \in DOMAIN f THEN f[id] ELSE g[id]]

(* Graph.merge of graphs that do not collide.  Of the metadata the status  *)
(* merges to the worst; any other key is the incoming one's.               *)
MergedGraph(mine, theirs) ==
  [nodes |-> Union(mine.nodes, theirs.nodes),
   status |-> MergedStatus(mine.status, theirs.status),
   queries |-> theirs.queries]

-------------------------------------------------------------------------------
(* detect() lists the languages it finds in the order of ALL.              *)
InOrder(n) == {at \in [1..n -> DOMAIN ALL] : \A i, j \in 1..n : i < j => at[i] < at[j]}
Detectable == UNION {{[k \in 1..n |-> ALL[at[k]]] : at \in InOrder(n)} : n \in 0..Len(ALL)}

(* An empty --lang stands for the languages detected.                      *)
Init ==
  /\ requested \in Requests
  /\ strict \in BOOLEAN
  /\ todo \in IF requested = <<>> THEN Detectable ELSE {requested}
  /\ reports = <<>> /\ counters = <<>>
  /\ merged = Unset /\ got = <<>>
  /\ outcome = "running"

(* The adapter cannot be made, or its analysis raises. *)
AnalyzeFails ==
  /\ outcome = "running" /\ todo # <<>>
  /\ reports' = Append(reports, Report(Head(todo), Unset, "analysis"))
  /\ todo' = Tail(todo)
  /\ UNCHANGED <<requested, strict, counters, merged, got, outcome>>

(* Mutant: the status is merged before the nodes are looked at. *)
MergeIntoLate(g) ==
  IF merged = Unset THEN merged' = g
  ELSE IF Collide(merged, g)
  THEN merged' = [merged EXCEPT !.status = MergedStatus(@, g.status)]
  ELSE merged' = MergedGraph(merged, g)

(* The first graph is the base; a collision leaves it as it was. *)
MergeInto(g) ==
  IF merged = Unset THEN merged' = g
  ELSE IF Collide(merged, g) THEN UNCHANGED merged
  ELSE merged' = MergedGraph(merged, g)

(* Every adapter leaves counters; they are taken before the merge is tried. *)
Analyze(g) ==
  /\ outcome = "running" /\ todo # <<>>
  /\ counters' = Append(counters, g.queries)
  /\ MergeInto(g)
  /\ reports' = Append(reports, Report(Head(todo), g.status,
       IF merged # Unset /\ Collide(merged, g) THEN "collision" ELSE Unset))
  /\ got' = Append(got, [language |-> Head(todo), graph |-> g])
  /\ todo' = Tail(todo)
  /\ UNCHANGED <<requested, strict, outcome>>

(* Mutant: the merged graph keeps what the last language left. *)
SummedLast(g) == g

(* set_summed_metrics. *)
Summed(g) ==
  IF Len(counters) > 1 THEN [g EXCEPT !.queries = FoldLeft(LAMBDA n, count : n + count, 0, counters)]
  ELSE g

Failed(r) == r.error # Unset

(* Mutant: only what was detected may fail. *)
RefusedLoosely == \E r \in ToSet(reports) : Failed(r) /\ requested = <<>>

(* A failed language is an error when it was asked for by name. *)
RequestedFailed == \E r \in ToSet(reports) : Failed(r) /\ r.language \in ToSet(requested)

(* What --strict holds against the run. *)
Weak == \E r \in ToSet(reports) : ~ Failed(r) /\ r.status # "ok"

(* report_analysis, and writing the graph when it passes. *)
Finish ==
  /\ outcome = "running" /\ todo = <<>>
  /\ merged' = IF merged = Unset THEN Unset ELSE Summed(merged)
  /\ outcome' = CASE merged = Unset \/ RequestedFailed -> "failed"
                  [] merged # Unset /\ ~ RequestedFailed /\ strict /\ Weak -> "refused"
                  [] OTHER -> "written"
  /\ UNCHANGED <<requested, strict, todo, reports, counters, got>>

Next == AnalyzeFails \/ (\E g \in Graphs : Analyze(g)) \/ Finish

Spec == Init /\ [][Next]_vars

-------------------------------------------------------------------------------
(* Properties. *)

Contributed == {i \in DOMAIN got : ~ \E r \in ToSet(reports) :
                                      r.language = got[i].language /\ Failed(r)}

(* --strict on a directory and --strict on the graph saved from it are one *)
(* rule: what is refused would be refused when read back, what is written  *)
(* would pass, although one looks at the reports and the other at the      *)
(* merged metadata.                                                        *)
StrictAgreesWithSaved ==
  /\ outcome = "refused" => merged.status # "ok"
  /\ outcome = "written" /\ strict => merged.status = "ok"

(* A language named with --lang is in the graph that is written, all of    *)
(* it, and every node written comes from a language reported as analysed:  *)
(* nothing of a graph that collided is left behind.                        *)
RequestedAreThere ==
  outcome = "written" =>
    /\ \A l \in ToSet(requested) : \E i \in Contributed : got[i].language = l
    /\ DOMAIN merged.nodes = UNION {DOMAIN got[i].graph.nodes : i \in Contributed}
    /\ \A i \in Contributed : \A id \in DOMAIN got[i].graph.nodes :
         merged.nodes[id] = got[i].graph.nodes[id]

(* resolver_metrics are the sums over the languages in the graph, although *)
(* every merge leaves those of the graph merged last.  This is said of     *)
(* runs in which no graph was refused: the counters of one that collided   *)
(* stay in the sums while its nodes are left out.                          *)
MetricsAreSums ==
  outcome = "written" /\ Contributed = DOMAIN got =>
    merged.queries = FoldLeft(LAMBDA n, x : n + x.graph.queries, 0, got)

(* "Exit 3 unless every language resolved fully" (website/docs/guides/     *)
(* cli.md): a graph written under --strict has every language of the tree. *)
StrictIsEveryLanguage ==
  outcome = "written" /\ strict =>
    \A r \in ToSet(reports) : ~ Failed(r) /\ r.status = "ok"
===============================================================================
