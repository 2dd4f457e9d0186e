------------------------------ MODULE CommandLine ------------------------------
(***************************************************************************)
(* A script of the callix binary (crates/callix-cli/src/commands.rs):      *)
(* `callix analyze DIR -o FILE`, and the commands that read the file it    *)
(* leaves, some of them while it is being written.  AnalyzeTree is the     *)
(* analysis, SavedGraphs the other commands.                               *)
(***************************************************************************)
EXTENDS SavedGraphs

CONSTANTS
  ALL, Graphs, Requests,
  AnalysisFile,  (* FILE                                                   *)
  FreshDisks,    (* what the files may hold before languages are analysed  *)
  MaxAfter       (* bound on the commands that follow such an analysis     *)

ASSUME AnalysisFileAssumption == AnalysisFile \in Files

(* An adapter returns a graph with a status and a count; a language is analysed once   *)
(* (parse_languages drops what --lang repeats).                            *)
GraphRecords ==
  LET ids == UNION {DOMAIN g.nodes : g \in Graphs}
      contents == UNION {{g.nodes[id] : id \in DOMAIN g.nodes} : g \in Graphs}
  IN  [nodes : UNION {[D -> contents] : D \in SUBSET ids}, status : Statuses,
       queries : {g.queries : g \in Graphs}]
ASSUME GraphAssumption ==
  /\ Graphs \subseteq GraphRecords
  /\ \A g \in Graphs : IsFiniteSet(DOMAIN g.nodes) /\ g.queries \in Nat
  /\ Unset \notin GraphRecords /\ Unset \notin {"analysis", "collision"}
ASSUME RequestAssumption ==
  \A s \in Requests \cup {ALL} : s \in Seq(ToSet(s)) /\ IsInjective(s)

VARIABLES
  requested, strict, todo, reports, counters, merged, got, outcome,
  output         (* the analysis has not opened its file, opened or left it*)

A == INSTANCE AnalyzeTree

analysisVars == <<requested, strict, todo, reports, counters, merged, got, outcome>>

scriptVars == <<vars, analysisVars, output>>

-------------------------------------------------------------------------------
(* No language found: the analysis fails and the files are as they were.   *)
ScriptInit ==
  /\ Init /\ A!Init
  /\ todo # <<>> => disk \in FreshDisks
  /\ output = "unopened"

Analyse ==
  /\ A!Next
  /\ UNCHANGED <<vars, output>>

(* The graph as it is written.  Its statuses are those of the graphs in it.*)
Written ==
  [nodes |-> SetToSeq({<<id, merged.nodes[id]>> : id \in DOMAIN merged.nodes}), rels |-> <<>>,
   status |-> merged.status, known |-> TRUE,
   recorded |-> {got[i].graph.status : i \in A!Contributed}]

(* Mutant: the graph is written before the rules have passed. *)
OpenFileFirst ==
  /\ output = "unopened" /\ outcome # "running"
  /\ disk' = [disk EXCEPT ![AnalysisFile] = Torn]
  /\ output' = "opened"
  /\ UNCHANGED <<job, pc, taken, acc, delta, started, analysisVars>>

(* input::output, once report_analysis has passed. *)
OpenFile ==
  /\ output = "unopened" /\ outcome = "written"
  /\ disk' = [disk EXCEPT ![AnalysisFile] = Torn]
  /\ output' = "opened"
  /\ UNCHANGED <<job, pc, taken, acc, delta, started, analysisVars>>

(* Like Flush: over what another process wrote there, the text may tear.   *)
WriteFile ==
  /\ output = "opened"
  /\ \E text \in {Written} \cup (IF disk[AnalysisFile] = Torn THEN {} ELSE {Torn}) :
       disk' = [disk EXCEPT ![AnalysisFile] = text]
  /\ output' = "left"
  /\ UNCHANGED <<job, pc, taken, acc, delta, started, analysisVars>>

KillAnalysis ==
  /\ output = "opened"
  /\ output' = "left"
  /\ UNCHANGED <<vars, analysisVars>>

(* The other commands, once the analysis has judged its languages.  After  *)
(* one that failed the files are as they were, so only the script that     *)
(* finds no language at all goes on.                                       *)
Command ==
  /\ outcome = "written" \/ (outcome = "failed" /\ reports = <<>>)
  /\ Next
  /\ reports # <<>> => started' <= MaxAfter
  /\ UNCHANGED <<analysisVars, output>>

ScriptNext == Analyse \/ OpenFile \/ WriteFile \/ KillAnalysis \/ Command

ScriptSpec == ScriptInit /\ [][ScriptNext]_scriptVars

-------------------------------------------------------------------------------
(* Properties.  Those of the parts hold of the script. *)

(* --strict on a directory and on the graph saved from it are one rule.    *)
StrictAgreesWithSaved == A!StrictAgreesWithSaved

(* A language named with --lang is in the graph that is written.           *)
RequestedAreThere == A!RequestedAreThere

(* When no graph is refused, resolver_metrics are the sums over them all.  *)
MetricsAreSums == A!MetricsAreSums

(* "Exit 3 unless every language resolved fully" (website/docs/guides/     *)
(* cli.md): a graph written under --strict has every language of the tree. *)
StrictIsEveryLanguage == A!StrictIsEveryLanguage

(* A file changes only at the hand of a command that names it as output    *)
(* and has read, judged and merged every input, or of an analysis that     *)
(* passed all its rules: a command that fails late, or is given its own    *)
(* input as output, destroys nothing.                                      *)
OutputOnlyAfterSuccess ==
  [][\A f \in Files : disk'[f] # disk[f] =>
       \/ f = AnalysisFile /\ outcome = "written"
       \/ \E p \in Procs : /\ job[p].out = f /\ pc[p] # pc'[p]
                           /\ pc'[p] \in {"writing", "done", "failed"}
                           /\ Len(taken[p]) = Len(job[p].inputs)
                           /\ job[p].strict => taken[p][1].status = "ok"]_scriptVars
===============================================================================
