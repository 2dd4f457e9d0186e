------------------------------- MODULE Resolution -------------------------------
(***************************************************************************)
(* What the adapters' passes over the notes share: the resolver that       *)
(* answers, and how an answer becomes an edge, a fact for the flow pass or *)
(* a counter (src/src/resolution.rs, src/src/span_index.rs).               *)
(*                                                                         *)
(* The resolver knows what each name stands for, the label of its token,   *)
(* and answers with the positions of the declarations that carry the       *)
(* label.                                                                  *)
(***************************************************************************)
EXTENDS Extraction

VARIABLES
  program,  (* the files: [path, tree, ...], in walk order                 *)
  stage,    (* "files", "resolve", "done"                                  *)
  at,       (* the file, and then the note, the adapter is at              *)
  cursor,   (* the last declaration of the file visited, 0 before any      *)
  graph,    (* [nodes, edges, notes, ...]                                  *)
  facts,    (* what the flow pass has been told                            *)
  metrics   (* ResolverMetrics                                             *)

vars == <<tree, here, program, stage, at, cursor, graph, facts, metrics>>

Counters == {"queries", "resolved", "unresolved", "internal", "external", "to_value", "unlocated"}
Bump(m, names) == [c \in Counters |-> m[c] + IF c \in names THEN 1 ELSE 0]

(* Nothing is visited; `rest` is what the language keeps besides.          *)
Started(project, rest) ==
  /\ stage = "files" /\ at = 1 /\ cursor = 0
  /\ tree = <<>> /\ here = <<>>
  /\ graph = [nodes |-> (project :> Node("", 0, 0)), edges |-> <<>>, notes |-> <<>>] @@ rest
  /\ facts = {} /\ metrics = [c \in Counters |-> 0]

FileAt(path) == program[CHOOSE i \in DOMAIN program : program[i].path = path]
TokenAt(file, n) == FileAt(file).tree[n]
DeclaringPositions(label) ==
  UNION {{<<program[i].path, n>> : n \in {m \in DOMAIN program[i].tree :
            program[i].tree[m].decl /\ program[i].tree[m].den = label}} : i \in DOMAIN program}

(* A position of the project, or a name outside it.                        *)
Answer(note) ==
  LET label == TokenAt(note.file, note.at).den
      where == DeclaringPositions(label)
  IN  [known |-> label # "", name |-> label, where |-> where,
       origin |-> IF where = {} THEN "stdlib" ELSE "internal"]

(* SpanIndex::lookup_name: the nodes whose name is at the position.  A     *)
(* module at the start of its file is not indexed: it would win over a     *)
(* name that is there.                                                     *)
NodesAt(where) ==
  {id \in DOMAIN graph.nodes :
     LET n == graph.nodes[id]
     IN  ~ (id[1] = "MODULE" /\ n.at = Root) /\ \E p \in {n.at} \cup n.also : <<n.file, p>> \in where}

Holders == {"VARIABLE", "PARAMETER", "ATTRIBUTE"}
Classify(kind, bound, origin) ==
  IF bound = {} THEN IF origin \in {"stdlib", "third_party"} THEN "external" ELSE "unlocated"
  ELSE IF kind # "CALLS" THEN "definition"
  ELSE LET b == The(bound)[1]
       IN  CASE b \in Holders -> "value"
             [] b \in {"IMPORT", "MODULE", "FILE", "TYPE_ALIAS"} -> "unlocated"
             [] OTHER -> "definition"

KindOfRole == [call |-> "CALLS", base |-> "INHERITS_FROM", annotation |-> "HAS_TYPE",
               read |-> "REFERENCES", write |-> "REFERENCES"]

Written(g, note, kind, target, how) ==
  [External(g, target) EXCEPT !.edges = Append(@,
    [src |-> note.enc, kind |-> kind, tgt |-> target, at |-> <<note.file, note.at>>, how |-> how])]
Writes(note, kind, target, how) == graph' = Written(graph, note, kind, target, how)

Learns(what, note, ids) ==
  facts' = facts \cup {[fact |-> what, holder |-> note.enc, held |-> id, at |-> <<note.file, note.at>>] : id \in ids}

Drops(counters) == metrics' = Bump(metrics, counters) /\ UNCHANGED <<graph, facts>>

Finish ==
  /\ stage = "resolve" /\ at > Len(graph.notes)
  /\ stage' = "done"
  /\ UNCHANGED <<tree, here, program, at, cursor, graph, facts, metrics>>
===============================================================================
