------------------------------- MODULE Extraction -------------------------------
(***************************************************************************)
(* What the visitors of all languages write: the nodes and edges of a      *)
(* graph, and the notes (OccurrenceRef of src/src/resolution.rs) the       *)
(* resolver is asked about afterwards.                                     *)
(*                                                                         *)
(* A graph g is a record of at least its nodes, its edges and its notes; a *)
(* visit takes it to the graph after it.  A node has the file and the      *)
(* position of its name, the token whose extent it has, and the further    *)
(* positions of its file that declare it.                                  *)
(***************************************************************************)
EXTENDS SyntaxTree, Folds, TLC

VARIABLE here   (* the file that is visited, a record with a field `file`   *)

Id(kind, qname) == <<kind, qname>>
FileId == Id("FILE", <<here.file>>)

Edge(src, kind, tgt, at) ==
  [src |-> src, kind |-> kind, tgt |-> tgt, at |-> at, how |-> "structure"]
Node(file, at, span) == [file |-> file, at |-> at, span |-> span, also |-> {}]

(* What is asked: the role a name plays at a position, of which            *)
(* declaration, what its tag says of the construct around it, and the call *)
(* it is an argument of.                                                   *)
Note(role, at, enc, tag, of) ==
  [role |-> role, file |-> here.file, at |-> at, enc |-> enc, tag |-> tag, of |-> of]
Noted(role, S, e, tag) ==
  LET tokens == InOrder(S) IN [i \in DOMAIN tokens |-> Note(role, tokens[i], e, tag, 0)]

Noting(g, notes) == [g EXCEPT !.notes = @ \o notes]
Linking(g, src, kind, tgt) == [g EXCEPT !.edges = Append(@, Edge(src, kind, tgt, <<>>))]
Inserted(g, id, at, span) == [g EXCEPT !.nodes = @ @@ (id :> Node(here.file, at, span))]
External(g, id) ==
  IF id \in DOMAIN g.nodes THEN g ELSE [g EXCEPT !.nodes = @ @@ (id :> Node("", 0, 0))]
===============================================================================
