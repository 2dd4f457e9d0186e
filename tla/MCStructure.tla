----------------------------- MODULE MCStructure -----------------------------
(***************************************************************************)
(* What a graph has to say of a program, whatever the language, and the    *)
(* programs TLC is given, one language after the other: the adapters'      *)
(* visitors and resolution passes are checked against it.                  *)
(*                                                                         *)
(* A program is a sequence of files with their trees; a graph is a record  *)
(* of nodes and edges.  An edge that comes from a use of a name carries    *)
(* the position of the name; the label of its token says what the name     *)
(* stands for, and the token that declares the label where that is.        *)
(***************************************************************************)
EXTENDS Integers, Sequences, FiniteSets, TLC

Paths(program) == {program[i].path : i \in DOMAIN program}
FileOf(program, path) == program[CHOOSE i \in DOMAIN program : program[i].path = path]
Positions(program) ==
  UNION {{<<program[i].path, n>> : n \in DOMAIN program[i].tree} : i \in DOMAIN program}
TokenAtPosition(program, p) == FileOf(program, p[1]).tree[p[2]]

DeclaresAt(program, path, at, label) ==
  LET t == FileOf(program, path).tree
  IN  at \in DOMAIN t /\ t[at].decl /\ t[at].den = label

(* The nodes a label stands for. *)
NodesOf(program, graph, label) ==
  {id \in DOMAIN graph.nodes :
     LET n == graph.nodes[id]
     IN  n.file # "" /\ \E at \in {n.at} \cup n.also : DeclaresAt(program, n.file, at, label)}

UseEdges(graph) == {i \in DOMAIN graph.edges : graph.edges[i].how # "structure"}

(* Every edge of a use points at what the name there stands for: a node   *)
(* that declares it, the module it names, or, when the graph has neither,  *)
(* a symbol outside; never at another declaration.  `modules` gives the    *)
(* labels of modules their nodes.                                          *)
PointsAtMeaning(program, graph, modules) ==
  \A i \in UseEdges(graph) :
    LET e == graph.edges[i]
        label == TokenAtPosition(program, e.at).den
        meant == NodesOf(program, graph, label)
    IN  IF label \in DOMAIN modules /\ modules[label] \in DOMAIN graph.nodes
        THEN e.tgt = modules[label]
        ELSE IF meant = {} THEN e.tgt[1] = "EXTERNAL_SYMBOL" ELSE e.tgt \in meant

(* A use is written once: no two edges of one source say the same of one   *)
(* position, but for the positions a language's walks are known to repeat. *)
(* What a macro's body does is said at each of its invocations.            *)
SaidOnce(graph, Repeated(_)) ==
  \A i, j \in {k \in UseEdges(graph) : graph.edges[k].how # "macro body" /\ ~ Repeated(graph.edges[k].at)} :
    (i # j /\ graph.edges[i].at = graph.edges[j].at) => graph.edges[i].src # graph.edges[j].src

(* The nodes, of those that can own a use, whose extent a position is in,  *)
(* and the innermost of them.                                              *)
Extent(program, graph, id) ==
  LET n == graph.nodes[id]
  IN  IF n.span = 0 THEN {} ELSE n.span..FileOf(program, n.file).tree[n.span].end
Owning(program, graph, owners, p) ==
  {id \in owners : graph.nodes[id].file = p[1] /\ p[2] \in Extent(program, graph, id)}
Innermost(program, graph, owners, p) ==
  LET around == Owning(program, graph, owners, p)
  IN  {id \in around : \A o \in around : graph.nodes[o].span <= graph.nodes[id].span}

(* An edge starts at the innermost declaration around its position, of     *)
(* those that own uses of its kind.                                        *)
StartsAtOwner(program, graph, Owners(_)) ==
  \A i \in UseEdges(graph) :
    LET e == graph.edges[i]
        inner == Innermost(program, graph, Owners(e), e.at)
    IN  inner # {} => e.src \in inner

(* Every use of a name that stands for one of the targets is an edge, but  *)
(* for the uses a language leaves out.                                     *)
NothingUnsaid(program, graph, targets, Unread(_)) ==
  \A p \in Positions(program) :
    LET t == TokenAtPosition(program, p)
    IN  (t.den # "" /\ ~ t.decl /\ NodesOf(program, graph, t.den) \cap targets # {} /\ ~ Unread(p))
          => \E i \in UseEdges(graph) : graph.edges[i].at = p

(* Every position that declares a label is one of a node, so that an       *)
(* answer that gives it can be bound, but for the declarations a language  *)
(* makes no nodes of.                                                      *)
AllDeclared(program, graph, Nodeless(_)) ==
  \A p \in Positions(program) :
    LET t == TokenAtPosition(program, p)
    IN  (t.decl /\ t.den # "" /\ ~ Nodeless(p))
          => \E id \in DOMAIN graph.nodes :
                LET n == graph.nodes[id] IN n.file = p[1] /\ p[2] \in {n.at} \cup n.also

(* Every node hangs off the project.                                       *)
Holding == {"CONTAINS", "DECLARES"}
Reached(graph, S) ==
  S \cup {graph.edges[i].tgt : i \in {j \in DOMAIN graph.edges :
            graph.edges[j].kind \in Holding /\ graph.edges[j].src \in S}}
AllHeld(graph, top, depth) ==
  LET reach[k \in 0..depth] == IF k = 0 THEN {top} ELSE Reached(graph, reach[k - 1])
  IN  \A id \in DOMAIN graph.nodes : id[1] # "EXTERNAL_SYMBOL" => id \in reach[depth]

-------------------------------------------------------------------------------
VARIABLES tree, here, program, stage, at, cursor, graph, facts, metrics
VARIABLE lang

GoFiles == INSTANCE GoPrograms
Go == INSTANCE GoAdapter WITH Programs <- GoFiles!GoPrograms
RustFiles == INSTANCE RustPrograms
Rust == INSTANCE RustAdapter WITH Programs <- RustFiles!RustPrograms
PhpFiles == INSTANCE PhpPrograms
Php == INSTANCE PhpAdapter WITH Programs <- PhpFiles!PhpPrograms
PythonFiles == INSTANCE PythonPrograms
Python == INSTANCE PythonAdapter WITH Programs <- PythonFiles!PythonPrograms, FullNames <- TRUE
TypeScriptFiles == INSTANCE TypeScriptPrograms
TypeScript == INSTANCE TypeScriptAdapter WITH Programs <- TypeScriptFiles!TypeScriptPrograms, FullNames <- FALSE

Init ==
  \/ lang = "go" /\ Go!Init
  \/ lang = "rust" /\ Rust!Init
  \/ lang = "php" /\ Php!Init
  \/ lang = "python" /\ Python!Init
  \/ lang = "typescript" /\ TypeScript!Init

Next ==
  /\ \/ lang = "go" /\ Go!Next
     \/ lang = "rust" /\ Rust!Next
     \/ lang = "php" /\ Php!Next
     \/ lang = "python" /\ Python!Next
     \/ lang = "typescript" /\ TypeScript!Next
  /\ UNCHANGED lang

vars == <<lang, tree, here, program, stage, at, cursor, graph, facts, metrics>>
Spec == Init /\ [][Next]_vars

Done == stage = "done"

(* Every edge of a use points at what the name stands for: the passes of   *)
(* the adapters bind by position, by name and by path.                     *)
PointsAtMeanings ==
  /\ Done /\ lang = "go" => PointsAtMeaning(program, graph, Go!Modules)
  /\ Done /\ lang = "rust" => PointsAtMeaning(program, graph, Rust!Modules)
  /\ Done /\ lang = "php" => PointsAtMeaning(program, graph, Php!Modules)
  /\ Done /\ lang = "python" => PointsAtMeaning(program, graph, Python!Modules)
  /\ Done /\ lang = "typescript" => PointsAtMeaning(program, graph, TypeScript!Modules)

(* The walks over types, calls, references and values overlap and leave    *)
(* out what another notes: none says what another has said.                *)
SaidOnceEach ==
  /\ Done /\ lang = "go" => SaidOnce(graph, Go!Repeated)
  /\ Done /\ lang = "rust" => SaidOnce(graph, Rust!Repeated)
  /\ Done /\ lang = "php" => SaidOnce(graph, Php!Repeated)
  /\ Done /\ lang = "python" => SaidOnce(graph, Python!Repeated)
  /\ Done /\ lang = "typescript" => SaidOnce(graph, TypeScript!Repeated)

(* A use belongs to the innermost declaration around it.                   *)
StartsAtOwners ==
  /\ Done /\ lang = "go" => StartsAtOwner(program, graph, Go!OwnersOfUse)
  /\ Done /\ lang = "rust" => StartsAtOwner(program, graph, Rust!OwnersOfUse)
  /\ Done /\ lang = "php" => StartsAtOwner(program, graph, Php!OwnersOfUse)
  /\ Done /\ lang = "python" => StartsAtOwner(program, graph, Python!OwnersOfUse)
  /\ Done /\ lang = "typescript" => StartsAtOwner(program, graph, TypeScript!OwnersOfUse)

(* No use of a declaration is left out by all of the walks.                *)
NothingLeftUnsaid ==
  /\ Done /\ lang = "go" => NothingUnsaid(program, graph, Go!Targets, Go!Unread)
  /\ Done /\ lang = "rust" => NothingUnsaid(program, graph, Rust!Targets, Rust!Unread)
  /\ Done /\ lang = "php" => NothingUnsaid(program, graph, Php!Targets, Php!Unread)
  /\ Done /\ lang = "python" => NothingUnsaid(program, graph, Python!Targets, Python!Unread)
  /\ Done /\ lang = "typescript" => NothingUnsaid(program, graph, TypeScript!Targets, TypeScript!Unread)

(* Every declaration is a node, at each of the positions that declare it,  *)
(* and every node can be reached from the project.                         *)
HeldByProject ==
  /\ Done /\ lang = "go" => AllHeld(graph, Go!ProjectId, 8) /\ AllDeclared(program, graph, Go!Nodeless)
  /\ Done /\ lang = "rust" => AllHeld(graph, Rust!ProjectId, 8) /\ AllDeclared(program, graph, Rust!Nodeless)
  /\ Done /\ lang = "php" => AllHeld(graph, Php!ProjectId, 8) /\ AllDeclared(program, graph, Php!Nodeless)
  /\ Done /\ lang = "python" => AllHeld(graph, Python!ProjectId, 8) /\ AllDeclared(program, graph, Python!Nodeless)
  /\ Done /\ lang = "typescript" => AllHeld(graph, TypeScript!ProjectId, 8) /\ AllDeclared(program, graph, TypeScript!Nodeless)
===============================================================================
