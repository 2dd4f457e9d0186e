------------------------------- MODULE GoAdapter -------------------------------
(***************************************************************************)
(* The Go adapter (src/src/golang/adapter.rs): the files of one module are *)
(* visited one declaration at a time, imports are bound when every package *)
(* is there, and then every note is answered by the resolver and becomes   *)
(* an edge, a fact for the flow pass, or nothing.                          *)
(*                                                                         *)
(* The resolver is go/types behind the bridge: it knows what each name     *)
(* stands for, the label of its token, and answers with the position of    *)
(* the declaration that carries the label.                                 *)
(***************************************************************************)
EXTENDS GoVisitor, Resolution

CONSTANT Programs   (* sequences of files: [path, package, test, tree] *)

Module == <<"example.com", "m">>
Required == {<<"github.com", "dep">>}
ProjectId == Id("PROJECT", Module)

Init ==
  /\ program \in Programs
  /\ Started(ProjectId, [imports |-> <<>>, sites |-> {}])

(* The file a package is placed at: its first that is not a test. *)
Placed(package) ==
  LET files == {i \in DOMAIN program : program[i].package = package}
      proper == {i \in files : ~ program[i].test}
  IN  First(IF proper = {} THEN files ELSE proper)

PackageClause(t) == LET names == {n \in DOMAIN t : t[n].kind = "package_identifier" /\ t[n].field = "clause"}
                    IN  IF names = {} THEN 0 ELSE First(names)

(* ensure_package and ensure_file; the package's name is where its         *)
(* placement file says it.                                                 *)
Open ==
  /\ stage = "files" /\ at <= Len(program) /\ cursor = 0
  /\ LET f == program[at]
         package == Id("MODULE", f.package)
         file == Id("FILE", <<f.path>>)
         placed == program[Placed(f.package)].path
         withPackage == IF package \in DOMAIN graph.nodes THEN graph
                        ELSE Linking([graph EXCEPT !.nodes = @ @@
                               (package :> Node(placed, 0, 0))],
                             ProjectId, "CONTAINS", package)
         withFile == Linking([withPackage EXCEPT !.nodes = @ @@
                               (file :> Node(f.path, 0, 0))],
                             package, "CONTAINS", file)
     IN  /\ tree' = f.tree
         /\ here' = [file |-> f.path, package |-> f.package, module |-> Module, required |-> Required]
         /\ graph' = IF placed # f.path THEN withFile
                     ELSE [withFile EXCEPT !.nodes[package].at = PackageClause(f.tree)]
         /\ cursor' = Root
         /\ UNCHANGED <<program, stage, at, facts, metrics>>

Left == {n \in Children(Root) : n > cursor}

VisitNext ==
  /\ stage = "files" /\ cursor > 0
  /\ IF Left # {}
     THEN /\ graph' = Visit(graph, First(Left))
          /\ cursor' = First(Left)
          /\ UNCHANGED at
     ELSE /\ graph' = [graph EXCEPT !.sites = @ \cup ImportSites]
          /\ at' = at + 1 /\ cursor' = 0
  /\ UNCHANGED <<tree, here, program, stage, facts, metrics>>

Packages(g) == {id[2] : id \in {i \in DOMAIN g.nodes : i[1] = "MODULE"}}

(* Mutant: an import leads out of the project. *)
PathOutside(g, path) == Id("EXTERNAL_SYMBOL", path)
PathTarget(g, path) == Id(IF path \in Packages(g) THEN "MODULE" ELSE "EXTERNAL_SYMBOL", path)

BindImport(g, import) ==
  LET target == PathTarget(g, import.path)
  IN  [External(g, target) EXCEPT !.edges = @ \o
         <<Edge(import.by, "IMPORTS", target, <<>>), Edge(import.node, "RESOLVES_TO", target, import.at)>>]

(* A bare name can only stand for a variable or a function of its package. *)
NameNodes(g, note) ==
  LET name == TokenAt(note.file, note.at).text
  IN  {id \in DOMAIN g.nodes : id[1] \in {"VARIABLE", "FUNCTION"}
                               /\ id[2] = Append(FileAt(note.file).package, name)}

Bind ==
  /\ stage = "files" /\ at > Len(program)
  /\ LET bound == InTurn(DOMAIN graph.imports, graph, LAMBDA g, i : BindImport(g, graph.imports[i]))
     IN  graph' = [bound EXCEPT !.notes = SelectSeq(@, LAMBDA n :
                     n.tag = "name" => NameNodes(bound, n) # {})]
  /\ metrics' = [metrics EXCEPT !["queries"] = Len(graph'.notes)]
  /\ stage' = "resolve" /\ at' = 1
  /\ UNCHANGED <<tree, here, program, cursor, facts>>

-------------------------------------------------------------------------------
(* Resolution. *)

(* Where the imports of a file bind their names, and to which node.        *)
ImportAt(where) ==
  {[target |-> PathTarget(graph, s.path), origin |-> s.origin] :
     s \in {u \in graph.sites : <<u.file, u.at>> \in where}}

(* `util` in util.Double: bound through the file's imports alone. *)
ResolveQualifier(note, answer) ==
  LET sites == ImportAt(answer.where)
      target == The(sites).target
      bound == {t \in {target} : t[1] = "MODULE"}
      how == Classify("REFERENCES", bound, The(sites).origin)
  IN  IF sites = {} THEN Drops({"resolved"})
      ELSE /\ Writes(note, "REFERENCES", target, how)
           /\ metrics' = Bump(metrics, {"resolved", IF bound = {} THEN "external" ELSE "internal"}
                                         \cup IF how = "unlocated" THEN {how} ELSE {})
           /\ UNCHANGED facts

(* Notes that become no edge of their own. *)
IsFact(note) == note.role \in {"callarg", "alias"} \/ (note.role = "call" /\ note.tag = "result")
ResolveFact(note, bound) ==
  /\ Learns(IF note.role = "callarg" THEN "library" ELSE IF note.role = "call" THEN "made" ELSE note.tag,
            note, IF note.role = "callarg"
                  THEN {b \in bound : b[1] \in Holders \cup {"FUNCTION", "METHOD"}} ELSE bound)
  /\ metrics' = Bump(metrics, {"resolved"})
  /\ UNCHANGED graph

(* Whether a note is a use of what it was bound to. *)
Kept(note, answer, bound) ==
  CASE note.tag = "name" -> bound \cap NameNodes(graph, note) # {}
    [] note.tag = "key" -> IF bound = {} THEN answer.origin # "internal" ELSE The(bound)[1] = "ATTRIBUTE"
    [] note.role = "call" -> TRUE
    [] OTHER -> bound # {} \/ note.tag = ""

ResolveUse(note, answer, bound) ==
  LET conversion == note.role = "call" /\ \E b \in bound : b[1] \in {"CLASS", "TYPE_ALIAS"}
      kind == IF conversion THEN "REFERENCES" ELSE KindOfRole[note.role]
      how == Classify(kind, bound, answer.origin)
      target == IF bound # {} THEN The(bound) ELSE Id("EXTERNAL_SYMBOL", <<answer.name>>)
  IN  IF ~ Kept(note, answer, bound) THEN Drops({"resolved"})
      ELSE /\ Writes(note, kind, target, how)
           /\ IF note.role = "call" THEN Learns("call", note, bound)
              ELSE IF note.tag = "arg" THEN Learns("arg", note, bound) ELSE UNCHANGED facts
           /\ metrics' = Bump(metrics,
                {"resolved", IF bound = {} THEN "external" ELSE "internal"}
                  \cup IF how = "value" THEN {"to_value"} ELSE {how} \cap {"unlocated"})

ResolveNext ==
  /\ stage = "resolve" /\ at <= Len(graph.notes)
  /\ LET note == graph.notes[at]
         answer == Answer(note)
         bound == NodesAt(answer.where)
     IN  CASE ~ answer.known -> Drops({"unresolved"})
           [] note.tag = "package" -> ResolveQualifier(note, answer)
           [] IsFact(note) -> ResolveFact(note, bound)
           [] OTHER -> ResolveUse(note, answer, bound)
  /\ at' = at + 1
  /\ UNCHANGED <<tree, here, program, stage, cursor>>

-------------------------------------------------------------------------------
(* What a use may start at, what is always found, and what never is: a     *)
(* local is a node for the value flow alone, an embedded field is a        *)
(* position of its type, and the base of F[T](x) is read as a type.        *)
IsLocal(id) == id[1] = "VARIABLE" /\ Len(id[2]) > Len(Module) + 1
Outside == {"MODULE", "FILE", "IMPORT", "PROJECT", "EXTERNAL_SYMBOL"}
IsEmbedded(id) == id[1] = "ATTRIBUTE" /\ TokenAt(graph.nodes[id].file, graph.nodes[id].at).kind = "type_identifier"
OwnersOfUse(e) ==
  {id \in DOMAIN graph.nodes : id[1] \notin Outside /\ ~ IsLocal(id)
                               /\ (IsEmbedded(id) => e.kind = "HAS_TYPE")}
Targets == {id \in DOMAIN graph.nodes : id[1] \notin Outside \cup {"PARAMETER"} /\ ~ IsLocal(id)}
Unread(p) ==
  LET up == TokenAt(p[1], p[2]).up
  IN  up # 0 /\ TokenAt(p[1], up).kind = "generic_type"
(* A selector called in parentheses or by index, (x.f)(y) and x.f[i](y),   *)
(* is noted as a call and again as a read.                                 *)
Repeated(p) ==
  LET selector == TokenAt(p[1], p[2]).up
      up == TokenAt(p[1], selector).up
  IN  \/ TokenAt(p[1], up).kind = "parenthesized_expression"
      \/ TokenAt(p[1], up).kind = "index_expression" /\ TokenAt(p[1], up).field = "function"
(* No node is made of an import, a type parameter or a receiver, nor of a  *)
(* type or a `var` in a body.                                              *)
Nodeless(p) ==
  LET around == {TokenAt(p[1], b) : b \in {c \in 1..p[2] : p[2] <= TokenAt(p[1], c).end}}
      kind == TokenAt(p[1], TokenAt(p[1], p[2]).up).kind
  IN  \/ kind \in {"import_spec", "type_parameter_declaration"} \/ \E b \in around : b.field = "receiver"
      \/ kind \in {"type_spec", "var_spec"} /\ \E b \in around : b.kind = "block"
Modules == ("a:util" :> Id("MODULE", <<"example.com", "m", "util">>))

Next == Open \/ VisitNext \/ Bind \/ ResolveNext \/ Finish
Spec == Init /\ [][Next]_vars
===============================================================================
