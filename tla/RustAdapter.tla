------------------------------ MODULE RustAdapter ------------------------------
(***************************************************************************)
(* The Rust adapter (src/src/rustlang/adapter.rs): the files of one crate  *)
(* are visited item by item, imports and the names of `use` and `mod` are  *)
(* bound by path when every module is there, and what that leaves, with    *)
(* every note, is answered by the resolver.                                *)
(*                                                                         *)
(* The resolver is the index of rust-analyzer: a name stands for the label *)
(* of its token, and a module for the start of its file or its name.       *)
(***************************************************************************)
EXTENDS RustVisitor, Resolution

CONSTANT Programs   (* sequences of files: [path, module, tree] *)

Crate == "app"
Deps == {"serde"}
ProjectId == Id("PROJECT", <<Crate>>)

Init ==
  /\ program \in Programs
  /\ Started(ProjectId, [imports |-> <<>>, uses |-> <<>>, inline |-> {}, recorded |-> {}, mine |-> {}, macros |-> {}])

ModuleNode(g, module) ==
  LET id == Id("MODULE", module)
  IN  IF id \in DOMAIN g.nodes THEN g ELSE Linking(External(g, id), ProjectId, "CONTAINS", id)

DefinedMacros ==
  UNION {{f.tree[n].text : n \in {m \in DOMAIN f.tree :
            f.tree[m].field = "name" /\ f.tree[f.tree[m].up].kind = "macro_definition"}} :
           f \in {program[i] : i \in DOMAIN program}}

Open ==
  /\ stage = "files" /\ at <= Len(program) /\ cursor = 0
  /\ LET f == program[at]
         file == Id("FILE", <<f.path>>)
         withModule == ModuleNode(graph, f.module)
     IN  /\ tree' = f.tree
         /\ here' = [file |-> f.path, module |-> f.module, crate |-> Crate, deps |-> Deps, macros |-> DefinedMacros]
         /\ graph' = [Linking([withModule EXCEPT !.nodes = @ @@ (file :> Node(f.path, 0, 0))],
                              Id("MODULE", f.module), "CONTAINS", file)
                        EXCEPT !.recorded = {}, !.mine = {}]
  /\ cursor' = 1
  /\ UNCHANGED <<program, stage, at, facts, metrics>>

(* Impl blocks are visited after the other items of the file. *)
Items == LET impls == {n \in Children(Root) : Kind(n) = "impl_item"}
         IN  InOrder(Children(Root) \ impls) \o InOrder(impls)

(* The modules a file wrote in place become nodes when it has been read. *)
VisitNext ==
  /\ stage = "files" /\ cursor > 0
  /\ IF cursor <= Len(Items)
     THEN /\ graph' = OnItem(graph, Items[cursor], here.module)
          /\ cursor' = cursor + 1
          /\ UNCHANGED at
     ELSE /\ graph' = MapThenFoldSet(LAMBDA i, g : ModuleNode(g, i.mod), graph, LAMBDA i : i,
                                     LAMBDA S : CHOOSE i \in S : TRUE, {i \in graph.inline : i.file = here.file})
          /\ at' = at + 1 /\ cursor' = 0
  /\ UNCHANGED <<tree, here, program, stage, facts, metrics>>

-------------------------------------------------------------------------------
(* Binding by path. *)

(* The absolute path of an internal one: none when `super` climbs past the *)
(* crate.                                                                  *)
AbsoluteUsePath(path, mod) ==
  LET supers == Cardinality({i \in DOMAIN path : \A j \in 1..i : path[j] = "super"})
  IN  CASE Head(path) \in {"crate", Crate} -> {<<Crate>> \o Tail(path)}
        [] Head(path) = "self" -> {mod \o Tail(path)}
        [] supers > 0 /\ supers < Len(mod) ->
             {SubSeq(mod, 1, Len(mod) - supers) \o SubSeq(path, supers + 1, Len(path))}
        [] OTHER -> {}

(* A use leads to the module of its path, or to that of the path without   *)
(* its last segment.                                                       *)
ModuleCandidates(path, mod) ==
  LET full == AbsoluteUsePath(path, mod)
      parent(p) == IF Len(p) > 1 THEN <<SubSeq(p, 1, Len(p) - 1)>> ELSE <<>>
  IN  IF full = {} THEN <<>> ELSE <<The(full)>> \o parent(The(full))

BindImport(g, import) ==
  LET candidates == ModuleCandidates(import.path, import.mod)
      known == {i \in DOMAIN candidates : Id("MODULE", candidates[i]) \in DOMAIN g.nodes}
      target == IF known # {} THEN Id("MODULE", candidates[First(known)]) ELSE Id("EXTERNAL_SYMBOL", import.path)
  IN  Linking(Linking(External(g, target), import.by, "IMPORTS", target), import.node, "RESOLVES_TO", target)

ItemForQname(g, qname) ==
  LET named == [kind \in {"CLASS", "TYPE_ALIAS", "FUNCTION", "VARIABLE", "MODULE"} |-> Id(kind, qname)]
      there(kind) == named[kind] \in DOMAIN g.nodes
  IN  CASE there("CLASS") -> {named["CLASS"]}
        [] there("TYPE_ALIAS") -> {named["TYPE_ALIAS"]}
        [] there("FUNCTION") -> {named["FUNCTION"]}
        [] there("VARIABLE") -> {named["VARIABLE"]}
        [] there("MODULE") -> {named["MODULE"]}
        [] OTHER -> {}

(* A name of a use is bound by its path, or left to the resolver; a `mod`  *)
(* is bound to its module or to nothing.                                   *)
BindUse(g, use) ==
  LET relative == use.mod \o use.path
      qnames == CASE use.origin = "internal" -> AbsoluteUsePath(use.path, use.mod)
                  [] use.origin = "unknown" -> {relative}
                  [] OTHER -> {}
      targets == IF use.declares THEN {m \in {Id("MODULE", relative)} : m \in DOMAIN g.nodes}
                 ELSE UNION {ItemForQname(g, q) : q \in qnames}
      kind == IF use.declares THEN "REFERENCES" ELSE "RESOLVES_TO"
  IN  IF targets # {} THEN Written(g, use.note, kind, The(targets), "name")
      ELSE IF use.declares THEN g ELSE Noting(g, <<use.note>>)

Bind ==
  /\ stage = "files" /\ at > Len(program)
  /\ LET bound == InTurn(DOMAIN graph.imports, graph, LAMBDA g, i : BindImport(g, graph.imports[i]))
     IN  graph' = InTurn(DOMAIN graph.uses, bound, LAMBDA g, i : BindUse(g, graph.uses[i]))
  /\ metrics' = [metrics EXCEPT !["queries"] = Len(graph'.notes)]
  /\ stage' = "resolve" /\ at' = 1
  /\ UNCHANGED <<tree, here, program, cursor, facts>>

-------------------------------------------------------------------------------
(* Resolution. *)

(* Where the modules are: the starts of their files, and their names.      *)
ModuleAt(where) ==
  {Id("MODULE", program[i].module) : i \in {j \in DOMAIN program : <<program[j].path, Root>> \in where}}
    \cup {Id("MODULE", m.mod) : m \in {i \in graph.inline : <<i.file, i.at>> \in where}}

BoundTo(answer) ==
  IF NodesAt(answer.where) # {} THEN NodesAt(answer.where) ELSE ModuleAt(answer.where)

(* A local of the index: what a pattern binds. *)
IsLocal(answer) == \E p \in answer.where : TokenAt(p[1], p[2]).field \in {"pattern", ""} /\ p[2] # Root

(* A parameter, or a local of the callable itself.                         *)
IsLocalBinding(bound, e) ==
  \E b \in bound : \/ b[1] = "PARAMETER"
                   \/ b[1] = "VARIABLE" /\ Len(b[2]) > Len(e[2]) /\ SubSeq(b[2], 1, Len(e[2]) + 1) = Append(e[2], ".")

(* A callee a macro's body wrote: the one function of that name. *)
ByName(note) ==
  LET name == TokenAt(note.file, note.at).text
  IN  {id \in DOMAIN graph.nodes : id[1] \in {"FUNCTION", "METHOD"} /\ id \notin graph.macros
                                  /\ id[2][Len(id[2])] = name}
ResolveByName(note) ==
  IF Cardinality(ByName(note)) # 1 THEN UNCHANGED <<graph, facts, metrics>>
  ELSE /\ Writes(note, "CALLS", The(ByName(note)), "macro body")
       /\ Learns("call", note, ByName(note))
       /\ metrics' = Bump(metrics, {"resolved", "internal"})

(* Notes that become no edge of their own. *)
IsFact(note) == note.role \in {"callarg", "alias"} \/ (note.role = "call" /\ note.tag = "result")
ResolveFact(note, bound) ==
  /\ Learns(IF note.role = "callarg" THEN "library" ELSE IF note.role = "call" THEN "made" ELSE note.tag,
            note, IF note.role = "callarg"
                  THEN {b \in bound : b[1] \in Holders \cup {"FUNCTION", "METHOD"}} ELSE bound)
  /\ metrics' = Bump(metrics, {"resolved"})
  /\ UNCHANGED graph

Kept(note, answer, bound) ==
  CASE note.tag = "value" -> ~ IsLocal(answer) /\ ~ IsLocalBinding(bound, note.enc)
    [] note.role \in {"call", "import"} -> TRUE
    [] OTHER -> bound # {} \/ note.tag = ""

RelationOf(note) == IF note.role = "import" THEN "RESOLVES_TO" ELSE KindOfRole[note.role]

ResolveUse(note, answer, bound) ==
  LET kind == RelationOf(note)
      how == Classify(kind, bound, answer.origin)
      target == IF bound # {} THEN The(bound) ELSE Id("EXTERNAL_SYMBOL", <<answer.name>>)
  IN  IF ~ Kept(note, answer, bound) THEN Drops({"resolved"})
      ELSE /\ Writes(note, kind, target, how)
           /\ CASE note.role = "call" -> Learns("call", note, bound)
                [] note.tag = "arg" -> Learns("arg", note, bound)
                [] OTHER -> UNCHANGED facts
           /\ metrics' = Bump(metrics,
                {"resolved", IF bound = {} THEN "external" ELSE "internal"}
                  \cup IF how = "value" THEN {"to_value"} ELSE {how} \cap {"unlocated"})

ResolveNext ==
  /\ stage = "resolve" /\ at <= Len(graph.notes)
  /\ LET note == graph.notes[at]
         answer == Answer(note)
         bound == BoundTo(answer)
     IN  CASE note.tag = "macro body" -> ResolveByName(note)
           [] ~ answer.known -> Drops({"unresolved"})
           [] IsFact(note) -> ResolveFact(note, bound)
           [] OTHER -> ResolveUse(note, answer, bound)
  /\ at' = at + 1
  /\ UNCHANGED <<tree, here, program, stage, cursor>>

-------------------------------------------------------------------------------
(* What a use may start at, what is always found, and what never is: the   *)
(* bare receiver of a field, the types of a turbofish, and what only a     *)
(* macro's expansion would show.                                           *)
Outside == {"MODULE", "FILE", "IMPORT", "PROJECT", "EXTERNAL_SYMBOL"}
IsCalledLocal(id) == id[1] = "VARIABLE" /\ TokenAt(graph.nodes[id].file, graph.nodes[id].at).field = "pattern"
HeaderOf(p) == {a \in 1..(p[2] - 1) : TokenAt(p[1], a).kind = "impl_item" /\ TokenAt(p[1], a).end >= p[2]}
OwnersOfUse(e) ==
  IF e.how = "macro body" \/ (e.src[1] \in {"FILE", "CLASS"} /\ HeaderOf(e.at) # {}) THEN {}
  ELSE {id \in DOMAIN graph.nodes : id[1] \notin Outside /\ ~ IsCalledLocal(id)}
Targets == {id \in DOMAIN graph.nodes : id[1] \notin Outside \cup {"PARAMETER"} /\ ~ IsCalledLocal(id)}
Unread(p) ==
  LET t == TokenAt(p[1], p[2])
      up == TokenAt(p[1], t.up)
  IN  \/ up.kind = "field_expression" /\ t.field = "value" /\ t.kind = "identifier"
      \/ up.kind = "type_arguments" /\ TokenAt(p[1], up.up).kind = "generic_function"
      \/ up.kind \in {"token_tree", "token_repetition"}
(* A field called in parentheses or by index, (x.f)(y) and x.f[i](y), is   *)
(* noted as a call and again as a read.                                    *)
Repeated(p) ==
  LET access == TokenAt(p[1], p[2]).up
      up == TokenAt(p[1], access).up
  IN  \/ TokenAt(p[1], up).kind = "parenthesized_expression"
      \/ TokenAt(p[1], up).kind = "index_expression" /\ TokenAt(p[1], up).field = "function"
(* A module has no position: it is bound as the start of a file, or by     *)
(* name.  No node is made of a type parameter, nor of what a pattern binds *)
(* in a body or a closure.                                                 *)
Nodeless(p) ==
  LET t == TokenAt(p[1], p[2])
      inBody == \E b \in 1..p[2] : TokenAt(p[1], b).kind \in {"block", "closure_expression"} /\ p[2] <= TokenAt(p[1], b).end
  IN  \/ t.kind = "source_file" \/ (inBody /\ t.field # "name")
      \/ t.up # 0 /\ TokenAt(p[1], t.up).kind \in {"mod_item", "type_parameter", "const_parameter"}
Modules == ("app" :> Id("MODULE", <<Crate>>)) @@ ("util" :> Id("MODULE", <<Crate, "util">>))
             @@ ("inner" :> Id("MODULE", <<Crate, "inner">>))

Next == Open \/ VisitNext \/ Bind \/ ResolveNext \/ Finish
Spec == Init /\ [][Next]_vars
===============================================================================
