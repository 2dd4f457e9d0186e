----------------------------- MODULE TypeScriptAdapter -----------------------------
(***************************************************************************)
(* The TypeScript adapter (src/src/typescript/adapter.rs): the names that  *)
(* belong to files and directories are known beforehand, each file's       *)
(* modules when it is walked, one statement at a time; the notes are then  *)
(* answered in the order they were made.                                   *)
(*                                                                         *)
(* The resolver is the compiler: it answers with the declarations a name   *)
(* stands for, without naming them, and with the start of a file for a     *)
(* module.                                                                 *)
(***************************************************************************)
EXTENDS TypeScriptVisitor

CONSTANT Programs   (* sequences of files: [path, module, label, tree] *)

ProjectId == Id("PROJECT", <<"web">>)
Aliases == "@" :> <<"src">>   (* "@/*" stands for the files of the root, src *)

Init ==
  /\ program \in Programs
  /\ Started(ProjectId, [named |-> {}, overloads |-> <<>>])

-------------------------------------------------------------------------------
(* Structure. *)

FileModules == ModulesOf(DOMAIN program)
WithModules(g, f) == EnsureModuleChain(g, f.module, ModulesOf(1..(at - 1)))

Open ==
  /\ stage = "files" /\ at <= Len(program) /\ cursor = 0
  /\ LET f == program[at]
     IN  /\ tree' = f.tree
         /\ here' = [file |-> f.path, module |-> f.module, modules |-> ModulesOf(1..at), reserved |-> FileModules,
                     internal |-> {Head(m) : m \in FileModules}, root |-> "src", aliases |-> Aliases]
         /\ graph' = [WithFile(WithModules(graph, f), f)
                        EXCEPT !.named = {}, !.overloads = <<>>]
  /\ cursor' = Root
  /\ UNCHANGED <<program, stage, at, facts, metrics>>

Left == {n \in Children(Root) : n > cursor}

VisitNext ==
  /\ stage = "files" /\ cursor > 0
  /\ IF Left # {}
     THEN /\ graph' = Visit(graph, First(Left), TopOf)
          /\ cursor' = First(Left)
          /\ UNCHANGED at
     ELSE /\ at' = at + 1 /\ cursor' = 0
          /\ UNCHANGED graph
  /\ UNCHANGED <<tree, here, program, stage, facts, metrics>>

(* The walk is over, and every note is a query. *)
HoldModules ==
  /\ stage = "files" /\ at > Len(program)
  /\ graph' = WithTopModules(graph, ProjectId)
  /\ metrics' = [metrics EXCEPT !["queries"] = Len(graph.notes)]
  /\ stage' = "resolve" /\ at' = 1
  /\ UNCHANGED <<tree, here, program, cursor, facts>>

-------------------------------------------------------------------------------
(* What a use may start at, and what is never a use: see README.           *)
AroundOf(p, kinds) ==
  LET t == FileAt(p[1]).tree IN {n \in 1..p[2] : t[n].kind \in kinds /\ p[2] <= t[n].end}
Within(p, kinds) == AroundOf(p, kinds) # {}
(* A member that is declared again has the extent of its first declaration. *)
DeclaredAgain(id) ==
  LET n == graph.nodes[id]
  IN  id[1] \in {"METHOD", "ATTRIBUTE"} /\ \E p \in n.also : p > TokenAt(n.file, n.span).end
OwnersOfUse(e) ==
  IF Within(e.at, {"decorator"}) \/ e.kind = "RESOLVES_TO" \/ DeclaredAgain(e.src) THEN {}
  ELSE LET kinds == {"CLASS", "FUNCTION", "METHOD", "TYPE_ALIAS", "MODULE"} \cup
                      IF Within(e.at, {"type_annotation"}) THEN {"VARIABLE", "ATTRIBUTE"} ELSE {}
       IN  {id \in DOMAIN graph.nodes : id[1] \in kinds}
Targets == {id \in DOMAIN graph.nodes : id[1] \notin {"MODULE", "FILE", "IMPORT", "PROJECT", "EXTERNAL_SYMBOL"}}
UpOf(p, n) == TokenAt(p[1], n).up
InTypesOf(p, kinds) ==
  \E n \in AroundOf(p, {"type_annotation", "type_parameters"}) :
    TokenAt(p[1], UpOf(p, n)).kind \in kinds \/ TokenAt(p[1], UpOf(p, UpOf(p, UpOf(p, n)))).kind \in kinds
Unread(p) ==
  \/ Within(p, {"implements_clause"})
  \/ InTypesOf(p, {"arrow_function", "function_expression", "function_signature"})
  \/ LET t == TokenAt(p[1], p[2]) IN t.field = "left" /\ t.kind = "identifier"
(* What is called through its elements is also read; what decorates a      *)
(* parameter is called and read by the same function.                      *)
Repeated(p) ==
  \/ \E n \in AroundOf(p, {"subscript_expression"}) : TokenAt(p[1], n).field = "function"
  \/ \E n \in AroundOf(p, {"decorator"}) : TokenAt(p[1], TokenAt(p[1], n).up).kind = "required_parameter"
(* No node is made of a key of an object, but of a function's, and of a    *)
(* name with a default in a parameter that is unpacked.                    *)
Nodeless(p) ==
  LET t == TokenAt(p[1], p[2])
  IN  (t.kind = "property_identifier" /\ t.field = "key") \/ TokenAt(p[1], t.up).kind = "assignment_pattern"
Modules == [m \in {program[i].label : i \in DOMAIN program} |->
              Id("MODULE", program[CHOOSE i \in DOMAIN program : program[i].label = m].module)]

Next == Open \/ VisitNext \/ HoldModules \/ ResolveNext \/ SettleStores
Spec == Init /\ [][Next]_vars
===============================================================================
