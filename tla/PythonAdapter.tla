------------------------------ MODULE PythonAdapter ------------------------------
(***************************************************************************)
(* The Python adapter (src/src/python/adapter.rs): the modules of a root   *)
(* are known by the paths of its files and what its packages bind by a     *)
(* look at their __init__ files; each file is then walked, one statement   *)
(* at a time, and the notes are answered in the order they were made.      *)
(*                                                                         *)
(* The resolver is the type checker: it answers with the declaration a     *)
(* name stands for, and with the start of a file for a module.             *)
(***************************************************************************)
EXTENDS PythonVisitor

CONSTANT Programs   (* sequences of files: [path, module, label, package, tree] *)

ProjectId == Id("PROJECT", <<"app">>)

Init ==
  /\ program \in Programs
  /\ Started(ProjectId, [lambdas |-> <<>>, sites |-> <<>>])

-------------------------------------------------------------------------------
(* Structure. *)

RootModules == ModulesOf(DOMAIN program)

(* The names a file binds at its top level. *)
TopNames(t) ==
  LET kids(n, kinds) == {m \in DOMAIN t : t[m].up = n /\ t[m].kind \in kinds}
      texts(S) == {t[m].text : m \in S}
      dotted(n) == {m \in kids(n, {"dotted_name"}) : t[m].field # "module_name"}
      ends(S, End(_)) == UNION {AtMostFirst({m \in kids(n, {"identifier"}) : \A o \in kids(n, {"identifier"}) : End(m) >= End(o)}) : n \in S}
      aliases(n) == UNION {{m \in kids(c, {"identifier"}) : t[m].field = "alias"} : c \in kids(n, {"aliased_import"})}
      defined(n) == kids(n, {"identifier"}) \cap {m \in DOMAIN t : t[m].field = "name"}
      assigned(n) == {m \in kids(n, {"identifier"}) : t[m].field = "left"}
  IN  UNION {
        CASE t[s].kind = "import_from_statement" -> texts(ends(dotted(s), LAMBDA m : m) \cup aliases(s))
          [] t[s].kind = "import_statement" -> texts(ends(dotted(s), LAMBDA m : - m) \cup aliases(s))
          [] t[s].kind \in {"function_definition", "class_definition"} -> texts(defined(s))
          [] t[s].kind = "decorated_definition" ->
               texts(UNION {defined(d) : d \in kids(s, {"function_definition", "class_definition"})})
          [] t[s].kind = "expression_statement" -> texts(UNION {assigned(a) : a \in kids(s, {"assignment"})})
          [] OTHER -> {} : s \in {m \in DOMAIN t : t[m].up = Root}}

PackageNames ==
  UNION {{Append(program[i].module, x) : x \in TopNames(program[i].tree)} : i \in {j \in DOMAIN program : program[j].package}}

Open ==
  /\ stage = "files" /\ at <= Len(program) /\ cursor = 0
  /\ LET f == program[at]
     IN  /\ tree' = f.tree
         /\ here' = [file |-> f.path, module |-> f.module, modules |-> RootModules, names |-> PackageNames,
                     internal |-> {Head(m) : m \in RootModules}]
         /\ graph' = [WithFile(EnsureModuleChain(graph, f.module, ModulesOf(1..(at - 1))), f)
                        EXCEPT !.lambdas = <<>>, !.sites = <<>>]
  /\ cursor' = Root
  /\ UNCHANGED <<program, stage, at, facts, metrics>>

Left == {n \in Children(Root) : n > cursor}

VisitNext ==
  /\ stage = "files" /\ cursor > 0
  /\ IF Left # {}
     THEN /\ graph' = Visit(graph, First(Left), TopOf)
          /\ cursor' = First(Left)
          /\ UNCHANGED at
     ELSE /\ at' = at + 1 /\ cursor' = 0
          /\ UNCHANGED graph
  /\ UNCHANGED <<tree, here, program, stage, facts, metrics>>

(* The walk is over, and every note is a query. *)
HoldModules ==
  /\ stage = "files" /\ at > Len(program)
  /\ graph' = WithTopModules(graph, ProjectId)
  /\ metrics' = [metrics EXCEPT !["queries"] = Len(graph.notes)]
  /\ stage' = "resolve" /\ at' = 1
  /\ UNCHANGED <<tree, here, program, cursor, facts>>

-------------------------------------------------------------------------------
(* What a use may start at, and what is never a use: see README.           *)
Within(p, kind) ==
  LET t == FileAt(p[1]).tree IN \E n \in 1..p[2] : t[n].kind = kind /\ p[2] <= t[n].end
OwnersOfUse(e) ==
  IF Within(e.at, "decorator") \/ e.kind = "RESOLVES_TO" THEN {}
  ELSE LET kinds == {"CLASS", "FUNCTION", "METHOD"} \cup
                      IF e.kind = "HAS_TYPE" THEN {"PARAMETER", "ATTRIBUTE", "VARIABLE"} ELSE {}
       IN  {id \in DOMAIN graph.nodes : id[1] \in kinds}
Targets == {id \in DOMAIN graph.nodes : id[1] \notin {"MODULE", "FILE", "IMPORT", "PROJECT", "EXTERNAL_SYMBOL"}}
Unread(p) ==
  LET t == TokenAt(p[1], p[2])
      up == TokenAt(p[1], t.up)
  IN  up.kind = "keyword_argument" /\ t.field = "name"
(* What is raised, and what is called through its elements, is also read.  *)
Repeated(p) ==
  LET up == TokenAt(p[1], TokenAt(p[1], p[2]).up)
  IN  up.kind = "raise_statement" \/ (up.kind = "subscript" /\ up.field = "function")
(* Every declaration that a program names is a node. *)
Nodeless(p) == FALSE
Modules == [m \in {program[i].label : i \in DOMAIN program} |->
              Id("MODULE", program[CHOOSE i \in DOMAIN program : program[i].label = m].module)]

Next == Open \/ VisitNext \/ HoldModules \/ ResolveNext \/ SettleStores
Spec == Init /\ [][Next]_vars
===============================================================================
