------------------------------- MODULE PhpAdapter -------------------------------
(***************************************************************************)
(* The PHP adapter (src/src/php/adapter.rs): every namespace gets a module *)
(* before the first file is walked, each file is walked one statement at a *)
(* time, and the notes are answered: the guesses first (strings that may   *)
(* name a function), then the uses, and what holders hold last.            *)
(*                                                                         *)
(* The resolver is the symbol table: it knows what each name stands for,   *)
(* the label of its token.                                                 *)
(***************************************************************************)
EXTENDS PhpVisitor, Resolution

CONSTANT Programs   (* sequences of files: [path, namespace, tree] *)

Internal == {"App"}
Builtin == {"php.array_map", "php.Closure", "php.fromCallable"}
ProjectId == Id("PROJECT", <<"app">>)

Init ==
  /\ program \in Programs
  /\ Started(ProjectId, [waiting |-> <<>>])

-------------------------------------------------------------------------------
(* Structure. *)

Prefixes(path) == {SubSeq(path, 1, k) : k \in DOMAIN path}
Namespaces == UNION {Prefixes(program[i].namespace) : i \in DOMAIN program}
Container(path) == IF path = <<>> THEN ProjectId ELSE Id("MODULE", path)

(* A chain of modules for every namespace, each in the one it extends. *)
EnsureModules(g) ==
  MapThenFoldSet(LAMBDA path, s :
      Linking(External(s, Id("MODULE", path)), Container(SubSeq(path, 1, Len(path) - 1)), "CONTAINS", Id("MODULE", path)),
    g, LAMBDA path : path, LAMBDA S : CHOOSE path \in S : \A q \in S : Len(q) <= Len(path), Namespaces)

HasStatements(t) == \E n \in DOMAIN t : t[n].up = Root /\ t[n].kind \notin Skipped

Open ==
  /\ stage = "files" /\ at <= Len(program) /\ cursor = 0
  /\ LET f == program[at]
         file == Id("FILE", <<f.path>>)
         held == IF at = 1 THEN EnsureModules(graph) ELSE graph
     IN  /\ tree' = f.tree
         /\ here' = [file |-> f.path, namespace |-> f.namespace, internal |-> Internal, modules |-> Namespaces]
         /\ IF HasStatements(f.tree)
            THEN /\ graph' = Linking([held EXCEPT !.nodes = @ @@ (file :> Node(f.path, 0, 0))],
                                     Container(f.namespace), "CONTAINS", file)
                 /\ cursor' = Root /\ UNCHANGED at
            ELSE /\ graph' = held
                 /\ at' = at + 1 /\ UNCHANGED cursor
  /\ UNCHANGED <<program, stage, facts, metrics>>

Left == {n \in Children(Root) : n > cursor}

VisitNext ==
  /\ stage = "files" /\ cursor > 0
  /\ IF Left # {}
     THEN /\ graph' = Visit(graph, First(Left), ScopeAt(First(Left)))
          /\ cursor' = First(Left)
          /\ UNCHANGED at
     ELSE /\ at' = at + 1 /\ cursor' = 0
          /\ UNCHANGED graph
  /\ UNCHANGED <<tree, here, program, stage, facts, metrics>>

-------------------------------------------------------------------------------
(* What a note needs of the resolver. *)

IsFlow(note) == note.role \in {"paramcall", "overwrite", "alias", "callarg"}
NeedsNothing(note) == note.role \in {"paramcall", "overwrite"} \/ (IsFlow(note) /\ note.from # {})
IsGuess(note) == IsFlow(note) /\ ~ NeedsNothing(note)

(* The holders that something calls, hands on or copies from. *)
Used(local) == UNION {local[i].from : i \in DOMAIN local}

Divide ==
  /\ stage = "files" /\ at > Len(program)
  /\ LET kept(Test(_)) == SelectSeq(graph.notes, Test)
         local == kept(NeedsNothing)
         sent == kept(LAMBDA n : ~ IsFlow(n))
     IN  /\ graph' = [graph EXCEPT !.notes = kept(IsGuess) \o sent, !.waiting = local]
         /\ metrics' = [metrics EXCEPT !["queries"] = Len(sent)]
  /\ stage' = "resolve" /\ at' = 1
  /\ UNCHANGED <<tree, here, program, cursor, facts>>

(* The node of a holder: a local's is made when it is first needed, where  *)
(* it is.                                                                  *)
EnsureHolder(g, note, holder) ==
  IF holder[1] # "VARIABLE" \/ holder \in DOMAIN g.nodes THEN g
  ELSE Linking([g EXCEPT !.nodes = @ @@ (holder :> Node(note.file, 0, note.at))], note.enc, "DECLARES", holder)

Fact(what, note, holder, held) ==
  [fact |-> what, holder |-> holder, held |-> held, at |-> <<note.file, note.at>>, of |-> note.of]

-------------------------------------------------------------------------------
(* Resolution. *)

(* A string is a use only when it names a function of the project. *)
ResolveGuess(note, bound) ==
  LET callables == {b \in bound : b[1] \in {"FUNCTION", "METHOD"}}
      holders == note.to \cap Used(graph.waiting)
      held == IF note.role = "callarg" THEN graph
              ELSE MapThenFoldSet(LAMBDA h, g : EnsureHolder(g, note, h), graph, LAMBDA h : h,
                                  LAMBDA S : CHOOSE h \in S : TRUE, holders)
  IN  IF callables = {} THEN UNCHANGED <<graph, facts, metrics>>
      ELSE /\ graph' = held
           /\ facts' = facts \cup
                IF note.role = "callarg" THEN {Fact("arg", note, note.enc, b) : b \in callables}
                ELSE {Fact("alias", note, h, b) : h \in holders \cap DOMAIN held.nodes, b \in callables}
           /\ metrics' = [Bump(metrics, {"resolved", "internal"}) EXCEPT !["queries"] = @ + 1]

Relation == KindOfRole @@ [read_callable |-> "REFERENCES", import |-> "RESOLVES_TO"]

(* An import's own node binds nothing, a namespace is its module.          *)
BoundTo(note, answer) ==
  LET named == NodesAt(answer.where) \ (IF note.role = "import" THEN {note.enc} ELSE {})
      module == {Id("MODULE", m) : m \in {path \in Namespaces : answer.name = path[Len(path)]}}
  IN  IF note.role = "import" /\ named = {} THEN module \cap DOMAIN graph.nodes ELSE named

OriginOf(answer) ==
  IF answer.where # {} THEN "internal" ELSE IF answer.name \in Builtin THEN "stdlib" ELSE "unknown"

ResolveUse(note, answer) ==
  LET bound == BoundTo(note, answer)
      kind == Relation[note.role]
      origin == OriginOf(answer)
      classified == Classify(kind, bound, origin)
      how == IF classified = "unlocated" /\ bound = {} /\ origin = "unknown" THEN "external" ELSE classified
      target == IF bound # {} THEN The(bound) ELSE Id("EXTERNAL_SYMBOL", <<answer.name>>)
  IN  /\ Writes(note, kind, target, how)
      /\ facts' = facts \cup IF note.role = "call" THEN {Fact("call", note, note.enc, b) : b \in bound} ELSE {}
      /\ metrics' = Bump(metrics, {"resolved", IF bound = {} THEN "external" ELSE "internal"}
                                    \cup IF how = "value" THEN {"to_value"} ELSE {how} \cap {"unlocated"})

ResolveNext ==
  /\ stage = "resolve" /\ at <= Len(graph.notes)
  /\ LET note == graph.notes[at]
         answer == Answer(note)
     IN  CASE IsGuess(note) ->
                ResolveGuess(note, IF answer.known THEN NodesAt(answer.where) ELSE {})
           [] ~ (IsGuess(note) \/ answer.known) -> Drops({"unresolved"})
           [] OTHER -> ResolveUse(note, answer)
  /\ at' = at + 1
  /\ UNCHANGED <<tree, here, program, stage, cursor>>

-------------------------------------------------------------------------------
(* What only the holders say. *)

(* One round of `$g = $f`, in the order the files were read. *)
CopyRound(state) ==
  LET local == graph.waiting
      copy(note, s) ==
        LET to == The(note.to)
            made == EnsureHolder(s.graph, note, to)
        IN  IF note.role # "alias" \/ note.from \cap DOMAIN s.graph.nodes = {} \/ note.to \cap Used(local) = {} THEN s
            ELSE IF to \notin DOMAIN made.nodes THEN s
            ELSE [graph |-> made, facts |-> s.facts \cup {Fact("alias", note, to, f) : f \in note.from},
                  learned |-> s.learned \/ to \notin DOMAIN s.graph.nodes]
  IN  InTurn(DOMAIN local, [state EXCEPT !.learned = FALSE], LAMBDA s, i : copy(local[i], s))

Copied(g, known) ==
  LET round[k \in 0..4] ==
        IF k = 0 THEN [graph |-> g, facts |-> known, learned |-> TRUE]
        ELSE LET before == round[k - 1] IN IF before.learned THEN CopyRound(before) ELSE before
  IN  round[4]

HolderFacts(g) ==
  UNION {{Fact(IF note.role = "callarg" THEN "arg" ELSE note.role, note, note.enc, h) :
            h \in (IF note.role = "overwrite" THEN note.to ELSE note.from) \cap DOMAIN g.nodes} :
         note \in {n \in {g.waiting[i] : i \in DOMAIN g.waiting} : n.role # "alias"}}

SettleHolders ==
  /\ stage = "resolve" /\ at > Len(graph.notes)
  /\ LET copied == IF graph.notes = <<>> THEN [graph |-> graph, facts |-> facts] ELSE Copied(graph, facts)
     IN  /\ graph' = copied.graph
         /\ facts' = copied.facts \cup IF graph.notes = <<>> THEN {} ELSE HolderFacts(copied.graph)
  /\ stage' = "done"
  /\ UNCHANGED <<tree, here, program, at, cursor, metrics>>
-------------------------------------------------------------------------------
(* What a use may start at, what is always found, and what never is: a     *)
(* local, and a string that no built-in calls.                             *)
Outside == {"MODULE", "FILE", "IMPORT", "PROJECT", "EXTERNAL_SYMBOL"}
MadeHere(id) == graph.nodes[id].at = 0
(* The type of a property is written before it; what a `new class` is      *)
(* given is of the code around it.                                         *)
TypedBefore(e) == e.kind = "HAS_TYPE" /\ e.src[1] \in {"ATTRIBUTE", "VARIABLE"} /\ e.at[2] < graph.nodes[e.src].span
GivenTo(id, p) ==
  LET span == graph.nodes[id].span
  IN  /\ graph.nodes[id].file = p[1] /\ TokenAt(p[1], span).kind = "anonymous_class"
      /\ \E a \in DOMAIN FileAt(p[1]).tree : /\ TokenAt(p[1], a).up = span /\ TokenAt(p[1], a).kind = "arguments"
                                            /\ p[2] \in a..TokenAt(p[1], a).end
OwnersOfUse(e) ==
  IF TypedBefore(e) THEN {}
  ELSE LET kinds == {"CLASS", "FUNCTION", "METHOD"} \cup IF e.kind = "HAS_TYPE" THEN {"PARAMETER", "ATTRIBUTE"} ELSE {}
       IN  {id \in DOMAIN graph.nodes : id[1] \in kinds /\ ~ GivenTo(id, e.at)}
Targets == {id \in DOMAIN graph.nodes : id[1] \notin Outside \cup {"PARAMETER"} /\ ~ MadeHere(id)}
Unread(p) ==
  LET t == TokenAt(p[1], p[2])
      up == TokenAt(p[1], t.up)
  IN  \/ t.kind = "string"
      \/ up.kind = "variable_name" /\ TokenAt(p[1], up.up).kind # "scoped_property_access_expression"
Repeated(p) == FALSE
(* No node is made of the parameter of a closure. *)
Nodeless(p) ==
  \E f \in 1..p[2] :
    /\ TokenAt(p[1], f).kind \in {"anonymous_function", "arrow_function"} /\ p[2] <= TokenAt(p[1], f).end
    /\ \E l \in f..p[2] : TokenAt(p[1], l).kind = "formal_parameters" /\ TokenAt(p[1], l).up = f /\ p[2] <= TokenAt(p[1], l).end
Modules == [m \in {path[Len(path)] : path \in Namespaces} |->
              Id("MODULE", CHOOSE path \in Namespaces : path[Len(path)] = m)]

Next == Open \/ VisitNext \/ Divide \/ ResolveNext \/ SettleHolders
Spec == Init /\ [][Next]_vars
===============================================================================
