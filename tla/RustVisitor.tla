------------------------------ MODULE RustVisitor ------------------------------
(***************************************************************************)
(* RustExtractor (src/src/rustlang/visitor.rs): what the items of a Rust   *)
(* file put into the graph and which of its names the resolver is asked    *)
(* about.                                                                  *)
(*                                                                         *)
(* A position is noted once: g.recorded are the positions of this file a   *)
(* walk has claimed, so the order of the walks decides the role.  Field    *)
(* accesses alone keep out of it.  g.mine are the nodes this file          *)
(* declared, g.macros those of macro_rules!, g.inline the modules written  *)
(* in place, g.uses the names of `use` and `mod`, and g.imports the        *)
(* imports of the crate's own.                                             *)
(***************************************************************************)
EXTENDS Extraction

(* `here` has, besides the file, its module, the crate, the crates it      *)
(* depends on and the names of every macro of the project.                 *)

Member(qname, name) == qname \o <<".", name>>
NameOf(n) == The(Fields(n, "name"))
Note1(g, role, S, e, tag) ==
  [g EXCEPT !.notes = @ \o Noted(role, S, e, tag), !.recorded = @ \cup S]
Fresh(g, role, S, e, tag) == Note1(g, role, S \ g.recorded, e, tag)

-------------------------------------------------------------------------------
(* macro_rules! expansion at the level of tokens (src/src/rustlang/        *)
(* macros.rs): the calls an invocation makes are the calls in what its     *)
(* first matching rule transcribes to.                                     *)
(*                                                                         *)
(* A rule is a pattern, whose items are literal tokens, bindings of one    *)
(* token ($x:ident) or of an expression ($x:expr), and a repetition of a   *)
(* binding; and a body of tokens, metavariables and repetitions.           *)

(* A token keeps the place it was written at, and whether the invocation   *)
(* wrote it.                                                               *)
Tok(n, own) == [text |-> Text(n), at |-> n, name |-> Kind(n) = "identifier", own |-> own]
Tokens(group, own) == Gather(Children(group), LAMBDA n : <<Tok(n, own)>>)

(* The file's macros: those no function holds, by name. *)
MacroNamed(name) ==
  {d \in OfKinds(Root, {"macro_definition"}) :
     /\ \A a \in Above(d) : Kind(a) # "function_item"
     /\ \E n \in Fields(d, "name") : Text(n) = name}
Rules(name) == InOrder(UNION {{c \in Children(d) : Kind(c) = "macro_rule"} : d \in MacroNamed(name)})
PartOf(rule, kind) == The({c \in Children(rule) : Kind(c) = kind})

(* Where a fragment ends: before the literal that follows it, or before a  *)
(* separator, outside any group.                                           *)
Depth(toks, i) ==
  Cardinality({j \in 1..(i - 1) : toks[j].text = "("}) - Cardinality({j \in 1..(i - 1) : toks[j].text = ")"})
FragmentLength(toks, stops) ==
  LET ends == {i \in DOMAIN toks : Depth(toks, i) = 0 /\ toks[i].text \in stops}
  IN  IF ends = {} THEN Len(toks) ELSE First(ends) - 1

Bound(kind, rounds) == [each |-> kind = "token_repetition_pattern", rounds |-> rounds]

RECURSIVE Rounds(_)
Rounds(toks) ==
  LET n == FragmentLength(toks, {","})
  IN  IF n = 0 THEN <<>> ELSE <<SubSeq(toks, 1, n)>> \o Rounds(SubSeq(toks, n + 2, Len(toks)))

RECURSIVE Matched(_, _, _)
(* The bindings of a pattern that takes all of the tokens: one or none.    *)
Matched(items, toks, bindings) ==
  LET item == Head(items)
      next == IF Len(items) > 1 /\ Kind(items[2]) = "token" THEN {Text(items[2])} ELSE {",", ";", "=>"}
      taken == CASE Kind(item) = "expr_binding" -> FragmentLength(toks, next)
                 [] Kind(item) = "token_repetition_pattern" -> Len(toks)
                 [] OTHER -> 1
      name == Text(IF Kind(item) = "token_repetition_pattern" THEN First(Children(item)) ELSE item)
      rounds == IF Kind(item) = "token_repetition_pattern" THEN Rounds(toks) ELSE <<SubSeq(toks, 1, taken)>>
  IN  IF items = <<>> THEN IF toks = <<>> THEN {bindings} ELSE {}
      ELSE IF Kind(item) # "token_repetition_pattern" /\ (taken = 0 \/ toks = <<>>) THEN {}
      ELSE IF Kind(item) = "token"
      THEN IF Head(toks).text = Text(item) THEN Matched(Tail(items), Tail(toks), bindings) ELSE {}
      ELSE Matched(Tail(items), SubSeq(toks, taken + 1, Len(toks)),
                   bindings @@ (name :> Bound(Kind(item), rounds)))

RECURSIVE Transcribed(_, _)
Transcribed(body, bindings) ==
  Gather(Children(body), LAMBDA n :
    LET bound == bindings[Text(n)]
        inner == {v \in OfKinds(n, {"metavariable"}) : Text(v) \in DOMAIN bindings /\ bindings[Text(v)].each}
        rounds == IF inner = {} THEN 0 ELSE Len(bindings[Text(First(inner))].rounds)
        round[i \in 0..rounds] ==
          IF i = 0 THEN <<>>
          ELSE round[i - 1] \o Transcribed(n, [v \in {Text(m) : m \in inner} |->
                                 [each |-> FALSE, rounds |-> <<bindings[v].rounds[i]>>]] @@ bindings)
    IN  CASE Kind(n) = "metavariable" ->
               IF Text(n) \in DOMAIN bindings /\ ~ bound.each THEN bound.rounds[1] ELSE <<>>
          [] Kind(n) = "token_repetition" -> round[rounds]
          [] OTHER -> <<Tok(n, FALSE)>>)

(* What an invocation expands to, by the first rule that matches. *)
Expanded(name, arguments) ==
  LET rules == Rules(name)
      found(r) == Matched(InOrder(Children(PartOf(r, "token_tree_pattern"))), arguments, <<>>)
      fits == {i \in DOMAIN rules : found(rules[i]) # {}}
  IN  IF fits = {} THEN <<>>
      ELSE Transcribed(PartOf(rules[First(fits)], "token_tree"), The(found(rules[First(fits)])))

(* A name before a group is a call; before a `!`, an invocation.           *)
TextAt(toks, i) == IF i \in DOMAIN toks THEN toks[i].text ELSE ""
CallsIn(toks) == {i \in DOMAIN toks : toks[i].name /\ TextAt(toks, i + 1) = "("}
MacrosIn(toks) == {i \in DOMAIN toks : toks[i].name /\ TextAt(toks, i + 1) = "!" /\ TextAt(toks, i + 2) = "("}
GroupEnd(toks, i) == First({j \in (i + 1)..Len(toks) : toks[j].text = ")" /\ Depth(toks, j + 1) = Depth(toks, i)})

RECURSIVE CallsOf(_, _, _)
(* The calls among some tokens, those of the macros they invoke after      *)
(* them, to a depth of four.                                               *)
CallsOf(toks, known, depth) ==
  LET one(i) == IF i \in CallsIn(toks) \/ (toks[i].own /\ toks[i].text \in known)
                THEN <<toks[i]>> ELSE <<>>
      within(i) == SubSeq(toks, i + 3, GroupEnd(toks, i + 2) - 1)
      nested(i) == CallsOf(Expanded(toks[i].text, within(i)), known, depth + 1)
  IN  IF depth > 4 THEN <<>>
      ELSE Gather(CallsIn(toks) \cup MacrosIn(toks), one) \o Gather(MacrosIn(toks), nested)

(* Each place is noted once for an invocation: a callee an argument        *)
(* supplied where the argument was written, another by its name.           *)
NotesOfCalls(calls, e) ==
  LET firsts == {i \in DOMAIN calls : \A j \in 1..(i - 1) : calls[j].at # calls[i].at}
  IN  Gather(firsts, LAMBDA i : <<Note("call", calls[i].at, e, IF calls[i].own THEN "" ELSE "macro body", 0)>>)
ExpansionNotes(name, arguments, known, e) == NotesOfCalls(CallsOf(Expanded(name, arguments), known, 0), e)

-------------------------------------------------------------------------------
(* Reading the tree. *)

RECURSIVE PlainName(_)
PlainName(n) ==
  CASE Kind(n) = "identifier" -> {n}
    [] Kind(n) = "scoped_identifier" -> Fields(n, "name")
    [] Kind(n) = "field_expression" -> Fields(n, "field")
    [] Kind(n) = "generic_function" -> PlainName(The(Fields(n, "function")))
    [] Kind(n) = "parenthesized_expression" -> PlainName(First(Children(n)))
    [] OTHER -> {}
PlainNames(S) == UNION {PlainName(n) : n \in S}
CalleeName(call) == PlainNames(Fields(call, "function"))

RECURSIVE LastSegment(_)
LastSegment(n) ==
  CASE Kind(n) \in {"identifier", "type_identifier"} -> {n}
    [] Kind(n) \in {"scoped_identifier", "scoped_type_identifier"} -> Fields(n, "name")
    [] Kind(n) = "generic_type" -> UNION {LastSegment(t) : t \in Fields(n, "type")}
    [] OTHER -> {}

IsAssignmentTarget(n) ==
  Kind(Up(n)) \in {"assignment_expression", "compound_assignment_expr"} /\ tree[n].field = "left"

BodyItems ==
  {"function_item", "const_item", "static_item", "struct_item", "enum_item", "union_item",
   "trait_item", "impl_item", "type_item", "macro_definition"}

(* The tokens of a scope that no item inside it holds, and those items.    *)
Owned(scope, kinds) ==
  {n \in OfKinds(scope, kinds) :
     \A a \in {n} \cup Above(n) : a > scope => Kind(a) \notin BodyItems}
NestedItems(scope) ==
  {n \in OfKinds(scope, BodyItems) :
     n # scope /\ \A a \in Above(n) : a > scope => Kind(a) \notin BodyItems}

(* The segments of a path before its last. *)
Primitives == {"u8", "str", "bool", "usize", "f64"}
RECURSIVE PrefixSegment(_)
PrefixSegment(path) ==
  CASE Kind(path) \in {"identifier", "type_identifier"} -> {n \in {path} : Text(n) \notin Primitives}
    [] Kind(path) \in {"crate", "super"} -> {path}
    [] Kind(path) \in {"scoped_identifier", "scoped_type_identifier"} -> Fields(path, "name")
    [] Kind(path) = "generic_type" -> UNION {PrefixSegment(t) : t \in Fields(path, "type")}
    [] OTHER -> {}
Closed == BodyItems \cup {"use_declaration", "visibility_modifier", "macro_definition"}
PathPrefixes(scope) ==
  UNION {PrefixSegment(p) : p \in UNION {Fields(s, "path") :
    s \in {n \in OfKinds(scope, {"scoped_identifier", "scoped_type_identifier"}) :
             \A a \in {n} \cup Above(n) : a > scope => Kind(a) \notin Closed}}}

-------------------------------------------------------------------------------
(* The walks that call one another, by what they are called for: `id` is   *)
(* what the token belongs to, `mod` the module it is in.                   *)
RECURSIVE Walk(_, _, _, _, _)
OnItem(g, n, mod) == Walk("item", g, n, FileId, mod)
OnCallable(g, n, id, mod) == Walk("callable", g, n, id, mod)
ScanValue(g, item, e) == Walk("value", g, item, e, <<>>)
RecordMacro(g, invocation, e) == Walk("macro", g, invocation, e, <<>>)

-------------------------------------------------------------------------------
(* Types and paths. *)

RecordPathPrefixes(g, scope, e) == Fresh(g, "read", PathPrefixes(scope), e, "")

(* `crate` of pub(crate), every segment of pub(in path). *)
RecordVisibility(g, n, e) ==
  LET inner == UNION {Children(m) : m \in {c \in Children(n) : Kind(c) = "visibility_modifier"}}
      paths == {c \in inner : Kind(c) = "scoped_identifier"}
      named == {c \in inner : Kind(c) \in {"crate", "super", "identifier"}}
  IN  Fresh(g, "read", named \cup UNION {PathPrefixes(p) \cup Fields(p, "name") : p \in paths}, e, "")

RecordAnnotation(g, t, e) ==
  RecordPathPrefixes(Fresh(g, "annotation", OfKinds(t, {"type_identifier"}), e, ""), t, e)
RecordAnnotations(g, types, e) == InTurn(types, g, LAMBDA s, t : RecordAnnotation(s, t, e))

(* Mutant: the bounds of a where clause are not looked at.                 *)
RecordGenericsInline(g, item, e) ==
  LET parameters == UNION {Children(p) : p \in Fields(item, "type_parameters")}
      inline == UNION {Fields(p, "bounds") \cup Fields(p, "default_type") \cup Fields(p, "type") : p \in parameters}
  IN  RecordAnnotations(g, inline \cup Fields(item, "bounds"), e)

RecordGenerics(g, item, e) ==
  LET parameters == UNION {Children(p) : p \in Fields(item, "type_parameters")}
      bounded == UNION {Fields(p, "bounds") \cup Fields(p, "default_type") :
                          p \in {q \in parameters : Kind(q) = "type_parameter"}}
      const == UNION {Fields(p, "type") : p \in {q \in parameters : Kind(q) = "const_parameter"}}
      wheres == {c \in Children(item) : Kind(c) = "where_clause"}
  IN  RecordAnnotations(g, bounded \cup const \cup Fields(item, "bounds") \cup wheres, e)

(* `let x: T`, `e as T`, and the types of a closure.                       *)
CollectBodyTypes(g, body, e) ==
  LET closures == Owned(body, {"closure_expression"})
      parameters == {c \in UNION {Children(p) : p \in UNION {Fields(k, "parameters") : k \in closures}} :
                       Kind(c) = "parameter"}
      typed == Owned(body, {"let_declaration", "type_cast_expression"}) \cup parameters
  IN  RecordAnnotations(g, UNION {Fields(n, "type") : n \in typed}
                             \cup UNION {Fields(c, "return_type") : c \in closures}, e)

-------------------------------------------------------------------------------
(* Calls, field accesses and values. *)

LibraryCallers == {"map", "for_each", "spawn", "sort_by"}

MacroRecorded(g, invocation, e) ==
  LET macro == Fields(invocation, "macro")
      segment == UNION {IF Kind(m) = "scoped_identifier" THEN Fields(m, "name") ELSE {m} : m \in macro}
      name == Text(The(segment))
      group == {c \in Children(invocation) : Kind(c) = "token_tree"}
      called == IF name \in here.macros THEN Fresh(g, "call", segment, e, "") ELSE g
  IN  IF MacroNamed(name) = {} \/ group = {} THEN called
      ELSE Noting(called, ExpansionNotes(name, Tokens(The(group), TRUE), here.macros, e))

CallNotes(call, e) ==
  LET f == The(Fields(call, "function"))
      site == PlainName(f)
      made == IF Kind(f) = "call_expression" THEN CalleeName(f) ELSE {}
      held == IF Kind(f) = "index_expression" THEN PlainName(First(Children(f))) ELSE {}
      handed == IF site = {} THEN {}
                ELSE PlainNames(UNION {Children(a) : a \in Fields(call, "arguments")})
  IN  Noted("call", site \cup held, e, "") \o Noted("call", made, e, "result")
        \o Gather(handed, LAMBDA n :
             <<Note("read", n, e, "arg", The(site))>>
               \o IF Text(The(site)) \in LibraryCallers
                  THEN <<Note("callarg", n, e, "", The(site))>> ELSE <<>>)

CollectCalls(g, scope, e) ==
  LET calls == Gather(Owned(scope, {"call_expression"}), LAMBDA c : CallNotes(c, e))
      marked == [Noting(g, calls) EXCEPT !.recorded = @ \cup {calls[i].at : i \in DOMAIN calls}]
  IN  InTurn(Owned(scope, {"macro_invocation"}), marked, LAMBDA s, m : RecordMacro(s, m, e))

IsCallee(n) == Kind(Up(n)) = "call_expression" /\ tree[n].field = "function"
IsArgument(n) ==
  Kind(Up(n)) = "arguments" /\ Kind(Up(Up(n))) = "call_expression" /\ CalleeName(Up(Up(n))) # {}

CollectReferences(g, scope, e) ==
  LET accesses == {n \in Owned(scope, {"field_expression"}) : ~ IsCallee(n) /\ ~ IsArgument(n)}
      role(n) == IF IsAssignmentTarget(n) THEN "write" ELSE "read"
  IN  Noting(g, Gather(accesses, LAMBDA n : Noted(role(n), Fields(n, "field"), e, "")))

(* The names that begin with a capital: constants, unit structs, variants. *)
Capitals == {"MAX", "Unit", "Some_", "Shape", "Point", "TABLE", "Round", "Sided"}

Types ==
  {"generic_type", "reference_type", "pointer_type", "array_type", "tuple_type", "function_type",
   "dynamic_type", "primitive_type", "type_identifier", "scoped_type_identifier", "type_arguments"}
NoValues ==
  Types \cup BodyItems \cup {"use_declaration", "macro_invocation", "visibility_modifier", "mod_item"}

RECURSIVE Values(_, _)
(* The names in expression and pattern position under n, each with the     *)
(* node that says whether it is assigned.  A lower-case name in a pattern  *)
(* binds, and the bare receiver of a field is no value.                    *)
Values(n, pattern) ==
  LET itself(S) == {<<m, m>> : m \in S}
      under(S, p) == UNION {Values(m, p) : m \in S}
      split(S, special) == under(S \ special, FALSE) \cup under(S \cap special, TRUE)
      initializer(i) ==
        CASE Kind(i) = "field_initializer" -> itself(Fields(i, "field")) \cup under(Fields(i, "value"), FALSE)
          [] Kind(i) = "shorthand_field_initializer" -> itself(Children(i))
          [] OTHER -> Values(i, FALSE)
      ofType == itself(UNION {LastSegment(t) : t \in Fields(n, "type")})
  IN  CASE Kind(n) \in NoValues -> {}
        [] Kind(n) = "identifier" ->
             IF pattern THEN itself({n} \cap {m \in {n} : Text(m) \in Capitals})
             ELSE IF Kind(Up(n)) = "field_expression" /\ tree[n].field = "value" THEN {} ELSE itself({n})
        [] Kind(n) = "scoped_identifier" -> {<<n, m>> : m \in Fields(n, "name")}
        [] Kind(n) = "field_expression" -> under({v \in Fields(n, "value") : Kind(v) # "identifier"}, FALSE)
        [] Kind(n) = "struct_expression" ->
             itself(UNION {LastSegment(m) : m \in Fields(n, "name")})
               \cup UNION {initializer(i) : i \in UNION {Children(b) : b \in Fields(n, "body")}}
        [] Kind(n) \in {"let_declaration", "let_condition", "for_expression"} ->
             split(Children(n), Fields(n, "pattern"))
        [] Kind(n) = "match_pattern" -> split(Children(n), Children(n) \ Fields(n, "condition"))
        [] Kind(n) = "closure_parameters" -> under(Children(n), TRUE)
        [] Kind(n) = "parameter" -> under(Fields(n, "pattern"), TRUE)
        [] Kind(n) = "tuple_struct_pattern" -> ofType \cup under(Children(n) \ Fields(n, "type"), TRUE)
        [] Kind(n) = "struct_pattern" ->
             LET fields == {c \in Children(n) : Kind(c) = "field_pattern"}
             IN  ofType \cup itself(UNION {Fields(f, "name") : f \in fields})
                        \cup under(UNION {Fields(f, "pattern") : f \in fields}, TRUE)
        [] OTHER -> under(Children(n), pattern)

RecordValues(g, roots, e) ==
  LET values == UNION {Values(r, FALSE) : r \in roots}
      in(role) == {v[2] : v \in {w \in values : IsAssignmentTarget(w[1]) = (role = "write")}}
  IN  Fresh(Fresh(g, "write", in("write"), e, "value"), "read", in("read"), e, "value")

CollectValues(g, callable, e) ==
  LET parameters == {p \in UNION {Children(l) : l \in Fields(callable, "parameters")} : Kind(p) = "parameter"}
  IN  RecordValues(g, parameters \cup Fields(callable, "body"), e)

(* A constant, an associated constant or a discriminant: its value is read *)
(* as a body is.                                                           *)
ValueScanned(g, item, e) ==
  LET typed == RecordAnnotations(g, Fields(item, "type"), e)
      scan(s, v) ==
        RecordValues(RecordPathPrefixes(CollectReferences(CollectCalls(CollectBodyTypes(s, v, e), v, e), v, e),
                                        v, e), {v}, e)
  IN  InTurn(Fields(item, "value"), typed, scan)

-------------------------------------------------------------------------------
(* Value flow: the locals that are called, and what they hold. *)

Binding == {"let_declaration", "for_expression"}
Assigning == Binding \cup {"assignment_expression"}
Left(n) == Fields(n, IF Kind(n) \in Binding THEN "pattern" ELSE "left")
Right(n) == Fields(n, IF Kind(n) \in Binding THEN "value" ELSE "right")

Called(body) ==
  LET base(f) == CASE Kind(f) = "identifier" -> {f}
                   [] Kind(f) = "index_expression" -> {c \in {First(Children(f))} : Kind(c) = "identifier"}
                   [] OTHER -> {}
  IN  {Text(b) : b \in UNION {base(f) : f \in UNION {Fields(c, "function") :
         c \in Owned(body, {"call_expression"})}}}

Sources(relevant, n) ==
  LET source(r) ==
        CASE Kind(r) = "identifier" -> {r}
          [] Kind(r) \in {"index_expression", "reference_expression", "unary_expression"} ->
               {c \in {First(Children(r))} : Kind(c) = "identifier"}
          [] OTHER -> {}
  IN  IF Right(n) # {} /\ \E l \in Left(n) : Text(l) \in relevant
      THEN relevant \cup {Text(s) : s \in UNION {source(r) : r \in Right(n)}} ELSE relevant

Relevant(body) ==
  LET again(names) == Popped(Owned(body, Assigning), names, Sources)
  IN  again(again(again(Called(body))))

(* Of the bindings of one relevant name, the one a walk from the end meets *)
(* first is its node.                                                      *)
Locals(body) ==
  LET relevant == Relevant(body)
      names == {n \in UNION {Fields(d, "pattern") : d \in Owned(body, Binding)} :
                  Kind(n) = "identifier" /\ Text(n) \in relevant}
      before(n, m) == Up(m) \in Inside(Up(n)) \/ Up(n) > tree[Up(m)].end
  IN  {n \in names : \A m \in names \ {n} : Text(m) = Text(n) => before(n, m)}

RECURSIVE Aliases(_, _, _)
Aliases(value, holder, depth) ==
  LET alias(S, tag) == Noted("alias", S, holder, tag)
      inner == IF Has(value, "value") THEN Fields(value, "value") ELSE {Last(Children(value))}
  IN  CASE PlainName(value) # {} -> alias(PlainName(value), "")
        [] Kind(value) = "call_expression" -> alias(CalleeName(value), "result")
        [] Kind(value) \in {"reference_expression", "unary_expression", "type_cast_expression"} /\ depth < 3 ->
             Gather(inner, LAMBDA v : Aliases(v, holder, depth + 1))
        [] Kind(value) \in {"array_expression", "tuple_expression"} /\ depth < 3 ->
             Gather(Children(value), LAMBDA v : Aliases(v, holder, depth + 1))
        [] Kind(value) = "index_expression" -> alias(PlainName(First(Children(value))), "")
        [] OTHER -> <<>>

(* S { f: g }: the field of a struct of this module holds what its value does. *)
StructExpressionFields(literal, mod) ==
  LET type == Append(mod, Text(The(Fields(literal, "name"))))
  IN  Gather({i \in UNION {Children(b) : b \in Fields(literal, "body")} : Kind(i) = "field_initializer"},
        LAMBDA i : Gather(Fields(i, "value"), LAMBDA v :
          Aliases(v, Id("ATTRIBUTE", Member(type, Text(The(Fields(i, "field"))))), 0)))

FlowNotes(body, id, locals, mod) ==
  LET holders == {Text(l) : l \in locals}
      held(n) == Gather({l \in Left(n) : Text(l) \in holders}, LAMBDA l :
                   Gather(Right(n), LAMBDA r : Aliases(r, Id("VARIABLE", Member(id[2], Text(l))), 0)))
      returned == {First(Children(r)) : r \in Owned(body, {"return_expression"})}
      tail == {n \in Children(body) : n = Last(Children(body))}
  IN  Gather(Owned(body, Assigning), held)
        \o Noted("alias", PlainNames(returned \cup tail), id, "return")
        \o Gather(Owned(body, {"struct_expression"}), LAMBDA s : StructExpressionFields(s, mod))

CollectFlow(g, callable, id, mod) ==
  LET body == The(Fields(callable, "body"))
      locals == Locals(body)
      declare(s, n) ==
        LET local == Id("VARIABLE", Member(id[2], Text(n)))
        IN  IF local \in DOMAIN s.nodes THEN s
            ELSE Linking(Inserted(s, local, n, Up(n)), id, "DECLARES", local)
  IN  IF ~ Has(callable, "body") THEN g
      ELSE Noting(InTurn(locals, g, declare), FlowNotes(body, id, locals, mod))

-------------------------------------------------------------------------------
(* Declarations. *)

(* One node for a name: a later declaration of this file is one more place *)
(* of the node, whatever impl or cfg it is under.                          *)
Declared(g, id, full, name) ==
  LET seen == RecordVisibility(g, full, id)
  IN  IF id \notin DOMAIN g.nodes
      THEN [Linking(Inserted(seen, id, name, full), FileId, "DECLARES", id) EXCEPT !.mine = @ \cup {id}]
      ELSE IF id \in g.mine /\ name # g.nodes[id].at
           THEN [seen EXCEPT !.nodes[id].also = @ \cup {name}] ELSE seen

CollectParameters(g, callable, id) ==
  LET patterns == UNION {Fields(p, "pattern") : p \in {c \in UNION {Children(l) : l \in Fields(callable, "parameters")} :
                    Kind(c) = "parameter"}}
      declare(s, n) ==
        LET parameter == Id("PARAMETER", Member(id[2], Text(n)))
        IN  IF parameter \in DOMAIN s.nodes THEN s
            ELSE RecordAnnotations(Linking(Inserted(s, parameter, n, Up(n)), id, "DECLARES", parameter),
                                   Fields(Up(n), "type"), parameter)
  IN  InTurn(patterns, g, declare)

CollectNamedFields(g, body, id) ==
  InTurn({f \in Children(body) : Kind(f) = "field_declaration"}, g, LAMBDA s, f :
    LET field == Id("ATTRIBUTE", Member(id[2], Text(NameOf(f))))
        there == Linking(Declared(s, field, f, NameOf(f)), id, "DECLARES", field)
    IN  RecordAnnotations(there, Fields(f, "type"), field))

RecordTupleFields(g, list, e) ==
  RecordAnnotations(RecordVisibility(g, list, e), Fields(list, "type"), e)

CollectBody(g, body, id) ==
  CASE Kind(body) = "ordered_field_declaration_list" -> RecordTupleFields(g, body, id)
    [] Kind(body) = "field_declaration_list" -> CollectNamedFields(g, body, id)
    [] OTHER -> g

(* A variant is a class of its enum: it is called as a tuple struct is.    *)
CollectVariants(g, list, id) ==
  InTurn({v \in Children(list) : Kind(v) = "enum_variant"}, g, LAMBDA s, v :
    LET variant == Id("CLASS", Member(id[2], Text(NameOf(v))))
        there == Linking(Declared(s, variant, v, NameOf(v)), id, "DECLARES", variant)
        filled == InTurn(Fields(v, "body"), there, LAMBDA u, b : CollectBody(u, b, variant))
    IN  ScanValue(filled, v, variant))

CollectFields(g, item, id) ==
  InTurn(Fields(item, "body"), g, LAMBDA s, b :
    IF Kind(item) = "enum_item" THEN CollectVariants(s, b, id) ELSE CollectBody(s, b, id))

(* `use a::{b, c as d}`: a site for every name it brings in. *)
RECURSIVE PathText(_)
PathText(n) ==
  IF Kind(n) = "scoped_identifier"
  THEN PathText(The(Fields(n, "path"))) \o <<Text(NameOf(n))>> ELSE <<Text(n)>>

Stdlib == {"std", "core"}
ClassifyImport(path) ==
  CASE Head(path) \in Stdlib -> "stdlib"
    [] Head(path) \in {"crate", "self", "super", here.crate} -> "internal"
    [] Head(path) \in here.deps -> "third_party"
    [] OTHER -> "unknown"

Use(n, path, mod, e, declares) ==
  [note |-> Note(IF declares THEN "read" ELSE "import", n, e, "", 0), path |-> path, mod |-> mod,
   origin |-> IF declares THEN "internal" ELSE ClassifyImport(path), declares |-> declares]

RECURSIVE UseLeaves(_, _, _, _)
UseLeaves(n, prefix, mod, e) ==
  CASE Kind(n) = "identifier" -> <<Use(n, Append(prefix, Text(n)), mod, e, FALSE)>>
    [] Kind(n) = "scoped_identifier" ->
         Gather({m \in Fields(n, "name") : Kind(m) = "identifier"},
                LAMBDA m : <<Use(m, prefix \o PathText(n), mod, e, FALSE)>>)
    [] Kind(n) = "use_as_clause" -> Gather(Fields(n, "path"), LAMBDA p : UseLeaves(p, prefix, mod, e))
    [] Kind(n) = "scoped_use_list" ->
         LET inner == prefix \o IF Has(n, "path") THEN PathText(The(Fields(n, "path"))) ELSE <<>>
         IN  Gather(Fields(n, "list"), LAMBDA l : UseLeaves(l, inner, mod, e))
    [] Kind(n) = "use_list" -> Gather(Children(n), LAMBDA c : UseLeaves(c, prefix, mod, e))
    [] OTHER -> <<>>

(* A use declaration as a whole: what its text is, which keys its node,    *)
(* and what that text is when it is cut at every `::`, which is how its    *)
(* module is looked for.                                                   *)
RECURSIVE UseText(_)
UseText(n) ==
  CASE Kind(n) = "scoped_identifier" -> PathText(n)
    [] Children(n) = {} -> <<Text(n)>>
    [] OTHER -> <<"{">> \o Gather(Children(n), LAMBDA c : UseText(c)) \o <<"}">>
UseSegments(n) ==
  LET path == PathText(The(Fields(n, "path")))
      flat == \A c \in UNION {Children(l) : l \in Fields(n, "list")} : Kind(c) = "identifier"
  IN  CASE Kind(n) = "use_as_clause" -> SubSeq(path, 1, Len(path) - 1) \o <<"_ as _">>
        [] Kind(n) = "scoped_use_list" -> path \o IF flat THEN <<"{_}">> ELSE <<"{_", "_}">>
        [] OTHER -> PathText(n)

(* The leaves come first: a second `use` of the same text adds its sites   *)
(* and no node.                                                            *)
OnUseDeclaration(g, n, mod) ==
  LET argument == The(Fields(n, "argument"))
      import == Id("IMPORT", <<here.file>> \o UseText(argument))
      symbol == Id("EXTERNAL_SYMBOL", UseText(argument))
      path == UseSegments(argument)
      sites == [RecordVisibility(g, n, FileId) EXCEPT !.uses = @ \o UseLeaves(argument, <<>>, mod, import)]
      there == Linking(Inserted(sites, import, 0, n), FileId, "DECLARES", import)
  IN  IF import \in DOMAIN g.nodes THEN sites
      ELSE IF ClassifyImport(path) = "internal"
      THEN [there EXCEPT !.imports = Append(@, [node |-> import, path |-> path, mod |-> mod, by |-> FileId])]
      ELSE Linking(Linking(External(there, symbol), FileId, "IMPORTS", symbol), import, "RESOLVES_TO", symbol)

OnMacroDefinition(g, n, mod) ==
  LET id == Id("FUNCTION", Append(mod, Text(NameOf(n))))
      there == Declared(g, id, n, NameOf(n))
  IN  IF id \in DOMAIN g.nodes THEN there ELSE [there EXCEPT !.macros = @ \cup {id}]

(* impl Trait for Type: a base of the class this module declares, else of  *)
(* the file.                                                               *)
ImplType(n) ==
  LET names == UNION {OfKinds(t, {"type_identifier"}) : t \in Fields(n, "type")}
  IN  IF names = {} THEN "" ELSE Text(First(names))
CollectImplTrait(g, n, mod) ==
  LET class == Id("CLASS", Append(mod, ImplType(n)))
      e == IF class \in DOMAIN g.nodes THEN class ELSE FileId
  IN  InTurn(Fields(n, "trait"), g, LAMBDA s, t :
        RecordAnnotation(Note1(s, "base", {First(OfKinds(t, {"type_identifier"}))}, e, ""), t, FileId))

MemberKind(item) ==
  CASE Kind(item) \in {"type_item", "associated_type"} -> "TYPE_ALIAS"
    [] Kind(item) = "const_item" -> "VARIABLE"
    [] OTHER -> "METHOD"

(* Items in source order, impl blocks after the rest. *)
ItemsInOrder(items) ==
  LET impls == {n \in items : Kind(n) = "impl_item"} IN InOrder(items \ impls) \o InOrder(impls)
Dispatch(g, items, mod) == Along(ItemsInOrder(items), g, LAMBDA s, n : OnItem(s, n, mod))

(* The walks over a callable, in the order that decides who claims a       *)
(* position; then the items its body declares, qualified under it.         *)
CallableVisited(g, n, id, mod) ==
  LET signed == RecordAnnotations(RecordGenerics(CollectParameters(g, n, id), n, id), Fields(n, "return_type"), id)
      typed == InTurn(Fields(n, "body"), signed, LAMBDA s, b : CollectBodyTypes(s, b, id))
      used == CollectReferences(CollectCalls(typed, n, id), n, id)
      valued == CollectValues(RecordPathPrefixes(used, n, id), n, id)
  IN  Dispatch(CollectFlow(valued, n, id, mod), UNION {NestedItems(b) : b \in Fields(n, "body")}, id[2])

(* The members of a trait, which it declares, and of an impl, which are    *)
(* named after its type.                                                   *)
MembersOf(n) ==
  LET kinds == IF Kind(n) = "impl_item" THEN {"type_item", "const_item", "function_item"}
               ELSE {"associated_type", "const_item", "function_item", "function_signature_item"}
  IN  {m \in UNION {Children(b) : b \in Fields(n, "body")} : Kind(m) \in kinds}
OnMembers(g, n, mod, id) ==
  InTurn(MembersOf(n), g, LAMBDA s, m :
    LET member == Id(MemberKind(m), Member(id[2], Text(NameOf(m))))
        there == Declared(s, member, m, NameOf(m))
        held == IF Kind(n) = "trait_item" THEN Linking(there, id, "DECLARES", member) ELSE there
    IN  CASE MemberKind(m) = "TYPE_ALIAS" -> RecordAnnotations(RecordGenerics(held, m, member), Fields(m, "type"), member)
          [] MemberKind(m) = "VARIABLE" -> ScanValue(held, m, member)
          [] OTHER -> OnCallable(held, m, member, mod))

ItemVisited(g, n, mod) ==
  LET named(kind) == Id(kind, Append(mod, Text(NameOf(n))))
      declared(kind) == RecordGenerics(Declared(g, named(kind), n, NameOf(n)), n, named(kind))
      header == RecordGenerics(RecordAnnotations(CollectImplTrait(g, n, mod), Fields(n, "type"), FileId), n, FileId)
      invoked == IF Kind(n) = "macro_invocation" THEN {n} ELSE {c \in Children(n) : Kind(c) = "macro_invocation"}
  IN  CASE Kind(n) = "function_item" ->
             OnCallable(Declared(g, named("FUNCTION"), n, NameOf(n)), n, named("FUNCTION"), mod)
        [] Kind(n) \in {"struct_item", "enum_item", "union_item"} -> CollectFields(declared("CLASS"), n, named("CLASS"))
        [] Kind(n) \in {"trait_item", "impl_item"} ->
             LET trait == Kind(n) = "trait_item"
             IN  OnMembers(IF trait THEN declared("CLASS") ELSE header, n, mod,
                           IF trait THEN named("CLASS") ELSE Id("CLASS", Append(mod, ImplType(n))))
        [] Kind(n) = "type_item" -> RecordAnnotations(declared("TYPE_ALIAS"), Fields(n, "type"), named("TYPE_ALIAS"))
        [] Kind(n) \in {"const_item", "static_item"} ->
             ScanValue(Declared(g, named("VARIABLE"), n, NameOf(n)), n, named("VARIABLE"))
        [] Kind(n) = "mod_item" ->
             LET seen == RecordVisibility(g, n, FileId)
                 inner == Append(mod, Text(NameOf(n)))
             IN  IF Has(n, "body")
                 THEN Dispatch([seen EXCEPT !.inline = @ \cup {[file |-> here.file, at |-> NameOf(n), mod |-> inner]}],
                               UNION {Children(b) : b \in Fields(n, "body")}, inner)
                 ELSE [seen EXCEPT !.uses = Append(@, Use(NameOf(n), <<Text(NameOf(n))>>, mod, FileId, TRUE))]
        [] Kind(n) = "use_declaration" -> OnUseDeclaration(g, n, mod)
        [] Kind(n) = "macro_definition" -> OnMacroDefinition(g, n, mod)
        [] Kind(n) \in {"macro_invocation", "expression_statement"} ->
             InTurn(invoked, g, LAMBDA s, m : RecordMacro(s, m, FileId))
        [] OTHER -> g

Walk(as, g, n, id, mod) ==
  CASE as = "item" -> ItemVisited(g, n, mod)
    [] as = "callable" -> CallableVisited(g, n, id, mod)
    [] as = "value" -> ValueScanned(g, n, id)
    [] as = "macro" -> MacroRecorded(g, n, id)
===============================================================================
