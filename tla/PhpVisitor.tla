------------------------------- MODULE PhpVisitor -------------------------------
(***************************************************************************)
(* PhpVisitor (src/src/php/visitor.rs): one walk over a PHP file that      *)
(* writes its declarations and notes the names it reads, calls, writes and *)
(* mentions as types.                                                      *)
(*                                                                         *)
(* The visitor's stacks are an environment e: the qualified name, the node *)
(* and the node kind on top of them, the class around it, and the          *)
(* parameters of the named functions around it, outermost first.           *)
(***************************************************************************)
EXTENDS Extraction

(* `here` has, besides the file, its namespace, the first names of the     *)
(* project's namespaces and the namespaces that have a module.             *)

DeclaredIn(g, owner, id, at, span) == Linking(Inserted(g, id, at, span), owner, "DECLARES", id)

-------------------------------------------------------------------------------
(* Reading the tree. *)

Names == {"name", "qualified_name", "relative_name"}
Skipped == {"comment", "text_interpolation", "text", "php_tag", "php_end_tag"}
OfKind(n, kind) == {c \in Children(n) : Kind(c) = kind}
Significant(n) == {c \in Children(n) : Kind(c) \notin {"comment", "text_interpolation"}}
AtMostLast(S) == IF S = {} THEN {} ELSE {Last(S)}
AtMostFirst(S) == IF S = {} THEN {} ELSE {First(S)}

LastName(n) == IF Kind(n) = "name" THEN {n} ELSE AtMostLast(OfKind(n, "name"))
LastNames(S) == UNION {LastName(n) : n \in S}
VariableIdentifier(n) ==
  UNION {AtMostFirst(OfKind(v, "name")) : v \in IF Kind(n) = "by_ref" THEN OfKind(n, "variable_name") ELSE {n}}
(* The names a possibly qualified one is written with. *)
Path(n) == Gather({m \in Inside(n) : Kind(m) = "name"}, LAMBDA m : <<Text(m)>>)

RECURSIVE TypeRefs(_)
TypeRefs(n) ==
  CASE Kind(n) \in Names -> LastName(n)
    [] Kind(n) \in {"primitive_type", "bottom_type"} -> {}
    [] OTHER -> UNION {TypeRefs(c) : c \in Children(n)}

NamespaceName(definition) == Gather(Fields(definition, "name"), Path)

-------------------------------------------------------------------------------
(* The environment. *)

Qualify(e, name) == Append(e.scope, name)
Pushed(e, scope, owner, kind) ==
  [e EXCEPT !.scope = scope, !.owner = owner, !.kind = kind, !.class = IF kind = "CLASS" THEN scope ELSE @]
TopOf(namespace) == [scope |-> namespace, owner |-> FileId, kind |-> "FILE", class |-> <<>>, params |-> <<>>]

(* `namespace A;` holds until the next one: what the walk of the file's    *)
(* statements starts n in.                                                 *)
ScopeAt(n) ==
  LET before == {d \in OfKind(Root, "namespace_definition") : d < n /\ ~ Has(d, "body")}
  IN  TopOf(IF before = {} THEN here.namespace ELSE NamespaceName(Last(before)))

-------------------------------------------------------------------------------
(* Values that are callables, and the holders of callables. *)

IsFirstClass(call) == \E a \in Fields(call, "arguments") : OfKind(a, "variadic_placeholder") # {}
CallbackFunctions == {"array_map", "usort"}
IsCallbackCall(call) ==
  \E f \in Fields(call, "function") : Kind(f) \in Names /\ Text(The(LastName(f))) \in CallbackFunctions
Value(argument) == AtMostLast(Children(argument))
ArgumentsOf(list) == OfKind(list, "argument")

RECURSIVE CallableValue(_)
(* The token a callable that v writes out is noted at. *)
CallableValue(v) ==
  LET elements == OfKind(v, "array_element_initializer")
      written == UNION {Children(m) : m \in AtMostLast(elements)}
      ofClosure == \E s \in Fields(v, "scope") : Text(s) = "Closure"
      inner == UNION {Value(a) : a \in AtMostFirst(UNION {ArgumentsOf(l) : l \in Fields(v, "arguments")})}
  IN  CASE Kind(v) = "string" -> {w \in {v} : Text(w) # ""}
        [] Kind(v) = "array_creation_expression" ->
             IF Cardinality(elements) = 2 THEN {m \in written : Kind(m) = "string" /\ Text(m) # ""} ELSE {}
        [] Kind(v) = "parenthesized_expression" -> UNION {CallableValue(c) : c \in AtMostFirst(Children(v))}
        [] Kind(v) = "function_call_expression" /\ IsFirstClass(v) -> LastNames(Fields(v, "function"))
        [] Kind(v) \in {"member_call_expression", "scoped_call_expression"} /\ IsFirstClass(v) ->
             {m \in Fields(v, "name") : Kind(m) = "name"}
        [] Kind(v) = "scoped_call_expression" /\ ofClosure -> UNION {CallableValue(c) : c \in inner}
        [] OTHER -> {}

CallableLiterals(call) ==
  IF ~ IsCallbackCall(call) THEN {}
  ELSE {p \in UNION {CallableValue(v) : v \in UNION {Value(a) : a \in
          UNION {ArgumentsOf(l) : l \in Fields(call, "arguments")}}} : Kind(p) = "string"}

(* A parameter of an enclosing named function, else a local of the         *)
(* innermost one or of the file.                                           *)
VariableHolder(name, e) ==
  LET holding == {i \in DOMAIN e.params : name \in e.params[i].names}
      owner == IF e.params = <<>> THEN <<here.file>> ELSE e.params[Len(e.params)].qname
  IN  IF name = "this" THEN {}
      ELSE IF holding # {} THEN {Id("PARAMETER", Append(e.params[Last(holding)].qname, name))}
      ELSE {Id("VARIABLE", Append(owner, name))}

OwnMember(n) ==
  IF Kind(n) = "member_access_expression"
     /\ \E o \in Fields(n, "object") : Kind(o) = "variable_name" /\ \A i \in VariableIdentifier(o) : Text(i) = "this"
  THEN {m \in Fields(n, "name") : Kind(m) = "name"} ELSE {}
PropertyHolder(n, e) ==
  {Id("ATTRIBUTE", Append(e.class, Text(m))) : m \in {k \in OwnMember(n) : e.class # <<>>}}

TargetHolder(left, e) ==
  IF Kind(left) = "variable_name" THEN UNION {VariableHolder(Text(i), e) : i \in VariableIdentifier(left)}
  ELSE PropertyHolder(left, e)

(* What a value is made of: callables written out, and other holders.      *)
RECURSIVE ValueParts(_, _)
ValueParts(v, e) ==
  LET fields(names) == UNION {ValueParts(c, e) : c \in UNION {Fields(v, f) : f \in names}}
  IN  IF CallableValue(v) # {} THEN CallableValue(v)
      ELSE CASE Kind(v) = "variable_name" -> {i \in VariableIdentifier(v) : VariableHolder(Text(i), e) # {}}
             [] Kind(v) = "parenthesized_expression" -> UNION {ValueParts(c, e) : c \in AtMostFirst(Children(v))}
             [] Kind(v) = "conditional_expression" -> fields({"body", "alternative"})
             [] Kind(v) = "binary_expression" /\ \E o \in Fields(v, "operator") : Kind(o) = "??" ->
                  fields({"left", "right"})
             [] OTHER -> {}
HolderAt(p, e) ==
  IF Kind(Up(p)) = "variable_name" /\ tree[Up(p)].field # "function" THEN VariableHolder(Text(p), e) ELSE {}

(* A note of what a holder holds, is handed to or is called for. *)
FlowNote(role, p, e, to, from, call) == Note(role, p, e.owner, "", call) @@ [to |-> to, from |-> from]

AssignmentNotes(left, right, e) ==
  LET holder == TargetHolder(left, e)
  IN  IF holder = {} THEN <<>>
      ELSE Gather(ValueParts(right, e), LAMBDA p : <<FlowNote("alias", p, e, holder, HolderAt(p, e), 0)>>)

(* A statement of the body itself that gives a parameter a known value     *)
(* that does not read it.                                                  *)
OverwriteNotes(n, left, right, e) ==
  LET own == IF e.params = <<>> THEN {}
             ELSE {Id("PARAMETER", Append(e.params[Len(e.params)].qname, x)) : x \in e.params[Len(e.params)].names}
      holder == TargetHolder(left, e) \cap own
      block == Up(Up(n))
      reads == {v \in Inside(right) : Kind(v) = "variable_name" /\
                  \E i \in VariableIdentifier(v) : \A l \in VariableIdentifier(left) : Text(i) = Text(l)}
      certain == /\ Kind(left) = "variable_name"
                 /\ Kind(Up(n)) = "expression_statement" /\ Kind(block) = "compound_statement"
                 /\ Kind(Up(block)) \in {"function_definition", "method_declaration"} /\ tree[block].field = "body"
                 /\ ValueParts(right, e) # {} /\ reads = {}
  IN  IF certain /\ holder # {} THEN <<FlowNote("overwrite", left, e, holder, {}, 0)>> ELSE <<>>

(* What a call is handed, tied to it by its callee's name. *)
ArgumentNotes(sites, list, e) ==
  Gather(sites, LAMBDA site : Gather(ArgumentsOf(list), LAMBDA a : Gather(Value(a), LAMBDA v :
    Gather(ValueParts(v, e), LAMBDA p : <<FlowNote("callarg", p, e, {}, HolderAt(p, e), site)>>))))

HolderCall(S, e) ==
  Gather({i \in S : VariableHolder(Text(i), e) # {}},
         LAMBDA i : <<FlowNote("paramcall", i, e, {}, VariableHolder(Text(i), e), 0)>>)

-------------------------------------------------------------------------------
(* The walk. *)

RecordType(g, types, id) == Noting(g, Noted("annotation", UNION {TypeRefs(t) : t \in types}, id, ""))
Recorded(g, role, S, e) == Noting(g, Noted(role, S, e.owner, ""))

LongestModule(path) ==
  LET lengths == {k \in DOMAIN path : SubSeq(path, 1, k) \in here.modules}
  IN  IF lengths = {} THEN {} ELSE {Id("MODULE", SubSeq(path, 1, Last(lengths)))}

(* An import is the node of its local name; it leads to the module of its  *)
(* longest prefix, and what it names is asked.                             *)
EmitImport(g, clause, prefix, e) ==
  LET named == First({c \in Children(clause) : Kind(c) \in {"qualified_name", "name"}})
      path == prefix \o Path(named)
      alias == Fields(clause, "alias")
      id == Id("IMPORT", Qualify(e, IF alias = {} THEN path[Len(path)] ELSE Text(The(alias))))
      internal == IF Head(path) \in here.internal THEN LongestModule(path) ELSE {}
      target == IF internal # {} THEN The(internal) ELSE Id("EXTERNAL_SYMBOL", path)
      declared == External(DeclaredIn(g, e.owner, id, The(LastName(named)), clause), target)
      noted == Noting(Linking(declared, FileId, "IMPORTS", target), Noted("import", LastName(named), id, ""))
  IN  Linking(noted, id, "RESOLVES_TO", target)

VisitNamespaceUse(g, n, e) ==
  LET prefix == IF Has(n, "body") THEN Gather(AtMostFirst(OfKind(n, "namespace_name")), Path) ELSE <<>>
      holder == IF Has(n, "body") THEN The(Fields(n, "body")) ELSE n
  IN  InTurn(OfKind(holder, "namespace_use_clause"), g, LAMBDA s, c : EmitImport(s, c, prefix, e))

(* A used trait is a base; in `A::f insteadof B` and `f as g` the traits   *)
(* are bases again and the methods are read.                               *)
TraitClause(g, clause, e) ==
  LET parts == Significant(clause)
      qualified == {p \in parts : Kind(p) = "class_constant_access_expression"}
      method == UNION {AtMostLast(Significant(p)) : p \in qualified}
      first == IF qualified = {} THEN AtMostFirst(OfKind(clause, "name")) ELSE {}
      others == IF Kind(clause) = "use_instead_of_clause" THEN OfKind(clause, "name") \ first ELSE {}
      traits == UNION {LastNames(AtMostFirst(Significant(p))) : p \in qualified} \cup others
  IN  Recorded(Recorded(g, "base", traits, e), "read", {m \in method : Kind(m) = "name"} \cup first, e)

VisitTraitUse(g, n, e) ==
  LET used == LastNames({c \in Children(n) : Kind(c) \in Names})
      clauses == {c \in UNION {Children(l) : l \in OfKind(n, "use_list")} :
                    Kind(c) \in {"use_instead_of_clause", "use_as_clause"}}
  IN  InTurn(clauses, Recorded(g, "base", used, e), LAMBDA s, c : TraitClause(s, c, e))

RECURSIVE Visit(_, _, _), VisitAll(_, _, _), RecordMember(_, _, _, _), ScanTarget(_, _, _), DeclareClass(_, _, _, _, _),
          HandleFunction(_, _, _), ExtractParameter(_, _, _, _, _), VisitUnnamedCallable(_, _, _),
          VisitMembers(_, _, _), VisitFunctionCall(_, _, _), VisitObjectCreation(_, _, _)

VisitAll(g, S, e) == InTurn(S, g, LAMBDA s, n : Visit(s, n, e))
VisitChildren(g, n, e) == VisitAll(g, Children(n), e)
VisitField(g, n, field, e) == VisitAll(g, Fields(n, field), e)
VisitAttributes(g, n, e) == VisitAll(g, UNION {Children(l) : l \in Fields(n, "attributes")}, e)
VisitHooks(g, n, e) == VisitAll(g, UNION {Children(l) : l \in AtMostFirst(OfKind(n, "property_hook_list"))}, e)

(* A label of a named argument is no expression. *)
ScanArguments(g, lists, e) ==
  VisitAll(g, UNION {Children(a) \ Fields(a, "name") : a \in UNION {Children(l) : l \in lists}}, e)

(* Attributes, bases and members are the class's own. *)
DeclareClass(g, n, name, at, e) ==
  LET id == Id("CLASS", Qualify(e, name))
      inner == Pushed(e, Qualify(e, name), id, "CLASS")
      clauses == {c \in Significant(n) : Kind(c) \in {"base_clause", "class_interface_clause"}}
      open == VisitAttributes(DeclaredIn(g, e.owner, id, at, n), n, inner)
      based == Recorded(open, "base", UNION {TypeRefs(c) : c \in clauses}, inner)
  IN  VisitAll(based, UNION {Children(b) : b \in Fields(n, "body")}, inner)

HandleClass(g, n, e) ==
  InTurn(Fields(n, "name"), g, LAMBDA s, m : DeclareClass(s, n, Text(m), m, e))

(* Its keyword stands for its name; its arguments are not its own. *)
HandleAnonymousClass(g, n, e) ==
  ScanArguments(DeclareClass(g, n, "class@" \o ToString(n), The(OfKind(n, "class")), e),
                AtMostFirst(OfKind(n, "arguments")), e)

Simple == {"simple_parameter", "variadic_parameter"}

(* Mutant: the parameter keeps the name that it gives its property.        *)
ExtractParameterNamed(g, p, ident, f, class) ==
  LET id == Id("PARAMETER", Qualify(f, Text(ident)))
      typed == RecordType(VisitHooks(VisitAttributes(DeclaredIn(g, f.owner, id, ident, p), p, f), p, f), Fields(p, "type"), id)
  IN  VisitField(typed, p, "default_value", f)

(* A promoted parameter is a property of the class too, which its name     *)
(* stands for.                                                             *)
ExtractParameter(g, p, ident, f, class) ==
  LET promoted == Kind(p) = "property_promotion_parameter"
      id == Id("PARAMETER", Qualify(f, Text(ident)))
      property == Id("ATTRIBUTE", Append(class.scope, Text(ident)))
      declared == DeclaredIn(g, f.owner, id, IF promoted THEN 0 ELSE ident, p)
      typed == RecordType(VisitHooks(VisitAttributes(declared, p, f), p, f), Fields(p, "type"), id)
      read == VisitField(typed, p, "default_value", f)
  IN  IF promoted /\ class.kind = "CLASS"
      THEN RecordType(DeclaredIn(read, class.owner, property, ident, p), Fields(p, "type"), property)
      ELSE read

HandleFunction(g, n, e) ==
  LET name == The(Fields(n, "name"))
      kind == IF e.kind = "CLASS" THEN "METHOD" ELSE "FUNCTION"
      id == Id(kind, Qualify(e, Text(name)))
      inner == Pushed(e, id[2], id, kind)
      parameters == UNION {Children(l) : l \in Fields(n, "parameters")}
      declaring == {p \in parameters : Kind(p) \in Simple \cup {"property_promotion_parameter"}}
      names == {Text(i) : i \in UNION {VariableIdentifier(v) : v \in
                  UNION {Fields(p, "name") : p \in {q \in parameters : Kind(q) \in Simple}}}}
      open == VisitAttributes(DeclaredIn(g, e.owner, id, name, n), n, inner)
      typed == RecordType(open, Fields(n, "return_type"), id)
      extracted == InTurn(declaring, typed, LAMBDA s, p :
        InTurn(UNION {VariableIdentifier(v) : v \in Fields(p, "name")}, s,
               LAMBDA t, i : ExtractParameter(t, p, i, inner, e)))
  IN  VisitAll(extracted, UNION {Children(b) : b \in Fields(n, "body")},
               [inner EXCEPT !.params = Append(@, [qname |-> id[2], names |-> names])])

(* A closure or a hook: its types are those of what is around it. *)
VisitUnnamedCallable(g, n, e) ==
  LET parameters == UNION {Children(l) : l \in Fields(n, "parameters")}
      typed == InTurn(parameters, g, LAMBDA s, p :
                 VisitField(RecordType(s, Fields(p, "type"), e.owner), p, "default_value", e))
  IN  VisitField(RecordType(typed, Fields(n, "return_type"), e.owner), n, "body", e)

(* The elements of a property, a constant, an enum case or `static`: the   *)
(* declaration's type is every element's, its value is the scope's.        *)
VisitMembers(g, n, e) ==
  LET kind == IF Kind(n) \in {"property_declaration", "enum_case"} \/ (Kind(n) = "const_declaration" /\ e.kind = "CLASS")
              THEN "ATTRIBUTE" ELSE "VARIABLE"
      elements == IF Kind(n) = "enum_case" THEN {n}
                  ELSE {c \in Children(n) : Kind(c) \in {"property_element", "const_element", "static_variable_declaration"}}
      name(m) == IF Kind(m) = "const_element" THEN First(OfKind(m, "name"))
                 ELSE IF Kind(m) = "enum_case" THEN The(Fields(m, "name"))
                 ELSE The(VariableIdentifier(The(Fields(m, "name"))))
      values(m) == IF Kind(m) = "const_element" THEN {c \in Children(m) : c > name(m)}
                   ELSE Fields(m, "default_value") \cup Fields(m, "value")
      element(s, m) ==
        LET id == Id(kind, Qualify(e, Text(name(m))))
        IN  VisitAll(RecordType(DeclaredIn(s, e.owner, id, name(m), m), Fields(n, "type"), id), values(m), e)
  IN  VisitHooks(VisitAttributes(InTurn(elements, g, element), n, e), n, e)

(* The member of an access or a call, and its receiver. *)
RecordMember(g, role, n, e) ==
  LET name == Fields(n, "name")
      computed == {m \in name : Kind(m) = "variable_name"}
      plain == {m \in name : Kind(m) = "name"}
      held == IF Kind(n) = "scoped_property_access_expression" \/ role = "call"
              THEN UNION {VariableIdentifier(m) : m \in computed} ELSE {}
      noted == Recorded(g, role, plain \cup held, e)
      rest == IF held = {} THEN name \ plain ELSE {}
      receiver == IF Has(n, "object") THEN Fields(n, "object") ELSE Fields(n, "scope")
  IN  VisitAll(VisitAll(noted, rest, e), receiver, e)

Accesses == {"member_access_expression", "nullsafe_member_access_expression", "scoped_property_access_expression"}
ScanTarget(g, n, e) ==
  CASE Kind(n) \in Accesses -> RecordMember(g, "write", n, e)
    [] Kind(n) \in {"list_literal", "pair", "by_ref"} -> InTurn(Children(n), g, LAMBDA s, c : ScanTarget(s, c, e))
    [] OTHER -> Visit(g, n, e)

VisitAssignment(g, n, e) ==
  LET scanned == InTurn(Fields(n, "left"), g, LAMBDA s, l : ScanTarget(s, l, e))
      visited == VisitField(scanned, n, "right", e)
      left == The(Fields(n, "left"))
      right == The(Fields(n, "right"))
  IN  IF Kind(n) # "assignment_expression" THEN visited
      ELSE Noting(visited, AssignmentNotes(left, right, e) \o OverwriteNotes(n, left, right, e))

LanguageConstructs == {"isset", "eval"}
VisitFunctionCall(g, n, e) ==
  LET f == The(Fields(n, "function"))
      lists == Fields(n, "arguments")
      construct == Kind(f) = "name" /\ Text(f) \in LanguageConstructs
      inner == AtMostFirst(Children(f))
      held == UNION {OwnMember(i) : i \in inner}
      called ==
        CASE Kind(f) \in Names ->
               IF construct THEN g ELSE Recorded(g, IF IsFirstClass(n) THEN "read_callable" ELSE "call", LastName(f), e)
          [] Kind(f) = "variable_name" ->
               Noting(Recorded(g, "call", VariableIdentifier(f), e), HolderCall(VariableIdentifier(f), e))
          [] Kind(f) = "parenthesized_expression" ->
               Visit(Noting(g, Gather({m \in held : e.class # <<>>}, LAMBDA m :
                 <<FlowNote("paramcall", m, e, {}, UNION {PropertyHolder(i, e) : i \in inner}, 0)>>)), f, e)
          [] OTHER -> Visit(g, f, e)
      scanned == ScanArguments(called, lists, e)
      literal == Recorded(scanned, "call", CallableLiterals(n), e)
      variables == UNION {VariableIdentifier(v) : v \in {w \in UNION {Value(a) : a \in UNION {Children(l) : l \in lists}} :
                                                           Kind(w) = "variable_name"}}
  IN  IF IsCallbackCall(n) THEN Noting(literal, HolderCall(variables, e))
      ELSE IF IsFirstClass(n) \/ construct THEN literal
      ELSE Noting(literal, Gather(lists, LAMBDA l : ArgumentNotes(LastName(f), l, e)))

VisitMemberCall(g, n, e) ==
  LET role == IF IsFirstClass(n) THEN "read_callable" ELSE "call"
      scanned == ScanArguments(RecordMember(g, role, n, e), Fields(n, "arguments"), e)
      site == {m \in Fields(n, "name") : Kind(m) = "name" /\ role = "call"}
  IN  Noting(scanned, Gather(Fields(n, "arguments"), LAMBDA l : ArgumentNotes(site, l, e)))

VisitObjectCreation(g, n, e) ==
  LET site == LastNames(AtMostFirst({c \in Significant(n) : Kind(c) \in Names}))
      part(s, c) ==
        CASE Kind(c) = "anonymous_class" -> HandleAnonymousClass(s, c, e)
          [] Kind(c) = "arguments" -> Noting(ScanArguments(s, {c}, e), ArgumentNotes(site, c, e))
          [] Kind(c) \in Names -> Recorded(s, "call", LastName(c), e)
          [] Kind(c) = "relative_scope" -> Recorded(s, "call", {c}, e)
          [] Kind(c) = "variable_name" -> Recorded(s, "call", VariableIdentifier(c), e)
          [] OTHER -> Visit(s, c, e)
  IN  InTurn(Significant(n), g, part)

(* `x instanceof C` mentions a type. *)
VisitBinary(g, n, e) ==
  LET tested == {r \in Fields(n, "right") : Kind(r) \in Names /\ \E o \in Fields(n, "operator") : Kind(o) = "instanceof"}
  IN  IF LastNames(tested) = {} THEN VisitChildren(g, n, e)
      ELSE VisitField(Recorded(g, "annotation", LastNames(tested), e), n, "left", e)

(* The first and the last of `C::X`; `C::class` ends in a keyword. *)
VisitClassConstant(g, n, e) ==
  LET parts == Significant(n)
  IN  Recorded(VisitAll(g, AtMostFirst(parts), e), "read",
               {m \in AtMostLast(parts) : Cardinality(parts) > 1 /\ Kind(m) = "name"}, e)

MagicConstants == {"__DIR__", "__CLASS__"}
Visit(g, n, e) ==
  CASE Kind(n) \in Skipped \cup {"variable_name"} -> g
    [] Kind(n) = "namespace_definition" ->
         VisitAll(g, UNION {Children(b) : b \in Fields(n, "body")}, Pushed(e, NamespaceName(n), e.owner, e.kind))
    [] Kind(n) \in {"class_declaration", "interface_declaration", "trait_declaration", "enum_declaration"} -> HandleClass(g, n, e)
    [] Kind(n) \in {"function_definition", "method_declaration"} -> HandleFunction(g, n, e)
    [] Kind(n) \in {"property_declaration", "const_declaration", "enum_case", "function_static_declaration"} -> VisitMembers(g, n, e)
    [] Kind(n) = "use_declaration" -> VisitTraitUse(g, n, e)
    [] Kind(n) = "namespace_use_declaration" -> VisitNamespaceUse(g, n, e)
    [] Kind(n) \in {"anonymous_function", "arrow_function", "property_hook"} -> VisitUnnamedCallable(g, n, e)
    [] Kind(n) = "function_call_expression" -> VisitFunctionCall(g, n, e)
    [] Kind(n) \in {"member_call_expression", "nullsafe_member_call_expression", "scoped_call_expression"} -> VisitMemberCall(g, n, e)
    [] Kind(n) = "object_creation_expression" -> VisitObjectCreation(g, n, e)
    [] Kind(n) = "attribute" ->
         ScanArguments(Recorded(g, "call", LastNames(AtMostFirst({c \in Children(n) : Kind(c) \in Names})), e), Fields(n, "parameters"), e)
    [] Kind(n) \in Accesses -> RecordMember(g, "read", n, e)
    [] Kind(n) = "class_constant_access_expression" -> VisitClassConstant(g, n, e)
    [] Kind(n) \in {"assignment_expression", "augmented_assignment_expression", "reference_assignment_expression"} -> VisitAssignment(g, n, e)
    [] Kind(n) = "update_expression" -> InTurn(Fields(n, "argument"), g, LAMBDA s, a : ScanTarget(s, a, e))
    [] Kind(n) = "binary_expression" -> VisitBinary(g, n, e)
    [] Kind(n) = "catch_clause" -> VisitField(RecordType(g, Fields(n, "type"), e.owner), n, "body", e)
    [] Kind(n) \in Names -> Recorded(g, "read", {m \in LastName(n) : Kind(n) # "name" \/ Text(m) \notin MagicConstants}, e)
    [] Kind(n) = "relative_scope" -> Recorded(g, "read", {n}, e)
    [] OTHER -> VisitChildren(g, n, e)
===============================================================================
