---------------------------- MODULE TypeScriptVisitor ----------------------------
(***************************************************************************)
(* TsVisitor (src/src/typescript/visitor.rs, type_uses.rs): one walk over  *)
(* a TypeScript file that writes its declarations and imports, and notes   *)
(* the names it calls, reads, writes and mentions as types.                *)
(*                                                                         *)
(* The visitor's stacks are an environment e: the qualified name, the node *)
(* and the node kind on top of them, the nearest class, and whether it is  *)
(* inside a `declare` or in a namespace that is; and `by`, the node that   *)
(* what is read belongs to, which a decorator or a default sets apart from *)
(* the container.                                                          *)
(***************************************************************************)
EXTENDS ValueNotes

(* `here` has, besides the file and its module, the modules of the files   *)
(* walked so far, every name that is reserved for a file or a directory,   *)
(* the top names that are internal, the name of the source root and the    *)
(* rewritten heads of paths.  A graph has, besides what all have, the      *)
(* positions of the file that are used as names, and the overload          *)
(* signatures that wait for their function.                                *)

-------------------------------------------------------------------------------
(* Reading the tree. *)

Uncommented(n) == {c \in Children(n) : Kind(c) # "comment"}
AllFields(S, field) == UNION {Fields(n, field) : n \in S}
AllChildren(S) == UNION {Children(n) : n \in S}

Functions == {"arrow_function", "function", "function_expression"}
Namespaces == {"internal_module", "module"}
Assigning == {"assignment_expression", "augmented_assignment_expression"}
IsMethodOfObject(n) == Kind(n) = "method_definition" /\ Kind(Up(n)) = "object"

(* The name a chain of members ends in; a private one is not asked for. *)
PlainName(n) ==
  CASE Kind(n) = "identifier" -> {n}
    [] Kind(n) = "member_expression" -> {p \in {Last(Children(n))} : Kind(p) = "property_identifier"}
    [] OTHER -> {}
CalleeName(call) == PlainName(First(Children(call)))
PropertyOf(member) == {p \in Fields(member, "property") : Kind(p) \in {"property_identifier", "private_property_identifier"}}

(* A key that is written out, an identifier as if it were a string. *)
KeyKinds == {"property_identifier", "identifier", "shorthand_property_identifier",
             "shorthand_property_identifier_pattern", "string", "number"}
KnownKeys(S) == {k \in S : Kind(k) \in KeyKinds}
KeyOfAny(S) == IF KnownKeys(S) = {} THEN Wild ELSE LiteralKey(The(KnownKeys(S)))

(* The name of a member; a computed one has none. *)
MemberName(n) ==
  {m \in Fields(n, "name") : Kind(m) \in {"property_identifier", "private_property_identifier", "identifier", "number", "string"}}

-------------------------------------------------------------------------------
(* The names a type mentions (type_uses.rs): types by their kind of token, *)
(* values they are reached through by another.                             *)

Wrapping == {"export_statement", "ambient_declaration"}
DeclaresInfer(n, x) ==
  \E i \in OfKinds(n, {"infer_type"}) : \E t \in AtMostFirst(Children(i)) : Kind(t) = "type_identifier" /\ Text(t) = x
DeclaresTypeParameter(n, x) ==
  \E p \in AllChildren(OfKind(n, "type_parameters")) : \E m \in Fields(p, "name") : Text(m) = x
IsBound(n) ==
  \E a \in Above(n) :
    \/ DeclaresTypeParameter(a, Text(n))
    \/ Kind(a) = "index_signature" /\ \E k \in AllFields(OfKind(a, "mapped_type_clause"), "name") : Text(k) = Text(n)
    \/ Kind(a) = "conditional_type" /\ \E r \in Fields(a, "right") : DeclaresInfer(r, Text(n))

RECURSIVE TypeUses(_), ValueChain(_)
ValueChain(n) ==
  CASE Kind(n) \in {"identifier", "property_identifier"} -> {n}
    [] Kind(n) \in {"member_expression", "nested_identifier"} -> UNION {ValueChain(c) : c \in Children(n)}
    [] Kind(n) = "instantiation_expression" ->
         UNION {ValueChain(c) : c \in Fields(n, "function")} \cup UNION {TypeUses(c) : c \in Fields(n, "type_arguments")}
    [] OTHER -> {}
TypeUses(n) ==
  CASE Kind(n) = "type_identifier" -> {t \in {n} : ~ IsBound(t)}
    [] Kind(n) = "nested_type_identifier" -> Fields(n, "name") \cup UNION {ValueChain(c) : c \in Fields(n, "module")}
    [] Kind(n) = "type_query" -> UNION {ValueChain(c) : c \in Children(n)}
    [] Kind(n) = "infer_type" ->
         UNION {TypeUses(c) : c \in Children(n) \ {t \in AtMostFirst(Children(n)) : Kind(t) = "type_identifier"}}
    [] Kind(n) \in {"type_predicate", "mapped_type_clause"} ->
         UNION {TypeUses(c) : c \in Fields(n, "type") \cup Fields(n, "alias")}
    [] OTHER -> UNION {TypeUses(c) : c \in Children(n)}

(* The constraints and defaults of the type parameters of a declaration. *)
TypeParameters(n) ==
  LET params == AllChildren(OfKind(n, "type_parameters")) IN AllFields(params, "constraint") \cup AllFields(params, "value")

(* The bases of an inheritance list, and the other names in it. *)
NameIn(head) == IF Kind(head) = "nested_type_identifier" THEN Fields(head, "name") ELSE {head}
BaseNode(c) ==
  CASE Kind(c) \in {"identifier", "type_identifier", "nested_type_identifier"} -> NameIn(c)
    [] Kind(c) = "member_expression" -> {Last(Children(c))}
    [] Kind(c) = "generic_type" -> UNION {NameIn(h) : h \in Fields(c, "name")}
    [] OTHER -> {}
HeritageUses(c) ==
  CASE Kind(c) = "member_expression" -> UNION {ValueChain(o) : o \in Fields(c, "object")}
    [] Kind(c) \in {"nested_type_identifier", "generic_type", "type_arguments"} -> TypeUses(c) \ BaseNode(c)
    [] OTHER -> {}

-------------------------------------------------------------------------------
(* The environment. *)

Under(e, name) == Append(e.scope, name)
Pushed(e, id) ==
  [e EXCEPT !.scope = id[2], !.owner = id, !.by = id, !.kind = id[1], !.class = IF id[1] = "CLASS" THEN id[2] ELSE @]
By(e, id) == [e EXCEPT !.by = id]
TopOf == [scope |-> here.module, owner |-> FileId, by |-> FileId, kind |-> "FILE", class |-> <<>>,
          ambient |-> FALSE, ns |-> FALSE]

-------------------------------------------------------------------------------
(* Notes. *)

Use(g, role, S, enc, of, detail) ==
  [RecordedWith(g, role, S, enc, of, detail) EXCEPT !.named = @ \cup IF role \in {"read", "write", "call"} THEN S ELSE {}]
Uses(g, role, S, enc) == Use(g, role, S, enc, 0, Given)

(* A member's name, unless the position is used already. *)
RecordSite(g, role, S, enc, value) == Use(g, role, S \ g.named, enc, 0, [Given EXCEPT !.value = value])
KeySite(g, S, enc) == RecordSite(g, "read", {k \in S : Kind(k) \in {"property_identifier", "string"}}, enc, "key")

TypesRecorded(g, n, enc, role) ==
  LET names == TypeUses(n)
      types == {t \in names : Kind(t) = "type_identifier"}
  IN  InTurn(names, g, LAMBDA s, t : Uses(s, IF t \in types THEN role ELSE "read", {t}, enc))

Aliased(g, S, enc, path, detail) == RecordedWith(g, "alias", S, enc, 0, [detail EXCEPT !.path = path])

(* A declaration, and the further positions that declare it. *)
DeclaredAlso(g, owner, id, name, span, also) ==
  Linking([g EXCEPT !.nodes = @ @@ (id :> [Node(here.file, name, span) EXCEPT !.also = also])], owner, "DECLARES", id)

(* Mutant: a second declaration is forgotten. *)
DeclareOnce(g, owner, id, name, span) == IF id \in DOMAIN g.nodes THEN g ELSE DeclaredIn(g, owner, id, name, span)

(* A second declaration adds a position of the same file, and no node; the *)
(* positions of the names take the place of that of a function held.       *)
DeclareOrRedeclare(g, owner, id, name, span) ==
  IF id \notin DOMAIN g.nodes THEN DeclaredIn(g, owner, id, name, span)
  ELSE IF g.nodes[id].file # here.file THEN g
  ELSE [Linking(g, owner, "DECLARES", id) EXCEPT !.nodes[id].also = {n \in @ : Kind(n) \notin Functions} \cup {name}]

-------------------------------------------------------------------------------
(* Imports. *)

(* resolve_relative: from the directory of the module, which is its name   *)
(* but the last part. *)
Segments(string) == Texts(OfKind(string, "segment"))
IsRelative(string) == Head(Segments(string)) \in {".", ".."}
ButLast(path) == IF path = <<>> THEN path ELSE SubSeq(path, 1, Len(path) - 1)
ResolveRelative(current, segments) ==
  LET walk[i \in 0..Len(segments)] ==
        IF i = 0 THEN ButLast(current)
        ELSE CASE segments[i] \in {".", "index"} -> walk[i - 1]
               [] segments[i] = ".." -> ButLast(walk[i - 1])
               [] OTHER -> Append(walk[i - 1], segments[i])
  IN  IF walk[Len(segments)] = <<>> THEN <<Head(current)>> ELSE walk[Len(segments)]

(* A rewritten path loses the name of the source root. *)
Rewritten(path) ==
  IF Head(path) \notin DOMAIN here.aliases THEN path
  ELSE LET whole == here.aliases[Head(path)] \o Tail(path) IN IF Head(whole) = here.root THEN Tail(whole) ELSE whole
ModulePath(string, e) ==
  IF IsRelative(string) THEN ResolveRelative(e.scope, Segments(string)) ELSE Rewritten(Segments(string))
IsInternal(string, e) == IsRelative(string) \/ Head(ModulePath(string, e)) \in here.internal

(* The longest module a name begins with, of those of the files so far.    *)
LongestModule(path) ==
  LET lengths == {k \in DOMAIN path : SubSeq(path, 1, k) \in here.modules}
  IN  IF lengths = {} THEN {} ELSE {Id("MODULE", SubSeq(path, 1, Last(lengths)))}

EmitImport(g, local, path, internal, site, e) ==
  LET id == Id("IMPORT", e.scope \o local)
      known == IF internal THEN LongestModule(path) ELSE {}
      target == IF known # {} THEN The(known) ELSE Id("EXTERNAL_SYMBOL", path)
      bound == Uses(DeclaredIn(g, e.owner, id, 0, 0), "import", IF internal THEN site ELSE {}, id)
  IN  Linking(Linking(IF known = {} THEN External(bound, target) ELSE bound, FileId, "IMPORTS", target), id, "RESOLVES_TO", target)

(* A relative module string reads the module. *)
RecordModuleString(g, string, e) == Uses(g, "read", {s \in {string} : IsRelative(s)}, e.owner)

RecordExportSpecifiers(g, clauses, e) ==
  Uses(g, "read", {n \in AllFields(AllChildren(clauses), "name") : Kind(n) = "identifier"}, e.owner)

EmitReexport(g, n, string, e) ==
  LET internal == IsInternal(string, e)
      emitted == EmitImport(g, <<"reexport">> \o Segments(string), ModulePath(string, e), internal, {}, e)
  IN  IF ~ internal THEN emitted
      ELSE RecordExportSpecifiers(RecordModuleString(emitted, string, e), OfKind(n, "export_clause"), e)

(* What a clause binds: the local name, what it adds to the path, and the  *)
(* name that is asked for.  `default as x` has one identifier, x.          *)
Bindings(clause) ==
  OfKind(clause, "identifier") \cup OfKind(clause, "namespace_import")
    \cup {c \in UNION {OfKind(list, "import_specifier") : list \in OfKind(clause, "named_imports")} : OfKind(c, "identifier") # {}}
Binding(c) ==
  CASE Kind(c) = "identifier" -> [local |-> {c}, suffix |-> <<"default">>, site |-> {c}]
    [] Kind(c) = "namespace_import" -> [local |-> OfKind(c, "identifier"), suffix |-> <<>>, site |-> OfKind(c, "identifier")]
    [] OTHER -> [local |-> {Last(OfKind(c, "identifier"))}, suffix |-> Texts(AtMostFirst(OfKind(c, "identifier"))), site |-> Fields(c, "name")]

VisitImport(g, n, e) ==
  LET string == The(Fields(n, "source"))
      path == ModulePath(string, e)
      internal == IsInternal(string, e)
      clauses == OfKind(n, "import_clause")
      read == IF internal THEN RecordModuleString(g, string, e) ELSE g
      bind(s, c) == EmitImport(s, Texts(Binding(c).local), path \o Binding(c).suffix, internal, Binding(c).site, e)
  IN  IF ~ Has(n, "source") THEN g
      ELSE IF clauses = {} THEN EmitImport(read, <<"sideeffect">> \o Segments(string), path, internal, {}, e)
      ELSE InTurn(UNION {Bindings(c) : c \in clauses}, read, bind)

-------------------------------------------------------------------------------
(* The walk. *)

(* The handlers below call one another; what they are called for is named, *)
(* and `x` is what the call adds to the token and the environment.         *)
RECURSIVE Walk(_, _, _, _, _)
Visit(g, n, e) == Walk("visit", g, n, e, <<>>)
WalkStatement(g, n, e) == Walk("statement", g, n, e, <<>>)
ScanValue(g, n, e) == Walk("value", g, n, e, <<>>)
ScanCall(g, call, e, caller) == Walk("call", g, call, e, caller)
RecordTypeUses(g, n, enc, role, e) == Walk("types", g, n, e, [enc |-> enc, role |-> role])
RecordAliases(g, v, enc, path, depth, e) == Walk("alias", g, v, e, [enc |-> enc, path |-> path, depth |-> depth])

VisitAll(g, S, e) == InTurn(S, g, LAMBDA s, n : Visit(s, n, e))
ScanAll(g, S, e) == InTurn(S, g, LAMBDA s, n : ScanValue(s, n, e))
WalkAll(g, S, e) == InTurn(S, g, LAMBDA s, n : WalkStatement(s, n, e))
Annotated(g, types, id, e) == InTurn(types, g, LAMBDA s, t : RecordTypeUses(s, t, id, "annotation", e))
ReadTypes(g, types, e) == InTurn(types, g, LAMBDA s, t : RecordTypeUses(s, t, e.by, "read", e))

(* The body of a function: a block, or the expression of an arrow. *)
WalkBody(g, n, e) ==
  InTurn(Fields(n, "body"), g, LAMBDA s, b : IF Kind(b) = "statement_block" THEN WalkAll(s, Children(b), e) ELSE ScanValue(s, b, e))

-------------------------------------------------------------------------------
(* Values. *)

(* The left side of `a.b = v`: the property is written, the object read.   *)
(* A plain name on the left is not looked at.                              *)
ScanAssignmentTarget(g, lhs, e) ==
  IF Kind(lhs) # "member_expression" THEN g
  ELSE ScanAll(RecordSite(g, "write", PropertyOf(lhs), e.by, "member"), Fields(lhs, "object"), e)
Assigned(g, n, e) ==
  ScanAll(InTurn(Fields(n, "left"), g, LAMBDA s, l : ScanAssignmentTarget(s, l, e)), Fields(n, "right"), e)

(* A closure belongs to what contains it; its types are not looked at. *)
ScanClosure(g, n, e) ==
  WalkBody(ScanAll(g, AllFields(AllChildren(OfKind(n, "formal_parameters")), "value"), e), n, e)

(* The types in a value: of `x as T`, `f<T>`, and before it of `<T>x`. *)
Typing == {"as_expression", "satisfies_expression", "instantiation_expression"}
TypeOperands(n) ==
  IF Kind(n) \in {"as_expression", "satisfies_expression"}
  THEN {Last(Children(n))} \ {First(Children(n))} ELSE OfKind(n, "type_arguments")

NestedDefinitions == {"function_declaration", "generator_function_declaration", "class_declaration",
                      "abstract_class_declaration", "interface_declaration", "method_definition"}
AssignsMember(n) == Kind(n) \in Assigning /\ \E l \in Fields(n, "left") : Kind(l) = "member_expression"

ValueScanned(g, n, e) ==
  CASE Kind(n) \in Functions -> ScanClosure(g, n, e)
    [] IsMethodOfObject(n) -> ScanClosure(KeySite(g, Fields(n, "name"), e.by), n, e)
    [] Kind(n) \in NestedDefinitions /\ ~ IsMethodOfObject(n) -> g
    [] Kind(n) \in {"call_expression", "new_expression"} -> ScanCall(g, n, e, e.by)
    [] Kind(n) = "member_expression" -> ScanAll(RecordSite(g, "read", PropertyOf(n), e.by, "name"), Fields(n, "object"), e)
    [] AssignsMember(n) -> Assigned(g, n, e)
    [] Kind(n) \in {"identifier", "shorthand_property_identifier"} -> Uses(g, "read", {n}, e.by)
    [] Kind(n) \in Typing -> ReadTypes(ScanAll(g, Children(n) \ TypeOperands(n), e), TypeOperands(n), e)
    [] Kind(n) = "type_assertion" -> ScanAll(ReadTypes(g, TypeOperands(n), e), Children(n) \ TypeOperands(n), e)
    [] Kind(n) = "pair" -> ScanAll(KeySite(g, Fields(n, "key"), e.by), Fields(n, "value"), e)
    [] OTHER -> ScanAll(g, Children(n), e)

(* Library functions that call a function they are given. *)
CallsItsArguments == {
  "map", "forEach", "filter", "reduce", "reduceRight", "some", "every", "find", "findIndex", "findLast",
  "findLastIndex", "flatMap", "sort", "toSorted", "from", "then", "catch", "finally", "setTimeout", "setInterval",
  "setImmediate", "queueMicrotask", "requestAnimationFrame", "addEventListener", "on", "once", "addListener",
  "subscribe", "useEffect", "useLayoutEffect", "useMemo", "describe", "it", "test", "beforeEach", "afterEach",
  "beforeAll", "afterAll"}

KeyedBy(n, value) ==
  LET key == KnownKeys(Fields(n, "index"))
  IN  IF key = {} THEN Given ELSE [Given EXCEPT !.value = value, !.keys = <<LiteralKey(The(key))>>]

(* A call through a name, of which `f.call(x)` is also one of `f`. *)
CalledName(callee) == IF Kind(callee) = "member_expression" THEN {Last(Children(callee))} ELSE {callee}
CallNamed(g, callee, e, caller) ==
  LET name == CalledName(callee)
      called == Uses(ScanAll(g, Children(callee) \ name, e), "call", name, caller)
      forwarded == IF Text(The(name)) \in {"call", "apply"} /\ callee \notin name THEN PlainName(First(Children(callee))) ELSE {}
  IN  Use(called, "callarg", forwarded, e.by, The(name), Given)

(* A call of anything else: a constructor, the base class, what a call     *)
(* returns, what a container holds.                                        *)
CallOther(g, call, callee, e, caller) ==
  CASE Kind(call) = "new_expression" /\ PlainName(callee) # {} ->
         Uses(ScanAll(g, Children(callee) \ PlainName(callee), e), "call", PlainName(callee), caller)
    [] Kind(call) = "call_expression" /\ Kind(callee) = "super" -> Uses(g, "call", {callee}, caller)
    [] Kind(call) = "call_expression" /\ Kind(callee) = "call_expression" ->
         Use(ScanCall(g, callee, e, caller), "call", CalleeName(callee), caller, 0, ResultOf)
    [] Kind(call) = "call_expression" /\ Kind(callee) = "subscript_expression" ->
         Use(ScanValue(g, callee, e), "call", PlainName(First(Children(callee))), caller, 0, KeyedBy(callee, "keys"))
    [] OTHER -> ScanValue(g, callee, e)

IsNamed(call) == Kind(call) = "call_expression" /\ Kind(First(Children(call))) \in {"identifier", "member_expression"}
CallSite(call) ==
  LET callee == First(Children(call))
      sites == CASE IsNamed(call) -> CalledName(callee)
                 [] Kind(call) = "new_expression" -> PlainName(callee)
                 [] OTHER -> {s \in {callee} : Kind(s) = "super"}
  IN  IF sites = {} THEN 0 ELSE The(sites)

(* A name handed to a call says which of its arguments it is, and a name   *)
(* in an object under which key; the library calls what it is given.       *)
ScanArgument(g, call, a, e, site, index) ==
  LET passed == [Given EXCEPT !.via = "arg", !.slot = index]
      read == Use(ScanAll(g, Children(a) \ PlainName(a), e), "read", PlainName(a), e.by, site, passed)
      library == IsNamed(call) /\ Text(site) \in CallsItsArguments
      element(s, m) ==
        LET value == IF Kind(m) = "pair" THEN UNION {PlainName(v) : v \in Fields(m, "value")} ELSE {m}
            key == KnownKeys(IF Kind(m) = "pair" THEN Fields(m, "key") ELSE {m})
        IN  Use(s, "alias", IF key = {} THEN {} ELSE value, e.by, site, [passed EXCEPT !.path = <<KeyOfAny(key)>>])
  IN  CASE site # 0 /\ PlainName(a) # {} -> Use(read, "callarg", IF library THEN PlainName(a) ELSE {}, e.by, site, Given)
        [] site # 0 /\ Kind(a) = "object" ->
             ScanValue(InTurn(OfKind(a, "pair") \cup OfKind(a, "shorthand_property_identifier"), g, element), a, e)
        [] OTHER -> ScanValue(g, a, e)

(* The place of an argument counts every token before it in the list. *)
CallScanned(g, call, e, caller) ==
  LET callee == First(Children(call))
      called == IF IsNamed(call) THEN CallNamed(g, callee, e, caller) ELSE CallOther(g, call, callee, e, caller)
      arguments == AllChildren(OfKind(call, "arguments"))
  IN  InTurn(arguments, ReadTypes(called, Fields(call, "type_arguments"), e),
             LAMBDA s, a : ScanArgument(s, call, a, e, CallSite(call), ToString(IndexIn(a, arguments))))

(* What a value hands to a holder, under which keys of it. *)
BoundName(call) ==
  UNION {PlainName(First(Children(c))) : c \in {m \in OfKind(call, "member_expression") :
           m = First(Children(call)) /\ Text(Last(Children(m))) = "bind"}}
AliasesRecorded(g, v, x, e) ==
  LET Deeper(s, c, key) == RecordAliases(s, c, x.enc, Append(x.path, key), x.depth + 1, e)
      member(s, m) ==
        IF Kind(m) = "pair" THEN InTurn(Fields(m, "value"), s, LAMBDA t, c : Deeper(t, c, KeyOfAny(Fields(m, "key"))))
        ELSE Deeper(s, m, LiteralKey(m))
      elements == Uncommented(v)
  IN  CASE PlainName(v) # {} -> Aliased(g, PlainName(v), x.enc, x.path, Given)
        [] Kind(v) = "shorthand_property_identifier" -> Aliased(g, {v}, x.enc, x.path, Given)
        [] Kind(v) = "call_expression" ->
             IF BoundName(v) # {} THEN Aliased(g, BoundName(v), x.enc, x.path, Given)
             ELSE Aliased(g, CalleeName(v), x.enc, x.path, ResultOf)
        [] Kind(v) = "subscript_expression" -> Aliased(g, PlainName(First(Children(v))), x.enc, x.path, KeyedBy(v, "get"))
        [] Kind(v) \in {"parenthesized_expression", "as_expression", "non_null_expression", "satisfies_expression"} /\ x.depth < 3 ->
             RecordAliases(g, First(Children(v)), x.enc, x.path, x.depth + 1, e)
        [] Kind(v) = "object" /\ x.depth < 3 ->
             InTurn(OfKind(v, "pair") \cup OfKind(v, "shorthand_property_identifier"), g, member)
        [] Kind(v) = "array" /\ x.depth < 3 ->
             InTurn({c \in elements : Kind(c) # "spread_element"}, g, LAMBDA s, c : Deeper(s, c, Numbered(IndexIn(c, elements))))
        [] OTHER -> g

-------------------------------------------------------------------------------
(* Decorators. *)

(* A member's decorators are the siblings before it, an exported class's   *)
(* are on the export. *)
DecoratorsOf(n) ==
  LET siblings == Children(Up(n))
      before == {d \in siblings : d < n /\ \A s \in siblings : (d <= s /\ s < n) => Kind(s) \in {"decorator", "comment"}}
  IN  OfKind(n, "decorator") \cup {d \in before : Kind(d) = "decorator"}
        \cup IF Kind(Up(n)) = "export_statement" THEN OfKind(Up(n), "decorator") ELSE {}

(* A decorator is called by the container, and read by what it decorates. *)
ScanDecorators(g, decorators, id, e) ==
  LET one(s, c) ==
        CASE Kind(c) = "call_expression" -> Uses(ScanCall(s, c, By(e, id), e.owner), "read", CalleeName(c), id)
          [] Kind(c) \in {"identifier", "member_expression"} -> Uses(ScanValue(s, c, By(e, id)), "call", CalledName(c), e.owner)
          [] OTHER -> ScanValue(s, c, By(e, id))
  IN  InTurn(AllChildren(decorators), g, one)

-------------------------------------------------------------------------------
(* Parameters. *)

(* The elements of a pattern that bind a name, and the key they read. *)
Binds == {"identifier", "shorthand_property_identifier_pattern"}
BoundBy(element) ==
  LET value == IF Kind(element) = "pair_pattern" THEN Fields(element, "value") ELSE {element}
      inner == {IF Kind(v) \in {"assignment_pattern", "object_assignment_pattern", "rest_pattern"} THEN First(Children(v)) ELSE v : v \in value}
  IN  {n \in inner : Kind(n) \in Binds}
ElementsOf(pattern) ==
  {x \in Uncommented(pattern) : BoundBy(x) # {} /\ ~ (Kind(pattern) = "object_pattern" /\ Kind(x) = "rest_pattern")}

(* A rest has no key, nor has a computed one. *)
ReadsKey(pattern, x) ==
  CASE Kind(x) = "rest_pattern" \/ (Kind(x) = "pair_pattern" /\ KnownKeys(Fields(x, "key")) = {}) -> <<>>
    [] Kind(x) = "pair_pattern" /\ KnownKeys(Fields(x, "key")) # {} -> <<KeyOfAny(Fields(x, "key"))>>
    [] Kind(pattern) = "array_pattern" /\ Kind(x) # "rest_pattern" -> <<Numbered(IndexIn(x, Uncommented(pattern)))>>
    [] OTHER -> <<LiteralKey(The(BoundBy(x)))>>

(* An object pattern is a parameter of its own, in its place, and each     *)
(* name it unpacks a variable that holds what is under its key.            *)
DeclaredParameters(g, id) ==
  {i \in DOMAIN g.edges : g.edges[i].src = id /\ g.edges[i].kind = "DECLARES" /\ g.edges[i].tgt[1] = "PARAMETER"}
DestructuredParameter(g, p, pattern, id) ==
  LET whole == Id("PARAMETER", Append(id[2], "$param" \o ToString(Cardinality(DeclaredParameters(g, id)))))
      names == {x \in ElementsOf(pattern) : ReadsKey(pattern, x) # <<>> /\ \A n \in BoundBy(x) : Kind(Up(n)) # "assignment_pattern"}
      unpack(s, x) ==
        LET name == The(BoundBy(x))
            variable == Id("VARIABLE", Append(id[2], Text(name)))
        IN  RecordedWith(DeclaredIn(s, id, variable, name, x), "alias", {name}, variable, 0,
                         [Given EXCEPT !.value = "parameter", !.id = whole, !.keys = ReadsKey(pattern, x)])
  IN  InTurn(names, DeclaredIn(g, id, whole, 0, p), unpack)

ParameterName(p) ==
  LET from == IF OfKind(p, "rest_pattern") # {} THEN The(OfKind(p, "rest_pattern")) ELSE p
  IN  IF Kind(p) = "identifier" THEN {p} ELSE AtMostFirst(OfKind(from, "identifier"))

(* The function depends on a parameter's decorators, default and types. *)
ExtractParameter(g, p, id, e) ==
  LET default == Fields(p, "value")
      patterns == {q \in Fields(p, "pattern") : Kind(q) = "object_pattern"}
      name == ParameterName(p)
      parameter == Id("PARAMETER", Append(id[2], Text(The(name))))
      scanned == ScanAll(ScanDecorators(g, DecoratorsOf(p), id, e), default, By(e, id))
  IN  IF name # {}
      THEN Annotated(RecordedWith(DeclaredIn(scanned, id, parameter, The(name), p), "alias",
                                  UNION {PlainName(d) : d \in default}, parameter, 0, Given),
                     OfKind(p, "type_annotation"), id, e)
      ELSE InTurn(patterns, scanned, LAMBDA s, q : DestructuredParameter(s, p, q, id))
ExtractParameters(g, n, id, e) ==
  InTurn(AllChildren(OfKind(n, "formal_parameters")), g, LAMBDA s, p : ExtractParameter(s, p, id, e))

-------------------------------------------------------------------------------
(* Functions. *)

CallableKind(e) == IF e.kind = "CLASS" THEN "METHOD" ELSE "FUNCTION"

(* A function, under a name: also declared at the further positions that   *)
(* the checker may answer with. *)
HandleCallable(g, n, name, also, decorators, e) ==
  LET id == Id(CallableKind(e), Under(e, Text(name)))
      open == ScanDecorators(DeclaredAlso(g, e.owner, id, name, n, also), decorators, id, e)
      typed == Annotated(open, TypeParameters(n) \cup OfKind(n, "type_annotation"), id, e)
  IN  WalkBody(ExtractParameters(typed, n, id, Pushed(e, id)), n, Pushed(e, id))

(* A function held by a variable or a field is declared where it starts    *)
(* as well.                                                                *)
HandleLexicalFunction(g, name, value, e) == HandleCallable(g, value, name, {value}, {}, e)

(* An implementation takes the signatures that wait for it. *)
Waiting(g, qname) == IF qname \in DOMAIN g.overloads THEN g.overloads[qname] ELSE {}
Waits(g, qname, names) == [g EXCEPT !.overloads = (qname :> (Waiting(g, qname) \cup names)) @@ @]
HandleFunction(g, n, e) ==
  InTurn(AtMostFirst({c \in Children(n) : Kind(c) \in {"identifier", "property_identifier", "private_property_identifier"}}), g,
    LAMBDA s, name :
      HandleCallable([s EXCEPT !.overloads = [q \in DOMAIN @ \ {Under(e, Text(name))} |-> @[q]]],
                     n, name, Waiting(s, Under(e, Text(name))), DecoratorsOf(n), e))

(* A signature with no implementation to come is the function, declared at *)
(* every signature of its name in the block; another waits.                *)
NoImplementation(n, e) ==
  (e.ns /\ e.kind = "MODULE") \/ (e.kind = "FILE" /\ Kind(Up(n)) = "ambient_declaration")
SignaturesBeside(n, x) ==
  LET block == Last({a \in Above(n) : Kind(a) \notin Wrapping})
      signatures == {m \in OfKinds(block, {"function_signature"}) : \A a \in Above(m) : a > block => Kind(a) \in Wrapping}
  IN  {i \in UNION {OfKind(m, "identifier") : m \in signatures} : Text(i) = x}
VisitFunctionSignature(g, n, e) ==
  LET name == The(OfKind(n, "identifier"))
      qname == Under(e, Text(name))
  IN  IF ~ NoImplementation(n, e) THEN Waits(g, qname, {name})
      ELSE IF Id("FUNCTION", qname) \in DOMAIN g.nodes THEN g
      ELSE HandleFunction(Waits(g, qname, SignaturesBeside(n, Text(name))), n, e)

-------------------------------------------------------------------------------
(* Classes, interfaces, aliases, enumerations and namespaces. *)

HandleClass(g, n, e) ==
  LET name == First(IF OfKind(n, "type_identifier") # {} THEN OfKind(n, "type_identifier") ELSE OfKind(n, "identifier"))
      id == Id("CLASS", Under(e, Text(name)))
      inherits == AllChildren(OfKind(n, "extends_type_clause") \cup UNION {OfKind(h, "extends_clause") : h \in OfKind(n, "class_heritage")})
      open == ScanDecorators(DeclaredIn(g, e.owner, id, name, n), DecoratorsOf(n), id, e)
      based == Uses(open, "base", UNION {BaseNode(c) : c \in inherits}, id)
      typed == Annotated(based, TypeParameters(n), id, e)
  IN  VisitAll(Uses(typed, "read", UNION {HeritageUses(c) : c \in inherits}, id),
               AllChildren(OfKind(n, "class_body") \cup OfKind(n, "interface_body")), Pushed(e, id))

VisitPropertySignature(g, n, e) ==
  InTurn(MemberName(n), g, LAMBDA s, name :
    LET id == Id("ATTRIBUTE", Under(e, Text(name)))
    IN  Annotated(DeclareOrRedeclare(s, e.owner, id, name, n), OfKind(n, "type_annotation"), id, e))

VisitMethodSignature(g, n, e) ==
  InTurn(MemberName(n), g, LAMBDA s, name :
    LET id == Id("METHOD", Under(e, Text(name)))
        declared == DeclareOrRedeclare(s, e.owner, id, name, n)
    IN  ExtractParameters(Annotated(declared, TypeParameters(n) \cup OfKind(n, "type_annotation"), id, e), n, id, e))

(* A field that holds a function is a method; any other is written by its  *)
(* class.                                                                  *)
VisitPublicField(g, n, e) ==
  LET field(s, name) ==
        LET id == Id("ATTRIBUTE", Under(e, Text(name)))
            declared == ScanDecorators(DeclaredIn(s, e.owner, id, name, n), DecoratorsOf(n), id, e)
        IN  ScanAll(Annotated(Uses(declared, "write", {name}, e.owner), OfKind(n, "type_annotation"), id, e),
                    Fields(n, "value"), By(e, e.owner))
      held == {v \in Children(n) : Kind(v) \in Functions}
  IN  InTurn(AtMostFirst(OfKind(n, "property_identifier")), g, LAMBDA s, name :
        IF held # {} THEN HandleLexicalFunction(s, name, First(held), e) ELSE field(s, name))

(* The arms of an aliased type; the members of an object type are the      *)
(* alias's. *)
RECURSIVE AliasArms(_)
AliasArms(n) ==
  IF Kind(n) \in {"union_type", "intersection_type", "parenthesized_type"} THEN UNION {AliasArms(c) : c \in Children(n)} ELSE {n}
IsMember(c) == Kind(c) \in {"property_signature", "method_signature"} /\ MemberName(c) # {}
VisitTypeAlias(g, n, e) ==
  LET name == The(OfKind(n, "type_identifier"))
      id == Id("TYPE_ALIAS", Under(e, Text(name)))
      part(s, c) == IF IsMember(c) THEN Visit(s, c, Pushed(e, id)) ELSE RecordTypeUses(s, c, id, "annotation", e)
      parts(arm) == IF Kind(arm) = "object_type" THEN Uncommented(arm) ELSE {arm}
      arms == UNION {AliasArms(v) : v \in Fields(n, "value")}
  IN  Annotated(InTurn(UNION {parts(a) : a \in arms}, DeclaredIn(g, e.owner, id, name, n), part), TypeParameters(n), id, e)

VisitEnum(g, n, e) ==
  LET name == The(OfKind(n, "identifier"))
      id == Id("CLASS", Under(e, Text(name)))
      members == AllChildren(OfKind(n, "enum_body"))
      nameOf(m) == IF Kind(m) = "enum_assignment" THEN OfKind(m, "property_identifier") ELSE {p \in {m} : Kind(p) = "property_identifier"}
      declare(s, m) == InTurn(nameOf(m), s, LAMBDA t, i : DeclaredIn(t, id, Id("ATTRIBUTE", Append(id[2], Text(i))), i, m))
  IN  InTurn(members, DeclaredIn(g, e.owner, id, name, n), declare)

(* Each segment of a namespace's name is a module in the one before, but   *)
(* for the name of a file's; a string is a scope and no module.            *)
OpenNamespace(s, n, segment) ==
  LET id == Id("MODULE", Under(s.e, Text(segment)))
      opened == IF id[2] \in here.reserved THEN s.g ELSE DeclareOrRedeclare(s.g, s.e.owner, id, segment, n)
  IN  IF Kind(segment) = "string"
      THEN [g |-> s.g, e |-> [s.e EXCEPT !.scope = Under(s.e, Text(segment)), !.kind = "MODULE", !.ns = FALSE]]
      ELSE [g |-> opened, e |-> [Pushed(s.e, id) EXCEPT !.ns = s.e.ambient]]
VisitNamespace(g, n, e) ==
  LET segments == UNION {OfKinds(m, {"identifier", "property_identifier", "string"}) : m \in Fields(n, "name")}
      opened == InTurn(segments, [g |-> g, e |-> e], LAMBDA s, segment : OpenNamespace(s, n, segment))
  IN  InTurn(Fields(n, "body"), opened, LAMBDA s, b : [s EXCEPT !.g = VisitAll(@, Children(b), s.e)]).g

-------------------------------------------------------------------------------
(* Variables. *)

VariableId(e, name) == Id(IF e.kind = "CLASS" THEN "ATTRIBUTE" ELSE "VARIABLE", Under(e, Text(name)))

(* The element a literal writes under a key, before any spread. *)
ElementAt(literal, key) ==
  LET plain == {c \in Uncommented(literal) : \A s \in OfKind(literal, "spread_element") : c < s}
      keyed == {c \in plain : \/ Kind(c) = "pair" /\ KnownKeys(Fields(c, "key")) # {} /\ KeyOfAny(Fields(c, "key")) = key
                              \/ Kind(c) = "shorthand_property_identifier" /\ LiteralKey(c) = key}
      found == IF Kind(literal) = "array" THEN {c \in plain : Numbered(IndexIn(c, plain)) = key} ELSE AtMostFirst(keyed)
  IN  UNION {IF Kind(c) = "pair" THEN Fields(c, "value") ELSE {c} : c \in found}

(* `const { m, n: k } = o`: each name holds what the container holds under *)
(* its key. *)
HandleDestructuring(g, declarator, pattern, e) ==
  LET value == Fields(declarator, "value")
      from(x) ==
        LET key == ReadsKey(pattern, x)
            inside == UNION {ElementAt(v, key[1]) : v \in {w \in value : Kind(w) \in {"array", "object"} /\ key # <<>>}}
        IN  IF inside # {} THEN inside ELSE value
      held(s, x, id) ==
        IF ReadsKey(pattern, x) # <<>> /\ \E v \in value : PlainName(v) # {}
        THEN RecordedWith(s, "alias", PlainName(The(value)), id, 0, [Given EXCEPT !.value = "get", !.keys = ReadsKey(pattern, x)])
        ELSE InTurn(from(x), s, LAMBDA t, v : RecordAliases(t, v, id, <<>>, 0, e))
      bind(s, x) ==
        LET name == The(BoundBy(x))
            id == VariableId(e, name)
        IN  held(Uses(DeclaredIn(s, e.owner, id, name, declarator), "write", {name}, e.owner), x, id)
  IN  ScanAll(InTurn(ElementsOf(pattern), g, bind), value, By(e, e.owner))

(* The functions in the object a variable holds are its own. *)
VisitObjectLiteral(g, object, id, e) ==
  LET function(m) == IF Kind(m) = "pair" THEN {v \in Fields(m, "value") : Kind(v) \in Functions} ELSE {}
      key(m) == {k \in Fields(m, "key") : Kind(k) \in {"property_identifier", "identifier"}}
      member(s, m) ==
        CASE Kind(m) = "method_definition" -> HandleFunction(KeySite(s, Fields(m, "name"), e.owner), m, Pushed(e, id))
          [] function(m) # {} /\ key(m) # {} ->
               HandleLexicalFunction(KeySite(s, key(m), e.owner), The(key(m)), The(function(m)), Pushed(e, id))
          [] OTHER -> ScanValue(s, m, By(e, e.owner))
  IN  InTurn(Children(object), g, member)

HandleLexicalVariable(g, declarator, name, e) ==
  LET id == VariableId(e, name)
      written == Uses(DeclaredIn(g, e.owner, id, name, declarator), "write", {name}, e.owner)
      initial(s, v) ==
        LET held == RecordAliases(s, v, id, <<>>, 0, e)
        IN  IF Kind(v) = "object" THEN VisitObjectLiteral(held, v, id, e) ELSE ScanValue(held, v, By(e, e.owner))
  IN  InTurn(Fields(declarator, "value"), Annotated(written, OfKind(declarator, "type_annotation"), id, e), initial)

HandleLexicalDeclaration(g, n, e) ==
  LET patterns(d) == {p \in Fields(d, "name") : Kind(p) \in {"object_pattern", "array_pattern"}}
      functions(d) == {v \in Fields(d, "value") : Kind(v) \in Functions}
      one(s, d) ==
        CASE patterns(d) # {} -> HandleDestructuring(s, d, The(patterns(d)), e)
          [] patterns(d) = {} /\ functions(d) # {} -> HandleLexicalFunction(s, The(Fields(d, "name")), The(functions(d)), e)
          [] OTHER -> HandleLexicalVariable(s, d, The(Fields(d, "name")), e)
  IN  InTurn(OfKind(n, "variable_declarator"), g, one)

-------------------------------------------------------------------------------
(* Exports. *)

Exported == {"class_declaration", "abstract_class_declaration", "interface_declaration", "function_declaration",
             "generator_function_declaration", "type_alias_declaration", "enum_declaration", "ambient_declaration",
             "function_signature", "lexical_declaration"} \cup Namespaces

(* An export names a module, or names of the file, or declares one thing;  *)
(* what `export default` of a value reads is not looked at.                *)
VisitExport(g, n, e) ==
  LET clauses == OfKind(n, "export_clause")
      declared == {c \in Children(n) : Kind(c) \in Exported}
      ambient == \E d \in declared : Kind(First(declared)) \in Namespaces /\ OfKind(n, "declare") # {}
  IN  CASE Has(n, "source") -> EmitReexport(g, n, The(Fields(n, "source")), e)
        [] ~ Has(n, "source") /\ clauses # {} -> RecordExportSpecifiers(g, clauses, e)
        [] OTHER -> VisitAll(g, AtMostFirst(declared), [e EXCEPT !.ambient = @ \/ ambient])

-------------------------------------------------------------------------------
(* Statements. *)

(* A bare expression of a file, a namespace or a class; those of a         *)
(* function are walked with its body.                                      *)
VisitExpressionStatement(g, n, e) ==
  LET own == By(e, e.owner)
      one(s, c) ==
        CASE Kind(c) \in Namespaces -> VisitNamespace(s, c, e)
          [] Kind(c) \in Assigning -> Assigned(s, c, own)
          [] OTHER -> ScanValue(s, c, own)
  IN  IF e.kind \in Callables THEN g ELSE InTurn(AtMostFirst(Uncommented(n)), g, one)

(* `this.f = f`: the field the class declares holds what is assigned.      *)
OwnFields(g, assignment, e) ==
  {Id("ATTRIBUTE", Append(e.class, Text(Last(Children(l))))) :
     l \in {m \in Fields(assignment, "left") :
           /\ Kind(assignment) = "assignment_expression" /\ Kind(m) = "member_expression" /\ e.class # <<>>
           /\ Kind(First(Children(m))) = "this" /\ Kind(Last(Children(m))) = "property_identifier"}}
    \cap DOMAIN g.nodes
AssignedStatement(g, n, e) ==
  LET kept == OwnFields(g, n, e)
      holding(s, v) == RecordAliases(s, v, The(kept), <<>>, 0, e)
  IN  Assigned(IF kept = {} THEN g ELSE InTurn(Fields(n, "right"), g, holding), n, e)

VisitedInBodies == (NestedDefinitions \ {"method_definition"}) \cup {"export_statement", "lexical_declaration"}
BlockTypes == {"statement_block", "if_statement", "else_clause", "for_statement", "for_in_statement", "while_statement",
               "do_statement", "try_statement", "catch_clause", "finally_clause", "switch_statement", "switch_body",
               "switch_case", "switch_default", "labeled_statement"}

(* A function's result is what it returns. *)
Returns(g, n, e) ==
  InTurn(Children(n), g, LAMBDA s, c :
    ScanValue(RecordedWith(s, "alias", PlainName(c), e.by, 0, [Given EXCEPT !.via = "return"]), c, e))

StatementWalked(g, n, e) ==
  CASE Kind(n) \in VisitedInBodies -> Visit(g, n, e)
    [] Kind(n) = "return_statement" -> Returns(g, n, e)
    [] Kind(n) = "expression_statement" ->
         InTurn(AtMostFirst(Uncommented(n)), g,
                LAMBDA s, c : IF Kind(c) \in Assigning THEN AssignedStatement(s, c, e) ELSE ScanValue(s, c, e))
    [] Kind(n) \in BlockTypes -> WalkAll(g, Children(n), e)
    [] Kind(n) \in {"comment", "formal_parameters"} -> g
    [] OTHER -> ScanValue(g, n, e)

-------------------------------------------------------------------------------
(* The dispatcher. *)

Visited(g, n, e) ==
  CASE Kind(n) = "expression_statement" -> VisitExpressionStatement(g, n, e)
    [] Kind(n) = "lexical_declaration" -> HandleLexicalDeclaration(g, n, e)
    [] Kind(n) = "export_statement" -> VisitExport(g, n, e)
    [] Kind(n) \in {"class_declaration", "abstract_class_declaration", "interface_declaration"} -> HandleClass(g, n, e)
    [] Kind(n) = "type_alias_declaration" -> VisitTypeAlias(g, n, e)
    [] Kind(n) = "enum_declaration" -> VisitEnum(g, n, e)
    [] Kind(n) = "public_field_definition" -> VisitPublicField(g, n, e)
    [] Kind(n) = "property_signature" -> VisitPropertySignature(g, n, e)
    [] Kind(n) \in {"method_signature", "abstract_method_signature"} -> VisitMethodSignature(g, n, e)
    [] Kind(n) = "function_signature" -> VisitFunctionSignature(g, n, e)
    [] Kind(n) = "ambient_declaration" -> VisitAll(g, Children(n), [e EXCEPT !.ambient = TRUE])
    [] Kind(n) \in {"function_declaration", "generator_function_declaration", "method_definition"} -> HandleFunction(g, n, e)
    [] Kind(n) = "import_statement" -> VisitImport(g, n, e)
    [] Kind(n) \in Namespaces -> VisitNamespace(g, n, e)
    [] OTHER -> VisitAll(g, Children(n), e)

Walk(as, g, n, e, x) ==
  CASE as = "visit" -> Visited(g, n, e)
    [] as = "statement" -> StatementWalked(g, n, e)
    [] as = "value" -> ValueScanned(g, n, e)
    [] as = "call" -> CallScanned(g, n, e, x)
    [] as = "types" -> TypesRecorded(g, n, x.enc, x.role)
    [] as = "alias" -> AliasesRecorded(g, n, x, e)
===============================================================================
