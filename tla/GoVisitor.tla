------------------------------- MODULE GoVisitor -------------------------------
(***************************************************************************)
(* GoExtractor (src/src/golang/visitor.rs): what the declarations of a Go  *)
(* file put into the graph and which of its names the resolver is asked    *)
(* about.                                                                  *)
(*                                                                         *)
(* A visit takes the graph g, a record of its nodes, its edges and the     *)
(* notes (OccurrenceRef), to the graph after it.  Several walks go over    *)
(* the same code (types, calls, references, value flow) and each leaves    *)
(* out what another has noted or will note.                                *)
(***************************************************************************)
EXTENDS Extraction

(* `here` has, besides the file, its package, the path of its module and   *)
(* the modules go.mod requires.                                            *)

-------------------------------------------------------------------------------
(* Reading names and types off the tree.  An Option is a set of at most    *)
(* one token.                                                              *)

RECURSIVE StripType(_)
StripType(t) ==
  IF Kind(t) \in {"pointer_type", "parenthesized_type"} /\ Children(t) # {}
  THEN StripType(First(Children(t))) ELSE t

Sequences_ == {"slice_type", "array_type", "implicit_length_array_type"}

(* The type a literal value is of, where the syntax says it.               *)
RECURSIVE LiteralType(_)
LiteralType(literal) ==
  LET up == Up(literal)
      keyed == Kind(Up(up)) = "keyed_element"
      side == IF keyed /\ First(Children(Up(up))) = up THEN "key" ELSE "value"
      outer == LiteralType(IF keyed THEN Up(Up(up)) ELSE Up(up))
      part(t) == IF Kind(t) \in Sequences_ THEN Fields(t, "element")
                 ELSE IF Kind(t) = "map_type" THEN Fields(t, side) ELSE {}
  IN  IF Kind(up) = "composite_literal" THEN {StripType(t) : t \in Fields(up, "type")}
      ELSE IF Kind(up) = "literal_element"
           THEN {StripType(t) : t \in UNION {part(o) : o \in outer}}
           ELSE {}

Predeclared == {"bool", "string", "error", "any", "comparable", "int", "byte", "rune", "float64"}

Generic == {"function_declaration", "method_declaration", "type_spec", "type_alias"}

(* The type parameters in scope at n, those a receiver binds included.     *)
TypeParameterNames(n) ==
  LET owners == {a \in Above(n) : Kind(a) \in Generic}
      declared == UNION {Outermost(p, {"type_parameter_declaration"}) :
                           p \in UNION {Fields(o, "type_parameters") : o \in owners}}
      bound == UNION {Outermost(r, {"type_arguments"}) :
                        r \in UNION {Fields(o, "receiver") : o \in owners}}
  IN  {Text(i) : i \in UNION {{c \in Children(d) : Kind(c) = "identifier"} : d \in declared}}
        \cup {Text(i) : i \in UNION {Outermost(b, {"type_identifier"}) : b \in bound}}

CalledName(f) ==
  CASE Kind(f) = "identifier" -> {f}
    [] Kind(f) = "selector_expression" -> Fields(f, "field")
    [] OTHER -> {}

RECURSIVE PlainName(_)
PlainName(n) ==
  CASE Kind(n) = "identifier" -> {n}
    [] Kind(n) = "selector_expression" -> Fields(n, "field")
    [] Kind(n) = "parenthesized_expression" -> PlainName(First(Children(n)))
    [] OTHER -> {}

PlainNames(S) == UNION {PlainName(n) : n \in S}
CalleeName(call) == PlainNames(Fields(call, "function"))

IsLeft(n) == tree[n].field = "left"

IsAssignmentTarget(n) ==
  LET up == Up(n)
      holder == Up(up)
  IN  \/ Kind(up) \in {"inc_statement", "dec_statement"}
      \/ /\ Kind(up) = "expression_list"
         /\ IsLeft(up)
         /\ \/ Kind(holder) = "assignment_statement"
            \/ Kind(holder) = "range_clause" /\ Text(holder) # ":="

NamingKinds ==
  {"function_declaration", "var_spec", "const_spec", "parameter_declaration",
   "variadic_parameter_declaration", "type_parameter_declaration"}

IsDeclarationName(n) ==
  LET up == Up(n)
      listed == Kind(up) = "expression_list"
      holder == IF listed THEN Up(up) ELSE up
      side == IF listed THEN up ELSE n
  IN  IF Kind(up) \in NamingKinds THEN tree[n].field = "name"
      ELSE \/ Kind(holder) = "short_var_declaration" /\ IsLeft(side)
           \/ /\ Kind(holder) \in {"range_clause", "receive_statement"}
              /\ IsLeft(side) /\ Text(holder) = ":="
           \/ Kind(holder) = "type_switch_statement" /\ tree[side].field = "alias"

TypeNameNode(t) ==
  CASE Kind(t) = "type_identifier" -> {t}
    [] Kind(t) = "qualified_type" -> Fields(t, "name")
    [] OTHER -> {}

EmbeddedNameNode(t) ==
  IF Kind(t) = "generic_type" THEN UNION {TypeNameNode(u) : u \in Fields(t, "type")}
  ELSE TypeNameNode(t)

(* The struct a field's type is, looking through containers.               *)
RECURSIVE AnonymousStruct(_)
AnonymousStruct(t) ==
  LET inner == CASE Kind(t) \in {"pointer_type", "parenthesized_type"} -> Children(t)
                 [] Kind(t) \in {"slice_type", "array_type"} -> Fields(t, "element")
                 [] Kind(t) \in {"map_type", "channel_type"} -> Fields(t, "value")
                 [] OTHER -> {}
  IN  IF Kind(t) = "struct_type" THEN {t}
      ELSE IF inner = {} THEN {} ELSE AnonymousStruct(First(inner))

InsideStruct(n, root) ==
  \E a \in {n} \cup Above(n) : a >= root /\ Kind(a) = "struct_type"

(* The names a file's imports bind: an alias, else what the path is        *)
(* assumed to declare.  Dot and blank imports bind none.                   *)
ImportSpecs == UNION {Outermost(d, {"import_spec"}) :
                        d \in {c \in Children(Root) : Kind(c) = "import_declaration"}}
Versions == {"v2", "v5"}
AssumedPackageName(path) ==
  IF Len(path) > 1 /\ path[Len(path)] \in Versions THEN path[Len(path) - 1] ELSE path[Len(path)]
PathOf(spec) == Text(The(Fields(spec, "path")))
LocalName(spec) ==
  IF Has(spec, "name") THEN Text(The(Fields(spec, "name"))) ELSE AssumedPackageName(PathOf(spec))
BindingSpecs == {s \in ImportSpecs : LocalName(s) \notin {".", "_"}}
PackageNames == {LocalName(s) : s \in BindingSpecs}
SiteOf(spec) == The(IF Has(spec, "name") THEN Fields(spec, "name") ELSE Fields(spec, "path"))

Below(path, prefix) == Len(path) >= Len(prefix) /\ SubSeq(path, 1, Len(prefix)) = prefix
Domains == {"example.com", "github.com"}
ClassifyImport(path) ==
  CASE Below(path, here.module) -> "internal"
    [] Head(path) \notin Domains -> "stdlib"
    [] \E r \in here.required : Below(path, r) -> "third_party"
    [] OTHER -> "unknown"

(* Where the type checker says the names of a file's imports are declared. *)
ImportSites ==
  {[file |-> here.file, at |-> SiteOf(s), path |-> PathOf(s), origin |-> ClassifyImport(PathOf(s))] :
     s \in BindingSpecs}

-------------------------------------------------------------------------------
(* What the walks note. *)

Qualifiers(scope, e) ==
  Noted("read", UNION {Fields(q, "package") : q \in Outermost(scope, {"qualified_type"})}, e, "package")

AnnotateNames(names, e, skip) ==
  Noted("annotation", {n \in names : Text(n) \notin Predeclared \cup skip}, e, "")

RecordAnnotation(t, e) ==
  AnnotateNames(Outermost(t, {"type_identifier"}), e, TypeParameterNames(t)) \o Qualifiers(t, e)

(* The library functions that call what they are given, as they are written. *)
LibraryCallers == {"sort.Slice", "slices.SortFunc", "time.AfterFunc"}
LibraryMethods == {"Do", "Go", "Run", "AfterFunc", "HandleFunc"}
CallsItsArguments(f) ==
  \/ Text(f) \in LibraryCallers
  \/ Kind(f) = "selector_expression" /\ \E n \in Fields(f, "field") : Text(n) \in LibraryMethods

CallNotes(call, e) ==
  LET f == The(Fields(call, "function"))
      site == CalledName(f)
      made == IF Kind(f) = "call_expression" THEN CalleeName(f) ELSE {}
      held == IF Kind(f) = "index_expression" THEN PlainNames(Fields(f, "operand")) ELSE {}
      handed == IF site = {} THEN {}
                ELSE PlainNames(UNION {Children(a) : a \in Fields(call, "arguments")})
  IN  Noted("call", site \cup held, e, "") \o Noted("call", made, e, "result")
        \o Gather(handed, LAMBDA n :
             <<Note("read", n, e, "arg", The(site))>>
               \o IF CallsItsArguments(f) THEN <<Note("callarg", n, e, "", The(site))>> ELSE <<>>)

CollectCalls(scope, e) ==
  Gather(OfKinds(scope, {"call_expression"}), LAMBDA c : CallNotes(c, e))

IsCallee(n) == Kind(Up(n)) = "call_expression" /\ tree[n].field = "function"
(* Mutant: the argument of any call is another walk's. *)
IsArgumentOfAny(n) ==
  Kind(Up(n)) = "argument_list" /\ Kind(Up(Up(n))) = "call_expression"

IsArgument(n) ==
  /\ Kind(Up(n)) = "argument_list" /\ Kind(Up(Up(n))) = "call_expression"
  /\ \E f \in Fields(Up(Up(n)), "function") : CalledName(f) # {}
ReadOrWrite(n) == IF IsAssignmentTarget(n) THEN "write" ELSE "read"

SelectorNotes(s, e) ==
  Noted("read", {o \in Fields(s, "operand") : Kind(o) = "identifier" /\ Text(o) \in PackageNames},
        e, "package")
    \o IF IsCallee(s) \/ IsArgument(s) THEN <<>> ELSE Noted(ReadOrWrite(s), Fields(s, "field"), e, "")

Unwrapped(n) == IF Kind(n) = "literal_element" THEN First(Children(n)) ELSE n

(* The key of a keyed literal is a field, unless the type says otherwise.  *)
KeyNotes(element, e) ==
  LET key == Unwrapped(First(Children(element)))
  IN  IF /\ Kind(key) = "identifier" /\ Text(key) \notin {"true", "false", "nil", "iota"}
         /\ \A t \in LiteralType(Up(element)) : Kind(t) \notin Sequences_ \cup {"map_type"}
      THEN <<Note("write", key, e, "key", 0)>> ELSE <<>>

(* Mutant: a name handed to a call is noted again as a bare name. *)
SitesOfCalls(notes) ==
  {n.at : n \in {notes[i] : i \in {j \in DOMAIN notes :
     notes[j].file = here.file /\ notes[j].role = "call"}}}

(* Positions that carry a call, a read or a write already.                 *)
Sites(notes) ==
  {n.at : n \in {notes[i] : i \in {j \in DOMAIN notes :
     notes[j].file = here.file /\ notes[j].role \in {"call", "read", "write"}}}}

IdentifierNotes(scope, e, taken) ==
  Gather({i \in OfKinds(scope, {"identifier"}) :
            Text(i) # "_" /\ ~ IsDeclarationName(i) /\ i \notin taken},
         LAMBDA i : <<Note(ReadOrWrite(i), i, e, "name", 0)>>)

CollectReferences(g, scope, e) ==
  LET marks == Gather(OfKinds(scope, {"selector_expression"}), LAMBDA s : SelectorNotes(s, e))
                 \o Gather(OfKinds(scope, {"keyed_element"}), LAMBDA k : KeyNotes(k, e))
      after == Noting(g, marks)
  IN  Noting(after, IdentifierNotes(scope, e, Sites(after.notes)))

(* The types a body mentions: not those it declares, and not the base of   *)
(* F[T](x), which the grammar reads as a conversion.                       *)
ScopeTypes(body, e) ==
  LET local == {Text(n) : n \in UNION {Fields(s, "name") : s \in OfKinds(body, {"type_spec", "type_alias"})}}
      generic == {t \in UNION {Fields(c, "type") : c \in OfKinds(body, {"type_conversion_expression"})} :
                    Kind(t) = "generic_type"}
      bases == UNION {Outermost(b, {"type_identifier"}) : b \in UNION {Fields(t, "type") : t \in generic}}
  IN  AnnotateNames(Outermost(body, {"type_identifier"}) \ bases, e, TypeParameterNames(body) \cup local)
        \o Qualifiers(body, e)

Constraints(decl, e) ==
  Gather(UNION {Fields(d, "type") : d \in UNION {Outermost(p, {"type_parameter_declaration"}) :
                                                   p \in Fields(decl, "type_parameters")}},
         LAMBDA t : RecordAnnotation(t, e))

FieldDeclarations(struct) ==
  {f \in UNION {Children(l) : l \in {c \in Children(struct) : Kind(c) = "field_declaration_list"}} :
     Kind(f) = "field_declaration"}

(* A base for every embedded type; a union of terms embeds nothing.        *)
Bases(t, e) ==
  LET embedded == UNION {Fields(f, "type") : f \in {d \in FieldDeclarations(t) : ~ Has(d, "name")}}
      terms == UNION {Children(m) : m \in {c \in Children(t) :
                        Kind(c) = "type_elem" /\ Cardinality(Children(c)) = 1}}
  IN  IF Kind(t) = "struct_type"
      THEN Gather(embedded, LAMBDA b : Noted("base", EmbeddedNameNode(b), e, "") \o Qualifiers(b, e))
      ELSE Gather(terms, LAMBDA b : Noted("base", TypeNameNode(b), e, "") \o Qualifiers(b, e))

(* Mutant: all of a field's type, anonymous structs included. *)
FieldTypeWhole(t, e) == RecordAnnotation(t, e)

(* A field's type, without what an anonymous struct inside it will note.   *)
FieldType(t, e) ==
  LET outside(S) == {n \in S : ~ InsideStruct(n, t)}
  IN  AnnotateNames(outside(Outermost(t, {"type_identifier"})), e, TypeParameterNames(t))
        \o Noted("read", UNION {Fields(q, "package") : q \in outside(Outermost(t, {"qualified_type"}))},
                 e, "package")

-------------------------------------------------------------------------------
(* Value flow: the locals that are called, and what they hold. *)

Assigning == {"short_var_declaration", "assignment_statement"}
Listed(n, field) == UNION {Children(l) : l \in Fields(n, field)}
Operand(n) == {o \in Fields(n, "operand") : Kind(o) = "identifier"}

Called(body) ==
  {Text(b) : b \in UNION {
     IF Kind(f) = "identifier" THEN {f} ELSE IF Kind(f) = "index_expression" THEN Operand(f) ELSE {} :
       f \in UNION {Fields(c, "function") : c \in OfKinds(body, {"call_expression"})}}}

(* One assignment: when a name on the left matters, so does its source.    *)
Sources(relevant, n) ==
  LET rights == IF Kind(n) = "range_clause" THEN Fields(n, "right") ELSE Listed(n, "right")
      source(r) == CASE Kind(r) = "identifier" -> {r}
                     [] Kind(r) \in {"index_expression", "unary_expression"} -> Operand(r)
                     [] OTHER -> {}
  IN  IF \E l \in Listed(n, "left") : Text(l) \in relevant
      THEN relevant \cup {Text(s) : s \in UNION {source(r) : r \in rights}} ELSE relevant

Relevant(body) ==
  LET assigning == OfKinds(body, Assigning \cup {"range_clause"})
      again(names) == Popped(assigning, names, Sources)
  IN  again(again(again(Called(body))))

(* The declarations of relevant locals, by the name a walk from the end    *)
(* meets first.                                                            *)
LocalNames(body, relevant) ==
  {n \in UNION {Listed(d, "left") : d \in OfKinds(body, {"short_var_declaration", "range_clause"})}
           \cup UNION {Fields(d, "name") : d \in OfKinds(body, {"var_spec"})} :
     Kind(n) = "identifier" /\ Text(n) \in relevant}
DeclarationOf(n) == IF Kind(Up(n)) = "expression_list" THEN Up(Up(n)) ELSE Up(n)
WalkedBefore(n, m) ==
  LET d == DeclarationOf(n)
      e == DeclarationOf(m)
  IN  IF d = e THEN n < m ELSE e \in Inside(d) \/ d > tree[e].end
Locals(body, relevant) ==
  {n \in LocalNames(body, relevant) :
     \A m \in LocalNames(body, relevant) \ {n} : Text(m) = Text(n) => WalkedBefore(n, m)}

RECURSIVE Aliases(_, _, _)
(* What a value hands to its holder.                                       *)
Aliases(value, holder, depth) ==
  LET alias(S, tag) == Noted("alias", S, holder, tag)
      elements == UNION {Children(b) : b \in Fields(value, "body")}
      element(x) == Unwrapped(IF Kind(x) = "keyed_element" THEN Last(Children(x)) ELSE x)
  IN  CASE PlainName(value) # {} -> alias(PlainName(value), "")
        [] Kind(value) = "call_expression" -> alias(CalleeName(value), "result")
        [] Kind(value) = "index_expression" -> alias(PlainNames(Fields(value, "operand")), "")
        [] Kind(value) = "unary_expression" /\ depth < 3 ->
             Gather(Fields(value, "operand"), LAMBDA o : Aliases(o, holder, depth + 1))
        [] Kind(value) = "composite_literal" /\ depth < 3 ->
             Gather(elements, LAMBDA x : Aliases(element(x), holder, depth + 1))
        [] OTHER -> <<>>

(* S{fn: g}: the field holds what its value does. *)
StructLiteralFields(literal) ==
  Gather({x \in UNION {Children(b) : b \in Fields(literal, "body")} :
            /\ Kind(x) = "keyed_element"
            /\ Kind(Unwrapped(First(Children(x)))) = "identifier"
            /\ \E t \in Fields(literal, "type") : TypeNameNode(t) # {}},
         LAMBDA x :
           LET name == Text(The(TypeNameNode(The(Fields(literal, "type")))))
               key == Text(Unwrapped(First(Children(x))))
           IN  Aliases(Unwrapped(Last(Children(x))),
                       Id("ATTRIBUTE", Append(Append(here.package, name), key)), 0))

(* The k-th name on one side of an assignment and the k-th on the other.   *)
Sides(n) ==
  IF Kind(n) = "var_spec" THEN <<Fields(n, "name"), Listed(n, "value")>>
  ELSE <<Listed(n, "left"), Listed(n, "right")>>
Assigned(n) ==
  IF Kind(n) = "assignment_statement" /\ Text(n) # "=" THEN {}
  ELSE {p \in Sides(n)[1] \X Sides(n)[2] :
          /\ Cardinality(Sides(n)[1]) = Cardinality(Sides(n)[2])
          /\ IndexIn(p[1], Sides(n)[1]) = IndexIn(p[2], Sides(n)[2])}

FlowNotes(body, id, holders) ==
  LET holder(n) == [h \in {Text(l) : l \in holders} |->
                      Id("VARIABLE", Append(id[2], h))][Text(n)]
      held(n, values) == IF \E l \in holders : Text(l) = Text(n)
                         THEN Gather(values, LAMBDA v : Aliases(v, holder(n), 0)) ELSE <<>>
      returned(r) == UNION {IF Kind(v) = "expression_list" THEN Children(v) ELSE {v} : v \in Children(r)}
  IN  Gather(OfKinds(body, Assigning \cup {"var_spec"}), LAMBDA n :
        Gather({p[1] : p \in Assigned(n)}, LAMBDA l : held(l, {p[2] : p \in {q \in Assigned(n) : q[1] = l}})))
      \o Gather(OfKinds(body, {"range_clause"}), LAMBDA n :
           Gather(Listed(n, "left"), LAMBDA l : held(l, Fields(n, "right"))))
      \o Gather(OfKinds(body, {"send_statement"}), LAMBDA n :
           Gather(Fields(n, "channel"), LAMBDA c : held(c, Fields(n, "value"))))
      \o Gather(OfKinds(body, {"return_statement"}), LAMBDA n :
           Noted("alias", PlainNames(returned(n)), id, "return"))
      \o Gather(OfKinds(body, {"composite_literal"}), StructLiteralFields)

-------------------------------------------------------------------------------
(* Declarations. *)

(* Mutant: a declaration hangs off nothing. *)
DeclaredAlone(g, id, full, name) == IF id \in DOMAIN g.nodes THEN g ELSE Inserted(g, id, name, full)

(* A name that is declared already keeps its first node.                   *)
Declared(g, id, full, name) ==
  IF id \in DOMAIN g.nodes THEN g
  ELSE Linking(Inserted(g, id, name, full), FileId, "DECLARES", id)

(* A local is a node only when its value matters to a call. *)
CollectFlow(g, callable, id) ==
  LET body == The(Fields(callable, "body"))
      locals == Locals(body, Relevant(body))
      declare(s, n) ==
        LET local == Id("VARIABLE", Append(id[2], Text(n)))
        IN  IF local \in DOMAIN s.nodes THEN s
            ELSE Linking(Inserted(s, local, n, DeclarationOf(n)), id, "DECLARES", local)
  IN  IF ~ Has(callable, "body") THEN g
      ELSE Noting(InTurn(locals, g, declare), FlowNotes(body, id, locals))

ParameterNames(callable) ==
  UNION {Fields(d, "name") : d \in {c \in UNION {Children(p) : p \in Fields(callable, "parameters")} :
    Kind(c) \in {"parameter_declaration", "variadic_parameter_declaration"}}}

CollectParameters(g, callable, id) ==
  InTurn(ParameterNames(callable), g, LAMBDA s, n :
    LET parameter == Id("PARAMETER", Append(id[2], Text(n)))
    IN  IF parameter \in DOMAIN s.nodes THEN s
        ELSE Noting(Linking(Inserted(s, parameter, n, Up(n)), id, "DECLARES", parameter),
                    Gather(Fields(Up(n), "type"), LAMBDA t : RecordAnnotation(t, parameter))))

OnCallable(g, n, id) ==
  LET signed == Noting(CollectParameters(g, n, id),
                  Gather(Fields(n, "result"), LAMBDA r : RecordAnnotation(r, id))
                    \o Gather(Fields(n, "body"), LAMBDA b : ScopeTypes(b, id))
                    \o CollectCalls(n, id))
  IN  CollectFlow(CollectReferences(signed, n, id), n, id)

NameOf(n) == The(Fields(n, "name"))
Global(kind, n) == Id(kind, Append(here.package, Text(NameOf(n))))

OnFunction(g, n) ==
  LET id == Global("FUNCTION", n)
  IN  OnCallable(Noting(Declared(g, id, n, NameOf(n)), Constraints(n, id)), n, id)

(* The leftmost type name of the receiver: Box in `b *Box[T]`.             *)
ReceiverType(n) ==
  LET names == UNION {Outermost(r, {"type_identifier"}) : r \in Fields(n, "receiver")}
  IN  IF names = {} THEN <<>> ELSE <<Text(First(names))>>

OnMethod(g, n) ==
  LET id == Id("METHOD", here.package \o ReceiverType(n) \o <<Text(NameOf(n))>>)
      receivers == {d \in UNION {Children(r) : r \in Fields(n, "receiver")} :
                      Kind(d) = "parameter_declaration"}
  IN  OnCallable(Noting(Declared(g, id, n, NameOf(n)),
                        Gather(UNION {Fields(d, "type") : d \in receivers},
                               LAMBDA t : RecordAnnotation(t, id))), n, id)

RECURSIVE CollectFields(_, _, _, _, _)
CollectFields(g, struct, qname, owner, nested) ==
  LET named(s, n) ==
        LET id == Id("ATTRIBUTE", Append(qname, Text(n)))
            types == Fields(Up(n), "type")
            there == Noting(Linking(Declared(s, id, Up(n), n), owner, "DECLARES", id),
                            Gather(types, LAMBDA t : FieldType(t, id)))
        IN  InTurn(UNION {AnonymousStruct(t) : t \in types}, there, LAMBDA u, inner :
              CollectFields(u, inner, id[2] \o <<"<anon>">>, id, TRUE))
      embedded(s, n) ==
        LET t == The({a \in {n} \cup Above(n) : tree[a].field = "type" /\ Kind(Up(a)) = "field_declaration"})
            id == Id("ATTRIBUTE", Append(qname, Text(n)))
        IN  Noting(Linking(Declared(s, id, Up(t), n), owner, "DECLARES", id),
                   AnnotateNames(Outermost(t, {"type_identifier"}), id, TypeParameterNames(t))
                     \o IF nested THEN Qualifiers(t, id) ELSE <<>>)
      names == UNION {Fields(f, "name") : f \in FieldDeclarations(struct)}
      bases == UNION {EmbeddedNameNode(t) : t \in UNION {Fields(f, "type") :
                 f \in {d \in FieldDeclarations(struct) : ~ Has(d, "name")}}}
  IN  InTurn(names \cup bases, g, LAMBDA s, n : IF n \in names THEN named(s, n) ELSE embedded(s, n))

CollectInterfaceMethods(g, t, id) ==
  InTurn({m \in Children(t) : Kind(m) = "method_elem"}, g, LAMBDA s, m :
    LET method == Id("METHOD", Append(id[2], Text(NameOf(m))))
        there == Linking(Declared(s, method, m, NameOf(m)), id, "DECLARES", method)
    IN  Noting(CollectParameters(there, m, method),
               Gather(Fields(m, "result"), LAMBDA r : RecordAnnotation(r, method))))

OnTypeSpec(g, spec) ==
  LET types == Fields(spec, "type")
      structLike == Kind(spec) = "type_spec"
                      /\ \E t \in types : Kind(t) \in {"struct_type", "interface_type"}
      id == Global(IF structLike THEN "CLASS" ELSE "TYPE_ALIAS", spec)
      there == Noting(Declared(g, id, spec, NameOf(spec)), Constraints(spec, id))
      t == The(types)
  IN  IF structLike
      THEN CollectInterfaceMethods(
             CollectFields(Noting(there, Bases(t, id)), t, id[2], id, FALSE), t, id)
      ELSE Noting(there, Gather(types, LAMBDA u : RecordAnnotation(u, id)))

ScanInitializer(g, value, id) ==
  IF Kind(value) = "func_literal" THEN OnCallable(g, value, id)
  ELSE CollectReferences(Noting(g, ScopeTypes(value, id) \o CollectCalls(value, id)), value, id)

(* The names a value of a spec is scanned for: its own, or the first.      *)
OwnersOf(names, values, value) ==
  IF Cardinality(names) = Cardinality(values)
  THEN {n \in names : IndexIn(n, names) = IndexIn(value, values)} ELSE {First(names)}

OnValueSpec(g, spec) ==
  LET names == Fields(spec, "name")
      values == Listed(spec, "value")
      idOf(n) == Id("VARIABLE", Append(here.package, Text(n)))
      declare(s, n) ==
        Noting(Declared(s, idOf(n), spec, n),
               Gather(Fields(spec, "type"), LAMBDA t : RecordAnnotation(t, idOf(n)))
                 \o IF Kind(spec) = "var_spec" /\ Cardinality(values) = Cardinality(names)
                    THEN Gather({v \in values : IndexIn(v, values) = IndexIn(n, names)},
                                LAMBDA v : Aliases(v, idOf(n), 0))
                    ELSE <<>>)
  IN  InTurn(values, InTurn(names, g, declare), LAMBDA s, v :
        InTurn(OwnersOf(names, values, v), s, LAMBDA u, n : ScanInitializer(u, v, idOf(n))))

(* An import is a node of its file.  One of the module's own packages is   *)
(* bound when every package is there; any other is an external symbol.     *)
DeclareImport(g, spec) ==
  LET path == PathOf(spec)
      import == Id("IMPORT", <<here.file>> \o path)
      symbol == Id("EXTERNAL_SYMBOL", path)
      at == <<here.file, The(Fields(spec, "path"))>>
      there == Linking(Inserted(g, import, 0, spec), FileId, "DECLARES", import)
  IN  CASE import \in DOMAIN g.nodes -> g
        [] ClassifyImport(path) = "internal" ->
             [there EXCEPT !.imports = Append(@, [node |-> import, path |-> path, by |-> FileId, at |-> at])]
        [] OTHER -> [External(there, symbol) EXCEPT !.edges = @ \o <<Edge(FileId, "IMPORTS", symbol, <<>>),
                                                   Edge(import, "RESOLVES_TO", symbol, at)>>]

Visit(g, n) ==
  CASE Kind(n) = "function_declaration" -> OnFunction(g, n)
    [] Kind(n) = "method_declaration" -> OnMethod(g, n)
    [] Kind(n) = "type_declaration" ->
         InTurn({s \in Children(n) : Kind(s) \in {"type_spec", "type_alias"}}, g, OnTypeSpec)
    [] Kind(n) \in {"var_declaration", "const_declaration"} ->
         InTurn(Outermost(n, {"var_spec", "const_spec"}), g, OnValueSpec)
    [] Kind(n) = "import_declaration" -> InTurn(Outermost(n, {"import_spec"}), g, DeclareImport)
    [] OTHER -> g
===============================================================================
