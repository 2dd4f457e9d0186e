------------------------------ MODULE PythonVisitor ------------------------------
(***************************************************************************)
(* PythonVisitor (src/src/python/visitor.rs, annotation.rs): one walk over *)
(* a Python file that writes its declarations and imports, and notes the   *)
(* names it calls, reads, writes and mentions as types, and what is handed *)
(* from one holder to another.                                             *)
(*                                                                         *)
(* The visitor's stacks are an environment e: the qualified name, the node *)
(* and the node kind on top of them, the nearest class, the parameters of  *)
(* the functions around it, innermost first; and `by`, the node that what  *)
(* is read belongs to, which is not the container in a decorator or in the *)
(* head of a definition.                                                   *)
(***************************************************************************)
EXTENDS ValueNotes

(* `here` has, besides the file, its module, the modules of the root, the  *)
(* names their packages bind, and the top names that are internal.  A      *)
(* graph has, besides what all have, the qualified names of the lambdas    *)
(* met in the file, by position, and the sites that declare an attribute   *)
(* through `self`.                                                         *)

-------------------------------------------------------------------------------
(* Reading the tree. *)

Nth(S, k) == {n \in S : IndexIn(n, S) = k}
Uncommented(n) == {c \in Children(n) : Kind(c) # "comment"}

RECURSIVE FirstIdentifier(_)
FirstIdentifier(n) ==
  IF Kind(n) = "identifier" THEN {n} ELSE AtMostFirst(UNION {FirstIdentifier(c) : c \in Children(n)})

(* The identifier a name or a chain of attributes ends in. *)
PlainName(n) ==
  CASE Kind(n) = "identifier" -> {n}
    [] Kind(n) = "attribute" -> AtMostLast(OfKind(n, "identifier"))
    [] OTHER -> {}
PlainNames(S) == UNION {PlainName(n) : n \in S}

RECURSIVE UnwrapLambda(_)
UnwrapLambda(n) ==
  CASE Kind(n) = "lambda" -> {n}
    [] Kind(n) = "parenthesized_expression" /\ Cardinality(Children(n)) = 1 -> UnwrapLambda(First(Children(n)))
    [] OTHER -> {}

(* What a call calls when that is a name; and its arguments: a generator   *)
(* may stand in place of their list.                                       *)
Callee(call) == AtMostFirst(OfKind(call, "identifier") \cup OfKind(call, "attribute"))
CalleeName(call) == PlainNames(Callee(call))
CallArguments(call) ==
  UNION {CASE Kind(a) = "argument_list" -> Children(a)
           [] Kind(a) = "generator_expression" -> {a}
           [] OTHER -> {} : a \in Fields(call, "arguments")}

RECURSIVE BaseCall(_), CallDepth(_), SubscriptRoot(_), SubscriptKeys(_)
BaseCall(call) ==
  LET f == {c \in Fields(call, "function") : Kind(c) = "call"} IN IF f = {} THEN call ELSE BaseCall(The(f))
CallDepth(call) ==
  LET f == {c \in Fields(call, "function") : Kind(c) = "call"} IN IF f = {} THEN 1 ELSE 1 + CallDepth(The(f))

(* `d["a"][k]`: the name at the root, and the keys. *)
SubscriptRoot(n) == IF Kind(n) = "subscript" THEN SubscriptRoot(The(Fields(n, "value"))) ELSE PlainName(n)
SubscriptKeys(n) ==
  IF Kind(n) = "subscript" THEN SubscriptKeys(The(Fields(n, "value"))) \cup {First(Fields(n, "subscript"))} ELSE {}

IsLiteral(n) == Kind(n) = "integer" \/ (Kind(n) = "string" /\ OfKind(n, "interpolation") = {})
KeySpec(n) ==
  CASE IsLiteral(n) -> LiteralKey(n)
    [] Kind(n) = "slice" -> Key("slice", "", <<>>)
    [] PlainName(n) # {} -> Key("name", "", <<>>)
    [] OTHER -> Wild

(* The arguments a library function calls, and whether it hands out what   *)
(* those calls return.                                                     *)
CallsEach == {<<"map">>, <<"filter">>, <<"itertools", "starmap">>, <<"functools", "reduce">>}
CallsKey == {<<"sorted">>, <<"max">>, <<"itertools", "groupby">>}
YieldsResults == {<<"map">>, <<"itertools", "starmap">>}
LibraryName(callee) ==
  IF Kind(callee) = "identifier" THEN <<Text(callee)>> ELSE <<Text(First(Children(callee))), Text(Last(Children(callee)))>>
CallbackArguments(call) ==
  LET named == {LibraryName(c) : c \in Callee(call)}
      sorting == \E x \in named : Len(x) = 2 /\ x[2] = "sort"
      keyed == {a \in CallArguments(call) : Kind(a) = "keyword_argument" /\ \E k \in Fields(a, "name") : Text(k) = "key"}
      values == UNION {Fields(a, "value") : a \in keyed}
  IN  PlainNames(CASE named \cap CallsEach # {} -> values \cup {a \in CallArguments(call) : Kind(a) # "keyword_argument"}
                   [] named \cap CallsKey # {} \/ sorting -> values
                   [] OTHER -> {})
Yielding(call) == \E c \in Callee(call) : LibraryName(c) \in YieldsResults

-------------------------------------------------------------------------------
(* The names a type annotation mentions (annotation.rs). *)

Chains == {"attribute", "member_type"}
RECURSIVE Chain(_), TypeNames(_)
Chain(n) ==
  CASE Kind(n) = "identifier" -> {n}
    [] Kind(n) \in Chains -> UNION {Chain(c) : c \in Children(n)}
    [] OTHER -> {}

(* The arguments of Literal are values, and those of Annotated after the   *)
(* first.  A quoted annotation is parsed where it stands.                  *)
TypeArguments(n) ==
  LET rest == Children(n) \ AtMostFirst(Children(n))
      all == {a \in rest : Kind(a) # "type_parameter"} \cup UNION {Children(p) : p \in {q \in rest : Kind(q) = "type_parameter"}}
      head == AtMostLast(Chain(First(Children(n))))
  IN  CASE \E h \in head : Text(h) = "Literal" -> {}
        [] \E h \in head : Text(h) = "Annotated" -> AtMostFirst(all)
        [] OTHER -> all
IsUnion(n) == \E o \in Fields(n, "operator") : Kind(o) = "|"
TypeNames(n) ==
  CASE Kind(n) \in {"type", "parenthesized_expression", "list", "tuple"} -> UNION {TypeNames(c) : c \in Children(n)}
    [] Kind(n) = "identifier" \/ Kind(n) \in Chains -> Chain(n)
    [] Kind(n) \in {"generic_type", "subscript"} -> UNION {TypeNames(c) : c \in AtMostFirst(Children(n)) \cup TypeArguments(n)}
    [] Kind(n) = "binary_operator" /\ IsUnion(n) -> UNION {TypeNames(c) : c \in Children(n)}
    [] Kind(n) = "string" /\ IsLiteral(n) -> UNION {UNION {TypeNames(c) : c \in Children(s)} : s \in OfKind(n, "string_content")}
    [] OTHER -> {}
IsQualifier(n) == \E a \in Above(n) : Kind(a) \in Chains /\ n # Last(Chain(a))

(* The outermost calls of an annotation. *)
InQuotes(n) == \E a \in Above(n) : Kind(a) = "string_content"
FindCalls(n) == {c \in Outermost(n, {"call"}) : ~ InQuotes(c)}

-------------------------------------------------------------------------------
(* The environment. *)

Under(e, name) == Append(e.scope, name)
Pushed(e, id, params) ==
  [e EXCEPT !.scope = id[2], !.owner = id, !.by = id, !.kind = id[1],
            !.class = IF id[1] = "CLASS" THEN id[2] ELSE @, !.params = params \o @]
By(e, id) == [e EXCEPT !.by = id]
TopOf == [scope |-> here.module, owner |-> FileId, by |-> FileId, kind |-> "FILE", class |-> <<>>, params |-> <<>>]

(* The innermost parameter of a name. *)
ParameterOf(name, e) ==
  LET with == {i \in DOMAIN e.params : name \in e.params[i].names}
  IN  IF with = {} THEN {} ELSE {Id("PARAMETER", Append(e.params[First(with)].qname, name))}

-------------------------------------------------------------------------------
RecordAnnotation(g, types, id, user) ==
  LET names == UNION {TypeNames(t) : t \in types}
  IN  Recorded(Recorded(g, "annotation", {n \in names : ~ IsQualifier(n)}, id), "read", {n \in names : IsQualifier(n)}, user)

(* The keys of a subscript; a key that is a name is asked for itself. *)
KeyPart(k) == [KeySpec(k) EXCEPT !.text = IF KeySpec(k).key = "name" THEN ToString(The(PlainName(k))) ELSE @]
KeyParts(keys) == LET ordered == InOrder(keys) IN [i \in DOMAIN ordered |-> KeyPart(ordered[i])]
EmitKeys(g, keys, enc) == Recorded(g, "key", UNION {PlainName(k) : k \in {l \in keys : KeySpec(l).key = "name"}}, enc)

(* A sink is a holder, or an element store made by it (0 is none). *)
Sink(holder, store) == [holder |-> holder, store |-> store]
Aliased(g, S, sink, path, detail) ==
  RecordedWith(g, "alias", S, sink.holder, sink.store,
               [detail EXCEPT !.path = path, !.via = IF sink.store = 0 THEN "holder" ELSE "store"])


-------------------------------------------------------------------------------
(* Imports. *)

Path(dotted) == Texts({m \in Inside(dotted) : Kind(m) = "identifier"})
IsInternal(path, level) == level > 0 \/ Head(path) \in here.internal

(* resolve_relative_import: the module's package is its name but the last. *)
Relative(level) ==
  LET kept == Len(here.module) - level IN IF level = 0 \/ kept <= 0 THEN <<>> ELSE SubSeq(here.module, 1, kept)

LongestModule(path) ==
  LET lengths == {k \in DOMAIN path : SubSeq(path, 1, k) \in here.modules}
  IN  IF lengths = {} THEN {} ELSE {Id("MODULE", SubSeq(path, 1, Last(lengths)))}

(* The segments of an internal module's name are read. *)
ModuleReads(g, path, level, dotted, e) ==
  IF IsInternal(path, level) THEN Recorded(g, "read", OfKind(dotted, "identifier"), e.owner) ELSE g

(* A name that its package binds is the package's and no module of its     *)
(* own; what an internal name stands for is asked.                         *)
EmitImport(g, local, path, level, name, e) ==
  LET id == Id("IMPORT", e.scope \o local)
      shadowed == name # {} /\ path \in here.names
      lookup == IF shadowed THEN SubSeq(path, 1, Len(path) - 1) ELSE path
      internal == IF IsInternal(path, level) THEN LongestModule(lookup) ELSE {}
      target == IF internal # {} THEN The(internal) ELSE Id("EXTERNAL_SYMBOL", path)
      bound == DeclaredIn(g, e.owner, id, 0, 0)
      declared == IF internal = {} THEN External(bound, target) ELSE bound
      linked == Linking(Linking(declared, FileId, "IMPORTS", target), id, "RESOLVES_TO", target)
  IN  IF IsInternal(path, level) THEN Recorded(linked, "import", UNION {AtMostLast(OfKind(d, "identifier")) : d \in name}, id)
      ELSE linked

(* The dotted name an import of one name is written with, and the name it  *)
(* binds.                                                                  *)
Dotted(c) == IF Kind(c) = "aliased_import" THEN First(OfKind(c, "dotted_name")) ELSE c
Local(c) == IF Kind(c) = "aliased_import" THEN Texts(OfKind(c, "identifier")) ELSE Path(c)

VisitImport(g, n, e) ==
  InTurn(OfKind(n, "dotted_name") \cup OfKind(n, "aliased_import"), g, LAMBDA s, c :
    ModuleReads(EmitImport(s, Local(c), Path(Dotted(c)), 0, {}, e), Path(Dotted(c)), 0, Dotted(c), e))

VisitImportFrom(g, n, e) ==
  LET source == The(Fields(n, "module_name"))
      prefix == OfKind(source, "import_prefix")
      level == IF prefix = {} THEN 0 ELSE Len(Text(The(prefix)))
      dotted == IF Kind(source) = "dotted_name" THEN {source} ELSE OfKind(source, "dotted_name")
      module == Relative(level) \o IF dotted = {} THEN <<>> ELSE Path(The(dotted))
      read == InTurn(dotted, g, LAMBDA s, d : ModuleReads(s, module, level, d, e))
      imported(s, c) ==
        IF Kind(c) = "wildcard_import" THEN EmitImport(s, <<"*">>, Append(module, "*"), level, {}, e)
        ELSE EmitImport(s, Local(c), module \o Path(Dotted(c)), level, {Dotted(c)}, e)
  IN  InTurn(Children(n) \ {source}, read, imported)

-------------------------------------------------------------------------------
(* The walk. *)

(* The handlers below call one another; what they are called for is named, *)
(* and `x` is what the call adds to the token and the environment.         *)
RECURSIVE Walk(_, _, _, _, _)
Visit(g, n, e) == Walk("visit", g, n, e, <<>>)
WalkStatement(g, n, e) == Walk("statement", g, n, e, <<>>)
ScanValue(g, n, e) == Walk("value", g, n, e, <<>>)
ScanCall(g, call, e, caller) == Walk("call", g, call, e, caller)
VisitLambda(g, n, e) == Walk("lambda", g, n, e, <<>>)
RecordAliases(g, v, sink, path, depth, e) == Walk("alias", g, v, e, [sink |-> sink, path |-> path, depth |-> depth])

VisitAll(g, S, e) == InTurn(S, g, LAMBDA s, n : Visit(s, n, e))
ScanAll(g, S, e) == InTurn(S, g, LAMBDA s, n : ScanValue(s, n, e))
WalkAll(g, S, e) == InTurn(S, g, LAMBDA s, n : WalkStatement(s, n, e))
WalkBlocks(g, n, e) == WalkAll(g, UNION {Children(b) : b \in AtMostFirst(OfKind(n, "block"))}, e)
ScanAnnotationCalls(g, types, e) == ScanAll(g, UNION {FindCalls(t) : t \in types}, e)

LambdaId(g, n) == Id("FUNCTION", g.lambdas[n])
TheLambda(g, n) == [Given EXCEPT !.value = "lambda", !.id = LambdaId(g, n)]

(* The names a function declares as parameters. *)
ParameterName(p) ==
  CASE Kind(p) = "identifier" -> {p}
    [] Kind(p) \in {"default_parameter", "typed_parameter", "typed_default_parameter",
                    "list_splat_pattern", "dictionary_splat_pattern"} -> AtMostFirst(OfKind(p, "identifier"))
    [] OTHER -> {}
Scope(id, lists) ==
  <<[qname |-> id[2], names |-> {Text(i) : i \in UNION {ParameterName(p) : p \in UNION {Children(l) : l \in lists}}}]>>

(* A default and the calls of an annotation are the function's, its types  *)
(* the parameter's.  (A default sees the parameters before it; that is     *)
(* left out.)                                                              *)
ExtractParameter(g, p, f) ==
  LET name == First(ParameterName(p))
      id == Id("PARAMETER", Under(f, Text(name)))
      types == IF Kind(p) \in {"typed_parameter", "typed_default_parameter"} THEN AtMostFirst(OfKind(p, "type")) ELSE {}
      defaults == IF Kind(p) \in {"default_parameter", "typed_default_parameter"} THEN AtMostLast(Children(p)) ELSE {}
      read == InTurn(defaults, DeclaredIn(g, f.owner, id, name, p),
                     LAMBDA s, d : RecordAliases(ScanValue(s, d, f), d, Sink(id, 0), <<>>, 0, f))
  IN  ScanAnnotationCalls(RecordAnnotation(read, types, id, f.owner), types, f)
ExtractParameters(g, lists, f) ==
  InTurn({p \in UNION {Children(l) : l \in lists} : ParameterName(p) # {}}, g, LAMBDA s, p : ExtractParameter(s, p, f))

(* Mutant: a lambda that two walks meet is read by both.                   *)
LambdaAgain(g, n, e) ==
  LET id == Id("FUNCTION", Under(e, "<lambda" \o ToString(n) \o ">"))
      lists == OfKind(n, "lambda_parameters")
      f == Pushed(e, id, Scope(id, lists))
      named == [g EXCEPT !.lambdas = (n :> id[2]) @@ @]
  IN  ScanAll(ExtractParameters(DeclaredIn(named, e.owner, id, The(OfKind(n, "lambda")), n), lists, f), Fields(n, "body"), f)

(* A lambda is numbered in its scope when it is first met. *)
LambdaVisited(g, n, e) ==
  LET count == Cardinality({m \in DOMAIN g.lambdas : SubSeq(g.lambdas[m], 1, Len(g.lambdas[m]) - 1) = e.scope})
      id == Id("FUNCTION", Under(e, "<lambda" \o ToString(count + 1) \o ">"))
      lists == OfKind(n, "lambda_parameters")
      f == Pushed(e, id, Scope(id, lists))
      named == [g EXCEPT !.lambdas = @ @@ (n :> id[2])]
      declared == DeclaredIn(named, e.owner, id, The(OfKind(n, "lambda")), n)
  IN  IF n \in DOMAIN g.lambdas THEN g
      ELSE ScanAll(ExtractParameters(declared, lists, f), Fields(n, "body"), f)

(* What is returned, or yielded: a name, a lambda, what a call returns. *)
Returned(g, c, e) ==
  LET out == [Given EXCEPT !.via = "return"]
      lambda == UnwrapLambda(c)
  IN  IF PlainName(c) # {} THEN RecordedWith(g, "alias", PlainName(c), e.owner, 0, out)
      ELSE IF lambda # {}
      THEN LET met == VisitLambda(g, The(lambda), e)
           IN  RecordedWith(met, "alias", lambda, e.owner, 0, [TheLambda(met, The(lambda)) EXCEPT !.via = "return"])
      ELSE IF Kind(c) = "call" THEN RecordedWith(g, "alias", CalleeName(c), e.owner, 0, [out EXCEPT !.value = "result"])
      ELSE g

(* "Every identifier yields exactly one read, every call exactly one call." *)
ValueScanned(g, n, e) ==
  CASE Kind(n) = "lambda" -> VisitLambda(g, n, e)
    [] Kind(n) = "yield" -> ScanAll(InTurn(Children(n), g, LAMBDA s, c : Returned(s, c, e)), Children(n), e)
    [] Kind(n) = "call" -> ScanCall(g, n, e, e.by)
    [] Kind(n) = "identifier" -> Recorded(g, "read", {n}, e.by)
    [] Kind(n) = "string_content" -> g
    [] OTHER -> ScanAll(g, Children(n), e)

(* What a value hands to a sink, under which keys of it. *)
AliasesRecorded(g, v, sink, path, depth, e) ==
  LET lambda == UnwrapLambda(v)
      elements == IF Kind(v) = "dictionary" THEN OfKind(v, "pair") ELSE Uncommented(v)
      keyOf(c) ==
        CASE Kind(v) = "dictionary" -> IF \E k \in Fields(c, "key") : IsLiteral(k) THEN LiteralKey(The(Fields(c, "key"))) ELSE Wild
          [] Kind(v) = "set" -> Wild
          [] OTHER -> Numbered(IndexIn(c, elements))
      valueOf(c) == IF Kind(v) = "dictionary" THEN Fields(c, "value") ELSE {d \in {c} : Kind(d) # "list_splat"}
      element(s, c) == InTurn(valueOf(c), s, LAMBDA t, d : RecordAliases(t, d, sink, Append(path, keyOf(c)), depth + 1, e))
  IN  CASE PlainName(v) # {} -> Aliased(g, PlainName(v), sink, path, Given)
        [] lambda # {} ->
             LET met == VisitLambda(g, The(lambda), e) IN Aliased(met, lambda, sink, path, TheLambda(met, The(lambda)))
        [] Kind(v) = "call" ->
             Aliased(Aliased(g, CalleeName(v), sink, path, ResultOf),
                     IF Yielding(v) THEN CallbackArguments(v) ELSE {}, sink, Append(path, Wild), ResultOf)
        [] Kind(v) = "subscript" ->
             IF SubscriptRoot(v) = {} THEN g
             ELSE Aliased(EmitKeys(g, SubscriptKeys(v), sink.holder), SubscriptRoot(v), sink, path,
                          [Given EXCEPT !.value = "get", !.keys = KeyParts(SubscriptKeys(v))])
        [] Kind(v) = "parenthesized_expression" /\ lambda = {} ->
             InTurn(AtMostFirst(Children(v)), g, LAMBDA s, c : RecordAliases(s, c, sink, path, depth, e))
        [] Kind(v) \in {"dictionary", "list", "tuple", "set"} /\ depth < 4 -> InTurn(elements, g, element)
        [] IsLiteral(v) /\ depth = 0 /\ path = <<>> ->
             Aliased(g, {v}, sink, path, [Given EXCEPT !.value = "literal", !.keys = <<LiteralKey(v)>>])
        [] OTHER -> g

(* What `l.append(v)` and its kin store: the further keys, the elements    *)
(* and the key they are under.                                             *)
Stored(method, arguments) ==
  LET count == Cardinality(arguments)
      last == AtMostLast(arguments)
      one(kinds) == count = 1 /\ Kind(Last(arguments)) \in kinds
  IN  CASE (method \in {"append", "add"} /\ count = 1) \/ (method = "insert" /\ count = 2) ->
             [keys |-> {}, extra |-> <<Wild>>, elements |-> last, under |-> <<>>]
        [] method = "update" /\ one({"dictionary"}) -> [keys |-> {}, extra |-> <<>>, elements |-> last, under |-> <<>>]
        [] method = "extend" /\ one({"list", "tuple"}) ->
             [keys |-> {}, extra |-> <<>>, elements |-> Uncommented(Last(arguments)), under |-> <<Wild>>]
        [] method = "setdefault" /\ count = 2 -> [keys |-> AtMostFirst(arguments), extra |-> <<>>, elements |-> last, under |-> <<>>]
        [] OTHER -> [keys |-> {}, extra |-> <<>>, elements |-> {}, under |-> <<>>]

(* A store is known by the token that makes it. *)
StoreInto(g, store, root, keys, extra, by) ==
  RecordedWith(EmitKeys(g, keys, by), "store", root, by, store, [Given EXCEPT !.keys = KeyParts(keys) \o extra])

RecordMethodStore(g, call, callee, caller, e) ==
  LET receiver == First(Children(callee))
      root == SubscriptRoot(receiver)
      arguments == {a \in CallArguments(call) : Kind(a) \notin {"comment", "keyword_argument"}}
      stored == Stored(Text(Last(Children(callee))), arguments)
  IN  IF root = {} \/ stored.elements = {} THEN g
      ELSE InTurn(stored.elements, StoreInto(g, call, root, SubscriptKeys(receiver) \cup stored.keys, stored.extra, caller),
                  LAMBDA s, v : RecordAliases(s, v, Sink(caller, call), stored.under, 0, e))

(* A call through a name: the receiver is read, the name is called; what a *)
(* parameter holds is called through it, and the arguments that a library  *)
(* function calls.                                                         *)
CallNamed(g, call, callee, e, caller) ==
  LET attribute == Kind(callee) = "attribute"
      name == IF attribute THEN Last(Children(callee)) ELSE callee
      received == IF attribute THEN ScanAll(g, Children(callee) \ {name}, e) ELSE g
      called == Recorded(received, "call", {name}, caller)
      held == IF attribute THEN {} ELSE ParameterOf(Text(name), e)
      parameter == RecordedWith(called, "paramcall", {n \in {name} : held # {}}, caller, 0,
                                [Given EXCEPT !.id = IF held = {} THEN <<>> ELSE The(held)])
      callbacks == RecordedWith(parameter, "callarg", CallbackArguments(call), caller, name, Given)
  IN  IF attribute
      THEN RecordMethodStore(RecordedWith(callbacks, "recv", PlainName(First(Children(callee))), caller, name, Given),
                             call, callee, caller, e)
      ELSE callbacks

(* A call of something else: of what a call returns, of what a container   *)
(* holds under a key.                                                      *)
CallOther(g, call, callee, e, caller) ==
  CASE Kind(callee) = "call" ->
         RecordedWith(ScanCall(g, callee, e, caller), "call", CalleeName(BaseCall(callee)), caller,
                      IF Has(call, "arguments") THEN The(Fields(call, "arguments")) ELSE 0,
                      [ResultOf EXCEPT !.slot = ToString(CallDepth(callee))])
    [] Kind(callee) = "subscript" ->
         LET root == SubscriptRoot(callee)
             scanned == ScanValue(g, callee, e)
         IN  IF root = {} THEN scanned
             ELSE RecordedWith(EmitKeys(scanned, SubscriptKeys(callee), caller), "call", root, caller, 0,
                               [Given EXCEPT !.value = "keys", !.keys = KeyParts(SubscriptKeys(callee))])
    [] OTHER -> ScanValue(g, callee, e)

CallSite(call) ==
  LET first == First(Children(call))
  IN  CASE Callee(call) # {} -> IF Kind(The(Callee(call))) = "attribute" THEN Last(Children(The(Callee(call)))) ELSE The(Callee(call))
        [] Callee(call) = {} /\ Kind(first) = "call" /\ CalleeName(BaseCall(first)) # {} -> The(Fields(call, "arguments"))
        [] OTHER -> 0

ScanArgument(g, v, e, site, slot) ==
  LET passed(s, S, detail) == RecordedWith(s, "read", S, e.by, site, [detail EXCEPT !.via = "arg", !.slot = slot])
      lambda == UnwrapLambda(v)
  IN  CASE site = 0 -> ScanValue(g, v, e)
        [] site # 0 /\ PlainName(v) # {} ->
             passed(IF Kind(v) = "attribute" THEN ScanAll(g, Children(v) \ PlainName(v), e) ELSE g, PlainName(v), Given)
        [] site # 0 /\ IsLiteral(v) -> passed(g, {v}, [Given EXCEPT !.value = "literal", !.keys = <<LiteralKey(v)>>])
        [] site # 0 /\ lambda # {} ->
             LET met == VisitLambda(g, The(lambda), e) IN passed(met, lambda, TheLambda(met, The(lambda)))
        [] site # 0 /\ Kind(v) = "call" -> ScanValue(passed(g, PlainNames(Fields(v, "function")), ResultOf), v, e)
        [] OTHER -> ScanValue(g, v, e)

(* The place of a positional argument counts what stands before it in the  *)
(* list.                                                                   *)
CallScanned(g, call, e, caller) ==
  LET called == IF Callee(call) # {} THEN CallNamed(g, call, The(Callee(call)), e, caller)
                ELSE CallOther(g, call, First(Children(call)), e, caller)
      arguments == CallArguments(call)
      positional == {a \in arguments : Kind(a) # "keyword_argument"}
      argument(s, a) ==
        IF a \in positional THEN ScanArgument(s, a, e, CallSite(call), ToString(IndexIn(a, positional)))
        ELSE ScanArgument(RecordedWith(s, "read", Fields(a, "name"), e.by, 0, [Given EXCEPT !.value = "keyword"]),
                          Last(Children(a)), e, CallSite(call), "=" \o Text(First(Children(a))))
  IN  InTurn(arguments, called, argument)

-------------------------------------------------------------------------------
(* Definitions. *)

(* A decorator is called by the scope, and read by what it decorates. *)
Decorated(g, decorator, index, id, e) ==
  LET applied(s, S, how) == RecordedWith(s, "decorate", S, id, 0, [Given EXCEPT !.value = how, !.slot = ToString(index)])
      one(s, c) ==
        CASE Kind(c) = "call" -> applied(Recorded(ScanCall(s, c, By(e, id), e.owner), "read", CalleeName(c), id), CalleeName(c), "result")
          [] Kind(c) \in {"identifier", "attribute"} ->
               applied(Recorded(ScanValue(s, c, By(e, id)), "call", PlainName(c), e.owner), PlainName(c), "name")
          [] OTHER -> ScanValue(s, c, By(e, id))
  IN  InTurn(Children(decorator), g, one)
ScanDecorators(g, decorators, id, e) ==
  InTurn(decorators, g, LAMBDA s, d : Decorated(s, d, IndexIn(d, decorators), id, e))

HandleClass(g, n, e, decorators) ==
  LET name == First(OfKind(n, "identifier"))
      id == Id("CLASS", Under(e, Text(name)))
      open == ScanDecorators(DeclaredIn(g, e.owner, id, name, n), decorators, id, e)
      argument(s, c) ==
        CASE Kind(c) \in {"identifier", "attribute", "subscript"} -> Recorded(s, "base", FirstIdentifier(c), id)
          [] Kind(c) = "keyword_argument" -> ScanValue(s, Last(Children(c)), By(e, id))
          [] OTHER -> s
      based == InTurn(UNION {Children(l) : l \in OfKind(n, "argument_list")}, open, argument)
  IN  VisitAll(based, UNION {Children(b) : b \in OfKind(n, "block")}, Pushed(e, id, <<>>))

HandleFunction(g, n, e, decorators) ==
  LET name == First(OfKind(n, "identifier"))
      id == Id(IF e.kind = "CLASS" THEN "METHOD" ELSE "FUNCTION", Under(e, Text(name)))
      types == OfKind(n, "type")
      lists == OfKind(n, "parameters")
      f == Pushed(e, id, Scope(id, lists))
      open == ScanDecorators(DeclaredIn(g, e.owner, id, name, n), decorators, id, e)
      typed == ScanAnnotationCalls(RecordAnnotation(open, types, id, id), types, By(e, id))
  IN  WalkBlocks(ExtractParameters(typed, lists, f), n, f)

VisitDecorated(g, n, e) ==
  LET decorators == OfKind(n, "decorator")
      one(s, d) == IF Kind(d) = "class_definition" THEN HandleClass(s, d, e, decorators) ELSE HandleFunction(s, d, e, decorators)
  IN  InTurn(OfKind(n, "class_definition") \cup OfKind(n, "function_definition"), g, one)

-------------------------------------------------------------------------------
(* Assignments. *)

IsSelf(lhs) == \E r \in Fields(lhs, "object") : Kind(r) = "identifier" /\ Text(r) \in {"self", "cls"}
IsAliasType(types) == \E t \in types : \E i \in Children(t) : Kind(i) = "identifier" /\ Text(i) = "TypeAlias"

(* The node a target declares: none for `obj.attr`. *)
TargetId(lhs, name, types, e) ==
  LET owned == Kind(lhs) = "attribute"
      scope == IF owned THEN e.class ELSE e.scope
      kind == IF IsAliasType(types) THEN "TYPE_ALIAS" ELSE IF owned \/ e.kind = "CLASS" THEN "ATTRIBUTE" ELSE "VARIABLE"
  IN  IF owned /\ ~ (IsSelf(lhs) /\ e.class # <<>>) THEN {} ELSE {Id(kind, Append(scope, Text(name)))}

(* The checker answers a use of an attribute with the start of any         *)
(* `self.x` that writes it: the node keeps them all.                       *)
NoteDeclaredAt(g, id, lhs, name, existed) ==
  LET known == (IF id \in DOMAIN g.sites THEN g.sites[id] ELSE {}) \cup {lhs} \cup IF existed THEN {name} ELSE {}
  IN  [g EXCEPT !.sites = (id :> known) @@ @, !.nodes[id].also = known]

DeclareTarget(g, node, lhs, name, types, e) ==
  LET ids == TargetId(lhs, name, types, e)
      id == The(ids)
      declared ==
        IF ids = {} THEN ScanAll(g, Fields(lhs, "object"), e)
        ELSE IF Kind(lhs) = "attribute"
        THEN NoteDeclaredAt(DeclaredIn(g, Id("CLASS", e.class), id, name, node), id, lhs, name, id \in DOMAIN g.nodes)
        ELSE DeclaredIn(g, e.owner, id, name, node)
  IN  Recorded(declared, "write", {name}, e.owner)

(* `a, *b, c = x, y, z`: which elements each target holds. *)
HandleUnpacking(g, node, lhs, rhs, e) ==
  LET targets == Uncommented(lhs)
      starred == {t \in targets : Kind(t) = "list_splat_pattern"}
      nameOf(t) == IF t \in starred THEN AtMostFirst(OfKind(t, "identifier")) ELSE {u \in {t} : Kind(u) = "identifier"}
      declared == InTurn(UNION {nameOf(t) : t \in targets}, g, LAMBDA s, i : DeclareTarget(s, node, i, i, {}, e))
      value == The(rhs)
      listed == rhs # {} /\ Kind(value) \in {"expression_list", "tuple", "list", "pattern_list"}
      elements == Uncommented(value)
      after(t) == Cardinality(targets) - IndexIn(t, targets)
      holds(s, t, x, path) ==
        InTurn(nameOf(t), s, LAMBDA u, i : RecordAliases(u, x, Sink(The(TargetId(i, i, {}, e)), 0), path, 0, e))
      spread(s, t) ==
        InTurn({x \in elements : IndexIn(x, elements) >= IndexIn(t, targets) /\ IndexIn(x, elements) < Cardinality(elements) - after(t) + 1}, s,
               LAMBDA u, x : holds(u, t, x, <<Numbered(IndexIn(x, elements) - IndexIn(t, targets))>>))
      place(t) == IF \E s \in starred : s < t THEN Cardinality(elements) - after(t) ELSE IndexIn(t, targets)
      indexed(s, t) ==
        InTurn(nameOf(t), s, LAMBDA u, i : RecordedWith(u, "alias", PlainName(value), The(TargetId(i, i, {}, e)), 0,
                                             [Given EXCEPT !.value = "get", !.keys = <<Numbered(IndexIn(t, targets))>>]))
  IN  IF listed
      THEN InTurn(targets, declared, LAMBDA s, t :
             IF t \in starred THEN spread(s, t)
             ELSE InTurn(Nth(elements, place(t)), s, LAMBDA u, x : holds(u, t, x, <<>>)))
      ELSE IF rhs # {} /\ starred = {} THEN InTurn(targets, declared, indexed)
      ELSE declared

(* `d[k] = v`: v is stored in d under k. *)
StoreIntoContainer(g, lhs, rhs, e) ==
  LET root == SubscriptRoot(lhs)
      stored == IF root = {} THEN g
                ELSE InTurn(rhs, StoreInto(g, lhs, root, SubscriptKeys(lhs), <<>>, e.owner),
                            LAMBDA s, v : RecordAliases(s, v, Sink(e.owner, lhs), <<>>, 0, e))
  IN  ScanValue(stored, lhs, e)

Patterns == {"pattern_list", "tuple_pattern", "list_pattern"}
TargetName(lhs) == IF Kind(lhs) = "attribute" THEN AtMostLast(OfKind(lhs, "identifier")) ELSE FirstIdentifier(lhs)
IsDeclaredAlias(lhs, types, e) ==
  Kind(lhs) \notin Patterns \cup {"subscript"} /\ IsAliasType(types) /\ \E n \in TargetName(lhs) : TargetId(lhs, n, types, e) # {}

BindNamed(g, assign, lhs, name, rhs, types, e) ==
  LET declared == DeclareTarget(g, assign, lhs, name, types, e)
      ids == TargetId(lhs, name, types, e)
      id == The(ids)
      typed == IF ids = {} THEN declared ELSE RecordAnnotation(declared, types, id, e.owner)
      called == ScanAnnotationCalls(typed, types, e)
  IN  IF ids = {} THEN called
      ELSE IF IsAliasType(types) THEN declared
      ELSE InTurn(rhs, called, LAMBDA s, v : RecordAliases(s, v, Sink(id, 0), <<>>, 0, e))

BindTarget(g, assign, lhs, rhs, types, e) ==
  CASE Kind(lhs) = "subscript" -> StoreIntoContainer(g, lhs, rhs, e)
    [] Kind(lhs) \in Patterns -> HandleUnpacking(g, assign, lhs, rhs, e)
    [] OTHER -> InTurn(TargetName(lhs), g, LAMBDA s, n : BindNamed(s, assign, lhs, n, rhs, types, e))

RECURSIVE Assignments(_)
Assignments(n) == {n} \cup UNION {Assignments(r) : r \in {x \in Fields(n, "right") : Kind(x) = "assignment"}}

(* Every target of a chain is bound, its value is scanned once. *)
HandleAssignment(g, n, e) ==
  LET rhs == Fields(Last(Assignments(n)), "right")
      types == Fields(n, "type")
      bound == InTurn(Assignments(n), g, LAMBDA s, a : BindTarget(s, a, First(Children(a)), rhs, IF a = n THEN types ELSE {}, e))
  IN  IF IsDeclaredAlias(First(Children(n)), types, e) THEN RecordAnnotation(bound, rhs, e.owner, e.owner)
      ELSE ScanAll(bound, rhs, e)

-------------------------------------------------------------------------------
(* Statements. *)

VisitExpressionStatement(g, n, e) ==
  InTurn(Children(n), g, LAMBDA s, c : IF Kind(c) = "assignment" THEN HandleAssignment(s, c, e) ELSE ScanValue(s, c, e))

VisitReturnStatement(g, n, e) ==
  InTurn(Children(n), g, LAMBDA s, c : ScanValue(Returned(s, c, e), c, e))

(* The names a loop or a handler of a module binds. *)
RECURSIVE ModuleTargets(_)
ModuleTargets(t) ==
  CASE Kind(t) = "identifier" -> {t}
    [] Kind(t) \in Patterns \cup {"list_splat_pattern"} -> UNION {ModuleTargets(c) : c \in Children(t)}
    [] OTHER -> {}
DeclareModuleTargets(g, t, e) == InTurn(ModuleTargets(t), g, LAMBDA s, i : DeclareTarget(s, i, i, i, {}, e))

WalkModuleExcept(g, n, e) ==
  LET named == UNION {FirstIdentifier(a) : a \in UNION {Fields(c, "alias") : c \in OfKind(n, "as_pattern")}}
      one(s, c) ==
        CASE Kind(c) = "as_pattern" ->
               InTurn(named, ScanAll(s, Children(c) \ Fields(c, "alias"), e), LAMBDA t, i : DeclareModuleTargets(t, i, e))
          [] Kind(c) = "block" -> WalkAll(s, Children(c), e)
          [] OTHER -> ScanValue(s, c, e)
  IN  InTurn(Children(n), g, one)

(* A loop variable is a node of its own when the body calls it. *)
CalledLoopVariable(n, e) ==
  {Id("VARIABLE", Under(e, Text(t))) : t \in {u \in Fields(n, "left") :
     Kind(u) = "identifier" /\ \E c \in UNION {OfKinds(b, {"call"}) : b \in Fields(n, "body")} :
       \E f \in Fields(c, "function") : Kind(f) = "identifier" /\ Text(f) = Text(u)}}
DeclareCalledLoopVariable(g, n, e) ==
  InTurn(Fields(n, "left"), g, LAMBDA s, t :
    LET ids == CalledLoopVariable(n, e) \ DOMAIN s.nodes
    IN  IF ids = {} THEN s ELSE DeclaredIn(s, e.owner, The(ids), t, t))
RecordIteration(g, n, e) ==
  LET over == Fields(n, "right")
      called == {x \in over : Kind(x) = "call"}
      names == PlainNames((over \ called) \cup UNION {Fields(x, "function") : x \in called})
      variable == CalledLoopVariable(n, e)
  IN  RecordedWith(g, "iterate", names, e.by, 0, [Given EXCEPT !.id = IF variable = {} THEN <<>> ELSE The(variable)])

(* At module level the targets of a loop are declared and not read. *)
OpenLoop(g, n, e) ==
  LET declared == IF e.kind = "FILE" THEN InTurn(Fields(n, "left"), g, LAMBDA s, t : DeclareModuleTargets(s, t, e)) ELSE g
  IN  RecordIteration(DeclareCalledLoopVariable(declared, n, e), n, e)

Raised(g, n, e) == ScanAll(Recorded(g, "call", PlainNames(AtMostFirst(Children(n))), e.by), Children(n), e)

WalkChild(g, c, e) ==
  CASE Kind(c) = "block" -> WalkAll(g, Children(c), e)
    [] Kind(c) # "block" /\ OfKind(c, "block") # {} -> WalkStatement(g, c, e)
    [] OTHER -> ScanValue(g, c, e)

Definitions == {"function_definition", "class_definition", "decorated_definition"}
Importing == {"import_statement", "import_from_statement"}
StatementWalked(g, n, e) ==
  CASE Kind(n) \in Definitions \cup Importing -> Visit(g, n, e)
    [] Kind(n) = "expression_statement" -> VisitExpressionStatement(g, n, e)
    [] Kind(n) = "return_statement" -> VisitReturnStatement(g, n, e)
    [] Kind(n) = "except_clause" /\ e.kind = "FILE" -> WalkModuleExcept(g, n, e)
    [] Kind(n) = "raise_statement" -> Raised(g, n, e)
    [] Kind(n) = "for_statement" ->
         InTurn(Children(n) \ (IF e.kind = "FILE" THEN Fields(n, "left") ELSE {}), OpenLoop(g, n, e), LAMBDA s, c : WalkChild(s, c, e))
    [] OTHER -> InTurn(Children(n), g, LAMBDA s, c : WalkChild(s, c, e))

Compound == {"if_statement", "for_statement", "while_statement", "with_statement", "try_statement",
             "raise_statement", "assert_statement", "match_statement", "delete_statement"}
Visited(g, n, e) ==
  CASE Kind(n) = "decorated_definition" -> VisitDecorated(g, n, e)
    [] Kind(n) = "class_definition" -> HandleClass(g, n, e, {})
    [] Kind(n) = "function_definition" -> HandleFunction(g, n, e, {})
    [] Kind(n) = "import_statement" -> VisitImport(g, n, e)
    [] Kind(n) = "import_from_statement" -> VisitImportFrom(g, n, e)
    [] Kind(n) = "expression_statement" -> VisitExpressionStatement(g, n, e)
    [] Kind(n) = "return_statement" -> VisitReturnStatement(g, n, e)
    [] Kind(n) \in Compound -> WalkStatement(g, n, e)
    [] OTHER -> VisitAll(g, Children(n), e)

Walk(as, g, n, e, x) ==
  CASE as = "visit" -> Visited(g, n, e)
    [] as = "statement" -> StatementWalked(g, n, e)
    [] as = "value" -> ValueScanned(g, n, e)
    [] as = "call" -> CallScanned(g, n, e, x)
    [] as = "lambda" -> LambdaVisited(g, n, e)
    [] as = "alias" -> AliasesRecorded(g, n, x.sink, x.path, x.depth, e)
===============================================================================
