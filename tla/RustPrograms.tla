------------------------------ MODULE RustPrograms ------------------------------
(***************************************************************************)
(* Rust programs as tree-sitter-rust parses them: the grammar's constructs *)
(* as operators, and the files TLC is given.  The last argument of a name  *)
(* is the label of the declaration it stands for.                          *)
(***************************************************************************)
EXTENDS SyntaxTree

Kid(field, term) == <<<<field, term>>>>
All(field, terms) == [i \in DOMAIN terms |-> <<field, terms[i]>>]

Ident(x, d) == Leaf("identifier", x, d)
Var(x, d) == Declaring("identifier", x, d)
Type(x, d) == Leaf("type_identifier", x, d)
Field(x, d) == Leaf("field_identifier", x, d)
Byte == Leaf("primitive_type", "u8", "")
Number == Leaf("integer_literal", "1", "")
Crate_ == Leaf("crate", "crate", "app")
Super_(d) == Leaf("super", "super", d)
Reference(t) == N("reference_type", Kid("type", t))
Generic(t, args) == N("generic_type", Kid("type", t) \o Kid("type_arguments", N("type_arguments", All("", args))))
Scoped(p, n) == N("scoped_identifier", Kid("path", p) \o Kid("name", n))
ScopedType(p, n) == N("scoped_type_identifier", Kid("path", p) \o Kid("name", n))

Call(f, args) == N("call_expression", Kid("function", f) \o Kid("arguments", N("arguments", All("", args))))
Access(v, f) == N("field_expression", Kid("value", v) \o Kid("field", f))
Index(v, i) == N("index_expression", Kid("", v) \o Kid("", i))
Paren(e) == N("parenthesized_expression", Kid("", e))
Borrow(e) == N("reference_expression", Kid("value", e))
Deref(e) == N("unary_expression", Kid("", e))
Cast(e, t) == N("type_cast_expression", Kid("value", e) \o Kid("type", t))
Turbofish(f, t) == N("generic_function", Kid("function", f) \o Kid("type_arguments", N("type_arguments", Kid("", t))))
Tuple(es) == N("tuple_expression", All("", es))
Array(es) == N("array_expression", All("", es))
Assign(l, r) == N("assignment_expression", Kid("left", l) \o Kid("right", r))
Compound(l, r) == N("compound_assignment_expr", Kid("left", l) \o Kid("right", r))
Return(e) == N("return_expression", Kid("", e))
Struct(name, inits) == N("struct_expression", Kid("name", name) \o Kid("body", N("field_initializer_list", All("", inits))))
Filled(f, v) == N("field_initializer", Kid("field", f) \o Kid("value", v))
Shorthand(x) == N("shorthand_field_initializer", Kid("", x))
Let(p, t, v) == N("let_declaration", Kid("pattern", p) \o t \o Kid("value", v))
Typed(t) == Kid("type", t)
Stmt(e) == N("expression_statement", Kid("", e))
Closure(ps, result, body) ==
  N("closure_expression", Kid("parameters", N("closure_parameters", All("", ps))) \o result \o Kid("body", body))
Match(e, arms) == N("match_expression", Kid("value", e) \o Kid("body", N("match_block", All("", arms))))
Arm(pattern, guard, value) == N("match_arm", Kid("pattern", N("match_pattern", Kid("", pattern) \o guard)) \o Kid("value", value))
TuplePattern(t, ps) == N("tuple_struct_pattern", Kid("type", t) \o All("", ps))
StructPattern(t, fields) == N("struct_pattern", Kid("type", t) \o All("", fields))
FieldPattern(name, p) == N("field_pattern", Kid("name", name) \o p)
IfLet(p, v, body) == N("if_expression", Kid("condition", N("let_condition", Kid("pattern", p) \o Kid("value", v))) \o Kid("consequence", body))
For(p, v, stmts) == N("for_expression", Kid("pattern", p) \o Kid("value", v) \o Kid("body", N("block", All("", stmts))))
Token_(x) == Leaf("token", x, "")
Group(leaves) == Kid("", N("token_tree", All("", leaves)))
Invoke(x, leaves) == N("macro_invocation", Kid("macro", x) \o Group(leaves))

Param(x, d, t) == N("parameter", Kid("pattern", Var(x, d)) \o Kid("type", t))
Params(ps) == Kid("parameters", N("parameters", All("", ps)))
Result(t) == Kid("return_type", t)
Block(stmts) == N("block", All("", stmts))
Body(stmts) == Kid("body", Block(stmts))
Function(pre, x, d, ps, result, stmts) ==
  N("function_item", pre \o Kid("name", Var(x, d)) \o Params(ps) \o result \o Body(stmts))
Func(x, ps, result, stmts) == Function(<<>>, x, "app." \o x, ps, result, stmts)
Signature(x, d, ps, result) == N("function_signature_item", Kid("name", Var(x, d)) \o Params(ps) \o result)
Public(kid) == Kid("", N("visibility_modifier", Kid("", kid)))
TypeParams(ps) == Kid("type_parameters", N("type_parameters", All("", ps)))
Bounded(x, d, b) == N("type_parameter", Kid("name", Declaring("type_identifier", x, d)) \o Kid("bounds", N("trait_bounds", Kid("", b))))
ConstParam(x, d, t) == N("const_parameter", Kid("name", Var(x, d)) \o Kid("type", t))
Where(t, b) == Kid("", N("where_clause", Kid("", N("where_predicate", Kid("left", t) \o Kid("bounds", N("trait_bounds", Kid("", b)))))))
TypeName(x, d) == Kid("name", Declaring("type_identifier", x, d))
FieldDecl(x, d, t) == N("field_declaration", Kid("name", Declaring("field_identifier", x, d)) \o Kid("type", t))
Fields_(fs) == Kid("body", N("field_declaration_list", All("", fs)))
Tuple_(ts) == Kid("body", N("ordered_field_declaration_list", All("type", ts)))
StructItem(x, d, pre, body) == N("struct_item", TypeName(x, d) \o pre \o body)
Variant(x, d, rest) == N("enum_variant", Kid("name", Var(x, d)) \o rest)
Enum(x, d, variants) == N("enum_item", TypeName(x, d) \o Kid("body", N("enum_variant_list", All("", variants))))
Trait(x, d, bounds, members) == N("trait_item", TypeName(x, d) \o bounds \o Kid("body", N("declaration_list", All("", members))))
Impl(pre, trait, t, members) == N("impl_item", pre \o trait \o Kid("type", t) \o Kid("body", N("declaration_list", All("", members))))
Alias(x, d, t) == N("type_item", TypeName(x, d) \o Kid("type", t))
Associated(x, d, b) == N("associated_type", TypeName(x, d) \o Kid("bounds", N("trait_bounds", Kid("", b))))
Const(x, d, t, v) == N("const_item", Kid("name", Var(x, d)) \o Kid("type", t) \o v)
Static(x, d, t, v) == N("static_item", Kid("name", Var(x, d)) \o Kid("type", t) \o Kid("value", v))
ModHere(x, items) == N("mod_item", Kid("name", Var(x, x)) \o Kid("body", N("declaration_list", All("", items))))
ModFile(x) == N("mod_item", Kid("name", Ident(x, x)))
UseItem(argument) == N("use_declaration", Kid("argument", argument))
UseList(path, items) == N("scoped_use_list", Kid("path", path) \o Kid("list", N("use_list", All("", items))))
As(path, x) == N("use_as_clause", Kid("path", path) \o Kid("alias", Ident(x, "")))
Macro(x, rules) == N("macro_definition", Kid("name", Var(x, "app." \o x)) \o All("", rules))
Rule(pattern, body) == N("macro_rule", Kid("", N("token_tree_pattern", All("", pattern))) \o Group(body))
SourceFile(module, items) == Parsed(Term("source_file", "", module, TRUE, All("", items)))

-------------------------------------------------------------------------------
(* The declarations every program has. *)

ItemT == Type("Item", "app.Item")
Max == Ident("MAX", "app.MAX")
g(args) == Call(Ident("g", "app.g"), args)
util == Ident("util", "util")

Item == StructItem("Item", "app.Item", <<>>,
  Fields_(<<FieldDecl("name", "Item.name", Byte), FieldDecl("next", "Item.next", Generic(Type("Box", "alloc.Box"), <<ItemT>>)),
            FieldDecl("run", "Item.run", Type("Hook", "app.Hook"))>>))
Hook == Alias("Hook", "app.Hook", N("function_type", Kid("parameters", N("parameters", Kid("", ItemT))) \o Kid("return_type", ItemT)))
FuncG == Func("g", <<Param("i", "g.i", ItemT)>>, Result(ItemT), <<Ident("i", "g.i")>>)
MaxItem == Static("MAX", "app.MAX", ItemT, g(<<Max>>))
Shape == Enum("Shape", "app.Shape",
  <<Variant("Unit", "Shape.Unit", Kid("value", Cast(Max, Type("Hook", "app.Hook")))),
    Variant("Round", "Shape.Round", Tuple_(<<ItemT>>)),
    Variant("Sided", "Shape.Sided", Fields_(<<FieldDecl("n", "Sided.n", ItemT)>>))>>)

(* The module the others use. *)
Util == SourceFile("util",
  <<StructItem("T", "util.T", <<>>, Tuple_(<<ScopedType(Super_("app"), ItemT), Byte>>)),
    Function(Public(Super_("app")), "double", "util.double", <<Param("x", "double.x", Type("T", "util.T"))>>, <<>>,
      <<Invoke(Ident("twice", "app.twice"), <<>>), Call(Scoped(Super_("app"), Ident("g", "app.g")), <<>>)>>)>>)

Double(args) == Call(Scoped(util, Ident("double", "util.double")), args)

(* The declarations a program may add. *)
Calls_ == Func("calls", <<>>, <<>>,
  <<Stmt(Double(<<g(<<Max>>), Max, Access(Max, Field("run", "Item.run"))>>)),
    Stmt(Call(Scoped(Scoped(Crate_, util), Ident("double", "util.double")), <<Ident("g", "app.g")>>)),
    Stmt(Call(Turbofish(Ident("generic", "app.generic"), ItemT), <<Max>>)),
    Stmt(Call(Call(Ident("g", "app.g"), <<>>), <<Ident("g", "app.g")>>)),
    Stmt(Call(Index(Ident("TABLE", "app.TABLE"), Number), <<Max>>)),
    Stmt(Call(Index(Access(Max, Field("next", "Item.next")), Number), <<>>)),
    Stmt(Call(Access(g(<<>>), Field("map", "core.map")), <<Ident("g", "app.g")>>)),
    Stmt(Call(Paren(Access(Max, Field("run", "Item.run"))), <<Paren(Max)>>))>>)

Values_ == Func("values", <<Param("i", "values.i", Reference(ItemT))>>, <<>>,
  <<Let(Var("n", "values.n"), <<>>, Access(Ident("i", "values.i"), Field("name", "Item.name"))),
    Let(TuplePattern(Scoped(Ident("Shape", "app.Shape"), Ident("Round", "Shape.Round")), <<Var("r", "values.r")>>), <<>>, Max),
    Stmt(Struct(ItemT, <<Filled(Field("name", "Item.name"), Ident("n", "values.n")),
                         Filled(Field("run", "Item.run"), Ident("g", "app.g")), Shorthand(Max)>>)),
    Stmt(Match(Max,
      <<Arm(Ident("Unit", "Shape.Unit"), Kid("condition", Access(Max, Field("name", "Item.name"))), Max),
        Arm(StructPattern(ScopedType(Type("Shape", "app.Shape"), Type("Sided", "Shape.Sided")),
              <<FieldPattern(Field("n", "Sided.n"), Kid("pattern", Var("m", "values.m")))>>), <<>>, Ident("m", "values.m")),
        Arm(Var("rest", "values.rest"), <<>>, Scoped(Scoped(Crate_, util), Ident("T", "util.T")))>>)),
    Stmt(IfLet(Ident("Unit", "Shape.Unit"), Max, Block(<<Stmt(Assign(Max, Max))>>)))>>)

Writes_ == Func("writes", <<Param("i", "writes.i", ItemT)>>, <<>>,
  <<Stmt(Assign(Access(Ident("i", "writes.i"), Field("name", "Item.name")), Max)),
    Stmt(Compound(Max, Access(Ident("i", "writes.i"), Field("name", "Item.name")))),
    Stmt(Assign(Access(Access(Ident("i", "writes.i"), Field("next", "Item.next")), Field("run", "Item.run")), Ident("g", "app.g"))),
    Stmt(Assign(Scoped(Crate_, Max), Ident("i", "writes.i")))>>)

Closures == Func("closures", <<>>, <<>>,
  <<Let(Var("k", "closures.k"), Typed(Type("Hook", "app.Hook")),
        Closure(<<Param("a", "closures.a", ItemT), Var("b", "closures.b")>>, Result(ItemT),
                Block(<<g(<<Ident("b", "closures.b"), Cast(Ident("a", "closures.a"), Type("Hook", "app.Hook"))>>)>>))),
    Stmt(Call(Ident("k", "closures.k"), <<Max>>)),
    Return(Ident("k", "closures.k"))>>)

Flows == Func("flows", <<>>, <<>>,
  <<Let(Var("f", "flows.f"), <<>>, Borrow(Ident("g", "app.g"))),
    Let(Var("hs", "flows.hs"), <<>>, Array(<<Ident("f", "flows.f"), Ident("g", "app.g")>>)),
    For(Var("h", "flows.h"), Ident("hs", "flows.hs"),
      <<Stmt(Call(Ident("h", "flows.h"), <<Max>>)), Stmt(Assign(Ident("f", "flows.f"), Index(Ident("hs", "flows.hs"), Number)))>>),
    Stmt(Call(Ident("f", "flows.f"), <<>>)), Return(Ident("g", "app.g")), Deref(Ident("f", "flows.f"))>>)

Nested == Func("nested", <<>>, <<>>,
  <<Const("IN", "nested.IN", ItemT, Kid("value", g(<<Max>>))),
    Function(<<>>, "inside", "nested.inside", <<Param("x", "inside.x", ItemT)>>, <<>>, <<g(<<Ident("x", "inside.x")>>)>>),
    StructItem("Own", "nested.Own", <<>>, Tuple_(<<ItemT>>)),
    Impl(<<>>, <<>>, Type("Own", "nested.Own"),
      <<Function(<<>>, "at", "Own.at", <<>>, Result(Type("Own", "nested.Own")), <<Max>>)>>),
    Stmt(Call(Ident("inside", "nested.inside"), <<Ident("IN", "nested.IN")>>)),
    Let(Var("o", "nested.o"), Typed(Type("Own", "nested.Own")), Max)>>)

Traits == Trait("Named", "app.Named", Kid("bounds", N("trait_bounds", Kid("", Type("Other", "app.Other")))),
  <<Associated("Out", "Named.Out", Type("Other", "app.Other")),
    Const("LIMIT", "Named.LIMIT", ItemT, <<>>),
    Signature("name", "Named.name", <<>>, Result(ItemT)),
    Function(<<>>, "other", "Named.other", <<Param("x", "other.x", ItemT)>>, <<>>, <<Call(Ident("g", "app.g"), <<Ident("x", "other.x")>>)>>)>>)
Other == Trait("Other", "app.Other", <<>>, <<>>)
Impls == Impl(<<>>, Kid("trait", Generic(Type("Named", "app.Named"), <<ItemT>>)), ItemT,
  <<Alias("Out", "Item.Out", Type("Hook", "app.Hook")),
    Const("LIMIT", "Item.LIMIT", ItemT, Kid("value", Scoped(Crate_, Max))),
    Function(<<>>, "name", "Item.name()", <<>>, Result(Type("Self", "app.Item")), <<Struct(Type("Self", "app.Item"), <<>>)>>)>>)
(* A second method of the name, under another impl. *)
Again == Impl(<<>>, <<>>, ItemT,
  <<Function(<<>>, "name", "Item.name()", <<Param("y", "name.y", ItemT)>>, <<>>, <<g(<<Ident("y", "name.y")>>)>>)>>)
Uses_ == Func("uses", <<>>, <<>>,
  <<Stmt(Call(Access(Max, Field("name", "Item.name()")), <<>>)), Stmt(Scoped(ItemT, Ident("LIMIT", "Item.LIMIT"))),
    Stmt(Call(Scoped(Ident("u8", "core.u8"), Ident("from", "core.from")), <<Max>>))>>)

Generics == Function(Public(N("scoped_identifier", Kid("path", Crate_) \o Kid("name", util))), "generic", "app.generic",
  <<Param("t", "generic.t", Type("T", "generic.T"))>>, Where(Type("T", "generic.T"), Type("Other", "app.Other")), <<>>)
Wrapper == StructItem("Wrapper", "app.Wrapper",
  TypeParams(<<Bounded("W", "Wrapper.W", Type("Other", "app.Other")), ConstParam("N", "Wrapper.N", Type("Hook", "app.Hook"))>>),
  Tuple_(<<Type("W", "Wrapper.W"), ScopedType(util, Type("T", "util.T"))>>))
Table == Const("TABLE", "app.TABLE", N("array_type", Kid("element", Type("Hook", "app.Hook"))),
  Kid("value", Array(<<Ident("g", "app.g"), Closure(<<Var("c", "TABLE.c")>>, <<>>, g(<<Ident("c", "TABLE.c")>>))>>)))

Inner == ModHere("inner",
  <<UseItem(Scoped(Super_("app"), Ident("g", "app.g"))),
    Function(Public(Crate_), "deep", "inner.deep", <<>>, <<>>, <<g(<<Scoped(Super_("app"), Max)>>)>>),
    Enum("Kind", "inner.Kind", <<Variant("One", "Kind.One", <<>>)>>)>>)
UseInner == UseItem(UseList(Scoped(Leaf("self", "self", ""), Ident("inner", "inner")),
                            <<Ident("deep", "inner.deep"), As(Ident("Kind", "inner.Kind"), "K")>>))
UseUtil == UseItem(UseList(Scoped(Crate_, util), <<Ident("double", "util.double"), As(Ident("T", "util.T"), "U")>>))
UseOthers == <<UseItem(Scoped(Ident("std", ""), Ident("fmt", "std.fmt"))), UseItem(Scoped(Ident("serde", ""), Ident("Serialize", "serde.Serialize"))),
               UseItem(Scoped(util, Ident("double", "util.double"))), UseItem(Scoped(Crate_, util)), UseItem(Scoped(Crate_, util))>>

(* A macro that calls what it is given, and g of its own; and one that     *)
(* invokes it.                                                             *)
Meta(x) == Leaf("metavariable", x, "")
Twice == Macro("twice",
  <<Rule(<<Leaf("ident_binding", "$f", ""), Token_(","), Leaf("expr_binding", "$x", "")>>,
         <<Meta("$f"), Token_("("), Meta("$x"), Token_(")"), Ident("g", "app.g"), Token_("("), Meta("$f"), Token_(")")>>),
    Rule(<<Term("token_repetition_pattern", "", "", FALSE, Kid("", Leaf("expr_binding", "$y", "")))>>,
         <<Term("token_repetition", "", "", FALSE, All("", <<Ident("g", "app.g"), Token_("("), Meta("$y"), Token_(")")>>))>>)>>)
Thrice == Macro("thrice",
  <<Rule(<<Leaf("expr_binding", "$z", "")>>,
         <<Ident("twice", "app.twice"), Token_("!"), Token_("("), Ident("g", "app.g"), Token_(","), Meta("$z"), Token_(")")>>)>>)
Invokes == Func("invokes", <<>>, <<>>,
  <<Stmt(Invoke(Ident("twice", "app.twice"), <<Ident("h", "app.h"), Token_(","), Ident("h", "app.h"), Token_("("), Token_(")")>>)),
    Stmt(Invoke(Ident("twice", "app.twice"), <<Ident("h", "app.h"), Token_("("), Token_(")"), Token_(","), Number, Token_(","), Number>>)),
    Stmt(Invoke(Ident("thrice", "app.thrice"), <<Ident("h", "app.h"), Token_("("), Token_(")")>>)),
    Stmt(Invoke(Ident("println", "std.println"), <<Ident("h", "app.h")>>))>>)
FuncH == Func("h", <<>>, <<>>, <<>>)
AtTop == Stmt(Invoke(Ident("twice", "app.twice"), <<Ident("h", "app.h"), Token_(","), Number>>))

Additions ==
  <<<<Calls_, Generics, Other, Table>>, <<Values_>>, <<Writes_>>, <<Closures>>, <<Flows>>, <<Nested>>,
    <<Traits, Impls, Other, Again, Uses_>>, <<Wrapper, Other>>, <<Inner, UseInner>>, <<UseUtil>> \o UseOthers,
    <<Twice, Thrice, Invokes, FuncH, AtTop>>>>

(* Every addition beside every second other. *)
Added == {Additions[i] \o (IF k = 0 THEN <<>> ELSE Additions[1 + ((i + k) % Len(Additions))]) : i \in DOMAIN Additions, k \in {0, 3, 7}}
Distinct(items) == \A i, j \in DOMAIN items : i # j => (items[i] # items[j] \/ items[i].kind = "use_declaration")

File(path, module, items) == [path |-> path, module |-> module, tree |-> items]
Fixed == <<ModFile("util"), Item, Hook, FuncG, MaxItem, Shape>>
RustPrograms ==
  {<<File("lib.rs", <<"app">>, SourceFile("app", Fixed \o add)), File("util.rs", <<"app", "util">>, Util)>> :
     add \in {a \in Added : Distinct(a)}}
===============================================================================
