----------------------------- MODULE TypeScriptPrograms -----------------------------
(***************************************************************************)
(* TypeScript programs as tree-sitter-typescript parses them, keywords and *)
(* punctuation left out: the grammar's constructs as operators, and the    *)
(* files TLC is given.  The last argument of a name is the label of the    *)
(* declaration it stands for.                                              *)
(***************************************************************************)
EXTENDS SyntaxTree

Kid(field, term) == <<<<field, term>>>>
All(field, terms) == [i \in DOMAIN terms |-> <<field, terms[i]>>]

Name(x, d) == Leaf("identifier", x, d)
New(x, d) == Declaring("identifier", x, d)
Prop(x, d) == Leaf("property_identifier", x, d)
NewProp(x, d) == Declaring("property_identifier", x, d)
Private(x, d) == Leaf("private_property_identifier", x, d)
Short(x, d) == Leaf("shorthand_property_identifier", x, d)
Text_(x) == Leaf("string", x, "")
One == Leaf("number", "1", "")
This == Leaf("this", "this", "")
Comment == Leaf("comment", "//", "")
Member(o, x, d) == N("member_expression", Kid("object", o) \o Kid("property", Prop(x, d)))
Args(as) == Kid("arguments", N("arguments", All("", as)))
TypeArgs(types) == Kid("type_arguments", N("type_arguments", All("", types)))
Call(f, as) == N("call_expression", Kid("function", f) \o Args(as))
CallTyped(f, types, as) == N("call_expression", Kid("function", f) \o TypeArgs(types) \o Args(as))
NewOf(c, as) == N("new_expression", Kid("constructor", c) \o Args(as))
At(o, k) == N("subscript_expression", Kid("object", o) \o Kid("index", k))
Array(es) == N("array", All("", es))
Object(ms) == N("object", All("", ms))
Pair(k, v) == N("pair", Kid("key", k) \o Kid("value", v))
Spread(v) == N("spread_element", Kid("", v))
Paren(v) == N("parenthesized_expression", Kid("", v))
As(v, t) == N("as_expression", Kid("", v) \o Kid("", t))
Satisfies(v, t) == N("satisfies_expression", Kid("", v) \o Kid("", t))
Instance(f, types) == N("instantiation_expression", Kid("function", f) \o TypeArgs(types))
Assign(l, r) == N("assignment_expression", Kid("left", l) \o Kid("right", r))
Add(l, r) == N("augmented_assignment_expression", Kid("left", l) \o Kid("right", r))

Type(x, d) == Leaf("type_identifier", x, d)
NewType(x, d) == Declaring("type_identifier", x, d)
Number == Leaf("predefined_type", "number", "")
Generic(t, types) == N("generic_type", Kid("name", t) \o TypeArgs(types))
Nested(q, t) == N("nested_type_identifier", Kid("module", q) \o Kid("name", t))
Union(types) == N("union_type", All("", types))
Query(v) == N("type_query", Kid("", v))
Infer(x) == N("infer_type", Kid("", Type(x, "")))
Conditional(t, r, c, a) == N("conditional_type", Kid("left", t) \o Kid("right", r) \o Kid("consequence", c) \o Kid("alternative", a))
ObjectType(ms) == N("object_type", All("", ms))
Mapped(x, over, t) ==
  N("index_signature", Kid("", N("mapped_type_clause", Kid("name", Type(x, "")) \o Kid("type", over))) \o Kid("type", N("type_annotation", Kid("", t))))
Typed(t) == Kid("type", N("type_annotation", Kid("", t)))
Returning(t) == Kid("return_type", N("type_annotation", Kid("", t)))
TypeParams(ps) == Kid("type_parameters", N("type_parameters", All("", ps)))
TypeParam(x, constraint, value) ==
  N("type_parameter", Kid("name", Type(x, "")) \o Kid("constraint", N("constraint", Kid("", constraint)))
                        \o Kid("value", N("default_type", Kid("", value))))

Param(x, rest) == N("required_parameter", Kid("pattern", x) \o rest)
Value(v) == Kid("value", v)
Formal(ps) == Kid("parameters", N("formal_parameters", All("", ps)))
Block(stmts) == N("statement_block", All("", stmts))
Body(stmts) == Kid("body", Block(stmts))
Arrow(ps, v) == N("arrow_function", Formal(ps) \o Kid("body", v))
ArrowAs(label, ps, v) == Term("arrow_function", "", label, TRUE, Formal(ps) \o Kid("body", v))
Function(x, sort, ps, stmts) == N("function_declaration", Kid("name", x) \o sort \o Formal(ps) \o Body(stmts))
Signature(x, ps, result) == N("function_signature", Kid("name", x) \o Formal(ps) \o result)
Method(x, ps, stmts) == N("method_definition", Kid("name", x) \o Formal(ps) \o Body(stmts))
Decorator(v) == N("decorator", Kid("", v))
Field(ds, x, rest) == N("public_field_definition", [i \in DOMAIN ds |-> <<"decorator", ds[i]>>] \o Kid("name", x) \o rest)
Extends(v, rest) == N("extends_clause", Kid("value", v) \o rest)
Heritage(clauses) == Kid("", N("class_heritage", All("", clauses)))
Implements(types) == N("implements_clause", All("", types))
Class(ds, x, rest, members) ==
  N("class_declaration", All("decorator", ds) \o Kid("name", x) \o rest \o Kid("body", N("class_body", All("", members))))
Interface(x, rest, members) == N("interface_declaration", Kid("name", x) \o rest \o Kid("body", N("interface_body", All("", members))))
Bases(types) == Kid("", N("extends_type_clause", All("type", types)))
Has_(x, t) == N("property_signature", Kid("name", x) \o Typed(t))
Does(x, ps, t) == N("method_signature", Kid("name", x) \o Formal(ps) \o Returning(t))
Alias(x, ps, t) == N("type_alias_declaration", Kid("name", x) \o ps \o Value(t))
Enum(x, ms) == N("enum_declaration", Kid("name", x) \o Kid("body", N("enum_body", All("", ms))))
Space(x, stmts) == N("internal_module", Kid("name", x) \o Body(stmts))
Within_(q, x) == N("nested_identifier", Kid("object", q) \o Kid("property", x))

Stmt(v) == N("expression_statement", Kid("", v))
Return(v) == N("return_statement", Kid("", v))
If(c, stmts) == N("if_statement", Kid("condition", Paren(c)) \o Kid("consequence", Block(stmts)))
Let(x, rest) == N("variable_declarator", Kid("name", x) \o rest)
Const(ds) == N("lexical_declaration", All("", ds))
ObjectPattern(es) == N("object_pattern", All("", es))
ArrayPattern(es) == N("array_pattern", All("", es))
Unpack(x, d) == Declaring("shorthand_property_identifier_pattern", x, d)
KeyedAs(k, p) == N("pair_pattern", Kid("key", k) \o Kid("value", p))
Rest(x) == N("rest_pattern", Kid("", x))
Or(x, v) == N("assignment_pattern", Kid("left", x) \o Kid("right", v))

Path(parts, d) == Term("string", "", d, FALSE, [i \in DOMAIN parts |-> <<"", Leaf("segment", parts[i], "")>>])
Import(clause, path) == N("import_statement", clause \o Kid("source", path))
Clause(parts) == Kid("", N("import_clause", All("", parts)))
Named(specs) == N("named_imports", All("", specs))
Star(x) == N("namespace_import", Kid("", x))
Spec_(x) == N("import_specifier", Kid("name", x))
SpecAs(x, y) == N("import_specifier", Kid("name", x) \o Kid("alias", Name(y, "")))
Export(d) == N("export_statement", Kid("declaration", d))
Exports(names) == N("export_clause", [i \in DOMAIN names |-> <<"", N("export_specifier", Kid("name", names[i]))>>])

File(path, module, label, stmts) ==
  [path |-> path, module |-> module, label |-> label, tree |-> Parsed(N("program", All("", stmts)))]

-------------------------------------------------------------------------------
(* A library, a package that passes it on, and what uses both. *)

Helper == Name("helper", "helper")
Base == Name("Base", "Base")
BaseType == Type("Base", "Base")
UnitType == Type("Unit", "Unit")
ShapeType == Type("Shape", "Shape")
Table == Name("table", "table")

Util == File("src/util.ts", <<"util">>, "util", <<
  Comment,
  Export(Class(<<>>, NewType("Base", "Base"), Kid("", N("type_parameters", Kid("", N("type_parameter", Kid("name", Type("T", "")))))), <<
    Field(<<>>, NewProp("limit", "limit"), Typed(UnitType) \o Value(One)),
    Field(<<>>, NewProp("made", "made"), Value(ArrowAs("made#", <<>>, Member(This, "limit", "limit")))),
    Method(NewProp("run", "run"), <<Param(New("x", "x"), Typed(Type("T", "")))>>,
           <<Stmt(Assign(Member(This, "limit", "limit"), Name("x", "x"))), Return(Name("x", "x"))>>)>>)),
  Interface(NewType("Named", "Named"), <<>>, <<Has_(NewProp("width", "width"), UnitType)>>),
  Export(Interface(NewType("Shape", "Shape"), TypeParams(<<TypeParam("U", BaseType, UnitType)>>) \o Bases(<<Type("Named", "Named")>>), <<
    Has_(NewProp("kept", "kept"), Generic(BaseType, <<Type("U", "")>>)),
    Does(NewProp("area", "area"), <<Param(New("k", "k"), Typed(UnitType))>>, UnitType),
    Does(NewProp("area", "area#2"), <<>>, ShapeType)>>)),
  Export(Alias(NewType("Unit", "Unit"), <<>>, Union(<<Number, Query(Name("helper", "helper"))>>))),
  Export(Alias(NewType("Member", "Member"), TypeParams(<<TypeParam("V", UnitType, Number)>>),
    Union(<<ObjectType(<<Has_(NewProp("tag", "tag"), ShapeType), Mapped("K", Type("Named", "Named"), Type("K", ""))>>),
            ObjectType(<<Has_(NewProp("tag", "tag#2"), Type("V", ""))>>),
            Conditional(Type("V", ""), Generic(BaseType, <<Infer("I")>>), Type("I", ""), UnitType)>>))),
  Export(Signature(New("parse", "parse#1"), <<Param(New("s", ""), Typed(UnitType))>>, Returning(UnitType))),
  Export(Signature(New("parse", "parse#2"), <<Param(New("s", ""), Typed(BaseType))>>, Returning(UnitType))),
  Export(Function(New("parse", "parse"), Returning(BaseType), <<Param(New("s", "s"), Typed(UnitType) \o Value(Helper))>>,
    <<If(Name("s", "s"), <<Return(Call(Name("s", "s"), <<>>))>>), Return(CallTyped(Base, <<UnitType>>, <<>>))>>)),
  Export(Const(<<Let(New("helper", "helper"), Value(ArrowAs("helper#", <<Param(New("f", "f"), Value(Name("parse", "parse#1")))>>, Call(Name("f", "f"), <<One>>))))>>)),
  Export(Const(<<Let(New("table", "table"), Typed(ShapeType) \o Value(Object(<<
    Pair(Prop("kept", "kept"), Helper), Pair(NewProp("b", "b"), Array(<<Name("parse", "parse#2"), Helper>>)),
    Method(NewProp("own", "own"), <<>>, <<Return(Helper)>>), Pair(NewProp("area", ""), ArrowAs("held", <<>>, Name("parse", "parse#1"))),
    Short("helper", "helper"), Spread(Helper)>>)))>>)),
  Enum(New("Paint", "Paint"), <<NewProp("Red", "Red"), N("enum_assignment", Kid("name", NewProp("Blue", "Blue")) \o Value(One))>>),
  N("export_statement", Kid("", Leaf("declare", "declare", "")) \o Kid("declaration", Space(Within_(New("Geo", "Geo"), NewProp("Flat", "Flat")), <<
    Export(Signature(New("origin", "origin"), <<>>, Returning(UnitType))),
    Export(Signature(New("origin", "origin#2"), <<>>, <<>>))>>))),
  N("ambient_declaration", Kid("", Signature(New("outside", "outside"), <<Param(New("o", "o"), <<>>)>>, Returning(BaseType)))),
  Stmt(Space(New("Geo", "Geo#2"), <<Export(Const(<<Let(New("far", "far"), Value(Call(Helper, <<>>)))>>)), Stmt(Call(Name("far", "far"), <<>>))>>)),
  N("ambient_declaration", Kid("", N("module", Kid("name", Text_("lib")) \o Body(<<Export(Function(New("of", "of"), <<>>, <<>>, <<>>))>>))))>>)

Shapes == File("src/shapes/index.ts", <<"shapes">>, "shapes", <<
  N("export_statement", Kid("", Exports(<<Helper>>)) \o Kid("source", Path(<<"..", "util">>, "util"))),
  N("export_statement", Kid("source", Path(<<"@", "util">>, ""))),
  N("export_statement", Kid("source", Path(<<"react">>, ""))),
  Import(Clause(<<Named(<<Spec_(Helper)>>)>>), Path(<<"@", "util">>, "")),
  N("export_statement", Kid("", Exports(<<Helper>>))),
  Export(N("abstract_class_declaration", Kid("name", NewType("Round", "Round")) \o Kid("body", N("class_body",
    Kid("", N("abstract_method_signature", Kid("name", NewProp("area", "round.area")) \o Formal(<<>>)))))))>>)

Main == File("src/main.ts", <<"main">>, "main", <<
  Import(Clause(<<Named(<<Spec_(Helper), SpecAs(Base, "B"), Spec_(Name("Unit", "Unit"))>>)>>), Path(<<".", "util">>, "util")),
  Import(Clause(<<Star(Name("util", "util"))>>), Path(<<".", "util">>, "util")),
  Import(Clause(<<Name("Round", "Round")>>), Path(<<"@", "shapes">>, "")),
  Import(Clause(<<Star(Name("React", ""))>>), Path(<<"react">>, "")),
  Import(<<>>, Path(<<".", "shapes", "index">>, "shapes")),
  N("export_statement", Kid("decorator", Decorator(Helper)) \o Kid("declaration",
    Class(<<Decorator(Call(Member(Name("util", "util"), "parse", "parse#1"), <<Helper>>))>>, NewType("Child", "Child"),
      Heritage(<<Extends(Member(Name("util", "util"), "Base", "Base"), TypeArgs(<<UnitType>>)), Implements(<<ShapeType>>)>>), <<
      Field(<<Decorator(Helper)>>, NewProp("held", "held.f"), Typed(Nested(Name("util", "util"), ShapeType)) \o Value(Call(Helper, <<>>))),
      Decorator(Member(Name("util", "util"), "helper", "helper")),
      Method(NewProp("constructor", "init"),
        <<N("required_parameter", Kid("decorator", Decorator(Helper)) \o Kid("pattern", New("shape", "shape")) \o Typed(ShapeType)),
          Param(ObjectPattern(<<Unpack("width", "w"), KeyedAs(Prop("kept", ""), Or(New("k", "k2"), One)), Rest(New("others", ""))>>), <<>>),
          Param(Rest(New("rest", "rest")), <<>>)>>, <<
        Stmt(Call(Leaf("super", "super", "Base"), <<Name("rest", "rest")>>)),
        Stmt(Assign(Member(This, "held", "held.f"), Call(Member(Helper, "bind", ""), <<This>>))),
        Stmt(Add(Member(Name("shape", "shape"), "width", "width"), Name("w", "w"))),
        Stmt(Call(Member(Member(This, "held", "held.f"), "run", "run"), <<Comment, Object(<<Pair(Prop("kept", "kept"), Helper), Short("rest", "rest")>>)>>)),
        Stmt(Call(Member(Helper, "call", ""), <<This>>)),
        Stmt(Call(Member(Name("rest", "rest"), "map", ""), <<Helper, Arrow(<<Param(New("q", ""), Value(Helper))>>, Call(Helper, <<>>))>>)),
        Const(<<Let(ObjectPattern(<<Unpack("own", "own2"), KeyedAs(Prop("kept", ""), New("taken", "taken"))>>), Value(Table)),
                Let(ArrayPattern(<<New("first", "first"), Rest(New("more", "more"))>>), Value(Array(<<Helper, Name("own", "own2"), Name("w", "w")>>)))>>),
        Stmt(Call(At(Table, Text_("b")), <<Name("first", "first")>>)),
        Return(As(Name("taken", "taken"), UnitType))>>)>>))),
  Const(<<Let(New("got", "got"), Value(Satisfies(At(Table, Text_("kept")), ShapeType))),
          Let(New("kinds", "kinds"), Value(Instance(Helper, <<UnitType>>))),
          Let(New("loose", "loose"), Value(Paren(Object(<<Pair(Prop("kept", "kept"), Array(<<Helper, Spread(Table)>>))>>))))>>),
  Stmt(Call(Call(Member(Name("util", "util"), "parse", "parse#2"), <<Name("got", "got")>>), <<NewOf(Name("B", "Base"), <<Helper>>)>>)),
  Stmt(Assign(Member(Table, "kept", "kept"), Helper)),
  Function(New("use", "use"), <<>>, <<Param(New("r", "r"), Typed(Generic(Type("Round", "Round"), <<Query(Table)>>)))>>, <<
    Function(New("inner", "inner"), <<>>, <<>>, <<Return(Member(Name("Paint", "Paint"), "Red", "Red"))>>),
    Stmt(Call(Member(Name("r", "r"), "area", "round.area"), <<Call(Name("inner", "inner"), <<>>)>>)),
    Stmt(Call(Member(Member(Member(Name("util", "util"), "Geo", "Geo#2"), "Flat", "Flat"), "origin", "origin#2"), <<Member(Table, "area", "area#2")>>)),
    Return(Object(<<Pair(Prop("tag", "tag#2"), Name("loose", "loose")), Method(Prop("run", "run"), <<>>, <<Return(Name("kinds", "kinds"))>>)>>))>>)>>)

TypeScriptPrograms == {<<Main, Shapes, Util>>, <<Util, Shapes, Main>>}
===============================================================================
