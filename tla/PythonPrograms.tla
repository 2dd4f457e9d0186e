------------------------------ MODULE PythonPrograms ------------------------------
(***************************************************************************)
(* Python programs as tree-sitter-python parses them: the grammar's        *)
(* constructs as operators, and the files TLC is given.  The last argument *)
(* of a name is the label of the declaration it stands for.                *)
(***************************************************************************)
EXTENDS SyntaxTree

Kid(field, term) == <<<<field, term>>>>
All(field, terms) == [i \in DOMAIN terms |-> <<field, terms[i]>>]

Name(x, d) == Leaf("identifier", x, d)
New(x, d) == Declaring("identifier", x, d)
Self == Name("self", "")
One == Leaf("integer", "1", "")
Text_(x) == Leaf("string", x, "")
Quoted(v) == N("string", Kid("", N("string_content", Kid("", v))))
Formatted(v) == N("string", Kid("", N("interpolation", Kid("expression", v))))
Comment == Leaf("comment", "#", "")
Attr(o, x, d) == N("attribute", Kid("object", o) \o Kid("attribute", Name(x, d)))
(* A type checker answers a use of an attribute with where `self.x` starts. *)
OwnAttr(x, d) == Term("attribute", "", d, TRUE, Kid("object", Self) \o Kid("attribute", Name(x, d)))
Args(as) == N("argument_list", All("", as))
Call(f, as) == N("call", Kid("function", f) \o Kid("arguments", Args(as)))
CallOver(f, gen) == N("call", Kid("function", f) \o Kid("arguments", gen))
Generate(v, x, over) ==
  N("generator_expression", Kid("body", v) \o Kid("", N("for_in_clause", Kid("left", x) \o Kid("right", over))))
Keyword(x, d, v) == N("keyword_argument", Kid("name", Name(x, d)) \o Kid("value", v))
At(v, k) == N("subscript", Kid("value", v) \o Kid("subscript", k))
List(es) == N("list", All("", es))
Tuple(es) == N("tuple", All("", es))
SetOf(es) == N("set", All("", es))
Pair(k, v) == N("pair", Kid("key", k) \o Kid("value", v))
Dict(ps) == N("dictionary", All("", ps))
Paren(v) == N("parenthesized_expression", Kid("", v))
Binary(op, l, r) == N("binary_operator", Kid("left", l) \o Kid("operator", Leaf(op, op, "")) \o Kid("right", r))
Lambda(ps, v) ==
  N("lambda", Kid("", Leaf("lambda", "lambda", "")) \o Kid("parameters", N("lambda_parameters", All("", ps))) \o Kid("body", v))
Yield(v) == N("yield", Kid("", v))

Type(t) == Kid("type", N("type", Kid("", t)))
Generic(t, args) ==
  N("generic_type", Kid("", t) \o Kid("", N("type_parameter", [i \in DOMAIN args |-> <<"", N("type", Kid("", args[i]))>>])))
Member(q, x) == N("member_type", Kid("", N("type", Kid("", q))) \o Kid("", x))

Assign(l, r) == N("assignment", Kid("left", l) \o Kid("right", r))
AssignTyped(l, t, r) == N("assignment", Kid("left", l) \o Type(t) \o r)
Stmt(v) == N("expression_statement", Kid("", v))
Set(l, r) == Stmt(Assign(l, r))
Unpack(es) == N("pattern_list", All("", es))
Rest(x) == N("list_splat_pattern", Kid("", x))
Listed(es) == N("expression_list", All("", es))
Return(v) == N("return_statement", Kid("", v))
Raise(v) == N("raise_statement", Kid("", v))
Block(stmts) == N("block", All("", stmts))
For(x, over, stmts) == N("for_statement", Kid("left", x) \o Kid("right", over) \o Kid("body", Block(stmts)))
If(c, stmts) == N("if_statement", Kid("condition", c) \o Kid("consequence", Block(stmts)))
Try(stmts, caught, x, handler) ==
  N("try_statement", Kid("body", Block(stmts)) \o Kid("", N("except_clause",
    Kid("", N("as_pattern", Kid("", caught) \o Kid("alias", N("as_pattern_target", Kid("", x))))) \o Kid("", Block(handler)))))

Typed(x, t) == N("typed_parameter", Kid("", x) \o Type(t))
Default(x, v) == N("default_parameter", Kid("name", x) \o Kid("value", v))
TypedDefault(x, t, v) == N("typed_default_parameter", Kid("name", x) \o Type(t) \o Kid("value", v))
Params(ps) == Kid("parameters", N("parameters", All("", ps)))
Def(x, ps, result, stmts) ==
  N("function_definition", Kid("name", x) \o Params(ps) \o result \o Kid("body", Block(stmts)))
Returning(t) == Kid("return_type", N("type", Kid("", t)))
Class(x, bases, stmts) == N("class_definition", Kid("name", x) \o Kid("superclasses", Args(bases)) \o Kid("body", Block(stmts)))
Decorated(ds, definition) ==
  N("decorated_definition", [i \in DOMAIN ds |-> <<"", N("decorator", Kid("", ds[i]))>>] \o Kid("definition", definition))

Dotted(parts) == N("dotted_name", All("", parts))
As(dotted, x) == N("aliased_import", Kid("name", dotted) \o Kid("alias", Name(x, "")))
Import(names) == N("import_statement", All("name", names))
From(module, names) == N("import_from_statement", Kid("module_name", module) \o All("name", names))
Dots(dots, module) == N("relative_import", Kid("", Leaf("import_prefix", dots, "")) \o module)

File(path, module, label, package, stmts) ==
  [path |-> path, module |-> module, label |-> label, package |-> package, tree |-> Parsed(N("module", All("", stmts)))]

-------------------------------------------------------------------------------
(* A package, its helpers and what uses them. *)

Base(x) == Name(x, "Base")
Helper == Name("helper", "helper")
Item == Name("item", "item")

Package == File("app/__init__.py", <<"app">>, "app", TRUE, <<
  Import(<<Dotted(<<Name("os", "")>>)>>),
  From(Dotted(<<Name("app", "app"), Name("util", "util")>>), <<As(Dotted(<<Base("Base")>>), "Root")>>),
  Set(New("LIMIT", "LIMIT"), One),
  Decorated(<<Helper>>, Def(New("entry", "entry"), <<>>, <<>>, <<Return(One)>>))>>)

Util == File("app/util.py", <<"app", "util">>, "util", FALSE, <<
  Comment,
  From(Dotted(<<Name("typing", "")>>), <<N("wildcard_import", <<>>)>>),
  Class(New("Base", "Base"), <<>>, <<
    Stmt(AssignTyped(New("limit", "limit"), Generic(Name("list", "list"), <<Name("int", "int")>>), Kid("right", One))),
    Def(New("run", "run"), <<Name("self", ""), New("x", "run.x")>>, <<>>, <<Return(Name("x", "run.x"))>>)>>),
  Def(New("helper", "helper"),
      <<TypedDefault(New("item", "item"), Binary("|", Quoted(Base("Base")), Generic(Name("Optional", "Optional"), <<Member(Name("util", "util"), Base("Base"))>>)),
                     Lambda(<<New("q", "q")>>, Name("q", "q")))>>,
      Returning(Base("Base")), <<Return(Call(Base("Base"), <<>>))>>),
  Def(New("apply", "apply"), <<New("f", "f"), Rest(New("rest", "rest"))>>, <<>>,
      <<Return(Call(Name("f", "f"), <<Helper, Comment, Name("rest", "rest"), One>>)), Def(New("inner", "inner"), <<>>, <<>>, <<Stmt(Yield(Helper))>>)>>),
  Set(New("TABLE", "TABLE"), Dict(<<Pair(Text_("a"), Helper), Pair(Text_("b"), Tuple(<<Name("apply", "apply"), Lambda(<<>>, Call(Helper, <<>>))>>)),
                                    Pair(Name("apply", "apply"), SetOf(<<Helper>>))>>)),
  Stmt(AssignTyped(New("Alias", "Alias"), Name("TypeAlias", "TypeAlias"), Kid("right", Binary("|", Base("Base"), Name("int", "int"))))),
  Set(Unpack(<<New("one", "one"), Rest(New("two", "two"))>>), Listed(<<Helper, Name("apply", "apply"), One>>)),
  For(New("each", "each"), Name("TABLE", "TABLE"), <<Stmt(Call(Name("each", "each"), <<Name("each", "each")>>))>>),
  Try(<<Stmt(Call(Helper, <<>>))>>, Base("Base"), New("problem", "problem"), <<Raise(Name("problem", "problem"))>>),
  If(Name("one", "one"), <<Set(New("late", "late"), Paren(Call(Name("map", "map"), <<Helper, List(<<One>>)>>)))>>)>>)

Main == File("app/main.py", <<"app", "main">>, "main", FALSE, <<
  From(Dotted(<<Name("app", "app"), Name("util", "util")>>), <<Dotted(<<Helper>>), As(Dotted(<<Base("Base")>>), "B")>>),
  From(Dots(".", <<>>), <<Dotted(<<Name("util", "util")>>)>>),
  From(Dots(".", Kid("", Dotted(<<Name("util", "util")>>))), <<Dotted(<<Name("TABLE", "TABLE")>>)>>),
  Import(<<As(Dotted(<<Name("app", "app"), Name("util", "util")>>), "u"), Dotted(<<Name("sys", "")>>)>>),
  Decorated(<<Helper, Call(Name("apply", "apply"), <<Helper>>)>>,
    Class(New("Child", "Child"), <<Base("B"), Keyword("metaclass", "", Base("B"))>>, <<
      Set(New("count", "count"), One),
      Def(New("__init__", "init"), <<Name("self", ""), Typed(New("item", "item2"), Base("B"))>>, <<>>, <<
        Set(OwnAttr("kept", "kept"), Name("item", "item2")),
        Set(OwnAttr("kept", "kept"), Assign(Attr(Name("item", "item2"), "limit", "limit"), Call(Helper, <<Keyword("item", "item", Name("item", "item2"))>>))),
        Stmt(Call(Attr(Attr(Self, "kept", "kept"), "run", "run"), <<Call(Name("apply", "apply"), <<Lambda(<<>>, One), Text_("s")>>)>>)),
        Stmt(Call(Attr(Attr(Self, "kept", "kept"), "append", ""), <<Helper>>)),
        Set(At(Name("TABLE", "TABLE"), Name("count", "count")), Name("item", "item2")),
        Set(Unpack(<<New("left", "left"), New("right", "right")>>), At(Name("TABLE", "TABLE"), Text_("a"))),
        Set(New("found", "found"), At(At(Name("TABLE", "TABLE"), Text_("b")), Name("left", "left"))),
        Stmt(Call(At(Name("TABLE", "TABLE"), Name("right", "right")), <<Name("found", "found")>>)),
        Stmt(Call(Attr(Name("TABLE", "TABLE"), "setdefault", ""), <<Text_("z"), Helper>>)),
        Raise(Call(Base("B"), <<Keyword("limit", "limit", One), Formatted(Name("found", "found"))>>))>>)>>)),
  Def(New("make", "make"), <<Default(New("by", "by"), Helper)>>, Returning(Member(Name("u", "util"), Base("Base"))),
      <<Return(Lambda(<<New("z", "z")>>, Call(Name("by", "by"), <<Name("z", "z")>>)))>>),
  Stmt(Call(Call(Call(Name("make", "make"), <<>>), <<One>>), <<Helper>>)),
  Set(New("sorting", "sorting"), Call(Name("sorted", "sorted"), <<Name("TABLE", "TABLE"), Keyword("key", "", Helper)>>)),
  Stmt(CallOver(Name("max", "max"), Generate(Call(Attr(Name("u", "util"), "helper", "helper"), <<>>), New("v", ""), Name("TABLE", "TABLE"))))>>)

PythonPrograms == {<<Package, Main, Util>>, <<Main, Package, Util>>}
===============================================================================
