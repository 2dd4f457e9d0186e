------------------------------- MODULE PhpPrograms -------------------------------
(***************************************************************************)
(* PHP programs as tree-sitter-php parses them: the grammar's constructs   *)
(* as operators, and the files TLC is given.  The last argument of a name  *)
(* is the label of the declaration it stands for.                          *)
(***************************************************************************)
EXTENDS SyntaxTree

Kid(field, term) == <<<<field, term>>>>
All(field, terms) == [i \in DOMAIN terms |-> <<field, terms[i]>>]

Name(x, d) == Leaf("name", x, d)
New(x, d) == Declaring("name", x, d)
Var(x) == N("variable_name", Kid("", Name(x, "")))
VarOf(x, d) == N("variable_name", Kid("", Name(x, d)))
NewVar(x, d) == N("variable_name", Kid("", New(x, d)))
This == Var("this")
Number == Leaf("integer", "1", "")
Text_(x, d) == Leaf("string", x, d)
Comment == Leaf("comment", "", "")
Self(x, d) == Leaf("relative_scope", x, d)
Spaces(names) == N("namespace_name", All("", names))
Plain(names) == [i \in DOMAIN names |-> Name(names[i], "")]
Qualified(spaces, x, d) == N("qualified_name", Kid("prefix", Spaces(Plain(spaces))) \o Kid("", Name(x, d)))

Type(x, d) == N("named_type", Kid("", Name(x, d)))
String == Leaf("primitive_type", "string", "")
Maybe(t) == N("optional_type", Kid("", t))
Union(ts) == N("union_type", All("", ts))

Arg(v) == N("argument", Kid("", v))
NamedArg(label, v) == N("argument", Kid("name", Name(label, "")) \o Kid("", v))
Args(as) == N("arguments", All("", as))
FirstClass == N("arguments", Kid("", Leaf("variadic_placeholder", "...", "")))
Call(f, args) == N("function_call_expression", Kid("function", f) \o Kid("arguments", args))
MemberCall(o, m, args) == N("member_call_expression", Kid("object", o) \o Kid("name", m) \o Kid("arguments", args))
MaybeCall(o, m, args) == N("nullsafe_member_call_expression", Kid("object", o) \o Kid("name", m) \o Kid("arguments", args))
ScopedCall(s, m, args) == N("scoped_call_expression", Kid("scope", s) \o Kid("name", m) \o Kid("arguments", args))
Member(o, m) == N("member_access_expression", Kid("object", o) \o Kid("name", m))
ScopedMember(s, m) == N("scoped_property_access_expression", Kid("scope", s) \o Kid("name", m))
Constant(s, x) == N("class_constant_access_expression", Kid("", s) \o Kid("", Comment) \o Kid("", x))
ClassOf(s) == N("class_constant_access_expression", Kid("", s) \o Kid("", Leaf("class", "class", "")))
Create(kids) == N("object_creation_expression", Kid("", Leaf("new", "new", "")) \o All("", kids))
Anonymous(args, rest, members) ==
  N("anonymous_class", Kid("", Declaring("class", "class", "anonymous")) \o args \o rest \o Kid("body", N("declaration_list", All("", members))))
Element(v) == N("array_element_initializer", Kid("", v))
Array(es) == N("array_creation_expression", All("", es))
Paren(v) == N("parenthesized_expression", Kid("", v))
Assign(l, r) == N("assignment_expression", Kid("left", l) \o Kid("right", r))
Augment(l, r) == N("augmented_assignment_expression", Kid("left", l) \o Kid("right", r))
Update(v) == N("update_expression", Kid("argument", v))
Binary(op, l, r) == N("binary_expression", Kid("left", l) \o Kid("operator", Leaf(op, op, "")) \o Kid("right", r))
Conditional(c, a, b) == N("conditional_expression", Kid("condition", c) \o Kid("body", a) \o Kid("alternative", b))
ListOf(es) == N("list_literal", All("", es))
Stmt(v) == N("expression_statement", Kid("", v))
Return(v) == N("return_statement", Kid("", v))
Block(stmts) == N("compound_statement", All("", stmts))
If(c, body) == N("if_statement", Kid("condition", Paren(c)) \o Kid("body", body))
Try(body, t, handler) ==
  N("try_statement", Kid("body", body) \o Kid("", N("catch_clause", Kid("type", N("type_list", Kid("", t))) \o Kid("name", Var("e")) \o Kid("body", handler))))

Attributes(x, args) ==
  Kid("attributes", N("attribute_list", Kid("", N("attribute_group", Kid("", N("attribute", Kid("", x) \o Kid("parameters", Args(args))))))))
Param(x, d, rest) == N("simple_parameter", Kid("name", NewVar(x, d)) \o rest)
Promoted(x, d, rest) == N("property_promotion_parameter", Kid("name", N("by_ref", Kid("", NewVar(x, d)))) \o rest)
Typed(t) == Kid("type", t)
Default(v) == Kid("default_value", v)
Params(ps) == Kid("parameters", N("formal_parameters", All("", ps)))
Result(t) == Kid("return_type", t)
Body(stmts) == Kid("body", Block(stmts))
Func(x, d, ps, rest, stmts) == N("function_definition", Kid("name", New(x, d)) \o Params(ps) \o rest \o Body(stmts))
Method(pre, x, d, ps, rest) == N("method_declaration", pre \o Kid("name", New(x, d)) \o Params(ps) \o rest)
Closure(ps, rest, stmts) == N("anonymous_function", Params(ps) \o rest \o Body(stmts))
Arrow(ps, v) == N("arrow_function", Params(ps) \o Kid("body", v))
Property(t, elements, rest) == N("property_declaration", t \o All("", elements) \o rest)
Prop(x, d, rest) == N("property_element", Kid("name", NewVar(x, d)) \o rest)
Hooks(body) == Kid("", N("property_hook_list", Kid("", N("property_hook", Kid("", Name("get", "")) \o Kid("body", body)))))
Const(t, x, d, v) == N("const_declaration", t \o Kid("", N("const_element", Kid("", New(x, d)) \o Kid("", v))))
Case(x, d, v) == N("enum_case", Kid("name", New(x, d)) \o v)
StaticVar(x, d, v) == N("function_static_declaration", Kid("", N("static_variable_declaration", Kid("name", NewVar(x, d)) \o Kid("value", v))))
Extends(t) == Kid("", N("base_clause", Kid("", t)))
Implements(t) == Kid("", N("class_interface_clause", Kid("", t)))
OfClass(kind, pre, x, d, rest, members) ==
  N(kind, pre \o Kid("name", New(x, d)) \o rest \o Kid("body", N("declaration_list", All("", members))))
Class(x, d, rest, members) == OfClass("class_declaration", <<>>, x, d, rest, members)
UseTraits(kids) == N("use_declaration", All("", kids))
Instead(kids) == N("use_instead_of_clause", All("", kids))
Alias(kids, x) == N("use_as_clause", All("", kids) \o Kid("", Name(x, "")))
Namespace(names) == N("namespace_definition", Kid("name", Spaces(Plain(names))))
NamespaceHere(names, stmts) == N("namespace_definition", Kid("name", Spaces(Plain(names))) \o Kid("body", Block(stmts)))
Import(clauses) == N("namespace_use_declaration", All("", clauses))
Group(names, clauses) == N("namespace_use_declaration", Kid("", Spaces(Plain(names))) \o Kid("body", N("namespace_use_group", All("", clauses))))
Clause(path) == N("namespace_use_clause", Kid("", path))
ClauseAs(path, x) == N("namespace_use_clause", Kid("", path) \o Kid("alias", Name(x, "")))
Source(stmts) == Parsed(N("program", Kid("", Leaf("php_tag", "<?php", "")) \o All("", stmts)))

-------------------------------------------------------------------------------
(* What every program has: a namespace of declarations. *)

Role == Name("Role", "Role")
Limit == Name("LIMIT", "LIMIT")
slugify(args) == Call(Name("slugify", "slugify"), args)
User == Name("User", "User")

ModelItems ==
  <<Const(<<>>, "LIMIT", "LIMIT", Number),
    OfClass("interface_declaration", <<>>, "Named", "Named", <<>>, <<Method(<<>>, "name", "Named.name()", <<>>, Result(String))>>),
    OfClass("enum_declaration", <<>>, "Role", "Role", Implements(Name("Named", "Named")) \o Kid("", String),
      <<Case("Admin", "Role.Admin", Kid("value", Limit)), Case("Guest", "Role.Guest", <<>>)>>),
    OfClass("trait_declaration", <<>>, "Logs", "Logs", <<>>,
      <<Method(<<>>, "log", "Logs.log()", <<Param("r", "log.r", Typed(Union(<<Type("Role", "Role"), String>>)))>>,
          Body(<<StaticVar("count", "log.count", Limit), Stmt(Update(Var("count")))>>))>>),
    Class("Base", "Base", <<>>, <<Property(<<>>, <<Prop("shared", "Base.shared", <<>>)>>, <<>>)>>),
    Func("slugify", "slugify", <<Param("f", "slugify.f", Typed(Type("Role", "Role")) \o Default(Constant(Role, Name("Guest", "Role.Guest"))))>>,
      Result(Maybe(Type("Role", "Role"))), <<Return(Call(Var("f"), Args(<<>>)))>>)>>
Model == Source(<<Namespace(<<"App", "Model">>)>> \o ModelItems)
Template == Parsed(N("program", Kid("", Leaf("text", "<p>", ""))))

UserClass == Class("User", "User", Extends(Name("Base", "Base")) \o Implements(Qualified(<<"Model">>, "Named", "Named")),
  <<UseTraits(<<Name("Logs", "Logs")>>),
    Const(Typed(Type("Role", "Role")), "TOP", "User.TOP", Constant(Role, Name("Admin", "Role.Admin"))),
    Property(Typed(Maybe(Type("Role", "Role"))), <<Prop("role", "User.role", Default(Limit)), Prop("other", "User.other", <<>>)>>, <<>>),
    Method(<<>>, "make", "User.make()", <<>>, Result(Type("self", "User")) \o
      Body(<<Return(Create(<<Self("static", "User"), Args(<<Arg(Constant(Self("self", "User"), Name("TOP", "User.TOP")))>>)>>))>>)),
    Method(<<>>, "name", "User.name()", <<>>, Body(<<Return(Member(This, Name("role", "User.role")))>>))>>)

-------------------------------------------------------------------------------
(* What a program may add. *)

Calls_ == Func("calls", "calls", <<Param("o", "calls.o", Typed(Type("User", "User")))>>, <<>>,
  <<Stmt(slugify(Args(<<NamedArg("f", Limit), Arg(slugify(Args(<<>>)))>>))),
    Stmt(Call(Qualified(<<"App", "Model">>, "slugify", "slugify"), Args(<<>>))),
    Stmt(MaybeCall(MemberCall(Paren(Create(<<User, Args(<<Arg(Limit)>>)>>)), Name("name", "User.name()"), Args(<<>>)), Name("any", ""), Args(<<>>))),
    Stmt(ScopedCall(User, Name("make", "User.make()"), Args(<<Arg(Text_("slugify", "slugify"))>>))),
    Stmt(Call(Name("isset", ""), Args(<<Arg(Member(Var("o"), Name("role", "User.role")))>>))),
    Stmt(MemberCall(Var("o"), VarOf("m", "User.name()"), Args(<<>>))),
    Stmt(Create(<<VarOf("c", "User"), Args(<<>>)>>)),
    Stmt(Binary("instanceof", Member(Var("o"), Name("role", "User.role")), Role)),
    Stmt(Binary("==", Limit, Name("__DIR__", ""))),
    Try(Block(<<Stmt(Limit)>>), Type("User", "User"), Block(<<Stmt(slugify(Args(<<>>)))>>))>>)

Writes_ == Func("writes", "writes", <<Param("o", "writes.o", <<>>)>>, <<>>,
  <<Stmt(Assign(Member(Var("o"), Name("role", "User.role")), Constant(Role, Name("Admin", "Role.Admin")))),
    Stmt(Augment(ScopedMember(User, VarOf("shared", "Base.shared")), Limit)),
    Stmt(Update(Member(Var("o"), Name("other", "User.other")))),
    Stmt(Assign(ListOf(<<Member(Var("o"), Name("role", "User.role")), Var("x"),
                         N("pair", Kid("", Text_("", "")) \o Kid("", Member(Var("o"), Name("other", "User.other"))))>>), Var("y"))),
    Stmt(Assign(Var("y"), ClassOf(User)))>>)

Callables == Func("callables", "callables", <<Param("cb", "callables.cb", <<>>), Param("d", "callables.d", <<>>)>>, <<>>,
  <<Stmt(Call(Name("array_map", "php.array_map"), Args(<<Arg(Text_("slugify", "slugify")), Arg(Var("cb"))>>))),
    Stmt(Call(Name("array_map", "php.array_map"), Args(<<Arg(Array(<<Element(ClassOf(User)), Element(Text_("make", "User.make()"))>>))>>))),
    Stmt(Call(Name("array_map", "php.array_map"), Args(<<Arg(Call(Name("slugify", "slugify"), FirstClass)), Arg(Text_("a b", ""))>>))),
    Stmt(MemberCall(Var("cb"), Name("name", "User.name()"), FirstClass)),
    Stmt(Assign(Var("h"), Var("g"))),
    Stmt(Assign(Var("g"), Binary("??", Var("k"), Conditional(Limit, Text_("slugify", "slugify"), Paren(Var("cb")))))),
    Stmt(Assign(Var("k"), ScopedCall(Name("Closure", "php.Closure"), Name("fromCallable", "php.fromCallable"), Args(<<Arg(Text_("slugify", "slugify"))>>)))),
    Stmt(Call(Var("h"), Args(<<Arg(Var("g"))>>))),
    Stmt(Assign(Var("d"), Text_("slugify", "slugify"))),
    If(Limit, Block(<<Stmt(Assign(Var("cb"), Text_("slugify", "slugify")))>>)),
    Stmt(slugify(Args(<<Arg(Var("d"))>>))),
    Stmt(Call(MemberCall(Var("cb"), Name("name", "User.name()"), Args(<<>>)), Args(<<Arg(Text_("slugify", "slugify"))>>)))>>)

Service == OfClass("class_declaration", Attributes(User, <<Arg(Limit)>>), "Service", "Service", <<>>,
  <<Method(<<>>, "__construct", "Service()",
      <<Promoted("role", "Service.role", Typed(Type("Role", "Role")) \o Default(Limit) \o Hooks(slugify(Args(<<>>)))),
        Param("cb", "Service.cb", Attributes(User, <<>>))>>,
      Body(<<Stmt(Assign(Member(This, Name("hook", "Service.hook")), Var("cb"))),
             Stmt(Call(Paren(Member(This, Name("hook", "Service.hook"))), Args(<<>>))),
             Stmt(Call(Var("cb"), Args(<<Arg(This)>>)))>>)),
    Property(<<>>, <<Prop("hook", "Service.hook", <<>>)>>, Attributes(User, <<>>) \o Hooks(Block(<<Return(Member(This, Name("role", "Service.role")))>>))),
    Method(Attributes(User, <<>>), "run", "Service.run()", <<>>,
      Body(<<Func("inner", "inner", <<Param("z", "inner.z", Typed(Type("Role", "Role")))>>, <<>>, <<Stmt(slugify(Args(<<Arg(Var("z"))>>)))>>),
             Stmt(Create(<<Anonymous(Kid("", Args(<<Arg(slugify(Args(<<Arg(Text_("slugify", "slugify"))>>)))>>)), Extends(User),
                    <<Method(<<>>, "name", "anonymous.name()", <<>>, Result(Type("self", "anonymous")) \o
                        Body(<<Stmt(Assign(Member(This, Name("other", "User.other")), Text_("slugify", "slugify")))>>))>>)>>))>>))>>)

Closures == Func("closures", "closures", <<>>, <<>>,
  <<Stmt(Closure(<<Param("r", "closures.r", Typed(Type("Role", "Role")) \o Default(Limit))>>, Result(Type("User", "User")), <<Stmt(slugify(Args(<<>>)))>>)),
    Stmt(Arrow(<<Param("s", "closures.s", Typed(Type("Role", "Role")))>>, slugify(Args(<<Arg(Var("s"))>>))))>>)

Mixed == Class("Mixed", "Mixed", <<>>,
  <<UseTraits(<<Name("Logs", "Logs"), Name("Other", "Other"),
      N("use_list",
        All("", <<Instead(<<Constant(Name("Logs", "Logs"), Name("log", "Logs.log()")), Name("Other", "Other")>>),
                  Alias(<<Name("log", "Logs.log()")>>, "write")>>))>>)>>)
OtherTrait == OfClass("trait_declaration", <<>>, "Other", "Other", <<>>, <<Method(<<>>, "log", "Other.log()", <<>>, <<>>)>>)

Imports == <<Import(<<Clause(Qualified(<<"App", "Model">>, "Role", "Role"))>>),
             Import(<<ClauseAs(Qualified(<<"App", "Model">>, "Logs", "Logs"), "L"), Clause(Name("DateTime", "php.DateTime"))>>),
             Group(<<"App", "Model">>, <<Clause(Name("Base", "Base")), ClauseAs(Name("Named", "Named"), "N")>>),
             Import(<<Clause(Qualified(<<"Psr", "Log">>, "LoggerInterface", "psr.LoggerInterface"))>>),
             Import(<<Clause(Qualified(<<"App">>, "Model", "Model"))>>),
             Import(<<Clause(Qualified(<<"App", "Model">>, "Missing", "app.Missing"))>>)>>

AtTop == <<Stmt(Assign(Var("f"), Text_("slugify", "slugify"))), Stmt(Call(Var("f"), Args(<<>>))),
           Stmt(Call(Call(Name("undefined", "undefined"), Args(<<>>)), Args(<<>>)))>>
Second == <<Namespace(<<"App", "Second">>), Func("late", "late", <<>>, <<>>, <<Stmt(slugify(Args(<<>>)))>>)>>

Additions == <<<<Calls_>>, <<Writes_>>, <<Callables>>, <<Service>>, <<Closures>>, <<Mixed, OtherTrait>>, Imports, AtTop, Second>>
Added == {Additions[i] \o (IF k = 0 THEN <<>> ELSE Additions[1 + ((i + k) % Len(Additions))]) : i \in DOMAIN Additions, k \in {0, 2, 3}}

File(path, namespace, t) == [path |-> path, namespace |-> namespace, tree |-> t]
Braced(stmts) == Source(<<NamespaceHere(<<"App">>, stmts), NamespaceHere(<<"App", "Util">>, <<Func("util", "util", <<>>, <<>>, <<Stmt(slugify(Args(<<>>)))>>)>>)>>)
PhpPrograms ==
  {<<File("main.php", <<"App">>, Source(<<Namespace(<<"App">>), UserClass>> \o add)),
     File("model.php", <<"App", "Model">>, Model), File("page.php", <<>>, Template)>> : add \in Added}
    \cup {<<File("model.php", <<"App", "Model">>, Model), File("util.php", <<"App">>, Braced(<<UserClass>> \o Additions[i]))>> : i \in {1, 4}}
===============================================================================
