------------------------------ MODULE GoPrograms ------------------------------
(***************************************************************************)
(* Go programs as tree-sitter-go parses them: the grammar's constructs as  *)
(* operators, and the files TLC is given.  The last argument of a name is  *)
(* the label of the declaration it stands for.                             *)
(***************************************************************************)
EXTENDS SyntaxTree

Kid(field, term) == <<<<field, term>>>>
All(field, terms) == [i \in DOMAIN terms |-> <<field, terms[i]>>]

Ident(x, d) == Leaf("identifier", x, d)
Var(x, d) == Declaring("identifier", x, d)
Type(x, d) == Leaf("type_identifier", x, d)
Field(x, d) == Leaf("field_identifier", x, d)
IntType == Type("int", "builtin.int")
Pointer(t) == N("pointer_type", Kid("", t))
Slice(t) == N("slice_type", Kid("element", t))
MapOf(k, v) == N("map_type", Kid("key", k) \o Kid("value", v))
Qualified(p, d, t) == N("qualified_type", Kid("package", Leaf("package_identifier", p, d)) \o Kid("name", t))
GenericType(t, a) == N("generic_type", Kid("type", t) \o Kid("type_arguments", N("type_arguments", Kid("", a))))

List(terms) == N("expression_list", All("", terms))
Call(f, args) == N("call_expression", Kid("function", f) \o Kid("arguments", N("argument_list", All("", args))))
Sel(text, o, f) == Term("selector_expression", text, "", FALSE, Kid("operand", o) \o Kid("field", f))
Paren(e) == N("parenthesized_expression", Kid("", e))
Index(o, i) == N("index_expression", Kid("operand", o) \o Kid("index", i))
Unary(o) == N("unary_expression", Kid("operand", o))
Text_ == Leaf("interpreted_string_literal", "", "")
Element(e) == N("literal_element", Kid("", e))
Keyed(k, v) == N("keyed_element", Kid("", Element(k)) \o Kid("", Element(v)))
Value(elements) == N("literal_value", All("", elements))
Literal(t, elements) == N("composite_literal", Kid("type", t) \o Kid("body", Value(elements)))

Define(l, r) == Term("short_var_declaration", ":=", "", FALSE, Kid("left", List(l)) \o Kid("right", List(r)))
Assign(l, r) == Term("assignment_statement", "=", "", FALSE, Kid("left", List(l)) \o Kid("right", List(r)))
Range(op, l, r, body) ==
  N("for_statement", Kid("", Term("range_clause", op, "", FALSE, Kid("left", List(l)) \o Kid("right", r)))
                     \o Kid("body", N("block", All("", body))))
Send(c, v) == N("send_statement", Kid("channel", c) \o Kid("value", v))
Increment(e) == N("inc_statement", Kid("", e))
Return(es) == N("return_statement", Kid("", List(es)))
Stmt(e) == N("expression_statement", Kid("", e))

Param(x, d, t) == N("parameter_declaration", Kid("name", Var(x, d)) \o Kid("type", t))
Rest(x, d, t) == N("variadic_parameter_declaration", Kid("name", Var(x, d)) \o Kid("type", t))
Params(ps) == N("parameter_list", All("", ps))
TypeParams(x, d, c) == N("type_parameter_list", Kid("", N("type_parameter_declaration",
                         Kid("name", Var(x, d)) \o Kid("type", N("type_constraint", Kid("", c))))))
Body(stmts) == Kid("body", N("block", All("", stmts)))
Func(x, ps, result, stmts) ==
  N("function_declaration", Kid("name", Var(x, "m." \o x)) \o Kid("parameters", Params(ps)) \o result \o Body(stmts))
GenericFunc(x, tps, ps, stmts) ==
  N("function_declaration", Kid("name", Var(x, "m." \o x)) \o Kid("type_parameters", tps)
                              \o Kid("parameters", Params(ps)) \o Body(stmts))
Method(x, d, receiver, ps, result, stmts) ==
  N("method_declaration", Kid("receiver", Params(receiver)) \o Kid("name", Declaring("field_identifier", x, d))
                            \o Kid("parameters", Params(ps)) \o result \o Body(stmts))
FuncLiteral(ps, stmts) == N("func_literal", Kid("parameters", Params(ps)) \o Body(stmts))
Result(t) == Kid("result", t)

FieldDecl(x, d, t) == N("field_declaration", Kid("name", Declaring("field_identifier", x, d)) \o Kid("type", t))
Embedded(t) == N("field_declaration", Kid("type", t))
Struct(fields) == N("struct_type", Kid("", N("field_declaration_list", All("", fields))))
Interface(elems) == N("interface_type", All("", elems))
MethodElem(x, d, ps, result) ==
  N("method_elem", Kid("name", Declaring("field_identifier", x, d)) \o Kid("parameters", Params(ps)) \o result)
TypeDecl(spec) == N("type_declaration", Kid("", spec))
TypeSpec(x, d, tps, t) == N("type_spec", Kid("name", Declaring("type_identifier", x, d)) \o tps \o Kid("type", t))
TypeAlias(x, d, t) == N("type_alias", Kid("name", Declaring("type_identifier", x, d)) \o Kid("type", t))
VarDecl(names, type, values) ==
  N("var_declaration", Kid("", N("var_spec", All("name", names) \o type \o
    IF values = <<>> THEN <<>> ELSE Kid("value", List(values)))))
ConstDecl(name, type, value) ==
  N("const_declaration", Kid("", N("const_spec", Kid("name", name) \o type \o Kid("value", List(<<value>>)))))
PathLiteral(path, d) == Term("interpreted_string_literal", path, d, TRUE, <<>>)
Spec_(path, d) == N("import_spec", Kid("path", PathLiteral(path, d)))
AliasedSpec(x, path, d) ==
  N("import_spec", Kid("name", Declaring("package_identifier", x, d))
                     \o Kid("path", Term("interpreted_string_literal", path, "", FALSE, <<>>)))
Imports(specs) == N("import_declaration", Kid("", N("import_spec_list", All("", specs))))
Clause(x) == N("package_clause", Kid("clause", Leaf("package_identifier", x, "")))
SourceFile(decls) == Parsed(N("source_file", All("", decls)))

-------------------------------------------------------------------------------
(* The declarations every program has. *)

ItemT == Type("Item", "m.Item")
Global == Ident("Global", "m.Global")
g(args) == Call(Ident("g", "m.g"), args)

Item == TypeDecl(TypeSpec("Item", "m.Item", <<>>,
          Struct(<<FieldDecl("Name", "Item.Name", IntType), FieldDecl("Next", "Item.Next", Pointer(ItemT)),
                   FieldDecl("run", "Item.run", Type("Hook", "m.Hook"))>>)))
Hook == TypeDecl(TypeSpec("Hook", "m.Hook", <<>>, N("function_type", Kid("parameters", Params(<<>>)) \o Kid("result", ItemT))))
FuncG == Func("g", <<Param("i", "g.i", ItemT)>>, Result(Pointer(ItemT)), <<Return(<<Ident("i", "g.i")>>)>>)
GlobalVar == VarDecl(<<Var("Global", "m.Global")>>, Kid("type", ItemT), <<>>)

(* The package the others import. *)
Util == SourceFile(<<Clause("util"),
  TypeDecl(TypeSpec("T", "util.T", <<>>, Struct(<<FieldDecl("N", "util.T.N", IntType)>>))),
  N("function_declaration", Kid("name", Var("Double", "util.Double"))
     \o Kid("parameters", Params(<<Param("x", "Double.x", Type("T", "util.T"))>>)) \o Body(<<>>))>>)

ImportsOfA == Imports(<<Spec_(<<"example.com", "m", "util">>, "a:util"), Spec_(<<"fmt">>, "a:fmt"),
                        AliasedSpec("dep", <<"github.com", "dep", "v2">>, "a:dep"),
                        Spec_(<<"example.com", "gone">>, "a:gone")>>)
ub == Ident("util", "a:util")
UtilDouble(args) == Call(Sel("util.Double", ub, Field("Double", "util.Double")), args)
Println == Sel("fmt.Println", Ident("fmt", "a:fmt"), Field("Println", "fmt.Println"))

(* The declarations a program may add. *)
Uses == Func("uses", <<>>, <<>>,
  <<Stmt(UtilDouble(<<g(<<Global>>), Global>>)),
    Stmt(Call(Println, <<Global, Sel("Global.Name", Global, Field("Name", "Item.Name"))>>)),
    Stmt(Call(Sel("dep.New", Ident("dep", "a:dep"), Field("New", "dep.New")), <<>>))>>)

(* A parameter named as an imported package, and one as a variable.        *)
Shadows == Func("shadows",
  <<Param("util", "shadows.util", ItemT), Param("Global", "shadows.Global", ItemT)>>, <<>>,
  <<Assign(<<Sel("util.Name", Ident("util", "shadows.util"), Field("Name", "Item.Name"))>>, <<Ident("Global", "shadows.Global")>>),
    Stmt(Call(Sel("util.run", Ident("util", "shadows.util"), Field("run", "Item.run")), <<Ident("Global", "shadows.Global")>>))>>)

Writes_ == Func("writes", <<>>, <<>>,
  <<Assign(<<Global>>, <<Literal(ItemT, <<Keyed(Ident("Name", "Item.Name"), Global), Keyed(Ident("run", "Item.run"), Ident("g", "m.g"))>>)>>),
    Increment(Sel("Global.Name", Global, Field("Name", "Item.Name"))),
    Range("=", <<Global>>, Sel("Global.Next", Global, Field("Next", "Item.Next")), <<>>)>>)

(* Keys of maps and slices are values; elided literals take their type     *)
(* from around them.                                                       *)
Literals == VarDecl(<<Var("table", "m.table")>>, <<>>,
  <<Literal(MapOf(ItemT, Slice(ItemT)),
      <<Keyed(Global, Value(<<Element(Value(<<Keyed(Ident("Name", "Item.Name"), Text_)>>))>>))>>)>>)

Flows == Func("flows", <<>>, <<>>,
  <<Define(<<Var("f", "flows.f")>>, <<Ident("g", "m.g")>>),
    Define(<<Var("hs", "flows.hs")>>, <<Literal(Slice(Type("Hook", "m.Hook")), <<Element(Ident("f", "flows.f")), Element(Ident("g", "m.g"))>>)>>),
    Range(":=", <<Var("_", ""), Var("h", "flows.h")>>, Ident("hs", "flows.hs"),
          <<Stmt(Call(Ident("h", "flows.h"), <<Global>>)), Send(Ident("hs", "flows.hs"), Ident("g", "m.g"))>>),
    Stmt(Call(Ident("f", "flows.f"), <<>>)), Return(<<Ident("f", "flows.f"), Ident("g", "m.g")>>)>>)

Boxes == TypeDecl(TypeSpec("Box", "m.Box", Kid("type_parameters", TypeParams("T", "Box.T", Type("Runner", "m.Runner"))),
  Struct(<<Embedded(ItemT), Embedded(Qualified("util", "a:util", Type("T", "util.T"))),
           FieldDecl("inner", "Box.inner", Slice(Struct(<<FieldDecl("deep", "Box.deep", ItemT)>>))),
           FieldDecl("v", "Box.v", Type("T", "Box.T"))>>)))
Runner == TypeDecl(TypeSpec("Runner", "m.Runner", <<>>,
  Interface(<<N("type_elem", Kid("", Type("Other", "m.Other"))),
              MethodElem("Run", "Runner.Run", <<Param("i", "Run.i", ItemT)>>, Result(ItemT))>>)))
Other == TypeDecl(TypeAlias("Other", "m.Other", Qualified("util", "a:util", Type("T", "util.T"))))
Put == Method("Put", "Box.Put",
  <<Param("b", "Put.b", Pointer(GenericType(Type("Box", "m.Box"), Declaring("type_identifier", "T", "Put.T"))))>>,
  <<Param("v", "Put.v", Type("T", "Put.T")), Rest("rest", "Put.rest", ItemT)>>, Result(ItemT),
  <<Assign(<<Sel("b.v", Ident("b", "Put.b"), Field("v", "Box.v"))>>, <<Ident("v", "Put.v")>>),
    Return(<<Sel("b.inner.deep", Sel("b.inner", Ident("b", "Put.b"), Field("inner", "Box.inner")), Field("deep", "Box.deep"))>>)>>)

(* Several names and several values, and one value for two names.          *)
Pairs == VarDecl(<<Var("p", "m.p"), Var("q", "m.q")>>, <<>>, <<g(<<Global>>), Ident("g", "m.g")>>)
Both == VarDecl(<<Var("p", "m.p"), Var("q", "m.q")>>, Kid("type", ItemT), <<Call(Ident("g", "m.g"), <<Global>>)>>)
Handler == VarDecl(<<Var("handler", "m.handler")>>, <<>>,
  <<FuncLiteral(<<Param("i", "handler.i", ItemT)>>,
      <<Define(<<Var("k", "handler.k")>>, <<Unary(Ident("g", "m.g"))>>), Stmt(Call(Ident("k", "handler.k"), <<Ident("i", "handler.i")>>))>>)>>)
Limit == ConstDecl(Var("Limit", "m.Limit"), Kid("type", Type("Hook", "m.Hook")), Global)

Generics == GenericFunc("generic", TypeParams("T", "generic.T", Type("Hook", "m.Hook")), <<Param("t", "generic.t", Type("T", "generic.T"))>>,
  <<N("declaration_statement", Kid("", TypeDecl(TypeSpec("Local", "generic.Local", <<>>, Struct(<<Embedded(ItemT)>>))))),
    N("declaration_statement", Kid("", VarDecl(<<Var("l", "generic.l")>>, Kid("type", Type("Local", "generic.Local")), <<>>))),
    Stmt(N("type_conversion_expression", Kid("type", GenericType(Type("generic", "m.generic"), ItemT)) \o Kid("operand", Ident("t", "generic.t")))),
    Stmt(Call(Ident("Other", "m.Other"), <<Ident("t", "generic.t")>>))>>)

Callbacks == Func("callbacks", <<Param("less", "callbacks.less", Type("Hook", "m.Hook"))>>, <<>>,
  <<Stmt(Call(Sel("sort.Slice", Ident("sort", "stdlib.sort"), Field("Slice", "sort.Slice")), <<Global, Ident("less", "callbacks.less")>>)),
    Stmt(Call(Sel("Global.Run", Global, Field("Run", "m.unknown.Run")), <<Ident("g", "m.g")>>)),
    Stmt(Call(Call(Ident("g", "m.g"), <<>>), <<Sel("Global.Name", Global, Field("Name", "Item.Name"))>>)),
    Stmt(Call(Index(Ident("table", "m.table"), Text_), <<>>)),
    Stmt(Call(Index(Sel("Global.Next", Global, Field("Next", "Item.Next")), Text_), <<>>)),
    Stmt(Call(Paren(Sel("Global.run", Global, Field("run", "Item.run"))), <<>>))>>)

Additions == <<Uses, Shadows, Writes_, Literals, Flows, Pairs, Handler, Both, Limit, Generics, Callbacks>>

(* Every addition beside every second other, in both orders. *)
Added == {<<Additions[i], Additions[1 + ((i + k) % Len(Additions))]>> : i \in DOMAIN Additions, k \in {0, 3, 7}}

File(path, package, test, decls) == [path |-> path, package |-> package, test |-> test, tree |-> decls]
M == <<"example.com", "m">>
Basics == <<Clause("m"), ImportsOfA>>
Fixed == <<Item, Hook, FuncG, GlobalVar>>

(* Two of the additions, before or after what they use, the rest of the    *)
(* package in a file of its own or not, and a test file before both.       *)
GoPrograms ==
  {<<File("a.go", M, FALSE, SourceFile(Basics \o add \o Fixed)),
     File("util/u.go", Append(M, "util"), FALSE, Util)>> : add \in Added}
  \cup {<<File("a.go", M, FALSE, SourceFile(Basics \o <<Boxes, Runner, Other, Put>>)),
          File("a_test.go", M, TRUE, SourceFile(<<Clause("m_test")>> \o Fixed \o <<Pairs>>)),
          File("util/u.go", Append(M, "util"), FALSE, Util)>>}
===============================================================================
