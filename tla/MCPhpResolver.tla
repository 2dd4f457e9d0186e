----------------------------- MODULE MCPhpResolver -----------------------------
(* Projects: every small hierarchy of two classes, a trait and an          *)
(* interface; three files that import, inherit and type across each other; *)
(* locals that hold names; two versions of one file.                       *)
EXTENDS PhpResolver

Plain(name) == [form |-> "plain", path |-> <<name>>]
Qualified(path) == [form |-> "plain", path |-> path]
Absolute(path) == [form |-> "absolute", path |-> path]
Ref(at, name) == [at |-> at, name |-> name]
File(doc, body) == [doc |-> doc, body |-> body]

Namespace(name) == [k |-> "namespace", name |-> name]
Use(at, kind, target, alias) ==
  [k |-> "use", at |-> at, kind |-> kind, target |-> target, alias |-> alias]
Class(sort, at, name, extends, implements, members) ==
  [k |-> "class", sort |-> sort, at |-> at, name |-> name, extends |-> extends,
   implements |-> implements, members |-> members]
Method(at, name, params, returns, body) ==
  [k |-> "method", at |-> at, name |-> name, params |-> params, returns |-> returns, body |-> body]
Empty(at, name) == Method(at, name, <<>>, <<>>, <<>>)
Function(at, name, body) ==
  [k |-> "function", at |-> at, name |-> name, params |-> <<>>, returns |-> <<>>, body |-> body]
Const(at, name) == [k |-> "const", at |-> at, name |-> name]
Property(at, name, type) == [k |-> "property", at |-> at, name |-> name, type |-> type]
Traits(refs) == [k |-> "use_traits", refs |-> refs]
Param(at, name, type, promoted) == [at |-> at, name |-> name, type |-> type, promoted |-> promoted]

This == [k |-> "this"]
Var(x) == [k |-> "var", name |-> x]
Name(at, name) == [k |-> "name", at |-> at, name |-> name]
Relative(at, which) == [k |-> "relative", at |-> at, which |-> which]
New(at, name) == [k |-> "new", at |-> at, name |-> name, args |-> <<>>]
NewVar(at, x) == [k |-> "new_var", at |-> at, name |-> x]
Call(at, name, args, calls_back) ==
  [k |-> "call", at |-> at, name |-> name, args |-> args, calls_back |-> calls_back]
Invoke(at, x) == [k |-> "invoke", at |-> at, name |-> x, args |-> <<>>]
Arrow(at, owner, slot, name) ==
  [k |-> "member", scoped |-> FALSE, at |-> at, owner |-> owner, slot |-> slot, name |-> name, args |-> <<>>]
Scoped(at, owner, slot, name) ==
  [k |-> "member", scoped |-> TRUE, at |-> at, owner |-> owner, slot |-> slot, name |-> name, args |-> <<>>]
Dynamic(at, owner, x) == [k |-> "dynamic", at |-> at, owner |-> owner, name |-> x, args |-> <<>>]
InstanceOf(at, left, name) == [k |-> "instanceof", at |-> at, left |-> left, name |-> name]
Closure(params, body) == [k |-> "closure", params |-> params, returns |-> <<>>, body |-> body]
Assignment(x, value) == [k |-> "assign", name |-> x, value |-> value]
Reassignment(x, value) == [k |-> "reassign", name |-> x, value |-> value]
Text(at, text) == [k |-> "string", at |-> at, text |-> text]
Pair(at, class, text) == [k |-> "pair", at |-> at, class |-> class, text |-> text]
Catch(type, x, body) == [k |-> "catch", type |-> type, name |-> x, body |-> body]

-------------------------------------------------------------------------------
(* The hierarchies.  A's parents, B's parents, who declares m and __call.  *)

Optional(condition, s) == IF condition THEN s ELSE <<>>
Parent(at, name) == IF name = "" THEN <<>> ELSE <<Ref(at, Plain(name))>>
Body(h, name, at) ==
  Optional(name \in h.m, <<Empty(at, "m")>>) \o Optional(name \in h.call, <<Empty(at + 1, "__call")>>)

Hierarchies ==
  [base : {"", "B", "V"}, traits : {<<>>, <<"T">>, <<"V">>}, face : {"", "I", "V"},
   over : {"", "A", "V"}, mixes : BOOLEAN, m : SUBSET {"B", "T", "I"}, call : {{}, {"B"}, {"I"}, {"A", "T"}}]

HierarchyFile(h) ==
  File(<<"h">>,
    << Class("class", 1, "A", Parent(2, h.base), Parent(3, h.face),
         << Traits([i \in DOMAIN h.traits |-> Ref(4, Plain(h.traits[i]))]),
            Method(5, "run", <<>>, <<>>, <<Arrow(6, This, "method", "m")>>) >> \o Body(h, "A", 7)),
       Class("class", 10, "B", Parent(11, h.over), <<>>,
         Optional(h.mixes, <<Traits(<<Ref(12, Plain("T"))>>)>>) \o Body(h, "B", 13)),
       Class("trait", 20, "T", <<>>, <<>>, Body(h, "T", 21)),
       Class("interface", 30, "I", <<Ref(31, Plain("J"))>>, <<>>, Body(h, "I", 32)) >>)

-------------------------------------------------------------------------------
(* Three files: a base class, a class that inherits from it and holds      *)
(* typed properties, and code that uses both.                              *)

BaseFile ==
  File(<<"src", "Base">>,
    << Namespace(<<"App">>),
       Class("class", 1, "Base", <<>>, <<>>,
         << Property(2, "next", <<Ref(3, Plain("Late"))>>),
            Method(4, "make", <<>>, <<Ref(5, Plain("static"))>>, <<>>),
            Method(6, "other", <<Param(7, "p", <<Ref(8, Plain("Late"))>>, TRUE)>>,
                   <<Ref(9, Plain("Late"))>>, <<Arrow(10, Var("p"), "method", "go")>>) >>),
       Class("enum", 11, "Suit", <<>>, <<>>, <<Const(12, "Hearts"), Empty(13, "color")>>),
       Function(14, "Str", <<>>) >>)

LateFile ==
  File(<<"src", "Late">>,
    << Namespace(<<"App">>),
       Use(1, "class", <<"Lib", "Str">>, "Str"), Use(2, "function", <<"Lib", "help">>, "help"),
       Class("class", 3, "Late", <<Ref(4, Plain("Base"))>>, <<>>,
         << Method(5, "go", <<>>, <<>>,
              << Scoped(6, Relative(7, "parent"), "static", "make"),
                 Arrow(8, Arrow(9, This, "property", "next"), "method", "go"),
                 New(10, Plain("parent")),
                 Closure(<<Param(0, "q", <<Ref(11, Plain("self"))>>, FALSE)>>,
                         <<Arrow(12, Var("q"), "property", "p")>>) >>),
            Empty(13, "__invoke"), Empty(14, "__construct") >>),
       Scoped(15, Name(16, Plain("Str")), "static", "random"),
       Call(17, Plain("help"), <<>>, FALSE), Call(18, Plain("Str"), <<>>, FALSE) >>)

LibFile ==
  File(<<"lib", "Str">>,
    << Namespace(<<"Lib">>),
       Class("class", 1, "Str", <<>>, <<>>, <<Empty(2, "random")>>), Const(3, "LIMIT"),
       Function(4, "help", <<>>),
       Namespace(<<>>),
       Function(5, "Str", <<>>), Function(6, "late", <<>>), Class("class", 7, "Late", <<>>, <<>>, <<>>),
       Assignment("x", New(8, Absolute(<<"App", "Late">>))),
       Arrow(9, Arrow(10, Var("x"), "method", "make"), "method", "go"), Invoke(11, "x"),
       Arrow(12, Arrow(13, Var("x"), "method", "other"), "method", "go"),
       New(14, Qualified(<<"Old", "Str">>)), InstanceOf(15, Var("x"), Plain("Late")),
       Arrow(16, Scoped(17, Name(18, Absolute(<<"App", "Suit">>)), "const", "Hearts"), "method", "color"),
       Call(19, Plain("array_map"), <<Text(20, "late"), Pair(21, Var("x"), "go"),
                                     Text(22, "nothing")>>, TRUE),
       Catch(<<Ref(23, Plain("Exception"))>>, "e", <<Arrow(24, Var("e"), "method", "go")>>),
       Call(25, Plain("late"), <<Name(26, Plain("LIMIT"))>>, FALSE),
       Pair(27, Var("x"), "go"), Pair(28, Var("x"), "late") >>)

-------------------------------------------------------------------------------
(* Locals that hold names, reassigned, captured, shadowed. *)

ClassName(at, class) == Scoped(at, Name(at + 1, Plain(class)), "const", "class")

HeldFile(assignments, inner) ==
  File(<<"held">>,
    << Class("class", 1, "C", <<>>, <<>>,
         << Empty(2, "one"), Empty(3, "two"), Empty(4, "__construct"),
            Method(5, "run", <<>>, <<>>,
              assignments
                \o << Dynamic(6, This, "v"), NewVar(7, "v"),
                      Closure(inner, << Assignment("v", Text(8, "one")), Dynamic(9, This, "v"),
                                        NewVar(10, "v") >>),
                      Dynamic(11, This, "v") >>) >>),
       Class("class", 12, "D", <<>>, <<>>, <<Empty(13, "__construct")>>) >>)

HeldAssignments ==
  <<Assignment("v", Text(20, "one")), Assignment("v", Text(21, "two")),
    Assignment("v", ClassName(22, "C")), Assignment("v", ClassName(24, "D")),
    Assignment("v", Call(26, Plain("f"), <<>>, FALSE)), Reassignment("v", Text(27, "two"))>>
HeldInputs == UNION {[1..n -> DOMAIN HeldAssignments] : n \in 0..2}

(* Two versions of a file: the class loses a method. *)
Version(members) ==
  File(<<"v">>, << Class("class", 1, "C", <<>>, <<>>, members),
                   Assignment("x", New(2, Plain("C"))), Arrow(3, Var("x"), "method", "m") >>)

-------------------------------------------------------------------------------
MCFiles(p) ==
  CASE p[1] = "hierarchy" -> <<HierarchyFile(p[2])>>
    [] p[1] = "three" -> <<BaseFile, LateFile, LibFile>>
    [] p[1] = "held" -> <<HeldFile([i \in DOMAIN p[2] |-> HeldAssignments[p[2][i]]],
                                   IF p[3] THEN <<Param(0, "v", <<>>, FALSE)>> ELSE <<>>)>>
    [] p[1] = "old" -> <<Version(<<Empty(4, "m")>>)>>
    [] p[1] = "new" -> <<Version(<<>>), BaseFile>>
    [] p[1] = "stale" -> <<File(<<"s">>, << Class("class", 1, "C", <<>>, <<>>, <<Empty(2, "m")>>),
                              Assignment("x", New(3, Plain("C"))), Arrow(4, Var("x"), "method", "m"),
                              Assignment("x", Call(5, Plain("f"), <<>>, FALSE)),
                              Arrow(6, Var("x"), "method", "m") >>)>>

Entry(prefix, dir) == [prefix |-> prefix, dir |-> dir]
MCBuiltins == {<<"Exception">>}

MCRoots(p) ==
  IF p[1] # "three" THEN <<>>
  ELSE << << Entry(<<"App">>, <<"src">>), Entry(<<"Old">>, <<"lib">>) >>,
          << Entry(<<"App">>, <<"tests">>) >> >>

MCCalls ==
  {<< <<"three">> >>, << <<"old">>, <<"new">> >>, << <<"three">>, <<"old">> >>}
    \cup {<< <<"hierarchy", h>> >> : h \in Hierarchies}
    \cup {<< <<"held", values, shadowed>> >> : values \in HeldInputs, shadowed \in BOOLEAN}

StaleCalls == {<< <<"stale">> >>}
================================================================================
