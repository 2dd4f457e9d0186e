----------------------------- MODULE MCFlowPass -----------------------------
(* Small graphs for FlowPass, each with the facts a pass may note of it. *)
EXTENDS FlowPass

Node(kind, qname) == [kind |-> kind, qname |-> qname, variadic |-> FALSE]
Rest(qname) == [kind |-> "PARAMETER", qname |-> qname, variadic |-> TRUE]
At(n) == <<"m.py", n>>
Call(src, tgt, n, how) == [src |-> src, tgt |-> tgt, site |-> At(n), how |-> how, by |-> "resolved"]

StrKey(s) == [k |-> "str", lo |-> 0, hi |-> 0, id |-> s]
VarKey(id) == [k |-> "var", lo |-> 0, hi |-> 0, id |-> id]
Slice(lo, hi) == [k |-> "range", lo |-> lo, hi |-> hi, id |-> ""]
Name(id) == Token("name", id)
Result(id) == Token("result", id)
Literal(key) == [Token("lit", "") EXCEPT !.keys = <<key>>]
Stored(keys, t) == [t EXCEPT !.at = <<keys>> \o @]
Get(keys, id) == [Token("get", id) EXCEPT !.keys = keys]

Hold(who, token) == [f |-> "hold", who |-> who, token |-> token]
Return(who, token) == [f |-> "return", who |-> who, token |-> token]
CallFact(n, target) == [f |-> "call", site |-> At(n), target |-> target]
Position(i) == [index |-> i, name |-> Unset]
Keyword(name) == [index |-> 0, name |-> name]
Arg(n, slot, token) == [f |-> "arg", site |-> At(n), slot |-> slot, token |-> token]
Decorator(who, i, target, call) ==
  [f |-> "decorator", who |-> who, index |-> i, target |-> target, call |-> call]
Loop(who, target, n, variable) ==
  [f |-> "iterate", who |-> who, target |-> target, site |-> At(n), variable |-> variable]
Receiver(who, target, name, n) ==
  [f |-> "receiver", who |-> who, target |-> target, name |-> name, site |-> At(n)]
ParamCall(who, target, n) == [f |-> "paramcall", who |-> who, target |-> target, site |-> At(n)]
Overwrite(who, n) == [f |-> "overwrite", who |-> who, site |-> At(n)]
ResultCall(who, target, n, depth, args) ==
  [f |-> "result", who |-> who, target |-> target, site |-> At(n), depth |-> depth, args |-> args]
Library(who, n, target, callee) ==
  [f |-> "library", who |-> who, site |-> At(n), target |-> target, callee |-> At(callee)]
Through(who, n, keys) == [f |-> "path", who |-> who, site |-> At(n), keys |-> keys]

Graph(nodes, order, declares, inherits, calls, keys, facts) ==
  [nodes |-> nodes, order |-> order, declares |-> declares, inherits |-> inherits,
   calls |-> calls, keys |-> keys, facts |-> facts]

M == "m" :> Node("MODULE", <<"m">>)
F(id) == id :> Node("FUNCTION", <<"m", id>>)
V(id) == id :> Node("VARIABLE", <<"m", id>>)
P(f, id) == id :> Node("PARAMETER", <<"m", f, id>>)

(* apply(cb) calls cb; a chain of calls hands functions to it, by          *)
(* position, by keyword, through a variable and to a variadic parameter;   *)
(* the body may assign cb first.                                           *)
Arguments ==
  Graph(M @@ F("f") @@ F("g") @@ F("apply") @@ P("apply", "cb") @@ F("outer") @@ P("outer", "fn")
          @@ ("rest" :> Rest(<<"m", "outer", "rest">>)) @@ V("v") @@ V("w"),
        <<"m", "f", "g", "apply", "cb", "outer", "fn", "rest", "v", "w">>,
        <<<<"apply", "cb">>, <<"outer", "fn">>, <<"outer", "rest">>>>, {},
        {Call("apply", "cb", 5, "value"), Call("outer", "apply", 10, "definition"),
         Call("m", "outer", 20, "definition"), Call("outer", "rest", 12, "value"),
         Call("m", "v", 30, "value")}, {},
        <<Overwrite("cb", 3), Hold("cb", Name("g")), ParamCall("apply", "cb", 6),
          CallFact(10, "apply"), Arg(10, Keyword("cb"), Name("fn")),
          CallFact(20, "outer"), Arg(20, Position(0), Name("f")), Arg(20, Position(2), Name("v")),
          Hold("v", Name("w")), Hold("w", Name("v")), Hold("w", Name("g")),
          CallFact(30, "v"), Arg(30, Position(0), Name("f"))>>)

(* table = {"a": f, 1: [g, h]}, slices of it, and a key that is a variable *)
Containers ==
  Graph(M @@ F("f") @@ F("g") @@ F("h") @@ V("t") @@ V("s") @@ V("u") @@ V("k"),
        <<"m", "f", "g", "h", "t", "s", "u", "k">>, <<>>, {},
        {Call("m", "t", 5, "value"), Call("m", "s", 6, "value"), Call("m", "u", 7, "value")},
        {IntKey(0), IntKey(1), IntKey(2), StrKey("a")},
        <<Hold("t", Stored(<<StrKey("a")>>, Name("f"))),
          Hold("t", Stored(<<IntKey(1)>>, Stored(<<IntKey(2)>>, Name("g")))),
          Hold("t", Stored(<<IntKey(2)>>, Name("h"))),
          Hold("s", Get(<<Slice(1, 3)>>, "t")),
          Hold("u", Get(<<Slice(0, 1)>>, "s")),
          Hold("u", Token("elem", "t")),
          Hold("k", Literal(IntKey(1))), Hold("k", Literal(StrKey("a"))),
          Through("m", 5, <<VarKey("k")>>), Through("m", 6, <<IntKey(0), IntKey(2)>>),
          Through("m", 7, <<IntKey(0), IntKey(2)>>)>>)

(* Decorators: one that returns its wrapper, one that returns what it is   *)
(* given, one nobody knows, stacked and called.                            *)
Decorators ==
  Graph(M @@ F("f") @@ F("g") @@ F("deco") @@ P("deco", "fn") @@ F("inner") @@ F("same")
          @@ P("same", "it") @@ F("use"),
        <<"m", "f", "g", "deco", "fn", "inner", "same", "it", "use">>,
        <<<<"m", "f">>, <<"m", "g">>, <<"m", "use">>, <<"deco", "fn">>, <<"same", "it">>>>, {},
        {Call("use", "f", 40, "definition"), Call("use", "g", 41, "definition"),
         Call("inner", "fn", 7, "value")}, {},
        <<Return("deco", Name("inner")), Return("same", Name("it")),
          Decorator("f", 0, "deco", FALSE), Decorator("f", 1, "same", FALSE),
          Decorator("g", 0, "same", TRUE), Decorator("g", 1, "deco", FALSE),
          Decorator("use", 0, Unset, FALSE),
          ResultCall("use", "deco", 43, 2, At(44)), CallFact(45, "deco"),
          Arg(44, Position(0), Name("f"))>>)

(* Classes: receivers, iteration and constructors. *)
Classes ==
  Graph(M @@ ("A" :> Node("CLASS", <<"m", "A">>)) @@ ("B" :> Node("CLASS", <<"m", "B">>))
          @@ ("init" :> Node("METHOD", <<"m", "A", "__init__">>))
          @@ ("self" :> Node("PARAMETER", <<"m", "A", "__init__", "self">>))
          @@ ("cb" :> Node("PARAMETER", <<"m", "A", "__init__", "cb">>))
          @@ ("attr" :> Node("ATTRIBUTE", <<"m", "A", "run">>))
          @@ ("brun" :> Node("METHOD", <<"m", "B", "run">>))
          @@ ("next" :> Node("METHOD", <<"m", "B", "__next__">>))
          @@ F("f") @@ V("b") @@ V("x"),
        <<"m", "A", "B", "init", "self", "cb", "attr", "brun", "next", "f", "b", "x">>,
        <<<<"m", "A">>, <<"m", "B">>, <<"A", "init">>, <<"init", "self">>, <<"init", "cb">>,
          <<"B", "brun">>, <<"B", "next">>>>,
        {<<"B", "A">>},
        {Call("m", "x", 9, "value"), Call("m", "cb", 11, "value")}, {IntKey(0)},
        <<Hold("b", Result("B")), Hold("attr", Name("cb")), CallFact(20, "A"),
          Arg(20, Position(0), Name("f")), Receiver("init", "self", "run", 6),
          Receiver("m", "b", "run", 8), Loop("m", "b", 9, "x"), Loop("m", "B", 10, Unset),
          Return("next", Name("f")), Library("m", 12, "cb", 13), CallFact(13, "f"),
          ParamCall("m", "cb", 11)>>)

(* A decorator that, called without arguments, returns what it was given:  *)
(* used both ways.                                                         *)
Optional ==
  Graph(M @@ F("f") @@ F("wrap") @@ P("wrap", "it") @@ F("make") @@ P("make", "fn") @@ F("use"),
        <<"m", "f", "wrap", "it", "make", "fn", "use">>,
        <<<<"m", "f">>, <<"m", "wrap">>, <<"wrap", "it">>, <<"make", "fn">>, <<"m", "use">>>>, {},
        {Call("use", "f", 40, "definition")}, {},
        <<Return("make", Name("fn")), Return("wrap", Name("use")),
          Decorator("wrap", 0, "make", FALSE), Decorator("f", 0, "make", TRUE)>>)

MCPrograms == {Arguments, Containers, Decorators, Classes}
MCOptional == {Optional}

-------------------------------------------------------------------------------
(* What the facts show, without depths, rounds or phases: the reference.   *)
(* Keys are concrete here, and a set of <<token, keys still to be read>>   *)
(* grows until it is closed.                                               *)

Within(range) == {c \in prog.keys : c.k = "int" /\ range.lo <= c.lo /\ c.lo < range.hi}

(* The keys a key may be, given what holders hold. *)
Denotes(T, key) ==
  CASE key.k = "wild" -> prog.keys
    [] key.k = "range" -> Within(key)
    [] key.k = "var" -> LET lits == Literals(T, key.id) IN IF lits = {} THEN prog.keys ELSE lits
    [] OTHER -> {key}

(* The concrete paths of a path: an index into a slice counts from the     *)
(* slice's start.                                                          *)
RECURSIVE Paths(_, _)
Paths(T, path) ==
  CASE path = <<>> -> {<<>>}
    [] Len(path) > 1 /\ path[1].k = "range" /\ path[2].k = "int" ->
         IF path[1].lo + path[2].lo < path[1].hi
         THEN Paths(T, <<IntKey(path[1].lo + path[2].lo)>> \o SubSeq(path, 3, Len(path))) ELSE {}
    [] Len(path) > 1 /\ path[1].k = "range" /\ path[2].k \in {"wild", "var"} ->
         Paths(T, <<path[1]>> \o SubSeq(path, 3, Len(path)))
    [] OTHER -> {<<c>> \o q : c \in Denotes(T, path[1]), q \in Paths(T, Tail(path))}

ReturnsOf(function) == {f.token : f \in {x \in FactSet("return") : x.who = function}}

RefLeads(T, t, path) ==
  CASE t.at # <<>> ->
         IF path # <<>> /\ Len(t.at[1]) <= Len(path)
            /\ \A j \in DOMAIN t.at[1] : path[j] \in Denotes(T, t.at[1][j])
         THEN {<<[t EXCEPT !.at = Tail(@)], SubSeq(path, Len(t.at[1]) + 1, Len(path))>>} ELSE {}
    [] t.at = <<>> /\ t.op = "get" -> {<<Token("name", t.id), p>> : p \in Paths(T, t.keys \o path)}
    [] t.at = <<>> /\ t.op = "elem" -> {<<Token("name", t.id), p>> : p \in Paths(T, <<Wild>> \o path)}
    [] t.at = <<>> /\ t.op = "result" -> {<<u, path>> : u \in ReturnsOf(t.id)}
    [] IsName(t) /\ Kind(t.id) \in Values -> {<<u, path>> : u \in ToSet(T[t.id])}
    [] OTHER -> {}

RECURSIVE Shown(_, _)
Shown(T, found) ==
  LET more == UNION {RefLeads(T, x[1], x[2]) : x \in found}
  IN  IF more \subseteq found THEN {x[1].id : x \in {y \in found : IsName(y[1]) /\ Kind(y[1].id) \in Callable}}
      ELSE Shown(T, found \cup more)

ShownTo(T, tokens, path) == Shown(T, {<<u, p>> : u \in tokens, p \in Paths(T, path)})
ShownBy(T, holder, path) == ShownTo(T, {Token("name", holder)}, path)

ShownAt(T, site) ==
  LET direct == {c.target : c \in {x \in FactSet("call") : x.site = site}}
      Level(r) ==
        LET at[d \in 0..r.depth] ==
              IF d = 0 THEN {r.target} ELSE ShownTo(T, {Token("result", f) : f \in at[d - 1]}, <<>>)
        IN  at[r.depth]
  IN  IF direct # {} THEN UNION {ShownBy(T, c, <<>>) \cup ({c} \ {v \in {c} : Kind(v) \in Values}) : c \in direct}
      ELSE UNION {Level(r) : r \in {x \in FactSet("result") : x.args = site}}

(* The bindings facts give on top of T: arguments, decorators, loops.      *)
Bindings(T) ==
  LET ofArgs == UNION {UNION {{<<p, a.token>> : p \in Binds(Entered(c), a.slot)} :
                                c \in {x \in ShownAt(T, a.site) : Entered(x) # Unset}} : a \in FactSet("arg")}
      Below(d) == {e \in FactSet("decorator") : e.who = d.who /\ e.index > d.index}
      CalledBy(d) == IF d.target = Unset THEN {}
                     ELSE IF d.call THEN ShownTo(T, {Token("result", d.target)}, <<>>) ELSE {d.target}
      GivenTo(d) == IF Below(d) = {} THEN {Token("name", d.who)}
                    ELSE LET next == CHOOSE e \in Below(d) : \A x \in Below(d) : e.index <= x.index
                         IN  {Token("result", c) : c \in CalledBy(next)}
      ofDecorators == UNION {{<<FirstParameter(c), t>> : t \in GivenTo(d),
                                c \in {x \in CalledBy(d) : Kind(x) \in Functions_ /\ FirstParameter(x) # Unset}} :
                               d \in FactSet("decorator")}
      ofLoops == UNION {{<<l.variable, t>> : t \in Elements(T, l.target)} :
                          l \in {x \in FactSet("iterate") : x.variable # Unset}}
  IN  ofArgs \cup ofDecorators \cup ofLoops

Fixed(T) == \A b \in Bindings(T) : b[2] \in ToSet(T[b[1]])

RECURSIVE Settled(_)
Settled(T) == IF Fixed(T) THEN T ELSE Settled(Learn(T, SetToSeq(Bindings(T))))

Meaning == Settled([id \in DOMAIN prog.nodes |-> Assigned(id)])

(* What is bound before the arguments are, or after: the code does not go  *)
(* back to it.                                                             *)
BoundOutOfTurn ==
  \/ \E d \in FactSet("decorator") : TRUE
  \/ \E l \in FactSet("iterate") : l.variable # Unset

-------------------------------------------------------------------------------
Sites(es, by) == {<<e.src, e.tgt, e.site>> : e \in {x \in es : x.by = by}}

ExpectedValues(T) ==
  UNION {{<<e.src, c, e.site>> : c \in ShownBy(T, e.tgt, CallPath(e))} :
           e \in {x \in prog.calls : x.how = "value"}}

ExpectedParameters(T) ==
  UNION {{<<p.who, c, p.site>> :
            c \in IF Overwritten(p) THEN ShownTo(T, ToSet(Assigned(p.target)), <<>>)
                  ELSE ShownBy(T, p.target, <<>>)} : p \in FactSet("paramcall")}

(* Nothing is invented: an edge of a called value or parameter ends at a   *)
(* callable that assignments, returns, arguments and containers hand to    *)
(* it.  "the values callers pass do not reach that call" when the body     *)
(* has assigned the parameter before it (flow.rs).                         *)
FlowIsSound ==
  phase = "done" =>
    LET T == Meaning
    IN  /\ Sites(edges, "value") \subseteq ExpectedValues(T)
        /\ Sites(edges, "parameter") \subseteq ExpectedParameters(T)

(* Nothing is missed where facts do not cross the phases: "every CALLS     *)
(* edge that landed on a variable, parameter or attribute gets one more    *)
(* edge per callable it can be shown to hold" (flow.rs), in spite of the   *)
(* cap on depth, the four rounds and holders that hold each other.         *)
FlowIsComplete ==
  phase = "done" /\ ~BoundOutOfTurn =>
    LET T == Meaning
    IN  /\ ExpectedValues(T) \subseteq Sites(edges, "value")
        /\ ExpectedParameters(T) \subseteq {<<e.src, e.tgt, e.site>> : e \in edges}
=============================================================================
