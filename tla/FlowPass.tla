------------------------------- MODULE FlowPass -------------------------------
(***************************************************************************)
(* The value-flow pass (src/src/flow.rs): what a resolution pass noted of  *)
(* assignments, returns, arguments, decorators, loops, receivers and       *)
(* containers is turned into one more CALLS edge per callable a called     *)
(* value can be shown to hold.                                             *)
(*                                                                         *)
(* A pass is a program (the graph so far) and the facts noted about it,    *)
(* one after another; `finish` then runs in the phases of the code.  A     *)
(* qualified name is the sequence of its parts, a site is <<file, place>>. *)
(***************************************************************************)
EXTENDS Integers, FiniteSets, SequencesExt, TLAPS

CONSTANTS
  Programs,   (* the graphs, each with the facts that may be noted of it  *)
  MaxDepth,   (* MAX_DEPTH                                                *)
  MaxRounds,  (* rounds of bind_arguments                                 *)
  Unset       (* Option::None                                             *)

ASSUME FlowAssumption == MaxDepth \in Nat \ {0} /\ MaxRounds \in Nat \ {0}

VARIABLES
  prog,       (* [nodes, order, declares, inherits, calls, facts]         *)
  read,       (* how many of the facts that may be noted were decided on  *)
  noted,      (* the facts noted, in order                                *)
  phase,      (* noting, decorators, arguments, iterations, follow, done  *)
  holds,      (* what a node holds: tokens                                *)
  pending,    (* decorated definitions bind_decorators has not met yet    *)
  made,       (* what a decorator that is a call stands for, by           *)
              (* <<definition, index>>, once it was looked at             *)
  decorated,  (* what a decorated definition's name stands for            *)
  round,      (* rounds of bind_arguments so far                          *)
  edges       (* the CALLS edges of the graph                             *)

vars == <<prog, read, noted, phase, holds, pending, made, decorated, round, edges>>

-------------------------------------------------------------------------------
(* Nodes. *)

Values == {"VARIABLE", "PARAMETER", "ATTRIBUTE"}
Functions_ == {"FUNCTION", "METHOD"}
Callable == Functions_ \cup {"CLASS"}

Kind(id) == IF id \in DOMAIN prog.nodes THEN prog.nodes[id].kind ELSE Unset
Named(id) == prog.nodes[id].qname
IsReceiver(id) == Last(Named(id)) \in {"self", "cls", "this"}

(* by_name: of two nodes with one qualified name, the one added last. *)
ByName(qname) ==
  LET At == {i \in DOMAIN prog.order : Named(prog.order[i]) = qname}
  IN  IF At = {} THEN Unset ELSE prog.order[CHOOSE i \in At : \A j \in At : j <= i]

(* The parameters of a function, in the order of its DECLARES edges. *)
ParametersOf(f) ==
  LET own == SelectSeq(prog.declares, LAMBDA d : d[1] = f /\ Kind(d[2]) = "PARAMETER")
  IN  [i \in DOMAIN own |-> own[i][2]]

(* How many leading parameters a call's arguments do not bind. *)
Skipped(f, params) ==
  IF Kind(f) = "METHOD" /\ params # <<>> /\ IsReceiver(Head(params)) THEN 1 ELSE 0

Facts(kind) == SelectSeq(noted, LAMBDA f : f.f = kind)
FactSet(kind) == {noted[i] : i \in {j \in DOMAIN noted : noted[j].f = kind}}

-------------------------------------------------------------------------------
(* Keys and tokens.  A token is a payload `op` (a name; get, elem: a value *)
(* read out of id; result: what id returns; lit: a literal) under the key  *)
(* paths `at` it is stored with.                                           *)

Wild == [k |-> "wild", lo |-> 0, hi |-> 0, id |-> ""]
IntKey(n) == [k |-> "int", lo |-> n, hi |-> n + 1, id |-> ""]

Token(op, id) == [at |-> <<>>, op |-> op, keys |-> <<>>, id |-> id]
IsLiteral(t) == t.at = <<>> /\ t.op = "lit"
IsName(t) == t.at = <<>> /\ t.op = "name"
ResultOf(t) == IF t.at = <<>> /\ t.op = "result" THEN t.id ELSE Unset

(* The tokens of a holder and of the holders it names, so many hops on. *)
HeldWithin(held, holder, hops) ==
  LET Met(seen, new) == <<{t.id : t \in {u \in new : IsName(u) /\ Kind(u.id) \in Values}}, seen \cup new>>
      Hop(met) == Met(met[2], UNION {ToSet(held[h]) : h \in met[1]} \ met[2])
      after[d \in 0..hops] ==   \* <<holders to look at, tokens seen>>
        IF d = 0 THEN <<{holder}, {}>> ELSE Hop(after[d - 1])
  IN  after[hops][2]

(* literals_of: no chain of holders is longer than there are nodes. *)
Literals(held, holder) ==
  {t.keys[1] : t \in {u \in HeldWithin(held, holder, Cardinality(DOMAIN prog.nodes)) : IsLiteral(u)}}

InRange(range, other) ==
  CASE other.k = "range" -> range.lo < other.hi /\ other.lo < range.hi
    [] other.k = "int" -> range.lo <= other.lo /\ other.lo < range.hi
    [] OTHER -> FALSE

Meets(stored, asked) ==
  \/ "wild" \in {stored.k, asked.k}
  \/ stored.k = "range" /\ InRange(stored, asked)
  \/ asked.k = "range" /\ InRange(asked, stored)
  \/ stored.k # "range" /\ stored = asked

(* A key that is a variable is any of the literals it holds; one that      *)
(* holds none may be anything.                                             *)
Possible(held, key) ==
  LET OrAny(values) == IF values = {} THEN {Wild} ELSE values
  IN  IF key.k = "var" THEN OrAny(Literals(held, key.id)) ELSE {key}

(* compatible. *)
Compatible(held, stored, asked) ==
  \E s \in Possible(held, stored), a \in Possible(held, asked) : Meets(s, a)

(* Mutant: the offset of the slice is forgotten. *)
SlicedFromZero(range, key) ==
  CASE key.k = "int" /\ key.lo < range.hi -> IntKey(key.lo)
    [] key.k \in {"wild", "var"} -> range
    [] key.k = "range" -> [key EXCEPT !.hi = IF range.hi < @ THEN range.hi ELSE @]
    [] OTHER -> Unset

(* The key that reading `key` of a slice is, if it can be one. *)
Sliced(range, key) ==
  CASE key.k = "int" /\ range.lo + key.lo < range.hi -> IntKey(range.lo + key.lo)
    [] key.k \in {"wild", "var"} -> range
    [] key.k = "range" ->
         [range EXCEPT !.lo = @ + key.lo,
                       !.hi = IF range.lo + key.hi < @ THEN range.lo + key.hi ELSE @]
    [] OTHER -> Unset

(* normalize: one key after another. *)
Joined(out, key) ==
  IF out = Unset THEN Unset
  ELSE IF out = <<>> \/ Last(out).k # "range" THEN Append(out, key)
  ELSE LET merged == Sliced(Last(out), key)
       IN  IF merged = Unset THEN Unset ELSE Append(Front(out), merged)

Normalize(path) ==
  LET out[n \in 0..Len(path)] == IF n = 0 THEN <<>> ELSE Joined(out[n - 1], path[n])
  IN  out[Len(path)]

-------------------------------------------------------------------------------
(* resolve_item: a depth-first walk over holders and tokens. *)

Item(token, path, depth) == [token |-> token, path |-> path, depth |-> depth]
HolderItem(id, path, depth) == Item(Token("holder", id), path, depth)

ReadOut(holder, path, depth) ==
  LET p == Normalize(path) IN IF p = Unset THEN <<>> ELSE <<HolderItem(holder, p, depth)>>

Returned(function) ==
  LET own == SelectSeq(noted, LAMBDA f : f.f = "return" /\ f.who = function)
  IN  [i \in DOMAIN own |-> own[i].token]

(* What an item leads to, pushed in this order. *)
Leads(held, i) ==
  LET t == i.token
      n == i.depth + 1
  IN  CASE t.op = "holder" -> [j \in DOMAIN held[t.id] |-> Item(held[t.id][j], i.path, n)]
        [] t.at # <<>> ->
             IF /\ i.path # <<>> /\ Len(t.at[1]) <= Len(i.path)
                /\ \A j \in DOMAIN t.at[1] : Compatible(held, t.at[1][j], i.path[j])
             THEN <<Item([t EXCEPT !.at = Tail(@)],
                         SubSeq(i.path, Len(t.at[1]) + 1, Len(i.path)), n)>>
             ELSE <<>>
        [] t.op = "get" /\ t.at = <<>> -> ReadOut(t.id, t.keys \o i.path, n)
        [] t.op = "elem" /\ t.at = <<>> -> ReadOut(t.id, <<Wild>> \o i.path, n)
        [] t.op = "result" /\ t.at = <<>> ->
             [j \in DOMAIN Returned(t.id) |-> Item(Returned(t.id)[j], i.path, n)]
        [] t.op = "name" /\ t.at = <<>> /\ Kind(t.id) \in Values -> <<HolderItem(t.id, i.path, n)>>
        [] OTHER -> <<>>

Keys == [k : STRING, lo : Int, hi : Int, id : STRING]
Tokens == [at : Seq(Seq(Keys)), op : STRING, keys : Seq(Keys), id : STRING]
Items == [token : Tokens, path : Seq(Keys), depth : Nat]
Walks == [stack : Seq(Items), seen : SUBSET (STRING \X Seq(Keys)), found : SUBSET STRING]

(* A holder is looked at once for each path it is read with. *)
Turn(held, w, i) ==
  LET t == i.token
      rest == Front(w.stack)
  IN  IF i.depth > 3 * MaxDepth \/ (t.op = "holder" /\ <<t.id, i.path>> \in w.seen)
      THEN [w EXCEPT !.stack = rest]
      ELSE [stack |-> rest \o Leads(held, i),
            seen |-> w.seen \cup {x \in {<<t.id, i.path>>} : t.op = "holder"},
            found |-> w.found \cup {x \in {t.id} : IsName(t) /\ Kind(x) \in Callable}]

Walk(held, stack) ==
  LET found[w \in Walks] ==
        IF w.stack = <<>> THEN w.found ELSE found[Turn(held, w, Last(w.stack))]
  IN  found[[stack |-> stack, seen |-> {}, found |-> {}]]

Resolve(held, holder, path) == Walk(held, <<HolderItem(holder, path, 0)>>)
Callables(held, holder) == Resolve(held, holder, <<>>)
CallablesOfTokens(held, tokens) ==
  UNION {Walk(held, <<Item(t, <<>>, 0)>>) : t \in ToSet(tokens)}
ResultsOf(held, function) == CallablesOfTokens(held, <<Token("result", function)>>)

(* The tokens of a key of the pass's own, such as decorated:f. *)
OfKey(held, tokens) ==
  Walk(held, [j \in DOMAIN tokens |-> Item(tokens[j], <<>>, 1)])

(* level_targets: what calling `function` so many calls deep reaches. *)
LevelTargets(held, function, depth) ==
  LET level[d \in 0..depth] ==
        IF d = 0 THEN {function} ELSE UNION {ResultsOf(held, f) : f \in level[d - 1]}
  IN  level[depth]

(* instances: the classes a holder holds an instance of, so many hops on.  *)
Instances(held, holder) ==
  LET classes == {ResultOf(t) : t \in HeldWithin(held, holder, MaxDepth)}
  IN  {c \in classes : c # Unset /\ Kind(c) = "CLASS"}

-------------------------------------------------------------------------------
(* The binding of what was noted. *)

AddNew(list, tokens) == list \o SelectSeq(tokens, LAMBDA t : t \notin ToSet(list))

(* What `learned`, a sequence of <<holder, token>>, adds to the holds. *)
Learn(held, learned) ==
  LET after[n \in 0..Len(learned)] ==
        IF n = 0 THEN held
        ELSE [after[n - 1] EXCEPT ![learned[n][1]] = AddNew(@, <<learned[n][2]>>)]
  IN  after[Len(learned)]

FirstParameter(f) ==
  LET params == ParametersOf(f)
      n == 1 + Skipped(f, params)
  IN  IF n \in DOMAIN params THEN params[n] ELSE Unset

(* The decorators of a definition, the innermost first. *)
Chain(definition) ==
  SetToSortSeq({d \in FactSet("decorator") : d.who = definition}, LAMBDA d, e : d.index > e.index)

(* One decorator: the functions that are called with the definition. *)
Decorates(held, d) ==
  CASE d.target = Unset -> {}
    [] d.target # Unset /\ d.call -> {c \in OfKey(held, <<Token("result", d.target)>>) : Kind(c) \in Functions_}
    [] OTHER -> {c \in {d.target} : Kind(c) \in Functions_}

(* One decorator of bind_decorators: b is [holds, made, value], value      *)
(* Unset once a decorator is not known.                                    *)
DecoratedBy(b, d) ==
  LET Handed(callee) ==
        IF FirstParameter(callee) = Unset THEN <<>>
        ELSE [j \in DOMAIN b.value |-> <<FirstParameter(callee), b.value[j]>>]
      Through(callees) ==
        [holds |-> Learn(b.holds, FlattenSeq([i \in DOMAIN callees |-> Handed(callees[i])])),
         made |-> IF d.target # Unset /\ d.call
                  THEN b.made @@ (<<d.who, d.index>> :> <<Token("result", d.target)>>) ELSE b.made,
         value |-> IF callees = <<>> THEN Unset
                   ELSE [i \in DOMAIN callees |-> Token("result", callees[i])]]
  IN  IF b.value = Unset THEN b ELSE Through(SetToSeq(Decorates(b.holds, d)))

(* One definition, with its whole chain: b is [holds, made].               *)
Decorate(b, definition) ==
  LET chain == Chain(definition)
      after[n \in 0..Len(chain)] ==
        IF n = 0 THEN [holds |-> b.holds, made |-> b.made, value |-> <<Token("name", definition)>>]
        ELSE DecoratedBy(after[n - 1], chain[n])
  IN  after[Len(chain)]

(* What a decorated definition's name stands for from now on.              *)
StandsFor(known, definition, value) ==
  [x \in DOMAIN known \cup {y \in {definition} : value # Unset} |->
     IF x \in DOMAIN known THEN known[x] ELSE value]

(* One definition of bind_decorators: b is [holds, made, decorated].       *)
BindDecorators(b, definition) ==
  LET Bound(r) == [holds |-> r.holds, made |-> r.made,
                   decorated |-> StandsFor(b.decorated, definition, r.value)]
  IN  Bound(Decorate(b, definition))

(* Constructor of a class, by the names languages give it. *)
Constructor(class) ==
  LET known == {n \in {"__init__", "constructor", "__construct"} :
                  ByName(Append(Named(class), n)) # Unset}
      first == CHOOSE n \in known : \/ n = "__init__"
                                    \/ n = "constructor" /\ "__init__" \notin known
                                    \/ known = {n}
  IN  IF known = {} THEN Unset ELSE ByName(Append(Named(class), first))

(* The parameter an argument binds: by name, by position after the         *)
(* receiver, or the last one when it is variadic.                          *)
Binds(f, slot) ==
  LET params == ParametersOf(f)
  IN  IF params = <<>> THEN {}
      ELSE IF slot.name # Unset
      THEN {p \in ToSet(params) : Last(Named(p)) = slot.name}
      ELSE LET n == slot.index + 1 + Skipped(f, params)
           IN  IF n \in DOMAIN params THEN {params[n]}
               ELSE {p \in {Last(params)} : prog.nodes[p].variadic}

(* What a call at a site reaches: what its name was bound to, or what the  *)
(* result it is made on may be.                                            *)
SiteCallees(held, site) ==
  LET bound == Facts("call")
      here == {i \in DOMAIN bound : bound[i].site = site}
      callee == bound[CHOOSE i \in here : \A j \in here : j <= i].target
      deep == SelectSeq(Facts("result"), LAMBDA r : r.args = site)
  IN  IF here # {}
      THEN IF Kind(callee) \in Values THEN Callables(held, callee) ELSE {callee}
      ELSE IF deep = <<>> THEN {} ELSE LevelTargets(held, Last(deep).target, Last(deep).depth)

Entered(callee) == IF Kind(callee) = "CLASS" THEN Constructor(callee) ELSE callee

(* One round of bind_arguments over the holds of its start. *)
Learned(held) ==
  LET args == Facts("arg")
      of(a) == UNION {Binds(Entered(c), a.slot) :
                        c \in {x \in SiteCallees(held, a.site) : Entered(x) # Unset}}
  IN  FlattenSeq([i \in DOMAIN args |->
        LET ps == SetToSeq(of(args[i])) IN [j \in DOMAIN ps |-> <<ps[j], args[i].token>>]])

(* What a loop variable holds. *)
NextOf(class) == ByName(Append(Named(class), "__next__"))
Elements(held, it) ==
  CASE Kind(it) \in Values ->
         {Token("elem", it)} \cup
           {Token("result", NextOf(c)) : c \in {x \in Instances(held, it) : NextOf(x) # Unset}}
    [] Kind(it) \in Functions_ -> {Token("result", it)}
    [] Kind(it) = "CLASS" /\ NextOf(it) # Unset -> {Token("result", NextOf(it))}
    [] OTHER -> {}

Iterated(held) ==
  LET loops == SelectSeq(Facts("iterate"), LAMBDA f : f.variable # Unset)
  IN  FlattenSeq([i \in DOMAIN loops |->
        LET es == SetToSeq(Elements(held, loops[i].target))
        IN  [j \in DOMAIN es |-> <<loops[i].variable, es[j]>>]])

-------------------------------------------------------------------------------
(* follow: the edges. *)

NoSite == <<"", 0>>
Flow(src, tgt, site, by) == [src |-> src, tgt |-> tgt, site |-> site, how |-> "flow", by |-> by]

SourceOf(relations, target) ==
  LET own == SelectSeq(relations, LAMBDA d : d[2] = target)
  IN  IF own = <<>> THEN Unset ELSE Last(own)[1]

Closure(ids, relation) ==
  LET Near(known) == known \cup {r[2] : r \in {x \in relation : x[1] \in known}}
      within[n \in 0..Cardinality(relation)] ==
        IF n = 0 THEN ids
        ELSE Near(within[n - 1])
  IN  within[Cardinality(relation)]

(* The classes a receiver may be an instance of: self is one of the class  *)
(* of its method or of a subclass.                                         *)
ReceiverClasses(held, recv) ==
  IF Kind(recv) = "PARAMETER" /\ IsReceiver(recv)
  THEN LET class == SourceOf(prog.declares, SourceOf(prog.declares, recv))
       IN  IF Kind(class) = "CLASS"
           THEN Closure({class}, {<<r[2], r[1]>> : r \in prog.inherits}) ELSE {}
  ELSE Instances(held, recv)

MembersOf(held, owner, name) ==
  LET method == ByName(Append(Named(owner), name))
  IN  {m \in {method} : Kind(m) = "METHOD"} \cup
        UNION {Callables(held, a) :
                 a \in {x \in DOMAIN prog.nodes : /\ Kind(x) = "ATTRIBUTE" /\ Last(Named(x)) = name
                                                  /\ IsStrictPrefix(Named(owner), Named(x))}}

(* receiver_calls: calls the type checker placed on nothing. *)
ReceiverEdges(held) ==
  UNION {UNION {{Flow(r.who, m, r.site, "receiver") : m \in MembersOf(held, owner, r.name)} :
                  owner \in {c \in Closure(ReceiverClasses(held, r.target), prog.inherits) :
                               c \in DOMAIN prog.nodes}} :
           r \in {x \in FactSet("receiver") :
                    ~ \E e \in prog.calls : /\ Kind(e.tgt) \in Callable
                                            /\ e.src = x.who /\ e.site = x.site}}

(* Mutant: a definition whose decorators lead nowhere is replaced too. *)
ReplacedByNothing(made_of, e) == e.tgt \in DOMAIN made_of /\ e.tgt \notin made_of[e.tgt]

(* The calls of a decorated definition that are calls of something else.   *)
Replaced(made_of, e) ==
  e.tgt \in DOMAIN made_of /\ made_of[e.tgt] # {} /\ e.tgt \notin made_of[e.tgt]

DecoratedEdges(made_of) ==
  UNION {{Flow(e.src, c, e.site, "decorated") : c \in made_of[e.tgt] \ {e.tgt}} :
           e \in {x \in prog.calls : x.tgt \in DOMAIN made_of}}

(* `@make(x)`: the scope calls what make(x) returned. *)
MakerEdges(held, made_by) ==
  UNION {{Flow(SourceOf(prog.declares, d.who), c, NoSite, "maker") :
            c \in IF <<d.who, d.index>> \in DOMAIN made_by
                  THEN OfKey(held, made_by[<<d.who, d.index>>]) ELSE {}} :
           d \in {x \in FactSet("decorator") : /\ x.target # Unset /\ x.call
                                               /\ SourceOf(prog.declares, x.who) # Unset}}

(* `for x in it`: the iteration protocol of what it holds. *)
LoopEdges(held) ==
  UNION {UNION {{Flow(l.who, m, l.site, "loop") :
                   m \in {ByName(Append(Named(c), p)) : p \in {"__iter__", "__next__"}} \ {Unset}} :
                  c \in IF Kind(l.target) = "CLASS" THEN {l.target} ELSE Instances(held, l.target)} :
           l \in FactSet("iterate")}

(* The keys a call is made through. *)
CallPath(e) ==
  LET own == SelectSeq(Facts("path"), LAMBDA p : p.who = e.src /\ p.site[2] = e.site[2])
  IN  IF own = <<>> THEN <<>> ELSE Last(own).keys

ValueEdges(held) ==
  UNION {{Flow(e.src, c, e.site, "value") : c \in Resolve(held, e.tgt, CallPath(e))} :
           e \in {x \in prog.calls : x.how = "value"}}

ResultEdges(held) ==
  UNION {{Flow(r.who, c, r.site, "result") : c \in LevelTargets(held, r.target, r.depth)} :
           r \in FactSet("result")}

Before(s, t) == s[1] = t[1] /\ s[2] < t[2]
Overwritten(p) == \E o \in FactSet("overwrite") : o.who = p.target /\ Before(o.site, p.site)

(* The tokens noted for a holder before anything is bound. *)
Assigned(id) ==
  LET own == SelectSeq(noted, LAMBDA f : f.f = "hold" /\ f.who = id /\ f.token # Token("name", id))
  IN  [i \in DOMAIN own |-> own[i].token]

(* Mutant: the body's assignments are taken after arguments are bound. *)
HandedToAll(held, p) == Callables(held, p.target)

(* What the call of a parameter may call: after an unconditional           *)
(* reassignment, what the body assigned.                                   *)
HandedTo(held, p) ==
  IF Overwritten(p) THEN CallablesOfTokens(held, Assigned(p.target)) ELSE Callables(held, p.target)

New(es, known) ==
  {e \in es : ~ \E d \in known : <<d.src, d.tgt, d.site>> = <<e.src, e.tgt, e.site>>}

ParameterEdges(held) ==
  UNION {{Flow(p.who, c, p.site, "parameter") : c \in HandedTo(held, p)} : p \in FactSet("paramcall")}

(* A function handed to a library function; one handed to a function of    *)
(* the project is the project's business.                                  *)
LibraryEdges(held) ==
  UNION {{Flow(l.who, c, l.site, "library") :
            c \in IF Kind(l.target) \in Callable THEN {l.target} ELSE Callables(held, l.target)} :
           l \in {x \in FactSet("library") : ~ \E c \in FactSet("call") : c.site = x.callee}}

(* follow: what is added, and what it replaces taken out before.           *)
AllEdges(held, made_by, made_of) ==
  LET first == ReceiverEdges(held) \cup DecoratedEdges(made_of) \cup MakerEdges(held, made_by)
                 \cup LoopEdges(held) \cup ValueEdges(held) \cup ResultEdges(held)
      Handed(added) == added \cup New(ParameterEdges(held), prog.calls \cup added)
      Given(added) == added \cup New(LibraryEdges(held), prog.calls \cup added)
  IN  {e \in prog.calls : ~Replaced(made_of, e)} \cup Given(Handed(first))

-------------------------------------------------------------------------------
(* The pass. *)

Init ==
  /\ prog \in Programs
  /\ read = 0 /\ noted = <<>> /\ phase = "noting"
  /\ holds = [id \in DOMAIN prog.nodes |-> <<>>]
  /\ pending = {} /\ made = <<>> /\ decorated = <<>> /\ round = 0
  /\ edges = prog.calls

(* The resolution pass notes a fact, or its answer was not one to note. *)
Note ==
  /\ phase = "noting" /\ read < Len(prog.facts)
  /\ noted' \in {noted, Append(noted, prog.facts[read + 1])}
  /\ read' = read + 1
  /\ UNCHANGED <<prog, phase, holds, pending, made, decorated, round, edges>>

Finish ==
  /\ phase = "noting" /\ read = Len(prog.facts)
  /\ phase' = "decorators"
  /\ holds' = [id \in DOMAIN prog.nodes |-> Assigned(id)]
  /\ pending' = {d.who : d \in {x \in FactSet("decorator") : Kind(x.who) \in Functions_}}
  /\ UNCHANGED <<prog, read, noted, made, decorated, round, edges>>

(* bind_decorators takes the definitions in the order of a hash map. *)
DecorateOne ==
  /\ phase = "decorators"
  /\ \E definition \in pending :
       LET b == BindDecorators([holds |-> holds, made |-> made, decorated |-> decorated], definition)
       IN  /\ holds' = b.holds /\ made' = b.made /\ decorated' = b.decorated
           /\ pending' = pending \ {definition}
  /\ UNCHANGED <<prog, read, noted, phase, round, edges>>

(* bind_arguments: a round, while the last one learned something. *)
BindArguments ==
  /\ phase \in {"decorators", "arguments"} /\ pending = {}
  /\ LET held == Learn(holds, Learned(holds))
     IN  /\ holds' = held
         /\ round' = round + 1
         /\ phase' = IF held = holds \/ round' = MaxRounds THEN "iterations" ELSE "arguments"
  /\ UNCHANGED <<prog, read, noted, pending, made, decorated, edges>>

BindIterations ==
  /\ phase = "iterations"
  /\ holds' = Learn(holds, Iterated(holds))
  /\ phase' = "follow"
  /\ UNCHANGED <<prog, read, noted, pending, made, decorated, round, edges>>

Follow ==
  /\ phase = "follow"
  /\ edges' = AllEdges(holds, made, [d \in DOMAIN decorated |-> OfKey(holds, decorated[d])])
  /\ phase' = "done"
  /\ UNCHANGED <<prog, read, noted, holds, pending, made, decorated, round>>

Next == Note \/ Finish \/ DecorateOne \/ BindArguments \/ BindIterations \/ Follow

Spec == Init /\ [][Next]_vars

-------------------------------------------------------------------------------
(* Properties. *)

(* A call may be redirected to what a decorator made of its target, and    *)
(* to nothing else: no call site of the graph loses its last edge, and     *)
(* none loses an edge to a definition that was not decorated.              *)
NoCallIsLost ==
  \A e \in prog.calls :
    \/ e \in edges
    \/ /\ \E d \in FactSet("decorator") : d.who = e.tgt
       /\ \E f \in edges : f.src = e.src /\ f.site = e.site /\ f.how = "flow"

(* The pass from the facts noted on, decorated definitions in this order.  *)
Outcome(definitions) ==
  LET b[n \in 0..Len(definitions)] ==
        IF n = 0 THEN [holds |-> [id \in DOMAIN prog.nodes |-> Assigned(id)], made |-> <<>>,
                       decorated |-> <<>>]
        ELSE BindDecorators(b[n - 1], definitions[n])
      rounds(held) ==
        LET after[n \in 0..MaxRounds] == IF n = 0 THEN held ELSE Learn(after[n - 1], Learned(after[n - 1]))
        IN  after[MaxRounds]
      looped(held) == Learn(held, Iterated(held))
      written(c, held) ==
        AllEdges(held, c.made, [d \in DOMAIN c.decorated |-> OfKey(held, c.decorated[d])])
      ended(c) == written(c, looped(rounds(c.holds)))
  IN  ended(b[Len(definitions)])

(* "Two runs over unchanged source produce identical bytes"                *)
(* (website/docs/graph-model/serialization.md): the graph is the one that  *)
(* taking decorated definitions in any other order gives.                  *)
SameInEveryRun ==
  phase = "done" =>
    \A order \in SetToSeqs({d.who : d \in {x \in FactSet("decorator") : Kind(x.who) \in Functions_}}) :
      edges = Outcome(order)

-------------------------------------------------------------------------------
(* Theorems.  `follow` runs last and once: until then the calls are those  *)
(* of the graph, and only what a decorator fact names is ever decorated.   *)

DecoratedNames == {d.who : d \in FactSet("decorator")}

FlowInv ==
  /\ phase # "done" => edges = prog.calls
  /\ phase = "noting" => pending = {} /\ DOMAIN decorated = {}
  /\ pending \subseteq DecoratedNames
  /\ DOMAIN decorated \subseteq DecoratedNames

(* A call that `follow` takes out has been given, at its own site, an edge *)
(* to what the decorators made of its target (decorated_calls).            *)
LEMMA ReplacedHasDecorated ==
  ASSUME NEW made_of, NEW e \in prog.calls, Replaced(made_of, e)
  PROVE  \E f \in DecoratedEdges(made_of) : f.src = e.src /\ f.site = e.site /\ f.how = "flow"
<1>1. PICK c \in made_of[e.tgt] : c # e.tgt
  BY DEF Replaced
<1>2. Flow(e.src, c, e.site, "decorated") \in DecoratedEdges(made_of)
  BY <1>1 DEF DecoratedEdges, Replaced
<1> QED
  BY <1>2 DEF Flow

(* The edges after `follow`: every call of the graph that was not replaced,*)
(* and every decorated edge.                                               *)
LEMMA FollowKeeps ==
  ASSUME NEW held, NEW made_by, NEW made_of
  PROVE  /\ \A e \in prog.calls : ~ Replaced(made_of, e) => e \in AllEdges(held, made_by, made_of)
         /\ DecoratedEdges(made_of) \subseteq AllEdges(held, made_by, made_of)
BY DEF AllEdges

(* Taking a definition's decorators decorates that definition at most.     *)
LEMMA BindsOneName ==
  ASSUME NEW b, NEW definition
  PROVE  DOMAIN BindDecorators(b, definition).decorated \subseteq DOMAIN b.decorated \cup {definition}
BY DEF BindDecorators, StandsFor

LEMMA FlowInvInit == Init => FlowInv
BY DEF Init, FlowInv

LEMMA FlowInvNext == FlowInv /\ [Next]_vars => FlowInv'
<1> SUFFICES ASSUME FlowInv, [Next]_vars PROVE FlowInv'
  OBVIOUS
<1>1. CASE Note
  BY <1>1 DEF Note, FlowInv
<1>2. CASE Finish
  BY <1>2 DEF Finish, FlowInv, DecoratedNames, FactSet
<1>3. CASE DecorateOne
  <2>1. PICK definition \in pending :
          /\ decorated' = BindDecorators([holds |-> holds, made |-> made, decorated |-> decorated],
                                         definition).decorated
          /\ pending' = pending \ {definition}
    BY <1>3 DEF DecorateOne
  <2>2. DOMAIN decorated' \subseteq DOMAIN decorated \cup {definition}
    BY <2>1, BindsOneName
  <2>3. DecoratedNames' = DecoratedNames
    BY <1>3 DEF DecorateOne, DecoratedNames, FactSet
  <2> QED
    BY <1>3, <2>1, <2>2, <2>3 DEF DecorateOne, FlowInv
<1>4. CASE BindArguments
  BY <1>4 DEF BindArguments, FlowInv, DecoratedNames, FactSet
<1>5. CASE BindIterations
  BY <1>5 DEF BindIterations, FlowInv, DecoratedNames, FactSet
<1>6. CASE Follow
  BY <1>6 DEF Follow, FlowInv, DecoratedNames, FactSet
<1>7. CASE UNCHANGED vars
  BY <1>7 DEF vars, FlowInv, DecoratedNames, FactSet
<1> QED
  BY <1>1, <1>2, <1>3, <1>4, <1>5, <1>6, <1>7 DEF Next

(* A step keeps every call or redirects it at its own site, and only a     *)
(* call of a decorated definition is redirected.                           *)
LEMMA NoCallIsLostNext == FlowInv /\ NoCallIsLost /\ [Next]_vars => NoCallIsLost'
<1> SUFFICES ASSUME FlowInv, NoCallIsLost, [Next]_vars PROVE NoCallIsLost'
  OBVIOUS
<1>1. CASE Follow
  <2> DEFINE made_of == [d \in DOMAIN decorated |-> OfKey(holds, decorated[d])]
  <2>1. edges' = AllEdges(holds, made, made_of) /\ prog' = prog /\ noted' = noted
    BY <1>1 DEF Follow
  <2>2. DOMAIN made_of \subseteq DecoratedNames
    BY DEF FlowInv
  <2> HIDE DEF made_of
  <2> SUFFICES ASSUME NEW e \in prog.calls, e \notin edges'
               PROVE  /\ \E d \in FactSet("decorator") : d.who = e.tgt
                      /\ \E f \in edges' : f.src = e.src /\ f.site = e.site /\ f.how = "flow"
    BY <2>1 DEF NoCallIsLost, FactSet
  <2>3. Replaced(made_of, e)
    BY <2>1, FollowKeeps
  <2>4. e.tgt \in DecoratedNames
    BY <2>2, <2>3 DEF Replaced
  <2> QED
    BY <2>1, <2>3, <2>4, FollowKeeps, ReplacedHasDecorated DEF DecoratedNames
<1>2. CASE ~ Follow
  <2>1. phase' # "done" \/ UNCHANGED vars
    BY <1>2 DEF Next, Note, Finish, DecorateOne, BindArguments, BindIterations, FlowInv
  <2>2. CASE phase' # "done"
    BY <2>2, FlowInvNext DEF FlowInv, NoCallIsLost
  <2>3. CASE UNCHANGED vars
    BY <2>3 DEF vars, NoCallIsLost, FactSet
  <2> QED
    BY <2>1, <2>2, <2>3
<1> QED
  BY <1>1, <1>2

(* For every graph and whatever is noted of it, no call site loses its     *)
(* last edge to the pass, and none an edge to an undecorated definition.   *)
THEOREM CallsAreNeverLost == Spec => []NoCallIsLost
<1>1. Init => FlowInv /\ NoCallIsLost
  BY FlowInvInit DEF Init, NoCallIsLost
<1>2. FlowInv /\ NoCallIsLost /\ [Next]_vars => FlowInv' /\ NoCallIsLost'
  BY FlowInvNext, NoCallIsLostNext
<1> QED
  BY <1>1, <1>2, PTL DEF Spec
===============================================================================
