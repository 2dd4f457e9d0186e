------------------------------ MODULE PhpResolver ------------------------------
(***************************************************************************)
(* The PHP resolver (src/src/php/resolver.rs): prepare() reads every file  *)
(* for its declarations, links what they name, then walks every file again *)
(* and computes the answer of each use-site.                               *)
(*                                                                         *)
(* An expression is a record whose field k says its kind.                  *)
(***************************************************************************)
EXTENDS PhpSymbols

CONSTANTS
  Files(_),  (* Files(p): the sources of project p                         *)
  Roots(_),  (* Roots(p): the PSR-4 entries of each of its composer.json   *)
  Calls      (* sequences of the projects prepare may be called with       *)

VARIABLES
  project,  (* the project given to the last prepare                       *)
  phase,    (* idle, declaring, using or failed                            *)
  todo,     (* files that the pass under way has still to visit            *)
  sources,  (* the files whose text is held, in order                      *)
  tables, answers, status,
  calls     (* the calls of prepare to come                                *)

vars == <<project, phase, todo, sources, tables, answers, status, calls>>

-------------------------------------------------------------------------------
(* What the second pass carries: the document, its scope, what it answers. *)

Scope(namespace, class, parent) ==
  [namespace |-> namespace, class |-> class, parent |-> parent,
   vars |-> <<>>, strings |-> <<>>, class_strings |-> <<>>]

RelativeClass(scope, which) == IF which = "parent" THEN scope.parent ELSE scope.class

(* scoped_class_ref. *)
ScopedClass(t, w, name) ==
  IF Keyword(name) # Nothing THEN RelativeClass(w.scope, Keyword(name))
  ELSE ClassOf(t, name, w.doc, w.scope.namespace)

(* The class an expression evaluates to, as far as a symbol table can      *)
(* tell: a function's result is out of its reach.                          *)
RECURSIVE Infer(_, _, _)
Infer(t, w, e) ==
  LET owner == Infer(t, w, e.owner)
  IN CASE e.k = "this" -> w.scope.class
       [] e.k = "var" -> Get(w.scope.vars, e.name, Get(w.scope.class_strings, e.name, Nothing))
       [] e.k = "relative" -> RelativeClass(w.scope, e.which)
       [] e.k \in {"name", "new"} -> ScopedClass(t, w, e.name)
       [] e.k = "member" /\ e.slot = "property" ->
            IF IsDeclared(owner) THEN TypeOf(t, owner.class, "property", e.name) ELSE Nothing
       [] e.k = "member" /\ e.slot = "const" ->
            IF IsDeclared(owner) /\ e.name # "class" /\ owner.class \in t.enums THEN owner ELSE Nothing
       [] e.k = "member" /\ e.slot \in {"method", "static"} ->
            IF IsDeclared(owner) THEN ReturnType(t, owner.class, e.name) ELSE Nothing
       [] OTHER -> Nothing

Record(w, at, answer) == [w EXCEPT !.answers = Put(@, at, answer)]

RecordClass(w, t, at, ref) == IF ref = Nothing THEN w ELSE Record(w, at, ClassAnswer(t, ref))

RecordName(t, w, ref, kind) ==
  Record(w, ref.at, NameAnswer(t, ref.name, w.doc, w.scope.namespace, kind))

(* Mutant: any name before :: is read like a value. *)
RecordClassNameAsValue(t, w, ref) == RecordName(t, w, ref, "value")

(* A type, new, instanceof, or the left side of ::. *)
RecordClassName(t, w, ref) ==
  IF Keyword(ref.name) # Nothing THEN RecordClass(w, t, ref.at, RelativeClass(w.scope, Keyword(ref.name)))
  ELSE RecordName(t, w, ref, "class")

RecordType(t, w, refs) == FoldLeft(LAMBDA x, ref : RecordClassName(t, x, ref), w, refs)

RecordMember(t, w, at, ref, slot, member) ==
  IF ref = Nothing THEN w ELSE Record(w, at, MemberAnswer(t, ref, slot, member))

(* What a local that holds a name holds after one more assignment.         *)
(* Mutant: the last one counts.                                            *)
MergedLast(held, name, new) == Put(held, name, new)
Merged(held, name, new) ==
  Put(held, name, IF name \notin DOMAIN held \/ held[name] = new THEN new ELSE Nothing)

Bind(w, name, ref) ==
  IF ref = Nothing THEN w ELSE [w EXCEPT !.scope.vars = Put(@, name, ref)]

(* X::class, as a value. *)
NamesClass(e) == e.k = "member" /\ e.slot = "const" /\ e.name = "class"

(* `=` and `=&`, the only assignments that are looked at: the class of the *)
(* right side, the string or the class name it spells.                     *)
Assign(t, w, name, e) ==
  LET string == IF e.k = "string" THEN e.text ELSE Nothing
      Holding(bound) ==
        [bound EXCEPT !.scope.strings = Merged(@, name, string),
                      !.scope.class_strings =
                        Merged(@, name, IF NamesClass(e) THEN Infer(t, bound, e.owner) ELSE Nothing)]
  IN Holding(Bind(w, name, Infer(t, w, e)))

(* callable_answer: 'f' or [class, 'm'].  (A string 'A::m' is left out.)  *)
CallableAnswer(t, w, e) ==
  LET Answer(ref) == IF ref = Nothing THEN Nothing ELSE MemberAnswer(t, ref, "method", e.text)
  IN CASE e.k = "string" ->
            NameAnswer(t, [form |-> "absolute", path |-> <<e.text>>], w.doc, w.scope.namespace, "function")
       [] e.k = "pair" /\ NamesClass(e.class) -> Answer(Infer(t, w, e.class.owner))
       [] e.k = "pair" /\ ~ NamesClass(e.class) ->
            Answer(IF e.class.k = "member" /\ e.class.slot = "const" THEN Nothing ELSE Infer(t, w, e.class))

BindParameter(t, w, p) ==
  LET cleared == [w EXCEPT !.scope.strings = Put(@, p.name, Nothing),
                           !.scope.class_strings = Put(@, p.name, Nothing)]
      typed == RecordType(t, cleared, p.type)
  IN IF Len(p.type) # 1 THEN typed ELSE Bind(typed, p.name, ScopedClass(t, typed, p.type[1].name))

-------------------------------------------------------------------------------
(* The second pass: use-sites. *)

RECURSIVE Walk(_, _, _)
WalkAll(t, w, es) == FoldLeft(LAMBDA x, e : Walk(t, x, e), w, es)

(* walk_callable.  A method sees $this and its class, and so does a        *)
(* closure, with the locals around it; a named function does not.          *)
WalkCallable(t, w, e, inherits) ==
  LET inner == [w EXCEPT !.scope = IF inherits THEN @ ELSE Scope(@.namespace, Nothing, Nothing)]
      bound == FoldLeft(LAMBDA x, p : BindParameter(t, x, p), inner, e.params)
  IN [WalkAll(t, RecordType(t, bound, e.returns), e.body) EXCEPT !.scope = w.scope]

(* walk_member: ->.  The class of the receiver, when it is known. *)
WalkMember(t, w, e) ==
  LET known == RecordMember(t, w, e.at, Infer(t, w, e.owner), e.slot, e.name)
  IN WalkAll(t, Walk(t, known, e.owner), e.args)

(* $this->$m(): the method the variable is known to name. *)
WalkDynamic(t, w, e) ==
  LET method == Get(w.scope.strings, e.name, Nothing)
      known == IF method = Nothing THEN w
               ELSE RecordMember(t, w, e.at, Infer(t, w, e.owner), "method", method)
  IN WalkAll(t, Walk(t, known, e.owner), e.args)

(* walk_scoped and walk_class_constant: ::.  X::class names no member. *)
WalkScoped(t, w, e) ==
  LET known == IF e.slot = "const" /\ e.name = "class" THEN w
               ELSE RecordMember(t, w, e.at, Infer(t, w, e.owner), e.slot, e.name)
      qualified == IF e.owner.k = "name" THEN RecordClassName(t, known, e.owner)
                   ELSE Walk(t, known, e.owner)
  IN WalkAll(t, qualified, e.args)

(* new $class(): its constructor, or the class. *)
WalkNewOfVariable(t, w, e) ==
  LET ref == Get(w.scope.class_strings, e.name, Nothing)
      answer == MemberAnswer(t, ref, "method", "__construct")
  IN IF ~ IsDeclared(ref) THEN w
     ELSE Record(w, e.at, IF answer.kind = "internal" THEN answer ELSE ClassAnswer(t, ref))

(* A call.  A callable handed to a built-in that calls it is answered even *)
(* when nothing declares it.                                               *)
RecordCallable(w, at, answer) == IF answer = Nothing THEN w ELSE Record(w, at, answer)
WalkCall(t, w, e) ==
  LET callables == IF e.calls_back THEN SelectSeq(e.args, LAMBDA a : a.k \in {"string", "pair"}) ELSE <<>>
  IN FoldLeft(LAMBDA x, a : RecordCallable(x, a.at, CallableAnswer(t, x, a)),
              WalkAll(t, RecordName(t, w, e, "function"), e.args), callables)

(* A callable written out is answered when the project declares it. *)
WalkLiteral(t, w, e) ==
  LET Literal(answer) == RecordCallable(w, e.at, IF answer # Nothing /\ answer.kind = "internal"
                                                 THEN answer ELSE Nothing)
  IN Literal(CallableAnswer(t, w, e))

WalkCatch(t, w, e) ==
  LET typed == RecordType(t, w, e.type)
      bound == IF Len(e.type) # 1 THEN typed
               ELSE Bind(typed, e.name, ScopedClass(t, typed, e.type[1].name))
  IN WalkAll(t, bound, e.body)

(* walk_uses.  A "reassign" is any assignment but `=` and `=&`: `.=`,      *)
(* foreach, list(); what is known of the variable stays as it is.  A pair  *)
(* [class, 'm'] is answered at its string, which is then walked as well.   *)
Walk(t, w, e) ==
  CASE e.k \in {"this", "var"} -> w
    [] e.k = "relative" -> RecordClass(w, t, e.at, RelativeClass(w.scope, e.which))
    [] e.k = "name" -> RecordName(t, w, e, "value")
    [] e.k = "new" -> WalkAll(t, RecordClassName(t, w, e), e.args)
    [] e.k = "new_var" -> WalkNewOfVariable(t, w, e)
    [] e.k = "call" -> WalkCall(t, w, e)
    [] e.k = "invoke" -> WalkAll(t, RecordMember(t, w, e.at, Infer(t, w, [k |-> "var", name |-> e.name]),
                                                "method", "__invoke"), e.args)
    [] e.k = "member" /\ ~ e.scoped -> WalkMember(t, w, e)
    [] e.k = "member" /\ e.scoped -> WalkScoped(t, w, e)
    [] e.k = "dynamic" -> WalkDynamic(t, w, e)
    [] e.k = "instanceof" -> Walk(t, RecordClassName(t, w, e), e.left)
    [] e.k = "closure" -> WalkCallable(t, w, e, TRUE)
    [] e.k = "assign" -> Walk(t, Assign(t, w, e.name, e.value), e.value)
    [] e.k = "reassign" -> Walk(t, w, e.value)
    [] e.k = "string" -> WalkLiteral(t, w, e)
    [] e.k = "pair" -> WalkAll(t, WalkLiteral(t, w, e),
                               <<e.class, [k |-> "string", at |-> e.at, text |-> e.text]>>)
    [] e.k = "catch" -> WalkCatch(t, w, e)

(* walk_bases: records what is extended and implemented. *)
WalkBases(t, w, s) ==
  FoldLeft(LAMBDA x, ref : RecordName(t, x, ref, "class"), w, s.extends \o s.implements)

WalkInClass(t, w, m) ==
  CASE m.k = "method" -> WalkCallable(t, w, m, TRUE)
    [] m.k = "property" -> RecordType(t, w, m.type)
    [] m.k = "use_traits" -> FoldLeft(LAMBDA x, ref : RecordName(t, x, ref, "class"), w, m.refs)
    [] m.k = "const" -> w

(* walk_class.  `parent` is the first class it extends. *)
WalkClass(t, w, s) ==
  LET fqn == Qualify(w.scope.namespace, <<s.name>>)
      class == IF fqn \in DOMAIN t.classes THEN Declared(fqn) ELSE Foreign(fqn)
      parent == IF s.extends = <<>> THEN Nothing
                ELSE ClassOf(t, s.extends[1].name, w.doc, w.scope.namespace)
      inner == [WalkBases(t, w, s) EXCEPT !.scope = Scope(w.scope.namespace, class, parent)]
  IN [FoldLeft(LAMBDA x, m : WalkInClass(t, x, m), inner, s.members) EXCEPT !.scope = w.scope]

WalkStatement(t, w, s) ==
  CASE s.k = "namespace" -> [w EXCEPT !.scope.namespace = s.name]
    [] s.k = "use" -> Record(w, s.at, UseAnswer(t, w.doc, s))
    [] s.k = "class" -> WalkClass(t, w, s)
    [] s.k = "function" -> WalkCallable(t, w, s, FALSE)
    [] s.k = "const" -> w
    [] OTHER -> Walk(t, w, s)

AnswersIn(t, file) ==
  FoldLeft(LAMBDA w, s : WalkStatement(t, w, s),
           [doc |-> file.doc, scope |-> Scope(<<>>, Nothing, Nothing), answers |-> <<>>],
           file.body).answers

-------------------------------------------------------------------------------
(* The resolver. *)

Init ==
  /\ project = Nothing /\ phase = "idle"
  /\ todo = <<>> /\ sources = <<>>
  /\ tables = EmptyTables(<<>>) /\ answers = <<>>
  /\ status = "unavailable"
  /\ calls \in Calls

(* Mutant: members of the project before stay in the table. *)
FreshTablesKeeping(p) == [EmptyTables(Roots(p)) EXCEPT !.members = tables.members]
FreshTables(p) == EmptyTables(Roots(p))

(* prepare: everything is forgotten.  The files come in whatever order the *)
(* walk collected them.                                                    *)
Prepare ==
  /\ phase \in {"idle", "failed"} /\ calls # <<>>
  /\ calls' = Tail(calls)
  /\ project' = Head(calls)
  /\ phase' = "declaring"
  /\ \E order \in Permutations(DOMAIN Files(project')) :
       todo' = [i \in DOMAIN order |-> Files(project')[order[i]]]
  /\ sources' = <<>>
  /\ tables' = FreshTables(project')
  /\ answers' = <<>>
  /\ status' = "unavailable"

(* A file that cannot be read, or holds no PHP, is passed over. *)
SkipFile ==
  /\ phase = "declaring" /\ todo # <<>>
  /\ todo' = Tail(todo)
  /\ UNCHANGED <<project, phase, sources, tables, answers, status, calls>>

(* Mutant: what the file names is linked at once. *)
DeclareAndLink(t, file) == Link(DeclareFile(t, file))
Declare(t, file) == DeclareFile(t, file)

ReadFile ==
  /\ phase = "declaring" /\ todo # <<>>
  /\ tables' = Declare(tables, Head(todo))
  /\ sources' = Append(sources, Head(todo))
  /\ todo' = Tail(todo)
  /\ UNCHANGED <<project, phase, answers, status, calls>>

LinkFiles ==
  /\ phase = "declaring" /\ todo = <<>>
  /\ tables' = Link(tables)
  /\ todo' = sources
  /\ phase' = "using"
  /\ UNCHANGED <<project, sources, answers, status, calls>>

(* The text held from the first pass is walked, not the file. *)
WalkFile ==
  /\ phase = "using" /\ todo # <<>>
  /\ answers' = Put(answers, Head(todo).doc, AnswersIn(tables, Head(todo)))
  /\ todo' = Tail(todo)
  /\ UNCHANGED <<project, phase, sources, tables, status, calls>>

(* A symbol table is never `ok`. *)
Finish ==
  /\ phase = "using" /\ todo = <<>>
  /\ status' = IF tables.docs = {} THEN "unavailable" ELSE "degraded"
  /\ phase' = "idle"
  /\ UNCHANGED <<project, todo, sources, tables, answers, calls>>

(* parse_tree fails, in either pass: prepare returns the error. *)
ParseFails ==
  /\ phase \in {"declaring", "using"} /\ todo # <<>>
  /\ phase' = "failed" /\ todo' = <<>>
  /\ UNCHANGED <<project, sources, tables, answers, status, calls>>

Next ==
  \/ Prepare
  \/ SkipFile \/ ReadFile \/ LinkFiles \/ WalkFile \/ Finish \/ ParseFails

Spec == Init /\ [][Next]_vars

(* resolve_one. *)
Resolve(doc, at) == Get(Get(answers, doc, <<>>), at, Nothing)

-------------------------------------------------------------------------------
(* Properties. *)

Ready == phase = "idle" /\ sources # <<>>

(* The statements of the text held: <<file, index>>. *)
Places == UNION {{<<f, i>> : i \in DOMAIN sources[f].body} : f \in DOMAIN sources}
At(place) == sources[place[1]].body[place[2]]
DocAt(place) == sources[place[1]].doc
NamespaceAt(place) ==
  LET above == SelectSeq(SubSeq(sources[place[1]].body, 1, place[2]), LAMBDA s : s.k = "namespace")
  IN IF above = <<>> THEN <<>> ELSE Last(above).name
FqnAt(place) == Qualify(NamespaceAt(place), <<At(place).name>>)

ClassPlaces == {p \in Places : At(p).k = "class"}
FunctionPlaces == {p \in Places : At(p).k = "function"}
DeclaredOnce ==
  \A places \in {ClassPlaces, FunctionPlaces, {p \in Places : At(p).k = "const"}} :
    \A p, q \in places : FqnAt(p) = FqnAt(q) => p = q

(* "The whole symbol table has to exist before the first occurrence is     *)
(* looked at" (prepare_rust): the answers do not depend on the order in    *)
(* which the files were collected, unless a name is declared twice.        *)
OrderIsIrrelevant ==
  Ready /\ DeclaredOnce =>
    LET listed == SelectSeq(Files(project), LAMBDA f : f.doc \in DOMAIN answers)
        t == Link(FoldLeft(Declare, FreshTables(project), listed))
    IN \A i \in DOMAIN listed : answers[listed[i].doc] = AnswersIn(t, listed[i])

(* The parents a class names in the text, by kind. *)
Refs(s, role) ==
  CASE role = "trait" ->
         FlattenSeq([i \in DOMAIN s.members |->
                      IF s.members[i].k = "use_traits" THEN s.members[i].refs ELSE <<>>])
    [] role = "base" -> IF s.sort = "interface" THEN <<>> ELSE s.extends
    [] role = "interface" -> IF s.sort = "interface" THEN s.extends ELSE s.implements

PlaceOf(class) == CHOOSE p \in ClassPlaces : FqnAt(p) = class

Named(class, role) ==
  LET p == PlaceOf(class)
      refs == Refs(At(p), role)
  IN [i \in DOMAIN refs |-> ClassOf(tables, refs[i].name, DocAt(p), NamespaceAt(p))]

Above(class, roles) ==
  UNION {{ref.class : ref \in {r \in ToSet(Named(class, role)) : r.declared}} : role \in roles}

RECURSIVE Reached(_, _)
Reached(classes, roles) ==
  LET more == classes \cup UNION {Above(c, roles) : c \in classes}
  IN IF more = classes THEN classes ELSE Reached(more, roles)

Lineage == {"trait", "base"}
Roles == Lineage \cup {"interface"}
WithMethod(m) ==
  {FqnAt(p) : p \in {q \in ClassPlaces : \E i \in DOMAIN At(q).members :
                                           At(q).members[i].k = "method" /\ At(q).members[i].name = m}}
MethodNames == {key[3] : key \in {k \in DOMAIN tables.members : k[1] = "method"}}
ClassNames == {FqnAt(p) : p \in ClassPlaces}

(* The nearest class with the member where no class is above itself: the   *)
(* class, then its traits, then its base class, each with what is above it.*)
RECURSIVE Nearest(_, _)
Nearest(class, hits) ==
  LET above == SelectSeq(Named(class, "trait") \o Named(class, "base"), LAMBDA r : r.declared)
      found == SelectSeq(above, LAMBDA r : Nearest(r.class, hits) # Nothing)
  IN CASE class \in hits -> class
       [] class \notin hits /\ found # <<>> -> Nearest(Head(found).class, hits)
       [] OTHER -> Nothing

(* "A member is looked up in PHP's order ... An interface's declaration is *)
(* the target only when none of those declares the method" (php.md).  The  *)
(* walk misses no declaration above the class, prefers what implements it  *)
(* and ends on cycles.                                                     *)
FindsTheNearest ==
  Ready /\ DeclaredOnce =>
    \A class \in ClassNames, m \in MethodNames :
      LET found == InHierarchy(tables, class, OwnersIn(tables.members, "method", m))
          hits == WithMethod(m)
          lineage == Reached({class}, Lineage)
          acyclic == \A c \in lineage : c \notin Reached(Above(c, Lineage), Lineage)
      IN /\ (found = Nothing) <=> (Reached({class}, Roles) \cap hits = {})
         /\ lineage \cap hits # {} => found \in lineage
         /\ lineage \cap hits # {} /\ acyclic => found = Nearest(class, hits)

(* "A method no class of the hierarchy declares is a call of the one that  *)
(* does [declare __call], unless a base class or trait outside the project *)
(* may declare it" (php.md): exactly then is __call the answer.            *)
MagicIsLastResort ==
  Ready /\ DeclaredOnce =>
    \A class \in ClassNames, m \in MethodNames \ {"__call", "__callstatic"} :
      LET all == Reached({class}, Roles)
          outside == \E c \in all : \E role \in Lineage :
                       \E r \in ToSet(Named(c, role)) : ~ r.declared
          answer == MemberAnswer(tables, Declared(class), "method", m)
          magic == FindMember(tables, class, "method", "__call")
      IN magic # Nothing =>
           (answer = Internal(magic) <=> all \cap WithMethod(m) = {} /\ ~ outside)

(* What PHP itself reaches by a name in class or function position. *)
PhpName(place, name, kind) ==
  LET file == sources[place[1]]
      table == IF kind = "function" /\ Len(name.path) = 1 THEN "function" ELSE "class"
      imports == SelectSeq(file.body, LAMBDA s : s.k = "use" /\ s.kind = table /\ s.alias = Head(name.path))
      here == Qualify(NamespaceAt(place), name.path)
  IN CASE name.form = "absolute" -> name.path
       [] name.form = "relative" -> here
       [] name.form = "plain" /\ imports # <<>> -> Last(imports).target \o Tail(name.path)
       [] name.form = "plain" /\ imports = <<>> /\ kind = "function"
            /\ here \notin DOMAIN tables.functions -> name.path
       [] OTHER -> here

(* What PHP would reach by a name is what it is bound to, and `Str::` does *)
(* not reach `str()`: a class position binds to classes only, a call to    *)
(* functions only.                                                         *)
BindsAsPhpDoes ==
  Ready =>
    \A p \in Places :
      LET s == At(p)
          ref == IF s.k = "member" THEN s.owner ELSE s
          kind == IF s.k = "call" THEN "function" ELSE "class"
          declared == IF kind = "function" THEN tables.functions ELSE tables.classes
          answer == Resolve(DocAt(p), ref.at)
      IN (s.k \in {"new", "call", "instanceof"} \/ (s.k = "member" /\ s.scoped /\ ref.k = "name")) =>
           /\ answer # Nothing
           /\ PhpName(p, ref.name, kind) \in DOMAIN declared =>
                answer = Internal(declared[PhpName(p, ref.name, kind)])
           /\ answer.kind = "internal" => \E n \in DOMAIN declared : declared[n] = answer.is

DeclarationSites == UNION {SitesOf(sources[f]) : f \in DOMAIN sources}

(* A resolver prepared again, or whose preparation failed, answers with    *)
(* declarations of the files read last and with nothing older.             *)
AnswersOfThisProject ==
  \A doc \in DOMAIN answers :
    /\ \E f \in DOMAIN sources : sources[f].doc = doc
    /\ \A at \in DOMAIN answers[doc] :
         answers[doc][at].kind = "internal" => answers[doc][at].is \in DeclarationSites

-------------------------------------------------------------------------------
Assigned(past, x) == SelectSeq(past, LAMBDA s : s.k = "assign" /\ s.name = x)

(* The name a value spells: 'm' or X::class. *)
Spelled(e) ==
  CASE e.k = "string" -> <<e.text>>
    [] e.k = "member" /\ e.slot = "const" /\ e.name = "class" -> e.owner.name.path
    [] OTHER -> Nothing

RECURSIVE CertainIn(_, _, _, _)
CertainIn(doc, past, params, body) ==
  \A i \in DOMAIN body :
    LET e == body[i]
        before == past \o SubSeq(body, 1, i - 1)
        values == Assigned(before, e.name)
        answer == Resolve(doc, e.at)
    IN /\ e.k \in {"dynamic", "new_var"} /\ answer # Nothing =>
            /\ e.name \notin params /\ values # <<>>
            /\ \A j \in DOMAIN values : /\ Spelled(values[j].value) # Nothing
                                       /\ Spelled(values[j].value) = Spelled(values[1].value)
       /\ e.k = "closure" =>
            CertainIn(doc, before, params \cup {e.params[j].name : j \in DOMAIN e.params}, e.body)

ParametersOf(e) == {e.params[i].name : i \in DOMAIN e.params}

(* $this->$m() and new $c() are answered only where every `=` before       *)
(* spells one name, in a closure also those around it, and never for a     *)
(* parameter.  "A name held in a local, for as long as nothing else is     *)
(* assigned to it" (walk_uses) says more than that, and more than the code *)
(* does: of `.=`, foreach and list() it takes no notice, so none is taken  *)
(* here.                                                                   *)
HeldNamesAreCertain ==
  Ready =>
    /\ \A f \in DOMAIN sources : CertainIn(sources[f].doc, <<>>, {}, sources[f].body)
    /\ \A p \in FunctionPlaces : CertainIn(DocAt(p), <<>>, ParametersOf(At(p)), At(p).body)
    /\ \A p \in ClassPlaces : \A i \in DOMAIN At(p).members :
         LET m == At(p).members[i]
         IN m.k = "method" => CertainIn(DocAt(p), <<>>, ParametersOf(m), m.body)

(* "What is out of reach, and answers nothing rather than guessing: ... a  *)
(* variable whose type comes from a function's return value" (resolver.rs):*)
(* $x->m() where the last thing assigned to $x is such a value.            *)
GuessesNothing ==
  Ready =>
    \A p \in Places :
      LET s == At(p)
          values == Assigned(SubSeq(sources[p[1]].body, 1, p[2] - 1), s.owner.name)
      IN s.k = "member" /\ ~ s.scoped /\ s.owner.k = "var" /\ values # <<>>
           /\ Last(values).value.k = "call" => Resolve(DocAt(p), s.at) = Nothing
================================================================================
