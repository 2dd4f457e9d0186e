------------------------------ MODULE PhpSymbols ------------------------------
(***************************************************************************)
(* The symbol table of the PHP resolver (src/src/php/resolver.rs): what a  *)
(* file declares, the links made once every file has been read, and the    *)
(* lookups of names and members.                                           *)
(*                                                                         *)
(* A file is [doc, body]: its path under the root, without the extension,  *)
(* and its statements.  A fully-qualified name is a sequence of segments.  *)
(* A name as written is [form, path], the form plain, absolute (`\A\B`) or *)
(* relative (`namespace\B`).  A site is the document and the place of a    *)
(* name token in it.  Names are taken in the spelling the tables hold.     *)
(***************************************************************************)
EXTENDS Naturals, SequencesExt, FiniteSetsExt, TLC

CONSTANTS
  Nothing,  (* None                                                        *)
  Builtins  (* stdlib_names: the classes PHP has                           *)

(* None is none of the keywords that relative_keyword may answer.          *)
ASSUME NothingAssumption == Nothing \notin {"enclosing", "parent"}

Site(doc, at) == [doc |-> doc, at |-> at]

(* ClassRef. *)
Declared(class) == [declared |-> TRUE, class |-> class]
Foreign(fqn) == [declared |-> FALSE, class |-> fqn]
IsDeclared(ref) == ref # Nothing /\ ref.declared

(* Answer; the origin of an external name is left out. *)
Internal(site) == [kind |-> "internal", is |-> site]
External(fqn) == [kind |-> "external", is |-> fqn]

Qualify(namespace, path) == namespace \o path

(* relative_keyword: a written name that is self, static or parent. *)
Keyword(name) ==
  CASE name.form = "plain" /\ name.path \in {<<"self">>, <<"static">>} -> "enclosing"
    [] name.form = "plain" /\ name.path = <<"parent">> -> "parent"
    [] OTHER -> Nothing

-------------------------------------------------------------------------------
(* PSR-4: of each prefix the first directory is kept. *)
Psr4(roots) ==
  LET entries == FlattenSeq(roots)
  IN {entries[i] : i \in {i \in DOMAIN entries :
                            \A j \in 1..(i - 1) : entries[j].prefix # entries[i].prefix}}

EmptyTables(roots) ==
  [docs |-> {}, uses |-> <<>>, classes |-> <<>>, functions |-> <<>>, constants |-> <<>>,
   members |-> <<>>, parents |-> <<>>, foreign_parents |-> {}, types |-> <<>>,
   self_returning |-> {}, enums |-> {}, short_names |-> <<>>, pending |-> <<>>,
   psr4 |-> Psr4(roots)]

Get(f, key, default) == IF key \in DOMAIN f THEN f[key] ELSE default

(* HashMap::entry(key).or_insert(value): the first one stays. *)
OrInsert(f, key, value) == [k \in DOMAIN f \cup {key} |-> IF k \in DOMAIN f THEN f[k] ELSE value]
Put(f, key, value) == [k \in DOMAIN f \cup {key} |-> IF k = key THEN value ELSE f[k]]

-------------------------------------------------------------------------------
(* The first pass: declarations. *)

Pending(class, role, what, name, doc, namespace) ==
  [class |-> class, role |-> role, what |-> what, name |-> name, doc |-> doc,
   namespace |-> namespace]

PushPending(t, p) == [t EXCEPT !.pending = Append(@, p)]

PushAll(t, class, role, refs, doc, namespace) ==
  [t EXCEPT !.pending =
     @ \o [i \in DOMAIN refs |-> Pending(class, role, Nothing, refs[i].name, doc, namespace)]]

(* One class name types a property or a return; a union names no receiver. *)
PushType(t, class, role, what, refs, doc, namespace) ==
  IF Len(refs) # 1 THEN t
  ELSE PushPending(t, Pending(class, role, what, refs[1].name, doc, namespace))

DeclareProperty(t, class, doc, namespace, at, name, refs) ==
  PushType([t EXCEPT !.members = OrInsert(@, <<"property", class, name>>, Site(doc, at))],
           class, "property", name, refs, doc, namespace)

(* A promoted constructor parameter is a property as well. *)
DeclareMethod(t, class, doc, namespace, s) ==
  LET declared == [t EXCEPT !.members = OrInsert(@, <<"method", class, s.name>>, Site(doc, s.at))]
      typed == IF Len(s.returns) = 1 /\ Keyword(s.returns[1].name) = "enclosing"
               THEN [declared EXCEPT !.self_returning = @ \cup {<<class, s.name>>}]
               ELSE PushType(declared, class, "method", s.name, s.returns, doc, namespace)
  IN FoldLeft(LAMBDA u, p : IF ~ p.promoted THEN u
                ELSE DeclareProperty(u, class, doc, namespace, p.at, p.name, p.type),
              typed, s.params)

DeclareMember(t, class, doc, namespace, s) ==
  CASE s.k = "method" -> DeclareMethod(t, class, doc, namespace, s)
    [] s.k = "property" -> DeclareProperty(t, class, doc, namespace, s.at, s.name, s.type)
    [] s.k = "const" -> [t EXCEPT !.members = OrInsert(@, <<"const", class, s.name>>, Site(doc, s.at))]
    [] s.k = "use_traits" -> PushAll(t, class, "trait", s.refs, doc, namespace)

(* declare_class, with declare_bases: what an interface extends are        *)
(* interfaces.                                                             *)
DeclareClass(t, doc, namespace, s) ==
  LET class == Qualify(namespace, <<s.name>>)
      named == [t EXCEPT !.classes = OrInsert(@, class, Site(doc, s.at)),
                         !.short_names = OrInsert(@, <<doc, s.name>>, class),
                         !.enums = IF s.sort = "enum" THEN @ \cup {class} ELSE @]
      extended == PushAll(named, class, IF s.sort = "interface" THEN "interface" ELSE "base",
                          s.extends, doc, namespace)
      linked == PushAll(extended, class, "interface", s.implements, doc, namespace)
  IN FoldLeft(LAMBDA u, m : DeclareMember(u, class, doc, namespace, m), linked, s.members)

(* walk_decls: d is the table and the namespace in force. *)
DeclareStatement(d, doc, s) ==
  CASE s.k = "namespace" -> [d EXCEPT !.namespace = s.name]
    [] s.k = "use" -> [d EXCEPT !.t.uses = Put(@, <<doc, s.kind, s.alias>>, s.target)]
    [] s.k = "class" -> [d EXCEPT !.t = DeclareClass(@, doc, d.namespace, s)]
    [] s.k = "function" ->
         [d EXCEPT !.t.functions = OrInsert(@, Qualify(d.namespace, <<s.name>>), Site(doc, s.at))]
    [] s.k = "const" ->
         [d EXCEPT !.t.constants = OrInsert(@, Qualify(d.namespace, <<s.name>>), Site(doc, s.at))]
    [] OTHER -> d

DeclareFile(t, file) ==
  FoldLeft(LAMBDA d, s : DeclareStatement(d, file.doc, s),
           [t |-> [t EXCEPT !.docs = @ \cup {file.doc}], namespace |-> <<>>], file.body).t

(* What a file declares, by place: what answers may point at. *)
SitesOfMember(doc, m) ==
  CASE m.k \in {"property", "const"} -> {Site(doc, m.at)}
    [] m.k = "method" -> {Site(doc, m.at)} \cup
         {Site(doc, m.params[i].at) : i \in {j \in DOMAIN m.params : m.params[j].promoted}}
    [] OTHER -> {}

SitesOfStatement(doc, s) ==
  (IF s.k \in {"class", "function", "const"} THEN {Site(doc, s.at)} ELSE {})
    \cup (IF s.k = "class" THEN UNION {SitesOfMember(doc, s.members[i]) : i \in DOMAIN s.members} ELSE {})

SitesOf(file) == UNION {SitesOfStatement(file.doc, file.body[i]) : i \in DOMAIN file.body}

-------------------------------------------------------------------------------
(* Names. *)

(* What a written name may mean, most specific first.  Only the first      *)
(* segment can be an alias, and the head of a qualified name is always one *)
(* of a class or a namespace.                                              *)
Candidates(t, name, doc, namespace, kind) ==
  LET table == IF Len(name.path) = 1 /\ kind # "class"
               THEN IF kind = "function" THEN "function" ELSE "const"
               ELSE "class"
      alias == Get(t.uses, <<doc, table, Head(name.path)>>, Nothing)
      bound(path) == [names |-> <<path>>, bound |-> TRUE]
  IN CASE name.form = "absolute" -> bound(name.path)
       [] name.form = "relative" -> bound(Qualify(namespace, name.path))
       [] name.form = "plain" /\ alias # Nothing -> bound(alias \o Tail(name.path))
       [] OTHER -> [names |-> (IF namespace = <<>> THEN <<>> ELSE <<Qualify(namespace, name.path)>>)
                                \o <<name.path>>,
                    bound |-> FALSE]

(* What to call a name that nothing declares: PHP has no global fallback   *)
(* for classes.                                                            *)
Reportable(candidates, kind) ==
  IF candidates.bound \/ kind = "class" THEN Head(candidates.names) ELSE Last(candidates.names)

(* The class declared by the file PSR-4 maps the name to: the longest      *)
(* prefix whose file is there and declares it.                             *)
FileKey(fqn, e) == <<e.dir \o SubSeq(fqn, Len(e.prefix) + 1, Len(fqn)), Last(fqn)>>
Longest(entries) == CHOOSE e \in entries : \A f \in entries : Len(f.prefix) <= Len(e.prefix)
Psr4Hits(t, fqn) ==
  {e \in t.psr4 : IsStrictPrefix(e.prefix, fqn) /\ FileKey(fqn, e) \in DOMAIN t.short_names}
Psr4Lookup(t, fqn) ==
  IF Psr4Hits(t, fqn) = {} THEN Nothing ELSE t.short_names[FileKey(fqn, Longest(Psr4Hits(t, fqn)))]

FirstSome(s) ==
  IF \A i \in DOMAIN s : s[i] = Nothing THEN Nothing
  ELSE s[CHOOSE i \in DOMAIN s : s[i] # Nothing /\ \A j \in 1..(i - 1) : s[j] = Nothing]
KeyIn(table, key) == IF key \in DOMAIN table THEN key ELSE Nothing

(* Of the candidates the first one declared, else the first one PSR-4      *)
(* finds, else a built-in whatever the namespace, else what to report.     *)
ClassAmong(t, name, candidates) ==
  LET classes == [i \in DOMAIN candidates.names |-> KeyIn(t.classes, candidates.names[i])]
      loaded == [i \in DOMAIN candidates.names |-> Psr4Lookup(t, candidates.names[i])]
      builtin == name.form # "relative" /\ name.path \in Builtins
      RefTo(class) == IF class # Nothing THEN Declared(class)
                      ELSE Foreign(IF builtin THEN name.path ELSE Reportable(candidates, "class"))
  IN RefTo(FirstSome(classes \o loaded))

ClassOf(t, name, doc, namespace) ==
  ClassAmong(t, name, Candidates(t, name, doc, namespace, "class"))

(* declare_class made an entry for every key there is. *)
ClassAnswer(t, ref) ==
  IF ref.declared THEN Internal(t.classes[ref.class]) ELSE External(ref.class)

(* name_answer.  A call names only a function, a type only a class, a bare *)
(* read anything.                                                          *)
TablesOf(t, kind) ==
  CASE kind = "class" -> <<t.classes>>
    [] kind = "function" -> <<t.functions>>
    [] OTHER -> <<t.classes, t.constants, t.functions>>

SiteOf(t, name, kind) ==
  FirstSome([i \in DOMAIN TablesOf(t, kind) |-> Get(TablesOf(t, kind)[i], name, Nothing)])

AnswerAmong(t, candidates, class, kind) ==
  LET Answer(site) ==
        CASE site # Nothing -> Internal(site)
          [] site = Nothing /\ kind # "function" /\ class.declared -> ClassAnswer(t, class)
          [] OTHER -> External(Reportable(candidates, kind))
  IN Answer(FirstSome([i \in DOMAIN candidates.names |-> SiteOf(t, candidates.names[i], kind)]))

NameAnswer(t, name, doc, namespace, kind) ==
  AnswerAmong(t, Candidates(t, name, doc, namespace, kind), ClassOf(t, name, doc, namespace), kind)

(* use_answer: the path of an import is always fully qualified. *)
UseAnswer(t, doc, s) ==
  CASE s.kind = "function" ->
         IF s.target \in DOMAIN t.functions THEN Internal(t.functions[s.target]) ELSE External(s.target)
    [] s.kind = "const" ->
         IF s.target \in DOMAIN t.constants THEN Internal(t.constants[s.target]) ELSE External(s.target)
    [] s.kind = "class" ->
         LET Answer(ref) == IF ref.declared THEN ClassAnswer(t, ref) ELSE External(s.target)
         IN Answer(ClassOf(t, [form |-> "absolute", path |-> s.target], doc, <<>>))

-------------------------------------------------------------------------------
(* Mutant: only a base class outside the project may hold members. *)
MakesForeignBase == {"base"}

(* The kinds of parent that make a class foreign when they are outside the *)
(* project; an interface contributes no members.                           *)
MakesForeign == {"base", "trait"}

(* link: the names held over until every file has been read. *)
LinkOne(t, p) ==
  LET typing == p.role \in {"property", "method"}
      keyword == IF typing THEN Keyword(p.name) ELSE Nothing
      ref == IF keyword = "enclosing" THEN Declared(p.class)
             ELSE ClassOf(t, p.name, p.doc, p.namespace)
  IN CASE keyword = "parent" -> t
       [] keyword # "parent" /\ typing -> [t EXCEPT !.types = Put(@, <<p.role, p.class, p.what>>, ref)]
       [] ~ typing /\ ref.declared ->
            [t EXCEPT !.parents = Put(@, <<p.role, p.class>>,
                                      Append(Get(@, <<p.role, p.class>>, <<>>), ref.class))]
       [] ~ typing /\ ~ ref.declared /\ p.role \in MakesForeign ->
            [t EXCEPT !.foreign_parents = @ \cup {p.class}]
       [] OTHER -> t

Link(t) == FoldLeft(LinkOne, [t EXCEPT !.pending = <<>>], t.pending)

-------------------------------------------------------------------------------
(* Members. *)

ParentsOf(t, class, roles) ==
  FlattenSeq([i \in DOMAIN roles |-> Get(t.parents, <<roles[i], class>>, <<>>)])

(* One turn of a walk w: `stack` is what is still to be looked at, first   *)
(* ones first, `seen` what was, `met` the interfaces passed and `found`    *)
(* the class it ended on.  roles names the parents that are followed.      *)
Turn(t, hits, roles, w) ==
  LET class == Head(w.stack)
      rest == [w EXCEPT !.stack = Tail(@)]
  IN CASE w.stack = <<>> \/ w.found # Nothing -> w
       [] w.stack # <<>> /\ w.found = Nothing /\ class \in w.seen -> rest
       [] w.stack # <<>> /\ w.found = Nothing /\ class \in hits \ w.seen ->
            [rest EXCEPT !.found = class]
       [] OTHER -> [stack |-> ParentsOf(t, class, roles) \o Tail(w.stack),
                    seen |-> w.seen \cup {class},
                    met |-> w.met \o ParentsOf(t, class, <<"interface">>), found |-> Nothing]

(* Turns after which a walk has ended: a class is opened once, and only    *)
(* one with parents adds to the stack.                                     *)
Linked(t) == {key[2] : key \in DOMAIN t.parents}
Widest(t, roles) == Max({0} \cup {Len(ParentsOf(t, c, roles)) : c \in Linked(t)})
Turns(t, roles, stack) == Len(stack) + Widest(t, roles) * Cardinality(Linked(t))

Visit(t, hits, roles, stack, seen) ==
  LET after[n \in 0..Turns(t, roles, stack)] ==
        IF n = 0 THEN [stack |-> stack, seen |-> seen, met |-> <<>>, found |-> Nothing]
        ELSE Turn(t, hits, roles, after[n - 1])
  IN after[Turns(t, roles, stack)]

(* Mutant: one pass, interfaces before the base class. *)
InHierarchyOnePass(t, class, hits) ==
  Visit(t, hits, <<"trait", "interface", "base">>, <<class>>, {}).found

(* in_hierarchy: the first class of hits in PHP's order, interfaces only   *)
(* when no class or trait has the member.                                  *)
InHierarchy(t, class, hits) ==
  LET Found(first) ==
        IF first.found # Nothing THEN first.found
        ELSE Visit(t, hits, <<"interface", "base", "trait">>, first.met, first.seen).found
  IN Found(Visit(t, hits, <<"trait", "base">>, <<class>>, {}))

(* The classes with an entry for a member in the table. *)
OwnersIn(table, slot, member) == {key[2] : key \in {k \in DOMAIN table : k[1] = slot /\ k[3] = member}}

FindMember(t, class, slot, member) ==
  Get(t.members, <<slot, InHierarchy(t, class, OwnersIn(t.members, slot, member)), member>>, Nothing)

TypeOf(t, class, role, what) ==
  Get(t.types, <<role, InHierarchy(t, class, OwnersIn(t.types, role, what)), what>>, Nothing)

(* The class a method call evaluates to. *)
ReturnType(t, class, method) ==
  LET selves == {key[1] : key \in {k \in t.self_returning : k[2] = method}}
      Result(owner) == IF owner \in selves THEN Declared(class)
                       ELSE Get(t.types, <<"method", owner, method>>, Nothing)
  IN Result(InHierarchy(t, class, selves \cup OwnersIn(t.types, "method", method)))

MagicOf(slot) ==
  CASE slot = "static" -> <<"__callstatic", "__call">>
    [] slot = "method" -> <<"__call">>
    [] OTHER -> <<>>

MemberSites(t, class, slot, member) ==
  LET table == IF slot = "static" THEN "method" ELSE slot
      known == InHierarchy(t, class, t.foreign_parents) = Nothing
      names == <<member>> \o (IF known THEN MagicOf(slot) ELSE <<>>)
  IN [i \in DOMAIN names |-> FindMember(t, class, table, names[i])]

(* member_answer.  A method nobody declares is a call of __call, or of     *)
(* __callStatic when it is named through a class, unless a base class or a *)
(* trait outside the project may declare it.                               *)
MemberAnswer(t, ref, slot, member) ==
  LET Answer(site) == IF site = Nothing THEN External(Append(ref.class, member)) ELSE Internal(site)
  IN Answer(FirstSome(IF ref.declared THEN MemberSites(t, ref.class, slot, member) ELSE <<>>))
================================================================================
