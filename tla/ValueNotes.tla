------------------------------- MODULE ValueNotes -------------------------------
(***************************************************************************)
(* What the Python and the TypeScript adapter share: notes that say what   *)
(* becomes of a value, and the pass over them (apply_resolutions_inner of  *)
(* src/src/python/adapter.rs).                                             *)
(*                                                                         *)
(* A file of `program` has, besides its path and its tree, the name of its *)
(* module and the label that stands for it; every file can be read, and is *)
(* of one root.                                                            *)
(***************************************************************************)
EXTENDS Resolution

CONSTANT FullNames   (* whether the resolver names what it finds *)

DeclaredIn(g, owner, id, name, span) == Linking(Inserted(g, id, name, span), owner, "DECLARES", id)

OfKind(n, kind) == {c \in Children(n) : Kind(c) = kind}
AtMostLast(S) == IF S = {} THEN {} ELSE {Last(S)}
AtMostFirst(S) == IF S = {} THEN {} ELSE {First(S)}
Texts(S) == LET names == InOrder(S) IN [i \in DOMAIN names |-> Text(names[i])]

Key(kind, text, held) == [key |-> kind, text |-> text, held |-> held]
Wild == Key("wild", "", <<>>)
(* `l[1]` and `d["1"]` are not the same key. *)
Numbered(k) == Key("index", ToString(k), <<>>)
LiteralKey(n) == Key(IF Kind(n) \in {"integer", "number"} THEN "index" ELSE "literal", Text(n), <<>>)

-------------------------------------------------------------------------------
(* Notes.  One says what of a value it is (a name, what a call of it       *)
(* returns, what is under its keys, a lambda or a literal), where it goes  *)
(* (to the holder that encloses it, out of the function, to a call, into   *)
(* an element store) and under which keys.                                 *)

Given == [value |-> "name", via |-> "holder", path |-> <<>>, keys |-> <<>>, slot |-> "", id |-> <<>>]
NoteOf(role, n, enc, of, detail) == Note(role, n, enc, detail.value, of) @@ detail
RecordedWith(g, role, S, enc, of, detail) ==
  LET names == InOrder(S) IN Noting(g, [i \in DOMAIN names |-> NoteOf(role, names[i], enc, of, detail)])
Recorded(g, role, S, enc) == RecordedWith(g, role, S, enc, 0, Given)
ResultOf == [Given EXCEPT !.value = "result"]

-------------------------------------------------------------------------------
(* Structure.  A module that is a file is made with that file, placed at   *)
(* its start, even when it is made for a module inside it; one that is     *)
(* only a directory is nowhere.                                            *)

Prefixes(path) == {SubSeq(path, 1, k) : k \in DOMAIN path}
ModulesOf(files) == UNION {Prefixes(program[i].module) : i \in files}

(* The first file that is the module. *)
PlacedIn(path) == AtMostFirst({i \in DOMAIN program : program[i].module = path})
ModuleNode(path) ==
  IF PlacedIn(path) = {} THEN Node("", 0, 0) ELSE Node(program[The(PlacedIn(path))].path, Root, 0)

(* A module is in the one its name extends; `known` are made already. *)
EnsureModuleChain(g, path, known) ==
  InTurn({k \in DOMAIN path : SubSeq(path, 1, k) \notin known}, g, LAMBDA s, k :
    LET id == Id("MODULE", SubSeq(path, 1, k))
        made == [s EXCEPT !.nodes = @ @@ (id :> ModuleNode(id[2]))]
    IN  IF k = 1 THEN made ELSE Linking(made, Id("MODULE", SubSeq(path, 1, k - 1)), "CONTAINS", id))

(* A file is its module's, unless it is a node already. *)
WithFile(g, f) ==
  LET file == Id("FILE", <<f.path>>)
  IN  IF file \in DOMAIN g.nodes THEN g
      ELSE Linking([g EXCEPT !.nodes = @ @@ (file :> Node(f.path, 0, 0))], Id("MODULE", f.module), "CONTAINS", file)

(* The project has the modules that are in no other, in the order they     *)
(* were made.                                                              *)
WithTopModules(g, project) ==
  LET top(i) == <<program[i].module[1]>>
      first == {i \in DOMAIN program : \A j \in 1..(i - 1) : top(j) # top(i)}
  IN  InTurn(first, g, LAMBDA s, i : Linking(s, project, "CONTAINS", Id("MODULE", top(i))))

-------------------------------------------------------------------------------
(* What the flow pass is told. *)

(* A key that is a name is what the resolver has found it to be by now, if *)
(* it did; it is known by the token of its name.                           *)
Substituted(note) ==
  LET found(k) == {f.held : f \in {x \in facts : x.fact = "key" /\ x.at[1] = note.file /\ ToString(x.at[2]) = k.text}}
  IN  [i \in DOMAIN note.keys |->
         LET k == note.keys[i]
         IN  IF k.key # "name" THEN k ELSE IF found(k) = {} THEN Wild ELSE [k EXCEPT !.held = The(found(k))]]

(* A fact is about a holder, the note's owner, and what it is told of.     *)
Nothing == <<>>
Told(what, note, held) ==
  [fact |-> what, holder |-> note.enc, held |-> held, at |-> <<note.file, note.at>>, of |-> note.of, value |-> note.tag,
   path |-> IF what = "return" THEN <<>> ELSE note.path, keys |-> Substituted(note), slot |-> note.slot, id |-> note.id]
Tells(what, note, ids) == facts' = facts \cup {Told(what, note, id) : id \in ids}

(* A value goes out of the function, to a call, to an element store, or to *)
(* the holder that encloses the note, which does not hold itself.          *)
Applies(note, ids) ==
  LET itself == IF note.tag = "name" /\ note.path = <<>> THEN {note.enc} ELSE {}
  IN  CASE note.via = "store" -> Tells("element", note, ids)
        [] note.via = "holder" -> Tells("holder", note, ids \ itself)
        [] OTHER -> Tells(note.via, note, ids)

(* A lambda, a literal, or a parameter that is unpacked where it stands,   *)
(* is known without the resolver.                                          *)
OfItself(note) == note.tag \in {"lambda", "literal", "parameter"}
ItsValue(note) ==
  IF note.tag = "literal" THEN {Id("LITERAL", <<note.keys[1].key, note.keys[1].text>>)} ELSE {note.id} \cap DOMAIN graph.nodes

-------------------------------------------------------------------------------
(* The answer to a note: the declaration a name stands for or, for a       *)
(* module, the start of its file, where a first statement may start too.   *)
Opening == {"module", "program", "expression_statement", "assignment"}
AtStart(t) == {n \in DOMAIN t : \A m \in 2..n : t[m].up = m - 1 /\ t[m - 1].kind \in Opening}
StartOf(label) ==
  UNION {{<<program[i].path, n>> : n \in AtStart(program[i].tree)} : i \in {j \in DOMAIN program : program[j].label = label}}
Reference(note) ==
  LET answer == Answer(note)
  IN  IF answer.where # {} \/ StartOf(answer.name) = {} THEN answer
      ELSE [answer EXCEPT !.where = StartOf(answer.name), !.origin = "internal"]

(* SpanIndex::lookup_module: the placed module that has the file, the      *)
(* first of them, at its start.                                            *)
ModuleOfFile(path) ==
  LET holding == {i \in DOMAIN graph.edges :
                    LET e == graph.edges[i]
                    IN  e.kind = "CONTAINS" /\ e.tgt = Id("FILE", <<path>>)
                          /\ e.src[1] = "MODULE" /\ graph.nodes[e.src].file # ""}
  IN  {graph.edges[i].src : i \in AtMostFirst(holding)}
LookupModule(where) == UNION {ModuleOfFile(p[1]) : p \in {q \in where : q[2] = Root}}

(* A name wins; otherwise the start of a file is its module. *)
BoundTo(answer) ==
  IF answer.origin # "internal" THEN {}
  ELSE LET named == NodesAt(answer.where) IN IF named = {} THEN LookupModule(answer.where) ELSE named

-------------------------------------------------------------------------------
(* Resolution. *)

Callables == {"FUNCTION", "METHOD"}
Kinds(ids) == {id[1] : id \in ids}
Relation == KindOfRole @@ [import |-> "RESOLVES_TO"]

(* What is outside has its name or, when the resolver gives none, the use. *)
Outside(note, answer) == IF FullNames THEN <<answer.name>> ELSE <<note.role, note.file, ToString(note.at)>>

(* The last steps of an answer: an import is only worth an edge when it    *)
(* reaches a definition; any other becomes one, to a symbol outside when   *)
(* it is bound to nothing.                                                 *)
Edged(note, bound, answer) ==
  LET kind == Relation[note.role]
      how == Classify(kind, bound, answer.origin)
      target == IF bound # {} THEN The(bound) ELSE Id("EXTERNAL_SYMBOL", Outside(note, answer))
  IN  IF note.role = "import" /\ bound = {} THEN metrics' = Bump(metrics, {"unresolved"}) /\ UNCHANGED graph
      ELSE /\ Writes(note, kind, target, how)
           /\ metrics' = Bump(metrics, {"resolved", IF bound = {} THEN "external" ELSE "internal"}
                                          \cup (IF how = "value" THEN {"to_value"} ELSE {}) \cup ({how} \cap {"unlocated"}))

(* A site that declares the property is not a use of it. *)
DeclaresItself(note, answer) == note.tag \in {"key", "member"} /\ <<note.file, note.at>> \in answer.where

(* A keyword, or a key of an object, is a use only of a field; a key also  *)
(* of a method.                                                            *)
IsKeyword(note) == note.role = "read" /\ note.tag \in {"keyword", "key"}
KeywordTargets(note) == {"ATTRIBUTE", "VARIABLE"} \cup IF note.tag = "key" THEN {"METHOD"} ELSE {}
ResolveKeyword(note, bound, answer) ==
  IF Kinds(bound) \cap KeywordTargets(note) = {} THEN Drops({"unresolved"})
  ELSE Edged(note, bound, answer) /\ UNCHANGED facts

(* What only the flow pass is told: what a value is, what a library calls, *)
(* what a key is and what a store is made in, the receiver of a method,    *)
(* what is iterated; and a decorator, known or not.                        *)
Followed == {"alias", "callarg", "key", "store", "decorate", "recv", "iterate"}
ResolveFollowed(note, bound) ==
  /\ CASE note.role = "alias" -> Applies(note, bound)
       [] note.role = "callarg" -> Tells("callarg", note, {b \in bound : b[1] \in Callables \cup Holders})
       [] note.role = "decorate" -> Tells("decorate", note, IF bound = {} THEN {Nothing} ELSE bound)
       [] OTHER -> Tells(note.role, note, bound)
  /\ metrics' = Bump(metrics, {"resolved"})
  /\ UNCHANGED graph

(* The call of what a call returns has no edge; one made through keys says *)
(* which.                                                                  *)
ResolveCall(note, bound, answer) ==
  IF note.tag = "result"
  THEN Tells("result", note, bound) /\ metrics' = Bump(metrics, {"resolved"}) /\ UNCHANGED graph
  ELSE /\ facts' = facts \cup {Told("call", note, b) : b \in bound}
                         \cup IF note.tag = "keys" THEN {Told("path", note, Nothing)} ELSE {}
       /\ Edged(note, bound, answer)

(* What is mentioned in an argument is handed to the call.  An argument    *)
(* that is a call has its own edge.                                        *)
ResolveMention(note, bound, answer) ==
  /\ Tells("arg", note, IF note.via = "arg" THEN bound ELSE {})
  /\ IF note.tag = "result" /\ bound # {}
     THEN metrics' = Bump(metrics, {"resolved"}) /\ UNCHANGED graph
     ELSE Edged(note, bound, answer)

ResolveAnswered(note, bound, answer) ==
  IF DeclaresItself(note, answer) THEN Drops({"resolved"})
  ELSE CASE IsKeyword(note) -> ResolveKeyword(note, bound, answer)
         [] note.role \in Followed -> ResolveFollowed(note, bound)
         [] note.role = "call" -> ResolveCall(note, bound, answer)
         [] OTHER -> ResolveMention(note, bound, answer)

(* A parameter that is called is known by its name; a decorator without an *)
(* answer is unknown, and so is what it makes of the function.             *)
ResolveNext ==
  /\ stage = "resolve" /\ at <= Len(graph.notes)
  /\ LET note == graph.notes[at]
         answer == Reference(note)
     IN  CASE OfItself(note) -> Applies(note, ItsValue(note)) /\ UNCHANGED <<graph, metrics>>
           [] note.role = "paramcall" ->
                Tells("paramcall", note, {note.id} \cap DOMAIN graph.nodes) /\ UNCHANGED <<graph, metrics>>
           [] note.role = "decorate" /\ ~ answer.known ->
                Tells("decorate", note, {Nothing}) /\ UNCHANGED <<graph, metrics>>
           [] ~ (OfItself(note) \/ note.role \in {"paramcall", "decorate"} \/ answer.known) -> Drops({"unresolved"})
           [] OTHER -> ResolveAnswered(note, BoundTo(answer), answer)
  /\ at' = at + 1
  /\ UNCHANGED <<tree, here, program, stage, cursor>>

(* What was stored in a holder that was found is held under its keys; what *)
(* the flow pass then makes of the facts is FlowPass.                      *)
SettleStores ==
  /\ stage = "resolve" /\ at > Len(graph.notes)
  /\ LET of(what) == {f \in facts : f.fact = what}
     IN  facts' = facts \cup
           UNION {{[v EXCEPT !.fact = "holder", !.holder = s.held, !.path = s.keys \o @] :
                     v \in {x \in of("element") : x.of = s.of /\ x.at[1] = s.at[1]}} : s \in of("store")}
  /\ stage' = "done"
  /\ UNCHANGED <<tree, here, program, at, cursor, graph, metrics>>
===============================================================================
