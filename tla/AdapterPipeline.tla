--------------------------- MODULE AdapterPipeline ---------------------------
(***************************************************************************)
(* analyze() of the Python adapter (src/src/python/adapter.rs, whose       *)
(* resolution pass the TypeScript adapter calls too): structure of every   *)
(* root, then one resolver for all of them, whose answers become edges     *)
(* root by root, each pass followed by the value-flow pass over what it    *)
(* noted (src/src/flow.rs), then boundaries, status and --strict.          *)
(*                                                                         *)
(* Structure is given: the nodes and use-sites the visitors find.  Of what *)
(* a pass notes for value flow, names, arguments and calls of parameters   *)
(* are followed here; containers, returns, receivers, iteration, library   *)
(* callbacks and decorators are only counted ("followed").                 *)
(***************************************************************************)
EXTENDS Naturals, FiniteSets, SequencesExt, ResolverStatus

CONSTANTS
  Orders,       (* the roots of the tree, in the order they are analysed   *)
  Structure,    (* Structure[r]: the definitions the visitors find in r    *)
  KindOf,       (* KindOf[id]: their node kinds                            *)
  Parameters,   (* Parameters[id]: the parameters of a callable, in order; *)
                (* of its constructor for a class, none for other nodes    *)
  UseSites,     (* UseSites[r]: the lists of occurrences r may have        *)
  Answers(_),   (* what the backend may answer to an occurrence            *)
  Healths       (* what a resolver's status() may say                      *)

VARIABLES
  order, slot, strict,  (* the roots; native, custom or disabled; strict=  *)
  phase,      (* start, structured, resolving, resolved, returned, raised  *)
  built,      (* built[k]: the occurrences of the k-th root                *)
  done,       (* how many roots have been resolved                         *)
  edges,      (* the relations written by the passes                       *)
  symbols,    (* the EXTERNAL_SYMBOL nodes                                 *)
  metrics,    (* ResolverMetrics                                           *)
  health,     (* what the resolver would say of itself                     *)
  status,     (* the status read from it                                   *)
  got,        (* history: got[k], the backend's answers for the k-th root  *)
  asked       (* history: how the resolver was when it answered            *)

vars == <<order, slot, strict, phase, built, done, edges, symbols, metrics,
          health, status, got, asked>>

-------------------------------------------------------------------------------
(* One answer. *)

Holders == {"VARIABLE", "PARAMETER", "ATTRIBUTE"}
Callable == {"FUNCTION", "METHOD", "CLASS"}

(* Mutant: the index is built once the first root has its structure. *)
SpansOfFirst == Structure[Head(order)]

(* SpanIndex::from_graph, after the structure of every root. *)
Spans == UNION {Structure[r] : r \in ToSet(order)}

Bound(ref) == IF ref.origin = "internal" /\ ref.at \in Spans THEN ref.at ELSE Unset

(* The uses that name what they hand on: nothing is asked of the answer.   *)
Own == {"lambda", "literal", "parameter", "paramcall"}

(* What becomes of an occurrence.  `use` is its role, with the detail that *)
(* sends it another way; `at` may be the occurrence's own site.  A         *)
(* decorator without an answer is handed to the value flow as unknown      *)
(* before anything is counted.                                             *)
Outcome(o, ref) ==
  CASE o.use \in Own -> "own"
    [] o.use = "decorate" /\ ref = Unset -> "unplaced"
    [] o.use \notin Own \cup {"decorate"} /\ ref = Unset -> "unanswered"
    [] o.use = "key" /\ ref # Unset /\ ref.at = o.site -> "declares"
    [] /\ o.use \in {"keyword", "key"} /\ ref # Unset /\ ref.at # o.site
       /\ ~ \/ Bound(ref) # Unset /\ KindOf[Bound(ref)] \in {"ATTRIBUTE", "VARIABLE"}
            \/ Bound(ref) # Unset /\ o.use = "key" /\ KindOf[Bound(ref)] = "METHOD" -> "dropped"
    [] o.use \in {"alias", "noted", "decorate"} /\ ref # Unset -> "followed"
    [] o.use = "argresult" /\ ref # Unset /\ Bound(ref) # Unset -> "followed"
    [] o.use = "import" /\ ref # Unset /\ Bound(ref) = Unset -> "dropped"
    [] OTHER -> "edge"

RelationKind(o) ==
  CASE o.use = "call" -> "CALLS"
    [] o.use = "base" -> "INHERITS_FROM"
    [] o.use = "annotation" -> "HAS_TYPE"
    [] o.use = "import" -> "RESOLVES_TO"
    [] OTHER -> "REFERENCES"

(* Resolution::classify. *)
Classify(kind, ref) ==
  IF Bound(ref) = Unset
  THEN IF ref.origin \in {"stdlib", "third_party"} THEN "external" ELSE "unlocated"
  ELSE CASE kind = "CALLS" /\ KindOf[Bound(ref)] \in Holders -> "value"
         [] kind = "CALLS" /\ KindOf[Bound(ref)] \in {"IMPORT", "MODULE", "FILE", "TYPE_ALIAS"} ->
              "unlocated"
         [] OTHER -> "definition"

(* ensure_external_symbol: keyed by name, or by the use-site without one.  *)
Symbol(o, ref, root) == <<root, IF ref.name = Unset THEN o.site ELSE ref.name>>

ASSUME OrdersAssumption == \A roots \in Orders : roots \in Seq(DOMAIN UseSites)

ASSUME UseSitesAssumption ==
  \A r \in DOMAIN UseSites : \A occs \in UseSites[r] : occs \in Seq(ToSet(occs))

(* What the visitors find becomes nodes.                                   *)
ASSUME StructureAssumption ==
  Unset \notin DOMAIN KindOf /\ \A r \in DOMAIN UseSites : Structure[r] \subseteq DOMAIN KindOf

(* node_id hashes the kind: no symbol has the id of a definition.          *)
ASSUME SymbolsAssumption ==
  \A r \in DOMAIN UseSites : \A occs \in UseSites[r] : \A i \in DOMAIN occs :
    \A ref \in Answers(occs[i]) \ {Unset} : Symbol(occs[i], ref, r) \notin DOMAIN KindOf

(* The relations of a graph are a Vec: equal ones are told apart by the    *)
(* place, here the pass and the occurrence that wrote them.                *)
EdgeOf(o, ref, k, i) ==
  [src |-> o.enclosing, kind |-> RelationKind(o), site |-> o.site, pass |-> k, nth |-> i, by |-> "answer",
   tgt |-> IF Bound(ref) = Unset THEN Symbol(o, ref, order[k]) ELSE Bound(ref),
   how |-> Classify(RelationKind(o), ref)]

-------------------------------------------------------------------------------
(* One pass: the occurrences of a root zipped with the answers. *)

Paired(occs, refs) == 1..(IF Len(refs) < Len(occs) THEN Len(refs) ELSE Len(occs))
With(occs, refs, outcome) == {i \in Paired(occs, refs) : Outcome(occs[i], refs[i]) = outcome}

Written(occs, refs, k) == {EdgeOf(occs[i], refs[i], k, i) : i \in With(occs, refs, "edge")}
NewSymbols(occs, refs, k) ==
  {Symbol(occs[i], refs[i], order[k]) :
     i \in {j \in With(occs, refs, "edge") : Bound(refs[j]) = Unset}}

(* Mutant: an answer that is dropped stays counted as resolved. *)
CountedTwice(occs, refs, k) ==
  LET Count(outcomes) == Cardinality({i \in Paired(occs, refs) : Outcome(occs[i], refs[i]) \in outcomes})
      How(hows) == Cardinality({e \in Written(occs, refs, k) : e.how \in hows})
  IN  [queries |-> Len(occs),
       resolved |-> Count({"declares", "followed", "edge", "dropped"}),
       unresolved |-> Count({"unanswered", "dropped"}),
       internal |-> Cardinality({i \in With(occs, refs, "edge") : Bound(refs[i]) # Unset}),
       external |-> Cardinality({i \in With(occs, refs, "edge") : Bound(refs[i]) = Unset}),
       to_value |-> How({"value"}), unlocated |-> How({"unlocated"})]

(* The pass's ResolverMetrics. *)
Counted(occs, refs, k) ==
  LET Count(outcomes) == Cardinality({i \in Paired(occs, refs) : Outcome(occs[i], refs[i]) \in outcomes})
      How(hows) == Cardinality({e \in Written(occs, refs, k) : e.how \in hows})
  IN  [queries |-> Len(occs),
       resolved |-> Count({"declares", "followed", "edge"}),
       unresolved |-> Count({"unanswered", "dropped"}),
       internal |-> Cardinality({i \in With(occs, refs, "edge") : Bound(refs[i]) # Unset}),
       external |-> Cardinality({i \in With(occs, refs, "edge") : Bound(refs[i]) = Unset}),
       to_value |-> How({"value"}), unlocated |-> How({"unlocated"})]

(* What an occurrence hands on, and to whom (apply_value). *)
Token(o, ref) ==
  CASE o.use \in {"lambda", "parameter"} -> IF o.named \in Spans THEN o.named ELSE Unset
    [] o.use \notin {"lambda", "parameter", "literal", "paramcall", "noted", "decorate", "argresult", "call", "keyword", "key"} /\ ref # Unset -> Bound(ref)
    [] OTHER -> Unset

(* What a pass notes: <<holder, token>>, <<call site, callee>>, <<call     *)
(* site, slot, token>> and <<caller, parameter, site>>.                    *)
Noted(occs, refs) ==
  LET P == Paired(occs, refs)
      Given == {i \in P : Token(occs[i], refs[i]) # Unset}
  IN  [holds |-> {<<occs[i].enclosing, Token(occs[i], refs[i])>> :
                    i \in {j \in Given : /\ occs[j].arg = Unset
                                         /\ occs[j].use \in {"alias", "lambda", "parameter"}
                                         /\ occs[j].enclosing # Token(occs[j], refs[j])}},
       calls |-> {<<occs[i].site, Bound(refs[i])>> :
                    i \in {j \in With(occs, refs, "edge") :
                             occs[j].use = "call" /\ Bound(refs[j]) # Unset}},
       args |-> {<<occs[i].arg[1], occs[i].arg[2], Token(occs[i], refs[i])>> :
                    i \in {j \in Given : occs[j].arg # Unset}},
       params |-> {<<occs[i].enclosing, occs[i].named, occs[i].site>> :
                    i \in {j \in P : occs[j].use = "paramcall" /\ occs[j].named \in Spans}}]

-------------------------------------------------------------------------------
(* The value-flow pass. *)

(* Hops a chain of holders is followed: a holder and its token are a step  *)
(* each, and depth 3 * MAX_DEPTH = 24 is the last one looked at.  (That a  *)
(* holder first met too deep stays unexpanded needs longer chains than     *)
(* these and is left out.)                                                 *)
Hops == 12

(* Flow::resolve. *)
Callables(holds, holder) ==
  LET reach[n \in 0..Hops] ==
        IF n = 0 THEN {holder}
        ELSE LET met == reach[n - 1]
             IN  met \cup {h[2] : h \in {x \in holds : x[1] \in met /\ KindOf[x[1]] \in Holders}}
  IN  {c \in reach[Hops] : KindOf[c] \in Callable}

(* One round of bind_arguments. *)
Learn(holds, facts) ==
  LET Callees(id) == IF KindOf[id] \in Holders THEN Callables(holds, id) ELSE {id}
      Matches == {m \in facts.args \X facts.calls : m[1][1] = m[2][1]}
  IN  UNION {{<<Parameters[c][m[1][2]], m[1][3]>> :
                c \in {d \in Callees(m[2][2]) : m[1][2] \in DOMAIN Parameters[d]}} : m \in Matches}

(* Mutant: one round. *)
BoundOnce(facts) == facts.holds \cup Learn(facts.holds, facts)

(* bind_arguments: four rounds. *)
BoundHolds(facts) ==
  LET after[n \in 0..4] ==
        IF n = 0 THEN facts.holds
        ELSE LET known == after[n - 1] IN known \cup Learn(known, facts)
  IN  after[4]

FlowEdge(caller, callable, site, k, by) ==
  [src |-> caller, kind |-> "CALLS", site |-> site, pass |-> k, nth |-> 0, by |-> by,
   tgt |-> callable, how |-> "flow"]

FollowedValues(es, holds, k) ==
  UNION {{FlowEdge(e.src, c, e.site, k, "value") : c \in Callables(holds, e.tgt)} :
           e \in {d \in es : d.kind = "CALLS" /\ d.how = "value"}}

(* A call of a parameter, unless the edge is there or has just been added. *)
FollowedParameters(es, added, facts, holds, k) ==
  UNION {{FlowEdge(p[1], c, p[3], k, "parameter") :
            c \in {d \in Callables(holds, p[2]) :
                     ~ \E e \in es \cup added :
                          e.kind = "CALLS" /\ <<e.src, e.tgt, e.site>> = <<p[1], d, p[3]>>}} :
           p \in facts.params}

(* Flow::finish: every value edge of the graph, those of earlier roots     *)
(* too, but the facts of this pass only.                                   *)
Followed(es, facts, k) ==
  LET holds == BoundHolds(facts)
      added == FollowedValues(es, holds, k)
  IN  added \cup FollowedParameters(es, added, facts, holds, k)

-------------------------------------------------------------------------------
(* analyze. *)

NoMetrics == [queries |-> 0, resolved |-> 0, unresolved |-> 0, internal |-> 0, external |-> 0,
              to_value |-> 0, unlocated |-> 0]

Init ==
  /\ order \in Orders
  /\ slot \in {"native", "custom", "disabled"}
  /\ strict \in BOOLEAN
  /\ phase = "start"
  /\ built = <<>> /\ got = <<>> /\ asked = {}
  /\ done = 0
  /\ edges = {} /\ symbols = {}
  /\ metrics = NoMetrics
  /\ health \in IF slot = "custom" THEN Healths ELSE Healths \cap Statuses
  /\ status = Unset

(* A boundary extractor, a resolver or strict raises: no graph. *)
Raise ==
  /\ phase' = "raised"
  /\ UNCHANGED <<order, slot, strict, built, done, edges, symbols, metrics, health, status, got, asked>>

StructureRaises == phase = "start" /\ Raise
PrepareRaises == phase = "structured" /\ slot # "disabled" /\ Raise

BuildStructure ==
  /\ phase = "start"
  /\ phase' = "structured"
  /\ built' \in {f \in [1..Len(order) -> UNION {UseSites[r] : r \in ToSet(order)}] :
                   \A k \in 1..Len(order) : f[k] \in UseSites[order[k]]}
  /\ UNCHANGED <<order, slot, strict, done, edges, symbols, metrics, health, status, got, asked>>

Prepare ==
  /\ phase = "structured"
  /\ IF slot = "disabled"
     THEN phase' = "resolved" /\ status' = "unavailable"
     ELSE phase' = "resolving" /\ UNCHANGED status
  /\ UNCHANGED <<order, slot, strict, built, done, edges, symbols, metrics, health, got, asked>>

(* A custom resolver loses its backend while it is in use: what it says of *)
(* itself may get worse, not better.                                       *)
Worsen ==
  /\ phase = "resolving" /\ slot = "custom"
  /\ \E s \in Healths : Severity(Coerce(s)) > Severity(Coerce(health)) /\ health' = s
  /\ UNCHANGED <<order, slot, strict, phase, built, done, edges, symbols, metrics, status, got, asked>>

(* Mutant: answers are zipped with the occurrences as far as they go. *)
AnyLength(refs, occs) == TRUE

(* custom_resolve_all: one answer per query. *)
OnePerQuery(refs, occs) == Len(refs) = Len(occs)

AllAnswers(occs) ==
  LET first[i \in 0..Len(occs)] ==
        IF i = 0 THEN {<<>>}
        ELSE {Append(z[1], z[2]) : z \in first[i - 1] \X Answers(occs[i])}
  IN  first[Len(occs)]

(* What resolve_all returns: the backend's answers; a custom resolver may  *)
(* leave one out.                                                          *)
Returned(truth) ==
  {truth} \cup (IF slot = "custom" THEN {RemoveAt(truth, i) : i \in DOMAIN truth} ELSE {})

MetricsSum(m, n) == [c \in DOMAIN m |-> m[c] + n[c]]

(* resolve: one call of resolve_all for a root, and the pass over it.      *)
(* Nothing is asked for a root without occurrences.                        *)
Resolve ==
  /\ phase = "resolving" /\ done < Len(order)
  /\ LET k == done + 1
         occs == built[k]
     IN \E truth \in AllAnswers(occs) : \E refs \in Returned(truth) :
          /\ OnePerQuery(refs, occs)
          /\ metrics' = MetricsSum(metrics, Counted(occs, refs, k))
          /\ symbols' = symbols \cup NewSymbols(occs, refs, k)
          /\ LET es == edges \cup Written(occs, refs, k)
             IN  edges' = es \cup Followed(es, Noted(occs, refs), k)
          /\ got' = Append(got, truth)
          /\ asked' = IF occs = <<>> THEN asked ELSE asked \cup {Coerce(health)}
          /\ done' = k
  /\ UNCHANGED <<order, slot, strict, phase, built, health, status>>

ResolveRaises ==
  /\ phase = "resolving" /\ done < Len(order)
  /\ slot = "custom" /\ built[done + 1] # <<>>
  /\ Raise

(* Mutant: the status is what the resolver said when it was prepared. *)
StatusAsAsked ==
  /\ phase = "resolving" /\ done = Len(order)
  /\ \E s \in asked \cup {Coerce(health)} : status' = s
  /\ phase' = "resolved"
  /\ UNCHANGED <<order, slot, strict, built, done, edges, symbols, metrics, health, got, asked>>

(* resolver.status(), after the last root. *)
ReadStatus ==
  /\ phase = "resolving" /\ done = Len(order)
  /\ status' = Coerce(health)
  /\ phase' = "resolved"
  /\ UNCHANGED <<order, slot, strict, built, done, edges, symbols, metrics, health, got, asked>>

StatusRaises == phase = "resolving" /\ done = Len(order) /\ slot = "custom" /\ Raise

(* Boundaries, status and metrics, then strict, then dedupe, which leaves  *)
(* every edge here alone: each records its site.                           *)
Finish ==
  /\ phase = "resolved"
  /\ phase' = IF strict /\ status # "ok" THEN "raised" ELSE "returned"
  /\ UNCHANGED <<order, slot, strict, built, done, edges, symbols, metrics, health, status, got, asked>>

Next ==
  \/ BuildStructure \/ StructureRaises
  \/ Prepare \/ PrepareRaises
  \/ Worsen
  \/ Resolve \/ ResolveRaises
  \/ ReadStatus \/ StatusRaises
  \/ Finish

Spec == Init /\ [][Next]_vars

-------------------------------------------------------------------------------
(* Properties. *)

Passes == 1..done
(* The occurrences of a pass that neither counter is for.                  *)
Uncounted(occs, refs) ==
  {i \in DOMAIN occs : occs[i].use \in Own \/ (occs[i].use = "decorate" /\ refs[i] = Unset)}

(* resolver_metrics tell the truth about the graph they are stored in, at  *)
(* every point of a run: what was bound, what became an external symbol,   *)
(* what landed on a value, and that a query is answered, unanswered, one   *)
(* of those that name themselves, or a decorator nothing was said of.      *)
(* (resolved is taken back when an answer is dropped, which is easy to     *)
(* forget once.)                                                           *)
CountersDescribeEdges ==
  LET direct == {e \in edges : e.by = "answer"}
  IN  /\ metrics.internal = Cardinality({e \in direct : e.tgt \in DOMAIN KindOf})
      /\ metrics.external = Cardinality({e \in direct : e.tgt \notin DOMAIN KindOf})
      /\ metrics.to_value = Cardinality({e \in direct : e.how = "value"})
      /\ metrics.unlocated = Cardinality({e \in direct : e.how = "unlocated"})
      /\ metrics.queries = metrics.resolved + metrics.unresolved
           + Cardinality(UNION {{k} \X Uncounted(built[k], got[k]) : k \in Passes})

(* Every edge an answer made starts at an occurrence that has one and ends *)
(* where the backend said the definition of that very occurrence is, in    *)
(* whichever root it lies, or at a symbol: answers are never shifted onto  *)
(* other sites, and cross-root references bind ("That is exactly what lets *)
(* cross-root references resolve").                                        *)
AnswersKeepTheirSites ==
  \A e \in {d \in edges : d.by = "answer"} :
    \E k \in Passes : \E i \in DOMAIN built[k] :
      LET o == built[k][i]
          truth == got[k][i]
      IN  /\ o.use \notin Own /\ truth # Unset
          /\ <<e.src, e.site>> = <<o.enclosing, o.site>>
          /\ IF truth.origin = "internal" /\ \E r \in ToSet(order) : truth.at \in Structure[r]
             THEN e.tgt = truth.at
             ELSE e.tgt \in symbols

(* What a holder may hold, by the facts given: what is assigned to it,     *)
(* what those hold in turn, and the arguments of every call that reaches   *)
(* the callable it is a parameter of, until nothing new is learned.        *)
MayHold(facts) ==
  LET closer(R) ==
        R \cup {<<z[1][1], z[2][2]>> : z \in {y \in R \X R : y[1][2] = y[2][1]
                                                            /\ KindOf[y[2][1]] \in Holders}}
          \cup UNION {{<<Parameters[f][z[1][2]], z[1][3]>> :
                         f \in {d \in {z[2][2]} \cup {r[2] : r \in {y \in R : y[1] = z[2][2]}} :
                                  z[1][2] \in DOMAIN Parameters[d]}} :
                       z \in {y \in facts.args \X facts.calls : y[1][1] = y[2][1]}}
      enough == Cardinality(facts.holds) + Cardinality(DOMAIN KindOf) * Cardinality(facts.args)
      grown[r \in 0..enough] == IF r = 0 THEN facts.holds ELSE LET R == grown[r - 1] IN closer(R)
  IN  {z \in grown[enough] : KindOf[z[2]] \in Callable}

CallsOf(es) == {<<e.src, e.tgt, e.site>> : e \in {d \in es : d.kind = "CALLS"}}

(* What a pass adds is what its facts show and nothing else: a call for    *)
(* each callable that a value called anywhere in the graph so far, or a    *)
(* parameter called in this root, may hold ("what is repeated until        *)
(* nothing new is learned" in the code is four rounds).                    *)
PassFollowsItsFacts ==
  phase = "resolving" /\ done > 0 =>
    LET facts == Noted(built[done], got[done])
        known == {e \in edges : e.pass < done \/ e.by = "answer"}
        called == {<<e.src, e.tgt, e.site>> : e \in {d \in known : d.how = "value"}} \cup facts.params
    IN  CallsOf(edges) = CallsOf(known) \cup
          {<<z[1][1], z[2][2], z[1][3]>> : z \in {y \in called \X MayHold(facts) : y[1][2] = y[2][1]}}

(* A graph that says ok was resolved by a resolver that was ok at every    *)
(* root, and strict returns no other graph.                                *)
StatusCoversAnswers ==
  phase = "returned" =>
    /\ \A s \in asked : Severity(s) <= Severity(status)
    /\ strict => status = "ok" /\ slot # "disabled"

(* "every CALLS edge that landed on a variable, parameter or attribute     *)
(* gets one more edge per callable it can be shown to hold" and "a         *)
(* parameter holds the argument of every call site that passes it"         *)
(* (flow.rs).                                                              *)
EveryCallSiteCounts ==
  phase = "returned" /\ slot # "disabled" =>
    LET facts == {Noted(built[k], got[k]) : k \in Passes}
        may == MayHold([holds |-> UNION {f.holds : f \in facts},
                        calls |-> UNION {f.calls : f \in facts},
                        args |-> UNION {f.args : f \in facts}])
    IN \A e \in edges : e.how = "value" =>
         \A p \in may : p[1] = e.tgt =>
           \E d \in edges : d.how = "flow" /\ <<d.src, d.tgt, d.site>> = <<e.src, p[2], e.site>>
===============================================================================
