# A TLA+ development for callix

callix reads the source of a project in up to eight languages and builds one
graph of it: nodes for modules, classes, functions, variables and service
boundaries, and relations between them. This directory holds TLA+ modules that
model its core, TLC configurations that check them on small instances, and
TLAPS proofs of the properties that matter most for every instance.

Paths below are relative to the repository (`src/graph.rs` is the crate's
source; `PROJECT.json` names the exact lines each definition stands for).

## 1. Inventory

| Part | State it keeps | Operations | What makes it correct |
|---|---|---|---|
| Graph accumulator, `src/graph.rs`, `src/status.rs` | ordered map of nodes, list of relations, metadata with `resolver_status`, two lazy edge indices | `add_node`, `insert_node`, `add_relation`, `retain_relations`, `dedupe_structural_relations`, `set_resolver_status`, `merge`, `link_boundaries`, `subgraph`, `neighborhood`, `neighbors`, `outgoing`/`incoming` | indices never stale; a failing merge changes nothing; no status masks a worse one; dedupe loses no fact; link pairs each consumer and provider once; `neighbors` reaches what is within the hops asked for, and nothing else |
| Saved graphs, `crates/callix-export/src/{model,ops}.rs` | a graph read from JSON | read, `merge`, `diff`, write | behaves as the library's graph does |
| Command line, `crates/callix-cli` | files | `analyze`, `merge`, `diff`, `export`, `report`, `doctor`, `--strict`, `--lang`, `--prepare` | an output is written only by a command that succeeded; `--strict` lets nothing weak through |
| Native orchestration, `src/native.rs` | the graph so far, reports, counters | one adapter after another, merge into the first graph | a language that fails or is refused leaves no nodes; counters are sums over the languages in the graph |
| Visitors, `src/{golang,rustlang,php,python,typescript}/visitor.rs` | the file's nodes, the positions already noted | one walk for declarations, further ones for types, calls, references, values | every use noted once, by the innermost declaration around it; every declaration a node |
| Adapters (Python, TypeScript, Go, Rust, PHP, C, C++, YAML) | the graph being built, notes, boundaries, counters | structure, resolution, boundaries, strict, dedupe | an edge points at what the name stands for; counters describe the edges written |
| Value-flow pass, `src/flow.rs` | who holds what | bounded rounds, rewriting of calls | only callables that a holder can be shown to hold; no call lost |
| Resolver slot, `src/resolver_slot.rs` | native, custom or disabled | `prepare`, `resolve_all`, `status` | one answer per query |
| Rust resolver, `src/rustlang/{resolver,scip}.rs` | a temporary index file, a child process, lookup tables | `prepare`, `resolve_all`, `status` | `ok` means the whole index of this workspace; an index run that hangs is ended |
| PHP resolver, `src/php/resolver.rs` | a symbol table (uses, classes, functions, members, parents, types), the answers by document and position | `prepare` in two passes, `resolve_all`, `status` | answers do not depend on the order of files; the nearest member of a possibly cyclic hierarchy; no guess |
| Go and TypeScript resolvers, `go/`, `src/golang/resolver.rs`, `src/typescript/resolver.rs` | a handle into a session map on the Go side | open, close, definition | no session leaks, none is used after its close |
| Span index, `src/span_index.rs` | spans per file | lookups by position | the innermost definition |
| Serialization, library diff, exporters, reports | none | renderings | what is read back is what was written |
| Identifiers, roots, dependencies, boundaries, detectors | none or local | string and tree work | — |

How they interact. A visitor walks a file and fills one `Graph` through direct
Rust calls, leaving a note for every name it cannot place. The adapter asks its
resolver for all notes at once, turns the answers into relations and into facts
for the value-flow pass, adds the boundaries and records a status.
`analyze_tree` merges one graph per language into the first. The Python library
exposes the same `Graph`, so a caller may interleave its calls in any order on
several graphs. The command line saves graphs as JSON and merges or diffs saved
ones with code of its own (`ops.rs`) that has no Python in it.

Where it is hard: lazily built indices next to eight mutating calls; a merge
that can be refused half way; "worst wins" against a metadata update in which
the last wins; two implementations of merge; files that several commands read
and overwrite; a child process that hangs, fails after writing part of its
output or outlives its parent, with a file named after a pid that will be used
again; one resolver prepared several times; four or five walks over the same
code, each of which has to leave out what another notes; names that are bound
by position in one pass and by path in another; facts about values that are
followed in bounded rounds, in the order of a hash map.
`PROJECT.json` lists each of these as a hazard at its line, with the
properties that answer it.

## 2. Modules

| Module | What it is |
|---|---|
| `Positions` | lists by position: the n-th element of a finite set of naturals, picking positions of a sequence in order. No recursion, so that it can be proved about. |
| `ResolverStatus` | `ok`, `degraded`, `unavailable`, foreign values, severity, worst-of (`src/status.rs`). |
| `FactBase` | the most abstract graph: known nodes, a set of facts, the statuses recorded. No order and no copies. |
| `GraphStore` | what `Graph` promises: every call as one action over several graph objects, relations listed by position, without indices. Shown to implement `FactBase`. |
| `CallixGraph` | `Graph` as it is: `GraphStore` plus `out_index`/`in_index`, built by the first query and dropped by calls that change relations. Shown to implement `GraphStore`. |
| `SavedGraphs` | concurrent `merge`, `diff`, `export` and `report` commands over files, with `--strict`, killed at any step. |
| `AnalyzeTree` | `callix analyze DIR` over all languages, up to its exit status. |
| `CommandLine` | a script: `AnalyzeTree` writes its graph to a file, the commands of `SavedGraphs` read and overwrite it. |
| `RustScip` | processes that prepare the Rust resolver, its child, the temporary file, tables and answers. |
| `PhpSymbols`, `PhpResolver` | the PHP resolver: the tables, the lookups of names and members; both passes, what is inferred of locals, the answers. |
| `AdapterPipeline` | `analyze` of the Python adapter over several roots: resolver slot, resolution pass, counters, value flow, status, strict. |
| `FlowPass` | `src/flow.rs`: what is noted, the phases of `finish`, the edges added and dropped. |
| `SyntaxTree`, `Extraction`, `Resolution` | what the visitors share: a parsed file, the nodes, edges and notes a visit leaves, the pass over the notes. |
| `ValueNotes` | what Python and TypeScript share besides: notes on values, and the pass that turns them into edges and facts. |
| `GoVisitor`, `RustVisitor`, `PhpVisitor`, `PythonVisitor`, `TypeScriptVisitor` | what each construct of a language puts into the graph, and which names are noted. |
| `GoAdapter`, … `TypeScriptAdapter` | one adapter as a state machine: open a file, visit one declaration, hold the modules, resolve one note. |
| `GoPrograms`, … `TypeScriptPrograms` | the grammar of a language as operators, and the programs TLC is given. |
| `*_proofs` | the theorems: `Positions_proofs`, `GraphStore_proofs` (with those on `FactBase`), `CallixGraph_proofs`, `RustScip_proofs`, `CommandLine_proofs`, `AdapterPipeline_proofs`, `PhpSymbols_proofs`. The few on the value-flow pass are at the end of `FlowPass`. |
| `MC*` | small instances; `MCFlowPass` also holds the reference of the value-flow pass, and `MCStructure` says what a graph has to say of a program, whatever the language. |

`CallixGraph` extends `GraphStore`. `CommandLine` extends `SavedGraphs` and
instantiates `AnalyzeTree`. A visitor extends `Extraction` (through
`ValueNotes` for Python and TypeScript), its adapter extends the visitor and
`Resolution`, and `MCStructure` instantiates the five adapters over the
variables they share.

How they correspond to the code:

- **GraphStore / CallixGraph.** A call is one step: PyO3 borrows `self`
  mutably for its whole length and no call yields inside. A node is its id and
  a content (what `Node.__eq__` compares); a relation is its endpoints, kind
  and the three metadata keys that calls here read or write. `link_boundaries`
  is said by the slots its three nested loops visit, so the order in which the
  `seen` set decides, and with it whose confidence a link has, is kept.
  `neighbors` is its breadth-first loop, by the edges leaving and entering a
  node: in `GraphStore` those of the relations as they are, in `CallixGraph`
  those of the cached indices, which it builds when there are none. `recorded` is a history variable: the statuses
  of every analysis whose edges are in a graph. `merge` onto itself is left
  out (PyO3 refuses the second borrow).
- **SavedGraphs.** A command reads its inputs one by one, then creates its
  output (truncating it: `Torn`), then flushes. Another command may run
  between any two of these steps, and any may be killed. Two writers of one
  file may leave one behind the other. What `export` and `report` render is no
  saved graph (`Rendered`); `export --deny-warnings` may fail with its file
  already written. A saved status is one that analyses and merges write, none,
  or a JSON value that is no string (`NotString`), which `resolver_status()`
  does not see. `RunDiff` keeps the `Diff` that `ops::diff` returns; what is
  printed of it is less, and not modelled.
- **AnalyzeTree.** Which languages are found, which fail and what each
  adapter returns is chosen freely. `Finish` is `report_analysis`.
- **CommandLine.** The file is opened once `report_analysis` has passed, then
  written; the other commands may read or overwrite it in between. A node list
  is written in some fixed order, and without relations: nothing that follows
  tells these apart.
- **RustScip.** `prepare` is cut where the outside world can act: the question
  to rustup which binary to run, spawn, the wait, the read, the removal with
  the ingest. rust-analyzer writes nothing, a
  part or all; exits with 0 only after all; or hangs. `Kill` is the death of
  callix; a later process of the same pid finds what it left in `temp`.
- **PhpSymbols / PhpResolver.** A file is a path and a list of statements; an
  expression is a record whose `k` says its kind, with the position where its
  answer is recorded. `DeclareFile` and `AnswersIn` fold the two walks over a
  file, one step per file. Of the assignments to a local, `=` and `=&` teach
  the walk something; all others (`.=`, `foreach`, `list()`) are `reassign`,
  which walks the right side and leaves what was known in force. The tables of the code become functions of one
  record. Hierarchies are searched by the two walks of `in_hierarchy`, each a
  loop (`Visit`) of `Turn`s over a stack, bounded by the `Turns` a table can
  need, which are proved to be enough. Names
  are taken in the spelling the tables hold, an external name has no origin,
  and anonymous classes, `'A::m'` strings, magic constants, parameter defaults,
  attributes and declarations inside function bodies are left out.
- **AdapterPipeline.** Structure is given; the use-sites of each root are
  chosen from a list, and what the backend answers to each is chosen from what
  it may say: the definition, nothing, a place inside the project that is no
  definition, something outside with or without a name. `Outcome` is the chain
  of early `continue`s of `apply_resolutions_inner` in its order, with those
  that come before any counter: values that name themselves, and a decorator
  without an answer (`unplaced`). One `Resolve`
  is one root, so a custom resolver may get worse (`Worsen`) or raise between
  two. A custom resolver returns its answers or a list with one missing. `got`
  and `asked` are history: what was answered, and by a resolver in which state.
  Of value flow it follows names and arguments. The relations an answer makes
  carry the pass and the occurrence that wrote them: the code's list keeps two
  equal ones apart (what is raised is also read), and so do the counters.
- **FlowPass.** One step takes one fact, then one step per phase of `finish`.
  A token says where a value comes from (a name, a literal, a result, a get)
  and through which keys. The walks of the code are recursive functions over
  what a turn of their loop leaves (`Turn`), so that the pass can be proved
  about. `Meaning` (`MCFlowPass`) is the reference, a least fixpoint without
  rounds or depth, against which the code's bounded walk is compared.
- **Visitors.** A file is a list of tokens with kinds, fields and parents, as
  tree-sitter gives them; a visit takes a graph to a graph. One `VisitNext`
  is one top-level declaration with everything in it: a visitor is sequential
  and nothing can come between. The order of the walks is kept, since what one
  walk records another leaves out. Spans are numbers of tokens. Each name has
  a label, what it stands for by the rules of the language, which the visitor
  never reads; the modelled resolver answers with the positions that declare
  the label, as a type checker would.
- **ValueNotes.** What of a value a note keeps, and the pass of
  `apply_resolutions_inner` over the notes: a relation for what a name is, and
  facts for value flow. A module lies at the start of its file; where a name
  stands there too, the name is what a position means. Every file can be read
  and all are of one root. `structure` checks the relations this pass writes,
  not the facts; what `finish` makes of facts is checked in `flow_pass` and
  `adapter_pipeline`, over facts given there.

## 3. Runs

| Run | Question | Bounds |
|---|---|---|
| `graph` | Can an index be stale, or seen? Does every call keep facts and nodes, link the linkable pairs once, judge by the worst, slice without dangling edges, reach what is within the hops asked for? Is the graph the abstract store, and the store a base of facts? | four scenarios over 3 ids and 2 graphs. *indices*: every call that moves edges, up to 3 relations, queries in between. *links*: a consumer that consumes twice, surely and by inference, and exposes the contract itself; 4 relations; two thresholds, one that excludes the inferred pair. *merges*: graphs that share an id and may disagree on it, merged both ways, sliced, with statuses and a foreign status. *hops*: 3 edges, a self-edge, two edges of one pair and an id without a node among them, in any order; depths 0 to 2 (3 ids are at most 2 hops apart) |
| `command_line` | Do concurrent, killed and failing commands keep files and statuses right, do `--strict`, `--lang` and the counters mean what they say, and does a saved analysis still mean it? | 3 languages, 4 graphs that collide, degrade or are empty, 4 `--lang` values, every set of detected languages, then one command on the file written; without an analysis, 2 processes, 3 files, 3 commands, 25 starting disks: duplicates, newer schema, foreign status, one that is no string, none |
| `rust_scip` | Is `ok` a promise, does an index run that hangs end, do answers point at definitions? | one pid used by three processes in turn (2 kills), 4 prepares, 2 workspaces, whole, partial and empty indices |
| `adapter_pipeline` | Do answers end up at their own sites, counters describe the edges, flow edges follow the facts of their pass, and does the status cover what was asked? | two roots in either order or one alone, 5 lists of use-sites each (a call of a parameter noted twice, a chain that needs two rounds, an import, a keyword, an object key, a lambda, a base class, a decorator), 3 kinds of resolver, 3 states of health |
| `php_resolver` | Are the answers those of PHP, whatever the order of files, the shape of the hierarchy, the assignments to locals and the project prepared before? | two classes, a trait and an interface in all 5,184 ways of naming each other (cycles and names outside the project included) and declaring a method or `__call`; 3 files in every order, each of which may be skipped or fail to parse; up to two assignments to a local, by `=` of 5 values or by another kind of assignment, around a closure that may shadow it; two projects in turn |
| `flow_pass` | Does the pass add what the facts warrant, all of it and nothing else, and lose no call? | every subset of the facts of four programs: arguments and parameters, containers and loops, decorators and results, classes and closures; chains longer than a round, holders that hold each other |
| `structure` | Does every edge of a use point at what the name stands for, start at the innermost declaration around it and occur once; is no use left out by all of the walks; is every declaration a node that hangs off the project? | programs of one to three files in five languages, which between them use every construct the visitors handle |
| `rust_stale`, `analyze_strict`, `flow_roots`, `php_guess`, `flow_order` | one disagreement each, see section 6 | the smallest instance that shows it |

Three graphs or four languages add no new pair of interacting steps: a merge,
a link, a slice and a diff involve two graphs, a collision two languages. A
script whose analysis failed leaves the files as they were, so the commands
that follow are those of the script that finds no language. The visitors'
programs are built to bring the walks into each other's way: a name in a type
in a call's argument, a closure in a default, a macro in a macro.

What `structure` leaves out, as stated by the operators at the end of each
adapter:

- `Unread`, uses a visitor does not note by design. Go: the arguments of a
  generic type. Rust: the bare receiver of a field, the types of a turbofish,
  what only a macro's expansion would show. PHP: strings and plain variables.
  Python: the name of a keyword argument. TypeScript: `implements` clauses, the
  types of arrow functions, function expressions and signatures, and a plain
  name on the left of an assignment.
- `Repeated`, positions two walks note on purpose or by a quirk: what is called
  in parentheses or through an index (`(x.f)(y)`), what a Python `raise` calls,
  decorators of TypeScript parameters.
- `Nodeless`, declarations no node is made of. Go: imports, type parameters,
  receivers, and types and `var` in bodies. Rust: modules (bound by the start
  of their file), type parameters, patterns in bodies and closures. PHP: the
  parameters of closures. TypeScript: the plain keys of an object and defaulted
  names in an unpacked parameter. Python: none.
- `OwnersOfUse`, what a use may belong to: locals own nothing, a decorator
  belongs to the scope outside, a Rust `impl` header and a macro's body to no
  fixed owner, the argument of an anonymous PHP class not to the class.
- Not in the programs: the heads of compound statements at module level in
  Python, enum initialisers, `export default` of an expression, `var` and
  JavaScript-only parameter forms in TypeScript.

Deadlock is checked in the run on graphs, where some call is always possible
(an idempotent `dedupe` or a query). The others switch it off because their
programs end: the commands are used up, the processes exit, the notes are
answered.

**Fairness** is assumed in `RustScip` only: weak fairness of the timeout, the
read and the removal. `wait_with_timeout` polls in a loop that ends at a
deadline, kills the child and reaps it, and what follows is straight-line
code. Nothing is assumed of rust-analyzer, which may hang for ever or be
killed, nor of rustup: the wait for `rustup which` has no deadline, and a
process may stay there. So `IndexingEnds` starts where rust-analyzer is
spawned.

## 4. Proofs

What holds for every value of the constants, and from which assumptions.

**Graph** (`StoreAssumption`: the three relation kinds exist, `Unset` and
`Absent` are not values of anything):

- `TypeCorrect`, by induction on `TypeOK` alone; the work is in `link_boundaries` and `subgraph`, whose results are indexed sequences.
- `StatusNeverMasked`, from `TypeOK`, the transitivity of severity and the fact that `MergedStatus` is at least as bad as both sides.
- `NodesNeverLost`, `FailureIsAtomic`, `FactsNeverLost`: action properties, one case per call. The first also needs `OrderInv`, that a graph's order lists its nodes (in the code one `IndexMap`): a graph that has none listed has none a slice could overwrite.
- `DedupeKeepsSites`: picking positions keeps the copies at them (`PickCopies`, by a bijection), and of the copies of a plain edge exactly the first is picked.
- `LinksOnce`, the whole contract of `link_boundaries`. Every pair of edges at a boundary has a slot (`SlotOf`, quotients and remainders); the first slot that qualifies for a pair not yet linked is chosen (`ChosenFor`), no two chosen slots link the same pair (`ChosenEdge`), and the confidence of a link is that of the first slot. Asking again finds nothing because a link is no `CONSUMES` or `EXPOSES` edge, so it pairs with nothing.
- `SlicesStayClosed`: what `subgraph` leaves has both ends of every edge.
- `StoreImplementsFacts`: the list of relations, with its order, copies, dedupe and slots, is a base of facts. Each call maps to one step of `FactBase` or to a stutter.
- `IndexNeverStale` with `CInv` (type correctness and "an index that is not `None` is the index of the relations"), and from it `IndexedImplementsStore`: every step of the graph with indices is a step of the graph without. `ProgramInherits` carries the theorems on `GraphStore` over.

**Rust resolver** (`NothingAssumption`: "nothing" is no workspace and no exit
code; `IndexAssumption`: an index file is a sequence of occurrences):

- `OkPromisesTheWholeIndex` and `UnavailableHoldsNothing`, with the type invariant `RustTypeCorrect`. The inductive invariant follows one index from the child that writes it to the tables: a file that is whole was written for the workspace of the process that reads it, or that process will not say `ok`.
- `AnswersPointAtDefinitions`. `AllSaid` states what the tables are after n occurrences: `by_doc` the last symbol at each place, `defs` the first definition of each symbol, `local_defs` the first in its document. One more occurrence keeps each third of it (`MorePositionsSaid`, `MoreDefsSaid`, `MoreLocalsSaid`); `TablesInv` ties the tables a process holds to the bytes it read last, and a process that waits for rustup has read none.

**Adapter pipeline** (`OrdersAssumption`: roots are visited in some sequence;
`UseSitesAssumption`, `StructureAssumption`: a root's use-sites and its edges
are finite; `SymbolsAssumption`: the node of an external symbol is no
definition, as `node_id` hashes the kind):

- `StatusIsHonest`, from `StatusInv`. While the roots are resolved it is the resolver's health that covers what was asked so far, and only then the status; that a resolver gets worse and never better while it is in use is what the induction rests on.
- `MetricsTellTheTruth` and `AnswersStayWithTheirSites`, from `PassInv`: what `PassesInv` says of a root being resolved (the edges so far are those of the answers so far, and the counters count them, each query in one of them unless it is `Uncounted`), `WrittenInv` of the edges already in the graph, and `CountedInv` of the sums. The answers of a root are a recursive function of the number of use-sites answered.
- `FlowInventsNothing` and `FlowFollowsItsChains`, from `FlowInv` on top of `PassInv`: the two halves of `PassFollowsItsFacts`, for any roots, structure and answers. What a name holds is said without rounds: by every set closed under the facts of a pass (assignments, arguments, and what is held by what is held). The first half says that an edge of the pass ends at a callable that all closed sets show for the value or parameter called there; each round adds only what they contain, which the induction over rounds carries (`Closed`). The second says that along a chain of assignments and arguments, up to the cap on hops, no edge is missing, for names called in earlier roots too. The two halves are not the equality that TLC checks: four rounds and twelve hops are fewer than some constants would need, so for every constant it is false, and the gap is the one the code has.

**Value-flow pass** (no assumption: any graph, any facts, any number of rounds):

- `CallsAreNeverLost`, from `FlowInv`: until `follow` the calls are those of the graph, and only definitions a decorator fact names are pending or decorated. The step that matters is `follow` (`FollowKeeps`, `ReplacedHasDecorated`): what it takes out leads, by what it adds, from the same site to something a decorator made.

**PHP symbol table** (`NothingAssumption`: "no class" is none of the two
answers it is told apart from). `Above` is what every set of classes closed
under the parents of a table contains, so it knows no order and no walk:

- `WalksEnd`: both walks of `in_hierarchy` end, whatever the cycles. A turn takes from the stack, and pushes parents only for a class it opens for the first time; so what lies on the stack, plus the longest list of parents (`Widest`) for each class not opened yet, plus the turns so far never exceeds `Turns` (`Walked`).
- `HierarchyIsSearched`: a walk that found nothing has opened a set closed under the parents, so there was nothing above; what it found is above; and the second pass, which starts from the interfaces the first one met, reaches all that is above by some interface. An implementation by way of traits and base classes wins over a declaration in an interface.
- `MembersAnswerAsPhp`: a member that some class above declares is answered by a declaration found so; else the first magic method declared above, unless a base class or trait outside the project is above; else a name outside.
- `LinkedAsWritten`: by induction along the names held over (`FoldLeft`), `link` gives a class exactly the parents its declarations name, in whatever order they were read, marks as foreign exactly those with a base class or trait that is not found, and leaves the table finite, which is what the other three ask of it (`WellFormed`).

- `FilesAreRead`: declaring a file leaves tables that hold places declared before or by this file (`SitesOf`, of which `DeclarationSites` is made), in which every class that a short name, a member or a name held over speaks of has an entry, and in which nothing is linked. It follows the four loops of the code, one within the other: the statements of a file, the members of a class, the parameters of a method, each a `FoldLeft` with an induction of its own (`UnwindingExists`, `StepsAlong`), and the lists of names pushed. That a name or a place is no `Nothing` (`NoneIsApart`) and that lists are lists (`IsFile`) is what Rust's types say.
- `AnswersAreDeclared`: after `link`, every lookup (of a name, an import, a member, a class) that answers with a place of the project answers with a declaration of the files read, and every class that a lookup, a property's type or a method's return says is declared has its entry, so the `classes` table can be indexed by it.

`FilesAreRead` and `LinkedAsWritten` discharge what the others ask of a table:
fresh tables are `Read` (`FreshTablesAreRead`), reading keeps it, and a table
that was linked can be searched (`LinkedCanBeSearched`). These are the steps of
`Prepare`, `ReadFile` and `LinkFiles`; as `PhpResolver` also holds the walk
over expressions, which is `RECURSIVE`, they are not put together to a theorem
about its specification.

**Command line** (`UnsetAssumption`: no status at all, and a value that is no
string, are two things and neither is a status callix writes; `DiskAssumption`:
at first, a file whose status is `ok` holds analyses that were ok, or one with
a non-string status was merged into it; nodes and relations are arrays; `JobAssumption`: a command names files, `diff`
two; `GraphAssumption`: adapters return finite graphs with a status and a
count; `RequestAssumption`: `--lang` names a language once):

- `StrictIsOneRule` and `NothingAskedForIsMissing`, from `AnalysisInv`. Neither property is inductive: they relate the graph merged at the end to reports made along the way. The invariant says that every language is to come or reported, once (`LanguagesInv`); that the graph so far is the union of the graphs of the languages reported without error, and has the worst of their statuses (`Holds`); and on which reports the verdict was given.
- `StrictRendersComplete` and `NothingIsDestroyed`, from `FilesInv`: every file is torn, rendered or sound, what a command has read is sound and passed `--strict`, and it judges only when it has read everything. `Honest` says what an `ok` stands for, with the one exception the code makes: a status that is no string takes no part in the worst-of rule, so where one was merged in, `ok` may hide it (section 6). `MergedIsSound` is the step of a merge, `WrittenIsSound` links the analysis to the file.

- `NoCountIsLost`, from `CountersInv`: the counters of the graph so far and those in the history have one total. The property is about analyses in which no graph was refused (section 6).
- `MergeLosesNothing` and `DiffsCanBeUndone`, from `HeldInv`: every file holds arrays, and what a command holds was merged from what it has read (`MergedFrom`), no id twice (`Whole`). `MergedHoldsBoth` is the step of a merge: an id on both sides has one content, or the merge stops. `DiffUndoes`, about the `Diff` value, needs that ids are unique in both graphs, which is what reading a file checks.

**Folds and recursive functions.** The library's induction theorems take an
operator as a parameter, which no backend can instantiate, so what a recursive
definition computes is shown with functions instead. `RecursionExists` and
`SetRecursionExists` (`Positions_proofs`) say that the function a recursive
definition chooses is there, the one along `0..n`, the other along sets of
positions of which the greatest is taken away, as `FoldLeft` does; the
inductions then take the least number at which a claim fails (`LeastNat`).

Only model-checked: that `PassFollowsItsFacts` is an equality (its halves are
proved, see above); `FlowIsSound` and `FlowIsComplete`, which compare the walk
over tokens and keys with a least fixed point, an induction over both; the
properties of `php_resolver`, which are about answers at expressions, and those
of `structure`, since the two passes of `PhpResolver` and the visitors recurse
over trees (`RECURSIVE` operators take the SMT backend away);
`NeighborsContract`, which compares the rounds of a loop with walks of any
length, an induction over the rounds; and `IndexingEnds`: liveness is outside
what the backends do.

## 5. Assumptions

- Distinct names have distinct ids (`src/ids.rs` hashes them).
- Processes that are alive at the same time have distinct pids and share one
  `$TMPDIR`; containers that share a directory but not a pid namespace are not
  covered. A rust-analyzer that outlives callix is done before its pid is used
  again. rust-analyzer exits with 0 only when its index is whole.
- A custom resolver may get worse while it is in use, never better: `status`
  is read once, after the last root, so one that recovers would vouch for
  answers it gave before.
- A file is read in one step. Writing it is two, creation and flush.
- The resolvers of `structure` answer rightly; wrong and missing answers are in
  `adapter_pipeline`.

## 6. Where the code and its documents disagree

- `rust_stale`: the index file is named after the pid and never removed before rust-analyzer starts. After a killed process and a rust-analyzer that fails before writing, the tables are those of another workspace. The status is `degraded`, so `--strict` is safe; a lenient run is not.
- `analyze_strict`: the guide says `--strict` exits 3 "unless every language resolved fully"; a detected language whose analysis fails outright is a warning, and the graph is written without it.
- `flow_roots`: `accuracy.md` says "a parameter holds the argument of every call site that passes it", and `flow.rs` that every call that landed on a variable gets an edge per callable it can be shown to hold. Each root has a `Flow` of its own, which sees the value edges of the roots before it but none of their assignments and arguments, so a chain that crosses roots is followed or not depending on which facts lie where and which root comes first.
- `php_guess`: the resolver's header says that a variable "whose type comes from a function's return value" answers nothing rather than guessing. An assignment whose right side has no known class leaves the class the variable had before, so after `$x = new C(); $x = f();` the call `$x->m()` is `C::m`. `foreach` and `list()` do not clear a local either.
- `flow_order`: `serialization.md` says that two runs over unchanged source produce identical bytes. `bind_decorators` walks a `HashMap` once, so which edges a decorated decorator leads to depends on which definition comes first.

Some more that no run is spent on.

- *Counters.* `metrics.rs` calls `unlocated` a subset of `external`, but a call bound to a MODULE is counted as `unlocated` and `internal` (`resolution.rs` says so); and `unresolved`, "queries the backend did not answer at all", also counts answers that were dropped (keywords, imports), and leaves out a decorator without an answer, whose branch goes on before any counter (`python/adapter.rs`).
- *Saved statuses.* `ops::merge` says it merges "as `Graph.merge` does", and a comment there that statuses merge to the worst "or a degraded side would be masked by whichever graph came last"; but a status that is not a string takes no part in its worst-of rule and an `ok` beside it survives, with `--strict` too; the library counts it as `unavailable`. Nothing in callix writes such a status. `StrictIsSound` states the exception.
- *Counters of a refused language.* `analyze_tree` takes a language's counters before the merge that may refuse its graph, so the graph written has counters of a language that is not in it. `native.rs:178` says that "a language that fails is reported and skipped"; `set_summed_metrics` has "the sums over every language that ran". `MetricsAreSums` is about analyses in which no graph was refused.
- *rustup.* `resolve_ra_binary` waits for `rustup which` without a deadline, so a rustup that hangs hangs `prepare`; `SCIP_TIMEOUT` covers rust-analyzer only.
- *Relative imports from index files.* `resolve_relative_import` (Python) and `resolve_relative` (TypeScript) drop the last part of the importing module also when it is a package's `__init__` or `index`, so `from . import a` in a package looks beside the package; `python.md` says `from . import x` is "resolved against the importing module's package". TypeScript's `modules` holds the files visited so far, so an import of a later file ends at an external symbol.
- *Arguments.* A comment in an argument list counts as a positional argument in `python/visitor.rs` and in TypeScript's `scan_call`. In PHP `$o->make()($cb)` ties the outer arguments to the inner call's site.
- *Names noted twice.* `(x.f)(y)` is a call and again a read in Go and Rust; TypeScript's `named_sites`, "so a name is never recorded twice as a use", is not asked by `record_occurrence`.
- *Bases.* `class B(models.A)` in Python writes `INHERITS_FROM` to the module when `models` is one. Rust's `use crate::util as u` binds the import to the parent module.
- *Declarations.* `typescript.md` says a second declaration of an interface adds a `declared_at` span; `handle_class` adds a node. `literal_key` takes the identifier in `t[k]` for the string key.
- *PHP, other assignments.* `php/resolver.rs:2003` says that a local holds a name "for as long as nothing else is assigned to it", `accuracy.md:20` "only while nothing else is assigned to them", `accuracy.md:149` "only while a variable has one assignment", `php.md:118` "only while `$cls` is assigned one `Foo::class` and nothing else". Only `=` and `=&` are looked at (line 1989); `.=`, `foreach`, `list()` and `[$m] =` take the default walk (line 2060), so after `$m = 'go'; $m .= 'ne';` the call `$this->$m()` is `go`. The same name assigned twice is also kept, against `accuracy.md:149`. The model does as the code does, and `HeldNamesAreCertain` is stated for `=`.
- *PHP, callables.* Of `[$o, 'm']` the walk goes on to the string and answers it again as the function `m`, at the same position, if the project has one.
- *PHP.* The header of `php/resolver.rs` lists `__call` as out of reach, and the code and `php.md` follow it; a bare `Exception` under `use Vendor\Exception` is `Vendor\Exception` where it is named, but a receiver typed by it is the built-in one (`class_ref` asks `stdlib` before it reports the alias).

## 7. Plan

Done: the graph and its refinements; saved graphs, the analysis and the script
around it; the Rust and the PHP resolver; the adapter pipeline; the value-flow
pass; the visitors and adapters of Go, Rust, PHP, Python and TypeScript.

What is left, in order:

1. From the lookups of the PHP symbol table to its answers: `AnswersOfThisProject` as a theorem, once the walks of `PhpResolver` over expressions are recursive functions; what they record comes from lookups that are proved about.
2. Sessions of the Go and TypeScript bridges, as native resolvers of the pipeline.
3. Several modules or crates in one tree, nested roots and who owns a file.
4. Pure algorithms against reference definitions: SCIP decoding, the ties of the span index, the library's diff and JSON round trip.

## Not modelled

- *C and C++* (`src/cfamily`): the largest visitor. What decides its result is macro erasure and declarations guessed from broken parses, which depend on characters that a model abstracts away.
- *YAML*: one pass over documents without a resolver; nothing of it depends on order.
- *Boundaries and detectors*: normalising routes and topics to keys is string work. What they leave in the graph is in `GraphStore` (`link_boundaries`).
- *Bridges, embedded ty, `--prepare`, `doctor`*: calls into other programs, taken as answers that may be missing or wrong (`AdapterPipeline`); their sessions are in the plan.
- *Exporters, reports, serialization*: renderings of a graph; only when and where they are written is in `SavedGraphs`.
- *Identifiers, Python object layer, PyO3 stand-ins, package stubs, tests, benchmarks*: no behaviour of their own that a property here tells apart.
- *Parsing and type checking*: the tree-sitter grammars and the checkers behind the resolvers are other projects.
