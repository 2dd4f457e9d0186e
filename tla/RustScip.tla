------------------------------- MODULE RustScip -------------------------------
(***************************************************************************)
(* The Rust resolver (src/src/rustlang/resolver.rs): each prepare() runs   *)
(* `rust-analyzer scip` as a child process, which leaves its index in      *)
(* $TMPDIR/callix-{pid}.scip, and folds that file into lookup tables.      *)
(* callix processes are named by pid, since the file is; a process may be  *)
(* killed and another one start later under the same pid.                  *)
(***************************************************************************)
EXTENDS Naturals, Sequences, SequencesExt

CONSTANTS
  Pids,          (* process ids                                            *)
  Workspaces,    (* Cargo workspaces analysed                              *)
  IndexOf(_, _), (* IndexOf(w, part): occurrences in w's index file        *)
  Local,         (* the symbols of the form "local ..."                    *)
  NoSymbol,      (* the empty symbol                                       *)
  NoFile,        (* no file in TMPDIR                                      *)
  Nothing,       (* None                                                   *)
  MaxPrepares,   (* bound on calls of prepare                              *)
  MaxKills       (* bound on processes killed                              *)

(* None is no workspace and no exit code. *)
ASSUME NothingAssumption == Nothing \notin Workspaces \cup {0, 1}
(* An index file is a sequence of occurrences. *)
ASSUME IndexAssumption ==
  \A w \in Workspaces, part \in {"empty", "partial", "whole"} :
    IndexOf(w, part) \in Seq(ToSet(IndexOf(w, part)))

VARIABLES
  temp,      (* temp[p]: the file callix-{p}.scip: NoFile or [of, part]    *)
  child,     (* child[p]: the workspace p's rust-analyzer works on         *)
  pc,        (* pc[p]: ready, locating, waiting, reading or removing       *)
  code,      (* code[p]: the child's exit code, Nothing when killed        *)
  data,      (* data[p]: the bytes read in the last prepare, or Nothing    *)
  resolver,  (* resolver[p]: root, status and tables of a RustResolver     *)
  prepares, kills

vars == <<temp, child, pc, code, data, resolver, prepares, kills>>

-------------------------------------------------------------------------------
(* The tables.  Interning of paths and symbols is left out.                *)

EmptyTables == [docs |-> {}, by_doc |-> <<>>, defs |-> <<>>, local_defs |-> <<>>]

(* HashMap::insert, and entry(..).or_insert, which keeps what is there.    *)
Insert(m, x, y) == [k \in DOMAIN m \cup {x} |-> IF k = x THEN y ELSE m[k]]
OrInsert(m, x, y) == IF x \in DOMAIN m THEN m ELSE Insert(m, x, y)

(* Mutant: a later definition replaces an earlier one, and locals of all   *)
(* documents share one name space.                                         *)
IngestGlobally(tables, o) ==
  IF o.symbol = NoSymbol THEN tables ELSE
  [docs |-> tables.docs \cup {o.doc},
   by_doc |-> Insert(tables.by_doc, <<o.doc, o.at>>, o.symbol),
   defs |-> IF ~ o.defines THEN tables.defs
            ELSE Insert(tables.defs, o.symbol, <<o.doc, o.at>>),
   local_defs |-> IF ~ o.defines THEN tables.local_defs
                  ELSE LET here == {<<d, o.symbol>> : d \in tables.docs \cup {o.doc}}
                       IN [k \in DOMAIN tables.local_defs \cup here |->
                             IF k \in here THEN o.at ELSE tables.local_defs[k]]]

(* One occurrence: the last symbol at a position wins, the first           *)
(* definition of a symbol stays.                                           *)
Ingest(tables, o) ==
  IF o.symbol = NoSymbol THEN tables ELSE
  [docs |-> tables.docs \cup {o.doc},
   by_doc |-> Insert(tables.by_doc, <<o.doc, o.at>>, o.symbol),
   defs |-> IF ~ o.defines \/ o.symbol \in Local THEN tables.defs
            ELSE OrInsert(tables.defs, o.symbol, <<o.doc, o.at>>),
   local_defs |-> IF ~ o.defines \/ o.symbol \notin Local THEN tables.local_defs
                  ELSE OrInsert(tables.local_defs, <<o.doc, o.symbol>>, o.at)]

(* ingest of a whole index file, of which rust-analyzer may have left      *)
(* nothing, a part, or all.                                                *)
Parts == {"empty", "partial", "whole"}
TablesOf ==
  [w \in Workspaces |->
     [part \in Parts |-> FoldLeft(Ingest, EmptyTables, IndexOf(w, part))]]
Tables(file) == TablesOf[file.of][file.part]

Found(kind, doc, at, symbol) == [kind |-> kind, doc |-> doc, at |-> at, symbol |-> symbol]

(* symbol_to_ref: a local's definition is looked for in its own document;  *)
(* a symbol defined nowhere in the index is external.                      *)
SymbolToRef(tables, symbol, doc) ==
  CASE symbol \in Local /\ <<doc, symbol>> \in DOMAIN tables.local_defs ->
         Found("local", doc, tables.local_defs[<<doc, symbol>>], symbol)
    [] symbol \in Local /\ <<doc, symbol>> \notin DOMAIN tables.local_defs -> Nothing
    [] symbol \notin Local /\ symbol \in DOMAIN tables.defs ->
         Found("internal", tables.defs[symbol][1], tables.defs[symbol][2], symbol)
    [] OTHER -> Found("external", Nothing, Nothing, symbol)

ResolveOne(r, doc, at) ==
  IF r.root = Nothing \/ <<doc, at>> \notin DOMAIN r.tables.by_doc THEN Nothing
  ELSE SymbolToRef(r.tables, r.tables.by_doc[<<doc, at>>], doc)

-------------------------------------------------------------------------------
(* The processes. *)

Fresh == [root |-> Nothing, status |-> "unavailable", tables |-> EmptyTables]

Init ==
  /\ temp = [p \in Pids |-> NoFile]
  /\ child = [p \in Pids |-> Nothing]
  /\ pc = [p \in Pids |-> "ready"]
  /\ code = [p \in Pids |-> Nothing]
  /\ data = [p \in Pids |-> Nothing]
  /\ resolver = [p \in Pids |-> Fresh]
  /\ prepares = 0 /\ kills = 0

(* Mutant: the tables of the previous prepare stay. *)
ResetStatusOnly(p, w) ==
  resolver' = [resolver EXCEPT ![p].root = w, ![p].status = "unavailable"]

Reset(p, w) == resolver' = [resolver EXCEPT ![p] = [Fresh EXCEPT !.root = w]]

(* prepare forgets the last one before anything is run.                    *)
Prepare(p, w) ==
  /\ pc[p] = "ready"
  /\ prepares < MaxPrepares
  /\ prepares' = prepares + 1
  /\ Reset(p, w)
  /\ data' = [data EXCEPT ![p] = Nothing]
  /\ code' = [code EXCEPT ![p] = Nothing]
  /\ pc' = [pc EXCEPT ![p] = "locating"]
  /\ UNCHANGED <<temp, child, kills>>

(* resolve_ra_binary has its answer, and rust-analyzer is spawned.  When   *)
(* that fails run_scip returns: nothing is read and nothing removed.  The  *)
(* answer is waited for without a deadline: `rustup which` may never exit. *)
ResolveBinary(p) ==
  /\ pc[p] = "locating"
  /\ \/ /\ child' = [child EXCEPT ![p] = resolver[p].root]
        /\ pc' = [pc EXCEPT ![p] = "waiting"]
     \/ /\ pc' = [pc EXCEPT ![p] = "ready"]
        /\ UNCHANGED child
  /\ UNCHANGED <<temp, code, data, resolver, prepares, kills>>

(* rust-analyzer creates its output, then fills it. *)
ChildWrites(p) ==
  /\ child[p] # Nothing
  /\ \E part \in Parts :
       temp' = [temp EXCEPT ![p] = [of |-> child[p], part |-> part]]
  /\ UNCHANGED <<child, pc, code, data, resolver, prepares, kills>>

(* It exits with 0 once the whole index is written, or fails at any point. *)
ChildExits(p) ==
  /\ child[p] # Nothing
  /\ \/ /\ code' = [code EXCEPT ![p] = 0]
        /\ temp' = [temp EXCEPT ![p] = [of |-> child[p], part |-> "whole"]]
     \/ /\ code' = [code EXCEPT ![p] = 1]
        /\ UNCHANGED temp
  /\ child' = [child EXCEPT ![p] = Nothing]
  /\ pc' = [pc EXCEPT ![p] = "reading"]
  /\ UNCHANGED <<data, resolver, prepares, kills>>

(* Mutant: the wait has no deadline. *)
WaitsForever(p) == FALSE /\ UNCHANGED vars

(* wait_with_timeout: SCIP_TIMEOUT is over; kill the child and reap it. *)
TimesOut(p) ==
  /\ pc[p] = "waiting" /\ child[p] # Nothing
  /\ child' = [child EXCEPT ![p] = Nothing]
  /\ pc' = [pc EXCEPT ![p] = "reading"]
  /\ UNCHANGED <<temp, code, data, resolver, prepares, kills>>

(* An empty file counts as none. *)
ReadIndex(p) ==
  /\ pc[p] = "reading"
  /\ data' = [data EXCEPT ![p] =
       IF temp[p] = NoFile \/ (temp[p] # NoFile /\ temp[p].part = "empty")
       THEN Nothing ELSE temp[p]]
  /\ pc' = [pc EXCEPT ![p] = "removing"]
  /\ UNCHANGED <<temp, child, code, resolver, prepares, kills>>

(* Mutant: any index that can be read counts as complete. *)
StatusOfTables(tables, exit) == IF tables.docs = {} THEN "degraded" ELSE "ok"

StatusOf(tables, exit) == IF tables.docs # {} /\ exit = 0 THEN "ok" ELSE "degraded"

(* remove_file, then the rest of prepare. *)
RemoveAndIngest(p) ==
  /\ pc[p] = "removing"
  /\ temp' = [temp EXCEPT ![p] = NoFile]
  /\ IF data[p] = Nothing THEN UNCHANGED resolver
     ELSE LET tables == Tables(data[p])
          IN resolver' = [resolver EXCEPT ![p].tables = tables,
                                          ![p].status = StatusOf(tables, code[p])]
  /\ pc' = [pc EXCEPT ![p] = "ready"]
  /\ UNCHANGED <<child, code, data, prepares, kills>>

(* The process is killed; what rust-analyzer wrote stays in TMPDIR for     *)
(* whoever gets the pid next.  (A rust-analyzer that outlives its callix   *)
(* is taken to be done by then.)                                           *)
Kill(p) ==
  /\ kills < MaxKills
  /\ kills' = kills + 1
  /\ child' = [child EXCEPT ![p] = Nothing]
  /\ pc' = [pc EXCEPT ![p] = "ready"]
  /\ code' = [code EXCEPT ![p] = Nothing]
  /\ data' = [data EXCEPT ![p] = Nothing]
  /\ resolver' = [resolver EXCEPT ![p] = Fresh]
  /\ UNCHANGED <<temp, prepares>>

Next ==
  \E p \in Pids :
    \/ \E w \in Workspaces : Prepare(p, w)
    \/ ResolveBinary(p)
    \/ ChildWrites(p) \/ ChildExits(p) \/ TimesOut(p)
    \/ ReadIndex(p) \/ RemoveAndIngest(p)
    \/ Kill(p)

(* The wait loop's deadline passes, and callix runs on; nothing is assumed *)
(* of rust-analyzer, nor of rustup, which may never answer.                *)
Fairness ==
  \A p \in Pids : /\ WF_vars(TimesOut(p))
                  /\ WF_vars(ReadIndex(p)) /\ WF_vars(RemoveAndIngest(p))

Spec == Init /\ [][Next]_vars /\ Fairness

-------------------------------------------------------------------------------
(* Properties. *)

(* `ok` is a promise: the tables are the whole index of the workspace      *)
(* prepared last, whatever earlier runs and killed processes left behind.  *)
(* What --strict and strict=True rely on.                                  *)
OkIsWhole ==
  \A p \in Pids : resolver[p].status = "ok" =>
    resolver[p].tables = Tables([of |-> resolver[p].root, part |-> "whole"])

(* A resolver that calls itself unavailable answers nothing: not from an   *)
(* earlier prepare of another workspace, not from a file it did not read.  *)
UnavailableIsSilent ==
  \A p \in Pids : resolver[p].status = "unavailable" => resolver[p].tables = EmptyTables

(* What the occurrences say of the position of the i-th: the last symbol   *)
(* there, and its first definition, within the document for a local.       *)
Answers(answer, occs, i) ==
  LET Named == {j \in DOMAIN occs : occs[j].symbol # NoSymbol}
      o == occs[i]
      at == {j \in Named : occs[j].doc = o.doc /\ occs[j].at = o.at}
      symbol == occs[CHOOSE j \in at : \A k \in at : k <= j].symbol
      sites == {j \in Named : /\ occs[j].symbol = symbol /\ occs[j].defines
                              /\ symbol \in Local => occs[j].doc = o.doc}
      site == occs[CHOOSE j \in sites : \A k \in sites : j <= k]
  IN IF sites = {}
     THEN answer = IF symbol \in Local THEN Nothing
                   ELSE Found("external", Nothing, Nothing, symbol)
     ELSE answer = Found(IF symbol \in Local THEN "local" ELSE "internal",
                         site.doc, site.at, symbol)

(* What a query at a position is answered is what the occurrences say of   *)
(* it.  In particular an answer always points at a definition.             *)
AnswersAreDefinitions ==
  \A p \in Pids : pc[p] = "ready" /\ data[p] # Nothing =>
    LET occs == IndexOf(data[p].of, data[p].part)
    IN \A i \in DOMAIN occs : occs[i].symbol # NoSymbol =>
         Answers(ResolveOne(resolver[p], occs[i].doc, occs[i].at), occs, i)

(* A rust-analyzer that hangs does not hang the analysis: once it is       *)
(* spawned, prepare comes to an end.  (Before that it may wait for rustup  *)
(* for ever.)                                                              *)
Indexing == {"waiting", "reading", "removing"}
IndexingEnds == \A p \in Pids : pc[p] \in Indexing ~> pc[p] = "ready"

(* "Builds the SCIP index for the workspace", and when rust-analyzer fails *)
(* what it ingests is the partial index rust-analyzer left (resolver.rs):  *)
(* whatever the tables hold is about the workspace prepared.               *)
IndexIsOfRoot ==
  \A p \in Pids : pc[p] = "ready" /\ data[p] # Nothing => data[p].of = resolver[p].root
===============================================================================
