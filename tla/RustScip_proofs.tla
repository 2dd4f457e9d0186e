---------------------------- MODULE RustScip_proofs ----------------------------
(***************************************************************************)
(* What the status of the Rust resolver promises, for any processes,       *)
(* workspaces and index files, and however often callix is killed.         *)
(***************************************************************************)
EXTENDS RustScip, Positions_proofs

IndexFiles == [of : Workspaces, part : Parts]
AllTables == {EmptyTables} \cup {Tables(file) : file \in IndexFiles}

RustTypeOK ==
  /\ temp \in [Pids -> IndexFiles \cup {NoFile}]
  /\ child \in [Pids -> Workspaces \cup {Nothing}]
  /\ pc \in [Pids -> {"ready", "locating", "waiting", "reading", "removing"}]
  /\ code \in [Pids -> {0, 1, Nothing}]
  /\ data \in [Pids -> IndexFiles \cup {Nothing}]
  /\ resolver \in [Pids -> [root : Workspaces \cup {Nothing},
                            status : {"ok", "degraded", "unavailable"}, tables : AllTables]]

WholeIndex(p) == [of |-> resolver[p].root, part |-> "whole"]

(* A child works on the root prepared last, which there is before it is    *)
(* spawned; an exit code of 0 says that    *)
(* the file it left, and then the bytes read of it, are the whole index of *)
(* that root.                                                              *)
ChildServesRoot ==
  \A p \in Pids :
    /\ child[p] # Nothing => child[p] = resolver[p].root /\ pc[p] = "waiting"
    /\ pc[p] = "locating" => resolver[p].root \in Workspaces
ZeroMeansWhole ==
  \A p \in Pids : code[p] = 0 =>
    /\ pc[p] \notin {"locating", "waiting"}
    /\ pc[p] = "reading" => temp[p] = WholeIndex(p)
    /\ pc[p] = "removing" /\ data[p] # Nothing => data[p] = WholeIndex(p)

RustInv == RustTypeOK /\ ChildServesRoot /\ ZeroMeansWhole /\ OkIsWhole /\ UnavailableIsSilent

-------------------------------------------------------------------------------

LEMMA InitRust == Init => RustInv
<1> SUFFICES ASSUME Init PROVE RustInv
  OBVIOUS
<1>1. Fresh \in [root : Workspaces \cup {Nothing}, status : {"ok", "degraded", "unavailable"},
                 tables : AllTables]
  BY DEF Fresh, AllTables
<1>2. RustTypeOK
  BY <1>1 DEF Init, RustTypeOK
<1>3. ChildServesRoot /\ ZeroMeansWhole
  BY NothingAssumption DEF Init, ChildServesRoot, ZeroMeansWhole
<1>4. OkIsWhole /\ UnavailableIsSilent
  BY DEF Init, OkIsWhole, UnavailableIsSilent, Fresh
<1> QED
  BY <1>2, <1>3, <1>4 DEF RustInv

(* A new prepare forgets the last one before rust-analyzer is spawned. *)
LEMMA PrepareRust ==
  ASSUME NEW p \in Pids, NEW w \in Workspaces, RustInv, Prepare(p, w)
  PROVE  RustInv'
<1> DEFINE Cleared == [root |-> w, status |-> "unavailable", tables |-> EmptyTables]
<1>0. [Fresh EXCEPT !.root = w] = Cleared
  BY DEF Fresh
<1>1. resolver' = [resolver EXCEPT ![p] = Cleared]
  BY <1>0 DEF Prepare, Reset
<1>2. Cleared \in [root : Workspaces \cup {Nothing}, status : {"ok", "degraded", "unavailable"},
                   tables : AllTables]
  BY DEF AllTables
<1>3. RustTypeOK'
  BY <1>1, <1>2 DEF RustInv, RustTypeOK, Prepare
<1>4. resolver'[p] = Cleared /\ \A q \in Pids \ {p} : resolver'[q] = resolver[q]
  BY <1>1 DEF RustInv, RustTypeOK
<1>5. ChildServesRoot'
  BY <1>4 DEF RustInv, RustTypeOK, ChildServesRoot, Prepare
<1>6. ZeroMeansWhole'
  BY <1>4, NothingAssumption DEF RustInv, RustTypeOK, ZeroMeansWhole, Prepare, WholeIndex
<1>7. OkIsWhole' /\ UnavailableIsSilent'
  BY <1>4 DEF RustInv, OkIsWhole, UnavailableIsSilent
<1> QED
  BY <1>3, <1>5, <1>6, <1>7 DEF RustInv

(* rust-analyzer is spawned for the root of the resolver, or not at all.   *)
LEMMA ResolveRust ==
  ASSUME NEW p \in Pids, RustInv, ResolveBinary(p)
  PROVE  RustInv'
<1>1. UNCHANGED <<temp, code, data, resolver>> /\ pc[p] = "locating"
  BY DEF ResolveBinary
<1>2. resolver[p].root \in Workspaces /\ code[p] # 0
  BY <1>1 DEF RustInv, ChildServesRoot, ZeroMeansWhole
<1>3. RustTypeOK'
  BY <1>1, <1>2 DEF RustInv, RustTypeOK, ResolveBinary
<1>4. ChildServesRoot'
  BY <1>1, <1>2 DEF RustInv, RustTypeOK, ChildServesRoot, ResolveBinary
<1>5. ZeroMeansWhole'
  BY <1>1, <1>2 DEF RustInv, RustTypeOK, ZeroMeansWhole, ResolveBinary, WholeIndex
<1>6. OkIsWhole' /\ UnavailableIsSilent'
  BY <1>1 DEF RustInv, OkIsWhole, UnavailableIsSilent
<1> QED
  BY <1>3, <1>4, <1>5, <1>6 DEF RustInv

(* What the child does, and the end of its time, leave the resolver alone. *)
LEMMA ChildRust ==
  ASSUME NEW p \in Pids, RustInv, ChildWrites(p) \/ ChildExits(p) \/ TimesOut(p)
  PROVE  RustInv'
<1>1. UNCHANGED resolver
  BY DEF ChildWrites, ChildExits, TimesOut
<1>2. RustTypeOK'
  <2>1. child[p] \in Workspaces
    BY DEF RustInv, RustTypeOK, ChildWrites, ChildExits, TimesOut
  <2>2. \A part \in Parts : [of |-> child[p], part |-> part] \in IndexFiles
    BY <2>1 DEF IndexFiles
  <2>3. CASE ChildWrites(p)
    BY <2>2, <2>3 DEF RustInv, RustTypeOK, ChildWrites
  <2>4. CASE ChildExits(p)
    BY <2>2, <2>4 DEF RustInv, RustTypeOK, ChildExits, Parts
  <2>5. CASE TimesOut(p)
    BY <2>5 DEF RustInv, RustTypeOK, TimesOut
  <2> QED
    BY <2>3, <2>4, <2>5
<1>3. ChildServesRoot'
  BY <1>1 DEF RustInv, RustTypeOK, ChildServesRoot, ChildWrites, ChildExits, TimesOut
<1>4. ZeroMeansWhole'
  <2>1. child[p] = resolver[p].root /\ pc[p] = "waiting" /\ code[p] # 0
    BY DEF RustInv, ChildServesRoot, ZeroMeansWhole, ChildWrites, ChildExits, TimesOut
  <2>2. CASE ChildWrites(p)
    BY <1>1, <2>1, <2>2 DEF RustInv, RustTypeOK, ZeroMeansWhole, ChildWrites, WholeIndex
  <2>3. CASE ChildExits(p)
    BY <1>1, <2>1, <2>3 DEF RustInv, RustTypeOK, ZeroMeansWhole, ChildExits, WholeIndex
  <2>4. CASE TimesOut(p)
    BY <1>1, <2>1, <2>4 DEF RustInv, RustTypeOK, ZeroMeansWhole, TimesOut, WholeIndex
  <2> QED
    BY <2>2, <2>3, <2>4
<1>5. OkIsWhole' /\ UnavailableIsSilent'
  BY <1>1 DEF RustInv, OkIsWhole, UnavailableIsSilent
<1> QED
  BY <1>2, <1>3, <1>4, <1>5 DEF RustInv

LEMMA ReadRust ==
  ASSUME NEW p \in Pids, RustInv, ReadIndex(p)
  PROVE  RustInv'
<1>1. RustTypeOK'
  BY DEF RustInv, RustTypeOK, ReadIndex
<1>2. ChildServesRoot'
  BY DEF RustInv, RustTypeOK, ChildServesRoot, ReadIndex
<1>3. ZeroMeansWhole'
  BY DEF RustInv, RustTypeOK, ZeroMeansWhole, ReadIndex, WholeIndex
<1>4. OkIsWhole' /\ UnavailableIsSilent'
  BY DEF RustInv, OkIsWhole, UnavailableIsSilent, ReadIndex
<1> QED
  BY <1>1, <1>2, <1>3, <1>4 DEF RustInv

(* Where the status is decided: ok asks for an exit code of 0.             *)
LEMMA RemoveRust ==
  ASSUME NEW p \in Pids, RustInv, RemoveAndIngest(p)
  PROVE  RustInv'
<1>1. CASE data[p] = Nothing
  <2>1. UNCHANGED <<resolver, child, code, data>>
    BY <1>1 DEF RemoveAndIngest
  <2>2. RustTypeOK'
    BY <2>1 DEF RustInv, RustTypeOK, RemoveAndIngest
  <2>3. ChildServesRoot' /\ ZeroMeansWhole'
    BY <2>1 DEF RustInv, RustTypeOK, ChildServesRoot, ZeroMeansWhole, RemoveAndIngest, WholeIndex
  <2>4. OkIsWhole' /\ UnavailableIsSilent'
    BY <2>1 DEF RustInv, OkIsWhole, UnavailableIsSilent
  <2> QED
    BY <2>2, <2>3, <2>4 DEF RustInv
<1>2. CASE data[p] # Nothing
  <2> DEFINE tables == Tables(data[p])
             ending == StatusOf(tables, code[p])
  <2>1. tables \in AllTables
    BY <1>2 DEF RustInv, RustTypeOK, AllTables
  <2>2. /\ ending \in {"ok", "degraded"}
        /\ ending = "ok" => code[p] = 0
    BY DEF StatusOf
  <2>3. resolver' = [resolver EXCEPT ![p].tables = tables, ![p].status = ending]
    BY <1>2 DEF RemoveAndIngest
  <2> HIDE DEF tables, ending
  <2>4. /\ resolver'[p] = [root |-> resolver[p].root, status |-> ending, tables |-> tables]
        /\ \A q \in Pids \ {p} : resolver'[q] = resolver[q]
    BY <2>3 DEF RustInv, RustTypeOK
  <2>5. RustTypeOK'
    BY <2>1, <2>2, <2>3 DEF RustInv, RustTypeOK, RemoveAndIngest
  <2>6. ChildServesRoot'
    BY <2>4 DEF RustInv, RustTypeOK, ChildServesRoot, RemoveAndIngest
  <2>7. ZeroMeansWhole'
    BY <2>4 DEF RustInv, RustTypeOK, ZeroMeansWhole, RemoveAndIngest, WholeIndex
  <2>8. ending = "ok" => tables = Tables(WholeIndex(p))
    BY <1>2, <2>2 DEF RustInv, ZeroMeansWhole, RemoveAndIngest, tables
  <2>9. OkIsWhole'
    BY <2>4, <2>8 DEF RustInv, OkIsWhole, WholeIndex
  <2>10. UnavailableIsSilent'
    BY <2>2, <2>4 DEF RustInv, UnavailableIsSilent
  <2> QED
    BY <2>5, <2>6, <2>7, <2>9, <2>10 DEF RustInv
<1> QED
  BY <1>1, <1>2

(* A process that is killed leaves its file and nothing else.              *)
LEMMA KillRust ==
  ASSUME NEW p \in Pids, RustInv, Kill(p)
  PROVE  RustInv'
<1>1. Fresh \in [root : Workspaces \cup {Nothing}, status : {"ok", "degraded", "unavailable"},
                 tables : AllTables]
  BY DEF Fresh, AllTables
<1>2. RustTypeOK'
  BY <1>1 DEF RustInv, RustTypeOK, Kill
<1>3. /\ resolver'[p] = Fresh /\ child'[p] = Nothing /\ code'[p] # 0 /\ pc'[p] = "ready"
      /\ \A q \in Pids \ {p} : /\ resolver'[q] = resolver[q] /\ child'[q] = child[q]
                              /\ code'[q] = code[q] /\ data'[q] = data[q] /\ pc'[q] = pc[q]
  BY NothingAssumption DEF RustInv, RustTypeOK, Kill
<1>4. ChildServesRoot'
  BY <1>3 DEF RustInv, ChildServesRoot
<1>5. ZeroMeansWhole'
  BY <1>3 DEF RustInv, ZeroMeansWhole, WholeIndex, Kill
<1>6. OkIsWhole' /\ UnavailableIsSilent'
  BY <1>3 DEF RustInv, OkIsWhole, UnavailableIsSilent, Fresh
<1> QED
  BY <1>2, <1>4, <1>5, <1>6 DEF RustInv

LEMMA StutterRust == RustInv /\ UNCHANGED vars => RustInv'
<1> SUFFICES ASSUME RustInv, UNCHANGED vars PROVE RustInv'
  OBVIOUS
<1>1. RustTypeOK' /\ ChildServesRoot' /\ ZeroMeansWhole'
  BY DEF RustInv, RustTypeOK, ChildServesRoot, ZeroMeansWhole, WholeIndex, vars
<1>2. OkIsWhole' /\ UnavailableIsSilent'
  BY DEF RustInv, OkIsWhole, UnavailableIsSilent, vars
<1> QED
  BY <1>1, <1>2 DEF RustInv

LEMMA StepRust == RustInv /\ [Next]_vars => RustInv'
<1> SUFFICES ASSUME RustInv, [Next]_vars PROVE RustInv'
  OBVIOUS
<1>1. CASE Next
  BY <1>1, PrepareRust, ResolveRust, ChildRust, ReadRust, RemoveRust, KillRust DEF Next
<1>2. CASE UNCHANGED vars
  BY <1>2, StutterRust
<1> QED
  BY <1>1, <1>2

LEMMA RustInvariant == Spec => []RustInv
BY InitRust, StepRust, PTL DEF Spec

-------------------------------------------------------------------------------
(* Every process keeps its place: what it prepares, waits for, has read    *)
(* and holds is of the kind it should be.                                  *)
THEOREM RustTypeCorrect == Spec => []RustTypeOK
<1>1. RustInv => RustTypeOK
  BY DEF RustInv
<1> QED
  BY RustInvariant, <1>1, PTL

(* `ok` is a promise: however many processes share the temporary directory *)
(* and are killed, a resolver that says ok holds the whole index of the    *)
(* workspace it was prepared for last.                                     *)
THEOREM OkPromisesTheWholeIndex == Spec => []OkIsWhole
<1>1. RustInv => OkIsWhole
  BY DEF RustInv
<1> QED
  BY RustInvariant, <1>1, PTL

(* A resolver that calls itself unavailable has nothing to answer from.    *)
THEOREM UnavailableHoldsNothing == Spec => []UnavailableIsSilent
<1>1. RustInv => UnavailableIsSilent
  BY DEF RustInv
<1> QED
  BY RustInvariant, <1>1, PTL

-------------------------------------------------------------------------------
(* Tables over what the occurrences name. *)
Partial(X, Y) == UNION {[Z -> Y] : Z \in SUBSET X}
Places(occs) == {<<occs[i].doc, occs[i].at>> : i \in DOMAIN occs}
Symbols(occs) == {occs[i].symbol : i \in DOMAIN occs}
Locals(occs) == {<<occs[i].doc, occs[i].symbol>> : i \in DOMAIN occs}
TablesOver(occs) ==
  [docs : SUBSET {occs[i].doc : i \in DOMAIN occs},
   by_doc : Partial(Places(occs), Symbols(occs)), defs : Partial(Symbols(occs), Places(occs)),
   local_defs : Partial(Locals(occs), {occs[i].at : i \in DOMAIN occs})]

LEMMA InsertShape ==
  ASSUME NEW X, NEW Y, NEW m \in Partial(X, Y), NEW x \in X, NEW y \in Y
  PROVE  Insert(m, x, y) \in Partial(X, Y) /\ OrInsert(m, x, y) \in Partial(X, Y)
<1>1. PICK A \in SUBSET X : m \in [A -> Y] BY DEF Partial
<1>2. Insert(m, x, y) \in [A \cup {x} -> Y] BY <1>1 DEF Insert
<1>3. A \cup {x} \in SUBSET X OBVIOUS
<1>4. Insert(m, x, y) \in Partial(X, Y) BY <1>2, <1>3 DEF Partial
<1>5. QED BY <1>4 DEF OrInsert

LEMMA EmptyTablesOver ==
  ASSUME NEW occs
  PROVE  EmptyTables \in TablesOver(occs)
<1>1. \A X, Y : <<>> \in Partial(X, Y)
  <2>1. ASSUME NEW X, NEW Y PROVE <<>> \in Partial(X, Y)
    <3>1. <<>> \in [{} -> Y] OBVIOUS
    <3>2. {} \in SUBSET X OBVIOUS
    <3>3. QED BY <3>1, <3>2 DEF Partial
  <2>2. QED BY <2>1
<1>2. QED BY <1>1 DEF EmptyTables, TablesOver

LEMMA IngestOver ==
  ASSUME NEW occs, NEW t \in TablesOver(occs), NEW i \in DOMAIN occs
  PROVE  Ingest(t, occs[i]) \in TablesOver(occs)
<1> DEFINE o == occs[i]
           D == {occs[j].doc : j \in DOMAIN occs}
           A == {occs[j].at : j \in DOMAIN occs}
<1>1. /\ t.docs \in SUBSET D
      /\ t.by_doc \in Partial(Places(occs), Symbols(occs))
      /\ t.defs \in Partial(Symbols(occs), Places(occs))
      /\ t.local_defs \in Partial(Locals(occs), A)
  BY DEF TablesOver
<1>2. o.doc \in D /\ o.at \in A OBVIOUS
<1>3. <<o.doc, o.at>> \in Places(occs) /\ o.symbol \in Symbols(occs) /\ <<o.doc, o.symbol>> \in Locals(occs)
  BY DEF Places, Symbols, Locals
<1> HIDE DEF o, D, A
<1>4. Insert(t.by_doc, <<o.doc, o.at>>, o.symbol) \in Partial(Places(occs), Symbols(occs))
  BY <1>1, <1>3, InsertShape
<1>5. OrInsert(t.defs, o.symbol, <<o.doc, o.at>>) \in Partial(Symbols(occs), Places(occs))
  BY <1>1, <1>3, InsertShape
<1>6. OrInsert(t.local_defs, <<o.doc, o.symbol>>, o.at) \in Partial(Locals(occs), A)
  BY <1>1, <1>2, <1>3, InsertShape
<1>7. Ingest(t, o) \in TablesOver(occs)
  BY <1>1, <1>2, <1>4, <1>5, <1>6 DEF Ingest, TablesOver, D, A
<1>8. QED BY <1>7 DEF o

(* The tables, occurrence after occurrence. *)
Ingests(r, occs) ==
  /\ r[0] = EmptyTables
  /\ \A k \in 1..Len(occs) : r[k] = Ingest(r[k - 1], occs[k])

LEMMA IngestAlong ==
  ASSUME NEW T, NEW occs \in Seq(T)
  PROVE  \E r : /\ FoldLeft(Ingest, EmptyTables, occs) = r[Len(occs)]
                /\ \A k \in 0..Len(occs) : r[k] \in TablesOver(occs)
                /\ Ingests(r, occs)
<1> DEFINE N == Len(occs)
           S == TablesOver(occs)
           h == [p \in (1..N) \X S |-> Ingest(p[2], occs[p[1]])]
           Is(f) == f = [s \in SUBSET (1..N) |->
                           IF s = {} THEN EmptyTables
                           ELSE Ingest(f[s \ {Greatest(s)}], occs[Greatest(s)])]
           iter == CHOOSE f : Is(f)
<1>1. N \in Nat /\ DOMAIN occs = 1..N OBVIOUS
<1>2. FoldLeft(Ingest, EmptyTables, occs) = iter[1..N]
  BY <1>1 DEF FoldLeft, MapThenFoldSet, Max, Greatest
<1>3. \A k \in 1..N : \A x \in S : h[<<k, x>>] = Ingest(x, occs[k]) /\ h[<<k, x>>] \in S
  <2> HIDE DEF S, N
  <2>1. \A k \in 1..N : \A x \in S : h[<<k, x>>] = Ingest(x, occs[k]) OBVIOUS
  <2> HIDE DEF h
  <2>2. ASSUME NEW k \in 1..N, NEW x \in S PROVE Ingest(x, occs[k]) \in S
    BY <1>1, IngestOver DEF S
  <2>3. QED BY <2>1, <2>2
<1>4. PICK f \in [SUBSET (1..N) -> S] : Unwinds(f, N, EmptyTables, h)
  <2>1. EmptyTables \in S BY EmptyTablesOver
  <2> HIDE DEF S, h, N
  <2>2. QED BY <1>1, <1>3, <2>1, SetRecursionExists
<1> HIDE DEF h, S
<1>5. ASSUME NEW s \in SUBSET (1..N), s # {}
      PROVE  f[s] = Ingest(f[s \ {Greatest(s)}], occs[Greatest(s)])
  <2>1. Greatest(s) \in s /\ Topmost(s, Greatest(s)) BY <1>1, <1>5, GreatestIs
  <2>2. f[s] = h[<<Greatest(s), f[s \ {Greatest(s)}]>>] BY <1>4, <2>1 DEF Unwinds
  <2>3. f[s \ {Greatest(s)}] \in S OBVIOUS
  <2>4. QED BY <1>3, <2>1, <2>2, <2>3
<1>6. Is(f) BY <1>4, <1>5 DEF Unwinds
<1>7. Is(iter)
  <2> HIDE DEF Is
  <2>1. QED BY <1>6
<1> DEFINE r == [k \in 0..N |-> iter[1..k]]
<1>8. r[0] = EmptyTables
  <2>1. 1..0 = {} /\ {} \in SUBSET (1..N) /\ 0 \in 0..N BY <1>1
  <2> HIDE DEF iter
  <2>2. QED BY <1>7, <2>1
<1>9. ASSUME NEW k \in 1..N PROVE r[k] = Ingest(r[k - 1], occs[k])
  <2>1. 1..k \in SUBSET (1..N) /\ 1..k # {} /\ Greatest(1..k) = k /\ (1..k) \ {k} = 1..(k - 1)
    BY <1>1, PrefixTop
  <2>2. k \in 0..N /\ k - 1 \in 0..N BY <1>1
  <2> HIDE DEF iter
  <2>3. iter[1..k] = Ingest(iter[1..(k - 1)], occs[k]) BY <1>7, <2>1
  <2>4. QED BY <2>2, <2>3
<1>10. r[N] = iter[1..N] BY <1>1
<1> HIDE DEF r, Is, iter
<1>11. \A k \in 0..N : r[k] \in S
  <2> DEFINE Off == {k \in 0..N : r[k] \notin S}
  <2>1. SUFFICES ASSUME Off # {} PROVE FALSE OBVIOUS
  <2>2. PICK m \in Off : \A y \in Off : m <= y
    <3>1. Off \in SUBSET Nat BY <1>1
    <3> HIDE DEF Off
    <3>2. QED BY <2>1, <3>1, LeastNat
  <2>3. m # 0 BY <1>8, EmptyTablesOver DEF S
  <2>4. m \in 1..N /\ m - 1 \in 0..N /\ ~ (m <= m - 1) BY <2>3, <1>1
  <2>5. r[m - 1] \in S BY <2>2, <2>4
  <2>6. r[m] \in S BY <1>1, <1>9, <2>4, <2>5, IngestOver DEF S
  <2>7. QED BY <2>6
<1>12. Ingests(r, occs) BY <1>8, <1>9 DEF Ingests
<1>13. QED BY <1>2, <1>10, <1>11, <1>12 DEF S

(* What the tables say of the first n occurrences: by_doc has the last     *)
(* symbol at each position, defs the first definition of each symbol that  *)
(* is not local, local_defs that of each local of each document.           *)
NamedUpTo(occs, n) == {j \in 1..n : occs[j].symbol # NoSymbol}
DefsUpTo(occs, n) == {j \in NamedUpTo(occs, n) : occs[j].defines}

PositionsSaid(occs, n, by_doc) ==
  /\ \A d, a : <<d, a>> \in DOMAIN by_doc <=>
       \E j \in NamedUpTo(occs, n) : occs[j].doc = d /\ occs[j].at = a
  /\ \A j \in NamedUpTo(occs, n) :
       (\A k \in NamedUpTo(occs, n) : occs[k].doc = occs[j].doc /\ occs[k].at = occs[j].at => k <= j)
       => by_doc[<<occs[j].doc, occs[j].at>>] = occs[j].symbol

DefsSaid(occs, n, defs) ==
  /\ \A s : s \in DOMAIN defs <=> s \notin Local /\ \E j \in DefsUpTo(occs, n) : occs[j].symbol = s
  /\ \A j \in DefsUpTo(occs, n) :
       /\ occs[j].symbol \notin Local
       /\ \A k \in DefsUpTo(occs, n) : occs[k].symbol = occs[j].symbol => j <= k
       => defs[occs[j].symbol] = <<occs[j].doc, occs[j].at>>

LocalsSaid(occs, n, local_defs) ==
  /\ \A d, s : <<d, s>> \in DOMAIN local_defs <=>
       s \in Local /\ \E j \in DefsUpTo(occs, n) : occs[j].doc = d /\ occs[j].symbol = s
  /\ \A j \in DefsUpTo(occs, n) :
       /\ occs[j].symbol \in Local
       /\ \A k \in DefsUpTo(occs, n) :
            occs[k].doc = occs[j].doc /\ occs[k].symbol = occs[j].symbol => j <= k
       => local_defs[<<occs[j].doc, occs[j].symbol>>] = occs[j].at

AllSaid(occs, n, t) ==
  PositionsSaid(occs, n, t.by_doc) /\ DefsSaid(occs, n, t.defs) /\ LocalsSaid(occs, n, t.local_defs)

LEMMA NothingSaid == ASSUME NEW occs PROVE AllSaid(occs, 0, EmptyTables)
<1>1. NamedUpTo(occs, 0) = {} /\ DefsUpTo(occs, 0) = {} BY DEF NamedUpTo, DefsUpTo
<1>2. /\ DOMAIN EmptyTables.by_doc = {} /\ DOMAIN EmptyTables.defs = {}
      /\ DOMAIN EmptyTables.local_defs = {}
  BY DEF EmptyTables
<1>3. QED BY <1>1, <1>2 DEF AllSaid, PositionsSaid, DefsSaid, LocalsSaid

LEMMA OneMoreNamed ==
  ASSUME NEW occs, NEW n \in Nat \ {0}
  PROVE  /\ NamedUpTo(occs, n) =
              NamedUpTo(occs, n - 1) \cup (IF occs[n].symbol = NoSymbol THEN {} ELSE {n})
         /\ DefsUpTo(occs, n) =
              DefsUpTo(occs, n - 1)
                \cup (IF occs[n].symbol = NoSymbol \/ ~ occs[n].defines THEN {} ELSE {n})
         /\ DefsUpTo(occs, n - 1) \subseteq NamedUpTo(occs, n - 1)
         /\ \A j \in NamedUpTo(occs, n - 1) : j \in Nat /\ j < n
<1>1. 1..n = (1..(n - 1)) \cup {n} /\ \A j \in 1..(n - 1) : j \in Nat /\ j < n OBVIOUS
<1>2. NamedUpTo(occs, n) =
        NamedUpTo(occs, n - 1) \cup (IF occs[n].symbol = NoSymbol THEN {} ELSE {n})
  BY <1>1 DEF NamedUpTo
<1>3. DefsUpTo(occs, n) =
        DefsUpTo(occs, n - 1)
          \cup (IF occs[n].symbol = NoSymbol \/ ~ occs[n].defines THEN {} ELSE {n})
  BY <1>2 DEF DefsUpTo
<1>4. QED BY <1>1, <1>2, <1>3 DEF DefsUpTo, NamedUpTo

LEMMA MorePositionsSaid ==
  ASSUME NEW occs, NEW n \in Nat \ {0}, NEW m, PositionsSaid(occs, n - 1, m)
  PROVE  PositionsSaid(occs, n, IF occs[n].symbol = NoSymbol THEN m
                                ELSE Insert(m, <<occs[n].doc, occs[n].at>>, occs[n].symbol))
<1> DEFINE W == NamedUpTo(occs, n - 1)
           o == occs[n]
           x == <<o.doc, o.at>>
           mm == Insert(m, x, o.symbol)
<1>1. CASE o.symbol = NoSymbol
  <2>1. NamedUpTo(occs, n) = W
    <3>1. NamedUpTo(occs, n) = W \cup (IF occs[n].symbol = NoSymbol THEN {} ELSE {n})
      BY OneMoreNamed
    <3>2. QED BY <1>1, <3>1
  <2>2. QED BY <1>1, <2>1 DEF PositionsSaid
<1>2. CASE o.symbol # NoSymbol
  <2>1. NamedUpTo(occs, n) = W \cup {n} /\ \A j \in W : j \in Nat /\ j < n
    BY <1>2, OneMoreNamed
  <2>2. /\ DOMAIN mm = DOMAIN m \cup {x} /\ mm[x] = o.symbol
        /\ \A y \in DOMAIN m : y # x => mm[y] = m[y]
    BY DEF Insert
  <2>3. /\ \A d, a : <<d, a>> \in DOMAIN m <=> \E j \in W : occs[j].doc = d /\ occs[j].at = a
        /\ \A j \in W : (\A k \in W : occs[k].doc = occs[j].doc /\ occs[k].at = occs[j].at => k <= j)
             => m[<<occs[j].doc, occs[j].at>>] = occs[j].symbol
    BY DEF PositionsSaid
  <2> HIDE DEF W, mm
  <2>4. ASSUME NEW d, NEW a
        PROVE  <<d, a>> \in DOMAIN mm <=> \E j \in W \cup {n} : occs[j].doc = d /\ occs[j].at = a
    <3>1. <<d, a>> = x <=> o.doc = d /\ o.at = a OBVIOUS
    <3>2. <<d, a>> \in DOMAIN mm <=> <<d, a>> \in DOMAIN m \/ <<d, a>> = x BY <2>2
    <3>3. <<d, a>> \in DOMAIN m <=> \E j \in W : occs[j].doc = d /\ occs[j].at = a BY <2>3
    <3>4. QED BY <3>1, <3>2, <3>3
  <2>5. ASSUME NEW j \in W \cup {n},
               \A k \in W \cup {n} : occs[k].doc = occs[j].doc /\ occs[k].at = occs[j].at => k <= j
        PROVE  mm[<<occs[j].doc, occs[j].at>>] = occs[j].symbol
    <3>1. CASE j = n BY <2>2, <3>1
    <3>2. CASE j # n
      <4>1. j \in W /\ j < n /\ j \in Nat BY <2>1, <3>2
      <4>2. ~ (n <= j) BY <4>1
      <4>3. <<occs[j].doc, occs[j].at>> # x BY <2>5, <4>2
      <4>4. <<occs[j].doc, occs[j].at>> \in DOMAIN m BY <2>3, <4>1
      <4>5. m[<<occs[j].doc, occs[j].at>>] = occs[j].symbol BY <2>3, <2>5, <4>1
      <4>6. QED BY <2>2, <4>3, <4>4, <4>5
    <3>3. QED BY <3>1, <3>2
  <2>6. PositionsSaid(occs, n, mm) BY <2>1, <2>4, <2>5 DEF PositionsSaid
  <2>7. QED BY <1>2, <2>6 DEF mm
<1>3. QED BY <1>1, <1>2

LEMMA MoreDefsSaid ==
  ASSUME NEW occs, NEW n \in Nat \ {0}, NEW m, DefsSaid(occs, n - 1, m)
  PROVE  DefsSaid(occs, n,
           IF occs[n].symbol = NoSymbol \/ ~ occs[n].defines \/ occs[n].symbol \in Local THEN m
           ELSE OrInsert(m, occs[n].symbol, <<occs[n].doc, occs[n].at>>))
<1> DEFINE W == DefsUpTo(occs, n - 1)
           V == DefsUpTo(occs, n)
           o == occs[n]
           x == o.symbol
           mm == OrInsert(m, x, <<o.doc, o.at>>)
<1>1. /\ V = W \cup (IF x = NoSymbol \/ ~ o.defines THEN {} ELSE {n})
      /\ \A j \in W : j \in Nat /\ j < n
  BY OneMoreNamed
<1>2. /\ \A s : s \in DOMAIN m <=> s \notin Local /\ \E j \in W : occs[j].symbol = s
      /\ \A j \in W : /\ occs[j].symbol \notin Local
                      /\ \A k \in W : occs[k].symbol = occs[j].symbol => j <= k
                      => m[occs[j].symbol] = <<occs[j].doc, occs[j].at>>
  BY DEF DefsSaid
<1> HIDE DEF W, V
<1>3. CASE x = NoSymbol \/ ~ o.defines
  <2>1. V = W BY <1>1, <1>3
  <2>2. QED BY <1>2, <1>3, <2>1 DEF DefsSaid, V
<1>4. CASE x # NoSymbol /\ o.defines /\ x \in Local
  <2>1. V = W \cup {n} BY <1>1, <1>4
  <2>2. \A s : s \in DOMAIN m <=> s \notin Local /\ \E j \in V : occs[j].symbol = s
    BY <1>2, <1>4, <2>1
  <2>3. \A j \in V : /\ occs[j].symbol \notin Local
                     /\ \A k \in V : occs[k].symbol = occs[j].symbol => j <= k
                     => m[occs[j].symbol] = <<occs[j].doc, occs[j].at>>
    BY <1>2, <1>4, <2>1
  <2>4. DefsSaid(occs, n, m) BY <2>2, <2>3 DEF DefsSaid, V
  <2>5. QED BY <1>4, <2>4
<1>5. CASE x # NoSymbol /\ o.defines /\ x \notin Local
  <2>1. V = W \cup {n} BY <1>1, <1>5
  <2>2. /\ DOMAIN mm = DOMAIN m \cup {x}
        /\ x \notin DOMAIN m => mm[x] = <<o.doc, o.at>>
        /\ \A y \in DOMAIN m : mm[y] = m[y]
    BY DEF OrInsert, Insert
  <2> HIDE DEF mm
  <2>3. \A s : s \in DOMAIN mm <=> s \notin Local /\ \E j \in V : occs[j].symbol = s
    BY <1>2, <1>5, <2>1, <2>2
  <2>4. ASSUME NEW j \in V, occs[j].symbol \notin Local,
               \A k \in V : occs[k].symbol = occs[j].symbol => j <= k
        PROVE  mm[occs[j].symbol] = <<occs[j].doc, occs[j].at>>
    <3>1. CASE j = n
      <4>1. \A k \in W : ~ (n <= k) BY <1>1
      <4>2. \A k \in W : occs[k].symbol # x BY <2>1, <2>4, <3>1, <4>1
      <4>3. x \notin DOMAIN m BY <1>2, <4>2
      <4>4. QED BY <2>2, <3>1, <4>3
    <3>2. CASE j # n
      <4>1. j \in W BY <2>1, <3>2
      <4>2. occs[j].symbol \in DOMAIN m BY <1>2, <2>4, <4>1
      <4>3. m[occs[j].symbol] = <<occs[j].doc, occs[j].at>> BY <1>2, <2>1, <2>4, <4>1
      <4>4. QED BY <2>2, <4>2, <4>3
    <3>3. QED BY <3>1, <3>2
  <2>5. DefsSaid(occs, n, mm) BY <2>3, <2>4 DEF DefsSaid, V
  <2>6. QED BY <1>5, <2>5 DEF mm
<1>6. QED BY <1>3, <1>4, <1>5

LEMMA MoreLocalsSaid ==
  ASSUME NEW occs, NEW n \in Nat \ {0}, NEW m, LocalsSaid(occs, n - 1, m)
  PROVE  LocalsSaid(occs, n,
           IF occs[n].symbol = NoSymbol \/ ~ occs[n].defines \/ occs[n].symbol \notin Local THEN m
           ELSE OrInsert(m, <<occs[n].doc, occs[n].symbol>>, occs[n].at))
<1> DEFINE W == DefsUpTo(occs, n - 1)
           V == DefsUpTo(occs, n)
           o == occs[n]
           x == <<o.doc, o.symbol>>
           mm == OrInsert(m, x, o.at)
<1>1. /\ V = W \cup (IF o.symbol = NoSymbol \/ ~ o.defines THEN {} ELSE {n})
      /\ \A j \in W : j \in Nat /\ j < n
  BY OneMoreNamed
<1>2. /\ \A d, s : <<d, s>> \in DOMAIN m <=>
             s \in Local /\ \E j \in W : occs[j].doc = d /\ occs[j].symbol = s
      /\ \A j \in W :
           /\ occs[j].symbol \in Local
           /\ \A k \in W : occs[k].doc = occs[j].doc /\ occs[k].symbol = occs[j].symbol => j <= k
           => m[<<occs[j].doc, occs[j].symbol>>] = occs[j].at
  BY DEF LocalsSaid
<1> HIDE DEF W, V
<1>3. CASE o.symbol = NoSymbol \/ ~ o.defines
  <2>1. V = W BY <1>1, <1>3
  <2>2. QED BY <1>2, <1>3, <2>1 DEF LocalsSaid, V
<1>4. CASE o.symbol # NoSymbol /\ o.defines /\ o.symbol \notin Local
  <2>1. V = W \cup {n} BY <1>1, <1>4
  <2>2. ASSUME NEW d, NEW s
        PROVE  <<d, s>> \in DOMAIN m <=>
                 s \in Local /\ \E j \in V : occs[j].doc = d /\ occs[j].symbol = s
    <3>1. <<d, s>> \in DOMAIN m <=>
            s \in Local /\ \E j \in W : occs[j].doc = d /\ occs[j].symbol = s
      BY <1>2
    <3>2. QED BY <1>4, <2>1, <3>1
  <2>3. \A j \in V :
          /\ occs[j].symbol \in Local
          /\ \A k \in V : occs[k].doc = occs[j].doc /\ occs[k].symbol = occs[j].symbol => j <= k
          => m[<<occs[j].doc, occs[j].symbol>>] = occs[j].at
    BY <1>2, <1>4, <2>1
  <2>4. LocalsSaid(occs, n, m) BY <2>2, <2>3 DEF LocalsSaid, V
  <2>5. QED BY <1>4, <2>4
<1>5. CASE o.symbol # NoSymbol /\ o.defines /\ o.symbol \in Local
  <2>1. V = W \cup {n} BY <1>1, <1>5
  <2>2. /\ DOMAIN mm = DOMAIN m \cup {x}
        /\ x \notin DOMAIN m => mm[x] = o.at
        /\ \A y \in DOMAIN m : mm[y] = m[y]
    BY DEF OrInsert, Insert
  <2> HIDE DEF mm
  <2>3. ASSUME NEW d, NEW s
        PROVE  <<d, s>> \in DOMAIN mm <=>
                 s \in Local /\ \E j \in V : occs[j].doc = d /\ occs[j].symbol = s
    <3>1. <<d, s>> = x <=> o.doc = d /\ o.symbol = s OBVIOUS
    <3>2. <<d, s>> \in DOMAIN mm <=> <<d, s>> \in DOMAIN m \/ <<d, s>> = x BY <2>2
    <3>3. <<d, s>> \in DOMAIN m <=>
            s \in Local /\ \E j \in W : occs[j].doc = d /\ occs[j].symbol = s
      BY <1>2
    <3>4. QED BY <1>5, <2>1, <3>1, <3>2, <3>3
  <2>4. ASSUME NEW j \in V, occs[j].symbol \in Local,
               \A k \in V : occs[k].doc = occs[j].doc /\ occs[k].symbol = occs[j].symbol => j <= k
        PROVE  mm[<<occs[j].doc, occs[j].symbol>>] = occs[j].at
    <3>1. CASE j = n
      <4>1. \A k \in W : ~ (n <= k) BY <1>1
      <4>2. \A k \in W : ~ (occs[k].doc = o.doc /\ occs[k].symbol = o.symbol)
        BY <2>1, <2>4, <3>1, <4>1
      <4>3. x \notin DOMAIN m BY <1>2, <4>2
      <4>4. QED BY <2>2, <3>1, <4>3
    <3>2. CASE j # n
      <4>1. j \in W BY <2>1, <3>2
      <4>2. <<occs[j].doc, occs[j].symbol>> \in DOMAIN m BY <1>2, <2>4, <4>1
      <4>3. m[<<occs[j].doc, occs[j].symbol>>] = occs[j].at BY <1>2, <2>1, <2>4, <4>1
      <4>4. QED BY <2>2, <4>2, <4>3
    <3>3. QED BY <3>1, <3>2
  <2>5. LocalsSaid(occs, n, mm) BY <2>3, <2>4 DEF LocalsSaid, V
  <2>6. QED BY <1>5, <2>5 DEF mm
<1>6. QED BY <1>3, <1>4, <1>5

(* The tables of an index file say all of its occurrences. *)
LEMMA TablesSay ==
  ASSUME NEW file \in IndexFiles
  PROVE  AllSaid(IndexOf(file.of, file.part), Len(IndexOf(file.of, file.part)), Tables(file))
<1> DEFINE occs == IndexOf(file.of, file.part)
           T == ToSet(occs)
           N == Len(occs)
<1>1. file.of \in Workspaces /\ file.part \in Parts BY DEF IndexFiles
<1>2. Tables(file) = FoldLeft(Ingest, EmptyTables, occs) BY DEF Tables, TablesOf, IndexFiles, FoldLeft, MapThenFoldSet, Max
<1>3. occs \in Seq(T) BY <1>1, IndexAssumption DEF Parts
<1> HIDE DEF T
<1>4. N \in Nat BY <1>3
<1>5. PICK r : FoldLeft(Ingest, EmptyTables, occs) = r[N] /\ Ingests(r, occs)
  <2> HIDE DEF occs, N
  <2>1. QED BY <1>3, IngestAlong DEF N
<1> HIDE DEF occs
<1>6. \A k \in 0..N : AllSaid(occs, k, r[k])
  <2> DEFINE Off == {k \in 0..N : ~ AllSaid(occs, k, r[k])}
  <2>1. SUFFICES ASSUME Off # {} PROVE FALSE OBVIOUS
  <2>2. PICK m \in Off : \A y \in Off : m <= y
    <3>1. Off \in SUBSET Nat BY <1>4
    <3> HIDE DEF Off
    <3>2. QED BY <2>1, <3>1, LeastNat
  <2>3. m # 0 BY <1>5, NothingSaid DEF Ingests
  <2>4. m \in 1..N /\ m - 1 \in 0..N /\ ~ (m <= m - 1) /\ m \in Nat \ {0} BY <2>3, <1>4
  <2>5. AllSaid(occs, m - 1, r[m - 1]) BY <2>2, <2>4
  <2>6. r[m] = Ingest(r[m - 1], occs[m]) BY <1>5, <2>4 DEF Ingests
  <2> DEFINE t == r[m - 1]
             o == occs[m]
  <2>7. /\ Ingest(t, o).by_doc = IF o.symbol = NoSymbol THEN t.by_doc
                                 ELSE Insert(t.by_doc, <<o.doc, o.at>>, o.symbol)
        /\ Ingest(t, o).defs =
             IF o.symbol = NoSymbol \/ ~ o.defines \/ o.symbol \in Local THEN t.defs
             ELSE OrInsert(t.defs, o.symbol, <<o.doc, o.at>>)
        /\ Ingest(t, o).local_defs =
             IF o.symbol = NoSymbol \/ ~ o.defines \/ o.symbol \notin Local THEN t.local_defs
             ELSE OrInsert(t.local_defs, <<o.doc, o.symbol>>, o.at)
    BY DEF Ingest
  <2>8. PositionsSaid(occs, m, Ingest(t, o).by_doc)
    BY <2>4, <2>5, <2>7, MorePositionsSaid DEF AllSaid
  <2>9. DefsSaid(occs, m, Ingest(t, o).defs) BY <2>4, <2>5, <2>7, MoreDefsSaid DEF AllSaid
  <2>10. LocalsSaid(occs, m, Ingest(t, o).local_defs)
    BY <2>4, <2>5, <2>7, MoreLocalsSaid DEF AllSaid
  <2>11. AllSaid(occs, m, r[m]) BY <2>6, <2>8, <2>9, <2>10 DEF AllSaid
  <2>12. QED BY <2>11
<1>7. AllSaid(occs, N, r[N]) BY <1>4, <1>6
<1>8. QED BY <1>2, <1>5, <1>7 DEF occs

(* The tables are asked what the occurrences say. *)
LEMMA AskedAsSaid ==
  ASSUME NEW X, NEW occs \in Seq(X), NEW r, r.root # Nothing,
         AllSaid(occs, Len(occs), r.tables),
         NEW i \in DOMAIN occs, occs[i].symbol # NoSymbol
  PROVE  Answers(ResolveOne(r, occs[i].doc, occs[i].at), occs, i)
<1> DEFINE N == Len(occs)
           Named == {j \in DOMAIN occs : occs[j].symbol # NoSymbol}
           o == occs[i]
           at == {j \in Named : occs[j].doc = o.doc /\ occs[j].at = o.at}
           top == CHOOSE j \in at : \A k \in at : k <= j
           symbol == occs[top].symbol
           sites == {j \in Named : /\ occs[j].symbol = symbol /\ occs[j].defines
                                   /\ symbol \in Local => occs[j].doc = o.doc}
           bottom == CHOOSE j \in sites : \A k \in sites : j <= k
           site == occs[bottom]
           t == r.tables
<1>1. N \in Nat /\ DOMAIN occs = 1..N OBVIOUS
<1>2. Named = NamedUpTo(occs, N) /\ DefsUpTo(occs, N) = {j \in Named : occs[j].defines}
  BY <1>1 DEF NamedUpTo, DefsUpTo
<1>3. top \in at /\ \A k \in at : k <= top
  <2>1. at \in SUBSET (1..N) /\ i \in at BY <1>1
  <2> HIDE DEF at
  <2>2. PICK m \in at : \A k \in at : k <= m BY <1>1, <2>1, GreatestIs DEF Topmost
  <2>3. QED BY <2>2
<1> HIDE DEF top
<1>4. <<o.doc, o.at>> \in DOMAIN t.by_doc /\ t.by_doc[<<o.doc, o.at>>] = symbol
  <2>1. i \in Named /\ top \in Named /\ occs[top].doc = o.doc /\ occs[top].at = o.at BY <1>3
  <2>2. \A k \in Named : occs[k].doc = occs[top].doc /\ occs[k].at = occs[top].at => k <= top
    BY <1>3, <2>1
  <2>3. PositionsSaid(occs, N, t.by_doc) BY DEF AllSaid
  <2> HIDE DEF Named
  <2>4. <<o.doc, o.at>> \in DOMAIN t.by_doc BY <1>2, <2>1, <2>3 DEF PositionsSaid
  <2>5. t.by_doc[<<occs[top].doc, occs[top].at>>] = occs[top].symbol
    BY <1>2, <2>1, <2>2, <2>3 DEF PositionsSaid
  <2>6. QED BY <2>1, <2>4, <2>5
<1>5. ResolveOne(r, o.doc, o.at) = SymbolToRef(t, symbol, o.doc) BY <1>4 DEF ResolveOne
<1>6. sites # {} => bottom \in sites /\ \A k \in sites : bottom <= k
  <2>1. sites \in SUBSET Nat BY <1>1
  <2> HIDE DEF sites
  <2>2. SUFFICES ASSUME sites # {} PROVE bottom \in sites /\ \A k \in sites : bottom <= k
    OBVIOUS
  <2>3. PICK m \in sites : \A k \in sites : m <= k BY <2>1, <2>2, LeastNat
  <2>4. QED BY <2>3
<1> HIDE DEF bottom
<1>7. \A j : j \in sites <=> /\ j \in DefsUpTo(occs, N) /\ occs[j].symbol = symbol
                             /\ symbol \in Local => occs[j].doc = o.doc
  BY <1>2
<1>8. DefsSaid(occs, N, t.defs) /\ LocalsSaid(occs, N, t.local_defs) BY DEF AllSaid
<1> HIDE DEF sites, Named, at, symbol, o, t
<1>9. CASE symbol \in Local
  <2>1. <<o.doc, symbol>> \in DOMAIN t.local_defs <=> sites # {}
    BY <1>7, <1>8, <1>9 DEF LocalsSaid
  <2>2. CASE sites = {}
    <3>1. SymbolToRef(t, symbol, o.doc) = Nothing BY <1>9, <2>1, <2>2 DEF SymbolToRef
    <3>2. QED BY <1>5, <1>9, <2>2, <3>1
             DEF Answers, site, bottom, sites, Named, at, symbol, top, o, t
  <2>3. CASE sites # {}
    <3>1. bottom \in DefsUpTo(occs, N) /\ site.symbol = symbol /\ site.doc = o.doc
      BY <1>6, <1>7, <1>9, <2>3
    <3>2. \A k \in DefsUpTo(occs, N) : occs[k].doc = site.doc /\ occs[k].symbol = site.symbol => bottom <= k
      BY <1>6, <1>7, <1>9, <2>3, <3>1
    <3>3. t.local_defs[<<site.doc, site.symbol>>] = site.at
      BY <1>8, <1>9, <3>1, <3>2 DEF LocalsSaid
    <3>4. SymbolToRef(t, symbol, o.doc) = Found("local", o.doc, site.at, symbol)
      BY <1>9, <2>1, <2>3, <3>1, <3>3 DEF SymbolToRef
    <3>5. SymbolToRef(t, symbol, o.doc) = Found("local", site.doc, site.at, symbol)
      BY <3>1, <3>4
    <3>6. QED BY <1>5, <1>9, <2>3, <3>5
             DEF Answers, site, bottom, sites, Named, at, symbol, top, o, t
  <2>4. QED BY <2>2, <2>3
<1>10. CASE symbol \notin Local
  <2>1. symbol \in DOMAIN t.defs <=> sites # {}
    BY <1>7, <1>8, <1>10 DEF DefsSaid
  <2>2. CASE sites = {}
    <3>1. SymbolToRef(t, symbol, o.doc) = Found("external", Nothing, Nothing, symbol)
      BY <1>10, <2>1, <2>2 DEF SymbolToRef
    <3>2. QED BY <1>5, <1>10, <2>2, <3>1
             DEF Answers, site, bottom, sites, Named, at, symbol, top, o, t
  <2>3. CASE sites # {}
    <3>1. bottom \in DefsUpTo(occs, N) /\ site.symbol = symbol
      BY <1>6, <1>7, <2>3
    <3>2. \A k \in DefsUpTo(occs, N) : occs[k].symbol = site.symbol => bottom <= k
      BY <1>6, <1>7, <1>10, <2>3, <3>1
    <3>3. t.defs[site.symbol] = <<site.doc, site.at>>
      BY <1>8, <1>10, <3>1, <3>2 DEF DefsSaid
    <3>4. SymbolToRef(t, symbol, o.doc) = Found("internal", site.doc, site.at, symbol)
      BY <1>10, <2>1, <2>3, <3>1, <3>3 DEF SymbolToRef
    <3>5. QED BY <1>5, <1>10, <2>3, <3>4
             DEF Answers, site, bottom, sites, Named, at, symbol, top, o, t
  <2>4. QED BY <2>2, <2>3
<1>11. QED BY <1>9, <1>10

(* A prepare that runs has a root; between prepares, the tables are those  *)
(* of the bytes read last.                                                 *)
TablesInv ==
  \A p \in Pids :
    /\ pc[p] # "ready" => resolver[p].root # Nothing
    /\ pc[p] = "locating" => data[p] = Nothing
    /\ pc[p] = "ready" /\ data[p] # Nothing =>
         resolver[p].root # Nothing /\ resolver[p].tables = Tables(data[p])

LEMMA TablesStart == Init => TablesInv
BY DEF Init, TablesInv

LEMMA TablesStep == RustInv /\ TablesInv /\ [Next]_vars => TablesInv'
<1> SUFFICES ASSUME RustInv, TablesInv, [Next]_vars PROVE TablesInv'
  OBVIOUS
<1>1. RustTypeOK BY DEF RustInv
<1>2. ASSUME NEW p \in Pids, NEW w \in Workspaces, Prepare(p, w) PROVE TablesInv'
  <2>1. w # Nothing BY NothingAssumption
  <2>2. resolver'[p].root = w /\ data'[p] = Nothing
    BY <1>1, <1>2 DEF Prepare, Reset, Fresh, RustTypeOK
  <2>3. \A q \in Pids \ {p} : resolver'[q] = resolver[q] /\ data'[q] = data[q] /\ pc'[q] = pc[q]
    BY <1>1, <1>2 DEF Prepare, Reset, RustTypeOK
  <2>4. QED BY <2>1, <2>2, <2>3 DEF TablesInv
<1>3. ASSUME NEW p \in Pids, ResolveBinary(p) PROVE TablesInv'
  <2>1. UNCHANGED <<resolver, data>> /\ data[p] = Nothing /\ resolver[p].root # Nothing
    BY <1>1, <1>3 DEF ResolveBinary, TablesInv
  <2>2. \A q \in Pids \ {p} : pc'[q] = pc[q] BY <1>1, <1>3 DEF ResolveBinary, RustTypeOK
  <2>3. QED BY <2>1, <2>2 DEF TablesInv
<1>4. ASSUME NEW p \in Pids, ChildWrites(p) \/ ChildExits(p) \/ TimesOut(p) PROVE TablesInv'
  <2>1. UNCHANGED <<resolver, data>> BY <1>4 DEF ChildWrites, ChildExits, TimesOut
  <2>2. \A q \in Pids : \/ pc'[q] = pc[q]
                        \/ pc[q] # "ready" /\ pc'[q] \notin {"ready", "locating"}
    <3>1. pc[p] = "waiting" BY <1>4 DEF ChildWrites, ChildExits, TimesOut, RustInv, ChildServesRoot
    <3>2. pc' = pc \/ pc' = [pc EXCEPT ![p] = "reading"]
      BY <1>4 DEF ChildWrites, ChildExits, TimesOut
    <3>3. DOMAIN pc = Pids BY <1>1 DEF RustTypeOK
    <3>4. QED BY <3>1, <3>2, <3>3
  <2>3. QED BY <2>1, <2>2 DEF TablesInv
<1>5. ASSUME NEW p \in Pids, ReadIndex(p) PROVE TablesInv'
  <2>1. UNCHANGED resolver /\ pc[p] # "ready" /\ pc'[p] = "removing"
    BY <1>1, <1>5 DEF ReadIndex, RustTypeOK
  <2>2. \A q \in Pids \ {p} : data'[q] = data[q] /\ pc'[q] = pc[q]
    BY <1>1, <1>5 DEF ReadIndex, RustTypeOK
  <2>3. QED BY <2>1, <2>2 DEF TablesInv
<1>6. ASSUME NEW p \in Pids, RemoveAndIngest(p) PROVE TablesInv'
  <2>1. UNCHANGED data /\ pc[p] # "ready" /\ pc'[p] = "ready"
    BY <1>1, <1>6 DEF RemoveAndIngest, RustTypeOK
  <2>2. resolver'[p].root = resolver[p].root
    BY <1>1, <1>6 DEF RemoveAndIngest, RustTypeOK
  <2>3. data[p] # Nothing => resolver'[p].tables = Tables(data[p])
    BY <1>1, <1>6 DEF RemoveAndIngest, RustTypeOK
  <2>4. \A q \in Pids \ {p} : resolver'[q] = resolver[q] /\ pc'[q] = pc[q]
    BY <1>1, <1>6 DEF RemoveAndIngest, RustTypeOK
  <2>5. QED BY <2>1, <2>2, <2>3, <2>4 DEF TablesInv
<1>7. ASSUME NEW p \in Pids, Kill(p) PROVE TablesInv'
  <2>1. data'[p] = Nothing /\ pc'[p] = "ready" BY <1>1, <1>7 DEF Kill, RustTypeOK
  <2>2. \A q \in Pids \ {p} : resolver'[q] = resolver[q] /\ data'[q] = data[q] /\ pc'[q] = pc[q]
    BY <1>1, <1>7 DEF Kill, RustTypeOK
  <2>3. QED BY <2>1, <2>2 DEF TablesInv
<1>8. CASE UNCHANGED vars BY <1>8 DEF vars, TablesInv
<1>9. QED BY <1>2, <1>3, <1>4, <1>5, <1>6, <1>7, <1>8 DEF Next

(* An answer is what the index says of the position asked about: the last  *)
(* symbol there and its first definition, whatever order rust-analyzer     *)
(* wrote its occurrences in and whatever part of the index was read.       *)
THEOREM AnswersPointAtDefinitions == Spec => []AnswersAreDefinitions
<1>1. RustInv /\ TablesInv => AnswersAreDefinitions
  <2> SUFFICES ASSUME RustInv, TablesInv, NEW p \in Pids, pc[p] = "ready", data[p] # Nothing,
                      NEW i \in DOMAIN IndexOf(data[p].of, data[p].part),
                      IndexOf(data[p].of, data[p].part)[i].symbol # NoSymbol
               PROVE  LET occs == IndexOf(data[p].of, data[p].part)
                      IN Answers(ResolveOne(resolver[p], occs[i].doc, occs[i].at), occs, i)
    BY DEF AnswersAreDefinitions
  <2> DEFINE occs == IndexOf(data[p].of, data[p].part)
  <2>1. data[p] \in IndexFiles BY DEF RustInv, RustTypeOK
  <2>2. resolver[p].root # Nothing /\ resolver[p].tables = Tables(data[p]) BY DEF TablesInv
  <2>3. AllSaid(occs, Len(occs), resolver[p].tables) BY <2>1, <2>2, TablesSay
  <2>4. occs \in Seq(ToSet(occs)) BY <2>1, IndexAssumption DEF IndexFiles, Parts
  <2>5. i \in DOMAIN occs /\ occs[i].symbol # NoSymbol OBVIOUS
  <2> HIDE DEF occs
  <2>6. QED BY <2>2, <2>3, <2>4, <2>5, AskedAsSaid DEF occs
<1>2. QED BY <1>1, RustInvariant, TablesStart, TablesStep, PTL DEF Spec
===============================================================================
