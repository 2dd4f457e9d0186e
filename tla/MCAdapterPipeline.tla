------------------------- MODULE MCAdapterPipeline -------------------------
(***************************************************************************)
(* Two roots of one workspace.  lib has a module m with g(p), run(q), cb   *)
(* and v; app has a module n with h and w, and uses lib.                   *)
(***************************************************************************)
EXTENDS AdapterPipeline

CONSTANTS lib, app, m, g, p, run, q, cb, v, n, h, w, elsewhere, name,
          s1, s2, s3, s4, s5, s6, s7, s8, t1, t2, t3, t4, t5, t6, t7, t8, t9

MCOrders == {<<lib, app>>, <<app, lib>>, <<app>>}
MCStructure == [r \in {lib, app} |-> IF r = lib THEN {m, g, p, run, q, cb, v} ELSE {n, h, w}]
MCKindOf == [id \in {m, g, p, run, q, cb, v, n, h, w} |->
  CASE id \in {m, n} -> "MODULE"
    [] id \in {g, run, cb, h} -> "FUNCTION"
    [] id \in {p, q} -> "PARAMETER"
    [] OTHER -> "VARIABLE"]
MCParameters == [id \in DOMAIN MCKindOf |->
  CASE id = g -> <<p>> [] id = run -> <<q>> [] OTHER -> <<>>]

Use(use, site, enclosing) ==
  [use |-> use, site |-> site, enclosing |-> enclosing, named |-> Unset, arg |-> Unset]
Naming(o, id) == [o EXCEPT !.named = id]
Argument(o, call) == [o EXCEPT !.arg = <<call, 1>>]

MCUseSites == [r \in {lib, app} |-> IF r = lib THEN {
  <<>>,
  (* def g(p): p() *)
  <<Use("call", s1, g), Naming(Use("paramcall", s1, g), p)>>,
  (* v = cb; v() *)
  <<Use("alias", s2, v), Use("call", s3, g)>>,
  (* raise cb, which is also read *)
  <<Use("read", s4, g), Use("read", s4, g)>>,
  (* ({ p }) into v; v() *)
  <<Naming(Use("parameter", s8, v), p), Use("call", s3, g)>>,
  (* def g(p): p(cb); def run(q): q(); g(run) *)
  <<Use("call", s1, g), Argument(Use("read", s4, g), s1), Use("call", s5, m),
    Argument(Use("read", s6, m), s5),
    Use("call", s7, run), Naming(Use("paramcall", s7, run), q)>>}
ELSE {
  (* g(cb) *)
  <<Use("call", t1, n), Argument(Use("read", t2, n), t1)>>,
  (* g(lambda: ...) and a literal *)
  <<Use("call", t1, n), Argument(Naming(Use("lambda", t2, n), h), t1), Use("literal", t3, w)>>,
  (* import, keyword and object key *)
  <<Use("import", t3, n), Use("keyword", t4, n), Use("key", t5, n)>>,
  (* v(), of the other root; w = v *)
  <<Use("call", t6, h), Use("alias", t7, w)>>,
  (* a base class, an annotation, a noted container, f(g()) and @cb def h *)
  <<Use("base", t8, h), Use("annotation", t9, h), Use("noted", t4, n), Use("argresult", t5, n),
    Use("decorate", t2, h)>>}]

(* Where the definition of a site is. *)
Definition ==
  s1 :> p @@ s2 :> cb @@ s3 :> v @@ s4 :> cb @@ s5 :> g @@ s6 :> run @@ s7 :> q @@ t1 :> g @@ t2 :> cb
  @@ t3 :> cb @@ t4 :> w @@ t5 :> h @@ t6 :> v @@ t7 :> v @@ t8 :> run @@ t9 :> h

Internal(at) == [origin |-> "internal", at |-> at, name |-> Unset]
Library == [origin |-> "stdlib", at |-> elsewhere, name |-> name]
Unknown == [origin |-> "unknown", at |-> elsewhere, name |-> Unset]

MCAnswers(o) ==
  IF o.site \notin DOMAIN Definition THEN {Unset}
  ELSE {Internal(Definition[o.site])}
       \cup (IF o.site \in {s4, s5, s6} THEN {} ELSE {Unset})
       \cup (IF o.site \in {t1, t3, t6} THEN {Internal(m), Internal(elsewhere), Library, Unknown} ELSE {})
       \cup (IF o.site = t5 THEN {Internal(t5), Library} ELSE {})
============================================================================
