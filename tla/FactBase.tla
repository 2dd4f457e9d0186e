-------------------------------- MODULE FactBase --------------------------------
(***************************************************************************)
(* What a caller may count on of a Graph, whatever it is stored in: it     *)
(* knows nodes, states facts and has been judged.  Facts have no order and *)
(* no copies here; GraphStore, which keeps a list of relations by          *)
(* position, is shown to implement this.                                   *)
(***************************************************************************)
EXTENDS ResolverStatus

CONSTANTS Graphs, Ids, Contents, Absent

VARIABLES
  known,    (* known[g][id]: the content of the node, or Absent            *)
  facts,    (* facts[g]: a set of relations                                *)
  trust,    (* trust[g]: the status recorded in g, or Unset                *)
  outcome   (* whether the last call was accepted                          *)

baseVars == <<known, facts, trust, outcome>>

BInit ==
  /\ known = [g \in Graphs |-> [id \in Ids |-> Absent]]
  /\ facts = [g \in Graphs |-> {}]
  /\ trust = [g \in Graphs |-> Unset]
  /\ outcome = "ok"

(* Dropping repeats, adding a node again, asking: nothing a graph says     *)
(* changes.  A call that is refused changes nothing either.                *)
Keep == outcome' = "ok" /\ UNCHANGED <<known, facts, trust>>
Refuse == outcome' = "duplicate" /\ UNCHANGED <<known, facts, trust>>

Know(g, id, content) ==
  /\ known[g][id] = Absent
  /\ known' = [known EXCEPT ![g][id] = content]
  /\ outcome' = "ok" /\ UNCHANGED <<facts, trust>>

State(g, r) ==
  /\ facts' = [facts EXCEPT ![g] = @ \cup {r}]
  /\ outcome' = "ok" /\ UNCHANGED <<known, trust>>

Forget(g, F) ==
  /\ facts' = [facts EXCEPT ![g] = F]
  /\ outcome' = "ok" /\ UNCHANGED <<known, trust>>

Judge(g, s) ==
  /\ trust[g] = Unset
  /\ trust' = [trust EXCEPT ![g] = s]
  /\ outcome' = "ok" /\ UNCHANGED <<known, facts>>

(* Two graphs that agree become one: each node and each fact of either.    *)
Unite(g, h) ==
  /\ \A id \in Ids : Absent \in {known[g][id], known[h][id]} \/ known[g][id] = known[h][id]
  /\ known' = [known EXCEPT ![g] =
                 [id \in Ids |-> IF @[id] # Absent THEN @[id] ELSE known[h][id]]]
  /\ facts' = [facts EXCEPT ![g] = @ \cup facts[h]]
  /\ trust' = [trust EXCEPT ![g] = MergedStatus(@, trust[h])]
  /\ outcome' = "ok"

(* A link is the word of a consumer and a provider of one boundary.        *)
SameLink(r, q) == r.src = q.src /\ r.tgt = q.tgt /\ r.via = q.via
Explained(r, F) ==
  \E c, p \in F :
    /\ c.kind = "CONSUMES" /\ p.kind = "EXPOSES"
    /\ c.tgt = p.tgt /\ r.via = c.tgt
    /\ r.src = c.src /\ r.tgt = p.src /\ r.src # r.tgt

(* Links, each for a pair that had none, are stated.                       *)
Connect(g, links) ==
  /\ facts' = [facts EXCEPT ![g] = @ \cup links]
  /\ \A r \in links :
       /\ r.kind = "COMMUNICATES_WITH" /\ Explained(r, facts[g])
       /\ \A q \in facts[g] \cup links :
            q.kind = "COMMUNICATES_WITH" /\ SameLink(r, q) => q = r /\ q \notin facts[g]
  /\ outcome' = "ok" /\ UNCHANGED <<known, trust>>

(* A graph that said nothing says what another does of some ids.           *)
About(F, S) == {r \in F : r.src \in S \/ r.tgt \in S}
EndsOf(F) == UNION {{r.src, r.tgt} : r \in F}
Cut(g, h, S) ==
  /\ facts[h] = {} /\ trust[h] = Unset
  /\ known' = [known EXCEPT ![h] =
       [id \in Ids |-> IF id \in S \cup EndsOf(About(facts[g], S)) THEN known[g][id] ELSE Absent]]
  /\ facts' = [facts EXCEPT ![h] = About(facts[g], S)]
  /\ trust' = [trust EXCEPT ![h] = trust[g]]
  /\ outcome' = "ok"

BNext ==
  \/ Keep \/ Refuse
  \/ \E g \in Graphs :
       \/ \E id \in Ids, content \in Contents : Know(g, id, content)
       \/ \E r \in facts'[g] : State(g, r)
       \/ \E F \in SUBSET facts[g] : Forget(g, F)
       \/ \E s \in StoredStatuses : Judge(g, s)
       \/ \E h \in Graphs \ {g} : Unite(g, h)
       \/ Connect(g, facts'[g] \ facts[g])
       \/ \E h \in Graphs \ {g}, S \in SUBSET Ids : Cut(g, h, S)

BSpec == BInit /\ [][BNext]_baseVars
===============================================================================
