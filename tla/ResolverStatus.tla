---------------------------- MODULE ResolverStatus ----------------------------
(***************************************************************************)
(* metadata["resolver_status"] (src/src/status.rs): how complete an        *)
(* analysis was.  "unreadable" stands for a stored value parse() rejects,  *)
(* which coerce() turns into unavailable.                                  *)
(***************************************************************************)
EXTENDS Naturals

CONSTANT Unset   (* a metadata key that is not there *)

Statuses == {"ok", "degraded", "unavailable"}
StoredStatuses == Statuses \cup {"unreadable"}

Coerce(s) == IF s \in Statuses THEN s ELSE "unavailable"
Severity(s) == CASE s = "ok" -> 0 [] s = "degraded" -> 1 [] OTHER -> 2
Combine(s, t) == IF Severity(Coerce(s)) <= Severity(Coerce(t)) THEN Coerce(t) ELSE Coerce(s)

(* Mutant: the other graph's status wins. *)
LastStatus(mine, theirs) == IF theirs = Unset THEN mine ELSE theirs

(* Mutant: the status is stored by its Debug name instead of as_str. *)
DebugName(s) == CASE s = "ok" -> "Ok" [] s = "degraded" -> "Degraded" [] OTHER -> "Unavailable"
DebugStatus(mine, theirs) ==
  CASE theirs = Unset -> mine
    [] mine = Unset -> theirs
    [] OTHER -> DebugName(Combine(mine, theirs))

(* Merging the resolver_status key of two metadata dictionaries. *)
MergedStatus(mine, theirs) ==
  CASE theirs = Unset -> mine
    [] mine = Unset -> theirs
    [] OTHER -> Combine(mine, theirs)
===============================================================================
