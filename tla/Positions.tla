------------------------------ MODULE Positions ------------------------------
(***************************************************************************)
(* Picking elements of a Rust Vec by position.  `Vec::retain`, a filtered  *)
(* `drain` and a loop that pushes what passes its tests all leave the      *)
(* chosen elements in ascending order of position; Pick says that without  *)
(* recursion, so that it can be reasoned about for every sequence.         *)
(***************************************************************************)
EXTENDS Integers, Sequences, FiniteSets

(* The k-th smallest member of a finite set K of positions. *)
Nth(K, k) == CHOOSE i \in K : Cardinality({j \in K : j <= i}) = k

(* The elements of s at the positions K, in order. *)
Pick(s, K) == [k \in 1..Cardinality(K) |-> s[Nth(K, k)]]

(* The values a sequence holds. *)
Values(s) == {s[i] : i \in DOMAIN s}

(* Where a sequence holds x. *)
Copies(s, x) == {i \in DOMAIN s : s[i] = x}
==============================================================================
