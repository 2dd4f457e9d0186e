------------------------------ MODULE SyntaxTree ------------------------------
(***************************************************************************)
(* What every visitor starts from: the tree tree-sitter parsed a file      *)
(* into, and the walks of src/src/ts.rs over it.                           *)
(*                                                                         *)
(* The tokens of a file are numbered in source order, so a token's number  *)
(* is its position, a node spans the numbers from its own to its `end`,    *)
(* and a walk is a set of numbers, taken in source order.                  *)
(***************************************************************************)
EXTENDS Integers, Sequences, FiniteSets

VARIABLE tree   (* the file a visitor is in: Seq(Token) *)

(* A token: its grammar kind, its text, the field of its parent it fills,  *)
(* its parent (0 for the root), the last token it spans, and what only the *)
(* language's rules know: the label of the declaration its name stands     *)
(* for ("" when it is none), and whether this is that declaration.         *)

(* A tree as a term, whose children are paired with the fields they fill.  *)
Term(kind, text, den, decl, kids) ==
  [kind |-> kind, text |-> text, den |-> den, decl |-> decl, kids |-> kids]
N(kind, kids) == Term(kind, "", "", FALSE, kids)
Leaf(kind, text, den) == Term(kind, text, den, FALSE, <<>>)
Declaring(kind, text, den) == Term(kind, text, den, TRUE, <<>>)

RECURSIVE Size(_), SizeAll(_)
Size(term) == 1 + SizeAll(term.kids)
SizeAll(kids) == IF kids = <<>> THEN 0 ELSE Size(Head(kids)[2]) + SizeAll(Tail(kids))

RECURSIVE LaidOut(_, _, _, _), LaidOutAll(_, _, _)
LaidOut(term, field, up, at) ==
  <<[kind |-> term.kind, text |-> term.text, den |-> term.den, decl |-> term.decl,
     field |-> field, up |-> up, end |-> at + Size(term) - 1]>>
    \o LaidOutAll(term.kids, at, at + 1)
LaidOutAll(kids, up, at) ==
  IF kids = <<>> THEN <<>>
  ELSE LaidOut(Head(kids)[2], Head(kids)[1], up, at)
         \o LaidOutAll(Tail(kids), up, at + Size(Head(kids)[2]))

Parsed(term) == LaidOut(term, "", 0, 1)

-------------------------------------------------------------------------------
(* Around a token. *)

Root == 1
Kind(n) == tree[n].kind
Text(n) == tree[n].text
Up(n) == tree[n].up
Inside(n) == n..tree[n].end
Children(n) == {m \in Inside(n) : Up(m) = n}
Fields(n, field) == {m \in Children(n) : tree[m].field = field}
Has(n, field) == Fields(n, field) # {}
The(S) == CHOOSE n \in S : TRUE
First(S) == CHOOSE n \in S : \A m \in S : n <= m
Last(S) == CHOOSE n \in S : \A m \in S : m <= n

RECURSIVE Above(_)
Above(n) == IF Up(n) = 0 THEN {} ELSE {Up(n)} \cup Above(Up(n))

(* The tokens of some kinds in a scope; and those not inside another one.  *)
OfKinds(n, kinds) == {m \in Inside(n) : Kind(m) \in kinds}
Outermost(n, kinds) ==
  {m \in OfKinds(n, kinds) : \A a \in Above(m) : a >= n => Kind(a) \notin kinds}

(* The position of n among the members of S, from 0. *)
IndexIn(n, S) == Cardinality({m \in S : m < n})

-------------------------------------------------------------------------------
(* Loops over tokens in source order: collecting what each yields, and     *)
(* carrying a state from one to the next.  (The comparison has TLC finish  *)
(* one step before the next begins, where an argument alone would wait.)   *)
InOrder(S) == [i \in 1..Cardinality(S) |-> CHOOSE n \in S : IndexIn(n, S) = i - 1]

Gather(S, F(_)) ==
  LET tokens == InOrder(S)
      found[i \in 0..Len(tokens)] == IF i = 0 THEN <<>> ELSE found[i - 1] \o F(tokens[i])
  IN  found[Len(tokens)]

Along(tokens, state, Step(_, _)) ==
  LET after[i \in 0..Len(tokens)] ==
        IF i = 0 THEN <<state>>
        ELSE LET s == after[i - 1] IN IF s = <<>> THEN s ELSE <<Step(s[1], tokens[i])>>
  IN  after[Len(tokens)][1]
InTurn(S, state, Step(_, _)) == Along(InOrder(S), state, Step)

(* The same for a stack that is popped from its end: a token before those  *)
(* inside it, and siblings from right to left.                             *)
PoppedOrder(S) ==
  LET before(n) == {m \in S \ {n} : n \in Inside(m) \/ m > tree[n].end}
  IN  [i \in 1..Cardinality(S) |-> CHOOSE n \in S : Cardinality(before(n)) = i - 1]
Popped(S, state, Step(_, _)) == Along(PoppedOrder(S), state, Step)
===============================================================================
