----------------------------- MODULE MCCommandLine -----------------------------
(* Files a, b and c; graphs that share node x and may disagree on it; three *)
(* languages.                                                               *)
EXTENDS CommandLine

CONSTANTS a, b, c, x, y, py, go, yaml

Saved(nodes, rels, status) ==
  [nodes |-> nodes, rels |-> rels, status |-> status, known |-> TRUE,
   recorded |-> IF status = Unset THEN {} ELSE {status}]

One == Saved(<< <<x, 1>> >>, <<"e">>, "ok")
Two == Saved(<< <<y, 1>>, <<x, 1>> >>, <<"f", "e">>, "degraded")
Other == Saved(<< <<x, 2>> >>, <<"e">>, "ok")
Foreign == Saved(<< <<y, 1>> >>, <<>>, "unreadable")
Loose == Saved(<< <<y, 2>> >>, <<>>, NotString)
Twice == Saved(<< <<x, 1>>, <<x, 1>> >>, <<>>, "ok")
Newer == [Saved(<<>>, <<>>, Unset) EXCEPT !.known = FALSE]
HandBuilt == Saved(<< <<y, 1>> >>, <<>>, Unset)

Disks == {[f \in Files |-> CASE f = a -> One [] f = b -> g [] OTHER -> h] :
            g \in {One, Two, Other, Foreign, HandBuilt, Loose}, h \in {Missing, Two, Other, Twice, Newer}}

Line(command, inputs, out) ==
  [command |-> command, inputs |-> inputs, out |-> out, disjoint |-> FALSE, strict |-> FALSE]
Disjoint(line) == [line EXCEPT !.disjoint = TRUE]
Strict(line) == [line EXCEPT !.strict = TRUE]

CommandLines ==
  {Line("merge", <<a, b>>, a), Line("merge", <<a, b, c>>, c), Disjoint(Line("merge", <<b, a>>, c)),
   Line("diff", <<a, b>>, Missing), Line("diff", <<c, a>>, Missing),
   Strict(Line("export", <<a>>, Missing)), Strict(Line("report", <<c>>, c)),
   Strict(Line("export", <<b>>, a))}

Graph(nodes, status, queries) == [nodes |-> nodes, status |-> status, queries |-> queries]

MCGraphs ==
  {Graph([id \in {x, y} |-> 1], "ok", 2), Graph([id \in {x} |-> 2], "degraded", 5),
   Graph([id \in {y} |-> 1], "ok", 3), Graph([id \in {} |-> 1], "unavailable", 0)}

MCALL == <<py, go, yaml>>
MCRequests == {<<>>, <<py>>, <<go, py>>, <<yaml, go, py>>}
NoLanguages == <<>>
NoRequests == {<<>>}
MCFreshDisks == {[f \in Files |-> IF f = c THEN Missing ELSE One]}
================================================================================
