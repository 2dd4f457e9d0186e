------------------------------ MODULE MCRustScip ------------------------------
(* Two workspaces; index files with a shared position, a symbol defined    *)
(* twice, locals of one name in two documents, an external, a stray empty  *)
(* symbol, and an index with nothing in it.                                *)
EXTENDS RustScip

CONSTANTS crate, hollow, f, g, std, l, m

Occurrence(doc, at, symbol, defines) ==
  [doc |-> doc, at |-> at, symbol |-> symbol, defines |-> defines]

Whole ==
  << Occurrence("lib", 1, f, TRUE), Occurrence("lib", 1, g, FALSE),
     Occurrence("lib", 2, l, TRUE), Occurrence("lib", 3, l, FALSE),
     Occurrence("lib", 4, f, FALSE), Occurrence("lib", 5, NoSymbol, TRUE),
     Occurrence("mod", 1, l, FALSE), Occurrence("mod", 2, f, TRUE),
     Occurrence("mod", 3, m, TRUE), Occurrence("mod", 4, m, FALSE),
     Occurrence("mod", 5, std, FALSE), Occurrence("mod", 6, g, TRUE),
     Occurrence("mod", 7, l, TRUE) >>

MCIndexOf(w, part) ==
  CASE part = "empty" -> <<>>
    [] w = hollow -> << Occurrence("lib", 1, NoSymbol, TRUE) >>
    [] part = "partial" -> SubSeq(Whole, 1, 7)
    [] OTHER -> Whole
===============================================================================
