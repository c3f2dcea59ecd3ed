----------------------------- MODULE MCViewQuery -----------------------------
(***************************************************************************)
(* xdu-view's queries over every index a small tree can give: which files  *)
(* were there when it was crawled is chosen at the start, and then the     *)
(* filters change from one query to the next.                              *)
(***************************************************************************)
EXTENDS View

CONSTANTS p, t, h, d, u, f, g, long  \* names; u is d with a character made "_"

\* Files that can be there; no path is the directory of another.
Files == {
  [partition |-> p,    path |-> <<p, long>>,       size |-> 1,  atime |-> 3],
  [partition |-> p,    path |-> <<p, d, g>>,       size |-> 2,  atime |-> -1],
  [partition |-> p,    path |-> <<p, d, h, f>>,    size |-> 4,  atime |-> 2],
  [partition |-> p,    path |-> <<p, d, h, g>>,    size |-> 8,  atime |-> 1],
  [partition |-> p,    path |-> <<p, u, f>>,       size |-> 16, atime |-> 2],
  [partition |-> t,    path |-> <<t, f>>,          size |-> 32, atime |-> 2],
  [partition |-> Root, path |-> <<f>>,             size |-> 64, atime |-> 1]}

FilterChoices ==
  {NoFilters,
   [NoFilters EXCEPT !.MinSize = 4],
   [NoFilters EXCEPT !.OlderThan = 2],
   [NoFilters EXCEPT !.MaxSize = 16, !.NewerThan = 2],
   [NoFilters EXCEPT !.Pattern = {<<p, d, h, f>>, <<p, d, g>>}]}

QueriesInit ==
  rows \in SUBSET Files \ {{}} /\ faults = TRUE /\ recrawls = 0 /\ app = AppNew
QueriesNext ==
  /\ app' \in {[AppNew EXCEPT !.filters = c] : c \in FilterChoices}
  /\ UNCHANGED <<rows, faults, recrawls>>
=============================================================================
