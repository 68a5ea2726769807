---------------------------- MODULE ResultsStore ----------------------------
(***************************************************************************)
(* The store behind the results grid (rc-results lib.rs): rows in SQLite   *)
(* under ids SQLite hands out, and the one view every grid pages through.  *)
(* Every operation runs under the application's mutex.                     *)
(***************************************************************************)
EXTENDS Lists, SequencesExt

CONSTANT Filters     \* what a grid may ask to see: [kinds, sorted]

Identity == [kinds |-> {}, sorted |-> FALSE]

VARIABLES
  rows,   \* id -> [scan, kind, n], the row's source, kind and place in its scan
  view    \* View: every row by id, or a list of ids

store == <<rows, view>>

Ids   == DOMAIN rows

MaxId == Max(Ids \cup {0})
Total == Cardinality(Ids)

All(n)    == [all |-> TRUE, n |-> n, ids |-> <<>>]
OfIds(s)  == [all |-> FALSE, n |-> Len(s), ids |-> s]

StoreInit == rows = <<>> /\ view = All(0)

\* Opening the database again: the rows are as they were.
Open == UNCHANGED rows /\ view' = All(MaxId)

\* Mutant: the grid goes on paging through the view of the rows that are gone.
ClearRowsOnly == rows' = <<>> /\ UNCHANGED view

Clear == rows' = <<>> /\ view' = All(0)

\* One transaction; SQLite's next id is one above the largest.  Whatever filter
\* was set is dropped.
Add(new) ==
  /\ rows' = [id \in Ids \cup MaxId + 1 .. MaxId + Len(new) |->
                IF id \in Ids THEN rows[id] ELSE new[id - MaxId]]
  /\ view' = All(Cardinality(DOMAIN rows'))

Matching(f) == {id \in Ids : f.kinds = {} \/ rows[id].kind \in f.kinds}

\* ORDER BY a column DESC, id; without a sort, by id.
Before(f, i, j) ==
  IF f.sorted /\ rows[i].n # rows[j].n THEN rows[i].n > rows[j].n ELSE i < j

OrderOf(f) == {p \in Ids \X Ids : Before(f, p[1], p[2])}

SetView(f) ==
  /\ view' = IF f = Identity /\ MaxId = Total
               THEN All(MaxId)
               ELSE OfIds(InOrder(Matching(f), OrderOf(f)))
  /\ UNCHANGED rows

\* What rows(start, count) hands out: the ids of the page that are still there.
Page(start, count) ==
  LET end == IF start + count < view.n THEN start + count ELSE view.n
      ids == IF view.all
               THEN [i \in 1 .. (IF start < end THEN end - start ELSE 0) |-> start + i]
               ELSE SubSeq(view.ids, start + 1, end)
  IN  PartOf(ids, {i \in DOMAIN ids : ids[i] \in Ids})
=============================================================================
