---------------------------- MODULE SqliteCarve ----------------------------
(***************************************************************************)
(* Deleted rows of a SQLite database and its write-ahead log, read without *)
(* SQLite (rc-sqlite-carve carve).  A page holds cells of rows: what a row *)
(* is in bytes is SqliteRecords.  The actions are SQLite's (external):     *)
(* transactions of one writer on one table, its log, its checkpoints, and  *)
(* crashes between any two of them.  The rowid is the first column: a row  *)
(* on disk is its text, and its cell's header its id.                      *)
(***************************************************************************)
EXTENDS Integers, Sequences, SequencesExt, FiniteSetsExt, TLC

CONSTANTS
  Ids, Texts,   \* of rows
  None,         \* no id, no text
  Cells,        \* of one leaf
  MaxPages,     \* bound: pages of the database
  MaxOps        \* bound: actions of SQLite

VARIABLES
  db,      \* the database file: its pages
  wal,     \* the log: [salt, frames]
  cache,   \* pages the open transaction changed
  truth,   \* the committed rows
  ever,    \* rows that were ever in a cell
  ops

vars == <<db, wal, cache, truth, ever, ops>>

Empty == [row |-> [id |-> None, text |-> None], state |-> "none"]
Leaf(cells) == [kind |-> "leaf", cells |-> cells]
Interior(kids) == [kind |-> "interior", kids |-> kids]
Trunk(next, leaves, cells) ==
  [kind |-> "trunk", next |-> next, leaves |-> leaves, cells |-> cells]

-----------------------------------------------------------------------------
(* carve                                                                   *)

\* Mutant: every whole frame counts as committed.
CommittedAll(frames) == Len(frames)

\* parse_wal: how many of the whole frames a commit covers.
CommittedOf(frames) ==
  Max({0} \cup {i \in DOMAIN frames : frames[i].commit # 0})

\* parse_wal: the frames before the first of another salt or with a checksum
\* that does not continue the one before.
GoodFrames(w) ==
  LET breaks == {i \in DOMAIN w.frames : w.frames[i].salt # w.salt \/ ~w.frames[i].whole}
  IN  SubSeq(w.frames, 1, Min(breaks \cup {Len(w.frames) + 1}) - 1)
Split(good, n) ==
  [committed |-> SubSeq(good, 1, n),
   uncommitted |-> SubSeq(good, n + 1, Len(good)),
   size |-> IF n = 0 THEN 0 ELSE good[n].commit]
ParseWal(w) ==
  LET SplitAt(good) == Split(good, CommittedOf(good)) IN SplitAt(GoodFrames(w))

\* Mutant: the page a frame replaces is forgotten.
ReplaceOnly(cur, f) ==
  [cur EXCEPT !.pages = [p \in DOMAIN cur.pages \cup {f.page} |->
                           IF p = f.page THEN f.image ELSE cur.pages[p]]]

\* current: the page images in force, those a later one replaced, and those of
\* no committed transaction.
Replace(cur, f) ==
  [pages |-> [p \in DOMAIN cur.pages \cup {f.page} |->
                IF p = f.page THEN f.image ELSE cur.pages[p]],
   older |-> IF f.page \in DOMAIN cur.pages
               THEN Append(cur.older, cur.pages[f.page]) ELSE cur.older]
InForce(all, log) ==
  LET beyond == IF log.size = 0 THEN {} ELSE {p \in DOMAIN all.pages : p > log.size}
      kept == DOMAIN all.pages \ beyond
  IN  [pages |-> [p \in kept |-> all.pages[p]],
       older |-> all.older \o [k \in 1 .. Cardinality(beyond) |->
                   all.pages[SetToSortSeq(beyond, <)[k]]],
       uncommitted |-> [k \in DOMAIN log.uncommitted |-> log.uncommitted[k].image]]
Current(d, w) ==
  LET Over(log) == InForce(FoldLeft(Replace, [pages |-> d, older |-> <<>>], log.committed), log)
  IN  Over(ParseWal(w))

\* walk: the pages of a b-tree, of those there are.
RECURSIVE Walk(_, _, _)
Walk(pages, stack, reached) ==
  IF stack = <<>> THEN reached
  ELSE LET p == Head(stack) IN
       IF p \in reached \/ p \notin DOMAIN pages THEN Walk(pages, Tail(stack), reached)
       ELSE Walk(pages, (IF pages[p].kind = "interior" THEN pages[p].kids ELSE <<>>)
                          \o Tail(stack), reached \cup {p})

\* The freelist: its trunk pages, from the first page's pointer on.
RECURSIVE Trunks(_, _, _)
Trunks(pages, trunk, seen) ==
  IF trunk = 0 \/ trunk \in seen \/ trunk \notin DOMAIN pages THEN seen
  ELSE Trunks(pages, pages[trunk].next, seen \cup {trunk})

HasCells(image) == image.kind \in {"leaf", "trunk"}
LiveCells(image) ==
  IF image.kind # "leaf" THEN <<>>
  ELSE SelectSeq(image.cells, LAMBDA c : c.state = "live")

\* free_space of a page in use and dead_page of any other: a row, and its id
\* where the header of its cell is still there.  Only free_space tries a record
\* without its header, as a freeblock leaves it.
Found(c) == [text |-> c.row.text,
             id |-> IF c.state = "freeblock" THEN None ELSE c.row.id]
FoundIn(image, states) ==
  IF ~HasCells(image) THEN <<>>
  ELSE LET cells == SelectSeq(image.cells, LAMBDA c : c.state \in states)
       IN  [k \in DOMAIN cells |-> Found(cells[k])]
FreeSpace(image) == FoundIn(image, {"gap", "freeblock"})
DeadPage(image) == FoundIn(image, {"gap", "live"})

\* The end of carve: rows that are live dropped, one row of each key, with an id
\* if any copy has one.
Distinct(found, live) ==
  LET Keep(rows, r) ==
        LET same == {k \in DOMAIN rows : rows[k].text = r.text} IN
        IF r.text \in live THEN rows
        ELSE IF same = {} THEN Append(rows, r)
        ELSE LET k == Min(same) IN
             IF rows[k].id = None THEN [rows EXCEPT ![k] = r] ELSE rows
  IN  FoldLeft(Keep, <<>>, found)

Carve(d, w) ==
  LET cur == Current(d, w)
      pages == cur.pages
      reached == Walk(pages, <<pages[1].root>>, {1})
      trunks == Trunks(pages, pages[1].trunk, {})
      free == trunks \cup UNION {ToSet(pages[t].leaves) : t \in trunks}
      live == UNION {{c.row : c \in ToSet(LiveCells(pages[p]))} : p \in reached \ {1}}
      order == SetToSortSeq(DOMAIN pages, <)
      found == FlattenSeq([k \in DOMAIN order |->
                 IF order[k] \in reached \ free THEN FreeSpace(pages[order[k]])
                 ELSE DeadPage(pages[order[k]])])
  IN  [live |-> live,
       recovered |-> Distinct(found
           \o FlattenSeq([k \in DOMAIN cur.older |-> DeadPage(cur.older[k])])
           \o FlattenSeq([k \in DOMAIN cur.uncommitted |-> DeadPage(cur.uncommitted[k])]),
         {r.text : r \in live})]

-----------------------------------------------------------------------------
(* SQLite                                                                  *)

NewLeaf == Leaf([i \in 1 .. Cells |-> Empty])

Init ==
  /\ db = <<[kind |-> "schema", root |-> 2, trunk |-> 0, size |-> 2], NewLeaf>>
  /\ wal = [salt |-> 0, frames |-> <<>>]
  /\ cache = <<>>
  /\ truth = {}
  /\ ever = {}
  /\ ops = 0

\* What the writer reads, of its own changes and the committed pages.
Stored == Current(db, wal).pages
Image == [p \in DOMAIN Stored \cup DOMAIN cache |->
            IF p \in DOMAIN cache THEN cache[p] ELSE Stored[p]]
Written(changes) ==
  [p \in DOMAIN cache \cup DOMAIN changes |->
     IF p \in DOMAIN changes THEN changes[p] ELSE cache[p]]
Leaves == {p \in Walk(Image, <<Image[1].root>>, {}) : Image[p].kind = "leaf"}
RowsIn == UNION {{c.row : c \in ToSet(LiveCells(Image[p]))} : p \in Leaves}

Step == ops < MaxOps /\ ops' = ops + 1

Insert ==
  /\ Step
  /\ \E p \in Leaves, i \in 1 .. Cells, r \in [id : Ids, text : Texts] :
       /\ Image[p].cells[i].state # "live"
       /\ r.id \notin {x.id : x \in RowsIn}
       /\ cache' = Written((p :> [Image[p] EXCEPT !.cells[i] = [row |-> r, state |-> "live"]]))
       /\ ever' = ever \cup {r}
  /\ UNCHANGED <<db, wal, truth>>

\* The cell stays in the gap, or its first bytes go to a freeblock's header.
Delete ==
  /\ Step
  /\ \E p \in Leaves, i \in 1 .. Cells, left \in {"gap", "freeblock"} :
       /\ Image[p].cells[i].state = "live"
       /\ cache' = Written((p :> [Image[p] EXCEPT !.cells[i].state = left]))
  /\ UNCHANGED <<db, wal, truth, ever>>

\* A page from the freelist, or a new one; and the first page after that.
Allocated(image) ==
  LET one == image[1] t == one.trunk IN
  IF t = 0 THEN [page |-> one.size + 1, first |-> [one EXCEPT !.size = @ + 1], rest |-> <<>>]
  ELSE IF image[t].leaves = <<>>
    THEN [page |-> t, first |-> [one EXCEPT !.trunk = image[t].next], rest |-> <<>>]
  ELSE [page |-> Last(image[t].leaves), first |-> one,
        rest |-> (t :> [image[t] EXCEPT !.leaves = Front(@)])]

\* A full root becomes the parent of a leaf that takes its cells and of a new
\* one; a parent takes one more.
Grown(image, root, a) ==
  (1 :> a.first) @@ a.rest @@
  (IF image[root].kind = "leaf"
     THEN (a.page :> image[root]) @@ (root :> Interior(<<a.page>>))
     ELSE (a.page :> NewLeaf) @@ (root :> [image[root] EXCEPT !.kids = Append(@, a.page)]))
Grow ==
  /\ Step
  /\ Allocated(Image).page <= MaxPages
  /\ \A p \in Leaves, i \in 1 .. Cells : Image[p].cells[i].state = "live"
  /\ cache' = Written(Grown(Image, Image[1].root, Allocated(Image)))
  /\ UNCHANGED <<db, wal, truth, ever>>

\* A leaf without rows leaves the tree: a leaf of the freelist, its page as it
\* was; or the freelist's trunk, its beginning overwritten.
Shrink ==
  LET root == Image[1].root t == Image[1].trunk IN
  /\ Step
  /\ Image[root].kind = "interior"
  /\ \E p \in Leaves :
       /\ Len(Image[root].kids) > 1
       /\ LiveCells(Image[p]) = <<>>
       /\ cache' = Written(
            (root :> [Image[root] EXCEPT !.kids = SelectSeq(@, LAMBDA k : k # p)]) @@
            (IF t # 0 THEN (t :> [Image[t] EXCEPT !.leaves = Append(@, p)])
             ELSE (1 :> [Image[1] EXCEPT !.trunk = p])
                    @@ (p :> Trunk(0, <<>>, [Image[p].cells EXCEPT ![1] = Empty]))))
  /\ UNCHANGED <<db, wal, truth, ever>>

\* The open transaction's pages go to the log after the last commit, and over
\* what was there; the last of them commits.  A crash leaves the first few.
Frames == LET order == SetToSortSeq(DOMAIN cache, <) IN
  [k \in DOMAIN order |->
     [page |-> order[k], image |-> cache[order[k]], salt |-> wal.salt, whole |-> TRUE,
      commit |-> IF k = Len(order) THEN Image[1].size ELSE 0]]
Logged(n) ==
  LET mx == Len(ParseWal(wal).committed)
      rest == SubSeq(wal.frames, mx + n + 1, Len(wal.frames))
  IN  SubSeq(wal.frames, 1, mx) \o SubSeq(Frames, 1, n)
        \o [k \in DOMAIN rest |-> [rest[k] EXCEPT !.whole = FALSE]]
Commit ==
  /\ Step
  /\ cache # <<>>
  /\ wal' = [wal EXCEPT !.frames = Logged(Len(Frames))]
  /\ truth' = RowsIn
  /\ cache' = <<>>
  /\ UNCHANGED <<db, ever>>
CrashInCommit ==
  /\ Step
  /\ cache # <<>>
  /\ \E n \in 0 .. Len(Frames) - 1 : wal' = [wal EXCEPT !.frames = Logged(n)]
  /\ cache' = <<>>
  /\ UNCHANGED <<db, truth, ever>>

\* One page of a checkpoint; it may stop after any of them.
Checkpoint ==
  /\ Step
  /\ \E p \in DOMAIN Stored :
       /\ p <= Len(db) + 1
       /\ p <= Len(db) => db[p] # Stored[p]
       /\ db' = [k \in 1 .. Max({p, Len(db)}) |-> IF k = p THEN Stored[p] ELSE db[k]]
  /\ UNCHANGED <<wal, cache, truth, ever>>

\* A writer begins the log again once all of it is in the database: a new salt,
\* the frames still there.
Restart ==
  /\ Step
  /\ cache = <<>>
  /\ ParseWal(wal).committed # <<>>
  /\ DOMAIN db = DOMAIN Stored /\ \A p \in DOMAIN db : db[p] = Stored[p]
  /\ wal' = [salt |-> 1 - wal.salt,
             frames |-> [k \in DOMAIN wal.frames |-> [wal.frames[k] EXCEPT !.whole = FALSE]]]
  /\ UNCHANGED <<db, cache, truth, ever>>

Next == Insert \/ Delete \/ Grow \/ Shrink \/ Commit \/ CrashInCommit \/ Checkpoint \/ Restart
Spec == Init /\ [][Next]_vars

-----------------------------------------------------------------------------
(* Properties                                                              *)

\* Whatever the writer was doing when the files were copied - a commit cut
\* short, half a checkpoint, a log begun again - the rows carve calls live are
\* exactly those of the last committed transaction.
LiveIsCommitted == Carve(db, wal).live = truth

\* The copies of rows the two files still hold: in the database and in the
\* frames up to the first that is not the log's.
Kept ==
  LET chained == {i \in DOMAIN wal.frames :
                    \A j \in 1 .. i : wal.frames[j].salt = wal.salt /\ wal.frames[j].whole}
  IN  UNION {IF HasCells(image) THEN {c \in ToSet(image.cells) : c.state # "none"} ELSE {} :
               image \in ToSet(db) \cup {wal.frames[i].image : i \in chained}}

\* The copies that can be told for rows: a cell whose first bytes are a
\* freeblock's by now only on a leaf of the tree in force.
Telling ==
  LET leaves == {p \in Walk(Stored, <<Stored[1].root>>, {}) : Stored[p].kind = "leaf"}
  IN  {c \in Kept : c.state # "freeblock"} \cup
      {c \in UNION {ToSet(Stored[p].cells) : p \in leaves} : c.state = "freeblock"}

\* Each text of such a copy that is in no live row is recovered once, with an
\* id it really had if a copy's cell is whole; nothing live and nothing that
\* never was is.  A row that is only left in freeblocks of pages that were freed
\* or replaced since, or of frames never committed, is lost: "What it misses"
\* (lib.rs:33) does not say so.
GoneRowsAreRecovered ==
  LET live == {r.text : r \in truth}
      Right(rows) ==
        /\ {rows[k].text : k \in DOMAIN rows} = {c.row.text : c \in Telling} \ live
        /\ \A k \in DOMAIN rows :
             /\ \A j \in DOMAIN rows : rows[j].text = rows[k].text => j = k
             /\ IF rows[k].id # None THEN [id |-> rows[k].id, text |-> rows[k].text] \in ever
                ELSE \A c \in Telling : c.row.text = rows[k].text => c.state = "freeblock"
  IN  Right(Carve(db, wal).recovered)
=============================================================================
