---------------------------- MODULE ExfatVolume ----------------------------
(***************************************************************************)
(* exFAT (rc-fs exfat): entry sets, runs that need no chain, and the walk. *)
(* A set is a file slot, its stream slot and its name slots; deleting it   *)
(* clears the in-use bit of each and nothing else.                         *)
(*                                                                         *)
(* A volume v is [root, fat, dirs, count, bad], with clusters numbered     *)
(* from 2; a slot's kind is its type byte without the in-use bit.          *)
(***************************************************************************)
EXTENDS Volume

FileSlot(used, secondaries, dir, sum_ok) ==
  [slot |-> "file", used |-> used, secondaries |-> secondaries, dir |-> dir,
   sum_ok |-> sum_ok]
Stream(first, clusters, no_fat_chain, name_length) ==
  [slot |-> "stream", first |-> first, clusters |-> clusters,
   no_fat_chain |-> no_fat_chain, name_length |-> name_length]
NameSlot(units) == [slot |-> "name", units |-> units]
OtherSlot       == [slot |-> "other"]

\* parse_entry_set at slot i: what follows the file slot is taken by its count,
\* whatever its own in-use bits say; a wrong checksum is only noted.
ParseEntrySet(slots, i) ==
  LET f == slots[i]
      s == slots[i + 1]
      names == SelectSeq(SubSeq(slots, i + 2, i + f.secondaries),
                         LAMBDA x : x.slot = "name")
      units == FlattenSeq([k \in DOMAIN names |-> names[k].units])
  IN  IF \/ f.slot # "file" \/ f.secondaries < 2
         \/ i + f.secondaries > Len(slots) \/ s.slot # "stream"
        THEN None
        ELSE [used |-> f.used, dir |-> f.dir, first |-> s.first, clusters |-> s.clusters,
              no_fat_chain |-> s.no_fat_chain, sum_ok |-> f.sum_ok,
              name |-> SubSeq(units, 1, LesserOf(s.name_length, Len(units))),
              slots |-> 1 + f.secondaries]

\* A slot that starts no set is stepped over.
Consumed(set) == IF set = None THEN 1 ELSE set.slots

\* The sets of a directory, past its end marker too.
RECURSIVE SetsFrom(_, _)
SetsFrom(slots, i) ==
  IF i > Len(slots) THEN <<>>
  ELSE LET set == ParseEntrySet(slots, i) IN
       (IF set # None /\ set.name # <<>> THEN <<set>> ELSE <<>>)
         \o SetsFrom(slots, i + Consumed(set))

\* fat_next, and chain: a run by declaration, or the FAT; no end of the volume.
ExfatNext(v, c) == IF c \in DOMAIN v.fat THEN v.fat[c] ELSE None

RECURSIVE ExfatFollow(_, _, _)
ExfatFollow(v, c, out) ==
  IF c = None \/ c < 2 \/ Len(out) >= MaxDirClusters \/ c \in Range(out) THEN out
  ELSE ExfatFollow(v, ExfatNext(v, c), Append(out, c))

ExfatChain(v, start, no_fat_chain, needed) ==
  IF no_fat_chain
    THEN [k \in 1 .. LesserOf(needed, MaxDirClusters) |-> start + k - 1]
    ELSE ExfatFollow(v, start, <<>>)

\* to_entry: a run by declaration outlives the deletion, a chain does not.
ExfatLocation(v, set) ==
  CASE set.dir \/ set.first < 2 -> Unknown
    [] ~set.dir /\ set.first >= 2 /\ set.no_fat_chain ->
         Runs(<<Extent(set.first, GreaterOf(set.clusters, 1))>>)
    [] ~set.dir /\ set.first >= 2 /\ ~set.no_fat_chain /\ set.used ->
         Runs(RunsFromClusters(ExfatChain(v, set.first, FALSE, 0)))
    [] OTHER -> FirstOnly(set.first)

ExfatEntry(v, set, prefix) ==
  [path |-> Append(prefix, set.name), first |-> set.first, dir |-> set.dir,
   no_fat_chain |-> set.no_fat_chain, deleted |-> ~set.used, confidence |-> "traversed", location |-> ExfatLocation(v, set)]

\* A cluster past the volume reads as zeroes past the device: no slots.
ExfatRead(v, cs) ==
  FlattenSeq([i \in DOMAIN cs |-> IF cs[i] \in DOMAIN v.dirs THEN v.dirs[cs[i]] ELSE <<>>])

\* walk_directory: the sets of this directory, then each subdirectory whose
\* first cluster was not walked before, deleted ones by what is left of them.
RECURSIVE ExfatWalk(_, _, _, _, _), ExfatSubs(_, _, _, _, _)
ExfatWalk(v, slots, prefix, depth, acc) ==
  LET sets == SetsFrom(slots, 1) IN
  IF depth > MaxDepth THEN acc
  ELSE ExfatSubs(v, SelectSeq(sets, LAMBDA s : s.dir), prefix, depth,
         [acc EXCEPT !.entries = @ \o [k \in DOMAIN sets |-> ExfatEntry(v, sets[k], prefix)]])
ExfatSubs(v, subs, prefix, depth, acc) ==
  IF subs = <<>> \/ acc.failed THEN acc
  ELSE LET s  == Head(subs)
           cs == ExfatChain(v, s.first, s.no_fat_chain, GreaterOf(s.clusters, 1))
           now == [acc EXCEPT !.visited = @ \cup {s.first}]
       IN  ExfatSubs(v, Tail(subs), prefix, depth,
             IF s.first < 2 \/ s.first \in acc.visited THEN acc
             ELSE IF Range(cs) \cap v.bad # {} THEN [now EXCEPT !.failed = TRUE]
             ELSE ExfatWalk(v, ExfatRead(v, cs), Append(prefix, s.name), depth + 1, now))

ScanExfat(v) ==
  LET chain == ExfatChain(v, v.root, FALSE, 0)
      start == [entries |-> <<>>, visited |-> {v.root}, failed |-> FALSE]
  IN  IF Range(chain) \cap v.bad # {} THEN [start EXCEPT !.failed = TRUE]
      ELSE ExfatWalk(v, ExfatRead(v, chain), <<>>, 0, start)

-----------------------------------------------------------------------------
(* Properties                                                              *)

\* The whole sets of a directory, by where they start: a file slot, the stream
\* slot it needs, and as many slots as it says.
SetStarts(slots) == {i \in DOMAIN slots : slots[i].slot = "file" /\ ParseEntrySet(slots, i) # None}

\* Sets that follow each other, with anything between them, are all listed: no
\* set is read from the middle of another or swallowed by it.  Only a set whose
\* slots were partly given to another (the checksum is only noted) can hide one.
SetsAreListed(slots) ==
  LET starts == SetStarts(slots)
      Ends(i) == i + slots[i].secondaries
  IN  (\A i, j \in starts : i < j => Ends(i) < j) =>
        LET kept == {i \in starts : ParseEntrySet(slots, i).name # <<>>} IN
        /\ Len(SetsFrom(slots, 1)) = Cardinality(kept)
        /\ \A i \in kept : ParseEntrySet(slots, i) \in Range(SetsFrom(slots, 1))

\* A volume after everything in it was deleted: the in-use bits are cleared, and
\* the chains of all but the root.
Emptied(v) ==
  [v EXCEPT
    !.dirs = [c \in DOMAIN v.dirs |-> [i \in DOMAIN v.dirs[c] |->
                IF v.dirs[c][i].slot = "file" THEN [v.dirs[c][i] EXCEPT !.used = FALSE]
                ELSE v.dirs[c][i]]],
    !.fat = [c \in DOMAIN v.fat |->
               IF c \in Range(ExfatFollow(v, v.root, <<>>)) THEN v.fat[c] ELSE None]]

\* "The name, sizes, timestamps and first cluster all survive": where directories
\* are single runs, deleting everything changes no path, and where a file was a
\* run its location neither; of a file that had a chain only the first cluster
\* is claimed, never the chain that is gone.
DeletionKeepsRuns(v) ==
  LET Kept(before, after) ==
        (\A e \in Range(before) : e.dir => e.no_fat_chain) =>
          /\ Len(after) = Len(before)
          /\ \A k \in DOMAIN before :
               /\ after[k].path = before[k].path /\ after[k].deleted
               /\ after[k].location = IF before[k].no_fat_chain \/ ~IsExact(before[k].location)
                                       THEN before[k].location ELSE FirstOnly(before[k].first)
  IN  Kept(ScanExfat(v).entries, ScanExfat(Emptied(v)).entries)
=============================================================================
