----------------------------- MODULE FatVolume -----------------------------
(***************************************************************************)
(* FAT12/16/32 (rc-fs fat): cluster chains, directory slots with their     *)
(* long names, and the walk of the tree, deleted directories included.     *)
(*                                                                         *)
(* A volume v is [kind, clusters, fat, root, dirs, bad]: the highest data  *)
(* cluster, the FAT as cluster -> next, the root's slots (FAT12/16) or     *)
(* first cluster (FAT32), the slots each cluster holds, and the clusters   *)
(* that cannot be read.                                                    *)
(***************************************************************************)
EXTENDS Volume

CONSTANT EndOfChain

\* ShortEntry, Lfn, and the slots nothing is made of (End, Other).  A name is
\* its parts; sum is the 8.3 checksum.
Short(name, first, dir, deleted, sum) ==
  [slot |-> "short", name |-> name, first |-> first, dir |-> dir, deleted |-> deleted,
   sum |-> sum]
Lfn(units, deleted, sum) ==
  [slot |-> "lfn", units |-> units, deleted |-> deleted, sum |-> sum]
End == [slot |-> "end"]

-----------------------------------------------------------------------------
(* The FAT                                                                 *)

\* fat_entry: past the table there is nothing.
FatEntry(v, c) == IF c \in DOMAIN v.fat THEN v.fat[c] ELSE None

\* A cluster with storage, not seen in this chain before.
GoesOn(v, c, out) ==
  c >= 2 /\ c <= v.clusters + 1 /\ Len(out) < MaxDirClusters /\ c \notin Range(out)

RECURSIVE Chain(_, _, _)
Chain(v, c, out) ==
  IF ~GoesOn(v, c, out) THEN out
  ELSE LET next == FatEntry(v, c) IN
       IF next = None \/ next = EndOfChain THEN Append(out, c)
       ELSE Chain(v, next, Append(out, c))

FollowChain(v, start) == Chain(v, start, <<>>)

-----------------------------------------------------------------------------
(* Names                                                                   *)

\* The long-name slots right before slot i, nearest first: those of the same
\* state as the 8.3 slot.
RECURSIVE LfnRun(_, _, _)
LfnRun(slots, i, deleted) ==
  IF i = 0 \/ slots[i].slot # "lfn" THEN <<>>
  ELSE IF slots[i].deleted # deleted THEN <<>>
  ELSE <<slots[i]>> \o LfnRun(slots, i - 1, deleted)

\* Up to the terminator; a part that is full has none.
UpToTerminator(units) ==
  LET ends == {i \in DOMAIN units : units[i] = "nul"} IN
  IF ends = {} THEN units ELSE SubSeq(units, 1, Min(ends) - 1)

\* rebuild_name.  The nearest slot's checksum is looked at and decides nothing
\* but the note; a deleted 8.3 name has lost its first character.
RebuildName(slots, i) ==
  LET short == slots[i]
      run   == LfnRun(slots, i - 1, short.deleted)
      long  == UpToTerminator(FlattenSeq([k \in DOMAIN run |-> run[k].units]))
  IN  [name |-> IF long # <<>> THEN long
                ELSE IF run = <<>> /\ short.deleted THEN <<"_", short.name>>
                ELSE <<short.name>>,
       validated |-> run # <<>> /\ run[1].sum = short.sum]

-----------------------------------------------------------------------------
(* The walk                                                                *)

ReadCluster(v, c) == IF c \in DOMAIN v.dirs THEN v.dirs[c] ELSE <<>>
ReadChain(v, cs)  == FlattenSeq([i \in DOMAIN cs |-> ReadCluster(v, cs[i])])

\* to_entry
Location(v, s) ==
  CASE s.dir \/ s.first < 2 -> Unknown
    [] ~s.dir /\ s.first >= 2 /\ s.deleted -> FirstOnly(s.first)
    [] OTHER -> Runs(RunsFromClusters(FollowChain(v, s.first)))

ToEntry(v, slots, i, prefix) ==
  LET s == slots[i] IN
  [path |-> Append(prefix, RebuildName(slots, i).name), first |-> s.first, dir |-> s.dir,
   deleted |-> s.deleted, location |-> Location(v, s), confidence |-> "traversed"]

\* Each first cluster is walked once, whoever names it first.
Visits(v, visited, sub) ==
  sub.first >= 2 /\ sub.first <= v.clusters + 1 /\ sub.first \notin visited

\* Mutant: a live directory's later clusters are not followed either.
FirstClusterOnly(v, sub) == <<sub.first>>

\* The chain of a deleted directory is gone: its first cluster is what is left.
Contents(v, sub) ==
  IF sub.deleted THEN <<sub.first>> ELSE FollowChain(v, sub.first)

\* walk_directory: the entries of this directory that have a name, then its
\* subdirectories in their order.  A cluster that cannot be read ends the scan.
RECURSIVE WalkDirectory(_, _, _, _, _), WalkSubs(_, _, _, _)
WalkDirectory(v, slots, prefix, depth, acc) ==
  LET named == SelectSeq([i \in DOMAIN slots |-> i],
                 LAMBDA i : slots[i].slot = "short" /\ RebuildName(slots, i).name # <<"">>)
      here  == [k \in DOMAIN named |-> ToEntry(v, slots, named[k], prefix)]
  IN  IF depth > MaxDepth \/ acc.failed THEN acc
      ELSE WalkSubs(v, SelectSeq(here, LAMBDA e : e.dir), depth,
                    [acc EXCEPT !.entries = @ \o here])
WalkSubs(v, subs, depth, acc) ==
  IF subs = <<>> \/ acc.failed THEN acc
  ELSE LET sub == Head(subs)
           cs  == Contents(v, sub)
           now == [acc EXCEPT !.visited = @ \cup {sub.first}]
       IN  WalkSubs(v, Tail(subs), depth,
             IF ~Visits(v, acc.visited, sub) THEN acc
             ELSE IF Range(cs) \cap v.bad # {} THEN [now EXCEPT !.failed = TRUE]
             ELSE WalkDirectory(v, ReadChain(v, cs), sub.path, depth + 1, now))

\* FatVolume::scan: the root is a region of its own, or a chain.
ScanFat(v) ==
  LET chain == IF v.kind = "fat32" THEN FollowChain(v, v.root) ELSE <<>>
      start == [entries |-> <<>>, failed |-> Range(chain) \cap v.bad # {},
                visited |-> IF v.kind = "fat32" THEN {v.root} ELSE {}]
  IN  WalkDirectory(v, IF v.kind = "fat32" THEN ReadChain(v, chain) ELSE v.dirs[0],
                    <<>>, 0, start)

-----------------------------------------------------------------------------
(* Properties                                                              *)

RootOf(v) == IF v.kind = "fat32" THEN v.root ELSE 0

\* The live tree, from the root down: [path, first, dir] of every live entry of a
\* live directory's whole chain.
RECURSIVE LiveTree(_, _, _)
LiveTree(v, first, prefix) ==
  LET slots == IF first = 0 THEN v.dirs[0] ELSE ReadChain(v, FollowChain(v, first))
      here == {[path |-> Append(prefix, <<s.name>>), first |-> s.first, dir |-> s.dir] :
                 s \in {x \in Range(slots) : x.slot = "short" /\ ~x.deleted /\ x.name # ""}}
  IN  here \cup UNION {LiveTree(v, e.first, e.path) :
                         e \in {x \in here : x.dir /\ Len(x.path) <= MaxDepth}}

DeletedDirs(v) ==
  UNION {{s.first : s \in {x \in Range(v.dirs[c]) :
            x.slot = "short" /\ x.deleted /\ x.dir}} : c \in DOMAIN v.dirs}

\* A scan lists the whole live tree, each entry under its own path, however the
\* slots and clusters it uses were used before: unless a deleted directory began
\* at a cluster that holds a live one's slots now.
LiveTreeIsListed(v) ==
  LET live == LiveTree(v, RootOf(v), <<>>)
      dirs == {RootOf(v)} \cup {e.first : e \in {x \in live : x.dir}}
  IN  DeletedDirs(v) \cap UNION {Range(FollowChain(v, c)) : c \in dirs} = {} =>
        \A e \in live : \E x \in Range(ScanFat(v).entries) :
          ~x.deleted /\ x.path = e.path /\ x.first = e.first

\* "Reached by walking a live directory tree" (entry.rs): a live file is listed
\* under the path it has.
TraversedIsLive(v) ==
  \A x \in Range(ScanFat(v).entries) :
    ~x.deleted /\ x.confidence = "traversed" =>
      \E e \in LiveTree(v, RootOf(v), <<>>) : e.path = x.path

\* A chain that loops, or leaves the volume, ends, and gives no cluster twice;
\* the extents made of it are the same clusters.
ChainsEnd(v) ==
  \A c \in 0 .. v.clusters + 2 :
    LET chain == FollowChain(v, c) IN
    /\ IsInjective(chain) /\ Range(chain) \subseteq 2 .. v.clusters + 1
    /\ ClustersOf(RunsFromClusters(chain)) = chain

\* "Rebuild the name" from its slots: a long name that was written in slots of
\* width units, the last first, is read back whole, live or deleted.
LongNameIsWhole(units, width, deleted, before) ==
  LET n == RoundUp(Len(units), width)
      padded == [i \in 1 .. n * width |-> IF i <= Len(units) THEN units[i]
                                          ELSE IF i = Len(units) + 1 THEN "nul" ELSE "fill"]
      slots == before
               \o [k \in 1 .. n |-> Lfn(SubSeq(padded, (n - k) * width + 1, (n - k + 1) * width),
                                         deleted, 7)]
               \o <<Short("s", 2, FALSE, deleted, 7)>>
  IN  RebuildName(slots, Len(slots)) = [name |-> units, validated |-> TRUE]
=============================================================================
