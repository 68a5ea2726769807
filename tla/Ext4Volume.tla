----------------------------- MODULE Ext4Volume -----------------------------
(***************************************************************************)
(* ext4 (rc-fs ext4): inode content as extents or block pointers, the live *)
(* tree, and what the journal still has of deleted names and inodes.       *)
(*                                                                         *)
(* A volume v is [inodes, table, blocks, journal, per, count, order]: how  *)
(* many inodes, the block each is in, what blocks hold, the journal's      *)
(* blocks in order, pointers in a block, how many blocks, and the order in *)
(* which the hash map of directory blocks gives them.  A block holds       *)
(*   [holds |-> "inodes", inodes]  [holds |-> "dir", entries]              *)
(*   [holds |-> "node", leaf, ext or children]  [holds |-> "pointers", ptr]*)
(* A journal block is [j |-> "descriptor", seq, tags], [j |-> "commit",    *)
(* seq] or [j |-> "data", copy].                                           *)
(***************************************************************************)
EXTENDS Volume, TLC

CONSTANT MaxExtentDepth

RootInode == 2
Nothing == [holds |-> "nothing"]

\* read_block: past the volume, zeroes.
BlockOf(v, b) == IF b < v.count /\ b \in DOMAIN v.blocks THEN v.blocks[b] ELSE Nothing

\* Inode::in_use, kind
HasKind(i) == i.kind \in {"dir", "file"}
InUse(i)   == i.dtime = 0 /\ i.links > 0 /\ HasKind(i)

\* read_inode, from a block of the inode table or a copy of it.
InodeIn(block, ino) ==
  IF block.holds = "inodes" /\ ino \in DOMAIN block.inodes THEN block.inodes[ino] ELSE None
ReadInode(v, ino) ==
  IF ino \in 1 .. v.inodes THEN InodeIn(BlockOf(v, v.table[ino]), ino) ELSE None

-----------------------------------------------------------------------------
(* The journal                                                             *)

\* Journal::read: every block is looked at for a descriptor, whose tags name
\* the blocks the next ones are copies of; not past the journal's end.
RECURSIVE Examine(_, _, _)
Examine(journal, k, acc) ==
  IF k > Len(journal) THEN acc
  ELSE LET b == journal[k]
           n == LesserOf(Len(b.tags), Len(journal) - k)
       IN  CASE b.j = "descriptor" ->
                  Examine(journal, k + n + 1,
                    [acc EXCEPT !.pending = @ \o
                       [t \in 1 .. n |-> [seq |-> b.seq, block |-> b.tags[t], at |-> k + t]]])
             [] b.j = "commit" -> Examine(journal, k + 1, [acc EXCEPT !.committed = @ \cup {b.seq}])
             [] OTHER -> Examine(journal, k + 1, acc)

\* Mutant: a transaction that never committed counts.
AnyTransaction(seq, committed) == TRUE

Committed(seq, committed) == seq \in committed

\* copies: those of committed transactions, oldest first.
Copies(v, block) ==
  LET Of(read) == SelectSeq(read.pending,
                    LAMBDA c : c.block = block /\ Committed(c.seq, read.committed))
      Older(c, d) == c.seq < d.seq \/ (c.seq = d.seq /\ c.at < d.at)
  IN  SortSeq(Of(Examine(v.journal, 1, [pending |-> <<>>, committed |-> {}])), Older)

\* read_copy: whatever the journal's block holds now.
CopyOf(v, c) == IF v.journal[c.at].j = "data" THEN v.journal[c.at].copy ELSE Nothing

\* A copy in which the inode is in use with something in it.
HasInode(image, ino) ==
  LET i == InodeIn(image, ino) IN i # None /\ InUse(i) /\ (i.size > 0 \/ i.kind = "dir")

\* newest_matching: of a block with the inode, or of an extent node (no inode).
NewestCopy(v, block, ino) ==
  LET Fits(c) ==
        IF ino = None THEN CopyOf(v, c).holds = "node" ELSE HasInode(CopyOf(v, c), ino)
      Newest(copies) == IF copies = <<>> THEN None ELSE CopyOf(v, Last(copies))
  IN  Newest(SelectSeq(Copies(v, block), Fits))

\* pre_deletion_inode
PreDeletion(v, ino) ==
  LET Of(block) == IF block = None THEN None ELSE InodeIn(block, ino)
  IN  IF ino \notin 1 .. v.inodes THEN None ELSE Of(NewestCopy(v, v.table[ino], ino))

-----------------------------------------------------------------------------
(* Content                                                                 *)

\* extent_node: an index block that is one no more is read from the journal.
RECURSIVE ExtentNode(_, _, _)
ExtentNode(v, node, depth) ==
  LET Known(block, copy) ==
        IF block.holds = "node" \/ copy = None THEN block ELSE copy
      Child(b) == Known(BlockOf(v, b), NewestCopy(v, b, None))
  IN  IF node.holds # "node" \/ depth > MaxExtentDepth THEN <<>>
      ELSE IF node.leaf THEN node.ext
      ELSE FlattenSeq([k \in DOMAIN node.children |->
                         ExtentNode(v, Child(node.children[k]), depth + 1)])

Mapping(logical, len, phys, uninit) ==
  [logical |-> logical, len |-> len, phys |-> phys, uninit |-> uninit]

\* map_pointer: a pointer of zero, or off the volume, is a hole of all it spans.
RECURSIVE MapPointer(_, _, _, _, _), MapAll(_, _, _, _, _)
MapPointer(v, ptr, level, needed, acc) ==
  CASE acc.logical >= needed -> acc
    [] acc.logical < needed /\ (ptr = 0 \/ ptr >= v.count) ->
         [acc EXCEPT !.logical = @ + v.per ^ level]
    [] OTHER ->
         IF level = 0
           THEN [logical |-> acc.logical + 1,
                 out |-> Append(acc.out, Mapping(acc.logical, 1, ptr, FALSE))]
           ELSE MapAll(v, BlockOf(v, ptr).ptr, level - 1, needed, acc)
MapAll(v, ptrs, level, needed, acc) ==
  IF ptrs = <<>> THEN acc
  ELSE MapAll(v, Tail(ptrs), level, needed, MapPointer(v, Head(ptrs), level, needed, acc))

\* indirect_map: the direct pointers, then one of each level.
IndirectMap(v, direct, indirect, needed) ==
  LET start == MapAll(v, direct, 0, needed, [logical |-> 0, out |-> <<>>])
      Level(acc, k) == MapPointer(v, indirect[k], k, needed, acc)
  IN  FoldLeft(Level, start, [k \in DOMAIN indirect |-> k]).out

\* Mutant: what is not mapped takes no room.
HoleNever(from, to) == <<>>

Hole(from, to) == IF to > from THEN <<Sparse(to - from)>> ELSE <<>>

\* runs: in logical order, holes and unwritten extents as sparse, cut at the size.
InodeRuns(v, i) ==
  LET mapped == SortSeq(IF i.extents THEN ExtentNode(v, i.tree, 0)
                        ELSE IndirectMap(v, i.direct, i.indirect, i.size),
                        LAMBDA p, q : p.logical < q.logical)
      UpTo(end) == end.runs \o Hole(end.next, i.size)
      Add(acc, e) ==
        IF e.logical >= i.size THEN acc
        ELSE LET len == LesserOf(e.len, i.size - e.logical) IN
             [next |-> e.logical + len,
              runs |-> acc.runs \o Hole(acc.next, e.logical)
                         \o <<IF e.uninit THEN Sparse(len) ELSE Extent(e.phys, len)>>]
  IN  UpTo(FoldLeft(Add, [next |-> 0, runs |-> <<>>], mapped))

ContentBlocks(runs) == SelectSeq(ClustersOf(runs), LAMBDA b : b # 0)

\* location
InodeLocation(v, i) == IF i.inline THEN Resident ELSE Runs(InodeRuns(v, i))

-----------------------------------------------------------------------------
(* Directories                                                             *)

\* parse_dir_block: an entry [ino, name, type, old] and the older entries in the
\* slack after it, which in a hashed directory's root only the first has.
LiveEntries(block) ==
  IF block.holds # "dir" THEN <<>> ELSE SelectSeq(block.entries, LAMBDA e : e.ino # 0)
SlackEntries(block, dx_root) ==
  IF block.holds # "dir" THEN <<>>
  ELSE FlattenSeq([k \in DOMAIN block.entries |->
                     IF dx_root /\ k > 1 THEN <<>> ELSE block.entries[k].old])

Ext4Entry(v, ino, path, i, state, location) ==
  [ino |-> ino, path |-> path, kind |-> i.kind, state |-> state, location |-> location,
   confidence |-> IF path = None THEN "unknown" ELSE "traversed"]

Join(path, name) == IF path = None THEN None ELSE Append(path, name)

\* The live tree, breadth first: each inode once, by the first name met.
RECURSIVE Live(_, _, _)
LiveBlocks(v, dir, acc, blocks) ==
  LET names == FlattenSeq([k \in DOMAIN blocks |-> LiveEntries(BlockOf(v, blocks[k]))])
      slack == FlattenSeq([k \in DOMAIN blocks |->
                 SlackEntries(BlockOf(v, blocks[k]), dir.inode.indexed /\ k = 1)])
      One(a, e) ==
        LET i == ReadInode(v, e.ino)
            path == Join(dir.path, e.name)
        IN  IF e.ino \in a.inodes THEN a
            ELSE IF i = None \/ ~HasKind(i) THEN [a EXCEPT !.inodes = @ \cup {e.ino}]
            ELSE [a EXCEPT
                   !.inodes = @ \cup {e.ino},
                   !.entries = Append(@, Ext4Entry(v, e.ino, path, i, "allocated",
                                                   InodeLocation(v, i))),
                   !.queue = IF i.kind = "dir"
                               THEN Append(@, [ino |-> e.ino, path |-> path, inode |-> i]) ELSE @]
  IN  FoldLeft(One,
        [acc EXCEPT
          !.dirs = @ @@ (dir.ino :> [path |-> dir.path, indexed |-> dir.inode.indexed,
                                     live |-> {<<e.name, e.ino>> : e \in Range(names)}]),
          !.of = [k \in {blocks[n] : n \in DOMAIN blocks} |->
                    [dir |-> dir.ino, first |-> k = blocks[1]]] @@ @,
          !.slack = @ \o [k \in DOMAIN slack |-> <<dir.ino, slack[k]>>]],
        names)
LiveDirectory(v, dir, acc) ==
  LiveBlocks(v, dir, acc, ContentBlocks(InodeRuns(v, dir.inode)))
Live(v, queue, acc) ==
  LET Then(next) == Live(v, next.queue, next) IN
  IF queue = <<>> THEN acc
  ELSE IF Head(queue).ino \in DOMAIN acc.dirs THEN Live(v, Tail(queue), acc)
  ELSE Then(LiveDirectory(v, Head(queue), [acc EXCEPT !.queue = Tail(queue)]))

-----------------------------------------------------------------------------
(* Deleted names and inodes                                                *)

Known(found, dir, e) == <<e.name, e.ino>> \in found.dirs[dir].live

\* The names a directory's blocks had in the journal and the live ones have not;
\* the first meaning met of a name in a directory stays.
NameAll(found, dir, entries) ==
  FoldLeft(LAMBDA d, e : IF Known(found, dir, e) \/ <<dir, e.name>> \in DOMAIN d THEN d
                         ELSE d @@ (<<dir, e.name>> :> e),
           found.deleted, entries)

NamesInCopies(v, found) ==
  LET Block(f, b) ==
        LET at == found.of[b]
            copies == Copies(v, b)
            Both(c) == LET x == CopyOf(v, c) IN
                       LiveEntries(x) \o SlackEntries(x, f.dirs[at.dir].indexed /\ at.first)
        IN  [f EXCEPT !.deleted = NameAll(f, at.dir,
               FlattenSeq([k \in DOMAIN copies |-> Both(copies[k])]))]
  IN  FoldLeft(Block, found, SelectSeq(v.order, LAMBDA b : b \in DOMAIN found.of))

\* A deleted directory's blocks, from its newest copy.
OpenDeleted(v, f, n, ino) ==
  LET Directory(copy, blocks) ==
        [f EXCEPT
          !.done = @ \cup {ino},
          !.dirs = @ @@ (ino :> [path |-> Join(f.dirs[n[1]].path, n[2]),
                                 indexed |-> copy.indexed, live |-> {}]),
          !.of = @ @@ [b \in Range(blocks) |-> [dir |-> ino, first |-> b = blocks[1]]]]
      Of(copy) ==
        IF copy = None \/ ino \in f.done THEN [f EXCEPT !.done = @ \cup {ino}]
        ELSE IF copy.kind # "dir" THEN [f EXCEPT !.done = @ \cup {ino}]
        ELSE Directory(copy, ContentBlocks(InodeRuns(v, copy)))
  IN  Of(PreDeletion(v, ino))

\* Until no more directories are found.
RECURSIVE DeletedNames(_, _)
DeletedNames(v, found) ==
  LET News(named) == {n \in DOMAIN named.deleted :
                 /\ named.deleted[n].type = "dir"
                 /\ named.deleted[n].ino \notin named.done \cup named.inodes}
      Open(named) == FoldLeft(LAMBDA f, n : OpenDeleted(v, f, n, f.deleted[n].ino),
                              named, SetToSeq(News(named)))
      Again(opened) == IF DOMAIN opened.of = DOMAIN found.of THEN opened ELSE DeletedNames(v, opened)
  IN  Again(Open(NamesInCopies(v, found)))

DeletedEntries(v, found) ==
  LET Entry(n, ino, copy, i) ==
        IF ino \in found.inodes \/ i = None THEN <<>>
        ELSE IF ~HasKind(i) THEN <<>>
        ELSE <<Ext4Entry(v, ino, Join(found.dirs[n[1]].path, n[2]), i, "deleted",
                         IF copy = None THEN Unknown ELSE InodeLocation(v, copy))>>
      With(n, ino, copy) == Entry(n, ino, copy, IF copy = None THEN ReadInode(v, ino) ELSE copy)
      Of(n) == LET ino == found.deleted[n].ino IN With(n, ino, PreDeletion(v, ino))
      names == SetToSeq(DOMAIN found.deleted)
  IN  FlattenSeq([k \in DOMAIN names |-> Of(names[k])])

\* Deleted inodes no name leads to.
Nameless(v, found) ==
  LET named == {found.deleted[n].ino : n \in DOMAIN found.deleted}
      Of(ino, i, copy) ==
        IF ino \in found.inodes \cup named \/ i = None \/ copy = None THEN <<>>
        ELSE IF i.dtime = 0 \/ i.kind = "zero" \/ copy.kind # "file" THEN <<>>
        ELSE <<Ext4Entry(v, ino, None, copy, "deleted", InodeLocation(v, copy))>>
  IN  FlattenSeq([ino \in 1 .. v.inodes |-> Of(ino, ReadInode(v, ino), PreDeletion(v, ino))])

LiveDirectories(v) ==
  LET root == ReadInode(v, RootInode)
      start == [queue |-> <<>>, dirs |-> <<>>, of |-> <<>>, entries |-> <<>>,
                slack |-> <<>>, inodes |-> {RootInode}, deleted |-> <<>>, done |-> {}]
  IN  IF root = None THEN start
      ELSE Live(v, <<[ino |-> RootInode, path |-> <<>>, inode |-> root]>>, start)

\* The names in the slack of the live directories come first.
WithSlack(live) ==
  [live EXCEPT !.deleted =
     FoldLeft(LAMBDA d, s : NameAll([live EXCEPT !.deleted = d], s[1], <<s[2]>>),
              <<>>, live.slack)]

ScanExt4(v) ==
  LET All(found) == found.entries \o DeletedEntries(v, found) \o Nameless(v, found)
  IN  All(DeletedNames(v, WithSlack(LiveDirectories(v))))

-----------------------------------------------------------------------------
(* Properties                                                              *)

\* What the inode says of its l-th block: the extent over it (extents are all
\* there were, whatever has become of their index blocks), or the pointer at the
\* end of the way to it; 0 for a hole and for what was never written.
ExtentAt(extents, l) ==
  LET over == {e \in extents : e.logical <= l /\ l < e.logical + e.len /\ ~e.uninit}
  IN  Max({0} \cup {e.phys + l - e.logical : e \in over})

PointerAt(v, i, l) ==
  LET Off(ptr) == ptr = 0 \/ ptr >= v.count
      Follow(ptr, way) ==
        LET end == FoldLeft(LAMBDA q, k : IF Off(q) THEN 0 ELSE v.blocks[q].ptr[k + 1], ptr, way)
        IN  IF Off(end) THEN 0 ELSE end
      single == l - Len(i.direct)
      double == single - v.per
  IN  CASE l < Len(i.direct) -> Follow(i.direct[l + 1], <<>>)
        [] single \in 0 .. v.per - 1 -> Follow(i.indirect[1], <<single>>)
        [] double \in 0 .. v.per ^ 2 - 1 ->
             Follow(i.indirect[2], <<double \div v.per, double % v.per>>)
        [] OTHER -> 0

\* "Holes included as sparse runs so logical offsets stay right": the runs of an
\* inode are as many blocks as its size, each the block the inode says.
RunsFollowTheMap(v, i, extents) ==
  LET Follow(blocks) ==
        /\ Len(blocks) = i.size
        /\ \A k \in DOMAIN blocks :
             blocks[k] = IF i.extents THEN ExtentAt(extents, k - 1) ELSE PointerAt(v, i, k - 1)
  IN  Follow(ClustersOf(InodeRuns(v, i)))

\* "Only transactions with a commit block are used", whatever is left of older
\* ones: every copy was written by a transaction that committed, under the tag
\* that names its block, and the newest is last.
CopiesAreCommitted(v, written) ==
  \A b \in DOMAIN v.blocks : LET copies == Copies(v, b) IN
    /\ \A k \in DOMAIN copies :
         [seq |-> copies[k].seq, block |-> b, copy |-> CopyOf(v, copies[k])] \in written
    /\ \A k \in 1 .. Len(copies) - 1 : copies[k].seq <= copies[k + 1].seq
=============================================================================
