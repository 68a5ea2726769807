------------------------------ MODULE Volumes ------------------------------
(***************************************************************************)
(* Volumes with a history, and what scanning them must give back.  The     *)
(* operating system's drivers are external: they make, delete and use      *)
(* again, so that a scan meets what a used volume holds -- deleted         *)
(* directories with a live one's cluster, records used again, a journal    *)
(* that wrapped or was cut off by a crash.                                 *)
(***************************************************************************)
EXTENDS FatVolume, NtfsVolume, Ext4Volume

CONSTANTS
  Names,      \* of files and directories
  Systems,    \* the file systems
  MaxOps,     \* system -> bound on a history's length
  FatSize, DirSlots,       \* data clusters, slots in one
  NtfsRecords, NtfsBump,   \* user records; when a record's number goes up
  JournalSize, DataBlocks  \* ext4: the journal's ring, and blocks for content

VARIABLES
  fs,      \* which file system this is
  volume,
  truth,   \* NTFS: record -> the path it was given.  ext4: see below
  ops      \* so far

vars == <<fs, volume, truth, ops>>

Step == ops < MaxOps[fs] /\ ops' = ops + 1 /\ UNCHANGED fs

-----------------------------------------------------------------------------
(* FAT                                                                     *)

Free == 0
EmptyDir == [i \in 1 .. DirSlots |-> End]

FreshFat ==
  [kind |-> "fat32", clusters |-> FatSize, root |-> 2, bad |-> {},
   fat  |-> [c \in 2 .. FatSize + 1 |-> IF c = 2 THEN EndOfChain ELSE Free],
   dirs |-> [c \in 2 .. FatSize + 1 |-> IF c = 2 THEN EmptyDir ELSE <<>>]]

LiveFatDirs(v) == {v.root} \cup {e.first : e \in {x \in LiveTree(v, v.root, <<>>) : x.dir}}
IsLiveSlot(s) == s.slot = "short" /\ ~s.deleted
LiveNames(v, first) == {s.name : s \in {x \in Range(ReadChain(v, FollowChain(v, first))) : IsLiveSlot(x)}}

\* A new entry takes any slot no live entry has, and any free cluster.
FatMake(dir, name, is_dir) ==
  /\ name \notin LiveNames(volume, dir)
  /\ \E c \in Range(FollowChain(volume, dir)), at \in 1 .. DirSlots, first \in 3 .. FatSize + 1 :
       /\ ~IsLiveSlot(volume.dirs[c][at])
       /\ volume.fat[first] = Free
       /\ volume' = [volume EXCEPT
            !.fat[first] = EndOfChain,
            !.dirs = [@ EXCEPT ![first] = IF is_dir THEN EmptyDir ELSE <<>>,
                               ![c][at] = Short(name, first, is_dir, FALSE, 0)]]

FatGrow(dir) ==
  \E c \in 3 .. FatSize + 1 :
    /\ volume.fat[c] = Free
    /\ volume' = [volume EXCEPT
         !.fat = [@ EXCEPT ![Last(FollowChain(volume, dir))] = c, ![c] = EndOfChain],
         !.dirs[c] = EmptyDir]

\* Its slot is marked and its chain freed; a directory is emptied first.
FatDelete(dir) ==
  \E c \in Range(FollowChain(volume, dir)), at \in 1 .. DirSlots :
    LET s == volume.dirs[c][at] IN
    /\ IsLiveSlot(s)
    /\ s.dir => LiveNames(volume, s.first) = {}
    /\ volume' = [volume EXCEPT
         !.dirs[c][at].deleted = TRUE,
         !.fat = [k \in DOMAIN @ |-> IF k \in Range(FollowChain(volume, s.first)) THEN Free ELSE @[k]]]

FatStep ==
  /\ fs = "fat" /\ Step /\ UNCHANGED truth
  /\ \E dir \in LiveFatDirs(volume) :
       \/ \E name \in Names, is_dir \in BOOLEAN : FatMake(dir, name, is_dir)
       \/ FatGrow(dir)
       \/ FatDelete(dir)

-----------------------------------------------------------------------------
(* NTFS                                                                    *)

Record(seq, used, dir, name, parent, pseq) ==
  [kind |-> "record", seq |-> seq, used |-> used, dir |-> dir, base |-> 0,
   names |-> <<[name |-> name, space |-> "win32", parent |-> parent, pseq |-> pseq]>>,
   resident |-> ~dir, extents |-> <<>>, list |-> <<>>]

UserRecords == FirstUserRecord .. FirstUserRecord + NtfsRecords - 1

\* One record in a cluster, the $MFT from cluster 0.
FreshNtfs(bump) ==
  [bump |-> bump, clusters |-> FirstUserRecord + NtfsRecords, per |-> 1, size |-> 0, bad |-> {},
   mft  |-> <<Extent(0, FirstUserRecord + NtfsRecords)>>,
   disk |-> [c \in 0 .. FirstUserRecord + NtfsRecords - 1 |->
               IF c = RootRecord THEN <<Record(5, TRUE, TRUE, ".", RootRecord, 5)>>
               ELSE <<NoRecord>>]]

At(i) == volume.disk[i][1]
LiveRecord(i) == At(i).kind = "record" /\ At(i).used
PathOfRecord(i) == IF i = RootRecord THEN <<>> ELSE truth[i]

\* A record is used again under a number it has not had.
NtfsMake(i, parent, name, is_dir) ==
  /\ ~LiveRecord(i) /\ LiveRecord(parent) /\ At(parent).dir
  /\ \A k \in UserRecords : LiveRecord(k) => At(k).names[1].name # name
                                              \/ At(k).names[1].parent # parent
  /\ volume' = [volume EXCEPT !.disk[i] =
       <<Record(IF At(i) = NoRecord THEN 1 ELSE At(i).seq + (IF volume.bump = "reuse" THEN 1 ELSE 0),
                TRUE, is_dir, name, parent, At(parent).seq)>>]
  /\ truth' = [truth EXCEPT ![i] = Append(PathOfRecord(parent), name)]

NtfsDelete(i) ==
  /\ LiveRecord(i)
  /\ At(i).dir => \A k \in UserRecords : ~(LiveRecord(k) /\ At(k).names[1].parent = i)
  /\ volume' = [volume EXCEPT !.disk[i][1].used = FALSE,
                              !.disk[i][1].seq = @ + (IF volume.bump = "free" THEN 1 ELSE 0)]
  /\ UNCHANGED truth

NtfsStep ==
  /\ fs = "ntfs" /\ Step
  /\ \E i \in UserRecords :
       \/ \E parent \in UserRecords \cup {RootRecord}, name \in Names, is_dir \in BOOLEAN :
            NtfsMake(i, parent, name, is_dir)
       \/ NtfsDelete(i)

-----------------------------------------------------------------------------
(* ext4.  Inodes from 3 on; block 1 is the inode table, block 2 the root   *)
(* directory, the next ones content.  truth is [seq, at, files, written]:  *)
(* the next transaction, where in the ring it goes, every file there was,  *)
(* and every copy a transaction that committed wrote.                      *)

TableBlock == 1
RootBlock  == 2
FileInodes == 3 .. 2 + DataBlocks
FreeBlocks == 3 .. 2 + DataBlocks

Inode(kind, links, dtime, size, ext) ==
  [kind |-> kind, links |-> links, dtime |-> dtime, size |-> size, inline |-> FALSE,
   indexed |-> FALSE, extents |-> TRUE,
   tree |-> [holds |-> "node", leaf |-> TRUE, ext |-> ext]]
ZeroInode == Inode("zero", 0, 0, 0, <<>>)

FreshExt4 ==
  [inodes |-> 2 + DataBlocks, per |-> 2, count |-> 3 + DataBlocks, order |-> <<RootBlock>>,
   table |-> [i \in 1 .. 2 + DataBlocks |-> TableBlock],
   blocks |-> (TableBlock :> [holds |-> "inodes", inodes |->
                 [i \in 1 .. 2 + DataBlocks |->
                    IF i = RootInode THEN Inode("dir", 2, 0, 1, <<Mapping(0, 1, RootBlock, FALSE)>>)
                    ELSE ZeroInode]])
              @@ (RootBlock :> [holds |-> "dir", entries |-> <<>>]),
   journal |-> [k \in 1 .. JournalSize |-> [j |-> IF k = 1 THEN "super" ELSE "empty", tags |-> <<>>]]]

\* Block n of a transaction goes here: after the last comes the first but one.
Ring(at, n) == 2 + ((at - 2 + n) % (JournalSize - 1))

\* A transaction logs whole blocks, then commits; a crash before the commit
\* leaves them and nothing else, and the log begins at its start again.
Logged(table, root) == <<[block |-> TableBlock, copy |-> table], [block |-> RootBlock, copy |-> root]>>

WriteLog(journal, at, seq, logged, committed) ==
  [k \in DOMAIN journal |->
     IF k = Ring(at, 0)
       THEN [j |-> "descriptor", seq |-> seq, tags |-> [n \in DOMAIN logged |-> logged[n].block]]
     ELSE IF \E n \in DOMAIN logged : k = Ring(at, n)
       THEN [j |-> "data", tags |-> <<>>,
             copy |-> logged[CHOOSE n \in DOMAIN logged : k = Ring(at, n)].copy]
     ELSE IF committed /\ k = Ring(at, Len(logged) + 1)
       THEN [j |-> "commit", seq |-> seq, tags |-> <<>>]
     ELSE journal[k]]

Transaction(table, root, files, only_table) ==
  LET logged == SubSeq(Logged(table, root), 1, IF only_table THEN 1 ELSE 2)
      n == Len(logged)
  IN  \/ /\ volume' = [volume EXCEPT
               !.journal = WriteLog(@, truth.at, truth.seq, logged, TRUE),
               !.blocks = (TableBlock :> table) @@ (RootBlock :> root)]
         /\ truth' = [seq |-> truth.seq + 1, at |-> Ring(truth.at, n + 2), files |-> files,
                      written |-> truth.written \cup
                        {[seq |-> truth.seq, block |-> logged[k].block, copy |-> logged[k].copy] :
                           k \in DOMAIN logged}]
      \/ /\ volume' = [volume EXCEPT
               !.journal = WriteLog(@, truth.at, truth.seq, logged, FALSE)]
         /\ truth' = [truth EXCEPT !.seq = @ + 1, !.at = 2]

TableOf == volume.blocks[TableBlock]
RootDir == volume.blocks[RootBlock]
InodesInUse == {i \in FileInodes : InUse(TableOf.inodes[i])}
BlocksInUse == {TableOf.inodes[i].tree.ext[1].phys : i \in InodesInUse}

Ext4Make(name, ino, block) ==
  /\ ino \notin InodesInUse /\ block \notin BlocksInUse
  /\ name \notin {e.name : e \in Range(RootDir.entries)}
  /\ Transaction(
       [TableOf EXCEPT !.inodes[ino] = Inode("file", 1, 0, 1, <<Mapping(0, 1, block, FALSE)>>)],
       [RootDir EXCEPT !.entries =
          Append(@, [ino |-> ino, name |-> name, type |-> "file", old |-> <<>>])],
       truth.files \cup {[name |-> name, ino |-> ino, block |-> block, seq |-> truth.seq]},
       FALSE)

\* The inode's map and size are zeroed; the name is left in the slack of the
\* entry before it, or wiped.
Ext4Delete(name, wiped) ==
  \E k \in DOMAIN RootDir.entries :
    LET e == RootDir.entries[k]
        rest == RemoveAt(RootDir.entries, k)
    IN  /\ e.name = name
        /\ Transaction(
             [TableOf EXCEPT !.inodes[e.ino] = Inode("file", 0, 1, 0, <<>>)],
             [RootDir EXCEPT !.entries =
                IF wiped \/ k = 1 THEN rest
                ELSE [rest EXCEPT ![k - 1].old = Append(@, [ino |-> e.ino, name |-> e.name,
                                                            type |-> "file"])]],
             truth.files, FALSE)

\* A write to a file that only changes its times.
Ext4Touch == InodesInUse # {} /\ Transaction(TableOf, RootDir, truth.files, TRUE)

Ext4Step ==
  /\ fs = "ext4" /\ Step
  /\ \/ \E name \in Names, ino \in FileInodes, block \in FreeBlocks : Ext4Make(name, ino, block)
     \/ \E name \in Names, wiped \in BOOLEAN : Ext4Delete(name, wiped)
     \/ Ext4Touch

-----------------------------------------------------------------------------

Fresh(system) ==
  CASE system = "fat"  -> {FreshFat}
    [] system = "ntfs" -> {FreshNtfs(bump) : bump \in NtfsBump}
    [] system = "ext4" -> {FreshExt4}

Init ==
  /\ fs \in Systems /\ ops = 0
  /\ volume \in Fresh(fs)
  /\ truth = CASE fs = "ntfs" -> [i \in UserRecords |-> <<>>]
               [] fs = "ext4" -> [seq |-> 1, at |-> 2, files |-> {}, written |-> {}]
               [] OTHER -> <<>>

Next == FatStep \/ NtfsStep \/ Ext4Step

Spec == Init /\ [][Next]_vars

-----------------------------------------------------------------------------
(* Properties                                                              *)

\* After any history the live tree of a FAT volume is listed, under its paths;
\* but not where the cluster of a deleted directory is a live one's now, which is
\* walked under the deleted name (LiveTreeIsListed excepts it): what is promised
\* of that case, and does not hold, is TraversedPathsAreLive.
FatTreeIsListed == fs = "fat" => LiveTreeIsListed(volume) /\ ChainsEnd(volume)

\* "Reached by walking a live directory tree": see FatVolume.
TraversedPathsAreLive == fs = "fat" => TraversedIsLive(volume)

\* A path that is shown is the one the file was given, of a deleted file too:
\* whichever of the directories on it were deleted and their records used again,
\* at whatever depth, no path is shown rather than one through the newcomer.
NtfsPathsAreTrue ==
  fs = "ntfs" =>
    LET True(s) ==
          /\ s.lost = {}
          /\ \A e \in Range(s.entries) : e.path # None => e.path = truth[e.id]
          /\ \A i \in UserRecords : LiveRecord(i) =>
               \E e \in Range(s.entries) : e.id = i /\ e.path = truth[i] /\ ~e.deleted
    IN  True(ScanNtfs(volume, RecordCount(volume)))

\* The journal's copies are of committed transactions only; and a deleted file
\* whose inode was not used again is found where it was, as long as a copy of its
\* inode from before is left: names come and go with other inodes, the log wraps,
\* or a crash starts it anew over what was there.
DeletedIsLocated ==
  fs = "ext4" =>
    /\ CopiesAreCommitted(volume, truth.written)
    /\ \A f \in truth.files :
         LET again == \E g \in truth.files : g.ino = f.ino /\ g.seq > f.seq
             left == \E c \in Range(Copies(volume, TableBlock)) :
                       c.seq >= f.seq /\ InUse(CopyOf(volume, c).inodes[f.ino])
         IN  f.ino \notin InodesInUse /\ ~again /\ left =>
               \E e \in Range(ScanExt4(volume)) :
                 /\ e.ino = f.ino /\ e.state = "deleted"
                 /\ e.location = Runs(<<Extent(f.block, 1)>>)
                 /\ e.path \in {None, <<f.name>>}
=============================================================================
