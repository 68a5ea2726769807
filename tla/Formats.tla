------------------------------ MODULE Formats ------------------------------
(* The parts of the system that compute and keep no state, asked questions: *)
(* reading a device, finding its partitions, the structures of its file     *)
(* systems, the validators of the carved formats, the signature search and  *)
(* the rating.  A state is one of the things they are asked about, or a     *)
(* volume or a database with a history (Volumes, SqliteCarve); the          *)
(* invariants say what is true of the answer.                               *)
EXTENDS Integers, Sequences, FiniteSets, TLC

CONSTANTS
  None, CommonStarts, MaxCandidates, MaxEntryBytes,        \* disks
  MaxDepth, MaxDirClusters, EndOfChain, MaxRecords, ChunkRecords, MaxPath, MaxAttrs,
  MaxBytesPerBlock, Common, MaxNeedles, NoCluster, ClusterBytes, MaxSamples,
  Names, Systems, MaxOps, FatSize, DirSlots, NtfsRecords, NtfsBump,   \* volumes
  JournalSize, DataBlocks, MaxExtentDepth,
  Ids, Texts, Cells, MaxPages,  \* a database
  Inputs                        \* what may be asked about -> the set of such things

P == INSTANCE Partitions
F == INSTANCE FatVolume
X == INSTANCE ExfatVolume
N == INSTANCE NtfsVolume
K == INSTANCE Ext4Volume
R == INSTANCE SqliteRecords WITH Null <- None
O == INSTANCE Outcome
C == INSTANCE FileFormats
M == INSTANCE Mp4File
J == INSTANCE JpegFile
Q == INSTANCE SqliteFile
S == INSTANCE Signatures
E == INSTANCE Score

ASSUME DisksAssumption ==
  /\ \A i \in DOMAIN CommonStarts : CommonStarts[i] \in Nat
  /\ MaxCandidates \in Nat /\ MaxEntryBytes \in Nat

ASSUME VolumesAssumption ==
  /\ \A s \in Systems : MaxOps[s] \in Nat
  /\ {FatSize, DirSlots, JournalSize, DataBlocks} \subseteq Nat \ {0}
  /\ NtfsBump \subseteq {"free", "reuse"}

ASSUME DatabaseAssumption ==
  Cells \in Nat \ {0} /\ MaxPages \in Nat /\ MaxOps["sqlite"] \in Nat

VARIABLES
  fs,       \* what this is: a file system, or one of the things in Inputs
  volume,   \* what is on the disk of it
  truth, ops,
  db, wal, cache, ever   \* a database and its log

V == INSTANCE Volumes
L == INSTANCE SqliteCarve WITH MaxOps <- MaxOps["sqlite"]

database == <<db, wal, cache, ever>>
vars == <<fs, volume, truth, ops, database>>

(* One of the things asked about, as it stands.                             *)
Given ==
  /\ fs \in DOMAIN Inputs /\ volume \in Inputs[fs]
  /\ truth = <<>> /\ ops = 0

NoDatabase == db = None /\ wal = None /\ cache = None /\ ever = None

Init ==
  \/ (V!Init \/ Given) /\ NoDatabase
  \/ fs = "sqlite" /\ volume = None /\ L!Init

Next ==
  \/ V!Next /\ UNCHANGED database
  \/ fs = "sqlite" /\ L!Next /\ UNCHANGED <<fs, volume>>

Spec == Init /\ [][Next]_vars

----------------------------------------------------------------------------
(* Properties.                                                              *)

(* See Volumes and SqliteCarve.                                             *)
FatTreeIsListed == V!FatTreeIsListed
NtfsPathsAreTrue == V!NtfsPathsAreTrue
DeletedIsLocated == V!DeletedIsLocated
LiveIsCommitted == fs = "sqlite" => L!LiveIsCommitted
GoneRowsAreRecovered == fs = "sqlite" => L!GoneRowsAreRecovered

Asked(what) == fs = what

(* A read returns the bytes asked for, whatever the sectors; the partitions *)
(* found are the backup table's when the primary is damaged, and never lie  *)
(* inside each other when there is no table at all; what a reader can open  *)
(* is found without a table, as what it is, and its clusters lie on it.     *)
DisksAreReadRight ==
  LET q == volume
      found == P!Discover(q.d, q.always, q.step, q.limit) IN
  /\ Asked("bytes") => P!ByteReadsAreExact(q.m, q.offset, q.len)
  /\ Asked("image") => P!UnbufferedReadsAgree(q.offset, q.len, q.file, q.align, q.in_place)
  /\ Asked("device") => /\ P!BackupIsUsed(q.d, found)
                        /\ P!ReconstructionIsDisjoint(q.d, found, q.step, q.limit)
  /\ Asked("boot_sector") => /\ P!ReadableIsOffered(q.b, q.deep, q.lba, q.total)
                             /\ P!ClustersAreOnVolume(q.b, q.deep)

(* What a file system spreads over slots, sectors, runs or freed cells is   *)
(* put together whole or not used at all.                                   *)
StructuresAreWhole ==
  LET q == volume IN
  /\ Asked("chain") => F!ChainsEnd(q)
  /\ Asked("long_name") => F!LongNameIsWhole(q.units, q.width, q.deleted, <<>>)
  /\ Asked("exfat_slots") => X!SetsAreListed(q)
  /\ Asked("exfat_volume") => X!DeletionKeepsRuns(q)
  /\ Asked("fixups") => N!TornIsUntouched(q.tails, q.usn, q.saved)
  /\ Asked("runlist") => N!RunlistIsOnVolume(q.runs, q.clusters)
  /\ Asked("inode") => K!RunsFollowTheMap(q.v, q.i, q.extents)
  /\ Asked("geometry") => F!GeometryIsOneMapping(q.g, q.offsets)
  /\ Asked("record") => /\ N!BodiesAreApart(q.b)
                        /\ q.laid # None => N!RecordIsReadWhole(q.b, q.laid, q.clusters)
  /\ Asked("mft") => N!EveryRecordIsRead(q)
  /\ Asked("row") => /\ R!IntactRowIsFound(q.columns, q.types, q.body, q.rowid, q.before)
                     /\ R!FreedRowIsFound(q.columns, q.types, q.body, q.rowid)

Windows(size, boundaries) ==
  IF size <= 200 THEN 0..size + 5
  ELSE 0..200 \cup UNION {b - 2..b + 2 : b \in boundaries \cup {size}}

(* The contract of a validator, for the files of its format that are whole: *)
(* see Outcome.                                                             *)
ExactIn(windows, Of(_), size, header) ==
  /\ O!ExtentIsExact(Of, size, header, windows)
  /\ O!FloorIsHeld(Of, windows)
  /\ O!FloorOnlyGrows(Of, size, windows)

Exact(Of(_), size, header) == ExactIn(Windows(size, {header}), Of, size, header)

AndSaysItIsCut(Of(_), size, header) ==
  Exact(Of, size, header) /\ O!CutIsSaid(Of, size, header, Windows(size, {header}))

(* The end of every whole file is found, to the byte, whatever follows it,  *)
(* and a file cut anywhere is never taken for a whole one.                  *)
ExtentsAreExact ==
  LET q == volume
      At(n) == [q EXCEPT !.have = n] IN
  /\ Asked("png")   => AndSaysItIsCut(LAMBDA n : C!Png(At(n)), C!PngSize(q), 33)
  /\ Asked("gif")   => Exact(LAMBDA n : C!Gif(At(n)), C!GifSize(q), 13)
  /\ Asked("form")  => Exact(LAMBDA n : C!Form(At(n)), q.declared, 12)
  /\ Asked("bmp")   => AndSaysItIsCut(LAMBDA n : C!Bmp(At(n)), q.file_size, 34)
  /\ Asked("ico")   => Exact(LAMBDA n : C!Ico(At(n)), q.size, 6)
  /\ Asked("pe")    => AndSaysItIsCut(LAMBDA n : C!Pe(At(n)), q.size, 64)
  /\ Asked("sized") => LET Of(n) == CASE q.format = "7z"   -> C!SevenZ(At(n))
                                      [] q.format = "cab"  -> C!Cab(At(n))
                                      [] q.format = "evtx" -> C!Evtx(At(n))
                                      [] OTHER             -> C!RegHive(At(n)) IN
                       AndSaysItIsCut(Of, q.size, 128)
  /\ Asked("psd")   => AndSaysItIsCut(LAMBDA n : C!Psd(At(n)), q.size, 34)
  /\ Asked("tiff")  => AndSaysItIsCut(LAMBDA n : C!Tiff(At(n)), q.size, 8)
  /\ Asked("elf")   => AndSaysItIsCut(LAMBDA n : C!Elf(At(n)), q.size, q.size)
  /\ Asked("pdf")   => Exact(LAMBDA n : C!Pdf(At(n)), q.size, 8)
  /\ Asked("rtf")   => AndSaysItIsCut(LAMBDA n : C!Rtf(At(n)), Len(q.text), 6)
  /\ Asked("zip")   => Exact(LAMBDA n : C!Zip(At(n)), q.size, 4)
  \* Less than a box header after the last box reads as a box cut short.
  /\ Asked("mp4")   => ExactIn(0..q.size \cup q.size + 8..q.size + 12,
                               LAMBDA n : M!Mp4(At(n)), q.size, 16)
  /\ Asked("jpeg")  => AndSaysItIsCut(LAMBDA n : J!Jpeg(At(n)), J!JpegSize(q), 4)

(* A JPEG's scan or a database with other data in it, or with a page given  *)
(* away twice, does not count as whole; nor does an MP4 where other data    *)
(* stands where its samples say how they divide.                            *)
SplicesAreSeen ==
  LET q == volume IN
  /\ Asked("scan") => J!NothingIsInserted(q)
  /\ Asked("samples") => M!SpliceIsSeen(q)
  /\ Asked("units") => M!UnitsTile(q.units, q.width)
  /\ Asked("pages") => Q!NoPageIsShared(q)

(* The search for single bytes, block by block, finds every header there    *)
(* is, once.                                                                *)
PrefilterLosesNothing == Asked("search") => S!PrefilterLosesNothing(volume.db, volume.hay)

(* A file is rated green only if nothing known speaks against it, and a     *)
(* rating never rises with a loss.                                          *)
RatingFollowsEvidence ==
  LET q == volume IN
  Asked("rating") => E!RatingFollowsEvidence(q.e, q.disk, q.runs, q.more, q.o, q.prefix, q.trim)

(* "Every validator must survive arbitrary input without panicking"         *)
(* (validate/mod.rs:470).                                                   *)
EveryWindowIsAnswered ==
  Asked("pages") => \A n \in 98..102 : Q!SqliteFile([volume EXCEPT !.have = n]).status # "panicked"

=============================================================================
