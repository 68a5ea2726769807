# Recovery-Project in TLA+

This directory is the verification project of the recovery tools in this
repository: TLA+ modules translated from the Rust, Kotlin and TypeScript sources,
the TLC configurations that check them on small instances, and proofs that TLAPS
checks for every instance. Paths below are relative to the repository root;
`crates/` stands for the workspace's crates.

## The system

The program reads a storage device, never writes to it, and brings files back.

| part | source | state it keeps | operations | what must hold |
|---|---|---|---|---|
| carve session | `crates/rc-session` | RecState, the `.recstate` file, the position in the range | `start`, `resume`, `run` | killed or stopped anywhere and resumed, a carve commits what one uninterrupted scan reports |
| candidate index | `crates/rc-index` | an SQLite file of rows and one checkpoint | `create`, `open`, `commit_segment`, `push`/`flush`, `finish`, `page` | rows and checkpoint change together |
| carve scan | `crates/rc-carve/src/scan.rs` | buffers in two channels, hits per worker, the carry between segments | `scan`, `scan_segment` | every hit once, whatever the threads do; the result does not depend on where the scan is cut |
| signatures, prefilter | `crates/rc-carve` | none | `matches`, `candidates_at`, `for_each_hit` | no header is missed, whatever byte is searched for and wherever a block ends |
| validators | `crates/rc-carve/src/validate` | none | `validate` | a whole file's end to the byte, whatever follows; a cut file is never whole; a floor is one |
| bifragment recovery | `crates/rc-bifrag` | the path, the decisions left, the budget | `reassemble` | what is reported is what was judged; a file within the bounds is found |
| clone of a failing device | `crates/rc-image` | the output, the `.map`, the `.hash` manifest, a BlockMap | `clone_device`, copy, trim, scrape and retry passes | Finished is copied; complete is faithful; damage stays local; a run ends |
| block map | `crates/rc-image/src/map.rs` | a sorted partition of the device by status | `mark`, queries, `write_to`, `read_from` | always the maximal runs |
| aligned reads | `rc-device/src/readonly.rs`, `backend/file.rs` | none | `read_bytes_at`, unbuffered reads | exactly the bytes asked for, whatever the sectors |
| partitions | `crates/rc-partition` | none | `discover` | the backup table where the primary is damaged; reconstructions never overlap |
| file systems | `crates/rc-fs` | none | `detect`, a scan of NTFS, FAT, exFAT, ext4 | what is live is listed; a deleted file is located by what is still true of it |
| SQLite records | `crates/rc-sqlite-carve` | none | `carve` | live rows are the last commit's; rows that are gone come back once |
| scores | `crates/rc-score` | none | `inputs_for_entry`, `score` | green is clean; a loss never raises a rating |
| result store | `crates/rc-results` | rows with dense ids, the grid's view | `add`, `rows`, `set_view`, `clear`, `restore` | a page is what the view says |
| restore | `crates/rc-restore`, the sink | the files written, the manifest | `Restorer::new`, `entry`, `spans`, `finish` | a manifest is true; nothing is overwritten; nothing is made on the source |
| destination guard | `rc-device/src/registry.rs`, `rc-image/src/sink.rs` | the process-wide list of scan sources | `register`, drop, `check_destination` | nothing is written to a device being scanned |
| companion bridge | `crates/rc-mobile/src/bridge.rs`, `companion-android/.../Bridge.kt` | a connection, files under the output, the manifest | `serve`/`session`, `connect`/`writeSession` | ACK means stored intact; the ends keep step; nobody waits for ever |
| desktop application | `gui/src-tauri/src/main.rs`, `gui/src/main.ts` | store, `busy`, `stop` | commands, the scan thread, buttons | one scan at a time; a stop stops |
| command line, external tools, previews | `crates/rc-cli`, `rc-mobile` adb/iOS, `rc-preview`, `xtask` | none of their own | parse options and call the crates | |

How they interact: `rc-cli` and the desktop application start a session, which
calls `scan_segment` for one segment after another and commits each to the
index; `scan_segment` runs a reader thread and up to eight workers, which search
with the prefilter, and then validates; where a validator says the data ran out,
the fragments are searched for; a listed or carved file is scored and restored
through an `OutputSink`, which asks the registry whether its destination is
being scanned; `clone_device` drives a `Rescuer` over a `BlockMap` and the same
sink; a volume is found by `discover`, identified by `detect` and read by one of
the readers, all of them through `read_bytes_at`; the application keeps one
result store behind a mutex for its commands and its scan thread; the phone and
the computer share one TCP connection over USB.

What is hard: processes killed between any two of several writes to disk, and
what a resume makes of them (session, clone, restore); devices whose reads fail,
or fail and then succeed (clone, scan, restore); threads that share two bounded
channels and may panic (scan); two programs on one stream, one of which fails or
falls silent (bridge); results that must not depend on how the work was cut
(session, scan, validators); structures that a used volume keeps of its past,
which look like its present (directories, MFT records, journals, logs, free
pages); searches that give up (bifragment). `PROJECT.json` lists these as
hazards, each at its line, with the properties that would catch it going wrong.

## The modules

| module | models | composes |
|---|---|---|
| `CarveOrder` | what a scan of a range reports: blocks, claims, order, budget, containment (`rc-carve/src/scan.rs`, no state) | |
| `CarveSession` | `rc-session` with the index and the scan of each segment, killed at any step | extends `CarveOrder` |
| `CarveJob` | the abstract specification of a carve: a list that grows along the right list | instantiated by `CarveSession` |
| `Lists` | a finite set as a list in an order, the parts of a list and a stable sort, without recursion | |
| `ScanPipeline` | reader, workers and channels of `scan_segment` | extends `CarveOrder` |
| `RescueClone` | `clone_device`, the rescuer's passes and the three files | |
| `BlockMap` | `map.rs` byte for byte, with saving and loading | |
| `Bridge` | both programs of the companion bridge and the stream between them | |
| `ResultsStore` | `rc-results`' store: rows, ids, view, pages | extends `Lists` |
| `GuiApp` | the desktop application's scan threads, flags and buttons | extends `ResultsStore` |
| `Restorer` | `rc-restore` and the sink, called by `rc restore`, `rc extract` or the application | extends `Lists`, instantiates `Volume` |
| `Bifrag` | the search for a fragmented file, around a validator that is given | extends `Lists` |
| `Media` | reads of bytes over sectors, and unbuffered reads of an image | |
| `Partitions` | GPT, MBR, the scan for headers, `discover`; `detect` and the boot sectors as the readers take them | extends `Media`, `Lists` |
| `Volume` | locations, extents, geometry shared by the readers | extends `Media` |
| `FatVolume`, `ExfatVolume`, `NtfsVolume`, `Ext4Volume` | the readers, `NtfsVolume` with one MFT record out of its attributes | extend `Volume` |
| `Volumes` | volumes with a history (the drivers are external) and what scanning them gives | extends three readers |
| `SqliteRecords`, `SqliteCarve` | records byte by byte; a database with a log, a writer and crashes, and `carve` over its files | |
| `Outcome` | what a validator concludes, and the contract of a conclusion | |
| `FileFormats`, `Mp4File`, `JpegFile`, `SqliteFile` | the validators | extend `Outcome` |
| `Signatures`, `Score` | the signature database and the prefilter; evidence and rating | `Signatures` extends `Lists` |
| `Formats` | asks the parts without state their questions, and gives volumes and the database their histories | instantiates all of the above from `Partitions` on, except `Bifrag` |
| `ListProofs` | lemmas on lists, orders, sorting, counting, folds and division that several proofs rest on | extends `Lists` |
| `CarveSessionProofs`, `ScanPipelineProofs`, `BridgeProofs`, `GuiAppProofs`, `RestorerProofs`, `BifragProofs` | invariants, lemmas and theorems | extend what they are about; `ScanPipelineProofs` `Signatures` too, `GuiAppProofs` `Score` and `Partitions` |
| `ImageProofs` | the same for both halves of `rc-image` | extends `RescueClone` and `BlockMap` |
| `MC*` | a small instance of each for TLC | `MCRescueClone` runs a clone of `RescueClone` or marks a map of `BlockMap` |

`PROJECT.json` maps every definition to the lines it stands for. A definition
whose comment begins with "Mutant" is a plausible bug; no specification uses it.

### A carve

An offset is a natural number. A *hit* is a header with the verdict its
validator gives it: `valid`; `established`, partial with a length the file
itself fixes; `floor`, partial with at best a lower bound; `rejected`. Devices
(`Sources`) have hits and bad offsets. `Claimed(s, from, to)` is what blocks
laid from `from` show of the hits owned there (a block that touches a bad offset
shows nothing, `scan.rs:295-312`), `Truncated` the cut at `max_candidates` in
the order of `HitBefore`, `Kept` the removal of contained files in the order of
`Precedes`, and `Reported(s, upto)` the reference: what one uninterrupted scan
reports below `upto`, stated over sets.

`CarveSession` does not use `Reported`. It goes through `start`/`resume`, the
loop of `run` and `scan_segment` in the code's order: claim and cut a segment
(`ScanSegment`), judge its candidates one by one against `cover_end`
(`JudgeCandidate`), make the new state (`EndSegment`), commit it with the rows in
one transaction (`CommitSegment`, rc-index), write the `.recstate` file
(`SaveSegment`), choose the next size. A kill may fall between any two of these.
The state that matters of the process is `state` (RecState), `carry`,
`pending`/`keep` and `segment`; `index` and `recstate` are the files.

`ScanPipeline` opens up what `ScanSegment` takes as one step: who reads, who
searches, which buffer is where, and what a panic leaves behind. Its reference
is the same `Claimed`. `Signatures` opens up the search of one block, and the
validators' modules where a hit's verdict comes from.

### A clone

`RescueClone` works in sectors. `map` is a function from sectors to statuses;
`BlockMap` is the module that shows that the code's partition is one. A read of
several sectors succeeds only without a dead sector and may fail with a flaky
one; bytes are what `Content` says. Each read with its write, mark and tick is
one action, since nothing else runs in the process and a kill in between leaves
what a kill before it leaves, but for the output of one read, which the map then
does not call finished. The passes are actions in the order of `rescue.rs`;
`pc` is the pass. At the end come truncating and writing the `.map` twice and the
manifest, each a step of its own, since a kill may leave a torn file.

### The bridge

One unit of the stream is a line or one byte of a file. The phone reads a file
for its digest and again to send it, so the two contents are chosen separately,
and pads what is short. The computer stores, compares what it stored with the
digest in the phone's header, answers, and writes the manifest after `BYE`. Either end may fail at any step; the connection is then
closed and the other end's reads end.

### The application

A row is the scan that found it, its kind and its place; an id is what SQLite
hands out. A scan goes from the press of a button through `clear` (wizard only),
`run_scan` and its thread to the event the window receives; a press, a stop, a
filter, a clear, synthetic rows and a kill may come in between. Commands that
hold the store's mutex are one step each. Commands that are not `async` run on
the window's thread, so `busy.swap` and `stop.store` in `run_scan` are one step:
that is how Tauri dispatches them, not something this repository's code says.
A panic ends a scan's thread with `busy` set; one under the store's mutex, in the
thread or in a command, leaves the mutex poisoned as well, and whoever locks it
next panics in turn (`main.rs:177, 561`).

### Disks and volumes

A device in `Partitions` is what its sectors hold: headers with the fields the
code looks at, entry arrays, boot sectors. `Discover` is `discover` as a function.
In the readers a volume is its clusters or blocks with decoded slots, records and
entries in them; chains, extents, sequence numbers, checksums and journal tags
keep their meaning, names are tokens, times are left out. `Volumes` makes such
volumes by the actions of a file system's driver: create, delete, make a
directory, use a cluster or a record again, log and checkpoint, crash. The driver
is external: it keeps what is on the disk legal, and `truth` keeps what was done.
After each step the code's scan is evaluated on the volume and compared with
`truth`. `SqliteCarve` does the same with a writer, its log, checkpoints and
crashes between any two of these.

Structures that need no history (chains, exFAT entry sets, long names, fixups,
run lists, MFT records, an MFT in fragments, extent trees, boot sectors) are
given to the same code in every small arrangement, the illegal ones included.

### Formats

A validator is given a window: the parts of a file, what each declares, and
`have`, how many bytes the window holds. `Outcome` is the contract all of them
share; `ExtentsAreExact` asks it of every file of `MCFormats` and every window
length, cut at every byte and with other data behind. Where a validator decodes
(JPEG's entropy-coded units, MP4's samples, the pages of a database) the walk is
modelled and whether a code is in a table or a checksum holds is given. What the
contract does not hold for is kept out of the inputs and named below.

`Bifrag` is the search with its deepening, its galloping and its backtracking as
actions; the validator is any format with numbered landmarks.

### Restore

`Restorer` goes file by file: a destination that is free (names made safe,
numbered, apart from those taken), the sink's check and its open as two steps
(another program may be faster), spans copied chunk by chunk, the record, and the
manifest at the end. The three callers differ in whether they skip a file that
fails and in whether the device is opened, and so registered, before the output
directory is made.

## The runs

| run | question | instance | states |
|---|---|---|---|
| `session` | does a carve that is killed, stopped, refused and begun again end up with one scan's rows, and end up at all? | 2 devices with 9 and 2 hits over 8 offsets, blocks of 2, segments of 2, 4 or 6, a bad sector, 7 candidates at most, 2 starts, 3 kills, 2 stops | 9,739 |
| `clone` | is Finished copied, complete faithful, damage local, and does a run end? are the map's blocks the maximal runs, after any marks and reloads? | 5 sectors, 1 dead, 2 flaky, zeros among them; 3 runs of 3 command lines, 2 kills; beside it a map of 5 bytes and 3 statuses | 52,270 |
| `clone_stale` | is Finished copied whatever the options? | the same, a fresh start over an existing output | violation |
| `pipeline` | is every hit claimed once, and does the scan end? | 2 workers, 6 blocks, 7 hits on every kind of boundary, a bad sector, 2 panics | 13,605 |
| `bridge` | does ACK mean stored intact, and do the ends keep step? | 3 lists of 0 to 2 files of 0 to 3 bytes, 4 contents, 2 connections | 24,833 |
| `app` | rows listed once, full pages, a stop that sticks, `busy` true | 2 scans, deep and carve, 1 file per phase, 1 synthetic row, 1 kill, 2 filters, panics | 1,158,076 |
| `app_own` | does a scan of the wizard show its own results only? | 2 wizard scans | violation |
| `formats` | do the readers list and locate, the validators find the end, the search the headers, the rating the evidence? | histories of 6 (FAT), 7 (NTFS), 6 (ext4) and 9 (SQLite) steps; about 180,000 disks, structures and files | 779,532 |
| `bifrag` | is what is reported judged, and what can be found found? | 6 clusters of 7 kinds, windows of 1 to 3, 4 landmarks, calls of 2 clusters, 1 to grow unverified, a budget of 40 | 885,011 |
| `bifrag_left` | is only a path that does not verify abandoned? | the same | violation |
| `restore` | is a manifest true, and is nothing overwritten? | 7 files of every layout whose names meet, 3 callers, 2 runs, a kill, a fault, a foreign file | 47,656 |
| `restore_source` | is nothing made on the device being read? | the same, one run | violation |

Why these are enough: the hits of `session` are chosen so that each rule of
`CarveOrder` decides something (a thumbnail across a block boundary, two
signatures at one offset, a floor that must not suppress, a budget that cuts
before the last hit, a file to the end of the range), and the budget runs out in
a different segment after each pattern of kills. Two kills between the same two
writes and a third elsewhere are the longest pattern any property mentions. In
`clone`, blocks of 2 and 3 sectors over 5 leave a short last block, the dead
sector has flaky and good neighbours, and a third run sees what a killed and a
resumed run have left. The map beside it reaches
every assignment of its statuses. In
`pipeline` there are more blocks than buffers. The histories of `formats` are as
long as it takes for a deleted FAT directory's cluster to be a live one's, for a
path of three NTFS directories to lose one to another file, for ext4's log to
wrap and be cut by a crash, and for a SQLite page to be freed, used again and
half checkpointed. Windows go over every length of a file up to 200 bytes, and
around each boundary of a longer one. Blocks of the search have every size, so
every header lies on a boundary once. The search of `bifrag` deepens twice, and
the budget lasts in some disks and not in others; a call takes
more clusters than a path may grow unverified, as with the defaults (256 and 64). The files of `restore` collide
as a name made safe, a name already numbered, a directory and the manifest.
Every property is checked against a mutant of the code it is about, which TLC
must refute: a bound too small for the property to matter would leave its mutant
standing.

Deadlock is checked in `session`, `bifrag` and `bifrag_left`. The other runs come
to an end by design: all runs of the clone are used up, the segment is scanned,
`serve` has returned, a history is at its bound, the file is written. The
application stops when its presses and restarts are used up and a panic has left
the mutex poisoned.

Fairness. `session`: a live process takes its next step, and a user with an
unfinished carve resumes it on its own device; kills, stops and fresh starts are
bounded and owed to nobody. `clone`: a run that is not killed goes on; reads may
fail for ever on dead and, as they please, on flaky sectors. `pipeline`: the
operating system schedules every thread that can go on, one condition each.
`bridge`: the computer goes on and its reads time out (`set_read_timeout`,
`bridge.rs:130`); the phone owes nothing. `app`, `formats`, `bifrag` and `restore` state safety only:
every walk in the last three is a function TLC has to finish evaluating, or ends
with its budget.

## What is proved

For every value of the constants that satisfies the named assumptions:

| theorem | says |
|---|---|
| `CarveSessionProofs!TypeCorrect` | `Spec => []TypeOK` |
| `CarveSessionProofs!RowsAreOneScans` | `Spec => []CommittedRowsAreTheScan` |
| `CarveSessionProofs!CompleteCarvesAreWhole` | `Spec => []CompleteIsWholeScan` |
| `CarveSessionProofs!OwnIndexNeverRefused` | `Spec => []OwnIndexIsAccepted` |
| `CarveSessionProofs!CommittedWorkIsNeverLost` | `Spec => CommittedWorkIsKept`, an action property |
| `CarveSessionProofs!StopsAreHonoured` | `Spec => StopIsObeyed`, an action property |
| `CarveSessionProofs!SessionIsACarveJob` | `WholeBlocks` gives `Spec => Job!Spec`, the refinement of `CarveJob` |
| `ScanPipelineProofs!PipelineTyped` | `Spec => []TypeOK` |
| `ScanPipelineProofs!PoolIsBounded` | `Spec => []BuffersAreConserved` |
| `ScanPipelineProofs!HandingBackNeverWaits` | while the reader lives the recycle channel has room for whoever hands a buffer back |
| `ScanPipelineProofs!HitsAreClaimedOnce` | `Spec => []EveryHitOnce` |
| `ScanPipelineProofs!PrefilterIsExact` | `PrefilterLosesNothing`, for every database, range and size of block |
| `ImageProofs!TypeCorrect` | `Spec => []TypeOK` |
| `ImageProofs!CloneIsFaithful` | `Spec => []FinishedIsCopied` |
| `ImageProofs!CompleteClonesAreWhole` | `Spec => []CompleteIsFaithful` |
| `ImageProofs!DamageStaysLocal` | `Spec => []DamageIsLocalised` |
| `ImageProofs!NothingIsUnlearned` | `Spec => StatusOnlyAdvances`, an action property |
| `ImageProofs!MapTypeCorrect` | `MapSpec => []MapTypeOK` |
| `ImageProofs!MapIsPartition` | `MapSpec => []PartitionInv`: the blocks tile the device, with what was marked last, and are merged |
| `ImageProofs!MapAnswersTruly` | `MapSpec => []BlocksAreTheRuns` |
| `ImageProofs!TornMapIsRefused` | `MapSpec => []TornFileIsSmaller` |
| `BridgeProofs!BridgeTyped` | `Spec => []TypeOK` |
| `BridgeProofs!TheEndsKeepStep` | `Spec => []EndsKeepStep` |
| `BridgeProofs!AcksAreTrue` | `Spec => []AckMeansIntact` |
| `BridgeProofs!ManifestsAreTrue` | `Spec => []ManifestIsTheDirectory` |
| `GuiAppProofs!ViewStaysDense` | `Spec => []ViewIsDense` |
| `GuiAppProofs!StopIsKept` | `Spec => StopSticks`, an action property |
| `GuiAppProofs!BusyIsTrue` | `Spec => []BusyIsItsScans` |
| `GuiAppProofs!FoundIsListed` | `Spec => []FoundIsListedOnce` |
| `GuiAppProofs!RatingIsEarned` | `RatingFollowsEvidence`, for every entry, disk, set of live runs and verdict |
| `GuiAppProofs!ReconstructionIsSound` | `ReconstructionIsDisjoint` of `Discover`, for every device and scan |
| `GuiAppProofs!BackupsAreUsed` | `BackupIsUsed` of `Discover`, for every device |
| `GuiAppProofs!ReadersAgreeWithScan` | `ReadableIsOffered`, for every boot sector and place on any device |
| `GuiAppProofs!ClustersFitTheirVolume` | `ClustersAreOnVolume`, for every boot sector |
| `RestorerProofs!NothingIsOverwritten` | `Spec => OnlyNewFiles`, an action property |
| `RestorerProofs!ManifestsAreTrue` | `Spec => []ManifestIsTrue` |
| `RestorerProofs!ReadIsExact` | `read_bytes_at` returns the bytes asked for that the device has, and fails only for a sector that holds one of them |
| `RestorerProofs!UnbufferedIsExact` | an unbuffered read of an image returns what a buffered one does |
| `RestorerProofs!GeometryMapsOnce` | the offset of a cluster and the cluster of an offset are one mapping |
| `BifragProofs!SearchTypeCorrect` | `Spec => []TypeOK`, the budget included |
| `BifragProofs!SearchIsSound` | `Spec => []SearchInv`: the path rises, decisions lie inside it in order, a report is of bytes that were judged |
| `BifragProofs!ReportHolds` | `Spec => []ReportIsJudged` |
| `BifragProofs!FilesAreFound` | `Spec => []FileIsFound` |

What they assume of the constants is in the modules' named assumptions, which TLC
evaluates on every run: that numbers are numbers and sets are finite
(`RangeAssumption`, `OptionsAssumption`, `HitsAssumption`, `SessionAssumption`,
`DeviceAssumption`, `RunAssumption`, `MapAssumption`, `GuiAssumption`,
`RestoreAssumption`, `SearchAssumption`), that a landmark ends in the cluster it is
in (`ClusterAssumption`), that
values that stand for "none" are none of the others (`CheckpointAssumption`,
`BridgeAssumption`, `PipelineAssumption`), that there is at least one worker, and,
in `OverlapAssumption`, that the overlap of blocks is one byte less than the
longest header, which is how `scan.rs` computes it, and that headers lie wholly
in the range.

**Rows are one scan's.** The property speaks of rows and checkpoint; a kill can
make any checkpoint the next start, so an inductive invariant has to say what the
memory of the process is worth at every step. `SessionInv` is the conjunction of
`IndexInv` (the committed rows list `Expected` below the checkpoint, whose cover
and examined count are those of that prefix), `StateInv` (at which steps the
process's `RecState` is the committed one, and that it is its own device's),
`CarryInv` (between segments the carry is the state's, and the next segment is
whole blocks), `JudgeInv` (in the middle of a segment, `keep` lists what
`Expected` has among the candidates judged so far, those judged all precede the
pending ones, and the cover is that of everything judged), `CommitInv` (before a
commit, `keep` lists exactly what lies between the committed offset and the new
one) and `Uncommitted` (the state is not called complete before the end is
sealed). It rests on three facts
about the scan itself, lemmas at the head of `CarveSessionProofs`:

- `SameBlocks`/`ClaimedSegment`: a segment that begins on a block of one scan, or
  on a device without bad offsets, claims exactly that scan's hits of its range;
- `BudgetThreads`: cutting each segment at what the earlier ones have left of the
  budget is cutting the whole at the budget;
- `CoverDecides`: `cover_end`, one number, decides containment in everything
  judged so far, because candidates come in the order of `Precedes`.

`WholeBlocks` is the proviso: `run` does not round the caller's first segment to
blocks. `SegmentSizes` abstracts the adaptive size: any number of whole blocks up
to a bound, which is what `lib.rs:423` guarantees however the clock behaves.

**Committed work is kept.** Here nothing is asked of the blocks: what a scan finds
may be wrong and is kept all the same, so `KeepInv` is an invariant of its own. It
says where the process stands to the committed checkpoint: equal to it outside a
segment, not behind it and on its device inside one, and never resumed once it is
complete.

**A stop is obeyed.** While the flag is up the process's offset is the one it had
or the end of the segment in hand, and a run that says Stopped has committed all it
kept, is not complete and is not refused when it is resumed. `StopInv` says that
nothing is kept back at a boundary and that the process is on its own device, beside
the file a resume looks for; `CountInv` that the rows are as many as the process
counts, and `KeepInv` that the committed checkpoint is the process's; nothing is asked
of what the scan finds.

**A session is a carve job.** `CarveJob` knows a list that grows along the right
list, and nothing of kills, segments and two files. The mapping takes the rows and
the checkpoint of the index and forgets the rest. A commit maps to a step because
two lists that hold the same hits in the order of `Precedes` begin alike
(`ListsBeginAlike`), and what the right list is comes from `Listing`, which sorts
a finite set without recursion; all else maps to a stutter.

**Every hit once, for any number of workers.** `HitsInv` follows the blocks of the
segment: the channel holds blocks already behind the reader in order, each worker
holds one from before all of those, no two the same; what has been found was found
by one worker, in a block that claims it and that nobody has yet to search; and
while nobody has fallen, each block behind the reader is in the channel, in hand
or searched. That a hit has one block to be claimed in is `CarveOrder`'s; that the
block holds its whole header is `OverlapAssumption`. `Conserved` counts buffers:
those in the two channels, in hands and with fallen workers are as many as were
made. From the same count follows `HandingBackNeverWaits`, which is why `recycle`
is not a place where the pipeline could wait for itself.

**The search loses nothing.** A list lists a set `Once` if it has each element at one
place and nothing else. `ForEachHitOnce` says that of the hits, however they are
searched for: the passes over three bytes each part the needles
(`ChunksPart`), so their lists, put after one another, are those of disjoint sets
(`FlattenOnce`). The byte of a match is at one offset (`AnchorIs`) and is looked at
(`MatchIsLookedAt`); the candidates of a hit are the matches whose byte it is
(`CandidatesAre`); so a block lists its matches once (`BlockOnce`). The overlap is
enough for every header that begins in the block's own bytes (`OverlapIs`,
`BlockShows`), which is `OverlapAssumption` of the pipeline, and the blocks tile
the range (`BlocksTile`). Of the database only this is asked: headers are not
empty and have masks of their length, which `from_json` checks.

**The clone is faithful.** `CloneInv` adds to `FinishedMeansCopied`: where fillers
are zeros, a sector of the output holds zeros or its bytes, so that a hole left
for a sector of zeros does hold them, and there is no map file without an output
(`OutputInv`); the map of the run knows at least what the map file says is
finished (`MapInv`, since a run that saves would otherwise forget); the sectors a
pass still has before it have the status the pass looks for (`TodoInv`, without
which a pass could fill over a finished sector); and a manifest that says
complete was written of a faithful output (`ManifestInv`). The proviso is
`SafeOptions`: no fresh start over an existing output (`clone_stale`), and no
sparse output with a fill other than zero (below).

**Damage stays local.** `PassInv` needs no proviso: what a pass has done with is
in none of the statuses it looks for (`LeftInv`: a sector not tried lies ahead of
the copy, one not trimmed or not scraped is still in `todo` or between the two
edges), unless failed blocks or a cancel cut the run short, and only a sector
whose own read failed is ever called bad (`BadInv`, which has to speak of the map
file too, since a resume reads it back). `StatusOnlyAdvances` is proved pass by
pass from the same.

**The map is a partition.** `mark` cuts out a range and merges the neighbours it
then has, in a vector of blocks; `PartitionInv` says what is left of that: blocks
begin at 0, each where the last one ends, the last at the size, none empty, no two
neighbours of one status (`Tiles`, merged), and the byte `b` lies in a block of
the status `b` was last marked with. From it the answers follow: a byte has one
block (`status_at`), the bytes in a status are the lengths of its blocks
(`bytes_in`), the first block behind an offset is the first run
(`next_block_with`), and a file that lost lines tiles fewer bytes than it says.

The code sums and merges in loops, which the model writes as folds of the
community modules. A fold is a recursive function that CHOOSE picks, and the
library's induction theorems cannot be used; `ListProofs` proves instead that the
function exists (`FoldExists`, `FoldAlongExists`), by taking the least length up
to which it does not, and what holds at every place of it in the same way
(`LeastExists`, `CountingUp`). So induction over a fold of the list at hand is
within reach; over a RECURSIVE operator it is not.

**The bridge.** `InStep` describes, for each place the computer can be in, where
the phone may be and what may be under way between them; it is the protocol, and
everything else follows from it: that no header is ever read out of a file's
bytes, with `AckInv` that an acknowledgement on the wire or remembered means the
file on disk has the digest the phone put in that file's header, and that this file
is not the one being received, and with
`ListInv` that the list and the directory agree but for the file in hand and what
a failure leaves.

**The application.** `ViewInv` makes the view either everything or a list of rows
that are there, each once; full pages then are arithmetic. The view is built by
`InOrder`, and the lemmas of `ListProofs` say that a strict order lists a finite
set, each element in a place of its own. `FoundInv` is about who has a row: a scan
that is not over has every row it found listed, gone (cleared, or dropped with a
failed add) or in hand, and what it has in hand is not listed yet. `StopSticks`
needs no invariant: `[Next]_vars` alone gives it. `BusyIsTrue` does: `busy` has one
owner, the scan it was set for, and only that scan's end or a restart gives it back;
a thread that panicked owns it until then (`BusyStep`).

**The rating is earned.** `OccupiedIs`: the search by halves in the merged ranges says
yes for exactly the clusters of some run; so one more run only adds to the lost
clusters (`ContentGrows`). Counting a break as a lost cluster is where this could
go wrong, because a loss at or behind the break takes its place: `LossGrows` shows
that the loss still has as many clusters, and the first one if it had it. A value
is the least of the caps that fire and what the penalties leave (`ValueIs`); of the
three rules of loss a greater one has a lower cap; and every rule that a green file
must not have has a cap below green (`GreenIsUncapped`). An entry and a verdict are
taken to have the types of `IsEntry` and `IsOutcome`, a verdict at most one
`damage_at`. The numbers are those of the shipped `rules.json`.

**Partitions.** A device is any record with the types of `IsDevice`: headers of any
numbers anywhere, any bad sectors, any tables. `KeptLieApart` goes along the fold
of `candidates_to_partitions` and keeps both halves of the property: what is kept
lies apart, and what was given up overlaps or begins with something kept. That the
latter is at least as credible is due to the sort before the fold
(`SortedIsList`), and `SortedLieApart` that the sorts behind it change only the
order. `Discovered` says which way `discover` went: the GPT's partitions are kept
whenever there are any, those of an MBR or of the look at sector 0 are never called
reconstructed, and the scan is reached only with nothing else. `BackupsAreUsed` asks
that a backup called whole has a sane header and a readable array whose entries
are not back to front (`IsUsable`); an array that fails this gives no partitions. The
place to begin a scan and the number of candidates are any numbers. In `ReadersAgreeWithScan` a header
field is any number, the two signed bytes of NTFS any byte, and a candidate is not
the value for "none"; the conditions under which the scan is stricter are those
of the property. What the theorems on FAT rest on is that `div_ceil` of the root
directory covers it (`RoundedUp`) and that what was divided fits (`ClustersFit`).
Together with `ReadIsExact` and `UnbufferedIsExact` these are the conjuncts of
`DisksAreReadRight`.

**Restore.** `NewInv` says that a file in hand means an open, hence registered,
device, that the name in hand is one the sink did not see, and that numbering has
found a free one. The one case without a device is the application asked for
nothing (`NothingAsked`). `TrueInv` is the manifest's: whatever a manifest lists,
or the process has listed for the next, is there to the byte (`ListedIsTrue`), and
stays so because the file in hand is on nobody's list (`DestIsUnlisted`); written
and skipped files add up (`Accounts`); a success has its manifest
(`SuccessIsWhole`); and the file in hand holds its content up to where the copy is
(`CopyIsTrue`). That one rests on the reads below it: `ReadIsExact` for
one read over bad sectors and odd offsets, `BufferIsRead` for a chunk of a span
(holes, the end of the device), `BytesAddUp` and `ContentOfSpans` for spans after
one another.

**What a search reports.** `SearchInv` keeps that the path begins at the header and
rises, that the decisions lie inside it, each deeper than the one below, that
`best` is rising clusters with a length that was judged, and that a report is the
pieces of rising clusters up to such a length, called valid only if the validator
said so of those clusters. Two lemmas connect that to `ReportIsJudged`. `JudgeCut`:
a verdict on a path stands for the clusters up to its length, so that those the
report cuts off did not matter. `PiecesSpell` and `PiecesRise`: the runs of
adjacent clusters, put after one another, spell the clusters' bytes up to the cut.
The file may have landmarks in any phase, checksums that fail and any number of
fragments; nothing is asked of the bounds.

**What can be found is found.** `FoundInv` follows every whole file of the disk
through an attempt with the widest window: either the path is along the file,
or some decision of the stack has its part of the path along it and the file's next
cluster still before it (`Waits`); `KeepsUp` says how far the verified length of the
part along the file has come. A candidate of the file is never
rejected, a gallop never takes a cluster past the file's next one without leaving
a decision there, and a decision is given up only when nothing waits at it, so
that the stack cannot run empty while the file is there. The proviso is
in the property: `NeverLeft` asks that no call along the file verifies more
clusters at once than a path may grow unverified, the call that takes in the rest
of the file excepted, or that the file has at most `MaxUnverified` + 1 landmarks.
Then a path along the file is either within the bound, because a call that does
not outrun leaves at most that many clusters behind the last one that moved the
length (`NotOutrun`), or reaches the whole file (`ReachedIsWhole`), which is
reported before the count is looked at. The theorem is of all values of the
bounds, the defaults included, under which any file of up to 65 landmarks is
covered, and a longer one whose calls do not outrun. Without the proviso TLC
finds the missed file (`bifrag_left`, below).

Checked by TLC only. Liveness (`EventuallyComplete`, `RunEnds`, `ScanEnds`,
`SessionEnds`): fairness is out of the prover's reach, as is
ENABLED. `Formats` itself, which reaches RECURSIVE operators, so that no theorem
can name its properties. Every conjunct of `PrefilterLosesNothing`, `RatingFollowsEvidence` and
`DisksAreReadRight` is proved above in the modules `Formats` instantiates. The
others (`FatTreeIsListed`, `NtfsPathsAreTrue`, `DeletedIsLocated`,
`LiveIsCommitted`, `GoneRowsAreRecovered`, `StructuresAreWhole`, `ExtentsAreExact`,
`SplicesAreSeen`), but for the geometry, ask the readers and the validators, and
nearly every walk in those is a RECURSIVE operator, which the prover does not
reach.

## What the code does otherwise than it says

Found while modelling. Those with a run are in `PROJECT.json`:

- `clone_stale`: a fresh run over an existing output leaves the old map beside the
  truncated output until its passes end; killed before, it makes a resume trust
  sectors that are not there.
- `app_own`: a scan that is ending can add its rows after the wizard has cleared
  the store for the next.
- `restore_source`: the application's restore makes the output directory before it
  opens the device, so the check finds no scan source and the directory is made
  on the device when that is where it points.
- `bifrag_left`: `max_unverified_clusters` is for branches whose verified length
  does not move (`rc-bifrag/src/lib.rs:113-114`), but a round of a gallop pushes all
  its clusters with one outcome (`lib.rs:700`), and `push` resets `stale` for the
  first of them only (`lib.rs:371-376`). With the defaults a last round that verifies
  65 to 256 clusters (a first fragment of 66 is enough, if what lies behind it is no
  contradiction) leaves a path that is verified to its end and that `lib.rs:500`
  abandons. `FileIsFound` without
  `NeverLeft` is then violated too, with `RunClusters` 3 and `Landmarks` 6 even by a
  file in one piece: with the defaults one of 258 clusters, when the call before
  the last ends inside a cluster.

Stated as a property and violated in a variation of a run's configuration (the
definition is in the module, no run is kept for it):

- `CarveSession!SegmentsAgreeWithOneScan`, first segment 3: segments and one scan
  disagree around a bad sector when the first segment is not whole blocks, which
  `--block-bytes` and `--segment-mib` allow (`rc-session/src/lib.rs:366-369`).
- `RescueClone!CompleteDigestsAgree`, no dead sector, one flaky, one run
  (`OneRun`): the source digest is taken in reading order
  (`rescue.rs:345-348`), so a complete, faithful clone of a device with a flaky
  sector has two different digests, against `clone.rs:117-119`.
- `RescueClone!KillLosesAtMostABlock`: a kill loses everything since the run began
  (`clone.rs:102`), not one block (`rescue.rs:19-20`).
- `ScanPipeline!ReaderLeavesWithTheWorkers`, 1 worker, 1 panic: with one thread a
  panic hangs the scan instead of ending it (`scan.rs:436, 506`).
- `Formats!EveryWindowIsAnswered`: the SQLite validator panics on a window of
  exactly 100 bytes (`sqlite.rs:32, 96`), against `validate/mod.rs:470`.
- `Bifrag!NothingContradictedIsTaken`: the lookahead of `consider` lacks the
  `ran_out` check that `gallop` makes (`rc-bifrag/src/lib.rs:663-667`).
- `Volumes!TraversedPathsAreLive`: a deleted FAT directory whose cluster is now a
  live directory's is walked first, and gives its path to the live one's files.

Seen, without a property:

- Clone: with a sparse output and a fill other than zero, a zero sector recovered
  by a retry is skipped (`rescue.rs:349-351`) and leaves the fill that `fill_bad`
  wrote (`rescue.rs:355-362`) under a sector called Finished.
- Session: the `.recstate` file may lag the index by more than the one segment
  `rc-session/src/lib.rs:21` speaks of, after repeated kills. A resume goes by the
  index, so nothing is lost.
- Bridge: a connection that closes or stays silent before its first line ends
  `serve` (`bridge.rs:135, 143`), though `docs/BRIDGE.md:24` says the computer keeps
  waiting for a correct code. And `BYE` is sent before the manifest is written
  (`bridge.rs:157-161`), which may still fail.
- Application: an early add that fails drops the file system's rows without a word
  (`main.rs:561`); `FoundIsListedOnce` excepts exactly these.
- Restore: the application asked to restore nothing (rows can go while the save page
  is open, `main.ts:667-672`) opens no device, so its manifest is written wherever
  the user points, the source included; `OnlyNewFiles` excepts exactly this.
- Restore: a read error in `rc extract` or the application ends without a
  manifest, though `rc-restore/src/lib.rs:8-10` says every written file is recorded;
  a file that appears between the sink's look (`sink.rs:193`) and its open
  (`sink.rs:206`) is overwritten; what a failed file had got stays under its name. A resident file shorter than
  its entry's size gets no note that it is short (`rc-restore/src/lib.rs:230-252`),
  as one in runs does (`lib.rs:199-203`).
- NTFS: 64 KiB clusters of 512-byte sectors are a count of 128, which
  `decode_sized_field` reads as a logarithm and `parse_boot` refuses
  (`boot.rs:40-56, 80-85`), though the partition scan takes it. An extension
  record named twice in an attribute list has its extents merged twice; one bad
  sector loses a whole chunk of records; a value cut off by its own header reads
  as an empty resident file.
- FAT and exFAT: `MAX_DIR_CLUSTERS` truncates chains that are then reported exact;
  one unreadable directory cluster ends the scan; a stale long-name run is spliced
  into a name of exactly 13k characters; a deleted exFAT set partly overwritten
  swallows the live set in its count.
- ext4: a reused inode's later content is given to an earlier deleted name; a
  deleted name whose inode is live elsewhere is dropped.
- Partitions: `always_scan` never scans when a table was found; a primary GPT with
  a right CRC and insane values never falls back (`gpt.rs:4-5`).
- SQLite carve: records without a header are looked for in the free space of pages
  in use only (`rc-sqlite-carve/src/lib.rs:717-740`); a page that is freed, replaced
  by a newer frame or uncommitted gives what its cell pointers and a scan for whole
  records show (`dead_page`, `lib.rs:755-794`). A row that was in a freeblock of such
  a page is lost, which "What it misses" (`lib.rs:33-42`) does not say;
  `GoneRowsAreRecovered` promises only the others.
- SQLite carve: rows older than an added column are not found, nor is a row whose
  rowid alias is NULL told from another; frames past a salt mismatch are ignored.
- Validators: a GIF with a local colour table in a later image, an MP4 with 1 to 7
  bytes behind its last box, an incremental PDF, a TIFF with its arrays outside,
  an ELF cut in its tables: the contract of `Outcome` does not hold of these, and
  they are not among the inputs. GIF, ICO, RIFF, PDF and ZIP files cut short are
  called damaged rather than cut, so `CutIsSaid` is not asked of them.
- Validators: of an MP4's samples only the lengths of NAL units and their first
  bytes are looked at (`mp4.rs:419-445`), so foreign data inside a unit goes unseen,
  as `mp4.rs:772-797` and `validate/mod.rs:107-108` say; `SplicesAreSeen` asks only
  for a splice that shows in those.
- Scores: a break in a file of one cluster counts as its header lost, though the
  comment says that a break never does.

## What is not modelled

The device backends are calls to the operating system; what their reads may do is
a constant. adb, iOS, screen and preview run other programs or decode images. The
command line's options are constants. HFS+ and APFS are only detected by the
code. Of the readers, times, attributes, compression and code pages are left out,
of the validators the plain-text, XML, MP3, RAR and ustar checks, of SQLite
overflow chains and the schema's SQL. Compressed and decoded content stands as
whether it decodes. Statistics, progress, wording and layout are left out
throughout. Extended partitions are not modelled because the code does not walk
them. The comparison of paths and serial numbers behind the destination guard is
given as a truth.

## Plan

1. `ResultsGrid`: the cache, selection and pages of `grid.ts` over the one view of
   `ResultsStore`; what is ticked is what is restored (four hazards wait for it).
2. `SourceGuard`: `register`, drop and `check_destination` from several threads.
3. Overflow chains of SQLite, exFAT volumes with a history, the superblock of ext4.
4. Proofs: the readers, once their walks are recursive functions or folds over
   the lists at hand instead of RECURSIVE operators, `Volumes`' `DeletedIsLocated` first.
