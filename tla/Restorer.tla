------------------------------ MODULE Restorer ------------------------------
(***************************************************************************)
(* Writing recovered files out (rc-restore), file by file through the sink *)
(* (rc-image sink.rs), for its three callers: rc restore, rc extract and   *)
(* the desktop application (rc-results restore).  A read may fail, so may  *)
(* a write, the process may be killed at any step and begun again, and     *)
(* another program may put files into the directory meanwhile.             *)
(*                                                                         *)
(* A name is a sequence: <<"a">>, and <<"a", 1>> for "a (1)"; a path is a  *)
(* sequence of names below the output directory, which is <<>> itself.     *)
(* A byte of the device is its offset, as in Media.                        *)
(***************************************************************************)
EXTENDS Lists

CONSTANTS
  None,
  Wanted,        \* the files to restore, in order: [rel, size, location]
  Geom,          \* Geometry of their volume
  Device,        \* what they are read from: Media
  Chunk,         \* bytes read at a time (buf)
  Unsafe,        \* names the host refuses -> what safe_component makes of them
  Callers,       \* [skips, opens_first]
  Homes,         \* where the output directory may be: "source", "other"
  Foreign,       \* paths another program may create
  MaxRuns, MaxKills, MaxFaults, MaxForeign   \* bounds

INSTANCE Volume WITH MaxDepth <- 0, MaxDirClusters <- 0

Hole == -1   \* u64::MAX

IsList(s)  == Len(s) \in Nat /\ s = [i \in 1 .. Len(s) |-> s[i]]
IsPath(p)  == IsList(p) /\ \A i \in 1 .. Len(p) : IsList(p[i])

IsLocation(at) ==
  \/ at.where = "resident" /\ IsList(at.bytes) /\ \A i \in 1 .. Len(at.bytes) : at.bytes[i] \in Int
  \/ /\ at.where = "runs" /\ IsList(at.extents)
     /\ \A i \in 1 .. Len(at.extents) :
          /\ at.extents[i].start \in Nat /\ at.extents[i].count \in Nat
          /\ at.extents[i].sparse \in BOOLEAN
  \/ at.where = "first" /\ at.cluster \in Nat
  \/ /\ at.where = "spans" /\ IsList(at.spans)
     /\ \A i \in 1 .. Len(at.spans) : at.spans[i] \in [offset : Nat \cup {Hole}, length : Nat]
  \/ at.where = "unknown"

ASSUME RestoreAssumption ==
  /\ Chunk \in Nat \ {0}
  /\ {MaxRuns, MaxKills, MaxFaults, MaxForeign} \subseteq Nat
  /\ Geom.first \in Nat /\ Geom.count \in Nat /\ Geom.bytes \in Nat \ {0} /\ Geom.heap \in Nat
  /\ Device.sector \in Nat \ {0} /\ Device.sectors \in Nat /\ Device.bad \subseteq Nat
  /\ None \notin Nat /\ None \notin Seq(Nat)
  /\ IsList(Wanted)
  /\ \A i \in 1 .. Len(Wanted) :
       IsPath(Wanted[i].rel) /\ Wanted[i].size \in Nat /\ IsLocation(Wanted[i].location)
  /\ \A c \in DOMAIN Unsafe : IsList(Unsafe[c])
  /\ \A c \in Callers : c.skips \in BOOLEAN /\ c.opens_first \in BOOLEAN

VARIABLES
  home, files, folders,          \* the output directory
  pc, caller, registered,        \* the process, and its open device
  todo, taken, written, skipped, \* Restorer
  dest, span, done,              \* the file in hand
  outcome,
  seen,                          \* what was there when the sink last looked
  runs, kills, faults, foreign

restorer == <<todo, taken, written, skipped>>
disk == <<home, folders>>
file == <<dest, span, done>>
bounds == <<runs, kills, faults, foreign>>
vars == <<disk, files, pc, caller, registered, restorer, file, outcome, seen, bounds>>

File(bytes) == [kind |-> "file", bytes |-> bytes]
Manifest(records) == [kind |-> "manifest", records |-> records]

Init ==
  /\ home \in Homes
  /\ files = <<>> /\ folders = {}
  /\ pc = "off" /\ caller \in Callers /\ registered = FALSE
  /\ todo = 1 /\ taken = {} /\ written = <<>> /\ skipped = {}
  /\ dest = <<>> /\ span = 1 /\ done = 0
  /\ outcome = "none" /\ seen = {}
  /\ runs = 0 /\ kills = 0 /\ faults = 0 /\ foreign = 0

-----------------------------------------------------------------------------
(* Names                                                                   *)

Exists(p) == p \in DOMAIN files \cup folders

Put(p, content) == [q \in DOMAIN files \cup {p} |-> IF q = p THEN content ELSE files[q]]

Numbered(p, n) == Front(p) \o <<Append(Last(p), n)>>

\* The first of p, p (1), p (2)... that is not used.
FirstFree(p, used) ==
  IF p \notin used THEN p
  ELSE Numbered(p, CHOOSE n \in 1 .. Cardinality(used) + 1 :
                     /\ Numbered(p, n) \notin used
                     /\ \A k \in 1 .. n - 1 : Numbered(p, k) \in used)

SafeComponent(c) == IF c \in DOMAIN Unsafe THEN Unsafe[c] ELSE c

Destination(rel) ==
  LET parts == PartOf(rel, {i \in DOMAIN rel : rel[i] \notin {<<".">>, <<"..">>}})
      p == IF parts = <<>> THEN <<<<"unnamed">>>> ELSE [i \in 1 .. Len(parts) |-> SafeComponent(parts[i])]
  IN  FirstFree(p, DOMAIN files \cup folders \cup taken)

ManifestPath == FirstFree(<<<<"restore-manifest">>>>, DOMAIN files \cup folders)

-----------------------------------------------------------------------------
(* Contents                                                                *)

\* entry and spans: where a file's bytes are; None off the volume.
SpansOf(w) ==
  LET at == w.location IN
  CASE at.where = "runs" ->
         [i \in DOMAIN at.extents |->
            [offset |-> IF at.extents[i].sparse THEN Hole
                        ELSE ClusterOffset(Geom, at.extents[i].start),
             length |-> at.extents[i].count * Geom.bytes]]
    [] at.where = "first" ->
         <<[offset |-> ClusterOffset(Geom, at.cluster), length |-> AlignUp(Geom.bytes, w.size)]>>
    [] at.where = "spans" -> at.spans
    [] OTHER -> <<>>

Restorable(w) ==
  /\ w.location.where # "unknown"
  /\ \A i \in DOMAIN SpansOf(w) : SpansOf(w)[i].offset # None

Zero == -1
Zeros(n) == [k \in 1 .. n |-> Zero]

\* One buffer: read_bytes_at, and zeros for what lies past the end of the
\* device; None when it fails.
Buffer(offset, len) ==
  IF offset = Hole THEN Zeros(len)
  ELSE LET got == ReadBytesAt(Device, offset, len)
       IN  IF got = None THEN None ELSE got \o Zeros(len - Len(got))

-----------------------------------------------------------------------------
(* The process                                                             *)

Now == Wanted[todo]
Spans == SpansOf(Now)
AllTaken == todo > Len(Wanted)
Out == Len(files[dest].bytes)
OnSource == registered /\ home = "source"

End(result) ==
  /\ pc' = "off" /\ outcome' = result /\ registered' = FALSE
  /\ UNCHANGED <<caller, restorer, file, seen>>

\* Restorer::new.  The application has not opened the device yet.
NewRefused(c) == (c.opens_first /\ home = "source") \/ <<>> \in DOMAIN files

Start(c) ==
  /\ pc = "off" /\ runs < MaxRuns /\ ~NewRefused(c)
  /\ runs' = runs + 1 /\ caller' = c
  /\ registered' = c.opens_first
  /\ folders' = folders \cup {<<>>}
  /\ todo' = 1 /\ taken' = {} /\ written' = <<>> /\ skipped' = {}
  /\ pc' = "next" /\ outcome' = "none"
  /\ UNCHANGED <<home, files, file, seen, kills, faults, foreign>>

StartRefused(c) ==
  /\ pc = "off" /\ runs < MaxRuns /\ NewRefused(c)
  /\ runs' = runs + 1 /\ caller' = c /\ outcome' = "error"
  /\ UNCHANGED <<disk, files, pc, registered, restorer, file, seen, kills, faults, foreign>>

\* What a caller makes of an error: rc restore goes on with the next file, the
\* others end, and so does everyone over the manifest.
Fail ==
  \/ /\ caller.skips /\ ~AllTaken
     /\ skipped' = skipped \cup {todo} /\ todo' = todo + 1
     /\ pc' = "next"
     /\ UNCHANGED <<caller, registered, taken, written, file, outcome, seen>>
  \/ /\ ~caller.skips \/ AllTaken
     /\ End("error")

OpenDevice ==
  /\ pc = "next" /\ ~AllTaken /\ ~registered
  /\ registered' = TRUE
  /\ UNCHANGED <<disk, files, pc, caller, restorer, file, outcome, seen, bounds>>

CannotRestore ==
  /\ pc = "next" /\ ~AllTaken /\ registered /\ ~Restorable(Now)
  /\ Fail
  /\ UNCHANGED <<disk, files, bounds>>

Choose ==
  /\ pc = "next" /\ ~AllTaken /\ registered /\ Restorable(Now)
  /\ dest' = Destination(Now.rel)
  /\ taken' = taken \cup {dest'}
  /\ span' = 1 /\ done' = 0
  /\ pc' = "create"
  /\ UNCHANGED <<disk, files, caller, registered, todo, written, skipped, outcome, seen, bounds>>

ChooseManifest ==
  /\ pc = "next" /\ AllTaken
  /\ dest' = ManifestPath
  /\ pc' = "create"
  /\ UNCHANGED <<disk, files, caller, registered, restorer, span, done, outcome, seen, bounds>>

\* Mutant: the name was free when it was chosen.
CreateRefusedOnSource == OnSource

\* OutputSink::create: whether the file may be made, its directories, and then
\* the file, emptied if it is there after all.
CreateRefused == OnSource \/ Exists(dest)

Above(p) == {SubSeq(p, 1, n) : n \in 0 .. Len(p) - 1}

Create ==
  /\ pc = "create" /\ ~CreateRefused /\ Above(dest) \cap DOMAIN files = {}
  /\ folders' = folders \cup Above(dest)
  /\ seen' = DOMAIN files
  /\ pc' = "open"
  /\ UNCHANGED <<home, files, caller, registered, restorer, file, outcome, bounds>>

CreateFails ==
  /\ pc = "create" /\ (CreateRefused \/ Above(dest) \cap DOMAIN files # {})
  /\ Fail
  /\ UNCHANGED <<disk, files, bounds>>

Open ==
  /\ pc = "open"
  /\ files' = Put(dest, IF AllTaken THEN Manifest(<<>>) ELSE File(<<>>))
  /\ pc' = "copy"
  /\ UNCHANGED <<disk, caller, registered, restorer, file, outcome, seen, bounds>>

\* spans, one buffer at a time.
InSpan == span <= Len(Spans) /\ done < Spans[span].length

\* Mutant: the last cluster is written whole.
WantWhole == LesserOf(Spans[span].length - done, Chunk)

Want == LesserOf(LesserOf(Spans[span].length - done, Chunk), Now.size - Out)

From == IF Spans[span].offset = Hole THEN Hole ELSE Spans[span].offset + done

Copy ==
  /\ pc = "copy" /\ ~AllTaken /\ InSpan /\ Out < Now.size
  /\ Buffer(From, Want) # None
  /\ files' = [files EXCEPT ![dest].bytes = @ \o Buffer(From, Want)]
  /\ done' = done + Want
  /\ UNCHANGED <<disk, pc, caller, registered, restorer, dest, span, outcome, seen, bounds>>

NextSpan ==
  /\ pc = "copy" /\ ~AllTaken /\ span <= Len(Spans) /\ ~InSpan
  /\ span' = span + 1 /\ done' = 0
  /\ UNCHANGED <<disk, files, pc, caller, registered, restorer, dest, outcome, seen, bounds>>

CopyResident ==
  /\ pc = "copy" /\ ~AllTaken /\ Now.location.where = "resident" /\ Out = 0
  /\ files' = [files EXCEPT ![dest].bytes =
                 SubSeq(Now.location.bytes, 1, LesserOf(Now.size, Len(Now.location.bytes)))]
  /\ UNCHANGED <<disk, pc, caller, registered, restorer, file, outcome, seen, bounds>>

ReadFails ==
  /\ pc = "copy" /\ ~AllTaken /\ InSpan /\ Out < Now.size
  /\ Buffer(From, Want) = None
  /\ Fail
  /\ UNCHANGED <<disk, files, bounds>>

\* The disk is full.
WriteFails ==
  /\ pc = "copy" /\ faults < MaxFaults
  /\ faults' = faults + 1
  /\ Fail
  /\ UNCHANGED <<disk, files, runs, kills, foreign>>

Copied ==
  IF Now.location.where = "resident"
    THEN Out = LesserOf(Now.size, Len(Now.location.bytes))
    ELSE span > Len(Spans) \/ (InSpan /\ Out >= Now.size)

\* Only spans says that a file is short.
Record == [which |-> todo, dest |-> dest, bytes |-> files[dest].bytes,
           short |-> Now.location.where # "resident" /\ Out < Now.size]

Finish ==
  /\ pc = "copy" /\ ~AllTaken /\ Copied
  /\ written' = Append(written, Record)
  /\ todo' = todo + 1
  /\ pc' = "next"
  /\ UNCHANGED <<disk, files, caller, registered, taken, skipped, file, outcome, seen, bounds>>

FinishManifest ==
  /\ pc = "copy" /\ AllTaken
  /\ files' = [files EXCEPT ![dest] = Manifest(written)]
  /\ End("ok")
  /\ UNCHANGED <<disk, bounds>>

Kill ==
  /\ pc # "off" /\ kills < MaxKills
  /\ kills' = kills + 1
  /\ End("killed")
  /\ UNCHANGED <<disk, files, runs, faults, foreign>>

\* Another program puts a file into the directory.
Intrude ==
  /\ foreign < MaxForeign
  /\ foreign' = foreign + 1
  /\ \E p \in Foreign :
       /\ ~Exists(p) /\ p # <<>> /\ Front(p) \in folders
       /\ files' = Put(p, File(<<-2>>))
  /\ UNCHANGED <<disk, pc, caller, registered, restorer, file, outcome, seen, runs, kills, faults>>

Process ==
  \/ OpenDevice \/ CannotRestore \/ Choose \/ ChooseManifest \/ Create \/ CreateFails \/ Open
  \/ Copy \/ NextSpan \/ CopyResident \/ ReadFails \/ WriteFails \/ Finish \/ FinishManifest

Next == (\E c \in Callers : Start(c) \/ StartRefused(c)) \/ Process \/ Kill \/ Intrude

Spec == Init /\ [][Next]_vars

-----------------------------------------------------------------------------
(* Properties                                                              *)

NothingAsked == Wanted = <<>> /\ ~caller.opens_first

\* "Existing files are never overwritten": what was there when the sink looked
\* stays as it is, the files of earlier runs, cut short or not, among them; and
\* no file is made on the device being read, once there is one: the application,
\* which opens the device with the first file, reads none when asked for nothing.
OnlyNewFiles ==
  [][\A p \in DOMAIN files' :
       /\ p \in DOMAIN files /\ files'[p] # files[p] => p = dest /\ p \notin seen
       /\ p \notin DOMAIN files =>
            home # "source" \/ NothingAsked \/ foreign' # foreign]_files

\* How many bytes come before span i.
BytesBefore(spans, i) == Cardinality(UNION {{j} \X (1 .. spans[j].length) : j \in 1 .. i - 1})

ByteOf(s, k) ==
  IF s.offset = Hole \/ s.offset + k - 1 >= TotalBytes(Device) THEN Zero ELSE s.offset + k - 1

\* What a file should hold: the bytes of its spans in order, as many as it has.
Content(w) ==
  LET at    == w.location
      spans == SpansOf(w)
      all   == BytesBefore(spans, Len(spans) + 1)
      holder(k) == CHOOSE i \in 1 .. Len(spans) :
                     BytesBefore(spans, i) < k /\ k <= BytesBefore(spans, i + 1)
  IN  IF at.where = "resident" THEN SubSeq(at.bytes, 1, LesserOf(w.size, Len(at.bytes)))
      ELSE [k \in 1 .. LesserOf(w.size, all) |->
              ByteOf(spans[holder(k)], k - BytesBefore(spans, holder(k)))]

\* However the runs before it ended, a manifest names, for each file it lists, a
\* file of its own with that file's content, to the byte, and says so when spans
\* ran out before its size did; and a run that reports success has listed or named as skipped every
\* file it was asked for, once.
ManifestIsTrue ==
  /\ \A p \in DOMAIN files : files[p].kind = "manifest" =>
       LET records == files[p].records IN
       \A i \in DOMAIN records :
         /\ \A j \in DOMAIN records : records[i].dest = records[j].dest => i = j
         /\ records[i].dest \in DOMAIN files
         /\ files[records[i].dest] = File(Content(Wanted[records[i].which]))
         /\ records[i].short <=>
              /\ Wanted[records[i].which].location.where # "resident"
              /\ Len(Content(Wanted[records[i].which])) < Wanted[records[i].which].size
  /\ outcome = "ok" =>
       /\ {written[i].which : i \in DOMAIN written} \cup skipped = DOMAIN Wanted
       /\ Len(written) + Cardinality(skipped) = Len(Wanted)
       /\ \E p \in DOMAIN files : files[p] = Manifest(written)

\* "Not even the directory is made on the source" (rc-restore lib.rs).
SourceIsUntouched == home = "source" => folders = {}
=============================================================================
