----------------------------- MODULE RescueClone -----------------------------
(***************************************************************************)
(* rc-image: cloning a failing device (clone.rs, rescue.rs), sector by     *)
(* sector.                                                                 *)
(*                                                                         *)
(* Three files outlive the process: the output, the .map with the status   *)
(* of every sector, and the .hash manifest.  A run loads or makes a map,   *)
(* opens the output, and goes through the passes                           *)
(*                                                                         *)
(*   copy -> trim (forward, backward) -> scrape -> retry ...               *)
(*                                                                         *)
(* over the map in memory; the .map file is written when the passes end,   *)
(* for whatever reason, and again before the manifest.  Only a run that is *)
(* killed writes nothing.  The block map is a function from sectors to     *)
(* statuses; its blocks are the maximal runs of one status.                *)
(***************************************************************************)
EXTENDS Integers, Sequences, FiniteSets

CONSTANTS
  N,                  \* sectors of the device
  Content,            \* what each sector holds
  Dead,               \* sectors that never read
  Flaky,              \* sectors that sometimes read
  Options,            \* the command lines a run may be given
  Bytes,              \* what a sector may hold, "zero" among them
  MaxRuns,            \* bound: runs begun
  MaxKills,           \* bound: runs killed
  NoFile, TornMap, NoRun

Sectors == 0 .. N - 1

Statuses == {"NonTried", "NonTrimmed", "NonScraped", "Bad", "Finished"}

\* CloneOptions and RescueOptions; block is block_bytes in sectors, and
\* max_errors = 0 stands for no limit.
Option == [block : Nat \ {0}, retries : Nat, sparse : BOOLEAN, fill : Bytes,
           max_errors : Nat, resume : BOOLEAN, overwrite : BOOLEAN]

ASSUME DeviceAssumption ==
  /\ N \in Nat
  /\ "zero" \in Bytes
  /\ Content \in [Sectors -> Bytes]
  /\ Dead \subseteq Sectors /\ Flaky \subseteq Sectors

ASSUME RunAssumption ==
  /\ Options \subseteq Option
  /\ NoRun \notin Options
  /\ MaxRuns \in Nat /\ MaxKills \in Nat
  /\ NoFile \notin [Sectors -> Bytes]
  /\ {NoFile, TornMap} \cap [Sectors -> Statuses] = {}
  /\ NoFile # TornMap

VARIABLES
  out,        \* the output file
  mapfile,    \* the .map file; TornMap when cut off in the middle of a write
  manifest,   \* the .hash file
  pc,         \* where the run is; "off" when none is
  opts,       \* the options of the run
  map,        \* the run's BlockMap
  pos,        \* copy: where to look next; trim: off
  end,        \* trim: end
  todo,       \* the sectors of the blocks the pass has not reached yet
  errors,     \* error_blocks
  pass,       \* retry passes begun
  hashed,     \* what StreamHasher has been fed
  result,     \* what the passes returned
  runs, kills

disk == <<out, mapfile, manifest>>
scan == <<pos, end, todo, errors, pass>>
vars == <<disk, pc, opts, map, scan, hashed, result, runs, kills>>

Untried == [s \in Sectors |-> "NonTried"]
Zeros   == [s \in Sectors |-> "zero"]

IsFirst(s, S) == s \in S /\ \A t \in S : s <= t

\* [from, to) is the first of the blocks the sectors S make up.
IsFirstBlock(from, to, S) ==
  /\ IsFirst(from, S)
  /\ from < to /\ from .. to - 1 \subseteq S /\ to \notin S

LesserOf(m, n) == IF m <= n THEN m ELSE n

With(status) == {s \in Sectors : map[s] = status}

\* BlockMap::mark of [from, to).
Marked(from, to, status) ==
  [s \in Sectors |-> IF from <= s /\ s < to THEN status ELSE map[s]]

\* A read of several sectors fails whole.
MayRead(from, to) == (from .. to - 1) \cap Dead = {}
MayFail(from, to) == (from .. to - 1) \cap (Dead \cup Flaky) # {}

\* write_out: hash what was read, and write it, unless it is all zeros and the
\* output is sparse.
ContentOf(from, to) == [i \in 1 .. to - from |-> Content[from + i - 1]]
Store(from, to) == [s \in Sectors |-> IF from <= s /\ s < to THEN Content[s] ELSE out[s]]
\* Mutant: a read that begins with a zero is taken for a hole.
HoleAtZero(from, to) == opts.sparse /\ Content[from] = "zero"

Hole(from, to)  == opts.sparse /\ \A s \in from .. to - 1 : Content[s] = "zero"

WriteOut(from, to) ==
  /\ out' = IF Hole(from, to) THEN out ELSE Store(from, to)
  /\ hashed' = hashed \o ContentOf(from, to)

\* fill_bad: the same for a sector given up on.
LeavesHole == opts.fill = "zero" /\ opts.sparse

FillBad(s) ==
  IF LeavesHole
    THEN UNCHANGED <<out, hashed>>
    ELSE /\ out' = [out EXCEPT ![s] = opts.fill]
         /\ hashed' = Append(hashed, opts.fill)

Init ==
  /\ out = NoFile /\ mapfile = NoFile /\ manifest = NoFile
  /\ pc = "off" /\ opts = NoRun /\ map = Untried
  /\ pos = 0 /\ end = 0 /\ todo = {} /\ errors = 0 /\ pass = 0
  /\ hashed = <<>> /\ result = "none"
  /\ runs = 0 /\ kills = 0

\* The run is over, and its memory gone.
Exit(r) ==
  /\ pc' = "off" /\ opts' = NoRun /\ map' = Untried
  /\ pos' = 0 /\ end' = 0 /\ todo' = {} /\ errors' = 0 /\ pass' = 0
  /\ hashed' = <<>> /\ result' = r

-----------------------------------------------------------------------------
(* clone_device, up to the passes                                          *)

LoadsMap(o)    == o.resume /\ mapfile # NoFile
KeepsOutput(o) == o.resume /\ out # NoFile

\* A map that does not cover the device is refused, and so is an existing
\* output nobody asked to overwrite.
Refused(o) ==
  \/ LoadsMap(o) /\ mapfile = TornMap
  \/ ~KeepsOutput(o) /\ out # NoFile /\ ~o.overwrite

CloneRefused(o) ==
  /\ pc = "off" /\ runs < MaxRuns
  /\ Refused(o)
  /\ runs' = runs + 1
  /\ result' = "refused"
  /\ UNCHANGED <<disk, pc, opts, map, scan, hashed, kills>>

\* Creating the output truncates it; set_len then makes it all zeros.
Clone(o) ==
  /\ pc = "off" /\ runs < MaxRuns
  /\ ~Refused(o)
  /\ runs' = runs + 1
  /\ opts' = o
  /\ map' = IF LoadsMap(o) THEN mapfile ELSE Untried
  /\ out' = IF KeepsOutput(o) THEN out ELSE Zeros
  /\ pc' = "copy"
  /\ result' = "none"
  /\ UNCHANGED <<mapfile, manifest, scan, hashed, kills>>

-----------------------------------------------------------------------------
(* The passes.  Every iteration ends in tick, where the caller may cancel; *)
(* an iteration left by break does not reach it.                           *)

Tick(next) ==
  \/ pc' = next /\ UNCHANGED result
  \/ pc' = "truncate" /\ result' = "cancelled"

Break(next) == pc' = next /\ UNCHANGED result

\* Mutant: the copy pass reads whatever the status.
UntakenOrNot == {s \in Sectors : s >= pos}

Untaken == {s \in With("NonTried") : s >= pos}

\* What the pass reads next, if it is not between blocks.
Reading(from, to) ==
  \/ /\ pc = "copy"
     /\ \E stop \in 0 .. N : /\ IsFirstBlock(from, stop, Untaken)
                             /\ to = LesserOf(from + opts.block, stop)
  \/ pc = "forward"  /\ pos < end /\ from = pos     /\ to = pos + 1
  \/ pc = "backward" /\ pos < end /\ from = end - 1 /\ to = end
  \/ pc \in {"scrape", "retry"} /\ IsFirst(from, todo) /\ to = from + 1

\* The read succeeds: its bytes are written and its sectors finished.
Copied(from, to) ==
  /\ Reading(from, to)
  /\ MayRead(from, to)
  /\ WriteOut(from, to)
  /\ map' = Marked(from, to, "Finished")
  /\ Tick(pc)
  /\ UNCHANGED <<mapfile, manifest, opts, errors, pass, runs, kills>>

NotCopied(from, to) == Reading(from, to) /\ MayFail(from, to)

CopyRead ==
  /\ pc = "copy"
  /\ \E from, to \in 0 .. N : Copied(from, to) /\ pos' = to
  /\ UNCHANGED <<end, todo>>

\* A failed block is deferred whole; too many of them end the pass.
CopyError ==
  /\ pc = "copy"
  /\ \E from, to \in 0 .. N :
       /\ NotCopied(from, to)
       /\ map' = Marked(from, to, "NonTrimmed")
       /\ pos' = to
  /\ errors' = errors + 1
  /\ IF opts.max_errors > 0 /\ errors' >= opts.max_errors
       THEN Break("trim") /\ todo' = {s \in Sectors : map'[s] = "NonTrimmed"}
       ELSE Tick("copy") /\ UNCHANGED todo
  /\ UNCHANGED <<disk, opts, end, pass, hashed, runs, kills>>

CopyDone ==
  /\ pc = "copy" /\ Untaken = {}
  /\ todo' = With("NonTrimmed")
  /\ Break("trim")
  /\ UNCHANGED <<disk, opts, map, pos, end, errors, pass, hashed, runs, kills>>

\* The next failed block, or on to scraping.
TrimBlock ==
  /\ pc = "trim"
  /\ \E from, to \in 0 .. N :
       /\ IsFirstBlock(from, to, todo)
       /\ pos' = from /\ end' = to
       /\ todo' = todo \ (from .. to - 1)
  /\ Break("forward")
  /\ UNCHANGED <<disk, opts, map, errors, pass, hashed, runs, kills>>

TrimDone ==
  /\ pc = "trim" /\ todo = {}
  /\ todo' = With("NonScraped")
  /\ Break("scrape")
  /\ UNCHANGED <<disk, opts, map, pos, end, errors, pass, hashed, runs, kills>>

ForwardRead ==
  /\ pc = "forward"
  /\ Copied(pos, pos + 1)
  /\ pos' = pos + 1
  /\ UNCHANGED <<end, todo>>

ForwardDone ==
  /\ pc = "forward"
  /\ pos < end => MayFail(pos, pos + 1)
  /\ Break("backward")
  /\ UNCHANGED <<disk, opts, map, scan, hashed, runs, kills>>

BackwardRead ==
  /\ pc = "backward"
  /\ Copied(end - 1, end)
  /\ end' = end - 1
  /\ UNCHANGED <<pos, todo>>

\* Mutant: the middle is given up on.
BackwardDoneBad ==
  /\ pc = "backward"
  /\ pos < end => MayFail(end - 1, end)
  /\ map' = Marked(pos, end, "Bad")
  /\ Break("trim")
  /\ UNCHANGED <<disk, opts, scan, hashed, runs, kills>>

\* What is left in the middle is for scraping.
BackwardDone ==
  /\ pc = "backward"
  /\ pos < end => MayFail(end - 1, end)
  /\ map' = Marked(pos, end, "NonScraped")
  /\ Break("trim")
  /\ UNCHANGED <<disk, opts, scan, hashed, runs, kills>>

ScrapeRead ==
  /\ pc = "scrape"
  /\ \E s \in todo : Copied(s, s + 1) /\ todo' = todo \ {s}
  /\ UNCHANGED <<pos, end>>

ScrapeError ==
  /\ pc = "scrape"
  /\ \E s \in todo :
       /\ NotCopied(s, s + 1)
       /\ FillBad(s)
       /\ map' = Marked(s, s + 1, "Bad")
       /\ todo' = todo \ {s}
  /\ Tick("scrape")
  /\ UNCHANGED <<mapfile, manifest, opts, pos, end, errors, pass, runs, kills>>

RetryRead ==
  /\ pc = "retry"
  /\ \E s \in todo : Copied(s, s + 1) /\ todo' = todo \ {s}
  /\ UNCHANGED <<pos, end>>

RetryError ==
  /\ pc = "retry"
  /\ \E s \in todo : NotCopied(s, s + 1) /\ todo' = todo \ {s}
  /\ Tick("retry")
  /\ UNCHANGED <<disk, opts, map, pos, end, errors, pass, hashed, runs, kills>>

\* Mutant: passes are not counted.
NextPassUncounted ==
  /\ pc \in {"scrape", "retry"} /\ todo = {}
  /\ IF pass < opts.retries
       THEN pc' = "retry" /\ todo' = With("Bad") /\ UNCHANGED result
       ELSE pc' = "truncate" /\ result' = "ok" /\ UNCHANGED todo
  /\ UNCHANGED <<disk, opts, map, pos, end, errors, pass, hashed, runs, kills>>

\* A pass over the bad sectors, or the end of the passes.
NextPass ==
  /\ pc \in {"scrape", "retry"} /\ todo = {}
  /\ IF pass < opts.retries
       THEN pc' = "retry" /\ pass' = pass + 1 /\ todo' = With("Bad") /\ UNCHANGED result
       ELSE pc' = "truncate" /\ result' = "ok" /\ UNCHANGED <<pass, todo>>
  /\ UNCHANGED <<disk, opts, map, pos, end, errors, hashed, runs, kills>>

\* What was read, or the fill, cannot be written, or only a first part of it:
\* the disk the output is on is full, say.  The passes return the error.
WriteFails ==
  /\ \E from, to \in 0 .. N :
       /\ Reading(from, to)
       /\ \/ /\ MayRead(from, to) /\ ~Hole(from, to)
             /\ \E part \in from .. to : out' = Store(from, part)
             /\ hashed' = hashed \o ContentOf(from, to)
          \/ /\ pc = "scrape" /\ MayFail(from, to) /\ ~LeavesHole
             /\ hashed' = Append(hashed, opts.fill)
             /\ UNCHANGED out
  /\ pc' = "truncate" /\ result' = "failed"
  /\ UNCHANGED <<mapfile, manifest, opts, map, scan, runs, kills>>

-----------------------------------------------------------------------------
(* clone_device, after the passes                                          *)

\* File::create empties the .map file before its lines are written.
TruncateMap ==
  /\ pc \in {"truncate", "truncateAgain"}
  /\ mapfile' = TornMap
  /\ pc' = IF pc = "truncate" THEN "write" ELSE "writeAgain"
  /\ UNCHANGED <<out, manifest, opts, map, scan, hashed, result, runs, kills>>

\* The first time the map is written whatever the passes returned, a failure to
\* write it is ignored, and what the passes returned is returned.
WriteMap ==
  /\ pc = "write"
  /\ mapfile' \in {map, TornMap}
  /\ IF result = "ok"
       THEN pc' = "truncateAgain" /\ UNCHANGED <<opts, map, scan, hashed, result>>
       ELSE Exit(result)
  /\ UNCHANGED <<out, manifest, runs, kills>>

WriteMapAgain ==
  /\ pc = "writeAgain"
  /\ mapfile' = map
  /\ pc' = "manifest"
  /\ UNCHANGED <<out, manifest, opts, map, scan, hashed, result, runs, kills>>

\* Mutant: complete means only that everything was tried.
WriteManifestTried ==
  /\ pc = "manifest"
  /\ manifest' = [complete |-> With("NonTried") = {},
                  source   |-> hashed,
                  output   |-> out]
  /\ Exit("ok")
  /\ UNCHANGED <<out, mapfile, runs, kills>>

\* complete: nothing is bad, and everything is finished.
WriteManifest ==
  /\ pc = "manifest"
  /\ manifest' = [complete |-> With("Bad") = {} /\ With("Finished") = Sectors,
                  source   |-> hashed,
                  output   |-> out]
  /\ Exit("ok")
  /\ UNCHANGED <<out, mapfile, runs, kills>>

\* Flushing the output, writing the map again, hashing the output or writing the
\* manifest fails.
EndFails ==
  /\ pc \in {"truncateAgain", "writeAgain", "manifest"}
  /\ Exit("failed")
  /\ UNCHANGED <<disk, runs, kills>>

Kill ==
  /\ pc # "off" /\ kills < MaxKills
  /\ kills' = kills + 1
  /\ Exit("killed")
  /\ UNCHANGED <<disk, runs>>

Passes ==
  \/ CopyRead \/ CopyError \/ CopyDone
  \/ TrimBlock \/ ForwardRead \/ ForwardDone \/ BackwardRead \/ BackwardDone \/ TrimDone
  \/ ScrapeRead \/ ScrapeError \/ RetryRead \/ RetryError \/ NextPass
  \/ WriteFails

Ending == TruncateMap \/ WriteMap \/ WriteMapAgain \/ WriteManifest \/ EndFails

User == \E o \in Options : Clone(o) \/ CloneRefused(o)

Next == Passes \/ Ending \/ User \/ Kill

Spec == Init /\ [][Next]_vars

\* A run that is not killed goes on.
FairSpec == Spec /\ WF_vars(Passes \/ Ending)

-----------------------------------------------------------------------------
(* Properties                                                              *)

Pcs == {"off", "copy", "trim", "forward", "backward", "scrape", "retry",
        "truncate", "write", "truncateAgain", "writeAgain", "manifest"}

Results == {"none", "ok", "cancelled", "failed", "refused", "killed"}

FilesTyped ==
  /\ out \in [Sectors -> Bytes] \cup {NoFile}
  /\ mapfile \in [Sectors -> Statuses] \cup {NoFile, TornMap}
  /\ \/ manifest = NoFile
     \/ manifest \in [complete : BOOLEAN, source : Seq(Bytes), output : [Sectors -> Bytes]]

RunTyped ==
  /\ pc \in Pcs /\ result \in Results
  /\ opts \in Options \cup {NoRun}
  /\ pc # "off" => opts \in Options /\ out # NoFile
  /\ map \in [Sectors -> Statuses]
  /\ hashed \in Seq(Bytes)

ScanTyped ==
  /\ pos \in 0 .. N /\ end \in 0 .. N
  /\ todo \subseteq Sectors
  /\ errors \in Nat /\ pass \in Nat
  /\ runs \in 0 .. MaxRuns /\ kills \in 0 .. MaxKills

TypeOK == FilesTyped /\ RunTyped /\ ScanTyped

\* Command lines that never start afresh over an output that may have a map,
\* and never leave a hole where a fill may have been written.
SafeOptions ==
  /\ \A o \in Options : o.resume \/ ~o.overwrite
  /\ (\A o \in Options : o.fill = "zero") \/ (\A o \in Options : ~o.sparse)

IsMap(m) == m \notin {NoFile, TornMap}

Faithful(m) == \A s \in Sectors : m[s] = "Finished" => out # NoFile /\ out[s] = Content[s]

\* "Finished - successfully copied" (map.rs): at every moment the output holds
\* the device's bytes wherever the map in memory, or the .map file a resume
\* would start from, says Finished.
FinishedMeansCopied ==
  /\ pc # "off" => Faithful(map)
  /\ IsMap(mapfile) => Faithful(mapfile)

\* The same, for command lines that keep out of the two ways it goes wrong.
FinishedIsCopied == SafeOptions => FinishedMeansCopied

\* A manifest that calls the clone complete is the manifest of a faithful copy,
\* over however many cancelled, failed, killed and resumed runs it was made.
CompleteIsFaithful ==
  SafeOptions =>
    (manifest # NoFile /\ manifest.complete => manifest.output = Content)

\* When the passes end of themselves, with no limit on failed blocks, every
\* sector that reads has been copied, however bad its neighbours are; and only
\* sectors whose own read failed are called bad.
DamageIsLocalised ==
  /\ (result = "ok" /\ pc # "off" /\ opts.max_errors = 0) =>
       Sectors \ (Dead \cup Flaky) \subseteq With("Finished")
  /\ With("Bad") \subseteq Dead \cup Flaky

Rank(status) ==
  CASE status = "NonTried" -> 0 [] status = "NonTrimmed" -> 1 [] status = "NonScraped" -> 2
    [] status = "Bad" -> 3 [] status = "Finished" -> 4

\* In a run no sector ever goes back: what is finished is not read again, and
\* what a pass has learned of a sector is not forgotten.
StatusOnlyAdvances ==
  [][pc # "off" /\ pc' # "off" => \A s \in Sectors : Rank(map'[s]) >= Rank(map[s])]_vars

\* Whatever the device does, a run comes to an end.
RunEnds == (pc # "off") ~> (pc = "off")

\* The digest of the bytes as they were read equals the digest of the output of
\* a complete clone (clone.rs, "the acceptance criterion for Milestone 1").
CompleteDigestsAgree ==
  manifest # NoFile /\ manifest.complete =>
    manifest.source = [i \in 1 .. N |-> manifest.output[i - 1]]

\* "killing the process and resuming loses at most the current block" (rescue.rs).
KillLosesAtMostABlock ==
  (pc \in {"copy", "trim", "forward", "backward", "scrape", "retry"}) =>
    Cardinality({s \in With("Finished") : ~IsMap(mapfile) \/ mapfile[s] # "Finished"})
      <= opts.block

=============================================================================
