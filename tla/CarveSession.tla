---------------------------- MODULE CarveSession ----------------------------
(***************************************************************************)
(* rc-session: a carve that survives being killed.                         *)
(*                                                                         *)
(* Two things outlive the process: the candidate index, one SQLite file    *)
(* whose rows and checkpoint change in one transaction, and the .recstate  *)
(* file beside it.  Everything else is the memory of the running process   *)
(* and is lost when it is killed.  The process goes, per segment, through  *)
(*                                                                         *)
(*   loop -> judge (once per candidate) -> commit -> save -> loop ...      *)
(*                                                                         *)
(* and, past the last segment, through finish -> seal -> sealSave -> off.  *)
(* A kill may fall between any two of these steps.                         *)
(***************************************************************************)
EXTENDS CarveOrder

CONSTANTS
  FirstSegment,       \* Settings::first_segment
  MaxSegmentBlocks,   \* bound: the adaptive segment is at most this many blocks
  MaxStarts,          \* bound: fresh carves begun at this index path
  MaxKills,           \* bound: kills of a running process
  MaxStops,           \* bound: stop requests
  NoCheckpoint,       \* no checkpoint row, or no .recstate file
  NoDevice            \* no process is running

ASSUME SessionAssumption ==
  /\ FirstSegment \in Nat
  /\ MaxSegmentBlocks \in Nat \ {0}
  /\ MaxStarts \in Nat
  /\ MaxKills \in Nat
  /\ MaxStops \in Nat
  /\ NoDevice \notin Sources

VARIABLES
  index,      \* the SQLite file: its rows and its checkpoint
  recstate,   \* the .recstate file
  pc,         \* where the process is; "off" when none runs
  device,     \* the device and configuration the process was given
  state,      \* the process's RecState
  carry,      \* scan::Carry
  pending,    \* candidates of the segment not judged yet
  keep,       \* candidates of the segment kept so far, in order
  stop_at,    \* where the segment being scanned ends
  segment,    \* the size of the next segment
  stop,       \* the stop flag of the process
  outcome,    \* what the last start or resume returned
  starts, kills, stops   \* how often each has happened, against its bound

disk   == <<index, recstate>>
work   == <<pending, keep, stop_at>>
memory == <<device, state, carry, segment, work>>
bounds == <<starts, kills, stops>>
vars   == <<disk, pc, memory, stop, outcome, bounds>>

\* The part of RecState that decides anything: source stands for the device
\* identity and the configuration hash.
RecState == [source               : Sources,
             next_offset          : Offsets,
             candidates_committed : Nat,
             carry_cover_end      : Nat,
             carry_candidates     : Nat,
             complete             : BOOLEAN]

ASSUME CheckpointAssumption == NoCheckpoint \notin RecState \cup Sources

Fresh(s) == [source               |-> s,
             next_offset          |-> RangeStart,
             candidates_committed |-> 0,
             carry_cover_end      |-> 0,
             carry_candidates     |-> 0,
             complete             |-> FALSE]

EmptyIndex == [rows |-> <<>>, checkpoint |-> NoCheckpoint]
ZeroCarry  == [cover_end |-> 0, candidates |-> 0]

FirstSegmentSize == IF FirstSegment < BlockBytes THEN BlockBytes ELSE FirstSegment

SegmentSizes == {k * BlockBytes : k \in 1 .. MaxSegmentBlocks}

Init ==
  /\ index = EmptyIndex
  /\ recstate = NoCheckpoint
  /\ pc = "off"
  /\ device = NoDevice
  /\ state = NoCheckpoint
  /\ carry = ZeroCarry
  /\ pending = {} /\ keep = <<>> /\ stop_at = RangeStart
  /\ segment = FirstSegmentSize
  /\ stop = FALSE
  /\ outcome = "none"
  /\ starts = 0 /\ kills = 0 /\ stops = 0

\* The process is gone, and its memory with it.
Exit(result) ==
  /\ pc' = "off"
  /\ outcome' = result
  /\ device' = NoDevice
  /\ state' = NoCheckpoint
  /\ carry' = ZeroCarry
  /\ pending' = {} /\ keep' = <<>> /\ stop_at' = RangeStart
  /\ segment' = FirstSegmentSize
  /\ stop' = FALSE

-----------------------------------------------------------------------------
(* start                                                                   *)

\* start() takes the device's identity and CandidateIndex::create replaces
\* whatever index was at the path.
Start(s) ==
  /\ pc = "off"
  /\ starts < MaxStarts
  /\ starts' = starts + 1
  /\ index' = EmptyIndex
  /\ device' = s
  /\ state' = Fresh(s)
  /\ carry' = ZeroCarry
  /\ segment' = FirstSegmentSize
  /\ pc' = "create"
  /\ outcome' = "none"
  /\ UNCHANGED <<recstate, work, stop, kills, stops>>

\* The first checkpoint, committed with no rows.
CommitFresh ==
  /\ pc = "create"
  /\ index' = [index EXCEPT !.checkpoint = state]
  /\ pc' = "saveFresh"
  /\ UNCHANGED <<recstate, memory, stop, outcome, bounds>>

\* RecState::save: a temporary file renamed over the old one, so that a kill
\* leaves the old file or the new one.
SaveFresh ==
  /\ pc = "saveFresh"
  /\ recstate' = state
  /\ pc' = "loop"
  /\ UNCHANGED <<index, memory, stop, outcome, bounds>>

-----------------------------------------------------------------------------
(* resume                                                                  *)

\* Mutant: the file must agree with the index.
RefusalUnlessFileAgrees(s) ==
  IF recstate # index.checkpoint \/ recstate = NoCheckpoint THEN "no recstate"
  ELSE IF recstate.source # s THEN "mismatch"
  ELSE "none"

\* The index's checkpoint, not the file's, is what a resume goes by; why it
\* may refuse it.
Refusal(s) ==
  IF recstate = NoCheckpoint THEN "no recstate"
  ELSE IF index.checkpoint = NoCheckpoint THEN "no checkpoint"
  ELSE IF index.checkpoint.source # s THEN "mismatch"
  ELSE IF Len(index.rows) # index.checkpoint.candidates_committed THEN "row count"
  ELSE "none"

ResumeRefused(s) ==
  /\ pc = "off"
  /\ Refusal(s) # "none"
  /\ outcome' = Refusal(s)
  /\ UNCHANGED <<disk, pc, memory, stop, bounds>>

\* A finished carve is reported as it stands.
ResumeFinished(s) ==
  /\ pc = "off"
  /\ Refusal(s) = "none"
  /\ index.checkpoint.complete
  /\ outcome' = "complete"
  /\ UNCHANGED <<disk, pc, memory, stop, bounds>>

\* Mutant: what earlier segments carry over is forgotten.
ResumeWithoutCarry(s) ==
  /\ pc = "off"
  /\ Refusal(s) = "none"
  /\ ~index.checkpoint.complete
  /\ device' = s
  /\ state' = index.checkpoint
  /\ carry' = ZeroCarry
  /\ segment' = FirstSegmentSize
  /\ pc' = "loop"
  /\ outcome' = "none"
  /\ UNCHANGED <<disk, work, stop, bounds>>

\* Mutant: the index is created anew, not opened.
ResumeRecreating(s) ==
  /\ pc = "off"
  /\ Refusal(s) = "none"
  /\ ~index.checkpoint.complete
  /\ index' = EmptyIndex
  /\ device' = s
  /\ state' = index.checkpoint
  /\ carry' = [cover_end  |-> index.checkpoint.carry_cover_end,
               candidates |-> index.checkpoint.carry_candidates]
  /\ segment' = FirstSegmentSize
  /\ pc' = "loop"
  /\ outcome' = "none"
  /\ UNCHANGED <<recstate, work, stop, bounds>>

Resume(s) ==
  /\ pc = "off"
  /\ Refusal(s) = "none"
  /\ ~index.checkpoint.complete
  /\ device' = s
  /\ state' = index.checkpoint
  /\ carry' = [cover_end  |-> index.checkpoint.carry_cover_end,
               candidates |-> index.checkpoint.carry_candidates]
  /\ segment' = FirstSegmentSize
  /\ pc' = "loop"
  /\ outcome' = "none"
  /\ UNCHANGED <<disk, work, stop, bounds>>

-----------------------------------------------------------------------------
(* run: one segment after another                                          *)

\* Mutant: run no longer looks at the flag.
StopUnseen == FALSE

\* stop.load, at the head of the loop.
StopSeen == stop

\* A stop is honoured at a segment boundary.
StopAtBoundary ==
  /\ pc = "loop"
  /\ state.next_offset < RangeEnd
  /\ StopSeen
  /\ Exit("stopped")
  /\ UNCHANGED <<disk, bounds>>

\* scan_segment reads the segment, sorts its hits, cuts them at what is left
\* of the budget, and validates them.
ScanSegment ==
  /\ pc = "loop"
  /\ state.next_offset < RangeEnd
  /\ ~StopSeen
  /\ LET to     == LesserOf(state.next_offset + segment, RangeEnd)
         hits   == Claimed(device, state.next_offset, to)
         budget == IF carry.candidates < MaxCandidates
                     THEN MaxCandidates - carry.candidates ELSE 0
     IN \E T \in SUBSET hits :
          /\ Truncated(T, hits, budget)
          /\ stop_at' = to
          /\ pending' = Accepted(T)
          /\ carry' = [carry EXCEPT !.candidates = @ + Cardinality(T)]
  /\ keep' = <<>>
  /\ pc' = "judge"
  /\ UNCHANGED <<disk, device, state, segment, stop, outcome, bounds>>

\* One turn of suppress_contained's loop: the first candidate not judged yet
\* is dropped if what is covered reaches its end; otherwise it is kept, and
\* covers in turn if its extent can be trusted.
JudgeCandidate ==
  /\ pc = "judge"
  /\ \E c \in pending :
       /\ \A d \in pending \ {c} : Precedes(c, d)
       /\ pending' = pending \ {c}
       /\ IF Suppress /\ c.length > 0 /\ End(c) <= carry.cover_end
            THEN UNCHANGED <<keep, carry>>
            ELSE /\ keep' = Append(keep, c)
                 /\ carry' = IF Suppress /\ Judges(c) /\ End(c) > carry.cover_end
                               THEN [carry EXCEPT !.cover_end = End(c)]
                               ELSE carry
  /\ UNCHANGED <<disk, pc, device, state, segment, stop_at, stop, outcome, bounds>>

\* Mutant: the furthest end is not recorded.
EndSegmentForgettingCover ==
  /\ pc = "judge"
  /\ pending = {}
  /\ state' = [state EXCEPT
                 !.next_offset = stop_at,
                 !.candidates_committed = @ + Len(keep),
                 !.carry_candidates = carry.candidates]
  /\ pc' = "commit"
  /\ UNCHANGED <<disk, device, carry, segment, work, stop, outcome, bounds>>

\* Mutant: what was examined is counted, not what was kept.
EndSegmentCountingExamined ==
  /\ pc = "judge"
  /\ pending = {}
  /\ state' = [state EXCEPT
                 !.next_offset = stop_at,
                 !.candidates_committed = carry.candidates,
                 !.carry_cover_end = carry.cover_end,
                 !.carry_candidates = carry.candidates]
  /\ pc' = "commit"
  /\ UNCHANGED <<disk, device, carry, segment, work, stop, outcome, bounds>>

\* Every candidate is judged: the process's RecState moves past the segment.
EndSegment ==
  /\ pc = "judge"
  /\ pending = {}
  /\ state' = [state EXCEPT
                 !.next_offset = stop_at,
                 !.candidates_committed = @ + Len(keep),
                 !.carry_cover_end = carry.cover_end,
                 !.carry_candidates = carry.candidates]
  /\ pc' = "commit"
  /\ UNCHANGED <<disk, device, carry, segment, work, stop, outcome, bounds>>

\* CandidateIndex::commit_segment: rows and checkpoint in one transaction.
CommitSegment ==
  /\ pc = "commit"
  /\ index' = [rows |-> index.rows \o keep, checkpoint |-> state]
  /\ keep' = <<>>
  /\ pc' = "save"
  /\ UNCHANGED <<recstate, device, state, carry, segment, pending, stop_at, stop,
                 outcome, bounds>>

\* The .recstate file follows, and the next segment is sized, in whole blocks,
\* by how long this one took.
SaveSegment ==
  /\ pc = "save"
  /\ recstate' = state
  /\ segment' \in SegmentSizes
  /\ pc' = "loop"
  /\ UNCHANGED <<index, device, state, carry, work, stop, outcome, bounds>>

\* Mutant: the last block counts as scanned.
FinishEarly ==
  /\ pc = "loop"
  /\ state.next_offset + BlockBytes >= RangeEnd
  /\ state' = [state EXCEPT !.complete = TRUE]
  /\ pc' = "seal"
  /\ UNCHANGED <<disk, device, carry, segment, work, stop, outcome, bounds>>

\* CandidateIndex::finish builds the SQL indexes; the carve is then complete
\* in memory.
Finish ==
  /\ pc = "loop"
  /\ state.next_offset >= RangeEnd
  /\ state' = [state EXCEPT !.complete = TRUE]
  /\ pc' = "seal"
  /\ UNCHANGED <<disk, device, carry, segment, work, stop, outcome, bounds>>

\* The completed checkpoint, committed with no rows.
CommitComplete ==
  /\ pc = "seal"
  /\ index' = [index EXCEPT !.checkpoint = state]
  /\ pc' = "sealSave"
  /\ UNCHANGED <<recstate, memory, stop, outcome, bounds>>

SaveComplete ==
  /\ pc = "sealSave"
  /\ recstate' = state
  /\ Exit("complete")
  /\ UNCHANGED <<index, bounds>>

-----------------------------------------------------------------------------
(* The environment                                                         *)

\* The user asks the running process to stop.
RequestStop ==
  /\ pc # "off"
  /\ stops < MaxStops
  /\ stop' = TRUE
  /\ stops' = stops + 1
  /\ UNCHANGED <<disk, pc, memory, outcome, starts, kills>>

\* The process is killed, or a failed write to the index or to the .recstate
\* file makes run return an error: an open transaction rolls back.
Kill ==
  /\ pc # "off"
  /\ kills < MaxKills
  /\ kills' = kills + 1
  /\ Exit("killed")
  /\ UNCHANGED <<disk, starts, stops>>

Process ==
  \/ CommitFresh \/ SaveFresh
  \/ StopAtBoundary \/ ScanSegment \/ JudgeCandidate \/ EndSegment
  \/ CommitSegment \/ SaveSegment
  \/ Finish \/ CommitComplete \/ SaveComplete

User ==
  \/ \E s \in Sources : Start(s) \/ ResumeRefused(s) \/ ResumeFinished(s) \/ Resume(s)
  \/ RequestStop

Next == Process \/ User \/ Kill

Spec == Init /\ [][Next]_vars

\* A live process keeps running, and a user with an unfinished carve resumes
\* it on the device it belongs to.
Fairness ==
  /\ WF_vars(Process)
  /\ \A s \in Sources : WF_vars(Resume(s))

FairSpec == Spec /\ Fairness

-----------------------------------------------------------------------------
(* Properties                                                              *)

Pcs == {"off", "create", "saveFresh", "loop", "judge", "commit", "save",
        "seal", "sealSave"}

Outcomes == {"none", "stopped", "complete", "killed",
             "no recstate", "no checkpoint", "mismatch", "row count"}

DiskTyped ==
  /\ index \in [rows : Seq(Hit), checkpoint : RecState \cup {NoCheckpoint}]
  /\ recstate \in RecState \cup {NoCheckpoint}

ControlTyped ==
  /\ pc \in Pcs
  /\ device \in Sources \cup {NoDevice}
  /\ state \in RecState \cup {NoCheckpoint}
  /\ pc # "off" => device \in Sources /\ state \in RecState

ScanTyped ==
  /\ carry \in [cover_end : Nat, candidates : Nat]
  /\ pending \subseteq Hit
  /\ keep \in Seq(Hit)
  /\ stop_at \in Offsets
  /\ segment \in Nat \ {0}

CountsTyped ==
  /\ outcome \in Outcomes
  /\ starts \in 0 .. MaxStarts /\ kills \in 0 .. MaxKills /\ stops \in 0 .. MaxStops

TypeOK == DiskTyped /\ ControlTyped /\ ScanTyped /\ CountsTyped /\ stop \in BOOLEAN

\* Segments begin where one scan's blocks begin, or no read fails.  The sizes
\* run picks are whole blocks; the first one is whatever the caller asked for.
WholeBlocks ==
  \/ \E k \in 0 .. FirstSegmentSize : FirstSegmentSize = k * BlockBytes
  \/ \A s \in Sources : Bad[s] = {}

\* However often the carve has been killed, stopped and resumed, the committed
\* rows are the candidates one uninterrupted scan reports below next_offset,
\* in its order, none twice (session lib.rs, "identical results").
RowsMatch ==
  index.checkpoint # NoCheckpoint =>
    Lists(index.rows, Reported(index.checkpoint.source, index.checkpoint.next_offset))

CommittedRowsAreTheScan == WholeBlocks => RowsMatch

\* The same without the proviso on the first segment's size.
SegmentsAgreeWithOneScan == RowsMatch

\* A complete carve holds every candidate of the uninterrupted scan, whatever
\* happened on the way to it.
CompleteIsWholeScan ==
  WholeBlocks =>
    (index.checkpoint # NoCheckpoint /\ index.checkpoint.complete =>
       Lists(index.rows, Reported(index.checkpoint.source, RangeEnd)))

\* Rows and checkpoint never disagree on how many rows there are, so a resume
\* never refuses an index the program itself wrote.
OwnIndexIsAccepted ==
  /\ index.checkpoint # NoCheckpoint =>
       Len(index.rows) = index.checkpoint.candidates_committed
  /\ outcome # "row count"

\* Until a fresh carve replaces the index, committed rows are only ever added
\* to, the checkpoint only moves forward, and it stays with its device.
IsExtension(old, new) ==
  Len(old) <= Len(new) /\ \A i \in 1 .. Len(old) : new[i] = old[i]

CommittedWorkIsKept ==
  [][ \/ starts' # starts
      \/ index.checkpoint = NoCheckpoint
      \/ /\ index'.checkpoint # NoCheckpoint
         /\ IsExtension(index.rows, index'.rows)
         /\ index'.checkpoint.source = index.checkpoint.source
         /\ index'.checkpoint.next_offset >= index.checkpoint.next_offset
         /\ index.checkpoint.complete => index' = index ]_index

\* Once the first checkpoint and the first file are written, the carve is
\* completed however it is interrupted, as long as interruptions cease and the
\* user resumes it, unless the user begins another in its place.
EventuallyComplete ==
  \A n \in 1 .. MaxStarts :
    (starts = n /\ index.checkpoint # NoCheckpoint /\ recstate # NoCheckpoint)
      ~> (starts # n \/ (index.checkpoint # NoCheckpoint /\ index.checkpoint.complete))

\* "A stop request is honoured at the next segment boundary" (session lib.rs):
\* while the flag is up no segment is begun and nothing is counted as scanned
\* but the one in hand, and nothing takes the flag down but the process's end.
\* One that says Stopped has committed all it kept, and its device's resume
\* takes up the carve exactly where it stopped.
StopIsObeyed ==
  [][ /\ stop /\ pc' # "off" =>
           /\ stop' /\ stop_at' = stop_at
           /\ state'.next_offset \in {state.next_offset, stop_at}
      /\ outcome' = "stopped" /\ outcome # "stopped" =>
           /\ keep = <<>> /\ Refusal(device) = "none"
           /\ index.checkpoint = state /\ ~state.complete ]_vars

\* The abstract carve, with what the index file holds for its variables.
Job == INSTANCE CarveJob WITH
         Jobs     <- Sources,
         NoJob    <- NoCheckpoint,
         Result   <- [s \in Sources |-> Listing(Reported(s, RangeEnd))],
         job      <- IF index.checkpoint = NoCheckpoint THEN NoCheckpoint
                     ELSE index.checkpoint.source,
         results  <- index.rows,
         complete <- index.checkpoint # NoCheckpoint /\ index.checkpoint.complete

\* The session, seen through its index file, is a carve as CarveJob promises it.
ImplementsCarveJob == Job!Spec

=============================================================================
