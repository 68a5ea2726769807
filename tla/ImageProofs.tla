---------------------------- MODULE ImageProofs ----------------------------
(***************************************************************************)
(* Proofs about RescueClone and BlockMap, the two halves of an image.      *)
(*                                                                         *)
(* RescueClone: what a map calls finished is in the output, for every      *)
(* device, every pattern of read failures and every sequence of cancelled, *)
(* failed, killed and resumed runs.                                        *)
(*                                                                         *)
(* BlockMap, for a device of any size, any statuses and any number of      *)
(* marks and reloads: the blocks are a partition of the device into the    *)
(* maximal runs of one status, the queries answer as the bytes would, and  *)
(* a .map file cut short is told by its size.                              *)
(***************************************************************************)
EXTENDS RescueClone, BlockMap, ListProofs

-----------------------------------------------------------------------------
(* Types.                                                                  *)

\* A sector, and the offset behind it, are offsets of the device.
LEMMA SectorRange == \A s : s \in Sectors <=> s \in Int /\ 0 <= s /\ s < N
BY DeviceAssumption DEF Sectors

\* What a pass reads lies on the device and is not empty.
LEMMA ReadingTyped ==
  ASSUME TypeOK, NEW from \in Int, NEW to, Reading(from, to)
  PROVE  /\ from \in Sectors /\ to \in 1 .. N /\ from < to
         /\ pc \in {"copy", "forward", "backward", "scrape", "retry"}
<1>1. /\ pos \in 0 .. N /\ end \in 0 .. N /\ todo \subseteq Sectors
      /\ pc # "off" => opts \in Options
  BY DEF TypeOK, ScanTyped, RunTyped
<1>2. CASE pc = "copy"
  <2>1. PICK stop \in 0 .. N : /\ IsFirstBlock(from, stop, Untaken)
                               /\ to = LesserOf(from + opts.block, stop)
    BY <1>2 DEF Reading
  <2>2. from \in Sectors /\ from < stop
    BY <2>1 DEF IsFirstBlock, IsFirst, Untaken, With
  <2>3. opts.block \in Nat \ {0}
    BY <1>1, <1>2, RunAssumption DEF Option
  <2>4. QED
    BY <1>2, <2>1, <2>2, <2>3, SectorRange, DeviceAssumption DEF LesserOf
<1>3. CASE pc \in {"forward", "backward"}
  BY <1>1, <1>3, SectorRange, DeviceAssumption DEF Reading
<1>4. CASE pc \in {"scrape", "retry"}
  <2>1. from \in todo /\ to = from + 1
    BY <1>4 DEF Reading, IsFirst
  <2>2. QED
    BY <1>1, <1>4, <2>1, SectorRange, DeviceAssumption
<1>5. QED
  BY <1>2, <1>3, <1>4 DEF Reading

\* What is hashed is bytes.
LEMMA InOrderTyped ==
  ASSUME NEW from \in Sectors, NEW to \in 1 .. N, from < to
  PROVE  ContentOf(from, to) \in Seq(Bytes)
<1>1. to - from \in Nat
  BY SectorRange, DeviceAssumption
<1>2. \A i \in 1 .. to - from : from + i - 1 \in Sectors
  BY SectorRange, DeviceAssumption
<1>3. \A i \in 1 .. to - from : Content[from + i - 1] \in Bytes
  BY <1>2, DeviceAssumption
<1>4. QED
  BY <1>1, <1>3 DEF ContentOf

\* A written output is an output.
LEMMA StoreTyped ==
  ASSUME TypeOK, pc # "off", NEW from, NEW to
  PROVE  Store(from, to) \in [Sectors -> Bytes] /\ out \in [Sectors -> Bytes]
BY DeviceAssumption DEF TypeOK, FilesTyped, RunTyped, Store

\* A marked map is a map.
LEMMA MarkedTyped ==
  ASSUME TypeOK, NEW from, NEW to, NEW status \in Statuses
  PROVE  Marked(from, to, status) \in [Sectors -> Statuses]
BY DEF TypeOK, RunTyped, Marked

\* A read that succeeds keeps the types.
LEMMA CopiedTyped ==
  ASSUME TypeOK, NEW from \in Int, NEW to, Copied(from, to)
  PROVE  /\ FilesTyped' /\ RunTyped'
         /\ from \in Sectors /\ to \in 1 .. N /\ from < to
         /\ errors' = errors /\ pass' = pass /\ runs' = runs /\ kills' = kills
<1>1. /\ Reading(from, to) /\ WriteOut(from, to) /\ map' = Marked(from, to, "Finished")
      /\ Tick(pc) /\ UNCHANGED <<mapfile, manifest, opts, errors, pass, runs, kills>>
  BY DEF Copied
<1>2. /\ from \in Sectors /\ to \in 1 .. N /\ from < to
      /\ pc \in {"copy", "forward", "backward", "scrape", "retry"}
  BY <1>1, ReadingTyped
<1>3. out' \in [Sectors -> Bytes]
  BY <1>1, <1>2, StoreTyped DEF WriteOut
<1>4. hashed' \in Seq(Bytes)
  <2>1. hashed \in Seq(Bytes) /\ ContentOf(from, to) \in Seq(Bytes)
    BY <1>2, InOrderTyped DEF TypeOK, RunTyped
  <2>2. QED
    BY <1>1, <2>1 DEF WriteOut
<1>5. map' \in [Sectors -> Statuses]
  BY <1>1, MarkedTyped DEF Statuses
<1>6. FilesTyped'
  BY <1>1, <1>3 DEF TypeOK, FilesTyped
<1>7. pc' \in Pcs /\ result' \in Results
  BY <1>1, <1>2 DEF TypeOK, RunTyped, Tick, Pcs, Results
<1>8. opts' \in Options /\ out' # NoFile
  BY <1>1, <1>2, <1>3, RunAssumption DEF TypeOK, RunTyped
<1>9. QED
  BY <1>1, <1>2, <1>4, <1>5, <1>6, <1>7, <1>8 DEF RunTyped

\* The end of a run keeps the types.
LEMMA ExitTyped ==
  ASSUME NEW r \in Results, Exit(r)
  PROVE  /\ RunTyped'
         /\ pos' = 0 /\ end' = 0 /\ todo' = {} /\ errors' = 0 /\ pass' = 0
<1>1. map' \in [Sectors -> Statuses]
  BY DEF Exit, Untried, Statuses
<1>2. QED
  BY <1>1 DEF Exit, RunTyped, Pcs

\* The steps that copy what they read.
LEMMA ReadsTyped ==
  ASSUME TypeOK, CopyRead \/ ForwardRead \/ BackwardRead \/ ScrapeRead \/ RetryRead
  PROVE  TypeOK'
<1>0. /\ pos \in 0 .. N /\ end \in 0 .. N /\ todo \subseteq Sectors
      /\ errors \in Nat /\ pass \in Nat /\ runs \in 0 .. MaxRuns /\ kills \in 0 .. MaxKills
  BY DEF TypeOK, ScanTyped
<1>1. CASE CopyRead
  <2>1. PICK from \in 0 .. N, to \in 0 .. N : Copied(from, to) /\ pos' = to
    BY <1>1 DEF CopyRead
  <2>2. end' = end /\ todo' = todo
    BY <1>1 DEF CopyRead
  <2>3. QED
    BY <1>0, <2>1, <2>2, CopiedTyped DEF TypeOK, ScanTyped
<1>2. CASE ForwardRead
  <2>1. Copied(pos, pos + 1) /\ pos' = pos + 1 /\ end' = end /\ todo' = todo
    BY <1>2 DEF ForwardRead
  <2>2. /\ FilesTyped' /\ RunTyped' /\ pos + 1 \in 1 .. N
        /\ errors' = errors /\ pass' = pass /\ runs' = runs /\ kills' = kills
    BY <1>0, <2>1, CopiedTyped, DeviceAssumption
  <2>3. QED
    BY <1>0, <2>1, <2>2, DeviceAssumption DEF TypeOK, ScanTyped
<1>3. CASE BackwardRead
  <2>1. Copied(end - 1, end) /\ end' = end - 1 /\ pos' = pos /\ todo' = todo
    BY <1>3 DEF BackwardRead
  <2>2. /\ FilesTyped' /\ RunTyped' /\ end - 1 \in Sectors
        /\ errors' = errors /\ pass' = pass /\ runs' = runs /\ kills' = kills
    BY <1>0, <2>1, CopiedTyped, DeviceAssumption
  <2>3. QED
    BY <1>0, <2>1, <2>2, SectorRange, DeviceAssumption DEF TypeOK, ScanTyped
<1>4. CASE ScrapeRead \/ RetryRead
  <2>1. PICK s \in todo : Copied(s, s + 1) /\ todo' = todo \ {s}
    BY <1>4 DEF ScrapeRead, RetryRead
  <2>2. pos' = pos /\ end' = end
    BY <1>4 DEF ScrapeRead, RetryRead
  <2>3. s \in Int
    BY <1>0, SectorRange
  <2>4. /\ FilesTyped' /\ RunTyped'
        /\ errors' = errors /\ pass' = pass /\ runs' = runs /\ kills' = kills
    BY <2>1, <2>3, CopiedTyped
  <2>5. QED
    BY <1>0, <2>1, <2>2, <2>4 DEF TypeOK, ScanTyped
<1>5. QED
  BY <1>1, <1>2, <1>3, <1>4

\* The steps of the passes that write nothing to the output.
LEMMA PlanningTyped ==
  ASSUME TypeOK,
         \/ CopyError \/ CopyDone \/ TrimBlock \/ TrimDone \/ ForwardDone \/ BackwardDone
         \/ RetryError \/ NextPass
  PROVE  TypeOK'
<1>1. UNCHANGED <<disk, opts, hashed, runs, kills>> /\ pc # "off"
  BY DEF CopyError, CopyDone, TrimBlock, TrimDone, ForwardDone, BackwardDone, RetryError, NextPass
<1>2. map' \in [Sectors -> Statuses]
  <2>1. map \in [Sectors -> Statuses] /\ {"NonTrimmed", "NonScraped"} \subseteq Statuses
    BY DEF TypeOK, RunTyped, Statuses
  <2>2. QED
    BY <2>1, MarkedTyped
    DEF CopyError, CopyDone, TrimBlock, TrimDone, ForwardDone, BackwardDone, RetryError, NextPass
<1>3. pc' \in Pcs /\ result' \in Results
  <2>1. result \in Results
    BY DEF TypeOK, RunTyped
  <2>2. /\ {"copy", "trim", "forward", "backward", "scrape", "retry", "truncate"} \subseteq Pcs
        /\ {"ok", "cancelled"} \subseteq Results
    BY DEF Pcs, Results
  <2>3. QED
    BY <2>1, <2>2
    DEF CopyError, CopyDone, TrimBlock, TrimDone, ForwardDone, BackwardDone, RetryError, NextPass,
        Tick, Break
<1>4. pos' \in 0 .. N /\ end' \in 0 .. N
  <2>1. pos \in 0 .. N /\ end \in 0 .. N
    BY DEF TypeOK, ScanTyped
  <2>2. QED
    BY <2>1
    DEF CopyError, CopyDone, TrimBlock, TrimDone, ForwardDone, BackwardDone, RetryError, NextPass,
        scan
<1>5. todo' \subseteq Sectors
  <2>1. todo \subseteq Sectors
    BY DEF TypeOK, ScanTyped
  <2>2. QED
    BY <2>1
    DEF CopyError, CopyDone, TrimBlock, TrimDone, ForwardDone, BackwardDone, RetryError, NextPass,
        scan, With
<1>6. errors' \in Nat /\ pass' \in Nat
  <2>1. errors \in Nat /\ pass \in Nat
    BY DEF TypeOK, ScanTyped
  <2>2. QED
    BY <2>1
    DEF CopyError, CopyDone, TrimBlock, TrimDone, ForwardDone, BackwardDone, RetryError, NextPass,
        scan
<1>7. FilesTyped'
  BY <1>1 DEF TypeOK, FilesTyped, disk
<1>8. RunTyped'
  BY <1>1, <1>2, <1>3 DEF TypeOK, RunTyped, disk
<1>9. ScanTyped'
  BY <1>1, <1>4, <1>5, <1>6 DEF TypeOK, ScanTyped
<1>10. QED
  BY <1>7, <1>8, <1>9 DEF TypeOK

\* Giving up on a sector keeps the types.
LEMMA ScrapeErrorTyped ==
  ASSUME TypeOK, ScrapeError PROVE TypeOK'
<1>1. PICK s \in todo : /\ FillBad(s) /\ map' = Marked(s, s + 1, "Bad") /\ todo' = todo \ {s}
  BY DEF ScrapeError
<1>2. /\ pc = "scrape" /\ Tick("scrape")
      /\ UNCHANGED <<mapfile, manifest, opts, pos, end, errors, pass, runs, kills>>
  BY DEF ScrapeError
<1>3. opts \in Options /\ opts.fill \in Bytes
  BY <1>2, RunAssumption DEF TypeOK, RunTyped, Option
<1>4. out \in [Sectors -> Bytes] /\ hashed \in Seq(Bytes)
  BY <1>2, StoreTyped DEF TypeOK, RunTyped
<1>5. out' \in [Sectors -> Bytes] /\ hashed' \in Seq(Bytes)
  <2>1. CASE LeavesHole
    BY <1>1, <1>4, <2>1 DEF FillBad
  <2>2. CASE ~LeavesHole
    BY <1>1, <1>3, <1>4, <2>2 DEF FillBad
  <2>3. QED
    BY <2>1, <2>2
<1>6. map' \in [Sectors -> Statuses]
  BY <1>1, MarkedTyped DEF Statuses
<1>7. pc' \in Pcs /\ result' \in Results
  BY <1>2 DEF TypeOK, RunTyped, Tick, Pcs, Results
<1>8. FilesTyped'
  BY <1>2, <1>5 DEF TypeOK, FilesTyped
<1>9. RunTyped'
  BY <1>2, <1>3, <1>5, <1>6, <1>7, RunAssumption DEF RunTyped
<1>10. ScanTyped'
  BY <1>1, <1>2 DEF TypeOK, ScanTyped
<1>11. QED
  BY <1>8, <1>9, <1>10 DEF TypeOK

\* A write that fails keeps the types.
LEMMA WriteFailsTyped ==
  ASSUME TypeOK, WriteFails PROVE TypeOK'
<1>1. PICK from \in 0 .. N, to \in 0 .. N :
        /\ Reading(from, to)
        /\ \/ /\ \E part \in from .. to : out' = Store(from, part)
              /\ hashed' = hashed \o ContentOf(from, to)
           \/ /\ hashed' = Append(hashed, opts.fill)
              /\ UNCHANGED out
  BY DEF WriteFails
<1>2. /\ pc' = "truncate" /\ result' = "failed"
      /\ UNCHANGED <<mapfile, manifest, opts, map, scan, runs, kills>>
  BY DEF WriteFails
<1>3. from \in Sectors /\ to \in 1 .. N /\ from < to /\ pc # "off"
  BY <1>1, ReadingTyped
<1>4. opts \in Options /\ opts.fill \in Bytes
  BY <1>3, RunAssumption DEF TypeOK, RunTyped, Option
<1>5. out' \in [Sectors -> Bytes]
  BY <1>1, <1>3, StoreTyped
<1>6. hashed' \in Seq(Bytes)
  <2>1. hashed \in Seq(Bytes) /\ ContentOf(from, to) \in Seq(Bytes)
    BY <1>3, InOrderTyped DEF TypeOK, RunTyped
  <2>2. hashed' = hashed \o ContentOf(from, to) \/ hashed' = Append(hashed, opts.fill)
    BY <1>1
  <2>3. \A h \in Seq(Bytes) : hashed \o h \in Seq(Bytes)
    BY <2>1
  <2>4. Append(hashed, opts.fill) \in Seq(Bytes)
    BY <1>4, <2>1
  <2>5. QED
    BY <2>1, <2>2, <2>3, <2>4
<1>7. FilesTyped'
  BY <1>2, <1>5 DEF TypeOK, FilesTyped
<1>8. RunTyped'
  BY <1>2, <1>4, <1>5, <1>6, RunAssumption DEF TypeOK, RunTyped, Pcs, Results
<1>9. ScanTyped'
  BY <1>2 DEF TypeOK, ScanTyped, scan
<1>10. QED
  BY <1>7, <1>8, <1>9 DEF TypeOK

\* Writing the map and the manifest keeps the types.
LEMMA EndingTyped ==
  ASSUME TypeOK, Ending \/ Kill PROVE TypeOK'
<1>0. 0 \in 0 .. N /\ {"ok", "failed", "killed"} \subseteq Results
  BY DeviceAssumption DEF Results
<1>1. result \in Results /\ map \in [Sectors -> Statuses] /\ hashed \in Seq(Bytes)
  BY DEF TypeOK, RunTyped
<1>2. ASSUME NEW r \in Results, Exit(r), FilesTyped', runs' = runs,
             kills' = kills \/ (kills < MaxKills /\ kills' = kills + 1)
      PROVE  TypeOK'
  <2>1. /\ RunTyped'
        /\ pos' = 0 /\ end' = 0 /\ todo' = {} /\ errors' = 0 /\ pass' = 0
    BY <1>2, ExitTyped
  <2>2. kills' \in 0 .. MaxKills
    BY <1>2, RunAssumption DEF TypeOK, ScanTyped
  <2>3. ScanTyped'
    BY <1>0, <1>2, <2>1, <2>2 DEF TypeOK, ScanTyped
  <2>4. QED
    BY <1>2, <2>1, <2>3 DEF TypeOK
<1>3. ASSUME pc \notin {"off"}, pc' \in Pcs, FilesTyped', out' = out,
             UNCHANGED <<opts, map, scan, hashed, result, runs, kills>>
      PROVE  TypeOK'
  BY <1>3 DEF TypeOK, RunTyped, ScanTyped, scan
<1>4. CASE TruncateMap
  <2>1. FilesTyped' /\ pc' \in Pcs
    BY <1>4 DEF TruncateMap, TypeOK, FilesTyped, Pcs
  <2>2. QED
    BY <1>3, <1>4, <2>1 DEF TruncateMap
<1>5. CASE WriteMap
  <2>1. FilesTyped'
    BY <1>1, <1>5 DEF WriteMap, TypeOK, FilesTyped
  <2>2. CASE result = "ok"
    BY <1>3, <1>5, <2>1, <2>2 DEF WriteMap, Pcs
  <2>3. CASE result # "ok"
    BY <1>1, <1>2, <1>5, <2>1, <2>3 DEF WriteMap
  <2>4. QED
    BY <2>2, <2>3
<1>6. CASE WriteMapAgain
  <2>1. FilesTyped' /\ pc' \in Pcs
    BY <1>1, <1>6 DEF WriteMapAgain, TypeOK, FilesTyped, Pcs
  <2>2. QED
    BY <1>3, <1>6, <2>1 DEF WriteMapAgain
<1>7. CASE WriteManifest
  <2>1. out \in [Sectors -> Bytes]
    BY <1>7, StoreTyped DEF WriteManifest
  <2>2. FilesTyped'
    BY <1>1, <1>7, <2>1 DEF WriteManifest, TypeOK, FilesTyped
  <2>3. QED
    BY <1>0, <1>2, <1>7, <2>2 DEF WriteManifest
<1>8. CASE EndFails \/ Kill
  <2>1. FilesTyped'
    BY <1>8 DEF EndFails, Kill, TypeOK, FilesTyped, disk
  <2>2. QED
    BY <1>0, <1>2, <1>8, <2>1 DEF EndFails, Kill
<1>9. QED
  BY <1>4, <1>5, <1>6, <1>7, <1>8 DEF Ending

\* Beginning a run keeps the types.
LEMMA UserTyped ==
  ASSUME TypeOK, User PROVE TypeOK'
<1>1. PICK o \in Options : Clone(o) \/ CloneRefused(o)
  BY DEF User
<1>2. Untried \in [Sectors -> Statuses] /\ Zeros \in [Sectors -> Bytes]
  BY DeviceAssumption DEF Untried, Zeros, Statuses
<1>3. runs < MaxRuns /\ runs' = runs + 1
  BY <1>1 DEF Clone, CloneRefused
<1>4. runs' \in 0 .. MaxRuns
  BY <1>3, RunAssumption DEF TypeOK, ScanTyped
<1>5. CASE CloneRefused(o)
  <2>1. FilesTyped'
    BY <1>5 DEF CloneRefused, TypeOK, FilesTyped, disk
  <2>2. RunTyped'
    BY <1>5 DEF CloneRefused, TypeOK, RunTyped, Results, disk
  <2>3. ScanTyped'
    BY <1>4, <1>5 DEF CloneRefused, TypeOK, ScanTyped, scan
  <2>4. QED
    BY <2>1, <2>2, <2>3 DEF TypeOK
<1>6. CASE Clone(o)
  <2>1. map' \in [Sectors -> Statuses]
    BY <1>2, <1>6 DEF Clone, LoadsMap, Refused, TypeOK, FilesTyped
  <2>2. out' \in [Sectors -> Bytes]
    BY <1>2, <1>6 DEF Clone, KeepsOutput, TypeOK, FilesTyped
  <2>3. FilesTyped'
    BY <1>6, <2>2 DEF Clone, TypeOK, FilesTyped
  <2>4. RunTyped'
    BY <1>6, <2>1, <2>2, RunAssumption DEF Clone, TypeOK, RunTyped, Pcs, Results
  <2>5. ScanTyped'
    BY <1>4, <1>6 DEF Clone, TypeOK, ScanTyped, scan
  <2>6. QED
    BY <2>3, <2>4, <2>5 DEF TypeOK
<1>7. QED
  BY <1>1, <1>5, <1>6

\* The variables keep their types in every step of every run.
THEOREM TypeCorrect == Spec => []TypeOK
<1>1. Init => TypeOK
  <2> SUFFICES ASSUME Init PROVE TypeOK
    OBVIOUS
  <2>1. FilesTyped
    BY DEF Init, FilesTyped
  <2>2. RunTyped
    BY DEF Init, RunTyped, Pcs, Results, Untried, Statuses
  <2>3. ScanTyped
    BY DeviceAssumption, RunAssumption DEF Init, ScanTyped
  <2>4. QED
    BY <2>1, <2>2, <2>3 DEF TypeOK
<1>2. TypeOK /\ UNCHANGED vars => TypeOK'
  BY DEF TypeOK, FilesTyped, RunTyped, ScanTyped, vars, disk, scan
<1>3. TypeOK /\ [Next]_vars => TypeOK'
  BY <1>2, ReadsTyped, PlanningTyped, ScrapeErrorTyped, WriteFailsTyped, EndingTyped, UserTyped
  DEF Next, Passes
<1>4. QED
  BY <1>1, <1>3, PTL DEF Spec

-----------------------------------------------------------------------------
(* What the passes have before them and behind them.                       *)

Passing == {"copy", "trim", "forward", "backward", "scrape", "retry"}

\* The sectors a pass still has before it have the status the pass looks for.
TodoInv ==
  /\ pc \in {"trim", "forward", "backward"} => \A s \in todo : map[s] = "NonTrimmed"
  /\ pc = "scrape" => \A s \in todo : map[s] = "NonScraped"
  /\ pc = "retry" => \A s \in todo : map[s] = "Bad"
  /\ pc \in {"forward", "backward"} =>
       \A s \in Sectors : pos <= s /\ s < end => map[s] = "NonTrimmed" /\ s \notin todo

\* A run begins at the first sector, and is only called ok behind its passes.
RunInv ==
  /\ pc = "off" => pos = 0
  /\ pc \in Passing => result # "ok"

\* The passes were left before their end.
CutShort == result # "ok" /\ pc \notin Passing

\* Where the passes are done with a sector, it is in none of the statuses they
\* look for, unless failed blocks have cut the first pass short.
LeftInv ==
  pc # "off" /\ opts.max_errors = 0 =>
    \A s \in Sectors :
      /\ map[s] = "NonTried" =>
           \/ CutShort
           \/ pc = "copy" /\ pos <= s
      /\ map[s] = "NonTrimmed" =>
           \/ CutShort
           \/ pc = "copy"
           \/ pc \in {"trim", "forward", "backward"} /\ s \in todo
           \/ pc \in {"forward", "backward"} /\ pos <= s /\ s < end
      /\ map[s] = "NonScraped" =>
           \/ CutShort
           \/ pc \in {"copy", "trim", "forward", "backward"}
           \/ pc = "scrape" /\ s \in todo

\* Only a sector whose own read failed is called bad.
BadInv ==
  /\ \A s \in Sectors : map[s] = "Bad" => s \in Dead \cup Flaky
  /\ mapfile \notin {NoFile, TornMap} =>
       \A s \in Sectors : mapfile[s] = "Bad" => s \in Dead \cup Flaky

PassInv == TodoInv /\ RunInv /\ LeftInv /\ BadInv

\* What a read that succeeds does to the map and the control of the run.
LEMMA CopiedMarks ==
  ASSUME TypeOK, NEW from \in Int, NEW to, Copied(from, to)
  PROVE  /\ from \in Sectors /\ to \in 1 .. N /\ from < to
         /\ \A s \in Sectors : map'[s] = IF from <= s /\ s < to THEN "Finished" ELSE map[s]
         /\ opts' = opts /\ mapfile' = mapfile /\ pc \in Passing
         /\ \/ pc' = pc /\ result' = result
            \/ pc' = "truncate" /\ result' = "cancelled"
<1>1. Reading(from, to) /\ Tick(pc) /\ map' = Marked(from, to, "Finished")
  BY DEF Copied
<1>2. from \in Sectors /\ to \in 1 .. N /\ from < to /\ pc \in Passing
  BY <1>1, ReadingTyped DEF Passing
<1>3. QED
  BY <1>1, <1>2 DEF Copied, Tick, Marked

\* Reading takes sectors from the pass only by finishing them.
LEMMA ReadsPass ==
  ASSUME TypeOK, PassInv,
         CopyRead \/ ForwardRead \/ BackwardRead \/ ScrapeRead \/ RetryRead
  PROVE  PassInv'
<1> USE DEF Passing, CutShort
<1>0. /\ pos \in 0 .. N /\ end \in 0 .. N /\ todo \subseteq Sectors /\ N \in Nat
      /\ \A s \in Sectors : s \in Int /\ 0 <= s /\ s < N
  BY SectorRange, DeviceAssumption DEF TypeOK, ScanTyped
<1>1. CASE CopyRead
  <2>1. PICK from \in 0 .. N, to \in 0 .. N : Copied(from, to) /\ pos' = to /\ pc = "copy"
    BY <1>1 DEF CopyRead
  <2>2. /\ \A s \in Sectors : map'[s] = IF from <= s /\ s < to THEN "Finished" ELSE map[s]
        /\ opts' = opts /\ mapfile' = mapfile
        /\ \/ pc' = pc /\ result' = result
           \/ pc' = "truncate" /\ result' = "cancelled"
    BY <2>1, CopiedMarks
  <2>3. PICK stop \in 0 .. N : /\ IsFirstBlock(from, stop, Untaken)
                               /\ to = LesserOf(from + opts.block, stop)
    BY <2>1 DEF Copied, Reading
  <2>4. \A s \in Sectors : map[s] = "NonTried" /\ pos <= s => from <= s
    BY <2>3 DEF IsFirstBlock, IsFirst, Untaken, With
  <2>5. TodoInv' /\ RunInv'
    BY <2>1, <2>2 DEF TodoInv, RunInv, PassInv
  <2>6. LeftInv'
    BY <1>0, <2>1, <2>2, <2>4 DEF LeftInv, PassInv
  <2>7. BadInv'
    BY <2>2 DEF BadInv, PassInv
  <2>8. QED
    BY <2>5, <2>6, <2>7 DEF PassInv
<1>2. CASE ForwardRead
  <2>1. Copied(pos, pos + 1) /\ pos' = pos + 1 /\ end' = end /\ todo' = todo /\ pc = "forward"
    BY <1>2 DEF ForwardRead
  <2>2. /\ \A s \in Sectors : map'[s] = IF pos <= s /\ s < pos + 1 THEN "Finished" ELSE map[s]
        /\ opts' = opts /\ mapfile' = mapfile
        /\ \/ pc' = pc /\ result' = result
           \/ pc' = "truncate" /\ result' = "cancelled"
    BY <1>0, <2>1, CopiedMarks
  <2>3. pos < end
    BY <2>1 DEF Copied, Reading
  <2>4. \A s \in Sectors : pos <= s /\ s < pos + 1 <=> s = pos
    BY <1>0
  <2>5. TodoInv'
    BY <1>0, <2>1, <2>2, <2>3, <2>4 DEF TodoInv, PassInv
  <2>6. RunInv' /\ BadInv'
    BY <2>1, <2>2 DEF RunInv, BadInv, PassInv
  <2>7. LeftInv'
    BY <1>0, <2>1, <2>2 DEF LeftInv, PassInv
  <2>8. QED
    BY <2>5, <2>6, <2>7 DEF PassInv
<1>3. CASE BackwardRead
  <2>1. Copied(end - 1, end) /\ end' = end - 1 /\ pos' = pos /\ todo' = todo /\ pc = "backward"
    BY <1>3 DEF BackwardRead
  <2>2. /\ \A s \in Sectors : map'[s] = IF end - 1 <= s /\ s < end THEN "Finished" ELSE map[s]
        /\ opts' = opts /\ mapfile' = mapfile
        /\ \/ pc' = pc /\ result' = result
           \/ pc' = "truncate" /\ result' = "cancelled"
    BY <1>0, <2>1, CopiedMarks
  <2>3. pos < end
    BY <2>1 DEF Copied, Reading
  <2>4. \A s \in Sectors : end - 1 <= s /\ s < end <=> s = end - 1
    BY <1>0
  <2>5. TodoInv'
    BY <1>0, <2>1, <2>2, <2>3, <2>4 DEF TodoInv, PassInv
  <2>6. RunInv' /\ BadInv'
    BY <2>1, <2>2 DEF RunInv, BadInv, PassInv
  <2>7. LeftInv'
    BY <1>0, <2>1, <2>2 DEF LeftInv, PassInv
  <2>8. QED
    BY <2>5, <2>6, <2>7 DEF PassInv
<1>4. CASE ScrapeRead \/ RetryRead
  <2>1. PICK r \in todo : Copied(r, r + 1) /\ todo' = todo \ {r}
    BY <1>4 DEF ScrapeRead, RetryRead
  <2>2. r \in Sectors /\ r \in Int /\ pc \in {"scrape", "retry"}
    BY <1>0, <1>4, <2>1 DEF ScrapeRead, RetryRead
  <2>3. /\ \A s \in Sectors : map'[s] = IF s = r THEN "Finished" ELSE map[s]
        /\ opts' = opts /\ mapfile' = mapfile
        /\ \/ pc' = pc /\ result' = result
           \/ pc' = "truncate" /\ result' = "cancelled"
    <3>1. \A s \in Sectors : r <= s /\ s < r + 1 <=> s = r
      BY <1>0, <2>2
    <3>2. QED
      BY <2>1, <2>2, <3>1, CopiedMarks
  <2>4. TodoInv'
    BY <1>0, <2>1, <2>2, <2>3 DEF TodoInv, PassInv
  <2>5. RunInv' /\ BadInv'
    BY <2>2, <2>3 DEF RunInv, BadInv, PassInv
  <2>6. LeftInv'
    BY <1>0, <2>1, <2>2, <2>3 DEF LeftInv, PassInv
  <2>7. QED
    BY <2>4, <2>5, <2>6 DEF PassInv
<1>5. QED
  BY <1>1, <1>2, <1>3, <1>4

\* Planning a pass takes up every sector that has its status.
LEMMA PlanningPass ==
  ASSUME TypeOK, PassInv,
         CopyDone \/ TrimBlock \/ TrimDone \/ ForwardDone \/ RetryError \/ NextPass
  PROVE  PassInv'
<1> USE DEF Passing, CutShort
<1>0. /\ pos \in 0 .. N /\ end \in 0 .. N /\ todo \subseteq Sectors /\ N \in Nat
      /\ \A s \in Sectors : s \in Int /\ 0 <= s /\ s < N
  BY SectorRange, DeviceAssumption DEF TypeOK, ScanTyped
<1>1. pc # "off" /\ map' = map /\ opts' = opts /\ mapfile' = mapfile
  BY DEF CopyDone, TrimBlock, TrimDone, ForwardDone, RetryError, NextPass, disk
<1>2. BadInv'
  BY <1>1 DEF BadInv, PassInv
<1>3. CASE CopyDone
  <2>1. /\ pc = "copy" /\ pc' = "trim" /\ result' = result /\ pos' = pos
        /\ todo' = With("NonTrimmed") /\ Untaken = {}
    BY <1>3 DEF CopyDone, Break
  <2>2. TodoInv' /\ RunInv'
    BY <1>1, <2>1 DEF TodoInv, RunInv, With, PassInv
  <2>3. LeftInv'
    BY <1>1, <2>1 DEF LeftInv, With, Untaken, PassInv
  <2>4. QED
    BY <1>2, <2>2, <2>3 DEF PassInv
<1>4. CASE TrimBlock
  <2>1. PICK from \in 0 .. N, to \in 0 .. N :
          /\ IsFirstBlock(from, to, todo) /\ pos' = from /\ end' = to
          /\ todo' = todo \ (from .. to - 1)
    BY <1>4 DEF TrimBlock
  <2>2. pc = "trim" /\ pc' = "forward" /\ result' = result
    BY <1>4 DEF TrimBlock, Break
  <2>3. \A s \in Sectors : from <= s /\ s < to <=> s \in from .. to - 1
    BY <1>0
  <2>4. from .. to - 1 \subseteq todo
    BY <2>1 DEF IsFirstBlock
  <2>5. TodoInv' /\ RunInv'
    BY <1>1, <2>1, <2>2, <2>3, <2>4 DEF TodoInv, RunInv, PassInv
  <2>6. LeftInv'
    BY <1>1, <2>1, <2>2, <2>3 DEF LeftInv, PassInv
  <2>7. QED
    BY <1>2, <2>5, <2>6 DEF PassInv
<1>5. CASE TrimDone
  <2>1. /\ pc = "trim" /\ pc' = "scrape" /\ result' = result /\ todo = {}
        /\ todo' = With("NonScraped")
    BY <1>5 DEF TrimDone, Break
  <2>2. TodoInv' /\ RunInv'
    BY <1>1, <2>1 DEF TodoInv, RunInv, With, PassInv
  <2>3. LeftInv'
    BY <1>1, <2>1 DEF LeftInv, With, PassInv
  <2>4. QED
    BY <1>2, <2>2, <2>3 DEF PassInv
<1>6. CASE ForwardDone
  <2>1. /\ pc = "forward" /\ pc' = "backward" /\ result' = result
        /\ UNCHANGED <<pos, end, todo>>
    BY <1>6 DEF ForwardDone, Break, scan
  <2>2. TodoInv' /\ RunInv' /\ LeftInv'
    BY <1>1, <2>1 DEF TodoInv, RunInv, LeftInv, PassInv
  <2>3. QED
    BY <1>2, <2>2 DEF PassInv
<1>7. CASE RetryError
  <2>1. /\ pc = "retry" /\ todo' \subseteq todo
        /\ \/ pc' = pc /\ result' = result
           \/ pc' = "truncate" /\ result' = "cancelled"
    BY <1>7 DEF RetryError, Tick
  <2>2. TodoInv' /\ RunInv' /\ LeftInv'
    BY <1>1, <2>1 DEF TodoInv, RunInv, LeftInv, PassInv
  <2>3. QED
    BY <1>2, <2>2 DEF PassInv
<1>8. CASE NextPass
  <2>1. /\ pc \in {"scrape", "retry"} /\ todo = {}
        /\ \/ pc' = "retry" /\ todo' = With("Bad") /\ result' = result
           \/ pc' = "truncate" /\ result' = "ok"
    BY <1>8 DEF NextPass
  <2>2. TodoInv' /\ RunInv'
    BY <1>1, <2>1 DEF TodoInv, RunInv, With, PassInv
  <2>3. LeftInv'
    BY <1>1, <2>1 DEF LeftInv, PassInv
  <2>4. QED
    BY <1>2, <2>2, <2>3 DEF PassInv
<1>9. QED
  BY <1>3, <1>4, <1>5, <1>6, <1>7, <1>8

\* A block whose read fails was not tried before: which sectors it marks.
LEMMA CopyErrorMarks ==
  ASSUME TypeOK, CopyError
  PROVE  \E from, to \in 0 .. N :
           /\ map' = Marked(from, to, "NonTrimmed") /\ pos' = to
           /\ \A s \in Sectors : from <= s /\ s < to => map[s] = "NonTried"
           /\ \A s \in Sectors : map[s] = "NonTried" /\ pos <= s => from <= s
<1>1. PICK from \in 0 .. N, to \in 0 .. N :
        /\ Reading(from, to) /\ map' = Marked(from, to, "NonTrimmed") /\ pos' = to
  BY DEF CopyError, NotCopied
<1>2. pc = "copy"
  BY DEF CopyError
<1>3. PICK stop \in 0 .. N : /\ IsFirstBlock(from, stop, Untaken)
                             /\ to = LesserOf(from + opts.block, stop)
  BY <1>1, <1>2 DEF Reading
<1>4. to <= stop
  <2>1. opts.block \in Nat
    BY <1>2, RunAssumption DEF TypeOK, RunTyped, Option
  <2>2. QED
    BY <1>3, <2>1, DeviceAssumption DEF LesserOf
<1>5. \A s \in Sectors : from <= s /\ s < to => map[s] = "NonTried"
  <2>1. \A s \in from .. stop - 1 : map[s] = "NonTried"
    BY <1>3 DEF IsFirstBlock, Untaken, With
  <2>2. \A s \in Sectors : from <= s /\ s < to => s \in from .. stop - 1
    BY <1>1, <1>4, SectorRange, DeviceAssumption
  <2>3. QED
    BY <2>1, <2>2
<1>6. \A s \in Sectors : map[s] = "NonTried" /\ pos <= s => from <= s
  BY <1>3 DEF IsFirstBlock, IsFirst, Untaken, With
<1>7. QED
  BY <1>1, <1>5, <1>6

\* Deferring a block, or ending the pass over too many of them.
LEMMA CopyErrorPass ==
  ASSUME TypeOK, PassInv, CopyError PROVE PassInv'
<1> USE DEF Passing, CutShort
<1>1. PICK from \in 0 .. N, to \in 0 .. N :
        /\ map' = Marked(from, to, "NonTrimmed") /\ pos' = to
        /\ \A s \in Sectors : from <= s /\ s < to => map[s] = "NonTried"
        /\ \A s \in Sectors : map[s] = "NonTried" /\ pos <= s => from <= s
  BY CopyErrorMarks
<1>2. /\ pc = "copy" /\ opts' = opts /\ mapfile' = mapfile
      /\ \/ /\ opts.max_errors > 0
            /\ pc' = "trim" /\ todo' = {s \in Sectors : map'[s] = "NonTrimmed"} /\ result' = result
         \/ pc' = pc /\ result' = result
         \/ pc' = "truncate" /\ result' = "cancelled"
  BY DEF CopyError, Tick, Break, disk
<1>3. \A s \in Sectors : map'[s] = IF from <= s /\ s < to THEN "NonTrimmed" ELSE map[s]
  BY <1>1 DEF Marked
<1>4. TodoInv' /\ RunInv'
  BY <1>2 DEF TodoInv, RunInv, PassInv
<1>5. BadInv'
  BY <1>2, <1>3 DEF BadInv, PassInv
<1>6. LeftInv'
  <2>1. pos \in Int /\ from \in Int /\ to \in Int /\ \A s \in Sectors : s \in Int
    BY SectorRange, DeviceAssumption DEF TypeOK, ScanTyped
  <2>2. opts.max_errors \in Nat
    BY <1>2, RunAssumption DEF TypeOK, RunTyped, Option
  <2>3. QED
    BY <1>1, <1>2, <1>3, <2>1, <2>2 DEF LeftInv, PassInv
<1>7. QED
  BY <1>4, <1>5, <1>6 DEF PassInv

\* What trimming leaves in the middle goes to scraping.
LEMMA BackwardDonePass ==
  ASSUME TypeOK, PassInv, BackwardDone PROVE PassInv'
<1> USE DEF Passing, CutShort
<1>1. /\ pc = "backward" /\ pc' = "trim" /\ result' = result
      /\ UNCHANGED <<mapfile, opts, pos, end, todo>>
      /\ map' = Marked(pos, end, "NonScraped")
  BY DEF BackwardDone, Break, scan, disk
<1>2. \A s \in Sectors : map'[s] = IF pos <= s /\ s < end THEN "NonScraped" ELSE map[s]
  BY <1>1 DEF Marked
<1>3. \A s \in todo : s \in Sectors
  BY DEF TypeOK, ScanTyped
<1>4. TodoInv'
  BY <1>1, <1>2, <1>3 DEF TodoInv, PassInv
<1>5. RunInv' /\ BadInv'
  BY <1>1, <1>2 DEF RunInv, BadInv, PassInv
<1>6. LeftInv'
  BY <1>1, <1>2 DEF LeftInv, PassInv
<1>7. QED
  BY <1>4, <1>5, <1>6 DEF PassInv

\* A sector is given up on only when its own read failed.
LEMMA ScrapeErrorPass ==
  ASSUME TypeOK, PassInv, ScrapeError PROVE PassInv'
<1> USE DEF Passing, CutShort
<1>1. PICK r \in todo : NotCopied(r, r + 1) /\ map' = Marked(r, r + 1, "Bad") /\ todo' = todo \ {r}
  BY DEF ScrapeError
<1>2. /\ pc = "scrape" /\ mapfile' = mapfile /\ opts' = opts
      /\ \/ pc' = pc /\ result' = result
         \/ pc' = "truncate" /\ result' = "cancelled"
  BY DEF ScrapeError, Tick
<1>3. todo \subseteq Sectors /\ \A s \in Sectors : s \in Int
  BY SectorRange DEF TypeOK, ScanTyped
<1>4. \A s \in Sectors : map'[s] = IF s = r THEN "Bad" ELSE map[s]
  BY <1>1, <1>3 DEF Marked
<1>5. r \in Dead \cup Flaky
  BY <1>1, <1>3 DEF NotCopied, MayFail
<1>6. TodoInv'
  BY <1>1, <1>2, <1>3, <1>4 DEF TodoInv, PassInv
<1>7. RunInv' /\ BadInv'
  BY <1>2, <1>4, <1>5 DEF RunInv, BadInv, PassInv
<1>8. LeftInv'
  BY <1>1, <1>2, <1>4 DEF LeftInv, PassInv
<1>9. QED
  BY <1>6, <1>7, <1>8 DEF PassInv

\* The steps that end a run, or begin one.
LEMMA OutsidePass ==
  ASSUME TypeOK, PassInv, WriteFails \/ Ending \/ Kill \/ User
  PROVE  PassInv'
<1> USE DEF Passing, CutShort
<1>0. \A s \in Sectors : Untried[s] = "NonTried" /\ 0 <= s
  BY SectorRange DEF Untried
<1>1. ASSUME NEW r, Exit(r), mapfile' \in {mapfile, TornMap, map} PROVE PassInv'
  BY <1>0, <1>1 DEF Exit, PassInv, TodoInv, RunInv, LeftInv, BadInv
<1>2. ASSUME map' = map, opts' = opts, mapfile' \in {mapfile, TornMap, map},
             pc \notin {"off"} \cup Passing, pc' \notin {"off"} \cup Passing, result' = result
      PROVE  PassInv'
  BY <1>2 DEF PassInv, TodoInv, RunInv, LeftInv, BadInv
<1>3. CASE WriteFails
  <2>1. /\ pc' = "truncate" /\ result' = "failed" /\ map' = map /\ mapfile' = mapfile
    BY <1>3 DEF WriteFails
  <2>2. QED
    BY <2>1 DEF PassInv, TodoInv, RunInv, LeftInv, BadInv
<1>4. CASE TruncateMap
  BY <1>2, <1>4 DEF TruncateMap
<1>5. CASE WriteMap
  <2>1. CASE result = "ok"
    BY <1>2, <1>5, <2>1 DEF WriteMap
  <2>2. CASE result # "ok"
    BY <1>1, <1>5, <2>2 DEF WriteMap
  <2>3. QED
    BY <2>1, <2>2
<1>6. CASE WriteMapAgain
  BY <1>2, <1>6 DEF WriteMapAgain
<1>7. CASE WriteManifest \/ EndFails \/ Kill
  BY <1>1, <1>7 DEF WriteManifest, EndFails, Kill, disk
<1>8. CASE User
  <2>1. PICK o \in Options : Clone(o) \/ CloneRefused(o)
    BY <1>8 DEF User
  <2>2. CASE CloneRefused(o)
    BY <2>2 DEF CloneRefused, disk, scan, PassInv, TodoInv, RunInv, LeftInv, BadInv
  <2>3. CASE Clone(o)
    <3>1. /\ pc = "off" /\ pc' = "copy" /\ mapfile' = mapfile /\ result' = "none" /\ pos' = pos
          /\ map' = IF LoadsMap(o) THEN mapfile ELSE Untried
          /\ ~Refused(o)
      BY <2>3 DEF Clone, scan
    <3>2. map' = Untried \/ (mapfile \notin {NoFile, TornMap} /\ map' = mapfile)
      BY <3>1 DEF LoadsMap, Refused
    <3>3. TodoInv' /\ RunInv'
      BY <3>1 DEF TodoInv, RunInv
    <3>4. LeftInv'
      BY <1>0, <3>1 DEF PassInv, RunInv, LeftInv
    <3>5. BadInv'
      BY <1>0, <3>1, <3>2 DEF PassInv, BadInv
    <3>6. QED
      BY <3>3, <3>4, <3>5 DEF PassInv
  <2>4. QED
    BY <2>1, <2>2, <2>3
<1>9. QED
  BY <1>3, <1>4, <1>5, <1>6, <1>7, <1>8 DEF Ending

\* In every run every pass has before it the sectors it is for.
LEMMA PassesAreRight == Spec => []PassInv
<1>1. Init => PassInv
  BY DEF Init, PassInv, TodoInv, RunInv, LeftInv, BadInv, Untried, Passing, CutShort
<1>2. TypeOK /\ PassInv /\ [Next]_vars => PassInv'
  <2>1. ASSUME PassInv, UNCHANGED vars PROVE PassInv'
    BY <2>1 DEF vars, disk, scan, PassInv, TodoInv, RunInv, LeftInv, CutShort, BadInv
  <2>2. QED
    BY <2>1, ReadsPass, PlanningPass, CopyErrorPass, BackwardDonePass, ScrapeErrorPass,
       OutsidePass
    DEF Next, Passes
<1>3. QED
  BY <1>1, <1>2, TypeCorrect, PTL DEF Spec

\* A clone that ends of itself has copied every sector that reads, however bad
\* its neighbours, and calls bad only sectors whose own read failed.
THEOREM DamageStaysLocal == Spec => []DamageIsLocalised
<1>1. TypeOK /\ PassInv => DamageIsLocalised
  <2> SUFFICES ASSUME TypeOK, PassInv PROVE DamageIsLocalised
    OBVIOUS
  <2>1. With("Bad") \subseteq Dead \cup Flaky
    BY DEF PassInv, BadInv, With
  <2>2. ASSUME result = "ok", pc # "off", opts.max_errors = 0
        PROVE  Sectors \ (Dead \cup Flaky) \subseteq With("Finished")
    <3>1. pc \notin Passing
      BY <2>2 DEF PassInv, RunInv
    <3>2. \A s \in Sectors : map[s] \in {"Bad", "Finished"}
      BY <2>2, <3>1 DEF PassInv, LeftInv, CutShort, TypeOK, RunTyped, Statuses, Passing
    <3>3. QED
      BY <2>1, <3>2 DEF With
  <2>3. QED
    BY <2>1, <2>2 DEF DamageIsLocalised
<1>2. QED
  BY <1>1, TypeCorrect, PassesAreRight, PTL

\* While a run goes on no sector goes back to an earlier status.
THEOREM NothingIsUnlearned == Spec => StatusOnlyAdvances
<1> DEFINE Advance == \A s \in Sectors : Rank(map'[s]) >= Rank(map[s])
           Step    == pc # "off" /\ pc' # "off" => Advance
<1>1. TypeOK /\ PassInv /\ [Next]_vars => [Step]_vars
  <2> SUFFICES ASSUME TypeOK, PassInv, Next, pc # "off", pc' # "off" PROVE Advance
    OBVIOUS
  <2>1. \A s \in Sectors : map[s] \in Statuses
    BY DEF TypeOK, RunTyped
  <2>2. /\ Rank("NonTried") = 0 /\ Rank("NonTrimmed") = 1 /\ Rank("NonScraped") = 2
        /\ Rank("Bad") = 3 /\ Rank("Finished") = 4
    BY DEF Rank
  <2>3. ASSUME map' = map PROVE Advance
    BY <2>1, <2>2, <2>3 DEF Statuses
  <2>4. ASSUME NEW from \in Int, NEW to, Copied(from, to) PROVE Advance
    <3>1. \A s \in Sectors : map'[s] = IF from <= s /\ s < to THEN "Finished" ELSE map[s]
      BY <2>4, CopiedMarks
    <3>2. QED
      BY <2>1, <2>2, <3>1 DEF Statuses
  <2>5. CASE CopyRead \/ ForwardRead \/ BackwardRead \/ ScrapeRead \/ RetryRead
    <3>1. pos \in Int /\ end \in Int /\ todo \subseteq Int /\ 0 .. N \subseteq Int
      BY SectorRange, DeviceAssumption DEF TypeOK, ScanTyped
    <3>2. end - 1 \in Int
      BY <3>1
    <3>3. QED
      BY <2>4, <2>5, <3>1, <3>2
      DEF CopyRead, ForwardRead, BackwardRead, ScrapeRead, RetryRead
  <2>6. CASE CopyError
    <3>1. PICK from \in 0 .. N, to \in 0 .. N :
            /\ map' = Marked(from, to, "NonTrimmed")
            /\ \A s \in Sectors : from <= s /\ s < to => map[s] = "NonTried"
      BY <2>6, CopyErrorMarks
    <3>2. QED
      BY <2>1, <2>2, <3>1 DEF Marked, Statuses
  <2>7. CASE BackwardDone
    <3>1. pc = "backward" /\ map' = Marked(pos, end, "NonScraped")
      BY <2>7 DEF BackwardDone
    <3>2. \A s \in Sectors : pos <= s /\ s < end => map[s] = "NonTrimmed"
      BY <3>1 DEF PassInv, TodoInv
    <3>3. QED
      BY <2>1, <2>2, <3>1, <3>2 DEF Marked, Statuses
  <2>8. CASE ScrapeError
    <3>1. PICK r \in todo : map' = Marked(r, r + 1, "Bad")
      BY <2>8 DEF ScrapeError
    <3>2. r \in Sectors /\ map[r] = "NonScraped" /\ \A s \in Sectors : s \in Int
      BY <2>8, SectorRange DEF ScrapeError, PassInv, TodoInv, TypeOK, ScanTyped
    <3>3. \A s \in Sectors : r <= s /\ s < r + 1 => s = r
      BY <3>2
    <3>4. QED
      BY <2>1, <2>2, <3>1, <3>2, <3>3 DEF Marked, Statuses
  <2>9. CASE User
    BY <2>9 DEF User, Clone, CloneRefused
  <2>10. QED
    BY <2>3, <2>5, <2>6, <2>7, <2>8, <2>9
    DEF Next, Passes, Ending, CopyDone, TrimBlock, TrimDone, ForwardDone, RetryError, NextPass,
        WriteFails, TruncateMap, WriteMap, WriteMapAgain, WriteManifest, EndFails, Kill, Exit
<1>2. QED
  BY <1>1, TypeCorrect, PassesAreRight, PTL DEF Spec, StatusOnlyAdvances

-----------------------------------------------------------------------------
(* What is finished is copied.                                             *)

\* No byte but zero is ever used as a filler.
ZeroFill == \A o \in Options : o.fill = "zero"

\* Where fillers are zeros, a sector of the output holds zeros or its bytes, so
\* that a hole left for a sector of zeros does hold them.
OutputInv ==
  /\ ZeroFill /\ out # NoFile => \A s \in Sectors : out[s] = "zero" \/ out[s] = Content[s]
  /\ out = NoFile => mapfile = NoFile

\* The map of the run knows at least what the .map file knows.
MapInv ==
  pc # "off" /\ IsMap(mapfile) =>
    \A s \in Sectors : mapfile[s] = "Finished" => map[s] = "Finished"

ManifestInv == manifest # NoFile /\ manifest.complete => manifest.output = Content

CloneInv == FinishedMeansCopied /\ OutputInv /\ MapInv /\ ManifestInv

\* write_out leaves the bytes read in the output, hole or not.
LEMMA WriteOutWrites ==
  ASSUME TypeOK, SafeOptions, OutputInv, NEW from \in Sectors, NEW to \in 1 .. N,
         pc # "off", WriteOut(from, to)
  PROVE  \A s \in Sectors : out'[s] = IF from <= s /\ s < to THEN Content[s] ELSE out[s]
<1>1. opts \in Options /\ out # NoFile
  BY DEF TypeOK, RunTyped
<1>2. CASE ~Hole(from, to)
  BY <1>2 DEF WriteOut, Store
<1>3. CASE Hole(from, to)
  <2>1. opts.sparse
    BY <1>3 DEF Hole
  <2>2. ZeroFill
    BY <1>1, <2>1 DEF SafeOptions, ZeroFill
  <2>3. \A s \in Sectors : from <= s /\ s < to => Content[s] = "zero"
    <3>1. \A s \in from .. to - 1 : Content[s] = "zero"
      BY <1>3 DEF Hole
    <3>2. QED
      BY <3>1, SectorRange, DeviceAssumption
  <2>4. \A s \in Sectors : out[s] = "zero" \/ out[s] = Content[s]
    BY <1>1, <2>2 DEF OutputInv
  <2>5. out' = out
    BY <1>3 DEF WriteOut
  <2>6. QED
    BY <2>3, <2>4, <2>5
<1>4. QED
  BY <1>2, <1>3

\* A step that writes to sectors the .map file does not call finished, or that
\* writes the device's bytes to them, keeps both maps faithful.
LEMMA CopiedKeeps ==
  ASSUME TypeOK, SafeOptions, CloneInv, NEW from \in Int, NEW to, Copied(from, to)
  PROVE  CloneInv'
<1>1. WriteOut(from, to) /\ UNCHANGED <<mapfile, manifest, opts>>
  BY DEF Copied
<1>2. /\ from \in Sectors /\ to \in 1 .. N /\ from < to /\ pc # "off"
      /\ \A s \in Sectors : map'[s] = IF from <= s /\ s < to THEN "Finished" ELSE map[s]
  BY CopiedMarks DEF Passing
<1>3. \A s \in Sectors : out'[s] = IF from <= s /\ s < to THEN Content[s] ELSE out[s]
  BY <1>1, <1>2, WriteOutWrites DEF CloneInv
<1>4. out # NoFile /\ out' # NoFile
  BY <1>2, CopiedTyped, RunAssumption, StoreTyped DEF TypeOK, RunTyped, FilesTyped, Copied, WriteOut
<1>5. Faithful(map)
  BY <1>2 DEF CloneInv, FinishedMeansCopied
<1>6. FinishedMeansCopied'
  BY <1>1, <1>2, <1>3, <1>4, <1>5 DEF CloneInv, FinishedMeansCopied, Faithful, IsMap
<1>7. OutputInv'
  BY <1>3, <1>4 DEF CloneInv, OutputInv, ZeroFill
<1>8. MapInv'
  BY <1>1, <1>2 DEF CloneInv, MapInv, IsMap
<1>9. ManifestInv'
  BY <1>1 DEF CloneInv, ManifestInv
<1>10. QED
  BY <1>6, <1>7, <1>8, <1>9 DEF CloneInv

\* A sector becomes Finished only with its bytes in the output.
LEMMA ReadsKeep ==
  ASSUME TypeOK, SafeOptions, CloneInv,
         CopyRead \/ ForwardRead \/ BackwardRead \/ ScrapeRead \/ RetryRead
  PROVE  CloneInv'
<1>1. pos \in Int /\ end - 1 \in Int /\ todo \subseteq Int /\ 0 .. N \subseteq Int
  BY SectorRange, DeviceAssumption DEF TypeOK, ScanTyped
<1>2. QED
  BY <1>1, CopiedKeeps DEF CopyRead, ForwardRead, BackwardRead, ScrapeRead, RetryRead

\* Marking sectors that are not finished, and writing nothing.
LEMMA MarkingKeeps ==
  ASSUME TypeOK, CloneInv, pc # "off", UNCHANGED disk, pc' # "off",
         NEW from, NEW to, NEW status \in Statuses, map' = Marked(from, to, status),
         status # "Finished",
         \A s \in Sectors : from <= s /\ s < to => map[s] # "Finished"
  PROVE  CloneInv'
<1>1. out' = out /\ mapfile' = mapfile /\ manifest' = manifest
  BY DEF disk
<1>2. \A s \in Sectors : map'[s] = "Finished" <=> map[s] = "Finished"
  BY DEF Marked
<1>3. FinishedMeansCopied'
  BY <1>1, <1>2 DEF CloneInv, FinishedMeansCopied, Faithful, IsMap
<1>4. MapInv'
  BY <1>1, <1>2 DEF CloneInv, MapInv, IsMap
<1>5. OutputInv' /\ ManifestInv'
  BY <1>1 DEF CloneInv, OutputInv, ManifestInv, ZeroFill
<1>6. QED
  BY <1>3, <1>4, <1>5 DEF CloneInv

\* Planning a pass leaves the files and the map alone.
LEMMA PlanningKeeps ==
  ASSUME CloneInv,
         CopyDone \/ TrimBlock \/ TrimDone \/ ForwardDone \/ RetryError \/ NextPass
  PROVE  CloneInv'
<1>1. pc # "off" /\ UNCHANGED <<disk, map>>
  BY DEF CopyDone, TrimBlock, TrimDone, ForwardDone, RetryError, NextPass
<1>2. QED
  BY <1>1 DEF CloneInv, FinishedMeansCopied, Faithful, OutputInv, MapInv, ManifestInv, IsMap,
              disk, ZeroFill

\* Neither a failed block nor what trimming leaves in the middle was Finished.
LEMMA DeferringKeeps ==
  ASSUME TypeOK, TodoInv, CloneInv, CopyError \/ BackwardDone PROVE CloneInv'
<1>1. CASE CopyError
  <2>1. PICK from \in 0 .. N, to \in 0 .. N :
          /\ map' = Marked(from, to, "NonTrimmed")
          /\ \A s \in Sectors : from <= s /\ s < to => map[s] = "NonTried"
    BY <1>1, CopyErrorMarks
  <2>2. pc = "copy" /\ pc' # "off" /\ UNCHANGED disk
    BY <1>1 DEF CopyError, Tick, Break
  <2>3. QED
    BY <2>1, <2>2, MarkingKeeps DEF Statuses
<1>2. CASE BackwardDone
  <2>1. /\ pc = "backward" /\ pc' # "off" /\ UNCHANGED disk
        /\ map' = Marked(pos, end, "NonScraped")
    BY <1>2 DEF BackwardDone, Break
  <2>2. QED
    BY <2>1, MarkingKeeps DEF TodoInv, Statuses
<1>3. QED
  BY <1>1, <1>2

\* The fill goes into a sector that is not Finished.
LEMMA ScrapeErrorKeeps ==
  ASSUME TypeOK, TodoInv, CloneInv, ScrapeError PROVE CloneInv'
<1>1. PICK s \in todo : /\ FillBad(s) /\ map' = Marked(s, s + 1, "Bad") /\ todo' = todo \ {s}
  BY DEF ScrapeError
<1>2. /\ pc = "scrape" /\ pc' \in {"scrape", "truncate"} /\ UNCHANGED <<mapfile, manifest>>
  BY DEF ScrapeError, Tick
<1>3. /\ s \in Sectors /\ todo \subseteq Sectors /\ opts \in Options /\ out # NoFile
      /\ out \in [Sectors -> Bytes]
  BY <1>2, StoreTyped DEF TypeOK, ScanTyped, RunTyped
<1>4. \A t \in todo : map[t] = "NonScraped"
  BY <1>2 DEF TodoInv
<1>5. \A t \in Sectors : map'[t] = IF t = s THEN "Bad" ELSE map[t]
  BY <1>1, <1>3, SectorRange DEF Marked
<1>6. \A t \in Sectors : t # s => out'[t] = out[t]
  BY <1>1, <1>3 DEF FillBad
<1>7. out'[s] = out[s] \/ out'[s] = opts.fill
  BY <1>1, <1>3 DEF FillBad
<1>8. out' # NoFile
  BY <1>1, <1>3, RunAssumption, ScrapeErrorTyped, <1>2 DEF TypeOK, RunTyped, FillBad
<1>9. Faithful(map) /\ (IsMap(mapfile) => Faithful(mapfile) /\ mapfile[s] # "Finished")
  BY <1>1, <1>2, <1>3, <1>4 DEF CloneInv, FinishedMeansCopied, MapInv
<1>10. FinishedMeansCopied'
  BY <1>2, <1>5, <1>6, <1>8, <1>9 DEF FinishedMeansCopied, Faithful, IsMap
<1>11. OutputInv'
  BY <1>3, <1>6, <1>7, <1>8 DEF CloneInv, OutputInv, ZeroFill
<1>12. MapInv'
  BY <1>1, <1>2, <1>4, <1>5 DEF CloneInv, MapInv, IsMap
<1>13. ManifestInv'
  BY <1>2 DEF CloneInv, ManifestInv
<1>14. QED
  BY <1>10, <1>11, <1>12, <1>13 DEF CloneInv

\* A write cut short stores nothing but the device's own bytes, or nothing.
LEMMA WriteFailsKeeps ==
  ASSUME TypeOK, CloneInv, WriteFails PROVE CloneInv'
<1>1. PICK from \in 0 .. N, to \in 0 .. N :
        /\ Reading(from, to)
        /\ \/ \E part \in from .. to : out' = Store(from, part)
           \/ out' = out
  BY DEF WriteFails
<1>2. /\ pc' = "truncate" /\ map' = map /\ mapfile' = mapfile /\ manifest' = manifest
  BY DEF WriteFails
<1>3. pc # "off" /\ out # NoFile
  BY <1>1, ReadingTyped DEF TypeOK, RunTyped
<1>4. \A s \in Sectors : out'[s] = out[s] \/ out'[s] = Content[s]
  BY <1>1 DEF Store
<1>5. out' # NoFile
  BY <1>1, <1>3, StoreTyped, RunAssumption
<1>6. FinishedMeansCopied'
  BY <1>2, <1>3, <1>4, <1>5 DEF CloneInv, FinishedMeansCopied, Faithful, IsMap
<1>7. OutputInv'
  BY <1>3, <1>4, <1>5 DEF CloneInv, OutputInv, ZeroFill
<1>8. MapInv' /\ ManifestInv'
  BY <1>2, <1>3 DEF CloneInv, MapInv, ManifestInv, IsMap
<1>9. QED
  BY <1>6, <1>7, <1>8 DEF CloneInv

\* The .map file and the manifest say what the map in memory says.
LEMMA EndingKeeps ==
  ASSUME TypeOK, CloneInv, Ending \/ Kill PROVE CloneInv'
<1>1. out' = out /\ pc # "off"
  BY DEF Ending, TruncateMap, WriteMap, WriteMapAgain, WriteManifest, EndFails, Kill, disk
<1>2. mapfile' = mapfile \/ mapfile' = TornMap \/ mapfile' = map
  BY DEF Ending, TruncateMap, WriteMap, WriteMapAgain, WriteManifest, EndFails, Kill, disk
<1>3. pc' = "off" \/ (map' = map /\ pc' \in {"write", "truncateAgain", "writeAgain", "manifest"})
  BY DEF Ending, TruncateMap, WriteMap, WriteMapAgain, WriteManifest, EndFails, Kill, Exit
<1>4. out # NoFile /\ out \in [Sectors -> Bytes]
  BY <1>1, StoreTyped DEF TypeOK, RunTyped
<1>5. Faithful(map)
  BY <1>1 DEF CloneInv, FinishedMeansCopied
<1>6. FinishedMeansCopied'
  BY <1>1, <1>2, <1>3, <1>5 DEF CloneInv, FinishedMeansCopied, Faithful, IsMap
<1>7. OutputInv' /\ MapInv'
  BY <1>1, <1>2, <1>3, <1>4 DEF CloneInv, OutputInv, MapInv, ZeroFill, IsMap
<1>8. ManifestInv'
  <2>1. CASE manifest' = manifest
    BY <2>1 DEF CloneInv, ManifestInv
  <2>2. CASE WriteManifest
    <3>1. ASSUME With("Finished") = Sectors PROVE out = Content
      <4>1. \A s \in Sectors : out[s] = Content[s]
        BY <1>5, <3>1 DEF With, Faithful
      <4>2. QED
        BY <1>4, <4>1, DeviceAssumption
    <3>2. manifest' = [complete |-> With("Bad") = {} /\ With("Finished") = Sectors,
                       source   |-> hashed,
                       output   |-> out]
      BY <2>2 DEF WriteManifest
    <3>3. /\ manifest'.complete = (With("Bad") = {} /\ With("Finished") = Sectors)
          /\ manifest'.output = out
      BY <3>2
    <3>4. QED
      BY <3>1, <3>3 DEF ManifestInv
  <2>3. QED
    BY <2>1, <2>2
    DEF Ending, TruncateMap, WriteMap, WriteMapAgain, WriteManifest, EndFails, Kill, disk
<1>9. QED
  BY <1>6, <1>7, <1>8 DEF CloneInv

\* Under SafeOptions a new run begins with a map its output is faithful to.
LEMMA UserKeeps ==
  ASSUME TypeOK, SafeOptions, CloneInv, User PROVE CloneInv'
<1>1. PICK o \in Options : Clone(o) \/ CloneRefused(o)
  BY DEF User
<1>2. CASE CloneRefused(o)
  BY <1>2 DEF CloneRefused, CloneInv, FinishedMeansCopied, Faithful, OutputInv, MapInv,
              ManifestInv, IsMap, disk, scan, ZeroFill
<1>3. CASE Clone(o)
  <2>1. /\ pc' = "copy" /\ mapfile' = mapfile /\ manifest' = manifest
        /\ map' = IF LoadsMap(o) THEN mapfile ELSE Untried
        /\ out' = IF KeepsOutput(o) THEN out ELSE Zeros
        /\ ~Refused(o)
    BY <1>3 DEF Clone
  <2>2. o.resume \/ ~o.overwrite
    BY DEF SafeOptions
  <2>3. out = NoFile => mapfile = NoFile
    BY DEF CloneInv, OutputInv
  <2>4. \A s \in Sectors : Untried[s] # "Finished" /\ Zeros[s] = "zero"
    BY DEF Untried, Zeros
  <2>5. out' # NoFile
    BY <2>1, RunAssumption, DeviceAssumption DEF KeepsOutput, Zeros
  <2>6. CASE out = NoFile
    <3>1. /\ mapfile = NoFile /\ map' = Untried /\ out' = Zeros
      BY <2>1, <2>3, <2>6 DEF LoadsMap, KeepsOutput
    <3>2. FinishedMeansCopied' /\ OutputInv' /\ MapInv'
      BY <2>1, <2>4, <2>5, <3>1
      DEF FinishedMeansCopied, Faithful, OutputInv, MapInv, IsMap
    <3>3. ManifestInv'
      BY <2>1 DEF CloneInv, ManifestInv
    <3>4. QED
      BY <3>2, <3>3 DEF CloneInv
  <2>7. CASE out # NoFile
    <3>1. o.resume /\ out' = out
      BY <2>1, <2>2, <2>7 DEF Refused, KeepsOutput
    <3>2. mapfile # TornMap
      BY <2>1, <3>1, RunAssumption DEF Refused, LoadsMap
    <3>3. IF mapfile = NoFile THEN map' = Untried ELSE map' = mapfile
      BY <2>1, <3>1 DEF LoadsMap
    <3>4. FinishedMeansCopied'
      BY <2>1, <2>4, <3>1, <3>2, <3>3 DEF CloneInv, FinishedMeansCopied, Faithful, IsMap
    <3>5. OutputInv' /\ MapInv'
      BY <2>1, <2>7, <3>1, <3>2, <3>3 DEF CloneInv, OutputInv, MapInv, IsMap, ZeroFill
    <3>6. ManifestInv'
      BY <2>1 DEF CloneInv, ManifestInv
    <3>7. QED
      BY <3>4, <3>5, <3>6 DEF CloneInv
  <2>8. QED
    BY <2>6, <2>7
<1>4. QED
  BY <1>1, <1>2, <1>3

\* Under SafeOptions the invariant holds throughout.
LEMMA CloneInvHolds == Spec => [](SafeOptions => CloneInv)
<1>1. Init => (SafeOptions => CloneInv)
  BY DEF Init, CloneInv, FinishedMeansCopied, OutputInv, MapInv, ManifestInv, IsMap
<1>2. TypeOK /\ PassInv /\ (SafeOptions => CloneInv) /\ [Next]_vars => (SafeOptions => CloneInv)'
  <2>1. SafeOptions' <=> SafeOptions
    BY DEF SafeOptions
  <2>2. ASSUME CloneInv, UNCHANGED vars PROVE CloneInv'
    BY <2>2 DEF vars, disk, scan, CloneInv, FinishedMeansCopied, Faithful, OutputInv, MapInv,
                ManifestInv, IsMap, ZeroFill
  <2>3. PassInv => TodoInv
    BY DEF PassInv
  <2>4. QED
    BY <2>1, <2>2, <2>3, ReadsKeep, PlanningKeeps, DeferringKeeps, ScrapeErrorKeeps,
       WriteFailsKeeps, EndingKeeps, UserKeeps
    DEF Next, Passes
<1>3. QED
  BY <1>1, <1>2, TypeCorrect, PassesAreRight, PTL DEF Spec

\* At every moment the output holds the device's bytes wherever the map of the
\* run or the .map file says Finished.
THEOREM CloneIsFaithful == Spec => []FinishedIsCopied
<1>1. (SafeOptions => CloneInv) => FinishedIsCopied
  BY DEF CloneInv, FinishedIsCopied
<1>2. QED
  BY <1>1, CloneInvHolds, PTL

\* A clone that its manifest reports complete is one.
THEOREM CompleteClonesAreWhole == Spec => []CompleteIsFaithful
<1>1. (SafeOptions => CloneInv) => CompleteIsFaithful
  BY DEF CloneInv, CompleteIsFaithful, ManifestInv
<1>2. QED
  BY <1>1, CloneInvHolds, PTL

-----------------------------------------------------------------------------
(* Blocks that tile the device.                                            *)

\* The block has this byte.
Has(b, o) == b.pos <= o /\ o < End(b)

\* B is a partition of the device into blocks, each of one status of r.
Tiles(B, r) ==
  /\ B \subseteq Block
  /\ \A b \in B : /\ b.size > 0 /\ End(b) <= Size
                 /\ \A o \in 0 .. Size - 1 : Has(b, o) => r[o] = b.status
  /\ \A b, c \in B : b # c => End(b) <= c.pos \/ End(c) <= b.pos
  /\ \A o \in 0 .. Size - 1 : \E b \in B : Has(b, o)

\* No two neighbours have one status.
Merged(B) == \A b, c \in B : End(b) = c.pos => b.status # c.status

\* Blocks are numbers and a status.
LEMMA BlockTyped ==
  ASSUME NEW b \in Block
  PROVE  b.pos \in Nat /\ b.size \in Nat /\ b.status \in BlockStatuses /\ End(b) \in Nat /\ End(b) = b.pos + b.size
BY DEF Block, End

\* Two blocks of a tiling do not share a byte, and so not a position.
LEMMA TilesApart ==
  ASSUME NEW B, NEW r, Tiles(B, r), NEW b \in B, NEW c \in B, NEW o \in Nat, Has(b, o), Has(c, o)
  PROVE  b = c
BY BlockTyped DEF Tiles, Has

LEMMA TilesPositions ==
  ASSUME NEW B, NEW r, Tiles(B, r), NEW b \in B, NEW c \in B, b.pos = c.pos
  PROVE  b = c
<1>1. b \in Block /\ c \in Block /\ b.size > 0 /\ c.size > 0
  BY DEF Tiles
<1>2. Has(b, b.pos) /\ Has(c, b.pos) /\ b.pos \in Nat
  BY <1>1, BlockTyped DEF Has
<1>3. QED
  BY <1>2, TilesApart

\* A tiling has finitely many blocks.
LEMMA TilesFinite ==
  ASSUME NEW B, NEW r, Tiles(B, r)
  PROVE  IsFiniteSet(B)
<1> DEFINE place == [b \in B |-> b.pos]
<1>1. \A b \in B : b.pos \in 0 .. Size
  BY BlockTyped, MapAssumption DEF Tiles
<1>2. place \in Injection(B, 0 .. Size)
  BY <1>1, TilesPositions DEF Injection, IsInjective
<1>3. IsFiniteSet(0 .. Size)
  BY FS_Interval, MapAssumption
<1>4. QED
  BY <1>2, <1>3, FS_Injection

\* Its blocks in place follow on one another, from the start to the end of the
\* device.
LEMMA TilesInPlace ==
  ASSUME NEW B, NEW r, Tiles(B, r)
  PROVE  LET s == InPlace(B)
             n == Cardinality(B)
         IN /\ s \in Seq(B) /\ Len(s) = n /\ n \in Nat \ {0}
            /\ \A b \in B : \E k \in 1 .. n : s[k] = b
            /\ \A k, l \in 1 .. n : k < l => End(s[k]) <= s[l].pos
            /\ s[1].pos = 0 /\ End(s[n]) = Size
            /\ \A k \in 1 .. n - 1 : s[k + 1].pos = End(s[k])
<1> DEFINE s == InPlace(B)
           n == Cardinality(B)
           order == {p \in B \X B : p[1].pos < p[2].pos}
<1>1. IsFiniteSet(B) /\ n \in Nat
  BY TilesFinite, FS_CardinalityType
<1>2. B \subseteq Block /\ \A b \in B : b.pos \in Nat /\ End(b) \in Nat /\ b.pos < End(b) /\ End(b) <= Size
  BY BlockTyped DEF Tiles
<1>3. StrictOrder(order, B)
  <2>1. \A b, c \in B : <<b, c>> \in order <=> b.pos < c.pos
    OBVIOUS
  <2>2. \A b, c \in B : b # c => b.pos # c.pos
    BY TilesPositions
  <2> HIDE DEF order
  <2>3. QED
    BY <1>2, <2>1, <2>2 DEF StrictOrder
<1>4. /\ s \in Seq(B) /\ Len(s) = n
      /\ \A b \in B : \E k \in 1 .. n : s[k] = b
      /\ \A k, l \in 1 .. n : k < l => <<s[k], s[l]>> \in order
  <2>1. s = InOrder(B, order)
    BY DEF InPlace
  <2> HIDE DEF s, order
  <2>2. s \in Seq(B) /\ Len(s) = n
    BY <1>1, <1>3, <2>1, ListInOrder
  <2>3. /\ \A b \in B : \E k \in 1 .. n : InOrder(B, order)[k] = b
        /\ \A k, l \in 1 .. n : k < l => <<InOrder(B, order)[k], InOrder(B, order)[l]>> \in order
    BY <1>1, <1>3, ListAscends
  <2>4. QED
    BY <2>1, <2>2, <2>3
<1> HIDE DEF s
<1>5. \A k \in 1 .. n : s[k] \in B
  BY <1>4
<1>6. ASSUME NEW k \in 1 .. n, NEW l \in 1 .. n, k < l PROVE End(s[k]) <= s[l].pos
  <2>1. s[k].pos < s[l].pos
    BY <1>4, <1>6
  <2>2. s[k] # s[l] /\ s[k] \in B /\ s[l] \in B
    BY <1>5, <2>1, <1>2
  <2>3. End(s[k]) <= s[l].pos \/ End(s[l]) <= s[k].pos
    BY <2>2 DEF Tiles
  <2>4. QED
    BY <1>2, <2>1, <2>2, <2>3
<1>7. n # 0
  <2>1. 0 \in 0 .. Size - 1
    BY MapAssumption
  <2>2. B # {}
    BY <2>1 DEF Tiles
  <2>3. QED
    BY <1>1, <2>2, FS_EmptySet
\* The byte behind a block is the first of the next, if there is one.
<1>8. ASSUME NEW k \in 0 .. n, NEW o \in 0 .. Size - 1,
             (k = 0 /\ o = 0) \/ (k > 0 /\ o = End(s[k]))
      PROVE  k < n /\ s[k + 1].pos = o
  <2>1. PICK b \in B : Has(b, o)
    BY DEF Tiles
  <2>2. PICK l \in 1 .. n : s[l] = b
    BY <1>4
  <2>3. l > k
    <3> SUFFICES ASSUME l <= k, k > 0 PROVE FALSE
      BY <1>1
    <3>1. k \in 1 .. n /\ End(s[k]) = o
      BY <1>1, <1>8
    <3>2. CASE l = k
      BY <1>2, <1>5, <2>1, <2>2, <3>1, <3>2 DEF Has
    <3>3. CASE l < k
      <4>1. End(s[l]) <= s[k].pos
        BY <1>6, <3>1, <3>3
      <4>2. QED
        BY <1>2, <1>5, <2>1, <2>2, <3>1, <4>1 DEF Has
    <3>4. QED
      BY <1>1, <3>2, <3>3
  <2>4. k < n /\ k + 1 \in 1 .. n /\ (k + 1 = l \/ k + 1 < l)
    BY <1>1, <2>3
  <2>5. s[k + 1].pos >= o
    <3>1. CASE k = 0
      BY <1>2, <1>5, <1>8, <2>4, <3>1
    <3>2. CASE k > 0
      <4>1. k \in 1 .. n /\ k < k + 1 /\ o = End(s[k])
        BY <1>8, <3>2
      <4>2. End(s[k]) <= s[k + 1].pos
        BY <1>6, <2>4, <4>1
      <4>3. QED
        BY <1>2, <1>5, <2>4, <4>1, <4>2
    <3>3. QED
      BY <1>1, <3>1, <3>2
  <2>6. s[k + 1].pos <= o
    <3>1. CASE k + 1 = l
      BY <2>1, <2>2, <3>1 DEF Has
    <3>2. CASE k + 1 < l
      <4>1. End(s[k + 1]) <= s[l].pos
        BY <1>6, <2>4, <3>2
      <4>2. QED
        BY <1>2, <1>5, <2>1, <2>2, <2>4, <4>1 DEF Has
    <3>3. QED
      BY <2>4, <3>1, <3>2
  <2>7. QED
    BY <1>2, <1>5, <2>4, <2>5, <2>6
<1>9. s[1].pos = 0
  <2>1. 0 \in 0 .. n /\ 0 \in 0 .. Size - 1 /\ 0 + 1 = 1
    BY <1>1, MapAssumption
  <2>2. \A k \in 0 .. n, o \in 0 .. Size - 1 : k = 0 /\ o = 0 => s[k + 1].pos = o
    BY <1>8
  <2>3. QED
    BY <2>1, <2>2
<1>10. End(s[n]) = Size
  <2>1. n \in 1 .. n /\ n \in 0 .. n /\ n > 0
    BY <1>1, <1>7
  <2>2. End(s[n]) \in Nat /\ End(s[n]) <= Size
    BY <1>2, <1>5, <2>1
  <2>3. SUFFICES ASSUME End(s[n]) # Size PROVE FALSE
    OBVIOUS
  <2>4. End(s[n]) \in 0 .. Size - 1
    BY <2>2, <2>3, MapAssumption
  <2>5. n < n
    BY <1>8, <2>1, <2>4
  <2>6. QED
    BY <1>1, <2>5
<1>11. ASSUME NEW k \in 1 .. n - 1 PROVE s[k + 1].pos = End(s[k])
  <2>1. k \in 1 .. n /\ k + 1 \in 1 .. n /\ k < k + 1 /\ k \in 0 .. n /\ k > 0
    BY <1>1
  <2>2. End(s[k]) <= s[k + 1].pos
    BY <1>6, <2>1
  <2>3. End(s[k]) \in 0 .. Size - 1
    BY <1>2, <1>5, <2>1, <2>2, MapAssumption
  <2>4. QED
    BY <1>8, <2>1, <2>3
<1>12. QED
  BY <1>1, <1>4, <1>6, <1>7, <1>9, <1>10, <1>11 DEF s

-----------------------------------------------------------------------------
(* merge_adjacent.                                                         *)

\* merge_adjacent, block by block.
LEMMA MergeStep ==
  ASSUME NEW s \in Seq(Block)
  PROVE  \E m \in [0 .. Len(s) -> Seq(Block)] :
           /\ m[0] = <<>> /\ \A k \in 1 .. Len(s) : m[k] = Joined(m[k - 1], s[k])
           /\ FoldLeft(Joined, <<>>, s) = m[Len(s)]
<1> DEFINE n == Len(s)
           D == 1 .. n
           A == Seq(Block)
           next == [p \in D \X A |-> Joined(p[2], s[p[1]])]
<1>1. n \in Nat /\ DOMAIN s = D /\ \A k \in D : s[k] \in Block
  OBVIOUS
<1>2. \A q \in A : \A b \in Block : Joined(q, b) \in A
  <2> SUFFICES ASSUME NEW q \in A, NEW b \in Block PROVE Joined(q, b) \in A
    OBVIOUS
  <2>1. CASE q # <<>> /\ Last(q).status = b.status /\ End(Last(q)) = b.pos
    <3>1. Len(q) \in DOMAIN q /\ q[Len(q)] \in Block
      BY <2>1
    <3>2. [q[Len(q)] EXCEPT !.size = @ + b.size] \in Block
      <4> DEFINE a == q[Len(q)]
      <4>1. a \in Block /\ a.size \in Nat /\ b.size \in Nat
        BY <3>1 DEF Block
      <4> HIDE DEF a
      <4>2. [a EXCEPT !.size = @ + b.size] \in Block
        BY <4>1 DEF Block
      <4>3. QED
        BY <4>2 DEF a
    <3>3. [q EXCEPT ![Len(q)].size = @ + b.size] \in A
      BY <3>1, <3>2
    <3>4. QED
      BY <2>1, <3>3 DEF Joined
  <2>2. CASE ~(q # <<>> /\ Last(q).status = b.status /\ End(Last(q)) = b.pos)
    BY <2>2 DEF Joined
  <2>3. QED
    BY <2>1, <2>2
<1>3. next \in [D \X A -> A]
  BY <1>1, <1>2
<1>4. PICK f \in [SUBSET D -> A] : IsFoldAlong(f, n, <<>>, next)
  <2>1. <<>> \in A
    OBVIOUS
  <2> HIDE DEF n, A, next
  <2>2. QED
    BY <1>1, <1>3, <2>1, FoldAlongExists
<1> DEFINE Equation(g) ==
             g = [T \in SUBSET DOMAIN s |->
                    IF T = {} THEN <<>> ELSE Joined(g[T \ {Max(T)}], s[Max(T)])]
           fold == CHOOSE g : Equation(g)
<1>5. FoldLeft(Joined, <<>>, s) = fold[D]
  BY <1>1 DEF FoldLeft, MapThenFoldSet
<1>6. Equation(f)
  <2>1. \A T \in SUBSET D : T # {} => Greatest(T) = Max(T) /\ Max(T) \in T
    BY <1>1, GreatestIsOne DEF Max, Greatest
  <2>2. ASSUME NEW T \in SUBSET D, T # {} PROVE f[T] = Joined(f[T \ {Max(T)}], s[Max(T)])
    <3>1. Max(T) \in D /\ f[T \ {Max(T)}] \in A /\ f[T] = next[<<Max(T), f[T \ {Max(T)}]>>]
      BY <1>4, <2>1, <2>2 DEF IsFoldAlong
    <3> HIDE DEF A, D
    <3>2. QED
      BY <3>1
  <2>3. \A T \in SUBSET D : f[T] = IF T = {} THEN <<>> ELSE Joined(f[T \ {Max(T)}], s[Max(T)])
    BY <1>4, <2>2 DEF IsFoldAlong
  <2>4. QED
    BY <1>1, <2>3
<1>7. Equation(fold)
  BY <1>6
<1>8. fold[{}] = <<>> /\ \A k \in 1 .. n : fold[1 .. k] = Joined(fold[1 .. k - 1], s[k])
  <2>1. fold[{}] = <<>>
    BY <1>7
  <2>2. ASSUME NEW k \in 1 .. n PROVE fold[1 .. k] = Joined(fold[1 .. k - 1], s[k])
    <3>1. Max(1 .. k) = k
      BY <1>1, LastPlace DEF Max, Greatest
    <3>2. 1 .. k \in SUBSET DOMAIN s /\ 1 .. k # {} /\ (1 .. k) \ {k} = 1 .. k - 1
      BY <1>1
    <3> HIDE DEF fold
    <3>3. QED
      BY <1>7, <3>1, <3>2
  <2>3. QED
    BY <2>1, <2>2
<1> DEFINE m == [k \in 0 .. n |-> fold[1 .. k]]
<1> HIDE DEF fold, next
<1>9. m[0] = <<>> /\ \A k \in 1 .. n : m[k] = Joined(m[k - 1], s[k])
  <2>1. 0 \in 0 .. n /\ 1 .. 0 = {}
    BY <1>1
  <2>2. \A k \in 1 .. n : k \in 0 .. n /\ k - 1 \in 0 .. n
    BY <1>1
  <2>3. QED
    BY <1>8, <2>1, <2>2
<1>10. 0 .. n \subseteq {k \in 0 .. n : m[k] \in A}
  <2> DEFINE P == {k \in 0 .. n : m[k] \in A}
  <2>1. 0 \in P
    <3>1. 0 \in 0 .. n /\ <<>> \in A
      BY <1>1
    <3> HIDE DEF A, m
    <3>2. QED
      BY <1>9, <3>1
  <2>2. ASSUME NEW k \in 0 .. n - 1, k \in P PROVE k + 1 \in P
    <3>1. k + 1 \in 1 .. n /\ k + 1 - 1 = k /\ k + 1 \in 0 .. n /\ s[k + 1] \in Block
      BY <1>1
    <3> HIDE DEF m, n, A
    <3>2. m[k + 1] = Joined(m[k], s[k + 1])
      BY <1>9, <3>1
    <3>3. m[k] \in A
      BY <2>2
    <3>4. m[k + 1] \in A
      BY <1>2, <3>1, <3>2, <3>3
    <3>5. QED
      BY <3>1, <3>4
  <2>3. 0 .. n \subseteq P
    <3> HIDE DEF P, n
    <3>1. QED
      BY <1>1, <2>1, <2>2, CountingUp
  <2>4. QED
    BY <2>3
<1>11. m \in [0 .. n -> A] /\ m[n] = FoldLeft(Joined, <<>>, s)
  BY <1>1, <1>5, <1>10
<1>12. QED
  BY <1>9, <1>11

\* What merge_adjacent has done so far: blocks that follow on one another up to
\* where it is, no two neighbours of one status.
Chain(m, upto, r) ==
  /\ m \in Seq(Block) /\ upto \in Nat
  /\ m = <<>> => upto = 0
  /\ m # <<>> => End(Last(m)) = upto
  /\ \A i \in 1 .. Len(m) :
       /\ m[i].size > 0 /\ End(m[i]) <= upto
       /\ \A o \in 0 .. Size - 1 : Has(m[i], o) => r[o] = m[i].status
  /\ \A i, j \in 1 .. Len(m) :
       i < j => /\ End(m[i]) <= m[j].pos
                /\ End(m[i]) = m[j].pos => m[i].status # m[j].status
  /\ \A o \in 0 .. upto - 1 : \E i \in 1 .. Len(m) : Has(m[i], o)

\* A block more.
LEMMA ChainGrows ==
  ASSUME NEW m, NEW r, NEW b \in Block, Chain(m, b.pos, r), b.size > 0,
         \A o \in 0 .. Size - 1 : Has(b, o) => r[o] = b.status
  PROVE  Chain(Joined(m, b), End(b), r)
<1> DEFINE n == Len(m)
<1>1. /\ m \in Seq(Block) /\ n \in Nat /\ DOMAIN m = 1 .. n
      /\ \A i \in 1 .. n : /\ m[i] \in Block /\ m[i].pos \in Nat /\ m[i].size \in Nat
                           /\ End(m[i]) \in Nat /\ End(m[i]) = m[i].pos + m[i].size
      /\ b.pos \in Nat /\ b.size \in Nat /\ End(b) \in Nat /\ End(b) = b.pos + b.size
  BY BlockTyped DEF Chain
<1>a. /\ \A i \in 1 .. n :
           /\ m[i].size > 0 /\ End(m[i]) <= b.pos
           /\ \A o \in 0 .. Size - 1 : Has(m[i], o) => r[o] = m[i].status
      /\ \A i, j \in 1 .. n :
           i < j => /\ End(m[i]) <= m[j].pos
                    /\ End(m[i]) = m[j].pos => m[i].status # m[j].status
      /\ \A o \in 0 .. b.pos - 1 : \E i \in 1 .. n : Has(m[i], o)
  BY DEF Chain
<1>b. (m # <<>> <=> n > 0) /\ n = Len(m) /\ Last(m) = m[n]
  BY <1>1 DEF Last
<1>c. b.pos \in Nat /\ b.size \in Nat /\ End(b) \in Nat /\ End(b) = b.pos + b.size
  BY BlockTyped
<1> HIDE DEF n
<1>2. CASE m # <<>> /\ Last(m).status = b.status /\ End(Last(m)) = b.pos
  <2> DEFINE a == m[n]
             c == [a EXCEPT !.size = @ + b.size]
             q == [m EXCEPT ![n] = c]
  <2>1. n \in 1 .. n /\ Last(m) = a /\ a \in Block
    BY <1>1, <1>2, <1>b
  <2>2. Joined(m, b) = q
    BY <1>2, <1>b DEF Joined
  <2>3. /\ c \in Block /\ c.pos = a.pos /\ c.status = a.status /\ End(c) = End(b) /\ c.size > 0
    <3> HIDE DEF a
    <3>1. a.pos \in Nat /\ a.size \in Nat /\ a.status \in BlockStatuses /\ a.pos + a.size = b.pos
      BY <1>2, <2>1, BlockTyped
    <3>2. /\ c = [pos |-> a.pos, size |-> a.size + b.size, status |-> a.status]
      BY <2>1 DEF Block
    <3>3. QED
      BY <1>1, <3>1, <3>2, <1>a DEF Block, End
  <2>4. /\ q \in Seq(Block) /\ Len(q) = n /\ q # <<>> /\ Last(q) = c
        /\ q[n] = c /\ \A i \in 1 .. n - 1 : q[i] = m[i]
    <3> HIDE DEF a, c
    <3>1. q \in [1 .. n -> Block]
      BY <1>1, <2>1, <2>3
    <3>2. q[n] = c /\ \A i \in 1 .. n - 1 : q[i] = m[i]
      BY <1>1, <2>1
    <3> HIDE DEF q, n
    <3>3. q \in Seq(Block) /\ Len(q) = n
      BY <1>1, <3>1
    <3>4. n > 0
      BY <1>1, <2>1
    <3>5. q # <<>> /\ Last(q) = c
      BY <3>2, <3>3, <3>4 DEF Last
    <3>6. QED
      BY <3>2, <3>3, <3>5 DEF n
  <2> HIDE DEF c, q
  <2>5. ASSUME NEW i \in 1 .. n - 1 PROVE End(m[i]) <= a.pos
    <3>1. i \in 1 .. n /\ i < n /\ n \in 1 .. n
      BY <1>1, <2>1
    <3>2. QED
      BY <1>a, <3>1
  <2>6. a.pos < b.pos /\ End(a) = b.pos /\ a.status = b.status /\ a.pos \in Nat
    BY <1>1, <1>2, <2>1, <1>a
  <2>7. \A o \in Nat : Has(c, o) <=> Has(a, o) \/ Has(b, o)
    BY <1>1, <2>3, <2>6, <1>a DEF Has
  <2>8. \A i \in 1 .. n : /\ q[i].size > 0 /\ End(q[i]) <= End(b)
                          /\ \A o \in 0 .. Size - 1 : Has(q[i], o) => r[o] = q[i].status
    <3> SUFFICES ASSUME NEW i \in 1 .. n
                 PROVE  /\ q[i].size > 0 /\ End(q[i]) <= End(b)
                        /\ \A o \in 0 .. Size - 1 : Has(q[i], o) => r[o] = q[i].status
      OBVIOUS
    <3>1. CASE i = n
      <4>1. \A o \in 0 .. Size - 1 : Has(c, o) => r[o] = c.status
        BY <2>1, <2>3, <2>6, <2>7, <1>a
      <4>2. QED
        BY <1>1, <2>3, <2>4, <3>1, <4>1
    <3>2. CASE i < n
      <4>1. q[i] = m[i] /\ End(m[i]) <= b.pos
        BY <1>1, <2>4, <3>2, <1>a
      <4>2. QED
        BY <1>1, <4>1, <1>a
    <3>3. QED
      BY <1>1, <3>1, <3>2
  <2>9. \A i, j \in 1 .. n : i < j => /\ End(q[i]) <= q[j].pos
                                      /\ End(q[i]) = q[j].pos => q[i].status # q[j].status
    <3> SUFFICES ASSUME NEW i \in 1 .. n, NEW j \in 1 .. n, i < j
                 PROVE  /\ End(q[i]) <= q[j].pos
                        /\ End(q[i]) = q[j].pos => q[i].status # q[j].status
      OBVIOUS
    <3>1. /\ End(m[i]) <= m[j].pos
          /\ End(m[i]) = m[j].pos => m[i].status # m[j].status
          /\ q[i] = m[i]
      BY <1>1, <2>4, <1>a
    <3>2. q[j].pos = m[j].pos /\ q[j].status = m[j].status
      <4>1. CASE j = n
        BY <2>3, <2>4, <4>1
      <4>2. CASE j < n
        BY <1>1, <2>4, <4>2
      <4>3. QED
        BY <1>1, <4>1, <4>2
    <3> HIDE DEF q
    <3>3. End(q[i]) = End(m[i]) /\ q[i].status = m[i].status
      BY <3>1
    <3>4. End(q[i]) <= q[j].pos
      BY <3>1, <3>2, <3>3
    <3>5. ASSUME End(q[i]) = q[j].pos PROVE q[i].status # q[j].status
      <4>1. End(m[i]) = m[j].pos
        BY <3>2, <3>3, <3>5
      <4>2. m[i].status # m[j].status
        BY <3>1, <4>1
      <4>3. QED
        BY <3>2, <3>3, <4>2
    <3>6. QED
      BY <3>4, <3>5
  <2>10. \A o \in 0 .. End(b) - 1 : \E i \in 1 .. n : Has(q[i], o)
    <3> SUFFICES ASSUME NEW o \in 0 .. End(b) - 1 PROVE \E i \in 1 .. n : Has(q[i], o)
      OBVIOUS
    <3>1. CASE o < b.pos
      <4>0. o \in 0 .. b.pos - 1
        BY <1>c, <3>1
      <4>1. PICK i \in 1 .. n : Has(m[i], o)
        BY <4>0, <1>a
      <4>2. CASE i = n
        BY <2>1, <2>4, <2>7, <4>1, <4>2
      <4>3. CASE i < n
        <5>1. q[i] = m[i]
          BY <1>1, <2>4, <4>3
        <5>2. QED
          BY <4>1, <5>1
      <4>4. QED
        BY <1>1, <4>2, <4>3
    <3>2. CASE ~(o < b.pos)
      <4>1. Has(b, o)
        BY <1>c, <3>2 DEF Has
      <4>2. Has(q[n], o)
        BY <2>4, <2>7, <4>1
      <4>3. QED
        BY <2>1, <4>2
    <3>3. QED
      BY <3>1, <3>2
  <2>11. End(Last(q)) = End(b)
    BY <2>3, <2>4
  <2>12. Chain(q, End(b), r)
    BY <1>1, <2>4, <2>8, <2>9, <2>10, <2>11 DEF Chain
  <2>13. QED
    BY <2>2, <2>12
<1>3. CASE ~(m # <<>> /\ Last(m).status = b.status /\ End(Last(m)) = b.pos)
  <2> DEFINE q == Append(m, b)
  <2>1. Joined(m, b) = q
    BY <1>3 DEF Joined
  <2>2. /\ q \in Seq(Block) /\ Len(q) = n + 1 /\ q # <<>> /\ Last(q) = b /\ q[n + 1] = b
        /\ \A i \in 1 .. n : q[i] = m[i]
    <3>1. /\ q \in Seq(Block) /\ Len(q) = n + 1 /\ q[n + 1] = b
          /\ \A i \in 1 .. n : q[i] = m[i]
      BY <1>1, <1>b
    <3> HIDE DEF q
    <3>2. q # <<>> /\ Last(q) = b
      BY <1>1, <3>1 DEF Last
    <3>3. QED
      BY <3>1, <3>2
  <2> HIDE DEF q
  <2>3. \A i \in 1 .. n : /\ End(m[i]) <= b.pos
                          /\ End(m[i]) = b.pos => i = n
    <3> SUFFICES ASSUME NEW i \in 1 .. n
                 PROVE  End(m[i]) <= b.pos /\ (End(m[i]) = b.pos => i = n)
      OBVIOUS
    <3>1. End(m[i]) <= b.pos
      BY <1>a
    <3>2. ASSUME i < n PROVE End(m[i]) < b.pos
      <4>1. n \in 1 .. n /\ End(m[i]) <= m[n].pos /\ m[n].size > 0 /\ End(m[n]) <= b.pos
        BY <1>1, <3>2, <1>a
      <4>2. QED
        BY <1>1, <4>1
    <3>3. QED
      BY <1>1, <3>1, <3>2
  <2>4. \A i \in 1 .. n : End(m[i]) = b.pos => m[i].status # b.status
    <3> SUFFICES ASSUME NEW i \in 1 .. n, End(m[i]) = b.pos PROVE m[i].status # b.status
      OBVIOUS
    <3>1. i = n
      BY <2>3
    <3>2. m # <<>> /\ Last(m) = m[i]
      BY <1>1, <3>1, <1>b
    <3>3. QED
      BY <1>3, <3>2
  <2>5. \A i \in 1 .. n + 1 : /\ q[i].size > 0 /\ End(q[i]) <= End(b)
                              /\ \A o \in 0 .. Size - 1 : Has(q[i], o) => r[o] = q[i].status
    <3> SUFFICES ASSUME NEW i \in 1 .. n + 1
                 PROVE  /\ q[i].size > 0 /\ End(q[i]) <= End(b)
                        /\ \A o \in 0 .. Size - 1 : Has(q[i], o) => r[o] = q[i].status
      OBVIOUS
    <3>1. CASE i = n + 1
      BY <1>1, <2>2, <3>1
    <3>2. CASE i \in 1 .. n
      <4>1. q[i] = m[i] /\ End(m[i]) <= b.pos
        BY <2>2, <2>3, <3>2
      <4>2. QED
        BY <1>1, <3>2, <4>1, <1>a
    <3>3. QED
      BY <1>1, <3>1, <3>2
  <2>6. \A i, j \in 1 .. n + 1 :
          i < j => /\ End(q[i]) <= q[j].pos
                   /\ End(q[i]) = q[j].pos => q[i].status # q[j].status
    <3> SUFFICES ASSUME NEW i \in 1 .. n + 1, NEW j \in 1 .. n + 1, i < j
                 PROVE  /\ End(q[i]) <= q[j].pos
                        /\ End(q[i]) = q[j].pos => q[i].status # q[j].status
      OBVIOUS
    <3>1. i \in 1 .. n /\ q[i] = m[i]
      BY <1>1, <2>2
    <3>2. CASE j = n + 1
      BY <2>2, <2>3, <2>4, <3>1, <3>2
    <3>3. CASE j \in 1 .. n
      BY <2>2, <3>1, <3>3, <1>a
    <3>4. QED
      BY <1>1, <3>2, <3>3
  <2>7. \A o \in 0 .. End(b) - 1 : \E i \in 1 .. n + 1 : Has(q[i], o)
    <3> SUFFICES ASSUME NEW o \in 0 .. End(b) - 1 PROVE \E i \in 1 .. n + 1 : Has(q[i], o)
      OBVIOUS
    <3>1. CASE o < b.pos
      <4>0. o \in 0 .. b.pos - 1
        BY <1>c, <3>1
      <4>1. PICK i \in 1 .. n : Has(m[i], o)
        BY <4>0, <1>a
      <4>2. i \in 1 .. n + 1 /\ q[i] = m[i]
        BY <1>1, <2>2
      <4>3. QED
        BY <4>1, <4>2
    <3>2. CASE ~(o < b.pos)
      <4>1. Has(b, o) /\ n + 1 \in 1 .. n + 1
        BY <1>1, <1>c, <3>2 DEF Has
      <4>2. QED
        BY <2>2, <4>1
    <3>3. QED
      BY <3>1, <3>2
  <2>8. Chain(q, End(b), r)
    BY <1>1, <2>2, <2>5, <2>6, <2>7 DEF Chain
  <2>9. QED
    BY <2>1, <2>8
<1>4. QED
  BY <1>2, <1>3

\* A chain that is up to the end of the device tiles it.
LEMMA ChainTiles ==
  ASSUME NEW q, NEW r, Chain(q, Size, r)
  PROVE  Tiles(ToSet(q), r) /\ Merged(ToSet(q))
<1> DEFINE n == Len(q)
           B == ToSet(q)
<1>1. /\ q \in Seq(Block) /\ n \in Nat
      /\ B = {q[i] : i \in 1 .. n}
      /\ \A i \in 1 .. n : /\ q[i] \in Block /\ q[i].pos \in Nat /\ End(q[i]) \in Nat
                           /\ End(q[i]) = q[i].pos + q[i].size /\ q[i].size \in Nat
  BY BlockTyped DEF Chain, ToSet
<1>2. /\ \A i \in 1 .. n :
           /\ q[i].size > 0 /\ End(q[i]) <= Size
           /\ \A o \in 0 .. Size - 1 : Has(q[i], o) => r[o] = q[i].status
      /\ \A i, j \in 1 .. n :
           i < j => /\ End(q[i]) <= q[j].pos
                    /\ End(q[i]) = q[j].pos => q[i].status # q[j].status
      /\ \A o \in 0 .. Size - 1 : \E i \in 1 .. n : Has(q[i], o)
  BY DEF Chain
<1> HIDE DEF n, B
<1>3. B \subseteq Block
  BY <1>1
<1>4. \A b \in B : /\ b.size > 0 /\ End(b) <= Size
                   /\ \A o \in 0 .. Size - 1 : Has(b, o) => r[o] = b.status
  BY <1>1, <1>2
<1>5. \A b, c \in B : b # c => End(b) <= c.pos \/ End(c) <= b.pos
  <2> SUFFICES ASSUME NEW i \in 1 .. n, NEW j \in 1 .. n, q[i] # q[j]
               PROVE  End(q[i]) <= q[j].pos \/ End(q[j]) <= q[i].pos
    BY <1>1
  <2>1. i < j \/ j < i
    OBVIOUS
  <2>2. QED
    BY <1>2, <2>1
<1>6. \A o \in 0 .. Size - 1 : \E b \in B : Has(b, o)
  BY <1>1, <1>2
<1>7. Merged(B)
  <2>1. ASSUME NEW i \in 1 .. n, NEW j \in 1 .. n, End(q[i]) = q[j].pos
        PROVE  q[i].status # q[j].status
    <3>1. q[i].pos < End(q[i]) /\ q[j].pos < End(q[j])
      <4>1. ASSUME NEW k \in 1 .. n PROVE q[k].pos < End(q[k])
        <5>1. q[k].pos \in Nat /\ q[k].size \in Nat /\ End(q[k]) = q[k].pos + q[k].size
          BY <1>1
        <5>2. q[k].size > 0
          BY <1>2
        <5> DEFINE first == q[k].pos
                   extent == q[k].size
                   after == End(q[k])
        <5>3. first \in Nat /\ extent \in Nat /\ extent > 0 /\ after = first + extent
          BY <5>1, <5>2
        <5> HIDE DEF first, extent, after
        <5>4. first < after
          BY <5>3
        <5>5. QED
          BY <5>4 DEF first, after
      <4>2. QED
        BY <4>1
    <3>2. i # j
      BY <1>1, <2>1, <3>1
    <3>3. ~(j < i)
      <4>1. SUFFICES ASSUME j < i PROVE FALSE
        OBVIOUS
      <4>2. End(q[j]) <= q[i].pos
        BY <1>2, <4>1
      <4>3. QED
        BY <1>1, <2>1, <3>1, <4>2
    <3>4. i < j
      BY <3>2, <3>3
    <3>5. QED
      BY <1>2, <2>1, <3>4
  <2>2. \A b \in B : \E i \in 1 .. n : b = q[i]
    BY <1>1
  <2>3. QED
    BY <2>1, <2>2 DEF Merged
<1>8. QED
  BY <1>3, <1>4, <1>5, <1>6, <1>7 DEF Tiles, B

\* merge_adjacent keeps a tiling one, and leaves no two neighbours of one
\* status.
LEMMA MergeTiles ==
  ASSUME NEW B, NEW r, Tiles(B, r)
  PROVE  Tiles(Merge(B), r) /\ Merged(Merge(B))
<1> DEFINE s == InPlace(B)
           n == Cardinality(B)
<1>1. /\ s \in Seq(B) /\ Len(s) = n /\ n \in Nat \ {0}
      /\ s[1].pos = 0 /\ End(s[n]) = Size
      /\ \A k \in 1 .. n - 1 : s[k + 1].pos = End(s[k])
  BY TilesInPlace
<1>2. Merge(B) = ToSet(FoldLeft(Joined, <<>>, s))
  BY DEF Merge
<1> HIDE DEF s, n
<1>3. s \in Seq(Block) /\ \A k \in 1 .. n : s[k] \in Block /\ s[k] \in B
  BY <1>1 DEF Tiles
<1>4. PICK m \in [0 .. n -> Seq(Block)] :
        /\ m[0] = <<>> /\ \A k \in 1 .. n : m[k] = Joined(m[k - 1], s[k])
        /\ FoldLeft(Joined, <<>>, s) = m[n]
  BY <1>1, <1>3, MergeStep
<1> DEFINE upto(k) == IF k = 0 THEN 0 ELSE End(s[k])
           P == {k \in 0 .. n : Chain(m[k], upto(k), r)}
<1>5. 0 \in P
  <2>1. Chain(<<>>, 0, r)
    BY DEF Chain
  <2>2. 0 \in 0 .. n
    BY <1>1
  <2>3. QED
    BY <1>4, <2>1, <2>2
<1>6. ASSUME NEW k \in 0 .. n - 1, k \in P PROVE k + 1 \in P
  <2>1. k + 1 \in 1 .. n /\ k + 1 - 1 = k /\ k + 1 \in 0 .. n
    BY <1>1
  <2>2. s[k + 1].pos = upto(k)
    BY <1>1
  <2>3. m[k + 1] = Joined(m[k], s[k + 1])
    BY <1>4, <2>1
  <2>4. /\ s[k + 1] \in Block /\ s[k + 1].size > 0
        /\ \A o \in 0 .. Size - 1 : Has(s[k + 1], o) => r[o] = s[k + 1].status
    BY <1>3, <2>1 DEF Tiles
  <2>5. Chain(m[k], s[k + 1].pos, r)
    BY <1>6, <2>2
  <2>6. Chain(m[k + 1], End(s[k + 1]), r)
    BY <2>3, <2>4, <2>5, ChainGrows
  <2>7. upto(k + 1) = End(s[k + 1])
    BY <2>1
  <2>8. QED
    BY <2>1, <2>6, <2>7
<1>7. n \in P
  <2>1. 0 .. n \subseteq P
    <3> HIDE DEF P
    <3>1. QED
      BY <1>1, <1>5, <1>6, CountingUp
  <2>2. QED
    BY <1>1, <2>1
<1>8. Chain(m[n], Size, r)
  BY <1>1, <1>7
<1>9. QED
  BY <1>2, <1>4, <1>8, ChainTiles

-----------------------------------------------------------------------------
(* mark.                                                                   *)

Straddles(b, cut) == b.pos < cut /\ cut < End(b)

\* A block cut in two.
LEMMA CutTiles ==
  ASSUME NEW B, NEW r, Tiles(B, r), NEW b \in B, NEW cut \in Nat, Straddles(b, cut),
         NEW head \in Block, head.pos = b.pos, End(head) = cut, head.status = b.status,
         NEW tail \in Block, tail.pos = cut, End(tail) = End(b), tail.status = b.status
  PROVE  Tiles((B \ {b}) \cup {head, tail}, r)
<1> DEFINE C == (B \ {b}) \cup {head, tail}
<1>1. \A c \in B : /\ c \in Block /\ c.pos \in Nat /\ c.size \in Nat /\ End(c) \in Nat
                   /\ End(c) = c.pos + c.size /\ c.size > 0 /\ End(c) <= Size
  BY BlockTyped DEF Tiles
<1>2. /\ head.size \in Nat /\ End(head) = head.pos + head.size
      /\ tail.size \in Nat /\ End(tail) = tail.pos + tail.size
      /\ head.size > 0 /\ tail.size > 0
  BY <1>1, BlockTyped DEF Straddles
<1>3. \A o \in Nat : Has(b, o) <=> Has(head, o) \/ Has(tail, o)
  BY <1>1, <1>2 DEF Has, Straddles
<1>4. \A c \in B \ {b} : End(c) <= b.pos \/ End(b) <= c.pos
  BY DEF Tiles
<1>5. \A o \in 0 .. Size - 1 : \A c \in B : Has(c, o) => r[o] = c.status
  BY DEF Tiles
<1>6. \A o \in 0 .. Size - 1 : \E c \in B : Has(c, o)
  BY DEF Tiles
<1>7. C \subseteq Block
  BY <1>1
<1>8. \A c \in C : /\ c.size > 0 /\ End(c) <= Size
                   /\ \A o \in 0 .. Size - 1 : Has(c, o) => r[o] = c.status
  <2> SUFFICES ASSUME NEW c \in C
               PROVE  /\ c.size > 0 /\ End(c) <= Size
                      /\ \A o \in 0 .. Size - 1 : Has(c, o) => r[o] = c.status
    OBVIOUS
  <2>1. CASE c \in B
    BY <1>1, <1>5, <2>1
  <2>2. CASE c = head
    <3>1. c.size > 0 /\ End(c) <= Size
      <4>1. End(b) \in Nat /\ End(b) <= Size /\ cut < End(b) /\ End(c) = cut
        BY <1>1, <2>2 DEF Straddles
      <4>2. End(c) <= Size
        BY <4>1, MapAssumption
      <4>3. QED
        BY <1>2, <2>2, <4>2
    <3>2. \A o \in 0 .. Size - 1 : Has(c, o) => r[o] = c.status
      BY <1>3, <1>5, <2>2
    <3>3. QED
      BY <3>1, <3>2
  <2>3. CASE c = tail
    <3>1. c.size > 0 /\ End(c) <= Size
      BY <1>1, <1>2, <2>3
    <3>2. \A o \in 0 .. Size - 1 : Has(c, o) => r[o] = c.status
      BY <1>3, <1>5, <2>3
    <3>3. QED
      BY <3>1, <3>2
  <2>4. QED
    BY <2>1, <2>2, <2>3
<1>9. \A c, d \in C : c # d => End(c) <= d.pos \/ End(d) <= c.pos
  <2>1. \A c, d \in B : c # d => End(c) <= d.pos \/ End(d) <= c.pos
    BY DEF Tiles
  <2>2. \A c \in B \ {b} : /\ End(c) <= head.pos \/ End(head) <= c.pos
                           /\ End(c) <= tail.pos \/ End(tail) <= c.pos
    BY <1>1, <1>2, <1>4 DEF Straddles
  <2>3. End(head) <= tail.pos
    BY <1>1
  <2> SUFFICES ASSUME NEW c \in C, NEW d \in C, c # d PROVE End(c) <= d.pos \/ End(d) <= c.pos
    OBVIOUS
  <2>4. (c \in B \ {b} \/ c = head \/ c = tail) /\ (d \in B \ {b} \/ d = head \/ d = tail)
    OBVIOUS
  <2> HIDE DEF C
  <2>5. CASE c \in B \ {b}
    BY <2>1, <2>2, <2>4, <2>5
  <2>6. CASE d \in B \ {b}
    BY <2>1, <2>2, <2>4, <2>6
  <2>7. CASE c \in {head, tail} /\ d \in {head, tail}
    BY <2>3, <2>7
  <2>8. QED
    BY <2>4, <2>5, <2>6, <2>7
<1>10. \A o \in 0 .. Size - 1 : \E c \in C : Has(c, o)
  <2> SUFFICES ASSUME NEW o \in 0 .. Size - 1 PROVE \E c \in C : Has(c, o)
    OBVIOUS
  <2>1. PICK c \in B : Has(c, o)
    BY <1>6
  <2>2. QED
    BY <1>3, <2>1
<1>11. QED
  BY <1>7, <1>8, <1>9, <1>10 DEF Tiles

\* Splitting leaves a tiling, with no block on both sides of the cut, and cuts
\* nothing else.
LEMMA SplitTiles ==
  ASSUME NEW B, NEW r, Tiles(B, r), NEW cut \in Nat
  PROVE  /\ Tiles(Split(B, cut), r)
         /\ \A c \in Split(B, cut) : ~Straddles(c, cut)
         /\ \A c \in Split(B, cut) : \E b \in B : b.pos <= c.pos /\ End(c) <= End(b)
<1> DEFINE straddling == {b \in Before(B, cut) : End(b) > cut}
<1>1. \A c \in B : /\ c \in Block /\ c.pos \in Nat /\ c.size \in Nat /\ End(c) \in Nat
                   /\ End(c) = c.pos + c.size /\ c.size > 0 /\ End(c) <= Size
  BY BlockTyped DEF Tiles
<1>2. \A b \in B : Straddles(b, cut) => b \in straddling
  <2> SUFFICES ASSUME NEW b \in B, Straddles(b, cut), NEW c \in B, c.pos < cut, ~(c.pos <= b.pos)
               PROVE  FALSE
    BY <1>1 DEF Before, Straddles
  <2>1. End(b) <= c.pos \/ End(c) <= b.pos
    BY <1>1 DEF Tiles
  <2>2. QED
    BY <1>1, <2>1 DEF Straddles
<1>3. CASE straddling = {}
  <2>1. Split(B, cut) = B
    BY <1>3 DEF Split
  <2>2. \A c \in B : ~Straddles(c, cut)
    BY <1>2, <1>3
  <2>3. \A c \in B : c.pos <= c.pos /\ End(c) <= End(c)
    BY <1>1
  <2>4. QED
    BY <2>1, <2>2, <2>3
<1>4. CASE straddling # {}
  <2> DEFINE b == CHOOSE b \in straddling : TRUE
             head == [b EXCEPT !.size = cut - b.pos]
             tail == [pos |-> cut, size |-> End(b) - cut, status |-> b.status]
             C == (B \ {b}) \cup {head, tail}
  <2>1. b \in B /\ Straddles(b, cut)
    <3>1. b \in straddling
      BY <1>4
    <3> HIDE DEF b
    <3>2. QED
      BY <1>1, <3>1 DEF Before, Straddles
  <2>2. Split(B, cut) = Insert(Insert(B, head), tail)
    BY <1>4 DEF Split
  <2> HIDE DEF b
  <2>3. /\ head \in Block /\ head.pos = b.pos /\ End(head) = cut /\ head.status = b.status
        /\ tail \in Block /\ tail.pos = cut /\ End(tail) = End(b) /\ tail.status = b.status
    <3>1. /\ b \in Block /\ b.pos \in Nat /\ End(b) \in Nat /\ b.status \in BlockStatuses
          /\ b.pos < cut /\ cut < End(b)
      BY <1>1, <2>1, BlockTyped DEF Straddles
    <3>2. /\ head = [pos |-> b.pos, size |-> cut - b.pos, status |-> b.status]
          /\ tail = [pos |-> cut, size |-> End(b) - cut, status |-> b.status]
      BY <3>1 DEF Block, head, tail
    <3> HIDE DEF head, tail
    <3>3. cut - b.pos \in Nat /\ End(b) - cut \in Nat
      BY <3>1
    <3>4. head \in Block /\ tail \in Block
      BY <3>1, <3>2, <3>3 DEF Block
    <3>5. End(head) = cut /\ End(tail) = End(b)
      <4>1. End(head) = b.pos + (cut - b.pos) /\ End(tail) = cut + (End(b) - cut)
        BY <3>2 DEF End
      <4>2. QED
        BY <3>1, <4>1
    <3>6. QED
      BY <3>2, <3>4, <3>5
  <2> HIDE DEF head, tail
  <2>4. Split(B, cut) = C
    <3>1. \A c \in B : c.pos = b.pos <=> c = b
      BY <2>1, TilesPositions
    <3>2. \A c \in B : c.pos # cut
      <4> SUFFICES ASSUME NEW c \in B, c.pos = cut PROVE FALSE
        OBVIOUS
      <4>1. Has(c, cut) /\ Has(b, cut)
        BY <1>1, <2>1 DEF Has, Straddles
      <4>2. c = b
        BY <2>1, <4>1, TilesApart
      <4>3. QED
        BY <1>1, <2>1, <4>2 DEF Straddles
    <3>3. head.pos # cut
      BY <1>1, <2>1, <2>3 DEF Straddles
    <3>4. Insert(B, head) = (B \ {b}) \cup {head}
      BY <2>3, <3>1 DEF Insert
    <3>5. Insert(Insert(B, head), tail) = C
      BY <2>3, <3>2, <3>3, <3>4 DEF Insert
    <3>6. QED
      BY <2>2, <3>5
  <2>5. Tiles(C, r)
    BY <2>1, <2>3, CutTiles
  <2>6. \A c \in C : ~Straddles(c, cut)
    <3>1. \A c \in B : Straddles(c, cut) => c = b
      <4> SUFFICES ASSUME NEW c \in B, Straddles(c, cut) PROVE c = b
        OBVIOUS
      <4>1. Has(c, cut) /\ Has(b, cut)
        BY <1>1, <2>1 DEF Has, Straddles
      <4>2. QED
        BY <2>1, <4>1, TilesApart
    <3>2. ~Straddles(head, cut) /\ ~Straddles(tail, cut)
      BY <2>3 DEF Straddles
    <3>3. QED
      BY <3>1, <3>2
  <2>7. \A c \in C : \E a \in B : a.pos <= c.pos /\ End(c) <= End(a)
    <3>1. \A c \in B : c.pos <= c.pos /\ End(c) <= End(c)
      BY <1>1
    <3>2. b.pos <= head.pos /\ End(head) <= End(b) /\ b.pos <= tail.pos /\ End(tail) <= End(b)
      BY <1>1, <2>1, <2>3 DEF Straddles
    <3>3. QED
      BY <2>1, <3>1, <3>2
  <2>8. QED
    BY <2>4, <2>5, <2>6, <2>7
<1>5. QED
  BY <1>3, <1>4

\* The range is one block of the new status, and the rest is as it was.
LEMMA ReplaceTiles ==
  ASSUME NEW B, NEW r, Tiles(B, r), NEW start \in Nat, NEW stop \in Nat, start < stop, stop <= Size,
         NEW status \in BlockStatuses, NEW new,
         \A o \in 0 .. Size - 1 : new[o] = IF start <= o /\ o < stop THEN status ELSE r[o]
  PROVE  Tiles(Replace(B, start, stop, status), new)
<1> DEFINE A == Split(B, start)
           C == Split(A, stop)
           K == {b \in C : ~(start <= b.pos /\ b.pos < stop)}
           a == [pos |-> start, size |-> stop - start, status |-> status]
<1>1. Tiles(A, r) /\ (\A c \in A : ~Straddles(c, start))
  BY SplitTiles
<1> HIDE DEF A
<1>2. /\ Tiles(C, r) /\ (\A c \in C : ~Straddles(c, stop))
      /\ \A c \in C : \E b \in A : b.pos <= c.pos /\ End(c) <= End(b)
  BY <1>1, SplitTiles
<1> HIDE DEF C
<1>3. \A c \in A \cup C : /\ c \in Block /\ c.pos \in Nat /\ c.size \in Nat /\ End(c) \in Nat
                          /\ End(c) = c.pos + c.size /\ c.size > 0 /\ End(c) <= Size
  BY <1>1, <1>2, BlockTyped DEF Tiles
<1>4. \A c \in C : ~Straddles(c, start)
  <2> SUFFICES ASSUME NEW c \in C, Straddles(c, start) PROVE FALSE
    OBVIOUS
  <2>2. PICK b \in A : b.pos <= c.pos /\ End(c) <= End(b)
    BY <1>2
  <2>3. Straddles(b, start)
    BY <1>3, <2>2 DEF Straddles
  <2>4. QED
    BY <1>1, <2>3
<1>5. Replace(B, start, stop, status) = K \cup {a}
  BY DEF Replace, A, C
<1>6. a \in Block /\ a.pos = start /\ End(a) = stop /\ a.status = status /\ a.size > 0
  <2>1. stop - start \in Nat /\ stop - start > 0 /\ start + (stop - start) = stop
    OBVIOUS
  <2>2. QED
    BY <2>1 DEF Block, End
<1> HIDE DEF a
<1>7. \A c \in K : c \in C /\ (End(c) <= start \/ stop <= c.pos)
  <2> SUFFICES ASSUME NEW c \in K PROVE End(c) <= start \/ stop <= c.pos
    OBVIOUS
  <2>1. c \in C /\ (c.pos < start \/ stop <= c.pos)
    BY <1>3
  <2>2. ~Straddles(c, start)
    BY <1>4
  <2>3. QED
    BY <1>3, <2>1, <2>2 DEF Straddles
<1>8. \A c \in C \ K : start <= c.pos /\ c.pos < stop
  OBVIOUS
<1>9. \A c \in K : \A o \in Nat : Has(c, o) => ~(start <= o /\ o < stop)
  BY <1>3, <1>7 DEF Has
<1>10. \A o \in Nat : Has(a, o) <=> start <= o /\ o < stop
  BY <1>6 DEF Has
<1>11. K \cup {a} \subseteq Block
  BY <1>3, <1>6
<1>12. \A c \in K \cup {a} : /\ c.size > 0 /\ End(c) <= Size
                             /\ \A o \in 0 .. Size - 1 : Has(c, o) => new[o] = c.status
  <2> SUFFICES ASSUME NEW c \in K \cup {a}
               PROVE  /\ c.size > 0 /\ End(c) <= Size
                      /\ \A o \in 0 .. Size - 1 : Has(c, o) => new[o] = c.status
    OBVIOUS
  <2>1. CASE c \in K
    <3>1. \A o \in 0 .. Size - 1 : Has(c, o) => r[o] = c.status
      BY <1>2, <1>7, <2>1 DEF Tiles
    <3>2. \A o \in 0 .. Size - 1 : Has(c, o) => new[o] = c.status
      BY <1>9, <2>1, <3>1
    <3>3. QED
      BY <1>3, <1>7, <2>1, <3>2
  <2>2. CASE c = a
    BY <1>6, <1>10, <2>2
  <2>3. QED
    BY <2>1, <2>2
<1>13. \A c, d \in K \cup {a} : c # d => End(c) <= d.pos \/ End(d) <= c.pos
  <2>1. \A c, d \in C : c # d => End(c) <= d.pos \/ End(d) <= c.pos
    BY <1>2 DEF Tiles
  <2>2. QED
    BY <1>6, <1>7, <2>1
<1>14. \A o \in 0 .. Size - 1 : \E c \in K \cup {a} : Has(c, o)
  <2> SUFFICES ASSUME NEW o \in 0 .. Size - 1, ~Has(a, o) PROVE \E c \in K : Has(c, o)
    OBVIOUS
  <2>1. PICK c \in C : Has(c, o)
    BY <1>2 DEF Tiles
  <2>2. o < start \/ stop <= o
    BY <1>10
  <2>3. c \in K
    <3>1. SUFFICES ASSUME start <= c.pos, c.pos < stop PROVE FALSE
      BY <2>1
    <3>2. ~Straddles(c, stop)
      BY <1>2
    <3>3. QED
      BY <1>3, <2>1, <2>2, <3>1, <3>2 DEF Straddles, Has
  <2>4. QED
    BY <2>1, <2>3
<1>15. QED
  BY <1>5, <1>11, <1>12, <1>13, <1>14 DEF Tiles

-----------------------------------------------------------------------------
(* The .map file.                                                          *)

\* What is read back of a whole .map file is what was written.
LEMMA ReadBack ==
  ASSUME NEW B, NEW r, Tiles(B, r)
  PROVE  ReadSize(Lines(B)) = Size /\ ReadBlocks(Lines(B)) = Merge(B)
<1> DEFINE s == Lines(B)
           n == Cardinality(B)
<1>1. /\ s \in Seq(B) /\ Len(s) = n /\ n \in Nat \ {0}
      /\ \A b \in B : \E k \in 1 .. n : s[k] = b
      /\ \A k, l \in 1 .. n : k < l => End(s[k]) <= s[l].pos
      /\ End(s[n]) = Size
  BY TilesInPlace DEF Lines
<1> HIDE DEF s, n
<1>2. \A b \in B : /\ b.pos \in Nat /\ End(b) \in Nat /\ End(b) = b.pos + b.size
                   /\ b.size > 0 /\ b.size \in Nat /\ End(b) <= Size
  BY BlockTyped DEF Tiles
<1>3. DOMAIN s = 1 .. n /\ \A k \in 1 .. n : s[k] \in B
  BY <1>1
<1>4. ReadSize(s) = Size
  <2> DEFINE E == {0} \cup {End(b) : b \in ToSet(s)}
  <2>1. Size \in E
    BY <1>1, <1>3 DEF ToSet
  <2>2. \A e \in E : e <= Size /\ e \in Nat
    BY <1>2, <1>3, MapAssumption DEF ToSet
  <2> HIDE DEF E
  <2>3. Size \in E /\ \A e \in E : Size >= e
    BY <2>1, <2>2, MapAssumption
  <2>4. \A x \in E : (\A e \in E : x >= e) => x = Size
    BY <2>1, <2>2, MapAssumption
  <2>5. Max(E) = Size
    BY <2>3, <2>4 DEF Max
  <2>6. QED
    BY <2>5 DEF ReadSize, E
<1>5. {s[k] : k \in {k \in DOMAIN s : \A l \in k + 1 .. Len(s) : s[l].pos # s[k].pos}} = B
  <2>1. \A k \in 1 .. n : \A l \in k + 1 .. n : s[l].pos # s[k].pos
    <3> SUFFICES ASSUME NEW k \in 1 .. n, NEW l \in k + 1 .. n, s[l].pos = s[k].pos PROVE FALSE
      OBVIOUS
    <3>1. l \in 1 .. n /\ k < l
      BY <1>1
    <3>2. End(s[k]) <= s[l].pos /\ s[k] \in B
      BY <1>1, <1>3, <3>1
    <3>3. s[k].pos < End(s[k])
      BY <1>2, <3>2
    <3>4. QED
      BY <1>2, <3>2, <3>3
  <2>2. {k \in DOMAIN s : \A l \in k + 1 .. Len(s) : s[l].pos # s[k].pos} = 1 .. n
    BY <1>1, <1>3, <2>1
  <2>3. {s[k] : k \in 1 .. n} = B
    BY <1>1, <1>3
  <2>4. QED
    BY <2>2, <2>3
<1>6. QED
  BY <1>4, <1>5 DEF ReadBlocks, s

\* Of a file cut off after any line, less.
LEMMA TornReadsLess ==
  ASSUME NEW B, NEW r, Tiles(B, r), NEW n \in 0 .. Len(Lines(B)) - 1
  PROVE  ReadSize(SubSeq(Lines(B), 1, n)) # Size
<1> DEFINE s == Lines(B)
           m == Cardinality(B)
           q == SubSeq(s, 1, n)
           E == {0} \cup {End(b) : b \in ToSet(q)}
<1>1. /\ s \in Seq(B) /\ Len(s) = m /\ m \in Nat \ {0}
      /\ \A k, l \in 1 .. m : k < l => End(s[k]) <= s[l].pos
      /\ End(s[m]) = Size
  BY TilesInPlace DEF Lines
<1>2. \A b \in B : /\ b.pos \in Nat /\ End(b) \in Nat /\ End(b) = b.pos + b.size
                   /\ b.size > 0 /\ b.size \in Nat /\ End(b) <= Size
  BY BlockTyped DEF Tiles
<1>3. n \in Nat /\ n < m
  BY <1>1
<1> HIDE DEF s, m
<1>4. Len(q) = n /\ DOMAIN q = 1 .. n /\ \A k \in 1 .. n : q[k] = s[k]
  BY <1>1, <1>3
<1>5. \A k \in 1 .. n : End(s[k]) < Size /\ End(s[k]) \in Nat
  <2> SUFFICES ASSUME NEW k \in 1 .. n PROVE End(s[k]) < Size /\ End(s[k]) \in Nat
    OBVIOUS
  <2>1. k \in 1 .. m /\ m \in 1 .. m /\ k < m
    BY <1>1, <1>3
  <2>2. End(s[k]) <= s[m].pos /\ s[k] \in B /\ s[m] \in B
    BY <1>1, <2>1
  <2>3. s[m].pos < Size
    <3>1. /\ End(s[m]) = s[m].pos + s[m].size /\ s[m].size > 0
          /\ s[m].size \in Nat /\ s[m].pos \in Nat
      BY <1>2, <2>2
    <3>2. End(s[m]) = Size
      BY <1>1
    <3> DEFINE first == s[m].pos
               extent == s[m].size
    <3>3. Size = first + extent /\ extent > 0 /\ extent \in Nat /\ first \in Nat
      BY <3>1, <3>2
    <3> HIDE DEF first, extent
    <3>4. first < Size
      BY <3>3
    <3>5. QED
      BY <3>4 DEF first
  <2>4. QED
    BY <1>2, <2>2, <2>3, MapAssumption
<1> HIDE DEF q
<1>6. 0 \in E /\ \A e \in E : e < Size /\ e \in Nat
  BY <1>4, <1>5, MapAssumption DEF ToSet
<1>7. ReadSize(q) = Max(E)
  BY DEF ReadSize
<1> HIDE DEF E
<1>8. E \subseteq 0 .. Size /\ E \in SUBSET Int /\ E # {}
  BY <1>6, MapAssumption
<1>9. IsFiniteSet(E)
  <2>1. IsFiniteSet(0 .. Size)
    BY FS_Interval, MapAssumption
  <2>2. QED
    BY <1>8, <2>1, FS_Subset
<1>10. Max(E) \in E
  BY <1>8, <1>9, GreatestExists DEF Max
<1>11. QED
  BY <1>6, <1>7, <1>10, MapAssumption DEF q, s

-----------------------------------------------------------------------------
(* The queries.                                                            *)

BytesOfAll(S) == UNION {BytesOf(b.pos, End(b)) : b \in S}

\* The sizes of blocks that share no byte add up to the bytes they have.
LEMMA SizesAddUp ==
  ASSUME NEW S \in SUBSET Block, IsFiniteSet(S),
         \A b, c \in S : b # c => End(b) <= c.pos \/ End(c) <= b.pos
  PROVE  MapThenSumSet(LAMBDA b : b.size, S) = Cardinality(BytesOfAll(S))
<1> DEFINE pick == [T \in SUBSET S |-> CHOOSE x \in T : TRUE]
           next == [p \in S \X Nat |-> p[1].size + p[2]]
<1>1. IsPick(pick, S)
  BY DEF IsPick
<1>2. \A b \in S : /\ b.pos \in Nat /\ b.size \in Nat /\ End(b) \in Nat
                   /\ End(b) = b.pos + b.size
  BY BlockTyped
<1>3. PICK f \in [SUBSET S -> Nat] : IsFold(f, S, 0, next, pick)
  <2>1. next \in [S \X Nat -> Nat] /\ 0 \in Nat
    BY <1>2
  <2> HIDE DEF next, pick
  <2>2. QED
    BY <1>1, <2>1, FoldExists
<1> DEFINE Equation(g) ==
             g = [T \in SUBSET S |->
                    IF T = {} THEN 0
                    ELSE (CHOOSE x \in T : TRUE).size + g[T \ {CHOOSE x \in T : TRUE}]]
           fold == CHOOSE g : Equation(g)
<1>4. MapThenSumSet(LAMBDA b : b.size, S) = fold[S]
  BY DEF MapThenSumSet, MapThenFoldSet
<1>5. Equation(f)
  <2>1. ASSUME NEW T \in SUBSET S, T # {}
        PROVE  f[T] = (CHOOSE x \in T : TRUE).size + f[T \ {CHOOSE x \in T : TRUE}]
    <3>1. pick[T] = (CHOOSE x \in T : TRUE) /\ pick[T] \in T /\ T \ {pick[T]} \in SUBSET S
      BY <1>1, <2>1 DEF IsPick
    <3> HIDE DEF pick
    <3>2. f[T \ {pick[T]}] \in Nat
      BY <3>1
    <3>3. f[T] = next[<<pick[T], f[T \ {pick[T]}]>>]
      BY <1>3, <2>1 DEF IsFold
    <3>4. f[T] = pick[T].size + f[T \ {pick[T]}]
      BY <3>1, <3>2, <3>3
    <3>5. QED
      BY <3>1, <3>4
  <2>2. \A T \in SUBSET S :
          f[T] = IF T = {} THEN 0
                 ELSE (CHOOSE x \in T : TRUE).size + f[T \ {CHOOSE x \in T : TRUE}]
    BY <1>3, <2>1 DEF IsFold
  <2>3. QED
    BY <1>3, <2>2
<1>6. Equation(fold)
  BY <1>5
<1> HIDE DEF fold
<1> DEFINE P == {T \in SUBSET S : /\ IsFiniteSet(BytesOfAll(T))
                                  /\ fold[T] = Cardinality(BytesOfAll(T))}
<1>7. {} \in P
  <2>1. BytesOfAll({}) = {}
    BY DEF BytesOfAll
  <2>2. fold[{}] = 0
    BY <1>6
  <2>3. QED
    BY <2>1, <2>2, FS_EmptySet
<1>8. ASSUME NEW T \in SUBSET S, T # {}, T \ {pick[T]} \in P PROVE T \in P
  <2> DEFINE x == pick[T]
             U == T \ {x}
             X == BytesOf(x.pos, End(x))
             Y == BytesOfAll(U)
  <2>1. x = (CHOOSE y \in T : TRUE) /\ x \in T /\ x \in S
    BY <1>1, <1>8 DEF IsPick
  <2> HIDE DEF x
  <2>2. fold[T] = x.size + fold[U]
    BY <1>6, <1>8, <2>1
  <2>3. IsFiniteSet(Y) /\ fold[U] = Cardinality(Y)
    BY <1>8 DEF x
  <2>4. IsFiniteSet(X) /\ Cardinality(X) = x.size
    <3>1. x.pos \in Int /\ End(x) - 1 \in Int /\ x.size \in Nat /\ End(x) = x.pos + x.size
      BY <1>2, <2>1
    <3>2. /\ IsFiniteSet(X)
          /\ Cardinality(X) = IF x.pos > End(x) - 1 THEN 0 ELSE End(x) - 1 - x.pos + 1
      BY <3>1, FS_Interval DEF BytesOf
    <3> HIDE DEF X
    <3>3. QED
      BY <3>1, <3>2
  <2>5. X \cap Y = {}
    <3> SUFFICES ASSUME NEW o \in X, NEW c \in U, o \in BytesOf(c.pos, End(c)) PROVE FALSE
      BY DEF BytesOfAll
    <3>1. c \in S /\ c # x
      OBVIOUS
    <3>2. End(x) <= c.pos \/ End(c) <= x.pos
      BY <2>1, <3>1
    <3>3. QED
      BY <1>2, <2>1, <3>1, <3>2 DEF BytesOf
  <2>6. BytesOfAll(T) = X \cup Y
    <3>1. T = U \cup {x}
      BY <2>1
    <3>2. BytesOfAll(U \cup {x}) = BytesOfAll(U) \cup X
      <4> HIDE DEF U
      <4>1. \A o : o \in BytesOfAll(U \cup {x}) <=> o \in BytesOfAll(U) \/ o \in X
        BY DEF BytesOfAll
      <4>2. QED
        BY <4>1
    <3>3. QED
      BY <3>1, <3>2
  <2> HIDE DEF X, Y, U
  <2>7. /\ IsFiniteSet(X \cup Y)
        /\ Cardinality(X \cup Y) = Cardinality(X) + Cardinality(Y) - Cardinality(X \cap Y)
    BY <2>3, <2>4, FS_Union
  <2>8. Cardinality(X \cap Y) = 0
    BY <2>5, FS_EmptySet
  <2>9. Cardinality(X) \in Nat /\ Cardinality(Y) \in Nat
    BY <2>3, <2>4, FS_CardinalityType
  <2>10. Cardinality(X \cup Y) = x.size + fold[U]
    BY <2>3, <2>4, <2>7, <2>8, <2>9
  <2>11. QED
    BY <2>2, <2>6, <2>7, <2>10
<1>9. S \in P
  <2> HIDE DEF P, pick
  <2>1. QED
    BY <1>1, <1>7, <1>8, PickedApart
<1>10. QED
  BY <1>4, <1>9

\* What the blocks of a tiling say of its bytes, one at a time.
LEMMA TilesSay ==
  ASSUME NEW B, NEW r, Tiles(B, r)
  PROVE  /\ \A b \in B : \A o \in Nat : Has(b, o) => o \in 0 .. Size - 1 /\ r[o] = b.status
         /\ \A o \in 0 .. Size - 1 : \E b \in B : Has(b, o) /\ r[o] = b.status
         /\ \A b \in B : /\ b \in Block /\ b.pos \in Nat /\ b.size \in Nat /\ End(b) \in Nat
                         /\ End(b) = b.pos + b.size /\ b.pos < End(b) /\ End(b) <= Size
         /\ \A b, c \in B : b # c => End(b) <= c.pos \/ End(c) <= b.pos
<1>1. \A b \in B : /\ b \in Block /\ b.pos \in Nat /\ b.size \in Nat /\ End(b) \in Nat
                   /\ End(b) = b.pos + b.size /\ b.pos < End(b) /\ End(b) <= Size
  BY BlockTyped DEF Tiles
<1>2. ASSUME NEW b \in B, NEW o \in Nat, Has(b, o)
      PROVE  o \in 0 .. Size - 1 /\ r[o] = b.status
  <2>1. o \in 0 .. Size - 1
    BY <1>1, <1>2, MapAssumption DEF Has
  <2>2. QED
    BY <1>2, <2>1 DEF Tiles
<1>3. \A o \in 0 .. Size - 1 : \E b \in B : Has(b, o) /\ r[o] = b.status
  BY DEF Tiles
<1>4. \A b, c \in B : b # c => End(b) <= c.pos \/ End(c) <= b.pos
  BY DEF Tiles
<1>5. QED
  BY <1>1, <1>2, <1>3, <1>4

\* The neighbour of a block begins where it ends, and in a merged tiling has
\* another status.
LEMMA NextTile ==
  ASSUME NEW B, NEW r, Tiles(B, r), Merged(B), NEW b \in B, End(b) < Size
  PROVE  End(b) \in 0 .. Size - 1 /\ r[End(b)] # b.status
<1>1. /\ b.pos \in Nat /\ End(b) \in Nat /\ b.pos < End(b)
      /\ End(b) \in 0 .. Size - 1
  BY TilesSay, MapAssumption
<1>2. PICK c \in B : Has(c, End(b)) /\ r[End(b)] = c.status
  BY <1>1, TilesSay
<1>3. c.pos = End(b)
  <2>1. c.pos \in Nat /\ End(c) \in Nat /\ c.pos <= End(b) /\ End(b) < End(c)
    BY <1>2, TilesSay DEF Has
  <2>2. b # c
    BY <1>1, <2>1
  <2>3. End(b) <= c.pos \/ End(c) <= b.pos
    BY <2>2, TilesSay
  <2>4. QED
    BY <1>1, <2>1, <2>3
<1>4. QED
  BY <1>1, <1>2, <1>3 DEF Merged

LEMMA TileBefore ==
  ASSUME NEW B, NEW r, Tiles(B, r), Merged(B), NEW b \in B, b.pos > 0
  PROVE  b.pos - 1 \in 0 .. Size - 1 /\ r[b.pos - 1] # b.status
<1>1. /\ b.pos \in Nat /\ End(b) \in Nat /\ b.pos < End(b) /\ End(b) <= Size
      /\ b.pos - 1 \in 0 .. Size - 1
  BY TilesSay, MapAssumption
<1>2. PICK c \in B : Has(c, b.pos - 1) /\ r[b.pos - 1] = c.status
  BY <1>1, TilesSay
<1>3. End(c) = b.pos
  <2>1. c.pos \in Nat /\ End(c) \in Nat /\ c.pos <= b.pos - 1 /\ b.pos - 1 < End(c)
    BY <1>2, TilesSay DEF Has
  <2>2. b # c
    BY <1>1, <2>1
  <2>3. End(b) <= c.pos \/ End(c) <= b.pos
    BY <2>2, TilesSay
  <2>4. QED
    BY <1>1, <2>1, <2>3
<1>4. QED
  BY <1>1, <1>2, <1>3 DEF Merged

-----------------------------------------------------------------------------
(* The invariant of the map, and what follows from it.                     *)

PartitionInv ==
  /\ size = Size
  /\ ref \in [0 .. Size - 1 -> BlockStatuses]
  /\ Tiles(blocks, ref)
  /\ Merged(blocks)

\* status_at: the one block that has the byte is the last before its end.
LEMMA StatusIsTrue ==
  ASSUME PartitionInv, NEW o \in 0 .. Size - 1
  PROVE  StatusAt(o) = {ref[o]}
<1>1. Tiles(blocks, ref) /\ o \in Nat
  BY MapAssumption DEF PartitionInv
<1>2. \A b \in blocks : b.pos \in Nat /\ End(b) \in Nat
  BY <1>1, TilesSay
<1>3. PICK b \in blocks : Has(b, o) /\ ref[o] = b.status
  BY <1>1, TilesSay
<1>4. b \in Before(blocks, o + 1) /\ o < End(b)
  <2> SUFFICES ASSUME NEW c \in blocks, c.pos < o + 1, ~(c.pos <= b.pos) PROVE FALSE
    BY <1>1, <1>2, <1>3 DEF Before, Has
  <2>1. End(b) <= c.pos \/ End(c) <= b.pos
    BY <1>1, <1>2, TilesSay
  <2>2. c.pos < End(c)
    BY <1>1, TilesSay
  <2>3. QED
    BY <1>1, <1>2, <1>3, <2>1, <2>2 DEF Has
<1>5. \A c \in Before(blocks, o + 1) : o < End(c) => ref[o] = c.status
  <2> SUFFICES ASSUME NEW c \in Before(blocks, o + 1), o < End(c) PROVE ref[o] = c.status
    OBVIOUS
  <2>1. c \in blocks /\ Has(c, o)
    BY <1>1, <1>2 DEF Before, Has
  <2>2. QED
    BY <1>1, <2>1, TilesSay
<1>6. QED
  BY <1>3, <1>4, <1>5 DEF StatusAt

\* The bytes of the blocks with a status are the bytes with it.
LEMMA BlocksWithAre ==
  ASSUME PartitionInv, NEW status
  PROVE  BytesOfAll(BlocksWith(status)) = BytesWith(status)
<1>1. Tiles(blocks, ref)
  BY DEF PartitionInv
<1>2. ASSUME NEW b \in BlocksWith(status), NEW o \in BytesOf(b.pos, End(b)) PROVE o \in BytesWith(status)
  <2>1. b \in blocks /\ b.status = status /\ b.pos \in Nat /\ End(b) \in Nat
    BY <1>1, TilesSay DEF BlocksWith
  <2>2. o \in Nat /\ Has(b, o)
    BY <2>1 DEF BytesOf, Has
  <2>3. QED
    BY <1>1, <2>1, <2>2, TilesSay DEF BytesWith
<1>3. ASSUME NEW o \in BytesWith(status) PROVE \E b \in BlocksWith(status) : o \in BytesOf(b.pos, End(b))
  <2>1. o \in 0 .. Size - 1 /\ ref[o] = status
    BY DEF BytesWith
  <2>2. PICK b \in blocks : Has(b, o) /\ ref[o] = b.status
    BY <1>1, <2>1, TilesSay
  <2>3. b.pos \in Nat /\ End(b) \in Nat
    BY <1>1, TilesSay
  <2>4. o \in BytesOf(b.pos, End(b))
    BY <2>1, <2>2, <2>3, MapAssumption DEF BytesOf, Has
  <2>5. QED
    BY <2>1, <2>2, <2>4 DEF BlocksWith
<1>4. QED
  BY <1>2, <1>3 DEF BytesOfAll

\* bytes_in.
LEMMA BytesAreCounted ==
  ASSUME PartitionInv, NEW status
  PROVE  BytesIn(status) = Cardinality(BytesWith(status))
<1> DEFINE S == BlocksWith(status)
<1>1. Tiles(blocks, ref) /\ IsFiniteSet(blocks)
  BY TilesFinite DEF PartitionInv
<1>2. S \in SUBSET Block /\ IsFiniteSet(S)
      /\ \A b, c \in S : b # c => End(b) <= c.pos \/ End(c) <= b.pos
  <2>1. S \subseteq blocks
    BY DEF BlocksWith
  <2>2. IsFiniteSet(S)
    BY <1>1, <2>1, FS_Subset
  <2>3. QED
    BY <1>1, <2>1, <2>2 DEF Tiles
<1>3. BytesIn(status) = MapThenSumSet(LAMBDA b : b.size, S)
  BY DEF BytesIn, BlocksWith
<1> HIDE DEF S
<1>4. MapThenSumSet(LAMBDA b : b.size, S) = Cardinality(BytesOfAll(S))
  BY <1>2, SizesAddUp
<1>5. QED
  BY <1>3, <1>4, BlocksWithAre DEF S

\* A block of a status is a maximal run of it.
LEMMA BlocksAreRuns ==
  ASSUME PartitionInv, NEW status, NEW b \in BlocksWith(status)
  PROVE  BytesOf(b.pos, End(b)) \in RunsOf(status)
<1> DEFINE r == BytesOf(b.pos, End(b))
<1>1. Tiles(blocks, ref) /\ Merged(blocks) /\ b \in blocks /\ b.status = status
  BY DEF PartitionInv, BlocksWith
<1>2. /\ b.pos \in Nat /\ End(b) \in Nat /\ b.pos < End(b) /\ End(b) <= Size
      /\ b.pos \in 0 .. Size /\ End(b) \in 0 .. Size
  BY <1>1, TilesSay, MapAssumption
<1>3. r \in {BytesOf(from, to) : from, to \in 0 .. Size}
  BY <1>2
<1>4. r # {}
  <2>1. b.pos \in r
    BY <1>2 DEF BytesOf
  <2>2. QED
    BY <2>1
<1>5. r \subseteq BytesWith(status)
  BY BlocksWithAre DEF BytesOfAll
<1>6. ASSUME NEW o \in BytesWith(status) \ r, NEW p \in r PROVE o # p - 1 /\ o # p + 1
  <2>1. /\ o \in 0 .. Size - 1 /\ ref[o] = status /\ ~(b.pos <= o /\ o < End(b))
        /\ p \in Nat /\ b.pos <= p /\ p < End(b)
    BY <1>2 DEF BytesWith, BytesOf
  <2> HIDE DEF r
  <2>2. CASE o = p + 1
    <3>1. o = End(b) /\ End(b) < Size
      BY <1>2, <2>1, <2>2, MapAssumption
    <3>2. ref[End(b)] # b.status
      BY <1>1, <3>1, NextTile
    <3>3. QED
      BY <1>1, <2>1, <3>1, <3>2
  <2>3. CASE o = p - 1
    <3>1. o = b.pos - 1 /\ b.pos > 0
      BY <1>2, <2>1, <2>3, MapAssumption
    <3>2. ref[b.pos - 1] # b.status
      BY <1>1, <3>1, TileBefore
    <3>3. QED
      BY <1>1, <2>1, <3>1, <3>2
  <2>4. QED
    BY <2>2, <2>3
<1>7. QED
  BY <1>3, <1>4, <1>5, <1>6 DEF RunsOf

\* And every maximal run is a block.
LEMMA RunsAreBlocks ==
  ASSUME PartitionInv, NEW status, NEW r \in RunsOf(status)
  PROVE  \E b \in BlocksWith(status) : r = BytesOf(b.pos, End(b))
<1>1. Tiles(blocks, ref) /\ Merged(blocks)
  BY DEF PartitionInv
<1>2. PICK from \in 0 .. Size, to \in 0 .. Size : r = BytesOf(from, to)
  BY DEF RunsOf
<1>3. /\ r # {} /\ r \subseteq BytesWith(status)
      /\ \A o \in BytesWith(status) \ r : \A p \in r : o # p - 1 /\ o # p + 1
  BY DEF RunsOf
<1>4. from < to /\ \A o \in Int : o \in r <=> from <= o /\ o < to
  BY <1>2, <1>3, MapAssumption DEF BytesOf
<1>5. \A o \in 0 .. Size - 1 : o \in BytesWith(status) <=> ref[o] = status
  BY DEF BytesWith
<1>6. from \in 0 .. Size - 1 /\ ref[from] = status
  BY <1>3, <1>4, <1>5, MapAssumption DEF BytesWith
<1>7. PICK b \in blocks : Has(b, from) /\ ref[from] = b.status
  BY <1>1, <1>6, TilesSay
<1>8. /\ b.pos \in Nat /\ End(b) \in Nat /\ b.pos <= from /\ from < End(b) /\ b.status = status
      /\ End(b) <= Size
  BY <1>1, <1>6, <1>7, TilesSay DEF Has
<1>9. \A o \in Nat : b.pos <= o /\ o < End(b) => o \in BytesWith(status) /\ o \in 0 .. Size - 1
  <2> SUFFICES ASSUME NEW o \in Nat, b.pos <= o, o < End(b)
               PROVE  o \in BytesWith(status) /\ o \in 0 .. Size - 1
    OBVIOUS
  <2>1. Has(b, o)
    BY DEF Has
  <2>2. o \in 0 .. Size - 1 /\ ref[o] = b.status
    BY <1>1, <2>1, TilesSay
  <2>3. QED
    BY <1>5, <1>8, <2>2
<1>10. b.pos = from
  <2> SUFFICES ASSUME b.pos < from PROVE FALSE
    BY <1>8
  <2>1. from - 1 \in Nat /\ b.pos <= from - 1 /\ from - 1 < End(b) /\ from \in Int
    BY <1>8
  <2>2. from - 1 \in BytesWith(status) \ r /\ from \in r
    BY <1>4, <1>9, <2>1
  <2>3. QED
    BY <1>3, <2>2
<1>11. End(b) = to
  <2>1. CASE End(b) < to
    <3>1. End(b) < Size
      BY <1>8, <2>1, MapAssumption
    <3>2. End(b) \in 0 .. Size - 1 /\ ref[End(b)] # b.status
      BY <1>1, <3>1, NextTile
    <3>3. End(b) \in r
      BY <1>4, <1>8, <2>1
    <3>4. QED
      BY <1>3, <1>5, <1>8, <3>2, <3>3
  <2>2. CASE to < End(b)
    <3>1. to \in Nat /\ b.pos <= to /\ to - 1 \in Int /\ from <= to - 1 /\ to - 1 < to
      BY <1>4, <1>10
    <3>2. to \in BytesWith(status) \ r /\ to - 1 \in r /\ to = to - 1 + 1
      BY <1>4, <1>9, <2>2, <3>1
    <3>3. QED
      BY <1>3, <3>2
  <2>3. QED
    BY <1>8, <2>1, <2>2
<1>12. QED
  BY <1>2, <1>8, <1>10, <1>11 DEF BlocksWith

\* next_block_with: nothing where nothing is left, and otherwise the first run
\* that is left, from where the pass is.
LEMMA NextIsFirst ==
  ASSUME PartitionInv, NEW status, NEW from \in 0 .. Size
  PROVE  LET next == NextBlockWith(from, status)
             left == {o \in BytesWith(status) : o >= from}
         IN /\ next = {} <=> left = {}
            /\ \A b \in next :
                 /\ BytesOf(b.pos, End(b)) \subseteq left
                 /\ \A o \in left : b.pos <= o
                 /\ End(b) \notin left
<1> DEFINE left == {o \in BytesWith(status) : o >= from}
           found == {b \in BlocksWith(status) : End(b) > from}
           first == {b \in found : \A c \in found : b.pos <= c.pos}
           cut(b) == IF b.pos > from THEN b.pos ELSE from
           Rest(b) == [pos |-> cut(b), size |-> End(b) - cut(b), status |-> b.status]
<1>1. Tiles(blocks, ref) /\ Merged(blocks) /\ from \in Nat
  BY DEF PartitionInv
<1>2. NextBlockWith(from, status) = {Rest(b) : b \in first}
  BY DEF NextBlockWith
<1>3. \A b \in found : /\ b \in blocks /\ b.status = status /\ b.pos \in Nat /\ End(b) \in Nat
                       /\ b.pos < End(b) /\ End(b) <= Size /\ End(b) > from
  BY <1>1, TilesSay DEF BlocksWith
<1>4. \A o \in left : \E b \in found : Has(b, o)
  <2> SUFFICES ASSUME NEW o \in left PROVE \E b \in found : Has(b, o)
    OBVIOUS
  <2>1. o \in 0 .. Size - 1 /\ ref[o] = status /\ o >= from
    BY DEF BytesWith
  <2>2. PICK b \in blocks : Has(b, o) /\ ref[o] = b.status
    BY <1>1, <2>1, TilesSay
  <2>3. End(b) > from
    <3>1. End(b) \in Nat /\ o < End(b)
      BY <1>1, <2>2, TilesSay DEF Has
    <3>2. QED
      BY <1>1, <2>1, <3>1, MapAssumption
  <2>4. QED
    BY <2>1, <2>2, <2>3 DEF BlocksWith
<1>5. \A b \in found : \A o \in Nat : cut(b) <= o /\ o < End(b) => o \in left
  <2> SUFFICES ASSUME NEW b \in found, NEW o \in Nat, cut(b) <= o, o < End(b) PROVE o \in left
    OBVIOUS
  <2>1. o >= from /\ b.pos <= o
    BY <1>1, <1>3
  <2>2. Has(b, o)
    BY <2>1 DEF Has
  <2>3. o \in 0 .. Size - 1 /\ ref[o] = b.status
    BY <1>1, <1>3, <2>2, TilesSay
  <2>4. QED
    BY <1>3, <2>1, <2>3 DEF BytesWith
<1>6. \A b \in found : cut(b) \in Nat /\ cut(b) < End(b) /\ End(Rest(b)) = End(b) /\ Rest(b).pos = cut(b)
  <2> SUFFICES ASSUME NEW b \in found
               PROVE  cut(b) \in Nat /\ cut(b) < End(b) /\ End(Rest(b)) = End(b) /\ Rest(b).pos = cut(b)
    OBVIOUS
  <2>1. cut(b) \in Nat /\ cut(b) < End(b) /\ End(b) \in Nat
    BY <1>1, <1>3
  <2> HIDE DEF cut
  <2>2. End(Rest(b)) = cut(b) + (End(b) - cut(b)) /\ Rest(b).pos = cut(b)
    BY DEF End
  <2>3. QED
    BY <2>1, <2>2
<1>7. found # {} => first # {}
  <2> SUFFICES ASSUME found # {} PROVE first # {}
    OBVIOUS
  <2> DEFINE E == {b.pos : b \in found}
  <2>1. E \subseteq 0 .. Size /\ E \in SUBSET Int /\ E # {}
    BY <1>3, MapAssumption
  <2>2. IsFiniteSet(E)
    <3>1. IsFiniteSet(0 .. Size)
      BY FS_Interval, MapAssumption
    <3> HIDE DEF E
    <3>2. QED
      BY <2>1, <3>1, FS_Subset
  <2>3. PICK e \in E : \A d \in E : e <= d
    <3> HIDE DEF E
    <3>1. QED
      BY <2>1, <2>2, LeastExists
  <2>4. QED
    BY <2>3
<1>8. NextBlockWith(from, status) = {} <=> left = {}
  <2>1. ASSUME left # {} PROVE first # {}
    BY <1>4, <1>7, <2>1
  <2>2. ASSUME NEW b \in first PROVE left # {}
    <3>1. b \in found
      OBVIOUS
    <3> HIDE DEF cut, found, left, Rest
    <3>2. cut(b) \in Nat /\ cut(b) < End(b)
      BY <1>6, <3>1
    <3>3. cut(b) \in Nat /\ cut(b) < End(b) /\ cut(b) <= cut(b)
      BY <3>2
    <3>4. cut(b) \in left
      BY <1>5, <3>1, <3>3
    <3>5. QED
      BY <3>4
  <2> HIDE DEF first, left, Rest
  <2>3. first = {} <=> left = {}
    BY <2>1, <2>2
  <2>4. QED
    BY <1>2, <2>3
<1>9. ASSUME NEW b \in first
      PROVE  /\ BytesOf(Rest(b).pos, End(Rest(b))) \subseteq left
             /\ \A o \in left : Rest(b).pos <= o
             /\ End(Rest(b)) \notin left
  <2>1. /\ b \in found /\ cut(b) \in Nat /\ cut(b) < End(b) /\ End(Rest(b)) = End(b)
        /\ Rest(b).pos = cut(b) /\ End(b) \in Nat
    BY <1>3, <1>6
  <2>2. BytesOf(cut(b), End(b)) \subseteq left
    <3> SUFFICES ASSUME NEW o \in BytesOf(cut(b), End(b)) PROVE o \in left
      OBVIOUS
    <3>1. o \in Nat /\ cut(b) <= o /\ o < End(b)
      <4> HIDE DEF cut
      <4>1. QED
        BY <2>1 DEF BytesOf
    <3>2. QED
      BY <1>5, <2>1, <3>1
  <2>3. ASSUME NEW o \in left PROVE cut(b) <= o
    <3>1. PICK c \in found : Has(c, o)
      BY <1>4
    <3>2. o \in Int /\ o >= from /\ b.pos <= c.pos /\ c.pos <= o
      BY <3>1 DEF BytesWith, Has
    <3>3. QED
      BY <1>1, <1>3, <2>1, <3>2
  <2>4. End(b) \notin left
    <3> SUFFICES ASSUME End(b) \in left PROVE FALSE
      OBVIOUS
    <3>1. End(b) \in 0 .. Size - 1 /\ ref[End(b)] = status
      BY DEF BytesWith
    <3>2. b \in blocks /\ b.status = status
      BY <1>3, <2>1
    <3>3. End(b) < Size
      BY <3>1, MapAssumption
    <3>4. QED
      BY <1>1, <3>1, <3>2, <3>3, NextTile
  <2>5. QED
    BY <2>1, <2>2, <2>3, <2>4
<1>10. QED
  <2> HIDE DEF first, Rest
  <2>1. QED
    BY <1>2, <1>8, <1>9

\* Every block has a position of its own.
LEMMA PositionsAreDistinct ==
  ASSUME PartitionInv
  PROVE  Cardinality(blocks) = Cardinality({b.pos : b \in blocks})
<1> DEFINE T == {b.pos : b \in blocks}
           place == [b \in blocks |-> b.pos]
<1>1. Tiles(blocks, ref) /\ IsFiniteSet(blocks)
  BY TilesFinite DEF PartitionInv
<1>2. \A b, c \in blocks : b.pos = c.pos => b = c
  BY <1>1, TilesPositions
<1>3. place \in Injection(blocks, T)
  BY <1>2 DEF Injection, IsInjective
<1>4. place \in Surjection(blocks, T)
  BY DEF Surjection
<1> HIDE DEF T, place
<1>5. Cardinality(T) = Cardinality(blocks)
  BY <1>1, <1>3, <1>4, FS_Surjection
<1>6. QED
  BY <1>5 DEF T

\* All the queries, together.
LEMMA InvAnswers ==
  ASSUME PartitionInv
  PROVE  BlocksAreTheRuns /\ TornFileIsSmaller
<1>1. size = Size
  BY DEF PartitionInv
<1>2. \A status \in BlockStatuses : {BytesOf(b.pos, End(b)) : b \in BlocksWith(status)} = RunsOf(status)
  BY BlocksAreRuns, RunsAreBlocks
<1>3. BlocksAreTheRuns
  BY <1>1, <1>2, PositionsAreDistinct, StatusIsTrue, BytesAreCounted, NextIsFirst
     DEF BlocksAreTheRuns
<1>4. TornFileIsSmaller
  BY TornReadsLess DEF TornFileIsSmaller, PartitionInv
<1>5. QED
  BY <1>3, <1>4

-----------------------------------------------------------------------------
(* The specification.                                                      *)

LEMMA FirstMap ==
  ASSUME MapInit
  PROVE  PartitionInv
<1> DEFINE b == [pos |-> 0, size |-> Size, status |-> NonTried]
<1>1. b \in Block /\ b.size > 0 /\ b.pos = 0 /\ End(b) = Size /\ b.status = NonTried
  BY MapAssumption DEF Block, End
<1>2. size = Size /\ blocks = {b} /\ ref = [o \in 0 .. Size - 1 |-> NonTried]
  BY DEF MapInit
<1> HIDE DEF b
<1>3. \A o \in 0 .. Size - 1 : Has(b, o)
  BY <1>1, MapAssumption DEF Has
<1>4. Tiles(blocks, ref)
  BY <1>1, <1>2, <1>3, MapAssumption DEF Tiles
<1>5. Merged(blocks)
  BY <1>1, <1>2, MapAssumption DEF Merged
<1>6. QED
  BY <1>2, <1>4, <1>5, MapAssumption DEF PartitionInv

LEMMA MapStep ==
  ASSUME PartitionInv, [MapNext]_mapVars
  PROVE  PartitionInv'
<1>1. ASSUME NEW start \in 0 .. Size + 1, NEW len \in 0 .. Size + 1, NEW status \in BlockStatuses,
             Mark(start, len, status)
      PROVE  PartitionInv'
  <2> DEFINE stop == IF start + len < size THEN start + len ELSE size
             new == [o \in 0 .. Size - 1 |-> IF start <= o /\ o < stop THEN status ELSE ref[o]]
             B == Replace(blocks, start, stop, status)
  <2>1. /\ len > 0 /\ start < size
        /\ blocks' = Merge(B) /\ ref' = new /\ size' = size
    BY <1>1 DEF Mark
  <2>2. start \in Nat /\ stop \in Nat /\ start < stop /\ stop <= Size
    BY <2>1, MapAssumption DEF PartitionInv
  <2> HIDE DEF stop
  <2>3. new \in [0 .. Size - 1 -> BlockStatuses]
    BY DEF PartitionInv
  <2>4. Tiles(B, new)
    <3>1. \A o \in 0 .. Size - 1 : new[o] = IF start <= o /\ o < stop THEN status ELSE ref[o]
      OBVIOUS
    <3>2. Tiles(blocks, ref)
      BY DEF PartitionInv
    <3> HIDE DEF new
    <3>3. Tiles(Replace(blocks, start, stop, status), new)
      BY <2>2, <3>1, <3>2, ReplaceTiles
    <3>4. QED
      BY <3>3
  <2> HIDE DEF new, B
  <2>5. Tiles(Merge(B), new) /\ Merged(Merge(B))
    BY <2>4, MergeTiles
  <2>6. QED
    BY <2>1, <2>3, <2>5 DEF PartitionInv
<1>2. ASSUME UNCHANGED mapVars PROVE PartitionInv'
  BY <1>2 DEF PartitionInv, mapVars
<1>3. ASSUME Reload PROVE PartitionInv'
  <2>1. size' = ReadSize(Lines(blocks)) /\ blocks' = ReadBlocks(Lines(blocks)) /\ ref' = ref
    BY <1>3 DEF Reload
  <2>2. size' = Size /\ blocks' = Merge(blocks)
    BY <2>1, ReadBack DEF PartitionInv
  <2>3. Tiles(Merge(blocks), ref) /\ Merged(Merge(blocks))
    BY MergeTiles DEF PartitionInv
  <2>4. QED
    BY <2>1, <2>2, <2>3 DEF PartitionInv
<1>4. QED
  BY <1>1, <1>2, <1>3 DEF MapNext, MarkNothing

\* After any marks in any order, saved and loaded in between, the blocks of the
\* map tile the device, each byte in the status it was last marked with, and no
\* two neighbours have one status.
THEOREM MapIsPartition == MapSpec => []PartitionInv
<1>1. MapInit => PartitionInv
  BY FirstMap
<1>2. PartitionInv /\ [MapNext]_mapVars => PartitionInv'
  BY MapStep
<1>3. QED
  BY <1>1, <1>2, PTL DEF MapSpec

\* Its fields have their types.
THEOREM MapTypeCorrect == MapSpec => []MapTypeOK
<1>1. PartitionInv => MapTypeOK
  BY MapAssumption DEF PartitionInv, Tiles, MapTypeOK
<1>2. QED
  BY <1>1, MapIsPartition, PTL

\* The blocks are the maximal runs of bytes of one status, and what a pass asks
\* of the map - status_at, bytes_in, next_block_with - is answered byte for
\* byte (map.rs).
THEOREM MapAnswersTruly == MapSpec => []BlocksAreTheRuns
<1>1. PartitionInv => BlocksAreTheRuns
  BY InvAnswers
<1>2. QED
  BY <1>1, MapIsPartition, PTL

\* A .map file cut off after any of its lines reads back as a smaller device.
THEOREM TornMapIsRefused == MapSpec => []TornFileIsSmaller
<1>1. PartitionInv => TornFileIsSmaller
  BY InvAnswers
<1>2. QED
  BY <1>1, MapIsPartition, PTL
=============================================================================
