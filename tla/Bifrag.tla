------------------------------- MODULE Bifrag -------------------------------
(* The reassembly of a fragmented file (rc-bifrag): starting from the       *)
(* cluster of its header, a path of clusters grows by one decision at a     *)
(* time, a validator judges the bytes the path spells, and a wrong decision *)
(* is undone by backtracking.  The search is run again with wider windows   *)
(* until one of them ends it.                                               *)
(*                                                                          *)
(* The validator is any format with numbered landmarks (restart markers,    *)
(* chunks with a checksum): a cluster of the disk is a record               *)
(*   mark   the number, modulo Phases, of the landmark it holds, or None    *)
(*   at     the bytes of the cluster up to the end of the landmark          *)
(*   bad    the landmark is there but the checksum of what it ends fails    *)
(*   ends   the landmark is the one that ends the file                      *)
(*   noise  the cluster cannot belong to a file of the format               *)
(*   heat   its entropy: "high", "middle", or "filler" (one repeated byte)  *)
EXTENDS Lists, SequencesExt

CONSTANTS
  None,
  Clusters,            \* what a cluster of the disk may hold
  DiskClusters,        \* clusters of the device
  ClusterBytes,
  Phases,              \* landmarks are numbered modulo this
  Landmarks,           \* the landmarks a file of the format declares
  FirstWindow,         \* 16
  WindowFactor,        \* 16
  MaxGapClusters,
  MaxClusters,
  MaxUnverified,
  ContinuationWindow,
  RunClusters,
  LookaheadClusters,
  Budget               \* validator calls of an attempt

ASSUME SearchAssumption ==
  /\ {DiskClusters, ClusterBytes, Phases, Landmarks, FirstWindow, MaxClusters,
      MaxUnverified, RunClusters, LookaheadClusters, Budget} \subseteq Nat \ {0}
  /\ WindowFactor \in Nat \ {0, 1}
  /\ {MaxGapClusters, ContinuationWindow} \subseteq Nat

\* A landmark ends in its cluster.
ASSUME ClusterAssumption ==
  \A c \in Clusters : c.mark # None => c.at \in 1..ClusterBytes

VARIABLES
  disk,      \* what each cluster holds; the header is in cluster 1
  step,      \* "attempt", "gallop", "extend", "candidates" or "ended"
  window,    \* of the attempt
  path,      \* the clusters chosen: [at, verified, stale, low, by]
  stack,     \* decisions to return to: [base, next_k, window]
  calls,     \* validator calls of the attempt
  best,      \* the furthest verified path
  result     \* what the search reports

vars == <<disk, step, window, path, stack, calls, best, result>>

Least(a, b) == IF a < b THEN a ELSE b
Most(a, b)  == IF a < b THEN b ELSE a

----------------------------------------------------------------------------
(* The validator.                                                           *)

(* What the validator makes of the bytes of some clusters: it reads to the  *)
(* first landmark that is wrong (not the one in turn, the last one too      *)
(* early, none at all) or that ends the file.                               *)
Judge(places) ==
  LET D(i)     == disk[places[i]]
      Met(i)   == Cardinality({j \in 1..i : D(j).mark # None})
      Wrong(i) == \/ D(i).noise
                  \/ /\ D(i).mark # None
                     /\ \/ D(i).mark # (Met(i) - 1) % Phases
                        \/ D(i).ends # (Met(i) = Landmarks)
      Stops(i) == Wrong(i) \/ (D(i).mark # None /\ D(i).ends)
      read     == {i \in DOMAIN places : \A j \in 1..(i - 1) : ~Stops(j)}
      good     == {i \in read : D(i).mark # None /\ ~Wrong(i)}
      last     == Max(good \cup {0}) IN
  [length  |-> IF last = 0 THEN 0 ELSE ClusterBytes * (last - 1) + D(last).at,
   valid   |-> (\E i \in good : D(i).ends) /\ \A i \in good : ~D(i).bad,
   ran_out |-> \A i \in read : ~Stops(i)]

Places == [i \in DOMAIN path |-> path[i].at]

Held(places) == ClusterBytes * Len(places)

(* The clusters from one on, as far as the device goes.                     *)
Run(from, n) ==
  [i \in 1..Least(n, DiskClusters + 1 - from) |-> from + i - 1]

----------------------------------------------------------------------------
(* The path.                                                                *)

(* Every cluster of the path is compressed data.                            *)
AllHigh(p) == Last(p).low = "high"

Refused(p, at) == AllHigh(p) /\ disk[at].heat = "filler"

PushAll(p, places, o) ==
  LET before == IF p = <<>> THEN 0 ELSE Last(p).verified
      stale  == IF p = <<>> THEN 0 ELSE Last(p).stale
      High(i) == /\ p = <<>> \/ AllHigh(p)
                 /\ \A j \in 1..i : disk[places[j]].heat = "high" IN
  p \o [i \in DOMAIN places |->
          [at       |-> places[i],
           verified |-> Most(before, o.length),
           stale    |-> IF o.length > before THEN i - 1 ELSE stale + i,
           low      |-> IF High(i) THEN "high" ELSE "lower",
           by       |-> o]]

Push(p, at, o) == PushAll(p, <<at>>, o)

(* The clusters of a run that a verified length takes in: all of each, or,  *)
(* of a whole file, up to the one it ends in.                               *)
Covered(run, had, o) ==
  LET Reached(i) == IF o.valid THEN had + ClusterBytes * (i - 1) < o.length
                               ELSE had + ClusterBytes * i <= o.length IN
  SelectInSeq([i \in DOMAIN run |-> ~Reached(i)], LAMBDA b : b)

Taken(run, had, o) ==
  LET stop == Covered(run, had, o) IN IF stop = 0 THEN run ELSE SubSeq(run, 1, stop - 1)

(* The best path so far, unless what the validator met is a contradiction.  *)
Remember(p, o) ==
  IF (o.ran_out \/ o.valid) /\ (best = None \/ o.length > best.length)
  THEN [chosen |-> [i \in DOMAIN p |-> p[i].at], length |-> o.length]
  ELSE best

Frame(base, next_k, w) == [base |-> base, next_k |-> next_k, window |-> w]

(* A mutant: the decision is pushed after its cluster, as in "base:         *)
(* path.len()" one line down, and reopens the next one.                     *)
FramesLate(from, to, w) == [i \in 1..(to - from + 1) |-> Frame(from + i, 1, w)]

Frames(from, to, w) == [i \in 1..(to - from + 1) |-> Frame(from + i - 1, 1, w)]

----------------------------------------------------------------------------
(* The report.                                                              *)

(* Chosen clusters as runs of bytes, cut where the verified bytes end.      *)
Pieces(chosen, length) ==
  LET Held1(i) == Least(ClusterBytes, Most(0, length - ClusterBytes * (i - 1)))
      Joins(i) == i > 1 /\ chosen[i] = chosen[i - 1] + 1
      begins == {i \in DOMAIN chosen : ~Joins(i) /\ Held1(i) > 0}
      heads == InOrder(begins, Ascending(begins))
      Until(h) == IF h = Len(heads) THEN Len(chosen) ELSE heads[h + 1] - 1 IN
  [h \in DOMAIN heads |->
     [offset |-> ClusterBytes * (chosen[heads[h]] - 1),
      length |-> Least(ClusterBytes * (Until(h) - heads[h] + 1),
                       length - ClusterBytes * (heads[h] - 1))]]

Finish(chosen, length, status) ==
  LET cut == Least(length, Held(chosen)) IN
  [pieces |-> Pieces(chosen, cut), length |-> cut, status |-> status, why |-> "done"]

Done(p, length) == Finish([i \in DOMAIN p |-> p[i].at], length, "valid")

BestOrNothing(b, why) ==
  IF b = None THEN [Finish(<<1>>, 0, "rejected") EXCEPT !.why = why]
  ELSE [Finish(b.chosen, b.length, "partial") EXCEPT !.why = why]

End(r) == /\ step' = "ended" /\ result' = r

Stopped(why) == End(BestOrNothing(best, why))

Spent(n) == calls + n > Budget

----------------------------------------------------------------------------
(* The search.                                                              *)

Init ==
  /\ disk \in [1..DiskClusters -> Clusters]
  /\ disk[1].mark # None /\ ~disk[1].noise
  /\ step = "attempt" /\ window = Least(FirstWindow, Most(1, MaxGapClusters))
  /\ path = <<>> /\ stack = <<>> /\ calls = 0 /\ best = None /\ result = None

(* A new attempt reads the header's cluster: a whole file, the beginning of *)
(* one, or neither.                                                         *)
Attempt ==
  /\ step = "attempt"
  /\ LET o == Judge(<<1>>) IN
     /\ calls' = 1 /\ stack' = <<>>
     /\ IF ~(o.ran_out \/ o.valid)
        THEN /\ Stopped("header")
             /\ UNCHANGED <<path, best>>
        ELSE /\ path' = Push(<<>>, 1, o)
             /\ IF o.valid
                THEN End(Done(path', o.length)) /\ UNCHANGED best
                ELSE /\ best' = Remember(path', o)
                     /\ step' = "gallop" /\ UNCHANGED result
  /\ UNCHANGED <<disk, window>>

(* The clusters a gallop takes: as far as they are covered, none on a       *)
(* contradiction, and never into filler.                                    *)
Gallops(run, o) ==
  LET wanted == IF o.valid \/ o.ran_out THEN Taken(run, Held(path), o) ELSE <<>>
      filler == {i \in DOMAIN wanted : Refused(PushAll(path, SubSeq(wanted, 1, i - 1), o), wanted[i])} IN
  IF filler = {} THEN wanted ELSE SubSeq(wanted, 1, Min(filler) - 1)

(* The bug that IsWhole's comment tells of: the verdict is returned though  *)
(* a cluster it covers was refused as filler.                               *)
IsWholeAnyway(p, o) == o.valid

(* A verdict on bytes that are not all part of the path is not a result.    *)
IsWhole(p, o) == o.valid /\ Held(p) >= o.length

(* Straight on while the validator vouches for whole clusters.              *)
Gallop ==
  /\ step = "gallop"
  /\ LET start == Last(path).at + 1
         run   == Run(start, RunClusters) IN
     \E o \in {Judge(Places \o run)} : \E taken \in {Gallops(run, o)} :
     IF start > DiskClusters
     THEN /\ step' = "extend"
          /\ UNCHANGED <<path, stack, calls, best, result>>
     ELSE IF Spent(1)
     THEN /\ Stopped("budget")
          /\ UNCHANGED <<path, stack, calls, best>>
     ELSE /\ calls' = calls + 1
          /\ path' = PushAll(path, taken, o)
          /\ stack' = stack \o Frames(Len(path), Len(path) + Len(taken) - 1, ContinuationWindow)
          /\ best' = IF taken # <<>> /\ ~o.valid THEN Remember(path', o) ELSE best
          /\ IF IsWhole(path', o)
             THEN End(Done(path', o.length))
             ELSE /\ step' = IF o.ran_out /\ Len(taken) = RunClusters THEN "gallop" ELSE "extend"
                  /\ UNCHANGED result
  /\ UNCHANGED <<disk, window>>

(* One decision more, unless the branch has verified nothing for too long.  *)
Extend ==
  /\ step = "extend"
  /\ LET quiet == Last(path).stale >= MaxUnverified IN
     IF Len(path) >= MaxClusters
     THEN Stopped("size") /\ UNCHANGED stack
     ELSE IF quiet /\ stack = <<>>
     THEN Stopped("quiet") /\ UNCHANGED stack
     ELSE /\ stack' = IF quiet THEN stack ELSE Append(stack, Frame(Len(path), 0, window))
          /\ step' = "candidates" /\ UNCHANGED result
  /\ UNCHANGED <<disk, window, path, calls, best>>

(* The verdict on the cluster k after the next one: "one" is the outcome of *)
(* the path with it, "ahead" the outcome with the run of clusters it starts.*)
Consider(p, cand, k, one, run, ahead) ==
  LET had == Held(p)
      Verdict(v, q, o, n) == [verdict |-> v, path |-> q, by |-> o, calls |-> n]
      more == PushAll(p, Taken(run, had, ahead), ahead) IN
  IF Refused(p, cand) THEN Verdict("rejected", p, one, 0)
  ELSE IF one.valid THEN Verdict("complete", Push(p, cand, one), one, 1)
  ELSE IF ~one.ran_out THEN Verdict("rejected", p, one, 1)
  ELSE IF one.length > had \/ k = 0 THEN Verdict("accepted", Push(p, cand, one), one, 1)
  ELSE IF Len(run) <= 1 THEN Verdict("rejected", p, one, 1)
  ELSE IF ~ahead.valid /\ ahead.length <= had THEN Verdict("rejected", p, ahead, 2)
  ELSE IF ahead.valid /\ Held(more) < ahead.length THEN Verdict("rejected", more, ahead, 2)
  ELSE Verdict(IF ahead.valid THEN "complete" ELSE "accepted", more, ahead, 2)

(* The top decision has tried its window, and is given up.                  *)
BackUp ==
  /\ step = "candidates" /\ stack # <<>>
  /\ Last(stack).next_k > Last(stack).window
  /\ path' = SubSeq(path, 1, Last(stack).base)
  /\ stack' = Front(stack)
  /\ UNCHANGED <<disk, step, window, calls, best, result>>

(* The top decision tries its next candidate; one past the device ends it.  *)
Try ==
  /\ step = "candidates" /\ stack # <<>>
  /\ Last(stack).next_k <= Last(stack).window
  /\ LET top  == Last(stack)
         kept == SubSeq(path, 1, top.base)
         k    == top.next_k
         cand == Last(kept).at + k + 1
         next == Append(Front(stack), [top EXCEPT !.next_k = k + 1])
         run  == Run(cand, LookaheadClusters)
         Outcome(places) == Judge([i \in DOMAIN kept |-> kept[i].at] \o places)
         narrow == Least(window, ContinuationWindow) IN
     IF cand > DiskClusters
     THEN /\ path' = kept
          /\ stack' = Append(Front(stack), [top EXCEPT !.next_k = top.window + 1])
          /\ UNCHANGED <<step, calls, best, result>>
     ELSE \E one \in {Outcome(<<cand>>)}, ahead \in {Outcome(run)} :
          \E c \in {Consider(kept, cand, k, one, run, ahead)} :
          IF Spent(c.calls)
          THEN /\ path' = kept /\ stack' = next
               /\ Stopped("budget") /\ UNCHANGED <<calls, best>>
          ELSE /\ calls' = calls + c.calls
               /\ path' = c.path
               /\ stack' = IF c.verdict = "accepted"
                           THEN next \o Frames(Len(kept) + 1, Len(c.path) - 1, narrow) ELSE next
               /\ best' = IF c.verdict = "accepted" THEN Remember(c.path, c.by) ELSE best
               /\ CASE c.verdict = "complete" -> End(Done(c.path, c.by.length))
                    [] c.verdict = "accepted" -> step' = "gallop" /\ UNCHANGED result
                    [] OTHER                  -> UNCHANGED <<step, result>>
  /\ UNCHANGED <<disk, window>>

(* Every path of the window was tried: a wider one is next.                 *)
Deepen ==
  /\ step = "candidates" /\ stack = <<>>
  /\ IF window >= MaxGapClusters
     THEN /\ Stopped("windows")
          /\ UNCHANGED window
     ELSE /\ window' = Least(window * WindowFactor, MaxGapClusters)
          /\ step' = "attempt" /\ UNCHANGED result
  /\ path' = <<>>
  /\ UNCHANGED <<disk, stack, calls, best>>

(* The result is returned.  Every other state has a next step: the run      *)
(* checks deadlock.                                                         *)
Return == step = "ended" /\ UNCHANGED vars

Next == Attempt \/ Gallop \/ Extend \/ BackUp \/ Try \/ Deepen \/ Return

Spec == Init /\ [][Next]_vars

----------------------------------------------------------------------------
(* Properties.                                                              *)

TypeOK ==
  /\ step \in {"attempt", "gallop", "extend", "candidates", "ended"}
  /\ calls \in 0..Budget
  /\ \A i \in DOMAIN path : path[i].at \in 1..DiskClusters
  /\ \A i \in DOMAIN stack : stack[i].base \in 1..DiskClusters

Bytes(chosen) == [i \in 1..Held(chosen) |-> ClusterBytes * (chosen[(i - 1) \div ClusterBytes + 1] - 1)
                                             + ((i - 1) % ClusterBytes)]
PieceBytes(p) == [i \in 1..p.length |-> p.offset + i - 1]

(* What is reported is what was judged: the pieces rise on the disk, hold   *)
(* exactly the bytes reported, and when the report is "valid" they are      *)
(* bytes that the validator, given them and nothing else, accepts as a      *)
(* whole file of that length.                                               *)
ReportIsJudged ==
  result # None =>
    LET ps == result.pieces
        bytes == FlattenSeq([i \in DOMAIN ps |-> PieceBytes(ps[i])])
        used == [i \in 1..((Len(bytes) + ClusterBytes - 1) \div ClusterBytes) |->
                   bytes[ClusterBytes * (i - 1) + 1] \div ClusterBytes + 1]
        o == Judge(used) IN
    /\ Len(bytes) = result.length
    /\ \A i \in 1..Len(ps) - 1 : ps[i].offset + ps[i].length < ps[i + 1].offset
    /\ bytes = SubSeq(Bytes(used), 1, result.length)
    /\ result.status = "valid" => o.valid /\ o.length = result.length

(* The paths that hold a whole file: increasing, from the header, with a    *)
(* landmark in every cluster and no gap beyond the narrower window.         *)
Reachable(chosen) ==
  /\ chosen[1] = 1
  /\ \A i \in 1..Len(chosen) - 1 :
       chosen[i + 1] - chosen[i] - 1 \in 0..Least(MaxGapClusters, ContinuationWindow)
  /\ \A i \in DOMAIN chosen : disk[chosen[i]].mark # None /\ disk[chosen[i]].heat # "filler"
  /\ Judge(chosen).valid /\ disk[Last(chosen)].ends

Rising == {InOrder({1} \cup s, Ascending({1} \cup s)) : s \in SUBSET (2..DiskClusters)}

(* One call straight on from the n-th cluster takes in the rest of the file. *)
InReach(chosen, n) ==
  /\ Len(chosen) - n <= RunClusters
  /\ \A i \in 1..Len(chosen) - n : chosen[n + i] = chosen[n] + i

(* Straight on from the n-th cluster, one call verifies more clusters than  *)
(* a path may grow without verifying any.                                   *)
Outrun(chosen, n) ==
  LET o == Judge(SubSeq(chosen, 1, n) \o Run(chosen[n] + 1, RunClusters)) IN
  (o.ran_out \/ o.valid) /\ o.length > ClusterBytes * (n + MaxUnverified)

(* No path along the file is left for growing quiet: the file has no more   *)
(* landmarks than that, or no call on the way outruns it, the one that ends *)
(* the file apart.  With the defaults (256 clusters to a call, 64 to grow)  *)
(* a file of 258 clusters in one piece is outrun already, and so is a       *)
(* fragment of 66 when what lies behind it on the disk is no contradiction: *)
(* see AbandonedIsUnverified.                                               *)
NeverLeft(chosen) ==
  \/ Landmarks <= MaxUnverified + 1
  \/ \A n \in 1..Len(chosen) - 1 : Outrun(chosen, n) => InReach(chosen, n)

Findable == \E chosen \in Rising : Reachable(chosen) /\ NeverLeft(chosen)

(* A file whose fragments are in order, each within the windows and each    *)
(* cluster of it with a landmark, is found as long as no path along it is   *)
(* left for growing quiet (NeverLeft) and the bounds on calls and on the    *)
(* path's size let the search go on: no backtrack skips the decision that   *)
(* leads to it.                                                             *)
FileIsFound ==
  step = "ended" /\ result.status # "valid" /\ result.why \notin {"budget", "size"} => ~Findable

(* "Clusters a path may grow without the verified length moving before the  *)
(* branch is abandoned" (rc-bifrag/src/lib.rs:113-114): a branch that is    *)
(* left alone ends in a cluster that nobody vouches for.                    *)
AbandonedIsUnverified ==
  step = "extend" /\ Last(path).stale >= MaxUnverified => Last(path).verified < Held(path)

(* "A contradiction vouches for nothing" (rc-bifrag/src/lib.rs:663-667):    *)
(* no cluster is part of a path on the word of an outcome that is one.      *)
NothingContradictedIsTaken ==
  \A i \in DOMAIN path : path[i].by.ran_out \/ path[i].by.valid

=============================================================================
