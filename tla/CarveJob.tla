------------------------------ MODULE CarveJob ------------------------------
(***************************************************************************)
(* What a carve promises, with no process, no segment and no kill in it:   *)
(* a list of results that grows along the list one uninterrupted scan      *)
(* would give, and that is called complete only when it is that list.      *)
(***************************************************************************)
EXTENDS Naturals, Sequences

CONSTANTS
  Jobs,       \* what may be carved
  Result,     \* Jobs -> the list of candidates an uninterrupted scan reports
  NoJob       \* nothing is being carved

VARIABLES job, results, complete

vars == <<job, results, complete>>

Init == job = NoJob /\ results = <<>> /\ complete = FALSE

\* A fresh carve throws away what was there, and then exists.
Discard == job' = NoJob /\ results' = <<>> /\ complete' = FALSE

Begin(j) ==
  /\ job = NoJob
  /\ job' = j
  /\ UNCHANGED <<results, complete>>

\* More of the result list becomes visible, in order.
Extend ==
  /\ job # NoJob /\ ~complete
  /\ \E n \in Len(results) .. Len(Result[job]) : results' = SubSeq(Result[job], 1, n)
  /\ UNCHANGED <<job, complete>>

Finish ==
  /\ job # NoJob /\ ~complete
  /\ results = Result[job]
  /\ complete' = TRUE
  /\ UNCHANGED <<job, results>>

Next == Discard \/ (\E j \in Jobs : Begin(j)) \/ Extend \/ Finish

Spec == Init /\ [][Next]_vars

=============================================================================
