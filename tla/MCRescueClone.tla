--------------------------- MODULE MCRescueClone ---------------------------
(* A small failing device for RescueClone, and the command lines it is cloned *)
(* with; and the map a clone keeps, as BlockMap has it, marked at will.       *)
EXTENDS RescueClone, BlockMap

\* Zeros at both ends of a block and in the middle of the damage.
MCContent == [s \in Sectors |-> CASE s = 1 -> "a" [] s = 4 -> "b" [] OTHER -> "zero"]

Base == [block |-> 3, retries |-> 1, sparse |-> TRUE, fill |-> "zero",
         max_errors |-> 0, resume |-> TRUE, overwrite |-> FALSE]

\* The output may be sparse or dense from one run to the next; a limit on failed
\* blocks; a first run without --resume.
SafeRuns == {Base, [Base EXCEPT !.max_errors = 1, !.retries = 0, !.sparse = FALSE],
             [Base EXCEPT !.resume = FALSE, !.block = 2]}

\* A fresh start over an existing output, and a resume.
OverwritingRuns == {Base, [Base EXCEPT !.resume = FALSE, !.overwrite = TRUE]}

OneRun == {[Base EXCEPT !.resume = FALSE]}

\* A clone is run, or a map is marked: neither looks at the other's state, so
\* while one moves the other is where it began.
MCInit == Init /\ MapInit
MCNext ==
  \/ MapInit /\ Next /\ UNCHANGED mapVars
  \/ Init /\ MapNext /\ UNCHANGED vars
MCSpec == MCInit /\ [][MCNext]_<<vars, mapVars>>
MCFairSpec == MCSpec /\ WF_vars(Passes \/ Ending)
=============================================================================
