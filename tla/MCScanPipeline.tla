--------------------------- MODULE MCScanPipeline ---------------------------
(* A device with headers across every kind of boundary, for ScanPipeline.   *)
EXTENDS ScanPipeline

CONSTANTS card, w1, w2

At(o, s) == [offset |-> o, sig |-> s, span |-> s, length |-> 0, verdict |-> "floor"]

\* Across a block boundary, two at one offset, beside and on the bad sector,
\* across the end of the segment, and past it.
MCHits == [s \in Sources |-> {At(1, 2), At(4, 1), At(6, 1), At(6, 2), At(7, 1),
                              At(10, 2), At(11, 1)}]
MCBad == [s \in Sources |-> {5}]

=============================================================================
