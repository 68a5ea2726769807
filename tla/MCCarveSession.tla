--------------------------- MODULE MCCarveSession ---------------------------
(* Small devices for CarveSession.                                          *)
EXTENDS CarveSession

\* A photo with a thumbnail inside it, across a block boundary; two signatures
\* at one offset (the longer header wins); a floor that must not suppress; a
\* rejected header; a file that ends where the range does.
PhotoHits ==
  { [offset |-> 1, sig |-> 1, span |-> 2, length |-> 4, verdict |-> "valid"],
    [offset |-> 3, sig |-> 1, span |-> 2, length |-> 2, verdict |-> "valid"],
    [offset |-> 3, sig |-> 2, span |-> 1, length |-> 0, verdict |-> "floor"],
    [offset |-> 4, sig |-> 2, span |-> 1, length |-> 3, verdict |-> "established"],
    [offset |-> 6, sig |-> 1, span |-> 1, length |-> 1, verdict |-> "floor"],
    [offset |-> 6, sig |-> 2, span |-> 2, length |-> 1, verdict |-> "rejected"],
    [offset |-> 7, sig |-> 2, span |-> 1, length |-> 2, verdict |-> "valid"],
    [offset |-> 7, sig |-> 3, span |-> 2, length |-> 2, verdict |-> "valid"],
    [offset |-> 8, sig |-> 1, span |-> 1, length |-> 1, verdict |-> "valid"] }

OtherHits ==
  { [offset |-> 2, sig |-> 1, span |-> 1, length |-> 6, verdict |-> "floor"],
    [offset |-> 5, sig |-> 1, span |-> 1, length |-> 2, verdict |-> "valid"] }

CONSTANTS photo, other

MCHits == [s \in Sources |-> IF s = photo THEN PhotoHits ELSE OtherHits]

\* A bad sector at 6: one scan loses the block 5-6 to it; a scan whose blocks
\* begin one later loses 4-5, whose overlap reaches it, and 6-7.
MCBad   == [s \in Sources |-> IF s = photo THEN {} ELSE {6}]
=============================================================================
