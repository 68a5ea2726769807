------------------------------ MODULE MCBifrag ------------------------------
(* The reassembly on a small disk: landmarks that are in phase by accident, *)
(* a chunk whose checksum fails, filler, foreign data, and clusters that    *)
(* hold nothing to judge by.                                                *)
EXTENDS Bifrag

C(mark, at, bad, ends, noise, heat) ==
  [mark |-> mark, at |-> at, bad |-> bad, ends |-> ends, noise |-> noise, heat |-> heat]

MCClusters ==
  { C(0, 2, FALSE, FALSE, FALSE, "high"),
    C(1, 1, FALSE, FALSE, FALSE, "high"),
    C(1, 2, TRUE, FALSE, FALSE, "high"),
    C((Landmarks - 1) % Phases, 1, FALSE, TRUE, FALSE, "high"),
    C(None, 2, FALSE, FALSE, FALSE, "high"),
    C(None, 2, FALSE, FALSE, FALSE, "filler"),
    C(None, 2, FALSE, FALSE, TRUE, "middle") }

=============================================================================
