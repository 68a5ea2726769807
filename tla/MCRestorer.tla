----------------------------- MODULE MCRestorer -----------------------------
(* A volume of four clusters on a device with one bad sector, and files of   *)
(* every layout whose names meet: one that becomes another's, one that is    *)
(* already numbered, a directory's, the manifest's.                          *)
EXTENDS Restorer, TLC

MCDevice == [sector |-> 2, sectors |-> 4, bad |-> {1}]
MCGeom == [first |-> 2, count |-> 4, bytes |-> 2, heap |-> 1]

A == <<"a">>
D == <<"d">>
MCUnsafe == (<<"a?">> :> A) @@ (<<"...">> :> <<"_">>)

Want1(rel, size, location) == [rel |-> rel, size |-> size, location |-> location]
MCWanted ==
  <<Want1(<<<<"..">>, A>>, 3, Runs(<<Extent(3, 1), Sparse(1)>>)),
    Want1(<<<<"a?">>>>, 5, FirstOnly(2)),
    Want1(<<D, A>>, 2, Resident @@ [bytes |-> <<7, 8, 9>>]),
    Want1(<<D>>, 3, [where |-> "spans", spans |-> <<[offset |-> 7, length |-> 1], [offset |-> 0, length |-> 1]>>]),
    Want1(<<<<"restore-manifest">>>>, 1, Runs(<<Extent(5, 1)>>)),
    Want1(<<<<"a", 1>>>>, 1, Resident @@ [bytes |-> <<>>]),
    Want1(<<<<"b">>>>, 1, Runs(<<Extent(6, 1)>>))>>

RcRestore == [skips |-> TRUE, opens_first |-> TRUE]
RcExtract == [skips |-> FALSE, opens_first |-> TRUE]
App       == [skips |-> FALSE, opens_first |-> FALSE]
Everyone  == {RcRestore, RcExtract, App}

MCForeign == {<<A>>, <<<<"a", 1>>>>, <<D>>, <<<<"restore-manifest">>>>}
=============================================================================
