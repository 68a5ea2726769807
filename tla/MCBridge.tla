------------------------------ MODULE MCBridge ------------------------------
(* A few files for Bridge to send.                                          *)
EXTENDS Bridge

\* Two files that go by one name on the computer; one that is too large behind
\* one that is not; nothing.
MCTransfers == {
  <<[local |-> "photo", size |-> 1], [local |-> "photo", size |-> 2]>>,
  <<[local |-> "photo", size |-> 1], [local |-> "film", size |-> 3]>>,
  <<>>}

\* A file may be empty, and may grow or change before it is read again.
MCContents == {<<>>, <<"a">>, <<"b">>, <<"a", "b">>}
=============================================================================
