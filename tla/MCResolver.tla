----------------------------- MODULE MCResolver -----------------------------
(* Resolver with an upstream file, an upstream symlink that its manager    *)
(* owns, and a loopback file.                                              *)
EXTENDS Resolver

CONSTANTS upstream, loopback, root, manager

MCTexts == {upstream, loopback, StubTarget}
MCExternal == {upstream}
MCOwners == {root, manager}

File(text) == [kind |-> "file", body |-> text, owner |-> root]
Link(text) == [kind |-> "symlink", body |-> text, owner |-> manager]

MCEntries == {File(upstream), Link(upstream), File(loopback)}
=============================================================================
