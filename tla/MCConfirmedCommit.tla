------------------------- MODULE MCConfirmedCommit -------------------------
(***************************************************************************)
(* Small instances of ConfirmedCommit for TLC.                             *)
(***************************************************************************)
EXTENDS ConfirmedCommit, TLC

CONSTANTS s1, s2, l1, l2, v1, v2

BothSessions == {s1, s2}
FirstSession == {s1}
FactoryDefault == [l \in Leaves |-> v1]
NothingSet == [l \in Leaves |-> v2]
=============================================================================
