-------------------------- MODULE MCEditTransaction --------------------------
(***************************************************************************)
(* Three edit points for TLC: a leaf and two nodes with children.          *)
(***************************************************************************)
EXTENDS EditTransaction, FiniteSets

CONSTANTS leaf, c1, c2

TwoValues == [p \in Points |-> IF p = c2 THEN {1} ELSE {1, 2}]

\* A leaf does not refuse VALIDATE and APPLY, and one node refuses to undo.
RefusingSome ==
    [cb \in Callbacks |-> CASE cb \in {"validate", "apply"} -> Points \ Leaves
                            [] cb = "commit"                -> Points
                            [] OTHER                        -> {c1}]

\* Any callback may refuse.
RefusingAll == [cb \in Callbacks |-> Points]
=============================================================================
