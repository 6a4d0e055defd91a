--------------------------- MODULE MCPartialLocks ---------------------------
(***************************************************************************)
(* A small tree for TLC: container top with leaf a and container mid, and  *)
(* possibly leaf b in mid.                                                 *)
(***************************************************************************)
EXTENDS PartialLocks, TLC

CONSTANTS s1, s2, top, mid, a, b

Subtrees ==
    [n \in Nodes |-> CASE n = top -> Nodes
                       [] n = mid -> Nodes \cap {mid, b}
                       [] OTHER   -> {n}]

SwapSessions == Permutations(Sessions)
=============================================================================
