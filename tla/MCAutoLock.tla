----------------------------- MODULE MCAutoLock -----------------------------
(***************************************************************************)
(* Two clients for TLC; the replies to the first may be late.              *)
(***************************************************************************)
EXTENDS AutoLock

CONSTANTS c1, c2

FirstLate == [c \in Sessions |-> IF c = c1 THEN 2 ELSE 0]
=============================================================================
