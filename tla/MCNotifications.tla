--------------------------- MODULE MCNotifications ---------------------------
(***************************************************************************)
(* Sessions, event types and filters for TLC.                              *)
(***************************************************************************)
EXTENDS Notifications

CONSTANTS s1, s2, plain, ended

\* The user of the second session may not receive the end of sessions.
OneWithoutEnds == [s \in Sessions |-> IF s = s1 THEN Types ELSE {plain}]

\* A filter drops the end of sessions.
PlainOnly == {{plain}}
=============================================================================
