-------------------------- MODULE MCSessionFraming --------------------------
(***************************************************************************)
(* Messages for TLC.  With buffers of 12 bytes, 9 less in base:1.1, their  *)
(* lengths leave a whole end marker, a part of it or none of it in a       *)
(* second buffer, fill a buffer exactly, and need one or more chunks.      *)
(***************************************************************************)
EXTENDS SessionFraming

\* A message of a length; it holds the first bytes of the end marker.
Message(len) ==
    [i \in 1 .. len |-> IF i = len THEN 62 ELSE IF i < len - 1 /\ i < 5 THEN EOM[i] ELSE 60]

SomeLengths == {Message(len) : len \in {4, 12, 20}}
=============================================================================
