---------------------------- MODULE MessageStream ----------------------------
(***************************************************************************)
(* What the transport of a session promises to the code that writes and    *)
(* the code that reads messages: those that are sent arrive whole, once    *)
(* and in the order they were sent, wherever the stream of bytes that      *)
(* carries them is cut.                                                    *)
(***************************************************************************)
EXTENDS Sequences, Naturals

CONSTANTS
    Messages            \* the messages that may be sent

VARIABLES
    sent,               \* the messages sent
    received            \* the messages that arrived

vars == <<sent, received>>

Init == sent = <<>> /\ received = <<>>

Send ==
    /\ \E m \in Messages : sent' = Append(sent, m)
    /\ UNCHANGED received

Receive ==
    /\ Len(received) < Len(sent)
    /\ received' = Append(received, sent[Len(received) + 1])
    /\ UNCHANGED sent

Next == Send \/ Receive

Spec == Init /\ [][Next]_vars
=============================================================================
