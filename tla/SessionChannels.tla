--------------------------- MODULE SessionChannels ---------------------------
(***************************************************************************)
(* What the server promises about the messages of its sessions: each       *)
(* session is a queue whose messages are carried out one at a time, in the *)
(* order they were sent, none skipped, and none after the session ended.   *)
(***************************************************************************)
EXTENDS Sequences, Naturals

CONSTANTS
    Ids,                \* session ids
    Messages            \* the messages of a session

VARIABLES
    up,                 \* the ids in use
    queue,              \* the messages sent and not carried out
    done                \* the message carried out last, or 0

vars == <<up, queue, done>>

Init ==
    /\ up = {}
    /\ queue = [s \in Ids |-> <<>>]
    /\ done = [s \in Ids |-> 0]

Open ==
    \E s \in Ids \ up :
        /\ up' = up \cup {s}
        /\ UNCHANGED <<queue, done>>

Send ==
    \E s \in up, m \in Messages :
        /\ queue' = [queue EXCEPT ![s] = Append(@, m)]
        /\ UNCHANGED <<up, done>>

\* A connection that breaks loses the messages that are still on their way.
Break ==
    \E s \in up : \E kept \in 0 .. Len(queue[s]) :
        /\ queue' = [queue EXCEPT ![s] = SubSeq(@, 1, kept)]
        /\ UNCHANGED <<up, done>>

\* Sessions end, and what they sent goes with them.
Close(ended, waiting, handled) ==
    /\ up' = up \ ended
    /\ queue' = [s \in Ids |-> IF s \in ended THEN <<>> ELSE waiting[s]]
    /\ done' = [s \in Ids |-> IF s \in ended THEN 0 ELSE handled[s]]

End == \E ended \in SUBSET up : Close(ended, queue, done)

\* Carrying out a message may end any session.
Serve ==
    \E s \in up, ended \in SUBSET up :
        /\ queue[s] # <<>>
        /\ Close(ended, [queue EXCEPT ![s] = Tail(@)], [done EXCEPT ![s] = Head(queue[s])])

Next ==
    \/ Open
    \/ Send
    \/ Break
    \/ End
    \/ Serve

Spec == Init /\ [][Next]_vars
=============================================================================
