----------------------------- MODULE ServerLoop -----------------------------
(***************************************************************************)
(* The loop of the server (agt_ncxserver_run) and the table of its         *)
(* sessions.  One thread waits in select() for input or for a timeout of   *)
(* one second.  When there is input it serves each ready socket once, then *)
(* drains the queue of sessions with a complete message; only when there   *)
(* is none it polls the timers.  Clients send and hang up at any time.     *)
(*                                                                         *)
(* A message is its number in its session; what it asks for is chosen when *)
(* it is dispatched.  Clients follow the protocol's order of messages.     *)
(* Output is streamed, as by default, so that writing never waits.  What   *)
(* requests do to datastores is the subject of other modules.              *)
(***************************************************************************)
EXTENDS SequencesExt, FiniteSets

CONSTANTS
    MaxSessions,        \* agt_max_sessions; session ids are below it
    HelloTimeout,       \* ticks of --hello-timeout, 0 to wait for ever
    IdleTimeout,        \* ticks of --idle-timeout, 0 to wait for ever
    Base11,             \* base:1.1 is enabled
    MaxMessages,        \* bound: messages sent in a session
    MaxActs             \* bound: what clients do in all

ASSUME LoopAssumption ==
    /\ MaxSessions \in Nat \ {0, 1}
    /\ {HelloTimeout, IdleTimeout, MaxMessages, MaxActs} \subseteq Nat
    /\ Base11 \in BOOLEAN

Ids == 1 .. MaxSessions - 1

VARIABLES
    state,              \* the state of each session of agtses
    msgQ,               \* its complete messages
    indefer,            \* its input that was read but not accepted
    handled,            \* the message each session had carried out last
    since,              \* ticks since its hello_time or last_rpc_time
    inq,                \* the sessions whose inready.inq is set
    inreadyQ,           \* the ready queue
    next_sesid,         \* the next id never used, 0 when there is none
    at,                 \* where the loop is
    read_fds,           \* sockets select() found ready and not yet served
    socket,             \* messages in the socket of each session
    peer,               \* the other end of each socket
    sent,               \* messages sent in each session
    acts,               \* connections, messages and breaks so far
    backlog             \* a connection waits to be accepted

sessions == <<state, msgQ, indefer, handled, since, inq, inreadyQ, next_sesid>>
clients == <<socket, peer, sent, acts, backlog>>
vars == <<sessions, at, read_fds, clients>>

\* The listening socket.
ncxsock == 0

Up == {s \in Ids : state[s] # "none"}

MaxTicks == Max({HelloTimeout, IdleTimeout})

Init ==
    /\ state = [s \in Ids |-> "none"]
    /\ msgQ = [s \in Ids |-> <<>>]
    /\ indefer = [s \in Ids |-> <<>>]
    /\ handled = [s \in Ids |-> 0]
    /\ since = [s \in Ids |-> 0]
    /\ inq = {}
    /\ inreadyQ = <<>>
    /\ next_sesid = 1
    /\ at = "select"
    /\ read_fds = {}
    /\ socket = [s \in Ids |-> <<>>]
    /\ peer = [s \in Ids |-> "open"]
    /\ sent = [s \in Ids |-> 0]
    /\ acts = 0
    /\ backlog = FALSE

-----------------------------------------------------------------------------
(* Clients.                                                                *)

Act == acts < MaxActs /\ acts' = acts + 1

Connect ==
    /\ Act /\ ~backlog
    /\ backlog' = TRUE
    /\ UNCHANGED <<sessions, at, read_fds, socket, peer, sent>>

Send(s) ==
    /\ Act /\ s \in Up /\ peer[s] = "open" /\ sent[s] < MaxMessages
    /\ sent' = [sent EXCEPT ![s] = @ + 1]
    /\ socket' = [socket EXCEPT ![s] = Append(@, sent'[s])]
    /\ UNCHANGED <<sessions, at, read_fds, peer, backlog>>

HangUp(s) ==
    /\ Act /\ s \in Up /\ peer[s] = "open"
    /\ peer' = [peer EXCEPT ![s] = "closed"]
    /\ UNCHANGED <<sessions, at, read_fds, socket, sent, backlog>>

\* The connection breaks: one read fails, and the next ones find it closed.
Reset(s) ==
    /\ Act /\ s \in Up /\ peer[s] = "open"
    /\ peer' = [peer EXCEPT ![s] = "reset"]
    /\ socket' = [socket EXCEPT ![s] = <<>>]
    /\ UNCHANGED <<sessions, at, read_fds, sent, backlog>>

Tick ==
    /\ since' = [s \in Ids |-> IF state[s] \in {"hello_wait", "idle"} /\ since[s] < MaxTicks
                               THEN since[s] + 1 ELSE since[s]]
    /\ since' # since
    /\ UNCHANGED <<state, msgQ, indefer, handled, inq, inreadyQ, next_sesid, at, read_fds,
                   clients>>

-----------------------------------------------------------------------------
(* The ready queue, as a pair of the entries and the flags that say that   *)
(* an entry is queued.  An entry is part of the session it stands for.     *)

ready == [queue |-> inreadyQ, inq |-> inq]

IsReady(r) == inreadyQ' = r.queue /\ inq' = r.inq

\* ses_msg_make_inready.
MadeInready(r, s) ==
    IF s \in r.inq THEN r ELSE [queue |-> Append(r.queue, s), inq |-> r.inq \cup {s}]

\* ses_msg_get_first_inready.
FirstTaken(r) == [queue |-> Tail(r.queue), inq |-> r.inq \ {Head(r.queue)}]

\* ses_msg_unmake_inready takes out the entry that follows the session's own, which
\* stays in the queue although its memory is freed; -s stands for it.
UnmadeInready(r, s) ==
    LET own == SelectInSeq(r.queue, LAMBDA t : t = s) IN
    IF s \notin r.inq THEN r
    ELSE [queue |-> RemoveAt([r.queue EXCEPT ![own] = -s], own + 1), inq |-> r.inq \ {s}]

\* Behind the last entry it takes out the header of the queue, and what follows reads
\* through null pointers; so it does for an entry that is no longer queued.
Unlinks(r, s) == s \in r.inq /\ (s \notin ToSet(r.queue) \/ Last(r.queue) = s)

\* Freed memory may come to hold anything while an entry in it is linked.
EntryOverwritten ==
    /\ at # "undefined" /\ \E s \in Ids : -s \in ToSet(inreadyQ)
    /\ at' = "undefined"
    /\ UNCHANGED <<sessions, read_fds, clients>>

-----------------------------------------------------------------------------
(* The session table.                                                      *)

\* The id after the id that was used, 0 when the table was used up.
NextSesid(id) == IF id + 1 = MaxSessions THEN 0 ELSE id + 1

\* Ids are reused only when all were used.
FreeSlots ==
    IF next_sesid # 0 THEN {next_sesid}
    ELSE IF Up = Ids THEN {} ELSE {Min(Ids \ Up)}

\* agt_ses_free_session, and what is in the socket that is closed.
Free(s) ==
    /\ state' = [state EXCEPT ![s] = "none"]
    /\ indefer' = [indefer EXCEPT ![s] = <<>>]
    /\ socket' = [socket EXCEPT ![s] = <<>>]
    /\ peer' = [peer EXCEPT ![s] = "open"]
    /\ sent' = [sent EXCEPT ![s] = 0]
    /\ UNCHANGED <<next_sesid, acts, backlog>>

\* A session ends, with or without an entry in the ready queue.
EndSession(s, r) ==
    /\ Free(s)
    /\ msgQ' = [msgQ EXCEPT ![s] = <<>>]
    /\ handled' = [handled EXCEPT ![s] = 0]
    /\ since' = [since EXCEPT ![s] = 0]
    /\ IsReady(UnmadeInready(r, s))
    /\ at' = IF Unlinks(r, s) THEN "undefined" ELSE at

-----------------------------------------------------------------------------
(* Waiting for input.                                                      *)

Readable == {s \in Up : socket[s] # <<>> \/ peer[s] # "open"}

SelectReturns ==
    /\ at = "select"
    /\ Readable # {} \/ backlog
    /\ at' = "serve"
    /\ read_fds' = Readable \cup {i \in {ncxsock} : backlog}
    /\ UNCHANGED <<sessions, clients>>


Expired(s) ==
    \/ /\ state[s] = "hello_wait"
       /\ HelloTimeout > 0 /\ since[s] >= HelloTimeout
    \/ /\ state[s] = "idle"
       /\ IdleTimeout > 0 /\ since[s] >= IdleTimeout

\* The timers are polled when a second went by without input.
SelectTimesOut ==
    /\ at = "select"
    /\ Readable = {} /\ ~backlog
    /\ at' = "poll"
    /\ read_fds' = {s \in Up : Expired(s)}
    /\ UNCHANGED <<sessions, clients>>

\* agt_ses_check_timeouts goes through the sessions that have timed out.
KillExpired(s) ==
    /\ at = "poll" /\ s \in read_fds
    /\ EndSession(s, ready)
    /\ read_fds' = read_fds \ {s}

Polled ==
    /\ at = "poll" /\ read_fds = {}
    /\ at' = "select"
    /\ UNCHANGED <<sessions, read_fds, clients>>

-----------------------------------------------------------------------------
(* Serving the sockets.                                                    *)

Served(i) ==
    /\ at = "serve" /\ i \in read_fds
    /\ read_fds' = read_fds \ {i}

\* agt_ses_new_session; without a free slot the connection is closed.
AcceptConnection ==
    /\ Served(ncxsock)
    /\ backlog' = FALSE
    /\ \/ /\ FreeSlots = {}
          /\ UNCHANGED <<state, next_sesid>>
       \/ \E slot \in FreeSlots :
            /\ state' = [state EXCEPT ![slot] = "init"]
            /\ next_sesid' = IF next_sesid = 0 THEN 0 ELSE NextSesid(slot)
    /\ UNCHANGED <<msgQ, indefer, handled, since, inq, inreadyQ, at, socket, peer, sent,
                   acts>>

\* Input for a session that is asked to close ends it.
ServeClosing(s) ==
    /\ Served(s) /\ state[s] = "shutdown_req"
    /\ EndSession(s, ready)

\* Before the protocol is known only one message is accepted at a time.
AcceptBuffer(s, input) ==
    LET alone == Base11 /\ state[s] \in {"init", "hello_wait"} IN
    /\ msgQ' = [msgQ EXCEPT ![s] = @ \o IF alone THEN <<Head(input)>> ELSE input]
    /\ indefer' = [indefer EXCEPT ![s] = IF alone THEN Tail(input) ELSE <<>>]
    /\ IsReady(MadeInready(ready, s))
    /\ UNCHANGED <<state, handled, since, next_sesid, at, peer, sent, acts, backlog>>

ServeDeferred(s) ==
    /\ Served(s) /\ state[s] # "shutdown_req" /\ indefer[s] # <<>>
    /\ AcceptBuffer(s, indefer[s])
    /\ UNCHANGED socket

\* Faulty variant: the socket is read whether input was deferred or not.
ServeInputFirst(s) ==
    /\ Served(s) /\ state[s] # "shutdown_req"
    /\ \E n \in 1 .. Len(socket[s]) :
        /\ AcceptBuffer(s, SubSeq(socket[s], 1, n))
        /\ socket' = [socket EXCEPT ![s] = SubSeq(@, n + 1, Len(@))]

\* One read returns any part of what has arrived.
ServeInput(s) ==
    /\ Served(s) /\ state[s] # "shutdown_req" /\ indefer[s] = <<>>
    /\ \E n \in 1 .. Len(socket[s]) :
        /\ AcceptBuffer(s, SubSeq(socket[s], 1, n))
        /\ socket' = [socket EXCEPT ![s] = SubSeq(@, n + 1, Len(@))]

\* The end of the input.
ServeEnd(s) ==
    /\ Served(s) /\ state[s] # "shutdown_req" /\ indefer[s] = <<>>
    /\ socket[s] = <<>> /\ peer[s] = "closed"
    /\ EndSession(s, ready)

\* Input that breaks the framing of base:1.1 ends the session, and when it is read
\* behind a message that is complete, it does so with the session in the ready queue.
ServeBadFraming(s) ==
    LET input == IF indefer[s] # <<>> THEN indefer[s] ELSE socket[s] IN
    /\ Served(s) /\ Base11 /\ state[s] = "idle"
    /\ \E n \in 1 .. Len(input) :
        EndSession(s, IF n > 1 THEN MadeInready(ready, s) ELSE ready)

\* agt_ses_request_close for a read that failed: a session that waits for its hello
\* is asked to close, others end.
ServeFailure(s) ==
    /\ Served(s) /\ state[s] # "shutdown_req" /\ indefer[s] = <<>>
    /\ peer[s] = "reset"
    /\ IF state[s] = "hello_wait"
       THEN /\ state' = [state EXCEPT ![s] = "shutdown_req"]
            /\ peer' = [peer EXCEPT ![s] = "closed"]
            /\ UNCHANGED <<msgQ, indefer, handled, since, inq, inreadyQ, next_sesid, at,
                           socket, sent, acts, backlog>>
       ELSE EndSession(s, ready)

AllServed ==
    /\ at = "serve" /\ read_fds = {}
    /\ at' = "drain"
    /\ UNCHANGED <<sessions, read_fds, clients>>

-----------------------------------------------------------------------------
(* Draining the ready queue: agt_ses_process_first_ready.                  *)

\* The session of the first entry, by the id that the entry holds.
Ready(s) == inreadyQ # <<>> /\ Head(inreadyQ) \in {s, -s}

\* There is a message to carry out.
Servable(s) == state[s] \in {"init", "hello_wait", "idle"} /\ msgQ[s] # <<>>

\* An entry without a session or a message counts as the end of the queue.
EndOfDrain ==
    /\ at = "drain"
    /\ \A s \in Ids : Ready(s) => ~Servable(s)
    /\ IF inreadyQ = <<>> THEN IsReady(ready) ELSE IsReady(FirstTaken(ready))
    /\ at' = IF \E s \in Ids : Ready(s) /\ state[s] = "shutdown_req"
             THEN "drain" ELSE "select"
    /\ UNCHANGED <<state, msgQ, indefer, handled, since, next_sesid, read_fds, clients>>

Dispatched(s) == at = "drain" /\ Ready(s) /\ Servable(s)

\* Faulty variant: a session waits for new input before its next message.
PutBackNever(s, r) == IsReady(r)

\* A session with more messages goes to the end of the queue.
PutBack(s, r) == IsReady(IF Len(msgQ[s]) > 1 THEN MadeInready(r, s) ELSE r)

\* Faulty variant: one message is carried out between two calls of select().
DispatchOne(s) ==
    /\ Dispatched(s)
    /\ state' = [state EXCEPT ![s] = IF @ = "init" THEN "hello_wait" ELSE "idle"]
    /\ since' = [since EXCEPT ![s] = 0]
    /\ msgQ' = [msgQ EXCEPT ![s] = Tail(@)]
    /\ handled' = [handled EXCEPT ![s] = Head(msgQ[s])]
    /\ PutBack(s, FirstTaken(ready))
    /\ at' = "select"
    /\ UNCHANGED <<indefer, next_sesid, read_fds, clients>>

\* ncx-connect, hello, and an rpc that leaves the sessions alone.
Dispatch(s) ==
    /\ Dispatched(s)
    /\ state' = [state EXCEPT ![s] = IF @ = "init" THEN "hello_wait" ELSE "idle"]
    /\ since' = [since EXCEPT ![s] = 0]
    /\ msgQ' = [msgQ EXCEPT ![s] = Tail(@)]
    /\ handled' = [handled EXCEPT ![s] = Head(msgQ[s])]
    /\ PutBack(s, FirstTaken(ready))
    /\ UNCHANGED <<indefer, next_sesid, at, read_fds, clients>>

\* A message that is malformed or refused in the session's state, and
\* close-session: the session ends once its message was handled.
DispatchEnd(s) ==
    /\ Dispatched(s)
    /\ EndSession(s, FirstTaken(ready))
    /\ UNCHANGED read_fds

\* kill-session, which does not take the session's own id.
KillSession(s, t) ==
    /\ Dispatched(s) /\ state[s] = "idle"
    /\ t \in Up \ {s}
    /\ Free(t)
    /\ msgQ' = [msgQ EXCEPT ![s] = Tail(@), ![t] = <<>>]
    /\ handled' = [handled EXCEPT ![s] = Head(msgQ[s]), ![t] = 0]
    /\ since' = [since EXCEPT ![s] = 0, ![t] = 0]
    /\ PutBack(s, UnmadeInready(FirstTaken(ready), t))
    /\ at' = IF Unlinks(FirstTaken(ready), t) THEN "undefined" ELSE at
    /\ UNCHANGED read_fds

-----------------------------------------------------------------------------

Loop ==
    \/ SelectReturns
    \/ SelectTimesOut
    \/ \E s \in Ids : KillExpired(s)
    \/ Polled
    \/ AcceptConnection
    \/ \E s \in Ids : ServeClosing(s) \/ ServeDeferred(s) \/ ServeInput(s)
                         \/ ServeEnd(s) \/ ServeBadFraming(s) \/ ServeFailure(s)
    \/ AllServed
    \/ EndOfDrain
    \/ \E s \in Ids : Dispatch(s) \/ DispatchEnd(s)
    \/ \E s, t \in Ids : KillSession(s, t)

Clients ==
    \/ Connect
    \/ \E s \in Ids : Send(s) \/ HangUp(s) \/ Reset(s)

\* Nothing more is said of a server whose behaviour is undefined.
Undefined == at = "undefined" /\ UNCHANGED vars

Next == Loop \/ Clients \/ Tick \/ EntryOverwritten \/ Undefined

Spec == Init /\ [][Next]_vars

\* The loop runs and time goes by; clients do as they like.
FairSpec == Spec /\ WF_vars(Loop) /\ WF_vars(Tick)

-----------------------------------------------------------------------------
(* Properties.                                                             *)

\* The variables have their types.
TypeOK ==
    /\ state \in [Ids -> {"none", "init", "hello_wait", "idle", "shutdown_req"}]
    /\ msgQ \in [Ids -> Seq(1 .. MaxMessages)]
    /\ indefer \in [Ids -> Seq(1 .. MaxMessages)]
    /\ handled \in [Ids -> 0 .. MaxMessages]
    /\ since \in [Ids -> 0 .. MaxTicks]
    /\ inq \subseteq Ids
    /\ inreadyQ \in Seq(Ids \cup {-s : s \in Ids})
    /\ next_sesid \in Ids \cup {0}
    /\ at \in {"select", "poll", "serve", "drain", "undefined"}
    /\ read_fds \subseteq Ids \cup {ncxsock}
    /\ socket \in [Ids -> Seq(1 .. MaxMessages)]
    /\ peer \in [Ids -> {"open", "closed", "reset"}]
    /\ sent \in [Ids -> 0 .. MaxMessages]
    /\ acts \in 0 .. MaxActs
    /\ backlog \in BOOLEAN

\* The entry of a session was taken out in place of another's: its flag stays set, so
\* that it is not queued again, and its own end will read through null pointers.
Torn == at = "undefined" \/ ~(inq \subseteq ToSet(inreadyQ))

\* Whatever happens, no session has two entries, every session with a message to carry
\* out counts as queued, and so does every session that has an entry.  Exactly the
\* sessions with a message are queued as long as the queue is not torn, and nothing
\* tears it but the end of a session (ses_msg_make_inready, ses_msg_unmake_inready,
\* agt_ses_process_first_ready).
QueueInStep ==
    /\ \A i, j \in DOMAIN inreadyQ : inreadyQ[i] = inreadyQ[j] /\ inreadyQ[i] \in Ids => i = j
    /\ {s \in Ids : Servable(s)} \cup (ToSet(inreadyQ) \cap Ids) \subseteq inq
    /\ ~Torn => ToSet(inreadyQ) = inq /\ inq = {s \in Ids : Servable(s)}

ReadyOnce ==
    /\ QueueInStep
    /\ [][QueueInStep' /\ (Torn' => Torn \/ \E s \in Up : state'[s] = "none")]_vars

\* The ready queue is drained before new input is accepted: a session has a message
\* left while the loop waits in select() only when the queue is torn, by the end of a
\* session that was queued.
DrainedBeforeInput == at = "select" /\ ~Torn => \A s \in Ids : ~Servable(s)

Channels ==
    INSTANCE SessionChannels WITH
        Messages <- 1 .. MaxMessages,
        up <- Up,
        done <- handled,
        queue <- [s \in Ids |-> msgQ[s] \o indefer[s] \o socket[s]]

\* Messages are carried out one at a time in the order they were sent, whether they
\* were deferred, were read together or follow a message that ended the session.
InOrder == Channels!Spec

=============================================================================
