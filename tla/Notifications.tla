--------------------------- MODULE Notifications ---------------------------
(***************************************************************************)
(* Event notifications (agt_not.c): the replay buffer, the subscriptions   *)
(* that read it, and the bursts in which the server sends                  *)
(* (send_some_notifications of agt_ncxserver.c).                           *)
(*                                                                         *)
(* A subscription replays part of the buffer, says replayComplete, and     *)
(* then follows the buffer live, for ever or until its stop time.  It      *)
(* remembers its place twice, as a pointer into the buffer and as a        *)
(* message id, because the buffer drops its oldest message when it is      *)
(* full.  With an event log of size zero the buffer holds what is not yet  *)
(* delivered, and is cleaned after every burst.                            *)
(*                                                                         *)
(* Message ids count from 1 and the buffer always holds the newest ones,   *)
(* so it is kept as the id of its oldest message.  A pointer is the id of  *)
(* the message it points to, 0 for NULL.  Time is in the clock's seconds.  *)
(***************************************************************************)
EXTENDS SequencesExt

CONSTANTS
    Sessions,
    Types,              \* event types
    SessionEnd,         \* the type of netconf-session-end
    Allowed,            \* the types each session's user may receive
    Filters,            \* sets of types that filters let through
    EventlogSize,       \* --eventlog-size
    MaxBurst,           \* --max-burst
    MaxEvents,          \* bound: events logged
    MaxTime             \* bound: seconds

ASSUME NotificationsAssumption ==
    /\ IsFiniteSet(Sessions)
    /\ SessionEnd \in Types
    /\ Allowed \in [Sessions -> SUBSET Types]
    /\ Filters \subseteq SUBSET Types
    /\ {EventlogSize, MaxBurst, MaxEvents} \subseteq Nat
    /\ MaxTime \in Nat \ {0}

VARIABLES
    now,                \* the time
    log,                \* every event logged, by message id
    oldest,             \* the id of the first message of notificationQ
    subs,               \* the subscription of each session
    sending,            \* a burst is being sent
    sendtotal,          \* notifications sent in the burst
    delivered,          \* what each session was sent since it subscribed
    scope               \* the first message each subscription asked for

buffer == <<log, oldest>>
history == <<delivered, scope>>
vars == <<now, buffer, subs, sending, sendtotal, history>>

msgid == Len(log)

notificationQ == oldest .. msgid

\* The messages without an id.
replayComplete == 0
notificationComplete == -1

NoSubscription ==
    [state |-> "none", startTime |-> 0, stopTime |-> 0, futurestop |-> FALSE, filter |-> {},
     rcReady |-> FALSE, rcDone |-> FALSE, ncDone |-> FALSE,
     firstreplaymsg |-> 0, firstreplaymsgid |-> 0,
     lastreplaymsg |-> 0, lastreplaymsgid |-> 0, lastmsg |-> 0, lastmsgid |-> 0]

subscriptionQ == {s \in Sessions : subs[s].state # "none"}

Init ==
    /\ now = 1
    /\ log = <<>>
    /\ oldest = 1
    /\ subs = [s \in Sessions |-> NoSubscription]
    /\ sending = FALSE
    /\ sendtotal = 0
    /\ delivered = [s \in Sessions |-> <<>>]
    /\ scope = [s \in Sessions |-> 0]

-----------------------------------------------------------------------------
(* The buffer.                                                             *)

\* Faulty variant: the place of live delivery keeps its pointer.
ForgetReplay(sub) ==
    LET Kept(p) == IF p = oldest THEN 0 ELSE p
    IN  [sub EXCEPT !.firstreplaymsg = Kept(@), !.lastreplaymsg = Kept(@)]

\* A full buffer loses its oldest message, and no subscription keeps a
\* pointer to it.
Forget(sub) ==
    LET Kept(p) == IF p = oldest THEN 0 ELSE p
    IN  [sub EXCEPT !.firstreplaymsg = Kept(@), !.lastreplaymsg = Kept(@), !.lastmsg = Kept(@)]

Full == EventlogSize # 0 /\ msgid + 1 - oldest = EventlogSize

\* The subscriptions after a message is queued.
Queued == IF Full THEN [s \in Sessions |-> Forget(subs[s])] ELSE subs

Queue(type) ==
    /\ msgid < MaxEvents
    /\ log' = Append(log, [eventTime |-> now, type |-> type])
    /\ oldest' = IF Full THEN oldest + 1 ELSE oldest

\* Any part of the server logs an event while it handles a message or a timer.
LogEvent(type) ==
    /\ ~sending
    /\ Queue(type)
    /\ subs' = Queued
    /\ UNCHANGED <<now, sending, sendtotal, history>>

\* A session ends: that is an event, and then its subscription is removed.
EndSession(s) ==
    /\ ~sending /\ s \in subscriptionQ
    /\ Queue(SessionEnd)
    /\ subs' = [Queued EXCEPT ![s] = NoSubscription]
    /\ delivered' = [delivered EXCEPT ![s] = <<>>]
    /\ scope' = [scope EXCEPT ![s] = 0]
    /\ UNCHANGED <<now, sending, sendtotal>>

Tick ==
    /\ now < MaxTime
    /\ now' = now + 1
    /\ UNCHANGED <<buffer, subs, sending, sendtotal, history>>

\* The first of some messages, 0 when there is none.
FirstOf(found) == IF found = {} THEN 0 ELSE Min(found)

get_entry_after(id) == FirstOf({n \in notificationQ : n > id})

-----------------------------------------------------------------------------
(* Subscribing.                                                            *)

\* Faulty variant: only messages after the start are replayed.
ReplayStartAfter(start) == FirstOf({n \in notificationQ : start < log[n].eventTime})

\* Where a replay starts: the first message that is not before the start.
ReplayStart(start) == FirstOf({n \in notificationQ : start <= log[n].eventTime})

\* Where it ends: the last message that is not after the stop.
ReplayEnd(first, stop) ==
    Max({first} \cup {n \in first .. msgid : log[n].eventTime <= stop})

Requested(start, stop, filter) ==
    [NoSubscription EXCEPT !.startTime = start, !.stopTime = stop, !.filter = filter,
                           !.futurestop = stop > now]

Live(sub) ==
    LET end == IF oldest <= msgid THEN msgid ELSE 0
    IN  [sub EXCEPT !.state = "live", !.lastmsg = end, !.lastmsgid = end]

Replay(sub) ==
    LET first == ReplayStart(sub.startTime)
        last  == CASE sub.stopTime = 0 -> 0
                   [] sub.futurestop -> msgid
                   [] OTHER -> ReplayEnd(first, sub.stopTime)
        over  == \/ first = 0
                 \/ sub.stopTime # 0 /\ ~sub.futurestop /\ sub.stopTime <= log[first].eventTime
    IN  IF over
        THEN [sub EXCEPT !.state = "replay", !.rcReady = TRUE]
        ELSE [sub EXCEPT !.state = "replay",
                         !.firstreplaymsg = first, !.firstreplaymsgid = first,
                         !.lastreplaymsg = last, !.lastreplaymsgid = last]

\* One subscription for a session, no start in the future, and a stop only
\* after a start.  The server sends a burst after it handled the request.
CreateSubscription(s, start, stop, filter) ==
    /\ ~sending /\ s \notin subscriptionQ
    /\ start <= now
    /\ stop # 0 => start # 0 /\ start <= stop
    /\ LET sub == Requested(start, stop, filter)
       IN  subs' = [subs EXCEPT ![s] = IF start = 0 THEN Live(sub) ELSE Replay(sub)]
    /\ delivered' = [delivered EXCEPT ![s] = <<>>]
    /\ scope' = [scope EXCEPT ![s] =
                    IF start = 0 THEN msgid + 1
                    ELSE Min({n \in notificationQ : log[n].eventTime >= start} \cup {msgid + 1})]
    /\ sending' = TRUE
    /\ UNCHANGED <<now, buffer, sendtotal>>

-----------------------------------------------------------------------------
(* Sending: one pass serves every subscription once.  What a pass does for *)
(* one of them is its new state, what is sent, and whether that counts.    *)

Outcome(sub, sent, counts) == [sub |-> sub, sent |-> sent, counts |-> counts]

\* The message to send next.
NextMessage(sub) ==
    CASE sub.lastmsg # 0 -> IF sub.lastmsg < msgid THEN sub.lastmsg + 1 ELSE 0
      [] sub.lastmsg = 0 /\ sub.lastmsgid # 0 -> get_entry_after(sub.lastmsgid)
      [] OTHER -> IF sub.state # "replay" THEN get_entry_after(0)
                  ELSE IF sub.firstreplaymsg # 0 THEN sub.firstreplaymsg
                  ELSE get_entry_after(sub.firstreplaymsgid)

At(sub, n) == [sub EXCEPT !.lastmsg = n, !.lastmsgid = n]

\* Faulty variant: a message that is denied is looked at again the next time.
PassingAllowed(s, sub, n, filter) ==
    IF log[n].type \notin Allowed[s] THEN Outcome(subs[s], <<>>, FALSE)
    ELSE Outcome(sub, IF log[n].type \in filter THEN <<n>> ELSE <<>>, TRUE)

\* Access control drops a message uncounted, a filter drops one counted.
Passing(s, sub, n, filter) ==
    IF log[n].type \notin Allowed[s] THEN Outcome(sub, <<>>, FALSE)
    ELSE Outcome(sub, IF log[n].type \in filter THEN <<n>> ELSE <<>>, TRUE)

\* Faulty variant: it is not remembered that replayComplete was sent.
CompletedUnnoticed(sub) == [sub EXCEPT !.rcReady = TRUE]

\* The replay is over, and replayComplete is sent.
Completed(sub) == [sub EXCEPT !.rcReady = TRUE, !.rcDone = TRUE]

\* What follows a replay.
Followed(sub) ==
    [sub EXCEPT !.state = IF sub.stopTime = 0 THEN "live"
                          ELSE IF sub.futurestop THEN "timed" ELSE @]

SendReplay(s, sub) ==
    LET n    == NextMessage(sub)
        last == \/ sub.lastreplaymsg = n
                \/ sub.lastreplaymsgid # 0 /\ sub.lastreplaymsgid <= n
    IN  CASE sub.rcReady /\ sub.rcDone /\ Followed(sub) # sub -> Outcome(Followed(sub), <<>>, FALSE)
          [] sub.rcReady /\ sub.rcDone /\ Followed(sub) = sub ->
               Outcome([sub EXCEPT !.state = "shutdown", !.ncDone = TRUE],
                       <<notificationComplete>>, TRUE)
          [] sub.rcReady /\ ~sub.rcDone -> Outcome(Completed(sub), <<replayComplete>>, TRUE)
          [] ~sub.rcReady /\ n # 0 ->
               Passing(s, [At(sub, n) EXCEPT !.rcReady = last], n, sub.filter)
          [] OTHER -> Outcome(Followed(Completed(sub)), <<replayComplete>>, TRUE)

SendLive(s, sub) ==
    LET n == NextMessage(sub)
    IN  IF n = 0 THEN Outcome(sub, <<>>, FALSE) ELSE Passing(s, At(sub, n), n, sub.filter)

\* Faulty variant: the stop is looked for in what is sent, never in the time.
SendTimedByEvents(s, sub) ==
    LET n   == NextMessage(sub)
        out == SendLive(s, sub)
    IN  IF n # 0 /\ sub.stopTime <= log[n].eventTime
        THEN [out EXCEPT !.sub.state = "shutdown"]
        ELSE out

\* As live, until the message just sent, or the time, has reached the stop.
SendTimed(s, sub) ==
    LET n   == NextMessage(sub)
        out == SendLive(s, sub)
    IN  IF sub.stopTime <= (IF n = 0 THEN now ELSE log[n].eventTime)
        THEN [out EXCEPT !.sub.state = "shutdown"]
        ELSE out

\* notificationComplete, and then the subscription is freed.
SendShutdown(sub) ==
    IF sub.stopTime # 0 /\ ~sub.ncDone
    THEN Outcome([sub EXCEPT !.ncDone = TRUE], <<notificationComplete>>, TRUE)
    ELSE Outcome(NoSubscription, <<>>, FALSE)

Served(s) ==
    CASE subs[s].state = "replay" -> SendReplay(s, subs[s])
      [] subs[s].state = "timed" -> SendTimed(s, subs[s])
      [] subs[s].state = "live" -> SendLive(s, subs[s])
      [] subs[s].state = "shutdown" -> SendShutdown(subs[s])
      [] OTHER -> Outcome(NoSubscription, <<>>, FALSE)

\* agt_not_clean_eventlog: the first message that some subscription may need.
Cleaned(left) ==
    LET places == {left[s].lastmsgid : s \in Sessions} \ {0}
    IN  IF places = {} THEN msgid + 1 ELSE Max({oldest, Min(places)})

\* A burst starts after a message is handled and when select() times out.
StartBurst ==
    /\ ~sending
    /\ sending' = TRUE
    /\ UNCHANGED <<now, buffer, subs, sendtotal, history>>

\* A pass; the burst ends when it sends nothing or the limit is reached.
SendNotifications ==
    LET out   == [s \in Sessions |-> Served(s)]
        left  == [s \in Sessions |-> out[s].sub]
        count == Cardinality({s \in Sessions : out[s].counts})
        total == sendtotal + count
        ends  == count = 0 \/ (MaxBurst # 0 /\ total >= MaxBurst)
    IN  /\ sending
        /\ subs' = left
        /\ delivered' = [s \in Sessions |-> delivered[s] \o out[s].sent]
        /\ sending' = ~ends
        /\ sendtotal' = IF ends THEN 0 ELSE total
        /\ oldest' = IF ends /\ EventlogSize = 0 THEN Cleaned(left) ELSE oldest
        /\ UNCHANGED <<now, log, scope>>

Next ==
    \/ \E t \in Types : LogEvent(t)
    \/ \E s \in Sessions : EndSession(s)
    \/ Tick
    \/ \E s \in Sessions, start, stop \in 0 .. MaxTime, filter \in Filters :
          CreateSubscription(s, start, stop, filter)
    \/ StartBurst
    \/ SendNotifications

Spec == Init /\ [][Next]_vars

\* Time passes, select() returns or times out, and a burst goes on by itself.
FairSpec == Spec /\ WF_vars(Tick) /\ WF_vars(StartBurst) /\ WF_vars(SendNotifications)

-----------------------------------------------------------------------------
(* Properties.                                                             *)

Subscriptions ==
    [state: {"none", "replay", "timed", "live", "shutdown"},
     startTime: 0 .. MaxTime, stopTime: 0 .. MaxTime, futurestop: BOOLEAN,
     filter: Filters \cup {{}}, rcReady: BOOLEAN, rcDone: BOOLEAN, ncDone: BOOLEAN,
     firstreplaymsg: 0 .. msgid, firstreplaymsgid: 0 .. msgid,
     lastreplaymsg: 0 .. msgid, lastreplaymsgid: 0 .. msgid,
     lastmsg: 0 .. msgid, lastmsgid: 0 .. msgid]

\* Type invariant.  The buffer is within its size, which agt_not.c asserts when
\* it queues, its ids are in the order of time, and the pointer and the id of a
\* place never name two messages.
TypeOK ==
    /\ now \in 1 .. MaxTime
    /\ log \in Seq([eventTime: 1 .. now, type: Types])
    /\ \A n \in 1 .. msgid, m \in 1 .. msgid : n <= m => log[n].eventTime <= log[m].eventTime
    /\ oldest \in 1 .. msgid + 1
    /\ EventlogSize # 0 => msgid + 1 - oldest <= EventlogSize
    /\ subs \in [Sessions -> Subscriptions]
    /\ \A s \in Sessions : subs[s].lastmsg \in {0, subs[s].lastmsgid}
    /\ sending \in BOOLEAN
    /\ sendtotal \in Nat
    /\ delivered \in [Sessions -> Seq(-1 .. msgid)]
    /\ scope \in [Sessions -> 0 .. msgid + 1]

\* The message a subscription will be read from next is never one that the
\* buffer has freed, whoever filled or cleaned the buffer in between
\* (delete_oldest_notification, agt_not_clean_eventlog).
PlacesAreQueued ==
    \A s \in subscriptionQ :
        /\ subs[s].lastmsg # 0 => subs[s].lastmsg \in notificationQ
        /\ subs[s].lastmsgid = 0 /\ subs[s].firstreplaymsg # 0
             => subs[s].firstreplaymsg \in notificationQ

\* A client never gets an event twice or out of order, one replayComplete if
\* it asked for a replay and none otherwise, and notificationComplete only as
\* the last thing; a subscription that ends by itself has said so.
WellFormed ==
    \A s \in Sessions :
        LET got == delivered[s]
        IN  /\ \A i, j \in 1 .. Len(got) : i < j /\ got[i] > 0 /\ got[j] > 0 => got[i] < got[j]
            /\ \A i, j \in 1 .. Len(got) : got[i] = replayComplete /\ got[j] = replayComplete => i = j
            /\ \A i \in 1 .. Len(got) : got[i] = notificationComplete => i = Len(got)
            /\ s \in subscriptionQ =>
                 (replayComplete \in Range(got) <=> subs[s].startTime # 0 /\ subs[s].rcDone)
            /\ s \notin subscriptionQ /\ got # <<>> =>
                 replayComplete \in Range(got) /\ Last(got) = notificationComplete

\* The events a subscription asks for.
Wanted(s) ==
    {n \in scope[s] .. msgid :
        /\ log[n].type \in Allowed[s] \cap subs[s].filter
        /\ subs[s].stopTime # 0 => log[n].eventTime < subs[s].stopTime}

Overrun(n) == EventlogSize # 0 /\ msgid - n >= EventlogSize

\* An event a subscription asks for is sent, or is still queued ahead of its
\* place, or was pushed out by as many newer ones as the buffer holds.
NoneIsSkipped ==
    \A s \in subscriptionQ : \A n \in Wanted(s) :
        \/ n \in Range(delivered[s])
        \/ n \in notificationQ /\ n > subs[s].lastmsgid /\ subs[s].state # "shutdown"
        \/ Overrun(n)

\* A subscription with a stop time comes to its end: the time passes and the
\* bursts go on, whatever is logged meanwhile.
StopsInTime ==
    \A s \in Sessions :
        (s \in subscriptionQ /\ subs[s].stopTime # 0) ~> (s \notin subscriptionQ)

\* An event that a subscription asks for is in the end sent or overrun, unless
\* the subscription is over: no limit on bursts starves a session.
SentInTheEnd ==
    \A s \in Sessions, n \in 1 .. MaxEvents :
        (s \in subscriptionQ /\ n \in Wanted(s))
          ~> (s \notin subscriptionQ \/ n \in Range(delivered[s]) \/ Overrun(n))
=============================================================================
