------------------------ MODULE NotificationsProofs ------------------------
(***************************************************************************)
(* Proofs about Notifications, for any sessions, types of events, filters, *)
(* sizes of the buffer and lengths of a burst.                             *)
(***************************************************************************)
EXTENDS Notifications, Extremes, SequenceTheorems, FiniteSetTheorems

USE NotificationsAssumption
-----------------------------------------------------------------------------
(***************************************************************************)
(* The buffer.  It holds every message or as many as fit, in the order of  *)
(* time.                                                                   *)
(***************************************************************************)

Events == [eventTime: 1 .. now, type: Types]

Buffer ==
    /\ now \in 1 .. MaxTime
    /\ log \in Seq(Events)
    /\ \A n \in 1 .. msgid, m \in 1 .. msgid : n =< m => log[n].eventTime =< log[m].eventTime
    /\ oldest \in 1 .. msgid + 1
    /\ EventlogSize # 0 => msgid + 1 - oldest =< EventlogSize
    /\ EventlogSize # 0 => oldest = 1 \/ msgid + 1 - oldest = EventlogSize

LEMMA LogType ==
    ASSUME Buffer
    PROVE  /\ msgid \in Nat
           /\ \A n \in 1 .. msgid : log[n] \in Events /\ log[n].eventTime \in 1 .. now
           /\ notificationQ \in SUBSET Nat
           /\ \A n : n \in notificationQ <=> n \in Nat /\ n >= oldest /\ n =< msgid
<1>1. msgid \in Nat
  BY LenProperties DEF Buffer, msgid
<1>2. ASSUME NEW n \in 1 .. msgid
      PROVE  log[n] \in Events /\ log[n].eventTime \in 1 .. now
  <2>1. log[n] \in Events
    BY <1>2, ElementOfSeq DEF Buffer, msgid
  <2>2. QED
    BY <2>1 DEF Events
<1>3. QED
  BY <1>1, <1>2 DEF Buffer, notificationQ

\* What logging an event does to the buffer.
LEMMA QueueLog ==
    ASSUME Buffer, NEW type \in Types, Queue(type), UNCHANGED now
    PROVE  /\ Buffer'
           /\ msgid' = msgid + 1
           /\ \A n \in 1 .. msgid : log'[n] = log[n]
           /\ log'[msgid + 1] = [eventTime |-> now, type |-> type]
<1> DEFINE e == [eventTime |-> now, type |-> type]
<1>1. e \in Events /\ log \in Seq(Events) /\ Events' = Events
  BY DEF Buffer, Events
<1>2. log' = Append(log, e)
  BY DEF Queue
<1>3. /\ log' \in Seq(Events)
      /\ Len(log') = Len(log) + 1
      /\ \A n \in 1 .. Len(log) : log'[n] = log[n]
      /\ log'[Len(log) + 1] = e
  BY <1>1, <1>2, AppendProperties
<1>4. msgid' = msgid + 1
  BY <1>3 DEF msgid
<1>5. ASSUME NEW n \in 1 .. msgid', NEW m \in 1 .. msgid', n =< m
      PROVE  log'[n].eventTime =< log'[m].eventTime
  <2>1. CASE m =< msgid
    <3>1. n \in 1 .. msgid /\ m \in 1 .. msgid
      BY <1>4, <1>5, <2>1, LogType
    <3>2. QED
      BY <1>3, <1>5, <3>1 DEF Buffer, msgid
  <2>2. CASE m = msgid + 1
    <3>1. log'[m].eventTime = now
      BY <1>3, <2>2 DEF msgid
    <3>2. CASE n = msgid + 1
      BY <2>2, <3>1, <3>2 DEF Buffer
    <3>3. CASE n \in 1 .. msgid
      <4>1. log'[n].eventTime = log[n].eventTime
        BY <1>3, <3>3 DEF msgid
      <4>2. log[n].eventTime \in 1 .. now
        BY <3>3, LogType
      <4>3. QED
        BY <3>1, <4>1, <4>2 DEF Buffer
    <3>4. QED
      BY <1>4, <1>5, <3>2, <3>3, LogType
  <2>3. QED
    BY <1>4, <1>5, <2>1, <2>2, LogType
<1>6. /\ oldest' \in 1 .. msgid' + 1
      /\ EventlogSize # 0 => msgid' + 1 - oldest' =< EventlogSize
      /\ EventlogSize # 0 => oldest' = 1 \/ msgid' + 1 - oldest' = EventlogSize
  <2>1. oldest' = IF Full THEN oldest + 1 ELSE oldest
    BY DEF Queue
  <2>2. msgid \in Nat
    BY LogType
  <2>3. QED
    BY <1>4, <2>1, <2>2 DEF Buffer, Full
<1>7. QED
  BY <1>1, <1>3, <1>4, <1>5, <1>6 DEF Buffer, msgid
-----------------------------------------------------------------------------
(***************************************************************************)
(* The place of a subscription.  Its pointer and its id never name two     *)
(* messages, the pointer leads into the buffer, and so does the start of a *)
(* replay nothing of which was sent.                                       *)
(***************************************************************************)

SubsOf(top) ==
    [state: {"none", "replay", "timed", "live", "shutdown"},
     startTime: 0 .. MaxTime, stopTime: 0 .. MaxTime, futurestop: BOOLEAN,
     filter: Filters \cup {{}}, rcReady: BOOLEAN, rcDone: BOOLEAN, ncDone: BOOLEAN,
     firstreplaymsg: 0 .. top, firstreplaymsgid: 0 .. top,
     lastreplaymsg: 0 .. top, lastreplaymsgid: 0 .. top,
     lastmsg: 0 .. top, lastmsgid: 0 .. top]

Place(sub, old, top) ==
    /\ sub \in SubsOf(top)
    /\ sub.lastmsg \in {0, sub.lastmsgid}
    /\ sub.lastmsg # 0 => sub.lastmsg >= old
    /\ sub.lastmsgid = 0 /\ sub.firstreplaymsg # 0 =>
          sub.firstreplaymsg >= old /\ sub.state = "replay" /\ ~sub.rcReady

\* The first message after an id.
LEMMA EntryAfter ==
    ASSUME Buffer, NEW id \in Nat
    PROVE  \/ get_entry_after(id) = 0 /\ \A n \in notificationQ : n =< id
           \/ /\ get_entry_after(id) \in notificationQ
              /\ get_entry_after(id) > id
              /\ \A n \in notificationQ : n > id => n >= get_entry_after(id)
<1> DEFINE found == {n \in notificationQ : n > id}
<1>1. found \in SUBSET Nat /\ notificationQ \in SUBSET Nat
  BY LogType
<1>2. get_entry_after(id) = IF found = {} THEN 0 ELSE Min(found)
  BY DEF get_entry_after, FirstOf
<1>3. found # {} => Min(found) \in found /\ \A n \in found : Min(found) =< n
  BY <1>1, MinIsLeast
<1>4. QED
  BY <1>1, <1>2, <1>3

\* The next message is in the buffer and after the place.
LEMMA NextIs ==
    ASSUME Buffer, NEW sub, Place(sub, oldest, msgid)
    PROVE  \/ NextMessage(sub) = 0
           \/ /\ NextMessage(sub) \in notificationQ
              /\ NextMessage(sub) \in 1 .. msgid
              /\ NextMessage(sub) > sub.lastmsgid
<1>1. /\ msgid \in Nat /\ oldest \in Nat \ {0}
      /\ \A n : n \in notificationQ <=> n \in Nat /\ n >= oldest /\ n =< msgid
  BY LogType DEF Buffer
<1>2. /\ sub.lastmsg \in 0 .. msgid /\ sub.lastmsgid \in 0 .. msgid
      /\ sub.firstreplaymsg \in 0 .. msgid /\ sub.firstreplaymsgid \in 0 .. msgid
      /\ sub.lastmsg # 0 => sub.lastmsg = sub.lastmsgid /\ sub.lastmsg >= oldest
      /\ sub.lastmsgid = 0 /\ sub.firstreplaymsg # 0 => sub.firstreplaymsg >= oldest
  BY DEF Place, SubsOf
<1>3. \A id \in 0 .. msgid : \/ get_entry_after(id) = 0
                             \/ get_entry_after(id) \in notificationQ /\ get_entry_after(id) > id
  BY <1>1, EntryAfter
<1>4. CASE sub.lastmsg # 0
  BY <1>1, <1>2, <1>4 DEF NextMessage
<1>5. CASE sub.lastmsg = 0 /\ sub.lastmsgid # 0
  <2>1. NextMessage(sub) = get_entry_after(sub.lastmsgid)
    BY <1>5 DEF NextMessage
  <2>2. QED
    BY <1>1, <1>2, <1>3, <2>1
<1>6. CASE sub.lastmsg = 0 /\ sub.lastmsgid = 0
  <2>1. NextMessage(sub) \in {get_entry_after(0), sub.firstreplaymsg,
                              get_entry_after(sub.firstreplaymsgid)}
        /\ (NextMessage(sub) = sub.firstreplaymsg =>
              NextMessage(sub) = 0 \/ sub.firstreplaymsg # 0)
    BY <1>6 DEF NextMessage
  <2>2. 0 \in 0 .. msgid
    BY <1>1
  <2>3. QED
    BY <1>1, <1>2, <1>3, <1>6, <2>1, <2>2
<1>7. QED
  BY <1>4, <1>5, <1>6
-----------------------------------------------------------------------------
(***************************************************************************)
(* What a pass does for one subscription: it reads a message, waits,       *)
(* completes a replay, says that the subscription is over, or frees it.    *)
(***************************************************************************)

\* What a subscription asked for stays.
Kept(sub, new) ==
    /\ new.startTime = sub.startTime /\ new.stopTime = sub.stopTime
    /\ new.futurestop = sub.futurestop /\ new.filter = sub.filter
    /\ new.firstreplaymsg = sub.firstreplaymsg
    /\ new.firstreplaymsgid = sub.firstreplaymsgid
    /\ new.lastreplaymsg = sub.lastreplaymsg
    /\ new.lastreplaymsgid = sub.lastreplaymsgid

SamePlace(sub, new) == new.lastmsg = sub.lastmsg /\ new.lastmsgid = sub.lastmsgid

SameMarks(sub, new) ==
    new.rcReady = sub.rcReady /\ new.rcDone = sub.rcDone /\ new.ncDone = sub.ncDone

\* The message is the last one of the replay.
LastOfReplay(sub, n) ==
    sub.lastreplaymsg = n \/ (sub.lastreplaymsgid # 0 /\ sub.lastreplaymsgid =< n)

Reads(s, sub, new, sent) ==
    LET n == NextMessage(sub)
    IN  /\ n # 0
        /\ new.lastmsg = n /\ new.lastmsgid = n
        /\ sent \in {<<>>, <<n>>}
        /\ log[n].type \in Allowed[s] \cap sub.filter => sent = <<n>>
        /\ new.rcDone = sub.rcDone /\ new.ncDone = sub.ncDone
        /\ \/ /\ sub.state = "replay" /\ new.state = "replay"
              /\ ~sub.rcReady /\ (new.rcReady <=> LastOfReplay(sub, n))
           \/ /\ sub.state = "live" /\ new.state = "live"
              /\ new.rcReady = sub.rcReady
           \/ /\ sub.state = "timed"
              /\ new.state = IF sub.stopTime =< log[n].eventTime THEN "shutdown" ELSE "timed"
              /\ new.rcReady = sub.rcReady

Waits(sub, new, sent) ==
    /\ SamePlace(sub, new) /\ SameMarks(sub, new)
    /\ sent = <<>>
    /\ \/ sub.state = "live" /\ new.state = "live" /\ NextMessage(sub) = 0
       \/ /\ sub.state = "timed" /\ NextMessage(sub) = 0
          /\ new.state = IF sub.stopTime =< now THEN "shutdown" ELSE "timed"
       \/ /\ sub.state = "replay" /\ sub.rcReady /\ sub.rcDone
          /\ \/ sub.stopTime = 0 /\ new.state = "live"
             \/ sub.stopTime # 0 /\ sub.futurestop /\ new.state = "timed"

Completes(sub, new, sent) ==
    /\ SamePlace(sub, new)
    /\ sub.state = "replay" /\ (sub.rcReady => ~sub.rcDone)
    /\ new.rcReady = TRUE /\ new.rcDone = TRUE /\ new.ncDone = sub.ncDone
    /\ sent = <<replayComplete>>
    /\ \/ sub.rcReady /\ new.state = "replay"
       \/ /\ ~sub.rcReady /\ NextMessage(sub) = 0
          /\ new.state = IF sub.stopTime = 0 THEN "live"
                         ELSE IF sub.futurestop THEN "timed" ELSE "replay"

Finishes(sub, new, sent) ==
    /\ SamePlace(sub, new)
    /\ new.rcReady = sub.rcReady /\ new.rcDone = sub.rcDone /\ new.ncDone = TRUE
    /\ sent = <<notificationComplete>>
    /\ new.state = "shutdown" /\ sub.stopTime # 0
    /\ \/ sub.state = "replay" /\ sub.rcReady /\ sub.rcDone /\ ~sub.futurestop
       \/ sub.state = "shutdown" /\ ~sub.ncDone

Frees(sub, new, sent) ==
    /\ new = NoSubscription /\ sent = <<>>
    /\ sub.state = "none" \/ (sub.state = "shutdown" /\ (sub.stopTime = 0 \/ sub.ncDone))

Moves(s, sub, new, sent) ==
    \/ Frees(sub, new, sent)
    \/ /\ new \in SubsOf(msgid) /\ Kept(sub, new)
       /\ \/ Reads(s, sub, new, sent)
          \/ Waits(sub, new, sent)
          \/ Completes(sub, new, sent)
          \/ Finishes(sub, new, sent)

\* Moving a place.
LEMMA AtIs ==
    ASSUME NEW top \in Nat, NEW sub \in SubsOf(top), NEW n \in 0 .. top
    PROVE  /\ At(sub, n) \in SubsOf(top)
           /\ Kept(sub, At(sub, n)) /\ SameMarks(sub, At(sub, n))
           /\ At(sub, n).state = sub.state
           /\ At(sub, n).lastmsg = n /\ At(sub, n).lastmsgid = n
BY DEF At, SubsOf, Kept, SameMarks

\* What is sent of a message that is read.
LEMMA PassingIs ==
    ASSUME NEW s, NEW sub, NEW n, NEW filter
    PROVE  /\ Passing(s, sub, n, filter).sub = sub
           /\ Passing(s, sub, n, filter).sent \in {<<>>, <<n>>}
           /\ log[n].type \in Allowed[s] \cap filter =>
                 Passing(s, sub, n, filter).sent = <<n>>
BY DEF Passing, Outcome

LEMMA LiveIs ==
    ASSUME Buffer, NEW s, NEW sub, Place(sub, oldest, msgid)
    PROVE  LET n == NextMessage(sub)
               out == SendLive(s, sub)
           IN  /\ out.sub \in SubsOf(msgid) /\ Kept(sub, out.sub) /\ SameMarks(sub, out.sub)
               /\ out.sub.state = sub.state
               /\ n = 0 => out.sent = <<>> /\ SamePlace(sub, out.sub)
               /\ n # 0 => /\ out.sub.lastmsg = n /\ out.sub.lastmsgid = n
                           /\ out.sent \in {<<>>, <<n>>}
                           /\ log[n].type \in Allowed[s] \cap sub.filter => out.sent = <<n>>
<1> DEFINE n == NextMessage(sub)
           out == SendLive(s, sub)
<1>1. sub \in SubsOf(msgid) /\ msgid \in Nat /\ n \in 0 .. msgid
  BY NextIs, LogType DEF Place
<1>2. CASE n = 0
  <2>1. out = Outcome(sub, <<>>, FALSE)
    BY <1>2 DEF SendLive
  <2>2. out.sub = sub /\ out.sent = <<>>
    BY <2>1 DEF Outcome
  <2>3. QED
    BY <1>1, <1>2, <2>2 DEF Kept, SameMarks, SamePlace
<1>3. CASE n # 0
  <2>1. out = Passing(s, At(sub, n), n, sub.filter)
    BY <1>3 DEF SendLive
  <2>2. QED
    BY <1>1, <1>3, <2>1, AtIs, PassingIs
<1>4. QED
  BY <1>2, <1>3

LEMMA TimedIs ==
    ASSUME Buffer, NEW s, NEW sub, Place(sub, oldest, msgid), sub.state = "timed"
    PROVE  LET out == SendTimed(s, sub)
           IN  /\ out.sub \in SubsOf(msgid) /\ Kept(sub, out.sub)
               /\ Reads(s, sub, out.sub, out.sent) \/ Waits(sub, out.sub, out.sent)
<1> DEFINE n == NextMessage(sub)
           live == SendLive(s, sub)
           out == SendTimed(s, sub)
           stops == sub.stopTime =< (IF n = 0 THEN now ELSE log[n].eventTime)
<1>1. /\ live.sub \in SubsOf(msgid) /\ Kept(sub, live.sub) /\ SameMarks(sub, live.sub)
      /\ live.sub.state = "timed"
      /\ n = 0 => live.sent = <<>> /\ SamePlace(sub, live.sub)
      /\ n # 0 => /\ live.sub.lastmsg = n /\ live.sub.lastmsgid = n
                  /\ live.sent \in {<<>>, <<n>>}
                  /\ log[n].type \in Allowed[s] \cap sub.filter => live.sent = <<n>>
  BY LiveIs
<1>2. live = [sub |-> live.sub, sent |-> live.sent, counts |-> live.counts]
  BY DEF SendLive, Passing, Outcome
<1>3. out = IF stops THEN [live EXCEPT !.sub.state = "shutdown"] ELSE live
  BY DEF SendTimed
<1> HIDE DEF live, n, out
<1>4. /\ out.sent = live.sent
      /\ out.sub = IF stops THEN [live.sub EXCEPT !.state = "shutdown"] ELSE live.sub
  BY <1>2, <1>3
<1>5. /\ out.sub \in SubsOf(msgid) /\ Kept(sub, out.sub) /\ SameMarks(sub, out.sub)
      /\ out.sub.state = IF stops THEN "shutdown" ELSE "timed"
      /\ out.sub.lastmsg = live.sub.lastmsg /\ out.sub.lastmsgid = live.sub.lastmsgid
  <2>1. CASE stops
    BY <1>1, <1>4, <2>1 DEF SubsOf, Kept, SameMarks
  <2>2. CASE ~stops
    BY <1>1, <1>4, <2>2
  <2>3. QED
    BY <2>1, <2>2
<1>6. CASE n = 0
  <2>1. Waits(sub, out.sub, out.sent)
    BY <1>1, <1>4, <1>5, <1>6 DEF Waits, SamePlace, n
  <2>2. QED
    BY <1>5, <2>1 DEF out
<1>7. CASE n # 0
  <2>1. Reads(s, sub, out.sub, out.sent)
    BY <1>1, <1>4, <1>5, <1>7 DEF Reads, SameMarks, n
  <2>2. QED
    BY <1>5, <2>1 DEF out
<1>8. QED
  BY <1>6, <1>7

\* What follows a replay, and its completion.
LEMMA FollowedIs ==
    ASSUME NEW top \in Nat, NEW sub \in SubsOf(top), sub.state = "replay"
    PROVE  LET new == Followed(sub)
           IN  /\ new \in SubsOf(top) /\ Kept(sub, new)
               /\ SameMarks(sub, new) /\ SamePlace(sub, new)
               /\ new.state = IF sub.stopTime = 0 THEN "live"
                              ELSE IF sub.futurestop THEN "timed" ELSE "replay"
               /\ Followed(sub) = sub <=> sub.stopTime # 0 /\ ~sub.futurestop
<1>1. Followed(sub).state = IF sub.stopTime = 0 THEN "live"
                            ELSE IF sub.futurestop THEN "timed" ELSE "replay"
  BY DEF Followed, SubsOf
<1>2. sub.stopTime # 0 /\ ~sub.futurestop => Followed(sub) = sub
  BY DEF Followed, SubsOf
<1>3. Followed(sub) \in SubsOf(top)
  BY DEF Followed, SubsOf
<1>4. Kept(sub, Followed(sub)) /\ SameMarks(sub, Followed(sub)) /\ SamePlace(sub, Followed(sub))
  BY DEF Followed, SubsOf, Kept, SameMarks, SamePlace
<1>5. sub.futurestop \in BOOLEAN
  BY DEF SubsOf
<1>6. QED
  BY <1>1, <1>2, <1>3, <1>4, <1>5

LEMMA CompletedIs ==
    ASSUME NEW top \in Nat, NEW sub \in SubsOf(top)
    PROVE  LET new == Completed(sub)
           IN  /\ new \in SubsOf(top) /\ Kept(sub, new) /\ SamePlace(sub, new)
               /\ new.state = sub.state
               /\ new.rcReady = TRUE /\ new.rcDone = TRUE /\ new.ncDone = sub.ncDone
BY DEF Completed, SubsOf, Kept, SamePlace

LEMMA ReplayIs ==
    ASSUME Buffer, NEW s, NEW sub, Place(sub, oldest, msgid), sub.state = "replay"
    PROVE  LET out == SendReplay(s, sub)
           IN  /\ out.sub \in SubsOf(msgid) /\ Kept(sub, out.sub)
               /\ \/ Reads(s, sub, out.sub, out.sent)
                  \/ Waits(sub, out.sub, out.sent)
                  \/ Completes(sub, out.sub, out.sent)
                  \/ Finishes(sub, out.sub, out.sent)
<1> DEFINE n == NextMessage(sub)
           out == SendReplay(s, sub)
           last == LastOfReplay(sub, n)
<1>1. /\ sub \in SubsOf(msgid) /\ msgid \in Nat /\ n \in 0 .. msgid
      /\ {sub.rcReady, sub.rcDone, sub.ncDone, sub.futurestop, last} \subseteq BOOLEAN
  BY NextIs, LogType DEF Place, SubsOf, LastOfReplay
<1>2. CASE sub.rcReady /\ sub.rcDone /\ Followed(sub) # sub
  <2>1. out = Outcome(Followed(sub), <<>>, FALSE)
    BY <1>2 DEF SendReplay
  <2>2. out.sub = Followed(sub) /\ out.sent = <<>>
    BY <2>1 DEF Outcome
  <2>3. Waits(sub, out.sub, out.sent)
    BY <1>1, <1>2, <2>2, FollowedIs DEF Waits
  <2>4. QED
    BY <1>1, <2>2, <2>3, FollowedIs
<1>3. CASE sub.rcReady /\ sub.rcDone /\ Followed(sub) = sub
  <2> DEFINE over == [sub EXCEPT !.state = "shutdown", !.ncDone = TRUE]
  <2>1. out = Outcome(over, <<notificationComplete>>, TRUE)
    BY <1>3 DEF SendReplay
  <2>2. out.sub = over /\ out.sent = <<notificationComplete>>
    BY <2>1 DEF Outcome
  <2>3. /\ over \in SubsOf(msgid) /\ Kept(sub, over) /\ SamePlace(sub, over)
        /\ over.state = "shutdown" /\ over.ncDone = TRUE
        /\ over.rcReady = sub.rcReady /\ over.rcDone = sub.rcDone
    BY <1>1 DEF SubsOf, Kept, SamePlace
  <2>4. sub.stopTime # 0 /\ ~sub.futurestop
    BY <1>1, <1>3, FollowedIs
  <2>5. Finishes(sub, out.sub, out.sent)
    BY <1>3, <2>2, <2>3, <2>4 DEF Finishes
  <2>6. QED
    BY <2>2, <2>3, <2>5
<1>4. CASE sub.rcReady /\ ~sub.rcDone
  <2>1. out = Outcome(Completed(sub), <<replayComplete>>, TRUE)
    BY <1>4 DEF SendReplay
  <2>2. out.sub = Completed(sub) /\ out.sent = <<replayComplete>>
    BY <2>1 DEF Outcome
  <2>3. Completes(sub, out.sub, out.sent)
    BY <1>1, <1>4, <2>2, CompletedIs DEF Completes
  <2>4. QED
    BY <1>1, <2>2, <2>3, CompletedIs
<1>5. CASE ~sub.rcReady /\ n # 0
  <2> DEFINE read == [At(sub, n) EXCEPT !.rcReady = last]
  <2>1. out = Passing(s, read, n, sub.filter)
    BY <1>5 DEF SendReplay, LastOfReplay
  <2>2. /\ out.sub = read
        /\ out.sent \in {<<>>, <<n>>}
        /\ log[n].type \in Allowed[s] \cap sub.filter => out.sent = <<n>>
    BY <2>1, PassingIs
  <2>3. /\ At(sub, n) \in SubsOf(msgid)
        /\ Kept(sub, At(sub, n)) /\ SameMarks(sub, At(sub, n))
        /\ At(sub, n).state = "replay"
        /\ At(sub, n).lastmsg = n /\ At(sub, n).lastmsgid = n
    BY <1>1, AtIs
  <2>4. /\ read \in SubsOf(msgid) /\ Kept(sub, read) /\ read.state = "replay"
        /\ read.rcReady = last /\ read.rcDone = sub.rcDone /\ read.ncDone = sub.ncDone
        /\ read.lastmsg = n /\ read.lastmsgid = n
    <3> HIDE DEF n, last
    <3>1. last \in BOOLEAN
      BY <1>1
    <3>2. QED
      BY <2>3, <3>1 DEF SubsOf, Kept, SameMarks
  <2>5. Reads(s, sub, out.sub, out.sent)
    <3> HIDE DEF read
    <3>1. QED
      BY <1>1, <1>5, <2>2, <2>4 DEF Reads
  <2>6. QED
    BY <2>2, <2>4, <2>5
<1>6. CASE ~sub.rcReady /\ n = 0
  <2> DEFINE done == Completed(sub)
  <2>1. out = Outcome(Followed(done), <<replayComplete>>, TRUE)
    BY <1>6 DEF SendReplay
  <2>2. out.sub = Followed(done) /\ out.sent = <<replayComplete>>
    BY <2>1 DEF Outcome
  <2>3. /\ done \in SubsOf(msgid) /\ Kept(sub, done) /\ SamePlace(sub, done)
        /\ done.state = "replay"
        /\ done.rcReady = TRUE /\ done.rcDone = TRUE /\ done.ncDone = sub.ncDone
    BY <1>1, CompletedIs
  <2> HIDE DEF done
  <2>4. /\ Followed(done) \in SubsOf(msgid) /\ Kept(done, Followed(done))
        /\ SameMarks(done, Followed(done)) /\ SamePlace(done, Followed(done))
        /\ Followed(done).state = IF done.stopTime = 0 THEN "live"
                                  ELSE IF done.futurestop THEN "timed" ELSE "replay"
    BY <1>1, <2>3, FollowedIs
  <2>5. Kept(sub, Followed(done)) /\ SamePlace(sub, Followed(done))
    BY <2>3, <2>4 DEF Kept, SamePlace
  <2>6. Completes(sub, out.sub, out.sent)
    BY <1>6, <2>2, <2>3, <2>4, <2>5 DEF Completes, SameMarks, Kept
  <2>7. QED
    BY <2>2, <2>4, <2>5, <2>6
<1>7. QED
  BY <1>1, <1>2, <1>3, <1>4, <1>5, <1>6

LEMMA ServedIs ==
    ASSUME Buffer, NEW s \in Sessions, Place(subs[s], oldest, msgid)
    PROVE  Moves(s, subs[s], Served(s).sub, Served(s).sent)
<1> DEFINE sub == subs[s]
           out == Served(s)
<1>1. /\ sub \in SubsOf(msgid)
      /\ sub.state \in {"none", "replay", "timed", "live", "shutdown"}
      /\ sub.ncDone \in BOOLEAN
  BY DEF Place, SubsOf
<1>2. CASE sub.state = "none"
  <2>1. out = Outcome(NoSubscription, <<>>, FALSE)
    BY <1>2 DEF Served
  <2>2. QED
    BY <1>2, <2>1 DEF Outcome, Moves, Frees
<1>3. CASE sub.state = "replay"
  <2>1. out = SendReplay(s, sub)
    BY <1>3 DEF Served
  <2>2. QED
    BY <1>3, <2>1, ReplayIs DEF Moves
<1>4. CASE sub.state = "timed"
  <2>1. out = SendTimed(s, sub)
    BY <1>4 DEF Served
  <2>2. QED
    BY <1>4, <2>1, TimedIs DEF Moves
<1>5. CASE sub.state = "live"
  <2>1. out = SendLive(s, sub)
    BY <1>5 DEF Served
  <2>2. CASE NextMessage(sub) = 0
    <3>1. Waits(sub, out.sub, out.sent)
      BY <1>5, <2>1, <2>2, LiveIs DEF Waits
    <3>2. QED
      BY <2>1, <3>1, LiveIs DEF Moves
  <2>3. CASE NextMessage(sub) # 0
    <3>1. Reads(s, sub, out.sub, out.sent)
      BY <1>5, <2>1, <2>3, LiveIs DEF Reads, SameMarks
    <3>2. QED
      BY <2>1, <3>1, LiveIs DEF Moves
  <2>4. QED
    BY <2>2, <2>3
<1>6. CASE sub.state = "shutdown"
  <2>1. out = SendShutdown(sub)
    BY <1>6 DEF Served
  <2>2. CASE sub.stopTime # 0 /\ ~sub.ncDone
    <3> DEFINE over == [sub EXCEPT !.ncDone = TRUE]
    <3>1. out.sub = over /\ out.sent = <<notificationComplete>>
      BY <2>1, <2>2 DEF SendShutdown, Outcome
    <3>2. /\ over \in SubsOf(msgid) /\ Kept(sub, over) /\ SamePlace(sub, over)
          /\ over.state = "shutdown" /\ over.ncDone = TRUE
          /\ over.rcReady = sub.rcReady /\ over.rcDone = sub.rcDone
      BY <1>1, <1>6 DEF SubsOf, Kept, SamePlace
    <3>3. Finishes(sub, out.sub, out.sent)
      BY <1>6, <2>2, <3>1, <3>2 DEF Finishes
    <3>4. QED
      BY <3>1, <3>2, <3>3 DEF Moves
  <2>3. CASE ~(sub.stopTime # 0 /\ ~sub.ncDone)
    BY <1>1, <1>6, <2>1, <2>3 DEF SendShutdown, Outcome, Moves, Frees
  <2>4. QED
    BY <2>2, <2>3
<1>7. QED
  BY <1>1, <1>2, <1>3, <1>4, <1>5, <1>6
-----------------------------------------------------------------------------
(***************************************************************************)
(* Places are kept by every step.                                          *)
(***************************************************************************)

LEMMA NoneIs ==
    ASSUME NEW top \in Nat
    PROVE  NoSubscription \in SubsOf(top)
BY DEF NoSubscription, SubsOf

LEMMA ShortSeq ==
    ASSUME NEW S
    PROVE  <<>> \in Seq(S) /\ \A x \in S : <<x>> \in Seq(S)
OBVIOUS

\* A pass keeps the place, and no replay is left at its start.
LEMMA MovesPlace ==
    ASSUME Buffer, NEW s, NEW sub, Place(sub, oldest, msgid), NEW new, NEW sent,
           Moves(s, sub, new, sent)
    PROVE  /\ Place(new, oldest, msgid)
           /\ new.firstreplaymsg # 0 => new.lastmsgid # 0
           /\ sent \in Seq(-1 .. msgid)
<1> DEFINE n == NextMessage(sub)
<1>1. /\ msgid \in Nat /\ oldest \in Nat /\ sub \in SubsOf(msgid)
      /\ sub.lastmsg \in {0, sub.lastmsgid} /\ (sub.lastmsg # 0 => sub.lastmsg >= oldest)
      /\ sub.lastmsgid = 0 /\ sub.firstreplaymsg # 0 => sub.state = "replay" /\ ~sub.rcReady
      /\ n = 0 \/ (n \in 1 .. msgid /\ n >= oldest)
  BY NextIs, LogType DEF Place, Buffer
<1>2. sub.lastmsgid = 0 /\ sub.firstreplaymsg # 0 => n # 0
  BY <1>1 DEF NextMessage
<1> HIDE DEF n
<1>3. CASE Frees(sub, new, sent)
  BY <1>1, <1>3, NoneIs DEF Frees, Place, NoSubscription
<1>4. CASE new \in SubsOf(msgid) /\ Kept(sub, new) /\ Reads(s, sub, new, sent)
  <2>1. n # 0 /\ new.lastmsg = n /\ new.lastmsgid = n /\ sent \in {<<>>, <<n>>}
    BY <1>4 DEF Reads, n
  <2>2. n \in -1 .. msgid
    BY <1>1, <2>1
  <2>3. sent \in Seq(-1 .. msgid)
    BY <2>1, <2>2, ShortSeq
  <2>4. QED
    BY <1>1, <1>4, <2>1, <2>3 DEF Place
<1>5. ASSUME new \in SubsOf(msgid), Kept(sub, new), SamePlace(sub, new),
             sub.lastmsgid = 0 /\ sub.firstreplaymsg # 0 => FALSE
      PROVE  Place(new, oldest, msgid) /\ (new.firstreplaymsg # 0 => new.lastmsgid # 0)
  BY <1>1, <1>5 DEF Place, Kept, SamePlace
<1>6. CASE new \in SubsOf(msgid) /\ Kept(sub, new) /\ Waits(sub, new, sent)
  BY <1>1, <1>5, <1>6 DEF Waits
<1>7. CASE new \in SubsOf(msgid) /\ Kept(sub, new) /\ Completes(sub, new, sent)
  <2>1. sent \in Seq(-1 .. msgid)
    BY <1>1, <1>7 DEF Completes, replayComplete
  <2>2. QED
    BY <1>1, <1>2, <1>5, <1>7, <2>1 DEF Completes, n
<1>8. CASE new \in SubsOf(msgid) /\ Kept(sub, new) /\ Finishes(sub, new, sent)
  <2>1. sent \in Seq(-1 .. msgid)
    BY <1>1, <1>8 DEF Finishes, notificationComplete
  <2>2. QED
    BY <1>1, <1>5, <1>8, <2>1 DEF Finishes
<1>9. QED
  BY <1>3, <1>4, <1>6, <1>7, <1>8 DEF Moves

\* Queueing a message keeps the places: those at the message that is dropped are
\* forgotten.
LEMMA QueuedPlace ==
    ASSUME Buffer, NEW type \in Types, Queue(type), UNCHANGED now,
           NEW s \in Sessions, Place(subs[s], oldest, msgid)
    PROVE  Place(Queued[s], oldest', msgid')
<1> DEFINE sub == subs[s]
           Kept1(p) == IF p = oldest THEN 0 ELSE p
<1>1. msgid \in Nat /\ msgid' = msgid + 1
  BY QueueLog, LogType
<1>2. oldest \in Nat \ {0} /\ sub \in SubsOf(msgid) /\ sub \in SubsOf(msgid')
  <2>1. oldest \in Nat \ {0} /\ sub \in SubsOf(msgid)
    BY <1>1 DEF Place, Buffer
  <2>2. QED
    BY <1>1, <2>1 DEF SubsOf
<1>3. CASE ~Full
  <2>1. oldest' = oldest /\ Queued[s] = sub
    BY <1>3 DEF Queue, Queued
  <2>2. QED
    BY <1>2, <2>1 DEF Place
<1>4. CASE Full
  <2>1. oldest' = oldest + 1 /\ Queued[s] = Forget(sub)
    BY <1>4 DEF Queue, Queued
  <2>2. /\ Forget(sub) \in SubsOf(msgid')
        /\ Forget(sub).state = sub.state /\ Forget(sub).rcReady = sub.rcReady
        /\ Forget(sub).lastmsgid = sub.lastmsgid
        /\ Forget(sub).lastmsg = Kept1(sub.lastmsg)
        /\ Forget(sub).firstreplaymsg = Kept1(sub.firstreplaymsg)
    <3>1. Forget(sub) = [sub EXCEPT !.firstreplaymsg = Kept1(sub.firstreplaymsg),
                                    !.lastreplaymsg = Kept1(sub.lastreplaymsg),
                                    !.lastmsg = Kept1(sub.lastmsg)]
      BY DEF Forget
    <3>2. /\ Kept1(sub.firstreplaymsg) \in 0 .. msgid' /\ Kept1(sub.lastreplaymsg) \in 0 .. msgid'
          /\ Kept1(sub.lastmsg) \in 0 .. msgid'
      BY <1>1, <1>2 DEF SubsOf
    <3> HIDE DEF Kept1
    <3>3. QED
      BY <1>2, <3>1, <3>2 DEF SubsOf
  <2>3. /\ sub.lastmsg \in Nat /\ sub.firstreplaymsg \in Nat
    BY <1>1, <1>2 DEF SubsOf
  <2>4. QED
    BY <1>1, <1>2, <2>1, <2>2, <2>3 DEF Place
<1>5. QED
  BY <1>3, <1>4

\* Places stay in the buffer that is cleaned after a burst.
LEMMA CleanedIs ==
    ASSUME Buffer, NEW left, \A s \in Sessions : Place(left[s], oldest, msgid)
    PROVE  /\ Cleaned(left) \in oldest .. msgid + 1
           /\ \A s \in Sessions : left[s].lastmsg # 0 => left[s].lastmsg >= Cleaned(left)
<1> DEFINE places == {left[s].lastmsgid : s \in Sessions} \ {0}
<1>1. /\ msgid \in Nat /\ oldest \in 1 .. msgid + 1
      /\ \A s \in Sessions : /\ left[s].lastmsgid \in 0 .. msgid
                             /\ left[s].lastmsg \in {0, left[s].lastmsgid}
                             /\ left[s].lastmsg # 0 => left[s].lastmsg >= oldest
  BY LogType DEF Place, SubsOf, Buffer
<1>2. /\ places \in SUBSET Nat /\ (\A p \in places : p =< msgid)
      /\ \A s \in Sessions : left[s].lastmsgid # 0 => left[s].lastmsgid \in places
  BY <1>1
<1>3. Cleaned(left) = IF places = {} THEN msgid + 1 ELSE Max({oldest, Min(places)})
  BY DEF Cleaned
<1> HIDE DEF places
<1>4. CASE places = {}
  BY <1>1, <1>2, <1>3, <1>4
<1>5. CASE places # {}
  <2>1. PICK least \in Nat :
          least = Min(places) /\ least =< msgid /\ \A p \in places : least =< p
    BY <1>2, <1>5, MinIsLeast
  <2>2. \E x \in {oldest, least} : \A y \in {oldest, least} : x >= y
    BY <1>1
  <2>3. Max({oldest, least}) = IF oldest >= least THEN oldest ELSE least
    BY <1>1, <2>1, <2>2 DEF Max
  <2>4. Cleaned(left) = IF oldest >= least THEN oldest ELSE least
    BY <1>3, <1>5, <2>1, <2>3
  <2>5. Cleaned(left) \in oldest .. msgid + 1
    BY <1>1, <2>1, <2>4
  <2>6. ASSUME NEW s \in Sessions, left[s].lastmsg # 0
        PROVE  left[s].lastmsg >= Cleaned(left)
    <3>1. left[s].lastmsgid = left[s].lastmsg /\ left[s].lastmsg >= oldest
      BY <1>1, <2>6
    <3>2. least =< left[s].lastmsg
      BY <1>2, <2>1, <2>6, <3>1
    <3>3. QED
      BY <2>4, <3>1, <3>2
  <2>7. QED
    BY <2>5, <2>6
<1>6. QED
  BY <1>4, <1>5

\* The message a replay starts with, and the one it ends with.
LEMMA ReplayFrom ==
    ASSUME Buffer, NEW start \in Nat
    PROVE  \/ /\ ReplayStart(start) = 0
              /\ \A n \in notificationQ : log[n].eventTime < start
           \/ /\ ReplayStart(start) \in notificationQ
              /\ ReplayStart(start) \in 1 .. msgid
              /\ start =< log[ReplayStart(start)].eventTime
              /\ \A n \in notificationQ : start =< log[n].eventTime => ReplayStart(start) =< n
<1> DEFINE found == {n \in notificationQ : start =< log[n].eventTime}
<1>1. /\ found \in SUBSET Nat
      /\ \A n \in notificationQ : n \in 1 .. msgid /\ log[n].eventTime \in Nat
  BY LogType DEF Buffer
<1>2. ReplayStart(start) = IF found = {} THEN 0 ELSE Min(found)
  BY DEF ReplayStart, FirstOf
<1>3. found # {} => Min(found) \in found /\ \A n \in found : Min(found) =< n
  BY <1>1, MinIsLeast
<1>4. QED
  BY <1>1, <1>2, <1>3

LEMMA ReplayTo ==
    ASSUME Buffer, NEW first \in 1 .. msgid, NEW stop \in Nat
    PROVE  /\ ReplayEnd(first, stop) \in 1 .. msgid
           /\ \A n \in 1 .. msgid : n > ReplayEnd(first, stop) => log[n].eventTime > stop
<1> DEFINE T == {first} \cup {n \in first .. msgid : log[n].eventTime =< stop}
<1>1. msgid \in Nat /\ \A n \in 1 .. msgid : log[n].eventTime \in Nat
  BY LogType DEF Buffer
<1>2. T \in SUBSET Nat /\ T # {} /\ (\A n \in T : n =< msgid) /\ (\A n \in T : n >= first)
  BY <1>1
<1>3. /\ ReplayEnd(first, stop) \in T /\ \A n \in T : n =< ReplayEnd(first, stop)
  BY <1>1, <1>2, MaxIsGreatest DEF ReplayEnd
<1>4. first \in T
  OBVIOUS
<1>5. \A n \in 1 .. msgid : n > first /\ n \notin T => log[n].eventTime > stop
  BY <1>1
<1> HIDE DEF T
<1>6. PICK last \in T : last = ReplayEnd(first, stop) /\ \A n \in T : n =< last
  BY <1>3
<1>7. last \in Nat /\ last =< msgid /\ first =< last
  BY <1>2, <1>4, <1>6
<1>8. \A n \in 1 .. msgid : n > last => n > first /\ n \notin T
  BY <1>1, <1>6, <1>7
<1>9. QED
  BY <1>1, <1>5, <1>6, <1>7, <1>8

\* A new subscription.
LEMMA RequestedIs ==
    ASSUME NEW top \in Nat, now \in 1 .. MaxTime,
           NEW start \in 0 .. MaxTime, NEW stop \in 0 .. MaxTime, NEW filter \in Filters
    PROVE  LET sub == Requested(start, stop, filter)
           IN  /\ sub \in SubsOf(top)
               /\ sub.startTime = start /\ sub.stopTime = stop
               /\ sub.futurestop = (stop > now) /\ sub.filter = filter
               /\ ~sub.rcReady /\ ~sub.rcDone /\ ~sub.ncDone
               /\ sub.firstreplaymsg = 0 /\ sub.firstreplaymsgid = 0
               /\ sub.lastreplaymsg = 0 /\ sub.lastreplaymsgid = 0
               /\ sub.lastmsg = 0 /\ sub.lastmsgid = 0
<1> DEFINE sub == Requested(start, stop, filter)
           future == stop > now
<1>1. sub = [NoSubscription EXCEPT !.startTime = start, !.stopTime = stop, !.filter = filter,
                                   !.futurestop = future]
  BY DEF Requested
<1>2. future \in BOOLEAN
  BY DEF future
<1> HIDE DEF future
<1>3. sub \in SubsOf(top)
  BY <1>1, <1>2, NoneIs DEF SubsOf
<1>4. /\ sub.startTime = start /\ sub.stopTime = stop
      /\ sub.futurestop = future /\ sub.filter = filter
  BY <1>1, <1>2, NoneIs DEF SubsOf
<1>5. /\ ~sub.rcReady /\ ~sub.rcDone /\ ~sub.ncDone
      /\ sub.firstreplaymsg = 0 /\ sub.firstreplaymsgid = 0
      /\ sub.lastreplaymsg = 0 /\ sub.lastreplaymsgid = 0
      /\ sub.lastmsg = 0 /\ sub.lastmsgid = 0
  BY <1>1 DEF NoSubscription
<1> HIDE DEF sub
<1>6. QED
  BY <1>3, <1>4, <1>5 DEF future, sub

LEMMA LiveStart ==
    ASSUME Buffer, NEW sub \in SubsOf(msgid),
           sub.lastmsg = 0, sub.lastmsgid = 0, sub.firstreplaymsg = 0
    PROVE  /\ Place(Live(sub), oldest, msgid)
           /\ Kept(sub, Live(sub)) /\ SameMarks(sub, Live(sub)) /\ Live(sub).state = "live"
<1> DEFINE end == IF oldest =< msgid THEN msgid ELSE 0
<1>1. end \in 0 .. msgid /\ msgid \in Nat /\ oldest \in Nat /\ (end # 0 => end >= oldest)
  BY LogType DEF Buffer
<1>2. Live(sub) = [sub EXCEPT !.state = "live", !.lastmsg = end, !.lastmsgid = end]
  BY DEF Live
<1> HIDE DEF end
<1>3. /\ Live(sub) \in SubsOf(msgid) /\ Live(sub).state = "live"
      /\ Live(sub).lastmsg = end /\ Live(sub).lastmsgid = end
      /\ Live(sub).firstreplaymsg = 0
  BY <1>1, <1>2 DEF SubsOf
<1>4. Kept(sub, Live(sub)) /\ SameMarks(sub, Live(sub))
  BY <1>2 DEF Kept, SameMarks, SubsOf
<1>5. QED
  BY <1>1, <1>3, <1>4 DEF Place

\* A replay of nothing is ready to be completed; of a replay of something the first
\* and the last message are known, but the last of one that goes on for ever.
LEMMA ReplayStarts ==
    ASSUME Buffer, NEW sub \in SubsOf(msgid), sub.futurestop = (sub.stopTime > now),
           ~sub.rcReady, ~sub.rcDone, ~sub.ncDone,
           sub.firstreplaymsg = 0, sub.firstreplaymsgid = 0,
           sub.lastreplaymsg = 0, sub.lastreplaymsgid = 0,
           sub.lastmsg = 0, sub.lastmsgid = 0
    PROVE  LET first == ReplayStart(sub.startTime)
               new   == Replay(sub)
           IN  /\ Place(new, oldest, msgid)
               /\ new.state = "replay" /\ ~new.rcDone /\ ~new.ncDone
               /\ new.startTime = sub.startTime /\ new.stopTime = sub.stopTime
               /\ new.futurestop = sub.futurestop /\ new.filter = sub.filter
               /\ new.lastmsg = 0 /\ new.lastmsgid = 0
               /\ new.lastreplaymsg = new.lastreplaymsgid
               /\ \/ /\ new.rcReady
                     /\ new.firstreplaymsg = 0 /\ new.firstreplaymsgid = 0
                     /\ new.lastreplaymsgid = 0
                     /\ first # 0 => /\ sub.stopTime # 0 /\ ~sub.futurestop
                                     /\ sub.stopTime =< log[first].eventTime
                  \/ /\ ~new.rcReady /\ first # 0
                     /\ new.firstreplaymsg = first /\ new.firstreplaymsgid = first
                     /\ sub.stopTime # 0 /\ ~sub.futurestop =>
                           new.lastreplaymsgid = ReplayEnd(first, sub.stopTime)
<1> DEFINE first == ReplayStart(sub.startTime)
           last  == CASE sub.stopTime = 0 -> 0
                      [] sub.futurestop -> msgid
                      [] OTHER -> ReplayEnd(first, sub.stopTime)
           over  == \/ first = 0
                    \/ sub.stopTime # 0 /\ ~sub.futurestop /\ sub.stopTime =< log[first].eventTime
           new   == Replay(sub)
           ready == [sub EXCEPT !.state = "replay", !.rcReady = TRUE]
           from  == [sub EXCEPT !.state = "replay",
                                !.firstreplaymsg = first, !.firstreplaymsgid = first,
                                !.lastreplaymsg = last, !.lastreplaymsgid = last]
<1>1. /\ msgid \in Nat /\ oldest \in Nat /\ now \in 1 .. MaxTime
      /\ sub.startTime \in 0 .. MaxTime /\ sub.stopTime \in 0 .. MaxTime
      /\ sub.futurestop \in BOOLEAN
  BY LogType DEF Buffer, SubsOf
<1>2. first = 0 \/ (first \in 1 .. msgid /\ first >= oldest)
  BY <1>1, ReplayFrom, LogType
<1>3. new = IF over THEN ready ELSE from
  BY DEF Replay
<1>4. CASE over
  <2>1. /\ ready \in SubsOf(msgid) /\ ready.state = "replay" /\ ready.rcReady = TRUE
        /\ Kept(sub, ready) /\ SamePlace(sub, ready)
        /\ ready.rcDone = sub.rcDone /\ ready.ncDone = sub.ncDone
    BY DEF SubsOf, Kept, SamePlace
  <2> HIDE DEF ready
  <2>2. QED
    BY <1>1, <1>3, <1>4, <2>1 DEF Place, Kept, SamePlace
<1>5. CASE ~over
  <2>1. first \in 1 .. msgid /\ first >= oldest
    BY <1>2, <1>5
  <2>2. last \in 0 .. msgid
    <3> HIDE DEF first
    <3>1. sub.stopTime \in Nat
      BY <1>1
    <3>2. ReplayEnd(first, sub.stopTime) \in 1 .. msgid
      BY <2>1, <3>1, ReplayTo
    <3>3. QED
      BY <1>1, <3>2
  <2>3. sub.stopTime # 0 /\ ~sub.futurestop => last = ReplayEnd(first, sub.stopTime)
    OBVIOUS
  <2> HIDE DEF first, last
  <2>4. from \in SubsOf(msgid)
    <3> HIDE DEF over, ready, new
    <3>1. first \in 0 .. msgid /\ "replay" \in {"none", "replay", "timed", "live", "shutdown"}
      BY <1>1, <2>1
    <3> DEFINE some == [sub EXCEPT !.state = "replay",
                                   !.firstreplaymsg = first, !.firstreplaymsgid = first]
    <3>2. some \in SubsOf(msgid)
      BY <3>1 DEF SubsOf
    <3>3. from = [some EXCEPT !.lastreplaymsg = last, !.lastreplaymsgid = last]
      BY DEF SubsOf
    <3> HIDE DEF some
    <3>4. QED
      BY <2>2, <3>2, <3>3 DEF SubsOf
  <2>5. /\ from.state = "replay"
        /\ from.rcReady = sub.rcReady /\ from.rcDone = sub.rcDone /\ from.ncDone = sub.ncDone
        /\ from.startTime = sub.startTime /\ from.stopTime = sub.stopTime
        /\ from.futurestop = sub.futurestop /\ from.filter = sub.filter
        /\ from.lastmsg = sub.lastmsg /\ from.lastmsgid = sub.lastmsgid
        /\ from.firstreplaymsg = first /\ from.firstreplaymsgid = first
        /\ from.lastreplaymsg = last /\ from.lastreplaymsgid = last
    BY DEF SubsOf
  <2> HIDE DEF from
  <2>6. QED
    BY <1>1, <1>3, <1>5, <2>1, <2>3, <2>4, <2>5 DEF Place, first
<1>6. QED
  BY <1>4, <1>5
-----------------------------------------------------------------------------
(***************************************************************************)
(* The types, with the places.                                             *)
(***************************************************************************)

Typed ==
    /\ Buffer
    /\ subs \in [Sessions -> SubsOf(msgid)]
    /\ \A s \in Sessions : Place(subs[s], oldest, msgid)
    /\ sending \in BOOLEAN /\ sendtotal \in Nat
    /\ delivered \in [Sessions -> Seq(-1 .. msgid)]
    /\ scope \in [Sessions -> 0 .. msgid + 1]

LEMMA HistoryGrows ==
    ASSUME delivered \in [Sessions -> Seq(-1 .. msgid)],
           scope \in [Sessions -> 0 .. msgid + 1], msgid \in Nat, msgid' = msgid + 1
    PROVE  /\ delivered \in [Sessions -> Seq(-1 .. msgid')]
           /\ scope \in [Sessions -> 0 .. msgid' + 1]
<1>1. -1 .. msgid \subseteq -1 .. msgid' /\ 0 .. msgid + 1 \subseteq 0 .. msgid' + 1
  OBVIOUS
<1>2. \A s \in Sessions : delivered[s] \in Seq(-1 .. msgid')
  BY <1>1, SeqMonotonic
<1>3. QED
  BY <1>1, <1>2

LEMMA LogEventTypes ==
    ASSUME Typed, NEW type \in Types, LogEvent(type)
    PROVE  Typed'
<1>1. /\ Queue(type) /\ subs' = Queued
      /\ UNCHANGED <<now, sending, sendtotal, delivered, scope>>
  BY DEF LogEvent, history
<1>2. Buffer' /\ msgid' = msgid + 1 /\ msgid \in Nat
  BY <1>1, QueueLog, LogType DEF Typed
<1>3. \A s \in Sessions : Place(Queued[s], oldest', msgid')
  BY <1>1, QueuedPlace DEF Typed
<1>4. Queued \in [Sessions -> SubsOf(msgid')]
  BY <1>3 DEF Queued, Place, Typed
<1>5. QED
  BY <1>1, <1>2, <1>3, <1>4, HistoryGrows DEF Typed

LEMMA EndSessionTypes ==
    ASSUME Typed, NEW s \in Sessions, EndSession(s)
    PROVE  Typed'
<1>1. /\ Queue(SessionEnd) /\ subs' = [Queued EXCEPT ![s] = NoSubscription]
      /\ delivered' = [delivered EXCEPT ![s] = <<>>]
      /\ scope' = [scope EXCEPT ![s] = 0]
      /\ UNCHANGED <<now, sending, sendtotal>>
  BY DEF EndSession
<1>2. Buffer' /\ msgid' = msgid + 1 /\ msgid \in Nat
  BY <1>1, QueueLog, LogType DEF Typed
<1>3. \A t \in Sessions : Place(Queued[t], oldest', msgid')
  BY <1>1, QueuedPlace DEF Typed
<1>4. Queued \in [Sessions -> SubsOf(msgid')]
  BY <1>3 DEF Queued, Place, Typed
<1>5. NoSubscription \in SubsOf(msgid') /\ Place(NoSubscription, oldest', msgid')
  BY <1>2, NoneIs DEF Place, NoSubscription
<1>6. subs' \in [Sessions -> SubsOf(msgid')] /\ \A t \in Sessions : Place(subs'[t], oldest', msgid')
  BY <1>1, <1>3, <1>4, <1>5
<1>7. <<>> \in Seq(-1 .. msgid') /\ 0 \in 0 .. msgid' + 1
  BY <1>2, ShortSeq
<1>8. delivered' \in [Sessions -> Seq(-1 .. msgid')] /\ scope' \in [Sessions -> 0 .. msgid' + 1]
  BY <1>1, <1>2, <1>7, HistoryGrows DEF Typed
<1>9. QED
  BY <1>1, <1>2, <1>6, <1>8 DEF Typed

\* The first message a subscription is for.
LEMMA ScopeType ==
    ASSUME Buffer, NEW start \in Nat
    PROVE  LET T == {n \in notificationQ : log[n].eventTime >= start} \cup {msgid + 1}
           IN  /\ Min(T) \in 1 .. msgid + 1 /\ Min(T) \in T
               /\ \A n \in T : Min(T) =< n
<1> DEFINE T == {n \in notificationQ : log[n].eventTime >= start} \cup {msgid + 1}
<1>1. T \in SUBSET Nat /\ T # {} /\ T \subseteq 1 .. msgid + 1
  BY LogType DEF Buffer
<1> HIDE DEF T
<1>2. Min(T) \in T /\ \A n \in T : Min(T) =< n
  BY <1>1, MinIsLeast
<1>3. QED
  BY <1>1, <1>2 DEF T

LEMMA CreateTypes ==
    ASSUME Typed, NEW s \in Sessions, NEW start \in 0 .. MaxTime, NEW stop \in 0 .. MaxTime,
           NEW filter \in Filters, CreateSubscription(s, start, stop, filter)
    PROVE  Typed'
<1> DEFINE sub == Requested(start, stop, filter)
           new == IF start = 0 THEN Live(sub) ELSE Replay(sub)
           from == IF start = 0 THEN msgid + 1
                   ELSE Min({n \in notificationQ : log[n].eventTime >= start} \cup {msgid + 1})
<1>1. /\ subs' = [subs EXCEPT ![s] = new]
      /\ delivered' = [delivered EXCEPT ![s] = <<>>]
      /\ scope' = [scope EXCEPT ![s] = from]
      /\ sending' = TRUE
      /\ UNCHANGED <<now, log, oldest, sendtotal>>
  BY DEF CreateSubscription, buffer
<1>2. /\ sub \in SubsOf(msgid) /\ sub.futurestop = (sub.stopTime > now)
      /\ ~sub.rcReady /\ ~sub.rcDone /\ ~sub.ncDone
      /\ sub.firstreplaymsg = 0 /\ sub.firstreplaymsgid = 0
      /\ sub.lastreplaymsg = 0 /\ sub.lastreplaymsgid = 0
      /\ sub.lastmsg = 0 /\ sub.lastmsgid = 0
  <2>1. msgid \in Nat /\ now \in 1 .. MaxTime
    BY LogType DEF Typed, Buffer
  <2>2. QED
    BY <2>1, RequestedIs
<1> HIDE DEF sub
<1>3. Place(new, oldest, msgid)
  BY <1>2, LiveStart, ReplayStarts DEF Typed
<1>4. from \in 0 .. msgid + 1
  <2>1. start \in Nat /\ msgid \in Nat /\ Buffer
    BY LogType DEF Typed
  <2>2. Min({n \in notificationQ : log[n].eventTime >= start} \cup {msgid + 1}) \in 1 .. msgid + 1
    BY <2>1, ScopeType
  <2>3. QED
    BY <2>1, <2>2
<1> HIDE DEF new, from
<1>5. msgid' = msgid /\ new \in SubsOf(msgid) /\ <<>> \in Seq(-1 .. msgid)
  BY <1>1, <1>3, ShortSeq DEF msgid, Place
<1>6. subs' \in [Sessions -> SubsOf(msgid)] /\ \A t \in Sessions : Place(subs'[t], oldest, msgid)
  BY <1>1, <1>3, <1>5 DEF Typed
<1>7. delivered' \in [Sessions -> Seq(-1 .. msgid)] /\ scope' \in [Sessions -> 0 .. msgid + 1]
  BY <1>1, <1>4, <1>5 DEF Typed
<1>8. Buffer'
  BY <1>1, <1>5 DEF Typed, Buffer, Events, msgid
<1>9. QED
  BY <1>1, <1>5, <1>6, <1>7, <1>8 DEF Typed

\* A pass, for all subscriptions.
LEMMA PassMoves ==
    ASSUME Typed, SendNotifications
    PROVE  /\ \A s \in Sessions :
                /\ Moves(s, subs[s], subs'[s], Served(s).sent)
                /\ subs'[s] = Served(s).sub
                /\ delivered'[s] = delivered[s] \o Served(s).sent
           /\ UNCHANGED <<now, log, msgid, scope>>
BY ServedIs DEF Typed, SendNotifications, msgid

LEMMA PassTypes ==
    ASSUME Typed, SendNotifications
    PROVE  Typed'
<1> DEFINE out == [s \in Sessions |-> Served(s)]
           left == [s \in Sessions |-> out[s].sub]
           count == Cardinality({s \in Sessions : out[s].counts})
           total == sendtotal + count
           ends == count = 0 \/ (MaxBurst # 0 /\ total >= MaxBurst)
<1>1. /\ subs' = left
      /\ delivered' = [s \in Sessions |-> delivered[s] \o out[s].sent]
      /\ sending' = ~ends
      /\ sendtotal' = IF ends THEN 0 ELSE total
      /\ oldest' = IF ends /\ EventlogSize = 0 THEN Cleaned(left) ELSE oldest
      /\ UNCHANGED <<now, log, scope, msgid>>
  BY DEF SendNotifications, msgid
<1>2. count \in Nat
  BY FS_Subset, FS_CardinalityType
<1>3. \A s \in Sessions : /\ Place(left[s], oldest, msgid)
                          /\ left[s].firstreplaymsg # 0 => left[s].lastmsgid # 0
                          /\ out[s].sent \in Seq(-1 .. msgid)
  BY ServedIs, MovesPlace DEF Typed
<1>4. /\ Cleaned(left) \in oldest .. msgid + 1
      /\ \A s \in Sessions : left[s].lastmsg # 0 => left[s].lastmsg >= Cleaned(left)
  BY <1>3, CleanedIs DEF Typed
<1> HIDE DEF out, count, left, ends
<1>5. /\ oldest' \in oldest .. msgid + 1 /\ (EventlogSize # 0 => oldest' = oldest)
      /\ \A s \in Sessions : left[s].lastmsg # 0 => left[s].lastmsg >= oldest'
  <2>1. oldest' \in {oldest, Cleaned(left)} /\ (EventlogSize # 0 => oldest' = oldest)
    BY <1>1
  <2>2. oldest \in oldest .. msgid + 1
    BY LogType DEF Typed, Buffer
  <2>3. QED
    BY <1>3, <1>4, <2>1, <2>2 DEF Place
<1>6. \A s \in Sessions : Place(left[s], oldest', msgid')
  BY <1>1, <1>3, <1>5 DEF Place
<1>7. Buffer'
  BY <1>1, <1>5, LogType DEF Typed, Buffer, Events
<1>8. subs' \in [Sessions -> SubsOf(msgid')]
  BY <1>1, <1>6 DEF Place, left
<1>9. delivered' \in [Sessions -> Seq(-1 .. msgid')]
  <2>1. \A s \in Sessions : delivered[s] \o out[s].sent \in Seq(-1 .. msgid)
    BY <1>3, ConcatProperties DEF Typed
  <2>2. QED
    BY <1>1, <2>1
<1>10. sending' \in BOOLEAN /\ sendtotal' \in Nat
  BY <1>1, <1>2 DEF Typed, ends
<1>11. QED
  BY <1>1, <1>6, <1>7, <1>8, <1>9, <1>10 DEF Typed

LEMMA TypedInit == Init => Typed
<1> SUFFICES ASSUME Init PROVE Typed
  OBVIOUS
<1>1. msgid = 0 /\ 0 \in Nat /\ log = <<>> /\ log \in Seq(Events)
  BY EmptySeq, ShortSeq DEF Init, msgid
<1>2. Buffer
  BY <1>1 DEF Init, Buffer
<1>3. NoSubscription \in SubsOf(0) /\ Place(NoSubscription, 1, 0)
  BY NoneIs DEF Place, NoSubscription
<1>4. <<>> \in Seq(-1 .. 0)
  BY ShortSeq
<1>5. /\ subs = [s \in Sessions |-> NoSubscription] /\ oldest = 1 /\ msgid = 0
      /\ delivered = [s \in Sessions |-> <<>>] /\ scope = [s \in Sessions |-> 0]
      /\ sending \in BOOLEAN /\ sendtotal \in Nat
  BY <1>1 DEF Init
<1>6. delivered \in [Sessions -> Seq(-1 .. msgid)] /\ scope \in [Sessions -> 0 .. msgid + 1]
  BY <1>4, <1>5
<1>7. /\ subs \in [Sessions -> SubsOf(msgid)]
      /\ \A s \in Sessions : Place(subs[s], oldest, msgid)
  BY <1>3, <1>5
<1>8. QED
  BY <1>2, <1>5, <1>6, <1>7 DEF Typed

LEMMA TypedNext == Typed /\ [Next]_vars => Typed'
<1> SUFFICES ASSUME Typed, [Next]_vars
             PROVE  Typed'
  OBVIOUS
<1>1. CASE UNCHANGED vars
  BY <1>1 DEF Typed, Buffer, Events, vars, buffer, history, msgid
<1>2. CASE Tick
  <2>1. /\ now' = now + 1 /\ now < MaxTime
        /\ UNCHANGED <<log, oldest, subs, sending, sendtotal, delivered, scope>>
    BY <1>2 DEF Tick, buffer, history
  <2>2. 1 .. now \subseteq 1 .. now' /\ now' \in 1 .. MaxTime
    BY <2>1 DEF Typed, Buffer
  <2>3. Events \subseteq Events'
    BY <2>2 DEF Events
  <2>4. log' \in Seq(Events')
    <3> DEFINE E == Events'
    <3>1. log \in Seq(Events) /\ Events \subseteq E
      BY <2>3 DEF Typed, Buffer
    <3> HIDE DEF E
    <3>2. log \in Seq(E)
      BY <3>1, SeqMonotonic
    <3>3. QED
      BY <2>1, <3>2 DEF E
  <2>5. Buffer'
    BY <2>1, <2>2, <2>4 DEF Typed, Buffer, msgid
  <2>6. QED
    BY <2>1, <2>5 DEF Typed, msgid
<1>3. CASE StartBurst
  BY <1>3 DEF StartBurst, Typed, Buffer, Events, buffer, history, msgid
<1>4. QED
  BY <1>1, <1>2, <1>3, LogEventTypes, EndSessionTypes, CreateTypes, PassTypes DEF Next

\* The variables have their types, the buffer keeps within its size, and its ids are
\* in the order of time.
THEOREM TypeCorrect == Spec => []TypeOK
<1>1. Typed => TypeOK
  BY DEF Typed, TypeOK, Buffer, Events, Place, Subscriptions, SubsOf
<1>2. QED
  BY <1>1, TypedInit, TypedNext, PTL DEF Spec

\* No subscription is read from a message the buffer has freed.
THEOREM PlacesStay == Spec => []PlacesAreQueued
<1>1. ASSUME Typed, NEW s \in subscriptionQ
      PROVE  /\ subs[s].lastmsg # 0 => subs[s].lastmsg \in notificationQ
             /\ subs[s].lastmsgid = 0 /\ subs[s].firstreplaymsg # 0
                  => subs[s].firstreplaymsg \in notificationQ
  <2>1. Buffer /\ msgid \in Nat /\ oldest \in Nat /\ s \in Sessions
    BY <1>1, LogType DEF Typed, Buffer, subscriptionQ
  <2>2. Place(subs[s], oldest, msgid)
    BY <1>1, <2>1 DEF Typed
  <2>3. subs[s].lastmsg \in 0 .. msgid /\ subs[s].firstreplaymsg \in 0 .. msgid
    BY <2>2 DEF Place, SubsOf
  <2>4. QED
    BY <2>1, <2>2, <2>3, LogType DEF Place
<1>2. Typed => PlacesAreQueued
  BY <1>1 DEF PlacesAreQueued
<1>3. QED
  BY <1>2, TypedInit, TypedNext, PTL DEF Spec
-----------------------------------------------------------------------------
(***************************************************************************)
(* What a client is sent.  The marks of a subscription record what was     *)
(* sent, and its place is at or after every event sent.                    *)
(***************************************************************************)

Says(got, n) == \E i \in 1 .. Len(got) : got[i] = n

InSequence(got) ==
    /\ \A i, j \in 1 .. Len(got) : i < j /\ got[i] > 0 /\ got[j] > 0 => got[i] < got[j]
    /\ \A i, j \in 1 .. Len(got) : got[i] = replayComplete /\ got[j] = replayComplete => i = j
    /\ \A i \in 1 .. Len(got) : got[i] = notificationComplete => i = Len(got)

\* The states of a subscription and its marks.
Stage(sub) ==
    /\ sub.rcDone => sub.rcReady /\ sub.startTime # 0
    /\ sub.stopTime # 0 => sub.startTime # 0
    /\ sub.ncDone => sub.state = "shutdown"
    /\ sub.state = "replay" => sub.startTime # 0
    /\ sub.state = "timed" => sub.rcDone /\ sub.stopTime # 0
    /\ sub.state = "live" => sub.stopTime = 0
    /\ sub.state = "shutdown" => sub.rcDone /\ sub.stopTime # 0

Stream(sub, got) ==
    /\ InSequence(got)
    /\ sub.state = "none" /\ got # <<>> =>
          Says(got, replayComplete) /\ got[Len(got)] = notificationComplete
    /\ sub.state # "none" =>
          /\ Stage(sub)
          /\ \A i \in 1 .. Len(got) : got[i] =< sub.lastmsgid
          /\ Says(got, replayComplete) <=> sub.rcDone
          /\ Says(got, notificationComplete) <=> sub.ncDone

LEMMA OneMore ==
    ASSUME NEW got \in Seq(Int), NEW n \in Int
    PROVE  LET more == got \o <<n>>
           IN  /\ Len(more) = Len(got) + 1 /\ Len(got) \in Nat
               /\ \A i \in 1 .. Len(got) : more[i] = got[i] /\ more[i] \in Int
               /\ more[Len(got) + 1] = n
               /\ \A m : Says(more, m) <=> Says(got, m) \/ m = n
<1> DEFINE more == got \o <<n>>
<1>1. <<n>> \in Seq(Int) /\ Len(<<n>>) = 1 /\ <<n>>[1] = n
  OBVIOUS
<1>2. Len(got) \in Nat /\ \A i \in 1 .. Len(got) : got[i] \in Int
  BY LenProperties, ElementOfSeq
<1>3. /\ Len(more) = Len(got) + 1
      /\ \A i \in 1 .. Len(got) + 1 : more[i] = IF i =< Len(got) THEN got[i]
                                                ELSE <<n>>[i - Len(got)]
  BY <1>1, ConcatProperties
<1> HIDE DEF more
<1>4. \A i \in 1 .. Len(got) : more[i] = got[i]
  BY <1>2, <1>3
<1>5. more[Len(got) + 1] = n
  BY <1>1, <1>2, <1>3
<1>6. ASSUME NEW m
      PROVE  Says(more, m) <=> Says(got, m) \/ m = n
  <2>1. 1 .. Len(more) = 1 .. Len(got) \cup {Len(got) + 1}
    BY <1>2, <1>3
  <2>2. QED
    BY <1>4, <1>5, <2>1 DEF Says
<1>7. QED
  BY <1>2, <1>3, <1>4, <1>5, <1>6 DEF more

\* An event that is sent comes after those sent before.
LEMMA OneMoreInSequence ==
    ASSUME NEW got \in Seq(Int), NEW n \in Int, InSequence(got),
           ~Says(got, notificationComplete),
           n = replayComplete => ~Says(got, replayComplete),
           n > 0 => \A i \in 1 .. Len(got) : got[i] < n
    PROVE  InSequence(got \o <<n>>)
<1> DEFINE more == got \o <<n>>
           last == Len(got) + 1
<1>1. /\ Len(more) = last /\ Len(got) \in Nat
      /\ \A i \in 1 .. Len(got) : more[i] = got[i]
      /\ more[last] = n
  BY OneMore
<1> HIDE DEF more
<1>2. 1 .. Len(more) = 1 .. Len(got) \cup {last}
  BY <1>1
<1>3. ASSUME NEW i \in 1 .. Len(more), NEW j \in 1 .. Len(more),
             i < j, more[i] > 0, more[j] > 0
      PROVE  more[i] < more[j]
  <2>1. i \in 1 .. Len(got)
    BY <1>1, <1>3
  <2>2. CASE j \in 1 .. Len(got)
    BY <1>1, <1>3, <2>1, <2>2 DEF InSequence
  <2>3. CASE j = last
    BY <1>1, <1>3, <2>1, <2>3
  <2>4. QED
    BY <1>2, <2>2, <2>3
<1>4. \A i, j \in 1 .. Len(more) :
        more[i] = replayComplete /\ more[j] = replayComplete => i = j
  BY <1>1, <1>2 DEF InSequence, Says
<1>5. \A i \in 1 .. Len(more) : more[i] = notificationComplete => i = Len(more)
  BY <1>1, <1>2 DEF Says
<1>6. QED
  BY <1>3, <1>4, <1>5 DEF InSequence, more

LEMMA MovesStream ==
    ASSUME Buffer, NEW s, NEW sub, Place(sub, oldest, msgid),
           NEW got \in Seq(Int), Stream(sub, got),
           NEW new, NEW sent, Moves(s, sub, new, sent)
    PROVE  Stream(new, got \o sent)
<1>1. /\ msgid \in Nat /\ sub.lastmsgid \in 0 .. msgid
      /\ {sub.rcReady, sub.rcDone, sub.ncDone, sub.futurestop} \subseteq BOOLEAN
      /\ \A i \in 1 .. Len(got) : got[i] \in Int
      /\ got \o <<>> = got
  BY LogType, ElementOfSeq, ConcatEmptySeq DEF Place, SubsOf
<1>2. CASE Frees(sub, new, sent)
  <2>1. got \o sent = got /\ new.state = "none"
    BY <1>1, <1>2 DEF Frees, NoSubscription
  <2>2. CASE sub.state = "none"
    BY <2>1, <2>2 DEF Stream
  <2>3. CASE sub.state = "shutdown"
    <3>1. Says(got, replayComplete) /\ Says(got, notificationComplete)
      BY <1>2, <2>3 DEF Frees, Stream, Stage
    <3>2. got[Len(got)] = notificationComplete
      BY <3>1 DEF Says, Stream, InSequence
    <3>3. QED
      BY <2>1, <3>1, <3>2 DEF Stream
  <2>4. QED
    BY <1>2, <2>2, <2>3 DEF Frees
<1>3. ASSUME new \in SubsOf(msgid), Kept(sub, new), Reads(s, sub, new, sent)
      PROVE  Stream(new, got \o sent)
  <2> DEFINE n == NextMessage(sub)
  <2>1. n \in 1 .. msgid /\ n > sub.lastmsgid /\ new.lastmsgid = n /\ sent \in {<<>>, <<n>>}
    BY <1>3, NextIs DEF Reads
  <2>2. /\ sub.state \in {"replay", "live", "timed"} /\ ~sub.ncDone
        /\ new.rcDone = sub.rcDone /\ new.ncDone = sub.ncDone /\ new.state # "none"
    BY <1>3 DEF Reads, Stream, Stage
  <2>3. Stage(new)
    BY <1>1, <1>3, <2>2 DEF Stage, Stream, Reads, Kept
  <2> HIDE DEF n
  <2>4. \A i \in 1 .. Len(got) : got[i] < n
    BY <1>1, <2>1, <2>2 DEF Stream
  <2>5. CASE sent = <<>>
    BY <1>1, <2>1, <2>2, <2>3, <2>4, <2>5 DEF Stream
  <2>6. CASE sent = <<n>>
    <3>1. n \in Int /\ n > 0 /\ n # replayComplete /\ n # notificationComplete
      BY <1>1, <2>1 DEF replayComplete, notificationComplete
    <3>2. InSequence(got \o <<n>>)
      BY <2>2, <2>4, <3>1, OneMoreInSequence DEF Stream
    <3>3. /\ Len(got \o <<n>>) = Len(got) + 1 /\ Len(got) \in Nat
          /\ \A i \in 1 .. Len(got) : (got \o <<n>>)[i] = got[i]
          /\ (got \o <<n>>)[Len(got) + 1] = n
          /\ \A m : Says(got \o <<n>>, m) <=> Says(got, m) \/ m = n
      BY <3>1, OneMore
    <3>4. \A i \in 1 .. Len(got \o <<n>>) : (got \o <<n>>)[i] =< new.lastmsgid
      BY <1>1, <2>1, <2>4, <3>3
    <3>5. /\ Says(got \o <<n>>, replayComplete) <=> new.rcDone
          /\ Says(got \o <<n>>, notificationComplete) <=> new.ncDone
      BY <2>2, <3>1, <3>3 DEF Stream
    <3>6. QED
      BY <2>2, <2>3, <2>6, <3>2, <3>4, <3>5 DEF Stream
  <2>7. QED
    BY <2>1, <2>5, <2>6
<1>4. ASSUME new \in SubsOf(msgid), Kept(sub, new), Waits(sub, new, sent)
      PROVE  Stream(new, got \o sent)
  <2>1. sub.state # "none" /\ new.state # "none" /\ got \o sent = got
        /\ SamePlace(sub, new) /\ SameMarks(sub, new)
    BY <1>1, <1>4 DEF Waits
  <2>2. Stage(new)
    BY <1>1, <1>4, <2>1 DEF Waits, Stage, Stream, Kept, SameMarks
  <2>3. QED
    BY <2>1, <2>2 DEF Stream, SamePlace, SameMarks
<1>5. ASSUME NEW n \in {replayComplete, notificationComplete}, sent = <<n>>,
             sub.state # "none", new.state # "none", SamePlace(sub, new), Stage(new),
             ~sub.ncDone, n = replayComplete => ~sub.rcDone,
             new.rcDone <=> sub.rcDone \/ n = replayComplete,
             new.ncDone <=> sub.ncDone \/ n = notificationComplete
      PROVE  Stream(new, got \o sent)
  <2>1. n \in Int /\ n =< 0 /\ replayComplete # notificationComplete
    BY DEF replayComplete, notificationComplete
  <2>2. InSequence(got \o <<n>>)
    BY <1>5, <2>1, OneMoreInSequence DEF Stream
  <2>3. /\ Len(got \o <<n>>) = Len(got) + 1 /\ Len(got) \in Nat
        /\ \A i \in 1 .. Len(got) : (got \o <<n>>)[i] = got[i]
        /\ (got \o <<n>>)[Len(got) + 1] = n
        /\ \A m : Says(got \o <<n>>, m) <=> Says(got, m) \/ m = n
    BY <2>1, OneMore
  <2>4. \A i \in 1 .. Len(got \o <<n>>) : (got \o <<n>>)[i] =< new.lastmsgid
    <3>1. \A i \in 1 .. Len(got) : got[i] =< new.lastmsgid
      BY <1>5 DEF Stream, SamePlace
    <3>2. n =< new.lastmsgid
      BY <1>1, <1>5, <2>1 DEF SamePlace
    <3>3. QED
      BY <2>3, <3>1, <3>2
  <2>5. /\ Says(got \o <<n>>, replayComplete) <=> new.rcDone
        /\ Says(got \o <<n>>, notificationComplete) <=> new.ncDone
    BY <1>5, <2>1, <2>3 DEF Stream
  <2>6. QED
    BY <1>5, <2>2, <2>4, <2>5 DEF Stream
<1>6. ASSUME new \in SubsOf(msgid), Kept(sub, new), Completes(sub, new, sent)
      PROVE  Stream(new, got \o sent)
  <2>1. /\ sub.state = "replay" /\ Stage(sub) /\ ~sub.ncDone /\ ~sub.rcDone
        /\ new.rcReady /\ new.rcDone /\ new.ncDone = sub.ncDone /\ new.state # "none"
    BY <1>6 DEF Completes, Stream, Stage
  <2>2. Stage(new)
    BY <1>1, <1>6, <2>1 DEF Completes, Stage, Kept
  <2>3. QED
    BY <1>1, <1>5, <1>6, <2>1, <2>2 DEF Completes, replayComplete, notificationComplete
<1>7. ASSUME new \in SubsOf(msgid), Kept(sub, new), Finishes(sub, new, sent)
      PROVE  Stream(new, got \o sent)
  <2>1. /\ sub.state # "none" /\ Stage(sub) /\ ~sub.ncDone /\ sub.rcDone
        /\ new.rcReady = sub.rcReady /\ new.rcDone = sub.rcDone /\ new.ncDone = TRUE
        /\ new.state = "shutdown" /\ sub.stopTime # 0
    BY <1>7 DEF Finishes, Stream, Stage
  <2>2. Stage(new)
    BY <1>1, <1>7, <2>1 DEF Stage, Kept
  <2>3. QED
    BY <1>1, <1>5, <1>7, <2>1, <2>2 DEF Finishes, replayComplete, notificationComplete
<1>8. QED
  BY <1>2, <1>3, <1>4, <1>6, <1>7 DEF Moves

\* A message that is queued leaves everything of a subscription but its pointers.
LEMMA QueuedIs ==
    ASSUME Typed, NEW s \in Sessions
    PROVE  LET sub == subs[s]
               new == Queued[s]
           IN  /\ new.state = sub.state /\ new.startTime = sub.startTime
               /\ new.stopTime = sub.stopTime /\ new.futurestop = sub.futurestop
               /\ new.filter = sub.filter /\ SameMarks(sub, new)
               /\ new.lastmsgid = sub.lastmsgid
               /\ new.firstreplaymsgid = sub.firstreplaymsgid
               /\ new.lastreplaymsgid = sub.lastreplaymsgid
               /\ new.firstreplaymsg =
                     IF Full /\ sub.firstreplaymsg = oldest THEN 0 ELSE sub.firstreplaymsg
               /\ new.lastreplaymsg \in {0, sub.lastreplaymsg}
<1> DEFINE sub == subs[s]
           Left(p) == IF p = oldest THEN 0 ELSE p
<1>1. sub \in SubsOf(msgid)
  BY DEF Typed
<1>2. CASE ~Full
  BY <1>2 DEF Queued, SameMarks
<1>3. CASE Full
  <2>1. Queued[s] = [sub EXCEPT !.firstreplaymsg = Left(sub.firstreplaymsg),
                                !.lastreplaymsg = Left(sub.lastreplaymsg),
                                !.lastmsg = Left(sub.lastmsg)]
    BY <1>3 DEF Queued, Forget
  <2>2. QED
    BY <1>1, <1>3, <2>1 DEF SubsOf, SameMarks
<1>4. QED
  BY <1>2, <1>3

Streams == Typed /\ \A s \in Sessions : Stream(subs[s], delivered[s])

LEMMA NothingSent ==
    /\ <<>> \in Seq(Int) /\ InSequence(<<>>)
    /\ \A n : ~Says(<<>>, n)
    /\ \A i : i \notin 1 .. Len(<<>>)
BY EmptySeq DEF InSequence, Says

LEMMA StreamsInit == Init => Streams
<1> SUFFICES ASSUME Init PROVE Streams
  OBVIOUS
<1>1. Typed
  BY TypedInit
<1>2. Stream(NoSubscription, <<>>)
  BY NothingSent DEF Stream, NoSubscription
<1>3. QED
  BY <1>1, <1>2 DEF Init, Streams

LEMMA QueuedStreams ==
    ASSUME Streams, NEW s \in Sessions
    PROVE  Stream(Queued[s], delivered[s])
<1>1. Typed /\ Stream(subs[s], delivered[s])
  BY DEF Streams
<1>2. QED
  BY <1>1, QueuedIs DEF Stream, Stage, SameMarks

\* A new subscription was sent nothing.
LEMMA CreateStreams ==
    ASSUME Streams, NEW s \in Sessions, NEW start \in 0 .. MaxTime, NEW stop \in 0 .. MaxTime,
           NEW filter \in Filters, CreateSubscription(s, start, stop, filter)
    PROVE  \A t \in Sessions : Stream(subs'[t], delivered'[t])
<1> DEFINE sub == Requested(start, stop, filter)
           new == IF start = 0 THEN Live(sub) ELSE Replay(sub)
<1>1. /\ subs' = [subs EXCEPT ![s] = new]
      /\ delivered' = [delivered EXCEPT ![s] = <<>>]
      /\ stop # 0 => start # 0
  BY DEF CreateSubscription
<1>2. /\ sub \in SubsOf(msgid) /\ sub.futurestop = (sub.stopTime > now)
      /\ sub.startTime = start /\ sub.stopTime = stop
      /\ ~sub.rcReady /\ ~sub.rcDone /\ ~sub.ncDone
      /\ sub.firstreplaymsg = 0 /\ sub.firstreplaymsgid = 0
      /\ sub.lastreplaymsg = 0 /\ sub.lastreplaymsgid = 0
      /\ sub.lastmsg = 0 /\ sub.lastmsgid = 0
  <2>1. msgid \in Nat /\ now \in 1 .. MaxTime
    BY LogType DEF Streams, Typed, Buffer
  <2>2. QED
    BY <2>1, RequestedIs
<1> HIDE DEF sub
<1>3. /\ new.state = IF start = 0 THEN "live" ELSE "replay"
      /\ new.startTime = start /\ new.stopTime = stop /\ ~new.rcDone /\ ~new.ncDone
  BY <1>2, LiveStart, ReplayStarts DEF Streams, Typed, Kept, SameMarks
<1> HIDE DEF new
<1>4. Stage(new)
  BY <1>1, <1>3 DEF Stage
<1>5. Stream(new, <<>>)
  BY <1>3, <1>4, NothingSent DEF Stream
<1>6. QED
  BY <1>1, <1>5 DEF Streams, Typed

LEMMA StreamsNext == Streams /\ [Next]_vars => Streams'
<1> SUFFICES ASSUME Streams, [Next]_vars
             PROVE  Streams'
  OBVIOUS
<1>1. Typed /\ Typed'
  BY TypedNext DEF Streams
<1>2. ASSUME UNCHANGED <<subs, delivered>>
      PROVE  Streams'
  BY <1>1, <1>2 DEF Streams
<1>3. ASSUME NEW type \in Types, LogEvent(type)
      PROVE  Streams'
  BY <1>1, <1>3, QueuedStreams DEF LogEvent, history, Streams
<1>4. ASSUME NEW s \in Sessions, EndSession(s)
      PROVE  Streams'
  <2>1. /\ subs' = [Queued EXCEPT ![s] = NoSubscription]
        /\ delivered' = [delivered EXCEPT ![s] = <<>>]
    BY <1>4 DEF EndSession
  <2>2. Stream(NoSubscription, <<>>)
    BY NothingSent DEF Stream, NoSubscription
  <2>3. DOMAIN Queued = Sessions
    BY <1>1 DEF Queued, Typed
  <2>4. \A t \in Sessions : Stream(subs'[t], delivered'[t])
    BY <1>1, <2>1, <2>2, <2>3, QueuedStreams DEF Typed
  <2>5. QED
    BY <1>1, <2>4 DEF Streams
<1>5. CASE SendNotifications
  <2>1. ASSUME NEW s \in Sessions
        PROVE  Stream(subs'[s], delivered'[s])
    <3>1. delivered[s] \in Seq(Int)
      BY <1>1, SeqMonotonic, LogType DEF Typed
    <3>2. Buffer /\ Place(subs[s], oldest, msgid) /\ Stream(subs[s], delivered[s])
      BY DEF Streams, Typed
    <3>3. /\ Moves(s, subs[s], subs'[s], Served(s).sent)
          /\ delivered'[s] = delivered[s] \o Served(s).sent
      BY <1>1, <1>5, PassMoves
    <3>4. QED
      BY <3>1, <3>2, <3>3, MovesStream
  <2>2. QED
    BY <1>1, <2>1 DEF Streams
<1>6. QED
  BY <1>1, <1>2, <1>3, <1>4, <1>5, CreateStreams
     DEF Next, Tick, StartBurst, vars, history, Streams

\* A client gets events in order and once, one replayComplete after a replay, and
\* notificationComplete as the last thing.
THEOREM StreamIsWellFormed == Spec => []WellFormed
<1>1. ASSUME Streams, NEW s \in Sessions, NEW got, got = delivered[s]
      PROVE  /\ InSequence(got)
             /\ s \in subscriptionQ =>
                  (replayComplete \in Range(got) <=> subs[s].startTime # 0 /\ subs[s].rcDone)
             /\ s \notin subscriptionQ /\ got # <<>> =>
                  replayComplete \in Range(got) /\ Last(got) = notificationComplete
  <2>1. Stream(subs[s], got) /\ got \in Seq(-1 .. msgid)
    BY <1>1 DEF Streams, Typed
  <2>2. \A n : n \in Range(got) <=> Says(got, n)
    BY <2>1, LenProperties DEF Range, Says
  <2>3. s \in subscriptionQ <=> subs[s].state # "none"
    BY DEF subscriptionQ
  <2>4. QED
    BY <2>1, <2>2, <2>3 DEF Stream, Stage, Last
<1>2. Streams => WellFormed
  BY <1>1 DEF WellFormed, InSequence
<1>3. QED
  BY <1>2, StreamsInit, StreamsNext, PTL DEF Spec
-----------------------------------------------------------------------------
(***************************************************************************)
(* What a client is not sent.  The events a subscription asked for that    *)
(* were neither sent nor overrun are after its place, and there is none    *)
(* when it is over: time has passed its stop, or the last message of its   *)
(* replay was read.  The buffer has a limit; without one it is cleaned     *)
(* after a burst.                                                          *)
(***************************************************************************)

Due(s, sub, from, L) ==
    {n \in from .. Len(L) : /\ L[n].type \in Allowed[s] \cap sub.filter
                            /\ sub.stopTime # 0 => L[n].eventTime < sub.stopTime}

Open(s, sub, got, from, L) ==
    {n \in Due(s, sub, from, L) : ~Says(got, n) /\ Len(L) - n < EventlogSize}

Over(sub) ==
    \/ sub.state = "shutdown"
    \/ sub.state = "replay" /\ sub.rcReady /\ sub.stopTime # 0 /\ ~sub.futurestop

\* The replay a subscription asked for, in a buffer that starts at a message.
Replaying(sub, from, L, old, t) ==
    /\ from >= 1
    /\ sub.stopTime # 0 /\ ~sub.futurestop => sub.stopTime =< t
    /\ sub.state = "shutdown" => sub.stopTime =< t
    /\ sub.stopTime # 0 /\ ~sub.futurestop /\ sub.lastreplaymsgid # 0 =>
          \A n \in 1 .. Len(L) : n > sub.lastreplaymsgid => L[n].eventTime >= sub.stopTime
    /\ sub.lastreplaymsg \in {0, sub.lastreplaymsgid}
    /\ sub.firstreplaymsg \in {0, sub.firstreplaymsgid}
    /\ sub.firstreplaymsgid # 0 => sub.firstreplaymsgid = from
    /\ sub.firstreplaymsg = 0 => sub.firstreplaymsgid < old

Reading(s, sub, got, from, L, old, t) ==
    sub.state # "none" =>
        /\ Replaying(sub, from, L, old, t)
        /\ \A n \in Open(s, sub, got, from, L) : n > sub.lastmsgid /\ ~Over(sub)

\* What is open is in the buffer.
LEMMA OpenIs ==
    ASSUME Buffer, EventlogSize # 0, NEW s, NEW sub, NEW got,
           NEW from \in Nat, from >= 1, NEW n \in Open(s, sub, got, from, log)
    PROVE  /\ n \in 1 .. msgid /\ n >= from /\ n \in notificationQ
           /\ log[n].type \in Allowed[s] \cap sub.filter
           /\ sub.stopTime # 0 => log[n].eventTime < sub.stopTime
           /\ ~Says(got, n)
<1>1. n \in from .. msgid /\ msgid - n < EventlogSize /\ msgid \in Nat /\ EventlogSize \in Nat
  BY LogType DEF Open, Due, msgid
<1>2. n >= oldest
  BY <1>1 DEF Buffer
<1>3. QED
  BY <1>1, <1>2, LogType DEF Open, Due

\* The next message is the first one that is open.
LEMMA NextIsFirst ==
    ASSUME Buffer, EventlogSize # 0, NEW s, NEW sub, Place(sub, oldest, msgid), NEW got,
           NEW from \in Nat, Replaying(sub, from, log, oldest, now),
           NEW n \in Open(s, sub, got, from, log), n > sub.lastmsgid
    PROVE  NextMessage(sub) # 0 /\ n >= NextMessage(sub)
<1>1. /\ n \in notificationQ /\ n \in 1 .. msgid /\ n >= from /\ n >= oldest
      /\ msgid \in Nat /\ oldest \in Nat \ {0}
  BY OpenIs, LogType DEF Replaying, Buffer
<1>2. /\ sub.lastmsg \in 0 .. msgid /\ sub.lastmsgid \in 0 .. msgid
      /\ sub.firstreplaymsg \in 0 .. msgid /\ sub.firstreplaymsgid \in 0 .. msgid
      /\ sub.lastmsg # 0 => sub.lastmsg = sub.lastmsgid
  BY DEF Place, SubsOf
<1>3. \A id \in 0 .. msgid : n > id => get_entry_after(id) # 0 /\ n >= get_entry_after(id)
  <2>1. \A id \in 0 .. msgid : id \in Nat
    OBVIOUS
  <2>2. QED
    BY <1>1, <2>1, EntryAfter
<1>4. CASE sub.lastmsg # 0
  BY <1>1, <1>2, <1>4 DEF NextMessage
<1>5. CASE sub.lastmsg = 0 /\ sub.lastmsgid # 0
  BY <1>2, <1>3, <1>5 DEF NextMessage
<1>6. CASE sub.lastmsg = 0 /\ sub.lastmsgid = 0 /\ sub.state # "replay"
  <2>1. NextMessage(sub) = get_entry_after(0)
    BY <1>6 DEF NextMessage
  <2>2. QED
    BY <1>1, <1>3, <2>1
<1>7. CASE sub.lastmsg = 0 /\ sub.lastmsgid = 0 /\ sub.state = "replay"
  <2>1. CASE sub.firstreplaymsg # 0
    <3>1. NextMessage(sub) = sub.firstreplaymsg /\ sub.firstreplaymsg = from
      BY <1>7, <2>1 DEF NextMessage, Replaying
    <3>2. QED
      BY <1>1, <2>1, <3>1
  <2>2. CASE sub.firstreplaymsg = 0
    <3>1. NextMessage(sub) = get_entry_after(sub.firstreplaymsgid)
      BY <1>7, <2>2 DEF NextMessage
    <3>2. sub.firstreplaymsgid < n
      BY <1>1, <1>2, <2>2 DEF Replaying
    <3>3. QED
      BY <1>2, <1>3, <3>1, <3>2
  <2>3. QED
    BY <2>1, <2>2
<1>8. QED
  BY <1>4, <1>5, <1>6, <1>7

\* A pass reads the first message that is open, and ends a subscription only when
\* none is.
LEMMA MovesReading ==
    ASSUME Buffer, EventlogSize # 0, NEW s, NEW sub, Place(sub, oldest, msgid),
           NEW got \in Seq(Int), Stream(sub, got), NEW from \in Nat,
           Reading(s, sub, got, from, log, oldest, now),
           NEW new, NEW sent, Moves(s, sub, new, sent)
    PROVE  Reading(s, new, got \o sent, from, log, oldest, now)
<1>1. CASE Frees(sub, new, sent)
  BY <1>1 DEF Frees, NoSubscription, Reading
<1>2. ASSUME new \in SubsOf(msgid), Kept(sub, new),
             Reads(s, sub, new, sent) \/ Waits(sub, new, sent)
               \/ Completes(sub, new, sent) \/ Finishes(sub, new, sent)
      PROVE  Reading(s, new, got \o sent, from, log, oldest, now)
  <2>1. sub.state # "none" /\ new.state # "none" /\ Stage(sub)
    BY <1>2 DEF Reads, Waits, Completes, Finishes, Stream
  <2>2. /\ Replaying(sub, from, log, oldest, now)
        /\ \A k \in Open(s, sub, got, from, log) : k > sub.lastmsgid /\ ~Over(sub)
    BY <2>1 DEF Reading
  <2>3. \A k \in Open(s, sub, got, from, log) :
            NextMessage(sub) # 0 /\ k >= NextMessage(sub)
    BY <2>2, NextIsFirst
  <2>4. /\ \A k : Says(got, k) => Says(got \o sent, k)
        /\ sent \in {<<>>, <<NextMessage(sub)>>, <<replayComplete>>, <<notificationComplete>>}
    <3>1. sent \in {<<>>, <<NextMessage(sub)>>, <<replayComplete>>, <<notificationComplete>>}
      BY <1>2 DEF Reads, Waits, Completes, Finishes
    <3>2. NextMessage(sub) \in Int /\ replayComplete \in Int /\ notificationComplete \in Int
      BY NextIs DEF replayComplete, notificationComplete
    <3>3. got \o <<>> = got
      BY ConcatEmptySeq
    <3>4. QED
      BY <3>1, <3>2, <3>3, OneMore
  <2>5. Open(s, new, got \o sent, from, log) \subseteq Open(s, sub, got, from, log)
    BY <1>2, <2>4 DEF Open, Due, Kept
  <2>6. /\ \A k \in Open(s, sub, got, from, log) :
              /\ k \in 1 .. msgid /\ log[k].type \in Allowed[s] \cap sub.filter
              /\ sub.stopTime # 0 => log[k].eventTime < sub.stopTime
        /\ \A k \in Open(s, new, got \o sent, from, log) : ~Says(got \o sent, k)
        /\ \A k \in 1 .. msgid : log[k].eventTime \in 1 .. now
        /\ now \in Nat /\ msgid \in Nat /\ sub.stopTime \in Nat
        /\ {sub.rcReady, sub.rcDone, sub.futurestop} \subseteq BOOLEAN
        /\ sub.lastmsgid \in Nat /\ sub.lastreplaymsgid \in Nat
    <3>1. from >= 1
      BY <2>2 DEF Replaying
    <3>2. \A k \in Open(s, sub, got, from, log) :
              /\ k \in 1 .. msgid /\ log[k].type \in Allowed[s] \cap sub.filter
              /\ sub.stopTime # 0 => log[k].eventTime < sub.stopTime
      BY <3>1, OpenIs
    <3>3. \A k \in Open(s, new, got \o sent, from, log) : ~Says(got \o sent, k)
      BY DEF Open
    <3>4. \A k \in 1 .. msgid : log[k].eventTime \in 1 .. now
      BY LogType
    <3>5. now \in Nat /\ msgid \in Nat
      BY LogType DEF Buffer
    <3>6. /\ sub.stopTime \in Nat /\ {sub.rcReady, sub.rcDone, sub.futurestop} \subseteq BOOLEAN
          /\ sub.lastmsgid \in Nat /\ sub.lastreplaymsgid \in Nat
      BY DEF Place, SubsOf
    <3>7. QED
      BY <3>2, <3>3, <3>4, <3>5, <3>6
  <2>7. CASE Reads(s, sub, new, sent)
    <3> DEFINE n == NextMessage(sub)
    <3>1. n \in 1 .. msgid /\ new.lastmsgid = n /\ sent \in {<<>>, <<n>>}
          /\ (log[n].type \in Allowed[s] \cap sub.filter => sent = <<n>>)
      BY <2>7, NextIs DEF Reads
    <3>2. ASSUME NEW k \in Open(s, new, got \o sent, from, log)
          PROVE  k > n /\ ~Over(sub) /\ k \in 1 .. msgid
                 /\ (sub.stopTime # 0 => log[k].eventTime < sub.stopTime)
      <4>1. k \in Open(s, sub, got, from, log)
        BY <2>5
      <4>2. k >= n /\ k \in 1 .. msgid /\ ~Over(sub)
            /\ (sub.stopTime # 0 => log[k].eventTime < sub.stopTime)
        BY <2>2, <2>3, <2>6, <4>1
      <4>3. CASE k = n
        <5>1. sent = <<n>>
          BY <2>6, <3>1, <4>1, <4>3
        <5>2. Says(got \o <<n>>, n)
          BY <3>1, OneMore
        <5>3. QED
          BY <2>6, <4>3, <5>1, <5>2
      <4>4. QED
        BY <3>1, <4>2, <4>3
    <3>3. \A k \in 1 .. msgid : k > n => log[n].eventTime =< log[k].eventTime
      <4>1. msgid \in Nat
        BY <2>6
      <4>2. QED
        BY <3>1, <4>1 DEF Buffer
    <3>4. ASSUME NEW k \in Open(s, new, got \o sent, from, log)
          PROVE  ~Over(new)
      <4>1. CASE sub.state = "replay"
        <5> SUFFICES ASSUME Over(new) PROVE FALSE
          OBVIOUS
        <5>1. LastOfReplay(sub, n) /\ sub.stopTime # 0 /\ ~sub.futurestop
          BY <1>2, <2>7, <4>1 DEF Reads, Over, Kept
        <5>2. sub.lastreplaymsgid # 0 /\ sub.lastreplaymsgid =< n
          BY <2>2, <3>1, <5>1 DEF LastOfReplay, Replaying
        <5>3. log[k].eventTime >= sub.stopTime
          <6>1. k > sub.lastreplaymsgid /\ k \in 1 .. Len(log)
            BY <2>6, <3>1, <3>2, <5>2 DEF msgid
          <6>2. QED
            BY <2>2, <5>1, <5>2, <6>1 DEF Replaying
        <5>4. QED
          BY <2>6, <3>2, <5>1, <5>3
      <4>2. CASE sub.state = "live"
        BY <2>7, <4>2 DEF Reads, Over
      <4>3. CASE sub.state = "timed"
        <5>1. sub.stopTime # 0
          BY <2>1, <4>3 DEF Stage
        <5>2. log[n].eventTime < sub.stopTime
          <6>1. k \in 1 .. msgid /\ k > n /\ log[k].eventTime < sub.stopTime
            BY <3>2, <3>4, <5>1
          <6>2. log[n].eventTime =< log[k].eventTime
            BY <3>3, <6>1
          <6>3. /\ log[n].eventTime \in Nat /\ log[k].eventTime \in Nat
                /\ sub.stopTime \in Nat
            BY <2>6, <3>1, <6>1
          <6>4. QED
            BY <6>1, <6>2, <6>3
        <5>3. new.state = "timed"
          BY <2>6, <2>7, <3>1, <4>3, <5>2 DEF Reads
        <5>4. QED
          BY <5>3 DEF Over
      <4>4. QED
        BY <2>7, <4>1, <4>2, <4>3 DEF Reads
    <3>5. new.state = "shutdown" => new.stopTime =< now
      BY <1>2, <2>6, <2>7, <3>1 DEF Reads, Kept
    <3>6. Replaying(new, from, log, oldest, now)
      BY <1>2, <2>2, <3>5 DEF Replaying, Kept
    <3>7. QED
      BY <3>1, <3>2, <3>4, <3>6 DEF Reading
  <2>8. CASE Waits(sub, new, sent) \/ Completes(sub, new, sent) \/ Finishes(sub, new, sent)
    <3>1. new.lastmsgid = sub.lastmsgid
      BY <2>8 DEF Waits, Completes, Finishes, SamePlace
    <3>2. ASSUME Over(new), ~Over(sub)
          PROVE  NextMessage(sub) = 0
      BY <1>2, <2>8, <3>2 DEF Waits, Completes, Finishes, Over, Kept, SameMarks
    <3>3. new.state = "shutdown" => new.stopTime =< now
      BY <1>2, <2>1, <2>2, <2>6, <2>8 DEF Waits, Completes, Finishes, Kept, Replaying, Stage
    <3>4. Replaying(new, from, log, oldest, now)
      BY <1>2, <2>2, <3>3 DEF Replaying, Kept
    <3>5. QED
      BY <2>1, <2>2, <2>3, <2>5, <3>1, <3>2, <3>4 DEF Reading
  <2>9. QED
    BY <1>2, <2>7, <2>8
<1>3. QED
  BY <1>1, <1>2 DEF Moves

\* A new message is open for a subscription that is not over, and the message that
\* a full buffer drops is no longer.
LEMMA QueuedReading ==
    ASSUME Typed, EventlogSize # 0, NEW type \in Types, Queue(type), UNCHANGED now,
           NEW s \in Sessions, Stream(subs[s], delivered[s]),
           Reading(s, subs[s], delivered[s], scope[s], log, oldest, now)
    PROVE  Reading(s, Queued[s], delivered[s], scope[s], log', oldest', now)
<1> DEFINE sub == subs[s]
           new == Queued[s]
           got == delivered[s]
           from == scope[s]
<1> SUFFICES ASSUME new.state # "none"
             PROVE  /\ Replaying(new, from, log', oldest', now)
                    /\ \A k \in Open(s, new, got, from, log') : k > new.lastmsgid /\ ~Over(new)
  BY DEF Reading
<1>1. /\ new.state = sub.state /\ new.stopTime = sub.stopTime
      /\ new.futurestop = sub.futurestop /\ new.filter = sub.filter
      /\ new.rcReady = sub.rcReady /\ new.lastmsgid = sub.lastmsgid
      /\ new.firstreplaymsgid = sub.firstreplaymsgid
      /\ new.lastreplaymsgid = sub.lastreplaymsgid
      /\ new.firstreplaymsg =
            IF Full /\ sub.firstreplaymsg = oldest THEN 0 ELSE sub.firstreplaymsg
      /\ new.lastreplaymsg \in {0, sub.lastreplaymsg}
  BY QueuedIs DEF SameMarks
<1>2. /\ Replaying(sub, from, log, oldest, now) /\ Stage(sub)
      /\ \A k \in Open(s, sub, got, from, log) : k > sub.lastmsgid /\ ~Over(sub)
  BY <1>1 DEF Reading, Stream
<1>3. /\ msgid \in Nat /\ Len(log) = msgid /\ Len(log') = msgid + 1
      /\ \A k \in 1 .. msgid : log'[k] = log[k]
      /\ log'[msgid + 1].eventTime = now
  <2>1. Buffer /\ msgid \in Nat
    BY LogType DEF Typed
  <2>2. /\ msgid' = msgid + 1
        /\ \A k \in 1 .. msgid : log'[k] = log[k]
        /\ log'[msgid + 1] = [eventTime |-> now, type |-> type]
    BY <2>1, QueueLog
  <2>3. Len(log) = msgid /\ Len(log') = msgid'
    BY DEF msgid
  <2>4. QED
    BY <2>1, <2>2, <2>3
<1>4. /\ sub.lastmsgid \in 0 .. msgid /\ sub.stopTime \in Nat
      /\ sub.firstreplaymsg \in Nat /\ sub.firstreplaymsgid \in Nat
      /\ sub.lastreplaymsgid \in Nat
  BY <1>3 DEF Typed, SubsOf
<1>5. oldest \in Nat /\ now \in Nat /\ from \in Nat /\ EventlogSize \in Nat
  BY <1>3 DEF Typed, Buffer
<1>6. oldest' = IF Full THEN oldest + 1 ELSE oldest
  BY DEF Queue
<1> HIDE DEF sub, new, got, from
<1>7. Replaying(new, from, log', oldest', now)
  <2>1. ASSUME new.stopTime # 0, ~new.futurestop, new.lastreplaymsgid # 0,
               NEW k \in 1 .. Len(log'), k > new.lastreplaymsgid
        PROVE  log'[k].eventTime >= new.stopTime
    <3>1. CASE k = msgid + 1
      BY <1>1, <1>2, <1>3, <1>4, <1>5, <2>1, <3>1 DEF Replaying
    <3>2. CASE k \in 1 .. msgid
      <4>1. log[k].eventTime >= sub.stopTime
        BY <1>1, <1>2, <1>3, <2>1, <3>2 DEF Replaying
      <4>2. QED
        BY <1>1, <1>3, <3>2, <4>1
    <3>3. QED
      BY <1>3, <2>1, <3>1, <3>2
  <2>2. new.firstreplaymsg = 0 => new.firstreplaymsgid < oldest'
    BY <1>1, <1>2, <1>4, <1>5, <1>6 DEF Replaying
  <2>3. /\ new.lastreplaymsg \in {0, new.lastreplaymsgid}
        /\ new.firstreplaymsg \in {0, new.firstreplaymsgid}
    BY <1>1, <1>2 DEF Replaying
  <2>4. QED
    BY <1>1, <1>2, <2>1, <2>2, <2>3 DEF Replaying
<1>8. ASSUME NEW k \in Open(s, new, got, from, log')
      PROVE  k > new.lastmsgid /\ ~Over(new)
  <2>1. /\ k \in from .. msgid + 1 /\ ~Says(got, k)
        /\ log'[k].type \in Allowed[s] \cap new.filter
        /\ new.stopTime # 0 => log'[k].eventTime < new.stopTime
        /\ msgid + 1 - k < EventlogSize
    BY <1>3, <1>8 DEF Open, Due
  <2>2. CASE k \in from .. msgid
    <3>1. k \in 1 .. msgid /\ log'[k] = log[k]
      BY <1>2, <1>3, <1>5, <2>2 DEF Replaying
    <3>2. Len(log) - k < EventlogSize
      BY <1>3, <1>5, <2>1, <2>2
    <3>3. k \in Open(s, sub, got, from, log)
      BY <1>1, <1>3, <2>1, <2>2, <3>1, <3>2 DEF Open, Due
    <3>4. QED
      BY <1>1, <1>2, <3>3 DEF Over
  <2>3. CASE k = msgid + 1
    <3>1. k > new.lastmsgid
      BY <1>1, <1>3, <1>4, <2>3
    <3>2. new.stopTime # 0 => ~(new.stopTime =< now)
      BY <1>1, <1>3, <1>4, <1>5, <2>1, <2>3
    <3>3. ASSUME Over(new) PROVE new.stopTime # 0 /\ new.stopTime =< now
      BY <1>1, <1>2, <3>3 DEF Over, Stage, Replaying
    <3>4. QED
      BY <3>1, <3>2, <3>3
  <2>4. QED
    BY <1>3, <1>5, <2>1, <2>2, <2>3
<1>9. QED
  BY <1>7, <1>8

\* Nothing is open for a replay that is empty from the start, and everything that
\* is open is after the start of one that is not.
LEMMA CreateReading ==
    ASSUME Typed, EventlogSize # 0,
           NEW s \in Sessions, NEW start \in 0 .. MaxTime, NEW stop \in 0 .. MaxTime,
           NEW filter \in Filters, CreateSubscription(s, start, stop, filter)
    PROVE  Reading(s, subs'[s], <<>>, scope'[s], log, oldest, now)
<1> DEFINE sub == Requested(start, stop, filter)
           new == IF start = 0 THEN Live(sub) ELSE Replay(sub)
           T == {n \in notificationQ : log[n].eventTime >= start} \cup {msgid + 1}
           from == IF start = 0 THEN msgid + 1 ELSE Min(T)
<1>1. /\ subs'[s] = new /\ scope'[s] = from
      /\ stop # 0 => start # 0
  BY DEF CreateSubscription, Typed
<1>2. /\ sub \in SubsOf(msgid) /\ sub.futurestop = (sub.stopTime > now)
      /\ sub.startTime = start /\ sub.stopTime = stop
      /\ ~sub.rcReady /\ ~sub.rcDone /\ ~sub.ncDone
      /\ sub.firstreplaymsg = 0 /\ sub.firstreplaymsgid = 0
      /\ sub.lastreplaymsg = 0 /\ sub.lastreplaymsgid = 0
      /\ sub.lastmsg = 0 /\ sub.lastmsgid = 0
  <2>1. msgid \in Nat /\ now \in 1 .. MaxTime
    BY LogType DEF Typed, Buffer
  <2>2. QED
    BY <2>1, RequestedIs
<1>3. Buffer /\ msgid \in Nat /\ Len(log) = msgid /\ oldest \in Nat \ {0} /\ now \in Nat
      /\ start \in Nat /\ stop \in Nat /\ EventlogSize \in Nat
  BY LogType DEF Typed, Buffer, msgid
<1>4. from \in 1 .. msgid + 1
  BY <1>3, ScopeType
<1>5. \A x : Open(s, x, <<>>, msgid + 1, log) = {}
  BY <1>3 DEF Open, Due
<1> HIDE DEF sub, T
<1>6. CASE start = 0
  <2>1. from = msgid + 1 /\ new = Live(sub) /\ stop = 0
    BY <1>1, <1>6
  <2>2. Kept(sub, Live(sub)) /\ Live(sub).state = "live"
    BY <1>2, <1>3, LiveStart
  <2>3. Replaying(new, from, log, oldest, now)
    BY <1>2, <1>3, <1>4, <2>1, <2>2 DEF Replaying, Kept
  <2>4. QED
    BY <1>1, <1>5, <2>1, <2>3 DEF Reading
<1>7. CASE start # 0
  <2> DEFINE first == ReplayStart(start)
  <2>1. from = Min(T) /\ new = Replay(sub)
    BY <1>7
  <2>2. Min(T) \in T /\ \A n \in T : Min(T) =< n
    BY <1>3, ScopeType DEF T
  <2>3. /\ new.state = "replay"
        /\ new.stopTime = stop /\ new.futurestop = (stop > now)
        /\ new.lastmsgid = 0
        /\ new.lastreplaymsg = new.lastreplaymsgid
        /\ \/ /\ new.rcReady
              /\ new.firstreplaymsg = 0 /\ new.firstreplaymsgid = 0
              /\ new.lastreplaymsgid = 0
              /\ first # 0 => /\ stop # 0 /\ ~(stop > now)
                              /\ stop =< log[first].eventTime
           \/ /\ ~new.rcReady /\ first # 0
              /\ new.firstreplaymsg = first /\ new.firstreplaymsgid = first
              /\ stop # 0 /\ ~(stop > now) => new.lastreplaymsgid = ReplayEnd(first, stop)
    BY <1>2, <1>3, <2>1, ReplayStarts
  <2> HIDE DEF new, from
  <2>4. CASE first = 0
    <3>1. T = {msgid + 1}
      <4>1. \A n \in notificationQ : log[n].eventTime < start
        BY <1>3, <2>4, ReplayFrom, LogType
      <4>2. \A n \in notificationQ : log[n].eventTime \in Nat
        BY <1>3, LogType
      <4>3. QED
        BY <1>3, <4>1, <4>2 DEF T
    <3>2. from = msgid + 1
      BY <2>1, <2>2, <3>1
    <3>3. new.stopTime # 0 /\ ~new.futurestop => new.stopTime =< now
      <4>1. ~new.futurestop => ~(stop > now)
        BY <2>3, Zenon
      <4>2. QED
        BY <1>3, <2>3, <4>1
    <3>4. /\ new.lastreplaymsgid = 0 /\ new.lastreplaymsg = 0
          /\ new.firstreplaymsg = 0 /\ new.firstreplaymsgid = 0
      BY <2>3, <2>4
    <3>5. Replaying(new, from, log, oldest, now)
      BY <1>3, <1>4, <2>3, <3>3, <3>4 DEF Replaying
    <3>6. QED
      BY <1>1, <1>5, <3>2, <3>5 DEF Reading
  <2>5. CASE first # 0
    <3>1. first \in notificationQ /\ first \in 1 .. msgid
          /\ \A n \in notificationQ : start =< log[n].eventTime => first =< n
      BY <1>3, <2>5, ReplayFrom, LogType
    <3>2. \A n \in 1 .. msgid : log[n].eventTime \in Nat
      BY <1>3, LogType
    <3>3. from = first
      <4>1. \A n \in T : n = msgid + 1 \/ (n \in notificationQ /\ start =< log[n].eventTime)
        BY <1>3, <3>2, LogType DEF T
      <4>2. first =< from
        BY <1>3, <2>1, <2>2, <3>1, <4>1
      <4>3. first \in T
        <5>1. log[first].eventTime >= start
          BY <1>3, <2>5, <3>1, <3>2, ReplayFrom
        <5>2. QED
          BY <3>1, <5>1 DEF T
      <4>4. from =< first
        BY <2>1, <2>2, <4>3
      <4>5. QED
        BY <1>4, <3>1, <4>2, <4>4
    <3>4. ASSUME NEW k \in Open(s, new, <<>>, from, log)
          PROVE  k > new.lastmsgid /\ ~Over(new)
      <4>1. k \in first .. msgid /\ k \in 1 .. msgid
            /\ (stop # 0 => log[k].eventTime < stop)
        BY <1>3, <2>3, <3>1, <3>3, <3>4 DEF Open, Due
      <4>2. log[first].eventTime =< log[k].eventTime
        BY <1>3, <3>1, <4>1 DEF Buffer
      <4>3. ~new.rcReady
        BY <1>3, <2>3, <2>5, <3>1, <3>2, <4>1, <4>2
      <4>4. QED
        BY <2>3, <4>1, <4>3 DEF Over
    <3>5. ASSUME stop # 0, ~(stop > now), new.lastreplaymsgid # 0,
                 NEW n \in 1 .. Len(log), n > new.lastreplaymsgid
          PROVE  log[n].eventTime >= stop
      <4>1. n \in 1 .. msgid /\ n > ReplayEnd(first, stop)
        BY <1>3, <2>3, <3>5
      <4>2. log[n].eventTime > stop
        BY <1>3, <3>1, <4>1, ReplayTo
      <4>3. QED
        BY <1>3, <3>2, <4>1, <4>2
    <3>6. new.firstreplaymsg = 0 => new.firstreplaymsgid < oldest
      BY <1>3, <2>3, <3>1
    <3>7. new.firstreplaymsg \in {0, new.firstreplaymsgid}
          /\ (new.firstreplaymsgid # 0 => new.firstreplaymsgid = from)
      BY <2>3, <3>3
    <3>8. new.stopTime # 0 /\ ~new.futurestop =>
            /\ new.stopTime =< now
            /\ new.lastreplaymsgid # 0 =>
                 \A n \in 1 .. Len(log) :
                    n > new.lastreplaymsgid => log[n].eventTime >= new.stopTime
      <4>1. ~new.futurestop => ~(stop > now)
        BY <2>3, Zenon
      <4>2. QED
        BY <1>3, <2>3, <3>5, <4>1
    <3>9. Replaying(new, from, log, oldest, now)
      BY <1>4, <2>3, <3>6, <3>7, <3>8 DEF Replaying
    <3>10. QED
      BY <1>1, <3>4, <3>9 DEF Reading
  <2>6. QED
    BY <2>4, <2>5
<1>8. QED
  BY <1>6, <1>7

Readings ==
    /\ Streams
    /\ \A s \in Sessions : Reading(s, subs[s], delivered[s], scope[s], log, oldest, now)

LEMMA ReadingsInit == Init => Readings
<1> SUFFICES ASSUME Init PROVE Readings
  OBVIOUS
<1>1. Streams
  BY StreamsInit
<1>2. \A s \in Sessions : subs[s].state = "none"
  BY DEF Init, NoSubscription
<1>3. QED
  BY <1>1, <1>2 DEF Readings, Reading

\* Time passes over the stop of a subscription, and not back.
LEMMA TickReading ==
    ASSUME Typed, now' = now + 1, NEW s \in Sessions,
           Reading(s, subs[s], delivered[s], scope[s], log, oldest, now)
    PROVE  Reading(s, subs[s], delivered[s], scope[s], log, oldest, now')
<1>1. now \in Nat /\ subs[s].stopTime \in Nat
  <2>1. subs[s] \in SubsOf(msgid) /\ now \in Nat
    BY DEF Typed, Buffer
  <2>2. QED
    BY <2>1 DEF SubsOf
<1>2. \A stop \in Nat : stop =< now => stop =< now'
  BY <1>1
<1>3. ASSUME subs[s].state # "none"
      PROVE  Replaying(subs[s], scope[s], log, oldest, now')
  BY <1>1, <1>2, <1>3 DEF Reading, Replaying
<1>4. QED
  BY <1>3 DEF Reading

LEMMA ReadingsNext == EventlogSize # 0 /\ Readings /\ [Next]_vars => Readings'
<1> SUFFICES ASSUME EventlogSize # 0, Readings, [Next]_vars
             PROVE  Readings'
  OBVIOUS
<1>1. Typed /\ Streams /\ Streams'
  BY StreamsNext DEF Readings, Streams
<1>2. ASSUME UNCHANGED <<subs, delivered, scope, log, oldest, now>>
      PROVE  Readings'
  BY <1>1, <1>2 DEF Readings
<1>3. CASE Tick
  <2>1. now' = now + 1 /\ UNCHANGED <<subs, delivered, scope, log, oldest>>
    BY <1>3 DEF Tick, buffer, history
  <2>2. QED
    BY <1>1, <2>1, TickReading DEF Readings
<1>4. ASSUME NEW type \in Types, Queue(type), UNCHANGED now, NEW s \in Sessions
      PROVE  Reading(s, Queued[s], delivered[s], scope[s], log', oldest', now)
  BY <1>1, <1>4, QueuedReading DEF Readings, Streams
<1>5. ASSUME NEW type \in Types, LogEvent(type)
      PROVE  Readings'
  <2>1. Queue(type) /\ subs' = Queued /\ UNCHANGED <<now, delivered, scope>>
    BY <1>5 DEF LogEvent, history
  <2>2. QED
    BY <1>1, <1>4, <2>1 DEF Readings
<1>6. ASSUME NEW s \in Sessions, EndSession(s)
      PROVE  Readings'
  <2>1. /\ Queue(SessionEnd) /\ subs' = [Queued EXCEPT ![s] = NoSubscription]
        /\ delivered' = [delivered EXCEPT ![s] = <<>>]
        /\ scope' = [scope EXCEPT ![s] = 0]
        /\ UNCHANGED now
    BY <1>6 DEF EndSession
  <2>2. DOMAIN Queued = Sessions /\ DOMAIN delivered = Sessions /\ DOMAIN scope = Sessions
    BY <1>1 DEF Queued, Typed
  <2>3. subs'[s].state = "none"
    BY <2>1, <2>2 DEF NoSubscription
  <2>4. ASSUME NEW t \in Sessions
        PROVE  Reading(t, subs'[t], delivered'[t], scope'[t], log', oldest', now')
    <3>1. CASE t = s
      BY <2>3, <3>1 DEF Reading
    <3>2. CASE t # s
      BY <1>4, <2>1, <2>2, <3>2
    <3>3. QED
      BY <3>1, <3>2
  <2>5. QED
    BY <1>1, <2>4 DEF Readings
<1>7. ASSUME NEW s \in Sessions, NEW start \in 0 .. MaxTime, NEW stop \in 0 .. MaxTime,
             NEW filter \in Filters, CreateSubscription(s, start, stop, filter)
      PROVE  Readings'
  <2>1. /\ \A t \in Sessions \ {s} :
              subs'[t] = subs[t] /\ delivered'[t] = delivered[t] /\ scope'[t] = scope[t]
        /\ delivered'[s] = <<>>
        /\ UNCHANGED <<now, log, oldest>>
    BY <1>1, <1>7 DEF CreateSubscription, Typed, buffer
  <2>2. Reading(s, subs'[s], <<>>, scope'[s], log, oldest, now)
    BY <1>1, <1>7, CreateReading
  <2>3. QED
    BY <1>1, <2>1, <2>2 DEF Readings
<1>8. CASE SendNotifications
  <2>1. UNCHANGED <<now, log, scope, oldest>>
    BY <1>8 DEF SendNotifications
  <2>2. ASSUME NEW s \in Sessions
        PROVE  Reading(s, subs'[s], delivered'[s], scope[s], log, oldest, now)
    <3>1. delivered[s] \in Seq(Int) /\ scope[s] \in Nat
      BY <1>1, SeqMonotonic, LogType DEF Typed
    <3>2. Buffer /\ Place(subs[s], oldest, msgid) /\ Stream(subs[s], delivered[s])
          /\ Reading(s, subs[s], delivered[s], scope[s], log, oldest, now)
      BY <1>1 DEF Streams, Typed, Readings
    <3>3. /\ Moves(s, subs[s], subs'[s], Served(s).sent)
          /\ delivered'[s] = delivered[s] \o Served(s).sent
      BY <1>1, <1>8, PassMoves
    <3>4. QED
      BY <3>1, <3>2, <3>3, MovesReading
  <2>3. QED
    BY <1>1, <2>1, <2>2 DEF Readings
<1>9. QED
  BY <1>2, <1>3, <1>5, <1>6, <1>7, <1>8 DEF Next, StartBurst, vars, buffer, history

\* In a buffer with a limit, an event that a subscription asks for is sent, or is
\* queued ahead of its place, or was overrun.
THEOREM NothingIsSkipped == EventlogSize # 0 => (Spec => []NoneIsSkipped)
<1>1. ASSUME EventlogSize # 0, Readings, NEW s \in subscriptionQ, NEW n \in Wanted(s),
             n \notin Range(delivered[s]), ~Overrun(n)
      PROVE  n \in notificationQ /\ n > subs[s].lastmsgid /\ subs[s].state # "shutdown"
  <2>1. Buffer /\ delivered[s] \in Seq(-1 .. msgid) /\ subs[s].state # "none"
        /\ Reading(s, subs[s], delivered[s], scope[s], log, oldest, now)
    BY <1>1 DEF Readings, Streams, Typed, subscriptionQ
  <2>2. scope[s] \in Nat /\ msgid \in Nat /\ EventlogSize \in Nat
    BY <1>1, LogType DEF Readings, Streams, Typed, subscriptionQ
  <2>3. ~Says(delivered[s], n)
    BY <1>1, <2>1, LenProperties DEF Range, Says
  <2>4. n \in Open(s, subs[s], delivered[s], scope[s], log)
    BY <1>1, <2>2, <2>3 DEF Wanted, Overrun, Open, Due, msgid
  <2>5. n \in notificationQ
    BY <1>1, <2>1, <2>2, <2>4, OpenIs DEF Reading, Replaying
  <2>6. QED
    BY <2>1, <2>4, <2>5 DEF Reading, Over
<1>2. EventlogSize # 0 /\ Readings => NoneIsSkipped
  BY <1>1 DEF NoneIsSkipped
<1>3. ASSUME EventlogSize # 0
      PROVE  Spec => []NoneIsSkipped
  <2>1. Readings /\ [Next]_vars => Readings'
    BY <1>3, ReadingsNext
  <2>2. Readings => NoneIsSkipped
    BY <1>2, <1>3
  <2>3. QED
    BY <2>1, <2>2, ReadingsInit, PTL DEF Spec
<1>4. QED
  BY <1>3
=============================================================================
