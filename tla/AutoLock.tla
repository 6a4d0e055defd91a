------------------------------ MODULE AutoLock ------------------------------
(***************************************************************************)
(* get-locks and release-locks of the client yangcli                       *)
(* (yangcli_autolock.c), with the requests of the manager library          *)
(* (mgr_rpc.c) and the locks of the server.  Several clients ask for the   *)
(* global locks of all datastores one by one, retry what another session   *)
(* holds, discard edits that keep the candidate from being locked, and     *)
(* give back what they have when the lock timeout is over.  A client looks *)
(* at a reply, or polls its timers, one at a time; the server answers the  *)
(* requests of a session in order.  A reply that is later than the timeout *)
(* of its request finds no request, and is dropped.                        *)
(*                                                                         *)
(* A look at the lock timeout that finds it over ends what the client is   *)
(* doing, so no clock is kept: any look may find it over, and so may any   *)
(* look at a retry interval.  get-locks runs with its default of cleaning  *)
(* up.                                                                     *)
(* Requests of other kinds and lost connections are left out.              *)
(***************************************************************************)
EXTENDS CfgRules, SequencesExt

CONSTANTS
    Databases,      \* the datastores of the server
    MaxLate         \* bound: requests that a client leaves behind, with the one it sends

ASSUME AutoLockAssumption ==
    /\ "running" \in Databases
    /\ Databases \subseteq {"running", "candidate", "startup"}
    /\ MaxLate \in [Sessions -> Nat]

VARIABLES
    entry,          \* lock state of each datastore
    dirty,          \* the candidate has edits
    cc_active,      \* another session's confirmed commit is in progress
    server_cb,      \* what each client knows
    calls,          \* the requests of each session, with their replies
    gave_up,        \* clients that gave up a request or a release for a timeout
    overlapped      \* clients that went on while a request was still in the queue

server == <<entry, dirty, cc_active>>
given_up == <<gave_up, overlapped>>
vars == <<server, server_cb, calls, given_up>>

cfg_id == [running |-> 1, candidate |-> 2, startup |-> 3]

First(dbs) == CHOOSE d \in dbs : \A e \in dbs : cfg_id[d] <= cfg_id[e]

LockStates == {"idle", "request_sent", "temp_error", "fatal_error", "active",
               "release_sent", "released"}

\* A client without locks, or one that has forgotten them.
Cleared ==
    [state |-> "idle", mode |-> "normal", active |-> FALSE, waiting |-> FALSE,
     cur |-> "running", lock |-> [d \in Databases |-> "idle"]]

Init ==
    /\ entry = [d \in Databases |-> Unlocked]
    /\ dirty = FALSE
    /\ cc_active = FALSE
    /\ server_cb = [c \in Sessions |-> Cleared]
    /\ calls = [c \in Sessions |-> <<>>]
    /\ gave_up = {}
    /\ overlapped = {}

-----------------------------------------------------------------------------
(* The client.  What a handler does is the new state of the client and the *)
(* requests that it sends.                                                 *)

Outcome(k, sent) == [cb |-> k, sent |-> sent]

Call(op, d) == [op |-> op, cfg |-> d, reply |-> "none", queued |-> TRUE]

\* send_lock_pdu_to_server.
Sent(k, op, d) ==
    Outcome([k EXCEPT !.state = "rpywait", !.cur = d,
                      !.lock[d] = IF op = "lock" THEN "request_sent" ELSE "release_sent"],
            <<Call(op, d)>>)

In(k, states) == {d \in Databases : k.lock[d] \in states}

\* handle_release_locks_request_to_server.
ReleaseNext(k) ==
    IF In(k, {"active"}) = {} THEN Outcome(Cleared, <<>>)
    ELSE Sent(k, "unlock", First(In(k, {"active"})))

\* Faulty variant: a release that is given up leaves the lock states behind.
ReleaseMoreKeepsStates(k, over) ==
    IF over THEN Outcome([Cleared EXCEPT !.lock = k.lock], <<>>) ELSE ReleaseNext(k)

ReleaseMore(k, over) == IF over THEN Outcome(Cleared, <<>>) ELSE ReleaseNext(k)

\* handle_locks_cleanup: the timeout starts over for the release.
Cleanup(k) == ReleaseNext([k EXCEPT !.mode = "autounlock"])

\* All locks were asked for and none is waited for.  Outside of a command it does
\* not matter which datastore was asked for last.
Finished(k) ==
    IF In(k, {"active"}) = Databases
    THEN Outcome([k EXCEPT !.mode = "normal", !.waiting = FALSE, !.cur = "running"], <<>>)
    ELSE Cleanup(k)

\* A lock that is in use is asked for again when its retry interval is over.
Retried(k, due) ==
    LET k1 == [k EXCEPT !.waiting = @ \/ due = {} \/ First(due) # First(In(k, {"temp_error"}))]
    IN  IF due = {} THEN Outcome(k1, <<>>) ELSE Sent(k1, "lock", First(due))

\* handle_get_locks_request_to_server, before the timeout.
LockNext(k) ==
    LET idle  == In(k, {"idle"})
        fatal == In(k, {"fatal_error"})
        temp  == In(k, {"temp_error"})
    IN  CASE fatal # {} /\ (idle = {} \/ cfg_id[First(fatal)] < cfg_id[First(idle)]) ->
               {Outcome(k, <<>>)}
          [] idle # {} /\ (fatal = {} \/ cfg_id[First(idle)] < cfg_id[First(fatal)]) ->
               {Sent([k EXCEPT !.mode = "autolock"], "lock", First(idle))}
          [] idle = {} /\ fatal = {} /\ temp # {} -> {Retried(k, due) : due \in SUBSET temp}
          [] OTHER -> {Finished(k)}

LockMore(k, over) == IF over THEN {Cleanup(k)} ELSE LockNext(k)

\* The reply handler while locks are asked for.  Unless another session holds the
\* lock, a candidate that cannot be locked is rid of its edits.
Locking(k, reply, over) ==
    CASE reply = "ok" -> LockMore([k EXCEPT !.lock[k.cur] = "active"], over)
      [] reply = "lock-denied" -> LockMore([k EXCEPT !.lock[k.cur] = "temp_error"], over)
      [] reply = "other" /\ k.cur = "candidate" ->
           {Outcome([k EXCEPT !.mode = "autodiscard", !.state = "rpywait"],
                    <<Call("discard-changes", "candidate")>>)}
      [] OTHER -> {Outcome([k EXCEPT !.lock[k.cur] = "fatal_error"], <<>>)}

Unlocking(k, reply, over) ==
    LET state == IF reply = "ok" THEN "released" ELSE "fatal_error"
    IN  {ReleaseMore([k EXCEPT !.lock[k.cur] = state], over)}

Discarding(k, reply, over) ==
    LET k1 == [k EXCEPT !.mode = "autolock"]
    IN  IF reply = "ok" THEN LockMore(k1, over) ELSE {Cleanup(k1)}

\* yangcli_reply_handler; a reply that nobody waits for is ignored.
Handled(k, reply, over) ==
    LET k1 == [k EXCEPT !.state = "idle"]
    IN  CASE k.state = "rpywait" /\ k.mode = "autolock" -> Locking(k1, reply, over)
          [] k.state = "rpywait" /\ k.mode = "autounlock" -> Unlocking(k1, reply, over)
          [] k.state = "rpywait" /\ k.mode = "autodiscard" -> Discarding(k1, reply, over)
          [] OTHER -> {Outcome(k, <<>>)}

\* A timeout ends what the client is doing (yangcli_stdin_handler).
GivenUp(k) ==
    LET k1 == [k EXCEPT !.state = "idle"]
    IN  IF k.mode = "autounlock" THEN Outcome(Cleared, <<>>) ELSE Cleanup(k1)

Step(c, out, q) ==
    /\ server_cb' = [server_cb EXCEPT ![c] = out.cb]
    /\ calls' = [calls EXCEPT ![c] = q \o out.sent]

\* The requests that a reply still finds (reqQ).
Queued(q) == {i \in DOMAIN q : q[i].queued}

\* After a step of client c.  Without lock states and without queued requests there
\* is nothing that a reply could be credited to.
Overlapped(c, clients) ==
    IF server_cb'[c] = Cleared /\ Queued(calls'[c]) = {} THEN clients \ {c} ELSE clients

Alone(c) ==
    /\ overlapped' = Overlapped(c, overlapped)
    /\ UNCHANGED <<server, gave_up>>

-----------------------------------------------------------------------------
(* Commands.                                                               *)

AtPrompt(c) == server_cb[c].state = "idle" /\ server_cb[c].mode = "normal"

GetLocks(c) ==
    /\ AtPrompt(c) /\ ~server_cb[c].active
    /\ calls[c] = <<>> \/ Len(calls[c]) < MaxLate[c]
    /\ \E out \in LockNext([Cleared EXCEPT !.active = TRUE]) : Step(c, out, calls[c])
    /\ Alone(c)

ReleaseLocks(c) ==
    /\ AtPrompt(c) /\ server_cb[c].active
    /\ Step(c, Cleanup(server_cb[c]), calls[c])
    /\ Alone(c)

-----------------------------------------------------------------------------
(* The loop of a client.                                                   *)

\* mgr_rpc_dispatch: the request is looked up, and its handler called, which may
\* find the lock timeout over.
Receive(c, over) ==
    /\ calls[c] # <<>> /\ Head(calls[c]).reply # "none"
    /\ LET call == Head(calls[c])
           k    == server_cb[c]
       IN  IF call.queued
           THEN /\ \E out \in Handled(k, call.reply, over) : Step(c, out, Tail(calls[c]))
                /\ gave_up' = IF k.mode = "autounlock" /\ over THEN gave_up \cup {c}
                              ELSE gave_up
           ELSE /\ Step(c, Outcome(k, <<>>), Tail(calls[c]))
                /\ UNCHANGED gave_up
    /\ overlapped' = Overlapped(c, overlapped)
    /\ UNCHANGED server

\* Faulty variant: a timeout ends nothing unless a lock is retried.
PollOverWhenWaiting(c) ==
    LET k == server_cb[c]
    IN  /\ k.state = "idle" /\ k.mode = "autolock"
        /\ IF k.waiting THEN Step(c, GivenUp(k), calls[c]) ELSE UNCHANGED <<server_cb, calls>>
        /\ Alone(c)

\* Between two requests the lock timeout is looked at, and then the locks that
\* are waited for.
PollOver(c) ==
    LET k == server_cb[c]
    IN  /\ k.state = "idle" /\ k.mode = "autolock"
        /\ Step(c, GivenUp(k), calls[c])
        /\ Alone(c)

PollRetry(c) ==
    LET k == server_cb[c]
    IN  /\ k.state = "idle" /\ k.mode = "autolock" /\ k.waiting
        /\ \E out \in LockNext(k) : Step(c, out, calls[c])
        /\ Alone(c)

\* Faulty variant: a request that timed out stays in the queue.
TimedOutInPlace(q, late) == q

\* mgr_rpc_timeout_requestQ: the requests that are late leave the queue.
TimedOut(q, late) == [i \in 1 .. Len(q) |-> [q[i] EXCEPT !.queued = @ /\ i \notin late]]

\* Any of the queued requests has timed out, each by its own timeout; the client
\* goes on as if it were the one it waits for (message_timed_out).
RequestTimesOut(c) ==
    /\ server_cb[c].state = "rpywait"
    /\ \E late \in (SUBSET Queued(calls[c])) \ {{}} :
         /\ Step(c, GivenUp(server_cb[c]), TimedOut(calls[c], late))
         /\ overlapped' = Overlapped(c, IF late = Queued(calls[c]) THEN overlapped
                                        ELSE overlapped \cup {c})
    /\ Len(calls'[c]) <= MaxLate[c]
    /\ gave_up' = gave_up \cup {c}
    /\ UNCHANGED server

\* The lock timeout is over before the timeout of the request: the request stays.
LockTimesOut(c) ==
    /\ server_cb[c].state = "rpywait"
    /\ Step(c, GivenUp(server_cb[c]), calls[c])
    /\ Len(calls'[c]) <= MaxLate[c]
    /\ gave_up' = gave_up \cup {c}
    /\ overlapped' = Overlapped(c, overlapped \cup {c})
    /\ UNCHANGED server

-----------------------------------------------------------------------------
(* The server.                                                             *)

LockReply(c, d) ==
    CASE entry[d].state # "READY" -> "lock-denied"
      [] OkToLock(entry[d], d = "candidate" /\ dirty) /\ ~(cc_active /\ d # "startup") -> "ok"
      [] OTHER -> "other"

Reply(c, call) ==
    CASE call.op = "lock" -> LockReply(c, call.cfg)
      [] call.op = "unlock" -> IF OkToUnlock(entry[call.cfg], c) THEN "ok" ELSE "other"
      [] OTHER -> IF OkToWrite(entry["candidate"], c) THEN "ok" ELSE "other"

\* The requests of a session are answered in their order.
Serve(c) ==
    \E i \in 1 .. Len(calls[c]) :
        LET call  == calls[c][i]
            reply == Reply(c, call)
        IN  /\ call.reply = "none"
            /\ i > 1 => calls[c][i - 1].reply # "none"
            /\ calls' = [calls EXCEPT ![c][i].reply = reply]
            /\ entry' = CASE reply = "ok" /\ call.op = "lock" ->
                               [entry EXCEPT ![call.cfg] = LockedBy(c)]
                          [] reply = "ok" /\ call.op = "unlock" ->
                               [entry EXCEPT ![call.cfg] = Unlocked]
                          [] OTHER -> entry
            /\ dirty' = (dirty /\ ~(reply = "ok" /\ call.op # "lock" /\ call.cfg = "candidate"))
            /\ UNCHANGED <<cc_active, server_cb, given_up>>

\* Sessions of other kinds edit a candidate that they may write, and commit it.
OtherEdits ==
    /\ "candidate" \in Databases /\ entry["candidate"] = Unlocked
    /\ ~dirty
    /\ dirty' = TRUE
    /\ UNCHANGED <<entry, cc_active, server_cb, calls, given_up>>

OtherCommits ==
    /\ \A d \in Databases \ {"startup"} : entry[d] = Unlocked
    /\ ~cc_active
    /\ dirty' = FALSE
    /\ cc_active' = TRUE
    /\ UNCHANGED <<entry, server_cb, calls, given_up>>

OtherConfirms ==
    /\ cc_active
    /\ cc_active' = FALSE
    /\ UNCHANGED <<entry, dirty, server_cb, calls, given_up>>

-----------------------------------------------------------------------------

Next ==
    \/ \E c \in Sessions : GetLocks(c) \/ ReleaseLocks(c)
    \/ \E c \in Sessions : Receive(c, FALSE) \/ Receive(c, TRUE)
    \/ \E c \in Sessions : PollOver(c) \/ PollRetry(c)
    \/ \E c \in Sessions : RequestTimesOut(c) \/ LockTimesOut(c)
    \/ \E c \in Sessions : Serve(c)
    \/ OtherEdits
    \/ OtherCommits
    \/ OtherConfirms

Spec == Init /\ [][Next]_vars

\* The lock timeout of client c is found over, by whichever look comes first.
LocksOver(c) == Receive(c, TRUE) \/ PollOver(c)

\* The server answers, clients look at replies, and a lock timeout that is over is
\* over for every look: a client that keeps looking finds it.
FairSpec ==
    /\ Spec
    /\ \A c \in Sessions : WF_vars(Serve(c)) /\ SF_vars(LocksOver(c))

-----------------------------------------------------------------------------
(* Properties.                                                             *)

\* The variables have their types; no lock state outlives the command, and a
\* client waits for a reply only while it has a request.
TypeOK ==
    /\ entry \in [Databases -> CfgEntries]
    /\ {dirty, cc_active} \subseteq BOOLEAN
    /\ server_cb \in [Sessions ->
         [state : {"idle", "rpywait"}, mode : {"normal", "autolock", "autounlock", "autodiscard"},
          active : BOOLEAN, waiting : BOOLEAN, cur : Databases,
          lock : [Databases -> LockStates]]]
    /\ \A c \in Sessions :
         /\ calls[c] \in Seq([op : {"lock", "unlock", "discard-changes"}, cfg : Databases,
                              reply : {"none", "ok", "lock-denied", "other"}, queued : BOOLEAN])
         /\ server_cb[c].state = "rpywait" => server_cb[c].mode # "normal"
         /\ ~server_cb[c].active => server_cb[c] = Cleared
    /\ overlapped \subseteq gave_up /\ gave_up \subseteq Sessions

\* A client holds every lock it takes for granted, also when replies come after
\* their requests timed out and left the queue.  A client that went on while a
\* request was still in the queue is exempt until it has forgotten its locks and has
\* nothing in the queue: a late reply is credited to the datastore it asks for now.
\* And as long as a client gave up nothing, the server has given it no lock that it
\* does not know of, through retries, discarded edits and cleanup
\* (yangcli_reply_handler, mgr_rpc_dispatch, mgr_rpc_timeout_requestQ).
BeliefsAgree ==
    \A c \in Sessions, d \in Databases :
        /\ c \notin overlapped /\ server_cb[c].lock[d] = "active" => entry[d] = LockedBy(c)
        /\ c \notin gave_up /\ entry[d] = LockedBy(c) =>
             server_cb[c].lock[d] \in {"active", "request_sent", "release_sent"}

\* get-locks and release-locks come to an end, whatever other sessions hold, edit
\* or wait for, and whether replies are in time.
GetLocksEnds == \A c \in Sessions : server_cb[c].mode # "normal" ~> server_cb[c].mode = "normal"
=============================================================================
