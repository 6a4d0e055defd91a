--------------------------- MODULE AutoLockProofs ---------------------------
(***************************************************************************)
(* Proofs about AutoLock, for any clients, datastores and late replies.    *)
(***************************************************************************)
EXTENDS AutoLock, SequenceTheorems, TLAPS

USE AutoLockAssumption, NoSessionAssumption

Modes == {"normal", "autolock", "autounlock", "autodiscard"}

CallType == [op : {"lock", "unlock", "discard-changes"}, cfg : Databases,
             reply : {"none", "ok", "lock-denied", "other"}, queued : BOOLEAN]

ClientType == [state : {"idle", "rpywait"}, mode : Modes, active : BOOLEAN,
               waiting : BOOLEAN, cur : Databases, lock : [Databases -> LockStates]]

-----------------------------------------------------------------------------
(***************************************************************************)
(* The invariant, for a client with state k and requests q, and the locks  *)
(* e of the server.                                                        *)
(***************************************************************************)

\* Requests are answered in their order.
Answered(q) ==
    \A i, j \in 1 .. Len(q) : i < j /\ q[j].reply # "none" => q[i].reply # "none"

\* The request that the client waits for is its last one, and is what its mode and
\* its lock states say.
Waiting(k, q) ==
    k.state = "rpywait" =>
        /\ q # <<>>
        /\ q[Len(q)].queued
        /\ q[Len(q)].cfg = k.cur
        /\ k.mode = "autolock" => q[Len(q)].op = "lock" /\ k.lock[k.cur] = "request_sent"
        /\ k.mode = "autounlock" => q[Len(q)].op = "unlock" /\ k.lock[k.cur] = "release_sent"
        /\ k.mode = "autodiscard" => q[Len(q)].op = "discard-changes"

\* A lock that was granted last is held.
Granted(c, q, e) ==
    q # <<>> /\ q[Len(q)].op = "lock" /\ q[Len(q)].reply = "ok" =>
        e[q[Len(q)].cfg] = LockedBy(c)

\* The replies to all other requests are dropped.
Single(k, q) == \A i \in 1 .. Len(q) : q[i].queued => i = Len(q) /\ k.state = "rpywait"

\* What the client takes for locked is, and is not about to be unlocked.
Held(c, k, q, e) ==
    \A d \in Databases : k.lock[d] = "active" =>
        /\ e[d] = LockedBy(c)
        /\ \A i \in 1 .. Len(q) : q[i].op = "unlock" /\ q[i].cfg = d => q[i].reply # "none"

\* A lock of the client is one it knows of, or was granted or not yet released by the
\* request that it waits for.
Pending(k, q, d) ==
    /\ k.state = "rpywait" /\ k.cur = d
    /\ \/ k.mode = "autolock" /\ q[1].reply = "ok"
       \/ k.mode = "autounlock" /\ q[1].reply = "none"

Known(c, k, q, e) ==
    /\ Len(q) <= 1
    /\ k.state = "idle" => q = <<>>
    /\ \A i \in 1 .. Len(q) : q[i].queued
    /\ \A d \in Databases : e[d] = LockedBy(c) => k.lock[d] = "active" \/ Pending(k, q, d)

Agreement(c) ==
    /\ Answered(calls[c])
    /\ Waiting(server_cb[c], calls[c])
    /\ Granted(c, calls[c], entry)
    /\ c \notin overlapped =>
        Single(server_cb[c], calls[c]) /\ Held(c, server_cb[c], calls[c], entry)
    /\ c \notin gave_up => Known(c, server_cb[c], calls[c], entry)

Agreements == TypeOK /\ \A c \in Sessions : Agreement(c)

-----------------------------------------------------------------------------
(***************************************************************************)
(* What a handler of the client does.                                      *)
(***************************************************************************)

Rests(k, out) ==
    /\ out.sent = <<>>
    /\ out.cb.state = "idle" /\ out.cb.active /\ out.cb.lock = k.lock

Forgets(out) == out = Outcome(Cleared, <<>>)

Asks(k, out) ==
    \E d \in Databases :
        /\ k.lock[d] \in {"idle", "temp_error"}
        /\ out.cb.state = "rpywait" /\ out.cb.active /\ out.cb.mode = "autolock"
        /\ out.cb.cur = d /\ out.cb.lock = [k.lock EXCEPT ![d] = "request_sent"]
        /\ out.sent = <<Call("lock", d)>>

Returns(k, out) ==
    \E d \in Databases :
        /\ k.lock[d] = "active"
        /\ out.cb.state = "rpywait" /\ out.cb.active /\ out.cb.mode = "autounlock"
        /\ out.cb.cur = d /\ out.cb.lock = [k.lock EXCEPT ![d] = "release_sent"]
        /\ out.sent = <<Call("unlock", d)>>

Discards(k, out) ==
    /\ "candidate" \in Databases
    /\ out.cb.state = "rpywait" /\ out.cb.active /\ out.cb.mode = "autodiscard"
    /\ out.cb.cur = "candidate" /\ out.cb.lock = k.lock
    /\ out.sent = <<Call("discard-changes", "candidate")>>

\* The client rests, sends one request, or forgets locks of which it has none.
Goes(k, out) ==
    /\ out.cb \in ClientType
    /\ Rests(k, out) \/ Forgets(out) \/ Asks(k, out) \/ Returns(k, out) \/ Discards(k, out)
    /\ Forgets(out) => In(k, {"active"}) = {}

\* The loop over the datastores finds one when there is one.
LEMMA FirstIn ==
    ASSUME NEW dbs \in SUBSET Databases, dbs # {}
    PROVE  First(dbs) \in dbs
<1>1. \E d \in dbs : \A e \in dbs : cfg_id[d] <= cfg_id[e]
  <2>1. cfg_id["running"] = 1 /\ cfg_id["candidate"] = 2 /\ cfg_id["startup"] = 3
    BY DEF cfg_id
  <2>2. \A d \in dbs : d \in {"running", "candidate", "startup"}
    OBVIOUS
  <2>3. CASE "running" \in dbs
    <3>1. "running" \in dbs
      BY <2>2, <2>3
    <3>2. \A e \in dbs : cfg_id["running"] <= cfg_id[e]
      BY <2>1, <2>2, <2>3
    <3>3. QED
      BY <3>1, <3>2
  <2>4. CASE "running" \notin dbs /\ "candidate" \in dbs
    <3>1. "candidate" \in dbs
      BY <2>2, <2>4
    <3>2. \A e \in dbs : cfg_id["candidate"] <= cfg_id[e]
      BY <2>1, <2>2, <2>4
    <3>3. QED
      BY <3>1, <3>2
  <2>5. CASE "running" \notin dbs /\ "candidate" \notin dbs
    <3>1. "startup" \in dbs
      BY <2>2, <2>5
    <3>2. \A e \in dbs : cfg_id["startup"] <= cfg_id[e]
      BY <2>1, <2>2, <2>5
    <3>3. QED
      BY <3>1, <3>2
  <2>6. QED
    BY <2>3, <2>4, <2>5
<1>2. QED
  BY <1>1 DEF First

\* A client without locks has the type of a client.
LEMMA ClearedType == Cleared \in ClientType
BY DEF Cleared, ClientType, Modes, LockStates

\* What a client is, and sends, when it asks for a lock.
LEMMA AskedFor ==
    ASSUME NEW k \in ClientType, NEW d \in Databases
    PROVE  LET out == Sent(k, "lock", d)
           IN  /\ out.cb \in ClientType
               /\ out.cb.state = "rpywait" /\ out.cb.active = k.active
               /\ out.cb.mode = k.mode /\ out.cb.cur = d
               /\ out.cb.lock = [k.lock EXCEPT ![d] = "request_sent"]
               /\ out.sent = <<Call("lock", d)>>
BY DEF Sent, Outcome, ClientType, LockStates

\* What a client is, and sends, when it gives a lock back.
LEMMA GivenBack ==
    ASSUME NEW k \in ClientType, NEW d \in Databases
    PROVE  LET out == Sent(k, "unlock", d)
           IN  /\ out.cb \in ClientType
               /\ out.cb.state = "rpywait" /\ out.cb.active = k.active
               /\ out.cb.mode = k.mode /\ out.cb.cur = d
               /\ out.cb.lock = [k.lock EXCEPT ![d] = "release_sent"]
               /\ out.sent = <<Call("unlock", d)>>
BY DEF Sent, Outcome, ClientType, LockStates

\* The cleanup gives back a lock that is active, or forgets the locks when none is.
LEMMA CleanupGoes ==
    ASSUME NEW k \in ClientType, k.active
    PROVE  /\ Goes(k, Cleanup(k))
           /\ k.mode = "autounlock" => Goes(k, ReleaseNext(k))
<1>1. ASSUME NEW r \in ClientType, r.active, r.lock = k.lock, r.mode = "autounlock"
      PROVE  Goes(k, ReleaseNext(r))
  <2>1. In(r, {"active"}) = In(k, {"active"})
    BY <1>1 DEF In
  <2>2. CASE In(k, {"active"}) = {}
    <3>1. ReleaseNext(r) = Outcome(Cleared, <<>>)
      BY <2>1, <2>2 DEF ReleaseNext
    <3>2. QED
      BY <2>2, <3>1, ClearedType DEF Goes, Forgets, Outcome
  <2>3. CASE In(k, {"active"}) # {}
    <3> DEFINE d == First(In(k, {"active"}))
    <3>1. d \in Databases /\ k.lock[d] = "active"
      BY <2>3, FirstIn DEF In
    <3>2. ReleaseNext(r) = Sent(r, "unlock", d)
      BY <2>1, <2>3 DEF ReleaseNext
    <3> HIDE DEF d
    <3> DEFINE out == Sent(r, "unlock", d)
    <3>3. /\ out.cb \in ClientType
          /\ out.cb.state = "rpywait" /\ out.cb.active
          /\ out.cb.mode = "autounlock" /\ out.cb.cur = d
          /\ out.cb.lock = [k.lock EXCEPT ![d] = "release_sent"]
          /\ out.sent = <<Call("unlock", d)>>
      BY <1>1, <3>1, GivenBack
    <3> HIDE DEF out
    <3>4. Returns(k, out) /\ out.cb \in ClientType /\ out.cb.state = "rpywait"
      BY <3>1, <3>3 DEF Returns
    <3>5. ~Forgets(out)
      BY <3>4 DEF Forgets, Outcome, Cleared
    <3>6. QED
      BY <3>2, <3>4, <3>5 DEF Goes, out
  <2>4. QED
    BY <2>2, <2>3
<1>2. [k EXCEPT !.mode = "autounlock"] \in ClientType
  BY DEF ClientType, Modes
<1>3. Goes(k, Cleanup(k))
  <2>1. /\ [k EXCEPT !.mode = "autounlock"].active
        /\ [k EXCEPT !.mode = "autounlock"].lock = k.lock
        /\ [k EXCEPT !.mode = "autounlock"].mode = "autounlock"
    BY DEF ClientType
  <2>2. QED
    BY <1>1, <1>2, <2>1 DEF Cleanup
<1>4. QED
  BY <1>1, <1>3

\* The loop over the datastores only asks for locks that the client does not have.
LEMMA LockNextGoes ==
    ASSUME NEW k \in ClientType, k.active, k.state = "idle",
           k.mode = "autolock" \/ \A d \in Databases : k.lock[d] = "idle",
           NEW out \in LockNext(k)
    PROVE  Goes(k, out)
<1> DEFINE idle == In(k, {"idle"})
           fatal == In(k, {"fatal_error"})
           temp == In(k, {"temp_error"})
<1>1. idle \in SUBSET Databases /\ fatal \in SUBSET Databases /\ temp \in SUBSET Databases
  BY DEF In
<1>2. k.lock \in [Databases -> LockStates] /\ "running" \in Databases
  BY DEF ClientType
<1>3. CASE out = Outcome(k, <<>>)
  <2>1. out.cb = k /\ out.sent = <<>>
    BY <1>3 DEF Outcome
  <2>2. ~Forgets(out)
    BY <2>1 DEF Forgets, Outcome, Cleared
  <2>3. QED
    BY <2>1, <2>2 DEF Goes, Rests
<1>4. CASE idle # {} /\ out = Sent([k EXCEPT !.mode = "autolock"], "lock", First(idle))
  <2> DEFINE d == First(idle)
             r == [k EXCEPT !.mode = "autolock"]
  <2>1. d \in Databases /\ k.lock[d] = "idle"
    BY <1>1, <1>4, FirstIn DEF In
  <2>2. /\ r \in ClientType
        /\ r.active /\ r.mode = "autolock" /\ r.lock = k.lock
    BY DEF ClientType, Modes
  <2>3. out = Sent(r, "lock", d)
    BY <1>4
  <2> HIDE DEF d, r
  <2>4. /\ out.cb \in ClientType
        /\ out.cb.state = "rpywait" /\ out.cb.active
        /\ out.cb.mode = "autolock" /\ out.cb.cur = d
        /\ out.cb.lock = [k.lock EXCEPT ![d] = "request_sent"]
        /\ out.sent = <<Call("lock", d)>>
    BY <2>1, <2>2, <2>3, AskedFor
  <2>5. Asks(k, out)
    BY <2>1, <2>4 DEF Asks
  <2>6. ~Forgets(out)
    BY <2>4 DEF Forgets, Outcome, Cleared
  <2>7. QED
    BY <2>4, <2>5, <2>6 DEF Goes
<1>5. ASSUME NEW due \in SUBSET temp, out = Retried(k, due), k.mode = "autolock"
      PROVE  Goes(k, out)
  <2> DEFINE w == k.waiting \/ due = {} \/ First(due) # First(temp)
             r == [k EXCEPT !.waiting = w]
  <2>1. /\ r \in ClientType
        /\ r.state = "idle" /\ r.active /\ r.mode = "autolock" /\ r.lock = k.lock
    BY <1>5 DEF ClientType
  <2>2. out = IF due = {} THEN Outcome(r, <<>>) ELSE Sent(r, "lock", First(due))
    BY <1>5 DEF Retried
  <2> HIDE DEF w, r
  <2>3. CASE due = {}
    <3>1. out.cb = r /\ out.sent = <<>>
      BY <2>2, <2>3 DEF Outcome
    <3>2. ~Forgets(out)
      BY <2>1, <3>1 DEF Forgets, Outcome, Cleared
    <3>3. QED
      BY <2>1, <3>1, <3>2 DEF Goes, Rests
  <2>4. CASE due # {}
    <3> DEFINE d == First(due)
    <3>1. d \in Databases /\ k.lock[d] = "temp_error"
      BY <1>1, <2>4, FirstIn DEF In
    <3>2. out = Sent(r, "lock", d)
      BY <2>2, <2>4
    <3> HIDE DEF d
    <3>3. /\ out.cb \in ClientType
          /\ out.cb.state = "rpywait" /\ out.cb.active
          /\ out.cb.mode = "autolock" /\ out.cb.cur = d
          /\ out.cb.lock = [k.lock EXCEPT ![d] = "request_sent"]
          /\ out.sent = <<Call("lock", d)>>
      BY <2>1, <3>1, <3>2, AskedFor
    <3>4. Asks(k, out)
      BY <3>1, <3>3 DEF Asks
    <3>5. ~Forgets(out)
      BY <3>3 DEF Forgets, Outcome, Cleared
    <3>6. QED
      BY <3>3, <3>4, <3>5 DEF Goes
  <2>5. QED
    BY <2>3, <2>4
<1>6. CASE out = Finished(k)
  <2> DEFINE r == [k EXCEPT !.mode = "normal", !.waiting = FALSE, !.cur = "running"]
  <2>1. /\ r \in ClientType
        /\ r.state = "idle" /\ r.active /\ r.lock = k.lock
    BY DEF ClientType, Modes
  <2>2. out = Outcome(r, <<>>) \/ out = Cleanup(k)
    BY <1>6 DEF Finished
  <2> HIDE DEF r
  <2>3. CASE out = Outcome(r, <<>>)
    <3>1. out.cb = r /\ out.sent = <<>>
      BY <2>3 DEF Outcome
    <3>2. ~Forgets(out)
      BY <2>1, <3>1 DEF Forgets, Outcome, Cleared
    <3>3. QED
      BY <2>1, <3>1, <3>2 DEF Goes, Rests
  <2>4. QED
    BY <2>2, <2>3, CleanupGoes
<1>7. temp # {} => k.mode = "autolock"
  BY <1>1 DEF In
<1>8. \/ out = Outcome(k, <<>>)
      \/ idle # {} /\ out = Sent([k EXCEPT !.mode = "autolock"], "lock", First(idle))
      \/ temp # {} /\ \E due \in SUBSET temp : out = Retried(k, due)
      \/ out = Finished(k)
  BY DEF LockNext
<1>9. QED
  BY <1>3, <1>4, <1>5, <1>6, <1>7, <1>8

\* A reply, and a timeout, leave a client that goes on with the locks it has; a reply
\* is credited to the datastore that was asked for last.
LEMMA HandledGoes ==
    ASSUME NEW k \in ClientType, k.active, k.state = "rpywait", k.mode # "normal",
           NEW reply \in {"ok", "lock-denied", "other"}, NEW over \in BOOLEAN,
           NEW out \in Handled(k, reply, over)
    PROVE  \/ over /\ k.mode = "autounlock" /\ Forgets(out)
           \/ \E r \in ClientType :
                /\ r.active /\ r.state = "idle"
                /\ \/ r.lock = k.lock /\ (k.mode = "autolock" => reply = "other")
                   \/ /\ k.mode = "autolock" /\ reply = "ok"
                      /\ r.lock = [k.lock EXCEPT ![k.cur] = "active"]
                   \/ /\ k.mode = "autounlock" \/ (k.mode = "autolock" /\ reply # "ok")
                      /\ \E s \in LockStates \ {"active"} :
                            r.lock = [k.lock EXCEPT ![k.cur] = s]
                /\ Goes(r, out)
<1> DEFINE k1 == [k EXCEPT !.state = "idle"]
           Result(r) == [k1 EXCEPT !.lock[k.cur] = r]
           Credited(r) ==
             \/ r.lock = k.lock /\ (k.mode = "autolock" => reply = "other")
             \/ /\ k.mode = "autolock" /\ reply = "ok"
                /\ r.lock = [k.lock EXCEPT ![k.cur] = "active"]
             \/ /\ k.mode = "autounlock" \/ (k.mode = "autolock" /\ reply # "ok")
                /\ \E s \in LockStates \ {"active"} :
                      r.lock = [k.lock EXCEPT ![k.cur] = s]
<1>1. /\ k1 \in ClientType /\ k1.active /\ k1.state = "idle" /\ k1.mode = k.mode
      /\ k1.lock = k.lock /\ k1.cur = k.cur /\ k.cur \in Databases
  BY DEF ClientType
<1>2. ASSUME NEW s \in LockStates
      PROVE  /\ Result(s) \in ClientType /\ Result(s).active /\ Result(s).state = "idle"
             /\ Result(s).mode = k.mode
             /\ Result(s).lock = [k.lock EXCEPT ![k.cur] = s]
  BY DEF ClientType
<1>3. ASSUME NEW r \in ClientType, r.active, r.state = "idle", r.mode = "autolock",
             out \in LockMore(r, over)
      PROVE  Goes(r, out)
  BY <1>3, LockNextGoes, CleanupGoes DEF LockMore
<1>4. {"active", "temp_error", "fatal_error", "released"} \subseteq LockStates
  BY DEF LockStates
<1>5. CASE k.mode = "autolock"
  <2>1. out \in Locking(k1, reply, over)
    BY <1>5 DEF Handled
  <2>2. CASE reply = "ok"
    <3>1. out \in LockMore(Result("active"), over)
      BY <1>1, <2>1, <2>2 DEF Locking
    <3>2. Credited(Result("active"))
      BY <1>2, <1>4, <1>5, <2>2
    <3> HIDE DEF Result, Credited
    <3>3. Goes(Result("active"), out)
      BY <1>2, <1>3, <1>4, <1>5, <3>1
    <3>4. QED
      BY <1>2, <1>4, <3>2, <3>3 DEF Credited
  <2>3. CASE reply = "lock-denied"
    <3>1. out \in LockMore(Result("temp_error"), over)
      BY <1>1, <2>1, <2>3 DEF Locking
    <3>2. Credited(Result("temp_error"))
      BY <1>2, <1>4, <1>5, <2>3
    <3> HIDE DEF Result, Credited
    <3>3. Goes(Result("temp_error"), out)
      BY <1>2, <1>3, <1>4, <1>5, <3>1
    <3>4. QED
      BY <1>2, <1>4, <3>2, <3>3 DEF Credited
  <2>4. CASE reply = "other" /\ k.cur = "candidate"
    <3> DEFINE r == [k1 EXCEPT !.mode = "autodiscard", !.state = "rpywait"]
    <3>1. out = Outcome(r, <<Call("discard-changes", "candidate")>>)
      BY <1>1, <2>1, <2>4 DEF Locking
    <3>2. /\ r \in ClientType /\ r.state = "rpywait" /\ r.active
          /\ r.mode = "autodiscard" /\ r.cur = "candidate" /\ r.lock = k.lock
      BY <2>4 DEF ClientType, Modes
    <3> HIDE DEF r
    <3>3. out.cb = r /\ out.sent = <<Call("discard-changes", "candidate")>>
      BY <3>1 DEF Outcome
    <3>4. Discards(k1, out)
      BY <1>1, <2>4, <3>2, <3>3 DEF Discards
    <3>5. ~Forgets(out)
      BY <3>2, <3>3 DEF Forgets, Outcome, Cleared
    <3>6. Goes(k1, out)
      BY <3>2, <3>3, <3>4, <3>5 DEF Goes
    <3>7. Credited(k1)
      BY <1>1, <2>4
    <3> HIDE DEF k1, Credited
    <3>8. QED
      BY <1>1, <3>6, <3>7 DEF Credited
  <2>5. CASE reply = "other" /\ k.cur # "candidate"
    <3>1. out = Outcome(Result("fatal_error"), <<>>)
      BY <1>1, <2>1, <2>5 DEF Locking
    <3>2. Credited(Result("fatal_error"))
      BY <1>2, <1>4, <1>5, <2>5
    <3>3. /\ Result("fatal_error") \in ClientType /\ Result("fatal_error").active
          /\ Result("fatal_error").state = "idle"
      BY <1>2, <1>4
    <3> HIDE DEF Result, Credited
    <3>4. out.cb = Result("fatal_error") /\ out.sent = <<>>
      BY <3>1 DEF Outcome
    <3>5. ~Forgets(out)
      BY <3>3, <3>4 DEF Forgets, Outcome, Cleared
    <3>6. Goes(Result("fatal_error"), out)
      BY <3>3, <3>4, <3>5 DEF Goes, Rests
    <3>7. QED
      BY <3>2, <3>3, <3>6 DEF Credited
  <2>6. QED
    BY <2>2, <2>3, <2>4, <2>5
<1>6. CASE k.mode = "autounlock"
  <2>1. out \in Unlocking(k1, reply, over)
    BY <1>6 DEF Handled
  <2>2. PICK s \in {"released", "fatal_error"} : out = ReleaseMore(Result(s), over)
    BY <1>1, <2>1 DEF Unlocking
  <2>3. CASE over
    BY <1>6, <2>2, <2>3 DEF ReleaseMore, Forgets
  <2>4. CASE ~over
    <3>1. out = ReleaseNext(Result(s))
      BY <2>2, <2>4 DEF ReleaseMore
    <3>2. s \in LockStates \ {"active"}
      BY <1>4
    <3>3. Result(s).lock = [k.lock EXCEPT ![k.cur] = s]
      BY <1>2, <3>2
    <3>4. Credited(Result(s))
      BY <1>6, <3>2, <3>3
    <3> HIDE DEF Result, Credited
    <3>5. Goes(Result(s), out)
      BY <1>2, <1>6, <3>1, <3>2, CleanupGoes
    <3>6. QED
      BY <1>2, <3>2, <3>4, <3>5 DEF Credited
  <2>5. QED
    BY <2>3, <2>4
<1>7. CASE k.mode = "autodiscard"
  <2> DEFINE r == [k1 EXCEPT !.mode = "autolock"]
  <2>1. out \in Discarding(k1, reply, over)
    BY <1>7 DEF Handled
  <2>2. out \in LockMore(r, over) \/ out = Cleanup(r)
    BY <2>1 DEF Discarding
  <2>3. /\ r \in ClientType /\ r.active /\ r.state = "idle" /\ r.mode = "autolock"
        /\ r.lock = k.lock
    BY DEF ClientType, Modes
  <2>4. Credited(r)
    BY <1>7, <2>3
  <2> HIDE DEF r, Credited
  <2>5. Goes(r, out)
    BY <1>3, <2>2, <2>3, CleanupGoes
  <2>6. QED
    BY <2>3, <2>4, <2>5 DEF Credited
<1>8. QED
  BY <1>5, <1>6, <1>7 DEF ClientType, Modes

\* A timeout gives back the locks that the client has, or forgets those that it was
\* giving back.
LEMMA GivenUpGoes ==
    ASSUME NEW k \in ClientType, k.active
    PROVE  LET k1 == [k EXCEPT !.state = "idle"]
           IN  /\ k1 \in ClientType /\ k1.active /\ k1.lock = k.lock
               /\ IF k.mode = "autounlock" THEN Forgets(GivenUp(k)) ELSE Goes(k1, GivenUp(k))
<1> DEFINE k1 == [k EXCEPT !.state = "idle"]
<1>1. k1 \in ClientType /\ k1.active /\ k1.lock = k.lock
  BY DEF ClientType
<1>2. GivenUp(k) = IF k.mode = "autounlock" THEN Outcome(Cleared, <<>>) ELSE Cleanup(k1)
  BY DEF GivenUp
<1> HIDE DEF k1
<1>3. Goes(k1, Cleanup(k1))
  BY <1>1, CleanupGoes
<1>4. QED
  BY <1>1, <1>2, <1>3 DEF k1, Forgets

-----------------------------------------------------------------------------
(***************************************************************************)
(* Requests.                                                               *)
(***************************************************************************)

MovesOn(k, out) == Goes(k, out) \/ Forgets(out)

\* A client that goes on sends at most one request, and waits exactly for that one.
LEMMA Sends ==
    ASSUME NEW k, NEW out, MovesOn(k, out)
    PROVE  /\ out.cb \in ClientType
           /\ out.cb.state = "rpywait" => out.cb.mode # "normal"
           /\ ~out.cb.active => out.cb = Cleared
           /\ \/ out.sent = <<>> /\ out.cb.state = "idle"
              \/ \E call \in CallType :
                    /\ out.sent = <<call>> /\ out.cb.state = "rpywait"
                    /\ call.queued /\ call.reply = "none" /\ call.cfg = out.cb.cur
                    /\ out.cb.mode = "autolock" =>
                         call.op = "lock" /\ out.cb.lock[call.cfg] = "request_sent"
                    /\ out.cb.mode = "autounlock" =>
                         call.op = "unlock" /\ out.cb.lock[call.cfg] = "release_sent"
                    /\ out.cb.mode = "autodiscard" => call.op = "discard-changes"
<1>1. CASE Forgets(out)
  BY <1>1, ClearedType DEF Forgets, Outcome, Cleared
<1>2. CASE Goes(k, out) /\ ~Forgets(out)
  <2>1. out.cb \in ClientType
    BY <1>2 DEF Goes
  <2>2. CASE Rests(k, out)
    BY <2>1, <2>2 DEF Rests
  <2>3. ASSUME NEW op \in {"lock", "unlock", "discard-changes"}, NEW d \in Databases
        PROVE  /\ Call(op, d) \in CallType
               /\ Call(op, d).queued /\ Call(op, d).reply = "none"
               /\ Call(op, d).cfg = d /\ Call(op, d).op = op
    BY DEF Call, CallType
  <2>4. CASE Asks(k, out)
    <3>1. PICK d \in Databases :
            /\ out.cb.state = "rpywait" /\ out.cb.active /\ out.cb.mode = "autolock"
            /\ out.cb.cur = d /\ out.cb.lock = [k.lock EXCEPT ![d] = "request_sent"]
            /\ out.sent = <<Call("lock", d)>>
      BY <2>4 DEF Asks
    <3>2. out.cb.lock[d] = "request_sent"
      BY <2>1, <3>1 DEF ClientType
    <3>3. QED
      BY <2>1, <2>3, <3>1, <3>2
  <2>5. CASE Returns(k, out)
    <3>1. PICK d \in Databases :
            /\ out.cb.state = "rpywait" /\ out.cb.active /\ out.cb.mode = "autounlock"
            /\ out.cb.cur = d /\ out.cb.lock = [k.lock EXCEPT ![d] = "release_sent"]
            /\ out.sent = <<Call("unlock", d)>>
      BY <2>5 DEF Returns
    <3>2. out.cb.lock[d] = "release_sent"
      BY <2>1, <3>1 DEF ClientType
    <3>3. QED
      BY <2>1, <2>3, <3>1, <3>2
  <2>6. CASE Discards(k, out)
    BY <2>1, <2>3, <2>6 DEF Discards
  <2>7. QED
    BY <1>2, <2>2, <2>4, <2>5, <2>6 DEF Goes
<1>3. QED
  BY <1>1, <1>2 DEF MovesOn

\* What a client sends comes after the requests that it has.
LEMMA Appended ==
    ASSUME NEW q \in Seq(CallType), NEW call \in CallType
    PROVE  /\ q \o <<call>> \in Seq(CallType)
           /\ Len(q \o <<call>>) = Len(q) + 1
           /\ (q \o <<call>>)[Len(q) + 1] = call
           /\ \A i \in 1 .. Len(q) : (q \o <<call>>)[i] = q[i]
<1>1. <<call>> \in Seq(CallType) /\ Len(<<call>>) = 1 /\ <<call>>[1] = call
  OBVIOUS
<1>2. Len(q) \in Nat
  BY LenProperties
<1>3. \A i \in 1 .. Len(q) + 1 :
        (q \o <<call>>)[i] = IF i <= Len(q) THEN q[i] ELSE <<call>>[i - Len(q)]
  BY <1>1, ConcatProperties
<1>4. q \o <<call>> \in Seq(CallType) /\ Len(q \o <<call>>) = Len(q) + 1
  BY <1>1, ConcatProperties
<1>5. (q \o <<call>>)[Len(q) + 1] = call
  BY <1>1, <1>2, <1>3
<1>6. \A i \in 1 .. Len(q) : (q \o <<call>>)[i] = q[i]
  BY <1>2, <1>3
<1>7. QED
  BY <1>4, <1>5, <1>6

\* The requests are answered in order, and the client waits for the last of them,
\* after it has gone on as before.
LEMMA RequestsInOrder ==
    ASSUME NEW c, NEW e, NEW k, NEW q \in Seq(CallType), NEW out, MovesOn(k, out),
           Answered(q), Granted(c, q, e)
    PROVE  LET q2 == q \o out.sent
           IN  /\ q2 \in Seq(CallType)
               /\ Answered(q2) /\ Waiting(out.cb, q2) /\ Granted(c, q2, e)
               /\ (\A i \in 1 .. Len(q) : ~q[i].queued) => Single(out.cb, q2)
<1> DEFINE q2 == q \o out.sent
<1>1. CASE out.sent = <<>> /\ out.cb.state = "idle"
  <2>1. q2 = q
    BY <1>1, ConcatEmptySeq
  <2>2. Waiting(out.cb, q)
    BY <1>1 DEF Waiting
  <2>3. (\A i \in 1 .. Len(q) : ~q[i].queued) => Single(out.cb, q)
    BY DEF Single
  <2>4. QED
    BY <2>1, <2>2, <2>3
<1>2. ASSUME NEW call \in CallType,
             out.sent = <<call>>, out.cb.state = "rpywait",
             call.queued, call.reply = "none", call.cfg = out.cb.cur,
             out.cb.mode = "autolock" =>
               call.op = "lock" /\ out.cb.lock[call.cfg] = "request_sent",
             out.cb.mode = "autounlock" =>
               call.op = "unlock" /\ out.cb.lock[call.cfg] = "release_sent",
             out.cb.mode = "autodiscard" => call.op = "discard-changes"
      PROVE  /\ q2 \in Seq(CallType)
             /\ Answered(q2) /\ Waiting(out.cb, q2) /\ Granted(c, q2, e)
             /\ (\A i \in 1 .. Len(q) : ~q[i].queued) => Single(out.cb, q2)
  <2>1. /\ q2 \in Seq(CallType) /\ Len(q2) = Len(q) + 1 /\ q2[Len(q) + 1] = call
        /\ \A i \in 1 .. Len(q) : q2[i] = q[i]
    BY <1>2, Appended
  <2>2. Len(q) \in Nat /\ q2 # <<>>
    BY <2>1, LenProperties
  <2> HIDE DEF q2
  <2>3. Answered(q2)
    <3>1. ASSUME NEW i \in 1 .. Len(q2), NEW j \in 1 .. Len(q2), i < j, q2[j].reply # "none"
          PROVE  q2[i].reply # "none"
      <4>1. j # Len(q) + 1
        BY <1>2, <2>1, <3>1
      <4>2. i \in 1 .. Len(q) /\ j \in 1 .. Len(q)
        BY <2>1, <2>2, <3>1, <4>1
      <4>3. QED
        BY <2>1, <3>1, <4>2 DEF Answered
    <3>2. QED
      BY <3>1 DEF Answered
  <2>4. Waiting(out.cb, q2)
    BY <1>2, <2>1, <2>2 DEF Waiting
  <2>5. Granted(c, q2, e)
    BY <1>2, <2>1, <2>2 DEF Granted
  <2>6. (\A i \in 1 .. Len(q) : ~q[i].queued) => Single(out.cb, q2)
    BY <1>2, <2>1, <2>2 DEF Single
  <2>7. QED
    BY <2>1, <2>3, <2>4, <2>5, <2>6
<1>3. QED
  BY <1>1, <1>2, Sends

\* A client that goes on keeps the locks that it has, except the one it asks back.
LEMMA HeldGoes ==
    ASSUME NEW c, NEW e, NEW k \in ClientType, NEW q \in Seq(CallType), NEW out,
           MovesOn(k, out), Held(c, k, q, e)
    PROVE  Held(c, out.cb, q \o out.sent, e)
<1> DEFINE q2 == q \o out.sent
<1>1. SUFFICES ASSUME NEW d \in Databases, out.cb.lock[d] = "active"
               PROVE  /\ e[d] = LockedBy(c)
                      /\ \A i \in 1 .. Len(q2) :
                           q2[i].op = "unlock" /\ q2[i].cfg = d => q2[i].reply # "none"
  BY DEF Held
<1>2. out.cb \in ClientType
  BY Sends
<1>3. k.lock[d] = "active"
  <2>1. CASE Forgets(out)
    BY <1>1, <2>1 DEF Forgets, Outcome, Cleared
  <2>2. CASE Rests(k, out) \/ Discards(k, out)
    BY <1>1, <2>2 DEF Rests, Discards
  <2>3. CASE Asks(k, out)
    BY <1>1, <2>3 DEF Asks, ClientType
  <2>4. CASE Returns(k, out)
    BY <1>1, <2>4 DEF Returns, ClientType
  <2>5. QED
    BY <2>1, <2>2, <2>3, <2>4 DEF MovesOn, Goes
<1>4. /\ e[d] = LockedBy(c)
      /\ \A i \in 1 .. Len(q) : q[i].op = "unlock" /\ q[i].cfg = d => q[i].reply # "none"
  BY <1>3 DEF Held
<1>5. CASE out.sent = <<>>
  <2>1. q2 = q
    BY <1>5, ConcatEmptySeq
  <2>2. QED
    BY <1>4, <2>1
<1>6. ASSUME NEW call \in CallType, out.sent = <<call>>, call.cfg = out.cb.cur,
             out.cb.state = "rpywait",
             out.cb.mode = "autolock" => call.op = "lock",
             out.cb.mode = "autounlock" => out.cb.lock[call.cfg] = "release_sent",
             out.cb.mode = "autodiscard" => call.op = "discard-changes"
      PROVE  \A i \in 1 .. Len(q2) :
               q2[i].op = "unlock" /\ q2[i].cfg = d => q2[i].reply # "none"
  <2>1. /\ Len(q2) = Len(q) + 1 /\ q2[Len(q) + 1] = call
        /\ \A i \in 1 .. Len(q) : q2[i] = q[i]
    BY <1>6, Appended
  <2>2. Len(q) \in Nat
    BY LenProperties
  <2>3. ~(call.op = "unlock" /\ call.cfg = d)
    <3>1. out.cb.mode \in {"autolock", "autounlock", "autodiscard"}
      BY <1>2, <1>6, Sends DEF ClientType, Modes
    <3>2. QED
      BY <1>1, <1>6, <3>1
  <2> HIDE DEF q2
  <2>4. QED
    BY <1>4, <2>1, <2>2, <2>3
<1>7. QED
  BY <1>4, <1>5, <1>6, Sends

\* A client without open requests that knows its locks knows them after it goes on.
LEMMA KnownGoes ==
    ASSUME NEW c, NEW e, NEW k \in ClientType, NEW out, Goes(k, out),
           \A d \in Databases : e[d] = LockedBy(c) => k.lock[d] = "active"
    PROVE  Known(c, out.cb, <<>> \o out.sent, e)
<1> DEFINE q2 == <<>> \o out.sent
<1>1. MovesOn(k, out) /\ out.cb \in ClientType
  BY DEF MovesOn, Goes
<1>2. CASE Rests(k, out)
  <2>1. q2 = <<>> /\ Len(q2) = 0 /\ out.cb.lock = k.lock
    BY <1>2 DEF Rests
  <2> HIDE DEF q2
  <2>2. Known(c, out.cb, q2, e)
    BY <2>1 DEF Known
  <2>3. QED
    BY <2>2 DEF q2
<1>3. CASE Forgets(out)
  <2>1. q2 = <<>> /\ Len(q2) = 0
    BY <1>3 DEF Forgets, Outcome
  <2>2. \A d \in Databases : e[d] # LockedBy(c)
    BY <1>3 DEF Goes, In
  <2>3. QED
    BY <2>1, <2>2 DEF Known
<1>4. ASSUME NEW call \in CallType, out.sent = <<call>>, out.cb.state = "rpywait",
             call.queued, call.reply = "none",
             ASSUME NEW d \in Databases, e[d] = LockedBy(c)
             PROVE  \/ out.cb.lock[d] = "active"
                    \/ out.cb.cur = d /\ out.cb.mode = "autounlock"
      PROVE  Known(c, out.cb, q2, e)
  <2>1. q2 = <<call>> /\ Len(q2) = 1 /\ q2[1] = call
    BY <1>4
  <2> HIDE DEF q2
  <2>2. \A d \in Databases :
          e[d] = LockedBy(c) => out.cb.lock[d] = "active" \/ Pending(out.cb, q2, d)
    BY <1>4, <2>1 DEF Pending
  <2>3. QED
    BY <1>4, <2>1, <2>2 DEF Known
<1>5. CASE Asks(k, out) \/ Returns(k, out) \/ Discards(k, out)
  <2>1. out.cb.state = "rpywait"
    BY <1>5 DEF Asks, Returns, Discards
  <2>2. PICK call \in CallType :
          out.sent = <<call>> /\ call.queued /\ call.reply = "none"
    BY <1>1, <2>1, Sends
  <2>3. ASSUME NEW d \in Databases, e[d] = LockedBy(c)
        PROVE  \/ out.cb.lock[d] = "active"
               \/ out.cb.cur = d /\ out.cb.mode = "autounlock"
    <3>1. k.lock[d] = "active"
      BY <2>3
    <3>2. CASE Discards(k, out)
      BY <3>1, <3>2 DEF Discards
    <3>3. CASE Asks(k, out)
      BY <3>1, <3>3 DEF Asks, ClientType
    <3>4. CASE Returns(k, out)
      BY <3>1, <3>4 DEF Returns, ClientType
    <3>5. QED
      BY <1>5, <3>2, <3>3, <3>4
  <2>4. QED
    BY <1>4, <2>1, <2>2, <2>3
<1>6. QED
  BY <1>2, <1>3, <1>5 DEF Goes

-----------------------------------------------------------------------------
(***************************************************************************)
(* The steps of the clients.                                               *)
(***************************************************************************)

\* What TypeOK says of one client.
ClientOK(k, q) ==
    /\ k \in ClientType /\ q \in Seq(CallType)
    /\ k.state = "rpywait" => k.mode # "normal"
    /\ ~k.active => k = Cleared

\* The type invariant, client by client.
LEMMA TypesOfClients ==
    TypeOK <=>
      /\ entry \in [Databases -> CfgEntries]
      /\ {dirty, cc_active} \subseteq BOOLEAN
      /\ server_cb \in [Sessions -> ClientType]
      /\ \A c \in Sessions : ClientOK(server_cb[c], calls[c])
      /\ overlapped \subseteq gave_up /\ gave_up \subseteq Sessions
BY DEF TypeOK, ClientOK, ClientType, CallType, Modes

\* The sequences of requests are a function of the clients.
CallsOfClients == calls = [c \in Sessions |-> calls[c]]

\* A step of one client that keeps what is said of this client keeps the invariant.
LEMMA OneClient ==
    ASSUME Agreements, CallsOfClients, NEW c \in Sessions, NEW out, NEW q, NEW clients,
           Step(c, out, q), UNCHANGED server,
           gave_up' = gave_up \/ gave_up' = gave_up \cup {c},
           overlapped' = Overlapped(c, clients),
           clients = overlapped \/ clients = overlapped \cup {c},
           c \in clients => c \in gave_up',
           LET q2 == q \o out.sent
           IN  /\ ClientOK(out.cb, q2)
               /\ Answered(q2) /\ Waiting(out.cb, q2) /\ Granted(c, q2, entry)
               /\ c \notin clients => Single(out.cb, q2) /\ Held(c, out.cb, q2, entry)
               /\ c \notin gave_up' => Known(c, out.cb, q2, entry)
    PROVE  Agreements' /\ CallsOfClients'
<1> DEFINE q2 == q \o out.sent
           k2 == out.cb
<1>1. server_cb \in [Sessions -> ClientType] /\ k2 \in ClientType
  BY TypesOfClients DEF Agreements, ClientOK
<1>2. /\ server_cb' = [server_cb EXCEPT ![c] = k2]
      /\ calls' = [calls EXCEPT ![c] = q2]
      /\ entry' = entry /\ dirty' = dirty /\ cc_active' = cc_active
  BY DEF Step, server
<1>3. /\ ClientOK(k2, q2)
      /\ Answered(q2) /\ Waiting(k2, q2) /\ Granted(c, q2, entry)
      /\ c \notin clients => Single(k2, q2) /\ Held(c, k2, q2, entry)
      /\ c \notin gave_up' => Known(c, k2, q2, entry)
  OBVIOUS
<1> HIDE DEF q2, k2
<1>4. server_cb'[c] = k2 /\ calls'[c] = q2
  BY <1>1, <1>2 DEF CallsOfClients
<1>10. c \notin overlapped' => Single(k2, q2) /\ Held(c, k2, q2, entry)
  <2>1. CASE k2 = Cleared /\ Queued(q2) = {}
    <3>1. \A i \in 1 .. Len(q2) : ~q2[i].queued
      BY <1>3, <2>1 DEF Queued, ClientOK
    <3>2. \A d \in Databases : k2.lock[d] # "active"
      BY <2>1 DEF Cleared
    <3>3. QED
      BY <3>1, <3>2 DEF Single, Held
  <2>2. CASE ~(k2 = Cleared /\ Queued(q2) = {})
    BY <1>3, <1>4, <2>2 DEF Overlapped
  <2>3. QED
    BY <2>1, <2>2
<1>11. /\ overlapped' \subseteq clients
       /\ \A d \in Sessions \ {c} : d \in overlapped' <=> d \in overlapped
  BY DEF Overlapped
<1>5. \A d \in Sessions \ {c} : server_cb'[d] = server_cb[d] /\ calls'[d] = calls[d]
  BY <1>1, <1>2 DEF CallsOfClients
<1>6. CallsOfClients'
  BY <1>2 DEF CallsOfClients
<1>7. TypeOK'
  <2>1. server_cb' \in [Sessions -> ClientType]
    BY <1>1, <1>2
  <2>2. \A d \in Sessions : ClientOK(server_cb[d], calls[d])'
    BY <1>3, <1>4, <1>5, TypesOfClients DEF Agreements, ClientOK
  <2>3. overlapped' \subseteq gave_up' /\ gave_up' \subseteq Sessions
    BY <1>11, TypesOfClients DEF Agreements
  <2>4. entry' \in [Databases -> CfgEntries] /\ {dirty', cc_active'} \subseteq BOOLEAN
    BY <1>2, TypesOfClients DEF Agreements
  <2>5. QED
    BY <2>1, <2>2, <2>3, <2>4, TypesOfClients DEF TypeOK, ClientOK, ClientType, CallType, Modes
<1>8. Agreement(c)'
  BY <1>2, <1>3, <1>4, <1>10 DEF Agreement
<1>9. ASSUME NEW d \in Sessions, d # c
      PROVE  Agreement(d)'
  <2>1. Agreement(d)
    BY DEF Agreements
  <2>2. server_cb'[d] = server_cb[d] /\ calls'[d] = calls[d]
    BY <1>5, <1>9
  <2>3. (d \in overlapped' <=> d \in overlapped) /\ (d \in gave_up' <=> d \in gave_up)
    BY <1>9, <1>11
  <2>4. QED
    BY <1>2, <2>1, <2>2, <2>3 DEF Agreement
<1>12. QED
  BY <1>6, <1>7, <1>8, <1>9 DEF Agreements

\* The client goes on from state k, with requests q that are open or have no reply yet.
LEMMA GoesOn ==
    ASSUME Agreements, CallsOfClients, NEW c \in Sessions, NEW k \in ClientType,
           NEW q \in Seq(CallType), NEW out, NEW clients,
           Step(c, out, q), UNCHANGED server, MovesOn(k, out),
           gave_up' = gave_up \/ gave_up' = gave_up \cup {c},
           overlapped' = Overlapped(c, clients),
           clients = overlapped \/ clients = overlapped \cup {c},
           c \in clients => c \in gave_up',
           Answered(q), Granted(c, q, entry),
           c \notin clients =>
             (\A i \in 1 .. Len(q) : ~q[i].queued) /\ Held(c, k, q, entry),
           c \notin gave_up' =>
             /\ q = <<>> /\ Goes(k, out)
             /\ \A d \in Databases : entry[d] = LockedBy(c) => k.lock[d] = "active"
    PROVE  Agreements' /\ CallsOfClients'
<1> DEFINE q2 == q \o out.sent
<1>1. /\ q2 \in Seq(CallType)
      /\ Answered(q2) /\ Waiting(out.cb, q2) /\ Granted(c, q2, entry)
      /\ (\A i \in 1 .. Len(q) : ~q[i].queued) => Single(out.cb, q2)
  BY RequestsInOrder
<1>2. ClientOK(out.cb, q2)
  BY <1>1, Sends DEF ClientOK
<1>3. c \notin clients => Single(out.cb, q2) /\ Held(c, out.cb, q2, entry)
  BY <1>1, HeldGoes
<1>4. c \notin gave_up' => Known(c, out.cb, q2, entry)
  BY KnownGoes
<1>5. QED
  BY <1>1, <1>2, <1>3, <1>4, OneClient

\* The parts of the invariant that are about one client.
LEMMA OfClient ==
    ASSUME Agreements, NEW c \in Sessions
    PROVE  /\ ClientOK(server_cb[c], calls[c])
           /\ Answered(calls[c]) /\ Waiting(server_cb[c], calls[c])
           /\ Granted(c, calls[c], entry)
           /\ c \notin overlapped =>
                Single(server_cb[c], calls[c]) /\ Held(c, server_cb[c], calls[c], entry)
           /\ c \notin gave_up => Known(c, server_cb[c], calls[c], entry)
           /\ c \in overlapped => c \in gave_up
BY TypesOfClients DEF Agreements, Agreement

\* A client that waits for nothing has no open request, and knows its locks.
LEMMA Idle ==
    ASSUME Agreements, NEW c \in Sessions, server_cb[c].state = "idle"
    PROVE  /\ c \notin overlapped => \A i \in 1 .. Len(calls[c]) : ~calls[c][i].queued
           /\ c \notin gave_up =>
                /\ calls[c] = <<>>
                /\ \A d \in Databases :
                     entry[d] = LockedBy(c) => server_cb[c].lock[d] = "active"
BY OfClient DEF Single, Known, Pending

\* get-locks starts from a client that has no locks and no open requests.
LEMMA GetLocksKeeps ==
    ASSUME Agreements, CallsOfClients, NEW c \in Sessions, GetLocks(c)
    PROVE  Agreements' /\ CallsOfClients'
<1> DEFINE k == [Cleared EXCEPT !.active = TRUE]
<1>1. PICK out \in LockNext(k) : Step(c, out, calls[c])
  BY DEF GetLocks
<1>2. /\ k \in ClientType /\ k.active /\ k.state = "idle"
      /\ \A d \in Databases : k.lock[d] = "idle"
  BY DEF Cleared, ClientType, Modes, LockStates
<1>3. server_cb[c] = Cleared /\ calls[c] \in Seq(CallType)
  BY OfClient DEF GetLocks, ClientOK
<1>4. server_cb[c].state = "idle" /\ \A d \in Databases : server_cb[c].lock[d] = "idle"
  BY <1>3 DEF Cleared
<1> HIDE DEF k
<1>5. Goes(k, out)
  BY <1>1, <1>2, LockNextGoes
<1>6. Held(c, k, calls[c], entry)
  BY <1>2 DEF Held
<1>7. c \notin gave_up =>
        calls[c] = <<>> /\ \A d \in Databases : entry[d] # LockedBy(c)
  BY <1>4, Idle
<1>8. c \notin overlapped => \A i \in 1 .. Len(calls[c]) : ~calls[c][i].queued
  BY <1>4, Idle
<1>9. /\ UNCHANGED server /\ gave_up' = gave_up
      /\ overlapped' = Overlapped(c, overlapped)
      /\ c \in overlapped => c \in gave_up
      /\ Answered(calls[c]) /\ Granted(c, calls[c], entry)
  BY OfClient DEF GetLocks, Alone
<1>10. QED
  BY <1>1, <1>2, <1>3, <1>5, <1>6, <1>7, <1>8, <1>9, GoesOn DEF MovesOn

\* A client that waits for nothing gives back its locks, or asks for more of them.
LEMMA IdleGoesOn ==
    ASSUME Agreements, CallsOfClients, NEW c \in Sessions, server_cb[c].state = "idle",
           NEW out, Goes(server_cb[c], out), Step(c, out, calls[c]), Alone(c)
    PROVE  Agreements' /\ CallsOfClients'
<1>1. /\ c \notin overlapped =>
           /\ \A i \in 1 .. Len(calls[c]) : ~calls[c][i].queued
           /\ Held(c, server_cb[c], calls[c], entry)
      /\ c \notin gave_up =>
           /\ calls[c] = <<>>
           /\ \A d \in Databases : entry[d] = LockedBy(c) => server_cb[c].lock[d] = "active"
  BY Idle, OfClient
<1>2. /\ server_cb[c] \in ClientType /\ calls[c] \in Seq(CallType)
      /\ Answered(calls[c]) /\ Granted(c, calls[c], entry)
      /\ c \in overlapped => c \in gave_up
  BY OfClient DEF ClientOK
<1>3. UNCHANGED server /\ gave_up' = gave_up /\ overlapped' = Overlapped(c, overlapped)
  BY DEF Alone
<1>4. QED
  BY <1>1, <1>2, <1>3, GoesOn DEF MovesOn

\* The commands and the timers of a client that waits for no reply.
LEMMA IdleKeeps ==
    ASSUME Agreements, CallsOfClients, NEW c \in Sessions,
           ReleaseLocks(c) \/ PollOver(c) \/ PollRetry(c)
    PROVE  Agreements' /\ CallsOfClients'
<1> DEFINE k == server_cb[c]
<1>1. /\ k \in ClientType /\ k.state = "idle" /\ Alone(c)
      /\ ~k.active => k = Cleared
  BY OfClient DEF ClientOK, ReleaseLocks, AtPrompt, PollOver, PollRetry
<1>2. k.active
  BY <1>1 DEF Cleared, ReleaseLocks, PollOver, PollRetry
<1>3. CASE ReleaseLocks(c)
  <2>1. Goes(k, Cleanup(k)) /\ Step(c, Cleanup(k), calls[c])
    BY <1>1, <1>2, <1>3, CleanupGoes DEF ReleaseLocks
  <2>2. QED
    BY <1>1, <2>1, IdleGoesOn
<1>4. CASE PollOver(c)
  <2>1. k.mode = "autolock" /\ Step(c, GivenUp(k), calls[c])
    BY <1>4 DEF PollOver
  <2>2. GivenUp(k) = Cleanup([k EXCEPT !.state = "idle"])
    BY <2>1 DEF GivenUp
  <2>3. [k EXCEPT !.state = "idle"] = k
    BY <1>1 DEF ClientType
  <2>4. Goes(k, GivenUp(k))
    BY <1>1, <1>2, <2>2, <2>3, CleanupGoes
  <2>5. QED
    BY <1>1, <2>1, <2>4, IdleGoesOn
<1>5. CASE PollRetry(c)
  <2>1. k.mode = "autolock" /\ \E out \in LockNext(k) : Step(c, out, calls[c])
    BY <1>5 DEF PollRetry
  <2>2. PICK out \in LockNext(k) : Step(c, out, calls[c])
    BY <2>1
  <2>3. Goes(k, out)
    BY <1>1, <1>2, <2>1, LockNextGoes
  <2>4. QED
    BY <1>1, <2>2, <2>3, IdleGoesOn
<1>6. QED
  BY <1>3, <1>4, <1>5

\* A request leaves the queue when its timeout is over, or stays when the lock timeout
\* is over first.
LEMMA TimeoutsKeep ==
    ASSUME Agreements, CallsOfClients, NEW c \in Sessions,
           RequestTimesOut(c) \/ LockTimesOut(c)
    PROVE  Agreements' /\ CallsOfClients'
<1> DEFINE k == server_cb[c]
           k1 == [k EXCEPT !.state = "idle"]
<1>1. /\ k \in ClientType /\ calls[c] \in Seq(CallType) /\ k.state = "rpywait"
      /\ k.mode # "normal" /\ (~k.active => k = Cleared)
      /\ Answered(calls[c]) /\ Granted(c, calls[c], entry)
      /\ c \notin overlapped => Held(c, k, calls[c], entry)
  BY OfClient DEF ClientOK, RequestTimesOut, LockTimesOut
<1>2. k.active
  BY <1>1 DEF Cleared
<1>3. k1 \in ClientType /\ k1.lock = k.lock /\ MovesOn(k1, GivenUp(k))
  BY <1>1, <1>2, GivenUpGoes DEF MovesOn
<1>4. UNCHANGED server /\ gave_up' = gave_up \cup {c}
  BY DEF RequestTimesOut, LockTimesOut
<1> HIDE DEF k1
<1>5. CASE RequestTimesOut(c)
  <2>1. PICK late \in (SUBSET Queued(calls[c])) \ {{}} :
          /\ Step(c, GivenUp(k), TimedOut(calls[c], late))
          /\ overlapped' = Overlapped(c, IF late = Queued(calls[c]) THEN overlapped
                                         ELSE overlapped \cup {c})
    BY <1>5 DEF RequestTimesOut
  <2> DEFINE t == TimedOut(calls[c], late)
             clients == IF late = Queued(calls[c]) THEN overlapped ELSE overlapped \cup {c}
  <2>2. Step(c, GivenUp(k), t) /\ overlapped' = Overlapped(c, clients)
    BY <2>1
  <2>3. /\ t \in Seq(CallType) /\ Len(t) = Len(calls[c])
        /\ \A i \in 1 .. Len(t) :
             /\ t[i].queued = (calls[c][i].queued /\ i \notin late)
             /\ t[i].op = calls[c][i].op
             /\ t[i].cfg = calls[c][i].cfg /\ t[i].reply = calls[c][i].reply
    <3>1. Len(calls[c]) \in Nat /\ calls[c] \in [1 .. Len(calls[c]) -> CallType]
      BY <1>1, LenProperties
    <3>2. \A i \in 1 .. Len(calls[c]) :
            [calls[c][i] EXCEPT !.queued = @ /\ i \notin late] \in CallType
      BY <3>1 DEF CallType
    <3>3. t \in [1 .. Len(calls[c]) -> CallType]
      BY <3>2 DEF TimedOut
    <3>4. t \in Seq(CallType) /\ Len(t) = Len(calls[c])
      BY <3>1, <3>3
    <3>5. ASSUME NEW i \in 1 .. Len(t)
          PROVE  /\ t[i].queued = (calls[c][i].queued /\ i \notin late)
                 /\ t[i].op = calls[c][i].op
                 /\ t[i].cfg = calls[c][i].cfg /\ t[i].reply = calls[c][i].reply
      <4>1. /\ calls[c][i] \in CallType
            /\ t[i] = [calls[c][i] EXCEPT !.queued = @ /\ i \notin late]
        BY <3>1, <3>4 DEF TimedOut
      <4>2. QED
        BY <4>1 DEF CallType
    <3>6. QED
      BY <3>4, <3>5
  <2> HIDE DEF t
  <2>4. Len(calls[c]) \in Nat /\ (calls[c] = <<>> <=> t = <<>>)
    BY <1>1, <2>3, LenProperties, EmptySeq
  <2>5. Answered(t)
    BY <1>1, <2>3 DEF Answered
  <2>6. Granted(c, t, entry)
    BY <1>1, <2>3, <2>4, EmptySeq DEF Granted
  <2>7. c \notin overlapped => Held(c, k1, t, entry)
    BY <1>1, <1>3, <2>3 DEF Held
  <2>8. /\ clients = overlapped \/ clients = overlapped \cup {c}
        /\ c \notin clients => c \notin overlapped /\ late = Queued(calls[c])
    OBVIOUS
  <2> HIDE DEF clients
  <2>9. c \notin clients => \A i \in 1 .. Len(t) : ~t[i].queued
    <3>1. DOMAIN calls[c] = 1 .. Len(calls[c])
      BY <1>1, LenProperties
    <3>2. ASSUME late = Queued(calls[c]), NEW i \in 1 .. Len(t), t[i].queued
          PROVE  FALSE
      <4>1. i \in DOMAIN calls[c] /\ calls[c][i].queued /\ i \notin late
        BY <2>3, <3>1, <3>2
      <4>2. QED
        BY <3>2, <4>1 DEF Queued
    <3>3. QED
      BY <2>8, <3>2
  <2>10. QED
    BY <1>3, <1>4, <2>2, <2>3, <2>5, <2>6, <2>7, <2>8, <2>9, GoesOn
<1>6. CASE LockTimesOut(c)
  <2>1. /\ Step(c, GivenUp(k), calls[c])
        /\ overlapped' = Overlapped(c, overlapped \cup {c})
    BY <1>6 DEF LockTimesOut
  <2>2. QED
    BY <1>1, <1>3, <1>4, <2>1, GoesOn
<1>7. QED
  BY <1>5, <1>6

\* What stays in the queue when the first request has its reply.
LEMMA Rest ==
    ASSUME Agreements, NEW c \in Sessions, calls[c] # <<>>
    PROVE  LET q == calls[c]
               t == Tail(q)
           IN  /\ q \in Seq(CallType) /\ q[1] \in CallType /\ Head(q) = q[1]
               /\ t \in Seq(CallType) /\ Len(t) = Len(q) - 1 /\ Len(q) \in Nat \ {0}
               /\ \A i \in 1 .. Len(t) : t[i] = q[i + 1]
               /\ Answered(t) /\ Granted(c, t, entry)
               /\ Len(q) = 1 => t = <<>>
<1> DEFINE q == calls[c]
           t == Tail(q)
<1>1. q \in Seq(CallType) /\ Answered(q) /\ Granted(c, q, entry)
  BY OfClient DEF ClientOK
<1>2. Len(q) \in Nat \ {0} /\ q[1] \in CallType /\ Head(q) = q[1]
  BY <1>1, EmptySeq, ElementOfSeq
<1>3. t \in Seq(CallType) /\ Len(t) = Len(q) - 1 /\ \A i \in 1 .. Len(t) : t[i] = q[i + 1]
  BY <1>1, HeadTailProperties
<1> HIDE DEF t
<1>4. Answered(t)
  <2>1. ASSUME NEW i \in 1 .. Len(t), NEW j \in 1 .. Len(t), i < j, t[j].reply # "none"
        PROVE  t[i].reply # "none"
    <3>1. i + 1 \in 1 .. Len(q) /\ j + 1 \in 1 .. Len(q) /\ i + 1 < j + 1
      BY <1>2, <1>3, <2>1
    <3>2. QED
      BY <1>1, <1>3, <2>1, <3>1 DEF Answered
  <2>2. QED
    BY <2>1 DEF Answered
<1>5. Granted(c, t, entry)
  <2>1. CASE t = <<>>
    BY <2>1 DEF Granted
  <2>2. CASE t # <<>>
    <3>1. Len(t) \in Nat \ {0}
      BY <1>3, <2>2, EmptySeq
    <3>2. Len(t) \in 1 .. Len(t)
      BY <3>1
    <3>3. Len(t) + 1 = Len(q)
      BY <1>2, <1>3
    <3>4. t[Len(t)] = q[Len(q)]
      BY <1>3, <3>2, <3>3
    <3>5. QED
      BY <1>1, <3>4 DEF Granted
  <2>3. QED
    BY <2>1, <2>2
<1>6. Len(q) = 1 => t = <<>>
  BY <1>2, <1>3, EmptySeq
<1>7. QED
  BY <1>1, <1>2, <1>3, <1>4, <1>5, <1>6 DEF t

\* A reply to a request that is not in the queue any more is dropped.
LEMMA DroppedKeeps ==
    ASSUME Agreements, CallsOfClients, NEW c \in Sessions,
           calls[c] # <<>>, ~Head(calls[c]).queued,
           Step(c, Outcome(server_cb[c], <<>>), Tail(calls[c])), Alone(c)
    PROVE  Agreements' /\ CallsOfClients'
<1> DEFINE q == calls[c]
           t == Tail(q)
           k == server_cb[c]
           out == Outcome(k, <<>>)
<1>1. /\ q \in Seq(CallType) /\ Head(q) = q[1]
      /\ t \in Seq(CallType) /\ Len(t) = Len(q) - 1 /\ Len(q) \in Nat \ {0}
      /\ \A i \in 1 .. Len(t) : t[i] = q[i + 1]
      /\ Answered(t) /\ Granted(c, t, entry)
  BY Rest
<1>2. /\ ClientOK(k, q) /\ Waiting(k, q)
      /\ c \notin overlapped => Single(k, q) /\ Held(c, k, q, entry)
      /\ c \notin gave_up => Known(c, k, q, entry)
      /\ c \in overlapped => c \in gave_up
  BY OfClient
<1>3. out.cb = k /\ t \o out.sent = t
  BY <1>1, ConcatEmptySeq DEF Outcome
<1>4. Step(c, out, t) /\ ~q[1].queued
  BY <1>1
<1> HIDE DEF t, out, k, q
<1>5. Waiting(k, t)
  <2>1. SUFFICES ASSUME k.state = "rpywait" PROVE Waiting(k, t)
    BY DEF Waiting
  <2>2. q[Len(q)].queued
    BY <1>2, <2>1 DEF Waiting
  <2>3. Len(q) # 1
    BY <1>4, <2>2
  <2>4. Len(t) \in 1 .. Len(t) /\ Len(t) + 1 = Len(q)
    BY <1>1, <2>3
  <2>5. t[Len(t)] = q[Len(q)] /\ t # <<>>
    BY <1>1, <2>4
  <2>6. QED
    BY <1>2, <2>5 DEF Waiting
<1>6. c \notin overlapped => Single(k, t)
  <2>1. ASSUME c \notin overlapped, NEW i \in 1 .. Len(t), t[i].queued
        PROVE  i = Len(t) /\ k.state = "rpywait"
    <3>1. i + 1 \in 1 .. Len(q) /\ q[i + 1].queued
      BY <1>1, <2>1
    <3>2. QED
      BY <1>1, <1>2, <2>1, <3>1 DEF Single
  <2>2. QED
    BY <2>1 DEF Single
<1>7. c \notin overlapped => Held(c, k, t, entry)
  <2>1. ASSUME c \notin overlapped, NEW d \in Databases, k.lock[d] = "active",
               NEW i \in 1 .. Len(t), t[i].op = "unlock" /\ t[i].cfg = d
        PROVE  t[i].reply # "none"
    <3>1. i + 1 \in 1 .. Len(q) /\ t[i] = q[i + 1]
      BY <1>1, <2>1
    <3>2. QED
      BY <1>2, <2>1, <3>1 DEF Held
  <2>2. QED
    BY <1>2, <2>1 DEF Held
<1>8. c \in gave_up
  <2>1. 1 \in 1 .. Len(q)
    BY <1>1
  <2>2. QED
    BY <1>2, <1>4, <2>1 DEF Known
<1>9. ClientOK(k, t)
  BY <1>1, <1>2 DEF ClientOK
<1>10. UNCHANGED server /\ gave_up' = gave_up /\ overlapped' = Overlapped(c, overlapped)
  BY DEF Alone
<1>11. QED
  BY <1>1, <1>2, <1>3, <1>4, <1>5, <1>6, <1>7, <1>8, <1>9, <1>10, OneClient

\* A reply is credited to the request that it answers, or the client has gone on while
\* that request stayed in the queue.
LEMMA ReceiveKeeps ==
    ASSUME Agreements, CallsOfClients, NEW c \in Sessions, NEW over \in BOOLEAN,
           Receive(c, over)
    PROVE  Agreements' /\ CallsOfClients'
<1> DEFINE q == calls[c]
           t == Tail(q)
           k == server_cb[c]
<1>1. q # <<>> /\ Head(q).reply # "none" /\ UNCHANGED server
  BY DEF Receive
<1>2. /\ q \in Seq(CallType) /\ q[1] \in CallType /\ Head(q) = q[1]
      /\ t \in Seq(CallType) /\ Len(q) \in Nat \ {0}
      /\ Answered(t) /\ Granted(c, t, entry)
      /\ Len(q) = 1 => t = <<>>
  BY <1>1, Rest
<1>3. /\ ClientOK(k, q) /\ Waiting(k, q) /\ Granted(c, q, entry)
      /\ c \notin overlapped => Single(k, q) /\ Held(c, k, q, entry)
      /\ c \notin gave_up => Known(c, k, q, entry)
      /\ c \in overlapped => c \in gave_up
  BY OfClient
<1>4. CASE ~Head(q).queued
  <2>1. Step(c, Outcome(k, <<>>), t) /\ Alone(c)
    BY <1>1, <1>4 DEF Receive, Alone
  <2>2. QED
    BY <1>1, <1>4, <2>1, DroppedKeeps
<1>5. CASE Head(q).queued
  <2> DEFINE reply == q[1].reply
  <2>1. PICK out \in Handled(k, reply, over) : Step(c, out, t)
    BY <1>2, <1>5 DEF Receive
  <2>2. /\ gave_up' = IF k.mode = "autounlock" /\ over THEN gave_up \cup {c} ELSE gave_up
        /\ overlapped' = Overlapped(c, overlapped)
    BY <1>5 DEF Receive
  <2>3. reply \in {"ok", "lock-denied", "other"}
    BY <1>1, <1>2 DEF CallType
  <2>4. c \notin overlapped => k.state = "rpywait" /\ t = <<>>
    <3>1. 1 \in 1 .. Len(q) /\ q[1].queued
      BY <1>2, <1>5
    <3>2. QED
      BY <1>2, <1>3, <3>1 DEF Single
  <2> HIDE DEF q, t, k, reply
  <2>5. CASE k.state = "idle"
    <3>1. out = Outcome(k, <<>>)
      BY <2>1, <2>5 DEF Handled
    <3>2. out.cb = k /\ t \o out.sent = t
      BY <1>2, <3>1, ConcatEmptySeq DEF Outcome
    <3>3. c \in overlapped /\ c \in gave_up
      BY <1>3, <2>4, <2>5
    <3>4. Waiting(k, t)
      BY <2>5 DEF Waiting
    <3>5. ClientOK(k, t)
      BY <1>2, <1>3 DEF ClientOK
    <3>6. c \in gave_up'
      BY <2>2, <3>3
    <3>7. QED
      BY <1>1, <1>2, <2>1, <2>2, <3>2, <3>3, <3>4, <3>5, <3>6, OneClient
  <2>6. CASE k.state = "rpywait"
    <3>1. k \in ClientType /\ k.active /\ k.mode # "normal"
      BY <1>3, <2>6 DEF ClientOK, Cleared
    <3>2. CASE over /\ k.mode = "autounlock" /\ Forgets(out)
      <4>1. c \in gave_up' /\ MovesOn(k, out)
        BY <2>2, <3>2 DEF MovesOn
      <4>2. c \notin overlapped => t = <<>> /\ Len(t) = 0 /\ Held(c, k, q, entry)
        BY <1>3, <2>2, <2>4
      <4>3. ASSUME Len(t) = 0, Held(c, k, q, entry)
            PROVE  Held(c, k, t, entry)
        <5>1. 1 .. Len(t) = {}
          BY <4>3
        <5>2. QED
          BY <4>3, <5>1 DEF Held
      <4>4. c \notin overlapped =>
              (\A i \in 1 .. Len(t) : ~t[i].queued) /\ Held(c, k, t, entry)
        BY <4>2, <4>3
      <4>5. c \in overlapped => c \in gave_up'
        BY <4>1
      <4>6. gave_up' = gave_up \/ gave_up' = gave_up \cup {c}
        BY <2>2
      <4>7. QED
        BY <1>1, <1>2, <2>1, <2>2, <3>1, <4>1, <4>4, <4>5, <4>6, GoesOn
    <3>3. ASSUME NEW r \in ClientType, Goes(r, out),
                 \/ r.lock = k.lock /\ (k.mode = "autolock" => reply = "other")
                 \/ /\ k.mode = "autolock" /\ reply = "ok"
                    /\ r.lock = [k.lock EXCEPT ![k.cur] = "active"]
                 \/ /\ k.mode = "autounlock" \/ (k.mode = "autolock" /\ reply # "ok")
                    /\ \E s \in LockStates \ {"active"} :
                         r.lock = [k.lock EXCEPT ![k.cur] = s]
          PROVE  Agreements' /\ CallsOfClients'
      <4>1. /\ k.lock \in [Databases -> LockStates] /\ k.cur \in Databases
        BY <3>1 DEF ClientType
      <4>2. ASSUME c \notin overlapped
            PROVE  (\A i \in 1 .. Len(t) : ~t[i].queued) /\ Held(c, r, t, entry)
        <5>1. t = <<>> /\ Len(t) = 0 /\ Held(c, k, q, entry)
          BY <1>3, <2>4, <4>2
        <5>2. Len(q) = 1
          <6>1. 1 \in 1 .. Len(q) /\ q[1].queued
            BY <1>2, <1>5
          <6>2. QED
            BY <1>3, <4>2, <6>1 DEF Single
        <5>3. ASSUME NEW d \in Databases, r.lock[d] = "active"
              PROVE  entry[d] = LockedBy(c)
          <6>1. CASE k.lock[d] = "active"
            BY <5>1, <6>1 DEF Held
          <6>2. CASE k.lock[d] # "active"
            <7>1. k.mode = "autolock" /\ reply = "ok" /\ d = k.cur
              BY <3>3, <4>1, <5>3, <6>2
            <7>2. q # <<>> /\ q[1].op = "lock" /\ q[1].cfg = k.cur
              BY <1>3, <2>6, <5>2, <7>1 DEF Waiting
            <7>3. QED
              BY <1>3, <5>2, <7>1, <7>2 DEF Granted, reply
          <6>3. QED
            BY <6>1, <6>2
        <5>4. QED
          BY <5>1, <5>3 DEF Held
      <4>3. ASSUME c \notin gave_up, NEW d \in Databases, entry[d] = LockedBy(c)
            PROVE  r.lock[d] = "active"
        <5>1. Known(c, k, q, entry)
          BY <1>3, <4>3
        <5>2. CASE k.lock[d] = "active"
          <6>1. d # k.cur \/ k.mode = "autodiscard"
            BY <1>3, <2>6, <5>2, <3>1 DEF Waiting, ClientType, Modes
          <6>2. QED
            BY <3>3, <4>1, <5>2, <6>1
        <5>3. CASE Pending(k, q, d)
          <6>1. k.cur = d /\ k.mode = "autolock" /\ reply = "ok"
            BY <2>3, <5>3 DEF Pending, reply
          <6>2. QED
            BY <3>3, <4>1, <6>1
        <5>4. QED
          BY <4>3, <5>1, <5>2, <5>3 DEF Known
      <4>4. c \notin gave_up => t = <<>>
        BY <1>3, <2>4
      <4>5. c \notin gave_up' => c \notin gave_up
        BY <2>2
      <4>6. MovesOn(r, out)
        BY <3>3 DEF MovesOn
      <4>7. c \in overlapped => c \in gave_up'
        BY <1>3, <2>2
      <4>8. gave_up' = gave_up \/ gave_up' = gave_up \cup {c}
        BY <2>2
      <4>9. QED
        BY <1>1, <1>2, <2>1, <2>2, <3>3, <4>2, <4>3, <4>4, <4>5, <4>6, <4>7, <4>8, GoesOn
    <3>4. QED
      BY <2>1, <2>3, <2>6, <3>1, <3>2, <3>3, HandledGoes
  <2>7. QED
    BY <1>3, <2>5, <2>6 DEF ClientOK, ClientType
<1>6. QED
  BY <1>4, <1>5

-----------------------------------------------------------------------------
(***************************************************************************)
(* The steps of the server.                                                *)
(***************************************************************************)

\* A lock is granted when nobody has it, and is given back by the session that has it.
LEMMA Served ==
    ASSUME Agreements, NEW c \in Sessions, NEW call \in CallType
    PROVE  /\ Reply(c, call) \in {"ok", "lock-denied", "other"}
           /\ Reply(c, call) = "ok" /\ call.op = "lock" =>
                \A d \in Sessions : entry[call.cfg] # LockedBy(d)
           /\ Reply(c, call) = "ok" /\ call.op = "unlock" =>
                entry[call.cfg] = LockedBy(c)
           /\ call.op = "unlock" /\ entry[call.cfg] = LockedBy(c) => Reply(c, call) = "ok"
<1>1. call.cfg \in Databases /\ call.op \in {"lock", "unlock", "discard-changes"}
  BY DEF CallType
<1>2. entry[call.cfg] \in CfgEntries
  BY <1>1, TypesOfClients DEF Agreements
<1>3. CASE call.op = "lock"
  <2>1. Reply(c, call) = LockReply(c, call.cfg)
    BY <1>3 DEF Reply
  <2>2. /\ LockReply(c, call.cfg) \in {"ok", "lock-denied", "other"}
        /\ LockReply(c, call.cfg) = "ok" => entry[call.cfg].state = "READY"
    BY DEF LockReply, OkToLock
  <2>3. QED
    BY <1>3, <2>1, <2>2 DEF LockedBy
<1>4. CASE call.op = "unlock"
  <2>1. Reply(c, call) = IF OkToUnlock(entry[call.cfg], c) THEN "ok" ELSE "other"
    BY <1>4 DEF Reply
  <2>2. OkToUnlock(entry[call.cfg], c) <=> entry[call.cfg] = LockedBy(c)
    BY <1>2 DEF OkToUnlock, LockedBy, CfgEntries
  <2>3. QED
    BY <1>4, <2>1, <2>2
<1>5. CASE call.op = "discard-changes"
  BY <1>5 DEF Reply
<1>6. QED
  BY <1>1, <1>3, <1>4, <1>5

\* The first request without a reply is answered, and its lock taken or released.
LEMMA ServeKeeps ==
    ASSUME Agreements, CallsOfClients, NEW c \in Sessions, Serve(c)
    PROVE  Agreements' /\ CallsOfClients'
<1> DEFINE q == calls[c]
           k == server_cb[c]
<1>1. PICK i \in 1 .. Len(q) :
        LET reply == Reply(c, q[i])
        IN  /\ q[i].reply = "none"
            /\ i > 1 => q[i - 1].reply # "none"
            /\ calls' = [calls EXCEPT ![c][i].reply = reply]
            /\ entry' = CASE reply = "ok" /\ q[i].op = "lock" ->
                               [entry EXCEPT ![q[i].cfg] = LockedBy(c)]
                          [] reply = "ok" /\ q[i].op = "unlock" ->
                               [entry EXCEPT ![q[i].cfg] = Unlocked]
                          [] OTHER -> entry
            /\ dirty' = (dirty /\ ~(reply = "ok" /\ q[i].op # "lock" /\ q[i].cfg = "candidate"))
            /\ UNCHANGED <<cc_active, server_cb, given_up>>
  BY DEF Serve
<1>2. /\ ClientOK(k, q) /\ Answered(q) /\ Waiting(k, q) /\ Granted(c, q, entry)
      /\ c \notin overlapped => Single(k, q) /\ Held(c, k, q, entry)
      /\ c \notin gave_up => Known(c, k, q, entry)
      /\ c \in overlapped => c \in gave_up
  BY OfClient
<1>3. q \in Seq(CallType) /\ q[i] \in CallType /\ Len(q) \in Nat /\ q[i].cfg \in Databases
  <2>1. q \in Seq(CallType) /\ Len(q) \in Nat
    BY <1>2, LenProperties DEF ClientOK
  <2>2. q[i] \in CallType
    BY <2>1, ElementOfSeq
  <2>3. QED
    BY <2>1, <2>2 DEF CallType
<1> DEFINE reply == Reply(c, q[i])
           call == q[i]
           answered == [call EXCEPT !.reply = reply]
           q2 == [q EXCEPT ![i] = answered]
<1>4. /\ reply \in {"ok", "lock-denied", "other"}
      /\ reply = "ok" /\ call.op = "lock" => \A d \in Sessions : entry[call.cfg] # LockedBy(d)
      /\ reply = "ok" /\ call.op = "unlock" => entry[call.cfg] = LockedBy(c)
      /\ call.op = "unlock" /\ entry[call.cfg] = LockedBy(c) => reply = "ok"
  BY <1>3, Served
<1>5. calls' = [calls EXCEPT ![c] = q2]
  BY <1>1
<1>6. /\ entry' = CASE reply = "ok" /\ call.op = "lock" ->
                         [entry EXCEPT ![call.cfg] = LockedBy(c)]
                    [] reply = "ok" /\ call.op = "unlock" ->
                         [entry EXCEPT ![call.cfg] = Unlocked]
                    [] OTHER -> entry
      /\ call.reply = "none" /\ (i > 1 => q[i - 1].reply # "none")
      /\ server_cb' = server_cb /\ cc_active' = cc_active
      /\ gave_up' = gave_up /\ overlapped' = overlapped
  BY <1>1 DEF given_up
<1>7. dirty' \in BOOLEAN
  BY <1>1
<1> HIDE DEF reply
<1>8. /\ answered \in CallType /\ answered.reply = reply /\ answered.op = call.op
      /\ answered.cfg = call.cfg /\ answered.queued = call.queued
  BY <1>3, <1>4 DEF CallType
<1> HIDE DEF answered
<1>9. /\ q2 \in Seq(CallType) /\ Len(q2) = Len(q)
      /\ \A j \in 1 .. Len(q) : q2[j] = IF j = i THEN answered ELSE q[j]
  BY <1>3, <1>8, ExceptSeq
<1> HIDE DEF q2
<1>10. \A j \in 1 .. Len(q) :
         /\ q2[j].op = q[j].op /\ q2[j].cfg = q[j].cfg /\ q2[j].queued = q[j].queued
         /\ j # i => q2[j].reply = q[j].reply
         /\ i < j => q[j].reply = "none"
  <2>1. ASSUME NEW j \in 1 .. Len(q), i < j
        PROVE  q[j].reply = "none"
    BY <1>2, <1>6, <2>1 DEF Answered
  <2>2. QED
    BY <1>8, <1>9, <2>1
<1>11. q2[i].reply = reply /\ reply # "none"
  BY <1>4, <1>8, <1>9
<1>12. calls'[c] = q2 /\ \A d \in Sessions \ {c} : calls'[d] = calls[d]
  BY <1>5 DEF CallsOfClients
<1>13. CallsOfClients'
  BY <1>5 DEF CallsOfClients
<1>14. entry \in [Databases -> CfgEntries]
  BY TypesOfClients DEF Agreements
<1> HIDE DEF call, q, k
<1>15. entry' \in [Databases -> CfgEntries]
  <2>1. LockedBy(c) \in CfgEntries /\ Unlocked \in CfgEntries
    BY DEF LockedBy, Unlocked, CfgEntries
  <2>2. QED
    BY <1>6, <1>14, <2>1
<1>16. \A d \in Databases :
         /\ entry'[d] = LockedBy(c) =>
              \/ entry[d] = LockedBy(c) /\ ~(call.op = "unlock" /\ call.cfg = d)
              \/ reply = "ok" /\ call.op = "lock" /\ call.cfg = d
         /\ entry[d] = LockedBy(c) =>
              entry'[d] = LockedBy(c) \/ (call.op = "unlock" /\ call.cfg = d)
         /\ reply = "ok" /\ call.op = "lock" /\ call.cfg = d => entry'[d] = LockedBy(c)
         /\ \A s \in Sessions \ {c} : entry'[d] = LockedBy(s) <=> entry[d] = LockedBy(s)
  <2>1. TAKE d \in Databases
  <2>2. /\ LockedBy(c) # Unlocked
        /\ \A s \in Sessions \ {c} : LockedBy(s) # LockedBy(c) /\ LockedBy(s) # Unlocked
    BY DEF LockedBy, Unlocked
  <2>3. CASE reply = "ok" /\ call.op = "lock"
    <3>1. entry' = [entry EXCEPT ![call.cfg] = LockedBy(c)]
      BY <1>6, <2>3
    <3>2. entry'[d] = IF d = call.cfg THEN LockedBy(c) ELSE entry[d]
      BY <1>14, <3>1
    <3>3. QED
      BY <1>4, <2>2, <2>3, <3>2
  <2>4. CASE reply = "ok" /\ call.op = "unlock"
    <3>1. entry' = [entry EXCEPT ![call.cfg] = Unlocked]
      BY <1>6, <2>4
    <3>2. entry'[d] = IF d = call.cfg THEN Unlocked ELSE entry[d]
      BY <1>14, <3>1
    <3>3. QED
      BY <1>4, <2>2, <2>4, <3>2
  <2>5. CASE ~(reply = "ok" /\ call.op \in {"lock", "unlock"})
    <3>1. entry' = entry
      BY <1>6, <2>5
    <3>2. QED
      BY <1>4, <2>5, <3>1
  <2>6. QED
    BY <2>3, <2>4, <2>5
<1>17. ASSUME NEW s \in Sessions, s # c
       PROVE  Agreement(s)'
  <2>1. Agreement(s) /\ ClientOK(server_cb[s], calls[s])
    BY OfClient DEF Agreements
  <2>2. calls'[s] = calls[s] /\ server_cb'[s] = server_cb[s]
    BY <1>6, <1>12, <1>17
  <2>3. \A d \in Databases : entry'[d] = LockedBy(s) <=> entry[d] = LockedBy(s)
    BY <1>16, <1>17
  <2>4. Granted(s, calls[s], entry')
    <3>1. calls[s] # <<>> => calls[s][Len(calls[s])].cfg \in Databases
      <4>1. calls[s] # <<>> => Len(calls[s]) \in 1 .. Len(calls[s])
        BY <2>1, EmptySeq DEF ClientOK
      <4>2. calls[s] # <<>> => calls[s][Len(calls[s])] \in CallType
        BY <2>1, <4>1, ElementOfSeq DEF ClientOK
      <4>3. QED
        BY <4>2 DEF CallType
    <3>2. QED
      BY <2>1, <2>3, <3>1 DEF Agreement, Granted
  <2>5. s \notin overlapped => Held(s, server_cb[s], calls[s], entry')
    BY <2>1, <2>3 DEF Agreement, Held
  <2>6. s \notin gave_up => Known(s, server_cb[s], calls[s], entry')
    BY <2>1, <2>3 DEF Agreement, Known
  <2>7. QED
    BY <1>6, <2>1, <2>2, <2>4, <2>5, <2>6 DEF Agreement
<1>18. TypeOK'
  <2>1. ClientOK(k, q2)
    BY <1>2, <1>9 DEF ClientOK
  <2>2. \A s \in Sessions : ClientOK(server_cb'[s], calls'[s])
    BY <1>6, <1>12, <2>1, OfClient DEF k
  <2>3. /\ server_cb' \in [Sessions -> ClientType] /\ {dirty', cc_active'} \subseteq BOOLEAN
        /\ overlapped' \subseteq gave_up' /\ gave_up' \subseteq Sessions
    BY <1>6, <1>7, TypesOfClients DEF Agreements
  <2>4. QED
    BY <1>15, <2>2, <2>3, TypesOfClients DEF TypeOK, ClientOK, ClientType, CallType, Modes
<1>19. Answered(q2)
  <2>1. ASSUME NEW j \in 1 .. Len(q), NEW m \in 1 .. Len(q), j < m, q2[m].reply # "none"
        PROVE  q2[j].reply # "none"
    <3>1. CASE j = i
      BY <1>11, <3>1
    <3>2. CASE j # i /\ m = i
      <4>1. q[i - 1].reply # "none" /\ i - 1 \in 1 .. Len(q) /\ j <= i - 1
        BY <1>3, <1>6, <2>1, <3>2
      <4>2. q[j].reply # "none"
        BY <1>2, <4>1 DEF Answered
      <4>3. QED
        BY <1>10, <3>2, <4>2
    <3>3. CASE j # i /\ m # i
      BY <1>2, <1>10, <2>1, <3>3 DEF Answered
    <3>4. QED
      BY <3>1, <3>2, <3>3
  <2>2. QED
    BY <1>9, <2>1 DEF Answered
<1>20. Waiting(k, q2)
  <2>1. q # <<>> /\ k.state = "rpywait" =>
          Len(q) \in 1 .. Len(q) /\ q2 # <<>>
    BY <1>3, <1>9, EmptySeq
  <2>2. QED
    BY <1>2, <1>9, <1>10, <2>1 DEF Waiting
<1>21. Granted(c, q2, entry')
  <2>1. SUFFICES ASSUME q2[Len(q)].op = "lock", q2[Len(q)].reply = "ok"
                 PROVE  entry'[q2[Len(q)].cfg] = LockedBy(c)
    BY <1>9 DEF Granted
  <2>2. Len(q) \in 1 .. Len(q)
    BY <1>3
  <2>3. i = Len(q)
    BY <1>3, <1>10, <2>1, <2>2
  <2>4. reply = "ok" /\ call.op = "lock" /\ q2[Len(q)].cfg = call.cfg
    BY <1>8, <1>9, <2>1, <2>2, <2>3
  <2>5. QED
    BY <1>3, <1>16, <2>4 DEF call
<1>22. c \notin overlapped => Single(k, q2)
  BY <1>2, <1>9, <1>10 DEF Single
<1>23. ASSUME c \notin overlapped
       PROVE  Held(c, k, q2, entry')
  <2>1. SUFFICES ASSUME NEW d \in Databases, k.lock[d] = "active"
                 PROVE  /\ entry'[d] = LockedBy(c)
                        /\ \A j \in 1 .. Len(q2) :
                             q2[j].op = "unlock" /\ q2[j].cfg = d => q2[j].reply # "none"
    BY DEF Held
  <2>2. /\ entry[d] = LockedBy(c)
        /\ \A j \in 1 .. Len(q) :
             q[j].op = "unlock" /\ q[j].cfg = d => q[j].reply # "none"
    BY <1>2, <1>23, <2>1 DEF Held
  <2>3. ~(call.op = "unlock" /\ call.cfg = d)
    BY <1>6, <2>2 DEF call
  <2>4. entry'[d] = LockedBy(c)
    BY <1>16, <2>2, <2>3
  <2>5. \A j \in 1 .. Len(q2) :
          q2[j].op = "unlock" /\ q2[j].cfg = d => q2[j].reply # "none"
    BY <1>9, <1>10, <1>11, <2>2
  <2>6. QED
    BY <2>4, <2>5
<1>24. ASSUME c \notin gave_up
       PROVE  Known(c, k, q2, entry')
  <2>1. Known(c, k, q, entry)
    BY <1>2, <1>24
  <2>2. Len(q) = 1 /\ i = 1 /\ q # <<>>
    <3>1. Len(q) <= 1
      BY <2>1 DEF Known
    <3>2. Len(q) \in Nat /\ i \in 1 .. Len(q)
      BY <1>3
    <3>3. ASSUME NEW n \in Nat, n <= 1, NEW m \in 1 .. n
          PROVE  n = 1 /\ m = 1
      BY <3>3
    <3>4. Len(q) = 1 /\ i = 1
      BY <3>1, <3>2, <3>3
    <3>5. QED
      BY <3>4, EmptySeq
  <2>3. k.state = "rpywait" /\ k.mode \in {"autolock", "autounlock", "autodiscard"}
    BY <1>2, <2>1, <2>2 DEF Known, ClientOK, ClientType, Modes
  <2>4. /\ call.cfg = k.cur
        /\ k.mode = "autolock" => call.op = "lock"
        /\ k.mode = "autounlock" => call.op = "unlock"
        /\ k.mode = "autodiscard" => call.op = "discard-changes"
    BY <1>2, <2>2, <2>3 DEF Waiting, call
  <2>5. ASSUME NEW d \in Databases, entry'[d] = LockedBy(c)
        PROVE  k.lock[d] = "active" \/ Pending(k, q2, d)
    <3>1. CASE reply = "ok" /\ call.op = "lock" /\ call.cfg = d
      BY <1>11, <2>2, <2>3, <2>4, <3>1 DEF Pending
    <3>2. CASE entry[d] = LockedBy(c) /\ ~(call.op = "unlock" /\ call.cfg = d)
      <4>1. k.lock[d] = "active" \/ Pending(k, q, d)
        BY <2>1, <3>2 DEF Known
      <4>2. ~Pending(k, q, d)
        BY <1>6, <2>2, <2>3, <2>4, <3>2 DEF Pending, call
      <4>3. QED
        BY <4>1, <4>2
    <3>3. QED
      BY <1>16, <2>5, <3>1, <3>2
  <2>6. \A j \in 1 .. Len(q2) : q2[j].queued
    BY <1>9, <1>10, <2>1 DEF Known
  <2>7. Len(q2) <= 1 /\ k.state # "idle"
    BY <1>9, <2>2, <2>3
  <2>8. QED
    BY <2>5, <2>6, <2>7 DEF Known
<1>25. Agreement(c)'
  BY <1>6, <1>12, <1>19, <1>20, <1>21, <1>22, <1>23, <1>24 DEF Agreement, k
<1>26. QED
  BY <1>13, <1>17, <1>18, <1>25 DEF Agreements

\* Other sessions only edit what no client has locked, and lock nothing.
LEMMA OthersKeep ==
    ASSUME Agreements, CallsOfClients, OtherEdits \/ OtherCommits \/ OtherConfirms
    PROVE  Agreements' /\ CallsOfClients'
<1>1. /\ entry' = entry /\ server_cb' = server_cb /\ calls' = calls
      /\ gave_up' = gave_up /\ overlapped' = overlapped
  BY DEF OtherEdits, OtherCommits, OtherConfirms, given_up
<1>2. {dirty', cc_active'} \subseteq BOOLEAN
  BY TypesOfClients DEF Agreements, OtherEdits, OtherCommits, OtherConfirms
<1>3. TypeOK'
  BY <1>1, <1>2 DEF Agreements, TypeOK
<1>4. \A c \in Sessions : Agreement(c)'
  BY <1>1 DEF Agreements, Agreement
<1>5. QED
  BY <1>1, <1>3, <1>4 DEF Agreements, CallsOfClients

-----------------------------------------------------------------------------
(***************************************************************************)
(* The theorems.                                                           *)
(***************************************************************************)

Inv == Agreements /\ CallsOfClients

\* The invariant holds in the initial state.
LEMMA InvInit == Init => Inv
<1> SUFFICES ASSUME Init PROVE Inv
  OBVIOUS
<1>1. TypeOK
  <2>1. \A c \in Sessions : ClientOK(server_cb[c], calls[c])
    BY ClearedType, EmptySeq DEF Init, ClientOK, Cleared
  <2>2. entry \in [Databases -> CfgEntries]
    BY DEF Init, Unlocked, CfgEntries
  <2>3. server_cb \in [Sessions -> ClientType]
    BY ClearedType DEF Init
  <2>4. QED
    BY <2>1, <2>2, <2>3, TypesOfClients DEF Init
<1>2. ASSUME NEW c \in Sessions
      PROVE  Agreement(c)
  <2>1. calls[c] = <<>> /\ Len(calls[c]) = 0 /\ server_cb[c] = Cleared
    BY DEF Init
  <2>2. Cleared.state = "idle" /\ \A d \in Databases : Cleared.lock[d] = "idle"
    BY DEF Cleared
  <2>3. \A d \in Databases : entry[d] # LockedBy(c)
    BY DEF Init, Unlocked, LockedBy
  <2>4. Answered(calls[c]) /\ Granted(c, calls[c], entry)
    BY <2>1 DEF Answered, Granted
  <2>5. Waiting(server_cb[c], calls[c]) /\ Single(server_cb[c], calls[c])
    BY <2>1, <2>2 DEF Waiting, Single
  <2>6. Held(c, server_cb[c], calls[c], entry) /\ Known(c, server_cb[c], calls[c], entry)
    BY <2>1, <2>2, <2>3 DEF Held, Known
  <2>7. QED
    BY <2>4, <2>5, <2>6 DEF Agreement
<1>3. CallsOfClients
  BY DEF Init, CallsOfClients
<1>4. QED
  BY <1>1, <1>2, <1>3 DEF Inv, Agreements

\* Every step keeps the invariant.
LEMMA InvNext == Inv /\ [Next]_vars => Inv'
<1>1. SUFFICES ASSUME Inv, [Next]_vars PROVE Inv'
  OBVIOUS
<1>2. Agreements /\ CallsOfClients
  BY <1>1 DEF Inv
<1>3. CASE UNCHANGED vars
  BY <1>2, <1>3 DEF Inv, Agreements, CallsOfClients, TypeOK, Agreement, vars, server, given_up
<1>4. ASSUME NEW c \in Sessions, GetLocks(c) \/ ReleaseLocks(c)
      PROVE  Inv'
  BY <1>2, <1>4, GetLocksKeeps, IdleKeeps DEF Inv
<1>5. ASSUME NEW c \in Sessions, Receive(c, FALSE) \/ Receive(c, TRUE)
      PROVE  Inv'
  BY <1>2, <1>5, ReceiveKeeps DEF Inv
<1>6. ASSUME NEW c \in Sessions, PollOver(c) \/ PollRetry(c)
      PROVE  Inv'
  BY <1>2, <1>6, IdleKeeps DEF Inv
<1>7. ASSUME NEW c \in Sessions, RequestTimesOut(c) \/ LockTimesOut(c)
      PROVE  Inv'
  BY <1>2, <1>7, TimeoutsKeep DEF Inv
<1>8. ASSUME NEW c \in Sessions, Serve(c)
      PROVE  Inv'
  BY <1>2, <1>8, ServeKeeps DEF Inv
<1>9. CASE OtherEdits \/ OtherCommits \/ OtherConfirms
  BY <1>2, <1>9, OthersKeep DEF Inv
<1>10. QED
  BY <1>1, <1>3, <1>4, <1>5, <1>6, <1>7, <1>8, <1>9 DEF Next

\* The variables have their types, no lock state outlives the command it belongs to, and
\* a client waits for a reply only while it has a request.
THEOREM TypeCorrect == Spec => []TypeOK
<1>1. Inv => TypeOK
  BY DEF Inv, Agreements
<1>2. QED
  BY <1>1, InvInit, InvNext, PTL DEF Spec

\* A client holds every lock it takes for granted, whatever is retried, discarded or given
\* up, while every request it went on without has timed out and left the queue, or it has
\* forgotten its locks with nothing in the queue since; and as long as it gave up nothing,
\* the server has given it no lock it does not know of.
THEOREM BeliefsHold == Spec => []BeliefsAgree
<1>1. Inv => BeliefsAgree
  <2>1. SUFFICES ASSUME Inv, NEW c \in Sessions, NEW d \in Databases
                 PROVE  /\ c \notin overlapped /\ server_cb[c].lock[d] = "active" =>
                             entry[d] = LockedBy(c)
                        /\ c \notin gave_up /\ entry[d] = LockedBy(c) =>
                             server_cb[c].lock[d] \in
                               {"active", "request_sent", "release_sent"}
    BY DEF BeliefsAgree
  <2>2. c \notin overlapped /\ server_cb[c].lock[d] = "active" => entry[d] = LockedBy(c)
    BY <2>1, OfClient DEF Inv, Held
  <2>3. ASSUME c \notin gave_up, entry[d] = LockedBy(c)
        PROVE  server_cb[c].lock[d] \in {"active", "request_sent", "release_sent"}
    <3>1. /\ Waiting(server_cb[c], calls[c])
          /\ server_cb[c].lock[d] = "active" \/ Pending(server_cb[c], calls[c], d)
      BY <2>1, <2>3, OfClient DEF Inv, Known
    <3>2. QED
      BY <3>1 DEF Waiting, Pending
  <2>4. QED
    BY <2>2, <2>3
<1>2. QED
  BY <1>1, InvInit, InvNext, PTL DEF Spec
=============================================================================
