-------------------------- MODULE ServerLoopProofs --------------------------
(***************************************************************************)
(* Proofs about ServerLoop, for a table, timeouts and streams of messages  *)
(* of any size.                                                            *)
(***************************************************************************)
EXTENDS ServerLoop, Extremes, SequenceTheorems

USE LoopAssumption

Numbers == 1 .. MaxMessages

\* The entries of sessions, and those that stayed in the queue when their session ended.
Entries == Ids \cup {-s : s \in Ids}

Readies == [queue : Seq(Entries), inq : SUBSET Ids]
-----------------------------------------------------------------------------
(***************************************************************************)
(* Types.                                                                  *)
(***************************************************************************)

LEMMA TicksType == MaxTicks \in Nat
<1>1. \E x \in {HelloTimeout, IdleTimeout} :
        \A y \in {HelloTimeout, IdleTimeout} : x >= y
  OBVIOUS
<1>2. MaxTicks \in {HelloTimeout, IdleTimeout}
  BY <1>1 DEF MaxTicks, Max
<1>3. QED
  BY <1>2

\* The operations on the ready queue keep its type.
LEMMA ReadyType == TypeOK => ready \in Readies
BY DEF TypeOK, ready, Readies, Entries

LEMMA MadeType ==
    ASSUME NEW r \in Readies, NEW s \in Ids
    PROVE  MadeInready(r, s) \in Readies
BY AppendProperties DEF MadeInready, Readies, Entries

LEMMA TakenType ==
    ASSUME NEW r \in Readies, r.queue # <<>>
    PROVE  FirstTaken(r) \in Readies
BY HeadTailProperties DEF FirstTaken, Readies

\* What is left of a queue without its entry at k.
LEMMA RemovedQueue ==
    ASSUME NEW S, NEW q \in Seq(S), NEW k \in 1 .. Len(q) + 1
    PROVE  /\ RemoveAt(q, k) \in Seq(S)
           /\ Len(RemoveAt(q, k)) = IF k =< Len(q) THEN Len(q) - 1 ELSE Len(q)
           /\ \A i \in 1 .. Len(RemoveAt(q, k)) :
                  RemoveAt(q, k)[i] = IF i < k THEN q[i] ELSE q[i + 1]
<1>1. Len(q) \in Nat /\ \A i \in 1 .. Len(q) : q[i] \in S
  BY ElementOfSeq, LenProperties
<1> DEFINE a == SubSeq(q, 1, k - 1)
           b == SubSeq(q, k + 1, Len(q))
<1>2. /\ a \in Seq(S) /\ Len(a) = k - 1
      /\ \A i \in 1 .. k - 1 : a[i] = q[i]
  BY <1>1, SubSeqProperties
<1>3. /\ b \in Seq(S) /\ Len(b) = IF k =< Len(q) THEN Len(q) - k ELSE 0
      /\ \A i \in 1 .. Len(q) - k : b[i] = q[k + i]
  <2>1. /\ b \in Seq(S)
        /\ Len(b) = IF k + 1 =< Len(q) THEN Len(q) - (k + 1) + 1 ELSE 0
        /\ \A i \in 1 .. Len(q) - (k + 1) + 1 : b[i] = q[k + 1 + i - 1]
    BY <1>1, SubSeqProperties
  <2> HIDE DEF b
  <2>2. QED
    BY <1>1, <2>1
<1>4. RemoveAt(q, k) = a \o b
  BY DEF RemoveAt
<1> HIDE DEF a, b
<1>5. /\ a \o b \in Seq(S) /\ Len(a \o b) = Len(a) + Len(b)
      /\ \A i \in 1 .. Len(a) + Len(b) :
             (a \o b)[i] = IF i =< Len(a) THEN a[i] ELSE b[i - Len(a)]
  BY <1>2, <1>3, ConcatProperties
<1>6. Len(a \o b) = IF k =< Len(q) THEN Len(q) - 1 ELSE Len(q)
  BY <1>1, <1>2, <1>3, <1>5
<1>7. ASSUME NEW i \in 1 .. Len(a \o b)
      PROVE  (a \o b)[i] = IF i < k THEN q[i] ELSE q[i + 1]
  <2>1. CASE i < k
    BY <1>1, <1>2, <1>3, <1>5, <1>6, <2>1
  <2>2. CASE ~(i < k)
    <3>1. i - (k - 1) \in 1 .. Len(q) - k /\ k + (i - (k - 1)) = i + 1
      BY <1>1, <1>6, <2>2
    <3>2. (a \o b)[i] = b[i - (k - 1)]
      BY <1>1, <1>2, <1>3, <1>5, <2>2
    <3>3. QED
      BY <1>3, <2>2, <3>1, <3>2
  <2>3. QED
    BY <2>1, <2>2
<1>8. QED
  BY <1>4, <1>5, <1>6, <1>7

\* Where the entry of a session is, 0 when it has none.
Own(q, s) == SelectInSeq(q, LAMBDA t : t = s)

LEMMA OwnPlace ==
    ASSUME NEW q \in Seq(Entries), NEW s \in Ids
    PROVE  /\ Own(q, s) \in 0 .. Len(q)
           /\ s \in ToSet(q) => Own(q, s) # 0 /\ q[Own(q, s)] = s
           /\ s \notin ToSet(q) => Own(q, s) = 0
<1> DEFINE I == {i \in 1 .. Len(q) : q[i] = s}
<1>1. Len(q) \in Nat /\ DOMAIN q = 1 .. Len(q)
  BY LenProperties
<1>2. Own(q, s) = IF I # {} THEN Min(I) ELSE 0
  BY DEF Own, SelectInSeq
<1>3. I \in SUBSET Nat /\ I \subseteq 1 .. Len(q) /\ (s \in ToSet(q) <=> I # {})
  BY <1>1 DEF ToSet
<1>4. \A i \in I : q[i] = s
  OBVIOUS
<1> HIDE DEF I
<1>5. I # {} => Min(I) \in I
  BY <1>3, MinIsLeast
<1>6. CASE I = {}
  BY <1>1, <1>2, <1>3, <1>6
<1>7. CASE I # {}
  <2>1. Own(q, s) \in I
    BY <1>2, <1>5, <1>7
  <2>2. Own(q, s) \in 1 .. Len(q) /\ q[Own(q, s)] = s
    BY <1>3, <1>4, <2>1
  <2>3. QED
    BY <1>1, <1>3, <1>7, <2>2
<1>8. QED
  BY <1>6, <1>7

\* The queue after ses_msg_unmake_inready: the entry of the session has become one of
\* freed memory, and the one behind it is gone.
LEMMA UnmadeQueue ==
    ASSUME NEW r \in Readies, NEW s \in r.inq
    PROVE  LET p == UnmadeInready(r, s).queue
               own == Own(r.queue, s)
           IN  /\ p \in Seq(Entries)
               /\ UnmadeInready(r, s).inq = r.inq \ {s}
               /\ Len(p) = IF own < Len(r.queue) THEN Len(r.queue) - 1 ELSE Len(r.queue)
               /\ \A i \in 1 .. Len(p) :
                      p[i] = IF i = own THEN -s
                             ELSE IF i < own THEN r.queue[i] ELSE r.queue[i + 1]
<1> DEFINE q == r.queue
           own == Own(q, s)
           marked == [q EXCEPT ![own] = -s]
<1>1. /\ q \in Seq(Entries) /\ Len(q) \in Nat /\ DOMAIN q = 1 .. Len(q)
      /\ s \in Ids /\ -s \in Entries
  BY LenProperties DEF Readies, Entries
<1>2. own \in 0 .. Len(q)
  BY <1>1, OwnPlace
<1>3. /\ marked \in Seq(Entries) /\ Len(marked) = Len(q)
      /\ \A i \in 1 .. Len(q) : marked[i] = IF i = own THEN -s ELSE q[i]
  <2>1. CASE own = 0
    <3>1. \A i \in 1 .. Len(q) : marked[i] = q[i]
      BY <1>1, <2>1
    <3>2. marked = q
      BY <1>1, <2>1
    <3>3. QED
      BY <1>1, <2>1, <3>2
  <2>2. CASE own # 0
    BY <1>1, <1>2, <2>2, ExceptSeq
  <2>3. QED
    BY <2>1, <2>2
<1>4. UnmadeInready(r, s) = [queue |-> RemoveAt(marked, own + 1), inq |-> r.inq \ {s}]
  BY DEF UnmadeInready, Own
<1> HIDE DEF own, marked
<1> DEFINE p == RemoveAt(marked, own + 1)
<1>5. /\ p \in Seq(Entries)
      /\ Len(p) = IF own + 1 =< Len(q) THEN Len(q) - 1 ELSE Len(q)
      /\ \A i \in 1 .. Len(p) : p[i] = IF i < own + 1 THEN marked[i] ELSE marked[i + 1]
  BY <1>1, <1>2, <1>3, RemovedQueue
<1> HIDE DEF p
<1>6. ASSUME NEW i \in 1 .. Len(p)
      PROVE  p[i] = IF i = own THEN -s ELSE IF i < own THEN q[i] ELSE q[i + 1]
  <2>1. i \in 1 .. Len(q) /\ (~(i < own + 1) => i + 1 \in 1 .. Len(q) /\ i + 1 # own)
    BY <1>1, <1>2, <1>5
  <2>2. QED
    BY <1>1, <1>2, <1>3, <1>5, <2>1
<1>7. Len(p) = IF own < Len(q) THEN Len(q) - 1 ELSE Len(q)
  BY <1>1, <1>2, <1>5
<1>8. QED
  BY <1>1, <1>2, <1>4, <1>5, <1>6, <1>7 DEF own, p

LEMMA UnmadeType ==
    ASSUME NEW r \in Readies, NEW s \in Ids
    PROVE  UnmadeInready(r, s) \in Readies
<1>1. CASE s \in r.inq
  <2>1. UnmadeInready(r, s).queue \in Seq(Entries) /\ UnmadeInready(r, s).inq = r.inq \ {s}
    BY <1>1, UnmadeQueue
  <2>2. UnmadeInready(r, s) = [queue |-> UnmadeInready(r, s).queue, inq |-> r.inq \ {s}]
    BY <1>1 DEF UnmadeInready
  <2>3. r.inq \ {s} \in SUBSET Ids
    BY DEF Readies
  <2>4. QED
    BY <2>1, <2>2, <2>3 DEF Readies
<1>2. CASE s \notin r.inq
  BY <1>2 DEF UnmadeInready
<1>3. QED
  BY <1>1, <1>2

\* What the end of a session does to the variables it touches.
LEMMA EndType ==
    ASSUME TypeOK, NEW s \in Ids, NEW r \in Readies, EndSession(s, r)
    PROVE  /\ state' \in [Ids -> {"none", "init", "hello_wait", "idle", "shutdown_req"}]
           /\ msgQ' \in [Ids -> Seq(Numbers)]
           /\ indefer' \in [Ids -> Seq(Numbers)]
           /\ handled' \in [Ids -> 0 .. MaxMessages]
           /\ since' \in [Ids -> 0 .. MaxTicks]
           /\ inq' \subseteq Ids
           /\ inreadyQ' \in Seq(Entries)
           /\ next_sesid' \in Ids \cup {0}
           /\ at' \in {at, "undefined"}
           /\ socket' \in [Ids -> Seq(Numbers)]
           /\ peer' \in [Ids -> {"open", "closed", "reset"}]
           /\ sent' \in [Ids -> 0 .. MaxMessages]
           /\ acts' \in 0 .. MaxActs
           /\ backlog' \in BOOLEAN
<1>1. <<>> \in Seq(Numbers) /\ 0 \in 0 .. MaxMessages /\ 0 \in 0 .. MaxTicks
  BY TicksType
<1>2. /\ msgQ' = [msgQ EXCEPT ![s] = <<>>]
      /\ indefer' = [indefer EXCEPT ![s] = <<>>]
      /\ socket' = [socket EXCEPT ![s] = <<>>]
  BY DEF EndSession, Free
<1>3. /\ state' = [state EXCEPT ![s] = "none"]
      /\ handled' = [handled EXCEPT ![s] = 0]
      /\ since' = [since EXCEPT ![s] = 0]
      /\ peer' = [peer EXCEPT ![s] = "open"]
      /\ sent' = [sent EXCEPT ![s] = 0]
      /\ UNCHANGED <<next_sesid, acts, backlog>>
  BY DEF EndSession, Free
<1>4. UnmadeInready(r, s) \in Readies /\ IsReady(UnmadeInready(r, s))
  BY UnmadeType DEF EndSession
<1>5. inq' \subseteq Ids /\ inreadyQ' \in Seq(Entries)
  BY <1>4 DEF IsReady, Readies
<1>6. at' \in {at, "undefined"}
  BY DEF EndSession
<1>7. QED
  BY <1>1, <1>2, <1>3, <1>5, <1>6 DEF TypeOK, Numbers

\* Accepting input appends messages to the ones that wait.
LEMMA AcceptType ==
    ASSUME TypeOK, NEW s \in Ids, NEW input \in Seq(Numbers), input # <<>>,
           AcceptBuffer(s, input)
    PROVE  /\ msgQ' \in [Ids -> Seq(Numbers)]
           /\ indefer' \in [Ids -> Seq(Numbers)]
           /\ inq' \subseteq Ids
           /\ inreadyQ' \in Seq(Entries)
<1> DEFINE alone == Base11 /\ state[s] \in {"init", "hello_wait"}
           taken == IF alone THEN <<Head(input)>> ELSE input
           rest == IF alone THEN Tail(input) ELSE <<>>
<1>1. Head(input) \in Numbers /\ Tail(input) \in Seq(Numbers)
  BY HeadTailProperties
<1>2. taken \in Seq(Numbers) /\ rest \in Seq(Numbers)
  BY <1>1
<1>3. /\ msgQ' = [msgQ EXCEPT ![s] = @ \o taken]
      /\ indefer' = [indefer EXCEPT ![s] = rest]
      /\ IsReady(MadeInready(ready, s))
  BY DEF AcceptBuffer
<1> HIDE DEF taken, rest
<1>4. msgQ[s] \o taken \in Seq(Numbers)
  BY <1>2, ConcatProperties DEF TypeOK, Numbers
<1>5. MadeInready(ready, s) \in Readies
  BY ReadyType, MadeType
<1>6. QED
  BY <1>2, <1>3, <1>4, <1>5 DEF TypeOK, IsReady, Readies, Numbers

\* A free slot is an id, and the id after it is one too.
LEMMA SlotType ==
    ASSUME TypeOK, NEW slot \in FreeSlots
    PROVE  /\ slot \in Ids
           /\ next_sesid # 0 => slot = next_sesid /\ NextSesid(slot) \in Ids \cup {0}
<1>1. Ids \in SUBSET Nat /\ Ids \ Up \in SUBSET Nat
  BY DEF Ids
<1>2. Ids \ Up # {} => Min(Ids \ Up) \in Ids \ Up
  BY <1>1, MinIsLeast
<1>3. CASE next_sesid = 0
  BY <1>2, <1>3 DEF FreeSlots, Up
<1>4. CASE next_sesid # 0
  BY <1>4 DEF FreeSlots, NextSesid, TypeOK, Ids
<1>5. QED
  BY <1>3, <1>4

\* The steps of the clients and of time.
LEMMA ClientsType == TypeOK /\ (Clients \/ Tick) => TypeOK'
<1> SUFFICES ASSUME TypeOK, Clients \/ Tick
             PROVE  TypeOK'
  OBVIOUS
<1> SUFFICES ASSUME Act \/ Tick
             PROVE  TypeOK'
  BY DEF Clients, Connect, Send, HangUp, Reset
<1>0. acts' \in 0 .. MaxActs
  <2>1. acts \in 0 .. MaxActs /\ MaxActs \in Nat
    BY LoopAssumption DEF TypeOK
  <2>2. CASE Act
    BY <2>1, <2>2 DEF Act
  <2>3. CASE Tick
    BY <2>1, <2>3 DEF Tick, clients
  <2>4. QED
    BY <2>2, <2>3
<1>1. CASE Connect
  <2>1. /\ backlog' \in BOOLEAN
        /\ UNCHANGED <<state, msgQ, indefer, handled, since, inq, inreadyQ, next_sesid, at,
                       read_fds, socket, peer, sent>>
    BY <1>1 DEF Connect, sessions
  <2>2. QED
    BY <1>0, <2>1 DEF TypeOK
<1>2. ASSUME NEW s \in Ids, Send(s)
      PROVE  TypeOK'
  <2>1. sent[s] + 1 \in 1 .. MaxMessages
    BY <1>2 DEF Send, TypeOK
  <2>2. Append(socket[s], sent[s] + 1) \in Seq(1 .. MaxMessages)
    BY <2>1, AppendProperties DEF TypeOK
  <2>3. /\ sent' = [sent EXCEPT ![s] = sent[s] + 1]
        /\ socket' = [socket EXCEPT ![s] = Append(socket[s], sent[s] + 1)]
        /\ UNCHANGED <<state, msgQ, indefer, handled, since, inq, inreadyQ, next_sesid, at,
                       read_fds, peer, backlog>>
    BY <1>2 DEF Send, TypeOK, sessions
  <2>4. sent' \in [Ids -> 0 .. MaxMessages] /\ socket' \in [Ids -> Seq(1 .. MaxMessages)]
    BY <2>1, <2>2, <2>3 DEF TypeOK
  <2>5. QED
    BY <1>0, <2>3, <2>4 DEF TypeOK
<1>3. ASSUME NEW s \in Ids, HangUp(s)
      PROVE  TypeOK'
  BY <1>0, <1>3 DEF HangUp, TypeOK, sessions
<1>4. ASSUME NEW s \in Ids, Reset(s)
      PROVE  TypeOK'
  <2>1. <<>> \in Seq(1 .. MaxMessages)
    OBVIOUS
  <2>2. QED
    BY <1>0, <1>4, <2>1 DEF Reset, TypeOK, sessions
<1>5. CASE Tick
  <2>1. since' \in [Ids -> 0 .. MaxTicks]
    <3>1. \A s \in Ids : since[s] \in 0 .. MaxTicks
      BY DEF TypeOK
    <3>2. \A s \in Ids : (IF state[s] \in {"hello_wait", "idle"} /\ since[s] < MaxTicks
                          THEN since[s] + 1 ELSE since[s]) \in 0 .. MaxTicks
      BY <3>1, TicksType
    <3>3. QED
      BY <1>5, <3>2 DEF Tick
  <2>2. QED
    BY <1>5, <2>1 DEF Tick, TypeOK, clients
<1>6. QED
  BY <1>1, <1>2, <1>3, <1>4, <1>5 DEF Clients

\* A step that ends a session.
LEMMA EndStepType ==
    ASSUME TypeOK, NEW s \in Ids, NEW r \in Readies, EndSession(s, r),
           read_fds' \subseteq read_fds
    PROVE  TypeOK'
<1>1. read_fds' \subseteq Ids \cup {ncxsock}
  BY DEF TypeOK
<1>2. at' \in {"select", "poll", "serve", "drain", "undefined"}
  BY EndType DEF TypeOK
<1>3. QED
  BY <1>1, <1>2, EndType DEF TypeOK, Numbers, Entries

\* Waiting for input and polling the timers.
LEMMA WaitType ==
    ASSUME TypeOK,
           \/ SelectReturns \/ SelectTimesOut \/ Polled \/ AllServed \/ EntryOverwritten
           \/ \E s \in Ids : KillExpired(s)
    PROVE  TypeOK'
<1>1. CASE SelectReturns
  BY <1>1 DEF SelectReturns, Readable, Up, TypeOK, sessions, clients
<1>2. CASE SelectTimesOut
  BY <1>2 DEF SelectTimesOut, Up, TypeOK, sessions, clients
<1>3. CASE Polled \/ AllServed \/ EntryOverwritten
  BY <1>3 DEF Polled, AllServed, EntryOverwritten, TypeOK, sessions, clients
<1>4. ASSUME NEW s \in Ids, KillExpired(s)
      PROVE  TypeOK'
  BY <1>4, ReadyType, EndStepType DEF KillExpired
<1>5. QED
  BY <1>1, <1>2, <1>3, <1>4

\* Serving the sockets.
LEMMA ServeType ==
    ASSUME TypeOK,
           \/ AcceptConnection
           \/ \E s \in Ids : ServeClosing(s) \/ ServeDeferred(s) \/ ServeInput(s)
                                \/ ServeEnd(s) \/ ServeBadFraming(s) \/ ServeFailure(s)
    PROVE  TypeOK'
<1>1. CASE AcceptConnection
  <2>1. UNCHANGED <<msgQ, indefer, handled, since, inq, inreadyQ, at, socket, peer, sent,
                    acts>>
        /\ backlog' = FALSE /\ read_fds' \subseteq read_fds
    BY <1>1 DEF AcceptConnection, Served
  <2>2. state' \in [Ids -> {"none", "init", "hello_wait", "idle", "shutdown_req"}]
    BY <1>1, SlotType DEF AcceptConnection, TypeOK
  <2>3. next_sesid' \in Ids \cup {0}
    BY <1>1, SlotType DEF AcceptConnection, TypeOK
  <2>4. QED
    BY <2>1, <2>2, <2>3 DEF TypeOK
<1>2. ASSUME NEW s \in Ids, NEW r \in Readies, Served(s), EndSession(s, r)
      PROVE  TypeOK'
  BY <1>2, EndStepType DEF Served
<1>3. ASSUME NEW s \in Ids, ServeFailure(s), ~EndSession(s, ready)
      PROVE  TypeOK'
  BY <1>3 DEF ServeFailure, Served, TypeOK
<1>4. ASSUME NEW s \in Ids, NEW input \in Seq(Numbers), input # <<>>,
             AcceptBuffer(s, input), socket' \in [Ids -> Seq(Numbers)], Served(s)
      PROVE  TypeOK'
  <2>1. UNCHANGED <<state, handled, since, next_sesid, at, peer, sent, acts, backlog>>
        /\ read_fds' \subseteq read_fds
    BY <1>4 DEF AcceptBuffer, Served
  <2>2. QED
    BY <1>4, <2>1, AcceptType DEF TypeOK, Numbers, Entries
<1>5. ASSUME NEW s \in Ids, ServeDeferred(s)
      PROVE  TypeOK'
  BY <1>4, <1>5 DEF ServeDeferred, TypeOK, Numbers
<1>6. ASSUME NEW s \in Ids, ServeInput(s)
      PROVE  TypeOK'
  <2>1. PICK n \in 1 .. Len(socket[s]) :
          /\ AcceptBuffer(s, SubSeq(socket[s], 1, n))
          /\ socket' = [socket EXCEPT ![s] = SubSeq(socket[s], n + 1, Len(socket[s]))]
    BY <1>6 DEF ServeInput, TypeOK
  <2>2. socket[s] \in Seq(Numbers) /\ Len(socket[s]) \in Nat
    BY LenProperties DEF TypeOK, Numbers
  <2>3. \A i \in 1 .. Len(socket[s]) : socket[s][i] \in Numbers
    BY <2>2, ElementOfSeq
  <2>4. /\ SubSeq(socket[s], 1, n) \in Seq(Numbers)
        /\ Len(SubSeq(socket[s], 1, n)) = n
        /\ SubSeq(socket[s], n + 1, Len(socket[s])) \in Seq(Numbers)
    BY <2>2, <2>3, SubSeqProperties
  <2>5. SubSeq(socket[s], 1, n) # <<>>
    BY <2>4
  <2>6. socket' \in [Ids -> Seq(Numbers)]
    BY <2>1, <2>4 DEF TypeOK, Numbers
  <2>7. QED
    BY <1>4, <1>6, <2>1, <2>4, <2>5, <2>6 DEF ServeInput
<1>7. ASSUME NEW s \in Ids, ServeBadFraming(s)
      PROVE  TypeOK'
  <2>1. PICK r \in {ready, MadeInready(ready, s)} : Served(s) /\ EndSession(s, r)
    BY <1>7 DEF ServeBadFraming
  <2>2. r \in Readies
    BY ReadyType, MadeType
  <2>3. QED
    BY <1>2, <2>1, <2>2
<1>8. QED
  BY <1>1, <1>2, <1>3, <1>5, <1>6, <1>7, ReadyType DEF ServeClosing, ServeEnd, ServeFailure

\* Draining the ready queue.
LEMMA DrainType ==
    ASSUME TypeOK,
           \/ EndOfDrain
           \/ \E s \in Ids : Dispatch(s) \/ DispatchEnd(s)
           \/ \E s, t \in Ids : KillSession(s, t)
    PROVE  TypeOK'
<1>1. ASSUME NEW r \in Readies, IsReady(r)
      PROVE  inq' \subseteq Ids /\ inreadyQ' \in Seq(Entries)
  BY <1>1 DEF IsReady, Readies
<1>2. inreadyQ # <<>> => FirstTaken(ready) \in Readies
  BY ReadyType, TakenType DEF ready
<1>3. ASSUME NEW s \in Ids, NEW r \in Readies, PutBack(s, r)
      PROVE  inq' \subseteq Ids /\ inreadyQ' \in Seq(Entries)
  BY <1>1, <1>3, MadeType DEF PutBack
<1>4. CASE EndOfDrain
  <2>1. inq' \subseteq Ids /\ inreadyQ' \in Seq(Entries)
    BY <1>1, <1>2, <1>4, ReadyType DEF EndOfDrain
  <2>2. QED
    BY <1>4, <2>1 DEF EndOfDrain, TypeOK, clients, Entries
<1>5. ASSUME NEW s \in Ids, Dispatched(s)
      PROVE  /\ FirstTaken(ready) \in Readies
             /\ Head(msgQ[s]) \in Numbers /\ Head(msgQ[s]) \in 0 .. MaxMessages
             /\ Tail(msgQ[s]) \in Seq(Numbers)
  <2>1. inreadyQ # <<>> /\ msgQ[s] # <<>>
    BY <1>5 DEF Dispatched, Ready, Servable
  <2>2. msgQ[s] \in Seq(Numbers)
    BY DEF TypeOK, Numbers
  <2>3. Head(msgQ[s]) \in Numbers /\ Tail(msgQ[s]) \in Seq(Numbers)
    BY <2>1, <2>2, HeadTailProperties
  <2>4. QED
    BY <1>2, <2>1, <2>3 DEF Numbers
<1>6. 0 \in 0 .. MaxTicks /\ 0 \in 0 .. MaxMessages /\ <<>> \in Seq(Numbers)
  BY TicksType
<1>7. ASSUME NEW s \in Ids, Dispatch(s)
      PROVE  TypeOK'
  <2>1. Dispatched(s) /\ PutBack(s, FirstTaken(ready))
    BY <1>7 DEF Dispatch
  <2>2. inq' \subseteq Ids /\ inreadyQ' \in Seq(Entries)
    BY <1>3, <1>5, <2>1
  <2>3. /\ msgQ' = [msgQ EXCEPT ![s] = Tail(msgQ[s])]
        /\ handled' = [handled EXCEPT ![s] = Head(msgQ[s])]
    BY <1>7 DEF Dispatch, TypeOK
  <2>4. msgQ' \in [Ids -> Seq(Numbers)] /\ handled' \in [Ids -> 0 .. MaxMessages]
    BY <1>5, <2>1, <2>3, Zenon DEF TypeOK, Numbers
  <2>5. QED
    BY <1>6, <1>7, <2>2, <2>4 DEF Dispatch, TypeOK, Numbers, Entries, clients
<1>8. ASSUME NEW s \in Ids, DispatchEnd(s)
      PROVE  TypeOK'
  BY <1>5, <1>8, EndStepType DEF DispatchEnd
<1>9. ASSUME NEW s \in Ids, NEW t \in Ids, KillSession(s, t)
      PROVE  TypeOK'
  <2>1. /\ Dispatched(s)
        /\ PutBack(s, UnmadeInready(FirstTaken(ready), t))
        /\ at' \in {at, "undefined"}
        /\ UNCHANGED read_fds
    BY <1>9 DEF KillSession
  <2>2. inq' \subseteq Ids /\ inreadyQ' \in Seq(Entries)
    BY <1>3, <1>5, <2>1, UnmadeType
  <2>3. /\ msgQ' = [msgQ EXCEPT ![s] = Tail(msgQ[s]), ![t] = <<>>]
        /\ handled' = [handled EXCEPT ![s] = Head(msgQ[s]), ![t] = 0]
        /\ since' = [since EXCEPT ![s] = 0, ![t] = 0]
    BY <1>9 DEF KillSession, TypeOK
  <2>4. msgQ' \in [Ids -> Seq(Numbers)]
    BY <1>5, <1>6, <2>1, <2>3 DEF TypeOK, Numbers
  <2>5. handled' \in [Ids -> 0 .. MaxMessages] /\ since' \in [Ids -> 0 .. MaxTicks]
    BY <1>5, <1>6, <2>1, <2>3 DEF TypeOK
  <2>6. Free(t)
    BY <1>9 DEF KillSession
  <2>7. /\ state' = [state EXCEPT ![t] = "none"]
        /\ peer' = [peer EXCEPT ![t] = "open"]
        /\ UNCHANGED <<next_sesid, acts, backlog>>
    BY <2>6 DEF Free
  <2>8. /\ indefer' \in [Ids -> Seq(Numbers)]
        /\ socket' \in [Ids -> Seq(Numbers)]
        /\ sent' \in [Ids -> 0 .. MaxMessages]
    BY <1>6, <2>6 DEF Free, TypeOK, Numbers
  <2>9. QED
    BY <2>1, <2>2, <2>4, <2>5, <2>7, <2>8 DEF TypeOK, Numbers, Entries
<1>10. QED
  BY <1>4, <1>7, <1>8, <1>9

LEMMA TypeInit == Init => TypeOK
<1> SUFFICES ASSUME Init PROVE TypeOK
  OBVIOUS
<1>1. 1 \in Ids /\ 0 \in 0 .. MaxTicks /\ 0 \in 0 .. MaxMessages /\ 0 \in 0 .. MaxActs
  BY TicksType DEF Ids
<1>2. <<>> \in Seq(1 .. MaxMessages) /\ <<>> \in Seq(Entries)
  OBVIOUS
<1>3. /\ state \in [Ids -> {"none", "init", "hello_wait", "idle", "shutdown_req"}]
      /\ msgQ \in [Ids -> Seq(1 .. MaxMessages)]
      /\ indefer \in [Ids -> Seq(1 .. MaxMessages)]
      /\ socket \in [Ids -> Seq(1 .. MaxMessages)]
  BY <1>2 DEF Init
<1>4. /\ handled \in [Ids -> 0 .. MaxMessages]
      /\ since \in [Ids -> 0 .. MaxTicks]
      /\ peer \in [Ids -> {"open", "closed", "reset"}]
      /\ sent \in [Ids -> 0 .. MaxMessages]
  BY <1>1 DEF Init
<1>5. QED
  BY <1>1, <1>2, <1>3, <1>4 DEF Init, TypeOK, Entries

LEMMA TypeNext == TypeOK /\ [Next]_vars => TypeOK'
<1> SUFFICES ASSUME TypeOK, [Next]_vars PROVE TypeOK'
  OBVIOUS
<1>1. CASE UNCHANGED vars \/ Undefined
  BY <1>1 DEF Undefined, vars, sessions, clients, TypeOK
<1>2. CASE Loop \/ EntryOverwritten
  BY <1>2, WaitType, ServeType, DrainType DEF Loop
<1>3. QED
  BY <1>1, <1>2, ClientsType DEF Next

\* The variables have their types.
THEOREM TypeCorrect == Spec => []TypeOK
BY TypeInit, TypeNext, PTL DEF Spec
-----------------------------------------------------------------------------
(***************************************************************************)
(* The session table.  The loop serves sessions that are up, because a     *)
(* session that ends while sockets are served or timers polled is the one  *)
(* being served; and an id that was never used is free.                    *)
(***************************************************************************)

ServedAreUp == at \in {"serve", "poll"} => read_fds \subseteq Up \cup {ncxsock}

NeverUsed == next_sesid # 0 => \A s \in Up : s < next_sesid

Table == TypeOK /\ ServedAreUp /\ NeverUsed

\* A session that ends is the only one that leaves the table.
LEMMA FreeUp ==
    ASSUME TypeOK, NEW s \in Ids, Free(s)
    PROVE  Up' = Up \ {s} /\ UNCHANGED next_sesid
BY DEF Free, Up, TypeOK

LEMMA EndUp ==
    ASSUME TypeOK, NEW s \in Ids, NEW r, EndSession(s, r)
    PROVE  Up' = Up \ {s} /\ UNCHANGED next_sesid
BY FreeUp DEF EndSession

\* Other steps leave the table as it is, or the connection takes a free slot.
LEMMA ServeFailureUp ==
    ASSUME TypeOK, NEW s \in Up, ServeFailure(s), ~EndSession(s, ready)
    PROVE  Up' = Up /\ UNCHANGED next_sesid
BY DEF ServeFailure, Up, TypeOK

LEMMA AcceptUp ==
    ASSUME TypeOK, AcceptConnection
    PROVE  \/ UNCHANGED <<state, next_sesid>>
           \/ \E slot \in FreeSlots :
                /\ state' = [state EXCEPT ![slot] = "init"]
                /\ Up' = Up \cup {slot}
                /\ next_sesid' = IF next_sesid = 0 THEN 0 ELSE NextSesid(slot)
<1>1. ASSUME NEW slot \in FreeSlots, state' = [state EXCEPT ![slot] = "init"]
      PROVE  Up' = Up \cup {slot}
  <2>1. slot \in Ids
    BY SlotType
  <2>2. \A t \in Ids : state'[t] = IF t = slot THEN "init" ELSE state[t]
    BY <1>1, <2>1 DEF TypeOK
  <2>3. QED
    BY <2>1, <2>2 DEF Up
<1>2. QED
  BY <1>1 DEF AcceptConnection

LEMMA DispatchUp ==
    ASSUME TypeOK, NEW s \in Ids, Dispatch(s)
    PROVE  s \in Up /\ Up' = Up /\ UNCHANGED next_sesid
<1>1. /\ state[s] \in {"init", "hello_wait", "idle"}
      /\ state' = [state EXCEPT ![s] = IF state[s] = "init" THEN "hello_wait" ELSE "idle"]
      /\ UNCHANGED next_sesid
  BY DEF Dispatch, Dispatched, Servable, TypeOK
<1>2. \A t \in Ids : (state'[t] = "none") <=> (state[t] = "none")
  BY <1>1 DEF TypeOK
<1>3. QED
  BY <1>1, <1>2 DEF Up

LEMMA SlotIsFree ==
    ASSUME Table, NEW slot \in FreeSlots
    PROVE  slot \in Ids \ Up
<1>1. Ids \in SUBSET Nat /\ Ids \ Up \in SUBSET Nat
  BY DEF Ids
<1>2. Ids \ Up # {} => Min(Ids \ Up) \in Ids \ Up
  BY <1>1, MinIsLeast
<1>3. CASE next_sesid = 0
  BY <1>2, <1>3 DEF FreeSlots, Up
<1>4. CASE next_sesid # 0
  <2>1. slot = next_sesid /\ slot \in Ids
    BY <1>4, SlotType DEF Table
  <2>2. slot \in Up => slot < slot
    BY <1>4, <2>1 DEF Table, NeverUsed
  <2>3. QED
    BY <2>1, <2>2 DEF Ids
<1>5. QED
  BY <1>3, <1>4

LEMMA TableInit == Init => Table
BY TypeInit DEF Init, Table, ServedAreUp, NeverUsed, Up

LEMMA TableNext == Table /\ [Next]_vars => Table'
<1> SUFFICES ASSUME Table, [Next]_vars
             PROVE  ServedAreUp' /\ NeverUsed'
  BY TypeNext DEF Table
<1> USE DEF Table
<1>1. ASSUME Up' \subseteq Up, UNCHANGED next_sesid
      PROVE  NeverUsed'
  BY <1>1 DEF NeverUsed
<1>2. ASSUME UNCHANGED <<state, next_sesid>>, at' = at, read_fds' \subseteq read_fds
      PROVE  ServedAreUp' /\ NeverUsed'
  BY <1>2 DEF ServedAreUp, NeverUsed, Up
<1>3. ASSUME NEW s \in Ids, NEW r, EndSession(s, r),
             read_fds' = read_fds \ {s} \/ (at = "drain" /\ UNCHANGED read_fds)
      PROVE  ServedAreUp' /\ NeverUsed'
  <2>1. Up' = Up \ {s} /\ UNCHANGED next_sesid
    BY <1>3, EndUp
  <2>2. at' \in {at, "undefined"}
    BY <1>3 DEF EndSession
  <2>3. QED
    BY <1>1, <1>3, <2>1, <2>2 DEF ServedAreUp
<1>4. CASE Clients \/ Tick \/ Undefined \/ UNCHANGED vars
  BY <1>2, <1>4 DEF Clients, Connect, Send, HangUp, Reset, Tick, Undefined, vars, sessions
<1>5. CASE SelectReturns \/ SelectTimesOut \/ Polled \/ AllServed \/ EntryOverwritten
  <2>1. UNCHANGED <<state, next_sesid>>
    BY <1>5 DEF SelectReturns, SelectTimesOut, Polled, AllServed, EntryOverwritten, sessions
  <2>2. ServedAreUp'
    BY <1>5, <2>1 DEF SelectReturns, SelectTimesOut, Polled, AllServed, EntryOverwritten,
                      ServedAreUp, Readable, Up
  <2>3. QED
    BY <2>1, <2>2 DEF NeverUsed, Up
<1>6. ASSUME NEW s \in Ids, KillExpired(s)
      PROVE  ServedAreUp' /\ NeverUsed'
  BY <1>3, <1>6 DEF KillExpired
<1>7. CASE AcceptConnection
  <2>1. at' = at /\ read_fds' \subseteq read_fds
    BY <1>7 DEF AcceptConnection, Served
  <2>2. CASE UNCHANGED <<state, next_sesid>>
    BY <1>2, <2>1, <2>2
  <2>3. ASSUME NEW slot \in FreeSlots, Up' = Up \cup {slot},
               next_sesid' = IF next_sesid = 0 THEN 0 ELSE NextSesid(slot)
        PROVE  ServedAreUp' /\ NeverUsed'
    <3>1. ServedAreUp'
      BY <2>1, <2>3 DEF ServedAreUp
    <3>2. ASSUME next_sesid' # 0, NEW t \in Up'
          PROVE  t < next_sesid'
      <4>1. next_sesid # 0 /\ slot = next_sesid /\ next_sesid' = slot + 1
        BY <2>3, <3>2, SlotType DEF NextSesid
      <4>2. t \in Ids /\ slot \in Ids /\ t \in Up \cup {slot}
        BY <2>3, SlotIsFree DEF Up
      <4>3. QED
        BY <4>1, <4>2 DEF NeverUsed, Ids
    <3>3. QED
      BY <3>1, <3>2 DEF NeverUsed
  <2>4. QED
    BY <1>7, <2>2, <2>3, AcceptUp
<1>8. ASSUME NEW s \in Ids,
             ServeClosing(s) \/ ServeEnd(s) \/ ServeBadFraming(s) \/ ServeFailure(s)
      PROVE  ServedAreUp' /\ NeverUsed'
  <2>1. at = "serve" /\ s \in read_fds /\ read_fds' = read_fds \ {s}
    BY <1>8 DEF ServeClosing, ServeEnd, ServeBadFraming, ServeFailure, Served
  <2>2. ASSUME NEW r, EndSession(s, r)
        PROVE  ServedAreUp' /\ NeverUsed'
    BY <1>3, <2>1, <2>2
  <2>3. CASE ServeFailure(s) /\ ~EndSession(s, ready)
    <3>1. s \in Up
      BY <2>1 DEF ServedAreUp, Ids, ncxsock
    <3>2. Up' = Up /\ UNCHANGED <<next_sesid, at>>
      BY <2>3, <3>1, ServeFailureUp DEF ServeFailure
    <3>3. QED
      BY <1>1, <2>1, <3>2 DEF ServedAreUp
  <2>4. QED
    BY <1>8, <2>2, <2>3 DEF ServeClosing, ServeEnd, ServeBadFraming
<1>9. ASSUME NEW s \in Ids, ServeDeferred(s) \/ ServeInput(s)
      PROVE  ServedAreUp' /\ NeverUsed'
  BY <1>2, <1>9 DEF ServeDeferred, ServeInput, Served, AcceptBuffer
<1>10. CASE EndOfDrain
  <2>1. UNCHANGED <<state, next_sesid>> /\ at' \in {"drain", "select"}
    BY <1>10 DEF EndOfDrain
  <2>2. QED
    BY <2>1 DEF ServedAreUp, NeverUsed, Up
<1>11. ASSUME NEW s \in Ids, Dispatch(s)
       PROVE  ServedAreUp' /\ NeverUsed'
  BY <1>1, <1>11, DispatchUp DEF Dispatch, Dispatched, ServedAreUp
<1>12. ASSUME NEW s \in Ids, DispatchEnd(s)
       PROVE  ServedAreUp' /\ NeverUsed'
  BY <1>3, <1>12 DEF DispatchEnd, Dispatched
<1>13. ASSUME NEW s \in Ids, NEW t \in Ids, KillSession(s, t)
       PROVE  ServedAreUp' /\ NeverUsed'
  <2>1. at = "drain" /\ at' \in {at, "undefined"} /\ Free(t)
    BY <1>13 DEF KillSession, Dispatched
  <2>2. Up' = Up \ {t} /\ UNCHANGED next_sesid
    BY <2>1, FreeUp
  <2>3. QED
    BY <1>1, <2>1, <2>2 DEF ServedAreUp
<1>14. QED
  BY <1>4, <1>5, <1>6, <1>7, <1>8, <1>9, <1>10, <1>11, <1>12, <1>13 DEF Next, Loop
-----------------------------------------------------------------------------
(***************************************************************************)
(* The ready queue.  A session is served once between two calls of         *)
(* select(), and the queue is empty then.  So a session that ends has an   *)
(* entry only when it is killed by another one, or when it is closed       *)
(* behind a message that is complete; its end takes out the entry of       *)
(* another session and the queue is torn.  Nothing mends a torn queue, and *)
(* nothing else tears it.                                                  *)
(***************************************************************************)

\* No session has two entries.
Once(q) == \A i, j \in DOMAIN q : q[i] = q[j] /\ q[i] \in Ids => i = j

\* What holds of a torn queue as well.
Fits(r) == Once(r.queue) /\ ToSet(r.queue) \cap Ids \subseteq r.inq

\* A session that counts as queued has no entry.
Lost(r) == ~(r.inq \subseteq ToSet(r.queue))

Pending == {s \in Ids : Servable(s)}

Drained == at \in {"select", "poll"} => inq = {}

ServedOnce == at = "serve" => read_fds \cap inq = {}

EndedIsEmpty == \A s \in Ids : state[s] = "none" => msgQ[s] = <<>>

InStep == ToSet(inreadyQ) = inq /\ inq = Pending /\ Drained /\ ServedOnce

Queue ==
    /\ Table
    /\ Fits(ready)
    /\ Pending \subseteq inq
    /\ EndedIsEmpty
    /\ Torn \/ InStep

\* What every step does to the queue.
QueueStep ==
    /\ Fits(ready)'
    /\ (Pending \subseteq inq)'
    /\ EndedIsEmpty'
    /\ Torn' \/ InStep'
    /\ Torn' => Torn \/ \E s \in Up : state'[s] = "none"

LEMMA EntriesApart == \A s \in Ids : -s \notin Ids /\ s \in Nat
BY DEF Ids

\* Torn is told from the pair.
LEMMA TornIs ==
    /\ Torn <=> at = "undefined" \/ Lost(ready)
    /\ Torn' <=> at' = "undefined" \/ Lost(ready)'
BY DEF Torn, Lost, ready

LEMMA ReadyPrimed ==
    ASSUME NEW r, IsReady(r), Fits(r)
    PROVE  /\ Fits(ready)' /\ inq' = r.inq
           /\ Lost(ready)' <=> Lost(r)
           /\ ToSet(inreadyQ') = inq' <=> ToSet(r.queue) = r.inq
BY DEF IsReady, Fits, Lost, ready

\* A step that ends no session keeps a queue torn or in step.
LEMMA KeptStep ==
    ASSUME Fits(ready)', (Pending \subseteq inq)', EndedIsEmpty',
           Torn \/ InStep, Torn => Torn', InStep /\ ~Torn => InStep' /\ at' # "undefined"
    PROVE  QueueStep
<1>1. InStep' /\ at' # "undefined" => ~Torn'
  BY DEF InStep, Torn
<1>2. QED
  BY <1>1 DEF QueueStep

\* The operations on the queue: no session gets a second entry, the entry of a
\* session that counts as queued does not come back when it is lost, and a queue that
\* is in step stays so.
LEMMA MadeFits ==
    ASSUME NEW r \in Readies, NEW s \in Ids, Fits(r)
    PROVE  LET m == MadeInready(r, s) IN
           /\ Fits(m) /\ m.inq = r.inq \cup {s}
           /\ Lost(r) => Lost(m)
           /\ ToSet(r.queue) = r.inq => ToSet(m.queue) = m.inq
<1>1. CASE s \in r.inq
  BY <1>1 DEF MadeInready
<1>2. CASE s \notin r.inq
  <2> DEFINE q == r.queue
             p == Append(q, s)
  <2>1. q \in Seq(Entries) /\ Len(q) \in Nat /\ DOMAIN q = 1 .. Len(q) /\ s \in Entries
    BY LenProperties DEF Readies, Entries
  <2>2. /\ p \in Seq(Entries) /\ Len(p) = Len(q) + 1
        /\ \A i \in 1 .. Len(q) : p[i] = q[i]
        /\ p[Len(q) + 1] = s
    BY <2>1, AppendProperties
  <2>3. DOMAIN p = 1 .. Len(q) + 1
    BY <2>2, LenProperties
  <2>4. MadeInready(r, s) = [queue |-> p, inq |-> r.inq \cup {s}]
    BY <1>2 DEF MadeInready
  <2>5. s \notin ToSet(q) /\ Once(q) /\ ToSet(q) \cap Ids \subseteq r.inq
    BY <1>2 DEF Fits
  <2> HIDE DEF p, q
  <2>6. ToSet(p) = ToSet(q) \cup {s}
    BY <2>1, <2>2, <2>3 DEF ToSet
  <2>7. Once(p)
    BY <2>1, <2>2, <2>3, <2>5 DEF Once, ToSet
  <2>8. QED
    BY <1>2, <2>4, <2>5, <2>6, <2>7 DEF Fits, Lost, q
<1>3. QED
  BY <1>1, <1>2

LEMMA TakenFits ==
    ASSUME NEW r \in Readies, r.queue # <<>>, Fits(r)
    PROVE  LET t == FirstTaken(r) IN
           /\ Fits(t) /\ t.inq = r.inq \ {Head(r.queue)}
           /\ Head(r.queue) \in ToSet(r.queue)
           /\ Lost(r) => Lost(t)
           /\ ToSet(r.queue) = r.inq => ToSet(t.queue) = t.inq
<1> DEFINE q == r.queue
           p == Tail(q)
<1>1. q \in Seq(Entries) /\ Len(q) \in Nat \ {0} /\ DOMAIN q = 1 .. Len(q) /\ r.inq \subseteq Ids
  BY EmptySeq, LenProperties DEF Readies
<1>2. /\ p \in Seq(Entries) /\ Len(p) = Len(q) - 1
      /\ \A i \in 1 .. Len(p) : p[i] = q[i + 1]
  BY <1>1, HeadTailProperties
<1>3. DOMAIN p = 1 .. Len(q) - 1
  BY <1>2, LenProperties
<1>4. Head(q) = q[1] /\ Once(q) /\ ToSet(q) \cap Ids \subseteq r.inq
  BY <1>1 DEF Fits
<1>5. FirstTaken(r) = [queue |-> p, inq |-> r.inq \ {Head(q)}]
  BY DEF FirstTaken
<1> HIDE DEF p, q
<1>6. q[1] \in ToSet(q)
  BY <1>1 DEF ToSet
<1>7. \A i \in DOMAIN p : i \in Nat /\ i + 1 \in DOMAIN q /\ i + 1 # 1 /\ p[i] = q[i + 1]
  BY <1>1, <1>2, <1>3
<1>8. Once(p)
  <2>1. ASSUME NEW i \in DOMAIN p, NEW j \in DOMAIN p, p[i] = p[j], p[i] \in Ids
        PROVE  i = j
    <3>1. i + 1 = j + 1
      BY <1>4, <1>7, <2>1 DEF Once
    <3>2. QED
      BY <1>7, <3>1
  <2>2. QED
    BY <2>1 DEF Once
<1>9. ToSet(p) \subseteq ToSet(q)
  BY <1>7 DEF ToSet
<1>10. q[1] \in Ids => q[1] \notin ToSet(p)
  <2> SUFFICES ASSUME q[1] \in Ids, NEW i \in DOMAIN p, p[i] = q[1]
               PROVE  FALSE
    BY DEF ToSet
  <2>1. 1 \in DOMAIN q
    BY <1>1
  <2>2. i + 1 = 1
    BY <1>4, <1>7, <2>1 DEF Once
  <2>3. QED
    BY <1>7, <2>2
<1>11. ToSet(q) \subseteq ToSet(p) \cup {q[1]}
  <2>1. ASSUME NEW j \in 1 .. Len(q), j # 1
        PROVE  q[j] \in ToSet(p)
    <3>1. j - 1 \in 1 .. Len(q) - 1 /\ j = (j - 1) + 1
      BY <1>1, <2>1
    <3>2. p[j - 1] = q[j]
      BY <1>3, <1>7, <3>1
    <3>3. QED
      BY <1>3, <3>1, <3>2 DEF ToSet
  <2>2. QED
    BY <1>1, <2>1 DEF ToSet
<1>12. ToSet(q) = r.inq => ToSet(p) = r.inq \ {q[1]}
  BY <1>1, <1>6, <1>9, <1>10, <1>11
<1>13. Fits(FirstTaken(r))
  BY <1>4, <1>5, <1>8, <1>9, <1>10 DEF Fits
<1>14. ~(r.inq \subseteq ToSet(q)) => ~(r.inq \ {q[1]} \subseteq ToSet(p))
  BY <1>6, <1>9
<1>15. QED
  BY <1>4, <1>5, <1>6, <1>12, <1>13, <1>14 DEF Lost, q

LEMMA UnmadeFits ==
    ASSUME NEW r \in Readies, NEW s \in Ids, Fits(r)
    PROVE  LET u == UnmadeInready(r, s) IN
           /\ Fits(u) /\ u.inq = r.inq \ {s}
           /\ Lost(r) => Lost(u) \/ Unlinks(r, s)
           /\ ToSet(r.queue) = r.inq /\ s \in r.inq => Lost(u) \/ Unlinks(r, s)
<1>1. CASE s \notin r.inq
  BY <1>1 DEF UnmadeInready
<1>2. CASE s \in r.inq
  <2> DEFINE q == r.queue
             own == Own(q, s)
             p == UnmadeInready(r, s).queue
  <2>1. /\ q \in Seq(Entries) /\ Len(q) \in Nat /\ DOMAIN q = 1 .. Len(q)
        /\ r.inq \subseteq Ids /\ Once(q) /\ ToSet(q) \cap Ids \subseteq r.inq
    BY LenProperties DEF Readies, Fits
  <2>2. /\ own \in 0 .. Len(q)
        /\ s \in ToSet(q) => own # 0 /\ q[own] = s
        /\ s \notin ToSet(q) => own = 0
    BY <2>1, OwnPlace
  <2>3. /\ p \in Seq(Entries) /\ UnmadeInready(r, s).inq = r.inq \ {s}
        /\ Len(p) = IF own < Len(q) THEN Len(q) - 1 ELSE Len(q)
        /\ \A i \in 1 .. Len(p) :
              p[i] = IF i = own THEN -s ELSE IF i < own THEN q[i] ELSE q[i + 1]
    BY <1>2, UnmadeQueue, Zenon
  <2>4. DOMAIN p = 1 .. Len(p)
    BY <2>3, LenProperties
  <2>5. -s \notin Ids
    BY EntriesApart
  <2> HIDE DEF p, q, own
  \* Every entry that is left but the session's own was in the queue.
  <2>6. \A i \in DOMAIN p :
           \/ i = own /\ p[i] = -s
           \/ i \in 1 .. Len(q) /\ i < own /\ p[i] = q[i]
           \/ i + 1 \in 1 .. Len(q) /\ i > own /\ p[i] = q[i + 1]
    <3> SUFFICES ASSUME NEW i \in 1 .. Len(p)
                 PROVE  \/ i = own /\ p[i] = -s
                        \/ i \in 1 .. Len(q) /\ i < own /\ p[i] = q[i]
                        \/ i + 1 \in 1 .. Len(q) /\ i > own /\ p[i] = q[i + 1]
      BY <2>4
    <3>1. p[i] = IF i = own THEN -s ELSE IF i < own THEN q[i] ELSE q[i + 1]
      BY <2>3
    <3>2. PICK n \in Nat : n = Len(q)
      BY <2>1, Zenon
    <3>3. PICK o \in 0 .. n : o = own
      BY <2>2, <3>2, Zenon
    <3>4. i \in 1 .. IF o < n THEN n - 1 ELSE n
      BY <2>3, <3>2, <3>3
    <3>5. \/ i = o
          \/ i \in 1 .. n /\ i < o /\ i # o
          \/ i + 1 \in 1 .. n /\ i > o /\ ~(i < o) /\ i # o
      BY <3>4
    <3>6. QED
      BY <3>1, <3>2, <3>3, <3>5, Zenon
  <2>7. Once(p)
    <3>1. ASSUME NEW i \in DOMAIN p, NEW j \in DOMAIN p, p[i] = p[j], p[i] \in Ids
          PROVE  i = j
      <4>1. i # own /\ j # own /\ i \in Nat /\ j \in Nat /\ own \in Nat
        BY <2>2, <2>4, <2>5, <2>6, <3>1
      <4>2. \A k \in DOMAIN p : \A l \in DOMAIN p :
               k < own /\ l > own /\ k \in Nat /\ l \in Nat
               /\ p[k] = q[k] /\ p[l] = q[l + 1] /\ k \in DOMAIN q /\ l + 1 \in DOMAIN q
               /\ p[k] = p[l] /\ p[k] \in Ids => FALSE
        <5> SUFFICES ASSUME NEW k \in DOMAIN p, NEW l \in DOMAIN p,
                            k < own, l > own, k \in Nat, l \in Nat,
                            q[k] = q[l + 1], k \in DOMAIN q, l + 1 \in DOMAIN q, q[k] \in Ids
                     PROVE  FALSE
          OBVIOUS
        <5>1. k = l + 1
          BY <2>1 DEF Once
        <5>2. QED
          BY <4>1, <5>1
      <4>3. CASE i < own /\ j < own
        BY <2>1, <2>6, <3>1, <4>1, <4>3 DEF Once
      <4>4. CASE i > own /\ j > own
        <5>1. i + 1 = j + 1
          BY <2>1, <2>6, <3>1, <4>1, <4>4 DEF Once
        <5>2. QED
          BY <4>1, <5>1
      <4>5. CASE i < own /\ j > own
        BY <2>1, <2>6, <3>1, <4>1, <4>2, <4>5
      <4>6. CASE i > own /\ j < own
        BY <2>1, <2>6, <3>1, <4>1, <4>2, <4>6
      <4>7. QED
        BY <4>1, <4>3, <4>4, <4>5, <4>6
    <3>2. QED
      BY <3>1 DEF Once
  <2>8. ToSet(p) \subseteq ToSet(q) \cup {-s}
    BY <2>1, <2>6 DEF ToSet
  <2>9. s \notin ToSet(p)
    <3> SUFFICES ASSUME NEW i \in DOMAIN p, p[i] = s
                 PROVE  FALSE
      BY DEF ToSet
    <3>1. PICK j \in 1 .. Len(q) : q[j] = s /\ j # own
      BY <2>2, <2>4, <2>5, <2>6
    <3>2. s \in ToSet(q)
      BY <2>1, <3>1 DEF ToSet
    <3>3. own \in DOMAIN q /\ q[own] = s
      BY <2>1, <2>2, <3>2
    <3>4. QED
      BY <2>1, <3>1, <3>3 DEF Once
  <2>10. Fits(UnmadeInready(r, s))
    BY <2>1, <2>3, <2>5, <2>7, <2>8, <2>9 DEF Fits, p
  \* An entry that was lost stays so, and without one the end of the queue is damaged
  \* or the entry behind the session's own is lost.
  <2>11. ASSUME Lost(r), ~Unlinks(r, s)
         PROVE  Lost(UnmadeInready(r, s))
    <3>1. PICK t \in r.inq : t \notin ToSet(q)
      BY <2>11 DEF Lost, q
    <3>2. t # s /\ t \notin ToSet(p)
      <4>1. s \in ToSet(q)
        BY <1>2, <2>11 DEF Unlinks, q
      <4>2. t # -s
        BY <2>1, <2>5
      <4>3. QED
        BY <2>8, <3>1, <4>1, <4>2
    <3>3. QED
      BY <2>3, <3>1, <3>2 DEF Lost, p
  <2>12. ASSUME ToSet(q) = r.inq, ~Unlinks(r, s)
         PROVE  Lost(UnmadeInready(r, s))
    <3>1. s \in ToSet(q) /\ Last(q) # s
      BY <1>2, <2>12 DEF Unlinks, q
    <3>2. own \in 1 .. Len(q) /\ q[own] = s /\ own # Len(q)
      <4>1. own # 0 /\ q[own] = s /\ own \in 0 .. Len(q)
        BY <2>2, <3>1, Zenon
      <4>2. own # Len(q)
        BY <3>1, <4>1, Zenon DEF Last
      <4>3. own \in 1 .. Len(q)
        BY <4>1
      <4>4. QED
        BY <4>1, <4>2, <4>3
    <3>3. own + 1 \in 1 .. Len(q) /\ own # own + 1
      <4>1. ASSUME NEW n \in Nat, NEW o \in 1 .. n, o # n
            PROVE  o + 1 \in 1 .. n /\ o # o + 1
        BY <4>1
      <4>2. QED
        BY <2>1, <3>2, <4>1, Zenon
    <3>4. PICK t : t = q[own + 1]
      OBVIOUS
    <3>5. t \in ToSet(q) /\ t \in Ids
      BY <2>1, <2>12, <3>3, <3>4 DEF ToSet
    <3>6. t # s
      BY <2>1, <3>2, <3>3, <3>4, Zenon DEF Once
    <3>7. t \notin ToSet(p)
      <4> SUFFICES ASSUME NEW i \in DOMAIN p, p[i] = t
                   PROVE  FALSE
        BY DEF ToSet
      <4>1. PICK j \in 1 .. Len(q) : q[j] = t /\ j # own + 1
        BY <2>2, <2>4, <2>5, <2>6, <3>5
      <4>2. QED
        BY <2>1, <3>3, <3>4, <3>5, <4>1 DEF Once
    <3>8. QED
      BY <2>3, <2>12, <3>5, <3>6, <3>7 DEF Lost, p
  <2>13. QED
    BY <2>3, <2>10, <2>11, <2>12 DEF q
<1>3. QED
  BY <1>1, <1>2

\* The end of a session that was found in the queue or not: without an entry the queue
\* stays in step, and with one it is torn.
LEMMA EndStep ==
    ASSUME Queue, NEW s \in Up, NEW r \in Readies, EndSession(s, r),
           read_fds' \subseteq read_fds, at # "undefined",
           Fits(r), r.inq \subseteq inq \cup {s}, Pending \ {s} \subseteq r.inq,
           Lost(ready) => Lost(r),
           ~Torn => ToSet(r.queue) = r.inq
    PROVE  QueueStep
<1> DEFINE u == UnmadeInready(r, s)
<1>1. /\ s \in Ids
      /\ IsReady(u)
      /\ at' = IF Unlinks(r, s) THEN "undefined" ELSE at
  BY DEF EndSession, Up
<1>2. /\ Fits(u) /\ u.inq = r.inq \ {s}
      /\ Lost(r) => Lost(u) \/ Unlinks(r, s)
      /\ ToSet(r.queue) = r.inq /\ s \in r.inq => Lost(u) \/ Unlinks(r, s)
  BY <1>1, UnmadeFits
<1>3. s \notin r.inq => u = r /\ ~Unlinks(r, s)
  BY DEF UnmadeInready, Unlinks
<1> HIDE DEF u
<1>4. /\ Fits(ready)' /\ inq' = u.inq /\ (Lost(ready)' <=> Lost(u))
      /\ ToSet(inreadyQ') = inq' <=> ToSet(u.queue) = u.inq
  BY <1>1, <1>2, ReadyPrimed
<1>5. /\ \A t \in Ids : state'[t] = IF t = s THEN "none" ELSE state[t]
      /\ \A t \in Ids : msgQ'[t] = IF t = s THEN <<>> ELSE msgQ[t]
  BY <1>1 DEF EndSession, Free, Queue, Table, TypeOK
<1>6. Pending' = Pending \ {s}
  BY <1>5 DEF Servable, Pending
<1>7. (Pending \subseteq inq)' /\ EndedIsEmpty'
  BY <1>2, <1>4, <1>5, <1>6 DEF Queue, EndedIsEmpty
<1>8. CASE Torn \/ s \in r.inq
  <2>1. Lost(r) \/ (ToSet(r.queue) = r.inq /\ s \in r.inq)
    BY <1>8, TornIs
  <2>2. Torn'
    BY <1>1, <1>2, <1>4, <2>1, TornIs
  <2>3. state'[s] = "none"
    BY <1>1, <1>5
  <2>4. QED
    BY <1>4, <1>7, <2>2, <2>3 DEF QueueStep
<1>9. CASE ~Torn /\ s \notin r.inq
  <2>1. InStep
    BY <1>9 DEF Queue
  <2>2. ToSet(inreadyQ') = inq' /\ inq' = Pending' /\ inq' \subseteq inq
    BY <1>2, <1>3, <1>4, <1>6, <1>9, <2>1 DEF InStep
  <2>3. UNCHANGED at
    BY <1>1, <1>3, <1>9
  <2>4. Drained' /\ ServedOnce'
    BY <2>1, <2>2, <2>3 DEF InStep, Drained, ServedOnce
  <2>5. InStep' /\ ~Torn'
    BY <2>2, <2>3, <2>4 DEF InStep, Torn
  <2>6. QED
    BY <1>4, <1>7, <2>5 DEF QueueStep
<1>10. QED
  BY <1>8, <1>9

\* The pair that the loop starts from.
LEMMA ReadyFits ==
    ASSUME Queue
    PROVE  /\ ready \in Readies /\ Fits(ready)
           /\ ready.inq = inq /\ ready.queue = inreadyQ
           /\ ~Torn => InStep
           /\ InStep => ToSet(ready.queue) = ready.inq
BY ReadyType DEF Queue, Table, ready, InStep

\* The first entry, of the session that it names.
LEMMA HeadFits ==
    ASSUME Queue, NEW s \in Ids, Ready(s)
    PROVE  LET r == FirstTaken(ready) IN
           /\ r \in Readies /\ Fits(r)
           /\ r.inq \subseteq inq /\ inq \ {s} \subseteq r.inq
           /\ Lost(ready) => Lost(r)
           /\ ~Torn => Head(inreadyQ) = s /\ ToSet(r.queue) = r.inq /\ r.inq = inq \ {s}
<1>1. inreadyQ # <<>> /\ Head(inreadyQ) \in {s, -s}
  BY DEF Ready
<1>2. /\ FirstTaken(ready) \in Readies
      /\ Fits(FirstTaken(ready)) /\ FirstTaken(ready).inq = inq \ {Head(inreadyQ)}
      /\ Head(inreadyQ) \in ToSet(inreadyQ)
      /\ Lost(ready) => Lost(FirstTaken(ready))
      /\ InStep => ToSet(FirstTaken(ready).queue) = FirstTaken(ready).inq
  BY <1>1, ReadyFits, TakenFits, TakenType
<1>3. -s \notin Ids /\ inq \subseteq Ids
  BY EntriesApart DEF Queue, Table, TypeOK
<1>4. ~Torn => InStep /\ Head(inreadyQ) = s
  BY <1>1, <1>2, <1>3, ReadyFits DEF InStep
<1>5. QED
  BY <1>1, <1>2, <1>3, <1>4

\* A session that is served has a message to carry out afterwards.
LEMMA AcceptQueue ==
    ASSUME Queue, NEW s \in Up, NEW input \in Seq(Numbers), input # <<>>,
           AcceptBuffer(s, input), Served(s), state[s] # "shutdown_req"
    PROVE  QueueStep
<1> DEFINE taken == IF Base11 /\ state[s] \in {"init", "hello_wait"}
                    THEN <<Head(input)>> ELSE input
           m == MadeInready(ready, s)
<1>1. s \in Ids /\ state[s] \in {"init", "hello_wait", "idle"}
  BY DEF Up, Queue, Table, TypeOK
<1>2. taken \in Seq(Numbers) /\ taken # <<>>
  <2>1. Head(input) \in Numbers
    BY HeadTailProperties
  <2>2. <<Head(input)>> \in Seq(Numbers) /\ <<Head(input)>> # <<>>
    BY <2>1
  <2>3. QED
    BY <2>2
<1>3. msgQ' = [msgQ EXCEPT ![s] = msgQ[s] \o taken] /\ UNCHANGED <<state, at>> /\ IsReady(m)
  BY <1>1 DEF AcceptBuffer, Queue, Table, TypeOK
<1>4. /\ Fits(m) /\ m.inq = inq \cup {s}
      /\ Lost(ready) => Lost(m)
      /\ InStep => ToSet(m.queue) = m.inq
  BY <1>1, ReadyFits, MadeFits
<1> HIDE DEF taken, m
<1>5. msgQ[s] \o taken # <<>>
  BY <1>1, <1>2, ConcatEqualIffEmpty DEF Queue, Table, TypeOK, Numbers
<1>6. \A t \in Ids : msgQ'[t] = IF t = s THEN msgQ[s] \o taken ELSE msgQ[t]
  BY <1>1, <1>3 DEF Queue, Table, TypeOK
<1>7. Pending' = Pending \cup {s}
  BY <1>1, <1>3, <1>5, <1>6 DEF Servable, Pending
<1>8. /\ Fits(ready)' /\ inq' = inq \cup {s} /\ (Lost(ready)' <=> Lost(m))
      /\ ToSet(inreadyQ') = inq' <=> ToSet(m.queue) = m.inq
  BY <1>3, <1>4, ReadyPrimed
<1>9. (Pending \subseteq inq)' /\ EndedIsEmpty'
  BY <1>1, <1>3, <1>6, <1>7, <1>8 DEF Queue, EndedIsEmpty
<1>10. at = "serve" /\ at' = "serve" /\ read_fds' = read_fds \ {s}
  BY <1>3 DEF Served
<1>11. Torn => Torn'
  BY <1>4, <1>8, <1>10, TornIs
<1>12. InStep => InStep'
  <2> SUFFICES ASSUME InStep PROVE InStep'
    OBVIOUS
  <2>1. ToSet(inreadyQ') = inq' /\ inq' = Pending'
    BY <1>4, <1>7, <1>8 DEF InStep
  <2>2. ServedOnce'
    BY <1>8, <1>10 DEF InStep, ServedOnce
  <2>3. Drained'
    BY <1>10 DEF Drained
  <2>4. QED
    BY <2>1, <2>2, <2>3 DEF InStep
<1>13. QED
  BY <1>8, <1>9, <1>10, <1>11, <1>12, KeptStep DEF Queue

\* A session whose message was carried out is put back when it has more.
LEMMA PutBackQueue ==
    ASSUME Queue, NEW s \in Ids, msgQ[s] # <<>>,
           NEW r \in Readies, Fits(r), PutBack(s, r)
    PROVE  /\ Fits(ready)'
           /\ inq' = IF Tail(msgQ[s]) # <<>> THEN r.inq \cup {s} ELSE r.inq
           /\ Lost(r) => Lost(ready)'
           /\ ToSet(r.queue) = r.inq => ToSet(inreadyQ') = inq'
<1>1. Tail(msgQ[s]) # <<>> <=> Len(msgQ[s]) > 1
  <2>1. ASSUME NEW w \in Seq(Numbers)
        PROVE  (w = <<>> <=> Len(w) = 0) /\ Len(w) \in Nat
    BY EmptySeq, LenProperties
  <2>2. /\ msgQ[s] \in Seq(Numbers) /\ Len(msgQ[s]) \in Nat \ {0}
        /\ Tail(msgQ[s]) \in Seq(Numbers)
        /\ Len(Tail(msgQ[s])) = Len(msgQ[s]) - 1
    BY <2>1, HeadTailProperties DEF Queue, Table, TypeOK, Numbers
  <2>3. Tail(msgQ[s]) = <<>> <=> Len(Tail(msgQ[s])) = 0
    BY <2>1, <2>2, Zenon
  <2>4. Len(Tail(msgQ[s])) = 0 <=> ~(Len(msgQ[s]) > 1)
    <3>1. ASSUME NEW a \in Nat \ {0}, NEW b, b = a - 1
          PROVE  b = 0 <=> ~(a > 1)
      BY <3>1
    <3>2. QED
      BY <2>2, <3>1, Zenon
  <2>5. QED
    BY <2>3, <2>4, Zenon
<1>2. PICK p : p = IF Tail(msgQ[s]) # <<>> THEN MadeInready(r, s) ELSE r
  OBVIOUS
<1>3. IsReady(p)
  BY <1>1, <1>2 DEF PutBack
<1>4. /\ Fits(p)
      /\ p.inq = IF Tail(msgQ[s]) # <<>> THEN r.inq \cup {s} ELSE r.inq
      /\ Lost(r) => Lost(p)
      /\ ToSet(r.queue) = r.inq => ToSet(p.queue) = p.inq
  BY <1>2, MadeFits
<1>5. QED
  BY <1>3, <1>4, ReadyPrimed

LEMMA QueueInit == Init => Queue
<1> SUFFICES ASSUME Init PROVE Queue
  OBVIOUS
<1>1. inreadyQ = <<>> /\ inq = {} /\ at = "select"
  BY DEF Init
<1>2. Once(inreadyQ) /\ ToSet(inreadyQ) = {}
  BY <1>1 DEF Once, ToSet
<1>3. Pending = {} /\ EndedIsEmpty
  BY DEF Init, Pending, Servable, EndedIsEmpty
<1>4. Fits(ready)
  BY <1>2 DEF Fits, ready
<1>5. InStep
  BY <1>1, <1>2, <1>3 DEF InStep, Drained, ServedOnce
<1>6. QED
  BY <1>1, <1>3, <1>4, <1>5, TableInit DEF Queue

\* Steps that leave the sessions and the queue alone.
LEMMA IdleQueue ==
    ASSUME Queue,
           \/ Clients \/ Tick \/ EntryOverwritten \/ Undefined \/ UNCHANGED vars
           \/ SelectReturns \/ SelectTimesOut \/ Polled \/ AllServed
    PROVE  QueueStep
<1>1. UNCHANGED <<state, msgQ, inq, inreadyQ>>
  BY DEF Clients, Connect, Send, HangUp, Reset, Tick, EntryOverwritten, Undefined,
         SelectReturns, SelectTimesOut, Polled, AllServed, vars, sessions
<1>2. /\ Fits(ready)' /\ (Pending \subseteq inq)' /\ EndedIsEmpty'
      /\ Lost(ready)' <=> Lost(ready)
      /\ inq' = inq /\ Pending' = Pending /\ ToSet(inreadyQ') = ToSet(inreadyQ)
  BY <1>1 DEF Queue, Fits, Lost, ready, Pending, Servable, EndedIsEmpty
<1>3. CASE EntryOverwritten
  <2>1. at' = "undefined" /\ \E s \in Ids : -s \in ToSet(inreadyQ)
    BY <1>3 DEF EntryOverwritten
  <2>2. ~InStep
    BY <2>1, EntriesApart DEF InStep, Queue, Table, TypeOK
  <2>3. Torn /\ Torn'
    BY <2>1, <2>2 DEF Queue, Torn
  <2>4. QED
    BY <1>2, <2>3 DEF QueueStep
<1>4. CASE Clients \/ Tick \/ Undefined \/ UNCHANGED vars
  <2>1. UNCHANGED <<at, read_fds>>
    BY <1>4 DEF Clients, Connect, Send, HangUp, Reset, Tick, Undefined, vars, sessions
  <2>2. InStep => InStep'
    BY <1>2, <2>1 DEF InStep, Drained, ServedOnce
  <2>3. (Torn => Torn') /\ (~Torn => at' # "undefined")
    BY <1>2, <2>1, TornIs
  <2>4. QED
    BY <1>2, <2>2, <2>3, KeptStep DEF Queue
<1>5. CASE SelectReturns \/ SelectTimesOut \/ Polled \/ AllServed
  <2>1. at # "undefined" /\ at' # "undefined"
    BY <1>5 DEF SelectReturns, SelectTimesOut, Polled, AllServed
  <2>2. InStep => InStep'
    BY <1>2, <1>5 DEF SelectReturns, SelectTimesOut, Polled, AllServed, InStep, Drained,
                      ServedOnce
  <2>3. Torn => Torn'
    BY <1>2, <2>1, TornIs
  <2>4. QED
    BY <1>2, <2>1, <2>2, <2>3, KeptStep DEF Queue
<1>6. QED
  BY <1>3, <1>4, <1>5

\* The loop polls the timers or serves sockets.
LEMMA ServeQueue ==
    ASSUME Queue,
           \/ \E s \in Ids : KillExpired(s)
           \/ AcceptConnection
           \/ \E s \in Ids : ServeClosing(s) \/ ServeDeferred(s) \/ ServeInput(s)
                                \/ ServeEnd(s) \/ ServeBadFraming(s) \/ ServeFailure(s)
    PROVE  QueueStep
<1> USE DEF Queue
<1>1. ASSUME NEW s \in Ids, KillExpired(s)
      PROVE  QueueStep
  <2>1. /\ s \in Up /\ at # "undefined"
        /\ EndSession(s, ready) /\ read_fds' \subseteq read_fds
    BY <1>1 DEF KillExpired, Table, ServedAreUp, Ids, ncxsock
  <2>2. QED
    BY <2>1, ReadyFits, EndStep
<1>2. CASE AcceptConnection
  <2>1. /\ at = "serve"
        /\ read_fds' \subseteq read_fds
        /\ UNCHANGED <<msgQ, inq, inreadyQ, at>>
    BY <1>2 DEF AcceptConnection, Served
  <2>2. ASSUME Pending' = Pending, EndedIsEmpty'
        PROVE  QueueStep
    <3>1. Fits(ready)' /\ (Lost(ready)' <=> Lost(ready)) /\ (Pending \subseteq inq)'
      BY <2>1, <2>2 DEF Fits, Lost, ready
    <3>2. (Torn => Torn') /\ at' # "undefined"
      BY <2>1, <3>1, TornIs
    <3>3. InStep => InStep'
      BY <2>1, <2>2 DEF InStep, Drained, ServedOnce
    <3>4. QED
      BY <2>2, <3>1, <3>2, <3>3, KeptStep
  <2>3. CASE UNCHANGED state
    BY <2>1, <2>2, <2>3 DEF EndedIsEmpty, Pending, Servable
  <2>4. ASSUME NEW slot \in FreeSlots, state' = [state EXCEPT ![slot] = "init"]
        PROVE  QueueStep
    <3>1. slot \in Ids /\ state[slot] = "none" /\ msgQ[slot] = <<>>
      BY SlotIsFree DEF Up, EndedIsEmpty
    <3>2. \A t \in Ids : state'[t] = IF t = slot THEN "init" ELSE state[t]
      BY <2>4, <3>1 DEF Table, TypeOK
    <3>3. \A t \in Ids : Servable(t)' <=> Servable(t)
      BY <2>1, <3>1, <3>2 DEF Servable
    <3>4. Pending' = Pending
      BY <3>3 DEF Pending
    <3>5. EndedIsEmpty'
      BY <2>1, <3>1, <3>2 DEF EndedIsEmpty
    <3>6. QED
      BY <2>2, <3>4, <3>5
  <2>5. QED
    BY <1>2, <2>3, <2>4, AcceptUp DEF Table
<1>3. ASSUME NEW s \in Ids, Served(s)
      PROVE  at = "serve" /\ s \in Up /\ read_fds' = read_fds \ {s} /\ (InStep => s \notin inq)
  BY <1>3 DEF Served, InStep, ServedOnce, Table, ServedAreUp, Ids, ncxsock
<1>4. ASSUME NEW s \in Ids, Served(s), EndSession(s, ready)
      PROVE  QueueStep
  BY <1>3, <1>4, ReadyFits, EndStep
<1>5. ASSUME NEW s \in Ids, ServeBadFraming(s)
      PROVE  QueueStep
  <2>1. Served(s) /\ (EndSession(s, ready) \/ EndSession(s, MadeInready(ready, s)))
    BY <1>5 DEF ServeBadFraming
  <2>2. CASE EndSession(s, MadeInready(ready, s))
    <3> DEFINE r == MadeInready(ready, s)
    <3>1. /\ r \in Readies /\ Fits(r) /\ r.inq = inq \cup {s}
          /\ Lost(ready) => Lost(r)
          /\ InStep => ToSet(r.queue) = r.inq
      BY ReadyFits, MadeFits, MadeType
    <3> HIDE DEF r
    <3>2. EndSession(s, r)
      BY <2>2 DEF r
    <3>3. at # "undefined" /\ s \in Up /\ read_fds' \subseteq read_fds
      BY <1>3, <2>1
    <3>4. QED
      BY <3>1, <3>2, <3>3, ReadyFits, EndStep
  <2>3. QED
    BY <1>4, <2>1, <2>2
<1>6. ASSUME NEW s \in Ids, ServeFailure(s), ~EndSession(s, ready)
      PROVE  QueueStep
  <2>1. /\ Served(s)
        /\ state' = [state EXCEPT ![s] = "shutdown_req"]
        /\ UNCHANGED <<msgQ, inq, inreadyQ, at>>
    BY <1>6 DEF ServeFailure
  <2>2. \A t \in Ids : state'[t] = IF t = s THEN "shutdown_req" ELSE state[t]
    BY <2>1 DEF Table, TypeOK
  <2>3. Pending' = Pending \ {s}
    BY <2>1, <2>2 DEF Pending, Servable
  <2>4. Fits(ready)' /\ (Lost(ready)' <=> Lost(ready)) /\ (Pending \subseteq inq)'
    BY <2>1, <2>3 DEF Fits, Lost, ready
  <2>5. EndedIsEmpty'
    BY <2>1, <2>2 DEF EndedIsEmpty
  <2>6. at = "serve" /\ at' = "serve" /\ (Torn => Torn')
    BY <1>3, <2>1, <2>4, TornIs
  <2>7. InStep => InStep'
    <3> SUFFICES ASSUME InStep PROVE InStep'
      OBVIOUS
    <3>1. s \notin Pending /\ read_fds' \subseteq read_fds
      BY <1>3, <2>1 DEF InStep
    <3>2. QED
      BY <2>1, <2>3, <3>1 DEF InStep, Drained, ServedOnce
  <2>8. QED
    BY <2>4, <2>5, <2>6, <2>7, KeptStep
<1>7. ASSUME NEW s \in Ids, ServeDeferred(s)
      PROVE  QueueStep
  <2>1. indefer[s] \in Seq(Numbers)
    BY DEF Table, TypeOK, Numbers
  <2>2. QED
    BY <1>3, <1>7, <2>1, AcceptQueue DEF ServeDeferred
<1>8. ASSUME NEW s \in Ids, ServeInput(s)
      PROVE  QueueStep
  <2>1. PICK n \in 1 .. Len(socket[s]) : AcceptBuffer(s, SubSeq(socket[s], 1, n))
    BY <1>8 DEF ServeInput
  <2>2. socket[s] \in Seq(Numbers) /\ Len(socket[s]) \in Nat
    BY LenProperties DEF Table, TypeOK, Numbers
  <2>3. \A i \in 1 .. Len(socket[s]) : socket[s][i] \in Numbers
    BY <2>2, ElementOfSeq
  <2>4. /\ SubSeq(socket[s], 1, n) \in Seq(Numbers)
        /\ Len(SubSeq(socket[s], 1, n)) = n
    BY <2>2, <2>3, SubSeqProperties
  <2>5. SubSeq(socket[s], 1, n) # <<>>
    BY <2>4
  <2>6. QED
    BY <1>3, <1>8, <2>1, <2>4, <2>5, AcceptQueue DEF ServeInput
<1>9. QED
  BY <1>1, <1>2, <1>4, <1>5, <1>6, <1>7, <1>8 DEF ServeClosing, ServeEnd, ServeFailure

\* The loop drains the queue.
LEMMA DrainQueue ==
    ASSUME Queue,
           \/ EndOfDrain
           \/ \E s \in Ids : Dispatch(s) \/ DispatchEnd(s)
           \/ \E s, t \in Ids : KillSession(s, t)
    PROVE  QueueStep
<1> USE DEF Queue
<1>1. CASE EndOfDrain
  <2>1. /\ at = "drain" /\ at' \in {"drain", "select"}
        /\ \A s \in Ids : Ready(s) => ~Servable(s)
        /\ UNCHANGED <<state, msgQ, read_fds>>
    BY <1>1 DEF EndOfDrain
  <2>2. Pending' = Pending /\ EndedIsEmpty'
    BY <2>1 DEF Pending, Servable, EndedIsEmpty
  <2>3. CASE inreadyQ = <<>>
    <3>1. UNCHANGED <<inq, inreadyQ>>
      BY <1>1, <2>3 DEF EndOfDrain, IsReady, ready
    <3>2. Fits(ready)' /\ (Lost(ready)' <=> Lost(ready)) /\ (Pending \subseteq inq)'
      BY <2>2, <3>1 DEF Fits, Lost, ready
    <3>3. ToSet(inreadyQ) = {}
      BY <2>3 DEF ToSet
    <3>4. InStep => InStep'
      BY <2>1, <2>2, <3>1, <3>3 DEF InStep, Drained, ServedOnce
    <3>5. Torn => Torn'
      BY <2>1, <3>2, TornIs
    <3>6. QED
      BY <2>1, <2>2, <3>2, <3>4, <3>5, KeptStep
  <2>4. CASE inreadyQ # <<>>
    <3> DEFINE r == FirstTaken(ready)
    <3>1. /\ Fits(r) /\ r.inq = inq \ {Head(inreadyQ)}
          /\ Head(inreadyQ) \in ToSet(inreadyQ)
          /\ Lost(ready) => Lost(r)
      BY <2>4, ReadyFits, TakenFits
    <3>2. IsReady(r)
      BY <1>1, <2>4 DEF EndOfDrain
    <3> HIDE DEF r
    <3>3. Fits(ready)' /\ inq' = r.inq /\ (Lost(ready)' <=> Lost(r))
      BY <3>1, <3>2, ReadyPrimed
    <3>4. Head(inreadyQ) \notin Pending
      BY <2>1, <2>4 DEF Pending, Ready
    <3>5. (Pending \subseteq inq)'
      BY <2>2, <3>1, <3>3, <3>4
    <3>6. ~InStep
      BY <3>1, <3>4 DEF InStep
    <3>7. Torn'
      BY <2>1, <3>1, <3>3, <3>6, TornIs
    <3>8. QED
      BY <2>2, <3>3, <3>5, <3>6, <3>7, KeptStep
  <2>5. QED
    BY <2>3, <2>4
<1>2. ASSUME NEW s \in Ids, Dispatched(s)
      PROVE  /\ at = "drain" /\ Ready(s) /\ s \in Pending /\ s \in Up
             /\ msgQ[s] # <<>> /\ state[s] \in {"init", "hello_wait", "idle"}
  BY <1>2 DEF Dispatched, Servable, Pending, Up
\* The session goes on, and so does every other one that had a message.
<1>3. ASSUME NEW s \in Ids, Dispatched(s), PutBack(s, FirstTaken(ready)), UNCHANGED at,
             Pending' = (Pending \ {s}) \cup {t \in {s} : Tail(msgQ[s]) # <<>>},
             EndedIsEmpty'
      PROVE  QueueStep
  <2> DEFINE r == FirstTaken(ready)
  <2>1. /\ r \in Readies /\ Fits(r) /\ inq \ {s} \subseteq r.inq
        /\ Lost(ready) => Lost(r)
        /\ ~Torn => ToSet(r.queue) = r.inq /\ r.inq = inq \ {s}
    BY <1>2, <1>3, HeadFits
  <2>2. PutBack(s, r)
    BY <1>3
  <2> HIDE DEF r
  <2>3. /\ Fits(ready)'
        /\ inq' = IF Tail(msgQ[s]) # <<>> THEN r.inq \cup {s} ELSE r.inq
        /\ Lost(r) => Lost(ready)'
        /\ ToSet(r.queue) = r.inq => ToSet(inreadyQ') = inq'
    BY <1>2, <1>3, <2>1, <2>2, PutBackQueue
  <2>4. (Pending \subseteq inq)'
    BY <1>3, <2>1, <2>3
  <2>5. at = "drain" /\ at' = "drain"
    BY <1>2, <1>3
  <2>6. Torn => Torn'
    BY <2>1, <2>3, <2>5, TornIs
  <2>7. InStep /\ ~Torn => InStep'
    BY <1>3, <2>1, <2>3, <2>5 DEF InStep, Drained, ServedOnce
  <2>8. QED
    BY <1>3, <2>3, <2>4, <2>5, <2>6, <2>7, KeptStep
<1>4. ASSUME NEW s \in Ids, Dispatch(s)
      PROVE  QueueStep
  <2>1. /\ Dispatched(s) /\ PutBack(s, FirstTaken(ready)) /\ UNCHANGED at
        /\ state' = [state EXCEPT ![s] = IF state[s] = "init" THEN "hello_wait" ELSE "idle"]
        /\ msgQ' = [msgQ EXCEPT ![s] = Tail(msgQ[s])]
    BY <1>4 DEF Dispatch, Table, TypeOK
  <2>2. \A t \in Ids : /\ msgQ'[t] = IF t = s THEN Tail(msgQ[s]) ELSE msgQ[t]
                       /\ t # s => state'[t] = state[t]
                       /\ t = s => state'[t] \in {"hello_wait", "idle"}
    BY <2>1 DEF Table, TypeOK
  <2>3. Pending' = (Pending \ {s}) \cup {t \in {s} : Tail(msgQ[s]) # <<>>}
    BY <2>2 DEF Pending, Servable
  <2>4. EndedIsEmpty'
    BY <2>2 DEF EndedIsEmpty
  <2>5. QED
    BY <1>3, <2>1, <2>3, <2>4
<1>5. ASSUME NEW s \in Ids, DispatchEnd(s)
      PROVE  QueueStep
  <2> DEFINE r == FirstTaken(ready)
  <2>1. Dispatched(s) /\ EndSession(s, r) /\ UNCHANGED read_fds
    BY <1>5 DEF DispatchEnd
  <2>2. /\ r \in Readies /\ Fits(r) /\ r.inq \subseteq inq /\ inq \ {s} \subseteq r.inq
        /\ Lost(ready) => Lost(r)
        /\ ~Torn => ToSet(r.queue) = r.inq
    BY <1>2, <2>1, HeadFits
  <2>3. at # "undefined" /\ s \in Up
    BY <1>2, <2>1
  <2> HIDE DEF r
  <2>4. QED
    BY <2>1, <2>2, <2>3, EndStep
<1>6. ASSUME NEW s \in Ids, NEW t \in Ids, KillSession(s, t)
      PROVE  QueueStep
  <2> DEFINE f == FirstTaken(ready)
             r == UnmadeInready(f, t)
  <2>1. /\ Dispatched(s) /\ t \in Up /\ t # s
        /\ Free(t)
        /\ msgQ' = [msgQ EXCEPT ![s] = Tail(msgQ[s]), ![t] = <<>>]
        /\ PutBack(s, r)
        /\ at' = IF Unlinks(f, t) THEN "undefined" ELSE at
    BY <1>6 DEF KillSession, Table, TypeOK
  <2>2. \A u \in Ids : /\ state'[u] = IF u = t THEN "none" ELSE state[u]
                       /\ msgQ'[u] = IF u = t THEN <<>>
                                     ELSE IF u = s THEN Tail(msgQ[s]) ELSE msgQ[u]
    BY <2>1 DEF Free, Table, TypeOK
  <2>3. Pending' = ((Pending \ {s}) \cup {u \in {s} : Tail(msgQ[s]) # <<>>}) \ {t}
    BY <1>2, <2>1, <2>2 DEF Pending, Servable
  <2>4. EndedIsEmpty'
    BY <1>2, <2>1, <2>2 DEF EndedIsEmpty
  <2>5. /\ f \in Readies /\ Fits(f) /\ inq \ {s} \subseteq f.inq
        /\ Lost(ready) => Lost(f)
        /\ ~Torn => ToSet(f.queue) = f.inq /\ f.inq = inq \ {s}
    BY <1>2, <2>1, HeadFits
  <2> HIDE DEF f
  <2>6. /\ r \in Readies /\ Fits(r) /\ r.inq = f.inq \ {t}
        /\ Lost(f) => Lost(r) \/ Unlinks(f, t)
        /\ ToSet(f.queue) = f.inq /\ t \in f.inq => Lost(r) \/ Unlinks(f, t)
    BY <2>5, UnmadeType, UnmadeFits
  <2>7. t \notin f.inq => r = f /\ ~Unlinks(f, t)
    BY DEF UnmadeInready, Unlinks
  <2> HIDE DEF r
  <2>8. /\ Fits(ready)'
        /\ inq' = IF Tail(msgQ[s]) # <<>> THEN r.inq \cup {s} ELSE r.inq
        /\ Lost(r) => Lost(ready)'
        /\ ToSet(r.queue) = r.inq => ToSet(inreadyQ') = inq'
    BY <1>2, <2>1, <2>6, PutBackQueue
  <2>9. (Pending \subseteq inq)'
    BY <2>3, <2>5, <2>6, <2>8
  <2>10. at = "drain"
    BY <1>2, <2>1
  <2>11. CASE Torn \/ t \in f.inq
    <3>1. Lost(f) \/ (ToSet(f.queue) = f.inq /\ t \in f.inq)
      BY <2>5, <2>10, <2>11, TornIs
    <3>2. Torn'
      BY <2>1, <2>6, <2>8, <3>1, TornIs
    <3>3. state'[t] = "none"
      BY <2>2
    <3>4. QED
      BY <2>1, <2>4, <2>8, <2>9, <3>2, <3>3 DEF QueueStep
  <2>12. CASE ~Torn /\ t \notin f.inq
    <3>1. InStep /\ at' = "drain" /\ t \notin Pending
      BY <2>1, <2>5, <2>7, <2>10, <2>12 DEF InStep
    <3>2. ToSet(inreadyQ') = inq'
      BY <2>5, <2>7, <2>8, <2>12
    <3>3. inq' = Pending'
      BY <2>1, <2>3, <2>5, <2>7, <2>8, <2>12, <3>1 DEF InStep
    <3>4. InStep' /\ at' # "undefined"
      BY <3>1, <3>2, <3>3 DEF InStep, Drained, ServedOnce
    <3>5. QED
      BY <2>4, <2>8, <2>9, <2>12, <3>1, <3>4, KeptStep
  <2>13. QED
    BY <2>11, <2>12
<1>7. QED
  BY <1>1, <1>4, <1>5, <1>6

LEMMA QueueNext == Queue /\ [Next]_vars => Queue' /\ QueueStep
<1> SUFFICES ASSUME Queue, [Next]_vars
             PROVE  QueueStep
  BY TableNext DEF Queue, QueueStep
<1>1. QED
  BY IdleQueue, ServeQueue, DrainQueue DEF Next, Loop

LEMMA QueueIsInStep == Queue => QueueInStep /\ DrainedBeforeInput
<1> SUFFICES ASSUME Queue PROVE QueueInStep /\ DrainedBeforeInput
  OBVIOUS
<1>1. /\ Once(inreadyQ)
      /\ Pending \cup (ToSet(inreadyQ) \cap Ids) \subseteq inq
      /\ ~Torn => InStep
  BY DEF Queue, Fits, ready
<1>2. QED
  BY <1>1 DEF QueueInStep, DrainedBeforeInput, Once, InStep, Pending, Drained

\* No session has two entries and every session with a message to carry out counts as
\* queued, whatever is killed and wherever the input breaks the framing; exactly those
\* sessions are queued until the end of a session tears the queue.
THEOREM QueuedOnce == Spec => ReadyOnce
<1>1. Queue /\ [Next]_vars => Queue'
  BY QueueNext
<1>2. Queue => QueueInStep
  BY QueueIsInStep
<1>3. Queue /\ [Next]_vars => [Torn' => Torn \/ \E s \in Up : state'[s] = "none"]_vars
  BY QueueNext DEF QueueStep
<1>4. QED
  BY <1>1, <1>2, <1>3, QueueInit, PTL DEF Spec, ReadyOnce

\* No message is left when the loop waits for input, until the queue is torn.
THEOREM DrainedFirst == Spec => []DrainedBeforeInput
<1>1. Queue => DrainedBeforeInput
  BY QueueIsInStep
<1>2. Queue /\ [Next]_vars => Queue'
  BY QueueNext
<1>3. QED
  BY <1>1, <1>2, QueueInit, PTL DEF Spec
-----------------------------------------------------------------------------
(***************************************************************************)
(* The order of the messages.  What a session sent and was not carried out *)
(* is a queue in three pieces: the complete messages, the input that was   *)
(* deferred and what is still in the socket.  Accepting input moves        *)
(* messages from piece to piece and leaves the queue as it is.             *)
(***************************************************************************)

Waiting(s) == msgQ[s] \o indefer[s] \o socket[s]

ChannelStep == Channels!Next \/ UNCHANGED Channels!vars

LEMMA PiecesType ==
    ASSUME TypeOK, NEW s \in Ids
    PROVE  /\ msgQ[s] \in Seq(Numbers)
           /\ indefer[s] \in Seq(Numbers)
           /\ socket[s] \in Seq(Numbers)
           /\ msgQ[s] \o indefer[s] \in Seq(Numbers)
           /\ Waiting(s) \in Seq(Numbers)
BY ConcatProperties DEF TypeOK, Numbers, Waiting

LEMMA PiecesRegroup ==
    ASSUME NEW a \in Seq(Numbers), NEW b \in Seq(Numbers), NEW c \in Seq(Numbers)
    PROVE  (a \o b) \o c = a \o (b \o c)
BY ConcatAssociative, SMTT(30)

\* A queue in three pieces grows at its end, is broken off at the last piece and is
\* served at its head.
LEMMA PiecesAppend ==
    ASSUME NEW S, NEW a \in Seq(S), NEW c \in Seq(S), NEW m \in S
    PROVE  a \o Append(c, m) = Append(a \o c, m)
<1>1. <<m>> \in Seq(S) /\ a \o c \in Seq(S)
  BY ConcatProperties
<1>2. a \o (c \o <<m>>) = (a \o c) \o <<m>>
  BY <1>1, ConcatAssociative
<1>3. QED
  BY <1>1, <1>2, AppendIsConcat

LEMMA PiecesBreak ==
    ASSUME NEW S, NEW a \in Seq(S), NEW c \in Seq(S)
    PROVE  /\ SubSeq(a \o c, 1, Len(a)) = a \o <<>>
           /\ Len(a) \in 0 .. Len(a \o c)
<1>1. Len(a) \in Nat /\ Len(c) \in Nat /\ a \o c \in Seq(S) /\ Len(a \o c) = Len(a) + Len(c)
  BY LenProperties, ConcatProperties
<1>2. \A i \in 1 .. Len(a) + Len(c) : (a \o c)[i] = IF i =< Len(a) THEN a[i] ELSE c[i - Len(a)]
  BY ConcatProperties
<1>3. \A i \in 1 .. Len(a) : (a \o c)[i] = a[i] /\ a[i] \in S
  BY <1>1, <1>2, ElementOfSeq
<1> DEFINE b == SubSeq(a \o c, 1, Len(a))
<1>4. /\ b \in Seq(S)
      /\ Len(b) = Len(a)
      /\ \A i \in 1 .. Len(a) : b[i] = (a \o c)[i]
  <2>1. /\ SubSeq(a \o c, 1, Len(a)) \in Seq(S)
        /\ Len(SubSeq(a \o c, 1, Len(a))) = IF 1 =< Len(a) THEN Len(a) - 1 + 1 ELSE 0
        /\ \A i \in 1 .. Len(a) - 1 + 1 : SubSeq(a \o c, 1, Len(a))[i] = (a \o c)[1 + i - 1]
    BY <1>1, <1>3, SubSeqProperties
  <2>2. QED
    BY <1>1, <2>1
<1> HIDE DEF b
<1>5. b = a
  BY <1>3, <1>4, SeqEqual
<1>6. QED
  BY <1>1, <1>5, ConcatEmptySeq DEF b

LEMMA PiecesTail ==
    ASSUME NEW S, NEW a \in Seq(S), a # <<>>, NEW c \in Seq(S)
    PROVE  /\ a \o c # <<>>
           /\ Head(a \o c) = Head(a)
           /\ Tail(a \o c) = Tail(a) \o c
<1>1. /\ Head(a) \in S /\ Tail(a) \in Seq(S)
      /\ Len(Tail(a)) = Len(a) - 1 /\ Len(a) \in Nat \ {0} /\ Len(c) \in Nat
      /\ \A i \in 1 .. Len(Tail(a)) : Tail(a)[i] = a[i + 1]
  BY HeadTailProperties, EmptySeq, LenProperties
<1>2. /\ a \o c \in Seq(S) /\ Len(a \o c) = Len(a) + Len(c)
      /\ \A i \in 1 .. Len(a) + Len(c) :
            (a \o c)[i] = IF i =< Len(a) THEN a[i] ELSE c[i - Len(a)]
  BY ConcatProperties
<1>3. a \o c # <<>>
  BY ConcatEqualIffEmpty
<1>4. /\ Tail(a \o c) \in Seq(S) /\ Len(Tail(a \o c)) = Len(a \o c) - 1
      /\ \A i \in 1 .. Len(Tail(a \o c)) : Tail(a \o c)[i] = (a \o c)[i + 1]
  BY <1>2, <1>3, HeadTailProperties
<1>5. /\ Tail(a) \o c \in Seq(S) /\ Len(Tail(a) \o c) = Len(Tail(a)) + Len(c)
      /\ \A i \in 1 .. Len(Tail(a)) + Len(c) :
            (Tail(a) \o c)[i] = IF i =< Len(Tail(a)) THEN Tail(a)[i]
                                ELSE c[i - Len(Tail(a))]
  BY <1>1, ConcatProperties
<1> DEFINE t == Tail(a \o c)
           u == Tail(a) \o c
<1>6. t \in Seq(S) /\ u \in Seq(S) /\ Len(t) = Len(u) /\ Len(t) = Len(a) + Len(c) - 1
  BY <1>1, <1>2, <1>4, <1>5
<1>7. ASSUME NEW i \in 1 .. Len(t)
      PROVE  t[i] = u[i]
  <2>1. i \in Nat \ {0} /\ i =< Len(a) + Len(c) - 1
    BY <1>1, <1>6
  <2>2. t[i] = (a \o c)[i + 1]
    BY <1>4
  <2>3. CASE i =< Len(a) - 1
    <3>1. (a \o c)[i + 1] = a[i + 1]
      BY <1>1, <1>2, <2>1, <2>3
    <3>2. u[i] = Tail(a)[i]
      BY <1>1, <1>5, <2>1, <2>3
    <3>3. Tail(a)[i] = a[i + 1]
      BY <1>1, <2>1, <2>3
    <3>4. QED
      BY <2>2, <3>1, <3>2, <3>3
  <2>4. CASE ~(i =< Len(a) - 1)
    <3>1. (a \o c)[i + 1] = c[i + 1 - Len(a)]
      BY <1>1, <1>2, <2>1, <2>4
    <3>2. u[i] = c[i - (Len(a) - 1)]
      BY <1>1, <1>5, <2>1, <2>4
    <3>3. i + 1 - Len(a) = i - (Len(a) - 1)
      BY <1>1, <2>1
    <3>4. QED
      BY <2>2, <3>1, <3>2, <3>3
  <2>5. QED
    BY <2>3, <2>4
<1> HIDE DEF t, u
<1>8. t = u
  BY <1>6, <1>7, SeqEqual
<1>9. Head(a \o c) = Head(a)
  <2>1. Head(a \o c) = (a \o c)[1] /\ Head(a) = a[1]
    BY <1>1, <1>2
  <2>2. (a \o c)[1] = a[1]
    BY <1>1, <1>2
  <2>3. QED
    BY <2>1, <2>2
<1>10. QED
  BY <1>3, <1>8, <1>9 DEF t, u

\* Accepting a message alone or all of them keeps them in order.
LEMMA AcceptKeeps ==
    ASSUME TypeOK, NEW s \in Ids, NEW input \in Seq(Numbers), input # <<>>,
           AcceptBuffer(s, input)
    PROVE  /\ msgQ'[s] \o indefer'[s] = msgQ[s] \o input
           /\ \A t \in Ids \ {s} : msgQ'[t] = msgQ[t] /\ indefer'[t] = indefer[t]
           /\ UNCHANGED <<state, handled>>
<1>1. Head(input) \in Numbers /\ Tail(input) \in Seq(Numbers)
  BY HeadTailProperties
<1>2. <<Head(input)>> \in Seq(Numbers) /\ <<>> \in Seq(Numbers)
  BY <1>1
<1>3. <<Head(input)>> \o Tail(input) = input
  <2>1. Len(input) \in Nat \ {0} /\ SubSeq(input, 1, Len(input)) = input
    BY EmptySeq, SubSeqFull
  <2>2. SubSeq(input, 1, Len(input)) = <<input[1]>> \o SubSeq(input, 2, Len(input))
    BY <2>1, SubSeqRecursiveFirst
  <2>3. Tail(input) = SubSeq(input, 2, Len(input)) /\ Head(input) = input[1]
    BY <2>1, TailIsSubSeq
  <2>4. QED
    BY <2>1, <2>2, <2>3
<1>4. PICK taken \in Seq(Numbers), rest \in Seq(Numbers) :
        /\ taken \o rest = input
        /\ msgQ' = [msgQ EXCEPT ![s] = msgQ[s] \o taken]
        /\ indefer' = [indefer EXCEPT ![s] = rest]
  <2>1. CASE Base11 /\ state[s] \in {"init", "hello_wait"}
    <3>1. /\ msgQ' = [msgQ EXCEPT ![s] = msgQ[s] \o <<Head(input)>>]
          /\ indefer' = [indefer EXCEPT ![s] = Tail(input)]
      BY <2>1 DEF AcceptBuffer
    <3>2. PICK first \in Seq(Numbers) : first = <<Head(input)>>
      BY <1>2
    <3>3. first \o Tail(input) = input /\ msgQ' = [msgQ EXCEPT ![s] = msgQ[s] \o first]
      BY <1>3, <3>1, <3>2
    <3>4. QED
      BY <1>1, <3>1, <3>3
  <2>2. CASE ~(Base11 /\ state[s] \in {"init", "hello_wait"})
    <3>1. /\ msgQ' = [msgQ EXCEPT ![s] = msgQ[s] \o input]
          /\ indefer' = [indefer EXCEPT ![s] = <<>>]
      BY <2>2 DEF AcceptBuffer
    <3>2. input \o <<>> = input
      BY ConcatEmptySeq
    <3>3. QED
      BY <1>2, <3>1, <3>2
  <2>3. QED
    BY <2>1, <2>2
<1>5. msgQ'[s] = msgQ[s] \o taken /\ indefer'[s] = rest
  BY <1>4 DEF TypeOK
<1>6. (msgQ[s] \o taken) \o rest = msgQ[s] \o (taken \o rest)
  <2>1. msgQ[s] \in Seq(Numbers)
    BY PiecesType
  <2>2. \A q \in Seq(Numbers) : (q \o taken) \o rest = q \o (taken \o rest)
    BY PiecesRegroup, Zenon
  <2>3. QED
    BY <2>1, <2>2, Zenon
<1>7. \A t \in Ids \ {s} : msgQ'[t] = msgQ[t] /\ indefer'[t] = indefer[t]
  BY <1>4 DEF TypeOK
<1>8. UNCHANGED <<state, handled>>
  BY DEF AcceptBuffer
<1>9. QED
  BY <1>4, <1>5, <1>6, <1>7, <1>8

\* Steps that leave the queues alone, and steps that change them.
LEMMA ChannelStutter ==
    ASSUME Up' = Up, handled' = handled, \A s \in Ids : Waiting(s)' = Waiting(s)
    PROVE  ChannelStep
BY DEF ChannelStep, Channels!vars, Waiting

LEMMA ChannelOpen ==
    ASSUME NEW slot \in Ids \ Up, Up' = Up \cup {slot},
           handled' = handled, \A s \in Ids : Waiting(s)' = Waiting(s)
    PROVE  ChannelStep
<1>1. Channels!Open
  BY DEF Channels!Open, Waiting
<1>2. QED
  BY <1>1 DEF ChannelStep, Channels!Next

LEMMA ChannelSend ==
    ASSUME NEW s \in Up, NEW m \in 1 .. MaxMessages, Up' = Up, handled' = handled,
           \A t \in Ids : Waiting(t)' = IF t = s THEN Append(Waiting(s), m) ELSE Waiting(t)
    PROVE  ChannelStep
<1> DEFINE W == [t \in Ids |-> Waiting(t)]
<1>1. W' = [W EXCEPT ![s] = Append(W[s], m)]
  BY DEF Up
<1>2. Channels!Send
  BY <1>1 DEF Channels!Send, Waiting
<1>3. QED
  BY <1>2 DEF ChannelStep, Channels!Next

LEMMA ChannelBreak ==
    ASSUME NEW s \in Up, NEW kept \in 0 .. Len(Waiting(s)), Up' = Up, handled' = handled,
           \A t \in Ids : Waiting(t)' = IF t = s THEN SubSeq(Waiting(s), 1, kept)
                                       ELSE Waiting(t)
    PROVE  ChannelStep
<1> DEFINE W == [t \in Ids |-> Waiting(t)]
<1>1. W' = [W EXCEPT ![s] = SubSeq(W[s], 1, kept)] /\ kept \in 0 .. Len(W[s])
  BY DEF Up
<1>2. Channels!Break
  BY <1>1 DEF Channels!Break, Waiting
<1>3. QED
  BY <1>2 DEF ChannelStep, Channels!Next

LEMMA ChannelEnd ==
    ASSUME TypeOK, NEW s \in Up, Up' = Up \ {s},
           handled' = [handled EXCEPT ![s] = 0],
           \A t \in Ids : Waiting(t)' = IF t = s THEN <<>> ELSE Waiting(t)
    PROVE  ChannelStep
<1> DEFINE W == [t \in Ids |-> Waiting(t)]
<1>1. W' = [t \in Ids |-> IF t \in {s} THEN <<>> ELSE W[t]]
  OBVIOUS
<1>2. handled' = [t \in Ids |-> IF t \in {s} THEN 0 ELSE handled[t]]
  BY DEF TypeOK
<1>3. {s} \in SUBSET Up
  OBVIOUS
<1>4. Channels!End
  BY <1>1, <1>2, <1>3 DEF Channels!End, Channels!Close, Waiting
<1>5. QED
  BY <1>4 DEF ChannelStep, Channels!Next

LEMMA ChannelServe ==
    ASSUME TypeOK, NEW s \in Up, NEW ended \in SUBSET Up, Waiting(s) # <<>>,
           Up' = Up \ ended,
           \A t \in Ids :
              /\ handled'[t] = IF t \in ended THEN 0
                               ELSE IF t = s THEN Head(Waiting(s)) ELSE handled[t]
              /\ Waiting(t)' = IF t \in ended THEN <<>>
                               ELSE IF t = s THEN Tail(Waiting(s)) ELSE Waiting(t),
           handled' \in [Ids -> 0 .. MaxMessages]
    PROVE  ChannelStep
<1> DEFINE W == [t \in Ids |-> Waiting(t)]
           waiting == [W EXCEPT ![s] = Tail(W[s])]
           done == [handled EXCEPT ![s] = Head(W[s])]
<1>1. s \in Ids /\ W[s] # <<>>
  BY DEF Up
<1>2. W' = [t \in Ids |-> IF t \in ended THEN <<>> ELSE waiting[t]]
  BY <1>1
<1>3. handled' = [t \in Ids |-> IF t \in ended THEN 0 ELSE done[t]]
  <2>1. \A t \in Ids : handled'[t] = IF t \in ended THEN 0 ELSE done[t]
    BY <1>1 DEF TypeOK
  <2>2. QED
    BY <2>1
<1>4. /\ W' = [t \in Ids |-> IF t \in ended THEN <<>>
                                ELSE [W EXCEPT ![s] = Tail(W[s])][t]]
      /\ handled' = [t \in Ids |-> IF t \in ended THEN 0
                                    ELSE [handled EXCEPT ![s] = Head(W[s])][t]]
  BY <1>2, <1>3
<1>5. Channels!Serve
  BY <1>1, <1>4 DEF Channels!Serve, Channels!Close, Waiting
<1>6. QED
  BY <1>5 DEF ChannelStep, Channels!Next

\* The end of a session.
LEMMA EndChannel ==
    ASSUME TypeOK, NEW s \in Up, NEW r, EndSession(s, r)
    PROVE  ChannelStep
<1>1. s \in Ids /\ Up' = Up \ {s}
  BY EndUp DEF Up
<1>2. /\ msgQ' = [msgQ EXCEPT ![s] = <<>>]
      /\ indefer' = [indefer EXCEPT ![s] = <<>>]
      /\ socket' = [socket EXCEPT ![s] = <<>>]
      /\ handled' = [handled EXCEPT ![s] = 0]
  BY DEF EndSession, Free
<1>3. <<>> \o <<>> \o <<>> = <<>>
  BY EmptySeq, ConcatEmptySeq
<1>4. \A t \in Ids : Waiting(t)' = IF t = s THEN <<>> ELSE Waiting(t)
  BY <1>1, <1>2, <1>3 DEF Waiting, TypeOK
<1>5. QED
  BY <1>1, <1>2, <1>4, ChannelEnd
LEMMA ClientsChannel ==
    ASSUME Table, Clients \/ Tick \/ EntryOverwritten \/ Undefined \/ UNCHANGED vars
    PROVE  ChannelStep
<1> USE DEF Table
<1>1. ASSUME UNCHANGED <<state, msgQ, indefer, socket, handled>>
      PROVE  ChannelStep
  BY <1>1, ChannelStutter DEF Waiting, Up
<1>2. CASE Connect \/ Tick \/ EntryOverwritten \/ Undefined \/ UNCHANGED vars
  BY <1>1, <1>2 DEF Connect, Tick, EntryOverwritten, Undefined, vars, sessions, clients
<1>3. ASSUME NEW s \in Ids, HangUp(s)
      PROVE  ChannelStep
  BY <1>1, <1>3 DEF HangUp, sessions
<1>4. ASSUME NEW s \in Ids, Send(s)
      PROVE  ChannelStep
  <2>1. /\ s \in Up /\ sent[s] + 1 \in 1 .. MaxMessages
        /\ socket' = [socket EXCEPT ![s] = Append(socket[s], sent[s] + 1)]
        /\ UNCHANGED <<state, msgQ, indefer, handled>>
    BY <1>4 DEF Send, sessions, TypeOK
  <2>2. msgQ[s] \o indefer[s] \o Append(socket[s], sent[s] + 1) = Append(Waiting(s), sent[s] + 1)
    <3>1. \A a, c \in Seq(Numbers), m \in Numbers : a \o Append(c, m) = Append(a \o c, m)
      BY PiecesAppend
    <3>2. QED
      BY <2>1, <3>1, PiecesType DEF Waiting, Numbers
  <2>3. \A t \in Ids : Waiting(t)' = IF t = s THEN Append(Waiting(s), sent[s] + 1)
                                    ELSE Waiting(t)
    BY <2>1, <2>2 DEF Waiting, TypeOK
  <2>4. Up' = Up /\ handled' = handled
    BY <2>1 DEF Up
  <2>5. QED
    BY <2>1, <2>3, <2>4, ChannelSend
<1>5. ASSUME NEW s \in Ids, Reset(s)
      PROVE  ChannelStep
  <2>1. /\ s \in Up
        /\ socket' = [socket EXCEPT ![s] = <<>>]
        /\ UNCHANGED <<state, msgQ, indefer, handled>>
    BY <1>5 DEF Reset, sessions
  <2> DEFINE kept == Len(msgQ[s] \o indefer[s])
  <2>2. /\ SubSeq(Waiting(s), 1, kept) = msgQ[s] \o indefer[s] \o <<>>
        /\ kept \in 0 .. Len(Waiting(s))
    <3>1. \A a, c \in Seq(Numbers) : /\ SubSeq(a \o c, 1, Len(a)) = a \o <<>>
                                     /\ Len(a) \in 0 .. Len(a \o c)
      BY PiecesBreak
    <3>2. QED
      BY <3>1, PiecesType DEF Waiting
  <2> HIDE DEF kept
  <2>3. \A t \in Ids : Waiting(t)' = IF t = s THEN SubSeq(Waiting(s), 1, kept)
                                    ELSE Waiting(t)
    BY <2>1, <2>2 DEF Waiting, TypeOK
  <2>4. Up' = Up /\ handled' = handled
    BY <2>1 DEF Up
  <2>5. QED
    BY <2>1, <2>2, <2>3, <2>4, ChannelBreak
<1>6. QED
  BY <1>2, <1>3, <1>4, <1>5 DEF Clients

LEMMA ServeChannel ==
    ASSUME Table,
           \/ SelectReturns \/ SelectTimesOut \/ Polled \/ AllServed \/ AcceptConnection
           \/ \E s \in Ids : KillExpired(s)
           \/ \E s \in Ids : ServeClosing(s) \/ ServeDeferred(s) \/ ServeInput(s)
                                \/ ServeEnd(s) \/ ServeBadFraming(s) \/ ServeFailure(s)
    PROVE  ChannelStep
<1> USE DEF Table
<1>1. CASE SelectReturns \/ SelectTimesOut \/ Polled \/ AllServed
  <2>1. UNCHANGED <<state, msgQ, indefer, socket, handled>>
    BY <1>1 DEF SelectReturns, SelectTimesOut, Polled, AllServed, sessions, clients
  <2>2. QED
    BY <2>1, ChannelStutter DEF Waiting, Up
<1>2. ASSUME NEW s \in Ids, KillExpired(s)
      PROVE  ChannelStep
  <2>1. s \in Up /\ EndSession(s, ready)
    BY <1>2 DEF KillExpired, ServedAreUp, Ids, ncxsock
  <2>2. QED
    BY <2>1, EndChannel
<1>3. CASE AcceptConnection
  <2>1. UNCHANGED <<msgQ, indefer, socket, handled>>
    BY <1>3 DEF AcceptConnection
  <2>2. CASE UNCHANGED state
    BY <2>1, <2>2, ChannelStutter DEF Waiting, Up
  <2>3. ASSUME NEW slot \in FreeSlots, Up' = Up \cup {slot}
        PROVE  ChannelStep
    BY <2>1, <2>3, SlotIsFree, ChannelOpen DEF Waiting
  <2>4. QED
    BY <1>3, <2>2, <2>3, AcceptUp
<1>4. ASSUME NEW s \in Ids, Served(s)
      PROVE  s \in Up
  BY <1>4 DEF Served, ServedAreUp, Ids, ncxsock
<1>5. ASSUME NEW s \in Ids,
             ServeClosing(s) \/ ServeEnd(s) \/ ServeBadFraming(s) \/ ServeFailure(s)
      PROVE  ChannelStep
  <2>1. s \in Up
    BY <1>4, <1>5 DEF ServeClosing, ServeEnd, ServeBadFraming, ServeFailure
  <2>2. ASSUME NEW r, EndSession(s, r)
        PROVE  ChannelStep
    BY <2>1, <2>2, EndChannel
  <2>3. CASE ServeFailure(s) /\ ~EndSession(s, ready)
    <3>1. Up' = Up /\ UNCHANGED <<msgQ, indefer, socket, handled>>
      BY <2>1, <2>3, ServeFailureUp DEF ServeFailure
    <3>2. QED
      BY <3>1, ChannelStutter DEF Waiting
  <2>4. QED
    BY <1>5, <2>2, <2>3 DEF ServeClosing, ServeEnd, ServeBadFraming
<1>6. ASSUME NEW s \in Ids, ServeDeferred(s)
      PROVE  ChannelStep
  <2>1. /\ indefer[s] \in Seq(Numbers) /\ indefer[s] # <<>>
        /\ AcceptBuffer(s, indefer[s]) /\ UNCHANGED socket
    BY <1>6 DEF ServeDeferred, TypeOK, Numbers
  <2>2. /\ msgQ'[s] \o indefer'[s] = msgQ[s] \o indefer[s]
        /\ \A t \in Ids \ {s} : msgQ'[t] = msgQ[t] /\ indefer'[t] = indefer[t]
        /\ UNCHANGED <<state, handled>>
    BY <2>1, AcceptKeeps
  <2>3. \A t \in Ids : Waiting(t)' = Waiting(t)
    BY <2>1, <2>2 DEF Waiting
  <2>4. QED
    BY <2>2, <2>3, ChannelStutter DEF Up
<1>7. ASSUME NEW s \in Ids, ServeInput(s)
      PROVE  ChannelStep
  <2>1. PICK n \in 1 .. Len(socket[s]) :
          /\ AcceptBuffer(s, SubSeq(socket[s], 1, n))
          /\ socket' = [socket EXCEPT ![s] = SubSeq(socket[s], n + 1, Len(socket[s]))]
    BY <1>7 DEF ServeInput, TypeOK
  <2>2. PICK input : input = SubSeq(socket[s], 1, n)
    OBVIOUS
  <2>3. PICK rest : rest = SubSeq(socket[s], n + 1, Len(socket[s]))
    OBVIOUS
  <2>4. socket[s] \in Seq(Numbers) /\ Len(socket[s]) \in Nat
    BY LenProperties, PiecesType
  <2>5. \A i \in 1 .. Len(socket[s]) : socket[s][i] \in Numbers
    BY <2>4, ElementOfSeq
  <2>6. input \in Seq(Numbers) /\ Len(input) = n /\ rest \in Seq(Numbers)
    BY <2>2, <2>3, <2>4, <2>5, SubSeqProperties
  <2>7. input # <<>>
    BY <2>6
  <2>8. input \o rest = socket[s]
    <3>1. SubSeq(socket[s], 1, n) \o SubSeq(socket[s], n + 1, Len(socket[s]))
            = SubSeq(socket[s], 1, Len(socket[s]))
      BY <2>4, ConcatAdjacentSubSeq
    <3>2. SubSeq(socket[s], 1, Len(socket[s])) = socket[s]
      BY <2>4, SubSeqFull
    <3>3. QED
      BY <2>2, <2>3, <3>1, <3>2
  <2>9. /\ msgQ'[s] \o indefer'[s] = msgQ[s] \o input
        /\ \A t \in Ids \ {s} : msgQ'[t] = msgQ[t] /\ indefer'[t] = indefer[t]
        /\ UNCHANGED <<state, handled>>
    BY <2>1, <2>2, <2>6, <2>7, AcceptKeeps
  <2>10. \A t \in Ids : socket'[t] = IF t = s THEN rest ELSE socket[t]
    BY <2>1, <2>3 DEF TypeOK
  <2>11. (msgQ[s] \o input) \o rest = msgQ[s] \o indefer[s] \o socket[s]
    <3>1. PICK q \in Seq(Numbers) : q = msgQ[s]
      BY PiecesType
    <3>2. (q \o input) \o rest = q \o (input \o rest)
      BY <2>6, PiecesRegroup, Zenon
    <3>3. q \o <<>> = q
      BY ConcatEmptySeq
    <3>4. indefer[s] = <<>>
      BY <1>7 DEF ServeInput
    <3>5. QED
      BY <2>8, <3>1, <3>2, <3>3, <3>4
  <2>12. \A t \in Ids : Waiting(t)' = Waiting(t)
    BY <2>9, <2>10, <2>11 DEF Waiting
  <2>13. QED
    BY <2>9, <2>12, ChannelStutter DEF Up
<1>8. QED
  BY <1>1, <1>2, <1>3, <1>5, <1>6, <1>7

LEMMA DrainChannel ==
    ASSUME Table,
           \/ EndOfDrain
           \/ \E s \in Ids : Dispatch(s) \/ DispatchEnd(s)
           \/ \E s, t \in Ids : KillSession(s, t)
    PROVE  ChannelStep
<1> USE DEF Table
<1>1. CASE EndOfDrain
  BY <1>1, ChannelStutter DEF EndOfDrain, clients, Waiting, Up
<1>2. ASSUME NEW s \in Ids, Dispatched(s)
      PROVE  /\ s \in Up
             /\ Waiting(s) # <<>>
             /\ Head(Waiting(s)) = Head(msgQ[s])
             /\ Tail(Waiting(s)) = Tail(msgQ[s]) \o indefer[s] \o socket[s]
  <2>1. s \in Up /\ msgQ[s] # <<>>
    BY <1>2 DEF Dispatched, Servable, Up
  <2>2. PICK a \in Seq(Numbers), b \in Seq(Numbers), c \in Seq(Numbers) :
          a = msgQ[s] /\ b = indefer[s] /\ c = socket[s]
    BY PiecesType
  <2>3. /\ a \o b # <<>> /\ a \o b \in Seq(Numbers)
        /\ Head(a \o b) = Head(a) /\ Tail(a \o b) = Tail(a) \o b
    BY <2>1, <2>2, PiecesTail, ConcatProperties
  <2>4. /\ (a \o b) \o c # <<>>
        /\ Head((a \o b) \o c) = Head(a \o b) /\ Tail((a \o b) \o c) = Tail(a \o b) \o c
    BY <2>3, PiecesTail
  <2>5. QED
    BY <2>1, <2>2, <2>3, <2>4 DEF Waiting
<1>3. <<>> \o <<>> \o <<>> = <<>>
  BY EmptySeq, ConcatEmptySeq
<1>4. handled' \in [Ids -> 0 .. MaxMessages]
  BY TypeNext DEF TypeOK, Next, Loop
<1>5. ASSUME NEW s \in Ids, Dispatch(s)
      PROVE  ChannelStep
  <2>1. /\ Dispatched(s)
        /\ msgQ' = [msgQ EXCEPT ![s] = Tail(msgQ[s])]
        /\ handled' = [handled EXCEPT ![s] = Head(msgQ[s])]
        /\ UNCHANGED <<indefer, socket>>
    BY <1>5 DEF Dispatch, TypeOK, clients
  <2>2. PICK none \in SUBSET Up : none = {}
    OBVIOUS
  <2>3. Up' = Up \ none
    BY <1>5, <2>2, DispatchUp
  <2>4. \A t \in Ids :
           /\ handled'[t] = IF t \in none THEN 0
                            ELSE IF t = s THEN Head(Waiting(s)) ELSE handled[t]
           /\ Waiting(t)' = IF t \in none THEN <<>>
                            ELSE IF t = s THEN Tail(Waiting(s)) ELSE Waiting(t)
    BY <1>2, <2>1, <2>2 DEF Waiting, TypeOK
  <2>5. QED
    BY <1>2, <1>4, <2>1, <2>3, <2>4, ChannelServe
<1>6. ASSUME NEW s \in Ids, DispatchEnd(s)
      PROVE  ChannelStep
  <2>1. Dispatched(s) /\ EndSession(s, FirstTaken(ready))
    BY <1>6 DEF DispatchEnd
  <2>2. s \in Up
    BY <1>2, <2>1
  <2>3. QED
    BY <2>1, <2>2, EndChannel
<1>7. ASSUME NEW s \in Ids, NEW t \in Ids, KillSession(s, t)
      PROVE  ChannelStep
  <2>1. /\ Dispatched(s) /\ t \in Up /\ t # s /\ Free(t)
        /\ msgQ' = [msgQ EXCEPT ![s] = Tail(msgQ[s]), ![t] = <<>>]
        /\ handled' = [handled EXCEPT ![s] = Head(msgQ[s]), ![t] = 0]
    BY <1>7 DEF KillSession, TypeOK
  <2>2. /\ indefer' = [indefer EXCEPT ![t] = <<>>]
        /\ socket' = [socket EXCEPT ![t] = <<>>]
    BY <2>1 DEF Free
  <2>3. Up' = Up \ {t}
    BY <2>1, FreeUp
  <2>4. \A u \in Ids : handled'[u] = IF u \in {t} THEN 0
                                    ELSE IF u = s THEN Head(Waiting(s)) ELSE handled[u]
    BY <1>2, <2>1 DEF TypeOK
  <2>5. \A u \in Ids : Waiting(u)' = IF u \in {t} THEN <<>>
                                    ELSE IF u = s THEN Tail(Waiting(s)) ELSE Waiting(u)
    BY <1>2, <1>3, <2>1, <2>2 DEF Waiting, TypeOK
  <2>6. {t} \in SUBSET Up
    BY <2>1
  <2>7. QED
    BY <1>2, <1>4, <2>1, <2>3, <2>4, <2>5, <2>6, ChannelServe
<1>8. QED
  BY <1>1, <1>5, <1>6, <1>7

\* Whatever is killed and whenever, messages are carried out one at a time and in
\* the order they were sent.
THEOREM MessagesInOrder == Spec => InOrder
<1>1. Init => Channels!Init
  <2> SUFFICES ASSUME Init PROVE Channels!Init
    OBVIOUS
  <2>1. <<>> \o <<>> \o <<>> = <<>>
    BY EmptySeq, ConcatEmptySeq
  <2>2. QED
    BY <2>1 DEF Init, Up, Channels!Init
<1>2. Table /\ [Next]_vars => [Channels!Next]_(Channels!vars)
  BY ClientsChannel, ServeChannel, DrainChannel DEF ChannelStep, Next, Loop
<1>3. Table /\ [Next]_vars => Table'
  BY TableNext
<1>4. QED
  BY <1>1, <1>2, <1>3, TableInit, PTL DEF Spec, InOrder, Channels!Spec
=============================================================================
