--------------------------- MODULE SessionFraming ---------------------------
(***************************************************************************)
(* One direction of a NETCONF session, byte by byte: how the sender cuts   *)
(* its messages into buffers and marks them (ses_finish_msg, ses_msg.c),   *)
(* and how the receiver finds them in the bytes it happens to read         *)
(* (ses_accept_input).  A session starts with the end marker of base:1.0   *)
(* and goes on with the chunks of base:1.1 once both ends have said hello, *)
(* each end at a moment of its own.                                        *)
(*                                                                         *)
(* Either end may be the server, which streams its output and reads one    *)
(* buffer at a time, or the manager library, which queues its output and   *)
(* reads on while it gets full buffers.  The sender may also be a foreign  *)
(* program, which cuts chunks where it likes.  The receiver is always this *)
(* code.  A byte is its code; what messages say is left out.               *)
(***************************************************************************)
EXTENDS SequencesExt

CONSTANTS
    BuffSize,           \* SES_MSG_BUFFSIZE
    ReadSize,           \* SES_READBUFF_SIZE
    StartPad,           \* SES_STARTCHUNK_PAD
    EndPad,             \* SES_ENDCHUNK_PAD
    MaxStartChunk,      \* SES_MAX_STARTCHUNK_SIZE
    Payloads,           \* bound: the messages, sequences of bytes
    Cuts,               \* bound: where a foreign sender cuts its messages
    MaxMessages,        \* bound: messages sent
    MaxBytes            \* bound: bytes in the messages sent

LF == 10
HASH == 35
Digit == 48 .. 57
Digit1 == 49 .. 57

\* NC_SSH_END and NC_SSH_END_CHUNKS.
EOM == <<93, 93, 62, 93, 93, 62>>
EndOfChunks == <<LF, HASH, HASH, LF>>

Decimal[n \in Nat] ==
    IF n < 10 THEN <<48 + n>> ELSE Append(Decimal[n \div 10], 48 + (n % 10))

StartOfChunk(size) == <<LF, HASH>> \o Decimal[size] \o <<LF>>

\* A message is XML: it is not empty, the end marker is not in it, and it does not
\* end in a part of the marker.  The start of its chunks fits the buffers of both
\* ends.  A buffer is larger than what one read returns, and than its own framing.
ASSUME FramingAssumption ==
    /\ {BuffSize, ReadSize, StartPad, EndPad, MaxStartChunk, MaxMessages, MaxBytes} \subseteq Nat \ {0}
    /\ Cuts \subseteq Nat \ {0}
    /\ ReadSize < BuffSize /\ EndPad = Len(EndOfChunks) /\ StartPad + EndPad < BuffSize
    /\ Len(EOM) <= BuffSize
    /\ \A n \in 1 .. BuffSize : Len(StartOfChunk(n)) <= StartPad
    /\ \A m \in Payloads :
        /\ m \in Seq(0 .. 255) /\ m # <<>>
        /\ \A i \in 1 .. Len(m) - 5 : SubSeq(m, i, i + 5) # EOM
        /\ Last(m) # EOM[1] /\ ~IsSuffix(SubSeq(EOM, 1, 3), m)
        /\ \A n \in 1 .. Len(m) : Len(StartOfChunk(n)) <= MaxStartChunk

VARIABLES
    sender,             \* who sends
    enabled11,          \* the receiver has base:1.1 enabled
    agreed11,           \* both ends' hello name base:1.1
    greeted,            \* the sender has handled the receiver's hello
    framing11,          \* scb->framing11 of the sender
    buffstart,          \* where the bytes of its current output buffer start
    outQ,               \* its buffers that wait to be written
    wire,               \* the bytes that were written and not read
    protocol,           \* scb->protocol of the receiver
    rx,                 \* the state of its reader
    readbuff,           \* the bytes that were read and not accepted
    indefer,            \* they are kept for later (scb->indefer_len)
    reading,            \* ses_accept_input goes on to read
    sent,               \* the messages sent
    received            \* the messages handed to the XML reader

ends == <<sender, enabled11, agreed11>>
writer == <<greeted, framing11, buffstart, outQ, sent>>
reader == <<protocol, rx, readbuff, indefer, reading, received>>
vars == <<ends, writer, wire, reader>>

\* A message or buffer of the reader; buffpos is Len(buff) until the buffer is full.
NewBuff == [buff |-> <<>>, bufflen |-> 0]
NewMsg == [buffQ |-> <<NewBuff>>, ready |-> FALSE, expchunksize |-> 0, curchunksize |-> 0]

Init ==
    /\ sender \in {"server", "manager", "foreign server", "foreign client"}
    /\ enabled11 \in BOOLEAN /\ agreed11 \in {FALSE, enabled11}
    /\ greeted = FALSE /\ framing11 = FALSE
    /\ buffstart = 0
    /\ outQ = <<>> /\ wire = <<>>
    /\ protocol = "none"
    /\ rx = [msgQ |-> <<>>, instate |-> "idle", inendpos |-> 0, startchunk |-> <<>>, res |-> "ok"]
    /\ readbuff = <<>> /\ indefer = FALSE /\ reading = FALSE
    /\ sent = <<>> /\ received = <<>>

-----------------------------------------------------------------------------
(* The sender.                                                             *)

ByServer == sender \in {"server", "foreign server"}
Foreign == sender \in {"foreign server", "foreign client"}

\* ses_msg_init_buff of an output buffer.
InitStart(fr11) == IF fr11 THEN StartPad ELSE 0

\* ses_msg_add_framing: in base:1.1 the start of the chunk goes before the first
\* StartPad bytes of the buffer end, whatever is in them.
Framed(b) ==
    IF framing11
    THEN LET chunk == SubSeq(b.text, StartPad - b.start + 1, Len(b.text))
         IN  StartOfChunk(Len(chunk)) \o chunk \o (IF b.islast THEN EndOfChunks ELSE <<>>)
    ELSE b.text

\* ses_putchar, ses_msg_write_buff: a buffer is closed by the first byte that does
\* not fit; the others are initialised after it.
Buffers(text) ==
    LET size == (IF framing11 THEN BuffSize - EndPad ELSE BuffSize) - buffstart
        n == (Len(text) + size - 1) \div size
    IN  [i \in 1 .. n |-> [start |-> IF i = 1 THEN buffstart ELSE InitStart(framing11),
                           text |-> SubSeq(text, (i - 1) * size + 1, Min({i * size, Len(text)})),
                           islast |-> i = n]]

\* The messages framed as base:1.0: the hello, and before that of a client the
\* ncx-connect of netconf-subsystem.
Opening == IF ByServer THEN 1 ELSE 2

InBounds(m) == Len(sent) < MaxMessages /\ Len(FlattenSeq(sent)) + Len(m) <= MaxBytes

\* Requests follow when the client has handled the server's hello, and a server only
\* answers what the receiver, once greeted, asked for.
MaySend(m) ==
    /\ InBounds(m)
    /\ ~ByServer => sent # <<>>
    /\ Len(sent) >= Opening => greeted /\ (ByServer => received # <<>>)

\* netconf-subsystem connects (send_ncxconnect), and then copies bytes.
Connect(m) ==
    /\ ~ByServer /\ sent = <<>> /\ InBounds(m)
    /\ wire' = m \o EOM
    /\ sent' = <<m>>
    /\ UNCHANGED <<ends, greeted, framing11, buffstart, outQ, reader>>

\* ses_start_msg to ses_finish_msg.
Send(m) ==
    /\ ~Foreign /\ MaySend(m)
    /\ sender = "server" => outQ = <<>>
    /\ outQ' = outQ \o Buffers(IF framing11 THEN m ELSE m \o EOM)
    /\ buffstart' = InitStart(framing11)
    /\ sent' = Append(sent, m)
    /\ UNCHANGED <<ends, greeted, framing11, wire, reader>>

\* do_send_buff, which a server calls when a buffer is full or the last one, and
\* mgr_ses_writefn, which writes the queue of the manager: one buffer after the other.
WriteBuff ==
    /\ outQ # <<>>
    /\ wire' = wire \o Framed(Head(outQ))
    /\ outQ' = Tail(outQ)
    /\ UNCHANGED <<ends, greeted, framing11, buffstart, sent, reader>>

\* The hello of the receiver is handled (check_manager_hello, process_server_hello).
\* A server says hello when it has an ncx-connect.  This code says its own hello
\* before it handles the other one, and writes before it reads (io_process).
Greet ==
    /\ ~greeted
    /\ ~ByServer => received # <<>>
    /\ Foreign \/ (Len(sent) >= Opening /\ outQ = <<>>)
    /\ greeted' = TRUE
    /\ framing11' = agreed11
    /\ buffstart' = InitStart(agreed11)
    /\ UNCHANGED <<ends, outQ, sent, wire, reader>>

\* A foreign sender frames its hello as base:1.0 and cuts the others where it likes.
SendForeign(m, cut) ==
    /\ Foreign /\ MaySend(m)
    /\ LET first == SubSeq(m, 1, Min({cut, Len(m)}))
           rest == SubSeq(m, cut + 1, Len(m))
       IN  wire' = wire \o
               IF framing11 /\ Len(sent) >= Opening
               THEN StartOfChunk(Len(first)) \o first
                    \o (IF rest = <<>> THEN <<>> ELSE StartOfChunk(Len(rest)) \o rest)
                    \o EndOfChunks
               ELSE m \o EOM
    /\ sent' = Append(sent, m)
    /\ UNCHANGED <<ends, greeted, framing11, buffstart, outQ, reader>>

-----------------------------------------------------------------------------
(* The receiver.  rx.res is what accept_buffer_ssh_v10 and v11 return.     *)

\* What a server sends the manager library reads.
ToManager == ByServer

Failed(r) == [r EXCEPT !.res = "invalid framing"]

LastMsg(r) == Last(r.msgQ)
LastBuff(r) == Last(LastMsg(r).buffQ)

WithMsg(r, msg) == [r EXCEPT !.msgQ[Len(r.msgQ)] = msg]
WithBuffs(r, buffQ) == WithMsg(r, [LastMsg(r) EXCEPT !.buffQ = buffQ])

\* Faulty variant: a buffer is never full.
WithRoomAlways(r) ==
    IF r.msgQ = <<>> \/ LastMsg(r).ready THEN [r EXCEPT !.msgQ = Append(@, NewMsg)] ELSE r

\* There is a current message, and room in its last buffer.
WithRoom(r) ==
    LET begun == IF r.msgQ = <<>> \/ LastMsg(r).ready
                 THEN [r EXCEPT !.msgQ = Append(@, NewMsg)] ELSE r
        buffQ == LastMsg(begun).buffQ
    IN  IF Len(Last(buffQ).buff) < BuffSize THEN begun
        ELSE WithBuffs(begun, Append([buffQ EXCEPT ![Len(buffQ)].bufflen = BuffSize], NewBuff))

Stored(r, ch) ==
    LET buffQ == LastMsg(r).buffQ
    IN  WithBuffs(r, [buffQ EXCEPT ![Len(buffQ)].buff = Append(@, ch)])

At(r, instate, inendpos) == [r EXCEPT !.instate = instate, !.inendpos = inendpos]

\* The message is complete: it is made ready, and the reader waits for another one.
Ready(r, buffQ) ==
    At(WithMsg(r, [LastMsg(r) EXCEPT !.buffQ = buffQ, !.ready = TRUE]), "idle", 0)

\* Faulty variant: the part of the marker in the buffer before is left there.
CutEOMLast(buffQ) ==
    LET buffpos == Len(Last(buffQ).buff)
    IN  IF buffpos > Len(EOM)
        THEN [buffQ EXCEPT ![Len(buffQ)].bufflen = buffpos - Len(EOM)]
        ELSE Front(buffQ)

\* The end marker, the last bytes stored, is cut off; it may cover all of the last
\* buffer and the end of the one before it.
CutEOM(buffQ) ==
    LET buffpos == Len(Last(buffQ).buff)
        others == Front(buffQ)
    IN  IF buffpos > Len(EOM)
        THEN [buffQ EXCEPT ![Len(buffQ)].bufflen = buffpos - Len(EOM)]
        ELSE [others EXCEPT ![Len(others)].bufflen = @ - (Len(EOM) - buffpos)]

\* One byte in accept_buffer_ssh_v10.
AcceptV10(old, ch) ==
    LET r == Stored(WithRoom(old), ch)
        matched == old.instate = "inend" /\ ch = EOM[old.inendpos + 1]
    IN  CASE matched /\ old.inendpos + 1 = Len(EOM) -> Ready(r, CutEOM(LastMsg(r).buffQ))
          [] matched /\ old.inendpos + 1 < Len(EOM) -> At(r, "inend", old.inendpos + 1)
          [] old.instate = "inend" /\ ~matched -> At(r, "inmsg", 0)
          [] old.instate # "inend" /\ ch = EOM[1] -> At(r, "inend", 1)
          [] OTHER -> At(r, "inmsg", 0)

Number(digits) ==
    LET number[i \in 1 .. Len(digits)] ==
          (IF i = 1 THEN 0 ELSE 10 * number[i - 1]) + digits[i] - 48
    IN  number[Len(digits)]

\* The digits of the size so far.
WithSize(r, digits) == [r EXCEPT !.startchunk = digits]

\* A digit or the end of the number in the start of a chunk.  The size fits 32 bits.
AcceptSize(r, ch) ==
    CASE r.inendpos = 2 /\ ch \in Digit1 -> WithSize(At(r, "instart", 3), <<ch>>)
      [] r.inendpos \notin {2, MaxStartChunk} /\ ch \in Digit ->
            WithSize(At(r, "instart", r.inendpos + 1), Append(r.startchunk, ch))
      [] r.inendpos \notin {2, MaxStartChunk} /\ ch = LF ->
            WithMsg(At(r, "inmsg", 0), [LastMsg(r) EXCEPT !.expchunksize = Number(r.startchunk),
                                                          !.curchunksize = 0])
      [] OTHER -> Failed(r)

\* Faulty variant: the byte at hand is counted twice at the end of the chunk.
AcceptDataShort(r, ch) ==
    LET msg == [LastMsg(r) EXCEPT !.curchunksize = @ + 1]
        copied == Stored(WithMsg(r, msg), ch)
    IN  IF msg.curchunksize + 1 >= msg.expchunksize THEN At(copied, "inbetween", 0) ELSE copied

\* A byte of a chunk; the code copies as many as it has at a time.
AcceptData(r, ch) ==
    LET msg == [LastMsg(r) EXCEPT !.curchunksize = @ + 1]
        copied == Stored(WithMsg(r, msg), ch)
    IN  IF msg.curchunksize = msg.expchunksize THEN At(copied, "inbetween", 0) ELSE copied

\* The last newline after the chunks.  An empty buffer is not kept.
EndChunks(r) ==
    LET buffQ == LastMsg(r).buffQ
    IN  Ready(r, IF LastBuff(r).buff = <<>> THEN Front(buffQ)
                 ELSE [buffQ EXCEPT ![Len(buffQ)].bufflen = Len(LastBuff(r).buff)])

\* One byte in accept_buffer_ssh_v11.
AcceptV11(old, ch) ==
    LET r == WithRoom(old)
        place == <<r.instate, r.inendpos>>
    IN  CASE r.instate = "inmsg" -> AcceptData(r, ch)
          [] r.instate = "instart" /\ r.inendpos # 1 -> AcceptSize(r, ch)
          [] r.instate = "idle" /\ ch = LF -> At(r, "instart", 1)
          [] place = <<"instart", 1>> /\ ch = HASH -> At(r, "instart", 2)
          [] place = <<"inbetween", 0>> /\ ch = LF -> At(r, "inbetween", 1)
          [] place = <<"inbetween", 1>> /\ ch = HASH -> At(r, "inbetween", 2)
          [] place = <<"inbetween", 2>> /\ ch = HASH -> At(r, "inend", 3)
          [] place = <<"inbetween", 2>> /\ ch \in Digit1 -> AcceptSize(r, ch)
          [] place = <<"inend", 3>> /\ ch = LF -> EndChunks(r)
          [] OTHER -> Failed(r)

IsReady == rx.msgQ # <<>> /\ Head(rx.msgQ).ready
Accepting == readbuff # <<>> /\ ~indefer

\* Messages that are ready are handed on before the socket is served again.  The
\* manager's rdfn reads on after a full buffer.
MayRead == rx.res = "ok" /\ ~Accepting /\ wire # <<>> /\ (reading \/ ~IsReady)

\* ses_accept_input reads the bytes that are there, at most a buffer.
Read(size) ==
    /\ MayRead /\ ~indefer
    /\ size <= Len(wire)
    /\ readbuff' = SubSeq(wire, 1, size)
    /\ wire' = SubSeq(wire, size + 1, Len(wire))
    /\ reading' = (ToManager /\ size = ReadSize)
    /\ UNCHANGED <<ends, writer, protocol, rx, indefer, received>>

\* It takes what was deferred instead, once there is something to read.
TakeDeferred ==
    /\ MayRead /\ indefer
    /\ indefer' = FALSE
    /\ reading' = FALSE
    /\ UNCHANGED <<ends, writer, wire, protocol, rx, readbuff, received>>

\* There is nothing more to read; ses_accept_input returns.
NothingRead ==
    /\ reading /\ ~Accepting /\ wire = <<>>
    /\ reading' = FALSE
    /\ UNCHANGED <<ends, writer, wire, protocol, rx, readbuff, indefer, received>>

\* Faulty variant: what follows the first messages is accepted at once.
AtHelloNever(r) == FALSE

\* A message of base:1.0 has ended and the hello was not handled yet: what follows it
\* may be in either framing.
AtHello(r) == protocol = "none" /\ enabled11 /\ LastMsg(r).ready

\* The next byte of the read buffer is accepted.  Trailing input is deferred, which
\* the code asserts to happen only behind the one message that waits.
AcceptByte ==
    /\ rx.res = "ok" /\ Accepting
    /\ LET r == IF protocol = "11" THEN AcceptV11(rx, Head(readbuff))
                                   ELSE AcceptV10(rx, Head(readbuff))
       IN  /\ rx' = IF AtHello(r) /\ Len(r.msgQ) # 1 THEN [r EXCEPT !.res = "assertion"] ELSE r
           /\ indefer' = (AtHello(r) /\ Len(readbuff) > 1)
    /\ readbuff' = Tail(readbuff)
    /\ reading' = (reading /\ ~indefer')
    /\ UNCHANGED <<ends, writer, wire, protocol, received>>

\* ses_read_cb hands the bytes of a message to the XML reader.
Text(msg) ==
    FlattenSeq([i \in DOMAIN msg.buffQ |-> SubSeq(msg.buffQ[i].buff, 1, msg.buffQ[i].bufflen)])

\* The first ready message is handled; the hello sets the protocol (ses_set_protocol).
Dispatch ==
    /\ ~reading /\ ~Accepting /\ rx.res = "ok" /\ IsReady
    /\ received' = Append(received, Text(Head(rx.msgQ)))
    /\ rx' = [rx EXCEPT !.msgQ = Tail(@)]
    /\ protocol' = IF Len(received') # Opening THEN protocol ELSE IF agreed11 THEN "11" ELSE "10"
    /\ UNCHANGED <<ends, writer, wire, readbuff, indefer, reading>>

-----------------------------------------------------------------------------

Sender ==
    \/ \E m \in Payloads : Connect(m) \/ Send(m) \/ \E cut \in Cuts : SendForeign(m, cut)
    \/ Greet

Receiver ==
    \/ \E size \in 1 .. ReadSize : Read(size)
    \/ TakeDeferred
    \/ NothingRead
    \/ AcceptByte
    \/ Dispatch

Next == Sender \/ WriteBuff \/ Receiver

Spec == Init /\ [][Next]_vars

\* The loops of both ends run.  Nobody has to send anything.
FairSpec == Spec /\ WF_vars(WriteBuff) /\ WF_vars(Receiver)

-----------------------------------------------------------------------------
(* Properties.                                                             *)

\* The variables have their types; no buffer holds more than its size, and a queued
\* buffer has room for the start and the end of a chunk.
TypeOK ==
    /\ sender \in {"server", "manager", "foreign server", "foreign client"}
    /\ {enabled11, agreed11, greeted, framing11, indefer, reading} \subseteq BOOLEAN
    /\ buffstart \in {0, StartPad}
    /\ \A i \in DOMAIN outQ :
        LET pads == IF framing11 THEN StartPad + EndPad ELSE 0
        IN  /\ outQ[i].text # <<>> /\ pads + Len(outQ[i].text) <= BuffSize
            /\ framing11 => Len(StartOfChunk(Len(outQ[i].text))) <= StartPad
    /\ wire \in Seq(0 .. 255)
    /\ protocol \in {"none", "10", "11"}
    /\ rx.instate \in {"idle", "instart", "inmsg", "inbetween", "inend"}
    /\ rx.inendpos \in 0 .. Max({Len(EOM) - 1, MaxStartChunk})
    /\ readbuff \in Seq(0 .. 255) /\ Len(readbuff) <= ReadSize
    /\ \A i \in DOMAIN rx.msgQ : \A j \in DOMAIN rx.msgQ[i].buffQ :
        LET b == rx.msgQ[i].buffQ[j] IN b.bufflen <= Len(b.buff) /\ Len(b.buff) <= BuffSize
    /\ sent \in Seq(Payloads)

\* A correct peer is never answered with a framing error, and the assertion that one
\* message waits when input is deferred holds (accept_buffer_ssh_v10 and v11).
FramingIsValid == rx.res = "ok"

Stream == INSTANCE MessageStream WITH Messages <- Payloads

\* The messages arrive as they were sent, wherever buffers, chunks and reads cut them.
FramesKept == Stream!Spec

\* Every message arrives, if none follows the hello or the ncx-connect so closely that
\* it is deferred.
AllArrive ==
    []~indefer =>
        \A n \in 1 .. MaxMessages : Len(sent) = n ~> Len(received) >= n
=============================================================================
