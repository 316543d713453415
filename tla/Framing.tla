------------------------------ MODULE Framing ------------------------------
(***************************************************************************)
(* The receiving half of a connection: RecvPost hands the free part of the *)
(* ring to WSARecv, the network fills some of it, RecvProc cuts messages   *)
(* out of the ring, decodes them and passes them to OnRecv (NetClient.cpp  *)
(* 505-537 and 571-618).  The peer builds its messages as Packet.h does;   *)
(* it may also send what is not a message.                                 *)
(*                                                                         *)
(* One receive is outstanding at a time (NetClient's OneRecv), so RecvProc *)
(* has the ring to itself while it runs; a step of it is one round of its  *)
(* loop.  A message that fits the ring is taken to fit the packet it is    *)
(* copied to, which RecvProc does not ask.                                 *)
(***************************************************************************)
EXTENDS RingBuffer, Packet, SequencesExt

CONSTANTS
    Messages,         \* what may be sent: each a sequence of fields
    Keys,             \* what rand() may give
    MaxSent,          \* messages of one connection
    MaxConnects       \* connections of the session

ASSUME RingAssumption == BUFFER_SIZE >= HeaderSize
ASSUME MessageAssumption == Messages \subseteq Seq(Seq(Byte)) /\ Keys \subseteq Byte

VARIABLES
    ring,             \* recvRB_
    posted,           \* the two WSABUFs with the network, by place and length
    step,             \* "posted", "recvProc", or "ended"
    wire,             \* cells sent and not received
    sent,             \* history: the messages of the connection
    delivered,        \* history: the payloads passed to OnRecv
    connects          \* history: connections so far

vars == <<ring, posted, step, wire, sent, delivered, connects>>

\* wsa[0] is the direct part, wsa[1] the rest, at the start of Buffer_
RecvPost(r) ==
    LET direct == GetDirectEnqueueSize(r.iInPos, r.iOutPos)
    IN [at |-> r.iInPos, direct |-> direct,
        around |-> GetFreeSize(r.iInPos, r.iOutPos) - direct]

EmptyRing == [iInPos |-> 0, iOutPos |-> 0, buffer |-> [i \in Positions |-> 0]]

Init ==
    /\ ring = EmptyRing
    /\ posted = RecvPost(EmptyRing)
    /\ step = "posted"
    /\ wire = <<>> /\ sent = <<>> /\ delivered = <<>>
    /\ connects = 1

-----------------------------------------------------------------------------
(* The peer and the network *)

Build(fields) ==
    LET built[i \in 0 .. Len(fields)] ==
            IF i = 0 THEN NewPacket ELSE Put(built[i - 1], fields[i])
    IN built[Len(fields)]

\* What goes on the wire for a message and a key, and what is made of it: a wrong
\* code, or a last byte that is not what was sent. A checksum of one byte tells no more
\* for sure: two changes inside a message may cancel out.
Genuine == [m \in Messages \X Keys |-> SetHeader(Build(m[1]), m[2])]
Forged(cells) ==
    {[cells EXCEPT ![1] = (@ + 1) % BYTE], [cells EXCEPT ![Len(cells)] = (@ + 1) % BYTE]}
Sendable ==
    UNION {{[payload |-> Payload(Build(m[1])), cells |-> cells, genuine |-> cells = Genuine[m]] :
                cells \in {Genuine[m]} \cup Forged(Genuine[m])} : m \in Messages \X Keys}

Send(message) ==
    /\ step # "ended" /\ Len(sent) < MaxSent
    /\ sent' = Append(sent, message)
    /\ wire' = wire \o message.cells
    /\ UNCHANGED <<ring, posted, step, delivered, connects>>

\* A completion with n cells, and MoveInPos
Receive(n) ==
    /\ step = "posted"
    /\ n \in 1 .. Len(wire) /\ n <= posted.direct + posted.around
    /\ LET first == IF n < posted.direct THEN n ELSE posted.direct
       IN \E buffer \in {Store(Store(ring.buffer, posted.at, SubSeq(wire, 1, first)),
                              0, SubSeq(wire, first + 1, n))} :
            ring' = MoveInPos([ring EXCEPT !.buffer = buffer], n)
    /\ wire' = SubSeq(wire, n + 1, Len(wire))
    /\ step' = "recvProc"
    /\ UNCHANGED <<posted, sent, delivered, connects>>

\* The peer hangs up, the session is disconnected, or a receive into no room at
\* all completes with 0 bytes, which the worker takes for a hang-up
End ==
    /\ step = "posted"
    /\ step' = "ended"
    /\ UNCHANGED <<ring, posted, wire, sent, delivered, connects>>

\* ConnectProc: Init of the session, and RecvPost
ConnectProcKeepsRing ==                                         \* mutant
    /\ step = "ended" /\ connects < MaxConnects
    /\ connects' = connects + 1
    /\ UNCHANGED ring
    /\ posted' = RecvPost(ring')
    /\ step' = "posted"
    /\ wire' = <<>> /\ sent' = <<>> /\ delivered' = <<>>
ConnectProc ==
    /\ step = "ended" /\ connects < MaxConnects
    /\ connects' = connects + 1
    /\ ring' = ClearBuffer(ring)
    /\ posted' = RecvPost(ring')
    /\ step' = "posted"
    /\ wire' = <<>> /\ sent' = <<>> /\ delivered' = <<>>

-----------------------------------------------------------------------------
(* RecvProc *)

HeaderHere(r) == UseSize(r) >= HeaderSize
PeekHeader(r) == Peek(r, HeaderSize)
PayloadLen(r) == PeekHeader(r)[2]
CodeGood(r) == PeekHeader(r)[1] = PACKET_CODE
MessageHereStrict(r) == UseSize(r) > HeaderSize + PayloadLen(r) \* mutant
MessageHere(r) == UseSize(r) >= HeaderSize + PayloadLen(r)

\* The message is not there yet: the loop ends in RecvPost
Wait ==
    /\ step = "recvProc"
    /\ HeaderHere(ring) =>
        CodeGood(ring) /\ ~MessageHere(ring) /\ PayloadLen(ring) <= BUFFER_SIZE
    /\ posted' = RecvPost(ring)
    /\ step' = "posted"
    /\ UNCHANGED <<ring, wire, sent, delivered, connects>>

\* A header without PACKET_CODE, or with a length beyond BUFFER_SIZE
RefuseHeader ==
    /\ step = "recvProc" /\ HeaderHere(ring)
    /\ CodeGood(ring) => ~MessageHere(ring) /\ PayloadLen(ring) > BUFFER_SIZE
    /\ step' = "ended"
    /\ UNCHANGED <<ring, posted, wire, sent, delivered, connects>>

\* MoveOutPos over the header, Dequeue of the payload, ValidateReceived
TakeMessage ==
    /\ step = "recvProc" /\ HeaderHere(ring)
    /\ CodeGood(ring) /\ MessageHere(ring)
    /\ LET body == MoveOutPos(ring, HeaderSize)
       IN /\ ring' = Dequeue(body, PayloadLen(ring))
          /\ \E p \in {Received(PeekHeader(ring), Peek(body, PayloadLen(ring)))} :
                IF ValidateReceived(p)
                THEN delivered' = Append(delivered, Payload(p)) /\ UNCHANGED step
                ELSE step' = "ended" /\ UNCHANGED delivered
    /\ UNCHANGED <<posted, wire, sent, connects>>

RecvProc == Wait \/ RefuseHeader \/ TakeMessage
Network == \E n \in 1 .. BUFFER_SIZE : Receive(n)

Next ==
    \/ \E message \in Sendable : Send(message)
    \/ Network \/ End \/ ConnectProc \/ RecvProc

Spec == Init /\ [][Next]_vars

\* A worker finishes what it took on, and TCP delivers what was sent
LiveSpec == Spec /\ WF_vars(RecvProc) /\ WF_vars(Network)

-----------------------------------------------------------------------------
(* Properties *)

\* What the peer sent is what OnRecv gets, in order and unaltered, though the ring
\* wraps, messages come in pieces and the ring is used again for the next
\* connection; a message with a wrong code or another last byte than was sent is not
\* delivered (NetClient.cpp 590-612, RingBuffer.cpp:65, NetClientSession.cpp:17).
InOrder ==
    /\ Len(delivered) <= Len(sent)
    /\ \A i \in DOMAIN delivered : sent[i].genuine /\ delivered[i] = sent[i].payload

\* Every cell is in the ring or still under way, once and in its place: the two
\* WSABUFs never overlap what has not been taken, nor leave a gap.
RingContents(r) ==
    [i \in 1 .. UseSize(r) |-> r.buffer[MoveInOrOutPos(r.iOutPos, i - 1)]]
CellsAfter(k) ==
    LET after[n \in 0 .. Len(sent)] ==
            IF n = Len(sent) THEN <<>> ELSE sent[n + 1].cells \o after[n + 1]
    IN after[k]
RingExact ==
    step # "ended" => RingContents(ring) \o wire = CellsAfter(Len(delivered))

\* While a receive is posted no whole message waits in the ring, what is posted is
\* the free part and no more, and it is not empty, except behind a message that can
\* never be whole: one whose payload passes the test of NetClient.cpp:590 and has no
\* place beside its header.
PostedRight ==
    step = "posted" =>
        /\ HeaderHere(ring) =>
            CodeGood(ring) /\ UseSize(ring) < HeaderSize + PayloadLen(ring)
        /\ posted.around >= 0
        /\ posted.direct + posted.around = BUFFER_SIZE - UseSize(ring)
        /\ UseSize(ring) = BUFFER_SIZE => PayloadLen(ring) > BUFFER_SIZE - HeaderSize

\* Whatever is put into a packet, byte by byte or through Resize, comes out of it
\* at the other end of the wire, for every key; and no put writes past the buffer
\* (Packet.h:67, 134, 497-531).  A fact of the operators, looked at before the first
\* message.
RoundTrip(fields, key) ==
    LET p == Build(fields)
        cells == SetHeader(p, key)
        q == Received(SubSeq(cells, 1, HeaderSize), SubSeq(cells, HeaderSize + 1, Len(cells)))
        at[i \in 1 .. Len(fields)] ==
            IF i = 1 THEN q ELSE AfterExtract(at[i - 1], Len(fields[i - 1]))
    IN /\ ~Overrun(p)
       /\ ValidateReceived(q)
       /\ \A i \in DOMAIN fields :
            /\ CanExtract(at[i], Len(fields[i]))
            /\ Extracted(at[i], Len(fields[i])) = fields[i]
SomeFields == SeqOf({<<1>>, <<2, 3>>}, 4)
CodecInverse ==
    sent = <<>> => \A fields \in SomeFields, key \in Byte : RoundTrip(fields, key)

\* A message that fits the ring reaches OnRecv, unless the connection ends.
Deliverable(n) ==
    \A i \in 1 .. n : sent[i].genuine /\ Len(sent[i].payload) <= BUFFER_SIZE - HeaderSize
Delivered ==
    \A n \in 1 .. MaxSent :
        (Len(sent) >= n /\ Deliverable(n)) ~> (Len(delivered) >= n \/ step = "ended")
=============================================================================
