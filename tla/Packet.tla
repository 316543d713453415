------------------------------- MODULE Packet -------------------------------
(***************************************************************************)
(* Packet.h: a buffer that grows, fields put behind rear_ and taken at     *)
(* front_, and the header with its checksum and the two running xors that  *)
(* hide header byte and payload.  A packet is a record; an operation maps  *)
(* packets to packets.  payloadLen_ is one cell here, two bytes there.     *)
(***************************************************************************)
EXTENDS Integers, Sequences

CONSTANTS
    BYTE,             \* how many values a byte has: 256
    FIXED_KEY, PACKET_CODE,
    INITIAL_PAYLOAD,  \* payload a new buffer holds: 500
    RINGBUFFER_SIZE,  \* largest buffer: 10000
    ByteXor           \* ^ of two bytes, as a table

Byte == 0 .. BYTE - 1

ASSUME ByteAssumption == BYTE \in Nat /\ FIXED_KEY \in Byte /\ PACKET_CODE \in Byte
ASSUME PayloadAssumption == INITIAL_PAYLOAD \in Nat /\ RINGBUFFER_SIZE \in Nat
\* All that encoding asks of ^
ASSUME XorAssumption ==
    ByteXor \in [Byte -> [Byte -> Byte]] /\ \A a, b \in Byte : ByteXor[ByteXor[a][b]][b] = a

\* NetHeader: code_, payloadLen_, randomKey_, checkSum_
HeaderSize == 4
Header(code, payloadLen, randomKey, checkSum) == <<code, payloadLen, randomKey, checkSum>>

\* The buffer holds what has been written; what lies behind rear_ is never read.
NewPacket == [bufferSize |-> INITIAL_PAYLOAD + HeaderSize, front |-> HeaderSize,
              rear |-> HeaderSize, buffer |-> [i \in 1 .. HeaderSize |-> 0]]

Room(p) == p.bufferSize - p.rear
UsedDataSize(p) == p.rear - p.front

-----------------------------------------------------------------------------
(* Fields *)

\* Resize copies as many cells from the start as header and unread payload have.
ResizeShort(p) ==                                               \* mutant
    IF p.bufferSize = RINGBUFFER_SIZE
    THEN p
    ELSE LET size == (p.bufferSize - HeaderSize) * 2 + HeaderSize
         IN [p EXCEPT !.bufferSize = IF size > RINGBUFFER_SIZE THEN RINGBUFFER_SIZE ELSE size,
                      !.buffer = [i \in 1 .. p.rear |-> IF i <= UsedDataSize(p) THEN @[i] ELSE 0]]
Resize(p) ==
    IF p.bufferSize = RINGBUFFER_SIZE
    THEN p
    ELSE LET size == (p.bufferSize - HeaderSize) * 2 + HeaderSize
             kept == UsedDataSize(p) + HeaderSize
         IN [p EXCEPT !.bufferSize = IF size > RINGBUFFER_SIZE THEN RINGBUFFER_SIZE ELSE size,
                      !.buffer = [i \in 1 .. p.rear |-> IF i <= kept THEN @[i] ELSE 0]]

\* operator<< of every type, and PutData: the bytes of the field go behind rear_.
\* One Resize has to be enough: a field that needs more is written past the end, and
\* Overrun tells. So it does of a field that comes when there is no Resize left, where
\* operator<< throws and PutData returns 0.
Put(p, bytes) ==
    LET q == IF Room(p) < Len(bytes) THEN Resize(p) ELSE p
    IN [q EXCEPT !.buffer = SubSeq(@, 1, q.rear) \o bytes, !.rear = @ + Len(bytes)]

Overrun(p) == p.rear > p.bufferSize

\* operator>> of every type, GetData and GetPointer: n bytes at front_, which must
\* be there
CanExtract(p, n) == UsedDataSize(p) >= n
Extracted(p, n) == SubSeq(p.buffer, p.front + 1, p.front + n)
AfterExtract(p, n) == [p EXCEPT !.front = @ + n]

-----------------------------------------------------------------------------
(* Header and encoding *)

GetCheckSum(payload) ==
    LET sum[i \in 0 .. Len(payload)] == IF i = 0 THEN 0 ELSE (sum[i - 1] + payload[i]) % BYTE
    IN sum[Len(payload)]

Payload(p) == SubSeq(p.buffer, HeaderSize + 1, p.rear)

\* Encode: the checksum and then the payload, each xored with what precedes it in
\* the clear and in the result, and with its place
EncodeCell(last, b, place, key) ==
    LET p == ByteXor[b][(last.p + key + place) % BYTE]
    IN [p |-> p, e |-> ByteXor[p][(last.e + FIXED_KEY + place) % BYTE]]
Encode(payload, key) ==
    LET plain == <<GetCheckSum(payload)>> \o payload
        done[i \in 0 .. Len(plain)] ==
            IF i = 0 THEN [p |-> 0, e |-> 0] ELSE EncodeCell(done[i - 1], plain[i], i, key)
    IN [i \in 1 .. Len(plain) |-> done[i].e]

\* Decode, in place and from the end: every cell meets its predecessor as it was
\* before the pass
Pass(cells, key) ==
    [i \in DOMAIN cells |->
        ByteXor[cells[i]][((IF i = 1 THEN 0 ELSE cells[i - 1]) + key + i) % BYTE]]
Decode(cells, key) == Pass(Pass(cells, FIXED_KEY), key)

\* SetHeader: the cells that go on the wire
SetHeader(p, key) ==
    LET encoded == Encode(Payload(p), key)
    IN Header(PACKET_CODE, UsedDataSize(p), key, encoded[1]) \o Tail(encoded)

\* The packet RecvProc makes of a header and the payload behind it, and
\* ValidateReceived, which decodes it
Received(header, payload) ==
    LET plain == Decode(<<header[4]>> \o payload, header[3])
    IN [NewPacket EXCEPT !.rear = HeaderSize + header[2],
                         !.buffer = Header(header[1], header[2], header[3], plain[1])
                                        \o Tail(plain)]
ValidateReceived(p) ==
    p.buffer[1] = PACKET_CODE /\ p.buffer[4] = GetCheckSum(Payload(p))
=============================================================================
