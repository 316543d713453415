----------------------------- MODULE RingBuffer -----------------------------
(***************************************************************************)
(* RingBuffer.h and RingBuffer.cpp: a byte array with an in and an out     *)
(* position.  It has one cell more than it holds, so that in = out means   *)
(* empty only.  A ring is a record; an operation maps rings to rings.      *)
(***************************************************************************)
EXTENDS Integers, Sequences

CONSTANT BUFFER_SIZE      \* 6000 in the code

ASSUME BufferAssumption == BUFFER_SIZE \in Nat \ {0}

ACTUAL_SIZE == BUFFER_SIZE + 1
Positions == 0 .. BUFFER_SIZE

\* The macros, on iInPos_ and iOutPos_
GetUseSize(in, out) == IF in >= out THEN in - out ELSE ACTUAL_SIZE - out + in

GetFreeSize(in, out) == BUFFER_SIZE - GetUseSize(in, out)

\* Cells that can be written, or read, without going round the end
GetDirectEnqueueSizeToEnd(in, out) ==                           \* mutant
    IF in >= out THEN ACTUAL_SIZE - in ELSE out - in - 1
GetDirectEnqueueSize(in, out) ==
    IF in >= out
    THEN IF out > 0 THEN ACTUAL_SIZE - in ELSE BUFFER_SIZE - in
    ELSE out - in - 1

GetDirectDequeueSize(in, out) == IF in >= out THEN in - out ELSE ACTUAL_SIZE - out

MoveInOrOutPosShort(pos, n) == (pos + n) % BUFFER_SIZE          \* mutant
MoveInOrOutPos(pos, n) == (pos + n) % ACTUAL_SIZE

\* memcpy to and from Buffer_, which never crosses its end
Store(buffer, at, bytes) ==
    [i \in Positions |-> IF i \in at .. at + Len(bytes) - 1 THEN bytes[i - at + 1] ELSE buffer[i]]
Load(buffer, at, n) == [i \in 1 .. n |-> buffer[at + i - 1]]

ClearBuffer(ring) == [ring EXCEPT !.iInPos = 0, !.iOutPos = 0]
MoveInPos(ring, n) == [ring EXCEPT !.iInPos = MoveInOrOutPos(@, n)]
MoveOutPos(ring, n) == [ring EXCEPT !.iOutPos = MoveInOrOutPos(@, n)]
UseSize(ring) == GetUseSize(ring.iInPos, ring.iOutPos)

\* Peek and Dequeue copy in one or two parts, and nothing if n cells are not there
Peek(ring, n) ==
    IF n > UseSize(ring)
    THEN <<>>
    ELSE LET direct == GetDirectDequeueSize(ring.iInPos, ring.iOutPos)
             first == IF direct > n THEN n ELSE direct
         IN Load(ring.buffer, ring.iOutPos, first) \o Load(ring.buffer, 0, n - first)

Dequeue(ring, n) == IF n > UseSize(ring) THEN ring ELSE MoveOutPos(ring, n)
=============================================================================
