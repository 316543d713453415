--------------------------- MODULE NetClientProofs ---------------------------
(***************************************************************************)
(* Proofs about NetClient, for any number of slots, workers, calls and     *)
(* late calls: its state is typed, refCnt_ counts what uses a slot exactly *)
(* and no slot is released under its users; a slot is in one place at a    *)
(* time, an armed timer finds its session in ReconnectQ_, and a slot has   *)
(* at most one recv.                                                       *)
(***************************************************************************)
EXTENDS NetClientProps, FiniteSetTheorems, SequenceTheorems, TLAPS

-----------------------------------------------------------------------------
(* Sequences and overlapped I/O *)

\* The number of occurrences in a sequence is a number.
LEMMA OccursInt == \A S, p : \A q \in Seq(S) : Occurs(p, q) \in Nat
<1> TAKE S, p
<1> TAKE q \in Seq(S)
<1>1. DOMAIN q = 1 .. Len(q) /\ Len(q) \in Nat
  OBVIOUS
<1>2. IsFiniteSet(1 .. Len(q))
  BY <1>1, FS_Interval
<1>3. IsFiniteSet({i \in DOMAIN q : q[i] = p})
  BY <1>1, <1>2, FS_Subset
<1> QED BY <1>3, FS_CardinalityType DEF Occurs

IoType == [Sessions -> [IoKinds -> Nat]]

\* Starting, taking and completing I/O keep the counts of I/O natural numbers.
LEMMA IoTyped ==
  ASSUME io \in IoType, NEW s \in Sessions,
         \/ UNCHANGED io
         \/ \E k \in IoKinds : Started(s, k) \/ Taken(s, k)
         \/ \E a, b \in IoKinds, n \in Nat : Complete(s, a, b, n)
  PROVE  io' \in IoType
<1> USE DEF IoType
<1>1. ASSUME NEW k \in IoKinds, Started(s, k) PROVE io' \in IoType
  BY <1>1 DEF Started
<1>2. ASSUME NEW k \in IoKinds, Taken(s, k) PROVE io' \in IoType
  BY <1>2 DEF Taken
<1>3. ASSUME NEW a \in IoKinds, NEW b \in IoKinds, NEW n \in Nat, Complete(s, a, b, n) PROVE io' \in IoType
  BY <1>3 DEF Complete
<1> QED BY <1>1, <1>2, <1>3

\* WSASend or WSARecv accepted: one more outstanding on its slot, no other slot
LEMMA IoStarted ==
  ASSUME io \in IoType, NEW s \in Sessions, NEW k \in IoKinds, Started(s, k)
  PROVE  \A x \in Sessions : Outstanding(x)' = Outstanding(x) + IF x = s THEN 1 ELSE 0
<1> USE DEF Started, Outstanding, IoType, IoKinds
<1>1. \A j \in IoKinds : io[s][j] \in Nat /\ io'[s][j] = io[s][j] + IF j = k THEN 1 ELSE 0
  OBVIOUS
<1>3. \A x \in Sessions \ {s} : io'[x] = io[x] /\ Outstanding(x) \in Nat
  OBVIOUS
<1> QED BY <1>1, <1>3

\* A completion handed to a worker: one less outstanding on its slot, which had one
LEMMA IoTaken ==
  ASSUME io \in IoType, NEW s \in Sessions, NEW k \in IoKinds, Taken(s, k)
  PROVE  /\ \A x \in Sessions : Outstanding(x)' = Outstanding(x) - IF x = s THEN 1 ELSE 0
         /\ Outstanding(s) > 0
<1> USE DEF Taken, Outstanding, IoType, IoKinds
<1>1. \A j \in IoKinds : io[s][j] \in Nat /\ io'[s][j] = io[s][j] - IF j = k THEN 1 ELSE 0
  OBVIOUS
<1>3. \A x \in Sessions \ {s} : io'[x] = io[x] /\ Outstanding(x) \in Nat
  OBVIOUS
<1> QED BY <1>1, <1>3

\* A completion, cancelled or not, moves I/O from the kernel to the completion port:
\* what is outstanding on a slot stays the same number.
LEMMA IoCompleted ==
  ASSUME io \in IoType, NEW s \in Sessions, NEW n \in Nat, NEW a \in IoKinds, NEW b \in IoKinds, a # b, Complete(s, a, b, n)
  PROVE  \A x \in Sessions : Outstanding(x)' = Outstanding(x)
<1> USE DEF Complete, Outstanding, IoType, IoKinds
<1>1. \A j \in IoKinds : io[s][j] \in Nat /\ io'[s][j] = io[s][j] + IF j = a THEN - n ELSE IF j = b THEN n ELSE 0
  OBVIOUS
<1>3. \A x \in Sessions \ {s} : io'[x] = io[x] /\ Outstanding(x) \in Nat
  OBVIOUS
<1> QED BY <1>1, <1>3

\* The I/O outstanding on a slot is a natural number.
LEMMA OutstandingNat ==
  ASSUME io \in IoType
  PROVE  \A s \in Sessions : Outstanding(s) \in Nat
BY DEF IoType, Outstanding, IoKinds

-----------------------------------------------------------------------------
(* Types, one part of TypeOK at a time *)

\* refCnt_ and the fields of a session keep their types.
LEMMA SessionTyped == TypeOK /\ [Next]_vars => TypeSession'
<1> SUFFICES ASSUME TypeOK, [Next]_vars PROVE TypeSession'
  OBVIOUS
<1> USE DEF TypeOK, TypeSession, refs, session
<1>1. ASSUME OwnerStep PROVE TypeSession'
  <2>1. CASE TakeJob \/ FreeSmart
    BY <2>1 DEF TakeJob, FreeSmart
  <2>2. CASE Connect
    <3>1. stack # <<>> => Head(stack) \in Sessions
      BY DEF TypeKernel
    <3> QED BY <2>2, <3>1, RetryAssumption DEF Connect
  <2>3. CASE SendPacket
    BY <2>3 DEF SendPacket, TypeOwner, Handles, GET_SESSION_INDEX, Enter
  <2>4. CASE Disconnect
    BY <2>4 DEF Disconnect, TypeOwner, Handles, GET_SESSION_INDEX, Enter
  <2> QED BY <1>1, <2>1, <2>2, <2>3, <2>4 DEF OwnerStep
<1>2. ASSUME NEW t \in Threads, NEW s \in Sessions, CallStep(t, s) PROVE TypeSession'
  <2>1. CASE \/ SpCheck(t, s) \/ SpEnq(t, s) \/ SendPost(t, s) \/ PostN(t, s)
             \/ PostDisc(t, s) \/ DcCheck(t, s) \/ DcCancelSend(t, s)
             \/ DcCancelRecv(t, s)
    BY <2>1 DEF SpCheck, SpEnq, SendPost, PostN, PostDisc, DcCheck, DcCancelSend,
                DcCancelRecv
  <2>2. CASE RelNotify(t, s) \/ RelPush(t, s)
    BY <2>2 DEF RelNotify, RelPush
  <2>3. CASE PostX(t, s) \/ PostU(t, s) \/ DcX(t, s)
    BY <2>3 DEF PostX, PostU, DcX
  <2>4. CASE PostIo(t, s)
    BY <2>4 DEF PostIo, IoRefused
  <2>5. CASE Decrement(t, s)
    BY <2>5 DEF Decrement
  <2>6. CASE ReleaseSession(t, s)
    BY <2>6 DEF ReleaseSession
  <2> QED BY <1>2, <2>1, <2>2, <2>3, <2>4, <2>5, <2>6 DEF CallStep
<1>3. ASSUME NEW w \in Workers, NEW s \in Sessions, HandleStep(w, s) PROVE TypeSession'
  <2>1. CASE RecvMessage(w, s) \/ RecvEnd(w, s) \/ RpDisc(w, s)
    BY <2>1 DEF RecvMessage, RecvEnd, RpDisc
  <2>2. CASE CnClear(w, s)
    BY <2>2 DEF CnClear
  <2>3. CASE CnInit(w, s)
    BY <2>3 DEF CnInit, TypeOwner, Handles
  <2>4. CASE SnClear(w, s)
    BY <2>4 DEF SnClear
  <2>5. CASE RecvBad(w, s)
    BY <2>5 DEF RecvBad, Enter
  <2>6. CASE RecvPost(w, s)
    BY <2>6 DEF RecvPost, IoRefused
  <2> QED BY <1>3, <2>1, <2>2, <2>3, <2>4, <2>5, <2>6 DEF HandleStep
<1>4. ASSUME NEW w \in Workers, NEW s \in Sessions, GetStep(w, s) PROVE TypeSession'
  <2>1. CASE GetReconnect(w, s) \/ GetDead(w, s) \/ GetRecv(w, s) \/ GetSent(w, s)
    BY <2>1 DEF GetReconnect, GetDead, GetRecv, GetSent
  <2>2. CASE GetConnect(w, s)
    BY <2>2 DEF GetConnect
  <2>3. CASE GetConnectFail(w, s)
    BY <2>3 DEF GetConnectFail
  <2> QED BY <1>4, <2>1, <2>2, <2>3 DEF GetStep
<1>5. ASSUME NEW w \in Workers, CfTimer(w) \/ CfNotify(w) PROVE TypeSession'
  BY <1>5 DEF CfTimer, CfNotify
<1>6. ASSUME NEW s \in Sessions, KernelStep(s) PROVE TypeSession'
  BY <1>6 DEF KernelStep, ConnectDone, PeerDown, RecvDone, SendDone, IoDead, Outside
<1>7. ASSUME TimerFire PROVE TypeSession'
  BY <1>7 DEF TimerFire, Outside
<1>8. CASE UNCHANGED vars
  BY <1>8 DEF vars
<1> QED BY <1>1, <1>2, <1>3, <1>4, <1>5, <1>6, <1>7, <1>8 DEF Next

\* Only SendPacket leads to the labels of a send, and it brings a packet.
LEMMA SendingPacketKept == TypeOK /\ SendingPacket /\ [Next]_vars => SendingPacket'
<1> SUFFICES ASSUME TypeOK /\ SendingPacket, [Next]_vars, NEW u \in Threads, pc'[u] \in {"spCheck", "spEnq"} PROVE u = Owner /\ sp' \in Packets
  BY DEF SendingPacket
<1> USE DEF TypeOK, TypeThread, TypePackets, SendingPacket, thread, packets, Goto, At
<1>1. ASSUME OwnerStep PROVE u = Owner /\ sp' \in Packets
  <2>1. CASE TakeJob \/ Connect \/ Disconnect
    BY <2>1 DEF TakeJob, Connect, Disconnect, Enter
  <2>2. CASE SendPacket
    BY <2>2, BoundAssumption, ThreadAssumption
    DEF SendPacket, Enter, Packets
  <2>3. CASE FreeSmart
    BY <2>3 DEF FreeSmart, Stay, Threads
  <2> QED BY <1>1, <2>1, <2>2, <2>3 DEF OwnerStep
<1>2. ASSUME NEW t \in Threads, NEW s \in Sessions, CallStep(t, s) PROVE u = Owner /\ sp' \in Packets
  <2>1. CASE SpCheck(t, s) \/ SpEnq(t, s) \/ SendPost(t, s) \/ PostX(t, s)
    BY <2>1 DEF SpCheck, SpEnq, SendPost, PostX, Stay
  <2>2. CASE PostN(t, s) \/ PostU(t, s) \/ PostIo(t, s) \/ PostDisc(t, s)
    BY <2>2 DEF PostN, PostU, PostIo, PostDisc, Stay, IoRefused
  <2>3. CASE DcCheck(t, s) \/ DcX(t, s) \/ DcCancelSend(t, s) \/ DcCancelRecv(t, s)
    BY <2>3 DEF DcCheck, DcX, DcCancelSend, DcCancelRecv, Stay
  <2>4. CASE Decrement(t, s) \/ ReleaseSession(t, s) \/ RelNotify(t, s) \/ RelPush(t, s)
    BY <2>4 DEF Decrement, ReleaseSession, RelNotify, RelPush, Return, Stay
  <2> QED BY <1>2, <2>1, <2>2, <2>3, <2>4 DEF CallStep
<1>3. ASSUME NEW w \in Workers, NEW s \in Sessions, HandleStep(w, s) PROVE u = Owner /\ sp' \in Packets
  <2>1. CASE CnClear(w, s) \/ CnInit(w, s) \/ SnClear(w, s) \/ RecvMessage(w, s)
    BY <2>1 DEF CnClear, CnInit, SnClear, RecvMessage, Stay
  <2>2. CASE RecvBad(w, s) \/ RecvEnd(w, s) \/ RecvPost(w, s) \/ RpDisc(w, s)
    BY <2>2 DEF RecvBad, RecvEnd, RecvPost, RpDisc, Enter, Stay, IoRefused
  <2> QED BY <1>3, <2>1, <2>2 DEF HandleStep
<1>4. ASSUME NEW w \in Workers, NEW s \in Sessions, GetStep(w, s) PROVE u = Owner /\ sp' \in Packets
  <2>1. CASE \/ GetConnect(w, s) \/ GetConnectFail(w, s) \/ GetReconnect(w, s)
             \/ GetDead(w, s)
    BY <2>1 DEF GetConnect, GetConnectFail, GetReconnect, GetDead, Take, Requeue, GiveUp
  <2>2. CASE GetRecv(w, s) \/ GetSent(w, s)
    BY <2>2 DEF GetRecv, GetSent, Take
  <2> QED BY <1>4, <2>1, <2>2 DEF GetStep
<1>5. ASSUME NEW w \in Workers, CfTimer(w) \/ CfNotify(w) PROVE u = Owner /\ sp' \in Packets
  BY <1>5 DEF CfTimer, CfNotify, Stay
<1>6. ASSUME NEW s \in Sessions, KernelStep(s) PROVE u = Owner /\ sp' \in Packets
  <2>1. CASE ConnectDone(s) \/ PeerDown(s) \/ RecvDone(s) \/ SendDone(s)
    BY <2>1 DEF ConnectDone, PeerDown, RecvDone, SendDone, Outside
  <2>2. CASE IoDead(s)
    BY <2>2 DEF IoDead, Outside
  <2> QED BY <1>6, <2>1, <2>2 DEF KernelStep
<1>7. ASSUME TimerFire PROVE u = Owner /\ sp' \in Packets
  BY <1>7 DEF TimerFire, Outside
<1>8. CASE UNCHANGED vars
  BY <1>8 DEF vars
<1> QED BY <1>1, <1>2, <1>3, <1>4, <1>5, <1>6, <1>7, <1>8 DEF Next

\* Send queues, send arrays and packets keep their types.
LEMMA PacketsTyped == TypeOK /\ SendingPacket /\ [Next]_vars => TypePackets'
<1> SUFFICES ASSUME TypeOK /\ SendingPacket, [Next]_vars PROVE TypePackets'
  OBVIOUS
<1> USE DEF TypeOK, TypePackets, sends, packets
<1>1. ASSUME OwnerStep PROVE TypePackets'
  <2>1. CASE TakeJob \/ Connect \/ Disconnect
    BY <2>1 DEF TakeJob, Connect, Disconnect
  <2>2. CASE SendPacket
    BY <2>2, BoundAssumption
    DEF SendPacket, Packets
  <2>3. CASE FreeSmart
    <3>1. <<sp>> \in Seq(Packets \cup {0})
      OBVIOUS
    <3>2. \A p : Occurs(p, <<sp>>) \in Nat
      BY <3>1, OccursInt
    <3> QED BY <2>3, <3>2 DEF FreeSmart, Unref
  <2> QED BY <1>1, <2>1, <2>2, <2>3 DEF OwnerStep
<1>2. ASSUME NEW t \in Threads, NEW s \in Sessions, CallStep(t, s) PROVE TypePackets'
  <2>1. CASE \/ SpCheck(t, s) \/ SendPost(t, s) \/ PostX(t, s) \/ PostU(t, s)
             \/ PostIo(t, s) \/ PostDisc(t, s) \/ DcCheck(t, s) \/ DcX(t, s)
    BY <2>1 DEF SpCheck, SendPost, PostX, PostU, PostIo, PostDisc, DcCheck, DcX, Stay
  <2>2. CASE \/ DcCancelSend(t, s) \/ DcCancelRecv(t, s) \/ Decrement(t, s)
             \/ ReleaseSession(t, s) \/ RelPush(t, s)
    BY <2>2 DEF DcCancelSend, DcCancelRecv, Decrement, ReleaseSession, RelPush, Stay
  <2>3. CASE SpEnq(t, s)
    <3>1. sp \in Packets
      BY <2>3 DEF SpEnq, At, SendingPacket
    <3> QED BY <2>3, <3>1 DEF SpEnq
  <2>4. CASE PostN(t, s)
    <3> DEFINE n == IF Len(sendQ[s]) < Batch THEN Len(sendQ[s]) ELSE Batch
    <3>1. n \in 0 .. Len(sendQ[s]) /\ sendQ[s] \in Seq(Packets)
      BY BatchAssumption
    <3>2. SubSeq(sendQ[s], 1, n) \in Seq(Packets) /\ SubSeq(sendQ[s], n + 1, Len(sendQ[s])) \in Seq(Packets)
      BY <3>1
    <3> HIDE DEF n
    <3> QED BY <2>4, <3>2 DEF PostN, n
  <2>5. CASE RelNotify(t, s)
    <3>1. sendArr[s] \o sendQ[s] \in Seq(Packets)
      OBVIOUS
    <3>2. \A p : Occurs(p, sendArr[s] \o sendQ[s]) \in Nat
      BY <3>1, OccursInt
    <3> QED BY <2>5, <3>2 DEF RelNotify, Drain, Unref
  <2> QED BY <1>2, <2>1, <2>2, <2>3, <2>4, <2>5 DEF CallStep
<1>3. ASSUME NEW w \in Workers, NEW s \in Sessions, HandleStep(w, s) PROVE TypePackets'
  <2>1. CASE \/ CnClear(w, s) \/ SnClear(w, s) \/ RecvMessage(w, s)
             \/ RecvBad(w, s) \/ RecvEnd(w, s) \/ RecvPost(w, s) \/ RpDisc(w, s)
    BY <2>1 DEF CnClear, SnClear, RecvMessage, RecvBad, RecvEnd, RecvPost, RpDisc, Stay
  <2>2. CASE CnInit(w, s)
    BY <2>2 DEF CnInit
  <2> QED BY <1>3, <2>1, <2>2 DEF HandleStep
<1>4. ASSUME NEW w \in Workers, NEW s \in Sessions, GetStep(w, s) PROVE TypePackets'
  <2>1. CASE \/ GetConnect(w, s) \/ GetConnectFail(w, s) \/ GetReconnect(w, s)
             \/ GetDead(w, s) \/ GetRecv(w, s)
    BY <2>1 DEF GetConnect, GetConnectFail, GetReconnect, GetDead, GetRecv
  <2>2. CASE GetSent(w, s)
    BY <2>2, OccursInt
    DEF GetSent, Unref
  <2> QED BY <1>4, <2>1, <2>2 DEF GetStep
<1>5. ASSUME NEW w \in Workers, CfTimer(w) \/ CfNotify(w) PROVE TypePackets'
  BY <1>5 DEF CfTimer, CfNotify, Stay
<1>6. ASSUME NEW s \in Sessions, KernelStep(s) PROVE TypePackets'
  BY <1>6 DEF KernelStep, ConnectDone, PeerDown, RecvDone, SendDone, IoDead, Outside
<1>7. ASSUME TimerFire PROVE TypePackets'
  BY <1>7 DEF TimerFire, Outside
<1>8. CASE UNCHANGED vars
  BY <1>8 DEF vars
<1> QED BY <1>1, <1>2, <1>3, <1>4, <1>5, <1>6, <1>7, <1>8 DEF Next

\* The kernel's state, the stack and the queue of slots keep their types.
LEMMA KernelTyped == TypeOK /\ [Next]_vars => TypeKernel'
<1> SUFFICES ASSUME TypeOK, [Next]_vars PROVE TypeKernel'
  OBVIOUS
<1> USE DEF TypeOK, TypeKernel, kernel, slots
<1>1. ASSUME OwnerStep PROVE TypeKernel'
  <2>1. CASE TakeJob \/ SendPacket \/ Disconnect \/ FreeSmart
    BY <2>1 DEF TakeJob, SendPacket, Disconnect, FreeSmart
  <2>2. CASE Connect
    <3>1. stack # <<>> => Head(stack) \in Sessions /\ Tail(stack) \in Seq(Sessions)
      OBVIOUS
    <3> QED BY <2>2, <3>1 DEF Connect
  <2> QED BY <1>1, <2>1, <2>2 DEF OwnerStep
<1>2. ASSUME NEW t \in Threads, NEW s \in Sessions, CallStep(t, s) PROVE TypeKernel'
  <2>1. CASE \/ SpCheck(t, s) \/ SpEnq(t, s) \/ SendPost(t, s) \/ PostX(t, s)
             \/ PostN(t, s) \/ PostU(t, s) \/ DcCheck(t, s) \/ DcX(t, s)
    BY <2>1 DEF SpCheck, SpEnq, SendPost, PostX, PostN, PostU, DcCheck, DcX
  <2>2. CASE Decrement(t, s) \/ ReleaseSession(t, s)
    BY <2>2 DEF Decrement, ReleaseSession
  <2>3. CASE PostIo(t, s)
    <3>1. io' \in IoType
      BY <2>3, IoTyped, SMTT(30) DEF PostIo, IoKinds, IoType, IoRefused
    <3> QED BY <2>3, <3>1 DEF PostIo, IoType
  <2>4. CASE PostDisc(t, s)
    <3>1. io' \in IoType
      BY <2>4, IoTyped, SMTT(30) DEF PostDisc, IoKinds, IoType, Cancel
    <3> QED BY <2>4, <3>1 DEF PostDisc, IoType
  <2>5. CASE DcCancelSend(t, s)
    <3>1. io' \in IoType
      BY <2>5, IoTyped, SMTT(30) DEF DcCancelSend, IoKinds, IoType, Cancel
    <3> QED BY <2>5, <3>1 DEF DcCancelSend, IoType
  <2>6. CASE DcCancelRecv(t, s)
    <3>1. io' \in IoType
      BY <2>6, IoTyped, SMTT(30) DEF DcCancelRecv, IoKinds, IoType, Cancel
    <3> QED BY <2>6, <3>1 DEF DcCancelRecv, IoType
  <2>7. CASE RelNotify(t, s)
    BY <2>7 DEF RelNotify
  <2>8. CASE RelPush(t, s)
    BY <2>8 DEF RelPush
  <2> QED BY <1>2, <2>1, <2>2, <2>3, <2>4, <2>5, <2>6, <2>7, <2>8 DEF CallStep
<1>3. ASSUME NEW w \in Workers, NEW s \in Sessions, HandleStep(w, s) PROVE TypeKernel'
  <2>1. CASE \/ CnClear(w, s) \/ CnInit(w, s) \/ SnClear(w, s)
             \/ RecvMessage(w, s) \/ RecvBad(w, s) \/ RecvEnd(w, s)
    BY <2>1 DEF CnClear, CnInit, SnClear, RecvMessage, RecvBad, RecvEnd
  <2>2. CASE RecvPost(w, s)
    <3>1. io' \in IoType
      BY <2>2, IoTyped DEF RecvPost, IoKinds, IoType, IoRefused
    <3> QED BY <2>2, <3>1 DEF RecvPost, IoType
  <2>3. CASE RpDisc(w, s)
    <3>1. io' \in IoType
      BY <2>3, IoTyped DEF RpDisc, IoKinds, IoType, Cancel
    <3> QED BY <2>3, <3>1 DEF RpDisc, IoType
  <2> QED BY <1>3, <2>1, <2>2, <2>3 DEF HandleStep
<1>4. ASSUME NEW w \in Workers, NEW s \in Sessions, GetStep(w, s) PROVE TypeKernel'
  <2>1. CASE GetConnect(w, s)
    BY <2>1 DEF GetConnect
  <2>2. CASE GetConnectFail(w, s)
    <3>1. <<s>> \o stack \in Seq(Sessions) /\ Append(reconQ, s) \in Seq(Sessions)
      OBVIOUS
    <3>2. \/ stack' = stack /\ reconQ' = Append(reconQ, s)
          \/ stack' = <<s>> \o stack /\ reconQ' = reconQ
      BY <2>2 DEF GetConnectFail, Requeue, GiveUp
    <3> QED BY <2>2, <3>1, <3>2 DEF GetConnectFail
  <2>3. CASE GetReconnect(w, s)
    BY <2>3 DEF GetReconnect
  <2>4. CASE GetDead(w, s)
    <3>1. io' \in IoType
      BY <2>4, IoTyped DEF GetDead, IoKinds, IoType
    <3> QED BY <2>4, <3>1 DEF GetDead, IoType
  <2>5. CASE GetRecv(w, s)
    <3>1. io' \in IoType
      BY <2>5, IoTyped DEF GetRecv, IoKinds, IoType
    <3> QED BY <2>5, <3>1 DEF GetRecv, IoType
  <2>6. CASE GetSent(w, s)
    <3>1. io' \in IoType
      BY <2>6, IoTyped DEF GetSent, IoKinds, IoType
    <3> QED BY <2>6, <3>1 DEF GetSent, IoType
  <2> QED BY <1>4, <2>1, <2>2, <2>3, <2>4, <2>5, <2>6 DEF GetStep
<1>5. ASSUME NEW w \in Workers, CfTimer(w) \/ CfNotify(w) PROVE TypeKernel'
  <2>1. CASE CfNotify(w)
    BY <2>1 DEF CfNotify
  <2>2. CASE CfTimer(w)
    BY <2>2 DEF CfTimer
  <2> QED BY <1>5, <2>1, <2>2
<1>6. ASSUME NEW s \in Sessions, KernelStep(s) PROVE TypeKernel'
  <2>1. CASE ConnectDone(s)
    BY <2>1 DEF ConnectDone, Outside
  <2>2. CASE PeerDown(s)
    BY <2>2 DEF PeerDown, Outside
  <2>3. CASE RecvDone(s)
    <3>1. io' \in IoType
      BY <2>3, IoTyped DEF RecvDone, IoKinds, IoType
    <3> QED BY <2>3, <3>1 DEF RecvDone, IoType, Outside
  <2>4. CASE SendDone(s)
    <3>1. io' \in IoType
      BY <2>4, IoTyped DEF SendDone, IoKinds, IoType
    <3> QED BY <2>4, <3>1 DEF SendDone, IoType, Outside
  <2>5. CASE IoDead(s)
    <3>1. io' \in IoType
      BY <2>5, IoTyped DEF IoDead, IoKinds, IoType
    <3> QED BY <2>5, <3>1 DEF IoDead, IoType, Outside
  <2> QED BY <1>6, <2>1, <2>2, <2>3, <2>4, <2>5 DEF KernelStep
<1>7. ASSUME TimerFire PROVE TypeKernel'
  <2>1. CASE reconQ = <<>>
    BY <1>7, <2>1 DEF TimerFire, Outside
  <2>2. CASE reconQ # <<>>
    <3>1. Head(reconQ) \in Sessions /\ Tail(reconQ) \in Seq(Sessions)
      BY <2>2
    <3>2. timers > 0 /\ timers' = timers - 1
          /\ posted' = posted \cup {Head(reconQ)} /\ reconQ' = Tail(reconQ)
      BY <1>7, <2>2, Zenon DEF TimerFire
    <3>3. UNCHANGED <<con, up, io, stack>>
      BY <1>7 DEF TimerFire, Outside
    <3> QED BY <3>1, <3>2, <3>3
  <2> QED BY <2>1, <2>2
<1>8. CASE UNCHANGED vars
  BY <1>8 DEF vars
<1> QED BY <1>1, <1>2, <1>3, <1>4, <1>5, <1>6, <1>7, <1>8 DEF Next

\* Threads stay at their labels and on slots of the array.
LEMMA ThreadTyped == TypeOK /\ [Next]_vars => TypeThread'
<1> SUFFICES ASSUME TypeOK, [Next]_vars PROVE TypeThread'
  OBVIOUS
<1> USE DEF TypeOK, TypeThread, thread, Labels, Threads
<1>1. ASSUME OwnerStep PROVE TypeThread'
  <2>1. CASE TakeJob \/ Connect
    BY <2>1 DEF TakeJob, Connect
  <2>2. CASE SendPacket
    BY <2>2 DEF SendPacket, Enter, Goto, TypeOwner, Handles, GET_SESSION_INDEX
  <2>3. CASE Disconnect
    BY <2>3 DEF Disconnect, Enter, Goto, TypeOwner, Handles, GET_SESSION_INDEX
  <2>4. CASE FreeSmart
    BY <2>4 DEF FreeSmart, Stay, Goto
  <2> QED BY <1>1, <2>1, <2>2, <2>3, <2>4 DEF OwnerStep
<1>2. ASSUME NEW t \in Threads, NEW s \in Sessions, CallStep(t, s) PROVE TypeThread'
  <2>1. CASE SpCheck(t, s) \/ SpEnq(t, s) \/ SendPost(t, s)
    BY <2>1 DEF SpCheck, SpEnq, SendPost, Goto, Stay
  <2>2. CASE PostX(t, s) \/ PostU(t, s) \/ PostN(t, s)
    BY <2>2 DEF PostX, PostU, PostN, Goto, Stay
  <2>3. CASE PostIo(t, s)
    BY <2>3 DEF PostIo, Goto, Stay, IoRefused
  <2>4. CASE PostDisc(t, s)
    BY <2>4 DEF PostDisc, Goto, Stay
  <2>5. CASE DcCheck(t, s) \/ DcX(t, s) \/ DcCancelSend(t, s) \/ DcCancelRecv(t, s)
    BY <2>5 DEF DcCheck, DcX, DcCancelSend, DcCancelRecv, Goto, Stay
  <2>6. CASE Decrement(t, s)
    BY <2>6 DEF Decrement, Goto, Return
  <2>7. CASE ReleaseSession(t, s)
    BY <2>7 DEF ReleaseSession, Goto, Return
  <2>8. CASE RelNotify(t, s)
    BY <2>8 DEF RelNotify, Goto, Stay
  <2>9. CASE RelPush(t, s)
    BY <2>9 DEF RelPush, Goto, Return
  <2> QED BY <1>2, <2>1, <2>2, <2>3, <2>4, <2>5, <2>6, <2>7, <2>8, <2>9 DEF CallStep
<1>3. ASSUME NEW w \in Workers, NEW s \in Sessions, HandleStep(w, s) PROVE TypeThread'
  <2>1. CASE CnClear(w, s) \/ CnInit(w, s) \/ SnClear(w, s)
    BY <2>1 DEF CnClear, CnInit, SnClear, Goto, Stay
  <2>2. CASE RecvMessage(w, s) \/ RecvEnd(w, s) \/ RpDisc(w, s)
    BY <2>2 DEF RecvMessage, RecvEnd, RpDisc, Goto, Stay
  <2>3. CASE RecvBad(w, s)
    BY <2>3 DEF RecvBad, Goto, Enter
  <2>4. CASE RecvPost(w, s)
    BY <2>4 DEF RecvPost, Goto, Stay, IoRefused
  <2> QED BY <1>3, <2>1, <2>2, <2>3, <2>4 DEF HandleStep
<1>4. ASSUME NEW w \in Workers, NEW s \in Sessions, GetStep(w, s) PROVE TypeThread'
  <2>1. CASE GetConnect(w, s)
    BY <2>1 DEF GetConnect, Goto, Take
  <2>2. CASE GetConnectFail(w, s)
    BY <2>2 DEF GetConnectFail, Goto, Take, Requeue, GiveUp
  <2>3. CASE GetReconnect(w, s)
    BY <2>3 DEF GetReconnect, Take
  <2>4. CASE GetDead(w, s) \/ GetRecv(w, s) \/ GetSent(w, s)
    BY <2>4 DEF GetDead, GetRecv, GetSent, Goto, Take
  <2> QED BY <1>4, <2>1, <2>2, <2>3, <2>4 DEF GetStep
<1>5. ASSUME NEW w \in Workers, CfTimer(w) \/ CfNotify(w) PROVE TypeThread'
  <2>1. CASE CfTimer(w) \/ CfNotify(w)
    BY <2>1 DEF CfTimer, CfNotify, Goto, Stay
  <2> QED BY <1>5, <2>1
<1>6. ASSUME NEW s \in Sessions, KernelStep(s) PROVE TypeThread'
  BY <1>6 DEF KernelStep, ConnectDone, PeerDown, RecvDone, SendDone, IoDead, Outside
<1>7. ASSUME TimerFire PROVE TypeThread'
  BY <1>7 DEF TimerFire, Outside
<1>8. CASE UNCHANGED vars
  BY <1>8 DEF vars
<1> QED BY <1>1, <1>2, <1>3, <1>4, <1>5, <1>6, <1>7, <1>8 DEF Next

\* What Owner knows, the jobs and the counters keep their types.
LEMMA OwnerTyped == TypeOK /\ [Next]_vars => TypeOwner'
<1> SUFFICES ASSUME TypeOK, [Next]_vars PROVE TypeOwner'
  OBVIOUS
<1> USE DEF TypeOK, TypeOwner, calls, slots
<1>1. ASSUME OwnerStep PROVE TypeOwner'
  <2>1. CASE FreeSmart
    BY <2>1 DEF FreeSmart, Stay
  <2>2. CASE TakeJob
    <3>1. Head(jobs) \in Jobs /\ Tail(jobs) \in Seq(Jobs)
      BY <2>2 DEF TakeJob
    <3>2. known' \subseteq Handles /\ clients' \in Int
      BY <2>2, <3>1 DEF TakeJob, Jobs
    <3> QED BY <2>2, <3>1, <3>2 DEF TakeJob
  <2>3. CASE Connect
    <3>1. CASE stack = <<>>
      BY <2>3, <3>1 DEF Connect
    <3>2. CASE stack # <<>>
      <4>1. {h \in known : GET_SESSION_INDEX(h) # Head(stack)} \subseteq Handles
        OBVIOUS
      <4> QED BY <2>3, <3>2, <4>1, CallAssumption DEF Connect
    <3> QED BY <3>1, <3>2
  <2>4. CASE SendPacket
    BY <2>4 DEF SendPacket, Handles
  <2>5. CASE Disconnect
    BY <2>5 DEF Disconnect, Handles
  <2> QED BY <1>1, <2>1, <2>2, <2>3, <2>4, <2>5 DEF OwnerStep
<1>2. ASSUME NEW t \in Threads, NEW s \in Sessions, CallStep(t, s) PROVE TypeOwner'
  <2>1. CASE \/ SpCheck(t, s) \/ SpEnq(t, s) \/ SendPost(t, s) \/ PostX(t, s)
             \/ PostN(t, s) \/ PostU(t, s) \/ PostIo(t, s) \/ PostDisc(t, s)
    BY <2>1 DEF SpCheck, SpEnq, SendPost, PostX, PostN, PostU, PostIo, PostDisc, Stay
  <2>2. CASE \/ DcCheck(t, s) \/ DcX(t, s) \/ DcCancelSend(t, s)
             \/ DcCancelRecv(t, s) \/ Decrement(t, s) \/ ReleaseSession(t, s)
             \/ RelPush(t, s)
    BY <2>2 DEF DcCheck, DcX, DcCancelSend, DcCancelRecv, Decrement, ReleaseSession,
                RelPush, Stay
  <2>3. CASE RelNotify(t, s)
    <3>1. Job("ON_RELEASE", id[s]) \in Jobs
      BY DEF Job, Jobs, JobTypes, TypeSession
    <3> QED BY <2>3, <3>1 DEF RelNotify, Post, Stay
  <2> QED BY <1>2, <2>1, <2>2, <2>3 DEF CallStep
<1>3. ASSUME NEW w \in Workers, NEW s \in Sessions, HandleStep(w, s) PROVE TypeOwner'
  <2>1. CASE \/ CnClear(w, s) \/ SnClear(w, s) \/ RecvBad(w, s) \/ RecvEnd(w, s)
             \/ RpDisc(w, s)
    BY <2>1 DEF CnClear, SnClear, RecvBad, RecvEnd, RpDisc, Stay
  <2>2. CASE CnInit(w, s)
    <3>1. Job("CONNECT_SUCCESS", <<ids, s>>) \in Jobs
      BY DEF Job, Jobs, JobTypes, Handles
    <3> QED BY <2>2, <3>1 DEF CnInit, Post, Stay
  <2>3. CASE RecvMessage(w, s)
    <3>1. Job("RECV_MESSAGE", id[s]) \in Jobs
      BY DEF Job, Jobs, JobTypes, TypeSession
    <3> QED BY <2>3, <3>1 DEF RecvMessage, Post, Stay
  <2>4. CASE RecvPost(w, s)
    BY <2>4 DEF RecvPost, Stay
  <2> QED BY <1>3, <2>1, <2>2, <2>3, <2>4 DEF HandleStep
<1>4. ASSUME NEW w \in Workers, NEW s \in Sessions, GetStep(w, s) PROVE TypeOwner'
  <2>1. CASE \/ GetConnect(w, s) \/ GetReconnect(w, s) \/ GetDead(w, s)
             \/ GetRecv(w, s) \/ GetSent(w, s)
    BY <2>1 DEF GetConnect, GetReconnect, GetDead, GetRecv, GetSent
  <2>2. CASE GetConnectFail(w, s)
    <3>1. Job("CONNECT_FAIL", id[s]) \in Jobs
      BY DEF Job, Jobs, JobTypes, TypeSession
    <3> QED BY <2>2, <3>1 DEF GetConnectFail, Post, Requeue, GiveUp
  <2> QED BY <1>4, <2>1, <2>2 DEF GetStep
<1>5. ASSUME NEW w \in Workers, CfTimer(w) \/ CfNotify(w) PROVE TypeOwner'
  <2>1. CASE CfTimer(w)
    BY <2>1 DEF CfTimer, Stay
  <2>2. CASE CfNotify(w)
    <3>1. Job("ALL_RECONNECT_FAIL", NoId) \in Jobs
      BY DEF Job, Jobs, JobTypes
    <3> QED BY <2>2, <3>1 DEF CfNotify, Post, Stay
  <2> QED BY <1>5, <2>1, <2>2
<1>6. ASSUME NEW s \in Sessions, KernelStep(s) PROVE TypeOwner'
  <2>1. CASE ConnectDone(s) \/ PeerDown(s) \/ SendDone(s) \/ IoDead(s)
    BY <2>1 DEF ConnectDone, PeerDown, SendDone, IoDead, Outside
  <2>2. CASE RecvDone(s)
    BY <2>2 DEF RecvDone, Outside
  <2> QED BY <1>6, <2>1, <2>2 DEF KernelStep
<1>7. ASSUME TimerFire PROVE TypeOwner'
  BY <1>7
  DEF TimerFire, Outside
<1>8. CASE UNCHANGED vars
  BY <1>8 DEF vars
<1> QED BY <1>1, <1>2, <1>3, <1>4, <1>5, <1>6, <1>7, <1>8 DEF Next

-----------------------------------------------------------------------------
(* Counting references *)

\* The workers and the update thread are finitely many, so refCnt_ can count them.
LEMMA ThreadsFinite == IsFiniteSet(Threads)
BY ThreadAssumption, FS_AddElement DEF Threads

\* A finite set has one element more than it has without x, if x is in it.
LEMMA CardSplit ==
  ASSUME NEW S, IsFiniteSet(S), NEW x
  PROVE  /\ Cardinality(S) \in Nat /\ Cardinality(S \ {x}) \in Nat
         /\ Cardinality(S) = Cardinality(S \ {x}) + One(x \in S)
<1>1. IsFiniteSet(S \ {x}) /\ Cardinality(S) \in Nat
  BY FS_Subset, FS_CardinalityType
<1>2. CASE x \in S
  BY <1>1, <1>2, FS_RemoveElement, FS_CardinalityType DEF One
<1>3. CASE x \notin S
  <2>1. S \ {x} = S
    BY <1>3
  <2> QED BY <1>1, <1>3, <2>1 DEF One
<1> QED BY <1>2, <1>3

\* What thread t contributes to the count of slot s, and all threads together
Share(t, s) == One(at[t] = s /\ pc[t] \in Holding) + One(at[t] = s /\ nest[t])
Refs(s) == Cardinality(Holders(s)) + Cardinality(Nesters(s))

\* A step of thread t leaves the other threads where they are ...
Moves(t) == \A u \in Threads \ {t} :
                pc'[u] = pc[u] /\ at'[u] = at[u] /\ nest'[u] = nest[u]

\* ... and moves refCnt_ by what t and the I/O contribute.
Balanced(t) == \A s \in Sessions :
                   refCnt'[s] - Share(t, s)' - Outstanding(s)'
                   = refCnt[s] - Share(t, s) - Outstanding(s)

\* What one thread contributes to the count of a slot is part of what all contribute.
LEMMA ShareOfRefs ==
  ASSUME NEW t \in Threads, NEW s \in Sessions
  PROVE  Refs(s) \in Nat /\ Share(t, s) \in Nat /\ Refs(s) >= Share(t, s)
<1>1. IsFiniteSet(Holders(s)) /\ IsFiniteSet(Nesters(s))
  BY ThreadsFinite, FS_Subset DEF Holders, Nesters
<1>2. (t \in Holders(s) <=> at[t] = s /\ pc[t] \in Holding)
      /\ (t \in Nesters(s) <=> at[t] = s /\ nest[t])
  BY DEF Holders, Nesters
<1>3. Cardinality(Holders(s)) \in Nat /\ Cardinality(Holders(s) \ {t}) \in Nat
      /\ Cardinality(Holders(s)) = Cardinality(Holders(s) \ {t}) + One(t \in Holders(s))
  BY <1>1, CardSplit
<1>4. Cardinality(Nesters(s)) \in Nat /\ Cardinality(Nesters(s) \ {t}) \in Nat
      /\ Cardinality(Nesters(s)) = Cardinality(Nesters(s) \ {t}) + One(t \in Nesters(s))
  BY <1>1, CardSplit
<1> QED BY <1>2, <1>3, <1>4 DEF Refs, Share, One

\* When one thread moves, the count of a slot changes by its contribution alone.
LEMMA RefsMove ==
  ASSUME NEW t \in Threads, Moves(t), NEW s \in Sessions
  PROVE  /\ Refs(s)' \in Nat /\ Share(t, s)' \in Nat
         /\ Refs(s)' - Share(t, s)' = Refs(s) - Share(t, s)
<1> DEFINE H == Holders(s)  N == Nesters(s)
<1>1. IsFiniteSet(H) /\ IsFiniteSet(N) /\ IsFiniteSet(H') /\ IsFiniteSet(N')
  BY ThreadsFinite, FS_Subset DEF Holders, Nesters
<1>2. /\ (t \in H <=> at[t] = s /\ pc[t] \in Holding) /\ (t \in N <=> at[t] = s /\ nest[t])
      /\ (t \in H' <=> at'[t] = s /\ pc'[t] \in Holding) /\ (t \in N' <=> at'[t] = s /\ nest'[t])
  BY DEF Holders, Nesters, Holding
<1>3. H' \ {t} = H \ {t} /\ N' \ {t} = N \ {t}
  BY DEF Moves, Holders, Nesters, Holding
<1>4. Share(t, s) = One(t \in H) + One(t \in N)
  BY <1>2 DEF Share, One
<1>5. Share(t, s)' = One(t \in H') + One(t \in N')
  <2>1. Share(t, s)' = One(at'[t] = s /\ pc'[t] \in Holding) + One(at'[t] = s /\ nest'[t])
    BY DEF Share, One, Holding
  <2> QED BY <1>2, <2>1 DEF One
<1>7. Cardinality(H) - One(t \in H) = Cardinality(H') - One(t \in H')
      /\ Cardinality(H) \in Nat /\ Cardinality(H') \in Nat
  <2>1. Cardinality(H) \in Nat /\ Cardinality(H \ {t}) \in Nat
        /\ Cardinality(H) = Cardinality(H \ {t}) + One(t \in H)
    BY <1>1, CardSplit
  <2>2. Cardinality(H') \in Nat
        /\ Cardinality(H') = Cardinality(H' \ {t}) + One(t \in H')
    BY <1>1, CardSplit
  <2> QED BY <1>3, <2>1, <2>2 DEF One
<1>8. Cardinality(N) - One(t \in N) = Cardinality(N') - One(t \in N')
      /\ Cardinality(N) \in Nat /\ Cardinality(N') \in Nat
  <2>1. Cardinality(N) \in Nat /\ Cardinality(N \ {t}) \in Nat
        /\ Cardinality(N) = Cardinality(N \ {t}) + One(t \in N)
    BY <1>1, CardSplit
  <2>2. Cardinality(N') \in Nat
        /\ Cardinality(N') = Cardinality(N' \ {t}) + One(t \in N')
    BY <1>1, CardSplit
  <2> QED BY <1>3, <2>1, <2>2 DEF One
<1>9. Refs(s) = Cardinality(H) + Cardinality(N) /\ Refs(s)' = Cardinality(H') + Cardinality(N')
  BY DEF Refs
<1> QED BY <1>4, <1>5, <1>7, <1>8, <1>9 DEF One

\* A step that is balanced for the thread that takes it keeps RefExact.
LEMMA RefExactKept ==
  ASSUME TypeOK, TypeOK', RefExact, NEW t \in Threads, Moves(t), Balanced(t)
  PROVE  RefExact'
<1> SUFFICES ASSUME NEW s \in Sessions PROVE refCnt'[s] = Refs(s)' + Outstanding(s)'
  BY DEF RefExact, Refs
<1>1. refCnt[s] = Refs(s) + Outstanding(s)
  BY DEF RefExact, Refs
<1>2. refCnt[s] \in Int /\ refCnt'[s] \in Int
  BY DEF TypeOK, TypeSession
<1>3. Outstanding(s) \in Nat
  BY OutstandingNat DEF TypeOK, TypeKernel, IoType
<1>4. Outstanding(s)' \in Nat
  <2>1. io' \in [Sessions -> [IoKinds -> Nat]]
    BY DEF TypeOK, TypeKernel
  <2> QED BY <2>1 DEF Outstanding, IoKinds
<1>5. refCnt'[s] - Share(t, s)' - Outstanding(s)' = refCnt[s] - Share(t, s) - Outstanding(s)
  BY DEF Balanced
<1>6. /\ Refs(s) \in Nat /\ Share(t, s) \in Nat /\ Refs(s)' \in Nat /\ Share(t, s)' \in Nat
      /\ Refs(s)' - Share(t, s)' = Refs(s) - Share(t, s)
  BY RefsMove, ShareOfRefs
<1> QED BY <1>1, <1>2, <1>3, <1>4, <1>5, <1>6

\* A thread that keeps its reference, with nothing started or taken
LEMMA KeepsReference ==
  ASSUME NEW t \in Threads, pc[t] \in Holding, pc'[t] \in Holding,
         at'[t] = at[t], nest'[t] = nest[t], UNCHANGED refCnt,
         \A x \in Sessions : Outstanding(x)' = Outstanding(x)
  PROVE  Balanced(t)
<1>1. \A x \in Sessions : Share(t, x)' = Share(t, x)
  BY DEF Share, One, Holding
<1> QED BY <1>1 DEF Balanced

\* A thread that has no reference and takes none
LEMMA KeepsOut ==
  ASSUME NEW t \in Threads, pc[t] \notin Holding, pc'[t] \notin Holding,
         ~nest[t], ~nest'[t], UNCHANGED refCnt,
         \A x \in Sessions : Outstanding(x)' = Outstanding(x)
  PROVE  Balanced(t)
<1>1. \A x \in Sessions : Share(t, x)' = 0 /\ Share(t, x) = 0
  BY DEF Share, One, Holding
<1> QED BY <1>1 DEF Balanced

\* A thread that takes a reference of its own
LEMMA TakesReference ==
  ASSUME TypeOK, TypeOK', NEW t \in Threads, NEW s \in Sessions,
         pc[t] \notin Holding, pc'[t] \in Holding, at'[t] = s, ~nest[t], ~nest'[t],
         refCnt' = [refCnt EXCEPT ![s] = @ + 1],
         \A x \in Sessions : Outstanding(x)' = Outstanding(x)
  PROVE  Balanced(t)
<1>1. \A x \in Sessions : Share(t, x)' = (IF x = s THEN 1 ELSE 0) /\ Share(t, x) = 0
  BY DEF Share, One, Holding
<1>2. \A x \in Sessions : refCnt'[x] = refCnt[x] + IF x = s THEN 1 ELSE 0
  BY DEF TypeOK, TypeSession
<1>3. \A x \in Sessions : refCnt[x] \in Int /\ Outstanding(x) \in Nat
  BY OutstandingNat DEF TypeOK, TypeSession, TypeKernel, IoType
<1> QED BY <1>1, <1>2, <1>3 DEF Balanced

\* A worker that takes over the reference of a completed I/O
LEMMA TakesOverReference ==
  ASSUME TypeOK, TypeOK', NEW t \in Threads, NEW s \in Sessions,
         pc[t] \notin Holding, pc'[t] \in Holding, at'[t] = s, ~nest[t], ~nest'[t],
         UNCHANGED refCnt,
         \A x \in Sessions : Outstanding(x)' = Outstanding(x) - IF x = s THEN 1 ELSE 0
  PROVE  Balanced(t)
<1>1. \A x \in Sessions : Share(t, x)' = (IF x = s THEN 1 ELSE 0) /\ Share(t, x) = 0
  BY DEF Share, One, Holding
<1>3. \A x \in Sessions : refCnt[x] \in Int /\ Outstanding(x) \in Nat
  BY OutstandingNat DEF TypeOK, TypeSession, TypeKernel, IoType
<1> QED BY <1>1, <1>3 DEF Balanced

\* A thread that starts an I/O: it keeps its reference and adds one
LEMMA StartsIo ==
  ASSUME TypeOK, TypeOK', NEW t \in Threads, NEW s \in Sessions, NEW k \in IoKinds,
         pc[t] \in Holding, pc'[t] \in Holding, at'[t] = at[t], nest'[t] = nest[t],
         refCnt' = [refCnt EXCEPT ![s] = @ + 1], Started(s, k)
  PROVE  Balanced(t)
<1>1. \A x \in Sessions : Share(t, x)' = Share(t, x)
  BY DEF Share, One, Holding
<1>2. \A x \in Sessions : refCnt'[x] = refCnt[x] + IF x = s THEN 1 ELSE 0
  BY DEF TypeOK, TypeSession
<1>3. \A x \in Sessions : refCnt[x] \in Int /\ Outstanding(x) \in Nat
  BY OutstandingNat DEF TypeOK, TypeSession, TypeKernel, IoType
<1>5. \A x \in Sessions : Share(t, x) \in Nat
  BY DEF Share, One
<1>4. \A x \in Sessions : Outstanding(x)' = Outstanding(x) + IF x = s THEN 1 ELSE 0
  BY IoStarted DEF TypeOK, TypeKernel, IoType
<1> QED BY <1>1, <1>2, <1>3, <1>4, <1>5 DEF Balanced

\* A step that leaves the threads where they are
LEMMA KeepsThreads ==
  ASSUME NEW t \in Threads, UNCHANGED <<pc, at, nest, refCnt>>,
         \A x \in Sessions : Outstanding(x)' = Outstanding(x)
  PROVE  Moves(t) /\ Balanced(t)
<1>1. \A x \in Sessions : Share(t, x)' = Share(t, x)
  BY DEF Share, One, Holding
<1> QED BY <1>1 DEF Balanced, Moves

\* No I/O touched: the same number outstanding everywhere
LEMMA IoKept == UNCHANGED io => \A x \in Sessions : Outstanding(x)' = Outstanding(x)
BY DEF Outstanding

\* A step that touches neither threads nor counts nor I/O
LEMMA KeepsAll ==
  ASSUME NEW t \in Threads, UNCHANGED <<pc, at, nest, refCnt, io>>
  PROVE  Moves(t) /\ Balanced(t)
BY KeepsThreads, IoKept

\* InterlockedDecrement: the nested reference first, then the thread's own
LEMMA DecrementCounts ==
  ASSUME TypeOK, TypeOK', NestedInDisconnect, NEW t \in Threads, NEW s \in Sessions, Decrement(t, s)
  PROVE  Moves(t) /\ Balanced(t)
<1> USE DEF TypeOK, TypeThread
<1>1. pc[t] = "dec" /\ at[t] = s /\ UNCHANGED <<at, io>>
  BY DEF Decrement, At, kernel
<1>2. refCnt' = [refCnt EXCEPT ![s] = @ - 1]
  BY DEF Decrement
<1>3. \A x \in Sessions : refCnt'[x] = refCnt[x] - IF x = s THEN 1 ELSE 0
  BY <1>2 DEF TypeSession
<1>4. Moves(t)
  BY <1>1 DEF Decrement, Return, Goto, Moves
<1>5. \/ pc'[t] \in {"rel", "idle", "spFree"} /\ nest'[t] = nest[t]
      \/ pc'[t] = "dec" /\ nest[t] /\ ~nest'[t]
  BY DEF Decrement, Return, Goto
<1>6. "dec" \in Holding /\ \A l \in {"rel", "idle", "spFree"} : l \notin Holding
  BY DEF Holding, Labels
<1>7. \A x \in Sessions : Share(t, x)' = Share(t, x) - IF x = s THEN 1 ELSE 0
  BY <1>1, <1>5, <1>6 DEF Share, One, Holding
<1>8. \A x \in Sessions : refCnt[x] \in Int /\ Outstanding(x) \in Nat
  BY OutstandingNat DEF TypeSession, TypeKernel, IoType
<1>9. \A x \in Sessions : Share(t, x) \in Nat
  BY DEF Share, One
<1>10. \A x \in Sessions : Outstanding(x)' = Outstanding(x)
  BY <1>1, IoKept
<1> HIDE DEF TypeOK, TypeThread
<1>11. Balanced(t)
  BY <1>3, <1>7, <1>8, <1>9, <1>10 DEF Balanced
<1> QED BY <1>4, <1>11

\* RecvProc calls Disconnect: a second reference of the same worker
LEMMA RecvBadCounts ==
  ASSUME TypeOK, TypeOK', NestedInDisconnect, NEW w \in Workers, NEW s \in Sessions, RecvBad(w, s)
  PROVE  Moves(w) /\ Balanced(w)
<1> USE DEF TypeOK, TypeThread
<1>0. w \in Threads
  BY DEF Threads
<1>1. pc[w] = "recv" /\ at[w] = s /\ UNCHANGED <<at, io>>
  BY DEF RecvBad, At, kernel
<1>2. ~nest[w] /\ nest'[w] /\ pc[w] \in Holding /\ pc'[w] \in Holding /\ Moves(w)
  BY <1>0, <1>1 DEF RecvBad, Enter, Goto, Moves, NestedInDisconnect, Holding, Labels
<1>3. \A x \in Sessions : refCnt'[x] = refCnt[x] + IF x = s THEN 1 ELSE 0
  BY DEF RecvBad, Enter, TypeSession
<1>4. \A x \in Sessions : Share(w, x)' = Share(w, x) + IF x = s THEN 1 ELSE 0
  BY <1>0, <1>1, <1>2 DEF Share, One, Holding
<1>5. \A x \in Sessions : refCnt[x] \in Int /\ Outstanding(x) \in Nat
  BY OutstandingNat DEF TypeSession, TypeKernel, IoType
<1>6. \A x \in Sessions : Share(w, x) \in Nat
  BY DEF Share, One
<1> QED BY <1>1, <1>2, <1>3, <1>4, <1>5, <1>6, IoKept DEF Balanced

\* What a step does to refCnt_ is what its thread and the I/O do to the count.
LEMMA StepBalanced ==
  TypeOK /\ TypeOK' /\ NestedInDisconnect /\ [Next]_vars => \E t \in Threads : Moves(t) /\ Balanced(t)
<1> SUFFICES ASSUME TypeOK, TypeOK', NestedInDisconnect, [Next]_vars
             PROVE  \E t \in Threads : Moves(t) /\ Balanced(t)
  OBVIOUS
<1> USE DEF TypeOK, TypeThread
<1>0. Owner \in Threads /\ Workers \subseteq Threads
  BY DEF Threads
<1>1. ASSUME OwnerStep PROVE Moves(Owner) /\ Balanced(Owner)
  <2> USE <1>0
  <2>1. CASE TakeJob \/ Connect
    <3>1. UNCHANGED <<pc, at, nest, refCnt, io>>
      BY <2>1
      DEF TakeJob, Connect, Ready, thread, refs, kernel
    <3> QED BY <3>1, KeepsAll
  <2>2. CASE SendPacket \/ Disconnect
    <3>1. UNCHANGED io
      BY <2>2
      DEF SendPacket, Disconnect, Ready, Enter, Goto, At, kernel
    <3>2. pc[Owner] \notin Holding /\ pc'[Owner] \in Holding /\ ~nest[Owner] /\ ~nest'[Owner] /\ Moves(Owner)
      BY <2>2
      DEF SendPacket, Disconnect, Ready, Enter, Goto, At, Moves, Holding, Labels,
          NestedInDisconnect
    <3>3. \E x \in Sessions : at'[Owner] = x /\ refCnt' = [refCnt EXCEPT ![x] = @ + 1]
      BY <2>2
      DEF SendPacket, Disconnect, Ready, Enter, Goto, At, TypeOwner, Handles,
          GET_SESSION_INDEX
    <3> QED BY <3>1, <3>2, <3>3, TakesReference, IoKept
  <2>3. CASE FreeSmart
    <3>1. UNCHANGED <<refCnt, io>>
      BY <2>3
      DEF FreeSmart, Stay, Unref, Goto, At, refs, kernel
    <3>2. ~nest[Owner] /\ ~nest'[Owner] /\ Moves(Owner)
      BY <2>3, ThreadAssumption
      DEF FreeSmart, Stay, Unref, Goto, At, thread, Moves, NestedInDisconnect
    <3>3. pc[Owner] \notin Holding
      BY <2>3
      DEF FreeSmart, At, Ready, Take, Holding, Labels
    <3>4. pc'[Owner] \notin Holding
      BY <2>3, <3>2, <3>3
      DEF FreeSmart, Stay, Unref, Goto, At, thread, Holding, Labels
    <3> QED BY <3>1, <3>2, <3>3, <3>4, KeepsOut, IoKept
  <2> QED BY <1>1, <2>1, <2>2, <2>3 DEF OwnerStep
<1>2. ASSUME NEW t \in Threads, NEW s \in Sessions, CallStep(t, s) PROVE Moves(t) /\ Balanced(t)
  <2> USE <1>0
  <2>1. CASE SpCheck(t, s) \/ SpEnq(t, s) \/ SendPost(t, s) \/ PostX(t, s)
    <3>1. UNCHANGED <<refCnt, io, at, nest>>
      BY <2>1
      DEF SpCheck, SpEnq, SendPost, PostX, Stay, Goto, At, refs, kernel, thread
    <3>2. pc[t] \in Holding /\ pc'[t] \in Holding /\ Moves(t)
      BY <2>1, <3>1
      DEF SpCheck, SpEnq, SendPost, PostX, Stay, Goto, At, thread, Moves, Holding,
          Labels
    <3> QED BY <3>1, <3>2, KeepsReference, IoKept
  <2>2. CASE PostN(t, s) \/ PostU(t, s) \/ DcCheck(t, s) \/ DcX(t, s)
    <3>1. UNCHANGED <<refCnt, io, at, nest>>
      BY <2>2
      DEF PostN, PostU, DcCheck, DcX, Stay, Goto, At, refs, kernel, thread
    <3>2. pc[t] \in Holding /\ pc'[t] \in Holding /\ Moves(t)
      BY <2>2, <3>1
      DEF PostN, PostU, DcCheck, DcX, Stay, Goto, At, thread, Moves, Holding, Labels
    <3> QED BY <3>1, <3>2, KeepsReference, IoKept
  <2>3. CASE PostDisc(t, s) \/ DcCancelSend(t, s)
    <3>1. UNCHANGED <<refCnt, at, nest>>
      BY <2>3
      DEF PostDisc, DcCancelSend, Stay, Cancel, Goto, At, refs
    <3>2. pc[t] \in Holding /\ pc'[t] \in Holding /\ Moves(t)
      BY <2>3, <3>1
      DEF PostDisc, DcCancelSend, Stay, Cancel, Goto, At, Moves, Holding, Labels
    <3>3. UNCHANGED io \/ Complete(s, "send", "fail", io[s]["send"])
      BY <2>3
      DEF PostDisc, DcCancelSend, Cancel
    <3>4. \A x \in Sessions : Outstanding(x)' = Outstanding(x)
      BY <3>3, IoKept, IoCompleted DEF TypeKernel, IoType, IoKinds
    <3> QED BY <3>1, <3>2, <3>4, KeepsReference
  <2>4. CASE DcCancelRecv(t, s)
    <3>1. UNCHANGED <<refCnt, at, nest>>
      BY <2>4
      DEF DcCancelRecv, Stay, Cancel, Goto, At, refs
    <3>2. pc[t] \in Holding /\ pc'[t] \in Holding /\ Moves(t)
      BY <2>4, <3>1
      DEF DcCancelRecv, Stay, Cancel, Goto, At, Moves, Holding, Labels
    <3>3. UNCHANGED io \/ Complete(s, "recv", "dead", io[s]["recv"])
      BY <2>4
      DEF DcCancelRecv, Cancel
    <3>4. \A x \in Sessions : Outstanding(x)' = Outstanding(x)
      BY <3>3, IoKept, IoCompleted DEF TypeKernel, IoType, IoKinds
    <3> QED BY <3>1, <3>2, <3>4, KeepsReference
  <2>5. CASE PostIo(t, s)
    <3>1. pc[t] \in Holding /\ pc'[t] \in Holding /\ Moves(t) /\ UNCHANGED <<at, nest>>
      BY <2>5
      DEF PostIo, Stay, IoRefused, Goto, At, Moves, Holding, Labels
    <3>2. CASE UNCHANGED <<refCnt, io>>
      BY <3>1, <3>2, KeepsReference, IoKept
    <3>3. CASE refCnt' = [refCnt EXCEPT ![s] = @ + 1] /\ (Started(s, "send") \/ Started(s, "sent"))
      BY <3>1, <3>3, StartsIo DEF IoKinds
    <3> QED BY <2>5, <3>2, <3>3 DEF PostIo, IoRefused
  <2>6. CASE Decrement(t, s)
    BY <2>6, DecrementCounts
  <2>7. CASE ReleaseSession(t, s) \/ RelNotify(t, s) \/ RelPush(t, s)
    <3>1. UNCHANGED <<refCnt, io>>
      BY <2>7
      DEF ReleaseSession, RelNotify, RelPush, Return, MayRelease, Stay, Drain, Unref,
          Post, Goto, At, refs, kernel
    <3>2. ~nest[t] /\ ~nest'[t] /\ Moves(t)
      BY <2>7, ThreadAssumption
      DEF ReleaseSession, RelNotify, RelPush, Return, MayRelease, Stay, Drain, Unref,
          Post, Goto, At, thread, Moves, NestedInDisconnect
    <3>3. pc[t] \notin Holding
      BY <2>7
      DEF ReleaseSession, RelNotify, RelPush, At, Ready, Take, Holding, Labels
    <3>4. pc'[t] \notin Holding
      BY <2>7, <3>2, <3>3
      DEF ReleaseSession, RelNotify, RelPush, Return, MayRelease, Stay, Drain, Unref,
          Post, Goto, At, thread, Holding, Labels
    <3> QED BY <3>1, <3>2, <3>3, <3>4, KeepsOut, IoKept
  <2> QED BY <1>2, <2>1, <2>2, <2>3, <2>4, <2>5, <2>6, <2>7 DEF CallStep
<1>3. ASSUME NEW w \in Workers, NEW s \in Sessions, HandleStep(w, s) PROVE Moves(w) /\ Balanced(w)
  <2> USE <1>0
  <2>1. CASE CnClear(w, s) \/ CnInit(w, s) \/ SnClear(w, s) \/ RecvEnd(w, s)
    <3>1. UNCHANGED <<refCnt, io, at, nest>>
      BY <2>1
      DEF CnClear, CnInit, SnClear, RecvEnd, Stay, Post, Goto, At, refs, kernel, thread
    <3>2. pc[w] \in Holding /\ pc'[w] \in Holding /\ Moves(w)
      BY <2>1, <3>1
      DEF CnClear, CnInit, SnClear, RecvEnd, Stay, Post, Goto, At, thread, Moves,
          Holding, Labels
    <3> QED BY <3>1, <3>2, KeepsReference, IoKept
  <2>2. CASE RecvMessage(w, s)
    <3>1. UNCHANGED <<pc, at, nest, refCnt, io>>
      BY <2>2
      DEF RecvMessage, Stay, Post, thread, refs, kernel
    <3> QED BY <3>1, KeepsAll
  <2>3. CASE RecvBad(w, s)
    BY <2>3, RecvBadCounts
  <2>4. CASE RecvPost(w, s)
    <3>1. pc[w] \in Holding /\ pc'[w] \in Holding /\ Moves(w) /\ UNCHANGED <<at, nest>>
      BY <2>4
      DEF RecvPost, Stay, IoRefused, Goto, At, Moves, Holding, Labels
    <3>2. CASE UNCHANGED <<refCnt, io>>
      BY <3>1, <3>2, KeepsReference, IoKept
    <3>3. CASE refCnt' = [refCnt EXCEPT ![s] = @ + 1] /\ (Started(s, "recv") \/ Started(s, "data"))
      BY <3>1, <3>3, StartsIo DEF IoKinds
    <3> QED BY <2>4, <3>2, <3>3 DEF RecvPost, IoRefused
  <2>5. CASE RpDisc(w, s)
    <3>1. UNCHANGED <<refCnt, at, nest>>
      BY <2>5
      DEF RpDisc, Stay, Cancel, Goto, At, refs
    <3>2. pc[w] \in Holding /\ pc'[w] \in Holding /\ Moves(w)
      BY <2>5, <3>1
      DEF RpDisc, Stay, Cancel, Goto, At, Moves, Holding, Labels
    <3>3. UNCHANGED io \/ Complete(s, "recv", "dead", io[s]["recv"])
      BY <2>5
      DEF RpDisc, Cancel
    <3>4. \A x \in Sessions : Outstanding(x)' = Outstanding(x)
      BY <3>3, IoKept, IoCompleted DEF TypeKernel, IoType, IoKinds
    <3> QED BY <3>1, <3>2, <3>4, KeepsReference
  <2> QED BY <1>3, <2>1, <2>2, <2>3, <2>4, <2>5 DEF HandleStep
<1>4. ASSUME NEW w \in Workers, NEW s \in Sessions, GetStep(w, s) PROVE Moves(w) /\ Balanced(w)
  <2> USE <1>0
  <2>1. CASE GetConnect(w, s)
    <3>1. UNCHANGED io
      BY <2>1
      DEF GetConnect, Take, Goto, At, kernel
    <3>2. pc[w] \notin Holding /\ pc'[w] \in Holding /\ ~nest[w] /\ ~nest'[w] /\ Moves(w)
      BY <2>1
      DEF GetConnect, Take, Goto, At, Moves, Holding, Labels, NestedInDisconnect
    <3>3. \E x \in Sessions : at'[w] = x /\ refCnt' = [refCnt EXCEPT ![x] = @ + 1]
      BY <2>1
      DEF GetConnect, Take, Goto, At, TypeOwner, Handles, GET_SESSION_INDEX
    <3> QED BY <3>1, <3>2, <3>3, TakesReference, IoKept
  <2>2. CASE GetConnectFail(w, s) \/ GetReconnect(w, s)
    <3>1. UNCHANGED <<refCnt, io>>
      BY <2>2
      DEF GetConnectFail, GetReconnect, Take, Post, Requeue, GiveUp, Goto, At, refs,
          kernel
    <3>2. ~nest[w] /\ ~nest'[w] /\ Moves(w)
      BY <2>2, ThreadAssumption
      DEF GetConnectFail, GetReconnect, Take, Post, Requeue, GiveUp, Goto, At, thread,
          Moves, NestedInDisconnect
    <3>3. pc[w] \notin Holding
      BY <2>2
      DEF GetConnectFail, GetReconnect, At, Ready, Take, Holding, Labels
    <3>4. pc'[w] \notin Holding
      BY <2>2, <3>2, <3>3
      DEF GetConnectFail, GetReconnect, Take, Post, Requeue, GiveUp, Goto, At, thread,
          Holding, Labels
    <3> QED BY <3>1, <3>2, <3>3, <3>4, KeepsOut, IoKept
  <2>3. CASE GetDead(w, s) \/ GetRecv(w, s) \/ GetSent(w, s)
    <3>1. UNCHANGED refCnt /\ at'[w] = s /\ \E k \in IoKinds : Taken(s, k)
      BY <2>3
      DEF GetDead, GetRecv, GetSent, Take, Unref, Goto, At, refs, IoKinds
    <3>2. pc[w] \notin Holding /\ pc'[w] \in Holding /\ ~nest[w] /\ ~nest'[w] /\ Moves(w)
      BY <2>3
      DEF GetDead, GetRecv, GetSent, Take, Unref, Goto, At, Moves, Holding, Labels,
          NestedInDisconnect
    <3>3. \A x \in Sessions : Outstanding(x)' = Outstanding(x) - IF x = s THEN 1 ELSE 0
      BY <3>1, IoTaken DEF TypeKernel, IoType
    <3> QED BY <3>1, <3>2, <3>3, TakesOverReference
  <2> QED BY <1>4, <2>1, <2>2, <2>3 DEF GetStep
<1>5. ASSUME NEW w \in Workers, CfTimer(w) \/ CfNotify(w) PROVE Moves(w) /\ Balanced(w)
  <2> USE <1>0
  <2>1. CASE CfTimer(w) \/ CfNotify(w)
    <3>1. UNCHANGED <<refCnt, io>>
      BY <2>1
      DEF CfTimer, CfNotify, Stay, Post, Goto, At, refs, kernel
    <3>2. ~nest[w] /\ ~nest'[w] /\ Moves(w)
      BY <2>1, ThreadAssumption
      DEF CfTimer, CfNotify, Stay, Post, Goto, At, thread, Moves, NestedInDisconnect
    <3>3. pc[w] \notin Holding
      BY <2>1
      DEF CfTimer, CfNotify, At, Ready, Take, Holding, Labels
    <3>4. pc'[w] \notin Holding
      BY <2>1, <3>2, <3>3
      DEF CfTimer, CfNotify, Stay, Post, Goto, At, thread, Holding, Labels
    <3> QED BY <3>1, <3>2, <3>3, <3>4, KeepsOut, IoKept
  <2> QED BY <1>5, <2>1
<1>6. ASSUME NEW s \in Sessions, KernelStep(s) PROVE Moves(Owner) /\ Balanced(Owner)
  <2> USE <1>0
  <2>1. CASE ConnectDone(s) \/ PeerDown(s)
    <3>1. UNCHANGED <<pc, at, nest, refCnt, io>>
      BY <2>1
      DEF ConnectDone, PeerDown, Outside, thread, refs, kernel
    <3> QED BY <3>1, KeepsAll
  <2>2. CASE RecvDone(s)
    <3>1. UNCHANGED <<pc, at, nest, refCnt>> /\ (Complete(s, "recv", "data", 1))
      BY <2>2
      DEF RecvDone, Outside, thread, refs
    <3>2. \A x \in Sessions : Outstanding(x)' = Outstanding(x)
      BY <3>1, IoCompleted DEF TypeKernel, IoType, IoKinds
    <3> QED BY <3>1, <3>2, KeepsThreads
  <2>3. CASE SendDone(s)
    <3>1. UNCHANGED <<pc, at, nest, refCnt>> /\ (Complete(s, "send", "sent", 1))
      BY <2>3
      DEF SendDone, Outside, thread, refs
    <3>2. \A x \in Sessions : Outstanding(x)' = Outstanding(x)
      BY <3>1, IoCompleted DEF TypeKernel, IoType, IoKinds
    <3> QED BY <3>1, <3>2, KeepsThreads
  <2>4. CASE IoDead(s)
    <3>1. UNCHANGED <<pc, at, nest, refCnt>> /\ (Complete(s, "recv", "dead", 1) \/ Complete(s, "send", "fail", 1))
      BY <2>4
      DEF IoDead, Outside, thread, refs
    <3>2. \A x \in Sessions : Outstanding(x)' = Outstanding(x)
      BY <3>1, IoCompleted DEF TypeKernel, IoType, IoKinds
    <3> QED BY <3>1, <3>2, KeepsThreads
  <2> QED BY <1>6, <2>1, <2>2, <2>3, <2>4 DEF KernelStep
<1>7. ASSUME TimerFire PROVE Moves(Owner) /\ Balanced(Owner)
  <2>1. UNCHANGED <<pc, at, nest, refCnt, io>>
    BY <1>7 DEF TimerFire, Outside, thread, refs
  <2> QED BY <1>0, <2>1, KeepsAll
<1>8. CASE UNCHANGED vars
  <2>1. UNCHANGED <<pc, at, nest, refCnt, io>>
    BY <1>8 DEF vars, thread, refs, kernel
  <2> QED BY <1>0, <2>1, KeepsAll
<1> QED BY <1>0, <1>1, <1>2, <1>3, <1>4, <1>5, <1>6, <1>7, <1>8 DEF Next


\* The second reference of a worker in RecvProc keeps its decrement from being the
\* last, so Disconnect returns to the worker's own.
LEMMA NestKept ==
  TypeOK /\ TypeOK' /\ RefExact /\ NestedInDisconnect /\ [Next]_vars => NestedInDisconnect'
<1> DEFINE Inner == {"dcCheck", "dcX", "dcCancel", "dcCancel2", "dec"}
<1> SUFFICES ASSUME TypeOK, TypeOK', RefExact, NestedInDisconnect, [Next]_vars,
                    NEW u \in Threads, nest'[u]
             PROVE  u \in Workers /\ pc'[u] \in Inner
  BY DEF NestedInDisconnect
<1> USE DEF TypeOK, TypeThread
<1>1. ASSUME OwnerStep PROVE u \in Workers /\ pc'[u] \in Inner
  <2>1. CASE TakeJob \/ Connect \/ FreeSmart
    BY <2>1, ThreadAssumption
    DEF TakeJob, Connect, FreeSmart, Ready, Stay, Unref, Goto, At, thread,
        NestedInDisconnect
  <2>2. CASE SendPacket \/ Disconnect
    BY <2>2
    DEF SendPacket, Disconnect, Ready, Enter, Goto, At, thread, NestedInDisconnect
  <2> QED BY <1>1, <2>1, <2>2 DEF OwnerStep
<1>2. ASSUME NEW t \in Threads, NEW s \in Sessions, CallStep(t, s) PROVE u \in Workers /\ pc'[u] \in Inner
  <2>1. CASE SpCheck(t, s) \/ SpEnq(t, s) \/ SendPost(t, s) \/ PostX(t, s)
    BY <2>1
    DEF SpCheck, SpEnq, SendPost, PostX, Stay, Goto, At, thread, NestedInDisconnect
  <2>2. CASE PostN(t, s) \/ PostU(t, s) \/ PostIo(t, s) \/ PostDisc(t, s)
    BY <2>2
    DEF PostN, PostU, PostIo, PostDisc, Stay, IoRefused, Cancel, Goto, At, thread,
        NestedInDisconnect
  <2>3. CASE DcCheck(t, s) \/ DcX(t, s) \/ DcCancelSend(t, s) \/ DcCancelRecv(t, s)
    BY <2>3
    DEF DcCheck, DcX, DcCancelSend, DcCancelRecv, Stay, Cancel, Goto, At, thread,
        NestedInDisconnect
  <2>4. CASE Decrement(t, s)
    <3>1. pc[t] = "dec" /\ at[t] = s
      BY <2>4 DEF Decrement, At
    <3>2. nest[t] => refCnt[s] # 1
      <4> SUFFICES ASSUME nest[t] PROVE refCnt[s] >= 2
        BY DEF TypeSession
      <4>1. Share(t, s) = 2
        BY <3>1 DEF Share, One, Holding, Labels
      <4>2. refCnt[s] = Refs(s) + Outstanding(s) /\ Outstanding(s) \in Nat
        BY OutstandingNat DEF RefExact, Refs, TypeKernel, IoType
      <4> QED BY <4>1, <4>2, ShareOfRefs
    <3>3. pc' = [pc EXCEPT ![t] = pc'[t]] /\ (nest'[t] => nest[t]) /\ (nest[t] => ~nest'[t])
      BY <2>4, <3>2 DEF Decrement, Return, Goto
    <3>4. nest' = nest \/ nest' = [nest EXCEPT ![t] = FALSE]
      BY <2>4 DEF Decrement, Return
    <3> QED BY <3>3, <3>4 DEF NestedInDisconnect
  <2>5. CASE ReleaseSession(t, s) \/ RelPush(t, s)
    BY <2>5
    DEF ReleaseSession, RelPush, Return, MayRelease, Goto, At, thread,
        NestedInDisconnect
  <2>6. CASE RelNotify(t, s)
    BY <2>6
    DEF RelNotify, Stay, Drain, Unref, Post, Goto, At, thread, NestedInDisconnect
  <2> QED BY <1>2, <2>1, <2>2, <2>3, <2>4, <2>5, <2>6 DEF CallStep
<1>3. ASSUME NEW w \in Workers, NEW s \in Sessions, HandleStep(w, s) PROVE u \in Workers /\ pc'[u] \in Inner
  <2>1. CASE CnClear(w, s) \/ CnInit(w, s) \/ SnClear(w, s) \/ RecvMessage(w, s)
    BY <2>1
    DEF CnClear, CnInit, SnClear, RecvMessage, Stay, Post, Goto, At, thread,
        NestedInDisconnect
  <2>2. CASE RecvEnd(w, s) \/ RecvPost(w, s) \/ RpDisc(w, s)
    BY <2>2
    DEF RecvEnd, RecvPost, RpDisc, Stay, IoRefused, Cancel, Goto, At, thread,
        NestedInDisconnect
  <2>3. CASE RecvBad(w, s)
    BY <2>3
    DEF RecvBad, Enter, Goto, At, thread, NestedInDisconnect, Threads
  <2> QED BY <1>3, <2>1, <2>2, <2>3 DEF HandleStep
<1>4. ASSUME NEW w \in Workers, NEW s \in Sessions, GetStep(w, s) PROVE u \in Workers /\ pc'[u] \in Inner
  <2>1. CASE GetConnect(w, s) \/ GetConnectFail(w, s) \/ GetReconnect(w, s)
    BY <2>1
    DEF GetConnect, GetConnectFail, GetReconnect, Take, Post, Requeue, GiveUp, Goto, At,
        thread, NestedInDisconnect
  <2>2. CASE GetDead(w, s) \/ GetRecv(w, s) \/ GetSent(w, s)
    BY <2>2
    DEF GetDead, GetRecv, GetSent, Take, Unref, Goto, At, thread, NestedInDisconnect
  <2> QED BY <1>4, <2>1, <2>2 DEF GetStep
<1>5. ASSUME NEW w \in Workers, CfTimer(w) \/ CfNotify(w) PROVE u \in Workers /\ pc'[u] \in Inner
  <2>1. CASE CfTimer(w) \/ CfNotify(w)
    BY <2>1
    DEF CfTimer, CfNotify, Stay, Post, Goto, At, thread, NestedInDisconnect
  <2> QED BY <1>5, <2>1
<1>6. ASSUME NEW s \in Sessions, KernelStep(s) PROVE u \in Workers /\ pc'[u] \in Inner
  <2>1. CASE ConnectDone(s) \/ PeerDown(s) \/ RecvDone(s) \/ SendDone(s) \/ IoDead(s)
    BY <2>1
    DEF ConnectDone, PeerDown, RecvDone, SendDone, IoDead, Outside, Goto, At, thread,
        NestedInDisconnect
  <2> QED BY <1>6, <2>1 DEF KernelStep
<1>7. ASSUME TimerFire PROVE u \in Workers /\ pc'[u] \in Inner
  BY <1>7 DEF TimerFire, Outside, thread, NestedInDisconnect
<1>8. CASE UNCHANGED vars
  BY <1>8 DEF vars, thread, NestedInDisconnect
<1> QED BY <1>1, <1>2, <1>3, <1>4, <1>5, <1>6, <1>7, <1>8 DEF Next

\* Whoever starts to use a slot finds it not released, and it is released only
\* when nobody uses it.
LEMMA UsersKept ==
  TypeOK /\ TypeOK' /\ NestedInDisconnect /\ RefExact /\ UseSafe /\ [Next]_vars
  => \A u \in Threads : Using(u)' => ~released'[at'[u]]
<1> SUFFICES ASSUME TypeOK, TypeOK', NestedInDisconnect, RefExact, UseSafe, [Next]_vars,
                    NEW u \in Threads, Using(u)'
             PROVE  ~released'[at'[u]]
  OBVIOUS
<1> USE DEF TypeOK, TypeThread
<1>1. ASSUME OwnerStep PROVE ~released'[at'[u]]
  <2>1. CASE TakeJob \/ Connect \/ FreeSmart
    <3>1. Using(u) /\ at'[u] = at[u] /\ UNCHANGED released
      BY <2>1, ThreadAssumption
      DEF TakeJob, Connect, FreeSmart, Ready, Stay, Unref, Goto, At, thread, refs,
          Using, Working, Holding, Labels, NestedInDisconnect
    <3> QED BY <3>1 DEF UseSafe
  <2>2. CASE SendPacket \/ Disconnect
    <3>1. UNCHANGED released
      BY <2>2 DEF SendPacket, Disconnect
    <3>2. CASE u = Owner
      BY <2>2, <3>1, <3>2, ThreadAssumption
      DEF SendPacket, Disconnect, Ready, Enter, Goto, At, Using, Working, NestedInDisconnect,
          TypeOwner, Handles, GET_SESSION_INDEX
    <3>3. CASE u # Owner
      <4>1. pc'[u] = pc[u] /\ at'[u] = at[u] /\ nest'[u] = nest[u]
        BY <2>2, <3>3 DEF SendPacket, Disconnect, Enter, Goto
      <4> QED BY <3>1, <4>1 DEF UseSafe, Using, Working, Holding
    <3> QED BY <3>2, <3>3
  <2> QED BY <1>1, <2>1, <2>2 DEF OwnerStep
<1>2. ASSUME NEW t \in Threads, NEW s \in Sessions, CallStep(t, s) PROVE ~released'[at'[u]]
  <2>1. CASE SpCheck(t, s) \/ SpEnq(t, s) \/ SendPost(t, s) \/ PostX(t, s)
    <3>1. Using(u) /\ at'[u] = at[u] /\ UNCHANGED released
      BY <2>1
      DEF SpCheck, SpEnq, SendPost, PostX, Stay, Goto, At, thread, refs, Using, Working,
          Holding, Labels, NestedInDisconnect
    <3> QED BY <3>1 DEF UseSafe
  <2>2. CASE PostN(t, s) \/ PostU(t, s) \/ PostIo(t, s) \/ PostDisc(t, s)
    <3>1. Using(u) /\ at'[u] = at[u] /\ UNCHANGED released
      BY <2>2
      DEF PostN, PostU, PostIo, PostDisc, Stay, IoRefused, Cancel, Goto, At, thread,
          refs, Using, Working, Holding, Labels, NestedInDisconnect
    <3> QED BY <3>1 DEF UseSafe
  <2>3. CASE DcCheck(t, s) \/ DcX(t, s) \/ DcCancelSend(t, s) \/ DcCancelRecv(t, s)
    <3>1. Using(u) /\ at'[u] = at[u] /\ UNCHANGED released
      BY <2>3
      DEF DcCheck, DcX, DcCancelSend, DcCancelRecv, Stay, Cancel, Goto, At, thread,
          refs, Using, Working, Holding, Labels, NestedInDisconnect
    <3> QED BY <3>1 DEF UseSafe
  <2>4. CASE Decrement(t, s)
    <3>1. Using(u) /\ at'[u] = at[u] /\ UNCHANGED released
      BY <2>4
      DEF Decrement, Return, Goto, At, thread, refs, Using, Working, Holding, Labels,
          NestedInDisconnect
    <3> QED BY <3>1 DEF UseSafe
  <2>5. CASE ReleaseSession(t, s)
    <3>1. Using(u) /\ at'[u] = at[u]
      BY <2>5 DEF ReleaseSession, Return, Goto, At, Using, Working, Holding, Labels, NestedInDisconnect
    <3>2. CASE at[u] # s \/ ~MayRelease(s)
      BY <2>5, <3>1, <3>2 DEF ReleaseSession, UseSafe, TypeSession
    <3>3. CASE at[u] = s /\ MayRelease(s)
      <4>1. Share(u, s) >= 1
        BY <3>1, <3>3 DEF Share, One, Using, Working, Holding, Labels
      <4>2. refCnt[s] = 0 /\ refCnt[s] = Refs(s) + Outstanding(s) /\ Outstanding(s) \in Nat
        BY <3>3, OutstandingNat DEF MayRelease, RefExact, Refs, TypeKernel, IoType
      <4> QED BY <4>1, <4>2, ShareOfRefs
    <3> QED BY <3>2, <3>3
  <2>6. CASE RelNotify(t, s) \/ RelPush(t, s)
    <3>1. Using(u) /\ at'[u] = at[u] /\ UNCHANGED released
      BY <2>6
      DEF RelNotify, RelPush, Stay, Drain, Unref, Post, Return, Goto, At, thread, refs,
          Using, Working, Holding, Labels, NestedInDisconnect
    <3> QED BY <3>1 DEF UseSafe
  <2> QED BY <1>2, <2>1, <2>2, <2>3, <2>4, <2>5, <2>6 DEF CallStep
<1>3. ASSUME NEW w \in Workers, NEW s \in Sessions, HandleStep(w, s) PROVE ~released'[at'[u]]
  <2>1. CASE CnClear(w, s)
    <3>1. released' = [released EXCEPT ![s] = FALSE] /\ UNCHANGED <<at, nest>>
      BY <2>1 DEF CnClear, Stay
    <3>2. u # w => pc'[u] = pc[u]
      BY <2>1 DEF CnClear, Goto
    <3>3. at[w] = s
      BY <2>1 DEF CnClear
    <3>4. u = w \/ Using(u)
      BY <3>1, <3>2 DEF Using, Working, Holding
    <3> QED BY <3>1, <3>3, <3>4 DEF UseSafe, TypeSession
  <2>2. CASE CnInit(w, s) \/ SnClear(w, s) \/ RecvMessage(w, s) \/ RecvEnd(w, s)
    <3>1. Using(u) /\ at'[u] = at[u] /\ UNCHANGED released
      BY <2>2
      DEF CnInit, SnClear, RecvMessage, RecvEnd, Stay, Post, Goto, At, thread, refs,
          Using, Working, Holding, Labels, NestedInDisconnect
    <3> QED BY <3>1 DEF UseSafe
  <2>3. CASE RecvPost(w, s) \/ RpDisc(w, s)
    <3>1. Using(u) /\ at'[u] = at[u] /\ UNCHANGED released
      BY <2>3
      DEF RecvPost, RpDisc, Stay, IoRefused, Cancel, Goto, At, thread, refs, Using,
          Working, Holding, Labels, NestedInDisconnect
    <3> QED BY <3>1 DEF UseSafe
  <2>4. CASE RecvBad(w, s)
    <3>1. Using(u) /\ at'[u] = at[u] /\ UNCHANGED released
      BY <2>4
      DEF RecvBad, Enter, Goto, At, thread, refs, Using, Working, Holding, Labels,
          NestedInDisconnect
    <3> QED BY <3>1 DEF UseSafe
  <2> QED BY <1>3, <2>1, <2>2, <2>3, <2>4 DEF HandleStep
<1>4. ASSUME NEW w \in Workers, NEW s \in Sessions, GetStep(w, s) PROVE ~released'[at'[u]]
  <2>1. CASE GetConnectFail(w, s) \/ GetReconnect(w, s)
    <3>1. Using(u) /\ at'[u] = at[u] /\ UNCHANGED released
      BY <2>1
      DEF GetConnectFail, GetReconnect, Take, Post, Requeue, GiveUp, Goto, At, thread,
          refs, Using, Working, Holding, Labels, NestedInDisconnect
    <3> QED BY <3>1 DEF UseSafe
  <2>2. CASE GetConnect(w, s)
    <3>1. UNCHANGED <<released, nest>> /\ pc[w] = "idle" /\ pc'[w] = "cnClear"
      BY <2>2 DEF GetConnect, Take, At, Goto, Threads
    <3>2. u # w => pc'[u] = pc[u] /\ at'[u] = at[u]
      BY <2>2 DEF GetConnect, Take, Goto
    <3>3. u # w
      BY <3>1 DEF Using, Working, NestedInDisconnect
    <3> QED BY <3>1, <3>2, <3>3 DEF UseSafe, Using, Working, Holding
  <2>3. CASE GetDead(w, s) \/ GetRecv(w, s) \/ GetSent(w, s)
    <3>1. UNCHANGED <<released, nest>> /\ at' = [at EXCEPT ![w] = s] /\ \E k \in IoKinds : Taken(s, k)
      BY <2>3 DEF GetDead, GetRecv, GetSent, refs, Take, IoKinds
    <3>2. Outstanding(s) > 0
      BY <3>1, IoTaken DEF TypeKernel, IoType
    <3>3. CASE u = w
      BY <3>1, <3>2, <3>3 DEF UseSafe
    <3>4. CASE u # w
      <4>1. pc'[u] = pc[u]
        BY <2>3, <3>4 DEF GetDead, GetRecv, GetSent, Goto
      <4> QED BY <3>1, <3>4, <4>1 DEF UseSafe, Using, Working, Holding
    <3> QED BY <3>3, <3>4
  <2> QED BY <1>4, <2>1, <2>2, <2>3 DEF GetStep
<1>5. ASSUME NEW w \in Workers, CfTimer(w) \/ CfNotify(w) PROVE ~released'[at'[u]]
  <2>1. CASE CfTimer(w) \/ CfNotify(w)
    <3>1. Using(u) /\ at'[u] = at[u] /\ UNCHANGED released
      BY <2>1
      DEF CfTimer, CfNotify, Stay, Post, Goto, At, thread, refs, Using, Working,
          Holding, Labels, NestedInDisconnect
    <3> QED BY <3>1 DEF UseSafe
  <2> QED BY <1>5, <2>1
<1>6. ASSUME NEW s \in Sessions, KernelStep(s) PROVE ~released'[at'[u]]
  <2>1. CASE ConnectDone(s) \/ PeerDown(s) \/ RecvDone(s) \/ SendDone(s) \/ IoDead(s)
    <3>1. Using(u) /\ at'[u] = at[u] /\ UNCHANGED released
      BY <2>1
      DEF ConnectDone, PeerDown, RecvDone, SendDone, IoDead, Outside, Goto, At, thread,
          refs, Using, Working, Holding, Labels, NestedInDisconnect
    <3> QED BY <3>1 DEF UseSafe
  <2> QED BY <1>6, <2>1 DEF KernelStep
<1>7. ASSUME TimerFire PROVE ~released'[at'[u]]
  <2>1. Using(u) /\ at'[u] = at[u] /\ UNCHANGED released
    BY <1>7 DEF TimerFire, Outside, thread, refs, Using, Working, Holding
  <2> QED BY <2>1 DEF UseSafe
<1>8. CASE UNCHANGED vars
  <2>1. Using(u) /\ at'[u] = at[u] /\ UNCHANGED released
    BY <1>8 DEF vars, thread, refs, Using, Working, Holding
  <2> QED BY <2>1 DEF UseSafe
<1> QED BY <1>1, <1>2, <1>3, <1>4, <1>5, <1>6, <1>7, <1>8 DEF Next

\* I/O is started by those who use the slot, and a slot with I/O is not released.
LEMMA OutstandingKept ==
  TypeOK /\ TypeOK' /\ NestedInDisconnect /\ RefExact /\ UseSafe /\ [Next]_vars
  => \A x \in Sessions : Outstanding(x)' > 0 => ~released'[x]
<1> SUFFICES ASSUME TypeOK, TypeOK', NestedInDisconnect, RefExact, UseSafe, [Next]_vars,
                    NEW x \in Sessions, Outstanding(x)' > 0
             PROVE  ~released'[x]
  OBVIOUS
<1> USE DEF TypeOK, TypeThread
<1>1. ASSUME OwnerStep PROVE ~released'[x]
  <2>1. CASE TakeJob \/ Connect \/ SendPacket \/ Disconnect \/ FreeSmart
    <3>1. UNCHANGED <<released, io>>
      BY <2>1
      DEF TakeJob, Connect, SendPacket, Disconnect, FreeSmart, Ready, Enter, Stay,
          Unref, Goto, At, refs, kernel
    <3> QED BY <3>1, IoKept DEF UseSafe
  <2> QED BY <1>1, <2>1 DEF OwnerStep
<1>2. ASSUME NEW t \in Threads, NEW s \in Sessions, CallStep(t, s) PROVE ~released'[x]
  <2>1. CASE SpCheck(t, s) \/ SpEnq(t, s) \/ SendPost(t, s) \/ PostX(t, s)
    <3>1. UNCHANGED <<released, io>>
      BY <2>1
      DEF SpCheck, SpEnq, SendPost, PostX, Stay, Goto, At, refs, kernel
    <3> QED BY <3>1, IoKept DEF UseSafe
  <2>2. CASE PostN(t, s) \/ PostU(t, s) \/ DcCheck(t, s) \/ DcX(t, s)
    <3>1. UNCHANGED <<released, io>>
      BY <2>2
      DEF PostN, PostU, DcCheck, DcX, Stay, Goto, At, refs, kernel
    <3> QED BY <3>1, IoKept DEF UseSafe
  <2>3. CASE PostDisc(t, s) \/ DcCancelSend(t, s) \/ DcCancelRecv(t, s)
    <3>1. UNCHANGED released
      BY <2>3
      DEF PostDisc, DcCancelSend, DcCancelRecv, refs
    <3>2. \/ UNCHANGED io
          \/ Complete(s, "send", "fail", io[s]["send"])
          \/ Complete(s, "recv", "dead", io[s]["recv"])
      BY <2>3
      DEF PostDisc, DcCancelSend, DcCancelRecv, Cancel
    <3>3. io \in IoType /\ \A k \in IoKinds : io[s][k] \in Nat
      BY DEF TypeKernel, IoType
    <3>4. Outstanding(x)' = Outstanding(x)
      BY <3>2, <3>3, IoKept, IoCompleted DEF IoKinds
    <3> QED BY <3>1, <3>4 DEF UseSafe
  <2>4. CASE PostIo(t, s)
    <3>1. UNCHANGED released /\ (UNCHANGED io \/ \E k \in IoKinds : Started(s, k))
      BY <2>4 DEF PostIo, IoRefused, IoKinds
    <3>2. ~released[s]
      BY <2>4 DEF PostIo, At, UseSafe, Using, Working, Holding, Labels, Threads
    <3>3. CASE UNCHANGED io
      BY <3>1, <3>3, IoKept DEF UseSafe
    <3>4. ASSUME NEW k \in IoKinds, Started(s, k) PROVE ~released'[x]
      <4>1. Outstanding(x)' = Outstanding(x) + (IF x = s THEN 1 ELSE 0) /\ Outstanding(x) \in Nat
        BY <3>4, IoStarted, OutstandingNat DEF TypeKernel, IoType
      <4> QED BY <3>1, <3>2, <4>1 DEF UseSafe
    <3> QED BY <3>1, <3>3, <3>4
  <2>5. CASE Decrement(t, s) \/ RelNotify(t, s) \/ RelPush(t, s)
    <3>1. UNCHANGED <<released, io>>
      BY <2>5
      DEF Decrement, RelNotify, RelPush, Return, Stay, Drain, Unref, Post, Goto, At,
          refs, kernel
    <3> QED BY <3>1, IoKept DEF UseSafe
  <2>6. CASE ReleaseSession(t, s)
    <3>1. Outstanding(x)' = Outstanding(x)
      BY <2>6, IoKept DEF ReleaseSession, kernel
    <3>2. CASE x # s \/ ~MayRelease(s)
      BY <2>6, <3>1, <3>2 DEF ReleaseSession, UseSafe, TypeSession
    <3>3. CASE x = s /\ MayRelease(s)
      <4>1. refCnt[s] = 0 /\ refCnt[s] = Refs(s) + Outstanding(s) /\ Outstanding(s) \in Nat
        BY <3>3, OutstandingNat DEF MayRelease, RefExact, Refs, TypeKernel, IoType
      <4> QED BY <3>1, <3>3, <4>1, ShareOfRefs
    <3> QED BY <3>2, <3>3
  <2> QED BY <1>2, <2>1, <2>2, <2>3, <2>4, <2>5, <2>6 DEF CallStep
<1>3. ASSUME NEW w \in Workers, NEW s \in Sessions, HandleStep(w, s) PROVE ~released'[x]
  <2>1. CASE CnClear(w, s)
    <3>1. released' = [released EXCEPT ![s] = FALSE] /\ UNCHANGED io
      BY <2>1 DEF CnClear, kernel
    <3> QED BY <3>1, IoKept DEF UseSafe, TypeSession
  <2>2. CASE \/ CnInit(w, s) \/ SnClear(w, s) \/ RecvMessage(w, s)
             \/ RecvEnd(w, s) \/ RecvBad(w, s)
    <3>1. UNCHANGED <<released, io>>
      BY <2>2
      DEF CnInit, SnClear, RecvMessage, RecvEnd, RecvBad, Stay, Post, Enter, Goto, At,
          refs, kernel
    <3> QED BY <3>1, IoKept DEF UseSafe
  <2>3. CASE RpDisc(w, s)
    <3>1. UNCHANGED released
      BY <2>3
      DEF RpDisc, refs
    <3>2. \/ UNCHANGED io
          \/ Complete(s, "recv", "dead", io[s]["recv"])
      BY <2>3
      DEF RpDisc, Cancel
    <3>3. io \in IoType /\ \A k \in IoKinds : io[s][k] \in Nat
      BY DEF TypeKernel, IoType
    <3>4. Outstanding(x)' = Outstanding(x)
      BY <3>2, <3>3, IoKept, IoCompleted DEF IoKinds
    <3> QED BY <3>1, <3>4 DEF UseSafe
  <2>4. CASE RecvPost(w, s)
    <3>1. UNCHANGED released /\ (UNCHANGED io \/ \E k \in IoKinds : Started(s, k))
      BY <2>4 DEF RecvPost, IoRefused, IoKinds
    <3>2. ~released[s]
      BY <2>4 DEF RecvPost, At, UseSafe, Using, Working, Holding, Labels, Threads
    <3>3. CASE UNCHANGED io
      BY <3>1, <3>3, IoKept DEF UseSafe
    <3>4. ASSUME NEW k \in IoKinds, Started(s, k) PROVE ~released'[x]
      <4>1. Outstanding(x)' = Outstanding(x) + (IF x = s THEN 1 ELSE 0) /\ Outstanding(x) \in Nat
        BY <3>4, IoStarted, OutstandingNat DEF TypeKernel, IoType
      <4> QED BY <3>1, <3>2, <4>1 DEF UseSafe
    <3> QED BY <3>1, <3>3, <3>4
  <2> QED BY <1>3, <2>1, <2>2, <2>3, <2>4 DEF HandleStep
<1>4. ASSUME NEW w \in Workers, NEW s \in Sessions, GetStep(w, s) PROVE ~released'[x]
  <2>1. CASE GetConnect(w, s) \/ GetConnectFail(w, s) \/ GetReconnect(w, s)
    <3>1. UNCHANGED <<released, io>>
      BY <2>1
      DEF GetConnect, GetConnectFail, GetReconnect, Take, Post, Requeue, GiveUp, Goto,
          At, refs, kernel
    <3> QED BY <3>1, IoKept DEF UseSafe
  <2>2. CASE GetDead(w, s) \/ GetRecv(w, s) \/ GetSent(w, s)
    <3>1. UNCHANGED released /\ \E k \in IoKinds : Taken(s, k)
      BY <2>2 DEF GetDead, GetRecv, GetSent, refs, IoKinds
    <3>2. io \in IoType /\ Outstanding(x) \in Nat
      BY OutstandingNat DEF TypeKernel, IoType
    <3>3. Outstanding(x)' = Outstanding(x) - IF x = s THEN 1 ELSE 0
      BY <3>1, <3>2, IoTaken
    <3> QED BY <3>1, <3>2, <3>3 DEF UseSafe
  <2> QED BY <1>4, <2>1, <2>2 DEF GetStep
<1>5. ASSUME NEW w \in Workers, CfTimer(w) \/ CfNotify(w) PROVE ~released'[x]
  <2>1. CASE CfTimer(w) \/ CfNotify(w)
    <3>1. UNCHANGED <<released, io>>
      BY <2>1
      DEF CfTimer, CfNotify, Stay, Post, Goto, At, refs, kernel
    <3> QED BY <3>1, IoKept DEF UseSafe
  <2> QED BY <1>5, <2>1
<1>6. ASSUME NEW s \in Sessions, KernelStep(s) PROVE ~released'[x]
  <2>1. CASE ConnectDone(s) \/ PeerDown(s)
    <3>1. UNCHANGED <<released, io>>
      BY <2>1
      DEF ConnectDone, PeerDown, Outside, Goto, At, refs, kernel
    <3> QED BY <3>1, IoKept DEF UseSafe
  <2>2. CASE RecvDone(s) \/ SendDone(s) \/ IoDead(s)
    <3>1. UNCHANGED released
      BY <2>2
      DEF RecvDone, SendDone, IoDead, Outside, refs
    <3>2. \/ UNCHANGED io
          \/ Complete(s, "recv", "data", 1)
          \/ Complete(s, "send", "sent", 1)
          \/ Complete(s, "recv", "dead", 1)
          \/ Complete(s, "send", "fail", 1)
      BY <2>2
      DEF RecvDone, SendDone, IoDead
    <3>3. io \in IoType /\ \A k \in IoKinds : io[s][k] \in Nat
      BY DEF TypeKernel, IoType
    <3>4. Outstanding(x)' = Outstanding(x)
      BY <3>2, <3>3, IoKept, IoCompleted DEF IoKinds
    <3> QED BY <3>1, <3>4 DEF UseSafe
  <2> QED BY <1>6, <2>1, <2>2 DEF KernelStep
<1>7. ASSUME TimerFire PROVE ~released'[x]
  <2>1. UNCHANGED <<released, io>>
    BY <1>7 DEF TimerFire, Outside, refs
  <2> QED BY <2>1, IoKept DEF UseSafe
<1>8. CASE UNCHANGED vars
  <2>1. UNCHANGED <<released, io>>
    BY <1>8 DEF vars, refs, kernel
  <2> QED BY <2>1, IoKept DEF UseSafe
<1> QED BY <1>1, <1>2, <1>3, <1>4, <1>5, <1>6, <1>7, <1>8 DEF Next

-----------------------------------------------------------------------------
(* The theorems *)

\* The constructor's state is well typed.
LEMMA TypeInit == Init => TypeOK /\ SendingPacket
<1> SUFFICES ASSUME Init PROVE TypeOK /\ SendingPacket
  OBVIOUS
<1> USE DEF Init
<1>1. TypeSession
  BY DEF TypeSession
<1>2. TypePackets
  BY BoundAssumption DEF TypePackets
<1>3. FreshStack \in Seq(Sessions)
  <2>1. \A i \in 1 .. MaxSession : i - 1 \in Sessions
    BY SessionAssumption DEF Sessions
  <2> QED BY <2>1, SessionAssumption DEF FreshStack
<1>4. TypeKernel
  BY <1>3 DEF TypeKernel
<1>5. TypeThread
  BY SessionAssumption DEF TypeThread, Labels, Sessions
<1>6. TypeOwner
  <2>1. <<>> \in Seq(Jobs)
    OBVIOUS
  <2>2. arg = NoId /\ known = {} /\ clients = 0 /\ conns = 0 /\ ids = 0 /\ jobs = <<>>
        /\ inputs = 0 /\ crashed = FALSE
    OBVIOUS
  <2> HIDE DEF Init
  <2>3. known \subseteq Handles /\ arg \in Handles \cup {NoId}
    BY <2>2
  <2>4. jobs \in Seq(Jobs)
    BY <2>1, <2>2
  <2>5. clients \in Int /\ conns \in Nat /\ ids \in Nat /\ inputs \in Nat
    BY <2>2
  <2>6. crashed \in BOOLEAN
    BY <2>2, Zenon
  <2> QED BY <2>3, <2>4, <2>5, <2>6 DEF TypeOwner
<1>7. SendingPacket
  <2>1. pc = [t \in Threads |-> "idle"]
    OBVIOUS
  <2> HIDE DEF Init
  <2> QED BY <2>1 DEF SendingPacket
<1> QED BY <1>1, <1>2, <1>4, <1>5, <1>6, <1>7 DEF TypeOK

\* Every step keeps all types.
LEMMA TypeStep == TypeOK /\ SendingPacket /\ [Next]_vars => (TypeOK /\ SendingPacket)'
<1> SUFFICES ASSUME TypeOK, SendingPacket, [Next]_vars PROVE (TypeOK /\ SendingPacket)'
  OBVIOUS
<1>1. TypeSession' /\ SendingPacket' /\ TypePackets'
  BY SessionTyped, SendingPacketKept, PacketsTyped
<1>2. TypeKernel' /\ TypeThread' /\ TypeOwner'
  BY KernelTyped, ThreadTyped, OwnerTyped
<1> QED BY <1>1, <1>2 DEF TypeOK

\* Every reachable state is typed (TypeOK): a handle is only taken from a
\* CONNECT_SUCCESS job, and a slot number from a handle, the stack or ReconnectQ_.
THEOREM TypeCorrect == Spec => []TypeOK
<1>1. Init => TypeOK /\ SendingPacket
  BY TypeInit
<1>2. TypeOK /\ SendingPacket /\ [Next]_vars => (TypeOK /\ SendingPacket)'
  BY TypeStep
<1> QED BY <1>1, <1>2, PTL DEF Spec

\* The constructor's state satisfies the invariant: no thread, no I/O, all counts 0.
LEMMA RefInvInit == Init => RefInv
<1> SUFFICES ASSUME Init PROVE RefInv
  OBVIOUS
<1>1. TypeOK /\ SendingPacket
  BY TypeInit
<1>2. \A t \in Threads : pc[t] \notin Holding /\ ~nest[t] /\ pc[t] # "dec"
  BY DEF Init, Holding
<1>3. \A s \in Sessions : refCnt[s] = 0 /\ Outstanding(s) = 0
  BY DEF Init, Outstanding, IoKinds
<1>4. RefExact
  <2>1. \A s \in Sessions : Holders(s) = {} /\ Nesters(s) = {}
    BY <1>2 DEF Holders, Nesters
  <2> QED BY <1>3, <2>1, FS_EmptySet DEF RefExact
<1>5. UseSafe
  BY <1>2, <1>3 DEF UseSafe, Using, Working
<1>6. NestedInDisconnect
  BY <1>2 DEF NestedInDisconnect
<1> QED BY <1>1, <1>4, <1>5, <1>6 DEF RefInv

\* RefInv is inductive.
LEMMA RefInvStep == RefInv /\ [Next]_vars => RefInv'
<1> SUFFICES ASSUME RefInv, [Next]_vars PROVE RefInv'
  OBVIOUS
<1> USE DEF RefInv
<1>1. TypeOK' /\ SendingPacket'
  BY TypeStep
<1>2. NestedInDisconnect'
  BY <1>1, NestKept
<1>3. RefExact'
  BY <1>1, StepBalanced, RefExactKept
<1>4. UseSafe'
  BY <1>1, UsersKept, OutstandingKept DEF UseSafe
<1> QED BY <1>1, <1>2, <1>3, <1>4

\* refCnt_ is at any time the number of threads that use the slot plus the I/O
\* outstanding on it (RefExact), for any number of slots, workers and calls.
THEOREM RefCounted == Spec => []RefExact
<1>1. RefInv => RefExact
  BY DEF RefInv
<1> QED BY <1>1, RefInvInit, RefInvStep, PTL DEF Spec

\* No slot is released while a thread uses it or I/O is outstanding on it (UseSafe).
THEOREM ReleaseSafe == Spec => []UseSafe
<1>1. RefInv => UseSafe
  BY DEF RefInv
<1> QED BY <1>1, RefInvInit, RefInvStep, PTL DEF Spec

-----------------------------------------------------------------------------
(* Counting in sequences *)

Places(s, q) == {i \in 1 .. Len(q) : q[i] = s}

\* Count is the number of those places, and they are finitely many.
LEMMA CountPlaces ==
  ASSUME NEW S, NEW q \in Seq(S), NEW s
  PROVE  /\ IsFiniteSet(Places(s, q)) /\ Count(s, q) = Cardinality(Places(s, q))
         /\ Count(s, q) \in Nat
         /\ Count(s, q) = 0 <=> \A i \in 1 .. Len(q) : q[i] # s
<1>1. DOMAIN q = 1 .. Len(q) /\ Len(q) \in Nat
  OBVIOUS
<1>2. IsFiniteSet(1 .. Len(q))
  BY <1>1, FS_Interval
<1>3. IsFiniteSet(Places(s, q))
  BY <1>2, FS_Subset DEF Places
<1>4. Count(s, q) = Cardinality(Places(s, q))
  BY <1>1 DEF Count, Places
<1>5. Cardinality(Places(s, q)) = 0 <=> Places(s, q) = {}
  BY <1>3, FS_EmptySet
<1> QED BY <1>3, <1>4, <1>5, FS_CardinalityType DEF Places

\* Places moved by one along the sequence are as many.
LEMMA ShiftedPlaces ==
  ASSUME NEW A, NEW B, IsFiniteSet(A), A \subseteq Int, B \subseteq Int,
         \A i \in A : i + 1 \in B, \A j \in B : j - 1 \in A
  PROVE  IsFiniteSet(B) /\ Cardinality(B) = Cardinality(A)
<1> DEFINE f == [i \in A |-> i + 1]
<1>1. f \in Bijection(A, B)
  <2>1. f \in [A -> B]
    OBVIOUS
  <2>2. \A x, y \in A : f[x] = f[y] => x = y
    OBVIOUS
  <2>3. \A y \in B : f[y - 1] = y
    OBVIOUS
  <2> QED BY <2>1, <2>2, <2>3 DEF Bijection, Injection, Surjection, IsInjective
<1>2. ExistsBijection(A, B)
  BY <1>1 DEF ExistsBijection
<1> QED BY <1>2, FS_Bijection

\* Enqueue: one more of what is appended
LEMMA CountAppend ==
  ASSUME NEW S, NEW q \in Seq(S), NEW x \in S, NEW s
  PROVE  Count(s, Append(q, x)) = Count(s, q) + One(x = s)
<1> DEFINE r == Append(q, x)  n == Len(q) + 1
<1>1. r \in Seq(S) /\ Len(r) = n /\ Len(q) \in Nat /\ r[n] = x
      /\ \A i \in 1 .. Len(q) : r[i] = q[i]
  OBVIOUS
<1>2. IsFiniteSet(Places(s, q)) /\ IsFiniteSet(Places(s, r))
      /\ Count(s, q) = Cardinality(Places(s, q)) /\ Count(s, r) = Cardinality(Places(s, r))
  BY <1>1, CountPlaces
<1>3. Places(s, r) \ {n} = Places(s, q)
  BY <1>1 DEF Places
<1>4. n \in Places(s, r) <=> x = s
  BY <1>1 DEF Places
<1>5. Cardinality(Places(s, r)) = Cardinality(Places(s, r) \ {n}) + One(n \in Places(s, r))
  BY <1>2, CardSplit
<1> QED BY <1>2, <1>3, <1>4, <1>5 DEF One

\* Push: one more of what is put in front
LEMMA CountPush ==
  ASSUME NEW S, NEW q \in Seq(S), NEW x \in S, NEW s
  PROVE  Count(s, <<x>> \o q) = Count(s, q) + One(x = s)
<1> DEFINE r == <<x>> \o q
<1>1. r \in Seq(S) /\ Len(r) = Len(q) + 1 /\ Len(q) \in Nat /\ r[1] = x
      /\ \A i \in 1 .. Len(q) : r[i + 1] = q[i]
  OBVIOUS
<1>2. IsFiniteSet(Places(s, q)) /\ IsFiniteSet(Places(s, r))
      /\ Count(s, q) = Cardinality(Places(s, q)) /\ Count(s, r) = Cardinality(Places(s, r))
  BY <1>1, CountPlaces
<1>4. 1 \in Places(s, r) <=> x = s
  BY <1>1 DEF Places
<1>5. Cardinality(Places(s, r)) = Cardinality(Places(s, r) \ {1}) + One(1 \in Places(s, r))
  BY <1>2, CardSplit
<1>6. Cardinality(Places(s, r) \ {1}) = Cardinality(Places(s, q))
  <2>1. /\ Places(s, q) \subseteq Int /\ Places(s, r) \ {1} \subseteq Int
        /\ \A i \in Places(s, q) : i + 1 \in Places(s, r) \ {1}
    BY <1>1 DEF Places
  <2>2. ASSUME NEW j \in Places(s, r) \ {1} PROVE j - 1 \in Places(s, q)
    <3>1. j - 1 \in 1 .. Len(q) /\ r[(j - 1) + 1] = s
      BY <1>1 DEF Places
    <3> QED BY <1>1, <3>1 DEF Places
  <2> QED BY <1>2, <2>1, <2>2, ShiftedPlaces
<1> QED BY <1>2, <1>4, <1>5, <1>6 DEF One

\* Dequeue or Pop: one less of what was in front
LEMMA CountTail ==
  ASSUME NEW S, NEW q \in Seq(S), q # <<>>, NEW s
  PROVE  Count(s, q) = Count(s, Tail(q)) + One(Head(q) = s)
<1>1. Tail(q) \in Seq(S) /\ Head(q) \in S /\ q = <<Head(q)>> \o Tail(q)
  OBVIOUS
<1>2. Count(s, <<Head(q)>> \o Tail(q)) = Count(s, Tail(q)) + One(Head(q) = s)
  BY <1>1, CountPush DEF One
<1> QED BY <1>1, <1>2
-----------------------------------------------------------------------------
(* Counting threads *)

\* The threads at slot s that stand at one of the labels L
NumAt(s, L) == Cardinality({t \in Threads : OnSlot(t, s, L)})

\* They are a number, 0 exactly when nobody stands there.
LEMMA NumAtNat ==
  ASSUME NEW s, NEW L
  PROVE  /\ NumAt(s, L) \in Nat
         /\ NumAt(s, L) = 0 <=> ~Someone(s, L)
         /\ \A t \in Threads : OnSlot(t, s, L) => NumAt(s, L) >= 1
         /\ \A t, u \in Threads : OnSlot(t, s, L) /\ OnSlot(u, s, L) /\ t # u => NumAt(s, L) >= 2
<1> DEFINE A == {t \in Threads : OnSlot(t, s, L)}
<1>1. IsFiniteSet(A)
  BY ThreadsFinite, FS_Subset
<1>2. Cardinality(A) \in Nat /\ (Cardinality(A) = 0 <=> A = {})
  BY <1>1, FS_CardinalityType, FS_EmptySet
<1>3. ASSUME NEW t \in A, NEW u \in A, t # u PROVE Cardinality(A) >= 2
  <2>1. IsFiniteSet(A \ {t}) /\ Cardinality(A) = Cardinality(A \ {t}) + 1
    BY <1>1, CardSplit, FS_Subset, <1>3 DEF One
  <2>2. Cardinality(A \ {t}) \in Nat /\ Cardinality(A \ {t}) # 0
    BY <1>3, <2>1, FS_CardinalityType, FS_EmptySet
  <2> QED BY <2>1, <2>2
<1> QED BY <1>2, <1>3 DEF NumAt, Someone

\* When thread t moves, the number changes by t alone.
LEMMA NumAtMoves ==
  ASSUME NEW t \in Threads, Moves(t), NEW s, NEW L
  PROVE  /\ NumAt(s, L)' \in Nat
         /\ NumAt(s, L)' = NumAt(s, L) + One(at'[t] = s /\ pc'[t] \in L)
                                       - One(at[t] = s /\ pc[t] \in L)
<1> DEFINE A == {u \in Threads : at[u] = s /\ pc[u] \in L}
           B == {u \in Threads : at'[u] = s /\ pc'[u] \in L}
<1>1. IsFiniteSet(A) /\ IsFiniteSet(B)
  BY ThreadsFinite, FS_Subset
<1>2. NumAt(s, L) = Cardinality(A) /\ NumAt(s, L)' = Cardinality(B)
  BY DEF NumAt, OnSlot
<1>3. A \ {t} = B \ {t}
  BY DEF Moves
<1>4. /\ Cardinality(A) \in Nat /\ Cardinality(A \ {t}) \in Nat
      /\ Cardinality(A) = Cardinality(A \ {t}) + One(t \in A)
  BY <1>1, CardSplit
<1>5. /\ Cardinality(B) \in Nat
      /\ Cardinality(B) = Cardinality(B \ {t}) + One(t \in B)
  BY <1>1, CardSplit
<1>6. (t \in A <=> at[t] = s /\ pc[t] \in L) /\ (t \in B <=> at'[t] = s /\ pc'[t] \in L)
  OBVIOUS
<1> QED BY <1>2, <1>3, <1>4, <1>5, <1>6 DEF One
-----------------------------------------------------------------------------
(* A slot is in one place *)

Attempting == {"cnClear", "cnInit"}
Initing == {"cnInit"}
Releasing == {"relNotify", "relPush"}
Slotted == Attempting \cup Releasing

\* In how many places slot s is
PlacesOf(s) ==
    Count(s, stack) + One(con[s] # "none") + Count(s, reconQ) + One(s \in posted)
    + NumAt(s, Attempting) + One(Live(s)) + NumAt(s, Releasing)

\* Each place counts a number of times, and SlotOnce says they are one in all.
SlotFacts ==
    /\ SlotOnce <=> \A s \in Sessions : PlacesOf(s) = 1
    /\ \A s \in Sessions :
          /\ Count(s, stack) \in Nat /\ Count(s, reconQ) \in Nat
          /\ NumAt(s, Attempting) \in Nat /\ NumAt(s, Releasing) \in Nat
          /\ NumAt(s, Initing) \in Nat /\ NumAt(s, Initing) <= NumAt(s, Attempting)
          /\ Live(s) <=> ~released[s] /\ NumAt(s, Initing) = 0

\* This is so in every state that is typed.
LEMMA SlotPlaces == TypeOK => SlotFacts
<1> SUFFICES ASSUME TypeOK PROVE SlotFacts
  OBVIOUS
<1>1. stack \in Seq(Sessions) /\ reconQ \in Seq(Sessions)
  BY DEF TypeOK, TypeKernel
<1>2. \A s \in Sessions : Count(s, stack) \in Nat /\ Count(s, reconQ) \in Nat
  BY <1>1, CountPlaces
<1>3. \A s \in Sessions : /\ NumAt(s, Attempting) \in Nat /\ NumAt(s, Releasing) \in Nat
                          /\ NumAt(s, Initing) \in Nat
  BY NumAtNat
<1>4. \A s \in Sessions : Live(s) <=> ~released[s] /\ NumAt(s, Initing) = 0
  BY NumAtNat DEF Live, Initing
<1>5. ASSUME NEW s \in Sessions PROVE NumAt(s, Initing) <= NumAt(s, Attempting)
  <2> DEFINE A == {t \in Threads : OnSlot(t, s, Attempting)}
             B == {t \in Threads : OnSlot(t, s, Initing)}
  <2>1. IsFiniteSet(A)
    BY ThreadsFinite, FS_Subset
  <2>2. B \in SUBSET A
    BY DEF OnSlot, Attempting, Initing
  <2> QED BY <2>1, <2>2, FS_Subset DEF NumAt
<1>6. \A s \in Sessions :
        PlacesOf(s) = Count(s, stack) + Connecting(s) + One(Live(s))
                      + Cardinality({t \in Threads : OnSlot(t, s, {"relNotify", "relPush"})})
  <2>1. ASSUME NEW s \in Sessions
        PROVE  Connecting(s) = One(con[s] # "none") + Count(s, reconQ) + One(s \in posted)
                               + NumAt(s, Attempting)
    BY DEF Connecting, NumAt, Attempting
  <2>2. ASSUME NEW s \in Sessions
        PROVE  Cardinality({t \in Threads : OnSlot(t, s, {"relNotify", "relPush"})})
               = NumAt(s, Releasing)
    BY DEF NumAt, Releasing
  <2> QED BY <1>2, <1>3, <2>1, <2>2 DEF PlacesOf, One
<1> QED BY <1>2, <1>3, <1>4, <1>5, <1>6 DEF SlotOnce, SlotFacts

\* A step of a thread that is not one of a slot's places, before or after it, and that
\* leaves the other places alone, keeps the slots where they are.
LEMMA SlotKept ==
  ASSUME TypeOK, TypeOK', SlotOnce, NEW t \in Threads, Moves(t),
         UNCHANGED <<stack, reconQ, posted, released>>,
         \A s \in Sessions : con'[s] = "none" <=> con[s] = "none",
         \/ pc[t] \notin Slotted /\ pc'[t] \notin Slotted
         \/ pc'[t] = pc[t] /\ at'[t] = at[t]
  PROVE  SlotOnce'
<1>1. SlotFacts /\ SlotFacts'
  BY SlotPlaces, PTL
<1>2. ASSUME NEW s \in Sessions PROVE PlacesOf(s)' = PlacesOf(s)
  <2>1. \A L \in {Attempting, Initing, Releasing} : NumAt(s, L)' = NumAt(s, L)
    <3> SUFFICES ASSUME NEW L \in {Attempting, Initing, Releasing}
                 PROVE  NumAt(s, L)' = NumAt(s, L)
      OBVIOUS
    <3>1. L \subseteq Slotted
      BY DEF Attempting, Initing, Releasing, Slotted
    <3> QED BY <3>1, NumAtMoves, NumAtNat DEF One
  <2>2. Live(s)' <=> Live(s)
    BY <1>1, <2>1 DEF SlotFacts
  <2> QED BY <2>1, <2>2 DEF PlacesOf, One
<1> QED BY <1>1, <1>2 DEF SlotFacts
\* The threads of a slot, by label, when nobody moves
LEMMA NobodyMoves ==
  ASSUME UNCHANGED <<pc, at, nest>>, NEW s, NEW L
  PROVE  NumAt(s, L)' = NumAt(s, L)
BY DEF NumAt, OnSlot

\* Connect takes a slot from the stack and starts a connect attempt on it.
LEMMA ConnectMovesSlot ==
  ASSUME TypeOK, TypeOK', SlotOnce, Connect
  PROVE  SlotOnce'
<1>0. UNCHANGED <<pc, at, nest>> /\ UNCHANGED <<reconQ, posted, released>>
  BY DEF Connect, thread, refs
<1>1. SlotFacts /\ SlotFacts'
  BY SlotPlaces, PTL
<1>2. ASSUME NEW s \in Sessions PROVE PlacesOf(s)' = PlacesOf(s)
  <2>1. /\ NumAt(s, Attempting)' = NumAt(s, Attempting)
        /\ NumAt(s, Initing)' = NumAt(s, Initing)
        /\ NumAt(s, Releasing)' = NumAt(s, Releasing)
    BY <1>0, NobodyMoves
  <2>2. Live(s)' <=> Live(s)
    BY <1>0, <1>1, <2>1 DEF SlotFacts
  <2>3. CASE stack = <<>>
    BY <1>0, <2>1, <2>2, <2>3 DEF Connect, PlacesOf, One
  <2>4. CASE stack # <<>>
    <3>1. stack \in Seq(Sessions)
      BY DEF TypeOK, TypeKernel
    <3>2. Count(s, stack) = Count(s, Tail(stack)) + One(Head(stack) = s)
      BY <2>4, <3>1, CountTail
    <3>3. stack' = Tail(stack) /\ con' = [con EXCEPT ![Head(stack)] = "posted"]
      BY <2>4 DEF Connect
    <3>4. Count(s, stack') \in Nat /\ Count(s, stack) \in Nat /\ Count(s, reconQ) \in Nat
          /\ NumAt(s, Attempting) \in Nat /\ NumAt(s, Releasing) \in Nat
          /\ PlacesOf(s) = 1
      BY <1>1 DEF SlotFacts
    <3>5. One(con'[s] # "none") = One(con[s] # "none") + One(Head(stack) = s)
      <4>1. con \in [Sessions -> {"none", "posted", "done", "failed"}]
        BY DEF TypeOK, TypeKernel
      <4>2. Head(stack) = s => con[s] = "none"
        BY <3>2, <3>3, <3>4 DEF PlacesOf, One
      <4> QED BY <3>3, <4>1, <4>2 DEF One
    <3> QED BY <1>0, <2>1, <2>2, <3>2, <3>3, <3>4, <3>5 DEF PlacesOf, One
  <2> QED BY <2>3, <2>4
<1> QED BY <1>1, <1>2 DEF SlotFacts

\* A worker takes a completed connect and, as cnClear, stands for the slot.
LEMMA GetConnectMovesSlot ==
  ASSUME TypeOK, TypeOK', SlotOnce, NEW w \in Workers, NEW s \in Sessions, GetConnect(w, s)
  PROVE  SlotOnce'
<1>0. /\ UNCHANGED <<stack, reconQ, posted, released>>
      /\ w \in Threads /\ Moves(w) /\ pc[w] = "idle" /\ pc'[w] = "cnClear" /\ at'[w] = s
  BY DEF GetConnect, Take, At, Goto, Moves, slots, Threads, TypeOK, TypeThread
<1>1. SlotFacts /\ SlotFacts'
  BY SlotPlaces, PTL
<1>2. ASSUME NEW x \in Sessions PROVE PlacesOf(x)' = PlacesOf(x)
  <2>1. /\ NumAt(x, Attempting)' = NumAt(x, Attempting) + One(x = s)
        /\ NumAt(x, Initing)' = NumAt(x, Initing)
        /\ NumAt(x, Releasing)' = NumAt(x, Releasing)
    BY <1>0, <1>1, NumAtMoves DEF Attempting, Initing, Releasing, One, SlotFacts
  <2>2. Live(x)' <=> Live(x)
    BY <1>0, <1>1, <2>1 DEF SlotFacts
  <2>3. One(con'[x] # "none") = One(con[x] # "none") - One(x = s)
    <3>1. con[s] = "done" /\ con' = [con EXCEPT ![s] = "none"]
      BY DEF GetConnect
    <3> QED BY <3>1 DEF One, TypeOK, TypeKernel
  <2> QED BY <1>0, <1>1, <2>1, <2>2, <2>3 DEF PlacesOf, One, SlotFacts
<1> QED BY <1>1, <1>2 DEF SlotFacts

\* Between RELEASE_FLAG cleared and Init the slot is its worker's; then it is live.
LEMMA InitMovesSlot ==
  ASSUME TypeOK, TypeOK', SlotOnce, UseSafe, NEW w \in Workers, NEW s \in Sessions,
         CnClear(w, s) \/ CnInit(w, s)
  PROVE  SlotOnce'
<1>0. /\ UNCHANGED <<stack, reconQ, posted, con>>
      /\ w \in Threads /\ Moves(w) /\ at[w] = s /\ at'[w] = s
  BY DEF CnClear, CnInit, At, Goto, Stay, Moves, slots, kernel, Threads, TypeOK, TypeThread
<1>1. SlotFacts /\ SlotFacts'
  BY SlotPlaces, PTL
<1>2. OnSlot(w, s, Attempting) /\ NumAt(s, Attempting) >= 1
  <2>1. OnSlot(w, s, Attempting)
    BY <1>0 DEF CnClear, CnInit, At, OnSlot, Attempting
  <2> QED BY <1>0, <2>1, NumAtNat
<1>3. PlacesOf(s) = 1 /\ ~Live(s) /\ NumAt(s, Attempting) = 1
  <2>1. PlacesOf(s) = 1
    BY <1>1 DEF SlotFacts
  <2>2. /\ Count(s, stack) \in Nat /\ Count(s, reconQ) \in Nat
        /\ NumAt(s, Attempting) \in Nat /\ NumAt(s, Releasing) \in Nat
    BY <1>1 DEF SlotFacts
  <2> QED BY <1>2, <2>1, <2>2 DEF PlacesOf, One
<1>4. CASE CnClear(w, s)
  <2>1. pc[w] = "cnClear" /\ pc'[w] = "cnInit" /\ released' = [released EXCEPT ![s] = FALSE]
    BY <1>4 DEF CnClear, At, Goto, TypeOK, TypeThread
  <2>2. ASSUME NEW x \in Sessions PROVE PlacesOf(x)' = PlacesOf(x)
    <3>1. /\ NumAt(x, Attempting)' = NumAt(x, Attempting)
          /\ NumAt(x, Initing)' = NumAt(x, Initing) + One(x = s)
          /\ NumAt(x, Releasing)' = NumAt(x, Releasing)
      BY <1>0, <1>1, <2>1, NumAtMoves DEF Attempting, Initing, Releasing, One, SlotFacts
    <3>2. Live(x)' <=> Live(x)
      BY <1>1, <1>3, <2>1, <3>1 DEF SlotFacts, One, TypeOK, TypeSession
    <3> QED BY <1>0, <3>1, <3>2 DEF PlacesOf, One
  <2> QED BY <1>1, <2>2 DEF SlotFacts
<1>5. CASE CnInit(w, s)
  <2>1. pc[w] = "cnInit" /\ pc'[w] = "rpost" /\ UNCHANGED released
    BY <1>5 DEF CnInit, At, Goto, refs, TypeOK, TypeThread
  <2>2. ~released[s]
    BY <1>0, <2>1 DEF UseSafe, Using, Working, Holding, Labels
  <2>3. ASSUME NEW x \in Sessions PROVE PlacesOf(x)' = PlacesOf(x)
    <3>1. /\ NumAt(x, Attempting)' = NumAt(x, Attempting) - One(x = s)
          /\ NumAt(x, Initing)' = NumAt(x, Initing) - One(x = s)
          /\ NumAt(x, Releasing)' = NumAt(x, Releasing)
      BY <1>0, <1>1, <2>1, NumAtMoves DEF Attempting, Initing, Releasing, One, SlotFacts
    <3>2. CASE x = s
      <4>1. Live(s)'
        BY <1>1, <1>3, <2>1, <2>2, <3>1, <3>2 DEF SlotFacts, One
      <4> QED BY <1>0, <1>1, <1>3, <3>1, <3>2, <4>1 DEF PlacesOf, One, SlotFacts
    <3>3. CASE x # s
      <4>1. Live(x)' <=> Live(x)
        BY <1>1, <2>1, <3>1, <3>3 DEF SlotFacts, One
      <4> QED BY <1>0, <1>1, <3>1, <3>3, <4>1 DEF PlacesOf, One, SlotFacts
    <3> QED BY <3>2, <3>3
  <2> QED BY <1>1, <2>3 DEF SlotFacts
<1> QED BY <1>4, <1>5
\* The thread whose compare-exchange sets RELEASE_FLAG has the slot until it pushes it.
LEMMA ReleaseMovesSlot ==
  ASSUME TypeOK, TypeOK', SlotOnce, RefExact, NEW t \in Threads, NEW s \in Sessions,
         ReleaseSession(t, s) \/ RelNotify(t, s) \/ RelPush(t, s)
  PROVE  SlotOnce'
<1>0. /\ UNCHANGED <<reconQ, posted, con>> /\ Moves(t) /\ at[t] = s /\ at'[t] = s
  BY DEF ReleaseSession, RelNotify, RelPush, Return, At, Goto, Stay, Moves, slots, kernel,
         TypeOK, TypeThread
<1>1. SlotFacts /\ SlotFacts'
  BY SlotPlaces, PTL
<1>2. CASE ReleaseSession(t, s)
  <2>0. UNCHANGED stack /\ pc[t] = "rel"
    BY <1>2 DEF ReleaseSession, At, slots
  <2>1. CASE MayRelease(s)
    <3>1. pc'[t] = "relNotify" /\ released' = [released EXCEPT ![s] = TRUE]
          /\ ~released[s] /\ refCnt[s] = 0
      BY <1>2, <2>1 DEF ReleaseSession, MayRelease, Goto, TypeOK, TypeThread
    <3>2. Live(s)
      <4>1. NumAt(s, Initing) = 0
        <5> SUFFICES ASSUME NEW u \in Threads, OnSlot(u, s, Initing) PROVE FALSE
          BY <1>1, NumAtNat DEF Someone, SlotFacts
        <5>1. Share(u, s) >= 1
          BY DEF OnSlot, Initing, Share, One, Holding, Labels
        <5>2. refCnt[s] = Refs(s) + Outstanding(s) /\ Outstanding(s) \in Nat
          BY OutstandingNat DEF RefExact, Refs, TypeOK, TypeKernel, IoType
        <5> QED BY <3>1, <5>1, <5>2, ShareOfRefs
      <4> QED BY <1>1, <3>1, <4>1 DEF SlotFacts
    <3>3. ASSUME NEW x \in Sessions PROVE PlacesOf(x)' = PlacesOf(x)
      <4>1. /\ NumAt(x, Attempting)' = NumAt(x, Attempting)
            /\ NumAt(x, Initing)' = NumAt(x, Initing)
            /\ NumAt(x, Releasing)' = NumAt(x, Releasing) + One(x = s)
        BY <1>0, <1>1, <2>0, <3>1, NumAtMoves
        DEF Attempting, Initing, Releasing, One, SlotFacts
      <4>2. One(Live(x)') = One(Live(x)) - One(x = s)
        BY <1>1, <3>1, <3>2, <4>1 DEF SlotFacts, One, TypeOK, TypeSession
      <4>3. One(Live(x)) \in Nat /\ One(x = s) \in Nat
        BY DEF One
      <4> QED BY <1>0, <1>1, <2>0, <4>1, <4>2, <4>3 DEF PlacesOf, One, SlotFacts
    <3> QED BY <1>1, <3>3 DEF SlotFacts
  <2>2. CASE ~MayRelease(s)
    <3>1. pc'[t] \notin Slotted /\ UNCHANGED released
      BY <1>2, <2>2
      DEF ReleaseSession, Return, Goto, Slotted, Attempting, Releasing, TypeOK, TypeThread
    <3>2. pc[t] \notin Slotted
      BY <2>0 DEF Slotted, Attempting, Releasing
    <3> QED BY <1>0, <2>0, <3>1, <3>2, SlotKept
  <2> QED BY <2>1, <2>2
<1>3. CASE RelNotify(t, s)
  <2>1. UNCHANGED <<stack, released>> /\ pc[t] = "relNotify" /\ pc'[t] = "relPush"
    BY <1>3 DEF RelNotify, At, Goto, slots, refs, TypeOK, TypeThread
  <2>2. ASSUME NEW x \in Sessions PROVE PlacesOf(x)' = PlacesOf(x)
    <3>1. /\ NumAt(x, Attempting)' = NumAt(x, Attempting)
          /\ NumAt(x, Initing)' = NumAt(x, Initing)
          /\ NumAt(x, Releasing)' = NumAt(x, Releasing)
      BY <1>0, <1>1, <2>1, NumAtMoves DEF Attempting, Initing, Releasing, One, SlotFacts
    <3>2. Live(x)' <=> Live(x)
      BY <1>1, <2>1, <3>1 DEF SlotFacts
    <3> QED BY <1>0, <2>1, <3>1, <3>2 DEF PlacesOf, One
  <2> QED BY <1>1, <2>2 DEF SlotFacts
<1>4. CASE RelPush(t, s)
  <2>1. UNCHANGED released /\ pc[t] = "relPush" /\ pc'[t] \notin Slotted
        /\ stack' = <<s>> \o stack
    BY <1>4 DEF RelPush, At, Return, Goto, slots, refs, TypeOK, TypeThread, Slotted,
                Attempting, Releasing
  <2>3. pc'[t] \notin Attempting /\ pc'[t] \notin Initing /\ pc'[t] \notin Releasing
    BY <2>1 DEF Slotted, Attempting, Initing, Releasing
  <2>2. ASSUME NEW x \in Sessions PROVE PlacesOf(x)' = PlacesOf(x)
    <3>1. /\ NumAt(x, Attempting)' = NumAt(x, Attempting)
          /\ NumAt(x, Initing)' = NumAt(x, Initing)
          /\ NumAt(x, Releasing)' = NumAt(x, Releasing) - One(x = s)
      <4>1. pc[t] \notin Attempting /\ pc[t] \notin Initing /\ pc[t] \in Releasing
        BY <2>1 DEF Attempting, Initing, Releasing
      <4> QED BY <1>0, <1>1, <2>3, <4>1, NumAtMoves DEF One, SlotFacts
    <3>2. Live(x)' <=> Live(x)
      BY <1>1, <2>1, <3>1 DEF SlotFacts
    <3>3. Count(x, stack') = Count(x, stack) + One(x = s)
      <4>1. stack \in Seq(Sessions)
        BY DEF TypeOK, TypeKernel
      <4> QED BY <2>1, <4>1, CountPush DEF One
    <3> QED BY <1>0, <1>1, <3>1, <3>2, <3>3 DEF PlacesOf, One, SlotFacts
  <2> QED BY <1>1, <2>2 DEF SlotFacts
<1> QED BY <1>2, <1>3, <1>4

\* A failed connect sends the slot to ReconnectQ_ or back to the stack.
LEMMA ConnectFailMovesSlot ==
  ASSUME TypeOK, TypeOK', SlotOnce, NEW w \in Workers, NEW s \in Sessions,
         GetConnectFail(w, s)
  PROVE  SlotOnce'
<1>0. /\ UNCHANGED <<posted, released>> /\ w \in Threads /\ Moves(w)
      /\ pc[w] = "idle" /\ pc'[w] \in {"cfTimer", "cfNotify"}
      /\ con[s] = "failed" /\ con' = [con EXCEPT ![s] = "none"]
  BY DEF GetConnectFail, Requeue, GiveUp, Take, At, Goto, Moves, refs, Threads, TypeOK,
         TypeThread
<1>1. SlotFacts /\ SlotFacts'
  BY SlotPlaces, PTL
<1>2. \/ reconQ' = Append(reconQ, s) /\ UNCHANGED stack
      \/ stack' = <<s>> \o stack /\ UNCHANGED reconQ
  BY DEF GetConnectFail, Requeue, GiveUp
<1>3. stack \in Seq(Sessions) /\ reconQ \in Seq(Sessions)
  BY DEF TypeOK, TypeKernel
<1>4. ASSUME NEW x \in Sessions PROVE PlacesOf(x)' = PlacesOf(x)
  <2>1. /\ NumAt(x, Attempting)' = NumAt(x, Attempting)
        /\ NumAt(x, Initing)' = NumAt(x, Initing)
        /\ NumAt(x, Releasing)' = NumAt(x, Releasing)
    BY <1>0, <1>1, NumAtMoves, SMTT(30) DEF Attempting, Initing, Releasing, One, SlotFacts
  <2>2. Live(x)' <=> Live(x)
    BY <1>0, <1>1, <2>1 DEF SlotFacts
  <2>3. One(con'[x] # "none") = One(con[x] # "none") - One(x = s)
    BY <1>0 DEF One, TypeOK, TypeKernel
  <2>5. Count(x, stack) \in Nat /\ Count(x, reconQ) \in Nat
    BY <1>1 DEF SlotFacts
  <2>4. Count(x, stack') + Count(x, reconQ')
        = Count(x, stack) + Count(x, reconQ) + One(x = s)
    <3>1. CASE reconQ' = Append(reconQ, s) /\ UNCHANGED stack
      <4>1. Count(x, reconQ') = Count(x, reconQ) + One(x = s)
        BY <1>3, <3>1, CountAppend DEF One
      <4> QED BY <2>5, <3>1, <4>1 DEF One
    <3>2. CASE stack' = <<s>> \o stack /\ UNCHANGED reconQ
      <4>1. Count(x, stack') = Count(x, stack) + One(x = s)
        BY <1>3, <3>2, CountPush DEF One
      <4> QED BY <2>5, <3>2, <4>1 DEF One
    <3> QED BY <1>2, <3>1, <3>2
  <2> QED BY <1>0, <1>1, <2>1, <2>2, <2>3, <2>4 DEF PlacesOf, One, SlotFacts
<1> QED BY <1>1, <1>4 DEF SlotFacts

\* A worker takes a RECONNECT completion and connects again.
LEMMA ReconnectMovesSlot ==
  ASSUME TypeOK, TypeOK', SlotOnce, NEW w \in Workers, NEW s \in Sessions,
         GetReconnect(w, s)
  PROVE  SlotOnce'
<1>0. /\ UNCHANGED <<stack, reconQ, released>> /\ w \in Threads /\ Moves(w)
      /\ pc[w] = "idle" /\ pc'[w] = "idle"
      /\ s \in posted /\ posted' = posted \ {s} /\ con' = [con EXCEPT ![s] = "posted"]
  BY DEF GetReconnect, Take, At, Goto, Moves, refs, slots, Threads, TypeOK, TypeThread
<1>1. SlotFacts /\ SlotFacts'
  BY SlotPlaces, PTL
<1>2. con[s] = "none"
  <2>1. PlacesOf(s) = 1
    BY <1>1 DEF SlotFacts
  <2>2. /\ Count(s, stack) \in Nat /\ Count(s, reconQ) \in Nat
        /\ NumAt(s, Attempting) \in Nat /\ NumAt(s, Releasing) \in Nat
    BY <1>1 DEF SlotFacts
  <2> QED BY <1>0, <2>1, <2>2 DEF PlacesOf, One
<1>3. ASSUME NEW x \in Sessions PROVE PlacesOf(x)' = PlacesOf(x)
  <2>1. /\ NumAt(x, Attempting)' = NumAt(x, Attempting)
        /\ NumAt(x, Initing)' = NumAt(x, Initing)
        /\ NumAt(x, Releasing)' = NumAt(x, Releasing)
    BY <1>0, <1>1, NumAtMoves DEF Attempting, Initing, Releasing, One, SlotFacts
  <2>2. Live(x)' <=> Live(x)
    BY <1>0, <1>1, <2>1 DEF SlotFacts
  <2>3. One(con'[x] # "none") + One(x \in posted') = One(con[x] # "none") + One(x \in posted)
    BY <1>0, <1>2 DEF One, TypeOK, TypeKernel
  <2> QED BY <1>0, <1>1, <2>1, <2>2, <2>3 DEF PlacesOf, One, SlotFacts
<1> QED BY <1>1, <1>3 DEF SlotFacts

\* A timer posts the session at the head of ReconnectQ_, which is not posted yet.
LEMMA TimerMovesSlot ==
  ASSUME TypeOK, TypeOK', SlotOnce, TimerFire
  PROVE  SlotOnce'
<1>0. UNCHANGED <<stack, con, released>> /\ UNCHANGED <<pc, at, nest>>
  BY DEF TimerFire, Outside, thread, refs
<1>1. SlotFacts /\ SlotFacts'
  BY SlotPlaces, PTL
<1>2. reconQ \in Seq(Sessions)
  BY DEF TypeOK, TypeKernel
<1>3. ASSUME NEW x \in Sessions PROVE PlacesOf(x)' = PlacesOf(x)
  <2>1. /\ NumAt(x, Attempting)' = NumAt(x, Attempting)
        /\ NumAt(x, Initing)' = NumAt(x, Initing)
        /\ NumAt(x, Releasing)' = NumAt(x, Releasing)
    BY <1>0, NobodyMoves
  <2>2. Live(x)' <=> Live(x)
    BY <1>0, <1>1, <2>1 DEF SlotFacts
  <2>3. Count(x, reconQ') + One(x \in posted') = Count(x, reconQ) + One(x \in posted)
    <3>1. CASE reconQ = <<>>
      BY <3>1 DEF TimerFire, One
    <3>2. CASE reconQ # <<>>
      <4>1. Count(x, reconQ) = Count(x, Tail(reconQ)) + One(Head(reconQ) = x)
        BY <1>2, <3>2, CountTail
      <4>2. posted' = posted \cup {Head(reconQ)} /\ reconQ' = Tail(reconQ)
        BY <3>2 DEF TimerFire
      <4>3. /\ PlacesOf(x) = 1
            /\ Count(x, stack) \in Nat /\ Count(x, reconQ) \in Nat
            /\ Count(x, reconQ') \in Nat
            /\ NumAt(x, Attempting) \in Nat /\ NumAt(x, Releasing) \in Nat
        BY <1>1 DEF SlotFacts
      <4>4. Head(reconQ) = x => x \notin posted
        BY <4>1, <4>2, <4>3 DEF PlacesOf, One
      <4> QED BY <4>1, <4>2, <4>3, <4>4 DEF One
    <3> QED BY <3>1, <3>2
  <2> QED BY <1>0, <1>1, <2>1, <2>2, <2>3 DEF PlacesOf, One, SlotFacts
<1> QED BY <1>1, <1>3 DEF SlotFacts
\* The invariant of the slots
SlotInv == RefInv /\ SlotOnce

\* The constructor pushes every slot once.
LEMMA SlotInit == Init => SlotOnce
<1> SUFFICES ASSUME Init PROVE SlotOnce
  OBVIOUS
<1>1. TypeOK
  BY TypeInit
<1>2. SlotFacts
  BY <1>1, SlotPlaces
<1>3. ASSUME NEW s \in Sessions PROVE PlacesOf(s) = 1
  <2>1. Count(s, stack) = 1
    <3>1. stack \in Seq(Sessions) /\ Len(stack) = MaxSession
          /\ \A i \in 1 .. MaxSession : stack[i] = i - 1
      BY SessionAssumption DEF Init, FreshStack, Sessions
    <3>2. Places(s, stack) = {s + 1}
      BY <3>1, SessionAssumption DEF Places, Sessions
    <3>3. Count(s, stack) = Cardinality(Places(s, stack))
      BY <3>1, CountPlaces
    <3> QED BY <3>2, <3>3, FS_Singleton
  <2>2. Count(s, reconQ) = 0
    <3>1. reconQ \in Seq(Sessions) /\ \A i \in 1 .. Len(reconQ) : reconQ[i] # s
      BY DEF Init
    <3>2. Count(s, reconQ) = 0 <=> \A i \in 1 .. Len(reconQ) : reconQ[i] # s
      BY <3>1, CountPlaces
    <3> QED BY <3>1, <3>2
  <2>3. NumAt(s, Attempting) = 0 /\ NumAt(s, Releasing) = 0
    <3>1. ~Someone(s, Attempting) /\ ~Someone(s, Releasing)
      BY DEF Init, Someone, OnSlot, Attempting, Releasing
    <3> QED BY <3>1, NumAtNat
  <2>4. ~Live(s) /\ con[s] = "none" /\ s \notin posted
    BY DEF Init, Live
  <2> QED BY <2>1, <2>2, <2>3, <2>4 DEF PlacesOf, One
<1> QED BY <1>2, <1>3 DEF SlotFacts

\* No step puts a slot in two places or in none.
LEMMA SlotStep == RefInv /\ TypeOK' /\ SlotOnce /\ [Next]_vars => SlotOnce'
<1> SUFFICES ASSUME RefInv, TypeOK', SlotOnce, [Next]_vars PROVE SlotOnce'
  OBVIOUS
<1> DEFINE Elsewhere(t) ==
             /\ Moves(t) /\ UNCHANGED <<stack, reconQ, posted, released>>
             /\ \A s \in Sessions : con'[s] = "none" <=> con[s] = "none"
             /\ \/ pc[t] \notin Slotted /\ pc'[t] \notin Slotted
                \/ pc'[t] = pc[t] /\ at'[t] = at[t]
<1>0. /\ TypeOK /\ RefExact /\ UseSafe /\ Owner \in Threads /\ Workers \subseteq Threads
      /\ pc \in [Threads -> Labels] /\ at \in [Threads -> Sessions]
      /\ nest \in [Threads -> BOOLEAN]
  BY DEF RefInv, TypeOK, TypeThread, Threads
<1>a. ASSUME NEW t \in Threads, Elsewhere(t) PROVE SlotOnce'
  BY <1>0, <1>a, SlotKept
<1> USE <1>0 DEF Moves, Slotted, Attempting, Releasing, thread, kernel, slots, refs
<1>1. ASSUME OwnerStep PROVE SlotOnce'
  <2>1. CASE Connect
    BY <2>1, ConnectMovesSlot
  <2>2. CASE TakeJob \/ FreeSmart
    <3>1. Elsewhere(Owner)
      BY <2>2 DEF TakeJob, FreeSmart, Stay, Goto, At
    <3> QED BY <3>1, <1>a
  <2>3. CASE SendPacket \/ Disconnect
    <3>1. Elsewhere(Owner)
      BY <2>3 DEF SendPacket, Disconnect, Ready, Enter, Goto, At
    <3> QED BY <3>1, <1>a
  <2> QED BY <1>1, <2>1, <2>2, <2>3 DEF OwnerStep
<1>2. ASSUME NEW t \in Threads, NEW s \in Sessions, CallStep(t, s) PROVE SlotOnce'
  <2>1. CASE ReleaseSession(t, s) \/ RelNotify(t, s) \/ RelPush(t, s)
    BY <2>1, ReleaseMovesSlot
  <2>2. CASE SpCheck(t, s) \/ SpEnq(t, s) \/ SendPost(t, s) \/ PostX(t, s) \/ PostN(t, s)
             \/ PostU(t, s)
    <3>1. Elsewhere(t)
      BY <2>2 DEF SpCheck, SpEnq, SendPost, PostX, PostN, PostU, Stay, Goto, At
    <3> QED BY <3>1, <1>a
  <2>3. CASE PostIo(t, s) \/ PostDisc(t, s) \/ DcCheck(t, s) \/ DcX(t, s)
             \/ DcCancelSend(t, s) \/ DcCancelRecv(t, s)
    <3>1. Elsewhere(t)
      BY <2>3 DEF PostIo, PostDisc, DcCheck, DcX, DcCancelSend, DcCancelRecv, IoRefused,
                  Stay, Goto, At
    <3> QED BY <3>1, <1>a
  <2>4. CASE Decrement(t, s)
    <3>1. Elsewhere(t)
      BY <2>4 DEF Decrement, Return, Goto, At
    <3> QED BY <3>1, <1>a
  <2> QED BY <1>2, <2>1, <2>2, <2>3, <2>4 DEF CallStep
<1>3. ASSUME NEW w \in Workers, NEW s \in Sessions, HandleStep(w, s) PROVE SlotOnce'
  <2>1. CASE CnClear(w, s) \/ CnInit(w, s)
    BY <2>1, InitMovesSlot
  <2>2. CASE SnClear(w, s) \/ RecvMessage(w, s) \/ RecvEnd(w, s) \/ RpDisc(w, s)
    <3>1. Elsewhere(w)
      BY <2>2 DEF SnClear, RecvMessage, RecvEnd, RpDisc, Stay, Goto, At
    <3> QED BY <3>1, <1>a
  <2>3. CASE RecvBad(w, s) \/ RecvPost(w, s)
    <3>1. Elsewhere(w)
      BY <2>3 DEF RecvBad, RecvPost, Enter, IoRefused, Stay, Goto, At
    <3> QED BY <3>1, <1>a
  <2> QED BY <1>3, <2>1, <2>2, <2>3 DEF HandleStep
<1>4. ASSUME NEW w \in Workers, NEW s \in Sessions, GetStep(w, s) PROVE SlotOnce'
  <2>1. CASE GetConnect(w, s)
    BY <2>1, GetConnectMovesSlot
  <2>2. CASE GetConnectFail(w, s)
    BY <2>2, ConnectFailMovesSlot
  <2>3. CASE GetReconnect(w, s)
    BY <2>3, ReconnectMovesSlot
  <2>4. CASE GetDead(w, s) \/ GetRecv(w, s) \/ GetSent(w, s)
    <3>1. Elsewhere(w)
      BY <2>4 DEF GetDead, GetRecv, GetSent, Take, Goto, At
    <3> QED BY <3>1, <1>a
  <2> QED BY <1>4, <2>1, <2>2, <2>3, <2>4 DEF GetStep
<1>5. ASSUME NEW w \in Workers, CfTimer(w) \/ CfNotify(w) PROVE SlotOnce'
  <2>1. Elsewhere(w)
    BY <1>5 DEF CfTimer, CfNotify, Stay, Goto, At
  <2> QED BY <2>1, <1>a
<1>6. ASSUME NEW s \in Sessions, KernelStep(s) PROVE SlotOnce'
  <2>1. Elsewhere(Owner)
    <3>1. CASE ConnectDone(s)
      <4>1. con \in [Sessions -> {"none", "posted", "done", "failed"}]
        BY DEF TypeOK, TypeKernel
      <4> QED BY <3>1, <4>1 DEF ConnectDone, Outside
    <3>2. CASE PeerDown(s) \/ RecvDone(s) \/ SendDone(s) \/ IoDead(s)
      BY <3>2 DEF PeerDown, RecvDone, SendDone, IoDead, Outside
    <3> QED BY <1>6, <3>1, <3>2 DEF KernelStep
  <2> QED BY <2>1, <1>a
<1>7. ASSUME TimerFire PROVE SlotOnce'
  BY <1>7, TimerMovesSlot
<1>8. CASE UNCHANGED vars
  <2>1. Elsewhere(Owner)
    BY <1>8 DEF vars
  <2> QED BY <2>1, <1>a
<1> QED BY <1>1, <1>2, <1>3, <1>4, <1>5, <1>6, <1>7, <1>8 DEF Next

\* A slot is at any time in exactly one place: never twice in DisconnectStack_, never
\* lost, never live while it is connecting (SlotOnce).  Late calls make no difference.
THEOREM OnePlaceOnly == Spec => []SlotOnce
<1>1. Init => SlotInv
  BY RefInvInit, SlotInit DEF SlotInv
<1>2. SlotInv /\ [Next]_vars => SlotInv'
  BY RefInvStep, SlotStep DEF SlotInv, RefInv
<1>3. SlotInv => SlotOnce
  BY DEF SlotInv
<1> QED BY <1>1, <1>2, <1>3, PTL DEF Spec
-----------------------------------------------------------------------------
(* A reconnect timer finds its session *)

\* When one element comes or goes, a finite set changes its size by that one.
LEMMA SetMoves ==
  ASSUME NEW A, NEW B, IsFiniteSet(A), IsFiniteSet(B), NEW x, A \ {x} = B \ {x}
  PROVE  /\ Cardinality(A) \in Nat /\ Cardinality(B) \in Nat
         /\ Cardinality(B) = Cardinality(A) + One(x \in B) - One(x \in A)
<1>1. /\ Cardinality(A) \in Nat /\ Cardinality(A \ {x}) \in Nat
      /\ Cardinality(A) = Cardinality(A \ {x}) + One(x \in A)
  BY CardSplit
<1>2. /\ Cardinality(B) \in Nat /\ Cardinality(B) = Cardinality(B \ {x}) + One(x \in B)
  BY CardSplit
<1> QED BY <1>1, <1>2, SMTT(30) DEF One

\* The workers between an Enqueue into ReconnectQ_ and their CreateTimerQueueTimer
Arming == {t \in Threads : pc[t] = "cfTimer"}

\* Their number changes by the thread that moves.
LEMMA ArmingMoves ==
  ASSUME NEW t \in Threads, Moves(t)
  PROVE  /\ Cardinality(Arming) \in Nat /\ Cardinality(Arming') \in Nat
         /\ Cardinality(Arming') = Cardinality(Arming) + One(pc'[t] = "cfTimer")
                                                       - One(pc[t] = "cfTimer")
<1> DEFINE A == Arming  B == {u \in Threads : pc'[u] = "cfTimer"}
<1>1. IsFiniteSet(A) /\ IsFiniteSet(B) /\ Arming' = B
  BY ThreadsFinite, FS_Subset DEF Arming
<1>2. A \ {t} = B \ {t} /\ (t \in A <=> pc[t] = "cfTimer") /\ (t \in B <=> pc'[t] = "cfTimer")
  BY DEF Moves, Arming
<1>3. /\ Cardinality(A) \in Nat /\ Cardinality(B) \in Nat
      /\ Cardinality(B) = Cardinality(A) + One(t \in B) - One(t \in A)
  BY <1>1, <1>2, SetMoves
<1> QED BY <1>1, <1>2, <1>3 DEF One

\* Enqueue, timer, firing and Dequeue keep step.
LEMMA TimerStep == TypeOK /\ TypeOK' /\ TimerFindsSession /\ [Next]_vars => TimerFindsSession'
<1> SUFFICES ASSUME TypeOK, TypeOK', TimerFindsSession, [Next]_vars PROVE TimerFindsSession'
  OBVIOUS
<1> DEFINE Apart(t) == /\ Moves(t) /\ UNCHANGED <<timers, reconQ>>
                       /\ pc[t] = "cfTimer" <=> pc'[t] = "cfTimer"
<1>0. /\ Owner \in Threads /\ Workers \subseteq Threads
      /\ pc \in [Threads -> Labels] /\ at \in [Threads -> Sessions]
      /\ nest \in [Threads -> BOOLEAN]
      /\ timers \in Nat /\ timers' \in Nat /\ reconQ \in Seq(Sessions)
  BY DEF TypeOK, TypeThread, TypeKernel, Threads
<1>b. timers + Cardinality(Arming) = Len(reconQ) /\ Len(reconQ) \in Nat
  BY <1>0 DEF TimerFindsSession, Arming
<1>c. timers' + Cardinality(Arming') = Len(reconQ') => TimerFindsSession'
  BY DEF TimerFindsSession, Arming
<1>a. ASSUME NEW t \in Threads, Apart(t) PROVE TimerFindsSession'
  BY <1>0, <1>a, <1>b, <1>c, ArmingMoves DEF One
<1> USE <1>0 DEF Moves, thread, kernel, slots
<1>1. ASSUME OwnerStep PROVE TimerFindsSession'
  <2>1. Apart(Owner)
    BY <1>1 DEF OwnerStep, TakeJob, Connect, SendPacket, Disconnect, FreeSmart, Ready, Enter,
                Stay, Goto, At
  <2> QED BY <2>1, <1>a
<1>2. ASSUME NEW t \in Threads, NEW s \in Sessions, CallStep(t, s) PROVE TimerFindsSession'
  <2>1. CASE SpCheck(t, s) \/ SpEnq(t, s) \/ SendPost(t, s) \/ PostX(t, s) \/ PostN(t, s)
             \/ PostU(t, s)
    <3>1. Apart(t)
      BY <2>1 DEF SpCheck, SpEnq, SendPost, PostX, PostN, PostU, Stay, Goto, At
    <3> QED BY <3>1, <1>a
  <2>2. CASE PostIo(t, s) \/ PostDisc(t, s) \/ DcCheck(t, s) \/ DcX(t, s)
             \/ DcCancelSend(t, s) \/ DcCancelRecv(t, s)
    <3>1. Apart(t)
      BY <2>2 DEF PostIo, PostDisc, DcCheck, DcX, DcCancelSend, DcCancelRecv, IoRefused,
                  Stay, Goto, At
    <3> QED BY <3>1, <1>a
  <2>3. CASE Decrement(t, s) \/ ReleaseSession(t, s) \/ RelNotify(t, s) \/ RelPush(t, s)
    <3>1. Apart(t)
      BY <2>3 DEF Decrement, ReleaseSession, RelNotify, RelPush, Return, Stay, Goto, At
    <3> QED BY <3>1, <1>a
  <2> QED BY <1>2, <2>1, <2>2, <2>3 DEF CallStep
<1>3. ASSUME NEW w \in Workers, NEW s \in Sessions, HandleStep(w, s) PROVE TimerFindsSession'
  <2>1. Apart(w)
    BY <1>3 DEF HandleStep, CnClear, CnInit, SnClear, RecvMessage, RecvBad, RecvEnd, RecvPost,
                RpDisc, Enter, IoRefused, Stay, Goto, At
  <2> QED BY <2>1, <1>a
<1>4. ASSUME NEW w \in Workers, NEW s \in Sessions, GetStep(w, s) PROVE TimerFindsSession'
  <2>1. CASE GetConnect(w, s) \/ GetReconnect(w, s) \/ GetDead(w, s) \/ GetRecv(w, s)
             \/ GetSent(w, s)
    <3>1. Apart(w)
      BY <2>1 DEF GetConnect, GetReconnect, GetDead, GetRecv, GetSent, Take, Goto, At
    <3> QED BY <3>1, <1>a
  <2>2. CASE GetConnectFail(w, s)
    <3>1. Moves(w) /\ pc[w] = "idle" /\ UNCHANGED timers
      BY <2>2 DEF GetConnectFail, Requeue, GiveUp, Take, Goto, At
    <3>2. \/ pc'[w] = "cfTimer" /\ reconQ' = Append(reconQ, s)
          \/ pc'[w] = "cfNotify" /\ UNCHANGED reconQ
      BY <2>2 DEF GetConnectFail, Requeue, GiveUp, Goto
    <3>3. Len(Append(reconQ, s)) = Len(reconQ) + 1
      OBVIOUS
    <3> QED BY <1>b, <1>c, <3>1, <3>2, <3>3, ArmingMoves, SMTT(30) DEF One
  <2> QED BY <1>4, <2>1, <2>2 DEF GetStep
<1>5. ASSUME NEW w \in Workers, CfTimer(w) \/ CfNotify(w) PROVE TimerFindsSession'
  <2>1. CASE CfTimer(w)
    <3>1. Moves(w) /\ pc[w] = "cfTimer" /\ pc'[w] = "idle" /\ timers' = timers + 1
          /\ UNCHANGED reconQ
      BY <2>1 DEF CfTimer, Stay, Goto, At
    <3> QED BY <1>b, <1>c, <3>1, ArmingMoves DEF One
  <2>2. CASE CfNotify(w)
    <3>1. Apart(w)
      BY <2>2 DEF CfNotify, Stay, Goto, At
    <3> QED BY <3>1, <1>a
  <2> QED BY <1>5, <2>1, <2>2
<1>6. ASSUME NEW s \in Sessions, KernelStep(s) PROVE TimerFindsSession'
  <2>1. Apart(Owner)
    BY <1>6 DEF KernelStep, ConnectDone, PeerDown, RecvDone, SendDone, IoDead, Outside
  <2> QED BY <2>1, <1>a
<1>7. ASSUME TimerFire PROVE TimerFindsSession'
  <2>1. Moves(Owner) /\ UNCHANGED pc /\ timers > 0 /\ timers' = timers - 1
    BY <1>7 DEF TimerFire, Outside
  <2>2. Cardinality(Arming) \in Nat /\ Cardinality(Arming') = Cardinality(Arming)
    BY <2>1, ArmingMoves DEF One
  <2>3. reconQ # <<>>
    BY <1>b, <2>1, <2>2
  <2>4. Len(reconQ') = Len(reconQ) - 1
    <3>1. reconQ' = Tail(reconQ)
      BY <1>7, <2>3 DEF TimerFire
    <3> QED BY <2>3, <3>1
  <2>5. timers' + Cardinality(Arming') = Len(reconQ')
    BY <1>b, <2>1, <2>2, <2>4
  <2> QED BY <1>c, <2>5
<1>8. CASE UNCHANGED vars
  <2>1. Apart(Owner)
    BY <1>8 DEF vars
  <2> QED BY <2>1, <1>a
<1> QED BY <1>1, <1>2, <1>3, <1>4, <1>5, <1>6, <1>7, <1>8 DEF Next

\* Every armed timer was preceded by the Enqueue of a session, so that its Dequeue
\* never comes back empty (TimerFindsSession).
THEOREM TimersMatch == Spec => []TimerFindsSession
<1>1. Init => TimerFindsSession
  <2> SUFFICES ASSUME Init PROVE TimerFindsSession
    OBVIOUS
  <2>1. {t \in Threads : pc[t] = "cfTimer"} = {} /\ timers = 0 /\ Len(reconQ) = 0
    BY DEF Init
  <2> QED BY <2>1, FS_EmptySet DEF TimerFindsSession
<1> QED BY <1>1, TimerStep, TypeCorrect, PTL DEF Spec
-----------------------------------------------------------------------------
(* A slot has at most one recv *)

Recvs(s) == io[s]["recv"] + io[s]["data"] + io[s]["dead"]
Sends(s) == io[s]["send"] + io[s]["sent"] + io[s]["fail"]

RecvKinds == {"recv", "data", "dead"}
SendKinds == {"send", "sent", "fail"}

\* They are numbers, and all that is outstanding.
LEMMA IoSums ==
  io \in IoType => \A s \in Sessions : /\ Recvs(s) \in Nat /\ Sends(s) \in Nat
                                       /\ Outstanding(s) = Recvs(s) + Sends(s)
BY DEF IoType, IoKinds, Recvs, Sends, Outstanding

\* Starting and taking count for the block they are about ...
LEMMA SumsStarted ==
  ASSUME io \in IoType, NEW s \in Sessions, NEW k \in IoKinds, Started(s, k),
         NEW x \in Sessions
  PROVE  /\ Recvs(x)' = Recvs(x) + One(x = s /\ k \in RecvKinds)
         /\ Sends(x)' = Sends(x) + One(x = s /\ k \in SendKinds)
<1>1. \A j \in IoKinds : io[x][j] \in Nat
                         /\ io'[x][j] = io[x][j] + IF x = s /\ j = k THEN 1 ELSE 0
  BY DEF Started, IoType
<1> QED BY <1>1 DEF Recvs, Sends, IoKinds, RecvKinds, SendKinds, One

\* ... and taking takes away what is there.
LEMMA SumsTaken ==
  ASSUME io \in IoType, NEW s \in Sessions, NEW k \in IoKinds, Taken(s, k),
         NEW x \in Sessions
  PROVE  /\ Recvs(x)' = Recvs(x) - One(x = s /\ k \in RecvKinds)
         /\ Sends(x)' = Sends(x) - One(x = s /\ k \in SendKinds)
<1>1. \A j \in IoKinds : io[x][j] \in Nat
                         /\ io'[x][j] = io[x][j] - IF x = s /\ j = k THEN 1 ELSE 0
  BY DEF Taken, IoType
<1> QED BY <1>1 DEF Recvs, Sends, IoKinds, RecvKinds, SendKinds, One

\* What completes stays with its block.
LEMMA SumsCompleted ==
  ASSUME io \in IoType, NEW s \in Sessions, NEW n \in Nat,
         NEW a \in IoKinds, NEW b \in IoKinds, a # b,
         a \in RecvKinds <=> b \in RecvKinds, Complete(s, a, b, n),
         NEW x \in Sessions
  PROVE  Recvs(x)' = Recvs(x) /\ Sends(x)' = Sends(x)
<1>1. \A j \in IoKinds : io[x][j] \in Nat
                         /\ io'[x][j] = io[x][j] + IF x = s /\ j = a THEN - n
                                                   ELSE IF x = s /\ j = b THEN n ELSE 0
  BY DEF Complete, IoType
<1> QED BY <1>1 DEF Recvs, Sends, IoKinds, RecvKinds

\* A thread has the recv of its slot in hand, or is about to post the first.
RecvLabels == {"recv", "rpost", "cnClear", "cnInit"}
HasRecv(t, s) == at[t] = s /\ (pc[t] \in RecvLabels \/ nest[t])
Receivers(s) == {t \in Threads : HasRecv(t, s)}

\* The recv of a slot is posted, complete, in a worker's hands or still to be posted
\* for the first time: one of these, once.
RecvOnce == \A s \in Sessions : Recvs(s) + Cardinality(Receivers(s)) <= 1

\* So it is in one place.
LEMMA RecvOnceIsOneRecv == TypeOK /\ RecvOnce => OneRecv
<1> SUFFICES ASSUME TypeOK, RecvOnce, NEW s \in Sessions
             PROVE  Recvs(s) + Cardinality({t \in Threads :
                        \/ OnSlot(t, s, {"recv", "rpost"})
                        \/ OnSlot(t, s, Holding) /\ nest[t]}) <= 1
  BY DEF OneRecv, Recvs
<1> DEFINE A == {t \in Threads : \/ OnSlot(t, s, {"recv", "rpost"})
                                 \/ OnSlot(t, s, Holding) /\ nest[t]}
<1>1. A \subseteq Receivers(s)
  BY DEF OnSlot, Receivers, HasRecv, RecvLabels
<1>2. IsFiniteSet(Receivers(s)) /\ IsFiniteSet(A)
  BY ThreadsFinite, FS_Subset DEF Receivers
<1>3. Cardinality(A) <= Cardinality(Receivers(s)) /\ Cardinality(A) \in Nat
      /\ Cardinality(Receivers(s)) \in Nat
  BY <1>1, <1>2, FS_Subset, FS_CardinalityType
<1>4. Recvs(s) \in Nat
  BY IoSums DEF TypeOK, TypeKernel, IoType
<1> QED BY <1>3, <1>4 DEF RecvOnce

\* A step that adds to a slot no more than it takes from it keeps RecvOnce.
LEMMA RecvKept ==
  ASSUME TypeOK, TypeOK', RecvOnce, NEW t \in Threads, Moves(t),
         \A s \in Sessions : Recvs(s)' + One(HasRecv(t, s)') <= Recvs(s) + One(HasRecv(t, s))
  PROVE  RecvOnce'
<1> SUFFICES ASSUME NEW s \in Sessions PROVE Recvs(s)' + Cardinality(Receivers(s)') <= 1
  BY DEF RecvOnce
<1> DEFINE A == Receivers(s)  B == Receivers(s)'
<1>1. IsFiniteSet(A) /\ IsFiniteSet(B)
  BY ThreadsFinite, FS_Subset DEF Receivers
<1>2. A \ {t} = B \ {t} /\ (t \in A <=> HasRecv(t, s)) /\ (t \in B <=> HasRecv(t, s)')
  BY DEF Moves, Receivers, HasRecv
<1>3. /\ Cardinality(A) \in Nat /\ Cardinality(B) \in Nat
      /\ Cardinality(B) = Cardinality(A) + One(t \in B) - One(t \in A)
  BY <1>1, <1>2, SetMoves
<1>4. Recvs(s) \in Nat /\ Recvs(s)' \in Nat
  <2>1. io \in IoType /\ io' \in IoType
    BY DEF TypeOK, TypeKernel, IoType
  <2> QED BY <2>1 DEF IoType, IoKinds, Recvs
<1>5. Recvs(s) + Cardinality(A) <= 1
  BY DEF RecvOnce
<1> QED BY <1>2, <1>3, <1>4, <1>5 DEF One
\* The worker that takes a completed connect finds a slot without a recv: the slot is
\* not live, so RELEASE_FLAG is set and nobody uses it.
LEMMA FreshSlotHasNoRecv ==
  ASSUME RefInv, SlotOnce, NEW s \in Sessions, con[s] # "none"
  PROVE  released[s] /\ Outstanding(s) = 0 /\ \A t \in Threads : at[t] = s => ~Using(t)
<1>1. SlotFacts /\ TypeOK /\ UseSafe
  BY SlotPlaces DEF RefInv
<1>2. PlacesOf(s) = 1
  BY <1>1 DEF SlotFacts
<1>3. /\ Count(s, stack) \in Nat /\ Count(s, reconQ) \in Nat
      /\ NumAt(s, Attempting) \in Nat /\ NumAt(s, Releasing) \in Nat
      /\ NumAt(s, Initing) \in Nat /\ NumAt(s, Initing) <= NumAt(s, Attempting)
  BY <1>1 DEF SlotFacts
<1>4. ~Live(s) /\ NumAt(s, Attempting) = 0
  BY <1>2, <1>3 DEF PlacesOf, One
<1>5. released[s]
  BY <1>1, <1>3, <1>4 DEF SlotFacts
<1>6. Outstanding(s) \in Nat
  BY <1>1, OutstandingNat DEF TypeOK, TypeKernel, IoType
<1> QED BY <1>1, <1>5, <1>6 DEF UseSafe

\* No step gives a slot a second recv.
LEMMA RecvStep ==
  RefInv /\ RefInv' /\ SlotOnce /\ RecvOnce /\ [Next]_vars => RecvOnce'
<1> SUFFICES ASSUME RefInv, RefInv', SlotOnce, RecvOnce, [Next]_vars PROVE RecvOnce'
  OBVIOUS
<1> DEFINE Passes(t) ==
             /\ Moves(t)
             /\ \A x \in Sessions : /\ Recvs(x)' = Recvs(x)
                                    /\ HasRecv(t, x)' => HasRecv(t, x)
<1>0. /\ Owner \in Threads /\ Workers \subseteq Threads
      /\ pc \in [Threads -> Labels] /\ at \in [Threads -> Sessions]
      /\ nest \in [Threads -> BOOLEAN]
      /\ \A t \in Threads : nest[t] => pc[t] \in {"dcCheck", "dcX", "dcCancel", "dcCancel2", "dec"}
      /\ ~nest[Owner]
  BY ThreadAssumption DEF RefInv, TypeOK, TypeThread, Threads, NestedInDisconnect
<1>b. TypeOK /\ TypeOK' /\ io \in IoType
  BY DEF RefInv, TypeOK, TypeKernel, IoType
<1>c. \A x \in Sessions : Recvs(x) \in Nat
  BY <1>b, IoSums
<1>a. ASSUME NEW t \in Threads, Passes(t) PROVE RecvOnce'
  <2>1. \A s \in Sessions : Recvs(s)' + One(HasRecv(t, s)') <= Recvs(s) + One(HasRecv(t, s))
    BY <1>a, <1>c DEF One
  <2> QED BY <1>a, <1>b, <2>1, RecvKept
<1>d. UNCHANGED io => \A x \in Sessions : Recvs(x)' = Recvs(x)
  BY DEF Recvs
<1> USE <1>0 DEF Moves, thread, kernel, HasRecv, RecvLabels
<1>1. ASSUME OwnerStep PROVE RecvOnce'
  <2>1. UNCHANGED io
    BY <1>1 DEF OwnerStep, TakeJob, Connect, SendPacket, Disconnect, FreeSmart
  <2>2. Moves(Owner) /\ \A x \in Sessions : HasRecv(Owner, x)' => HasRecv(Owner, x)
    BY <1>1 DEF OwnerStep, TakeJob, Connect, SendPacket, Disconnect, FreeSmart, Ready, Enter,
                Stay, Goto, At
  <2> QED BY <1>a, <1>d, <2>1, <2>2
<1>2. ASSUME NEW t \in Threads, NEW s \in Sessions, CallStep(t, s) PROVE RecvOnce'
  <2>1. CASE SpCheck(t, s) \/ SpEnq(t, s) \/ SendPost(t, s) \/ PostX(t, s) \/ PostN(t, s)
             \/ PostU(t, s) \/ DcCheck(t, s) \/ DcX(t, s)
    <3>1. UNCHANGED io
      BY <2>1 DEF SpCheck, SpEnq, SendPost, PostX, PostN, PostU, DcCheck, DcX
    <3>2. Moves(t) /\ \A x \in Sessions : HasRecv(t, x)' => HasRecv(t, x)
      BY <2>1 DEF SpCheck, SpEnq, SendPost, PostX, PostN, PostU, DcCheck, DcX, Stay, Goto, At
    <3> QED BY <1>a, <1>d, <3>1, <3>2
  <2>2. CASE PostDisc(t, s) \/ DcCancelSend(t, s) \/ DcCancelRecv(t, s)
    <3>1. \/ UNCHANGED io \/ Complete(s, "send", "fail", io[s]["send"])
          \/ Complete(s, "recv", "dead", io[s]["recv"])
      BY <2>2 DEF PostDisc, DcCancelSend, DcCancelRecv, Cancel
    <3>2. \A x \in Sessions : Recvs(x)' = Recvs(x)
      <4>1. io[s]["send"] \in Nat /\ io[s]["recv"] \in Nat
        BY <1>b DEF IoType, IoKinds
      <4> QED BY <1>b, <1>d, <3>1, <4>1, SumsCompleted DEF IoKinds, RecvKinds
    <3>3. Moves(t) /\ \A x \in Sessions : HasRecv(t, x)' => HasRecv(t, x)
      BY <2>2 DEF PostDisc, DcCancelSend, DcCancelRecv, Stay, Goto, At
    <3> QED BY <1>a, <3>2, <3>3
  <2>3. CASE PostIo(t, s)
    <3>1. UNCHANGED io \/ Started(s, "send") \/ Started(s, "sent")
      BY <2>3 DEF PostIo, IoRefused
    <3>2. \A x \in Sessions : Recvs(x)' = Recvs(x)
      BY <1>b, <1>c, <1>d, <3>1, SumsStarted DEF IoKinds, RecvKinds, One
    <3>3. Moves(t) /\ \A x \in Sessions : HasRecv(t, x)' => HasRecv(t, x)
      BY <2>3 DEF PostIo, IoRefused, Stay, Goto, At
    <3> QED BY <1>a, <3>2, <3>3
  <2>4. CASE Decrement(t, s) \/ ReleaseSession(t, s) \/ RelNotify(t, s) \/ RelPush(t, s)
    <3>1. UNCHANGED io
      BY <2>4 DEF Decrement, ReleaseSession, RelNotify, RelPush
    <3>2. Moves(t) /\ \A x \in Sessions : HasRecv(t, x)' => HasRecv(t, x)
      BY <2>4 DEF Decrement, ReleaseSession, RelNotify, RelPush, Return, Stay, Goto, At
    <3> QED BY <1>a, <1>d, <3>1, <3>2
  <2> QED BY <1>2, <2>1, <2>2, <2>3, <2>4 DEF CallStep
<1>3. ASSUME NEW w \in Workers, NEW s \in Sessions, HandleStep(w, s) PROVE RecvOnce'
  <2>1. CASE CnClear(w, s) \/ CnInit(w, s) \/ SnClear(w, s) \/ RecvMessage(w, s)
             \/ RecvBad(w, s) \/ RecvEnd(w, s)
    <3>1. UNCHANGED io
      BY <2>1 DEF CnClear, CnInit, SnClear, RecvMessage, RecvBad, RecvEnd
    <3>2. Moves(w) /\ \A x \in Sessions : HasRecv(w, x)' => HasRecv(w, x)
      BY <2>1 DEF CnClear, CnInit, SnClear, RecvMessage, RecvBad, RecvEnd, Enter, Stay, Goto, At
    <3> QED BY <1>a, <1>d, <3>1, <3>2
  <2>2. CASE RecvPost(w, s)
    <3>1. /\ Moves(w) /\ at[w] = s /\ at'[w] = s /\ pc[w] = "rpost"
          /\ pc'[w] \in {"rpDisc", "dec"} /\ ~nest[w] /\ ~nest'[w]
      BY <2>2 DEF RecvPost, IoRefused, Stay, Goto, At
    <3>2. UNCHANGED io \/ Started(s, "recv") \/ Started(s, "data")
      BY <2>2 DEF RecvPost, IoRefused
    <3>3. \A x \in Sessions : Recvs(x)' <= Recvs(x) + One(x = s)
      BY <1>b, <1>c, <1>d, <3>2, SumsStarted DEF IoKinds, RecvKinds, One
    <3>4. \A x \in Sessions : ~HasRecv(w, x)' /\ (HasRecv(w, x) <=> x = s)
      BY <3>1
    <3>5. \A x \in Sessions : Recvs(x)' + One(HasRecv(w, x)') <= Recvs(x) + One(HasRecv(w, x))
      <4>1. \A x \in Sessions : Recvs(x)' \in Nat
        <5>1. io' \in IoType
          BY <1>b DEF TypeOK, TypeKernel, IoType
        <5> QED BY <5>1 DEF IoType, IoKinds, Recvs
      <4> QED BY <1>c, <3>3, <3>4, <4>1 DEF One
    <3> QED BY <1>b, <3>1, <3>5, RecvKept
  <2>3. CASE RpDisc(w, s)
    <3>1. UNCHANGED io \/ Complete(s, "recv", "dead", io[s]["recv"])
      BY <2>3 DEF RpDisc, Cancel
    <3>2. \A x \in Sessions : Recvs(x)' = Recvs(x)
      <4>1. io[s]["recv"] \in Nat
        BY <1>b DEF IoType, IoKinds
      <4> QED BY <1>b, <1>d, <3>1, <4>1, SumsCompleted DEF IoKinds, RecvKinds
    <3>3. Moves(w) /\ \A x \in Sessions : HasRecv(w, x)' => HasRecv(w, x)
      BY <2>3 DEF RpDisc, Stay, Goto, At
    <3> QED BY <1>a, <3>2, <3>3
  <2> QED BY <1>3, <2>1, <2>2, <2>3 DEF HandleStep
<1>4. ASSUME NEW w \in Workers, NEW s \in Sessions, GetStep(w, s) PROVE RecvOnce'
  <2>1. CASE GetConnect(w, s)
    <3>1. con[s] # "none" /\ Moves(w) /\ at'[w] = s /\ UNCHANGED io
      BY <2>1 DEF GetConnect, Take, Goto, At
    <3>2. Outstanding(s) = 0 /\ \A t \in Threads : at[t] = s => ~Using(t)
      BY <3>1, FreshSlotHasNoRecv
    <3>3. Recvs(s) = 0
      <4>1. Recvs(s) \in Nat /\ Sends(s) \in Nat /\ Outstanding(s) = Recvs(s) + Sends(s)
        BY <1>b, IoSums
      <4> QED BY <3>2, <4>1
    <3>4. \A t \in Threads : ~HasRecv(t, s)
      <4> SUFFICES ASSUME NEW t \in Threads, HasRecv(t, s) PROVE FALSE
        OBVIOUS
      <4>1. ~Using(t)
        BY <3>2
      <4>2. pc[t] \in {"cnClear", "cnInit"}
        BY <4>1 DEF Using, Working, Holding, Labels
      <4>3. OnSlot(t, s, Attempting)
        BY <4>2 DEF OnSlot, Attempting
      <4>4. NumAt(s, Attempting) >= 1
        BY <4>3, NumAtNat
      <4>5. SlotFacts
        BY <1>b, SlotPlaces
      <4>6. PlacesOf(s) = 1
        BY <4>5 DEF SlotFacts
      <4>7. /\ Count(s, stack) \in Nat /\ Count(s, reconQ) \in Nat
            /\ NumAt(s, Attempting) \in Nat /\ NumAt(s, Releasing) \in Nat
        BY <4>5 DEF SlotFacts
      <4> QED BY <3>1, <4>4, <4>6, <4>7 DEF PlacesOf, One
    <3>5. ASSUME NEW x \in Sessions PROVE Recvs(x)' + Cardinality(Receivers(x)') <= 1
      <4>1. Recvs(x)' = Recvs(x) /\ Recvs(x) \in Nat
        BY <1>c, <1>d, <3>1
      <4>2. CASE x = s
        <5>1. Receivers(x)' \subseteq {w}
          BY <3>1, <3>4, <4>2 DEF Receivers
        <5>2. IsFiniteSet({w}) /\ Cardinality({w}) = 1
          BY FS_Singleton
        <5>3. Cardinality(Receivers(x)') <= 1 /\ Cardinality(Receivers(x)') \in Nat
          BY <5>1, <5>2, FS_Subset, FS_CardinalityType
        <5> QED BY <3>3, <4>1, <4>2, <5>3
      <4>3. CASE x # s
        <5>1. Receivers(x)' \subseteq Receivers(x)
          BY <3>1, <4>3 DEF Receivers
        <5>2. IsFiniteSet(Receivers(x))
          BY ThreadsFinite, FS_Subset DEF Receivers
        <5>3. Cardinality(Receivers(x)') <= Cardinality(Receivers(x))
              /\ Cardinality(Receivers(x)') \in Nat /\ Cardinality(Receivers(x)) \in Nat
          BY <5>1, <5>2, FS_Subset, FS_CardinalityType
        <5>4. Recvs(x) + Cardinality(Receivers(x)) <= 1
          BY DEF RecvOnce
        <5> QED BY <4>1, <5>3, <5>4
      <4> QED BY <4>2, <4>3
    <3> QED BY <3>5 DEF RecvOnce
  <2>2. CASE GetConnectFail(w, s) \/ GetReconnect(w, s)
    <3>1. UNCHANGED io
      BY <2>2 DEF GetConnectFail, GetReconnect
    <3>2. Moves(w) /\ \A x \in Sessions : HasRecv(w, x)' => HasRecv(w, x)
      BY <2>2 DEF GetConnectFail, GetReconnect, Requeue, GiveUp, Take, Goto, At
    <3> QED BY <1>a, <1>d, <3>1, <3>2
  <2>3. CASE GetDead(w, s) \/ GetRecv(w, s) \/ GetSent(w, s)
    <3>1. /\ Moves(w) /\ at'[w] = s /\ pc[w] = "idle" /\ ~nest[w] /\ ~nest'[w]
          /\ \E k \in {"data", "dead", "fail", "sent"} :
                Taken(s, k) /\ (pc'[w] = "recv" => k = "data")
          /\ pc'[w] \in {"recv", "dec", "snClear"}
      BY <2>3 DEF GetDead, GetRecv, GetSent, Take, Goto, At
    <3>2. PICK k \in {"data", "dead", "fail", "sent"} :
                Taken(s, k) /\ (pc'[w] = "recv" => k = "data")
      BY <3>1
    <3>3. \A x \in Sessions : Recvs(x)' = Recvs(x) - One(x = s /\ k \in RecvKinds)
      BY <1>b, <3>2, SumsTaken DEF IoKinds, One
    <3>4. \A x \in Sessions : ~HasRecv(w, x) /\ (HasRecv(w, x)' <=> x = s /\ pc'[w] = "recv")
      BY <3>1
    <3>5. \A x \in Sessions : Recvs(x)' + One(HasRecv(w, x)') <= Recvs(x) + One(HasRecv(w, x))
      BY <1>c, <3>2, <3>3, <3>4 DEF One, RecvKinds
    <3> QED BY <1>b, <3>1, <3>5, RecvKept
  <2> QED BY <1>4, <2>1, <2>2, <2>3 DEF GetStep
<1>5. ASSUME NEW w \in Workers, CfTimer(w) \/ CfNotify(w) PROVE RecvOnce'
  <2>1. UNCHANGED io
    BY <1>5 DEF CfTimer, CfNotify
  <2>2. Moves(w) /\ \A x \in Sessions : HasRecv(w, x)' => HasRecv(w, x)
    BY <1>5 DEF CfTimer, CfNotify, Stay, Goto, At
  <2> QED BY <1>a, <1>d, <2>1, <2>2
<1>6. ASSUME NEW s \in Sessions, KernelStep(s) PROVE RecvOnce'
  <2>1. UNCHANGED <<pc, at, nest>>
    BY <1>6 DEF KernelStep, ConnectDone, PeerDown, RecvDone, SendDone, IoDead, Outside
  <2>2. \/ UNCHANGED io \/ Complete(s, "recv", "data", 1) \/ Complete(s, "send", "sent", 1)
        \/ Complete(s, "recv", "dead", 1) \/ Complete(s, "send", "fail", 1)
    BY <1>6 DEF KernelStep, ConnectDone, PeerDown, RecvDone, SendDone, IoDead
  <2>3. \A x \in Sessions : Recvs(x)' = Recvs(x)
    BY <1>b, <1>d, <2>2, SumsCompleted DEF IoKinds, RecvKinds
  <2> QED BY <1>a, <2>1, <2>3
<1>7. ASSUME TimerFire PROVE RecvOnce'
  BY <1>7, <1>a, <1>d DEF TimerFire, Outside
<1>8. CASE UNCHANGED vars
  BY <1>8, <1>a, <1>d DEF vars
<1> QED BY <1>1, <1>2, <1>3, <1>4, <1>5, <1>6, <1>7, <1>8 DEF Next

LEMMA RecvOnceHolds == Spec => [](SlotInv /\ RecvOnce)
<1>1. Init => SlotInv /\ RecvOnce
  <2> SUFFICES ASSUME Init PROVE SlotInv /\ RecvOnce
    OBVIOUS
  <2>1. \A s \in Sessions : Recvs(s) = 0 /\ Receivers(s) = {}
    BY DEF Init, Recvs, IoKinds, Receivers, HasRecv, RecvLabels
  <2> QED BY <2>1, RefInvInit, SlotInit, FS_EmptySet DEF SlotInv, RecvOnce
<1>2. SlotInv /\ RecvOnce /\ [Next]_vars => (SlotInv /\ RecvOnce)'
  BY RefInvStep, SlotStep, RecvStep DEF SlotInv, RefInv
<1> QED BY <1>1, <1>2, PTL DEF Spec

\* At most one recv per slot is posted, complete or in RecvProc's hands, so that one
\* thread at a time works on the ring buffer of a session (OneRecv).
THEOREM RecvAlone == Spec => []OneRecv
<1>1. SlotInv /\ RecvOnce => OneRecv
  BY RecvOnceIsOneRecv DEF SlotInv, RefInv
<1> QED BY <1>1, RecvOnceHolds, PTL
=============================================================================
