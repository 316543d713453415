------------------------ MODULE NetClientSendProofs ------------------------
(***************************************************************************)
(* Proofs about what NetClient sends, for any number of slots, workers,    *)
(* packets and calls: a slot has at most one send, its queue is empty when *)
(* it is free, no packet is left in it without somebody on the way to it,  *)
(* and the packets are counted right.  All of it as long as no call of the *)
(* update thread gets in between the clearing of RELEASE_FLAG and Init     *)
(* (NoEarlyCall).                                                          *)
(***************************************************************************)
EXTENDS NetClientProofs

-----------------------------------------------------------------------------
(* Init has its slot for itself *)

\* While a worker is about to run Init on a slot nobody else uses it and no I/O is
\* outstanding on it.
InitAlone ==
    \A s \in Sessions : \A t \in Threads : OnSlot(t, s, Initing) =>
        /\ Outstanding(s) = 0
        /\ \A u \in Threads \ {t} : at[u] = s => ~Using(u)

\* A slot with a worker at its connect is in no other place, and has no other one.
LEMMA AttemptAlone ==
  ASSUME TypeOK, SlotOnce, NEW w \in Threads, NEW s \in Sessions, OnSlot(w, s, Attempting)
  PROVE  /\ con[s] = "none" /\ ~Live(s) /\ ~Someone(s, Releasing)
         /\ \A u \in Threads : OnSlot(u, s, Attempting) => u = w
<1>1. SlotFacts
  BY SlotPlaces
<1>2. /\ Count(s, stack) \in Nat /\ Count(s, reconQ) \in Nat
      /\ NumAt(s, Attempting) \in Nat /\ NumAt(s, Releasing) \in Nat
  BY <1>1 DEF SlotFacts
<1>3. PlacesOf(s) = 1
  BY <1>1 DEF SlotFacts
<1>4. NumAt(s, Attempting) >= 1
  BY NumAtNat
<1>5. ~Live(s) /\ NumAt(s, Attempting) = 1
  BY <1>2, <1>3, <1>4 DEF PlacesOf, One
<1>5a. con[s] = "none" /\ NumAt(s, Releasing) = 0
  BY <1>2, <1>3, <1>4 DEF PlacesOf, One
<1>6. ~Someone(s, Releasing)
  BY <1>5a, NumAtNat
<1>7. \A u \in Threads : OnSlot(u, s, Attempting) => u = w
  BY <1>5, NumAtNat
<1> QED BY <1>5, <1>5a, <1>6, <1>7

\* Before RELEASE_FLAG is cleared it is set, so that nobody uses the slot.
LEMMA ClearAlone ==
  ASSUME RefInv, SlotOnce, NEW w \in Threads, NEW s \in Sessions, OnSlot(w, s, {"cnClear"})
  PROVE  Outstanding(s) = 0 /\ \A u \in Threads : at[u] = s => ~Using(u)
<1>1. TypeOK /\ UseSafe /\ SlotFacts
  BY SlotPlaces DEF RefInv
<1>2. OnSlot(w, s, Attempting)
  BY DEF OnSlot, Attempting
<1>3. ~Live(s) /\ \A u \in Threads : OnSlot(u, s, Attempting) => u = w
  BY <1>1, <1>2, AttemptAlone
<1>4. ~Someone(s, Initing)
  BY <1>3 DEF Someone, OnSlot, Attempting, Initing
<1>5. released[s]
  BY <1>1, <1>3, <1>4 DEF Live, Initing
<1>6. Outstanding(s) \in Nat
  BY <1>1, OutstandingNat DEF TypeOK, TypeKernel, IoType
<1> QED BY <1>1, <1>5, <1>6 DEF UseSafe

\* Whoever uses a slot, its Init aside, uses a live one.
LEMMA UserIsLive ==
  ASSUME RefInv, InitAlone, NEW t \in Threads, Using(t), pc[t] # "cnInit"
  PROVE  at[t] \in Sessions /\ Live(at[t])
<1>1. at[t] \in Sessions /\ ~released[at[t]]
  BY DEF RefInv, TypeOK, TypeThread, UseSafe
<1>2. ~Someone(at[t], {"cnInit"})
  BY <1>1 DEF InitAlone, Someone, OnSlot, Initing
<1> QED BY <1>1, <1>2 DEF Live

\* And a slot with I/O outstanding is live.
LEMMA BusyIsLive ==
  ASSUME RefInv, InitAlone, NEW s \in Sessions, Outstanding(s) > 0
  PROVE  Live(s)
<1>1. ~released[s]
  BY DEF RefInv, UseSafe
<1>2. ~Someone(s, {"cnInit"})
  BY DEF InitAlone, Someone, OnSlot, Initing
<1> QED BY <1>1, <1>2 DEF Live

\* Nothing starts to use a slot whose Init is still to come.
LEMMA InitAloneStep ==
  RefInv /\ RefInv' /\ SlotOnce /\ InitAlone /\ NoEarlyCall' /\ [Next]_vars => InitAlone'
<1> SUFFICES ASSUME RefInv, RefInv', SlotOnce, InitAlone, NoEarlyCall', [Next]_vars,
                    NEW s \in Sessions, NEW t \in Threads, OnSlot(t, s, Initing)'
             PROVE  /\ Outstanding(s)' = 0
                    /\ \A u \in Threads \ {t} : at'[u] = s => ~Using(u)'
  BY DEF InitAlone
<1> DEFINE Still == Outstanding(s)' = 0 /\ \A u \in Threads \ {t} : at'[u] = s => ~Using(u)'
<1>0. /\ Owner \in Threads /\ Workers \subseteq Threads
      /\ pc \in [Threads -> Labels] /\ at \in [Threads -> Sessions]
      /\ nest \in [Threads -> BOOLEAN]
      /\ \A u \in Threads : nest[u] => pc[u] \in {"dcCheck", "dcX", "dcCancel", "dcCancel2", "dec"}
      /\ TypeOK /\ TypeOK' /\ io \in IoType /\ Owner \notin Workers /\ ~nest[Owner]
  BY ThreadAssumption DEF RefInv, TypeOK, TypeThread, TypeKernel, IoType, Threads,
                          NestedInDisconnect
<1>1. at'[t] = s /\ pc'[t] = "cnInit"
  BY DEF OnSlot, Initing
\* The step that clears the flag
<1>2. ASSUME NEW w \in Workers, NEW x \in Sessions, CnClear(w, x) PROVE Still
  <2>1. /\ at[w] = x /\ pc[w] = "cnClear" /\ UNCHANGED <<io, at, nest>>
        /\ pc' = [pc EXCEPT ![w] = "cnInit"]
    BY <1>2 DEF CnClear, At, Goto, Stay, kernel
  <2>2. OnSlot(w, x, Attempting) /\ OnSlot(w, x, {"cnClear"})
    BY <2>1 DEF OnSlot, Attempting
  <2>3. Outstanding(x) = 0 /\ (\A u \in Threads : at[u] = x => ~Using(u))
        /\ (\A u \in Threads : OnSlot(u, x, Attempting) => u = w)
    BY <1>0, <2>2, ClearAlone, AttemptAlone
  <2>4. CASE x = s
    <3>1. t = w
      BY <1>0, <1>1, <2>1, <2>3, <2>4 DEF OnSlot, Attempting
    <3>2. ASSUME NEW u \in Threads \ {t}, at'[u] = s PROVE ~Using(u)'
      <4>1. ~Using(u) /\ pc'[u] = pc[u] /\ at'[u] = at[u] /\ nest'[u] = nest[u]
        BY <1>0, <2>1, <2>3, <2>4, <3>1, <3>2
      <4> QED BY <4>1 DEF Using, Working, Holding
    <3> QED BY <2>1, <2>3, <2>4, <3>2, IoKept
  <2>5. CASE x # s
    <3>1. t # w /\ OnSlot(t, s, Initing)
      BY <1>0, <1>1, <2>1, <2>5 DEF OnSlot, Initing
    <3>2. Outstanding(s) = 0 /\ \A u \in Threads \ {t} : at[u] = s => ~Using(u)
      BY <3>1 DEF InitAlone
    <3>3. ASSUME NEW u \in Threads \ {t}, at'[u] = s PROVE ~Using(u)'
      <4>1. ~Using(u) /\ pc'[u] = pc[u] /\ at'[u] = at[u] /\ nest'[u] = nest[u]
        BY <1>0, <2>1, <2>5, <3>2, <3>3
      <4> QED BY <4>1 DEF Using, Working, Holding
    <3> QED BY <2>1, <3>2, <3>3, IoKept
  <2> QED BY <2>4, <2>5
\* Every other step finds it cleared.
<1>3. ASSUME OnSlot(t, s, Initing), NEW v \in Threads, Moves(v),
             v # t => (at'[v] = s => (Using(v)' => Using(v) /\ at[v] = s)),
             \/ Outstanding(s)' = Outstanding(s)
             \/ Outstanding(s) > 0
             \/ at[v] = s /\ Using(v) /\ v # t
      PROVE  Still
  <2>1. Outstanding(s) = 0 /\ \A u \in Threads \ {t} : at[u] = s => ~Using(u)
    BY <1>3 DEF InitAlone
  <2>2. Outstanding(s)' = 0
    BY <1>3, <2>1
  <2>3. ASSUME NEW u \in Threads \ {t}, at'[u] = s PROVE ~Using(u)'
    <3>1. CASE u = v
      BY <1>3, <2>1, <2>3, <3>1
    <3>2. CASE u # v
      <4>1. pc'[u] = pc[u] /\ at'[u] = at[u] /\ nest'[u] = nest[u]
        BY <1>3, <3>2 DEF Moves
      <4> QED BY <2>1, <2>3, <4>1 DEF Using, Working, Holding
    <3> QED BY <3>1, <3>2
  <2> QED BY <2>2, <2>3
<1>a. ASSUME NEW v \in Threads, Moves(v), v # t, UNCHANGED io,
             at'[v] = s => (Using(v)' => Using(v) /\ at[v] = s)
      PROVE  Still
  <2>1. OnSlot(t, s, Initing)
    BY <1>1, <1>a DEF Moves, OnSlot, Initing
  <2> QED BY <1>3, <1>a, <2>1, IoKept
<1>b. ASSUME NEW v \in Threads, Moves(v), pc'[v] # "cnInit", UNCHANGED io,
             Using(v)' => Using(v) /\ at[v] = at'[v]
      PROVE  Still
  BY <1>1, <1>a, <1>b
<1>c. ASSUME UNCHANGED <<pc, at, nest, io>> PROVE Still
  <2>1. OnSlot(t, s, Initing) /\ Moves(t)
    BY <1>1, <1>c DEF OnSlot, Initing, Moves
  <2> QED BY <1>3, <1>c, <2>1, IoKept
<1> USE <1>0 DEF Moves, thread, kernel
<1>4. ASSUME OwnerStep PROVE Still
  <2>1. CASE TakeJob \/ Connect
    BY <2>1, <1>c DEF TakeJob, Connect
  <2>2. CASE SendPacket \/ Disconnect
    <3>1. Moves(Owner) /\ pc'[Owner] # "cnInit" /\ UNCHANGED io /\ ~nest'[Owner]
      BY <2>2 DEF SendPacket, Disconnect, Ready, Enter, Goto, At
    <3>2. Owner # t
      BY <1>1, <3>1
    <3>3. ~(at'[Owner] = s /\ pc'[Owner] \in Working)
      <4>1. Someone(s, {"cnInit"})' /\ s \in Sessions
        BY <1>1 DEF Someone, OnSlot
      <4> QED BY <4>1 DEF NoEarlyCall, OnSlot, Working, Holding
    <3>4. at'[Owner] = s => ~Using(Owner)'
      BY <3>1, <3>3 DEF Using, Working, Holding
    <3> QED BY <1>a, <3>1, <3>2, <3>4
  <2>3. CASE FreeSmart
    <3>1. Moves(Owner) /\ pc'[Owner] = "idle" /\ UNCHANGED <<io, nest>>
      BY <2>3 DEF FreeSmart, Stay, Goto, At
    <3> QED BY <1>b, <3>1 DEF Using, Working, Holding, Labels
  <2> QED BY <1>4, <2>1, <2>2, <2>3 DEF OwnerStep
<1>5. ASSUME NEW v \in Threads, NEW x \in Sessions, CallStep(v, x) PROVE Still
  <2> USE DEF Using, Working, Holding, Labels
  <2>1. CASE SpCheck(v, x) \/ SpEnq(v, x) \/ SendPost(v, x) \/ PostX(v, x) \/ PostN(v, x)
             \/ PostU(v, x) \/ DcCheck(v, x) \/ DcX(v, x)
    BY <2>1, <1>b
    DEF SpCheck, SpEnq, SendPost, PostX, PostN, PostU, DcCheck, DcX, Stay, Goto, At
  <2>2. CASE PostDisc(v, x) \/ DcCancelSend(v, x) \/ DcCancelRecv(v, x)
    <3>1. /\ Moves(v) /\ v # t /\ UNCHANGED <<at, nest>>
          /\ pc[v] \in {"postDisc", "dcCancel", "dcCancel2"}
      BY <1>1, <2>2 DEF PostDisc, DcCancelSend, DcCancelRecv, Stay, Goto, At
    <3>2. \/ UNCHANGED io \/ Complete(x, "send", "fail", io[x]["send"])
          \/ Complete(x, "recv", "dead", io[x]["recv"])
      BY <2>2 DEF PostDisc, DcCancelSend, DcCancelRecv, Cancel
    <3>3. Outstanding(s)' = Outstanding(s)
      <4>1. io[x]["send"] \in Nat /\ io[x]["recv"] \in Nat
        BY DEF IoType, IoKinds
      <4> QED BY <3>2, <4>1, IoKept, IoCompleted DEF IoKinds
    <3>4. OnSlot(t, s, Initing)
      BY <1>1, <3>1 DEF OnSlot, Initing
    <3> QED BY <1>3, <3>1, <3>3, <3>4
  <2>3. CASE PostIo(v, x)
    <3>1. Moves(v) /\ v # t /\ UNCHANGED <<at, nest>> /\ pc[v] = "postIo" /\ at[v] = x
      BY <1>1, <2>3 DEF PostIo, IoRefused, Stay, Goto, At
    <3>2. OnSlot(t, s, Initing)
      BY <1>1, <3>1 DEF OnSlot, Initing
    <3>3. Outstanding(s)' = Outstanding(s) \/ x = s
      <4>1. UNCHANGED io \/ Started(x, "send") \/ Started(x, "sent")
        BY <2>3 DEF PostIo, IoRefused
      <4>2. Outstanding(s) \in Nat
        BY OutstandingNat
      <4> QED BY <4>1, <4>2, IoKept, IoStarted DEF IoKinds
    <3> QED BY <1>3, <3>1, <3>2, <3>3
  <2>4. CASE Decrement(v, x) \/ ReleaseSession(v, x) \/ RelNotify(v, x) \/ RelPush(v, x)
    <3>1. Moves(v) /\ pc'[v] # "cnInit" /\ UNCHANGED <<io, at>>
      BY <2>4 DEF Decrement, ReleaseSession, RelNotify, RelPush, Return, Stay, Goto, At
    <3>2. Using(v)' => Using(v)
      BY <2>4, ThreadAssumption
      DEF Decrement, ReleaseSession, RelNotify, RelPush, Return, Stay, Goto, At
    <3> HIDE DEF Using
    <3> QED BY <1>b, <3>1, <3>2
  <2> QED BY <1>5, <2>1, <2>2, <2>3, <2>4 DEF CallStep
<1>6. ASSUME NEW w \in Workers, NEW x \in Sessions, HandleStep(w, x) PROVE Still
  <2> USE DEF Using, Working, Holding, Labels
  <2>1. CASE CnClear(w, x)
    BY <1>2, <2>1
  <2>2. CASE CnInit(w, x) \/ SnClear(w, x) \/ RecvEnd(w, x) \/ RecvBad(w, x)
    <3>1. Moves(w) /\ pc'[w] # "cnInit" /\ UNCHANGED <<io, at>> /\ Using(w)
      BY <2>2 DEF CnInit, SnClear, RecvEnd, RecvBad, Enter, Stay, Goto, At
    <3> HIDE DEF Using
    <3> QED BY <1>b, <3>1
  <2>3. CASE RecvMessage(w, x)
    BY <2>3, <1>c DEF RecvMessage, Stay
  <2>4. CASE RecvPost(w, x)
    <3>1. Moves(w) /\ w # t /\ UNCHANGED <<at, nest>> /\ pc[w] = "rpost" /\ at[w] = x
      BY <1>1, <2>4 DEF RecvPost, IoRefused, Stay, Goto, At
    <3>2. OnSlot(t, s, Initing)
      BY <1>1, <3>1 DEF OnSlot, Initing
    <3>3. Outstanding(s)' = Outstanding(s) \/ x = s
      <4>1. UNCHANGED io \/ Started(x, "recv") \/ Started(x, "data")
        BY <2>4 DEF RecvPost, IoRefused
      <4>2. Outstanding(s) \in Nat
        BY OutstandingNat
      <4> QED BY <4>1, <4>2, IoKept, IoStarted DEF IoKinds
    <3> QED BY <1>3, <3>1, <3>2, <3>3
  <2>5. CASE RpDisc(w, x)
    <3>1. Moves(w) /\ w # t /\ UNCHANGED <<at, nest>> /\ pc[w] = "rpDisc"
      BY <1>1, <2>5 DEF RpDisc, Stay, Goto, At
    <3>2. UNCHANGED io \/ Complete(x, "recv", "dead", io[x]["recv"])
      BY <2>5 DEF RpDisc, Cancel
    <3>3. Outstanding(s)' = Outstanding(s)
      <4>1. io[x]["recv"] \in Nat
        BY DEF IoType, IoKinds
      <4> QED BY <3>2, <4>1, IoKept, IoCompleted DEF IoKinds
    <3>4. OnSlot(t, s, Initing)
      BY <1>1, <3>1 DEF OnSlot, Initing
    <3> QED BY <1>3, <3>1, <3>3, <3>4
  <2> QED BY <1>6, <2>1, <2>2, <2>3, <2>4, <2>5 DEF HandleStep
<1>7. ASSUME NEW w \in Workers, NEW x \in Sessions, GetStep(w, x) PROVE Still
  <2>1. CASE GetConnect(w, x) \/ GetConnectFail(w, x) \/ GetReconnect(w, x)
    <3>1. Moves(w) /\ pc'[w] # "cnInit" /\ UNCHANGED io /\ ~Using(w)'
      BY <2>1 DEF GetConnect, GetConnectFail, GetReconnect, Requeue, GiveUp, Take, Goto, At,
                  Using, Working, Holding, Labels
    <3> QED BY <1>b, <3>1
  <2>2. CASE GetDead(w, x) \/ GetRecv(w, x) \/ GetSent(w, x)
    <3>1. /\ Moves(w) /\ w # t /\ at'[w] = x
          /\ \E k \in {"data", "dead", "fail", "sent"} : Taken(x, k)
      BY <1>1, <2>2 DEF GetDead, GetRecv, GetSent, Take, Goto, At
    <3>2. OnSlot(t, s, Initing)
      BY <1>1, <3>1 DEF OnSlot, Initing
    <3>3. \A y \in Sessions : Outstanding(y) \in Nat
      BY OutstandingNat
    <3>4. Outstanding(x) > 0 /\ (x # s => Outstanding(s)' = Outstanding(s))
      BY <3>1, <3>3, IoTaken DEF IoKinds
    <3>5. x # s
      BY <3>2, <3>4 DEF InitAlone
    <3> QED BY <1>3, <3>1, <3>2, <3>4, <3>5
  <2> QED BY <1>7, <2>1, <2>2 DEF GetStep
<1>8. ASSUME NEW w \in Workers, CfTimer(w) \/ CfNotify(w) PROVE Still
  <2>1. Moves(w) /\ pc'[w] = "idle" /\ UNCHANGED <<io, at>> /\ (Using(w)' => Using(w))
    BY <1>8 DEF CfTimer, CfNotify, Stay, Goto, At, Using, Working, Holding, Labels
  <2> QED BY <1>b, <2>1
<1>9. ASSUME NEW x \in Sessions, KernelStep(x) PROVE Still
  <2>1. UNCHANGED <<pc, at, nest>>
    BY <1>9 DEF KernelStep, ConnectDone, PeerDown, RecvDone, SendDone, IoDead, Outside
  <2>2. \/ UNCHANGED io \/ Complete(x, "recv", "data", 1) \/ Complete(x, "send", "sent", 1)
        \/ Complete(x, "recv", "dead", 1) \/ Complete(x, "send", "fail", 1)
    BY <1>9 DEF KernelStep, ConnectDone, PeerDown, RecvDone, SendDone, IoDead
  <2>3. Outstanding(s)' = Outstanding(s)
    BY <2>2, IoKept, IoCompleted DEF IoKinds
  <2>4. OnSlot(t, s, Initing)
    BY <1>1, <2>1 DEF OnSlot, Initing
  <2> QED BY <1>3, <2>1, <2>3, <2>4
<1>10. ASSUME TimerFire PROVE Still
  BY <1>10, <1>c DEF TimerFire, Outside
<1>11. CASE UNCHANGED vars
  BY <1>11, <1>c DEF vars
<1> QED BY <1>4, <1>5, <1>6, <1>7, <1>8, <1>9, <1>10, <1>11 DEF Next
-----------------------------------------------------------------------------
(* The send queue, the send array and bSendingInProgress_ *)

\* Who may touch sendOverlapped and pSendPacketArr_ of slot s: a thread between its
\* exchange of bSendingInProgress_ and WSASend, a send, a thread in SendProc.
SendLabels == {"postN", "postU", "postIo", "snClear"}
Parties(s) == Sends(s) + NumAt(s, SendLabels)

\* While the slot is live: the array is filled for WSASend and emptied by SendProc, so
\* that nobody else meets it filled; the flag is up for a party or, after a WSASend that
\* failed, for a filled array; a send fails of a lost or disconnected connection; what
\* is queued has somebody on the way to it.
LiveQueue(s) ==
    /\ sendArr[s] # <<>> => sending[s] /\ ~Someone(s, {"postN", "postU", "snClear"})
    /\ Sends(s) > 0 \/ Someone(s, {"postIo"}) => sendArr[s] # <<>>
    /\ sending[s] => Parties(s) = 1 \/ sendArr[s] # <<>>
    /\ io[s]["fail"] > 0 => ~up[s] \/ disc[s]
    /\ Someone(s, {"dcCancel"}) => disc[s]
    /\ sendQ[s] # <<>> /\ up[s] /\ ~disc[s] =>
          Parties(s) > 0 \/ Someone(s, {"post", "postX"}) \/ sendArr[s] # <<>>

\* In any state: packets wait on a slot in use only, and one party has the flag.
QueueOk(s) ==
    /\ sendQ[s] # <<>> => Owned(s)
    /\ Parties(s) <= One(sending[s])
    /\ Live(s) => LiveQueue(s)

\* The inductive invariant of sending.
SendInv == SlotInv /\ InitAlone /\ \A s \in Sessions : QueueOk(s)

\* The labels QueueOk speaks of
Tracked == SendLabels \cup {"post", "postX", "dcCancel", "cnInit", "relNotify"}

\* Thread t stays what it is to slot s.
Same(t, s) == \A l \in Tracked : OnSlot(t, s, {l})' <=> OnSlot(t, s, {l})

\* What the moving thread changes of who stands where on slot s
LEMMA OthersStay ==
  ASSUME NEW t \in Threads, Moves(t), NEW s, NEW L
  PROVE  /\ Someone(s, L)' <=> \/ at'[t] = s /\ pc'[t] \in L
                               \/ \E u \in Threads \ {t} : OnSlot(u, s, L)
         /\ Someone(s, L) <=> \/ OnSlot(t, s, L)
                              \/ \E u \in Threads \ {t} : OnSlot(u, s, L)
BY DEF Moves, Someone, OnSlot

\* Nothing, when it stays what it is.
LEMMA SameStays ==
  ASSUME NEW t \in Threads, Moves(t), NEW s, Same(t, s), NEW L, L \subseteq Tracked
  PROVE  /\ Someone(s, L)' <=> Someone(s, L)
         /\ NumAt(s, L)' = NumAt(s, L)
<1>1. (at'[t] = s /\ pc'[t] \in L) <=> (at[t] = s /\ pc[t] \in L)
  BY DEF Same, OnSlot
<1>2. Someone(s, L)' <=> Someone(s, L)
  BY <1>1, OthersStay DEF OnSlot
<1>3. NumAt(s, L)' = NumAt(s, L)
  BY <1>1, NumAtMoves, NumAtNat DEF One
<1> QED BY <1>2, <1>3

\* A step that leaves the queue of slot s and its parties alone: a connection may be
\* lost or disconnected.
LEMMA QueueKept ==
  ASSUME NEW s \in Sessions, QueueOk(s), NEW t \in Threads, Moves(t), Same(t, s),
         sendQ'[s] = sendQ[s], sendArr'[s] = sendArr[s], sending'[s] = sending[s],
         released'[s] = released[s], Sends(s)' = Sends(s),
         io'[s]["fail"] = io[s]["fail"] \/ ~up[s] \/ disc[s],
         up'[s] => up[s] \/ ~Live(s), disc[s] => disc'[s]
  PROVE  QueueOk(s)'
<1>1. \A L \in SUBSET Tracked : (Someone(s, L)' <=> Someone(s, L)) /\ NumAt(s, L)' = NumAt(s, L)
  BY SameStays
<1>2. (Live(s)' <=> Live(s)) /\ (Owned(s)' <=> Owned(s))
  BY <1>1 DEF Live, Owned, Tracked
<1>3. Parties(s)' = Parties(s)
  BY <1>1 DEF Parties, Tracked
<1>4. /\ Someone(s, {"postN", "postU", "snClear"})' <=> Someone(s, {"postN", "postU", "snClear"})
      /\ Someone(s, {"postIo"})' <=> Someone(s, {"postIo"})
      /\ Someone(s, {"dcCancel"})' <=> Someone(s, {"dcCancel"})
      /\ Someone(s, {"post", "postX"})' <=> Someone(s, {"post", "postX"})
  BY <1>1 DEF Tracked, SendLabels
<1>5. Live(s) /\ LiveQueue(s) => LiveQueue(s)'
  BY <1>3, <1>4 DEF LiveQueue
<1> QED BY <1>2, <1>3, <1>5 DEF QueueOk, One

\* Parties are counted in numbers.
LEMMA PartiesNat ==
  ASSUME TypeOK, NEW s \in Sessions
  PROVE  /\ Sends(s) \in Nat /\ NumAt(s, SendLabels) \in Nat
         /\ Parties(s) = Sends(s) + NumAt(s, SendLabels)
<1>1. io \in IoType
  BY DEF TypeOK, TypeKernel, IoType
<1> QED BY <1>1, IoSums, NumAtNat DEF Parties

\* A thread that is a party is the only one, and there is no send.
LEMMA PartyAlone ==
  ASSUME TypeOK, NEW s \in Sessions, QueueOk(s), NEW t \in Threads, OnSlot(t, s, SendLabels)
  PROVE  /\ sending[s] /\ Parties(s) = 1 /\ Sends(s) = 0 /\ NumAt(s, SendLabels) = 1
         /\ \A u \in Threads \ {t} : ~OnSlot(u, s, SendLabels)
<1>1. /\ Sends(s) \in Nat /\ NumAt(s, SendLabels) \in Nat /\ NumAt(s, SendLabels) >= 1
      /\ Parties(s) = Sends(s) + NumAt(s, SendLabels)
  BY PartiesNat, NumAtNat
<1>2. Parties(s) <= One(sending[s])
  BY DEF QueueOk
<1>3. sending[s] /\ Parties(s) = 1 /\ Sends(s) = 0 /\ NumAt(s, SendLabels) = 1
  BY <1>1, <1>2 DEF One
<1>4. \A u \in Threads \ {t} : ~OnSlot(u, s, SendLabels)
  BY <1>3, NumAtNat
<1> QED BY <1>3, <1>4

\* A send has no other party beside it.
LEMMA SendAlone ==
  ASSUME TypeOK, NEW s \in Sessions, QueueOk(s), Sends(s) > 0
  PROVE  /\ sending[s] /\ Parties(s) = 1 /\ Sends(s) = 1 /\ NumAt(s, SendLabels) = 0
         /\ \A u \in Threads : ~OnSlot(u, s, SendLabels)
<1>1. /\ Sends(s) \in Nat /\ NumAt(s, SendLabels) \in Nat
      /\ Parties(s) = Sends(s) + NumAt(s, SendLabels)
  BY PartiesNat
<1>2. Parties(s) <= One(sending[s])
  BY DEF QueueOk
<1>3. sending[s] /\ Parties(s) = 1 /\ Sends(s) = 1 /\ NumAt(s, SendLabels) = 0
  BY <1>1, <1>2 DEF One
<1>4. \A u \in Threads : ~OnSlot(u, s, SendLabels)
  BY <1>3, NumAtNat
<1> QED BY <1>3, <1>4

\* A thread at work on slot s works on a live slot, and leaves it live.
LEMMA LiveHere ==
  ASSUME SlotInv, InitAlone, NEW s \in Sessions, QueueOk(s), NEW t \in Threads, Moves(t),
         at[t] = s, Using(t), pc[t] # "cnInit", pc'[t] # "cnInit", released'[s] = released[s]
  PROVE  Live(s) /\ Live(s)' /\ LiveQueue(s)
<1>1. Live(s)
  BY UserIsLive DEF SlotInv
<1>2. ~Someone(s, {"cnInit"})'
  BY <1>1, OthersStay DEF Live
<1> QED BY <1>1, <1>2 DEF Live, QueueOk

\* What LiveQueue asks of the slot's threads, for the others than t
LEMMA QueueHere ==
  ASSUME NEW s \in Sessions, Live(s)', NEW t \in Threads, Moves(t),
         Parties(s)' <= One(sending'[s]),
         sendArr'[s] # <<>> => /\ sending'[s]
                               /\ ~(at'[t] = s /\ pc'[t] \in {"postN", "postU", "snClear"})
                               /\ \A u \in Threads \ {t} : ~OnSlot(u, s, {"postN", "postU", "snClear"}),
         Sends(s)' > 0 => sendArr'[s] # <<>>,
         at'[t] = s /\ pc'[t] = "postIo" => sendArr'[s] # <<>>,
         \A u \in Threads \ {t} : OnSlot(u, s, {"postIo"}) => sendArr'[s] # <<>>,
         sending'[s] => Parties(s)' = 1 \/ sendArr'[s] # <<>>,
         io'[s]["fail"] > 0 => ~up'[s] \/ disc'[s],
         at'[t] = s /\ pc'[t] = "dcCancel" => disc'[s],
         \A u \in Threads \ {t} : OnSlot(u, s, {"dcCancel"}) => disc'[s],
         sendQ'[s] # <<>> /\ up'[s] /\ ~disc'[s] =>
            \/ Parties(s)' > 0 \/ sendArr'[s] # <<>>
            \/ at'[t] = s /\ pc'[t] \in {"post", "postX"}
            \/ \E u \in Threads \ {t} : OnSlot(u, s, {"post", "postX"})
  PROVE  QueueOk(s)'
<1>1. \A L : Someone(s, L)' <=> \/ at'[t] = s /\ pc'[t] \in L
                                \/ \E u \in Threads \ {t} : OnSlot(u, s, L)
  BY OthersStay
<1>2. /\ Someone(s, {"postN", "postU", "snClear"})' <=>
            \/ at'[t] = s /\ pc'[t] \in {"postN", "postU", "snClear"}
            \/ \E u \in Threads \ {t} : OnSlot(u, s, {"postN", "postU", "snClear"})
      /\ Someone(s, {"postIo"})' <=>
            \/ at'[t] = s /\ pc'[t] = "postIo"
            \/ \E u \in Threads \ {t} : OnSlot(u, s, {"postIo"})
      /\ Someone(s, {"dcCancel"})' <=>
            \/ at'[t] = s /\ pc'[t] = "dcCancel"
            \/ \E u \in Threads \ {t} : OnSlot(u, s, {"dcCancel"})
      /\ Someone(s, {"post", "postX"})' <=>
            \/ at'[t] = s /\ pc'[t] \in {"post", "postX"}
            \/ \E u \in Threads \ {t} : OnSlot(u, s, {"post", "postX"})
  BY <1>1
<1>3. LiveQueue(s)'
  BY <1>2 DEF LiveQueue
<1> QED BY <1>3 DEF QueueOk, Owned

\* The same of LiveQueue before the step
LEMMA QueueBefore ==
  ASSUME NEW s \in Sessions, LiveQueue(s), NEW t \in Threads
  PROVE  /\ sendArr[s] # <<>> =>
              /\ sending[s]
              /\ ~(at[t] = s /\ pc[t] \in {"postN", "postU", "snClear"})
              /\ \A u \in Threads \ {t} : ~OnSlot(u, s, {"postN", "postU", "snClear"})
         /\ Sends(s) > 0 => sendArr[s] # <<>>
         /\ at[t] = s /\ pc[t] = "postIo" => sendArr[s] # <<>>
         /\ \A u \in Threads \ {t} : OnSlot(u, s, {"postIo"}) => sendArr[s] # <<>>
         /\ sending[s] => Parties(s) = 1 \/ sendArr[s] # <<>>
         /\ io[s]["fail"] > 0 => ~up[s] \/ disc[s]
         /\ at[t] = s /\ pc[t] = "dcCancel" => disc[s]
         /\ \A u \in Threads \ {t} : OnSlot(u, s, {"dcCancel"}) => disc[s]
         /\ sendQ[s] # <<>> /\ up[s] /\ ~disc[s] =>
              \/ Parties(s) > 0 \/ sendArr[s] # <<>>
              \/ at[t] = s /\ pc[t] \in {"post", "postX"}
              \/ \E u \in Threads \ {t} : OnSlot(u, s, {"post", "postX"})
BY DEF LiveQueue, Someone, OnSlot

\* SendPacket and SendPost on the slot itself
LEMMA QueueOfCall ==
  ASSUME SlotInv, InitAlone, NEW s \in Sessions, QueueOk(s), NEW t \in Threads,
         \/ SpEnq(t, s) \/ SendPost(t, s) \/ PostX(t, s) \/ PostN(t, s) \/ PostU(t, s)
         \/ PostIo(t, s)
  PROVE  QueueOk(s)'
<1>0. /\ TypeOK /\ pc \in [Threads -> Labels] /\ at \in [Threads -> Sessions] /\ io \in IoType
      /\ nest \in [Threads -> BOOLEAN] /\ sending \in [Sessions -> BOOLEAN]
      /\ sendQ \in [Sessions -> Seq(Packets)] /\ sendArr \in [Sessions -> Seq(Packets)]
      /\ disc \in [Sessions -> BOOLEAN] /\ up \in [Sessions -> BOOLEAN]
  BY DEF SlotInv, RefInv, TypeOK, TypeThread, TypePackets, TypeSession, TypeKernel, IoType
<1>1. /\ Moves(t) /\ at[t] = s /\ at'[t] = s /\ UNCHANGED <<up, disc>>
      /\ pc[t] \in {"spEnq", "post", "postX", "postN", "postU", "postIo"}
      /\ pc'[t] \notin {"cnInit", "relNotify", "dcCancel"} /\ UNCHANGED released
  BY <1>0 DEF SpEnq, SendPost, PostX, PostN, PostU, PostIo, IoRefused, At, Goto, Stay, Moves,
              refs, session, kernel
<1>2. Live(s)' /\ LiveQueue(s)
  <2>1. Using(t) /\ pc[t] # "cnInit" /\ pc'[t] # "cnInit" /\ released'[s] = released[s]
    BY <1>1 DEF Using, Working, Holding, Labels
  <2> QED BY <1>1, <2>1, LiveHere
<1>3. /\ Sends(s) \in Nat /\ NumAt(s, SendLabels) \in Nat
      /\ Parties(s) = Sends(s) + NumAt(s, SendLabels)
  BY <1>0, PartiesNat
<1>4. /\ NumAt(s, SendLabels)' = NumAt(s, SendLabels) + One(pc'[t] \in SendLabels)
                                                      - One(pc[t] \in SendLabels)
      /\ NumAt(s, SendLabels)' \in Nat
  BY <1>1, NumAtMoves DEF One
<1>5. Parties(s)' = Sends(s)' + NumAt(s, SendLabels)'
  BY DEF Parties
<1>6. UNCHANGED io => Sends(s)' = Sends(s)
  BY DEF Sends
<1>7. Parties(s) <= One(sending[s])
  BY DEF QueueOk
<1>8. pc[t] \in SendLabels =>
        /\ sending[s] /\ Parties(s) = 1 /\ Sends(s) = 0 /\ NumAt(s, SendLabels) = 1
        /\ \A u \in Threads \ {t} : ~OnSlot(u, s, {"postN", "postU", "snClear"})
        /\ \A u \in Threads \ {t} : ~OnSlot(u, s, {"postIo"})
  BY <1>0, <1>1, PartyAlone DEF OnSlot, SendLabels
<1>9. CASE SpEnq(t, s) \/ SendPost(t, s)
  <2>1. /\ UNCHANGED <<sendArr, sending, io>>
        /\ pc[t] \notin SendLabels /\ pc'[t] \notin SendLabels /\ pc[t] # "dcCancel"
        /\ pc'[t] \in {"post", "postX"} \/ sendQ'[s] = <<>>
    BY <1>0, <1>9 DEF SpEnq, SendPost, Goto, At, SendLabels, sends, session, kernel
  <2>2. Parties(s)' = Parties(s) /\ Sends(s)' = Sends(s)
    BY <1>3, <1>4, <1>5, <1>6, <2>1 DEF One
  <2>3. pc'[t] \notin {"postN", "postU", "snClear", "postIo"}
    BY <2>1 DEF SendLabels
  <2> QED BY <1>1, <1>2, <1>7, <2>1, <2>2, <2>3, QueueHere, QueueBefore
<1>10. CASE PostX(t, s)
  <2>1. /\ UNCHANGED <<sendArr, sendQ, io>> /\ sending'[s] = TRUE /\ pc[t] = "postX"
        /\ pc'[t] = IF sending[s] THEN "dec" ELSE "postN"
    BY <1>0, <1>10 DEF PostX, Goto, At, sends, kernel
  <2>2. Sends(s)' = Sends(s)
    BY <1>6, <2>1
  <2>3. CASE sending[s]
    <3>1. Parties(s)' = Parties(s)
      BY <1>3, <1>4, <1>5, <2>1, <2>2, <2>3 DEF One, SendLabels
    <3> QED BY <1>1, <1>2, <1>7, <2>1, <2>2, <2>3, <3>1, QueueHere, QueueBefore DEF One
  <2>4. CASE ~sending[s]
    <3>1. Parties(s)' = 1 /\ Sends(s)' = 0
      BY <1>3, <1>4, <1>5, <1>7, <2>1, <2>2, <2>4 DEF One, SendLabels
    <3>2. sendArr[s] = <<>>
      BY <1>2, <2>4 DEF LiveQueue
    <3> QED BY <1>1, <1>2, <2>1, <2>4, <3>1, <3>2, QueueHere, QueueBefore DEF One
  <2> QED BY <2>3, <2>4
<1>11. CASE PostN(t, s)
  <2>1. /\ UNCHANGED <<sending, io>> /\ pc[t] = "postN" /\ pc'[t] \in {"postU", "postIo"}
        /\ pc'[t] = "postIo" => sendArr'[s] # <<>>
        /\ pc'[t] = "postU" => UNCHANGED sendArr
    <3>1. sendQ[s] \in Seq(Packets) /\ Batch \in Nat \ {0}
      BY <1>0, BatchAssumption
    <3>2. /\ UNCHANGED <<sending, io>> /\ pc[t] = "postN"
          /\ \/ pc'[t] = "postU" /\ UNCHANGED sendArr
             \/ \E n \in Nat \ {0} : /\ pc'[t] = "postIo" /\ n <= Len(sendQ[s])
                                     /\ sendArr'[s] = SubSeq(sendQ[s], 1, n)
      <4> DEFINE n == IF Len(sendQ[s]) < Batch THEN Len(sendQ[s]) ELSE Batch
      <4>1. n \in Nat /\ n <= Len(sendQ[s])
        BY <3>1
      <4>2. UNCHANGED <<sending, io>> /\ pc[t] = "postN"
        BY <1>11 DEF PostN, At, session, kernel
      <4>3. CASE n = 0
        BY <1>0, <1>11, <4>2, <4>3 DEF PostN, Goto, sends
      <4>4. CASE n # 0
        <5>1. pc' = [pc EXCEPT ![t] = "postIo"]
              /\ sendArr' = [sendArr EXCEPT ![s] = SubSeq(sendQ[s], 1, n)]
          BY <1>11, <4>4 DEF PostN, Goto
        <5>2. pc'[t] = "postIo" /\ sendArr'[s] = SubSeq(sendQ[s], 1, n)
          BY <1>0, <5>1
        <5> HIDE DEF n
        <5> QED BY <4>1, <4>2, <4>4, <5>2
      <4> QED BY <4>3, <4>4
    <3>3. \A n \in Nat \ {0} : n <= Len(sendQ[s]) => SubSeq(sendQ[s], 1, n) # <<>>
      BY <3>1
    <3> QED BY <3>2, <3>3
  <2>2. Parties(s)' = 1 /\ Sends(s)' = 0 /\ sending'[s]
    BY <1>3, <1>4, <1>5, <1>6, <1>8, <2>1 DEF One, SendLabels
  <2>3. sendArr[s] = <<>>
    BY <1>1, <1>2, <2>1, QueueBefore
  <2>4. pc[t] \in SendLabels
    BY <2>1 DEF SendLabels
  <2> QED BY <1>1, <1>2, <1>8, <2>1, <2>2, <2>3, <2>4, QueueHere, QueueBefore DEF One
<1>12. CASE PostU(t, s)
  <2>1. /\ UNCHANGED <<sendArr, sendQ, io>> /\ pc[t] = "postU" /\ pc'[t] = "post"
        /\ sending'[s] = FALSE
    BY <1>0, <1>12 DEF PostU, Goto, At, sends, kernel
  <2>2. Parties(s)' = 0 /\ Sends(s)' = 0
    BY <1>3, <1>4, <1>5, <1>6, <1>8, <2>1 DEF One, SendLabels
  <2>3. sendArr[s] = <<>>
    BY <1>1, <1>2, <2>1, QueueBefore
  <2>4. pc[t] \in SendLabels
    BY <2>1 DEF SendLabels
  <2> QED BY <1>1, <1>2, <1>8, <2>1, <2>2, <2>3, <2>4, QueueHere, QueueBefore DEF One
<1>13. CASE PostIo(t, s)
  <2>1. /\ UNCHANGED <<sendArr, sendQ, sending>> /\ pc[t] = "postIo"
        /\ pc'[t] \in {"postDisc", "dec"}
        /\ UNCHANGED io \/ Started(s, "send") \/ Started(s, "sent")
    BY <1>0, <1>13 DEF PostIo, IoRefused, Goto, At, sends, session
  <2>2. Sends(s)' \in {0, 1}
    <3>1. Sends(s) = 0
      BY <1>8, <2>1 DEF SendLabels
    <3> QED BY <1>0, <1>6, <2>1, <3>1, SumsStarted DEF IoKinds, SendKinds, One
  <2>3. Parties(s)' = Sends(s)' /\ sending'[s]
    BY <1>3, <1>4, <1>5, <1>8, <2>1, <2>2 DEF One, SendLabels
  <2>4. sendArr[s] # <<>>
    BY <1>1, <1>2, <2>1, QueueBefore
  <2>5. io'[s]["fail"] = io[s]["fail"]
    BY <1>0, <2>1 DEF Started, IoType, IoKinds
  <2>6. pc[t] \in SendLabels
    BY <2>1 DEF SendLabels
  <2> QED BY <1>1, <1>2, <1>8, <2>1, <2>2, <2>3, <2>4, <2>5, <2>6, QueueHere, QueueBefore DEF One
<1> QED BY <1>9, <1>10, <1>11, <1>12, <1>13

\* Disconnect on the slot itself: bDisconnectCalled_ is set before the send is cancelled.
LEMMA QueueOfDisconnect ==
  ASSUME SlotInv, InitAlone, NEW s \in Sessions, QueueOk(s), NEW t \in Threads,
         DcX(t, s) \/ DcCancelSend(t, s)
  PROVE  QueueOk(s)'
<1>0. /\ TypeOK /\ pc \in [Threads -> Labels] /\ at \in [Threads -> Sessions] /\ io \in IoType
      /\ nest \in [Threads -> BOOLEAN] /\ disc \in [Sessions -> BOOLEAN]
  BY DEF SlotInv, RefInv, TypeOK, TypeThread, TypeSession, TypeKernel, IoType
<1>1. /\ Moves(t) /\ at[t] = s /\ at'[t] = s /\ UNCHANGED <<up, sendQ, sendArr, sending, released>>
      /\ pc[t] \in {"dcX", "dcCancel"} /\ pc'[t] \in {"dcCancel", "dcCancel2", "dec"}
  BY <1>0 DEF DcX, DcCancelSend, At, Goto, Stay, Moves, refs, session, sends, kernel
<1>2. Live(s)' /\ LiveQueue(s)
  <2>1. Using(t) /\ pc[t] # "cnInit" /\ pc'[t] # "cnInit" /\ released'[s] = released[s]
    BY <1>1 DEF Using, Working, Holding, Labels
  <2> QED BY <1>1, <2>1, LiveHere
<1>3. Sends(s)' = Sends(s)
  <2>1. UNCHANGED io \/ Complete(s, "send", "fail", io[s]["send"])
    BY DEF DcX, DcCancelSend, Cancel, kernel
  <2>2. io[s]["send"] \in Nat
    BY <1>0 DEF IoType, IoKinds
  <2>3. UNCHANGED io => Sends(s)' = Sends(s)
    BY DEF Sends
  <2> QED BY <1>0, <2>1, <2>2, <2>3, SumsCompleted DEF IoKinds, RecvKinds
<1>4. Parties(s)' = Parties(s) /\ Parties(s) <= One(sending[s])
  <2>1. NumAt(s, SendLabels)' = NumAt(s, SendLabels)
    BY <1>1, NumAtMoves, NumAtNat DEF One, SendLabels
  <2> QED BY <1>3, <2>1 DEF Parties, QueueOk
<1>5. disc'[s]
  <2>1. CASE DcX(t, s)
    BY <1>0, <2>1 DEF DcX
  <2>2. CASE DcCancelSend(t, s)
    <3>1. pc[t] = "dcCancel" /\ UNCHANGED disc
      BY <2>2 DEF DcCancelSend, At, session
    <3> QED BY <1>1, <1>2, <3>1, QueueBefore
  <2> QED BY <2>1, <2>2
<1> QED BY <1>1, <1>2, <1>3, <1>4, <1>5, QueueHere, QueueBefore

\* On the way out, and on the way in before Init, no packet waits.
LEMMA QueueOfReleased ==
  ASSUME SlotInv, InitAlone, NEW s \in Sessions, QueueOk(s), NEW t \in Threads,
         \/ ReleaseSession(t, s) /\ released'[s] # released[s]
         \/ RelNotify(t, s) \/ (t \in Workers /\ CnClear(t, s))
  PROVE  QueueOk(s)'
<1>0. /\ TypeOK /\ pc \in [Threads -> Labels] /\ at \in [Threads -> Sessions]
      /\ nest \in [Threads -> BOOLEAN] /\ released \in [Sessions -> BOOLEAN]
      /\ sendQ \in [Sessions -> Seq(Packets)]
  BY DEF SlotInv, RefInv, TypeOK, TypeThread, TypePackets, TypeSession
<1>1. /\ Moves(t) /\ at[t] = s /\ at'[t] = s /\ UNCHANGED <<sending, io>>
      /\ pc[t] \notin SendLabels /\ pc'[t] \notin SendLabels
  BY <1>0 DEF ReleaseSession, RelNotify, CnClear, Return, At, Goto, Stay, Moves, refs, session,
              sends, kernel, SendLabels
<1>2. Parties(s)' = Parties(s) /\ Parties(s) <= One(sending[s])
  <2>1. NumAt(s, SendLabels)' = NumAt(s, SendLabels)
    BY <1>1, NumAtMoves, NumAtNat DEF One
  <2>2. Sends(s)' = Sends(s)
    BY <1>1 DEF Sends
  <2> QED BY <2>1, <2>2 DEF Parties, QueueOk
<1>3. ~Live(s)' /\ (sendQ'[s] # <<>> => Owned(s)')
  <2>1. CASE ReleaseSession(t, s) /\ released'[s] # released[s]
    <3>1. released'[s] /\ pc'[t] = "relNotify"
      BY <1>0, <2>1 DEF ReleaseSession, Goto, refs, sends, session
    <3>2. Someone(s, {"relNotify"})'
      BY <1>1, <3>1 DEF Someone, OnSlot
    <3> QED BY <3>1, <3>2 DEF Live, Owned
  <2>2. CASE RelNotify(t, s)
    <3>1. sendQ'[s] = <<>> /\ UNCHANGED released /\ pc[t] = "relNotify" /\ pc'[t] = "relPush"
      BY <1>0, <2>2 DEF RelNotify, Drain, At, Goto, refs
    <3>2. NumAt(s, Releasing) >= 1
      <4>1. OnSlot(t, s, Releasing)
        BY <1>1, <3>1 DEF OnSlot, Releasing
      <4> QED BY <4>1, NumAtNat
    <3>3. ~Live(s)
      <4>1. SlotFacts
        BY <1>0, SlotPlaces
      <4>2. PlacesOf(s) = 1
        BY <4>1 DEF SlotFacts, SlotInv
      <4>3. /\ Count(s, stack) \in Nat /\ Count(s, reconQ) \in Nat
            /\ NumAt(s, Attempting) \in Nat /\ NumAt(s, Releasing) \in Nat
        BY <4>1 DEF SlotFacts
      <4> QED BY <3>2, <4>2, <4>3 DEF PlacesOf, One
    <3>4. Someone(s, {"cnInit"}) => Someone(s, {"cnInit"})'
      BY <1>1, <3>1, OthersStay DEF OnSlot
    <3> QED BY <3>1, <3>3, <3>4 DEF Live
  <2>3. CASE t \in Workers /\ CnClear(t, s)
    <3>1. pc[t] = "cnClear" /\ pc'[t] = "cnInit" /\ UNCHANGED sendQ
      BY <1>0, <2>3 DEF CnClear, At, Goto, sends
    <3>2. OnSlot(t, s, Attempting)
      BY <1>1, <3>1 DEF OnSlot, Attempting
    <3>3. ~Owned(s)
      BY <1>0, <3>2, AttemptAlone DEF SlotInv, Owned, Someone, OnSlot, Releasing
    <3>4. Someone(s, {"cnInit"})'
      BY <1>1, <3>1 DEF Someone, OnSlot
    <3> QED BY <3>1, <3>3, <3>4 DEF QueueOk, Live
  <2> QED BY <2>1, <2>2, <2>3
<1> QED BY <1>1, <1>2, <1>3 DEF QueueOk

\* Init finds nothing on the slot and leaves nothing.
LEMMA QueueOfInit ==
  ASSUME SlotInv, InitAlone, NEW s \in Sessions, QueueOk(s), NEW t \in Workers, CnInit(t, s)
  PROVE  QueueOk(s)'
<1>0. /\ TypeOK /\ pc \in [Threads -> Labels] /\ at \in [Threads -> Sessions] /\ io \in IoType
      /\ t \in Threads /\ sendArr \in [Sessions -> Seq(Packets)]
      /\ nest \in [Threads -> BOOLEAN] /\ sending \in [Sessions -> BOOLEAN]
      /\ disc \in [Sessions -> BOOLEAN]
  BY DEF SlotInv, RefInv, TypeOK, TypeThread, TypePackets, TypeSession, TypeKernel, IoType,
         Threads
<1>1. /\ Moves(t) /\ at[t] = s /\ at'[t] = s /\ UNCHANGED <<io, up, sendQ, released>>
      /\ pc[t] = "cnInit" /\ pc'[t] = "rpost"
      /\ sendArr'[s] = <<>> /\ sending'[s] = FALSE /\ disc'[s] = FALSE
  BY <1>0 DEF CnInit, At, Goto, Stay, Moves, refs, kernel
<1>2. OnSlot(t, s, Initing) /\ OnSlot(t, s, Attempting)
  BY <1>1 DEF OnSlot, Initing, Attempting
<1>3. Outstanding(s) = 0 /\ \A u \in Threads \ {t} : at[u] = s => ~Using(u)
  BY <1>0, <1>2 DEF InitAlone
<1>4. ~Live(s) /\ ~Someone(s, Releasing) /\ \A u \in Threads : OnSlot(u, s, Attempting) => u = t
  BY <1>0, <1>2, AttemptAlone DEF SlotInv
<1>5. sendQ[s] = <<>>
  BY <1>4 DEF QueueOk, Owned, Someone, OnSlot, Releasing
<1>6. Live(s)'
  <2>1. ~released[s]
    <3>1. Using(t)
      BY <1>1 DEF Using, Working, Holding, Labels
    <3> QED BY <1>0, <1>1, <3>1 DEF SlotInv, RefInv, UseSafe
  <2>2. ~Someone(s, {"cnInit"})'
    <3>1. \A u \in Threads \ {t} : ~OnSlot(u, s, {"cnInit"})
      BY <1>4 DEF OnSlot, Attempting
    <3> QED BY <1>0, <1>1, <3>1, OthersStay
  <2> QED BY <1>1, <2>1, <2>2 DEF Live
<1>7. \A u \in Threads \ {t} : ~OnSlot(u, s, SendLabels) /\ ~OnSlot(u, s, {"postN", "postU", "snClear"})
                               /\ ~OnSlot(u, s, {"postIo"}) /\ ~OnSlot(u, s, {"dcCancel"})
  BY <1>3 DEF OnSlot, SendLabels, Using, Working, Holding, Labels
<1>8. Sends(s) = 0 /\ io[s]["fail"] = 0
  <2>1. \A k \in IoKinds : io[s][k] \in Nat
    BY <1>0 DEF IoType
  <2>2. Sends(s) = 0
    BY <1>0, <1>3, IoSums
  <2>3. io[s]["send"] \in Nat /\ io[s]["sent"] \in Nat /\ io[s]["fail"] \in Nat
    BY <2>1 DEF IoKinds
  <2> QED BY <2>2, <2>3 DEF Sends
<1>9. Parties(s)' = 0
  <2>1. NumAt(s, SendLabels)' = 0
    <3>1. ~Someone(s, SendLabels)'
      BY <1>0, <1>1, <1>7, OthersStay, ZenonT(30) DEF SendLabels
    <3>2. {u \in Threads : OnSlot(u, s, SendLabels)'} = {}
      BY <3>1 DEF Someone
    <3> QED BY <3>2, FS_EmptySet DEF NumAt
  <2>2. Sends(s)' = 0
    BY <1>1, <1>8 DEF Sends
  <2> QED BY <2>1, <2>2 DEF Parties
<1>10. Sends(s)' = 0
  BY <1>1, <1>8 DEF Sends
<1>11. Parties(s)' <= One(sending'[s]) /\ ~(io'[s]["fail"] > 0)
  BY <1>1, <1>8, <1>9 DEF One
<1>12. t \in Threads /\ ~(Sends(s)' > 0) /\ sendQ'[s] = <<>>
  BY <1>0, <1>1, <1>5, <1>10
<1>13. pc'[t] \notin {"postN", "postU", "snClear", "postIo", "dcCancel", "post", "postX"}
  BY <1>1
<1> QED BY <1>1, <1>6, <1>7, <1>11, <1>12, <1>13, QueueHere

\* SendProc, and what becomes of a send that failed
LEMMA QueueOfCompletion ==
  ASSUME SlotInv, InitAlone, NEW s \in Sessions, QueueOk(s), NEW t \in Workers,
         SnClear(t, s) \/ GetSent(t, s) \/ (GetDead(t, s) /\ Taken(s, "fail"))
  PROVE  QueueOk(s)'
<1>0. /\ TypeOK /\ pc \in [Threads -> Labels] /\ at \in [Threads -> Sessions] /\ io \in IoType
      /\ t \in Threads /\ sendArr \in [Sessions -> Seq(Packets)]
      /\ nest \in [Threads -> BOOLEAN] /\ sending \in [Sessions -> BOOLEAN]
  BY DEF SlotInv, RefInv, TypeOK, TypeThread, TypePackets, TypeSession, TypeKernel, IoType,
         Threads
<1>1. /\ Moves(t) /\ at'[t] = s /\ UNCHANGED <<up, disc, sendQ, released>>
      /\ pc[t] \in {"idle", "snClear"} /\ pc'[t] \in {"dec", "snClear", "post"}
      /\ pc[t] = "snClear" => at[t] = s
  BY <1>0 DEF SnClear, GetSent, GetDead, Take, At, Goto, Stay, Moves, refs, session, sends,
              kernel
<1>2. CASE SnClear(t, s)
  <2>1. /\ pc[t] = "snClear" /\ pc'[t] = "post" /\ at[t] = s /\ UNCHANGED <<io, sendArr>>
        /\ sending'[s] = FALSE
    BY <1>0, <1>2 DEF SnClear, At, Goto, sends, kernel
  <2>2. OnSlot(t, s, SendLabels)
    BY <2>1 DEF OnSlot, SendLabels
  <2>3. /\ Sends(s) = 0 /\ NumAt(s, SendLabels) = 1
        /\ \A u \in Threads \ {t} : ~OnSlot(u, s, SendLabels)
    BY <1>0, <2>2, PartyAlone
  <2>4. Live(s)' /\ LiveQueue(s)
    <3>1. Using(t) /\ pc[t] # "cnInit" /\ pc'[t] # "cnInit" /\ released'[s] = released[s]
      BY <1>1, <2>1 DEF Using, Working, Holding, Labels
    <3> QED BY <1>0, <1>1, <2>1, <3>1, LiveHere
  <2>5. sendArr[s] = <<>>
    BY <1>0, <2>1, <2>4, QueueBefore
  <2>6. Sends(s)' = 0 /\ Parties(s)' = 0
    <3>1. Sends(s)' = 0
      BY <2>1, <2>3 DEF Sends
    <3>2. NumAt(s, SendLabels)' = NumAt(s, SendLabels)
            + One(at'[t] = s /\ pc'[t] \in SendLabels) - One(at[t] = s /\ pc[t] \in SendLabels)
      BY <1>0, <1>1, NumAtMoves
    <3>3. NumAt(s, SendLabels)' = 0
      BY <2>1, <2>3, <3>2 DEF One, SendLabels
    <3> QED BY <3>1, <3>3 DEF Parties
  <2>7. \A u \in Threads \ {t} : OnSlot(u, s, {"postIo"}) => OnSlot(u, s, SendLabels)
    BY DEF OnSlot, SendLabels
  <2>8. Parties(s)' <= One(sending'[s]) /\ ~(Sends(s)' > 0)
    BY <2>1, <2>6 DEF One
  <2> QED BY <1>0, <1>1, <2>1, <2>3, <2>4, <2>5, <2>7, <2>8, QueueHere, QueueBefore
<1>3. CASE GetSent(t, s) \/ (GetDead(t, s) /\ Taken(s, "fail"))
  <2>1. /\ pc[t] = "idle" /\ UNCHANGED sending
        /\ \/ Taken(s, "sent") /\ pc'[t] = "snClear" /\ sendArr'[s] = <<>>
           \/ Taken(s, "fail") /\ pc'[t] = "dec" /\ UNCHANGED sendArr
    BY <1>0, <1>3 DEF GetSent, GetDead, Take, At, Goto, sends, session
  <2>2. Sends(s) > 0 /\ Sends(s)' = Sends(s) - 1 /\ Outstanding(s) > 0
    <3>1. Sends(s)' = Sends(s) - 1
      BY <1>0, <2>1, SumsTaken DEF IoKinds, SendKinds, One
    <3>2. io[s]["send"] \in Nat /\ io[s]["sent"] \in Nat /\ io[s]["fail"] \in Nat
      BY <1>0 DEF IoType, IoKinds
    <3>3. Sends(s) > 0
      BY <2>1, <3>2 DEF Sends, Taken
    <3>4. Recvs(s) \in Nat /\ Sends(s) \in Nat /\ Outstanding(s) = Recvs(s) + Sends(s)
      BY <1>0, IoSums
    <3> QED BY <3>1, <3>3, <3>4
  <2>3. /\ sending[s] /\ Sends(s) = 1 /\ NumAt(s, SendLabels) = 0
        /\ \A u \in Threads : ~OnSlot(u, s, SendLabels)
    BY <1>0, <2>2, SendAlone
  <2>4. Sends(s)' = 0 /\ Parties(s)' = One(pc'[t] = "snClear")
    <3>1. Sends(s)' = 0
      BY <2>2, <2>3
    <3>2. NumAt(s, SendLabels)' = NumAt(s, SendLabels)
            + One(at'[t] = s /\ pc'[t] \in SendLabels) - One(at[t] = s /\ pc[t] \in SendLabels)
      BY <1>0, <1>1, NumAtMoves
    <3>3. NumAt(s, SendLabels)' = One(pc'[t] = "snClear")
      BY <1>1, <2>1, <2>3, <3>2 DEF One, SendLabels
    <3> QED BY <3>1, <3>3 DEF Parties, One
  <2>5. Live(s) /\ LiveQueue(s)
    BY <2>2, BusyIsLive DEF SlotInv, QueueOk
  <2>6. Live(s)'
    <3>1. ~Someone(s, {"cnInit"})'
      BY <1>0, <1>1, <2>5, OthersStay DEF Live
    <3> QED BY <1>1, <2>5, <3>1 DEF Live
  <2>7. sendArr[s] # <<>>
    BY <2>2, <2>5 DEF LiveQueue
  <2>8. \A u \in Threads \ {t} : /\ ~OnSlot(u, s, {"postIo"})
                                 /\ ~OnSlot(u, s, {"postN", "postU", "snClear"})
    BY <2>3 DEF OnSlot, SendLabels
  <2>9. Parties(s)' <= One(sending'[s]) /\ ~(Sends(s)' > 0) /\ sending'[s]
    BY <2>1, <2>3, <2>4 DEF One
  <2>10. CASE Taken(s, "sent") /\ pc'[t] = "snClear" /\ sendArr'[s] = <<>>
    <3>1. Parties(s)' = 1 /\ Parties(s)' > 0
      BY <2>4, <2>10 DEF One
    <3>2. io'[s]["fail"] = io[s]["fail"]
      BY <1>0, <2>10 DEF Taken, IoType, IoKinds
    <3> QED BY <1>0, <1>1, <2>5, <2>6, <2>8, <2>9, <2>10, <3>1, <3>2, QueueHere, QueueBefore
  <2>11. CASE Taken(s, "fail") /\ pc'[t] = "dec" /\ UNCHANGED sendArr
    <3>1. ~up[s] \/ disc[s]
      BY <2>5, <2>11 DEF LiveQueue, Taken
    <3> QED BY <1>0, <1>1, <2>5, <2>6, <2>7, <2>8, <2>9, <2>11, <3>1, QueueHere, QueueBefore
  <2> QED BY <2>1, <2>10, <2>11
<1> QED BY <1>2, <1>3

\* A step at another slot leaves the queue alone, and so does one at this slot that is
\* none of the above.
LEMMA QueueStep ==
  SendInv /\ [Next]_vars => \A s \in Sessions : QueueOk(s)'
<1> SUFFICES ASSUME SendInv, [Next]_vars, NEW s \in Sessions PROVE QueueOk(s)'
  OBVIOUS
<1> DEFINE Untouched(t) == /\ Moves(t) /\ Same(t, s) /\ released'[s] = released[s]
                           /\ sendQ'[s] = sendQ[s] /\ sendArr'[s] = sendArr[s]
                           /\ sending'[s] = sending[s] /\ (disc[s] => disc'[s])
<1>0. /\ Owner \in Threads /\ Workers \subseteq Threads
      /\ pc \in [Threads -> Labels] /\ at \in [Threads -> Sessions]
      /\ nest \in [Threads -> BOOLEAN] /\ disc \in [Sessions -> BOOLEAN]
      /\ released \in [Sessions -> BOOLEAN] /\ sending \in [Sessions -> BOOLEAN]
      /\ sendQ \in [Sessions -> Seq(Packets)] /\ sendArr \in [Sessions -> Seq(Packets)]
      /\ up \in [Sessions -> BOOLEAN]
  BY DEF SendInv, SlotInv, RefInv, TypeOK, TypeThread, TypePackets, TypeSession, TypeKernel,
         Threads
<1>b. QueueOk(s) /\ SlotInv /\ InitAlone /\ io \in IoType /\ RefInv /\ SlotOnce
  BY DEF SendInv, SlotInv, RefInv, TypeOK, TypeKernel, IoType
<1>c. UNCHANGED io => Sends(s)' = Sends(s) /\ io'[s]["fail"] = io[s]["fail"]
  BY DEF Sends
<1>a. ASSUME NEW t \in Threads, Untouched(t), UNCHANGED <<io, up>> PROVE QueueOk(s)'
  BY <1>a, <1>b, <1>c, QueueKept
<1>d. ASSUME NEW t \in Threads, Untouched(t), UNCHANGED up, NEW x \in Sessions,
             NEW n \in Nat,
             \/ Complete(x, "recv", "data", n) \/ Complete(x, "recv", "dead", n)
             \/ Complete(x, "send", "sent", n)
             \/ Complete(x, "send", "fail", n) /\ (x = s => disc[s] \/ ~up[s])
             \/ Started(x, "recv") \/ Started(x, "data")
             \/ Taken(x, "data") \/ Taken(x, "dead")
             \/ x # s /\ (Started(x, "send") \/ Started(x, "sent"))
             \/ x # s /\ (Taken(x, "sent") \/ Taken(x, "fail"))
      PROVE  QueueOk(s)'
  <2>1. Sends(s)' = Sends(s)
    <3>1. Sends(s) \in Nat
      BY <1>b, IoSums
    <3> QED BY <1>b, <1>d, <3>1, SumsCompleted, SumsStarted, SumsTaken
            DEF IoKinds, RecvKinds, SendKinds, One
  <2>2. io'[s]["fail"] = io[s]["fail"] \/ ~up[s] \/ disc[s]
    BY <1>b, <1>d DEF Complete, Started, Taken, IoType, IoKinds
  <2> QED BY <1>b, <1>d, <2>1, <2>2, QueueKept
<1>e. ASSUME NEW t \in Threads, Moves(t), UNCHANGED <<released, sends, sending>>,
             disc[s] => disc'[s],
             \/ pc[t] \notin Tracked /\ pc'[t] \notin Tracked
             \/ at[t] # s /\ at'[t] # s
             \/ pc'[t] = pc[t] /\ at'[t] = at[t]
      PROVE  Untouched(t)
  BY <1>e DEF Same, OnSlot, sends
<1> USE <1>0 DEF Moves, thread, kernel, refs
<1>1. ASSUME OwnerStep PROVE QueueOk(s)'
  <2>1. Moves(Owner) /\ UNCHANGED <<released, sends, sending, disc, io, up>>
        /\ \/ pc[Owner] \notin Tracked /\ pc'[Owner] \notin Tracked
           \/ pc'[Owner] = pc[Owner] /\ at'[Owner] = at[Owner]
    BY <1>1 DEF OwnerStep, TakeJob, Connect, SendPacket, Disconnect, FreeSmart, Ready, Enter,
                Stay, Goto, At, session, Tracked, SendLabels
  <2> QED BY <1>a, <1>e, <2>1
<1>2. ASSUME NEW t \in Threads, NEW x \in Sessions, CallStep(t, x) PROVE QueueOk(s)'
  <2>1. CASE SpCheck(t, x) \/ DcCheck(t, x) \/ Decrement(t, x) \/ RelPush(t, x)
    <3>1. /\ Moves(t) /\ UNCHANGED <<released, sends, sending, disc, io, up>>
          /\ pc[t] \notin Tracked /\ pc'[t] \notin Tracked
      BY <2>1 DEF SpCheck, DcCheck, Decrement, RelPush, Return, Stay, Goto, At, session,
                  Tracked, SendLabels
    <3> QED BY <1>a, <1>e, <3>1
  <2>2. CASE x = s /\ ( \/ SpEnq(t, x) \/ SendPost(t, x) \/ PostX(t, x) \/ PostN(t, x)
                        \/ PostU(t, x) \/ PostIo(t, x) )
    BY <1>b, <2>2, QueueOfCall
  <2>3. CASE x # s /\ ( \/ SpEnq(t, x) \/ SendPost(t, x) \/ PostX(t, x) \/ PostN(t, x)
                        \/ PostU(t, x) )
    <3>1. /\ Moves(t) /\ released'[s] = released[s] /\ sendQ'[s] = sendQ[s]
          /\ sendArr'[s] = sendArr[s] /\ sending'[s] = sending[s]
          /\ UNCHANGED <<disc, io, up>> /\ at[t] # s /\ at'[t] # s
      BY <2>3 DEF SpEnq, SendPost, PostX, PostN, PostU, Stay, Goto, At, session, sends
    <3>2. Same(t, s)
      BY <3>1 DEF Same, OnSlot
    <3> QED BY <1>a, <3>1, <3>2
  <2>4. CASE x # s /\ PostIo(t, x)
    <3>1. /\ Moves(t) /\ UNCHANGED <<released, sends, sending, disc, up>>
          /\ at[t] # s /\ at'[t] # s
          /\ UNCHANGED io \/ Started(x, "send") \/ Started(x, "sent")
      BY <2>4 DEF PostIo, IoRefused, Stay, Goto, At, session
    <3>2. Untouched(t)
      BY <1>e, <3>1
    <3> QED BY <1>a, <1>d, <2>4, <3>1, <3>2
  <2>5. CASE PostDisc(t, x) \/ DcCancelRecv(t, x) \/ (x # s /\ DcCancelSend(t, x))
    <3>1. /\ Moves(t) /\ UNCHANGED <<released, sends, sending, disc, up>>
          /\ \/ pc[t] \notin Tracked /\ pc'[t] \notin Tracked
             \/ at[t] # s /\ at'[t] # s
          /\ \/ UNCHANGED io \/ Complete(x, "recv", "dead", io[x]["recv"])
             \/ Complete(x, "send", "fail", io[x]["send"]) /\ (x = s => disc[s])
      BY <2>5 DEF PostDisc, DcCancelRecv, DcCancelSend, Cancel, Stay, Goto, At, session,
                  Tracked, SendLabels
    <3>2. Untouched(t)
      BY <1>e, <3>1
    <3>3. io[x]["recv"] \in Nat /\ io[x]["send"] \in Nat
      BY <1>b DEF IoType, IoKinds
    <3> QED BY <1>a, <1>d, <3>1, <3>2, <3>3
  <2>6. CASE DcX(t, x) \/ DcCancelSend(t, x)
    <3>1. CASE x = s
      BY <1>b, <2>6, <3>1, QueueOfDisconnect
    <3>2. CASE x # s /\ DcX(t, x)
      <4>1. /\ Moves(t) /\ released'[s] = released[s] /\ sendQ'[s] = sendQ[s]
            /\ sendArr'[s] = sendArr[s] /\ sending'[s] = sending[s] /\ disc'[s] = disc[s]
            /\ UNCHANGED <<io, up>> /\ at[t] # s /\ at'[t] # s
        BY <3>2 DEF DcX, Stay, Goto, At, session, sends
      <4>2. Same(t, s)
        BY <4>1 DEF Same, OnSlot
      <4> QED BY <1>a, <4>1, <4>2
    <3> QED BY <2>5, <2>6, <3>1, <3>2
  <2>7. CASE ReleaseSession(t, x)
    <3>1. /\ Moves(t) /\ UNCHANGED <<sends, sending, disc, io, up>> /\ at[t] = x /\ at'[t] = x
          /\ pc[t] = "rel" /\ (released' = released => pc'[t] \notin Tracked)
          /\ x # s => released'[s] = released[s]
      BY <2>7 DEF ReleaseSession, MayRelease, Return, Stay, Goto, At, session, Tracked,
                  SendLabels
    <3>2. CASE released'[s] # released[s]
      BY <1>b, <2>7, <3>1, <3>2, QueueOfReleased
    <3>3. CASE released'[s] = released[s]
      <4>1. x = s => pc'[t] \notin Tracked
        BY <2>7, <3>1, <3>3 DEF ReleaseSession, MayRelease
      <4>2. Same(t, s)
        BY <3>1, <4>1 DEF Same, OnSlot, Tracked, SendLabels
      <4> QED BY <1>a, <3>1, <3>3, <4>2 DEF sends
    <3> QED BY <3>2, <3>3
  <2>8. CASE RelNotify(t, x)
    <3>1. CASE x = s
      BY <1>b, <2>8, <3>1, QueueOfReleased
    <3>2. CASE x # s
      <4>1. /\ Moves(t) /\ released'[s] = released[s] /\ sendQ'[s] = sendQ[s]
            /\ sendArr'[s] = sendArr[s] /\ sending'[s] = sending[s] /\ disc'[s] = disc[s]
            /\ UNCHANGED io /\ up'[s] = up[s] /\ at[t] # s /\ at'[t] # s
        BY <2>8, <3>2 DEF RelNotify, Drain, Stay, Goto, At, session, sends
      <4>2. Same(t, s)
        BY <4>1 DEF Same, OnSlot
      <4> QED BY <1>b, <1>c, <4>1, <4>2, QueueKept
    <3> QED BY <3>1, <3>2
  <2> QED BY <1>2, <2>1, <2>2, <2>3, <2>4, <2>5, <2>6, <2>7, <2>8 DEF CallStep
<1>3. ASSUME NEW w \in Workers, NEW x \in Sessions, HandleStep(w, x) PROVE QueueOk(s)'
  <2>1. CASE x = s /\ (CnClear(w, x) \/ CnInit(w, x) \/ SnClear(w, x))
    BY <1>b, <2>1, QueueOfReleased, QueueOfInit, QueueOfCompletion
  <2>2. CASE x # s /\ (CnClear(w, x) \/ CnInit(w, x) \/ SnClear(w, x))
    <3>1. /\ Moves(w) /\ released'[s] = released[s] /\ sendQ'[s] = sendQ[s]
          /\ sendArr'[s] = sendArr[s] /\ sending'[s] = sending[s] /\ disc'[s] = disc[s]
          /\ UNCHANGED <<io, up>> /\ at[w] # s /\ at'[w] # s
      BY <2>2 DEF CnClear, CnInit, SnClear, Stay, Goto, At, session, sends
    <3>2. Same(w, s)
      BY <3>1 DEF Same, OnSlot
    <3> QED BY <1>a, <3>1, <3>2
  <2>3. CASE RecvMessage(w, x) \/ RecvBad(w, x) \/ RecvEnd(w, x) \/ RecvPost(w, x)
             \/ RpDisc(w, x)
    <3>1. /\ Moves(w) /\ UNCHANGED <<released, sends, sending, disc, up>>
          /\ pc[w] \notin Tracked /\ pc'[w] \notin Tracked
      BY <2>3 DEF RecvMessage, RecvBad, RecvEnd, RecvPost, RpDisc, IoRefused, Enter, Stay,
                  Goto, At, session, Tracked, SendLabels
    <3>2. \/ UNCHANGED io \/ Started(x, "recv") \/ Started(x, "data")
          \/ Complete(x, "recv", "dead", io[x]["recv"])
      BY <2>3 DEF RecvMessage, RecvBad, RecvEnd, RecvPost, RpDisc, IoRefused, Cancel
    <3>3. io[x]["recv"] \in Nat
      BY <1>b DEF IoType, IoKinds
    <3>4. Untouched(w)
      BY <1>e, <3>1
    <3> QED BY <1>a, <1>d, <3>1, <3>2, <3>3, <3>4
  <2> QED BY <1>3, <2>1, <2>2, <2>3 DEF HandleStep
<1>4. ASSUME NEW w \in Workers, NEW x \in Sessions, GetStep(w, x) PROVE QueueOk(s)'
  <2>1. CASE GetConnect(w, x) \/ GetConnectFail(w, x) \/ GetReconnect(w, x)
    <3>1. /\ Moves(w) /\ UNCHANGED <<released, sends, sending, disc, io, up>>
          /\ pc[w] \notin Tracked /\ pc'[w] \notin Tracked
      BY <2>1 DEF GetConnect, GetConnectFail, GetReconnect, Requeue, GiveUp, Take, Goto, At,
                  session, Tracked, SendLabels
    <3> QED BY <1>a, <1>e, <3>1
  <2>2. CASE x = s /\ (GetSent(w, x) \/ (GetDead(w, x) /\ Taken(x, "fail")))
    BY <1>b, <2>2, QueueOfCompletion
  <2>3. CASE GetRecv(w, x) \/ (GetDead(w, x) /\ (Taken(x, "dead") \/ x # s))
    <3>1. /\ Moves(w) /\ UNCHANGED <<released, sends, sending, disc, up>>
          /\ pc[w] \notin Tracked /\ pc'[w] \notin Tracked
          /\ \/ Taken(x, "data") \/ Taken(x, "dead")
             \/ x # s /\ Taken(x, "fail")
      BY <2>3 DEF GetRecv, GetDead, Take, Goto, At, session, Tracked, SendLabels
    <3>2. Untouched(w)
      BY <1>e, <3>1
    <3> QED BY <1>d, <3>1, <3>2
  <2>4. CASE x # s /\ GetSent(w, x)
    <3>1. /\ Moves(w) /\ released'[s] = released[s] /\ sendQ'[s] = sendQ[s]
          /\ sendArr'[s] = sendArr[s] /\ sending'[s] = sending[s] /\ disc'[s] = disc[s]
          /\ UNCHANGED up /\ pc[w] = "idle" /\ at'[w] # s /\ Taken(x, "sent")
      BY <2>4 DEF GetSent, Take, Goto, At, session
    <3>2. Same(w, s)
      BY <3>1 DEF Same, OnSlot, Tracked, SendLabels
    <3> QED BY <1>d, <2>4, <3>1, <3>2
  <2>5. GetDead(w, x) => Taken(x, "dead") \/ Taken(x, "fail")
    BY DEF GetDead
  <2> QED BY <1>4, <2>1, <2>2, <2>3, <2>4, <2>5 DEF GetStep
<1>5. ASSUME NEW w \in Workers, CfTimer(w) \/ CfNotify(w) PROVE QueueOk(s)'
  <2>1. /\ Moves(w) /\ UNCHANGED <<released, sends, sending, disc, io, up>>
        /\ pc[w] \notin Tracked /\ pc'[w] \notin Tracked
    BY <1>5 DEF CfTimer, CfNotify, Stay, Goto, At, session, Tracked, SendLabels
  <2> QED BY <1>a, <1>e, <2>1
<1>6. ASSUME NEW x \in Sessions, KernelStep(x) PROVE QueueOk(s)'
  <2>1. Untouched(Owner)
    BY <1>6, <1>e DEF KernelStep, ConnectDone, PeerDown, RecvDone, SendDone, IoDead, Outside,
                      session
  <2>2. CASE RecvDone(x) \/ SendDone(x) \/ IoDead(x)
    <3>1. /\ UNCHANGED up
          /\ \/ Complete(x, "recv", "data", 1) \/ Complete(x, "recv", "dead", 1)
             \/ Complete(x, "send", "sent", 1)
             \/ Complete(x, "send", "fail", 1) /\ ~up[x]
      BY <2>2 DEF RecvDone, SendDone, IoDead
    <3> QED BY <1>d, <2>1, <3>1
  <2>3. CASE ConnectDone(x) \/ PeerDown(x)
    <3>1. UNCHANGED io /\ (up'[s] => up[s] \/ con[s] # "none")
      BY <2>3 DEF ConnectDone, PeerDown
    <3>2. con[s] # "none" => ~Live(s)
      BY <1>b, FreshSlotHasNoRecv DEF Live
    <3> QED BY <1>b, <1>c, <2>1, <3>1, <3>2, QueueKept
  <2> QED BY <1>6, <2>2, <2>3 DEF KernelStep
<1>7. ASSUME TimerFire PROVE QueueOk(s)'
  <2>1. /\ Moves(Owner) /\ UNCHANGED <<released, sends, sending, disc, io, up, pc, at>>
    BY <1>7 DEF TimerFire, Outside, session
  <2> QED BY <1>a, <1>e, <2>1
<1>8. CASE UNCHANGED vars
  <2>1. /\ Moves(Owner) /\ UNCHANGED <<released, sends, sending, disc, io, up, pc, at>>
    BY <1>8 DEF vars, session
  <2> QED BY <1>a, <1>e, <2>1
<1> QED BY <1>1, <1>2, <1>3, <1>4, <1>5, <1>6, <1>7, <1>8 DEF Next

\* SendInv is inductive as long as no call comes too early.
LEMMA SendInvInit == Init => SendInv
<1> SUFFICES ASSUME Init PROVE SendInv
  OBVIOUS
<1>1. SlotInv
  BY RefInvInit, SlotInit DEF SlotInv
<1>2. \A t \in Threads, s \in Sessions, L \in SUBSET Labels :
         "idle" \notin L => ~OnSlot(t, s, L)
  BY DEF Init, OnSlot
<1>3. InitAlone
  BY DEF Init, InitAlone, OnSlot, Initing
<1>4. ASSUME NEW s \in Sessions PROVE QueueOk(s)
  <2>1. /\ sendQ[s] = <<>> /\ sendArr[s] = <<>> /\ sending[s] = FALSE /\ released[s] = TRUE
        /\ Sends(s) = 0
    BY DEF Init, Sends, IoKinds
  <2>2. NumAt(s, SendLabels) = 0
    <3>1. ~Someone(s, SendLabels)
      BY DEF Init, Someone, OnSlot, SendLabels
    <3> QED BY <3>1, NumAtNat
  <2> QED BY <2>1, <2>2 DEF QueueOk, Parties, Live, One
<1> QED BY <1>1, <1>3, <1>4 DEF SendInv

LEMMA SendInvStep == SendInv /\ NoEarlyCall' /\ [Next]_vars => SendInv'
<1>1. SendInv /\ [Next]_vars => SlotInv'
  BY RefInvStep, SlotStep DEF SendInv, SlotInv, RefInv
<1>2. SendInv /\ SlotInv' /\ NoEarlyCall' /\ [Next]_vars => InitAlone'
  BY InitAloneStep DEF SendInv, SlotInv
<1> QED BY <1>1, <1>2, QueueStep DEF SendInv

LEMMA SendInvHolds == Spec /\ []NoEarlyCall => []SendInv
BY SendInvInit, SendInvStep, PTL DEF Spec

\* The flag keeps sends apart.
LEMMA SendInvIsOneSend == SendInv => OneSend
<1> SUFFICES ASSUME SendInv, NEW s \in Sessions
             PROVE  Sends(s) + NumAt(s, SendLabels) <= 1
  BY DEF OneSend, Sends, NumAt, SendLabels
<1>1. TypeOK /\ QueueOk(s)
  BY DEF SendInv, SlotInv, RefInv
<1> QED BY <1>1, PartiesNat DEF QueueOk, One

\* A slot that is free or connecting is not live, and so is clean.
LEMMA SendInvIsCleanSlot == SendInv => CleanSlot
<1> SUFFICES ASSUME SendInv, NEW s \in Sessions, Count(s, stack) + Connecting(s) > 0
             PROVE  sendQ[s] = <<>> /\ Outstanding(s) = 0
  BY DEF CleanSlot
<1>1. RefInv /\ SlotOnce /\ InitAlone /\ QueueOk(s) /\ TypeOK /\ SlotFacts
  BY SlotPlaces DEF SendInv, SlotInv, RefInv
<1>2. PlacesOf(s) = 1
  BY <1>1 DEF SlotFacts
<1>3. /\ Count(s, stack) \in Nat /\ Count(s, reconQ) \in Nat
      /\ NumAt(s, Attempting) \in Nat /\ NumAt(s, Releasing) \in Nat
  BY <1>1 DEF SlotFacts
<1>4. Connecting(s) = One(con[s] # "none") + Count(s, reconQ) + One(s \in posted)
                      + NumAt(s, Attempting)
  BY DEF Connecting, NumAt, Attempting
<1>5. ~Live(s)
  BY <1>2, <1>3, <1>4 DEF PlacesOf, One
<1>6. NumAt(s, Releasing) = 0
  <2>1. Connecting(s) \in Nat /\ Count(s, stack) + Connecting(s) >= 1
    BY <1>3, <1>4 DEF One
  <2>2. Count(s, stack) + Connecting(s) + NumAt(s, Releasing) = 1
    BY <1>2, <1>3, <1>4, <1>5 DEF PlacesOf, One
  <2> QED BY <1>3, <2>1, <2>2
<1>7. ~Owned(s)
  <2>1. ~Someone(s, Releasing)
    BY <1>6, NumAtNat
  <2> QED BY <1>5, <2>1 DEF Owned, Someone, OnSlot, Releasing
<1>8. Outstanding(s) = 0
  <2>1. Outstanding(s) \in Nat
    BY <1>1, OutstandingNat DEF TypeOK, TypeKernel, IoType
  <2> QED BY <1>1, <1>5, <2>1, BusyIsLive
<1> QED BY <1>1, <1>7, <1>8 DEF QueueOk

\* What is queued on a working connection has somebody on the way to it.
LEMMA SendInvIsNoStranded == SendInv => NoStrandedPacket
<1> SUFFICES ASSUME SendInv, NEW s \in Sessions,
                    Live(s), sendQ[s] # <<>>, up[s], ~disc[s]
             PROVE  \/ io[s]["send"] + io[s]["sent"] > 0
                    \/ Someone(s, {"post", "postX", "postN", "postU", "postIo", "snClear"})
                    \/ SendFailed(s)
  BY DEF NoStrandedPacket
<1>1. TypeOK /\ LiveQueue(s) /\ io \in IoType
  BY DEF SendInv, SlotInv, RefInv, QueueOk, TypeOK, TypeKernel, IoType
<1>2. io[s]["fail"] = 0 /\ io[s]["send"] \in Nat /\ io[s]["sent"] \in Nat
  BY <1>1 DEF LiveQueue, IoType, IoKinds
<1>3. Sends(s) = io[s]["send"] + io[s]["sent"]
  BY <1>2 DEF Sends
<1>4. CASE Sends(s) > 0
  BY <1>3, <1>4
<1>5. CASE Someone(s, SendLabels) \/ Someone(s, {"post", "postX"})
  BY <1>5 DEF Someone, OnSlot, SendLabels
<1>6. CASE ~(Sends(s) > 0) /\ ~Someone(s, SendLabels) /\ ~Someone(s, {"post", "postX"})
  <2>1. Sends(s) = 0 /\ NumAt(s, SendLabels) = 0 /\ Parties(s) = 0
    BY <1>1, <1>6, PartiesNat, NumAtNat
  <2>2. sendArr[s] # <<>>
    BY <1>1, <1>6, <2>1 DEF LiveQueue
  <2>3. ~Someone(s, {"postIo"})
    BY <1>6 DEF Someone, OnSlot, SendLabels
  <2> QED BY <1>1, <2>1, <2>2, <2>3 DEF LiveQueue, SendFailed, Sends
<1> QED BY <1>4, <1>5, <1>6

\* As long as no call comes between RELEASE_FLAG and Init: bSendingInProgress_ admits
\* one send at a time (OneSend).
THEOREM SendsAlone == Spec /\ []NoEarlyCall => []OneSend
BY SendInvHolds, SendInvIsOneSend, PTL

\* Under the same condition a slot is handed out clean: without outstanding I/O and with
\* an empty send queue (CleanSlot).
THEOREM SlotsClean == Spec /\ []NoEarlyCall => []CleanSlot
BY SendInvHolds, SendInvIsCleanSlot, PTL

\* Under the same condition no packet stays behind in the send queue of a working
\* connection (NoStrandedPacket).
THEOREM PacketsMove == Spec /\ []NoEarlyCall => []NoStrandedPacket
BY SendInvHolds, SendInvIsNoStranded, PTL
-----------------------------------------------------------------------------
(* Whose a slot is *)

\* A thread that is neither at Init nor at a release leaves open whose a slot is.
LEMMA OwnedKept ==
  ASSUME NEW t \in Threads, Moves(t), NEW x \in Sessions, released'[x] = released[x],
         \A l \in {"cnInit", "relNotify"} : OnSlot(t, x, {l})' <=> OnSlot(t, x, {l})
  PROVE  Owned(x)' <=> Owned(x)
<1>1. \A l \in {"cnInit", "relNotify"} : Someone(x, {l})' <=> Someone(x, {l})
  BY OthersStay DEF OnSlot
<1> QED BY <1>1 DEF Owned, Live

\* ReleaseSession: the slot passes from its connection to who releases it.
LEMMA ReleaseKeepsOwned ==
  ASSUME TypeOK, RefExact, NEW s \in Sessions, NEW t \in Threads, ReleaseSession(t, s),
         NEW x \in Sessions
  PROVE  Owned(x)' <=> Owned(x)
<1>0. /\ pc \in [Threads -> Labels] /\ at \in [Threads -> Sessions]
      /\ nest \in [Threads -> BOOLEAN] /\ released \in [Sessions -> BOOLEAN] /\ io \in IoType
  BY DEF TypeOK, TypeThread, TypeSession, TypeKernel, IoType
<1>1. Moves(t) /\ pc[t] = "rel" /\ at[t] = s /\ at'[t] = s
  BY <1>0 DEF ReleaseSession, Return, At, Goto, Moves
<1>2. CASE x = s /\ MayRelease(s)
  <2>1. pc'[t] = "relNotify" /\ ~released[s] /\ refCnt[s] = 0
    BY <1>0, <1>2 DEF ReleaseSession, MayRelease, Goto
  <2>2. ASSUME NEW u \in Threads, OnSlot(u, s, Initing) PROVE FALSE
    <3>1. Share(u, s) >= 1
      BY <2>2 DEF OnSlot, Initing, Share, One, Holding, Labels
    <3>2. refCnt[s] = Refs(s) + Outstanding(s) /\ Outstanding(s) \in Nat
      BY <1>0, OutstandingNat DEF RefExact, Refs
    <3> QED BY <2>1, <3>1, <3>2, ShareOfRefs
  <2>3. Owned(s)
    BY <2>1, <2>2 DEF Owned, Live, Someone, Initing
  <2>4. Owned(s)'
    BY <1>1, <2>1 DEF Owned, Someone, OnSlot
  <2> QED BY <1>2, <2>3, <2>4
<1>3. CASE ~(x = s /\ MayRelease(s))
  <2>1. released'[x] = released[x]
    BY <1>0, <1>3 DEF ReleaseSession
  <2>2. x # s \/ pc'[t] \notin {"cnInit", "relNotify"}
    BY <1>0, <1>3 DEF ReleaseSession, Return, Goto
  <2>3. \A l \in {"cnInit", "relNotify"} : ~OnSlot(t, x, {l})' /\ ~OnSlot(t, x, {l})
    BY <1>1, <2>2 DEF OnSlot
  <2> QED BY <2>1, <2>3, <1>1, OwnedKept
<1> QED BY <1>2, <1>3

\* It is nobody's after the release ...
LEMMA NotifyEndsOwned ==
  ASSUME TypeOK, SlotOnce, NEW s \in Sessions, NEW t \in Threads, RelNotify(t, s)
  PROVE  Owned(s) /\ ~Owned(s)'
<1>1. /\ Moves(t) /\ UNCHANGED released /\ pc[t] = "relNotify" /\ at[t] = s
      /\ pc'[t] = "relPush" /\ at'[t] = s
  BY DEF RelNotify, At, Goto, Stay, Moves, refs, TypeOK, TypeThread
<1>2. SlotFacts /\ OnSlot(t, s, Releasing)
  BY <1>1, SlotPlaces DEF OnSlot, Releasing
<1>3. ~Live(s) /\ NumAt(s, Releasing) = 1 /\ NumAt(s, Initing) = 0
  <2>1. PlacesOf(s) = 1
    BY <1>2 DEF SlotFacts
  <2>2. /\ Count(s, stack) \in Nat /\ Count(s, reconQ) \in Nat
        /\ NumAt(s, Attempting) \in Nat /\ NumAt(s, Releasing) \in Nat
        /\ NumAt(s, Initing) \in Nat /\ NumAt(s, Initing) <= NumAt(s, Attempting)
    BY <1>2 DEF SlotFacts
  <2>3. NumAt(s, Releasing) >= 1
    BY <1>2, NumAtNat
  <2>4. ~Live(s) /\ NumAt(s, Releasing) = 1
    BY <2>1, <2>2, <2>3 DEF PlacesOf, One
  <2>5. NumAt(s, Attempting) = 0
    BY <2>1, <2>2, <2>3 DEF PlacesOf, One
  <2> QED BY <2>2, <2>4, <2>5
<1>4. released[s]
  BY <1>2, <1>3 DEF SlotFacts
<1>5. Owned(s)
  BY <1>1 DEF Owned, Someone, OnSlot
<1>6. ~Live(s)'
  BY <1>1, <1>4 DEF Live
<1>7. \A u \in Threads \ {t} : ~OnSlot(u, s, Releasing)
  BY <1>2, <1>3, NumAtNat
<1>8. ~Someone(s, {"relNotify"})'
  BY <1>1, <1>7, OthersStay DEF OnSlot, Releasing
<1> QED BY <1>5, <1>6, <1>8 DEF Owned

\* ... until the next connection's Init.
LEMMA ConnectNotOwned ==
  ASSUME TypeOK, SlotOnce, NEW s \in Sessions, NEW t \in Workers, CnClear(t, s) \/ CnInit(t, s)
  PROVE  ~Owned(s) /\ (CnClear(t, s) => ~Owned(s)')
<1>1. /\ t \in Threads /\ Moves(t) /\ at[t] = s /\ at'[t] = s /\ pc[t] \in Attempting
      /\ CnClear(t, s) => pc[t] = "cnClear" /\ pc'[t] = "cnInit"
  BY DEF CnClear, CnInit, At, Goto, Stay, Moves, Threads, Attempting, TypeOK, TypeThread
<1>2. ~Live(s) /\ ~Someone(s, Releasing)
  <2>1. OnSlot(t, s, Attempting)
    BY <1>1 DEF OnSlot
  <2> QED BY <1>1, <2>1, AttemptAlone
<1>3. ~Someone(s, {"relNotify"})
  BY <1>2 DEF Someone, OnSlot, Releasing
<1>4. ASSUME CnClear(t, s) PROVE ~Owned(s)'
  <2>1. ~Someone(s, {"relNotify"})'
    BY <1>1, <1>3, <1>4, OthersStay
  <2>2. ~Live(s)'
    BY <1>1, <1>4 DEF Live, Someone, OnSlot
  <2> QED BY <2>1, <2>2 DEF Owned
<1> QED BY <1>2, <1>3, <1>4 DEF Owned
-----------------------------------------------------------------------------
(* Where the packets are *)

\* Places moved by n along the sequence are as many.
LEMMA MovedPlaces ==
  ASSUME NEW A, NEW B, IsFiniteSet(A), A \subseteq Int, B \subseteq Int, NEW n \in Int,
         \A i \in A : i + n \in B, \A j \in B : j - n \in A
  PROVE  IsFiniteSet(B) /\ Cardinality(B) = Cardinality(A)
<1> DEFINE f == [i \in A |-> i + n]
<1>1. f \in Bijection(A, B)
  <2>1. f \in [A -> B]
    OBVIOUS
  <2>2. \A x, y \in A : f[x] = f[y] => x = y
    OBVIOUS
  <2>3. \A y \in B : f[y - n] = y
    OBVIOUS
  <2> QED BY <2>1, <2>2, <2>3 DEF Bijection, Injection, Surjection, IsInjective
<1>2. ExistsBijection(A, B)
  BY <1>1 DEF ExistsBijection
<1> QED BY <1>2, FS_Bijection

\* Of two sequences one after the other
LEMMA CountConcat ==
  ASSUME NEW S, NEW q \in Seq(S), NEW r \in Seq(S), NEW p
  PROVE  Count(p, q \o r) = Count(p, q) + Count(p, r)
<1> DEFINE n == Len(q)  c == q \o r  L == {i \in 1 .. n : c[i] = p}
           R == {i \in n + 1 .. n + Len(r) : c[i] = p}
<1>1. /\ n \in Nat /\ Len(r) \in Nat /\ c \in Seq(S) /\ Len(c) = n + Len(r)
      /\ \A i \in 1 .. n : c[i] = q[i]
      /\ \A i \in 1 .. Len(r) : c[i + n] = r[i]
  OBVIOUS
<1>2. /\ IsFiniteSet(Places(p, q)) /\ IsFiniteSet(Places(p, r)) /\ IsFiniteSet(Places(p, c))
      /\ Count(p, q) = Cardinality(Places(p, q)) /\ Count(p, r) = Cardinality(Places(p, r))
      /\ Count(p, c) = Cardinality(Places(p, c))
      /\ Count(p, q) \in Nat /\ Count(p, r) \in Nat
  BY <1>1, CountPlaces
<1>3. L = Places(p, q)
  BY <1>1 DEF Places
<1>4. IsFiniteSet(R) /\ Cardinality(R) = Cardinality(Places(p, r))
  <2> DEFINE P == Places(p, r)
  <2>1. P \subseteq Int /\ R \subseteq Int
    BY <1>1 DEF Places
  <2>2. \A i \in P : i + n \in R
    BY <1>1 DEF Places
  <2>3. \A j \in R : j - n \in P
    <3> SUFFICES ASSUME NEW j \in R PROVE j - n \in P
      OBVIOUS
    <3>1. j - n \in 1 .. Len(r) /\ (j - n) + n = j
      BY <1>1
    <3>2. c[(j - n) + n] = r[j - n]
      BY <1>1, <3>1
    <3> QED BY <3>1, <3>2 DEF Places
  <2>4. n \in Int /\ IsFiniteSet(P)
    BY <1>1, <1>2
  <2>5. IsFiniteSet(R) /\ Cardinality(R) = Cardinality(P)
    <3> HIDE DEF R, P, n
    <3> QED BY <2>1, <2>2, <2>3, <2>4, MovedPlaces
  <2> QED BY <2>5
<1>5. Places(p, c) = L \cup R /\ L \cap R = {}
  BY <1>1 DEF Places
<1> HIDE DEF L, R, c
<1>6. Cardinality(L \cup R) = Cardinality(L) + Cardinality(R) - Cardinality({})
  BY <1>2, <1>3, <1>4, <1>5, FS_Union
<1> QED BY <1>2, <1>3, <1>4, <1>5, <1>6, FS_EmptySet DEF c

\* Of a sequence cut in two
LEMMA CountCut ==
  ASSUME NEW S, NEW q \in Seq(S), NEW n \in 0 .. Len(q), NEW p
  PROVE  Count(p, q) = Count(p, SubSeq(q, 1, n)) + Count(p, SubSeq(q, n + 1, Len(q)))
<1> DEFINE a == SubSeq(q, 1, n)  b == SubSeq(q, n + 1, Len(q))
<1>1. a \in Seq(S) /\ b \in Seq(S) /\ q = a \o b
  <2>1. /\ a \in Seq(S) /\ Len(a) = n /\ \A i \in 1 .. n : a[i] = q[i]
    OBVIOUS
  <2>2. /\ b \in Seq(S) /\ Len(b) = Len(q) - n
        /\ \A i \in 1 .. Len(q) - n : b[i] = q[i + n]
    OBVIOUS
  <2> HIDE DEF a, b
  <2>0. n \in Nat /\ Len(q) \in Nat /\ n <= Len(q)
    OBVIOUS
  <2>3. /\ a \o b \in Seq(S) /\ Len(a \o b) = Len(q)
        /\ \A i \in 1 .. Len(q) : (a \o b)[i] = IF i <= n THEN a[i] ELSE b[i - n]
    <3>1. /\ a \o b \in Seq(S) /\ Len(a \o b) = Len(a) + Len(b)
          /\ \A i \in 1 .. Len(a) + Len(b) :
                (a \o b)[i] = IF i <= Len(a) THEN a[i] ELSE b[i - Len(a)]
      BY <2>1, <2>2, ConcatProperties
    <3>2. Len(a) + Len(b) = Len(q)
      BY <2>0, <2>1, <2>2
    <3> QED BY <2>1, <3>1, <3>2
  <2>4. ASSUME NEW i \in 1 .. Len(q), i > n PROVE b[i - n] = q[i]
    <3>1. i - n \in 1 .. Len(q) - n /\ (i - n) + n = i
      BY <2>0, <2>4
    <3>3. b[i - n] = q[(i - n) + n]
      BY <2>2, <3>1
    <3> QED BY <3>1, <3>3
  <2>5. \A i \in 1 .. Len(q) : (a \o b)[i] = q[i]
    BY <2>0, <2>1, <2>3, <2>4
  <2> QED BY <2>1, <2>2, <2>3, <2>5, SeqEqual
<1> HIDE DEF a, b
<1>2. Count(p, a \o b) = Count(p, a) + Count(p, b)
  BY <1>1, CountConcat
<1> QED BY <1>1, <1>2 DEF a, b

\* The spots outside slot s
SpotsApart(p, q, s) ==
    UNION {{<<x, i>> : i \in {j \in DOMAIN q[x] : q[x][j] = p}} : x \in Sessions \ {s}}

\* A slot's share of the spots is what its own sequence holds.
LEMMA SpotsSplit ==
  ASSUME NEW q \in [Sessions -> Seq(Packets)], NEW s \in Sessions, NEW p
  PROVE  /\ Cardinality(SpotsApart(p, q, s)) \in Nat /\ Count(p, q[s]) \in Nat
         /\ Cardinality(Spots(p, q)) = Cardinality(SpotsApart(p, q, s)) + Count(p, q[s])
<1> DEFINE Of(x) == {<<x, i>> : i \in Places(p, q[x])}
           Rest == {Of(x) : x \in Sessions \ {s}}
<1>1. ASSUME NEW x \in Sessions
      PROVE  IsFiniteSet(Of(x)) /\ Cardinality(Of(x)) = Count(p, q[x]) /\ Count(p, q[x]) \in Nat
  <2> DEFINE P == Places(p, q[x])  f == [i \in P |-> <<x, i>>]
  <2>1. IsFiniteSet(P) /\ Count(p, q[x]) = Cardinality(P) /\ Count(p, q[x]) \in Nat
    BY CountPlaces
  <2>2. f \in Bijection(P, Of(x))
    <3>1. f \in [P -> Of(x)] /\ (\A i, j \in P : f[i] = f[j] => i = j)
      OBVIOUS
    <3>2. \A z \in Of(x) : \E i \in P : f[i] = z
      OBVIOUS
    <3> QED BY <3>1, <3>2 DEF Bijection, Injection, Surjection, IsInjective
  <2>3. ExistsBijection(P, Of(x))
    BY <2>2 DEF ExistsBijection
  <2> QED BY <2>1, <2>3, FS_Bijection
<1>2. IsFiniteSet(Sessions)
  BY SessionAssumption, FS_Interval DEF Sessions
<1>3. IsFiniteSet(Rest)
  <2> DEFINE g == [x \in Sessions \ {s} |-> Of(x)]
  <2>1. g \in Surjection(Sessions \ {s}, Rest)
    <3>1. g \in [Sessions \ {s} -> Rest]
      OBVIOUS
    <3>2. \A x \in Sessions \ {s} : g[x] = Of(x)
      OBVIOUS
    <3>3. \A z \in Rest : \E x \in Sessions \ {s} : z = Of(x)
      OBVIOUS
    <3> HIDE DEF g, Of, Rest
    <3> QED BY <3>1, <3>2, <3>3 DEF Surjection
  <2>2. IsFiniteSet(Sessions \ {s})
    BY <1>2, FS_Subset
  <2> QED BY <2>1, <2>2, FS_Surjection
<1>4. SpotsApart(p, q, s) = UNION Rest /\ Spots(p, q) = (UNION Rest) \cup Of(s)
  <2>1. \A x \in Sessions : {j \in DOMAIN q[x] : q[x][j] = p} = Places(p, q[x])
    BY DEF Places
  <2> QED BY <2>1 DEF SpotsApart, Spots
<1>5. IsFiniteSet(UNION Rest)
  BY <1>1, <1>3, FS_UNION
<1>6. (UNION Rest) \cap Of(s) = {}
  OBVIOUS
<1> HIDE DEF Of, Rest
<1>7. Cardinality((UNION Rest) \cup Of(s)) = Cardinality(UNION Rest) + Cardinality(Of(s)) - Cardinality({})
  BY <1>1, <1>5, <1>6, FS_Union
<1> QED BY <1>1, <1>4, <1>5, <1>7, FS_EmptySet, FS_CardinalityType

\* Where one slot's sequence changes, so do the spots.
LEMMA SpotsMove ==
  ASSUME NEW q \in [Sessions -> Seq(Packets)], NEW r \in [Sessions -> Seq(Packets)],
         NEW s \in Sessions, NEW p, \A x \in Sessions \ {s} : r[x] = q[x]
  PROVE  /\ Cardinality(Spots(p, q)) \in Nat /\ Cardinality(Spots(p, r)) \in Nat
         /\ Cardinality(Spots(p, r)) = Cardinality(Spots(p, q)) + Count(p, r[s]) - Count(p, q[s])
<1>1. SpotsApart(p, r, s) = SpotsApart(p, q, s)
  BY DEF SpotsApart
<1>2. /\ Cardinality(SpotsApart(p, q, s)) \in Nat /\ Count(p, q[s]) \in Nat
      /\ Cardinality(Spots(p, q)) = Cardinality(SpotsApart(p, q, s)) + Count(p, q[s])
  BY SpotsSplit
<1>3. /\ Count(p, r[s]) \in Nat
      /\ Cardinality(Spots(p, r)) = Cardinality(SpotsApart(p, r, s)) + Count(p, r[s])
  BY SpotsSplit
<1> QED BY <1>1, <1>2, <1>3

\* Arrays holds sequences of packets.
TypeArrays == Arrays \in [Sessions -> Seq(Packets)]
LEMMA ArraysTyped == TypeOK => TypeArrays
BY DEF TypeOK, TypePackets, Arrays, TypeArrays

\* A step at slot s moves each reference count by what it moves between Owner's
\* SmartPacket, the queue and the array.
Carried(s) ==
    /\ \A x \in Sessions \ {s} : sendQ'[x] = sendQ[x] /\ Arrays'[x] = Arrays[x]
    /\ \A p \in Packets :
          pkRef'[p] = pkRef[p] + One(sp' = p) - One(sp = p)
                      + Count(p, sendQ'[s]) - Count(p, sendQ[s])
                      + Count(p, Arrays'[s]) - Count(p, Arrays[s])

\* It keeps the counts right.
LEMMA PacketBalance ==
  ASSUME TypeOK, TypeOK', PacketExact, NEW s \in Sessions, Carried(s)
  PROVE  PacketExact'
<1> SUFFICES ASSUME NEW p \in Packets
             PROVE  pkRef'[p] = One(sp' = p) + Cardinality(Spots(p, sendQ'))
                                + Cardinality(Spots(p, Arrays'))
  BY DEF PacketExact
<1>1. Arrays \in [Sessions -> Seq(Packets)] /\ Arrays' \in [Sessions -> Seq(Packets)]
  <2>1. TypeArrays /\ TypeArrays'
    BY ArraysTyped, PTL
  <2> QED BY <2>1 DEF TypeArrays
<1>2. sendQ \in [Sessions -> Seq(Packets)] /\ sendQ' \in [Sessions -> Seq(Packets)]
  BY DEF TypeOK, TypePackets
<1>0. \A x \in Sessions \ {s} : sendQ'[x] = sendQ[x] /\ Arrays'[x] = Arrays[x]
  BY DEF Carried
<1>m. ASSUME NEW a \in [Sessions -> Seq(Packets)], NEW b \in [Sessions -> Seq(Packets)],
             \A x \in Sessions \ {s} : b[x] = a[x]
      PROVE  /\ Cardinality(Spots(p, a)) \in Nat /\ Cardinality(Spots(p, b)) \in Nat
             /\ Cardinality(Spots(p, b)) = Cardinality(Spots(p, a)) + Count(p, b[s]) - Count(p, a[s])
  BY <1>m, SpotsMove
<1>3. /\ Cardinality(Spots(p, sendQ)) \in Nat /\ Cardinality(Spots(p, sendQ')) \in Nat
      /\ Cardinality(Spots(p, sendQ')) = Cardinality(Spots(p, sendQ)) + Count(p, sendQ'[s])
                                                                      - Count(p, sendQ[s])
  BY <1>0, <1>2, <1>m
<1>4. /\ Cardinality(Spots(p, Arrays)) \in Nat /\ Cardinality(Spots(p, Arrays')) \in Nat
      /\ Cardinality(Spots(p, Arrays')) = Cardinality(Spots(p, Arrays)) + Count(p, Arrays'[s])
                                                                        - Count(p, Arrays[s])
  BY <1>0, <1>1, <1>m
<1>5. /\ Count(p, sendQ[s]) \in Nat /\ Count(p, sendQ'[s]) \in Nat
      /\ Count(p, Arrays[s]) \in Nat /\ Count(p, Arrays'[s]) \in Nat
  <2>1. /\ sendQ[s] \in Seq(Packets) /\ sendQ'[s] \in Seq(Packets)
        /\ Arrays[s] \in Seq(Packets) /\ Arrays'[s] \in Seq(Packets)
    BY <1>1, <1>2
  <2> QED BY <2>1, CountPlaces
<1>6. pkRef[p] = One(sp = p) + Cardinality(Spots(p, sendQ)) + Cardinality(Spots(p, Arrays))
  BY DEF PacketExact
<1>7. pkRef'[p] = pkRef[p] + One(sp' = p) - One(sp = p)
                  + Count(p, sendQ'[s]) - Count(p, sendQ[s])
                  + Count(p, Arrays'[s]) - Count(p, Arrays[s])
  BY DEF Carried
<1>8. One(sp' = p) \in Nat /\ One(sp = p) \in Nat
  BY DEF One
<1> QED BY <1>3, <1>4, <1>5, <1>6, <1>7, <1>8

\* Who is neither at Init nor at the release of a slot leaves open whose it is.
LEMMA ArraysKept ==
  ASSUME NEW t \in Threads, Moves(t), NEW x \in Sessions, released'[x] = released[x],
         sendArr'[x] = sendArr[x],
         \A l \in {"cnInit", "relNotify"} : OnSlot(t, x, {l})' <=> OnSlot(t, x, {l})
  PROVE  Arrays'[x] = Arrays[x]
<1>1. \A l \in {"cnInit", "relNotify"} : Someone(x, {l})' <=> Someone(x, {l})
  BY OthersStay DEF OnSlot
<1>2. Owned(x)' <=> Owned(x)
  BY <1>1 DEF Owned, Live
<1> QED BY <1>2 DEF Arrays

\* Only what was made is anywhere, and between its calls Owner holds no packet.
MadeOnly ==
    /\ sendQ \in [Sessions -> Seq(1 .. made)] /\ sendArr \in [Sessions -> Seq(1 .. made)]
    /\ sp \in 0 .. made
    /\ pc[Owner] = "idle" => sp = 0

LEMMA MadeStep == RefInv /\ MadeOnly /\ [Next]_vars => MadeOnly'
<1> SUFFICES ASSUME RefInv, MadeOnly, [Next]_vars PROVE MadeOnly'
  OBVIOUS
<1>0. /\ Owner \in Threads /\ Workers \subseteq Threads /\ Owner \notin Workers
      /\ pc \in [Threads -> Labels] /\ nest \in [Threads -> BOOLEAN] /\ ~nest[Owner]
      /\ made \in Nat /\ \A t \in Threads : pc[t] = "spEnq" => t = Owner /\ sp \in Packets
  BY ThreadAssumption, BoundAssumption
  DEF RefInv, TypeOK, TypeThread, TypePackets, Threads, NestedInDisconnect, SendingPacket
<1>a. ASSUME UNCHANGED <<sends, sp, made>>, pc'[Owner] = "idle" => pc[Owner] = "idle" \/ sp = 0
      PROVE  MadeOnly'
  BY <1>a DEF MadeOnly, sends
<1>b. \A n \in Nat : Seq(1 .. n) \subseteq Seq(1 .. n + 1)
  <2> SUFFICES ASSUME NEW n \in Nat, NEW q \in Seq(1 .. n) PROVE q \in Seq(1 .. n + 1)
    OBVIOUS
  <2>1. \A i \in 1 .. Len(q) : q[i] \in 1 .. n + 1
    OBVIOUS
  <2> QED BY <2>1
<1> USE <1>0 DEF thread, packets, Goto, At
<1>1. ASSUME OwnerStep PROVE MadeOnly'
  <2>1. CASE TakeJob \/ Connect \/ Disconnect
    BY <2>1, <1>a DEF TakeJob, Connect, Disconnect, Enter, Ready
  <2>2. CASE SendPacket
    <3>1. UNCHANGED sends /\ made' = made + 1 /\ sp' = made + 1 /\ pc'[Owner] # "idle"
      BY <2>2 DEF SendPacket, Enter
    <3> QED BY <1>b, <3>1 DEF MadeOnly, sends
  <2>3. CASE FreeSmart
    <3>1. UNCHANGED <<sends, made>> /\ sp' = 0
      BY <2>3 DEF FreeSmart
    <3> QED BY <3>1 DEF MadeOnly, sends
  <2> QED BY <1>1, <2>1, <2>2, <2>3 DEF OwnerStep
<1>2. ASSUME NEW t \in Threads, NEW s \in Sessions, CallStep(t, s) PROVE MadeOnly'
  <2>1. CASE SpCheck(t, s) \/ SendPost(t, s) \/ PostX(t, s) \/ PostU(t, s) \/ PostIo(t, s)
             \/ PostDisc(t, s)
    BY <2>1, <1>a DEF SpCheck, SendPost, PostX, PostU, PostIo, PostDisc, IoRefused
  <2>2. CASE DcCheck(t, s) \/ DcX(t, s) \/ DcCancelSend(t, s) \/ DcCancelRecv(t, s)
    BY <2>2, <1>a DEF DcCheck, DcX, DcCancelSend, DcCancelRecv
  <2>3. CASE Decrement(t, s) \/ ReleaseSession(t, s) \/ RelPush(t, s)
    BY <2>3, <1>a DEF Decrement, ReleaseSession, RelPush, Return
  <2>4. CASE SpEnq(t, s)
    <3>1. /\ UNCHANGED <<sendArr, sp, made>> /\ sendQ' = [sendQ EXCEPT ![s] = Append(@, sp)]
          /\ pc'[Owner] # "idle" /\ sp \in Packets
      BY <2>4 DEF SpEnq
    <3>2. sp \in 1 .. made
      BY <3>1 DEF MadeOnly, Packets
    <3> QED BY <3>1, <3>2 DEF MadeOnly
  <2>5. CASE PostN(t, s)
    <3> DEFINE n == IF Len(sendQ[s]) < Batch THEN Len(sendQ[s]) ELSE Batch
    <3>1. n \in 0 .. Len(sendQ[s]) /\ sendQ[s] \in Seq(1 .. made)
      BY BatchAssumption DEF MadeOnly
    <3>2. SubSeq(sendQ[s], 1, n) \in Seq(1 .. made)
          /\ SubSeq(sendQ[s], n + 1, Len(sendQ[s])) \in Seq(1 .. made)
      BY <3>1
    <3> HIDE DEF n
    <3>3. UNCHANGED <<sp, made>> /\ pc'[Owner] = "idle" => pc[Owner] = "idle"
      BY <2>5 DEF PostN
    <3> QED BY <2>5, <3>2, <3>3 DEF PostN, n, MadeOnly, sends
  <2>6. CASE RelNotify(t, s)
    <3>1. UNCHANGED <<sendArr, sp, made>> /\ sendQ' = [sendQ EXCEPT ![s] = <<>>]
          /\ (pc'[Owner] = "idle" => pc[Owner] = "idle")
      BY <2>6 DEF RelNotify, Drain
    <3> QED BY <3>1 DEF MadeOnly
  <2> QED BY <1>2, <2>1, <2>2, <2>3, <2>4, <2>5, <2>6 DEF CallStep
<1>3. ASSUME NEW w \in Workers, NEW s \in Sessions, HandleStep(w, s) PROVE MadeOnly'
  <2>1. CASE CnClear(w, s) \/ SnClear(w, s) \/ RecvMessage(w, s) \/ RecvBad(w, s)
             \/ RecvEnd(w, s) \/ RecvPost(w, s) \/ RpDisc(w, s)
    BY <2>1, <1>a DEF CnClear, SnClear, RecvMessage, RecvBad, RecvEnd, RecvPost, RpDisc, Enter,
                      IoRefused
  <2>2. CASE CnInit(w, s)
    BY <2>2 DEF CnInit, MadeOnly
  <2> QED BY <1>3, <2>1, <2>2 DEF HandleStep
<1>4. ASSUME NEW w \in Workers, NEW s \in Sessions, GetStep(w, s) PROVE MadeOnly'
  <2>1. CASE GetConnect(w, s) \/ GetConnectFail(w, s) \/ GetReconnect(w, s) \/ GetDead(w, s)
             \/ GetRecv(w, s)
    BY <2>1, <1>a DEF GetConnect, GetConnectFail, GetReconnect, GetDead, GetRecv, Requeue, GiveUp
  <2>2. CASE GetSent(w, s)
    BY <2>2 DEF GetSent, MadeOnly
  <2> QED BY <1>4, <2>1, <2>2 DEF GetStep
<1>5. ASSUME NEW w \in Workers, CfTimer(w) \/ CfNotify(w) PROVE MadeOnly'
  BY <1>5, <1>a DEF CfTimer, CfNotify
<1>6. ASSUME NEW s \in Sessions, KernelStep(s) PROVE MadeOnly'
  BY <1>6, <1>a DEF KernelStep, ConnectDone, PeerDown, RecvDone, SendDone, IoDead, Outside
<1>7. ASSUME TimerFire PROVE MadeOnly'
  BY <1>7, <1>a DEF TimerFire, Outside
<1>8. CASE UNCHANGED vars
  BY <1>8, <1>a DEF vars
<1> QED BY <1>1, <1>2, <1>3, <1>4, <1>5, <1>6, <1>7, <1>8 DEF Next

\* So does a step that leaves queues and arrays alone.
LEMMA PacketsStay ==
  ASSUME TypeOK, PacketExact, UNCHANGED sendQ, \A x \in Sessions : Arrays'[x] = Arrays[x],
         \A p \in Packets : pkRef'[p] = pkRef[p] + One(sp' = p) - One(sp = p)
  PROVE  PacketExact'
<1>1. Arrays' = Arrays
  BY DEF Arrays
<1>2. /\ TypeArrays /\ 0 \in Sessions /\ sendQ \in [Sessions -> Seq(Packets)]
      /\ pkRef \in [Packets -> Int]
  BY ArraysTyped, SessionAssumption DEF TypeOK, TypePackets, Sessions
<1>3. \A p : Cardinality(Spots(p, sendQ)) \in Nat /\ Cardinality(Spots(p, Arrays)) \in Nat
  <2>1. Arrays \in [Sessions -> Seq(Packets)]
    BY <1>2 DEF TypeArrays
  <2>2. ASSUME NEW p, NEW q \in [Sessions -> Seq(Packets)] PROVE Cardinality(Spots(p, q)) \in Nat
    <3>1. /\ Cardinality(SpotsApart(p, q, 0)) \in Nat /\ Count(p, q[0]) \in Nat
          /\ Cardinality(Spots(p, q)) = Cardinality(SpotsApart(p, q, 0)) + Count(p, q[0])
      BY <1>2, SpotsSplit
    <3> QED BY <3>1
  <2> QED BY <1>2, <2>1, <2>2
<1> SUFFICES ASSUME NEW p \in Packets
             PROVE  pkRef'[p] = One(sp' = p) + Cardinality(Spots(p, sendQ))
                                + Cardinality(Spots(p, Arrays))
  BY <1>1 DEF PacketExact
<1>4. pkRef[p] = One(sp = p) + Cardinality(Spots(p, sendQ)) + Cardinality(Spots(p, Arrays))
  BY DEF PacketExact
<1>5. pkRef'[p] = pkRef[p] + One(sp' = p) - One(sp = p)
  OBVIOUS
<1>6. One(sp' = p) \in Nat /\ One(sp = p) \in Nat
  BY DEF One
<1> QED BY <1>3, <1>4, <1>5, <1>6

\* The members of a sequence
LEMMA MembersOf == \A S : \A q \in Seq(S) : \A i \in DOMAIN q : q[i] \in S
<1> SUFFICES ASSUME NEW S, NEW q \in Seq(S), NEW i \in DOMAIN q PROVE q[i] \in S
  OBVIOUS
<1>1. q \in [1 .. Len(q) -> S]
  OBVIOUS
<1>2. DOMAIN q = 1 .. Len(q)
  BY <1>1
<1> QED BY <1>1, <1>2

\* A packet that is still to be made is nowhere.
LEMMA NotYetMade ==
  ASSUME TypeOK, MadeOnly, PacketExact, NEW p \in Packets, p > made
  PROVE  pkRef[p] = 0
<1>1. made \in Nat /\ p \in Int /\ \A i \in 1 .. made : i # p
  BY BoundAssumption DEF TypeOK, TypePackets, Packets
<1>2. \A s \in Sessions : \A i \in DOMAIN sendQ[s] : sendQ[s][i] \in 1 .. made
  <2> SUFFICES ASSUME NEW s \in Sessions PROVE \A i \in DOMAIN sendQ[s] : sendQ[s][i] \in 1 .. made
    OBVIOUS
  <2>1. sendQ[s] \in Seq(1 .. made)
    BY DEF MadeOnly
  <2> QED BY <2>1, MembersOf
<1>3. \A s \in Sessions : \A i \in DOMAIN sendArr[s] : sendArr[s][i] \in 1 .. made
  <2> SUFFICES ASSUME NEW s \in Sessions PROVE \A i \in DOMAIN sendArr[s] : sendArr[s][i] \in 1 .. made
    OBVIOUS
  <2>1. sendArr[s] \in Seq(1 .. made)
    BY DEF MadeOnly
  <2> QED BY <2>1, MembersOf
<1>4. Spots(p, sendQ) = {}
  <2>1. \A s \in Sessions : {j \in DOMAIN sendQ[s] : sendQ[s][j] = p} = {}
    BY <1>1, <1>2
  <2> QED BY <2>1 DEF Spots
<1>5. Spots(p, Arrays) = {}
  <2>1. \A s \in Sessions : Arrays[s] = sendArr[s] \/ Arrays[s] = <<>>
    BY DEF Arrays
  <2>2. \A s \in Sessions : {j \in DOMAIN Arrays[s] : Arrays[s][j] = p} = {}
    BY <1>1, <1>3, <2>1
  <2> QED BY <2>2 DEF Spots
<1>6. sp # p
  BY <1>1 DEF MadeOnly
<1>7. pkRef[p] = One(sp = p) + Cardinality(Spots(p, sendQ)) + Cardinality(Spots(p, Arrays))
  BY DEF PacketExact
<1> QED BY <1>4, <1>5, <1>6, <1>7, FS_EmptySet DEF One

\* Occurrences in a sequence are what Count counts.
LEMMA OccursCount == \A p, q : Occurs(p, q) = Count(p, q)
BY DEF Occurs, Count

\* In an empty and in a one-element sequence
LEMMA CountSmall ==
  ASSUME NEW p, NEW x
  PROVE  Count(p, <<>>) = 0 /\ Count(p, <<x>>) = One(x = p)
<1>1. {i \in DOMAIN <<>> : <<>>[i] = p} = {}
  OBVIOUS
<1>2. {i \in DOMAIN <<x>> : <<x>>[i] = p} = IF x = p THEN {1} ELSE {}
  OBVIOUS
<1> QED BY <1>1, <1>2, FS_EmptySet, FS_Singleton DEF Count, One

\* A step of a thread on slot s alone
LEMMA CarriedHere ==
  ASSUME TypeOK, TypeOK', PacketExact, NEW s \in Sessions, NEW t \in Threads, Moves(t),
         \A x \in Sessions \ {s} : /\ released'[x] = released[x] /\ sendArr'[x] = sendArr[x]
                                   /\ sendQ'[x] = sendQ[x],
         at[t] = s \/ pc[t] \notin {"cnInit", "relNotify"},
         at'[t] = s \/ pc'[t] \notin {"cnInit", "relNotify"},
         \A p \in Packets :
            pkRef'[p] = pkRef[p] + One(sp' = p) - One(sp = p)
                        + Count(p, sendQ'[s]) - Count(p, sendQ[s])
                        + Count(p, Arrays'[s]) - Count(p, Arrays[s])
  PROVE  PacketExact'
<1>1. ASSUME NEW x \in Sessions \ {s} PROVE sendQ'[x] = sendQ[x] /\ Arrays'[x] = Arrays[x]
  <2>1. \A l \in {"cnInit", "relNotify"} : ~OnSlot(t, x, {l})' /\ ~OnSlot(t, x, {l})
    BY DEF OnSlot
  <2>2. x \in Sessions /\ released'[x] = released[x] /\ sendArr'[x] = sendArr[x]
    OBVIOUS
  <2>3. Arrays'[x] = Arrays[x]
    BY <2>1, <2>2, ArraysKept
  <2> QED BY <2>3
<1>2. Carried(s)
  BY <1>1 DEF Carried
<1> QED BY <1>2, PacketBalance

\* The inductive invariant of the packets
PacketInv == SendInv /\ MadeOnly /\ PacketExact

\* The types the next lemmas use
PacketTypes ==
    /\ TypeOK /\ RefInv
    /\ pc \in [Threads -> Labels] /\ at \in [Threads -> Sessions] /\ nest \in [Threads -> BOOLEAN]
    /\ released \in [Sessions -> BOOLEAN] /\ pkRef \in [Packets -> Int]
    /\ sendQ \in [Sessions -> Seq(Packets)] /\ sendArr \in [Sessions -> Seq(Packets)]
    /\ io \in IoType

LEMMA PacketTyped == SendInv => PacketTypes
BY DEF SendInv, SlotInv, RefInv, TypeOK, TypeThread, TypePackets, TypeSession, TypeKernel, IoType,
       PacketTypes

\* SendPacket: the new packet's one reference is the caller's SmartPacket.
LEMMA PacketOfSendPacket ==
  ASSUME PacketInv, SendInv', SendPacket
  PROVE  PacketExact'
<1>0. PacketTypes /\ TypeOK' /\ PacketExact /\ made \in Nat /\ Owner \in Threads
  BY PacketTyped, ThreadAssumption
  DEF PacketInv, PacketTypes, TypeOK, TypePackets, Threads, SendInv, SlotInv, RefInv
<1>1. /\ Moves(Owner) /\ UNCHANGED <<sendQ, sendArr, released>> /\ pc[Owner] = "idle"
      /\ pc'[Owner] \in {"dec", "spCheck"} /\ sp' = made + 1 /\ made + 1 \in Packets
      /\ pkRef' = [pkRef EXCEPT ![made + 1] = 1]
  BY <1>0, BoundAssumption
  DEF SendPacket, Ready, At, Enter, Goto, Moves, sends, PacketTypes, Packets
<1>2. sp = 0 /\ 0 \notin Packets
  BY <1>1 DEF PacketInv, MadeOnly, Packets
<1>3. pkRef[made + 1] = 0
  BY <1>0, <1>1, NotYetMade DEF PacketInv, PacketTypes
<1>4. \A x \in Sessions : Arrays'[x] = Arrays[x]
  <2> SUFFICES ASSUME NEW x \in Sessions PROVE Arrays'[x] = Arrays[x]
    OBVIOUS
  <2>1. \A l \in {"cnInit", "relNotify"} : ~OnSlot(Owner, x, {l})' /\ ~OnSlot(Owner, x, {l})
    BY <1>1 DEF OnSlot
  <2> QED BY <1>0, <1>1, <2>1, ArraysKept
<1>5. \A p \in Packets : pkRef'[p] = pkRef[p] + One(sp' = p) - One(sp = p)
  BY <1>0, <1>1, <1>2, <1>3 DEF One, PacketTypes
<1> QED BY <1>0, <1>1, <1>4, <1>5, PacketsStay DEF PacketTypes

\* ~SmartPacket
LEMMA PacketOfSmart ==
  ASSUME PacketInv, FreeSmart
  PROVE  PacketExact'
<1>0. PacketTypes /\ PacketExact /\ Owner \in Threads
  BY PacketTyped, ThreadAssumption DEF PacketInv, Threads
<1>1. /\ Moves(Owner) /\ UNCHANGED <<sendQ, sendArr, released>> /\ pc[Owner] = "spFree"
      /\ pc'[Owner] = "idle" /\ sp' = 0 /\ 0 \notin Packets
      /\ \A p \in Packets : pkRef'[p] = pkRef[p] - Occurs(p, <<sp>>)
  BY <1>0 DEF FreeSmart, At, Goto, Stay, Moves, sends, refs, PacketTypes, Packets, Unref
<1>4. \A x \in Sessions : Arrays'[x] = Arrays[x]
  <2> SUFFICES ASSUME NEW x \in Sessions PROVE Arrays'[x] = Arrays[x]
    OBVIOUS
  <2>1. \A l \in {"cnInit", "relNotify"} : ~OnSlot(Owner, x, {l})' /\ ~OnSlot(Owner, x, {l})
    BY <1>1 DEF OnSlot
  <2> QED BY <1>0, <1>1, <2>1, ArraysKept
<1>5. \A p \in Packets : pkRef'[p] = pkRef[p] + One(sp' = p) - One(sp = p)
  <2> SUFFICES ASSUME NEW p \in Packets PROVE pkRef'[p] = pkRef[p] + One(sp' = p) - One(sp = p)
    OBVIOUS
  <2>1. Occurs(p, <<sp>>) = One(sp = p)
    BY OccursCount, CountSmall
  <2>2. pkRef'[p] = pkRef[p] - Occurs(p, <<sp>>) /\ pkRef[p] \in Int
    BY <1>0, <1>1 DEF PacketTypes
  <2> QED BY <1>1, <2>1, <2>2 DEF One
<1> QED BY <1>0, <1>1, <1>4, <1>5, PacketsStay DEF PacketTypes

\* SpEnq: the queue's reference
LEMMA PacketOfEnqueue ==
  ASSUME PacketInv, SendInv', NEW s \in Sessions, NEW t \in Threads, SpEnq(t, s)
  PROVE  PacketExact'
<1>0. PacketTypes /\ TypeOK' /\ PacketExact
  BY PacketTyped DEF PacketInv, SendInv, SlotInv, RefInv
<1>1. sp \in Packets
  BY <1>0 DEF SpEnq, At, PacketTypes, RefInv, SendingPacket
<1>2. /\ Moves(t) /\ UNCHANGED <<sendArr, released, sp>> /\ pc[t] = "spEnq" /\ pc'[t] = "post"
      /\ sendQ' = [sendQ EXCEPT ![s] = Append(@, sp)]
      /\ pkRef' = [pkRef EXCEPT ![sp] = @ + 1]
  BY <1>0 DEF SpEnq, At, Goto, Stay, Moves, refs, PacketTypes
<1>3. Arrays'[s] = Arrays[s]
  <2>1. \A l \in {"cnInit", "relNotify"} : ~OnSlot(t, s, {l})' /\ ~OnSlot(t, s, {l})
    BY <1>2 DEF OnSlot
  <2> QED BY <1>2, <2>1, ArraysKept
<1>4. ASSUME NEW p \in Packets
      PROVE  pkRef'[p] = pkRef[p] + One(sp' = p) - One(sp = p)
                         + Count(p, sendQ'[s]) - Count(p, sendQ[s])
                         + Count(p, Arrays'[s]) - Count(p, Arrays[s])
  <2>1. sendQ'[s] = Append(sendQ[s], sp) /\ sendQ[s] \in Seq(Packets)
    BY <1>0, <1>2 DEF PacketTypes
  <2>2. Count(p, sendQ'[s]) = Count(p, sendQ[s]) + One(sp = p) /\ Count(p, sendQ[s]) \in Nat
    BY <1>1, <2>1, CountAppend, CountPlaces
  <2>3. pkRef'[p] = pkRef[p] + One(sp = p) /\ pkRef[p] \in Int
    BY <1>0, <1>1, <1>2 DEF One, PacketTypes
  <2>4. Count(p, Arrays[s]) \in Nat
    <3>1. TypeArrays
      BY <1>0, ArraysTyped DEF PacketTypes
    <3>2. Arrays[s] \in Seq(Packets)
      BY <3>1 DEF TypeArrays
    <3> QED BY <3>2, CountPlaces
  <2>5. One(sp' = p) = One(sp = p) /\ One(sp = p) \in Nat
    BY <1>2 DEF One
  <2> QED BY <1>3, <2>2, <2>3, <2>4, <2>5
<1>5. \A x \in Sessions \ {s} : /\ released'[x] = released[x] /\ sendArr'[x] = sendArr[x]
                                /\ sendQ'[x] = sendQ[x]
  BY <1>0, <1>2 DEF PacketTypes
<1> QED BY <1>0, <1>2, <1>4, <1>5, CarriedHere DEF PacketTypes

\* PostN: from the queue into the array, which is empty
LEMMA PacketOfPost ==
  ASSUME PacketInv, SendInv', NEW s \in Sessions, NEW t \in Threads, PostN(t, s)
  PROVE  PacketExact'
<1>0. PacketTypes /\ TypeOK' /\ PacketExact /\ SlotInv /\ InitAlone /\ QueueOk(s)
  BY PacketTyped DEF PacketInv, SendInv, SlotInv, RefInv
<1> DEFINE n == IF Len(sendQ[s]) < Batch THEN Len(sendQ[s]) ELSE Batch
<1>1. /\ Moves(t) /\ UNCHANGED <<released, sp, pkRef>> /\ pc[t] = "postN" /\ at[t] = s
      /\ pc'[t] \in {"postU", "postIo"} /\ at'[t] = s
  BY <1>0 DEF PostN, At, Goto, Stay, Moves, refs, packets, PacketTypes
<1>2. Live(s) /\ Live(s)' /\ LiveQueue(s)
  <2>1. Using(t) /\ pc[t] # "cnInit" /\ pc'[t] # "cnInit" /\ released'[s] = released[s]
    BY <1>1 DEF Using, Working, Holding, Labels
  <2> QED BY <1>0, <1>1, <2>1, LiveHere
<1>3. sendArr[s] = <<>>
  BY <1>1, <1>2, QueueBefore
<1>4. Arrays[s] = <<>> /\ Arrays'[s] = sendArr'[s]
  BY <1>2, <1>3 DEF Arrays, Owned
<1>5. sendQ[s] \in Seq(Packets) /\ n \in 0 .. Len(sendQ[s])
  BY <1>0, BatchAssumption DEF PacketTypes
<1>6. /\ \A x \in Sessions \ {s} : sendArr'[x] = sendArr[x] /\ sendQ'[x] = sendQ[x]
      /\ \/ sendArr'[s] = sendArr[s] /\ sendQ'[s] = sendQ[s]
         \/ /\ sendArr'[s] = SubSeq(sendQ[s], 1, n)
            /\ sendQ'[s] = SubSeq(sendQ[s], n + 1, Len(sendQ[s]))
  <2>1. \/ UNCHANGED sends
        \/ /\ sendArr' = [sendArr EXCEPT ![s] = SubSeq(sendQ[s], 1, n)]
           /\ sendQ' = [sendQ EXCEPT ![s] = SubSeq(@, n + 1, Len(@))]
    BY DEF PostN
  <2> HIDE DEF n
  <2> QED BY <1>0, <2>1 DEF sends, PacketTypes
<1> HIDE DEF n
<1>7. ASSUME NEW p \in Packets
      PROVE  pkRef'[p] = pkRef[p] + One(sp' = p) - One(sp = p)
                         + Count(p, sendQ'[s]) - Count(p, sendQ[s])
                         + Count(p, Arrays'[s]) - Count(p, Arrays[s])
  <2>1. /\ Count(p, <<>>) = 0 /\ Count(p, sendQ[s]) \in Nat /\ pkRef[p] \in Int
        /\ pkRef'[p] = pkRef[p] /\ sp' = sp /\ One(sp = p) \in Nat
    BY <1>0, <1>1, <1>5, CountSmall, CountPlaces DEF PacketTypes, One
  <2>2. CASE sendArr'[s] = sendArr[s] /\ sendQ'[s] = sendQ[s]
    BY <1>3, <1>4, <2>1, <2>2
  <2>3. CASE /\ sendArr'[s] = SubSeq(sendQ[s], 1, n)
             /\ sendQ'[s] = SubSeq(sendQ[s], n + 1, Len(sendQ[s]))
    <3>1. Count(p, sendQ[s]) = Count(p, sendArr'[s]) + Count(p, sendQ'[s])
      BY <1>5, <2>3, CountCut
    <3>2. Count(p, sendArr'[s]) \in Nat /\ Count(p, sendQ'[s]) \in Nat
      <4>1. sendArr'[s] \in Seq(Packets) /\ sendQ'[s] \in Seq(Packets)
        BY <1>0 DEF TypeOK, TypePackets
      <4> QED BY <4>1, CountPlaces
    <3> QED BY <1>4, <2>1, <3>1, <3>2
  <2> QED BY <1>6, <2>2, <2>3
<1>8. \A x \in Sessions \ {s} : /\ released'[x] = released[x] /\ sendArr'[x] = sendArr[x]
                                /\ sendQ'[x] = sendQ[x]
  BY <1>1, <1>6
<1> QED BY <1>0, <1>1, <1>7, <1>8, CarriedHere DEF PacketTypes

\* RelNotify drops what is in the array and in the queue.
LEMMA PacketOfRelease ==
  ASSUME PacketInv, SendInv', NEW s \in Sessions, NEW t \in Threads, RelNotify(t, s)
  PROVE  PacketExact'
<1>0. PacketTypes /\ TypeOK' /\ PacketExact /\ SlotOnce
  BY PacketTyped DEF PacketInv, SendInv, SlotInv, RefInv
<1>1. /\ Moves(t) /\ UNCHANGED <<released, sp, sendArr>> /\ pc[t] = "relNotify" /\ at[t] = s
      /\ pc'[t] = "relPush" /\ at'[t] = s
      /\ sendQ' = [sendQ EXCEPT ![s] = <<>>]
      /\ \A p \in Packets : pkRef'[p] = pkRef[p] - Occurs(p, sendArr[s] \o sendQ[s])
  BY <1>0 DEF RelNotify, Drain, Unref, At, Goto, Stay, Moves, refs, PacketTypes
<1>2. Owned(s) /\ ~Owned(s)'
  BY <1>0, NotifyEndsOwned DEF PacketTypes
<1>7. Arrays[s] = sendArr[s] /\ Arrays'[s] = <<>>
  BY <1>2 DEF Arrays
<1>8. ASSUME NEW p \in Packets
      PROVE  pkRef'[p] = pkRef[p] + One(sp' = p) - One(sp = p)
                         + Count(p, sendQ'[s]) - Count(p, sendQ[s])
                         + Count(p, Arrays'[s]) - Count(p, Arrays[s])
  <2>1. sendArr[s] \in Seq(Packets) /\ sendQ[s] \in Seq(Packets) /\ sendQ'[s] = <<>>
    BY <1>0, <1>1 DEF PacketTypes
  <2>2. Occurs(p, sendArr[s] \o sendQ[s]) = Count(p, sendArr[s]) + Count(p, sendQ[s])
    BY <2>1, OccursCount, CountConcat
  <2>3. Count(p, sendArr[s]) \in Nat /\ Count(p, sendQ[s]) \in Nat /\ Count(p, <<>>) = 0
    BY <2>1, CountPlaces, CountSmall
  <2>4. /\ pkRef'[p] = pkRef[p] - Occurs(p, sendArr[s] \o sendQ[s]) /\ pkRef[p] \in Int
        /\ sp' = sp /\ One(sp = p) \in Nat
    BY <1>0, <1>1 DEF PacketTypes, One
  <2> QED BY <1>7, <2>1, <2>2, <2>3, <2>4
<1>9. \A x \in Sessions \ {s} : /\ released'[x] = released[x] /\ sendArr'[x] = sendArr[x]
                                /\ sendQ'[x] = sendQ[x]
  BY <1>0, <1>1 DEF PacketTypes
<1> QED BY <1>0, <1>1, <1>8, <1>9, CarriedHere DEF PacketTypes

\* A step that leaves packets, queues and arrays alone, and whose slot's they are
LEMMA PacketsAlone ==
  ASSUME TypeOK, PacketExact, NEW t \in Threads, Moves(t), UNCHANGED <<sends, sp, pkRef>>,
         \A x \in Sessions : Owned(x)' <=> Owned(x)
  PROVE  PacketExact'
<1>1. UNCHANGED sendQ /\ \A x \in Sessions : Arrays'[x] = Arrays[x]
  BY DEF Arrays, sends
<1>2. \A p \in Packets : pkRef'[p] = pkRef[p] + One(sp' = p) - One(sp = p)
  BY DEF One, TypeOK, TypePackets
<1> QED BY <1>1, <1>2, PacketsStay

\* ReleaseSession
LEMMA PacketOfReleaseSession ==
  ASSUME PacketInv, NEW s \in Sessions, NEW t \in Threads, ReleaseSession(t, s)
  PROVE  PacketExact'
<1>0. PacketTypes /\ PacketExact /\ TypeOK /\ RefExact
  BY PacketTyped DEF PacketInv, PacketTypes, RefInv
<1>1. Moves(t) /\ UNCHANGED <<sends, sp, pkRef>>
  BY <1>0 DEF ReleaseSession, Return, At, Goto, Moves, packets, PacketTypes
<1>2. \A x \in Sessions : Owned(x)' <=> Owned(x)
  BY <1>0, ReleaseKeepsOwned
<1> QED BY <1>0, <1>1, <1>2, PacketsAlone

\* ConnectProc: until Init is done the slot is nobody's, and Init leaves its array empty.
LEMMA PacketOfConnect ==
  ASSUME PacketInv, SendInv', NEW s \in Sessions, NEW t \in Workers, CnClear(t, s) \/ CnInit(t, s)
  PROVE  PacketExact'
<1>0. PacketTypes /\ TypeOK' /\ PacketExact /\ TypeOK /\ SlotOnce /\ t \in Threads
  BY PacketTyped DEF PacketInv, PacketTypes, SendInv, SlotInv, RefInv, Threads
<1>1. /\ Moves(t) /\ UNCHANGED <<sendQ, sp, pkRef>> /\ at[t] = s /\ at'[t] = s
      /\ pc[t] \in Attempting
  BY <1>0 DEF CnClear, CnInit, At, Goto, Stay, Moves, sends, packets, PacketTypes, Attempting
<1>2. ~Owned(s) /\ (CnClear(t, s) => ~Owned(s)')
  BY <1>0, ConnectNotOwned
<1>3. \A x \in Sessions \ {s} : released'[x] = released[x] /\ sendArr'[x] = sendArr[x]
  BY <1>0 DEF CnClear, CnInit, sends, refs, PacketTypes
<1>4. Arrays'[s] = <<>>
  <2>1. CASE CnClear(t, s)
    BY <1>2, <2>1 DEF Arrays
  <2>2. CASE CnInit(t, s)
    <3>1. sendArr'[s] = <<>>
      BY <1>0, <2>2 DEF CnInit, PacketTypes
    <3> QED BY <3>1 DEF Arrays
  <2> QED BY <2>1, <2>2
<1>5. Arrays[s] = <<>>
  BY <1>2 DEF Arrays
<1>6. \A x \in Sessions : Arrays'[x] = Arrays[x]
  <2> SUFFICES ASSUME NEW x \in Sessions, x # s PROVE Arrays'[x] = Arrays[x]
    BY <1>4, <1>5
  <2>1. \A l \in {"cnInit", "relNotify"} : ~OnSlot(t, x, {l})' /\ ~OnSlot(t, x, {l})
    BY <1>1 DEF OnSlot
  <2>2. released'[x] = released[x] /\ sendArr'[x] = sendArr[x]
    BY <1>3
  <2> QED BY <1>0, <1>1, <2>1, <2>2, ArraysKept
<1>7. \A p \in Packets : pkRef'[p] = pkRef[p] + One(sp' = p) - One(sp = p)
  BY <1>0, <1>1 DEF One, PacketTypes
<1> QED BY <1>0, <1>1, <1>6, <1>7, PacketsStay

\* SendProc drops what was sent.
LEMMA PacketOfSent ==
  ASSUME PacketInv, SendInv', NEW s \in Sessions, NEW t \in Workers, GetSent(t, s)
  PROVE  PacketExact'
<1>0. /\ PacketTypes /\ TypeOK' /\ PacketExact /\ TypeOK /\ t \in Threads /\ InitAlone
  BY PacketTyped DEF PacketInv, PacketTypes, SendInv, SlotInv, RefInv, Threads
<1>1. /\ Moves(t) /\ UNCHANGED <<sendQ, sp, released>> /\ at'[t] = s
      /\ pc[t] = "idle" /\ pc'[t] = "snClear"
      /\ sendArr' = [sendArr EXCEPT ![s] = <<>>]
      /\ \A p \in Packets : pkRef'[p] = pkRef[p] - Occurs(p, sendArr[s])
  BY <1>0 DEF GetSent, Take, At, Goto, Moves, refs, Unref, PacketTypes
<1>2. Owned(s)
  <2>1. Outstanding(s) > 0
    <3>1. Taken(s, "sent") /\ "sent" \in IoKinds
      BY DEF GetSent, IoKinds
    <3>2. Outstanding(s) \in Nat
      BY <1>0, OutstandingNat DEF PacketTypes
    <3>3. \A k \in IoKinds : io[s][k] \in Nat
      BY <1>0 DEF PacketTypes, IoType
    <3>4. /\ io[s]["recv"] \in Nat /\ io[s]["data"] \in Nat /\ io[s]["dead"] \in Nat
          /\ io[s]["send"] \in Nat /\ io[s]["sent"] \in Nat /\ io[s]["fail"] \in Nat
          /\ io[s]["sent"] > 0
      BY <3>1, <3>3 DEF IoKinds, Taken
    <3> QED BY <3>4 DEF Outstanding
  <2> QED BY <1>0, <2>1, BusyIsLive DEF Owned, PacketTypes
<1>3. Arrays[s] = sendArr[s] /\ Arrays'[s] = <<>>
  BY <1>0, <1>1, <1>2 DEF Arrays, PacketTypes
<1>4. ASSUME NEW p \in Packets
      PROVE  pkRef'[p] = pkRef[p] + One(sp' = p) - One(sp = p)
                         + Count(p, sendQ'[s]) - Count(p, sendQ[s])
                         + Count(p, Arrays'[s]) - Count(p, Arrays[s])
  <2>1. sendArr[s] \in Seq(Packets) /\ sendQ[s] \in Seq(Packets) /\ sendQ'[s] = sendQ[s]
    BY <1>0, <1>1 DEF PacketTypes
  <2>2. Occurs(p, sendArr[s]) = Count(p, sendArr[s])
    BY OccursCount
  <2>3. Count(p, sendArr[s]) \in Nat /\ Count(p, sendQ[s]) \in Nat /\ Count(p, <<>>) = 0
    BY <2>1, CountPlaces, CountSmall
  <2>4. /\ pkRef'[p] = pkRef[p] - Occurs(p, sendArr[s]) /\ pkRef[p] \in Int
        /\ sp' = sp /\ One(sp = p) \in Nat
    BY <1>0, <1>1 DEF PacketTypes, One
  <2> QED BY <1>3, <2>1, <2>2, <2>3, <2>4
<1>5. \A x \in Sessions \ {s} : /\ released'[x] = released[x] /\ sendArr'[x] = sendArr[x]
                                /\ sendQ'[x] = sendQ[x]
  BY <1>0, <1>1 DEF PacketTypes
<1> QED BY <1>0, <1>1, <1>4, <1>5, CarriedHere

\* Every step keeps the counts right.
LEMMA PacketStep == PacketInv /\ SendInv' /\ [Next]_vars => PacketExact'
<1> SUFFICES ASSUME PacketInv, SendInv', [Next]_vars PROVE PacketExact'
  OBVIOUS
<1>0. /\ TypeOK /\ PacketExact /\ Owner \in Threads /\ Workers \subseteq Threads
      /\ pc \in [Threads -> Labels] /\ at \in [Threads -> Sessions]
      /\ nest \in [Threads -> BOOLEAN]
  BY PacketTyped, ThreadAssumption DEF PacketInv, PacketTypes, Threads
<1>a. ASSUME NEW t \in Threads, Moves(t), UNCHANGED <<sends, sp, pkRef, released>>,
             \/ pc[t] \notin {"cnInit", "relNotify"} /\ pc'[t] \notin {"cnInit", "relNotify"}
             \/ pc'[t] = pc[t] /\ at'[t] = at[t]
      PROVE  PacketExact'
  <2>1. ASSUME NEW x \in Sessions PROVE Owned(x)' <=> Owned(x)
    <3>1. \A l \in {"cnInit", "relNotify"} : OnSlot(t, x, {l})' <=> OnSlot(t, x, {l})
      BY <1>a DEF OnSlot
    <3>2. released'[x] = released[x]
      BY <1>a
    <3> QED BY <1>a, <3>1, <3>2, OwnedKept
  <2> QED BY <1>0, <1>a, <2>1, PacketsAlone
<1> USE <1>0 DEF Moves, thread, refs, packets
<1>1. ASSUME OwnerStep PROVE PacketExact'
  <2>1. CASE TakeJob \/ Connect
    BY <2>1, <1>a DEF TakeJob, Connect
  <2>2. CASE Disconnect
    <3>1. /\ Moves(Owner) /\ UNCHANGED <<sends, sp, pkRef, released>>
          /\ pc[Owner] = "idle" /\ pc'[Owner] \in {"dec", "dcCheck"}
      BY <2>2 DEF Disconnect, Ready, At, Enter, Goto
    <3> QED BY <3>1, <1>a
  <2> QED BY <1>1, <2>1, <2>2, PacketOfSendPacket, PacketOfSmart DEF OwnerStep
<1>2. ASSUME NEW t \in Threads, NEW x \in Sessions, CallStep(t, x) PROVE PacketExact'
  <2>1. CASE SpCheck(t, x) \/ SendPost(t, x) \/ PostX(t, x) \/ PostU(t, x) \/ PostIo(t, x)
             \/ PostDisc(t, x) \/ DcCheck(t, x) \/ DcX(t, x) \/ DcCancelSend(t, x)
             \/ DcCancelRecv(t, x) \/ Decrement(t, x) \/ RelPush(t, x)
    <3>1. /\ Moves(t) /\ UNCHANGED <<sends, sp, pkRef, released>>
          /\ pc[t] \notin {"cnInit", "relNotify"} /\ pc'[t] \notin {"cnInit", "relNotify"}
      BY <2>1 DEF SpCheck, SendPost, PostX, PostU, PostIo, PostDisc, DcCheck, DcX, DcCancelSend,
                  DcCancelRecv, Decrement, RelPush, IoRefused, Return, At, Goto, Stay
    <3> QED BY <3>1, <1>a
  <2> QED BY <1>2, <2>1, PacketOfEnqueue, PacketOfPost, PacketOfRelease, PacketOfReleaseSession
          DEF CallStep
<1>3. ASSUME NEW w \in Workers, NEW x \in Sessions, HandleStep(w, x) PROVE PacketExact'
  <2>1. CASE SnClear(w, x) \/ RecvMessage(w, x) \/ RecvBad(w, x) \/ RecvEnd(w, x)
             \/ RecvPost(w, x) \/ RpDisc(w, x)
    <3>1. /\ Moves(w) /\ UNCHANGED <<sends, sp, pkRef, released>>
          /\ pc[w] \notin {"cnInit", "relNotify"} /\ pc'[w] \notin {"cnInit", "relNotify"}
      BY <2>1 DEF SnClear, RecvMessage, RecvBad, RecvEnd, RecvPost, RpDisc, IoRefused, Enter,
                  At, Goto, Stay
    <3> QED BY <3>1, <1>a
  <2> QED BY <1>3, <2>1, PacketOfConnect DEF HandleStep
<1>4. ASSUME NEW w \in Workers, NEW x \in Sessions, GetStep(w, x) PROVE PacketExact'
  <2>1. CASE GetConnect(w, x) \/ GetConnectFail(w, x) \/ GetReconnect(w, x) \/ GetDead(w, x)
             \/ GetRecv(w, x)
    <3>1. /\ Moves(w) /\ UNCHANGED <<sends, sp, pkRef, released>>
          /\ pc[w] \notin {"cnInit", "relNotify"} /\ pc'[w] \notin {"cnInit", "relNotify"}
      BY <2>1 DEF GetConnect, GetConnectFail, GetReconnect, GetDead, GetRecv, Requeue, GiveUp,
                  Take, At, Goto
    <3> QED BY <3>1, <1>a
  <2> QED BY <1>4, <2>1, PacketOfSent DEF GetStep
<1>5. ASSUME NEW w \in Workers, CfTimer(w) \/ CfNotify(w) PROVE PacketExact'
  <2>1. /\ Moves(w) /\ UNCHANGED <<sends, sp, pkRef, released>>
        /\ pc[w] \notin {"cnInit", "relNotify"} /\ pc'[w] \notin {"cnInit", "relNotify"}
    BY <1>5 DEF CfTimer, CfNotify, At, Goto, Stay
  <2> QED BY <2>1, <1>a
<1>6. ASSUME NEW x \in Sessions, KernelStep(x) PROVE PacketExact'
  BY <1>6, <1>a DEF KernelStep, ConnectDone, PeerDown, RecvDone, SendDone, IoDead, Outside
<1>7. ASSUME TimerFire PROVE PacketExact'
  BY <1>7, <1>a DEF TimerFire, Outside
<1>8. CASE UNCHANGED vars
  BY <1>8, <1>a DEF vars
<1> QED BY <1>1, <1>2, <1>3, <1>4, <1>5, <1>6, <1>7, <1>8 DEF Next

\* Nothing is anywhere to begin with.
LEMMA PacketInit == Init => PacketInv
<1> SUFFICES ASSUME Init PROVE PacketInv
  OBVIOUS
<1>1. MadeOnly
  BY DEF Init, MadeOnly
<1>2. PacketExact
  <2> SUFFICES ASSUME NEW p \in Packets
               PROVE  pkRef[p] = One(sp = p) + Cardinality(Spots(p, sendQ))
                                 + Cardinality(Spots(p, Arrays))
    BY DEF PacketExact
  <2>1. ASSUME NEW q, \A s \in Sessions : q[s] = <<>> PROVE Spots(p, q) = {}
    BY <2>1 DEF Spots
  <2>2. Spots(p, sendQ) = {} /\ Spots(p, Arrays) = {}
    BY <2>1 DEF Init, Arrays
  <2>3. pkRef[p] = 0 /\ One(sp = p) = 0
    BY DEF Init, One, Packets
  <2> QED BY <2>2, <2>3, FS_EmptySet
<1> QED BY <1>1, <1>2, SendInvInit DEF PacketInv

LEMMA PacketInvHolds == Spec /\ []NoEarlyCall => []PacketInv
<1>1. PacketInv /\ NoEarlyCall' /\ [Next]_vars => PacketInv'
  BY SendInvStep, MadeStep, PacketStep DEF PacketInv, SendInv, SlotInv
<1> QED BY PacketInit, <1>1, PTL DEF Spec

\* Under the same condition each packet's reference count is the number of places that
\* will drop it (PacketExact): none leaks, none is freed twice.
THEOREM PacketsCounted == Spec /\ []NoEarlyCall => []PacketExact
BY PacketInvHolds, PTL DEF PacketInv
=============================================================================
