--------------------------- MODULE NetClientProps ---------------------------
(***************************************************************************)
(* What NetClient must guarantee: the invariants, the liveness properties  *)
(* and the event stream it implements.                                     *)
(***************************************************************************)
EXTENDS NetClient

\* A CONNECT_SUCCESS job carries the handle of a connection.
Jobs == {j \in [type : JobTypes, id : Handles \cup {NoId}] :
            j.type = "CONNECT_SUCCESS" => j.id \in Handles}

TypeSession ==
    /\ refCnt \in [Sessions -> Int] /\ released \in [Sessions -> BOOLEAN]
    /\ id \in [Sessions -> Handles \cup {NoId}]
    /\ disc \in [Sessions -> BOOLEAN] /\ sending \in [Sessions -> BOOLEAN]
    /\ retry \in [Sessions -> Int]

TypePackets ==
    /\ sendQ \in [Sessions -> Seq(Packets)] /\ sendArr \in [Sessions -> Seq(Packets)]
    /\ sp \in Packets \cup {0} /\ made \in 0 .. MaxPackets
    /\ pkRef \in [Packets -> Int]

TypeKernel ==
    /\ con \in [Sessions -> {"none", "posted", "done", "failed"}]
    /\ up \in [Sessions -> BOOLEAN]
    /\ io \in [Sessions -> [IoKinds -> Nat]]
    /\ posted \subseteq Sessions /\ timers \in Nat
    /\ stack \in Seq(Sessions) /\ reconQ \in Seq(Sessions)

TypeThread ==
    /\ pc \in [Threads -> Labels] /\ at \in [Threads -> Sessions]
    /\ nest \in [Threads -> BOOLEAN]

TypeOwner ==
    /\ arg \in Handles \cup {NoId} /\ known \subseteq Handles
    /\ clients \in Int /\ conns \in Nat /\ ids \in Nat
    /\ jobs \in Seq(Jobs)
    /\ inputs \in Nat /\ crashed \in BOOLEAN

\* Every variable holds a value of its kind, and what Owner takes for a handle
\* is one.
TypeOK == TypeSession /\ TypePackets /\ TypeKernel /\ TypeThread /\ TypeOwner

\* A SendPacket past its first check is Owner's and holds a packet.
SendingPacket ==
    \A t \in Threads :
        pc[t] \in {"spCheck", "spEnq"} => t = Owner /\ sp \in Packets

-----------------------------------------------------------------------------
(* The reference count *)

\* Labels at which a thread holds a reference on its slot, and those at which
\* it has passed the RELEASE_FLAG check or got the slot with a completion.
Holding == Labels \ {"idle", "rel", "relNotify", "relPush", "cfTimer", "cfNotify", "spFree"}
Working == Holding \ {"cnClear", "dec"}

Holders(s) == {t \in Threads : at[t] = s /\ pc[t] \in Holding}
Nesters(s) == {t \in Threads : at[t] = s /\ nest[t]}
Outstanding(s) == io[s]["recv"] + io[s]["data"] + io[s]["dead"]
                + io[s]["send"] + io[s]["sent"] + io[s]["fail"]

\* refCnt_ counts exactly the threads that use the slot and the I/O that is
\* outstanding on it (every increment and decrement of it, NetClient.cpp).
RefExact ==
    \A s \in Sessions :
        refCnt[s] = Cardinality(Holders(s)) + Cardinality(Nesters(s)) + Outstanding(s)

\* Thread t uses the session it stands on, and may count on it being there.
Using(t) == pc[t] \in Working \/ (pc[t] = "dec" /\ t \in Workers) \/ nest[t]

\* ReleaseSession never runs under somebody's feet: a slot somebody works on,
\* or with I/O outstanding, is not released ("guaranteed that not even RELEASE
\* was called", NetClient.cpp:369).
UseSafe ==
    /\ \A t \in Threads : Using(t) => ~released[at[t]]
    /\ \A s \in Sessions : Outstanding(s) > 0 => ~released[s]

\* Only RecvProc nests, and its second reference is dropped before the first.
NestedInDisconnect ==
    \A t \in Threads :
        nest[t] => t \in Workers /\ pc[t] \in {"dcCheck", "dcX", "dcCancel", "dcCancel2", "dec"}

\* The inductive invariant of the reference count.
RefInv == TypeOK /\ SendingPacket /\ NestedInDisconnect /\ RefExact /\ UseSafe

-----------------------------------------------------------------------------
(* The slots *)

OnSlot(t, s, labels) == at[t] = s /\ pc[t] \in labels
Someone(s, labels) == \E t \in Threads : OnSlot(t, s, labels)

\* The connection on slot s is announced and not yet given up
Live(s) == ~released[s] /\ ~Someone(s, {"cnInit"})
Owned(s) == Live(s) \/ Someone(s, {"relNotify"})

Count(s, q) == Cardinality({i \in DOMAIN q : q[i] = s})
One(b) == IF b THEN 1 ELSE 0

\* Connect and reconnect attempts that are under way on slot s
Connecting(s) == One(con[s] # "none") + Count(s, reconQ) + One(s \in posted)
                 + Cardinality({t \in Threads : OnSlot(t, s, {"cnClear", "cnInit"})})

\* A slot is at any time in exactly one place: free in DisconnectStack_, with one
\* connect attempt, in use, or with the one thread that releases it.  Twice in
\* the stack, and two connections share it; in none, and it is lost.
SlotOnce ==
    \A s \in Sessions :
        Count(s, stack) + Connecting(s) + One(Live(s))
        + Cardinality({t \in Threads : OnSlot(t, s, {"relNotify", "relPush"})}) = 1

\* A reconnect timer finds a session in ReconnectQ_ (value() of an empty
\* Dequeue, NetClient.cpp:76): every armed timer was preceded by its Enqueue.
TimerFindsSession ==
    timers + Cardinality({t \in Threads : pc[t] = "cfTimer"}) = Len(reconQ)

\* The recvOverlapped and the ring buffer of a slot belong to at most one recv:
\* posted, complete, or being handled by RecvProc.
OneRecv ==
    \A s \in Sessions :
        io[s]["recv"] + io[s]["data"] + io[s]["dead"]
        + Cardinality({t \in Threads : \/ OnSlot(t, s, {"recv", "rpost"})
                                       \/ OnSlot(t, s, Holding) /\ nest[t]}) <= 1

\* A slot that is free or connecting carries nothing of its last connection: no
\* outstanding I/O, no packet in the send queue.
CleanSlot ==
    \A s \in Sessions :
        Count(s, stack) + Connecting(s) > 0 => sendQ[s] = <<>> /\ Outstanding(s) = 0

-----------------------------------------------------------------------------
(* The packets *)

\* Where packet p is in a family of sequences, one per slot
Spots(p, q) == UNION {{<<s, i>> : i \in {j \in DOMAIN q[s] : q[s][j] = p}} : s \in Sessions}

\* The send arrays; what a released slot still has in its array is not used any more.
Arrays == [s \in Sessions |-> IF Owned(s) THEN sendArr[s] ELSE <<>>]

\* A packet's reference count is the number of places that will drop it again:
\* Owner's SmartPacket, send queues, send arrays.  None leaks, none is freed twice.
PacketExact ==
    \A p \in Packets :
        pkRef[p] = One(sp = p) + Cardinality(Spots(p, sendQ)) + Cardinality(Spots(p, Arrays))

\* bSendingInProgress_ lets one party at a time use sendOverlapped and
\* pSendPacketArr_: a thread between its exchange and WSASend, or a send.
OneSend ==
    \A s \in Sessions :
        io[s]["send"] + io[s]["sent"] + io[s]["fail"]
        + Cardinality({t \in Threads : OnSlot(t, s, {"postN", "postU", "postIo", "snClear"})})
        <= 1

\* A WSASend that failed: the flag is up and the packets stay in the array until the
\* session is released (NetClient.cpp:492)
SendFailed(s) ==
    /\ sending[s] /\ sendArr[s] # <<>>
    /\ io[s]["send"] + io[s]["sent"] + io[s]["fail"] = 0 /\ ~Someone(s, {"postIo"})

\* No packet is stranded in the send queue of a working connection: there is a
\* send whose completion will look at the queue again, or a thread on its way to
\* do so (the stall NetClient.cpp:452-453 tells of), unless a WSASend failed.
NoStrandedPacket ==
    \A s \in Sessions :
        Live(s) /\ sendQ[s] # <<>> /\ up[s] /\ ~disc[s] =>
            \/ io[s]["send"] + io[s]["sent"] > 0
            \/ Someone(s, {"post", "postX", "postN", "postU", "postIo", "snClear"})
            \/ SendFailed(s)

\* A call gets past the reuse check only on the connection its handle names
\* (NetClient.cpp:323, "released, initialised again, that is, reused").
CallOnOwnSession ==
    pc[Owner] \in {"spEnq", "post", "postX", "postN", "postU", "postIo", "postDisc",
                   "dcX", "dcCancel", "dcCancel2"}
    => arg = id[at[Owner]]

\* The rule a client of NetClient has to keep: no call of the update thread works on a
\* slot whose RELEASE_FLAG is cleared already and whose Init is still to come, for the
\* flag alone lets SendPacket and Disconnect in, and until Init id_ is that of the last
\* connection (NetClient.cpp:32-37). Nothing in NetClient sees to it, and CallOnOwnSession
\* shows a call that breaks it: it is the condition of theorems, not a property.
NoEarlyCall == \A s \in Sessions : Someone(s, {"cnInit"}) => ~OnSlot(Owner, s, Working)

\* Connect finds a slot whenever fewer than maxSession_ are in use: "from here on
\* Connect is possible again" (NetClient.cpp:565) is said of the Push.
ConnectFindsSlot == ~crashed

-----------------------------------------------------------------------------
(* The event stream *)

\* A Connect on slot s has not been answered
Asked(s) ==
    \/ con[s] # "none" \/ s \in posted
    \/ \E i \in DOMAIN reconQ : reconQ[i] = s
    \/ Someone(s, {"cnClear", "cnInit"})

\* Per value of ullIdCounter_: not given out yet, of a connection, of one that is over
Phase == [n \in 0 .. MaxConnects - 1 |->
            CASE n >= ids -> "new"
              [] n < ids /\ \E s \in Sessions : id[s] = <<n, s>> /\ Owned(s) -> "up"
              [] OTHER -> "gone"]

\* Connects still to be answered
Pending == Cardinality({s \in Sessions : Asked(s)})
           + Cardinality({t \in Threads : pc[t] = "cfNotify"})

\* g_msgQ, of each handle the value of the counter
Number(job) == IF job.type \in {"CONNECT_FAIL", "ALL_RECONNECT_FAIL"} THEN -1 ELSE job.id[1]
Queue == [i \in DOMAIN jobs |-> [type |-> jobs[i].type, id |-> Number(jobs[i])]]

Events == INSTANCE ClientEvents WITH
    Ids <- 0 .. MaxConnects - 1, phase <- Phase, pending <- Pending, queue <- Queue

\* NetClient implements ClientEvents: the jobs of one connection reach g_msgQ in
\* order whatever the workers' interleaving, and each Connect gets one answer.
EventStream == Events!Spec

-----------------------------------------------------------------------------
(* Liveness *)

\* While workers or kernel can do something they do something, however often Owner
\* calls in between, and Owner finishes its calls: threads run,
\* completions are taken, timers fire, and the kernel completes connects, sends and
\* what is posted on a dead connection.  Nothing obliges the peer to send or to hang
\* up, nor Owner to call.
ThreadRuns(t) ==
    /\ pc[t] # "idle"
    /\ \/ CallStep(t, at[t])
       \/ t \in Workers /\ (HandleStep(t, at[t]) \/ CfTimer(t) \/ CfNotify(t))
       \/ t = Owner /\ FreeSmart
PortRuns == \E w \in Workers : pc[w] = "idle" /\ \E s \in Sessions : GetStep(w, s)
KernelRuns ==
    \/ \E s \in Sessions : ConnectDone(s) \/ SendDone(s) \/ IoDead(s)
    \/ TimerFire
SystemRuns == (\E t \in Workers : ThreadRuns(t)) \/ PortRuns \/ KernelRuns

LiveSpec == Spec /\ WF_vars(SystemRuns) /\ WF_vars(ThreadRuns(Owner))

\* Whatever was begun is ended.  A disconnected session is released, whichever of
\* the recv loop, the send loop and the CancelIoEx calls comes last; a connect
\* attempt, its timers and its further attempts included, ends in a connection or
\* with the slot free again; a packet is freed, sent or dropped with its connection.
\* Calls are bounded, so that this is: again and again nothing is under way.  (The
\* __debugbreak of net_slot ends everything, and after a WSASend that failed a
\* connection may keep its packets as long as it lasts.)
Settled(s) == Count(s, stack) > 0 \/ (Live(s) /\ ~disc[s])
Keeps(s, p) == Live(s) /\ SendFailed(s) /\ Count(p, sendArr[s] \o sendQ[s]) = pkRef[p]
AtRest ==
    \/ crashed
    \/ /\ \A s \in Sessions : Settled(s)
       /\ \A p \in Packets : pkRef[p] = 0 \/ \E s \in Sessions : Keeps(s, p)
ComesToRest == []<>AtRest
=============================================================================
