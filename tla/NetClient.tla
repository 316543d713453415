----------------------------- MODULE NetClient -----------------------------
(***************************************************************************)
(* The session life cycle of one NetClient (NetClient.cpp): its IOCP       *)
(* worker threads, its reconnect timers, the kernel below it and the one   *)
(* thread that calls Connect, SendPacket and Disconnect on it, which is    *)
(* the update thread of Update.cpp.  LoginDummy and ChatDummy are the two  *)
(* instances; their callbacks only append a RecvJob to g_msgQ, and `jobs`  *)
(* is the part of g_msgQ that one instance writes.                         *)
(*                                                                         *)
(* A session slot is reused for one connection after another.  The whole   *)
(* of its correctness hangs on one word, refCnt_, which carries a count of *)
(* the parties that use the slot and the bit RELEASE_FLAG; here they are   *)
(* refCnt[s] and released[s], always read and written together.            *)
(*                                                                         *)
(* One step is one access to memory that several threads share: an         *)
(* interlocked operation, a queue or stack operation, a system call.       *)
(***************************************************************************)
EXTENDS Integers, Sequences, FiniteSets

CONSTANTS
    MaxSession,   \* maxSession_: slots 0 .. MaxSession-1
    Workers,      \* the threads in IOCPWorkerThread
    Owner,        \* the update thread
    Retries,      \* autoReconnectCnt_
    Batch,        \* the length of pSendPacketArr_ (50 in the code)
    LateCalls,    \* may Owner use a handle whose slot it has handed out again?
    MaxConnects,  \* bound on Connect calls
    MaxPackets,   \* bound on SendPacket calls
    MaxInputs,    \* bound on received chunks; with their messages, twice that
    MaxTraffic    \* bound on all of these together

ASSUME SessionAssumption == MaxSession \in Nat \ {0}
ASSUME ThreadAssumption == IsFiniteSet(Workers) /\ Owner \notin Workers
ASSUME RetryAssumption == Retries \in Nat
ASSUME BatchAssumption == Batch \in Nat \ {0}
ASSUME CallAssumption == LateCalls \in BOOLEAN
ASSUME BoundAssumption ==
    MaxConnects \in Nat /\ MaxPackets \in Nat /\ MaxInputs \in Nat
    /\ MaxTraffic \in Nat

Sessions == 0 .. MaxSession - 1
Threads == Workers \cup {Owner}
Packets == 1 .. MaxPackets

\* An id_ is (counter << 16) ^ index: the pair of both.  NoId is what the
\* field of a slot that was never connected holds.
NoId == <<>>
Handles == Nat \X Sessions
GET_SESSION_INDEX(h) == h[2]

\* Where a thread stands.  "idle" is GetQueuedCompletionStatus for a worker,
\* anything outside NetClient for Owner.
Labels ==
    {"idle", "cnClear", "cnInit", "cfTimer", "cfNotify",          \* connect
     "recv", "rpost", "rpDisc", "snClear",                        \* completions
     "spCheck", "spEnq", "post", "postX", "postN", "postU", "postIo", "postDisc",
     "dcCheck", "dcX", "dcCancel", "dcCancel2",       \* Disconnect
     "dec", "rel", "relNotify", "relPush", "spFree"}

\* What is outstanding on a slot's two overlapped blocks: posted and not
\* complete (recv, send), or complete and not yet taken by a worker, with
\* bytes (data, sent) or without (dead, fail).
IoKinds == {"recv", "data", "dead", "send", "sent", "fail"}

JobTypes == {"CONNECT_SUCCESS", "RECV_MESSAGE", "ON_RELEASE",
             "CONNECT_FAIL", "ALL_RECONNECT_FAIL"}
Job(type, h) == [type |-> type, id |-> h]

VARIABLES
    refCnt, released,          \* refCnt_ without and as its RELEASE_FLAG bit
    id, disc, sending, retry,  \* id_, bDisconnectCalled_, bSendingInProgress_, reConnectCnt_
    sendQ, sendArr,            \* sendPacketQ_ ; pSendPacketArr_[0 .. lSendBufNum_-1]
    con, up, io,               \* kernel: ConnectEx, the TCP connection, overlapped I/O
    posted, timers,            \* kernel: RECONNECT completions, armed timers
    stack, reconQ, ids,        \* DisconnectStack_ (head = top), ReconnectQ_, ullIdCounter_
    pc, at, nest,              \* threads: label, slot, inside RecvProc's Disconnect?
    arg, known, clients, conns,\* Owner: handle of its call, live handles, slots in use, calls
    sp, made, pkRef,           \* Owner's SmartPacket (0: none), packets made, Packet::refCnt_
    jobs,                      \* g_msgQ
    inputs,                    \* chunks and messages received so far
    crashed                    \* a __debugbreak was reached

refs    == <<refCnt, released>>
session == <<id, disc, sending, retry>>
sends   == <<sendQ, sendArr>>
kernel  == <<con, up, io, posted, timers>>
slots   == <<stack, reconQ, ids>>
thread  == <<pc, at, nest>>
calls   == <<arg, known, clients, conns>>
packets == <<sp, made, pkRef>>
vars == <<refs, session, sends, kernel, slots, thread, calls, packets,
          jobs, inputs, crashed>>

\* The constructor pushes maxSession_-1 first and 0 last
FreshStackOffByOne == [i \in 1 .. MaxSession |-> i]          \* mutant
FreshStack == [i \in 1 .. MaxSession |-> i - 1]

Init ==
    /\ refCnt = [s \in Sessions |-> 0]
    /\ released = [s \in Sessions |-> TRUE]
    /\ id = [s \in Sessions |-> NoId]
    /\ disc = [s \in Sessions |-> FALSE]
    /\ sending = [s \in Sessions |-> FALSE]
    /\ retry = [s \in Sessions |-> 0]
    /\ sendQ = [s \in Sessions |-> <<>>]
    /\ sendArr = [s \in Sessions |-> <<>>]
    /\ con = [s \in Sessions |-> "none"]
    /\ up = [s \in Sessions |-> FALSE]
    /\ io = [s \in Sessions |-> [k \in IoKinds |-> 0]]
    /\ posted = {}
    /\ timers = 0
    /\ stack = FreshStack
    /\ reconQ = <<>>
    /\ ids = 0
    /\ pc = [t \in Threads |-> "idle"]
    /\ at = [t \in Threads |-> 0]
    /\ nest = [t \in Threads |-> FALSE]
    /\ arg = NoId
    /\ known = {}
    /\ clients = 0
    /\ conns = 0
    /\ sp = 0
    /\ made = 0
    /\ pkRef = [p \in Packets |-> 0]
    /\ jobs = <<>>
    /\ inputs = 0
    /\ crashed = FALSE

-----------------------------------------------------------------------------
(* Building blocks *)

\* Thread t stands at label l and takes its next step.
At(t, l) == ~crashed /\ pc[t] = l
Goto(t, l) == pc' = [pc EXCEPT ![t] = l]
Stay == UNCHANGED <<at, nest, calls, crashed>>

\* Where a finished call returns to: Disconnect called by RecvProc returns to
\* the worker loop, which drops the worker's own reference; Owner destroys the
\* SmartPacket it still holds; everyone else is done.
Return(t) ==
    /\ nest' = [nest EXCEPT ![t] = FALSE]
    /\ Goto(t, CASE nest[t] -> "dec"
                 [] ~nest[t] /\ t = Owner /\ sp # 0 -> "spFree"
                 [] OTHER -> "idle")

\* Overlapped I/O on slot s: one more of kind k; a worker takes one; n complete
Started(s, k) == io' = [io EXCEPT ![s][k] = @ + 1]
Taken(s, k) == io[s][k] > 0 /\ io' = [io EXCEPT ![s][k] = @ - 1]
Complete(s, from, to, n) ==
    /\ n <= io[s][from]
    /\ io' = [io EXCEPT ![s][from] = io[s][from] - n, ![s][to] = io[s][to] + n]

\* CancelIoEx on one overlapped block: what is posted completes without bytes.
Cancel(s, from, to) == Complete(s, from, to, io[s][from])

\* Number of occurrences of packet p in sequence q
Occurs(p, q) == Cardinality({i \in DOMAIN q : q[i] = p})

\* DecrementRefCnt on every packet of q
Unref(q) == pkRef' = [p \in Packets |-> pkRef[p] - Occurs(p, q)]

Post(type, h) == jobs' = Append(jobs, Job(type, h))

-----------------------------------------------------------------------------
(* Owner: the update thread outside and entering NetClient *)

Ready == At(Owner, "idle")

\* The common bound on Connect, SendPacket and what is received
MoreTraffic == conns + made + inputs < MaxTraffic

\* Update() takes the next job.  It learns a handle from CONNECT_SUCCESS and
\* forgets it at ON_RELEASE; a slot counts as free again from ON_RELEASE or
\* ALL_RECONNECT_FAIL on.
TakeJob ==
    /\ Ready /\ jobs # <<>>
    /\ jobs' = Tail(jobs)
    /\ LET job == Head(jobs) IN
       /\ known' = CASE job.type = "CONNECT_SUCCESS" -> known \cup {job.id}
                     [] job.type = "ON_RELEASE" -> known \ {job.id}
                     [] OTHER -> known
       /\ clients' = IF job.type \in {"ON_RELEASE", "ALL_RECONNECT_FAIL"}
                     THEN clients - 1 ELSE clients
    /\ UNCHANGED <<refs, session, sends, kernel, slots, thread, arg, conns,
                   packets, inputs, crashed>>

\* Connect(false, ..): pop a slot and post ConnectEx on it.  An empty stack is
\* a __debugbreak.  Without LateCalls, Owner drops the handles of that slot.
Connect ==
    /\ Ready /\ clients < MaxSession /\ conns < MaxConnects /\ MoreTraffic
    /\ clients' = clients + 1
    /\ conns' = conns + 1
    /\ IF stack = <<>>
       THEN /\ crashed' = TRUE
            /\ UNCHANGED <<stack, retry, con, known>>
       ELSE /\ stack' = Tail(stack)
            /\ retry' = [retry EXCEPT ![Head(stack)] = Retries]
            /\ con' = [con EXCEPT ![Head(stack)] = "posted"]
            /\ known' = IF LateCalls THEN known
                        ELSE {h \in known : GET_SESSION_INDEX(h) # Head(stack)}
            /\ UNCHANGED crashed
    /\ UNCHANGED <<refs, id, disc, sending, sends, up, io, posted, timers, reconQ,
                   ids, thread, arg, packets, jobs, inputs>>

\* The first access of SendPacket and Disconnect: take a reference and look at
\* RELEASE_FLAG in the value InterlockedIncrement returned.
EnterUnchecked(t, s, next) ==                                \* mutant
    /\ refCnt' = [refCnt EXCEPT ![s] = @ + 1]
    /\ Goto(t, next)
Enter(t, s, next) ==
    /\ refCnt' = [refCnt EXCEPT ![s] = @ + 1]
    /\ Goto(t, IF released[s] THEN "dec" ELSE next)

SendPacket ==
    /\ Ready /\ made < MaxPackets /\ MoreTraffic
    /\ made' = made + 1
    /\ sp' = made + 1
    /\ pkRef' = [pkRef EXCEPT ![made + 1] = 1]
    /\ \E h \in known :
          /\ arg' = h
          /\ at' = [at EXCEPT ![Owner] = GET_SESSION_INDEX(h)]
          /\ Enter(Owner, GET_SESSION_INDEX(h), "spCheck")
    /\ UNCHANGED <<released, session, sends, kernel, slots, nest, known, clients,
                   conns, jobs, inputs, crashed>>

Disconnect ==
    /\ Ready
    /\ \E h \in known :
          /\ arg' = h
          /\ at' = [at EXCEPT ![Owner] = GET_SESSION_INDEX(h)]
          /\ Enter(Owner, GET_SESSION_INDEX(h), "dcCheck")
    /\ UNCHANGED <<released, session, sends, kernel, slots, nest, known, clients,
                   conns, packets, jobs, inputs, crashed>>

\* ~SmartPacket at the end of the caller's scope
FreeSmart ==
    /\ At(Owner, "spFree")
    /\ Unref(<<sp>>)
    /\ sp' = 0
    /\ Goto(Owner, "idle")
    /\ UNCHANGED <<refs, session, sends, kernel, slots, made, jobs, inputs>> /\ Stay

-----------------------------------------------------------------------------
(* SendPacket, SendPost, Disconnect: s is the slot thread t works on *)

\* id != pSession->id_: the slot has been reused
SpCheck(t, s) ==
    /\ At(t, "spCheck") /\ at[t] = s
    /\ Goto(t, IF arg = id[s] THEN "spEnq" ELSE "dec")
    /\ UNCHANGED <<refs, session, sends, kernel, slots, packets, jobs, inputs>> /\ Stay

SpEnq(t, s) ==
    /\ At(t, "spEnq") /\ at[t] = s
    /\ pkRef' = [pkRef EXCEPT ![sp] = @ + 1]
    /\ sendQ' = [sendQ EXCEPT ![s] = Append(@, sp)]
    /\ Goto(t, "post")
    /\ UNCHANGED <<refs, session, sendArr, kernel, slots, sp, made, jobs, inputs>>
    /\ Stay

\* while (1) { if (GetSize() <= 0) return FALSE;
SendPost(t, s) ==
    /\ At(t, "post") /\ at[t] = s
    /\ Goto(t, IF sendQ[s] = <<>> THEN "dec" ELSE "postX")
    /\ UNCHANGED <<refs, session, sends, kernel, slots, packets, jobs, inputs>> /\ Stay

\* if (InterlockedExchange(&bSendingInProgress_, TRUE) == TRUE) return TRUE;
PostXUnchecked(t, s) ==                                      \* mutant
    /\ At(t, "postX") /\ at[t] = s
    /\ sending' = [sending EXCEPT ![s] = TRUE]
    /\ Goto(t, "postN")
    /\ UNCHANGED <<refs, id, disc, retry, sends, kernel, slots, packets, jobs, inputs>>
    /\ Stay
PostX(t, s) ==
    /\ At(t, "postX") /\ at[t] = s
    /\ sending' = [sending EXCEPT ![s] = TRUE]
    /\ Goto(t, IF sending[s] THEN "dec" ELSE "postN")
    /\ UNCHANGED <<refs, id, disc, retry, sends, kernel, slots, packets, jobs, inputs>>
    /\ Stay

\* The second GetSize and, when there is something, the dequeues into
\* pSendPacketArr_ and the store of lSendBufNum_
PostN(t, s) ==
    /\ At(t, "postN") /\ at[t] = s
    /\ LET n == IF Len(sendQ[s]) < Batch THEN Len(sendQ[s]) ELSE Batch IN
       IF n = 0
       THEN Goto(t, "postU") /\ UNCHANGED sends
       ELSE /\ Goto(t, "postIo")
            /\ sendArr' = [sendArr EXCEPT ![s] = SubSeq(sendQ[s], 1, n)]
            /\ sendQ' = [sendQ EXCEPT ![s] = SubSeq(@, n + 1, Len(@))]
    /\ UNCHANGED <<refs, session, kernel, slots, packets, jobs, inputs>> /\ Stay

\* Nothing was left: the flag goes back and the loop starts again
PostUNoRetry(t, s) ==                                        \* mutant
    /\ At(t, "postU") /\ at[t] = s
    /\ sending' = [sending EXCEPT ![s] = FALSE]
    /\ Goto(t, "dec")
    /\ UNCHANGED <<refs, id, disc, retry, sends, kernel, slots, packets, jobs, inputs>>
    /\ Stay
PostU(t, s) ==
    /\ At(t, "postU") /\ at[t] = s
    /\ sending' = [sending EXCEPT ![s] = FALSE]
    /\ Goto(t, "post")
    /\ UNCHANGED <<refs, id, disc, retry, sends, kernel, slots, packets, jobs, inputs>>
    /\ Stay

\* WSASend or WSARecv fails, whatever the reason: the reference taken for it is
\* given back
IoRefusedLeak(t, s) ==                                       \* mutant
    /\ refCnt' = [refCnt EXCEPT ![s] = @ + 1]
    /\ Goto(t, "dec")
    /\ UNCHANGED io
IoRefused(t, s) ==
    /\ Goto(t, "dec")
    /\ UNCHANGED <<refCnt, io>>

\* InterlockedIncrement and WSASend, which pends, completes at once or fails;
\* after a failure bSendingInProgress_ stays TRUE
PostIo(t, s) ==
    /\ At(t, "postIo") /\ at[t] = s
    /\ \/ /\ refCnt' = [refCnt EXCEPT ![s] = @ + 1]
          /\ Started(s, "send")
          /\ Goto(t, "postDisc")
       \/ /\ up[s]
          /\ refCnt' = [refCnt EXCEPT ![s] = @ + 1]
          /\ Started(s, "sent")
          /\ Goto(t, "dec")
       \/ IoRefused(t, s)
    /\ UNCHANGED <<released, session, sends, con, up, posted, timers, slots, packets,
                   jobs, inputs>>
    /\ Stay

\* WSA_IO_PENDING: a Disconnect that came before the send was posted could
\* not cancel it, so the poster does
PostDisc(t, s) ==
    /\ At(t, "postDisc") /\ at[t] = s
    /\ IF disc[s] THEN Cancel(s, "send", "fail") ELSE UNCHANGED io
    /\ Goto(t, "dec")
    /\ UNCHANGED <<refs, session, sends, con, up, posted, timers, slots, packets,
                   jobs, inputs>>
    /\ Stay

\* Disconnect's reuse check; RecvProc passes pSession->id_ itself
DcCheck(t, s) ==
    /\ At(t, "dcCheck") /\ at[t] = s
    /\ Goto(t, IF nest[t] \/ arg = id[s] THEN "dcX" ELSE "dec")
    /\ UNCHANGED <<refs, session, sends, kernel, slots, packets, jobs, inputs>> /\ Stay

\* InterlockedExchange(&bDisconnectCalled_, TRUE): once per connection
DcX(t, s) ==
    /\ At(t, "dcX") /\ at[t] = s
    /\ disc' = [disc EXCEPT ![s] = TRUE]
    /\ Goto(t, IF disc[s] THEN "dec" ELSE "dcCancel")
    /\ UNCHANGED <<refs, id, sending, retry, sends, kernel, slots, packets, jobs, inputs>>
    /\ Stay

\* CancelIoEx on the send overlapped, then on the recv overlapped
DcCancelSend(t, s) ==
    /\ At(t, "dcCancel") /\ at[t] = s
    /\ Cancel(s, "send", "fail")
    /\ Goto(t, "dcCancel2")
    /\ UNCHANGED <<refs, session, sends, con, up, posted, timers, slots, packets, jobs,
                   inputs>>
    /\ Stay

DcCancelRecv(t, s) ==
    /\ At(t, "dcCancel2") /\ at[t] = s
    /\ Cancel(s, "recv", "dead")
    /\ Goto(t, "dec")
    /\ UNCHANGED <<refs, session, sends, con, up, posted, timers, slots, packets, jobs,
                   inputs>>
    /\ Stay

-----------------------------------------------------------------------------
(* Dropping a reference and ReleaseSession *)

\* if (InterlockedDecrement(&refCnt_) == 0) ReleaseSession(pSession)
Decrement(t, s) ==
    /\ At(t, "dec") /\ at[t] = s
    /\ refCnt' = [refCnt EXCEPT ![s] = @ - 1]
    /\ IF refCnt[s] = 1 /\ ~released[s]
       THEN Goto(t, "rel") /\ UNCHANGED nest
       ELSE Return(t)
    /\ UNCHANGED <<released, session, sends, kernel, slots, at, calls, packets, jobs,
                   inputs, crashed>>

\* InterlockedCompareExchange(&refCnt_, RELEASE_FLAG | 0, 0) != 0
MayReleaseAlways(s) == TRUE                                  \* mutant
MayRelease(s) == refCnt[s] = 0 /\ ~released[s]

ReleaseSession(t, s) ==
    /\ At(t, "rel") /\ at[t] = s
    /\ IF MayRelease(s)
       THEN /\ released' = [released EXCEPT ![s] = TRUE]
            /\ Goto(t, "relNotify")
            /\ UNCHANGED nest
       ELSE Return(t) /\ UNCHANGED released
    /\ UNCHANGED <<refCnt, session, sends, kernel, slots, at, calls, packets, jobs,
                   inputs, crashed>>

\* Unreference what is in pSendPacketArr_ and sendPacketQ_.  lSendBufNum_ keeps
\* its value: Init resets it.
DrainArrayOnly(s) == Unref(sendArr[s]) /\ UNCHANGED sendQ     \* mutant
DrainQueueOnly(s) ==                                         \* mutant
    /\ Unref(sendQ[s])
    /\ sendQ' = [sendQ EXCEPT ![s] = <<>>]
Drain(s) ==
    /\ Unref(sendArr[s] \o sendQ[s])
    /\ sendQ' = [sendQ EXCEPT ![s] = <<>>]

\* After draining, closesocket and OnRelease
RelNotify(t, s) ==
    /\ At(t, "relNotify") /\ at[t] = s
    /\ Drain(s)
    /\ up' = [up EXCEPT ![s] = FALSE]
    /\ Post("ON_RELEASE", id[s])
    /\ Goto(t, "relPush")
    /\ UNCHANGED <<refs, session, sendArr, con, io, posted, timers, slots, sp, made,
                   inputs>>
    /\ Stay

\* DisconnectStack_.Push
RelPush(t, s) ==
    /\ At(t, "relPush") /\ at[t] = s
    /\ stack' = <<s>> \o stack
    /\ Return(t)
    /\ UNCHANGED <<refs, session, sends, kernel, reconQ, ids, at, calls, packets, jobs,
                   inputs, crashed>>

-----------------------------------------------------------------------------
(* IOCPWorkerThread: what a worker takes from the completion port *)

Take(w, s) == At(w, "idle") /\ at' = [at EXCEPT ![w] = s]

\* CONNECT with success: ConnectProc's InterlockedIncrement ...
GetConnect(w, s) ==
    /\ Take(w, s) /\ con[s] = "done"
    /\ con' = [con EXCEPT ![s] = "none"]
    /\ refCnt' = [refCnt EXCEPT ![s] = @ + 1]
    /\ Goto(w, "cnClear")
    /\ UNCHANGED <<released, session, sends, up, io, posted, timers, slots, nest, calls,
                   packets, jobs, inputs, crashed>>

\* ... InterlockedAnd(&refCnt_, ~RELEASE_FLAG), and a setsockopt that succeeds ...
CnClear(w, s) ==
    /\ At(w, "cnClear") /\ at[w] = s
    /\ released' = [released EXCEPT ![s] = FALSE]
    /\ Goto(w, "cnInit")
    /\ UNCHANGED <<refCnt, session, sends, kernel, slots, packets, jobs, inputs>> /\ Stay

\* ... and Init with a fresh id, OnConnect, on to RecvPost
CnInit(w, s) ==
    /\ At(w, "cnInit") /\ at[w] = s
    /\ ids' = ids + 1
    /\ id' = [id EXCEPT ![s] = <<ids, s>>]
    /\ sending' = [sending EXCEPT ![s] = FALSE]
    /\ disc' = [disc EXCEPT ![s] = FALSE]
    /\ sendArr' = [sendArr EXCEPT ![s] = <<>>]
    /\ Post("CONNECT_SUCCESS", <<ids, s>>)
    /\ Goto(w, "rpost")
    /\ UNCHANGED <<refs, retry, sendQ, kernel, stack, reconQ, packets, inputs>> /\ Stay

\* Another attempt: the session goes to ReconnectQ_, its timer follows.
RequeueTimerOnly(w, s) == Goto(w, "cfTimer") /\ UNCHANGED slots  \* mutant
RequeueNoTimer(w, s) ==                                      \* mutant
    /\ reconQ' = Append(reconQ, s)
    /\ Goto(w, "idle")
    /\ UNCHANGED <<stack, ids>>
Requeue(w, s) ==
    /\ reconQ' = Append(reconQ, s)
    /\ Goto(w, "cfTimer")
    /\ UNCHANGED <<stack, ids>>

\* No attempt left: the slot is pushed first and OnAutoResetAllFailed follows.
GiveUpLost(w, s) == Goto(w, "cfNotify") /\ UNCHANGED slots    \* mutant
GiveUp(w, s) ==
    /\ stack' = <<s>> \o stack
    /\ Goto(w, "cfNotify")
    /\ UNCHANGED <<reconQ, ids>>

\* CONNECT with failure: closesocket, OnConnectFailed, then either the
\* ReconnectQ_ or, after the last attempt, the DisconnectStack_ (bAutoReconnect_
\* is TRUE of both clients) ...
GetConnectFail(w, s) ==
    /\ Take(w, s) /\ con[s] = "failed"
    /\ con' = [con EXCEPT ![s] = "none"]
    /\ Post("CONNECT_FAIL", id[s])
    /\ retry' = [retry EXCEPT ![s] = @ - 1]
    /\ IF retry[s] - 1 > 0 THEN Requeue(w, s) ELSE GiveUp(w, s)
    /\ UNCHANGED <<refs, id, disc, sending, sends, up, io, posted, timers, nest, calls,
                   packets, inputs, crashed>>

\* ... followed by CreateTimerQueueTimer ...
CfTimer(w) ==
    /\ At(w, "cfTimer")
    /\ timers' = timers + 1
    /\ Goto(w, "idle")
    /\ UNCHANGED <<refs, session, sends, con, up, io, posted, slots, packets, jobs,
                   inputs>>
    /\ Stay

\* ... or by OnAutoResetAllFailed
CfNotifySilent(w) ==                                         \* mutant
    /\ At(w, "cfNotify")
    /\ Goto(w, "idle")
    /\ UNCHANGED <<refs, session, sends, kernel, slots, packets, jobs, inputs>> /\ Stay
CfNotify(w) ==
    /\ At(w, "cfNotify")
    /\ Post("ALL_RECONNECT_FAIL", NoId)
    /\ Goto(w, "idle")
    /\ UNCHANGED <<refs, session, sends, kernel, slots, packets, inputs>> /\ Stay

\* RECONNECT: ConnectPost(true, ..) on the slot the timer posted
GetReconnect(w, s) ==
    /\ Take(w, s) /\ s \in posted
    /\ posted' = posted \ {s}
    /\ con' = [con EXCEPT ![s] = "posted"]
    /\ UNCHANGED <<refs, session, sends, up, io, timers, slots, pc, nest, calls, packets,
                   jobs, inputs, crashed>>

\* A recv or a send that ended without bytes: straight to the decrement
GetDead(w, s) ==
    /\ Take(w, s)
    /\ \E k \in {"dead", "fail"} : Taken(s, k)
    /\ Goto(w, "dec")
    /\ UNCHANGED <<refs, session, sends, con, up, posted, timers, slots, nest, calls,
                   packets, jobs, inputs, crashed>>

GetRecv(w, s) ==
    /\ Take(w, s) /\ Taken(s, "data")
    /\ Goto(w, "recv")
    /\ UNCHANGED <<refs, session, sends, con, up, posted, timers, slots, nest, calls,
                   packets, jobs, inputs, crashed>>

\* SendProc: lSendBufNum_ exchanged with 0, those packets unreferenced ...
GetSent(w, s) ==
    /\ Take(w, s) /\ Taken(s, "sent")
    /\ Unref(sendArr[s])
    /\ sendArr' = [sendArr EXCEPT ![s] = <<>>]
    /\ Goto(w, "snClear")
    /\ UNCHANGED <<refs, session, sendQ, con, up, posted, timers, slots, nest, calls,
                   sp, made, jobs, inputs, crashed>>

\* ... bSendingInProgress_ reset, then SendPost
SnClear(w, s) ==
    /\ At(w, "snClear") /\ at[w] = s
    /\ sending' = [sending EXCEPT ![s] = FALSE]
    /\ Goto(w, "post")
    /\ UNCHANGED <<refs, id, disc, retry, sends, kernel, slots, packets, jobs, inputs>>
    /\ Stay

\* RecvProc's loop.  A whole message goes to OnRecv ...
RecvMessage(w, s) ==
    /\ At(w, "recv") /\ at[w] = s /\ inputs < 2 * MaxInputs /\ MoreTraffic
    /\ inputs' = inputs + 1
    /\ Post("RECV_MESSAGE", id[s])
    /\ UNCHANGED <<refs, session, sends, kernel, slots, pc, packets>> /\ Stay

\* ... a malformed one ends in Disconnect(pSession->id_) ...
RecvBad(w, s) ==
    /\ At(w, "recv") /\ at[w] = s
    /\ nest' = [nest EXCEPT ![w] = TRUE]
    /\ Enter(w, s, "dcCheck")
    /\ UNCHANGED <<released, session, sends, kernel, slots, at, calls, packets, jobs,
                   inputs, crashed>>

\* ... and when no whole message is left, RecvPost follows
RecvEnd(w, s) ==
    /\ At(w, "recv") /\ at[w] = s
    /\ Goto(w, "rpost")
    /\ UNCHANGED <<refs, session, sends, kernel, slots, packets, jobs, inputs>> /\ Stay

\* A recv that completed at once handled in line, though its completion comes too
RecvPostInline(w, s) ==                                      \* mutant
    /\ At(w, "rpost") /\ at[w] = s /\ up[s] /\ inputs < MaxInputs /\ MoreTraffic
    /\ inputs' = inputs + 1
    /\ refCnt' = [refCnt EXCEPT ![s] = @ + 1]
    /\ Started(s, "data")
    /\ Goto(w, "recv")
    /\ UNCHANGED <<released, session, sends, con, up, posted, timers, slots, packets, jobs>>
    /\ Stay

\* InterlockedIncrement and WSARecv: pends, completes at once with bytes, or fails
RecvPost(w, s) ==
    /\ At(w, "rpost") /\ at[w] = s
    /\ \/ /\ refCnt' = [refCnt EXCEPT ![s] = @ + 1]
          /\ Started(s, "recv")
          /\ Goto(w, "rpDisc")
          /\ UNCHANGED inputs
       \/ /\ up[s] /\ inputs < MaxInputs /\ MoreTraffic
          /\ inputs' = inputs + 1
          /\ refCnt' = [refCnt EXCEPT ![s] = @ + 1]
          /\ Started(s, "data")
          /\ Goto(w, "dec")
       \/ IoRefused(w, s) /\ UNCHANGED inputs
    /\ UNCHANGED <<released, session, sends, con, up, posted, timers, slots, packets, jobs>>
    /\ Stay

\* WSA_IO_PENDING: as in PostDisc
RpDiscUnchecked(w, s) ==                                     \* mutant
    /\ At(w, "rpDisc") /\ at[w] = s
    /\ Goto(w, "dec")
    /\ UNCHANGED <<refs, session, sends, kernel, slots, packets, jobs, inputs>> /\ Stay
RpDisc(w, s) ==
    /\ At(w, "rpDisc") /\ at[w] = s
    /\ IF disc[s] THEN Cancel(s, "recv", "dead") ELSE UNCHANGED io
    /\ Goto(w, "dec")
    /\ UNCHANGED <<refs, session, sends, con, up, posted, timers, slots, packets, jobs,
                   inputs>>
    /\ Stay

-----------------------------------------------------------------------------
(* The kernel and the peer *)

Outside == ~crashed /\ UNCHANGED <<refs, session, sends, thread, calls, packets, jobs,
                                   stack, ids>>

\* ConnectEx completes
ConnectDone(s) ==
    /\ Outside /\ con[s] = "posted"
    /\ \E ok \in BOOLEAN :
          /\ con' = [con EXCEPT ![s] = IF ok THEN "done" ELSE "failed"]
          /\ up' = [up EXCEPT ![s] = ok]
    /\ UNCHANGED <<io, posted, timers, reconQ, inputs, crashed>>

\* The server, or the network, ends the connection
PeerDown(s) ==
    /\ Outside /\ up[s]
    /\ up' = [up EXCEPT ![s] = FALSE]
    /\ UNCHANGED <<con, io, posted, timers, reconQ, inputs, crashed>>

\* A posted recv completes with bytes
RecvDone(s) ==
    /\ Outside /\ up[s] /\ inputs < MaxInputs /\ MoreTraffic
    /\ Complete(s, "recv", "data", 1)
    /\ inputs' = inputs + 1
    /\ UNCHANGED <<con, up, posted, timers, reconQ, crashed>>

\* A posted send completes
SendDone(s) ==
    /\ Outside /\ up[s]
    /\ Complete(s, "send", "sent", 1)
    /\ UNCHANGED <<con, up, posted, timers, reconQ, inputs, crashed>>

\* What is posted on a dead connection completes without bytes
IoDead(s) ==
    /\ Outside /\ ~up[s]
    /\ Complete(s, "recv", "dead", 1) \/ Complete(s, "send", "fail", 1)
    /\ UNCHANGED <<con, up, posted, timers, reconQ, inputs, crashed>>

\* ReconnectTimer: PostQueuedCompletionStatus for Dequeue().value(), which throws
\* on an empty ReconnectQ_
TimerFire ==
    /\ Outside /\ timers > 0
    /\ timers' = timers - 1
    /\ IF reconQ = <<>>
       THEN crashed' = TRUE /\ UNCHANGED <<posted, reconQ>>
       ELSE /\ posted' = posted \cup {Head(reconQ)}
            /\ reconQ' = Tail(reconQ)
            /\ UNCHANGED crashed
    /\ UNCHANGED <<con, up, io, inputs>>

-----------------------------------------------------------------------------
\* A thread inside SendPost, Disconnect or ReleaseSession
CallStep(t, s) ==
    \/ SpCheck(t, s) \/ SpEnq(t, s)
    \/ SendPost(t, s) \/ PostX(t, s) \/ PostN(t, s) \/ PostU(t, s)
    \/ PostIo(t, s) \/ PostDisc(t, s)
    \/ DcCheck(t, s) \/ DcX(t, s) \/ DcCancelSend(t, s) \/ DcCancelRecv(t, s)
    \/ Decrement(t, s) \/ ReleaseSession(t, s) \/ RelNotify(t, s) \/ RelPush(t, s)

\* A worker handling a completion it has taken
HandleStep(w, s) ==
    \/ CnClear(w, s) \/ CnInit(w, s) \/ SnClear(w, s)
    \/ RecvMessage(w, s) \/ RecvBad(w, s) \/ RecvEnd(w, s)
    \/ RecvPost(w, s) \/ RpDisc(w, s)

\* A worker taking a completion
GetStep(w, s) ==
    \/ GetConnect(w, s) \/ GetConnectFail(w, s) \/ GetReconnect(w, s)
    \/ GetDead(w, s) \/ GetRecv(w, s) \/ GetSent(w, s)

KernelStep(s) ==
    \/ ConnectDone(s) \/ PeerDown(s) \/ RecvDone(s) \/ SendDone(s) \/ IoDead(s)

OwnerStep == TakeJob \/ Connect \/ SendPacket \/ Disconnect \/ FreeSmart

Next ==
    \/ OwnerStep
    \/ \E t \in Threads, s \in Sessions : CallStep(t, s)
    \/ \E w \in Workers, s \in Sessions : HandleStep(w, s) \/ GetStep(w, s)
    \/ \E w \in Workers : CfTimer(w) \/ CfNotify(w)
    \/ \E s \in Sessions : KernelStep(s)
    \/ TimerFire

Spec == Init /\ [][Next]_vars
=============================================================================
