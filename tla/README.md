# A verification development for ChatDummy

ChatDummy is a load generator: thousands of dummy players log in at a login
server, move to a chat server and chat there, while one update thread checks that
every answer fits what its player asked. The code is C++ on Windows (IOCP). This
directory models its core in TLA+, checks it with TLC and proves part of it with
TLAPS. Source paths are relative to `src/ChatDummy/`.

## 1. The system

    server  <-- sockets -->  IOCP workers  -- RecvJob -->  g_msgQ  -->  update thread
                             (2 login, 5 chat)                          (Update.cpp)
                                   ^                                        |
                                   +--- Connect, SendPacket, Disconnect ----+

| component | state it keeps | operations | what makes it correct |
|---|---|---|---|
| NetClient (NetClient.cpp, NetClientSession.*) | per slot: `refCnt_` with `RELEASE_FLAG`, `id_`, send queue and array, flags; `DisconnectStack_`, `ReconnectQ_` | Connect, SendPacket, Disconnect; worker loop; reconnect timer | no slot released in use, none lost or doubled; one send and one recv at a time; no packet lost, leaked or stranded |
| callbacks (LoginDummy.cpp, ChatDummy.cpp, RecvJob.h) | `g_msgQ` | OnConnect, OnRecv, OnRelease, OnConnectFailed, OnAutoResetAllFailed: each appends a job | jobs of a connection in order, one answer for each Connect |
| players (Update.cpp, Player.h, State.h) | players, three maps, `g_moveQ`, account stack, counters | the job handlers, the loops of `Update` | no account and no slot lost or used twice; every answer finds its player ready for it |
| CLockFreeStack, CLockFreeQueue | linked nodes, words of pointer and count | Push, Pop; Enqueue, Dequeue | each call happens at one instant; a node reused in between is noticed; `num_` never promises what is not there |
| CTlsObjectPool | a bucket per thread, a lock-free queue of buckets | Alloc, Free | an object has one user at a time, no bucket is lost |
| RingBuffer and the framing of RecvProc | positions in a byte array | Dequeue, Peek, direct sizes, moves; RecvPost, RecvProc | messages come out as they went in, and a whole one is found |
| Packet, SmartPacket | buffer, positions, `refCnt_` | fields, Resize, header, encode and decode, references | freed exactly once; what was put in comes out |
| CLockFreeObjectPool, UpdateBase, Scheduler, CLinkedList, HMonitor | - | - | compiled but not used by the program |
| AccountInfo, Lyrics, MakePacket, Monitor, main | configuration, output | - | - |

What is hard: the slot of a session is used by workers, timers and the update
thread at the same time, with one interlocked word to keep them apart; completions
of one connection are handled by different workers; slots and ids are reused;
`Disconnect` is asynchronous; the update thread looks players up without a check
because it trusts the order of the jobs. Below all of it lie a stack, a queue and a pool
without locks, which reuse their nodes and tell them apart by 17 bits. `PROJECT.json` lists every such place
under "hazards" with the properties that watch it.

## 2. The modules

### NetClient.tla, NetClientProps.tla

One instance of `NetClient` with its worker threads, its kernel (ConnectEx,
overlapped I/O, timers) and `Owner`, the update thread. One step is one shared
access: an interlocked operation, a queue or stack operation, a system call. What
the code does between two of them with data no other thread sees is part of the
step before.

| code | model |
|---|---|
| `refCnt_` and its top bit | `refCnt[s]`, `released[s]` (always changed as one word) |
| `id_ = counter << 16 ^ index` | `id[s] = <<counter, index>>` |
| `bDisconnectCalled_`, `bSendingInProgress_`, `reConnectCnt_` | `disc`, `sending`, `retry` |
| `sendPacketQ_`; `pSendPacketArr_[0..lSendBufNum_-1]` | `sendQ`; `sendArr` |
| a worker inside a function | `pc[t]`, `at[t]` (its slot), `nest[t]` (in RecvProc's own Disconnect) |
| an OVERLAPPED with the kernel, or in the completion port | `io[s][kind]` |
| CONNECT and RECONNECT completions | `con[s]`, `posted` |
| `g_msgQ` as far as this client writes it | `jobs` |

`SendPacket` is `SendPacket, SpCheck, SpEnq, SendPost, PostX, PostN, (PostU), PostIo,
PostDisc, Decrement`; `Disconnect` is `Disconnect, DcCheck, DcX, DcCancelSend,
DcCancelRecv, Decrement`; `ReleaseSession` is `ReleaseSession, RelNotify, RelPush`;
a worker takes a completion in a `Get...` step and goes on from there.

Abstracted: payloads and framing (a chunk of bytes gives any number of messages or
a malformed one; `Framing` looks inside); the lock-free queue, stack and pools (atomic;
`LockFreeStack`, `LockFreeQueue` and `TlsObjectPool` look inside). `WSASend` and
`WSARecv` may pend, complete at once or fail at any time; their `+1, -1` on the
reference count after a failure is left out, since the caller holds a reference of its
own over it. The stores of `Init` and the job of `OnConnect` are one step: only a stale
caller could see the order, and it is enough for it to come between `CnClear` and
`CnInit`.

`NoEarlyCall` says that no call of the update thread does come there. It is a rule for the client
and no property: nothing in NetClient sees to it, ChatDummy breaks it (`net_stale`), and the
theorems that rest on it name it as their condition (section 4). `PacketExact`
counts the places of a packet: each position of a send queue (`Spots`) and of the array of a
slot that is still owned (`Arrays`) drops one reference. `Phase`, `Pending` and `Queue` are the
mapping to ClientEvents: the state of each value of `ullIdCounter_`, the slots and timers that
still owe an answer, and the jobs with the handle reduced to that value.

### ClientEvents.tla

What a NetClient promises the update thread: every Connect has one answer, and the
jobs of one id are CONNECT_SUCCESS, RECV_MESSAGE*, ON_RELEASE. NetClient implements it
(`EventStream`, an `INSTANCE ... WITH` over NetClient's state), and Contents uses
it as its environment, so that what Contents assumes of its clients is what
NetClient was checked for.

### Contents.tla, ContentsProps.tla

The update thread: `RecvLoginJob`, `RecvChatJob`, `RecvChatMessage` with one action
per case, `Update`'s loops with one action per element, two copies of ClientEvents
below and external servers. A server answers every request at most once and in the
expected way, forwards messages of other players only to sessions that asked to
enter a sector, and may end any session at any time. It is assumed to drop the old
session of a duplicate login before it lets the new one into a sector. `rand()`,
clocks and the keyboard's modes are free choices. `broken` is set where the code
reaches a `__debugbreak` or an undefined access.

The loops of one `Update` pass come in any order: passes whose drain finds nothing
may lie between, and what the clients tell in the meantime may as well come later.

In the other direction `ChatFits` gives NetClient what its `Connect` relies on: never
more than `maxSession_` connections at a time.

### AddressTranslator.tla

The tagged pointer: a word is the pair of a count and an address, and `GetCnt` counts
modulo `COUNTER_MAX` (131072 in the code). Stack, queue and pool are built on it.

### LockFreeStack.tla, AtomicStack.tla

`Push` and `Pop` of any number of threads, one step for each access to shared memory.
Each thread has the code's local variables: `old` is `metaTop`, `new` is `newMetaTop`,
`node` the node it owns. Nodes come from the pool and go back to it, so a thread may
follow the link of a node that has left the stack. `list` is a history variable: the nodes
of the stack. `num_`, which nothing reads, is left out. `AtomicStack` is what the users
rely on; `StackAtomic` maps the nodes' values to its items and the steps between the
compare-exchange of a Pop and its return to its answers.

### LockFreeQueue.tla, AtomicQueue.tla

`Enqueue` and `Dequeue` on several queues that take their nodes from one pool, as
`sendPacketQ_` of all sessions do. The 128-bit `next_` (queue identifier and word) is
compared as one but read in two halves, as the code reads it. Values are named by the
word under which they were linked. `num_` is a variable: `Dequeue` lowers it before it
takes, and loops until it has its node. `AtomicQueue` has the size as a thing of its own,
since a caller may see it before and after the take.

### TlsObjectPool.tla

The variant with `QUEUE`, which every user compiles. `tls` is the thread-local bucket,
`allocCnt` and `freeCnt` its counters, `held` the objects the program has. The bucket
queue of `AllocBucket` and `Free` is modelled by the shared access, lagging tail, tag
check and `size_` included. `capacity_` and `AllocSize_`, which nothing reads, are left out.

### RingBuffer.tla, Packet.tla, Framing.tla

`RingBuffer` has the macros and operations the program calls, as operators on records.
`Packet` has fields, `Resize`, header, checksum, `Encode` and `Decode`; a byte has `BYTE`
values, its exclusive or is the table `ByteXor`, and `payloadLen_` is one cell (two bytes in the
code). Checksum, `Encode` and the building of a packet are recursive functions. `Framing` composes them: the
peer builds messages, sends them as they are, with a wrong code or with another last byte (of
other changes a checksum of one byte may miss some, so that nothing is claimed of them);
the network delivers them in any pieces into the two WSABUFs of `RecvPost`; `RecvProc` is
one action per way out of a round of its loop. One receive is outstanding at a time, which
is NetClient's `OneRecv`, so that it needs no interleaving of its own.

### Proofs

`NetClientProofs.tla`, `NetClientSendProofs.tla`, `NetClientEventProofs.tla`,
`ContentsProofs.tla`, `LockFreeStackProofs.tla`, `LockFreeQueueProofs.tla`,
`TlsObjectPoolProofs.tla`, `FramingProofs.tla`: section 4.

### MC*.tla

The instances TLC runs: symmetry sets, and the messages and the `XorTable` of `MCFraming`.

## 3. The runs

Deadlock is not checked: with its bounds used up a system stops.

| run | instance | properties |
|---|---|---|
| `net_reuse` | 2 slots, 2 workers, 2 connects, 1 input, 1 attempt, late calls, traffic of 3 | `RefExact`, `UseSafe`, `SlotOnce`, `OneRecv`, `EventStream` |
| `net_live` | 1 slot, 2 workers, 2 connects of 2 attempts, 3 packets, array of 2, traffic of 4; fair | `TypeOK`, `CleanSlot`, `PacketExact`, `OneSend`, `NoStrandedPacket`, `TimerFindsSession`, `ComesToRest` |
| `contents_modes` | 2 slots, 2 logins, duplicate and timeout tests, 1 message of another; fair | `TypeOK`, `NoBreak`, `OnePlace`, `MoveQMatches`, `TestedStayQuiet`, `GaugesExact`, `DisconnectHappens` |
| `contents_duplicate` | 2 slots, 3 logins, duplicate logins | `SlotsConserved`, `AccountOnce`, `ChatFits`, `ReplacedWaits` |
| `stack` | 2 threads, 3 nodes, 2 values, 3 counts | `WellFormed`, `StackAtomic` |
| `queue` | 2 threads, 2 queues, 4 nodes, 2 counts | `WellFormed`, `NeverSpins`, `NumExact`, `QueueAtomic` |
| `pool` | 2 threads, 4 buckets of 2 objects, 3 counts | `WellFormed`, `BucketExact`, `NoneLost`, `SizeExact`, `NothingBehindAllocated` |
| `framing` | ring of 8 cells, bytes of 4 values, 2 messages on each of 2 connections; fair | `InOrder`, `RingExact`, `PostedRight`, `CodecInverse`, `Delivered` |
| `net_stale`, `net_slot`, `contents_login_gauge`, `pool_tag` | the smallest that show it | one each, violated: see section 5 |

Symmetry: `net_reuse` under permutations of the workers,
`stack`, `queue` and `pool` under those of threads, nodes, values, queues and buckets. The
modules only compare these and choose among them by `\E` (the `CHOOSE` in the queue's
`Init` picks the one queue whose dummy a node is), and no property of these runs is a
liveness property. The runs with fairness use none.

Bounds. Two workers and the update thread are three parties on one slot, enough for any two
to disagree and the third to release; the same code runs in all workers. Two connects on two
slots let a slot be reused while the other is alive, and two on one slot let a packet of the
first meet the second. Three packets are needed for the stall of NetClient.cpp:452 (one in
flight, one taken by another thread, one left over), and with an array of two (`Batch`; 50
in the code) a full array leaves one behind. One input is a chunk of bytes with a message in
it. `MaxTraffic` bounds connects, packets, chunks and messages together: in `net_live` three
packets over one connection or two over two, in `net_reuse` two connections and a chunk or
one connection, its chunk and its message. `LateCalls` lets the owner use a handle whose
slot it has handed out again, which the update thread can do within one pass. Three logins
on two slots let a duplicate login's new player be replaced in its turn. Two threads on the
stack, the queue and the pool: one that stalls between two accesses while the other takes
out, frees and reuses what it holds, with a node to spare; calls are not bounded there. The
counts of two or three wrap all the time, so that what is checked does not depend on their
number (see `Recurs`). Two queues are needed for a node to change queue under a waiting
Enqueue. Four buckets give each thread one of its own and two to exchange. The ring of 8 is
shorter than two messages and their headers, so that payload and header each lie across its
end; of the four messages one has no place beside its header and one is longer than the
ring. Integers stay far from their width: ids have 48 bits, and `refCnt_` is bounded by
threads and outstanding I/O (proved, see below).

Assumptions that are constants. `Recurs = FALSE`: no thread stalls so long between its read
and its compare-exchange that its node gets the same count again, which takes 131072
counts; 17 bits cannot exclude it, and with `TRUE` the runs break the list at once.
`ZeroRecycled = FALSE`: no Free stalls under count 0 while its bucket is reset, which is
`pool_tag`. `FreedNodeIntact = TRUE`: Update.cpp:558 reads a map node it has just erased;
with `FALSE` `NoBreak` fails at once. `Framing` takes a message that fits the ring to fit its
packet: RecvProc never calls `Resize` (NetClient.cpp:601).

Fairness. `net_live`: while workers, completion port and kernel can do something they do
something, and the update thread finishes the call it is in. So threads run, completions
are taken by some worker, ConnectEx and posted sends complete, timers fire, and I/O on a
dead connection completes. Nothing makes the peer send or hang up, nor the update thread
call. `ComesToRest` then says that whatever was begun is ended, again and again: a
disconnected session is released, whichever of the receive loop, the send loop and the
CancelIoEx calls comes last; a connect ends in a connection or with its slot free again; a
packet is freed, unless a failed WSASend keeps it for as long as its connection lasts. There
is no input in this run: a `WSARecv` that always completes at once would keep a worker from ever
looking at `bDisconnectCalled_` (NetClient.cpp:517). `contents_modes`: `while (!g_bShutDown)`
keeps the update thread going; the clients answer each Connect and release what was
disconnected, which is `ComesToRest` of NetClient. The servers need not answer. `framing`:
TCP delivers what was sent, and a worker finishes the completion it took; `Delivered` then
says that what fits arrives without a further message pushing it.

Every property of a passing run has a mutant in `PROJECT.json`: a plausible bug in
one definition under which TLC finds the property violated.

## 4. What is proved

`NetClientProofs.tla`, for every number of slots, workers, attempts, packets and calls,
with WSASend and WSARecv failing at any time:

- `TypeCorrect`: `Spec => []TypeOK`.
- `RefCounted`: `Spec => []RefExact`. `refCnt_` is the number of threads at a place
  where they hold a reference, plus one for each nested Disconnect, plus the I/O
  outstanding on the slot.
- `ReleaseSafe`: `Spec => []UseSafe`. A slot is not released while a thread works on
  it or I/O is outstanding.

The argument. `UseSafe` is not inductive alone: that the compare-exchange of
`ReleaseSession` sees 0 says nothing unless the count is exact. `RefExact` is not
inductive alone either: a nested Disconnect must return into a worker that still
holds its own reference. The invariant is
`RefInv == TypeOK /\ SendingPacket /\ NestedInDisconnect /\ RefExact /\ UseSafe`.
A step of a thread changes one thread's label, one slot's count and one slot's I/O,
so the lemmas come in families: which threads hold and which nest before and after
(`KeepsReference`, `TakesReference`, `KeepsOut`, ...), what this does to the
cardinalities (`CardSplit`, `RefsMove`), and the actions, each put in its family.
`StepBalanced` is `RefExact` for each action; `KeepsAll`, `NestKept`, `UsersKept`
and `OutstandingKept` are the rest. The assumptions are the named `ASSUME`s of
NetClient: a positive number of slots, finitely many workers other than the owner,
bounds that are natural numbers.

`NetClientProofs.tla`, its second half, from `RefInv`, again for every choice of the constants:

- `OnePlaceOnly`: `Spec => []SlotOnce`. A slot is free, connecting, in use or being released,
  in exactly one place.
- `TimersMatch`: `Spec => []TimerFindsSession`.
- `RecvAlone`: `Spec => []OneRecv`.

`SlotOnce` needs `RefInv`: that one thread only passes the compare-exchange of
`ReleaseSession` follows from `UseSafe`. Each action takes a slot from one of the four terms
and gives it to another, or leaves all four. `OneRecv` is inductive with `SlotOnce`, in the
form `RecvOnce`: before `CnInit` and after the release there is no recv at all.

`NetClientSendProofs.tla`: under `[]NoEarlyCall`

- `SendsAlone`: `Spec /\ []NoEarlyCall => []OneSend`,
- `SlotsClean`, `PacketsMove`, `PacketsCounted`: the same of `CleanSlot`, `NoStrandedPacket`
  and `PacketExact`.

The hypothesis is needed, not convenient: a call between the reset of `RELEASE_FLAG` and `Init`
puts a packet into a queue that belongs to no connection yet, or takes `bSendingInProgress_`
just before `Init` clears it. `net_stale` is such a call. The client has to keep the rule, and
with several slots forgetting a handle on reuse is not enough: the `CONNECT_SUCCESS` of the last
connection may still be in `g_msgQ` when `Connect` hands its slot out again. In `net_live`, with
one slot and `LateCalls = FALSE`, no early call can come up: it shows the four properties where
their condition is met and says nothing of the condition. `SendInv` says who may be at which
label on a slot in which condition (a live slot whose flag is up has one party at the send, a
slot that is not owned has no packets); `PacketInv` adds that the owner's packet and its label
agree, and `PacketExact` follows by counting positions: an append, a take, and the move from
queue to array each have a lemma on `Spots`.

`NetClientEventProofs.tla`:

- `EventsInOrder`: `Spec => EventStream`, the refinement of ClientEvents, early calls or not.
  `EventInv` has what the mapping needs: ids grow and no two owned slots share one (`IdInv`),
  and no more Connects are under way than were called (`Budget`). Each action of NetClient is a
  step of ClientEvents or a stutter.

`ContentsProofs.tla`, for every number of slots and logins, both modes and any servers:

- `ContentsTyped` (`TypeOK`), `SlotsKept` (`SlotsConserved`), `AccountsKept` (`AccountOnce`),
  `MoveQKept` (`MoveQMatches`), `GaugesKept` (`GaugesExact`), `PlayersInPlace` (`OnePlace`),
  `TestedQuiet` (`TestedStayQuiet`), `ChatHasRoom` (`ChatFits`), and the action property
  `ReplacedIsLeft` (`ReplacedWaits`), each of them `Spec => [](...)`.
- `NeverBreaks`: `Spec => []NoBreak`, assuming `FreedNodeIntact = TRUE`. No job finds its player
  missing or in a state it does not expect, so that the update thread may look players up
  without a check.

The argument. `NoBreak` is about what the update thread relies on, hence about the jobs to
come: `ContentsInv` is `TypeOK`, the four conservation properties above, and

- `ClientsOk`: of each id, what ClientEvents can still have in its queue and in which order;
- `MapsOk`: a player is in a map as long as its connection is announced and not over;
- `PlacesOk`: the state of a player says in which of the maps and queues it is;
- `FieldsOk`: which flags go with which state;
- `RepliesOk`: a reply is only ever on its way to a player that waits for it, and one at a time.

None of these is inductive without the others: that a reply finds its player in the right
state (`RepliesOk`) needs the flags, the flags need the place, the place needs the job order.
`StepIs` gives the steps from such a state their shape: no branch that sets `broken` is
enabled. Then each part has a lemma over these shapes. The assumptions are the named `ASSUME`s
of Contents.

`LockFreeStackProofs.tla`, for every number of threads, nodes, values and counts, assuming
`Recurs = FALSE`:

- `StackWhole`: `Spec => []WellFormed`. The words from `metaTop_` on spell the stack, and a
  node is in the pool, in the stack or with one thread.
- `StackImplements`: `Spec => StackAtomic`. Every step of Push and Pop is one step of
  `AtomicStack`, or none that it can see; the compare-exchanges are where it happens.

The argument. `Linked` is not inductive: a Pop writes a word to `metaTop_` that it read
from a node which may since have left the stack. `StackInv` adds why that is right when the
compare-exchange succeeds. `Fresh`: wherever in the stack the word is that a Pop waits for,
the next word it read is still the one behind it. This holds because only a node outside the
stack has its link written (`Quiet`), and because no word comes back under a waiting Pop:
`NeverBack`, which the count in the word keeps up, and which fails with `Recurs`. `Pushing`
is the same for Push, where nothing can go wrong: its node is its own until it is linked.
`Spelled` says `Linked` in terms of `Word(i)`, so that a Push is a shift of the words by one and
a Pop a shift back (`PushShifts`, `PopShifts`). Each part of `StackInv` has a lemma with
a case for each action; the simulation is `StepSimulates`, from `ItemsPushed` and
`ItemsPopped`.

`LockFreeQueueProofs.tla`, for every number of queues, nodes and counts and any finite set of
threads, assuming `Recurs = FALSE`:

- `QueuesWhole` (`WellFormed`), `QueuesNeverSpin` (`NeverSpins`), `QueuesCount` (`NumExact`),
  each of them `Spec => [](...)`;
- `QueueImplements`: `Spec => QueueAtomic`. The compare-exchange of `next_` is the Enqueue, that of
  `metaHead_` the Dequeue; whether a Dequeue gets a value is decided when it lowers `num_`.

The argument. The words from `metaHead_` on spell each queue (`Spelled`, in terms of `Word(q, i)`), and
the last of them is the null address under the last node's own count. `LinksLast` is the heart: the
compare-exchange of an Enqueue, which may have read its tail long ago and the 128 bits behind it in
two halves, succeeds only on the last node of its own queue. It needs that no word comes back
under a waiting call (`NeverBack`), that a node about to be linked carries its own word (`Built`), that
a node out of the queues which someone still holds as a tail is linked to another (`Spent`), and
that who has the last word of a queue had it from `metaTail_` (`Reached`). As in the stack, `Fresh`
says that what a call has read behind a word is still behind it. The tail lags by at most one node,
and only while the Enqueue that linked the last has yet to move it (`TailNear`, `Advancing`); so it
could only fall behind the head if a Dequeue took the node before the last then, and this is
what `num_` prevents (`Room`): the value just linked is not counted yet. So `NumExact` is needed for
the shape of the queue, and `Given` (`num_` below zero only for calls that will give back) to leave room for
any number of Dequeues at once. `QueueInv` is the conjunction; each part has a lemma.

`TlsObjectPoolProofs.tla`, for any finite set of threads, any buckets and every bucket size and
number of counts, assuming `Recurs = FALSE` and `ZeroRecycled = FALSE`:

- `PoolWhole` (`WellFormed`): the queue of buckets is one, its tail among the last two;
- `ObjectsOnce` (`BucketExact`): no object has two users;
- `BucketsKept` (`NoneLost`): a bucket is in one place;
- `SizeCounts` (`SizeExact`): `size_` promises no bucket that is not there;
- `NothingIsLinkedToAllocated` (`NothingBehindAllocated`): the comment at CTlsObjectPool.h:324-331,
  which `pool_tag` breaks with `ZeroRecycled = TRUE`, holds without that one stall.

The argument. The queue of buckets is that of the nodes with two differences: its links carry no
queue identifier, and a bucket taken out has its link reset to the word 0 (`Reset`). So the
proof that a compare-exchange of Free succeeds only on the last bucket (`LinksLast`) goes by the
count of the tail that Free has read: with a count other than 0 the null word it expects is found
only in the bucket that got this count and is still last; with the count 0 it might be the reset
one, which is what `ZeroKept` says does not happen. `Taken` makes the one moment between take and
reset harmless: the link there still leads to the next bucket. `NeverBack`, `Fresh`, `Reached` and
`TailNear` are as in the queue, and `SizeExact` with `Given` again keeps the tail before the head
(`Room`). The other half is about objects. `Fits` ties the counters of a bucket to its place: in the
queue or in a thread's hands all of its objects or none have been out and all are back, as a
thread's own some are still to be had, elsewhere all have been taken and some are not back. So the
thread that gives back the last one is the only one to do so (`FreedWhere`), and `PlaceOnce` moves with
it. `BucketExact` and `NoneLost` follow by counting. `PoolInv` is the conjunction; each part has
a lemma.

`FramingProofs.tla`, for every `BUFFER_SIZE` with room for a header, every number of byte
values and size of packet, all messages and keys, and all pieces in which the network delivers:

- `SizesFit`, `MovesCount`: the WSABUFs of `RecvPost` are the free part, no more, and never
  negative; n cells in or out change the use size by n, round the end or not.
- `DecodeUndoesEncode`, `AlteredTold`: `Decode` gives back checksum and payload for every key;
  cells whose last byte was altered do not validate, for a difference in the last cell stays
  one through both passes and through the checksum.
- `FieldsComeBack`: what is put into a packet comes out at the other end and none of it is
  written past the buffer, if no field is longer than the payload of a new packet (one `Resize`
  then is enough) and all fit the largest. `EveryFieldBack` is `Spec => []CodecInverse`; it
  supposes what the fields of that property need: four byte values, a new payload of two cells,
  eight cells in the largest buffer (256, 500 and 10000 in the code).
- `DeliveredInOrder`, `NoCellLost`, `PostedIsRight`: `Spec => []InOrder`, `[]RingExact` and
  `[]PostedRight`. That a forged message is not delivered is said of a wrong code and of another
  last byte, as in the model.

The argument. A message (`IsMessage`) is as long as its header says, and if `RecvProc` lets it
through it is genuine with the payload that was put in; `SendableIsMessage` shows it of all the
peer may send, from the codec. `Holds(ring, wire, sent, k)`: the cells of the ring followed by
those on the wire are those of the messages from `k + 1` on. Then a header in the ring is that
of message `k + 1` (`HeaderInFront`), so that what `RecvProc` cuts out is this message and no
other cell, and the rest `Holds` from `k + 1` on (`MessageTaken`). A completion keeps `Holds`
because the two WSABUFs are the free part in the order in which the ring is read
(`ReceivedInPlace`). The invariant `FramingInv` is `Holds` with `k` the number delivered while
the connection lasts, `InOrder`, types, and that a posted receive is still the free part with no
whole message before it (`PostedRest`). `InOrder` is not inductive without the cells, and
`RingExact` not without what was posted: ring and WSABUFs could disagree. One lemma per action.
Recursive functions come with a lemma that the function exists and one that gives its steps,
both by `Induction`, which is well-founded minimality on the natural numbers with the induction
hypothesis as a set.

The proofs assume what the constants' ASSUMEs say: of exclusive or that it maps bytes to bytes
and undoes itself (`XorAssumption`; TLC evaluates it for the `^^` of `MCFraming`), a ring with
room for a header (`RingAssumption`), messages made of bytes, sizes that are numbers.

Only model-checked: all liveness (`ComesToRest`, `DisconnectHappens`, `Delivered`). Liveness
under fairness and ENABLED are out of the prover's reach. Every safety property the passing runs
check has a theorem. Modules with theorems have no RECURSIVE operators, and the bitwise operator
is met only in `MCFraming`.

## 5. Disagreements found

- `net_stale`: the reuse check of SendPacket and Disconnect (NetClient.cpp:323-324)
  can be passed on the next connection of the slot, between `ConnectProc`'s reset of
  `RELEASE_FLAG` (32) and `Init`'s store of `id_` (NetClientSession.cpp:12). The
  update thread gets there when a slot is released and popped again by its own
  Connect (Update.cpp:240) after the drain of a pass, and it sends with the old
  handle (264) in the same pass.
- `net_slot`: `OnRelease` (564) comes before the `Push` (566) of which the comment says
  that it makes Connect possible again. With all other slots in use, a Connect made on
  that job finds the stack empty and hits the `__debugbreak` at 300.
- `contents_login_gauge`: a login timeout client whose session ends before RES_LOGIN
  stays counted in "Login Timeout Client Num".

- `pool_tag`: the comment at CTlsObjectPool.h:324-326 says that the comparison of counts keeps a
  bucket from being linked behind one that was newly allocated, and 331 that the
  compare-exchange fails without exception once the tail was recycled. `Init` (25) writes the
  count 0, so that a Free which read a tail under count 0 passes both.

The passing runs keep these apart: after the break of `net_slot` the model stops,
`LateCalls = FALSE` makes the owner forget a handle whose slot it has handed out, and
`ZeroRecycled = FALSE` leaves out the stall of `pool_tag`.

## 6. Not modelled

- NetClient: `InitialConnect` (no caller), construction and shutdown, a ConnectEx that fails at
  once (its path ends in `__debugbreak`, NetClient.cpp:426), a `setsockopt` that fails in
  `ConnectProc` (`__debugbreak` as well, 34-35), a failed connect without `bAutoReconnect_`
  (129-130; both clients are built with TRUE), `lSessionNum_`.
- Update.cpp: clocks and RTT statistics, heartbeats (no answer, no state), the write-only
  counters, `LOGIN_ACTIVATE_AT_CHAT`. The loop over `g_chatLoginPlayerMap` has a `break` at 362
  that would skip the remaining players; it is never reached, because a login timeout client
  there stays in CS_CHAT_RES_LOGIN_RECV and is skipped at 325 (`OnePlace`, `TestedStayQuiet`).
- Lock-free classes: `ClearAll` of queue and pool (for shutdown, never called), the variant of
  CTlsObjectPool with `STACK`, and CLockFreeObjectPool, which nothing instantiates.
- RingBuffer: `Enqueue` and `PeekAt` have no caller. Packet: the LAN header, which no message
  here carries, and DEBUG_LEAK with its CLinkedList. A field for which no `Resize` is left is
  appended by `Put` and told by `Overrun`, where the code throws or returns 0. Which field of a request has which
  length is left to the servers: `Build` of Framing puts any fields.
- UpdateBase and Scheduler (a frame timer nothing in the program instantiates), HMonitor
  (performance counters), Monitor (output), AccountInfo and Lyrics (files read once), main.

Hazards without a property are in `PROJECT.json` with the reason: those the models assume
away by name (`Recurs`, `FreedNodeIntact`, a message longer than its packet or shorter than
its type), a gauge no comment makes a promise about, and one of layout.

## 7. Plan

1. Done: NetClient, ClientEvents, Contents; stack, queue and pool by the shared access; ring,
   packet and framing; their runs.
2. Done: proofs of every safety property the passing runs check: NetClient and Contents, the
   refinement of ClientEvents included; the stack, the queue and the pool with theirs; ring,
   packet and framing.
3. What remains: the liveness properties stay with TLC.
