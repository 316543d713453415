--------------------------- MODULE LockFreeQueue ---------------------------
(***************************************************************************)
(* CLockFreeQueue.h: Enqueue and Dequeue of any number of threads on any   *)
(* number of queues, one step for each access to memory they share.  All   *)
(* queues of a type take their nodes from one pool, so that a thread may   *)
(* look at a node that is no longer in its queue, or is in another one.    *)
(* The counts in the words tell a node from its earlier self, and          *)
(* identifier_ in next_ tells the queues apart, whose counters are not.    *)
(*                                                                         *)
(* A value is named by the word under which its node is linked, so that    *)
(* any two values in the queues differ, and so do the values a node has    *)
(* carried one after the other.                                            *)
(***************************************************************************)
EXTENDS AddressTranslator, Sequences, FiniteSets, Functions

CONSTANTS
    Threads,
    Queues,       \* the queues; a queue stands for its identifier_
    Nodes,        \* what nodePool_ may hand out
    Nothing,      \* std::nullopt
    Recurs        \* may a count come again for a node while a thread holds both?

ASSUME NodeAssumption == NULL \notin Nodes
ASSUME ThreadAssumption == IsFiniteSet(Threads)
ASSUME RecursAssumption == Recurs \in BOOLEAN

VARIABLES
    metaHead, metaTail,    \* per queue: metaHead_, metaTail_
    metaCnt, num,          \* per queue: metaCnt_, num_
    next, data,            \* per node: next_ (identifier, metaAddr), data_
    free,                  \* nodePool_: nodes not handed out
    pc, queue,             \* per thread: label, the queue of its call
    node, new,             \* per thread: the node it owns; newTail's word
    tail, head, seen,      \* per thread: metaTail, metaHead, nextOfTail/nextOfHead
    value,                 \* per thread: retData
    chain                  \* history, per queue: its nodes, the dummy first

shared == <<metaHead, metaTail, metaCnt, num, next, data, free>>
locals == <<queue, node, new, tail, head, seen, value>>
vars == <<shared, pc, locals, chain>>

Words == Counts \X (Nodes \cup {NULL})
QNodePtr(identifier, metaAddr) == [identifier |-> identifier, metaAddr |-> metaAddr]

Labels == {"idle", "enqAlloc", "enqNode", "enqTail", "enqNext", "enqAddr",
           "enqIdentifier", "enqSwing", "enqLink", "enqAdvance", "enqCount",
           "deqRestore", "deqTail", "deqHead", "deqNext", "deqSwing", "deqData",
           "deqCas", "deqFree", "deqDone"}

\* The constructor of each queue: identifier_, the count 0, and a dummy node
Init ==
    \E dummy \in Injection(Queues, Nodes) :
        LET word(q) == GetMetaAddr(0, dummy[q])
            home(n) == CHOOSE q \in Queues : dummy[q] = n
        IN /\ metaHead = [q \in Queues |-> word(q)]
           /\ metaTail = metaHead
           /\ metaCnt = [q \in Queues |-> AfterGetCnt(0)] /\ num = [q \in Queues |-> 0]
           /\ free = Nodes \ Range(dummy)
           /\ next = [n \in Nodes |-> QNodePtr(
                IF n \in free THEN NULL ELSE home(n), ZeroWord)]
           /\ data = [n \in Nodes |-> Nothing]
           /\ chain = [q \in Queues |-> <<dummy[q]>>]
           /\ pc = [t \in Threads |-> "idle"]
           /\ queue = [t \in Threads |-> NULL] /\ node = [t \in Threads |-> NULL]
           /\ new = [t \in Threads |-> ZeroWord]
           /\ tail = [t \in Threads |-> ZeroWord] /\ head = [t \in Threads |-> ZeroWord]
           /\ seen = [t \in Threads |-> QNodePtr(NULL, ZeroWord)]
           /\ value = [t \in Threads |-> Nothing]

At(t, label) == pc[t] = label
Goto(t, label) == pc' = [pc EXCEPT ![t] = label]

\* What thread t has read is dead once its loop starts over or ends
Forget(t) ==
    /\ tail' = [tail EXCEPT ![t] = ZeroWord] /\ head' = [head EXCEPT ![t] = ZeroWord]
    /\ seen' = [seen EXCEPT ![t] = QNodePtr(NULL, ZeroWord)]

\* InterlockedCompareExchange(&metaTail_, new, expected)
SwingTail(q, expected, word) ==
    metaTail' = IF metaTail[q] = expected THEN [metaTail EXCEPT ![q] = word] ELSE metaTail

-----------------------------------------------------------------------------
(* Enqueue *)

Enqueue(t, q) ==
    /\ At(t, "idle")
    /\ queue' = [queue EXCEPT ![t] = q]
    /\ new' = [new EXCEPT ![t] = GetMetaAddr(metaCnt[q], NULL)]
    /\ metaCnt' = [metaCnt EXCEPT ![q] = AfterGetCnt(@)]
    /\ Goto(t, "enqAlloc")
    /\ UNCHANGED <<metaHead, metaTail, num, next, data, free, node, tail, head, seen, value, chain>>

\* The counts of a queue are distinct until COUNTER_MAX of them are used up.
\* Unless Recurs, no node gets a count under which a call on the queue knew it.
NoRecurrence(q, word) ==
    Recurs \/ \A u \in Threads : queue[u] = q => word \notin {tail[u], head[u]}

\* nodePool_.Alloc; the constructor writes data_ and identifier_ ...
EnqAlloc(t) ==
    /\ At(t, "enqAlloc")
    /\ \E n \in free :
        LET word == GetMetaAddr(ExtractMetaCnt(new[t]), n)
        IN /\ NoRecurrence(queue[t], word)
           /\ free' = free \ {n}
           /\ node' = [node EXCEPT ![t] = n]
           /\ new' = [new EXCEPT ![t] = word]
           /\ data' = [data EXCEPT ![n] = word]
           /\ next' = [next EXCEPT ![n].identifier = queue[t]]
    /\ Goto(t, "enqNode")
    /\ UNCHANGED <<metaHead, metaTail, metaCnt, num, queue, tail, head, seen, value, chain>>

\* ... and then metaAddr_
EnqNodeZero(t) ==                                               \* mutant
    /\ At(t, "enqNode")
    /\ next' = [next EXCEPT ![node[t]].metaAddr = ZeroWord]
    /\ Goto(t, "enqTail")
    /\ UNCHANGED <<metaHead, metaTail, metaCnt, num, data, free, locals, chain>>
EnqNode(t) ==
    /\ At(t, "enqNode")
    /\ next' = [next EXCEPT ![node[t]].metaAddr = GetMetaAddr(ExtractMetaCnt(new[t]), NULL)]
    /\ Goto(t, "enqTail")
    /\ UNCHANGED <<metaHead, metaTail, metaCnt, num, data, free, locals, chain>>

EnqTail(t) ==
    /\ At(t, "enqTail")
    /\ tail' = [tail EXCEPT ![t] = metaTail[queue[t]]]
    /\ Goto(t, "enqNext")
    /\ UNCHANGED <<shared, queue, node, new, head, seen, value, chain>>

\* nextOfTail = pRealTail->next_ is copied in two halves, in either order
TailNext(t) == next[GetRealAddr(tail[t])]

EnqReadFirst(t) ==
    /\ At(t, "enqNext")
    /\ \/ /\ seen' = [seen EXCEPT ![t].metaAddr = TailNext(t).metaAddr]
          /\ Goto(t, "enqIdentifier")
       \/ /\ seen' = [seen EXCEPT ![t].identifier = TailNext(t).identifier]
          /\ Goto(t, "enqAddr")
    /\ UNCHANGED <<shared, queue, node, new, tail, head, value, chain>>

\* The second half, and where the three conditions then lead
SwingFirst(t, next_) == GetRealAddr(next_.metaAddr) # NULL
StillTailAnyQueue(t, next_) ==                                  \* mutant
    /\ ExtractMetaCnt(tail[t]) = ExtractMetaCnt(next_.metaAddr)
StillTail(t, next_) ==
    /\ ExtractMetaCnt(tail[t]) = ExtractMetaCnt(next_.metaAddr)
    /\ queue[t] = next_.identifier

EnqReadSecond(t) ==
    /\ pc[t] \in {"enqAddr", "enqIdentifier"}
    /\ LET next_ == IF At(t, "enqAddr")
                    THEN [seen[t] EXCEPT !.metaAddr = TailNext(t).metaAddr]
                    ELSE [seen[t] EXCEPT !.identifier = TailNext(t).identifier]
       IN IF SwingFirst(t, next_) \/ StillTail(t, next_)
          THEN /\ Goto(t, IF SwingFirst(t, next_) THEN "enqSwing" ELSE "enqLink")
               /\ seen' = [seen EXCEPT ![t] = next_]
               /\ UNCHANGED <<tail, head>>
          ELSE Goto(t, "enqTail") /\ Forget(t)
    /\ UNCHANGED <<shared, queue, node, new, value, chain>>

EnqSwing(t) ==
    /\ At(t, "enqSwing")
    /\ SwingTail(queue[t], tail[t], seen[t].metaAddr)
    /\ Goto(t, "enqTail")
    /\ Forget(t)
    /\ UNCHANGED <<metaHead, metaCnt, num, next, data, free, queue, node, new, value, chain>>

\* InterlockedCompareExchange128 of next_ of the tail: the new node is in the queue
EnqLink(t) ==
    /\ At(t, "enqLink")
    /\ IF TailNext(t) = seen[t]
       THEN /\ next' = [next EXCEPT ![GetRealAddr(tail[t])] = QNodePtr(queue[t], new[t])]
            /\ chain' = [chain EXCEPT ![queue[t]] = Append(@, node[t])]
            /\ node' = [node EXCEPT ![t] = NULL]
            /\ Goto(t, "enqAdvance")
            /\ UNCHANGED <<tail, head, seen>>
       ELSE /\ Goto(t, "enqTail")
            /\ Forget(t)
            /\ UNCHANGED <<next, chain, node>>
    /\ UNCHANGED <<metaHead, metaTail, metaCnt, num, data, free, queue, new, value>>

EnqAdvance(t) ==
    /\ At(t, "enqAdvance")
    /\ SwingTail(queue[t], tail[t], new[t])
    /\ new' = [new EXCEPT ![t] = ZeroWord]
    /\ Forget(t)
    /\ Goto(t, "enqCount")
    /\ UNCHANGED <<metaHead, metaCnt, num, next, data, free, queue, node, value, chain>>

EnqCount(t) ==
    /\ At(t, "enqCount")
    /\ num' = [num EXCEPT ![queue[t]] = @ + 1]
    /\ queue' = [queue EXCEPT ![t] = NULL]
    /\ Goto(t, "idle")
    /\ UNCHANGED <<metaHead, metaTail, metaCnt, next, data, free, node, new, tail, head, seen, value, chain>>

-----------------------------------------------------------------------------
(* Dequeue *)

\* InterlockedDecrement(&num_) < 0, or an item is this thread's to take
Dequeue(t, q) ==
    /\ At(t, "idle")
    /\ num' = [num EXCEPT ![q] = @ - 1]
    /\ queue' = [queue EXCEPT ![t] = q]
    /\ Goto(t, IF num[q] - 1 < 0 THEN "deqRestore" ELSE "deqTail")
    /\ UNCHANGED <<metaHead, metaTail, metaCnt, next, data, free, node, new, tail, head, seen, value, chain>>

DeqRestoreForgotten(t) ==                                       \* mutant
    /\ At(t, "deqRestore")
    /\ UNCHANGED num
    /\ queue' = [queue EXCEPT ![t] = NULL]
    /\ Goto(t, "idle")
    /\ UNCHANGED <<metaHead, metaTail, metaCnt, next, data, free, node, new, tail, head, seen, value, chain>>
DeqRestore(t) ==
    /\ At(t, "deqRestore")
    /\ num' = [num EXCEPT ![queue[t]] = @ + 1]
    /\ queue' = [queue EXCEPT ![t] = NULL]
    /\ Goto(t, "idle")
    /\ UNCHANGED <<metaHead, metaTail, metaCnt, next, data, free, node, new, tail, head, seen, value, chain>>

DeqTail(t) ==
    /\ At(t, "deqTail")
    /\ tail' = [tail EXCEPT ![t] = metaTail[queue[t]]]
    /\ Goto(t, "deqHead")
    /\ UNCHANGED <<shared, queue, node, new, head, seen, value, chain>>

DeqHead(t) ==
    /\ At(t, "deqHead")
    /\ head' = [head EXCEPT ![t] = metaHead[queue[t]]]
    /\ Goto(t, "deqNext")
    /\ UNCHANGED <<shared, queue, node, new, tail, seen, value, chain>>

\* Of nextOfHead only metaAddr_ is used
DeqNext(t) ==
    /\ At(t, "deqNext")
    /\ LET metaAddr == next[GetRealAddr(head[t])].metaAddr
       IN IF GetRealAddr(metaAddr) = NULL
          THEN Goto(t, "deqTail") /\ Forget(t)
          ELSE /\ seen' = [seen EXCEPT ![t].metaAddr = metaAddr]
               /\ Goto(t, IF tail[t] = head[t] THEN "deqSwing" ELSE "deqData")
               /\ UNCHANGED <<tail, head>>
    /\ UNCHANGED <<shared, queue, node, new, value, chain>>

DeqSwing(t) ==
    /\ At(t, "deqSwing")
    /\ SwingTail(queue[t], tail[t], seen[t].metaAddr)
    /\ Goto(t, "deqTail")
    /\ Forget(t)
    /\ UNCHANGED <<metaHead, metaCnt, num, next, data, free, queue, node, new, value, chain>>

DeqDataOfHead(t) ==                                             \* mutant
    /\ At(t, "deqData")
    /\ value' = [value EXCEPT ![t] = data[GetRealAddr(head[t])]]
    /\ Goto(t, "deqCas")
    /\ UNCHANGED <<shared, queue, node, new, tail, head, seen, chain>>
DeqData(t) ==
    /\ At(t, "deqData")
    /\ value' = [value EXCEPT ![t] = data[GetRealAddr(seen[t].metaAddr)]]
    /\ Goto(t, "deqCas")
    /\ UNCHANGED <<shared, queue, node, new, tail, head, seen, chain>>

\* The compare-exchange of metaHead_: its old node is this thread's
DeqCas(t) ==
    /\ At(t, "deqCas")
    /\ Forget(t)
    /\ IF metaHead[queue[t]] = head[t]
       THEN /\ metaHead' = [metaHead EXCEPT ![queue[t]] = seen[t].metaAddr]
            /\ chain' = [chain EXCEPT ![queue[t]] = SubSeq(@, 2, Len(@))]
            /\ node' = [node EXCEPT ![t] = GetRealAddr(head[t])]
            /\ Goto(t, "deqFree")
            /\ UNCHANGED value
       ELSE /\ value' = [value EXCEPT ![t] = Nothing]
            /\ Goto(t, "deqTail")
            /\ UNCHANGED <<metaHead, chain, node>>
    /\ UNCHANGED <<metaTail, metaCnt, num, next, data, free, queue, new>>

\* nodePool_.Free, which destroys data_
DeqFree(t) ==
    /\ At(t, "deqFree")
    /\ free' = free \cup {node[t]}
    /\ data' = [data EXCEPT ![node[t]] = Nothing]
    /\ node' = [node EXCEPT ![t] = NULL]
    /\ queue' = [queue EXCEPT ![t] = NULL]
    /\ value' = [value EXCEPT ![t] = Nothing]
    /\ Goto(t, "idle")
    /\ UNCHANGED <<metaHead, metaTail, metaCnt, num, next, new, tail, head, seen, chain>>

Step(t) ==
    \/ \E q \in Queues : Enqueue(t, q) \/ Dequeue(t, q)
    \/ EnqAlloc(t) \/ EnqNode(t) \/ EnqTail(t) \/ EnqReadFirst(t) \/ EnqReadSecond(t)
    \/ EnqSwing(t) \/ EnqLink(t) \/ EnqAdvance(t) \/ EnqCount(t)
    \/ DeqRestore(t) \/ DeqTail(t) \/ DeqHead(t) \/ DeqNext(t) \/ DeqSwing(t)
    \/ DeqData(t) \/ DeqCas(t) \/ DeqFree(t)

Next == \E t \in Threads : Step(t)

Spec == Init /\ [][Next]_vars

-----------------------------------------------------------------------------
(* Properties *)

TypeOK ==
    /\ metaHead \in [Queues -> Counts \X Nodes] /\ metaTail \in [Queues -> Counts \X Nodes]
    /\ metaCnt \in [Queues -> Counts] /\ num \in [Queues -> Int]
    /\ next \in [Nodes -> [identifier : Queues \cup {NULL}, metaAddr : Words]]
    /\ data \in [Nodes -> Words \cup {Nothing}] /\ free \subseteq Nodes
    /\ pc \in [Threads -> Labels] /\ queue \in [Threads -> Queues \cup {NULL}]
    /\ node \in [Threads -> Nodes \cup {NULL}] /\ new \in [Threads -> Words]
    /\ tail \in [Threads -> Words] /\ head \in [Threads -> Words]
    /\ seen \in [Threads -> [identifier : Queues \cup {NULL}, metaAddr : Words]]
    /\ value \in [Threads -> Words \cup {Nothing}]
    /\ chain \in [Queues -> Seq(Nodes)] /\ \A q \in Queues : chain[q] # <<>>

On(q, labels) == {t \in Threads : pc[t] \in labels /\ queue[t] = q}
Linking == {"enqAdvance", "enqCount"}
Claimed == {"deqTail", "deqHead", "deqNext", "deqSwing", "deqData", "deqCas"}

\* The nodes from metaHead_ to the end spell the queue, each next_ carries this
\* queue's identifier, and metaTail_ points at one of the last two of them under
\* the count that node has now: the tail never falls behind the head and never
\* lands in another queue, though the two ends move in separate steps
\* (CLockFreeQueue.h:93-95, and the comment at 14).
Linked ==
    \A q \in Queues :
        LET c == chain[q]  n == Len(c)
        IN /\ GetRealAddr(metaHead[q]) = c[1]
           /\ \A i \in 1 .. n : next[c[i]].identifier = q
           /\ \A i \in 1 .. n - 1 : GetRealAddr(next[c[i]].metaAddr) = c[i + 1]
           /\ GetRealAddr(next[c[n]].metaAddr) = NULL
           /\ GetRealAddr(metaTail[q]) \in {c[n], IF n > 1 THEN c[n - 1] ELSE c[n]}

\* A node is in one place: the pool, one queue, or with one thread.
InQueue(n) == \E q \in Queues : \E i \in DOMAIN chain[q] : chain[q][i] = n
NodeOnce ==
    /\ \A q, r \in Queues : \A i \in DOMAIN chain[q], j \in DOMAIN chain[r] :
        chain[q][i] = chain[r][j] => q = r /\ i = j
    /\ \A n \in free : ~InQueue(n)
    /\ \A t \in Threads : node[t] # NULL => node[t] \notin free /\ ~InQueue(node[t])
    /\ \A t, u \in Threads : node[t] # NULL /\ node[t] = node[u] => t = u

\* The queues are queues at every step, and apart: no node of one is reached from
\* another (CLockFreeQueue.h:78-95).
WellFormed == TypeOK /\ Linked /\ NodeOnce

\* A thread that retries waits for nobody: whenever the tail's next_ is null it
\* carries the tail's own count and the queue's identifier, so that the next
\* attempt links unless another one does (the comment at CLockFreeQueue.h:93).
NeverSpins ==
    \A q \in Queues :
        LET last == next[GetRealAddr(metaTail[q])]
        IN GetRealAddr(last.metaAddr) = NULL =>
            /\ last.identifier = q
            /\ ExtractMetaCnt(last.metaAddr) = ExtractMetaCnt(metaTail[q])

\* num_ is the number of linked values, less those that a call still accounts
\* for: so a Dequeue that got one always finds it (it loops until then), and the
\* size that PostSend reads never promises a packet that is not there.
NumExact ==
    \A q \in Queues :
        num[q] = Len(chain[q]) - 1 - Cardinality(On(q, Linking \cup Claimed \cup {"deqRestore"}))

\* The atomic queues, as the words and labels tell them
Items == [q \in Queues |-> [i \in 1 .. Len(chain[q]) - 1 |-> data[chain[q][i + 1]]]]
Calls == [t \in Threads |->
    CASE pc[t] \in Linking -> <<"enqueued", queue[t]>>
      [] pc[t] \in Claimed -> <<"claimed", queue[t]>>
      [] pc[t] = "deqRestore" -> <<"missed", queue[t]>>
      [] OTHER -> <<>>]
Answers == [t \in Threads |->
    CASE pc[t] = "deqFree" -> <<value[t]>>
      [] pc[t] = "deqRestore" -> <<Nothing>>
      [] OTHER -> <<>>]
Atomic == INSTANCE AtomicQueue WITH
    Values <- Words, items <- Items, call <- Calls, answer <- Answers

\* CLockFreeQueue implements the atomic queues its users take it for.
QueueAtomic == Atomic!Spec
=============================================================================
