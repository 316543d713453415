--------------------------- MODULE TlsObjectPool ---------------------------
(***************************************************************************)
(* CTlsObjectPool.h, the variant with QUEUE, which every user compiles.    *)
(* A thread takes objects from a bucket of its own; any thread may give an *)
(* object back; the one that gives back the last of a bucket puts the      *)
(* bucket into a lock-free queue, from which a thread without a bucket     *)
(* takes its next one.  One step for each access to memory that threads    *)
(* share.                                                                  *)
(*                                                                         *)
(* What is done to an object (its constructor and destructor) and the      *)
(* counters capacity_ and AllocSize_, which nothing reads, are left out.   *)
(***************************************************************************)
EXTENDS AddressTranslator, Sequences, FiniteSets, SequencesExt

CONSTANTS
    Threads,
    Buckets,      \* the buckets malloc may yield
    BucketSize,   \* Bucket::size: 100 in the code
    Recurs,       \* may a count come again for a bucket while a thread holds both?
    ZeroRecycled  \* may a bucket be reset while a Free holds it under count 0?

ASSUME ThreadAssumption == IsFiniteSet(Threads)
ASSUME BucketAssumption == NULL \notin Buckets
ASSUME SizeAssumption == BucketSize \in Nat \ {0}
ASSUME ChoiceAssumption == Recurs \in BOOLEAN /\ ZeroRecycled \in BOOLEAN

VARIABLES
    metaHead, metaTail, metaCnt, size,  \* of the pool
    metaNext, allocCnt, freeCnt,        \* per bucket
    malloced,                           \* buckets that malloc has returned
    tls,                                \* per thread: its bucket, or NULL
    held,                               \* objects the program has and has not given back
    pc, own,                            \* per thread: label; the bucket in its hands
    new, tail, head, seen,              \* newMetaTail, metaTail, metaHead, metaNext
    chain                               \* history: the buckets of the queue, dummy first

pool == <<metaHead, metaTail, metaCnt, size>>
buckets == <<metaNext, allocCnt, freeCnt, malloced>>
locals == <<own, new, tail, head, seen>>
vars == <<pool, buckets, tls, held, pc, locals, chain>>

Words == Counts \X (Buckets \cup {NULL})
Objects == Buckets \X (1 .. BucketSize)     \* a NODE knows its bucket
Of(b) == {o \in held : o[1] = b}

Labels == {"idle", "getCnt", "setNext", "freeTail", "freeNext", "freeSwing", "link",
           "advance", "count", "restore", "bucketTail", "bucketHead", "bucketNext",
           "bucketSwing", "bucketCas", "init"}

Init ==
    \E dummy \in Buckets :
        /\ metaHead = GetMetaAddr(0, dummy) /\ metaTail = metaHead
        /\ metaCnt = AfterGetCnt(0) /\ size = 0
        /\ metaNext = [b \in Buckets |-> ZeroWord]
        /\ allocCnt = [b \in Buckets |-> 0] /\ freeCnt = [b \in Buckets |-> 0]
        /\ malloced = {dummy} /\ chain = <<dummy>>
        /\ tls = [t \in Threads |-> NULL] /\ held = {}
        /\ pc = [t \in Threads |-> "idle"] /\ own = [t \in Threads |-> NULL]
        /\ new = [t \in Threads |-> ZeroWord] /\ tail = [t \in Threads |-> ZeroWord]
        /\ head = [t \in Threads |-> ZeroWord] /\ seen = [t \in Threads |-> ZeroWord]

At(t, label) == pc[t] = label
Goto(t, label) == pc' = [pc EXCEPT ![t] = label]

\* What thread t has read is dead once its loop starts over or ends
Forget(t) ==
    /\ tail' = [tail EXCEPT ![t] = ZeroWord] /\ head' = [head EXCEPT ![t] = ZeroWord]
    /\ seen' = [seen EXCEPT ![t] = ZeroWord]

\* InterlockedCompareExchange(&metaTail_, word, expected)
SwingTail(expected, word) == metaTail' = IF metaTail = expected THEN word ELSE metaTail

-----------------------------------------------------------------------------
(* Alloc *)

\* AllocNode, of a bucket b with n nodes already taken.  With its last node the
\* bucket leaves the thread.
AllocNode(t, b, n) ==
    /\ allocCnt' = [allocCnt EXCEPT ![b] = n + 1]
    /\ held' = held \cup {<<b, n + 1>>}
    /\ tls' = [tls EXCEPT ![t] = IF n + 1 = BucketSize THEN NULL ELSE b]

Alloc(t) ==
    /\ At(t, "idle")
    /\ tls[t] # NULL
    /\ AllocNode(t, tls[t], allocCnt[tls[t]])
    /\ UNCHANGED <<pool, metaNext, freeCnt, malloced, pc, locals, chain>>

\* AllocBucket: InterlockedDecrement(&size_) < 0, or a bucket is there to take
AllocBucket(t) ==
    /\ At(t, "idle")
    /\ tls[t] = NULL
    /\ size' = size - 1
    /\ Goto(t, IF size - 1 < 0 THEN "restore" ELSE "bucketTail")
    /\ UNCHANGED <<metaHead, metaTail, metaCnt, buckets, tls, held, locals, chain>>

\* Bucket::Init
InitBucketKeepsFreeCnt(t, b) ==                                 \* mutant
    /\ metaNext' = [metaNext EXCEPT ![b] = ZeroWord]
    /\ UNCHANGED freeCnt
    /\ AllocNode(t, b, 0)
InitBucket(t, b) ==
    /\ metaNext' = [metaNext EXCEPT ![b] = ZeroWord]
    /\ freeCnt' = [freeCnt EXCEPT ![b] = 0]
    /\ AllocNode(t, b, 0)

\* A bucket of malloc's; nobody else knows it yet
NewBucketUnrestored(t) ==                                       \* mutant
    /\ At(t, "restore")
    /\ UNCHANGED size
    /\ \E b \in Buckets \ malloced :
        malloced' = malloced \cup {b} /\ InitBucket(t, b)
    /\ Goto(t, "idle")
    /\ UNCHANGED <<metaHead, metaTail, metaCnt, locals, chain>>
NewBucket(t) ==
    /\ At(t, "restore")
    /\ size' = size + 1
    /\ \E b \in Buckets \ malloced :
        malloced' = malloced \cup {b} /\ InitBucket(t, b)
    /\ Goto(t, "idle")
    /\ UNCHANGED <<metaHead, metaTail, metaCnt, locals, chain>>

BucketTail(t) ==
    /\ At(t, "bucketTail")
    /\ tail' = [tail EXCEPT ![t] = metaTail]
    /\ Goto(t, "bucketHead")
    /\ UNCHANGED <<pool, buckets, tls, held, own, new, head, seen, chain>>

BucketHead(t) ==
    /\ At(t, "bucketHead")
    /\ head' = [head EXCEPT ![t] = metaHead]
    /\ Goto(t, "bucketNext")
    /\ UNCHANGED <<pool, buckets, tls, held, own, new, tail, seen, chain>>

BucketNext(t) ==
    /\ At(t, "bucketNext")
    /\ LET word == metaNext[GetRealAddr(head[t])]
       IN IF GetRealAddr(word) = NULL
          THEN Goto(t, "bucketTail") /\ Forget(t)
          ELSE /\ seen' = [seen EXCEPT ![t] = word]
               /\ Goto(t, IF tail[t] = head[t] THEN "bucketSwing" ELSE "bucketCas")
               /\ UNCHANGED <<tail, head>>
    /\ UNCHANGED <<pool, buckets, tls, held, own, new, chain>>

BucketSwing(t) ==
    /\ At(t, "bucketSwing")
    /\ SwingTail(tail[t], seen[t])
    /\ Goto(t, "bucketTail")
    /\ Forget(t)
    /\ UNCHANGED <<metaHead, metaCnt, size, buckets, tls, held, own, new, chain>>

BucketCas(t) ==
    /\ At(t, "bucketCas")
    /\ Forget(t)
    /\ IF metaHead = head[t]
       THEN /\ metaHead' = seen[t]
            /\ chain' = SubSeq(chain, 2, Len(chain))
            /\ own' = [own EXCEPT ![t] = GetRealAddr(head[t])]
            /\ Goto(t, "init")
       ELSE /\ Goto(t, "bucketTail")
            /\ UNCHANGED <<metaHead, chain, own>>
    /\ UNCHANGED <<metaTail, metaCnt, size, buckets, tls, held, new>>

\* Init<false> writes the word 0 into metaNext, whatever the bucket's last count
\* was.  Unless ZeroRecycled, it does not while a Free took the bucket for the
\* tail under the count 0.
ZeroHeld(b) == \E u \in Threads :
    pc[u] \in {"freeNext", "link"} /\ tail[u] = GetMetaAddr(0, b)

InitDequeued(t) ==
    /\ At(t, "init")
    /\ ZeroRecycled \/ ~ZeroHeld(own[t])
    /\ InitBucket(t, own[t])
    /\ own' = [own EXCEPT ![t] = NULL]
    /\ Goto(t, "idle")
    /\ UNCHANGED <<pool, malloced, new, tail, head, seen, chain>>

-----------------------------------------------------------------------------
(* Free *)

\* RETURN_NODE_TO_BUCKET_AND_CHECK_BUCKET_HAVETO_FREE, by any thread
Free(t, o) ==
    /\ At(t, "idle")
    /\ held' = held \ {o}
    /\ freeCnt' = [freeCnt EXCEPT ![o[1]] = @ + 1]
    /\ IF freeCnt[o[1]] + 1 = BucketSize
       THEN Goto(t, "getCnt") /\ own' = [own EXCEPT ![t] = o[1]]
       ELSE UNCHANGED <<pc, own>>
    /\ UNCHANGED <<pool, metaNext, allocCnt, malloced, tls, new, tail, head, seen, chain>>

\* The counts are distinct until COUNTER_MAX of them are used up.  Unless Recurs,
\* no bucket gets a count under which a thread knew it.
NoRecurrence(word) == Recurs \/ \A u \in Threads : word \notin {tail[u], head[u]}

FreeGetCnt(t) ==
    /\ At(t, "getCnt")
    /\ LET word == GetMetaAddr(metaCnt, own[t])
       IN NoRecurrence(word) /\ new' = [new EXCEPT ![t] = word]
    /\ metaCnt' = AfterGetCnt(metaCnt)
    /\ Goto(t, "setNext")
    /\ UNCHANGED <<metaHead, metaTail, size, buckets, tls, held, own, tail, head, seen, chain>>

FreeSetNext(t) ==
    /\ At(t, "setNext")
    /\ metaNext' = [metaNext EXCEPT ![own[t]] = GetMetaAddr(ExtractMetaCnt(new[t]), NULL)]
    /\ Goto(t, "freeTail")
    /\ UNCHANGED <<pool, allocCnt, freeCnt, malloced, tls, held, locals, chain>>

FreeTail(t) ==
    /\ At(t, "freeTail")
    /\ tail' = [tail EXCEPT ![t] = metaTail]
    /\ Goto(t, "freeNext")
    /\ UNCHANGED <<pool, buckets, tls, held, own, new, head, seen, chain>>

\* metaNext of the tail, and where the two conditions then lead
SameCntIgnored(t, word) == TRUE                                  \* mutant
SameCnt(t, word) == ExtractMetaCnt(tail[t]) = ExtractMetaCnt(word)

FreeNext(t) ==
    /\ At(t, "freeNext")
    /\ LET word == metaNext[GetRealAddr(tail[t])]
           swing == GetRealAddr(word) # NULL
       IN IF swing \/ SameCnt(t, word)
          THEN /\ Goto(t, IF swing THEN "freeSwing" ELSE "link")
               /\ seen' = [seen EXCEPT ![t] = word]
               /\ UNCHANGED <<tail, head>>
          ELSE Goto(t, "freeTail") /\ Forget(t)
    /\ UNCHANGED <<pool, buckets, tls, held, own, new, chain>>

FreeSwing(t) ==
    /\ At(t, "freeSwing")
    /\ SwingTail(tail[t], seen[t])
    /\ Goto(t, "freeTail")
    /\ Forget(t)
    /\ UNCHANGED <<metaHead, metaCnt, size, buckets, tls, held, own, new, chain>>

FreeLink(t) ==
    /\ At(t, "link")
    /\ IF metaNext[GetRealAddr(tail[t])] = seen[t]
       THEN /\ metaNext' = [metaNext EXCEPT ![GetRealAddr(tail[t])] = new[t]]
            /\ chain' = Append(chain, own[t])
            /\ own' = [own EXCEPT ![t] = NULL]
            /\ Goto(t, "advance")
            /\ UNCHANGED <<tail, head, seen>>
       ELSE /\ Goto(t, "freeTail")
            /\ Forget(t)
            /\ UNCHANGED <<metaNext, chain, own>>
    /\ UNCHANGED <<pool, allocCnt, freeCnt, malloced, tls, held, new>>

FreeAdvanceLater(t) ==                                          \* mutant
    /\ At(t, "advance")
    /\ UNCHANGED metaTail
    /\ new' = [new EXCEPT ![t] = ZeroWord]
    /\ Forget(t)
    /\ Goto(t, "count")
    /\ UNCHANGED <<metaHead, metaCnt, size, buckets, tls, held, own, chain>>
FreeAdvance(t) ==
    /\ At(t, "advance")
    /\ SwingTail(tail[t], new[t])
    /\ new' = [new EXCEPT ![t] = ZeroWord]
    /\ Forget(t)
    /\ Goto(t, "count")
    /\ UNCHANGED <<metaHead, metaCnt, size, buckets, tls, held, own, chain>>

FreeCount(t) ==
    /\ At(t, "count")
    /\ size' = size + 1
    /\ Goto(t, "idle")
    /\ UNCHANGED <<metaHead, metaTail, metaCnt, buckets, tls, held, locals, chain>>

Step(t) ==
    \/ Alloc(t) \/ AllocBucket(t) \/ NewBucket(t) \/ BucketTail(t) \/ BucketHead(t)
    \/ BucketNext(t) \/ BucketSwing(t) \/ BucketCas(t) \/ InitDequeued(t)
    \/ \E o \in held : Free(t, o)
    \/ FreeGetCnt(t) \/ FreeSetNext(t) \/ FreeTail(t) \/ FreeNext(t) \/ FreeSwing(t)
    \/ FreeLink(t) \/ FreeAdvance(t) \/ FreeCount(t)

Next == \E t \in Threads : Step(t)

Spec == Init /\ [][Next]_vars

-----------------------------------------------------------------------------
(* Properties *)

TypeOK ==
    /\ metaHead \in Counts \X Buckets /\ metaTail \in Counts \X Buckets
    /\ metaCnt \in Counts /\ size \in Int
    /\ metaNext \in [Buckets -> Words] /\ malloced \subseteq Buckets
    /\ allocCnt \in [Buckets -> 0 .. BucketSize] /\ freeCnt \in [Buckets -> 0 .. BucketSize]
    /\ tls \in [Threads -> Buckets \cup {NULL}] /\ held \subseteq Objects
    /\ pc \in [Threads -> Labels] /\ own \in [Threads -> Buckets \cup {NULL}]
    /\ new \in [Threads -> Words] /\ tail \in [Threads -> Words]
    /\ head \in [Threads -> Words] /\ seen \in [Threads -> Words]
    /\ chain \in Seq(Buckets) /\ chain # <<>>

\* The buckets from metaHead_ to the end spell the queue, and metaTail_ points at
\* one of the last two: the tail never falls behind the head.
Linked ==
    LET n == Len(chain)
    IN /\ GetRealAddr(metaHead) = chain[1]
       /\ \A i \in 1 .. n - 1 : GetRealAddr(metaNext[chain[i]]) = chain[i + 1]
       /\ GetRealAddr(metaNext[chain[n]]) = NULL
       /\ GetRealAddr(metaTail) \in {chain[n], IF n > 1 THEN chain[n - 1] ELSE chain[n]}

\* The pool's queue is one at every step (CTlsObjectPool.h:231-238, 315-337).
WellFormed == TypeOK /\ Linked

\* Nothing hangs behind a bucket that has left the queue, once it is reset: what
\* is put into the pool is put into the queue (the comment at
\* CTlsObjectPool.h:324-326: a bucket must not be linked behind one that is
\* allocated instead of into the queue; and 331: a recycled bucket makes the
\* compare-exchange fail without exception).
NothingBehindAllocated ==
    \A t \in Threads : tls[t] # NULL => GetRealAddr(metaNext[tls[t]]) = NULL

\* No object is with the program and in the pool at once, and none is handed out
\* twice: a bucket in the queue, or on its way there, has no object out, and of
\* any other bucket the objects out are those taken and not yet given back.
InQueue(b) == Contains(chain, b)
BucketExact ==
    \A b \in Buckets :
        IF InQueue(b) \/ \E t \in Threads : own[t] = b
        THEN Of(b) = {}
        ELSE Cardinality(Of(b)) = allocCnt[b] - freeCnt[b]

\* A bucket is in one place: unknown to the pool, in the queue, with one thread
\* (its own, or in its hands), or out with all its objects taken and not all back.
NoneLost ==
    \A b \in malloced :
        LET out == allocCnt[b] = BucketSize /\ freeCnt[b] < BucketSize
        IN Cardinality({i \in DOMAIN chain : chain[i] = b})
           + Cardinality({t \in Threads : tls[t] = b})
           + Cardinality({t \in Threads : own[t] = b})
           = IF out /\ ~InQueue(b) THEN 0 ELSE 1

\* size_ is the number of buckets in the queue, less those a call still accounts
\* for: an AllocBucket that got one always finds it, for it loops until it does.
Accounted == {"advance", "count", "restore",
              "bucketTail", "bucketHead", "bucketNext", "bucketSwing", "bucketCas"}
SizeExact == size = Len(chain) - 1 - Cardinality({t \in Threads : pc[t] \in Accounted})
=============================================================================
