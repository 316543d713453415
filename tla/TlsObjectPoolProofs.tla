------------------------ MODULE TlsObjectPoolProofs ------------------------
(***************************************************************************)
(* Proofs about TlsObjectPool, for any threads, buckets, bucket size and   *)
(* number of counts: while no count comes again under a call that waits    *)
(* for it (Recurs = FALSE) and no bucket is reset under a Free that holds  *)
(* its word 0 (ZeroRecycled = FALSE), the queue of buckets stays whole, no *)
(* bucket is lost, and no object is handed out twice.                      *)
(***************************************************************************)
EXTENDS TlsObjectPool, FiniteSetTheorems, TLAPS

-----------------------------------------------------------------------------
(* Words and sequences *)

\* A word is its count and its address.
LEMMA SameWord ==
  ASSUME NEW w \in Words, NEW v \in Words,
         ExtractMetaCnt(w) = ExtractMetaCnt(v), GetRealAddr(w) = GetRealAddr(v)
  PROVE  w = v
BY DEF Words, ExtractMetaCnt, GetRealAddr

\* The parts of a word
LEMMA WordParts ==
  ASSUME NEW c \in Counts, NEW a \in Buckets \cup {NULL}
  PROVE  /\ GetMetaAddr(c, a) \in Words
         /\ ExtractMetaCnt(GetMetaAddr(c, a)) = c /\ GetRealAddr(GetMetaAddr(c, a)) = a
BY DEF Words, ExtractMetaCnt, GetRealAddr, GetMetaAddr

\* A word that leads to a bucket
LEMMA BucketWord ==
  ASSUME NEW w \in Words
  PROVE  /\ ExtractMetaCnt(w) \in Counts /\ GetRealAddr(w) \in Buckets \cup {NULL}
         /\ w \in Counts \X Buckets <=> GetRealAddr(w) \in Buckets
BY BucketAssumption DEF Words, ExtractMetaCnt, GetRealAddr

\* The word 0 leads nowhere.
LEMMA ZeroIsWord ==
  /\ ZeroWord \in Words /\ GetRealAddr(ZeroWord) = NULL /\ ExtractMetaCnt(ZeroWord) = 0
BY CounterAssumption DEF ZeroWord, Words, Counts, GetMetaAddr, GetRealAddr, ExtractMetaCnt

\* GetCnt stays among the counts.
LEMMA CountsStay == 0 \in Counts /\ \A c \in Counts : AfterGetCnt(c) \in Counts
BY CounterAssumption DEF Counts, AfterGetCnt

\* A bucket put at the end
LEMMA PutLast ==
  ASSUME NEW S, NEW s \in Seq(S), NEW x \in S
  PROVE  LET r == Append(s, x)
         IN /\ r \in Seq(S) /\ r # <<>> /\ Len(r) = Len(s) + 1 /\ r[Len(s) + 1] = x
            /\ \A i \in 1 .. Len(s) : r[i] = s[i]
OBVIOUS

\* The front taken off
LEMMA TakeFront ==
  ASSUME NEW S, NEW s \in Seq(S), s # <<>>
  PROVE  LET r == SubSeq(s, 2, Len(s))
         IN /\ r \in Seq(S) /\ Len(r) = Len(s) - 1
            /\ \A i \in 1 .. Len(s) - 1 : r[i] = s[i + 1]
BY SMTT(60)

-----------------------------------------------------------------------------
(* The invariant *)

\* The word that leads to the i-th bucket of the queue
Word(i) == IF i = 1 THEN metaHead ELSE metaNext[chain[i - 1]]
End == Len(chain)

\* The words spell the queue; the last one is the null address under the last bucket's
\* count.
Spelled ==
    /\ \A i \in 1 .. End : GetRealAddr(Word(i)) = chain[i]
    /\ Word(End + 1) = GetMetaAddr(ExtractMetaCnt(Word(End)), NULL)

\* metaTail_ lags behind the last bucket only while its Free has yet to move it.
Advancing(t) == pc[t] = "advance" /\ tail[t] = Word(End - 1)
TailNear ==
    \/ metaTail = Word(End)
    \/ /\ End > 1 /\ metaTail = Word(End - 1)
       /\ \E t \in Threads : Advancing(t)

\* A bucket is in one place at most, and malloc has returned it.
PlaceOnce ==
    /\ \A i, j \in DOMAIN chain : chain[i] = chain[j] => i = j
    /\ \A i \in DOMAIN chain : chain[i] \in malloced
    /\ \A t \in Threads : own[t] # NULL => own[t] \in malloced /\ ~InQueue(own[t])
    /\ \A t \in Threads : tls[t] # NULL => tls[t] \in malloced /\ ~InQueue(tls[t])
    /\ \A t, u \in Threads : own[t] # NULL /\ own[t] = own[u] => t = u
    /\ \A t, u \in Threads : tls[t] # NULL /\ tls[t] = tls[u] => t = u
    /\ \A t, u \in Threads : own[t] # NULL => own[t] # tls[u]

\* Where a bucket is tells its counters, and its counters the objects that are out.
Owned(b) == \E t \in Threads : own[t] = b
Local(b) == \E t \in Threads : tls[t] = b
Fits(b) ==
    /\ Cardinality(Of(b)) = allocCnt[b] - freeCnt[b]
    /\ \A o \in Of(b) : o[2] <= allocCnt[b]
    /\ InQueue(b) \/ Owned(b) => allocCnt[b] = freeCnt[b] /\ freeCnt[b] \in {0, BucketSize}
    /\ Local(b) => 0 < allocCnt[b] /\ allocCnt[b] < BucketSize
    /\ b \notin malloced => allocCnt[b] = 0
    /\ b \in malloced /\ ~InQueue(b) /\ ~Owned(b) /\ ~Local(b) =>
          allocCnt[b] = BucketSize /\ freeCnt[b] < BucketSize
CountsFit == \A b \in Buckets : Fits(b)

\* Where a call has read nothing yet, or no longer needs what it has read
Calling == {"idle", "getCnt", "setNext", "freeTail", "count", "restore", "bucketTail", "init"}
\* Where a thread without a bucket asks for one
Claimed == {"bucketTail", "bucketHead", "bucketNext", "bucketSwing", "bucketCas"}
InCall(t) ==
    /\ pc[t] \in Calling => tail[t] = ZeroWord /\ head[t] = ZeroWord
    /\ pc[t] \in Claimed \cup {"restore", "init"} => tls[t] = NULL

\* Who has a bucket in its hands
Building == {"setNext", "freeTail", "freeNext", "freeSwing", "link"}
Owning(t) == own[t] # NULL <=> pc[t] \in Building \cup {"getCnt", "init"}

\* What a Free has built
Built(t) ==
    pc[t] \in Building =>
        /\ GetRealAddr(new[t]) = own[t]
        /\ pc[t] # "setNext" => metaNext[own[t]] = GetMetaAddr(ExtractMetaCnt(new[t]), NULL)

\* What a call has read leads to buckets.
HasTail == {"freeNext", "freeSwing", "link", "advance"}
HasHead == {"bucketNext", "bucketSwing", "bucketCas"}
HasNext == {"freeSwing", "bucketSwing", "bucketCas"}
Reading(t) ==
    /\ pc[t] \in HasTail => GetRealAddr(tail[t]) \in malloced
    /\ pc[t] \in HasHead => GetRealAddr(head[t]) \in malloced
    /\ pc[t] \in HasNext => GetRealAddr(seen[t]) \in Buckets
    /\ pc[t] = "bucketSwing" => tail[t] = head[t]
    /\ pc[t] = "link" => seen[t] = GetMetaAddr(ExtractMetaCnt(tail[t]), NULL)
    /\ pc[t] = "advance" => GetRealAddr(new[t]) \in Buckets

\* No Free is about to put a word into the queue that another call waits for.
NeverBack ==
    \A t, u \in Threads : pc[u] \in Building => new[u] # tail[t] /\ new[u] # head[t]

\* Wherever in the queue the word is, the one behind it is this.
Behind(word, ahead) ==
    \A i \in 1 .. End : word = Word(i) => i < End /\ ahead = Word(i + 1)
Fresh(t) ==
    /\ pc[t] = "freeSwing" => Behind(tail[t], seen[t])
    /\ pc[t] = "advance" => Behind(tail[t], new[t])
    /\ pc[t] \in {"bucketSwing", "bucketCas"} => Behind(head[t], seen[t])

\* Who has the last word of the queue had it from metaTail_, which is still there.
Reached(t) == tail[t] = Word(End) => metaTail = tail[t]

\* A bucket that a Free took for the tail under the count 0 has not been reset.
ZeroKept(t) ==
    pc[t] \in {"freeNext", "link"} /\ ExtractMetaCnt(tail[t]) = 0 =>
        \/ InQueue(GetRealAddr(tail[t]))
        \/ \E u \in Threads : pc[u] = "init" /\ own[u] = GetRealAddr(tail[t])

\* A bucket that was just taken out is still linked to the one behind it.
Taken(t) == pc[t] = "init" => GetRealAddr(metaNext[own[t]]) # NULL

\* Of all other buckets the link is the word 0.
Reset ==
    \A b \in Buckets :
        \/ InQueue(b)
        \/ \E t \in Threads : own[t] = b /\ pc[t] \in (Building \cup {"init"}) \ {"setNext"}
        \/ metaNext[b] = ZeroWord

\* size_ is below zero only as far as calls have yet to give back what they took.
Given == size + Cardinality({t \in Threads : pc[t] = "restore"}) >= 0

PerThread == \A t \in Threads :
    /\ InCall(t) /\ Owning(t) /\ Built(t) /\ Reading(t) /\ Fresh(t) /\ Reached(t)
    /\ ZeroKept(t) /\ Taken(t)

PoolInv ==
    /\ TypeOK /\ Spelled /\ TailNear /\ PlaceOnce /\ CountsFit /\ PerThread
    /\ NeverBack /\ Reset /\ SizeExact /\ Given

-----------------------------------------------------------------------------
(* What a step does to the words *)

\* The types the lemmas below use
LEMMA Typed ==
  ASSUME TypeOK
  PROVE  /\ metaHead \in Counts \X Buckets /\ metaTail \in Counts \X Buckets
         /\ metaHead \in Words /\ metaTail \in Words
         /\ GetRealAddr(metaHead) \in Buckets /\ GetRealAddr(metaTail) \in Buckets
         /\ metaNext \in [Buckets -> Words] /\ malloced \subseteq Buckets
         /\ tls \in [Threads -> Buckets \cup {NULL}] /\ held \subseteq Objects
         /\ pc \in [Threads -> Labels] /\ own \in [Threads -> Buckets \cup {NULL}]
         /\ new \in [Threads -> Words] /\ tail \in [Threads -> Words]
         /\ head \in [Threads -> Words] /\ seen \in [Threads -> Words]
BY DEF TypeOK, Words, GetRealAddr

\* Places of the queue
LEMMA Places ==
  ASSUME TypeOK
  PROVE  /\ chain \in Seq(Buckets) /\ End \in Nat /\ End > 0 /\ DOMAIN chain = 1 .. End
         /\ \A i \in 1 .. End : chain[i] \in Buckets
         /\ \A i \in 1 .. End + 1 : Word(i) \in Words
         /\ Word(1) = metaHead
         /\ \A i \in 1 .. End : Word(i + 1) = metaNext[chain[i]]
         /\ \A b : InQueue(b) <=> \E i \in 1 .. End : chain[i] = b
<1>1. chain \in Seq(Buckets) /\ chain # <<>>
  BY DEF TypeOK
<1>2. /\ End \in Nat /\ End > 0 /\ DOMAIN chain = 1 .. End
      /\ \A i \in 1 .. End : chain[i] \in Buckets
  BY <1>1 DEF End
<1>3. metaNext \in [Buckets -> Words] /\ metaHead \in Words
  BY Typed
<1>4. ASSUME NEW i \in 1 .. End PROVE Word(i + 1) = metaNext[chain[i]]
  <2>1. i + 1 # 1 /\ (i + 1) - 1 = i
    BY <1>2
  <2> QED BY <2>1 DEF Word
<1>5. Word(1) = metaHead
  BY DEF Word
<1>6. ASSUME NEW i \in 1 .. End + 1 PROVE Word(i) \in Words
  <2>1. CASE i = 1
    BY <2>1, <1>3, <1>5
  <2>2. CASE i # 1
    <3>1. i - 1 \in 1 .. End /\ (i - 1) + 1 = i
      BY <1>2, <2>2
    <3>2. Word(i) = metaNext[chain[i - 1]]
      BY <1>4, <3>1
    <3> QED BY <1>2, <1>3, <3>1, <3>2
  <2> QED BY <2>1, <2>2
<1>7. \A b : InQueue(b) <=> \E i \in 1 .. End : chain[i] = b
  BY DEF InQueue, Contains, End
<1> QED BY <1>1, <1>2, <1>4, <1>5, <1>6, <1>7

\* The words of the queue differ, and lead to buckets except the last.
LEMMA WordsApart ==
  ASSUME TypeOK, Spelled, PlaceOnce
  PROVE  /\ \A i \in 1 .. End : GetRealAddr(Word(i)) = chain[i] /\ chain[i] \in Buckets
         /\ \A i, j \in 1 .. End : Word(i) = Word(j) => i = j
         /\ GetRealAddr(Word(End + 1)) = NULL
         /\ \A i \in 1 .. End : GetRealAddr(Word(i + 1)) # NULL <=> i < End
<1>1. /\ \A i \in 1 .. End : GetRealAddr(Word(i)) = chain[i] /\ chain[i] \in Buckets
      /\ End \in Nat /\ DOMAIN chain = 1 .. End
  BY Places DEF Spelled
<1>2. \A i, j \in 1 .. End : Word(i) = Word(j) => i = j
  BY <1>1 DEF PlaceOnce
<1>3. GetRealAddr(Word(End + 1)) = NULL
  BY DEF Spelled, GetMetaAddr, GetRealAddr
<1>4. ASSUME NEW i \in 1 .. End PROVE GetRealAddr(Word(i + 1)) # NULL <=> i < End
  <2>1. CASE i = End
    BY <1>1, <1>3, <2>1
  <2>2. CASE i # End
    <3>1. i + 1 \in 1 .. End /\ i < End
      BY <1>1, <2>2
    <3> QED BY <1>1, <3>1, BucketAssumption
  <2> QED BY <2>1, <2>2
<1> QED BY <1>1, <1>2, <1>3, <1>4

\* The compare-exchange of Free, and that of AllocBucket, that succeed
Links(t) == FreeLink(t) /\ metaNext[GetRealAddr(tail[t])] = seen[t]
Takes(t) == BucketCas(t) /\ metaHead = head[t]

\* A compare-exchange that succeeds links to the last bucket of the queue, whatever became
\* of the bucket since it was read (CTlsObjectPool.h:318-331).
LEMMA LinksLast ==
  ASSUME PoolInv, NEW t \in Threads, Links(t)
  PROVE  /\ own[t] \in Buckets /\ ~InQueue(own[t]) /\ GetRealAddr(new[t]) = own[t]
         /\ tail[t] = Word(End) /\ GetRealAddr(tail[t]) = chain[End] /\ metaTail = tail[t]
<1> DEFINE a == GetRealAddr(tail[t])
<1>1. /\ TypeOK /\ Spelled /\ PlaceOnce /\ NeverBack /\ Reset
      /\ Owning(t) /\ Built(t) /\ Reading(t) /\ Reached(t) /\ ZeroKept(t)
  BY DEF PoolInv, PerThread
<1>2. pc[t] = "link" /\ metaNext[a] = seen[t]
  BY DEF Links, FreeLink, At
<1>3. own[t] \in Buckets /\ ~InQueue(own[t]) /\ GetRealAddr(new[t]) = own[t]
  BY <1>1, <1>2, Typed DEF Owning, Built, Building, PlaceOnce
<1>4. a \in Buckets /\ tail[t] \in Words /\ metaNext[a] = GetMetaAddr(ExtractMetaCnt(tail[t]), NULL)
  BY <1>1, <1>2, Typed DEF Reading, HasTail
<1>5. GetRealAddr(metaNext[a]) = NULL /\ ExtractMetaCnt(metaNext[a]) = ExtractMetaCnt(tail[t])
  BY <1>4 DEF GetMetaAddr, GetRealAddr, ExtractMetaCnt
<1>6. ASSUME NEW u \in Threads, own[u] = a, pc[u] \in Building \ {"setNext"} PROVE FALSE
  <2>1. GetRealAddr(new[u]) = a /\ metaNext[a] = GetMetaAddr(ExtractMetaCnt(new[u]), NULL)
    BY <1>6 DEF PoolInv, PerThread, Built
  <2>2. new[u] \in Words /\ ExtractMetaCnt(new[u]) = ExtractMetaCnt(tail[t])
    BY <1>1, <1>5, <2>1, Typed DEF GetMetaAddr, ExtractMetaCnt
  <2>3. new[u] = tail[t]
    BY <1>4, <2>1, <2>2, SameWord
  <2> QED BY <1>1, <1>6, <2>3 DEF NeverBack
<1>7. ASSUME NEW u \in Threads, own[u] = a, pc[u] = "init" PROVE FALSE
  BY <1>5, <1>7 DEF PoolInv, PerThread, Taken
<1>8. InQueue(a)
  <2>1. CASE metaNext[a] = ZeroWord
    <3>1. ExtractMetaCnt(tail[t]) = 0
      BY <1>5, <2>1, ZeroIsWord
    <3> QED BY <1>1, <1>2, <1>7, <3>1 DEF ZeroKept
  <2>2. CASE metaNext[a] # ZeroWord
    BY <1>1, <1>4, <1>6, <1>7, <2>2 DEF Reset
  <2> QED BY <2>1, <2>2
<1>9. PICK i \in 1 .. End : chain[i] = a
  BY <1>1, <1>8, Places
<1>10. End \in Nat /\ End \in 1 .. End /\ End \in 1 .. End + 1
  BY <1>1, Places
<1>11. i = End
  BY <1>1, <1>5, <1>9, <1>10, Places, WordsApart
<1>12. tail[t] = Word(End)
  <2>1. Word(End) \in Words /\ GetRealAddr(Word(End)) = a
    BY <1>1, <1>9, <1>10, <1>11, Places, WordsApart
  <2>2. metaNext[a] = GetMetaAddr(ExtractMetaCnt(Word(End)), NULL)
    BY <1>1, <1>9, <1>10, <1>11, Places DEF Spelled
  <2>3. ExtractMetaCnt(tail[t]) = ExtractMetaCnt(Word(End))
    BY <1>5, <2>2 DEF ExtractMetaCnt, GetMetaAddr
  <2> QED BY <1>4, <2>1, <2>3, SameWord
<1>13. metaTail = tail[t]
  BY <1>1, <1>12 DEF Reached
<1> QED BY <1>3, <1>9, <1>11, <1>12, <1>13

\* The word that leads to the i-th bucket after the step
WordAfter(i) == IF i = 1 THEN metaHead' ELSE metaNext'[chain'[i - 1]]
EndAfter == Len(chain')

\* The queue stays as it is.
Stays == chain' = chain /\ \A i \in 1 .. End + 1 : WordAfter(i) = Word(i)

\* The queue gets bucket b under the word w.
Grows(w, b) ==
    /\ chain' = Append(chain, b)
    /\ \A i \in 1 .. End : WordAfter(i) = Word(i)
    /\ WordAfter(End + 1) = w /\ WordAfter(End + 2) = GetMetaAddr(ExtractMetaCnt(w), NULL)
    /\ GetRealAddr(w) = b

\* The queue loses its first bucket.
Shrinks ==
    /\ End > 1 /\ chain' = SubSeq(chain, 2, End)
    /\ \A i \in 1 .. End : WordAfter(i) = Word(i + 1)

\* Which links a step writes
LEMMA NextMoves ==
  ASSUME PoolInv, NEW t \in Threads, Step(t)
  PROVE  \/ metaNext' = metaNext /\ ~Links(t) /\ ~FreeSetNext(t) /\ ~InitDequeued(t) /\ ~NewBucket(t)
         \/ FreeSetNext(t) /\ ~Links(t)
            /\ metaNext' = [metaNext EXCEPT ![own[t]] = GetMetaAddr(ExtractMetaCnt(new[t]), NULL)]
         \/ Links(t) /\ metaNext' = [metaNext EXCEPT ![chain[End]] = new[t]]
         \/ InitDequeued(t) /\ metaNext' = [metaNext EXCEPT ![own[t]] = ZeroWord] /\ ~Links(t)
         \/ /\ NewBucket(t) /\ ~Links(t)
            /\ \E b \in Buckets \ malloced : metaNext' = [metaNext EXCEPT ![b] = ZeroWord]
<1>1. CASE Alloc(t) \/ AllocBucket(t) \/ BucketTail(t) \/ BucketHead(t) \/ BucketNext(t)
           \/ BucketSwing(t) \/ BucketCas(t)
  BY <1>1 DEF Alloc, AllocBucket, BucketTail, BucketHead, BucketNext, BucketSwing, BucketCas,
              Links, FreeLink, FreeSetNext, InitDequeued, NewBucket, At, pool, buckets
<1>2. ASSUME NEW o \in held, Free(t, o)
      PROVE  metaNext' = metaNext /\ ~Links(t) /\ ~FreeSetNext(t) /\ ~InitDequeued(t) /\ ~NewBucket(t)
  BY <1>2 DEF Free, Links, FreeLink, FreeSetNext, InitDequeued, NewBucket, At
<1>3. CASE FreeGetCnt(t) \/ FreeTail(t) \/ FreeNext(t) \/ FreeSwing(t) \/ FreeAdvance(t) \/ FreeCount(t)
  BY <1>3 DEF FreeGetCnt, FreeTail, FreeNext, FreeSwing, FreeAdvance, FreeCount,
              Links, FreeLink, FreeSetNext, InitDequeued, NewBucket, At, pool, buckets
<1>4. CASE FreeSetNext(t)
  BY <1>4 DEF FreeSetNext, Links, FreeLink, At
<1>5. CASE InitDequeued(t)
  BY <1>5 DEF InitDequeued, InitBucket, Links, FreeLink, At
<1>6. CASE NewBucket(t)
  BY <1>6 DEF NewBucket, InitBucket, Links, FreeLink, At
<1>7. CASE Links(t)
  BY <1>7, LinksLast DEF Links, FreeLink
<1>8. CASE FreeLink(t) /\ ~Links(t)
  BY <1>8 DEF Links, FreeLink, FreeSetNext, InitDequeued, NewBucket, At
<1> QED BY <1>1, <1>2, <1>3, <1>4, <1>5, <1>6, <1>7, <1>8 DEF Step

\* Steps other than the two compare-exchanges leave the queue and its head.
LEMMA QuietChain ==
  ASSUME NEW t \in Threads, Step(t), ~Links(t), ~Takes(t)
  PROVE  chain' = chain /\ metaHead' = metaHead
<1>1. CASE Alloc(t) \/ AllocBucket(t) \/ BucketTail(t) \/ BucketHead(t) \/ BucketNext(t) \/ BucketSwing(t)
  BY <1>1 DEF Alloc, AllocBucket, BucketTail, BucketHead, BucketNext, BucketSwing, pool, locals
<1>2. CASE BucketCas(t)
  BY <1>2 DEF BucketCas, Takes
<1>3. CASE InitDequeued(t) \/ NewBucket(t)
  BY <1>3 DEF InitDequeued, NewBucket, pool, locals
<1>4. ASSUME NEW o \in held, Free(t, o) PROVE chain' = chain /\ metaHead' = metaHead
  BY <1>4 DEF Free, pool
<1>5. CASE FreeGetCnt(t) \/ FreeSetNext(t) \/ FreeTail(t) \/ FreeNext(t) \/ FreeSwing(t)
           \/ FreeAdvance(t) \/ FreeCount(t)
  BY <1>5 DEF FreeGetCnt, FreeSetNext, FreeTail, FreeNext, FreeSwing, FreeAdvance, FreeCount, pool, locals
<1>6. CASE FreeLink(t)
  BY <1>6 DEF FreeLink, Links, pool
<1> QED BY <1>1, <1>2, <1>3, <1>4, <1>5, <1>6 DEF Step

\* What the compare-exchange of Free does to the queue
LEMMA LinksWords ==
  ASSUME PoolInv, NEW t \in Threads, Step(t), Links(t)
  PROVE  Grows(new[t], own[t])
<1>1. /\ TypeOK /\ Spelled /\ PlaceOnce /\ Built(t)
  BY DEF PoolInv, PerThread
<1>2. own[t] \in Buckets /\ ~InQueue(own[t]) /\ GetRealAddr(new[t]) = own[t]
  BY LinksLast
<1>3. metaNext[own[t]] = GetMetaAddr(ExtractMetaCnt(new[t]), NULL)
  BY <1>1 DEF Built, Building, Links, FreeLink, At
<1>4. /\ metaNext' = [metaNext EXCEPT ![chain[End]] = new[t]]
      /\ chain' = Append(chain, own[t]) /\ metaHead' = metaHead
  BY LinksLast DEF Links, FreeLink, pool
<1>5. /\ chain \in Seq(Buckets) /\ End \in Nat /\ End > 0 /\ DOMAIN chain = 1 .. End /\ End \in 1 .. End
      /\ \A i \in 1 .. End : chain[i] \in Buckets /\ own[t] # chain[i]
      /\ metaNext \in [Buckets -> Words]
  BY <1>1, <1>2, Places, Typed
<1>6. chain'[End + 1] = own[t] /\ \A i \in 1 .. End : chain'[i] = chain[i]
  BY <1>2, <1>4, <1>5, PutLast DEF End
<1>7. ASSUME NEW i \in 1 .. End PROVE WordAfter(i) = Word(i)
  <2>1. CASE i = 1
    BY <1>4, <2>1 DEF Word, WordAfter
  <2>2. CASE i # 1
    <3>1. i - 1 \in 1 .. End /\ i - 1 # End
      BY <1>5, <2>2
    <3>2. chain'[i - 1] = chain[i - 1] /\ chain[i - 1] # chain[End]
      BY <1>1, <1>5, <1>6, <3>1 DEF PlaceOnce
    <3> QED BY <1>4, <1>5, <2>2, <3>1, <3>2 DEF Word, WordAfter
  <2> QED BY <2>1, <2>2
<1>8. WordAfter(End + 1) = new[t]
  <2>1. End + 1 # 1 /\ (End + 1) - 1 = End
    BY <1>5
  <2>2. WordAfter(End + 1) = metaNext'[chain[End]]
    BY <1>5, <1>6, <2>1 DEF WordAfter
  <2> QED BY <1>4, <1>5, <2>2
<1>9. WordAfter(End + 2) = GetMetaAddr(ExtractMetaCnt(new[t]), NULL)
  <2>1. End + 2 # 1 /\ (End + 2) - 1 = End + 1
    BY <1>5
  <2>2. WordAfter(End + 2) = metaNext'[own[t]]
    BY <1>6, <2>1 DEF WordAfter
  <2> QED BY <1>2, <1>3, <1>4, <1>5, <2>2
<1> QED BY <1>2, <1>4, <1>7, <1>8, <1>9 DEF Grows

\* What the compare-exchange of AllocBucket does to the queue: the word it read behind the
\* head is the one behind the head.
LEMMA TakesWords ==
  ASSUME PoolInv, NEW t \in Threads, Takes(t)
  PROVE  Shrinks /\ GetRealAddr(head[t]) = chain[1] /\ head[t] = Word(1) /\ seen[t] = Word(2)
<1>1. /\ TypeOK /\ Spelled /\ PlaceOnce /\ Fresh(t)
  BY DEF PoolInv, PerThread
<1>2. pc[t] = "bucketCas" /\ metaHead = head[t]
  BY DEF Takes, BucketCas, At
<1>3. /\ chain \in Seq(Buckets) /\ chain # <<>> /\ End \in Nat /\ End > 0 /\ 1 \in 1 .. End /\ head[t] = Word(1)
      /\ \A i \in 1 .. End : chain[i] \in Buckets
  BY <1>1, <1>2, Places DEF TypeOK
<1>4. GetRealAddr(head[t]) = chain[1]
  BY <1>1, <1>3 DEF Spelled
<1>5. 1 < End /\ seen[t] = Word(1 + 1)
  BY <1>1, <1>2, <1>3 DEF Fresh, Behind
<1>6. chain' = SubSeq(chain, 2, End) /\ metaHead' = Word(2) /\ metaNext' = metaNext
  BY <1>2, <1>5 DEF Takes, BucketCas, buckets, End
<1>7. \A i \in 1 .. End - 1 : chain'[i] = chain[i + 1]
  BY <1>3, <1>6, TakeFront DEF End
<1>8. ASSUME NEW i \in 1 .. End PROVE WordAfter(i) = Word(i + 1)
  <2>1. CASE i = 1
    BY <1>6, <2>1 DEF WordAfter
  <2>2. CASE i # 1
    <3>1. i - 1 \in 1 .. End - 1 /\ (i - 1) + 1 = i
      BY <1>3, <2>2
    <3>2. chain'[i - 1] = chain[i]
      BY <1>7, <3>1
    <3>3. Word(i + 1) = metaNext[chain[i]]
      BY <1>1, Places
    <3> QED BY <1>6, <2>2, <3>2, <3>3 DEF WordAfter
  <2> QED BY <2>1, <2>2
<1> QED BY <1>3, <1>4, <1>5, <1>6, <1>8 DEF Shrinks

\* All other steps leave the queue as it is: only buckets outside are written.
LEMMA QuietWords ==
  ASSUME PoolInv, NEW t \in Threads, Step(t), ~Links(t), ~Takes(t)
  PROVE  Stays
<1>1. /\ TypeOK /\ PlaceOnce /\ Owning(t) /\ metaNext \in [Buckets -> Words]
      /\ own \in [Threads -> Buckets \cup {NULL}]
      /\ chain' = chain /\ metaHead' = metaHead
  BY Typed, QuietChain DEF PoolInv, PerThread
<1>2. ASSUME NEW b \in Buckets, InQueue(b) PROVE metaNext'[b] = metaNext[b] /\ b \in malloced
  <2>1. b \in malloced
    BY <1>1, <1>2, Places DEF PlaceOnce
  <2>2. FreeSetNext(t) \/ InitDequeued(t) => own[t] # NULL
    BY <1>1 DEF Owning, Building, FreeSetNext, InitDequeued, At
  <2>3. FreeSetNext(t) \/ InitDequeued(t) => own[t] # b
    BY <1>1, <1>2, <2>2 DEF PlaceOnce
  <2> QED BY <1>1, <1>2, <2>1, <2>3, NextMoves
<1>3. ASSUME NEW i \in 1 .. End + 1 PROVE WordAfter(i) = Word(i)
  <2>1. CASE i = 1
    BY <1>1, <2>1 DEF Word, WordAfter
  <2>2. CASE i # 1
    <3>1. i - 1 \in 1 .. End
      BY <1>1, <2>2, Places
    <3>2. chain[i - 1] \in Buckets /\ InQueue(chain[i - 1])
      BY <1>1, <3>1, Places
    <3> QED BY <1>1, <1>2, <2>2, <3>2 DEF Word, WordAfter
  <2> QED BY <2>1, <2>2
<1> QED BY <1>1, <1>3 DEF Stays

\* Lengths and places after the step
LEMMA Kinds ==
  ASSUME TypeOK
  PROVE  /\ Stays => chain' = chain /\ EndAfter = End
         /\ \A w : \A b \in Buckets : Grows(w, b) =>
               /\ chain' \in Seq(Buckets) /\ chain' # <<>>
               /\ EndAfter = End + 1 /\ chain'[End + 1] = b
               /\ \A i \in 1 .. End : chain'[i] = chain[i]
               /\ DOMAIN chain' = 1 .. End + 1
         /\ Shrinks =>
               /\ chain' \in Seq(Buckets) /\ chain' # <<>>
               /\ EndAfter = End - 1 /\ End > 1
               /\ \A i \in 1 .. End - 1 : chain'[i] = chain[i + 1]
               /\ DOMAIN chain' = 1 .. End - 1
<1>1. chain \in Seq(Buckets) /\ chain # <<>> /\ End = Len(chain) /\ End \in Nat
  BY DEF TypeOK, End
<1>2. Stays => chain' = chain /\ EndAfter = End
  BY DEF Stays, EndAfter, End
<1>3. ASSUME NEW w, NEW b \in Buckets, Grows(w, b)
      PROVE  /\ chain' \in Seq(Buckets) /\ chain' # <<>>
             /\ EndAfter = End + 1 /\ chain'[End + 1] = b
             /\ \A i \in 1 .. End : chain'[i] = chain[i]
             /\ DOMAIN chain' = 1 .. End + 1
  <2>1. chain' = Append(chain, b)
    BY <1>3 DEF Grows
  <2>2. /\ chain' \in Seq(Buckets) /\ chain' # <<>>
        /\ EndAfter = End + 1 /\ chain'[End + 1] = b
        /\ \A i \in 1 .. End : chain'[i] = chain[i]
    BY <1>1, <2>1, PutLast DEF EndAfter
  <2> QED BY <1>1, <2>2 DEF EndAfter
<1>4. ASSUME Shrinks
      PROVE  /\ chain' \in Seq(Buckets) /\ chain' # <<>>
             /\ EndAfter = End - 1 /\ End > 1
             /\ \A i \in 1 .. End - 1 : chain'[i] = chain[i + 1]
             /\ DOMAIN chain' = 1 .. End - 1
  <2>1. chain' = SubSeq(chain, 2, Len(chain)) /\ End > 1
    BY <1>1, <1>4 DEF Shrinks
  <2>2. /\ chain' \in Seq(Buckets) /\ EndAfter = End - 1
        /\ \A i \in 1 .. End - 1 : chain'[i] = chain[i + 1]
    BY <1>1, <2>1, TakeFront DEF EndAfter
  <2>3. DOMAIN chain' = 1 .. End - 1 /\ chain' # <<>>
    <3>1. End > 1 /\ End \in Nat
      BY <1>1, <2>1
    <3> QED BY <2>2, <3>1 DEF EndAfter
  <2> QED BY <2>1, <2>2, <2>3
<1> QED BY <1>2, <1>3, <1>4

\* What every step does to the queue
LEMMA StepKinds ==
  ASSUME PoolInv, NEW t \in Threads, Step(t)
  PROVE  /\ Links(t) => Grows(new[t], own[t]) /\ own[t] \in Buckets
         /\ Takes(t) => Shrinks
         /\ ~Links(t) /\ ~Takes(t) => Stays
BY LinksLast, LinksWords, TakesWords, QuietWords

\* Which buckets are in the queue after the step
LEMMA InQueueAfter ==
  ASSUME PoolInv, NEW t \in Threads, Step(t), NEW b
  PROVE  /\ Links(t) => (InQueue(b)' <=> InQueue(b) \/ b = own[t])
         /\ Takes(t) => (InQueue(b)' <=> InQueue(b) /\ b # GetRealAddr(head[t]))
         /\ ~Links(t) /\ ~Takes(t) => (InQueue(b)' <=> InQueue(b))
<1>1. TypeOK /\ PlaceOnce
  BY DEF PoolInv
<1>2. /\ InQueue(b) <=> \E i \in 1 .. End : chain[i] = b
      /\ InQueue(b)' <=> \E i \in 1 .. EndAfter : chain'[i] = b
      /\ End \in Nat /\ DOMAIN chain = 1 .. End
  BY <1>1, Places DEF InQueue, Contains, EndAfter
<1>3. ASSUME ~Links(t), ~Takes(t) PROVE InQueue(b)' <=> InQueue(b)
  BY <1>1, <1>2, <1>3, StepKinds, Kinds
<1>4. ASSUME Links(t) PROVE InQueue(b)' <=> InQueue(b) \/ b = own[t]
  <2>1. /\ chain'[End + 1] = own[t] /\ EndAfter = End + 1
        /\ \A i \in 1 .. End : chain'[i] = chain[i]
    BY <1>1, <1>4, StepKinds, Kinds
  <2>2. \A i : i \in 1 .. End + 1 <=> i \in 1 .. End \/ i = End + 1
    BY <1>2
  <2> QED BY <1>2, <2>1, <2>2
<1>5. ASSUME Takes(t) PROVE InQueue(b)' <=> InQueue(b) /\ b # GetRealAddr(head[t])
  <2>1. /\ EndAfter = End - 1 /\ End > 1 /\ GetRealAddr(head[t]) = chain[1]
        /\ \A i \in 1 .. End - 1 : chain'[i] = chain[i + 1]
    BY <1>1, <1>5, StepKinds, Kinds, TakesWords
  <2>2. ASSUME NEW i \in 1 .. End - 1, chain'[i] = b
        PROVE  (\E j \in 1 .. End : chain[j] = b) /\ b # chain[1]
    <3>1. i + 1 \in 1 .. End /\ i + 1 # 1 /\ 1 \in 1 .. End /\ chain[i + 1] = b
      BY <1>2, <2>1, <2>2
    <3> QED BY <1>1, <1>2, <3>1 DEF PlaceOnce
  <2>3. ASSUME NEW j \in 1 .. End, chain[j] = b, b # chain[1]
        PROVE  \E i \in 1 .. End - 1 : chain'[i] = b
    <3>1. j - 1 \in 1 .. End - 1 /\ (j - 1) + 1 = j
      BY <1>2, <2>3
    <3> QED BY <2>1, <2>3, <3>1
  <2> QED BY <1>2, <2>1, <2>2, <2>3
<1> QED BY <1>3, <1>4, <1>5

-----------------------------------------------------------------------------
(* Each part of the invariant is kept *)

\* The words spell the queue after every step.
LEMMA SpelledKept == ASSUME PoolInv, NEW t \in Threads, Step(t) PROVE Spelled'
<1>1. TypeOK /\ Spelled /\ PlaceOnce
  BY DEF PoolInv
<1>2. /\ \A i \in 1 .. EndAfter : GetRealAddr(WordAfter(i)) = chain'[i]
      /\ WordAfter(EndAfter + 1) = GetMetaAddr(ExtractMetaCnt(WordAfter(EndAfter)), NULL)
  <2>0. /\ \A i \in 1 .. End : GetRealAddr(Word(i)) = chain[i]
        /\ Word(End + 1) = GetMetaAddr(ExtractMetaCnt(Word(End)), NULL)
        /\ End \in Nat /\ End > 0
    BY <1>1, Places DEF Spelled
  <2>1. CASE Stays
    <3>1. chain' = chain /\ EndAfter = End
      BY <1>1, <2>1, Kinds
    <3>2. \A i \in 1 .. End : i \in 1 .. End + 1
      BY <2>0
    <3>3. End \in 1 .. End /\ End + 1 \in 1 .. End + 1
      BY <2>0
    <3> QED BY <2>0, <2>1, <3>1, <3>2, <3>3 DEF Stays
  <2>2. CASE Links(t)
    <3>1. Grows(new[t], own[t]) /\ own[t] \in Buckets
      BY <2>2, StepKinds
    <3>2. /\ EndAfter = End + 1 /\ chain'[End + 1] = own[t]
          /\ \A i \in 1 .. End : chain'[i] = chain[i]
      BY <1>1, <3>1, Kinds
    <3>3. ASSUME NEW i \in 1 .. End + 1 PROVE GetRealAddr(WordAfter(i)) = chain'[i]
      <4>1. CASE i = End + 1
        BY <3>1, <3>2, <4>1 DEF Grows
      <4>2. CASE i # End + 1
        <5>1. i \in 1 .. End
          BY <2>0, <4>2
        <5> QED BY <2>0, <3>1, <3>2, <5>1 DEF Grows
      <4> QED BY <4>1, <4>2
    <3>4. EndAfter + 1 = End + 2
      BY <2>0, <3>2
    <3>5. WordAfter(EndAfter + 1) = GetMetaAddr(ExtractMetaCnt(WordAfter(EndAfter)), NULL)
      BY <3>1, <3>2, <3>4 DEF Grows
    <3> QED BY <3>2, <3>3, <3>5
  <2>3. CASE Takes(t)
    <3>1. Shrinks
      BY <2>3, StepKinds
    <3>2. /\ EndAfter = End - 1 /\ End > 1
          /\ \A i \in 1 .. End - 1 : chain'[i] = chain[i + 1]
          /\ \A i \in 1 .. End : WordAfter(i) = Word(i + 1)
      BY <1>1, <3>1, Kinds DEF Shrinks
    <3>3. ASSUME NEW i \in 1 .. End - 1 PROVE GetRealAddr(WordAfter(i)) = chain'[i]
      <4>1. i \in 1 .. End /\ i + 1 \in 1 .. End
        BY <2>0
      <4> QED BY <2>0, <3>2, <4>1
    <3>4. /\ EndAfter + 1 = End /\ EndAfter \in 1 .. End /\ End \in 1 .. End
      BY <2>0, <3>2
    <3> QED BY <2>0, <3>2, <3>3, <3>4
  <2> QED BY <2>1, <2>2, <2>3, StepKinds
<1> QED BY <1>2 DEF Spelled, Word, WordAfter, End, EndAfter, GetRealAddr, ExtractMetaCnt, GetMetaAddr

\* What a step of one thread leaves to the others
LEMMA OthersStay ==
  ASSUME TypeOK, NEW t \in Threads, Step(t), NEW u \in Threads, u # t
  PROVE  /\ pc'[u] = pc[u] /\ tls'[u] = tls[u] /\ own'[u] = own[u] /\ new'[u] = new[u]
         /\ tail'[u] = tail[u] /\ head'[u] = head[u] /\ seen'[u] = seen[u]
<1> DEFINE Same == /\ pc'[u] = pc[u] /\ tls'[u] = tls[u] /\ own'[u] = own[u] /\ new'[u] = new[u]
                   /\ tail'[u] = tail[u] /\ head'[u] = head[u] /\ seen'[u] = seen[u]
<1>0. /\ pc \in [Threads -> Labels] /\ tls \in [Threads -> Buckets \cup {NULL}]
      /\ own \in [Threads -> Buckets \cup {NULL}] /\ new \in [Threads -> Words]
      /\ tail \in [Threads -> Words] /\ head \in [Threads -> Words] /\ seen \in [Threads -> Words]
  BY Typed
<1>1. CASE Alloc(t) \/ AllocBucket(t)
  BY <1>0, <1>1 DEF Alloc, AllocBucket, AllocNode, Goto, locals
<1>2. CASE NewBucket(t) \/ InitDequeued(t)
  BY <1>0, <1>2 DEF NewBucket, InitDequeued, InitBucket, AllocNode, Goto, locals
<1>3. CASE BucketTail(t) \/ BucketHead(t) \/ BucketNext(t) \/ BucketSwing(t)
  BY <1>0, <1>3 DEF BucketTail, BucketHead, BucketNext, BucketSwing, Goto, Forget
<1>4. CASE BucketCas(t)
  BY <1>0, <1>4 DEF BucketCas, Goto, Forget
<1>5. ASSUME NEW o \in held, Free(t, o) PROVE Same
  BY <1>0, <1>5 DEF Free, Goto
<1>6. CASE FreeGetCnt(t) \/ FreeSetNext(t) \/ FreeTail(t)
  BY <1>0, <1>6 DEF FreeGetCnt, FreeSetNext, FreeTail, Goto, locals
<1>7. CASE FreeNext(t)
  BY <1>0, <1>7 DEF FreeNext, Goto, Forget
<1>8. CASE FreeSwing(t) \/ FreeAdvance(t) \/ FreeCount(t)
  BY <1>0, <1>8 DEF FreeSwing, FreeAdvance, FreeCount, Goto, Forget, locals
<1>9. CASE FreeLink(t)
  BY <1>0, <1>9 DEF FreeLink, Goto, Forget
<1> QED BY <1>1, <1>2, <1>3, <1>4, <1>5, <1>6, <1>7, <1>8, <1>9 DEF Step

\* A bucket that is reset is its thread's own, unless its first object is its last.
LEMMA InitsOwn ==
  ASSUME NEW t, NEW b, InitBucket(t, b)
  PROVE  tls' = [tls EXCEPT ![t] = IF BucketSize = 1 THEN NULL ELSE b]
<1>1. tls' = [tls EXCEPT ![t] = IF 0 + 1 = BucketSize THEN NULL ELSE b]
  BY DEF InitBucket, AllocNode
<1>2. 0 + 1 = BucketSize <=> BucketSize = 1
  OBVIOUS
<1> QED BY <1>1, <1>2

\* Where a bucket goes: into a thread's hands, into the queue, out of it, to a thread as its
\* own, or from the thread into use.
LEMMA BucketMoves ==
  ASSUME PoolInv, NEW t \in Threads, Step(t)
  PROVE  \/ UNCHANGED <<malloced, own, tls>> /\ ~Links(t) /\ ~Takes(t)
         \/ /\ Alloc(t) /\ UNCHANGED <<malloced, own>> /\ ~Links(t) /\ ~Takes(t)
            /\ tls' = [tls EXCEPT ![t] = NULL]
         \/ \E o \in held :
               /\ Free(t, o) /\ UNCHANGED <<malloced, tls>> /\ ~Links(t) /\ ~Takes(t)
               /\ own' = [own EXCEPT ![t] = o[1]] /\ freeCnt[o[1]] + 1 = BucketSize
         \/ /\ NewBucket(t) /\ ~Links(t) /\ ~Takes(t) /\ own' = own
            /\ \E b \in Buckets \ malloced :
                  /\ malloced' = malloced \cup {b}
                  /\ tls' = [tls EXCEPT ![t] = IF BucketSize = 1 THEN NULL ELSE b]
         \/ /\ InitDequeued(t) /\ ~Links(t) /\ ~Takes(t) /\ malloced' = malloced
            /\ own' = [own EXCEPT ![t] = NULL]
            /\ tls' = [tls EXCEPT ![t] = IF BucketSize = 1 THEN NULL ELSE own[t]]
         \/ Links(t) /\ UNCHANGED <<malloced, tls>> /\ own' = [own EXCEPT ![t] = NULL]
         \/ Takes(t) /\ UNCHANGED <<malloced, tls>> /\ own' = [own EXCEPT ![t] = GetRealAddr(head[t])]
<1>0. TypeOK /\ tls \in [Threads -> Buckets \cup {NULL}] /\ own \in [Threads -> Buckets \cup {NULL}]
  BY Typed DEF PoolInv
<1>1. CASE AllocBucket(t) \/ BucketTail(t) \/ BucketHead(t) \/ BucketNext(t) \/ BucketSwing(t)
  BY <1>1 DEF AllocBucket, BucketTail, BucketHead, BucketNext, BucketSwing,
              Links, Takes, FreeLink, BucketCas, At, locals, buckets
<1>2. CASE FreeGetCnt(t) \/ FreeSetNext(t) \/ FreeTail(t) \/ FreeNext(t) \/ FreeSwing(t)
           \/ FreeAdvance(t) \/ FreeCount(t)
  BY <1>2 DEF FreeGetCnt, FreeSetNext, FreeTail, FreeNext, FreeSwing, FreeAdvance, FreeCount,
              Links, Takes, FreeLink, BucketCas, At, locals, buckets
<1>3. CASE Alloc(t)
  <2>1. /\ UNCHANGED <<malloced, own>> /\ ~Links(t) /\ ~Takes(t)
        /\ tls' = [tls EXCEPT ![t] = IF allocCnt[tls[t]] + 1 = BucketSize THEN NULL ELSE tls[t]]
    BY <1>3 DEF Alloc, AllocNode, Links, Takes, FreeLink, BucketCas, At, locals
  <2>2. CASE allocCnt[tls[t]] + 1 = BucketSize
    BY <1>3, <2>1, <2>2
  <2>3. CASE allocCnt[tls[t]] + 1 # BucketSize
    BY <1>0, <2>1, <2>3
  <2> QED BY <2>2, <2>3
<1>4. ASSUME NEW o \in held, Free(t, o)
      PROVE  \/ UNCHANGED <<malloced, own, tls>> /\ ~Links(t) /\ ~Takes(t)
             \/ /\ Free(t, o) /\ UNCHANGED <<malloced, tls>> /\ ~Links(t) /\ ~Takes(t)
                /\ own' = [own EXCEPT ![t] = o[1]] /\ freeCnt[o[1]] + 1 = BucketSize
  BY <1>4 DEF Free, Links, Takes, FreeLink, BucketCas, At
<1>5. CASE NewBucket(t)
  <2>1. PICK b \in Buckets \ malloced : malloced' = malloced \cup {b} /\ InitBucket(t, b)
    BY <1>5 DEF NewBucket
  <2>2. tls' = [tls EXCEPT ![t] = IF BucketSize = 1 THEN NULL ELSE b]
    BY <2>1, InitsOwn
  <2> QED BY <1>5, <2>1, <2>2 DEF NewBucket, Links, Takes, FreeLink, BucketCas, At, locals
<1>6. CASE InitDequeued(t)
  <2>1. tls' = [tls EXCEPT ![t] = IF BucketSize = 1 THEN NULL ELSE own[t]]
    BY <1>6, InitsOwn DEF InitDequeued
  <2> QED BY <1>6, <2>1 DEF InitDequeued, Links, Takes, FreeLink, BucketCas, At, buckets
<1>7. CASE FreeLink(t)
  BY <1>7 DEF FreeLink, Links, Takes, BucketCas, At
<1>8. CASE BucketCas(t)
  BY <1>8 DEF BucketCas, Links, Takes, FreeLink, At, buckets
<1> QED BY <1>1, <1>2, <1>3, <1>4, <1>5, <1>6, <1>7, <1>8 DEF Step

\* A bucket of which objects are out is in no queue and in no thread's hands; and if the
\* last of them is coming back, it is no thread's own.
LEMMA FreedWhere ==
  ASSUME PoolInv, NEW o \in held
  PROVE  /\ o[1] \in malloced /\ o[1] \in Buckets /\ ~InQueue(o[1]) /\ ~Owned(o[1])
         /\ allocCnt[o[1]] \in Nat /\ freeCnt[o[1]] \in Nat
         /\ freeCnt[o[1]] < allocCnt[o[1]] /\ allocCnt[o[1]] <= BucketSize
         /\ Local(o[1]) => freeCnt[o[1]] + 1 # BucketSize
         /\ IsFiniteSet(Of(o[1])) /\ o \in Of(o[1])
<1> DEFINE b == o[1]
<1>1. /\ TypeOK /\ CountsFit /\ PlaceOnce
      /\ held \subseteq Objects /\ BucketSize \in Nat
  BY SizeAssumption, Typed DEF PoolInv
<1>2. b \in Buckets /\ o \in Of(b)
  BY <1>1 DEF Objects, Of
<1>3. IsFiniteSet(Of(b))
  <2>1. Of(b) \subseteq {b} \X (1 .. BucketSize)
    BY <1>1 DEF Of, Objects
  <2>2. IsFiniteSet({b} \X (1 .. BucketSize))
    <3>1. IsFiniteSet(1 .. BucketSize)
      <4>1. 1 \in Int /\ BucketSize \in Int
        BY <1>1
      <4> QED BY <4>1, FS_Interval
    <3>2. IsFiniteSet({b})
      BY FS_Singleton
    <3> QED BY <3>1, <3>2, FS_Product
  <2> QED BY <2>1, <2>2, FS_Subset
<1>4. Cardinality(Of(b)) > 0 /\ Cardinality(Of(b)) \in Nat
  BY <1>2, <1>3, FS_EmptySet, FS_CardinalityType
<1>5. /\ Cardinality(Of(b)) = allocCnt[b] - freeCnt[b]
      /\ InQueue(b) \/ Owned(b) => allocCnt[b] = freeCnt[b]
      /\ Local(b) => allocCnt[b] < BucketSize
      /\ b \notin malloced => allocCnt[b] = 0
  BY <1>1, <1>2 DEF CountsFit, Fits
<1>6. allocCnt[b] \in 0 .. BucketSize /\ freeCnt[b] \in 0 .. BucketSize
  BY <1>1, <1>2 DEF TypeOK
<1>7. freeCnt[b] < allocCnt[b]
  BY <1>1, <1>4, <1>5, <1>6
<1> QED BY <1>1, <1>2, <1>3, <1>5, <1>6, <1>7

\* What the counters of the buckets and the objects out become
LEMMA CountMoves ==
  ASSUME PoolInv, NEW t \in Threads, Step(t)
  PROVE  \/ UNCHANGED <<allocCnt, freeCnt, held>> /\ ~Alloc(t) /\ ~InitDequeued(t) /\ ~NewBucket(t)
            /\ \A o \in held : ~Free(t, o)
         \/ /\ Alloc(t) /\ freeCnt' = freeCnt
            /\ allocCnt' = [allocCnt EXCEPT ![tls[t]] = allocCnt[tls[t]] + 1]
            /\ held' = held \cup {<<tls[t], allocCnt[tls[t]] + 1>>}
            /\ tls' = [tls EXCEPT ![t] = IF allocCnt[tls[t]] + 1 = BucketSize THEN NULL ELSE tls[t]]
         \/ \E o \in held :
               /\ Free(t, o) /\ allocCnt' = allocCnt
               /\ freeCnt' = [freeCnt EXCEPT ![o[1]] = @ + 1] /\ held' = held \ {o}
         \/ \E b \in Buckets :
               /\ \/ InitDequeued(t) /\ b = own[t]
                  \/ NewBucket(t) /\ b \notin malloced /\ malloced' = malloced \cup {b}
               /\ tls' = [tls EXCEPT ![t] = IF BucketSize = 1 THEN NULL ELSE b]
               /\ allocCnt' = [allocCnt EXCEPT ![b] = 1] /\ freeCnt' = [freeCnt EXCEPT ![b] = 0]
               /\ held' = held \cup {<<b, 1>>}
<1>0. TypeOK /\ Owning(t) /\ own \in [Threads -> Buckets \cup {NULL}]
  BY Typed DEF PoolInv, PerThread
<1>1. CASE AllocBucket(t) \/ BucketTail(t) \/ BucketHead(t) \/ BucketNext(t) \/ BucketSwing(t) \/ BucketCas(t)
  BY <1>1 DEF AllocBucket, BucketTail, BucketHead, BucketNext, BucketSwing, BucketCas,
              Alloc, InitDequeued, NewBucket, Free, At, buckets
<1>2. CASE FreeGetCnt(t) \/ FreeSetNext(t) \/ FreeTail(t) \/ FreeNext(t) \/ FreeSwing(t)
           \/ FreeLink(t) \/ FreeAdvance(t) \/ FreeCount(t)
  BY <1>2 DEF FreeGetCnt, FreeSetNext, FreeTail, FreeNext, FreeSwing, FreeLink, FreeAdvance, FreeCount,
              Alloc, InitDequeued, NewBucket, Free, At, buckets
<1>3. CASE Alloc(t)
  BY <1>3 DEF Alloc, AllocNode
<1>4. ASSUME NEW o \in held, Free(t, o)
      PROVE  /\ allocCnt' = allocCnt
             /\ freeCnt' = [freeCnt EXCEPT ![o[1]] = @ + 1] /\ held' = held \ {o}
  BY <1>4 DEF Free
<1>5. ASSUME NEW b \in Buckets, InitBucket(t, b)
      PROVE  /\ tls' = [tls EXCEPT ![t] = IF BucketSize = 1 THEN NULL ELSE b]
             /\ allocCnt' = [allocCnt EXCEPT ![b] = 1] /\ freeCnt' = [freeCnt EXCEPT ![b] = 0]
             /\ held' = held \cup {<<b, 1>>}
  <2>1. 0 + 1 = 1
    OBVIOUS
  <2>2. allocCnt' = [allocCnt EXCEPT ![b] = 0 + 1] /\ held' = held \cup {<<b, 0 + 1>>}
        /\ freeCnt' = [freeCnt EXCEPT ![b] = 0]
    BY <1>5 DEF InitBucket, AllocNode
  <2>3. tls' = [tls EXCEPT ![t] = IF BucketSize = 1 THEN NULL ELSE b]
    BY <1>5, InitsOwn
  <2> QED BY <2>1, <2>2, <2>3
<1>6. CASE NewBucket(t)
  <2>1. PICK b \in Buckets \ malloced : malloced' = malloced \cup {b} /\ InitBucket(t, b)
    BY <1>6 DEF NewBucket
  <2> QED BY <1>5, <1>6, <2>1
<1>7. CASE InitDequeued(t)
  <2>1. own[t] \in Buckets /\ InitBucket(t, own[t])
    BY <1>0, <1>7 DEF InitDequeued, Owning, At
  <2> QED BY <1>5, <1>7, <2>1
<1> QED BY <1>1, <1>2, <1>3, <1>4, <1>6, <1>7 DEF Step

\* The queue's own variables and the links keep their types.
LEMMA QueueTyped ==
  ASSUME PoolInv, NEW t \in Threads, Step(t)
  PROVE  /\ metaHead' \in Counts \X Buckets /\ metaTail' \in Counts \X Buckets
         /\ metaCnt' \in Counts /\ size' \in Int /\ metaNext' \in [Buckets -> Words]
         /\ chain' \in Seq(Buckets) /\ chain' # <<>>
<1>0. /\ TypeOK /\ Reading(t) /\ Owning(t)
      /\ metaHead \in Counts \X Buckets /\ metaTail \in Counts \X Buckets
      /\ metaCnt \in Counts /\ size \in Int /\ metaNext \in [Buckets -> Words]
      /\ own \in [Threads -> Buckets \cup {NULL}] /\ new \in [Threads -> Words]
      /\ seen \in [Threads -> Words] /\ chain \in Seq(Buckets) /\ chain # <<>>
  BY Typed DEF PoolInv, PerThread, TypeOK
<1>1. chain' \in Seq(Buckets) /\ chain' # <<>>
  BY <1>0, StepKinds, Kinds
<1>2. metaHead' \in Counts \X Buckets
  <2>1. CASE Takes(t)
    <3>1. metaHead' = seen[t] /\ GetRealAddr(seen[t]) \in Buckets
      BY <1>0, <2>1 DEF Takes, BucketCas, At, Reading, HasNext
    <3> QED BY <1>0, <3>1, BucketWord
  <2>2. CASE Links(t)
    BY <1>0, <2>2 DEF Links, FreeLink, pool
  <2> QED BY <1>0, <2>1, <2>2, QuietChain
<1>3. metaNext' \in [Buckets -> Words]
  <2>1. GetMetaAddr(ExtractMetaCnt(new[t]), NULL) \in Words
    BY <1>0, BucketWord, WordParts
  <2> QED BY <1>0, <2>1, ZeroIsWord, NextMoves
<1>4. metaTail' \in Counts \X Buckets /\ metaCnt' \in Counts /\ size' \in Int
  <2>1. CASE Alloc(t) \/ AllocBucket(t) \/ NewBucket(t) \/ BucketTail(t) \/ BucketHead(t) \/ BucketNext(t)
             \/ BucketCas(t) \/ InitDequeued(t)
    BY <1>0, <2>1 DEF Alloc, AllocBucket, NewBucket, BucketTail, BucketHead, BucketNext, BucketCas,
                      InitDequeued, pool
  <2>2. CASE FreeSwing(t) \/ BucketSwing(t)
    <3>1. GetRealAddr(seen[t]) \in Buckets
      BY <1>0, <2>2 DEF Reading, HasNext, FreeSwing, BucketSwing, At
    <3>2. seen[t] \in Counts \X Buckets
      BY <1>0, <3>1, BucketWord
    <3> QED BY <1>0, <2>2, <3>2 DEF FreeSwing, BucketSwing, SwingTail
  <2>3. CASE FreeAdvance(t)
    <3>1. GetRealAddr(new[t]) \in Buckets
      BY <1>0, <2>3 DEF Reading, FreeAdvance, At
    <3>2. new[t] \in Counts \X Buckets
      BY <1>0, <3>1, BucketWord
    <3> QED BY <1>0, <2>3, <3>2 DEF FreeAdvance, SwingTail
  <2>4. CASE FreeGetCnt(t)
    BY <1>0, <2>4, CountsStay DEF FreeGetCnt
  <2>5. ASSUME NEW o \in held, Free(t, o) PROVE metaTail' \in Counts \X Buckets /\ metaCnt' \in Counts /\ size' \in Int
    BY <1>0, <2>5 DEF Free, pool
  <2>6. CASE FreeSetNext(t) \/ FreeTail(t) \/ FreeNext(t) \/ FreeLink(t) \/ FreeCount(t)
    BY <1>0, <2>6 DEF FreeSetNext, FreeTail, FreeNext, FreeLink, FreeCount, pool
  <2> QED BY <2>1, <2>2, <2>3, <2>4, <2>5, <2>6 DEF Step
<1> QED BY <1>1, <1>2, <1>3, <1>4

\* So do the counters, the objects and who has which bucket.
LEMMA CountsTyped ==
  ASSUME PoolInv, NEW t \in Threads, Step(t)
  PROVE  /\ malloced' \subseteq Buckets
         /\ allocCnt' \in [Buckets -> 0 .. BucketSize] /\ freeCnt' \in [Buckets -> 0 .. BucketSize]
         /\ tls' \in [Threads -> Buckets \cup {NULL}] /\ held' \subseteq Objects
         /\ own' \in [Threads -> Buckets \cup {NULL}]
<1>0. /\ TypeOK /\ CountsFit /\ Owning(t) /\ Reading(t) /\ malloced \subseteq Buckets
      /\ allocCnt \in [Buckets -> 0 .. BucketSize] /\ freeCnt \in [Buckets -> 0 .. BucketSize]
      /\ tls \in [Threads -> Buckets \cup {NULL}] /\ held \subseteq Objects
      /\ own \in [Threads -> Buckets \cup {NULL}]
  BY Typed DEF PoolInv, PerThread, TypeOK
<1>01. BucketSize \in Nat /\ BucketSize > 0
  BY SizeAssumption
<1>1. /\ malloced' \subseteq Buckets /\ tls' \in [Threads -> Buckets \cup {NULL}]
      /\ own' \in [Threads -> Buckets \cup {NULL}]
  <2>1. Takes(t) => GetRealAddr(head[t]) \in Buckets
    BY <1>0 DEF Takes, BucketCas, At, Reading, HasHead
  <2>2. \A o \in held : o[1] \in Buckets
    BY <1>0 DEF Objects
  <2> QED BY <1>0, <1>01, <2>1, <2>2, BucketMoves
<1>2. /\ allocCnt' \in [Buckets -> 0 .. BucketSize] /\ freeCnt' \in [Buckets -> 0 .. BucketSize]
      /\ held' \subseteq Objects
  <2>1. CASE UNCHANGED <<allocCnt, freeCnt, held>>
    BY <1>0, <1>01, <2>1
  <2>2. CASE /\ Alloc(t) /\ freeCnt' = freeCnt
             /\ allocCnt' = [allocCnt EXCEPT ![tls[t]] = allocCnt[tls[t]] + 1]
             /\ held' = held \cup {<<tls[t], allocCnt[tls[t]] + 1>>}
    <3> DEFINE b == tls[t]
    <3>1. b \in Buckets /\ Local(b)
      BY <1>0, <1>01, <2>2 DEF Alloc, Local
    <3>2. allocCnt[b] + 1 \in 1 .. BucketSize
      BY <1>0, <1>01, <3>1 DEF CountsFit, Fits
    <3>3. <<b, allocCnt[b] + 1>> \in Objects
      BY <3>1, <3>2 DEF Objects
    <3>4. allocCnt[b] + 1 \in 0 .. BucketSize
      BY <3>2
    <3> HIDE DEF b
    <3>5. allocCnt' = [allocCnt EXCEPT ![b] = allocCnt[b] + 1] /\ held' = held \cup {<<b, allocCnt[b] + 1>>}
      BY <2>2 DEF b
    <3> QED BY <1>0, <1>01, <2>2, <3>3, <3>4, <3>5
  <2>3. ASSUME NEW o \in held, Free(t, o), allocCnt' = allocCnt,
               freeCnt' = [freeCnt EXCEPT ![o[1]] = @ + 1], held' = held \ {o}
        PROVE  /\ allocCnt' \in [Buckets -> 0 .. BucketSize] /\ freeCnt' \in [Buckets -> 0 .. BucketSize]
               /\ held' \subseteq Objects
    <3>1. o[1] \in Buckets /\ freeCnt[o[1]] + 1 \in 0 .. BucketSize
      <4>1. o[1] \in Buckets /\ freeCnt[o[1]] \in Nat /\ allocCnt[o[1]] \in Nat
            /\ freeCnt[o[1]] < allocCnt[o[1]] /\ allocCnt[o[1]] <= BucketSize
        BY FreedWhere
      <4> QED BY <1>0, <1>01, <4>1
    <3> QED BY <1>0, <1>01, <2>3, <3>1
  <2>4. ASSUME NEW b \in Buckets, allocCnt' = [allocCnt EXCEPT ![b] = 1],
               freeCnt' = [freeCnt EXCEPT ![b] = 0], held' = held \cup {<<b, 1>>}
        PROVE  /\ allocCnt' \in [Buckets -> 0 .. BucketSize] /\ freeCnt' \in [Buckets -> 0 .. BucketSize]
               /\ held' \subseteq Objects
    <3>1. 1 \in 1 .. BucketSize /\ 1 \in 0 .. BucketSize /\ 0 \in 0 .. BucketSize
      BY <1>01
    <3>2. <<b, 1>> \in Objects
      BY <3>1 DEF Objects
    <3> QED BY <1>0, <1>01, <2>4, <3>1, <3>2
  <2> QED BY <2>1, <2>2, <2>3, <2>4, CountMoves
<1> QED BY <1>1, <1>2

\* And the threads' own variables
LEMMA LocalsTyped ==
  ASSUME PoolInv, NEW t \in Threads, Step(t)
  PROVE  /\ pc' \in [Threads -> Labels] /\ new' \in [Threads -> Words] /\ tail' \in [Threads -> Words]
         /\ head' \in [Threads -> Words] /\ seen' \in [Threads -> Words]
<1>0. /\ TypeOK /\ Reading(t) /\ Owning(t)
      /\ metaHead \in Words /\ metaTail \in Words /\ metaNext \in [Buckets -> Words] /\ metaCnt \in Counts
      /\ own \in [Threads -> Buckets \cup {NULL}] /\ malloced \subseteq Buckets
      /\ pc \in [Threads -> Labels] /\ new \in [Threads -> Words] /\ tail \in [Threads -> Words]
      /\ head \in [Threads -> Words] /\ seen \in [Threads -> Words] /\ ZeroWord \in Words
  BY Typed, ZeroIsWord DEF PoolInv, PerThread, TypeOK
<1> DEFINE Good == /\ pc' \in [Threads -> Labels] /\ new' \in [Threads -> Words] /\ tail' \in [Threads -> Words]
                   /\ head' \in [Threads -> Words] /\ seen' \in [Threads -> Words]
<1>1. CASE Alloc(t) \/ AllocBucket(t) \/ NewBucket(t) \/ InitDequeued(t)
  BY <1>0, <1>1 DEF Alloc, AllocBucket, NewBucket, InitDequeued, Goto, Labels, locals
<1>2. CASE BucketTail(t) \/ BucketHead(t) \/ BucketSwing(t) \/ BucketCas(t)
  BY <1>0, <1>2 DEF BucketTail, BucketHead, BucketSwing, BucketCas, Goto, Forget, Labels
<1>3. CASE BucketNext(t)
  <2>1. metaNext[GetRealAddr(head[t])] \in Words
    BY <1>0, <1>3 DEF BucketNext, At, Reading, HasHead
  <2> QED BY <1>0, <1>3, <2>1 DEF BucketNext, Goto, Forget, Labels
<1>4. ASSUME NEW o \in held, Free(t, o) PROVE Good
  BY <1>0, <1>4 DEF Free, Goto, Labels
<1>5. CASE FreeGetCnt(t)
  <2>1. GetMetaAddr(metaCnt, own[t]) \in Words
    BY <1>0, WordParts
  <2> QED BY <1>0, <1>5, <2>1 DEF FreeGetCnt, Goto, Labels
<1>6. CASE FreeNext(t)
  <2>1. metaNext[GetRealAddr(tail[t])] \in Words
    BY <1>0, <1>6 DEF FreeNext, At, Reading, HasTail
  <2> QED BY <1>0, <1>6, <2>1 DEF FreeNext, Goto, Forget, Labels
<1>7. CASE FreeSetNext(t) \/ FreeTail(t) \/ FreeCount(t)
  BY <1>0, <1>7 DEF FreeSetNext, FreeTail, FreeCount, Goto, Labels, locals
<1>8. CASE FreeSwing(t) \/ FreeLink(t) \/ FreeAdvance(t)
  BY <1>0, <1>8 DEF FreeSwing, FreeLink, FreeAdvance, Goto, Forget, Labels
<1> QED BY <1>1, <1>2, <1>3, <1>4, <1>5, <1>6, <1>7, <1>8 DEF Step

LEMMA TypeKept == ASSUME PoolInv, NEW t \in Threads, Step(t) PROVE TypeOK'
BY QueueTyped, CountsTyped, LocalsTyped DEF TypeOK

\* The buckets of the queue stay apart.
ChainOnce ==
    /\ \A i, j \in DOMAIN chain : chain[i] = chain[j] => i = j
    /\ \A i \in DOMAIN chain : chain[i] \in malloced

LEMMA ChainOnceKept == ASSUME PoolInv, NEW t \in Threads, Step(t) PROVE ChainOnce'
<1>0. /\ TypeOK /\ PlaceOnce /\ ChainOnce /\ End \in Nat /\ DOMAIN chain = 1 .. End
      /\ own \in [Threads -> Buckets \cup {NULL}]
  BY Typed, Places DEF PoolInv, PlaceOnce, ChainOnce
<1>1. \A b \in malloced : b \in malloced'
  BY BucketMoves
<1>2. CASE ~Links(t) /\ ~Takes(t)
  BY <1>0, <1>1, <1>2, QuietChain DEF ChainOnce
<1>3. CASE Links(t)
  <2>1. /\ chain'[End + 1] = own[t] /\ DOMAIN chain' = 1 .. End + 1
        /\ \A i \in 1 .. End : chain'[i] = chain[i]
    BY <1>0, <1>3, StepKinds, Kinds
  <2>2. own[t] \in malloced /\ \A i \in 1 .. End : chain[i] # own[t]
    BY <1>0, <1>3, LinksLast, Places, BucketAssumption DEF PlaceOnce
  <2>3. \A i \in 1 .. End + 1 : i \in 1 .. End \/ i = End + 1
    BY <1>0
  <2> QED BY <1>0, <1>1, <2>1, <2>2, <2>3 DEF ChainOnce
<1>4. CASE Takes(t)
  <2>1. /\ DOMAIN chain' = 1 .. End - 1 /\ End > 1
        /\ \A i \in 1 .. End - 1 : chain'[i] = chain[i + 1]
    BY <1>0, <1>4, StepKinds, Kinds
  <2>2. \A i \in 1 .. End - 1 : i + 1 \in 1 .. End
    BY <1>0
  <2>3. ASSUME NEW i \in 1 .. End - 1, NEW j \in 1 .. End - 1, chain'[i] = chain'[j] PROVE i = j
    <3>1. chain[i + 1] = chain[j + 1] /\ i + 1 \in 1 .. End /\ j + 1 \in 1 .. End
      BY <2>1, <2>2, <2>3
    <3>2. i + 1 = j + 1
      BY <1>0, <3>1 DEF ChainOnce
    <3> QED BY <3>2
  <2>4. \A i \in 1 .. End - 1 : chain'[i] \in malloced'
    BY <1>0, <1>1, <2>1, <2>2 DEF ChainOnce
  <2> QED BY <2>1, <2>3, <2>4 DEF ChainOnce
<1> QED BY <1>2, <1>3, <1>4

\* A bucket is in one place after every step.
LEMMA PlaceOnceKept == ASSUME PoolInv, NEW t \in Threads, Step(t) PROVE PlaceOnce'
<1>0. /\ TypeOK /\ PlaceOnce /\ malloced \subseteq Buckets /\ NULL \notin Buckets
      /\ own \in [Threads -> Buckets \cup {NULL}] /\ tls \in [Threads -> Buckets \cup {NULL}]
  BY Typed, BucketAssumption DEF PoolInv
<1> DEFINE Queued(b) == \E i \in 1 .. EndAfter : chain'[i] = b
<1>1. \A b : InQueue(b)' <=> Queued(b)
  BY DEF InQueue, Contains, EndAfter
<1>2. /\ ~Links(t) /\ ~Takes(t) => \A b : Queued(b) <=> InQueue(b)
      /\ Links(t) => \A b : Queued(b) <=> InQueue(b) \/ b = own[t]
      /\ Takes(t) => \A b : Queued(b) <=> InQueue(b) /\ b # GetRealAddr(head[t])
  BY <1>1, InQueueAfter
<1> HIDE DEF Queued
<1> DEFINE Apart ==
       /\ \A u \in Threads : own'[u] # NULL => own'[u] \in malloced' /\ ~Queued(own'[u])
       /\ \A u \in Threads : tls'[u] # NULL => tls'[u] \in malloced' /\ ~Queued(tls'[u])
       /\ \A u, v \in Threads : own'[u] # NULL /\ own'[u] = own'[v] => u = v
       /\ \A u, v \in Threads : tls'[u] # NULL /\ tls'[u] = tls'[v] => u = v
       /\ \A u, v \in Threads : own'[u] # NULL => own'[u] # tls'[v]
<1>3. ASSUME UNCHANGED <<malloced, own, tls>>, ~Links(t), ~Takes(t) PROVE Apart
  BY <1>0, <1>2, <1>3 DEF PlaceOnce
<1>4. ASSUME Alloc(t), UNCHANGED <<malloced, own>>, ~Links(t), ~Takes(t),
             tls' = [tls EXCEPT ![t] = NULL]
      PROVE  Apart
  BY <1>0, <1>2, <1>4 DEF PlaceOnce
<1>5. ASSUME NEW o \in held, UNCHANGED <<malloced, tls>>, ~Links(t), ~Takes(t),
             own' = [own EXCEPT ![t] = o[1]], freeCnt[o[1]] + 1 = BucketSize
      PROVE  Apart
  <2>1. o[1] \in malloced /\ ~InQueue(o[1]) /\ ~Owned(o[1]) /\ ~Local(o[1])
    BY <1>5, FreedWhere
  <2> QED BY <1>0, <1>2, <1>5, <2>1 DEF PlaceOnce, Owned, Local
<1>6. ASSUME NewBucket(t), ~Links(t), ~Takes(t), own' = own, NEW b \in Buckets \ malloced,
             malloced' = malloced \cup {b},
             tls' = [tls EXCEPT ![t] = IF BucketSize = 1 THEN NULL ELSE b]
      PROVE  Apart
  <2>1. ~InQueue(b)
    BY <1>0, <1>6, Places DEF PlaceOnce
  <2>2. \A u \in Threads : own[u] # b /\ tls[u] # b
    BY <1>0, <1>6 DEF PlaceOnce
  <2>3. \A u \in Threads : tls'[u] = IF u = t THEN IF BucketSize = 1 THEN NULL ELSE b ELSE tls[u]
    BY <1>0, <1>6
  <2> QED BY <1>0, <1>2, <1>6, <2>1, <2>2, <2>3 DEF PlaceOnce
<1>7. ASSUME InitDequeued(t), ~Links(t), ~Takes(t), malloced' = malloced,
             own' = [own EXCEPT ![t] = NULL],
             tls' = [tls EXCEPT ![t] = IF BucketSize = 1 THEN NULL ELSE own[t]]
      PROVE  Apart
  <2>1. own[t] # NULL
    BY <1>7 DEF InitDequeued, At, PoolInv, PerThread, Owning
  <2>2. /\ \A u \in Threads : tls'[u] = IF u = t THEN IF BucketSize = 1 THEN NULL ELSE own[t] ELSE tls[u]
        /\ \A u \in Threads : own'[u] = IF u = t THEN NULL ELSE own[u]
    BY <1>0, <1>7
  <2> QED BY <1>0, <1>2, <1>7, <2>1, <2>2 DEF PlaceOnce
<1>8. ASSUME Links(t), UNCHANGED <<malloced, tls>>, own' = [own EXCEPT ![t] = NULL] PROVE Apart
  <2>1. own[t] \in Buckets
    BY <1>8, LinksLast
  <2> QED BY <1>0, <1>2, <1>8, <2>1 DEF PlaceOnce
<1>9. ASSUME Takes(t), UNCHANGED <<malloced, tls>>, own' = [own EXCEPT ![t] = GetRealAddr(head[t])]
      PROVE  Apart
  <2> DEFINE a == GetRealAddr(head[t])
  <2>1. InQueue(a) /\ a \in malloced
    <3>1. a = chain[1] /\ 1 \in 1 .. End /\ DOMAIN chain = 1 .. End
      BY <1>0, <1>9, TakesWords, Places
    <3> QED BY <1>0, <3>1, Places DEF PlaceOnce
  <2>2. \A u \in Threads : own[u] # a /\ tls[u] # a
    BY <1>0, <2>1 DEF PlaceOnce
  <2> QED BY <1>0, <1>2, <1>9, <2>1, <2>2 DEF PlaceOnce
<1>10. Apart
  BY <1>3, <1>4, <1>5, <1>6, <1>7, <1>8, <1>9, BucketMoves
<1> HIDE DEF Apart
<1>11. ChainOnce'
  BY ChainOnceKept
<1> QED BY <1>1, <1>10, <1>11 DEF PlaceOnce, ChainOnce, Apart

\* Objects of a bucket
LEMMA OfFinite ==
  ASSUME TypeOK, NEW b \in Buckets
  PROVE  IsFiniteSet(Of(b)) /\ Cardinality(Of(b)) \in Nat
<1>1. held \subseteq Objects /\ 1 \in Int /\ BucketSize \in Int
  BY SizeAssumption, Typed
<1>2. Of(b) \subseteq {b} \X (1 .. BucketSize)
  BY <1>1 DEF Of, Objects
<1>3. IsFiniteSet(1 .. BucketSize) /\ IsFiniteSet({b})
  BY <1>1, FS_Interval, FS_Singleton
<1>4. IsFiniteSet({b} \X (1 .. BucketSize))
  BY <1>3, FS_Product
<1> QED BY <1>2, <1>4, FS_Subset, FS_CardinalityType

\* An object handed out that was not
LEMMA OneMore ==
  ASSUME TypeOK, NEW b \in Buckets, NEW c \in Buckets, NEW n,
         held' = held \cup {<<c, n>>}, b = c => \A o \in Of(b) : o[2] # n
  PROVE  /\ Of(b)' = IF b = c THEN Of(b) \cup {<<c, n>>} ELSE Of(b)
         /\ Cardinality(Of(b)') = IF b = c THEN Cardinality(Of(b)) + 1 ELSE Cardinality(Of(b))
<1>1. Of(b)' = IF b = c THEN Of(b) \cup {<<c, n>>} ELSE Of(b)
  BY DEF Of
<1>2. IsFiniteSet(Of(b))
  BY OfFinite
<1>3. CASE b = c
  <2>1. <<c, n>> \notin Of(b)
    BY <1>3
  <2>2. Cardinality(Of(b) \cup {<<c, n>>}) = Cardinality(Of(b)) + 1
    BY <1>2, <2>1, FS_AddElement
  <2> QED BY <1>1, <1>3, <2>2
<1>4. CASE b # c
  BY <1>1, <1>4
<1> QED BY <1>1, <1>3, <1>4

\* An object given back
LEMMA OneLess ==
  ASSUME TypeOK, NEW b \in Buckets, NEW o \in held, held' = held \ {o}
  PROVE  /\ Of(b)' \subseteq Of(b)
         /\ Cardinality(Of(b)') = IF b = o[1] THEN Cardinality(Of(b)) - 1 ELSE Cardinality(Of(b))
<1>1. Of(b)' = IF b = o[1] THEN Of(b) \ {o} ELSE Of(b)
  BY DEF Of
<1>2. IsFiniteSet(Of(b)) /\ (b = o[1] => o \in Of(b))
  BY OfFinite DEF Of
<1>3. CASE b = o[1]
  <2>1. Cardinality(Of(b) \ {o}) = Cardinality(Of(b)) - 1
    BY <1>2, <1>3, FS_RemoveElement
  <2> QED BY <1>1, <1>3, <2>1
<1>4. CASE b # o[1]
  BY <1>1, <1>4
<1> QED BY <1>3, <1>4

\* The counters tell the objects, and where the bucket is, after every step.
LEMMA CountsFitKept == ASSUME PoolInv, NEW t \in Threads, Step(t) PROVE CountsFit'
<1>0. /\ TypeOK /\ PlaceOnce /\ CountsFit /\ NULL \notin Buckets
      /\ own \in [Threads -> Buckets \cup {NULL}] /\ tls \in [Threads -> Buckets \cup {NULL}]
      /\ allocCnt \in [Buckets -> 0 .. BucketSize] /\ freeCnt \in [Buckets -> 0 .. BucketSize]
  BY Typed, BucketAssumption DEF PoolInv, TypeOK
<1>1. BucketSize \in Nat /\ BucketSize > 0
  BY SizeAssumption
<1>2. SUFFICES ASSUME NEW b \in Buckets PROVE Fits(b)'
  BY DEF CountsFit
<1>3. Fits(b) /\ Cardinality(Of(b)) \in Nat /\ allocCnt[b] \in 0 .. BucketSize /\ freeCnt[b] \in 0 .. BucketSize
  BY <1>0, OfFinite DEF CountsFit
<1>4. CASE UNCHANGED <<allocCnt, freeCnt, held>> /\ ~Alloc(t) /\ ~InitDequeued(t) /\ ~NewBucket(t)
            /\ \A o \in held : ~Free(t, o)
  <2>1. Of(b)' = Of(b) /\ malloced' = malloced /\ (Local(b)' <=> Local(b))
    BY <1>4, BucketMoves DEF Of, Local
  <2>2. InQueue(b)' \/ Owned(b)' <=> InQueue(b) \/ Owned(b)
    <3>1. CASE UNCHANGED own /\ ~Links(t) /\ ~Takes(t)
      BY <3>1, InQueueAfter DEF Owned
    <3>2. CASE Links(t) /\ own' = [own EXCEPT ![t] = NULL]
      <4>1. InQueue(b)' <=> InQueue(b) \/ b = own[t]
        BY <3>2, InQueueAfter
      <4>2. Owned(b)' <=> \E u \in Threads : u # t /\ own[u] = b
        BY <1>0, <3>2 DEF Owned
      <4> QED BY <4>1, <4>2 DEF Owned
    <3>3. CASE Takes(t) /\ own' = [own EXCEPT ![t] = GetRealAddr(head[t])]
      <4>1. InQueue(b)' <=> InQueue(b) /\ b # GetRealAddr(head[t])
        BY <3>3, InQueueAfter
      <4>2. own[t] = NULL
        BY <3>3 DEF PoolInv, PerThread, Owning, Building, Takes, BucketCas, At
      <4>3. Owned(b)' <=> Owned(b) \/ b = GetRealAddr(head[t])
        BY <1>0, <3>3, <4>2 DEF Owned
      <4>4. InQueue(GetRealAddr(head[t]))
        <5>1. GetRealAddr(head[t]) = chain[1] /\ 1 \in 1 .. End
          BY <1>0, <3>3, TakesWords, Places
        <5> QED BY <1>0, <5>1, Places
      <4> QED BY <4>1, <4>3, <4>4
    <3> QED BY <1>4, <3>1, <3>2, <3>3, BucketMoves
  <2> QED BY <1>3, <1>4, <2>1, <2>2 DEF Fits
<1>5. CASE /\ Alloc(t) /\ freeCnt' = freeCnt
           /\ allocCnt' = [allocCnt EXCEPT ![tls[t]] = allocCnt[tls[t]] + 1]
           /\ held' = held \cup {<<tls[t], allocCnt[tls[t]] + 1>>}
           /\ tls' = [tls EXCEPT ![t] = IF allocCnt[tls[t]] + 1 = BucketSize THEN NULL ELSE tls[t]]
  <2>1. PICK c \in Buckets : tls[t] = c
    BY <1>0, <1>5 DEF Alloc
  <2>2. /\ ~InQueue(c) /\ ~Owned(c) /\ c \in malloced /\ allocCnt[c] \in Nat /\ Local(c)
        /\ Fits(c) /\ freeCnt[c] \in Nat /\ Cardinality(Of(c)) \in Nat
    <3>1. allocCnt[c] \in 0 .. BucketSize /\ freeCnt[c] \in 0 .. BucketSize
      BY <1>0
    <3> QED BY <1>0, <2>1, <3>1, OfFinite DEF PlaceOnce, Owned, Local, CountsFit
  <2>3. /\ allocCnt'[b] = IF b = c THEN allocCnt[c] + 1 ELSE allocCnt[b]
        /\ freeCnt'[b] = freeCnt[b]
    BY <1>0, <1>5, <2>1
  <2>4. c = b => \A o \in Of(b) : o[2] # allocCnt[c] + 1
    BY <1>3, <2>2 DEF Fits
  <2>5. /\ Of(b)' = IF b = c THEN Of(b) \cup {<<c, allocCnt[c] + 1>>} ELSE Of(b)
        /\ Cardinality(Of(b)') = IF b = c THEN Cardinality(Of(b)) + 1 ELSE Cardinality(Of(b))
    BY <1>0, <1>5, <2>1, <2>4, OneMore
  <2>6. malloced' = malloced /\ (InQueue(b)' <=> InQueue(b)) /\ (Owned(b)' <=> Owned(b))
    <3>1. UNCHANGED <<malloced, own>> /\ ~Links(t) /\ ~Takes(t)
      BY <1>5 DEF Alloc, Links, Takes, FreeLink, BucketCas, At, locals
    <3> QED BY <3>1, InQueueAfter DEF Owned
  <2>7. CASE b # c
    <3>1. Local(b)' <=> Local(b)
      BY <1>0, <1>5, <2>1, <2>7 DEF Local
    <3> QED BY <1>3, <2>3, <2>5, <2>6, <2>7, <3>1 DEF Fits
  <2>8. CASE b = c
    <3>1. allocCnt'[b] = allocCnt[b] + 1 /\ freeCnt'[b] = freeCnt[b] /\ Cardinality(Of(b)') = Cardinality(Of(b)) + 1
          /\ Of(b)' = Of(b) \cup {<<c, allocCnt[c] + 1>>}
      BY <2>3, <2>5, <2>8
    <3>2. freeCnt[b] <= allocCnt[b] /\ 0 < allocCnt[b] /\ allocCnt[b] < BucketSize
          /\ Cardinality(Of(b)) = allocCnt[b] - freeCnt[b]
      BY <1>1, <2>2, <2>8 DEF Fits
    <3>3. \A o \in Of(b)' : o[2] <= allocCnt'[b]
      <4>1. \A o \in Of(b) : o[2] <= allocCnt[b]
        BY <1>3 DEF Fits
      <4>2. \A o \in Of(b) : o[2] \in Nat
        BY <1>0, Typed DEF Of, Objects
      <4> QED BY <2>2, <2>8, <3>1, <4>1, <4>2
    <3>4. Local(b)' => allocCnt[b] + 1 # BucketSize
      <4>1. ASSUME NEW u \in Threads, tls'[u] = b PROVE allocCnt[b] + 1 # BucketSize
        <5>1. u = t
          BY <1>0, <1>5, <2>1, <2>8, <4>1 DEF PlaceOnce
        <5> QED BY <1>0, <1>5, <2>1, <2>8, <4>1, <5>1
      <4> QED BY <4>1 DEF Local
    <3>5. ~Local(b)' => allocCnt[b] + 1 = BucketSize
      BY <1>0, <1>5, <2>1, <2>8 DEF Local
    <3> QED BY <1>1, <2>2, <2>6, <2>8, <3>1, <3>2, <3>3, <3>4, <3>5 DEF Fits
  <2> QED BY <2>7, <2>8
<1>6. ASSUME NEW o \in held, Free(t, o), allocCnt' = allocCnt,
             freeCnt' = [freeCnt EXCEPT ![o[1]] = @ + 1], held' = held \ {o}
      PROVE  Fits(b)'
  <2>1. PICK c \in Buckets : o[1] = c
    BY FreedWhere
  <2>2. /\ ~InQueue(c) /\ ~Owned(c) /\ c \in malloced /\ allocCnt[c] \in Nat /\ freeCnt[c] \in Nat
        /\ freeCnt[c] < allocCnt[c] /\ allocCnt[c] <= BucketSize
        /\ Local(c) => freeCnt[c] + 1 # BucketSize
    BY <2>1, FreedWhere
  <2>3. freeCnt'[b] = (IF b = c THEN freeCnt[c] + 1 ELSE freeCnt[b]) /\ allocCnt'[b] = allocCnt[b]
    BY <1>0, <1>6, <2>1
  <2>4. /\ Of(b)' \subseteq Of(b)
        /\ Cardinality(Of(b)') = IF b = c THEN Cardinality(Of(b)) - 1 ELSE Cardinality(Of(b))
    BY <1>0, <1>6, <2>1, OneLess
  <2>5. /\ malloced' = malloced /\ (InQueue(b)' <=> InQueue(b)) /\ (Local(b)' <=> Local(b))
        /\ own' = IF freeCnt[c] + 1 = BucketSize THEN [own EXCEPT ![t] = c] ELSE own
    <3>1. UNCHANGED <<malloced, tls>> /\ ~Links(t) /\ ~Takes(t)
          /\ own' = IF freeCnt[c] + 1 = BucketSize THEN [own EXCEPT ![t] = c] ELSE own
      BY <1>6, <2>1 DEF Free, Links, Takes, FreeLink, BucketCas, At
    <3> QED BY <3>1, InQueueAfter DEF Local
  <2>6. own[t] = NULL
    BY <1>6 DEF PoolInv, PerThread, Owning, Building, Free, At
  <2>7. Owned(b)' <=> Owned(b) \/ (b = c /\ freeCnt[c] + 1 = BucketSize)
    BY <1>0, <2>5, <2>6 DEF Owned
  <2>8. CASE b # c
    BY <1>3, <2>3, <2>4, <2>5, <2>7, <2>8 DEF Fits
  <2>9. CASE b = c
    <3>1. \A p \in Of(b)' : p[2] <= allocCnt'[b]
      BY <1>3, <2>3, <2>4 DEF Fits
    <3>2. Cardinality(Of(b)') = allocCnt'[b] - freeCnt'[b]
      BY <1>3, <2>2, <2>3, <2>4, <2>9 DEF Fits
    <3>3. /\ ~Local(b) => allocCnt[b] = BucketSize
          /\ Local(b) => 0 < allocCnt[b] /\ allocCnt[b] < BucketSize
      BY <1>3, <2>2, <2>9 DEF Fits
    <3> QED BY <1>1, <2>2, <2>3, <2>5, <2>7, <2>9, <3>1, <3>2, <3>3 DEF Fits
  <2> QED BY <2>8, <2>9
<1>7. ASSUME NEW c \in Buckets,
             \/ InitDequeued(t) /\ c = own[t]
             \/ NewBucket(t) /\ c \notin malloced /\ malloced' = malloced \cup {c},
             tls' = [tls EXCEPT ![t] = IF BucketSize = 1 THEN NULL ELSE c],
             allocCnt' = [allocCnt EXCEPT ![c] = 1], freeCnt' = [freeCnt EXCEPT ![c] = 0],
             held' = held \cup {<<c, 1>>}
      PROVE  Fits(b)'
  <2>1. /\ allocCnt'[b] = IF b = c THEN 1 ELSE allocCnt[b]
        /\ freeCnt'[b] = IF b = c THEN 0 ELSE freeCnt[b]
    BY <1>0, <1>7
  <2>2. tls[t] = NULL
    BY <1>7 DEF PoolInv, PerThread, InCall, InitDequeued, NewBucket, At
  <2>3. c \in malloced' /\ (b # c => (b \in malloced' <=> b \in malloced))
    <3>1. CASE InitDequeued(t) /\ c = own[t]
      BY <1>0, <3>1 DEF InitDequeued, pool, PlaceOnce
    <3> QED BY <1>7, <3>1
  <2>4. /\ InQueue(b)' <=> InQueue(b)
        /\ b # c => (Owned(b)' <=> Owned(b)) /\ (Local(b)' <=> Local(b))
        /\ ~Owned(c)' /\ (Local(c)' <=> BucketSize # 1) /\ ~InQueue(c)
    <3>1. ~Links(t) /\ ~Takes(t)
      BY <1>7 DEF InitDequeued, NewBucket, Links, Takes, FreeLink, BucketCas, At
    <3>2. InQueue(b)' <=> InQueue(b)
      BY <3>1, InQueueAfter
    <3>3. \A u \in Threads : tls'[u] = IF u = t THEN IF BucketSize = 1 THEN NULL ELSE c ELSE tls[u]
      BY <1>0, <1>7
    <3>4. CASE InitDequeued(t) /\ c = own[t]
      <4>1. own' = [own EXCEPT ![t] = NULL]
        BY <3>4 DEF InitDequeued
      <4>2. ~InQueue(c) /\ \A u \in Threads : tls[u] # c /\ (u # t => own[u] # c)
        BY <1>0, <3>4 DEF PlaceOnce
      <4> QED BY <1>0, <2>2, <3>2, <3>3, <3>4, <4>1, <4>2 DEF Owned, Local
    <3>5. CASE NewBucket(t) /\ c \notin malloced
      <4>1. own' = own
        BY <3>5 DEF NewBucket, locals
      <4>2. ~InQueue(c) /\ \A u \in Threads : tls[u] # c /\ own[u] # c
        BY <1>0, <3>5, Places DEF PlaceOnce
      <4> QED BY <1>0, <2>2, <3>2, <3>3, <4>1, <4>2 DEF Owned, Local
    <3> QED BY <1>7, <3>4, <3>5
  <2>5. Of(c) = {}
    <3>1. IsFiniteSet(Of(c)) /\ Cardinality(Of(c)) = allocCnt[c] - freeCnt[c] /\ Cardinality(Of(c)) \in Nat
          /\ allocCnt[c] \in 0 .. BucketSize /\ freeCnt[c] \in 0 .. BucketSize
      BY <1>0, OfFinite DEF CountsFit, Fits
    <3>2. allocCnt[c] = freeCnt[c] \/ allocCnt[c] = 0
      <4>1. c \in malloced => Owned(c)
        BY <1>7 DEF Owned
      <4> QED BY <1>0, <4>1 DEF CountsFit, Fits
    <3>3. Cardinality(Of(c)) = 0
      BY <1>1, <3>1, <3>2
    <3> QED BY <3>1, <3>3, FS_EmptySet
  <2>6. /\ Of(b)' = IF b = c THEN Of(b) \cup {<<c, 1>>} ELSE Of(b)
        /\ Cardinality(Of(b)') = IF b = c THEN Cardinality(Of(b)) + 1 ELSE Cardinality(Of(b))
    BY <1>0, <1>7, <2>5, OneMore
  <2>7. CASE b # c
    BY <1>3, <2>1, <2>3, <2>4, <2>6, <2>7 DEF Fits
  <2>8. CASE b = c
    <3>1. Of(b)' = {<<c, 1>>} /\ Cardinality(Of(b)') = 1
      BY <2>5, <2>6, <2>8, FS_EmptySet
    <3>2. allocCnt'[b] = 1 /\ freeCnt'[b] = 0 /\ ~InQueue(b)' /\ ~Owned(b)' /\ b \in malloced'
      BY <2>1, <2>3, <2>4, <2>8
    <3> QED BY <1>1, <2>4, <2>8, <3>1, <3>2 DEF Fits
  <2> QED BY <2>7, <2>8
<1> QED BY <1>4, <1>5, <1>6, <1>7, CountMoves

\* Who has read nothing, and who has no bucket
LEMMA InCallKept ==
  ASSUME PoolInv, NEW t \in Threads, Step(t), NEW u \in Threads
  PROVE  InCall(u)'
<1>0. /\ TypeOK /\ InCall(t) /\ InCall(u)
      /\ pc \in [Threads -> Labels] /\ tls \in [Threads -> Buckets \cup {NULL}]
      /\ tail \in [Threads -> Words] /\ head \in [Threads -> Words]
  BY Typed DEF PoolInv, PerThread
<1>1. CASE u # t
  BY <1>0, <1>1, OthersStay DEF InCall
<1>2. InCall(t)'
  <2>1. CASE Alloc(t)
    BY <1>0, <2>1 DEF InCall, Calling, Claimed, Alloc, At, locals
  <2>2. CASE AllocBucket(t)
    BY <1>0, <2>2 DEF InCall, Calling, Claimed, AllocBucket, Goto, At, locals
  <2>3. CASE NewBucket(t) \/ InitDequeued(t)
    <3>1. UNCHANGED <<tail, head>> /\ pc[t] \in Calling /\ pc'[t] = "idle"
      BY <1>0, <2>3 DEF NewBucket, InitDequeued, Calling, Goto, At, locals
    <3> QED BY <1>0, <3>1 DEF InCall, Claimed
  <2>4. CASE BucketTail(t) \/ BucketHead(t)
    <3>1. tls' = tls /\ pc[t] \in Claimed /\ pc'[t] \in {"bucketHead", "bucketNext"}
      BY <1>0, <2>4 DEF BucketTail, BucketHead, Claimed, Goto, At
    <3> QED BY <1>0, <3>1 DEF InCall, Calling
  <2>5. CASE BucketNext(t) \/ BucketSwing(t) \/ BucketCas(t)
    <3>1. tls' = tls /\ pc[t] \in Claimed
      BY <2>5 DEF BucketNext, BucketSwing, BucketCas, Claimed, At
    <3>2. \/ pc'[t] \in {"bucketSwing", "bucketCas"}
          \/ tail'[t] = ZeroWord /\ head'[t] = ZeroWord
      BY <1>0, <2>5 DEF BucketNext, BucketSwing, BucketCas, Goto, Forget
    <3> QED BY <1>0, <3>1, <3>2 DEF InCall, Calling
  <2>6. ASSUME NEW o \in held, Free(t, o) PROVE InCall(t)'
    <3>1. UNCHANGED <<tls, tail, head>> /\ pc[t] = "idle" /\ pc'[t] \in {"idle", "getCnt"}
      BY <1>0, <2>6 DEF Free, Goto, At
    <3> QED BY <1>0, <3>1 DEF InCall, Calling, Claimed
  <2>7. CASE FreeGetCnt(t) \/ FreeSetNext(t) \/ FreeCount(t)
    <3>1. UNCHANGED <<tail, head>> /\ pc[t] \in Calling /\ pc'[t] \in {"setNext", "freeTail", "idle"}
      BY <1>0, <2>7 DEF FreeGetCnt, FreeSetNext, FreeCount, Calling, Goto, At, locals
    <3> QED BY <1>0, <3>1 DEF InCall, Claimed
  <2>8. CASE FreeTail(t) \/ FreeNext(t) \/ FreeSwing(t) \/ FreeLink(t) \/ FreeAdvance(t)
    <3>1. \/ pc'[t] \in {"freeNext", "freeSwing", "link", "advance"}
          \/ pc'[t] \in {"freeTail", "count"} /\ tail'[t] = ZeroWord /\ head'[t] = ZeroWord
      BY <1>0, <2>8 DEF FreeTail, FreeNext, FreeSwing, FreeLink, FreeAdvance, Goto, Forget
    <3> QED BY <3>1 DEF InCall, Calling, Claimed
  <2> QED BY <2>1, <2>2, <2>3, <2>4, <2>5, <2>6, <2>7, <2>8 DEF Step
<1> QED BY <1>1, <1>2

\* Exactly the threads between the last Free of a bucket and the compare-exchange that puts
\* it into the queue, or between that of AllocBucket and Init, have a bucket in their hands.
LEMMA OwningKept ==
  ASSUME PoolInv, NEW t \in Threads, Step(t), NEW u \in Threads
  PROVE  Owning(u)'
<1>0. /\ TypeOK /\ Owning(t) /\ Owning(u) /\ Reading(t)
      /\ pc \in [Threads -> Labels] /\ own \in [Threads -> Buckets \cup {NULL}] /\ malloced \subseteq Buckets
  BY Typed DEF PoolInv, PerThread
<1>1. CASE u # t
  BY <1>0, <1>1, OthersStay DEF Owning
<1>2. Owning(t)'
  <2>1. CASE Alloc(t) \/ AllocBucket(t) \/ NewBucket(t)
    <3>1. own' = own /\ pc[t] \in {"idle", "restore"} /\ pc'[t] \in {"idle", "restore", "bucketTail"}
      BY <1>0, <2>1 DEF Alloc, AllocBucket, NewBucket, Goto, At, locals
    <3> QED BY <1>0, <3>1 DEF Owning, Building
  <2>2. CASE BucketTail(t) \/ BucketHead(t) \/ BucketNext(t) \/ BucketSwing(t)
    <3>1. own' = own /\ pc[t] \in Claimed /\ pc'[t] \in Claimed
      BY <1>0, <2>2 DEF BucketTail, BucketHead, BucketNext, BucketSwing, Claimed, Goto, At
    <3> QED BY <1>0, <3>1 DEF Owning, Building, Claimed
  <2>3. CASE BucketCas(t)
    <3>1. GetRealAddr(head[t]) # NULL
      BY <1>0, <2>3, BucketAssumption DEF Reading, HasHead, BucketCas, At
    <3> QED BY <1>0, <2>3, <3>1 DEF Owning, Building, BucketCas, Goto, At
  <2>4. CASE InitDequeued(t)
    BY <1>0, <2>4 DEF Owning, Building, InitDequeued, Goto, At
  <2>5. ASSUME NEW o \in held, Free(t, o) PROVE Owning(t)'
    <3>1. o[1] # NULL
      BY FreedWhere, BucketAssumption
    <3> QED BY <1>0, <2>5, <3>1 DEF Owning, Building, Free, Goto, At
  <2>6. CASE FreeGetCnt(t) \/ FreeSetNext(t) \/ FreeTail(t) \/ FreeNext(t) \/ FreeSwing(t)
    <3>1. /\ own' = own /\ pc[t] \in Building \cup {"getCnt"} /\ pc'[t] \in Building
      BY <1>0, <2>6 DEF FreeGetCnt, FreeSetNext, FreeTail, FreeNext, FreeSwing, Building, Goto, At, locals
    <3> QED BY <1>0, <3>1 DEF Owning
  <2>7. CASE FreeLink(t)
    BY <1>0, <2>7 DEF Owning, Building, FreeLink, Goto, At
  <2>8. CASE FreeAdvance(t) \/ FreeCount(t)
    <3>1. own' = own /\ pc[t] \in {"advance", "count"} /\ pc'[t] \in {"count", "idle"}
      BY <1>0, <2>8 DEF FreeAdvance, FreeCount, Goto, At, locals
    <3> QED BY <1>0, <3>1 DEF Owning, Building
  <2> QED BY <2>1, <2>2, <2>3, <2>4, <2>5, <2>6, <2>7, <2>8 DEF Step
<1> QED BY <1>1, <1>2

\* Nobody writes the link of a bucket another thread has in its hands.
LEMMA OwnedStays ==
  ASSUME PoolInv, NEW t \in Threads, Step(t), NEW u \in Threads, u # t, own[u] # NULL
  PROVE  metaNext'[own[u]] = metaNext[own[u]]
<1>0. /\ TypeOK /\ PlaceOnce /\ Owning(t) /\ metaNext \in [Buckets -> Words]
      /\ own \in [Threads -> Buckets \cup {NULL}]
  BY Typed DEF PoolInv, PerThread
<1>1. /\ own[u] \in Buckets /\ own[u] \in malloced /\ ~InQueue(own[u])
      /\ own[t] # NULL => own[t] # own[u]
  BY <1>0 DEF PlaceOnce
<1>2. FreeSetNext(t) \/ InitDequeued(t) => own[t] # NULL
  BY <1>0 DEF Owning, Building, FreeSetNext, InitDequeued, At
<1>3. chain[End] # own[u]
  <2>1. End \in 1 .. End
    BY <1>0, Places
  <2> QED BY <1>0, <1>1, <2>1, Places
<1> QED BY <1>0, <1>1, <1>2, <1>3, NextMoves

\* What a Free has built fits its bucket until it is in the queue.
LEMMA BuiltKept ==
  ASSUME PoolInv, NEW t \in Threads, Step(t), NEW u \in Threads
  PROVE  Built(u)'
<1>0. /\ TypeOK /\ Owning(t) /\ Owning(u) /\ Built(t) /\ Built(u)
      /\ metaNext \in [Buckets -> Words] /\ new \in [Threads -> Words]
      /\ own \in [Threads -> Buckets \cup {NULL}] /\ pc \in [Threads -> Labels]
  BY Typed DEF PoolInv, PerThread
<1>1. CASE u # t
  <2>1. pc'[u] = pc[u] /\ own'[u] = own[u] /\ new'[u] = new[u]
    BY <1>0, <1>1, OthersStay
  <2>2. pc[u] \in Building => metaNext'[own[u]] = metaNext[own[u]]
    BY <1>0, <1>1, OwnedStays DEF Owning
  <2> QED BY <1>0, <2>1, <2>2 DEF Built, GetRealAddr, GetMetaAddr, ExtractMetaCnt
<1>2. Built(t)'
  <2>1. CASE FreeGetCnt(t)
    <3>1. own'[t] = own[t] /\ new'[t] = GetMetaAddr(metaCnt, own[t]) /\ pc'[t] = "setNext"
      BY <1>0, <2>1 DEF FreeGetCnt, Goto
    <3>2. GetRealAddr(new'[t]) = own'[t]
      BY <3>1 DEF GetRealAddr, GetMetaAddr
    <3> QED BY <3>1, <3>2 DEF Built, GetRealAddr
  <2>2. CASE FreeSetNext(t)
    <3>1. own[t] \in Buckets /\ pc[t] \in Building
      BY <1>0, <2>2 DEF Owning, Building, FreeSetNext, At
    <3>2. metaNext'[own[t]] = GetMetaAddr(ExtractMetaCnt(new[t]), NULL) /\ UNCHANGED <<own, new>>
      BY <1>0, <2>2, <3>1 DEF FreeSetNext, locals
    <3> QED BY <1>0, <3>1, <3>2 DEF Built, GetRealAddr, GetMetaAddr, ExtractMetaCnt
  <2>3. CASE FreeTail(t) \/ FreeNext(t) \/ FreeSwing(t) \/ (FreeLink(t) /\ ~Links(t))
    <3>1. UNCHANGED <<metaNext, own, new>> /\ pc[t] \in Building /\ pc[t] # "setNext"
      BY <2>3 DEF FreeTail, FreeNext, FreeSwing, FreeLink, Links, Building, At, buckets
    <3> QED BY <1>0, <3>1 DEF Built, GetRealAddr, GetMetaAddr, ExtractMetaCnt
  <2>4. CASE Links(t) \/ FreeAdvance(t) \/ FreeCount(t)
    <3>1. pc'[t] \notin Building
      BY <1>0, <2>4 DEF Links, FreeLink, FreeAdvance, FreeCount, Building, Goto
    <3> QED BY <3>1 DEF Built
  <2>5. ASSUME NEW o \in held, Free(t, o) PROVE Built(t)'
    <3>1. pc'[t] \notin Building
      BY <1>0, <2>5 DEF Building, Free, Goto, At
    <3> QED BY <3>1 DEF Built
  <2>6. CASE \/ Alloc(t) \/ AllocBucket(t) \/ NewBucket(t) \/ BucketTail(t) \/ BucketHead(t) \/ BucketNext(t)
             \/ BucketSwing(t) \/ BucketCas(t) \/ InitDequeued(t)
    <3>1. pc'[t] \notin Building
      BY <1>0, <2>6 DEF Alloc, AllocBucket, NewBucket, BucketTail, BucketHead, BucketNext, BucketSwing,
                        BucketCas, InitDequeued, Building, Goto, At
    <3> QED BY <3>1 DEF Built
  <2> QED BY <2>1, <2>2, <2>3, <2>4, <2>5, <2>6 DEF Step
<1> QED BY <1>1, <1>2

\* A bucket that was taken out is linked on until it is reset.
LEMMA TakenKept ==
  ASSUME PoolInv, NEW t \in Threads, Step(t), NEW u \in Threads
  PROVE  Taken(u)'
<1>0. /\ TypeOK /\ Spelled /\ PlaceOnce /\ Owning(u) /\ Taken(u)
      /\ pc \in [Threads -> Labels] /\ own \in [Threads -> Buckets \cup {NULL}]
  BY Typed DEF PoolInv, PerThread
<1>1. CASE u # t
  <2>1. pc'[u] = pc[u] /\ own'[u] = own[u] /\ (pc[u] = "init" => metaNext'[own[u]] = metaNext[own[u]])
    BY <1>0, <1>1, OthersStay, OwnedStays DEF Owning
  <2> QED BY <1>0, <2>1 DEF Taken, GetRealAddr
<1>2. CASE Takes(t)
  <2>1. /\ own'[t] = GetRealAddr(head[t]) /\ metaNext' = metaNext
        /\ GetRealAddr(head[t]) = chain[1] /\ Shrinks
    BY <1>0, <1>2, TakesWords DEF Takes, BucketCas, buckets
  <2>2. End > 1 /\ 1 \in 1 .. End
    BY <1>0, <2>1, Places DEF Shrinks
  <2>3. GetRealAddr(metaNext[chain[1]]) # NULL
    <3>1. metaNext[chain[1]] = Word(1 + 1) /\ 1 < End
      BY <1>0, <2>2, Places
    <3> QED BY <1>0, <2>2, <3>1, WordsApart
  <2>4. GetRealAddr(metaNext'[own'[t]]) # NULL
    BY <2>1, <2>3
  <2>5. Taken(t)'
    BY <2>4 DEF Taken, GetRealAddr
  <2> QED BY <1>1, <2>5
<1>3. ASSUME ~Takes(t) PROVE pc'[t] # "init"
  <2>1. CASE \/ Alloc(t) \/ AllocBucket(t) \/ NewBucket(t) \/ BucketTail(t) \/ BucketHead(t) \/ BucketNext(t)
             \/ BucketSwing(t) \/ InitDequeued(t)
    BY <1>0, <2>1 DEF Alloc, AllocBucket, NewBucket, BucketTail, BucketHead, BucketNext, BucketSwing,
                      InitDequeued, Goto, At
  <2>2. CASE BucketCas(t)
    BY <1>0, <1>3, <2>2 DEF BucketCas, Takes, Goto
  <2>3. ASSUME NEW o \in held, Free(t, o) PROVE pc'[t] # "init"
    BY <1>0, <2>3 DEF Free, Goto, At
  <2>4. CASE \/ FreeGetCnt(t) \/ FreeSetNext(t) \/ FreeTail(t) \/ FreeNext(t) \/ FreeSwing(t)
             \/ FreeLink(t) \/ FreeAdvance(t) \/ FreeCount(t)
    BY <1>0, <2>4 DEF FreeGetCnt, FreeSetNext, FreeTail, FreeNext, FreeSwing, FreeLink, FreeAdvance,
                      FreeCount, Goto
  <2> QED BY <2>1, <2>2, <2>3, <2>4 DEF Step
<1> QED BY <1>1, <1>2, <1>3 DEF Taken

\* What a call has read leads to buckets.
LEMMA ReadingKept ==
  ASSUME PoolInv, NEW t \in Threads, Step(t), NEW u \in Threads
  PROVE  Reading(u)'
<1>0. /\ TypeOK /\ Spelled /\ PlaceOnce /\ TailNear /\ InCall(t) /\ Reading(t) /\ Reading(u)
      /\ pc \in [Threads -> Labels] /\ new \in [Threads -> Words] /\ malloced \subseteq Buckets
      /\ tail \in [Threads -> Words] /\ head \in [Threads -> Words] /\ seen \in [Threads -> Words]
      /\ metaNext \in [Buckets -> Words]
  BY Typed DEF PoolInv, PerThread
<1>01. malloced \subseteq malloced'
  BY BucketMoves
<1>1. CASE u # t
  BY <1>0, <1>01, <1>1, OthersStay DEF Reading, HasTail, HasHead, HasNext, GetRealAddr, GetMetaAddr,
                                ExtractMetaCnt
<1>02. GetRealAddr(metaHead) \in malloced /\ GetRealAddr(metaTail) \in malloced
  <2>1. \A i \in 1 .. End : GetRealAddr(Word(i)) \in malloced
    BY <1>0, Places DEF Spelled, PlaceOnce
  <2>2. /\ 1 \in 1 .. End /\ End \in 1 .. End /\ (End > 1 => End - 1 \in 1 .. End) /\ metaHead = Word(1)
    <3>1. End \in Nat /\ End > 0 /\ metaHead = Word(1)
      BY <1>0, Places
    <3> QED BY <3>1
  <2> QED BY <1>0, <2>1, <2>2 DEF TailNear
<1>2. Reading(t)'
  <2>1. CASE FreeTail(t)
    <3>1. tail'[t] = metaTail /\ pc'[t] = "freeNext"
      BY <1>0, <2>1 DEF FreeTail, Goto
    <3> QED BY <1>01, <1>02, <3>1 DEF Reading, HasTail, HasHead, HasNext, GetRealAddr
  <2>2. CASE FreeNext(t)
    <3> DEFINE w == metaNext[GetRealAddr(tail[t])]
    <3>1. GetRealAddr(tail[t]) \in malloced /\ w \in Words /\ tail[t] \in Words
      BY <1>0, <2>2 DEF Reading, HasTail, FreeNext, At
    <3>2. CASE GetRealAddr(w) # NULL
      <4>1. seen'[t] = w /\ tail' = tail /\ pc'[t] = "freeSwing" /\ GetRealAddr(w) \in Buckets
        BY <1>0, <2>2, <3>1, <3>2, BucketWord DEF FreeNext, Goto
      <4> QED BY <1>01, <3>1, <4>1 DEF Reading, HasTail, HasHead, HasNext, GetRealAddr
    <3>3. CASE GetRealAddr(w) = NULL /\ SameCnt(t, w)
      <4>1. seen'[t] = w /\ tail' = tail /\ pc'[t] = "link"
        BY <1>0, <2>2, <3>3 DEF FreeNext, Goto
      <4>2. w = GetMetaAddr(ExtractMetaCnt(tail[t]), NULL)
        <5>1. /\ GetMetaAddr(ExtractMetaCnt(tail[t]), NULL) \in Words
              /\ ExtractMetaCnt(GetMetaAddr(ExtractMetaCnt(tail[t]), NULL)) = ExtractMetaCnt(tail[t])
              /\ GetRealAddr(GetMetaAddr(ExtractMetaCnt(tail[t]), NULL)) = NULL
          BY <3>1, BucketWord, WordParts
        <5>2. ExtractMetaCnt(w) = ExtractMetaCnt(tail[t])
          BY <3>3 DEF SameCnt
        <5> QED BY <3>1, <3>3, <5>1, <5>2, SameWord
      <4> QED BY <1>01, <3>1, <4>1, <4>2 DEF Reading, HasTail, HasHead, HasNext, GetRealAddr, GetMetaAddr,
                                       ExtractMetaCnt
    <3>4. CASE GetRealAddr(w) = NULL /\ ~SameCnt(t, w)
      <4>1. pc'[t] = "freeTail"
        BY <1>0, <2>2, <3>4 DEF FreeNext, Goto
      <4> QED BY <4>1 DEF Reading, HasTail, HasHead, HasNext
    <3> QED BY <3>2, <3>3, <3>4
  <2>3. CASE Links(t)
    <3>1. /\ tail' = tail /\ new' = new /\ pc'[t] = "advance" /\ pc[t] = "link"
          /\ GetRealAddr(new[t]) \in Buckets
      BY <1>0, <2>3, LinksLast DEF Links, FreeLink, Goto, At
    <3> QED BY <1>0, <1>01, <3>1 DEF Reading, HasTail, HasHead, HasNext, GetRealAddr
  <2>4. CASE BucketHead(t)
    <3>1. head'[t] = metaHead /\ pc'[t] = "bucketNext"
      BY <1>0, <2>4 DEF BucketHead, Goto
    <3> QED BY <1>01, <1>02, <3>1 DEF Reading, HasTail, HasHead, HasNext, GetRealAddr
  <2>5. CASE BucketNext(t)
    <3> DEFINE w == metaNext[GetRealAddr(head[t])]
    <3>1. GetRealAddr(head[t]) \in malloced /\ w \in Words
      BY <1>0, <2>5 DEF Reading, HasHead, BucketNext, At
    <3>2. CASE GetRealAddr(w) = NULL
      <4>1. pc'[t] = "bucketTail"
        BY <1>0, <2>5, <3>2 DEF BucketNext, Goto
      <4> QED BY <4>1 DEF Reading, HasTail, HasHead, HasNext
    <3>3. CASE GetRealAddr(w) # NULL
      <4>1. /\ UNCHANGED <<tail, head>> /\ seen'[t] = w
            /\ pc'[t] = IF tail[t] = head[t] THEN "bucketSwing" ELSE "bucketCas"
        BY <1>0, <2>5, <3>1, <3>3 DEF BucketNext, Goto
      <4>2. GetRealAddr(w) \in Buckets
        BY <3>1, <3>3, BucketWord
      <4> QED BY <1>01, <3>1, <4>1, <4>2 DEF Reading, HasTail, HasHead, HasNext, GetRealAddr
    <3> QED BY <3>2, <3>3
  <2>6. ASSUME NEW o \in held, Free(t, o) PROVE Reading(t)'
    <3>1. pc'[t] \in {"idle", "getCnt"}
      BY <1>0, <2>6 DEF Free, Goto, At
    <3> QED BY <3>1 DEF Reading, HasTail, HasHead, HasNext
  <2>7. CASE \/ FreeGetCnt(t) \/ FreeSetNext(t) \/ FreeSwing(t) \/ FreeAdvance(t) \/ FreeCount(t)
             \/ (FreeLink(t) /\ ~Links(t))
    <3>1. pc'[t] \in {"setNext", "freeTail", "count", "idle"}
      BY <1>0, <2>7 DEF FreeGetCnt, FreeSetNext, FreeSwing, FreeAdvance, FreeCount, FreeLink, Links, Goto
    <3> QED BY <3>1 DEF Reading, HasTail, HasHead, HasNext
  <2>8. CASE Alloc(t) \/ AllocBucket(t) \/ NewBucket(t) \/ BucketTail(t) \/ BucketSwing(t) \/ BucketCas(t)
             \/ InitDequeued(t)
    <3>1. pc'[t] \in {"idle", "restore", "bucketTail", "bucketHead", "init"}
      BY <1>0, <2>8 DEF Alloc, AllocBucket, NewBucket, BucketTail, BucketSwing, BucketCas, InitDequeued,
                        Goto, At
    <3> QED BY <3>1 DEF Reading, HasTail, HasHead, HasNext
  <2> QED BY <2>1, <2>2, <2>3, <2>4, <2>5, <2>6, <2>7, <2>8 DEF Step
<1> QED BY <1>1, <1>2

-----------------------------------------------------------------------------
(* What a call has read in the queue *)

\* The same after the step
BehindAfter(word, ahead) ==
    \A i \in 1 .. EndAfter : word = WordAfter(i) => i < EndAfter /\ ahead = WordAfter(i + 1)

\* What lies behind a word in the queue stays there until the word itself comes back.
LEMMA BehindStays ==
  ASSUME PoolInv, NEW t \in Threads, Step(t), NEW w, NEW a, Behind(w, a), Links(t) => new[t] # w
  PROVE  BehindAfter(w, a)
<1>1. TypeOK /\ End \in Nat
  BY Places DEF PoolInv
<1>2. CASE Stays
  <2>1. EndAfter = End
    BY <1>1, <1>2, Kinds
  <2>2. \A i \in 1 .. End + 1 : WordAfter(i) = Word(i)
    BY <1>2 DEF Stays
  <2>3. \A i \in 1 .. End : i \in 1 .. End + 1 /\ i + 1 \in 1 .. End + 1
    BY <1>1
  <2> QED BY <2>1, <2>2, <2>3 DEF Behind, BehindAfter
<1>3. CASE Links(t)
  <2>1. Grows(new[t], own[t]) /\ own[t] \in Buckets /\ new[t] # w
    BY <1>3, StepKinds
  <2>2. EndAfter = End + 1
    BY <1>1, <2>1, Kinds
  <2>3. \A i \in 1 .. End : WordAfter(i) = Word(i)
    BY <2>1 DEF Grows
  <2>4. WordAfter(End + 1) = new[t]
    BY <2>1 DEF Grows
  <2>5. ASSUME NEW i \in 1 .. End + 1, w = WordAfter(i)
        PROVE  i < End + 1 /\ a = WordAfter(i + 1)
    <3>1. i \in 1 .. End
      <4>1. i # End + 1
        BY <2>1, <2>4, <2>5
      <4> QED BY <1>1, <4>1
    <3>2. i < End /\ a = Word(i + 1)
      BY <2>3, <2>5, <3>1 DEF Behind
    <3>3. i + 1 \in 1 .. End
      BY <1>1, <3>1, <3>2
    <3> QED BY <1>1, <2>3, <3>1, <3>2, <3>3
  <2> QED BY <2>2, <2>5 DEF BehindAfter
<1>4. CASE Takes(t)
  <2>1. Shrinks
    BY <1>4, StepKinds
  <2>2. EndAfter = End - 1 /\ End > 1
    BY <1>1, <2>1, Kinds
  <2>3. \A i \in 1 .. End : WordAfter(i) = Word(i + 1)
    BY <2>1 DEF Shrinks
  <2>4. ASSUME NEW i \in 1 .. End - 1, w = WordAfter(i)
        PROVE  i < End - 1 /\ a = WordAfter(i + 1)
    <3>1. i \in 1 .. End /\ i + 1 \in 1 .. End
      BY <1>1
    <3>2. i + 1 < End /\ a = Word((i + 1) + 1)
      BY <2>3, <2>4, <3>1 DEF Behind
    <3>3. i < End - 1
      BY <1>1, <3>2
    <3> QED BY <2>3, <3>1, <3>2, <3>3
  <2> QED BY <2>2, <2>4 DEF BehindAfter
<1> QED BY <1>2, <1>3, <1>4, StepKinds

\* A link that leads on is behind the word under which its bucket was read.
LEMMA ReadNext ==
  ASSUME PoolInv, NEW w \in Words, GetRealAddr(w) \in Buckets,
         GetRealAddr(metaNext[GetRealAddr(w)]) # NULL
  PROVE  Behind(w, metaNext[GetRealAddr(w)])
<1>1. TypeOK /\ Spelled /\ PlaceOnce
  BY DEF PoolInv
<1>2. ASSUME NEW i \in 1 .. End, w = Word(i)
      PROVE  i < End /\ metaNext[GetRealAddr(w)] = Word(i + 1)
  <2>1. GetRealAddr(w) = chain[i]
    BY <1>1, <1>2 DEF Spelled
  <2>2. metaNext[GetRealAddr(w)] = Word(i + 1)
    BY <1>1, <2>1, Places
  <2> QED BY <1>1, <2>2, WordsApart
<1> QED BY <1>2 DEF Behind

\* What a call has read behind a word of the queue stays true.
LEMMA FreshKept ==
  ASSUME PoolInv, NEW t \in Threads, Step(t), NEW u \in Threads
  PROVE  Fresh(u)'
<1>0. /\ TypeOK /\ Spelled /\ PlaceOnce /\ NeverBack
      /\ Reading(t) /\ Fresh(t) /\ Fresh(u)
      /\ pc \in [Threads -> Labels] /\ new \in [Threads -> Words] /\ malloced \subseteq Buckets
      /\ tail \in [Threads -> Words] /\ head \in [Threads -> Words] /\ seen \in [Threads -> Words]
      /\ metaNext \in [Buckets -> Words]
  BY Typed DEF PoolInv, PerThread
<1> DEFINE FreshAfter(v) ==
       /\ pc'[v] = "freeSwing" => BehindAfter(tail'[v], seen'[v])
       /\ pc'[v] = "advance" => BehindAfter(tail'[v], new'[v])
       /\ pc'[v] \in {"bucketSwing", "bucketCas"} => BehindAfter(head'[v], seen'[v])
<1>1. SUFFICES FreshAfter(u)
  BY DEF Fresh, Behind, BehindAfter, Word, WordAfter, End, EndAfter
<1>2. CASE u # t
  <2>1. /\ pc'[u] = pc[u] /\ new'[u] = new[u] /\ tail'[u] = tail[u]
        /\ head'[u] = head[u] /\ seen'[u] = seen[u]
    BY <1>0, <1>2, OthersStay
  <2>2. Links(t) => new[t] # tail[u] /\ new[t] # head[u]
    <3>1. Links(t) => pc[t] \in Building
      BY DEF Links, FreeLink, At, Building
    <3> QED BY <1>0, <3>1 DEF NeverBack
  <2>3. \A a : Behind(tail[u], a) => BehindAfter(tail[u], a)
    BY <2>2, BehindStays
  <2>4. \A a : Behind(head[u], a) => BehindAfter(head[u], a)
    BY <2>2, BehindStays
  <2> QED BY <1>0, <2>1, <2>3, <2>4 DEF Fresh
<1>3. FreshAfter(t)
  <2>1. CASE FreeNext(t)
    <3> DEFINE w == metaNext[GetRealAddr(tail[t])]
    <3>1. GetRealAddr(tail[t]) \in Buckets /\ tail[t] \in Words /\ ~Links(t)
      BY <1>0, <2>1 DEF Reading, HasTail, FreeNext, At, Links, FreeLink
    <3>2. CASE GetRealAddr(w) # NULL
      <4>1. tail' = tail /\ seen'[t] = w /\ pc'[t] = "freeSwing"
        BY <1>0, <2>1, <3>2 DEF FreeNext, Goto
      <4>2. BehindAfter(tail[t], w)
        BY <3>1, <3>2, ReadNext, BehindStays
      <4> QED BY <4>1, <4>2
    <3>3. CASE GetRealAddr(w) = NULL
      <4>1. pc'[t] \in {"link", "freeTail"}
        BY <1>0, <2>1, <3>3 DEF FreeNext, Goto
      <4> QED BY <4>1
    <3> QED BY <3>2, <3>3
  <2>2. CASE Links(t)
    <3>2. /\ tail[t] = Word(End) /\ Grows(new[t], own[t]) /\ own[t] \in Buckets
      BY <2>2, LinksLast, StepKinds
    <3>3. /\ tail' = tail /\ new' = new /\ pc'[t] = "advance"
      BY <1>0, <2>2 DEF Links, FreeLink, Goto
    <3>4. new[t] # tail[t]
      BY <1>0, <2>2 DEF NeverBack, Building, Links, FreeLink, At
    <3>5. EndAfter = End + 1 /\ End \in Nat /\ End \in 1 .. End
      BY <1>0, <3>2, Kinds, Places
    <3>6. /\ \A i \in 1 .. End : WordAfter(i) = Word(i)
          /\ WordAfter(End + 1) = new[t]
      BY <3>2 DEF Grows
    <3>7. ASSUME NEW i \in 1 .. End + 1, tail[t] = WordAfter(i)
          PROVE  i < End + 1 /\ new[t] = WordAfter(i + 1)
      <4>1. i # End + 1
        BY <3>4, <3>6, <3>7
      <4>2. i \in 1 .. End /\ i < End + 1
        BY <3>5, <4>1
      <4>3. i = End
        <5>1. Word(i) = Word(End)
          BY <3>2, <3>6, <3>7, <4>2
        <5>2. \A j, k \in 1 .. End : Word(j) = Word(k) => j = k
          BY <1>0, WordsApart
        <5> QED BY <3>5, <4>2, <5>1, <5>2
      <4> QED BY <3>6, <4>2, <4>3
    <3>8. BehindAfter(tail[t], new[t])
      BY <3>5, <3>7 DEF BehindAfter
    <3> QED BY <3>3, <3>8
  <2>3. CASE BucketNext(t)
    <3> DEFINE w == metaNext[GetRealAddr(head[t])]
    <3>1. GetRealAddr(head[t]) \in Buckets /\ head[t] \in Words /\ ~Links(t)
      BY <1>0, <2>3 DEF Reading, HasHead, BucketNext, At, Links, FreeLink
    <3>2. CASE GetRealAddr(w) = NULL
      <4>1. pc'[t] = "bucketTail"
        BY <1>0, <2>3, <3>2 DEF BucketNext, Goto
      <4> QED BY <4>1
    <3>3. CASE GetRealAddr(w) # NULL
      <4>1. head' = head /\ seen'[t] = w /\ pc'[t] \in {"bucketSwing", "bucketCas"}
        BY <1>0, <2>3, <3>3 DEF BucketNext, Goto
      <4>2. BehindAfter(head[t], w)
        BY <3>1, <3>3, ReadNext, BehindStays
      <4> QED BY <4>1, <4>2
    <3> QED BY <3>2, <3>3
  <2>4. ASSUME NEW o \in held, Free(t, o) PROVE FreshAfter(t)
    <3>1. pc'[t] \in {"idle", "getCnt"}
      BY <1>0, <2>4 DEF Free, Goto, At
    <3> QED BY <3>1
  <2>5. CASE \/ FreeGetCnt(t) \/ FreeSetNext(t) \/ FreeTail(t) \/ FreeSwing(t) \/ FreeAdvance(t) \/ FreeCount(t)
             \/ (FreeLink(t) /\ ~Links(t))
    <3>1. pc'[t] \in {"setNext", "freeTail", "freeNext", "count", "idle"}
      BY <1>0, <2>5 DEF FreeGetCnt, FreeSetNext, FreeTail, FreeSwing, FreeAdvance, FreeCount, FreeLink,
                        Links, Goto
    <3> QED BY <3>1
  <2>6. CASE Alloc(t) \/ AllocBucket(t) \/ NewBucket(t) \/ BucketTail(t) \/ BucketHead(t) \/ BucketSwing(t)
             \/ BucketCas(t) \/ InitDequeued(t)
    <3>1. pc'[t] \in {"idle", "restore", "bucketTail", "bucketHead", "bucketNext", "init"}
      BY <1>0, <2>6 DEF Alloc, AllocBucket, NewBucket, BucketTail, BucketHead, BucketSwing, BucketCas,
                        InitDequeued, Goto, At
    <3> QED BY <3>1
  <2> QED BY <2>1, <2>2, <2>3, <2>4, <2>5, <2>6 DEF Step
<1> QED BY <1>2, <1>3

-----------------------------------------------------------------------------
(* The tail *)

\* metaTail_ moves by one word; and a Free that ends leaves behind no word it had linked
\* its bucket to.
LEMMA TailMoves ==
  ASSUME PoolInv, NEW t \in Threads, Step(t)
  PROVE  /\ \/ metaTail' = metaTail
            \/ ~Links(t) /\ ~Takes(t) /\ Behind(metaTail, metaTail')
         /\ pc[t] = "advance" /\ metaTail = tail[t] =>
               ~Links(t) /\ ~Takes(t) /\ metaTail' # metaTail
<1>0. /\ TypeOK /\ Fresh(t) /\ Reading(t) /\ TailNear /\ Spelled /\ PlaceOnce
      /\ pc \in [Threads -> Labels]
  BY Typed DEF PoolInv, PerThread
<1>1. CASE metaTail' = metaTail /\ pc[t] # "advance"
  BY <1>1
<1>2. CASE FreeSwing(t) \/ BucketSwing(t)
  <2>2. /\ ~Links(t) /\ ~Takes(t) /\ pc[t] # "advance"
        /\ metaTail' = IF metaTail = tail[t] THEN seen[t] ELSE metaTail
    BY <1>2 DEF FreeSwing, BucketSwing, SwingTail, Links, Takes, FreeLink, BucketCas, At
  <2>3. Behind(tail[t], seen[t])
    BY <1>0, <1>2 DEF Fresh, Reading, FreeSwing, BucketSwing, At
  <2> QED BY <2>2, <2>3
<1>3. CASE FreeAdvance(t)
  <2>2. /\ ~Links(t) /\ ~Takes(t) /\ pc[t] = "advance"
        /\ metaTail' = IF metaTail = tail[t] THEN new[t] ELSE metaTail
    BY <1>3 DEF FreeAdvance, SwingTail, Links, Takes, FreeLink, BucketCas, At
  <2>3. Behind(tail[t], new[t])
    BY <1>0, <2>2 DEF Fresh
  <2>4. CASE metaTail = tail[t]
    <3>1. metaTail' = new[t] /\ Behind(metaTail, metaTail')
      BY <2>2, <2>3, <2>4
    <3>2. PICK i \in 1 .. End : metaTail = Word(i)
      <4>1. End \in Nat /\ End > 0
        BY <1>0, Places
      <4>2. End \in 1 .. End /\ (End > 1 => End - 1 \in 1 .. End)
        BY <4>1
      <4> QED BY <1>0, <4>2 DEF TailNear
    <3>3. i < End /\ metaTail' = Word(i + 1) /\ i + 1 \in 1 .. End /\ i # i + 1
      <4>1. i < End /\ metaTail' = Word(i + 1)
        BY <3>1, <3>2 DEF Behind
      <4>2. End \in Nat
        BY <1>0, Places
      <4> QED BY <4>1, <4>2
    <3>4. metaTail' # metaTail
      BY <1>0, <3>2, <3>3, WordsApart
    <3> QED BY <2>2, <3>1, <3>4
  <2>5. CASE metaTail # tail[t]
    BY <2>2, <2>5
  <2> QED BY <2>4, <2>5
<1>4. ASSUME NEW o \in held, Free(t, o)
      PROVE  metaTail' = metaTail /\ pc[t] # "advance"
  BY <1>4 DEF Free, At, pool
<1>5. CASE FreeGetCnt(t) \/ FreeSetNext(t) \/ FreeTail(t) \/ FreeNext(t) \/ FreeLink(t) \/ FreeCount(t)
  <2>1. metaTail' = metaTail /\ pc[t] # "advance"
    BY <1>5 DEF FreeGetCnt, FreeSetNext, FreeTail, FreeNext, FreeLink, FreeCount, At, pool
  <2> QED BY <1>1, <2>1
<1>6. CASE \/ Alloc(t) \/ AllocBucket(t) \/ NewBucket(t) \/ BucketTail(t) \/ BucketHead(t) \/ BucketNext(t)
           \/ BucketCas(t) \/ InitDequeued(t)
  <2>1. metaTail' = metaTail /\ pc[t] # "advance"
    BY <1>6 DEF Alloc, AllocBucket, NewBucket, BucketTail, BucketHead, BucketNext, BucketCas,
                InitDequeued, At, pool
  <2> QED BY <1>1, <2>1
<1> QED BY <1>1, <1>2, <1>3, <1>4, <1>5, <1>6 DEF Step

\* How a call comes by a tail and a head, and loses them
LEMMA ReadMoves ==
  ASSUME PoolInv, NEW t \in Threads, Step(t), NEW u \in Threads
  PROVE  /\ \/ tail'[u] = tail[u]
            \/ tail'[u] = ZeroWord
            \/ tail'[u] = metaTail /\ metaTail' = metaTail /\ ~Links(t) /\ ~Takes(t)
         /\ \/ head'[u] = head[u]
            \/ head'[u] = ZeroWord
            \/ head'[u] = metaHead /\ ~Links(t) /\ ~Takes(t)
<1>0. TypeOK /\ tail \in [Threads -> Words] /\ head \in [Threads -> Words]
  BY Typed DEF PoolInv
<1> DEFINE Moves(v) ==
       /\ \/ tail'[v] = tail[v]
          \/ tail'[v] = ZeroWord
          \/ tail'[v] = metaTail /\ metaTail' = metaTail /\ ~Links(t) /\ ~Takes(t)
       /\ \/ head'[v] = head[v]
          \/ head'[v] = ZeroWord
          \/ head'[v] = metaHead /\ ~Links(t) /\ ~Takes(t)
<1>1. CASE u # t
  BY <1>0, <1>1, OthersStay
<1>2. Moves(t)
  <2>1. CASE \/ Alloc(t) \/ AllocBucket(t) \/ NewBucket(t) \/ InitDequeued(t)
             \/ FreeGetCnt(t) \/ FreeSetNext(t) \/ FreeCount(t)
    <3>1. UNCHANGED <<tail, head>>
      BY <2>1 DEF Alloc, AllocBucket, NewBucket, InitDequeued, FreeGetCnt, FreeSetNext, FreeCount, locals
    <3> QED BY <3>1
  <2>2. ASSUME NEW o \in held, Free(t, o) PROVE Moves(t)
    BY <2>2 DEF Free
  <2>3. CASE FreeTail(t) \/ BucketTail(t)
    <3>1. ~Links(t) /\ ~Takes(t) /\ tail'[t] = metaTail /\ UNCHANGED <<head, metaTail>>
      BY <1>0, <2>3 DEF FreeTail, BucketTail, Links, Takes, FreeLink, BucketCas, At, pool
    <3> QED BY <3>1
  <2>4. CASE BucketHead(t)
    <3>1. ~Links(t) /\ ~Takes(t) /\ head'[t] = metaHead /\ UNCHANGED tail
      BY <1>0, <2>4 DEF BucketHead, Links, Takes, FreeLink, BucketCas, At
    <3> QED BY <3>1
  <2>5. CASE \/ FreeNext(t) \/ FreeSwing(t) \/ FreeLink(t) \/ FreeAdvance(t) \/ BucketNext(t)
             \/ BucketSwing(t) \/ BucketCas(t)
    <3>1. UNCHANGED <<tail, head>> \/ Forget(t)
      BY <2>5 DEF FreeNext, FreeSwing, FreeLink, FreeAdvance, BucketNext, BucketSwing, BucketCas
    <3> QED BY <1>0, <3>1 DEF Forget
  <2> QED BY <2>1, <2>2, <2>3, <2>4, <2>5 DEF Step
<1> QED BY <1>1, <1>2

\* Who has the last word of the queue had it from metaTail_.
LEMMA ReachedKept ==
  ASSUME PoolInv, NEW t \in Threads, Step(t), NEW u \in Threads
  PROVE  Reached(u)'
<1>0. TypeOK /\ Spelled /\ PlaceOnce /\ NeverBack /\ TailNear /\ Reached(u)
  BY DEF PoolInv, PerThread
<1>1. SUFFICES ASSUME tail'[u] = WordAfter(EndAfter)
               PROVE  metaTail' = tail'[u]
  BY DEF Reached, Word, WordAfter, End, EndAfter
<1>2. /\ End \in Nat /\ End > 0 /\ End \in 1 .. End /\ End \in 1 .. End + 1
  BY <1>0, Places
<1>3. tail'[u] # ZeroWord
  <2>1. EndAfter \in 1 .. EndAfter /\ Spelled' /\ chain' \in Seq(Buckets)
    <3>1. Spelled' /\ chain' \in Seq(Buckets) /\ chain' # <<>>
      BY SpelledKept, QueueTyped
    <3> QED BY <3>1 DEF EndAfter
  <2>2. chain'[EndAfter] \in Buckets
    BY <2>1 DEF EndAfter
  <2>3. GetRealAddr(WordAfter(EndAfter)) = chain'[EndAfter]
    BY <2>1 DEF Spelled, Word, WordAfter, End, EndAfter, GetRealAddr
  <2> QED BY <1>1, <2>2, <2>3, ZeroIsWord, BucketAssumption
<1>4. CASE tail'[u] = metaTail /\ metaTail' = metaTail
  BY <1>4
<1>5. CASE tail'[u] = tail[u]
  <2>1. WordAfter(EndAfter) = Word(End)
    <3>1. CASE Stays
      BY <1>0, <1>2, <3>1, Kinds DEF Stays
    <3>2. CASE Links(t)
      <4>1. Grows(new[t], own[t]) /\ own[t] \in Buckets
        BY <3>2, StepKinds
      <4>2. WordAfter(EndAfter) = new[t]
        BY <1>0, <4>1, Kinds DEF Grows
      <4>3. new[t] # tail[u]
        BY <1>0, <3>2 DEF NeverBack, Links, FreeLink, At, Building
      <4> QED BY <1>1, <1>5, <4>2, <4>3
    <3>3. CASE Takes(t)
      <4>1. Shrinks
        BY <3>3, StepKinds
      <4>2. EndAfter = End - 1 /\ End > 1
        BY <1>0, <4>1, Kinds
      <4>3. End - 1 \in 1 .. End /\ (End - 1) + 1 = End
        BY <1>2, <4>2
      <4> QED BY <4>1, <4>2, <4>3 DEF Shrinks
    <3> QED BY <3>1, <3>2, <3>3, StepKinds
  <2>2. metaTail = tail[u] /\ metaTail = Word(End)
    BY <1>0, <1>1, <1>5, <2>1 DEF Reached
  <2>3. ~Behind(metaTail, metaTail')
    BY <1>2, <2>2 DEF Behind
  <2>4. metaTail' = metaTail
    BY <2>3, TailMoves
  <2> QED BY <1>5, <2>2, <2>4
<1> QED BY <1>3, <1>4, <1>5, ReadMoves

\* No bucket is reset that a Free took for the tail under the count 0.
LEMMA ZeroKeptKept ==
  ASSUME ZeroRecycled = FALSE, PoolInv, NEW t \in Threads, Step(t), NEW u \in Threads
  PROVE  ZeroKept(u)'
<1>0. /\ TypeOK /\ Spelled /\ PlaceOnce /\ TailNear /\ ZeroKept(u) /\ ZeroKept(t) /\ Reading(u)
      /\ pc \in [Threads -> Labels] /\ own \in [Threads -> Buckets \cup {NULL}]
      /\ tail \in [Threads -> Words]
  BY Typed DEF PoolInv, PerThread
<1> DEFINE Safe(b) == \/ InQueue(b)
                      \/ \E v \in Threads : pc[v] = "init" /\ own[v] = b
           SafeAfter(b) == \/ Contains(chain', b)
                           \/ \E v \in Threads : pc'[v] = "init" /\ own'[v] = b
<1>1. ASSUME NEW b, Safe(b), ~(InitDequeued(t) /\ own[t] = b) PROVE SafeAfter(b)
  <2>1. CASE InQueue(b)
    <3>1. CASE Takes(t) /\ b = GetRealAddr(head[t])
      <4>1. pc'[t] = "init" /\ own'[t] = b
        BY <1>0, <3>1 DEF Takes, BucketCas, Goto
      <4> QED BY <4>1
    <3>2. CASE ~(Takes(t) /\ b = GetRealAddr(head[t]))
      <4>1. InQueue(b)'
        BY <2>1, <3>2, InQueueAfter
      <4> QED BY <4>1 DEF InQueue
    <3> QED BY <3>1, <3>2
  <2>2. ASSUME NEW v \in Threads, pc[v] = "init", own[v] = b PROVE SafeAfter(b)
    <3>1. CASE v = t
      <4>1. InitDequeued(t)
        BY <2>2, <3>1 DEF Step, Alloc, AllocBucket, NewBucket, BucketTail, BucketHead, BucketNext,
             BucketSwing, BucketCas, Free, FreeGetCnt, FreeSetNext, FreeTail, FreeNext, FreeSwing,
             FreeLink, FreeAdvance, FreeCount, At
      <4> QED BY <1>1, <2>2, <3>1, <4>1
    <3>2. CASE v # t
      <4>1. pc'[v] = "init" /\ own'[v] = b
        BY <1>0, <2>2, <3>2, OthersStay
      <4> QED BY <4>1
    <3> QED BY <3>1, <3>2
  <2> QED BY <1>1, <2>1, <2>2
<1>2. SUFFICES ASSUME pc'[u] \in {"freeNext", "link"}, ExtractMetaCnt(tail'[u]) = 0
               PROVE  SafeAfter(GetRealAddr(tail'[u]))
  BY DEF ZeroKept, InQueue, GetRealAddr, ExtractMetaCnt
<1>3. CASE u # t
  <2>1. pc'[u] = pc[u] /\ tail'[u] = tail[u]
    BY <1>0, <1>3, OthersStay
  <2>2. Safe(GetRealAddr(tail[u])) /\ pc[u] \in {"freeNext", "link"} /\ ExtractMetaCnt(tail[u]) = 0
    BY <1>0, <1>2, <2>1 DEF ZeroKept
  <2>3. tail[u] = GetMetaAddr(0, GetRealAddr(tail[u]))
    BY <1>0, <2>2 DEF Words, GetMetaAddr, GetRealAddr, ExtractMetaCnt
  <2>4. ~(InitDequeued(t) /\ own[t] = GetRealAddr(tail[u]))
    BY <2>2, <2>3 DEF InitDequeued, ZeroHeld
  <2> QED BY <1>1, <2>1, <2>2, <2>4
<1>4. CASE u = t
  <2>1. CASE FreeTail(t)
    <3>1. tail'[t] = metaTail /\ ~InitDequeued(t)
      BY <1>0, <2>1 DEF FreeTail, InitDequeued, At
    <3>2. InQueue(GetRealAddr(metaTail))
      <4>1. End \in 1 .. End /\ (End > 1 => End - 1 \in 1 .. End)
        <5>1. End \in Nat /\ End > 0
          BY <1>0, Places
        <5> QED BY <5>1
      <4>2. \A i \in 1 .. End : InQueue(GetRealAddr(Word(i)))
        BY <1>0, Places DEF Spelled
      <4> QED BY <1>0, <4>1, <4>2 DEF TailNear
    <3> QED BY <1>1, <1>4, <3>1, <3>2
  <2>2. CASE FreeNext(t)
    <3>1. tail' = tail /\ pc[t] = "freeNext" /\ ~InitDequeued(t)
      BY <1>0, <1>2, <1>4, <2>2 DEF FreeNext, InitDequeued, At, Goto
    <3>2. Safe(GetRealAddr(tail[t]))
      BY <1>0, <1>2, <1>4, <3>1 DEF ZeroKept
    <3> QED BY <1>1, <1>4, <3>1, <3>2
  <2>3. ASSUME NEW o \in held, Free(t, o) PROVE FALSE
    BY <1>0, <1>2, <1>4, <2>3 DEF Free, Goto, At
  <2>4. CASE FreeGetCnt(t) \/ FreeSetNext(t) \/ FreeSwing(t) \/ FreeLink(t) \/ FreeAdvance(t) \/ FreeCount(t)
    BY <1>0, <1>2, <1>4, <2>4 DEF FreeGetCnt, FreeSetNext, FreeSwing, FreeLink, FreeAdvance, FreeCount, Goto
  <2>5. CASE \/ Alloc(t) \/ AllocBucket(t) \/ NewBucket(t) \/ BucketTail(t) \/ BucketHead(t)
             \/ BucketNext(t) \/ BucketSwing(t) \/ BucketCas(t) \/ InitDequeued(t)
    BY <1>0, <1>2, <1>4, <2>5 DEF Alloc, AllocBucket, NewBucket, BucketTail, BucketHead, BucketNext,
         BucketSwing, BucketCas, InitDequeued, Goto, At
  <2> QED BY <2>1, <2>2, <2>3, <2>4, <2>5 DEF Step
<1> QED BY <1>3, <1>4

\* A bucket outside the queue and on no way into it or out of it is linked to nothing.
LEMMA ResetKept == ASSUME PoolInv, NEW t \in Threads, Step(t) PROVE Reset'
<1>0. /\ TypeOK /\ PlaceOnce /\ Reset /\ Owning(t) /\ metaNext \in [Buckets -> Words]
      /\ pc \in [Threads -> Labels] /\ own \in [Threads -> Buckets \cup {NULL}]
  BY Typed DEF PoolInv, PerThread
<1> DEFINE S == (Building \cup {"init"}) \ {"setNext"}
<1>1. SUFFICES ASSUME NEW b \in Buckets
               PROVE  \/ InQueue(b)'
                      \/ \E v \in Threads : own'[v] = b /\ pc'[v] \in S
                      \/ metaNext'[b] = ZeroWord
  BY DEF Reset
<1>2. CASE InQueue(b)
  <2>1. CASE Takes(t) /\ b = GetRealAddr(head[t])
    <3>1. own'[t] = b /\ pc'[t] = "init"
      BY <1>0, <2>1 DEF Takes, BucketCas, Goto
    <3>2. pc'[t] \in S
      BY <3>1
    <3> QED BY <3>1, <3>2
  <2>2. CASE ~(Takes(t) /\ b = GetRealAddr(head[t]))
    BY <1>2, <2>2, InQueueAfter
  <2> QED BY <2>1, <2>2
<1>3. ASSUME NEW v \in Threads, v # t, own[v] = b, pc[v] \in S
      PROVE  \E w \in Threads : own'[w] = b /\ pc'[w] \in S
  BY <1>0, <1>3, OthersStay
<1>4. CASE own[t] = b /\ pc[t] \in S
  <2>1. CASE FreeTail(t) \/ FreeNext(t) \/ FreeSwing(t) \/ (FreeLink(t) /\ ~Links(t))
    <3>1. own' = own /\ pc'[t] \in {"freeTail", "freeNext", "freeSwing", "link"}
      BY <1>0, <2>1 DEF FreeTail, FreeNext, FreeSwing, FreeLink, Links, Goto
    <3>2. own'[t] = b /\ pc'[t] \in S
      BY <1>4, <3>1 DEF Building
    <3> QED BY <3>2
  <2>2. CASE Links(t)
    BY <1>4, <2>2, InQueueAfter
  <2>3. CASE InitDequeued(t)
    BY <1>0, <1>4, <2>3 DEF InitDequeued, InitBucket
  <2>4. ~(Alloc(t) \/ AllocBucket(t) \/ NewBucket(t) \/ BucketTail(t) \/ BucketHead(t) \/ BucketNext(t)
          \/ BucketSwing(t) \/ BucketCas(t) \/ FreeGetCnt(t) \/ FreeSetNext(t) \/ FreeAdvance(t) \/ FreeCount(t))
    BY <1>4 DEF Alloc, AllocBucket, NewBucket, BucketTail, BucketHead, BucketNext, BucketSwing, BucketCas,
                FreeGetCnt, FreeSetNext, FreeAdvance, FreeCount, At, Building
  <2>5. \A o \in held : ~Free(t, o)
    BY <1>4 DEF Free, At, Building
  <2> QED BY <2>1, <2>2, <2>3, <2>4, <2>5 DEF Step
<1>5. CASE metaNext[b] = ZeroWord /\ ~InQueue(b)
  <2>1. chain[End] # b
    <3>1. End \in 1 .. End
      BY <1>0, Places
    <3> QED BY <1>0, <1>5, <3>1, Places
  <2>2. CASE FreeSetNext(t) /\ own[t] = b
    <3>1. own'[t] = b /\ pc'[t] = "freeTail"
      BY <1>0, <2>2 DEF FreeSetNext, Goto, locals
    <3>2. pc'[t] \in S
      BY <3>1 DEF Building
    <3> QED BY <3>1, <3>2
  <2>3. CASE ~(FreeSetNext(t) /\ own[t] = b)
    BY <1>0, <1>5, <2>1, <2>3, NextMoves
  <2> QED BY <2>2, <2>3
<1> QED BY <1>0, <1>2, <1>3, <1>4, <1>5 DEF Reset

\* Calls between these labels, before and after the step
Among(L) == {u \in Threads : pc[u] \in L}
AmongAfter(L) == {u \in Threads : pc'[u] \in L}

\* While two calls have linked a bucket or claimed one, the queue has more than its dummy
\* and one bucket: size_ admits no more AllocBuckets than there are buckets.
LEMMA Room ==
  ASSUME PoolInv, NEW t \in Threads, NEW u \in Threads, t # u,
         pc[t] \in Accounted \ {"restore"}, pc[u] \in Accounted \ {"restore"}
  PROVE  End > 2
<1> DEFINE A == Among(Accounted)
           R == {v \in Threads : pc[v] = "restore"}
<1>1. /\ size = End - 1 - Cardinality(A) /\ size + Cardinality(R) >= 0
      /\ End \in Nat /\ size \in Int
  BY Places DEF PoolInv, SizeExact, Given, End, TypeOK, Among
<1>2. IsFiniteSet(A) /\ IsFiniteSet(R) /\ R \cup {t} \cup {u} \subseteq A
      /\ t \notin R /\ u \notin R \cup {t}
  <2>1. A \subseteq Threads /\ R \subseteq Threads
    BY DEF Among
  <2> QED BY <2>1, ThreadAssumption, FS_Subset DEF Among, Accounted
<1>3. Cardinality(R \cup {t} \cup {u}) = Cardinality(R) + 2 /\ Cardinality(R) \in Nat /\ Cardinality(A) \in Nat
  <2>1. Cardinality(R \cup {t}) = Cardinality(R) + 1 /\ IsFiniteSet(R \cup {t})
    BY <1>2, FS_AddElement
  <2>2. Cardinality(R \cup {t} \cup {u}) = Cardinality(R \cup {t}) + 1
    BY <1>2, <2>1, FS_AddElement
  <2>3. Cardinality(R) \in Nat /\ Cardinality(A) \in Nat
    BY <1>2, FS_CardinalityType
  <2> QED BY <2>1, <2>2, <2>3
<1>4. Cardinality(R \cup {t} \cup {u}) <= Cardinality(A)
  BY <1>2, FS_Subset
<1> QED BY <1>1, <1>3, <1>4

\* The tail never falls behind the head.
LEMMA TailNearKept == ASSUME PoolInv, NEW t \in Threads, Step(t) PROVE TailNear'
<1>0. /\ TypeOK /\ Spelled /\ PlaceOnce /\ TailNear /\ NeverBack
      /\ pc \in [Threads -> Labels]
  BY Typed DEF PoolInv
<1> DEFINE AdvancingAfter(u) == pc'[u] = "advance" /\ tail'[u] = WordAfter(EndAfter - 1)
           NearAfter == \/ metaTail' = WordAfter(EndAfter)
                        \/ /\ EndAfter > 1 /\ metaTail' = WordAfter(EndAfter - 1)
                           /\ \E u \in Threads : AdvancingAfter(u)
<1>1. SUFFICES NearAfter
  BY DEF TailNear, Advancing, Word, WordAfter, End, EndAfter
<1>2. /\ End \in Nat /\ End > 0 /\ End \in 1 .. End /\ End \in 1 .. End + 1
      /\ \A i \in 1 .. End + 1 : Word(i) \in Words
  BY <1>0, Places
<1>3. \A u \in Threads : u # t => pc'[u] = pc[u] /\ tail'[u] = tail[u]
  BY <1>0, OthersStay
<1>4. ASSUME metaTail' # metaTail PROVE metaTail' = WordAfter(EndAfter)
  <2>1. ~Links(t) /\ ~Takes(t) /\ Behind(metaTail, metaTail')
    BY <1>4, TailMoves
  <2>2. EndAfter = End /\ WordAfter(End) = Word(End)
    <3>1. Stays
      BY <2>1, StepKinds
    <3> QED BY <1>0, <1>2, <3>1, Kinds DEF Stays
  <2>3. metaTail # Word(End)
    BY <1>2, <2>1 DEF Behind
  <2>4. End > 1 /\ metaTail = Word(End - 1)
    BY <1>0, <2>3 DEF TailNear
  <2>5. End - 1 \in 1 .. End /\ (End - 1) + 1 = End
    BY <1>2, <2>4
  <2>6. metaTail' = Word(End)
    BY <2>1, <2>4, <2>5 DEF Behind
  <2> QED BY <2>2, <2>6
<1>5. ASSUME metaTail' = metaTail, Stays PROVE NearAfter
  <2>1. EndAfter = End /\ WordAfter(End) = Word(End)
    BY <1>0, <1>2, <1>5, Kinds DEF Stays
  <2>2. CASE metaTail = Word(End)
    BY <1>5, <2>1, <2>2
  <2>3. CASE metaTail # Word(End)
    <3>1. End > 1 /\ metaTail = Word(End - 1) /\ \E u \in Threads : Advancing(u)
      BY <1>0, <2>3 DEF TailNear
    <3>2. PICK u \in Threads : Advancing(u)
      BY <3>1
    <3>3. WordAfter(End - 1) = Word(End - 1)
      <4>1. End - 1 \in 1 .. End + 1
        BY <1>2, <3>1
      <4> QED BY <1>5, <4>1 DEF Stays
    <3>4. u # t
      BY <1>5, <3>1, <3>2, TailMoves DEF Advancing
    <3>5. AdvancingAfter(u)
      BY <1>3, <2>1, <3>2, <3>3, <3>4 DEF Advancing
    <3> QED BY <1>5, <2>1, <3>1, <3>3, <3>5
  <2> QED BY <2>2, <2>3
<1>6. ASSUME metaTail' = metaTail, Links(t) PROVE NearAfter
  <2>1. metaTail = tail[t] /\ tail[t] = Word(End) /\ Grows(new[t], own[t]) /\ own[t] \in Buckets
    BY <1>6, LinksLast, StepKinds
  <2>2. EndAfter = End + 1 /\ EndAfter - 1 = End /\ EndAfter > 1
    <3>1. EndAfter = End + 1
      BY <1>0, <2>1, Kinds
    <3> QED BY <1>2, <3>1
  <2>3. WordAfter(End) = Word(End)
    BY <1>2, <2>1 DEF Grows
  <2>4. pc'[t] = "advance" /\ tail'[t] = tail[t]
    BY <1>0, <1>6 DEF Links, FreeLink, Goto
  <2>5. AdvancingAfter(t)
    BY <2>1, <2>2, <2>3, <2>4
  <2> QED BY <1>6, <2>1, <2>2, <2>3, <2>5
<1>7. ASSUME metaTail' = metaTail, Takes(t) PROVE NearAfter
  <2>1. Shrinks
    BY <1>7, StepKinds
  <2>2. EndAfter = End - 1 /\ End > 1
    BY <1>0, <2>1, Kinds
  <2>3. \A i \in 1 .. End : WordAfter(i) = Word(i + 1)
    BY <2>1 DEF Shrinks
  <2>4. WordAfter(EndAfter) = Word(End)
    <3>1. End - 1 \in 1 .. End /\ (End - 1) + 1 = End
      BY <1>2, <2>2
    <3> QED BY <2>2, <2>3, <3>1
  <2>5. CASE metaTail = Word(End)
    BY <1>7, <2>4, <2>5
  <2>6. CASE metaTail # Word(End)
    <3>1. metaTail = Word(End - 1) /\ \E u \in Threads : Advancing(u)
      BY <1>0, <2>6 DEF TailNear
    <3>2. PICK u \in Threads : Advancing(u)
      BY <3>1
    <3>3. pc[t] = "bucketCas" /\ pc[u] = "advance"
      BY <1>7, <3>2 DEF Takes, BucketCas, At, Advancing
    <3>4. u # t /\ End > 2
      <4>1. u # t
        BY <3>3
      <4> QED BY <3>3, <4>1, Room DEF Accounted
    <3>5. WordAfter(EndAfter - 1) = Word(End - 1) /\ EndAfter > 1
      <4>1. /\ End - 2 \in 1 .. End /\ (End - 2) + 1 = End - 1
            /\ EndAfter - 1 = End - 2 /\ EndAfter > 1
        BY <1>2, <2>2, <3>4
      <4> QED BY <2>3, <4>1
    <3>6. AdvancingAfter(u)
      BY <1>3, <3>2, <3>4, <3>5 DEF Advancing
    <3> QED BY <1>7, <3>1, <3>5, <3>6
  <2> QED BY <2>5, <2>6
<1> QED BY <1>4, <1>5, <1>6, <1>7, StepKinds

\* Only GetCnt begins to build a word.
LEMMA BuildMoves ==
  ASSUME PoolInv, NEW t \in Threads, Step(t), NEW u \in Threads, pc'[u] \in Building
  PROVE  \/ pc[u] \in Building /\ new'[u] = new[u]
         \/ FreeGetCnt(t) /\ u = t
<1>0. TypeOK /\ pc \in [Threads -> Labels]
  BY Typed DEF PoolInv
<1>1. CASE u # t
  <2>1. pc'[u] = pc[u] /\ new'[u] = new[u]
    BY <1>0, <1>1, OthersStay
  <2> QED BY <2>1
<1>2. ASSUME u = t, pc'[t] \in Building
      PROVE  \/ pc[t] \in Building /\ new'[t] = new[t]
             \/ FreeGetCnt(t)
  <2>1. CASE FreeSetNext(t) \/ FreeTail(t) \/ FreeNext(t) \/ FreeSwing(t) \/ FreeLink(t)
    BY <2>1 DEF FreeSetNext, FreeTail, FreeNext, FreeSwing, FreeLink, Building, At, locals
  <2>2. CASE FreeAdvance(t) \/ FreeCount(t)
    BY <1>0, <1>2, <2>2 DEF FreeAdvance, FreeCount, Building, Goto
  <2>3. ASSUME NEW o \in held, Free(t, o) PROVE FALSE
    BY <1>0, <1>2, <2>3 DEF Free, Building, Goto, At
  <2>4. CASE \/ Alloc(t) \/ AllocBucket(t) \/ NewBucket(t) \/ BucketTail(t) \/ BucketHead(t)
             \/ BucketNext(t) \/ BucketSwing(t) \/ BucketCas(t) \/ InitDequeued(t)
    BY <1>0, <1>2, <2>4 DEF Alloc, AllocBucket, NewBucket, BucketTail, BucketHead, BucketNext,
         BucketSwing, BucketCas, InitDequeued, Building, Goto, At
  <2> QED BY <2>1, <2>2, <2>3, <2>4 DEF Step
<1> QED BY <1>1, <1>2

\* No Free is about to link a word another call waits for.
LEMMA NeverBackKept == ASSUME Recurs = FALSE, PoolInv, NEW t \in Threads, Step(t) PROVE NeverBack'
<1>0. /\ TypeOK /\ Spelled /\ PlaceOnce /\ TailNear /\ NeverBack
      /\ pc \in [Threads -> Labels] /\ new \in [Threads -> Words] /\ own \in [Threads -> Buckets \cup {NULL}]
  BY Typed DEF PoolInv
<1>1. SUFFICES ASSUME NEW u \in Threads, NEW v \in Threads, pc'[v] \in Building
               PROVE  new'[v] # tail'[u] /\ new'[v] # head'[u]
  BY DEF NeverBack
<1>2. GetRealAddr(new'[v]) # NULL
  <2>1. Built(v)' /\ Owning(v)'
    BY BuiltKept, OwningKept
  <2> QED BY <1>1, <2>1 DEF Built, Owning, GetRealAddr
<1>3. new'[v] # ZeroWord
  BY <1>2, ZeroIsWord
<1>6. CASE pc[v] \in Building /\ new'[v] = new[v]
  <2>2. new[v] # tail[u] /\ new[v] # head[u]
    BY <1>0, <1>6 DEF NeverBack
  <2>3. /\ GetRealAddr(new[v]) = own[v] /\ own[v] # NULL /\ ~InQueue(own[v])
    BY <1>0, <1>6 DEF PoolInv, PerThread, Built, Owning, PlaceOnce
  <2>4. \A i \in 1 .. End : new[v] # Word(i)
    <3>1. \A i \in 1 .. End : InQueue(GetRealAddr(Word(i)))
      BY <1>0, Places DEF Spelled
    <3> QED BY <2>3, <3>1
  <2>5. new[v] # metaTail /\ new[v] # metaHead
    <3>1. End \in Nat /\ End > 0 /\ Word(1) = metaHead
      BY <1>0, Places
    <3>2. /\ End \in 1 .. End /\ 1 \in 1 .. End /\ (End > 1 => End - 1 \in 1 .. End)
      BY <3>1
    <3> QED BY <1>0, <2>4, <3>1, <3>2 DEF TailNear
  <2> QED BY <1>3, <1>6, <2>2, <2>5, ReadMoves
<1>7. CASE FreeGetCnt(t) /\ v = t
  <2>1. /\ NoRecurrence(GetMetaAddr(metaCnt, own[t]))
        /\ new'[v] = GetMetaAddr(metaCnt, own[t]) /\ tail' = tail /\ head' = head
    BY <1>0, <1>7 DEF FreeGetCnt
  <2> QED BY <2>1 DEF NoRecurrence
<1> QED BY <1>1, <1>6, <1>7, BuildMoves

-----------------------------------------------------------------------------
(* The count *)

LEMMA CountAfter ==
  ASSUME PoolInv, NEW t \in Threads, Step(t), NEW L
  PROVE  /\ (pc'[t] \in L <=> pc[t] \in L) => AmongAfter(L) = Among(L)
         /\ pc'[t] \in L /\ pc[t] \notin L => Cardinality(AmongAfter(L)) = Cardinality(Among(L)) + 1
         /\ pc'[t] \notin L /\ pc[t] \in L => Cardinality(AmongAfter(L)) = Cardinality(Among(L)) - 1
         /\ Cardinality(Among(L)) \in Nat
<1>1. \A u \in Threads : u # t => pc'[u] = pc[u]
  BY OthersStay DEF PoolInv
<1>2. IsFiniteSet(Among(L)) /\ Cardinality(Among(L)) \in Nat
  <2>1. Among(L) \subseteq Threads
    BY DEF Among
  <2> QED BY <2>1, ThreadAssumption, FS_Subset, FS_CardinalityType
<1>3. ASSUME pc'[t] \in L <=> pc[t] \in L PROVE AmongAfter(L) = Among(L)
  BY <1>1, <1>3 DEF Among, AmongAfter
<1>4. ASSUME pc'[t] \in L, pc[t] \notin L
      PROVE  Cardinality(AmongAfter(L)) = Cardinality(Among(L)) + 1
  <2>1. AmongAfter(L) = Among(L) \cup {t} /\ t \notin Among(L)
    BY <1>1, <1>4 DEF Among, AmongAfter
  <2> QED BY <1>2, <2>1, FS_AddElement
<1>5. ASSUME pc'[t] \notin L, pc[t] \in L
      PROVE  Cardinality(AmongAfter(L)) = Cardinality(Among(L)) - 1
  <2>1. AmongAfter(L) = Among(L) \ {t} /\ t \in Among(L)
    BY <1>1, <1>5 DEF Among, AmongAfter
  <2> QED BY <1>2, <2>1, FS_RemoveElement
<1> QED BY <1>2, <1>3, <1>4, <1>5

\* How size_ and the calls it does not count yet change together
LEMMA SizeMoves ==
  ASSUME PoolInv, NEW t \in Threads, Step(t)
  PROVE  \/ \* a call takes from size_
            /\ size' = size - 1 /\ pc[t] = "idle" /\ ~Links(t) /\ ~Takes(t)
            /\ pc'[t] = IF size - 1 < 0 THEN "restore" ELSE "bucketTail"
         \/ \* it gives back what it took, or counts what it linked
            /\ size' = size + 1 /\ pc[t] \in {"count", "restore"} /\ pc'[t] = "idle"
            /\ ~Links(t) /\ ~Takes(t)
         \/ \* it links
            Links(t) /\ size' = size /\ pc[t] = "link" /\ pc'[t] = "advance"
         \/ \* it takes
            Takes(t) /\ size' = size /\ pc[t] = "bucketCas" /\ pc'[t] = "init"
         \/ \* or nothing of it changes
            /\ size' = size /\ ~Links(t) /\ ~Takes(t)
            /\ pc[t] \in Accounted <=> pc'[t] \in Accounted
            /\ pc[t] # "restore" /\ pc'[t] # "restore"
<1>0. pc \in [Threads -> Labels]
  BY DEF PoolInv, TypeOK
<1> DEFINE Calm == /\ size' = size /\ ~Links(t) /\ ~Takes(t)
                   /\ pc[t] \in Accounted <=> pc'[t] \in Accounted
                   /\ pc[t] # "restore" /\ pc'[t] # "restore"
<1>1. CASE AllocBucket(t)
  BY <1>0, <1>1 DEF AllocBucket, Goto, At, Links, Takes, FreeLink, BucketCas
<1>2. CASE FreeCount(t) \/ NewBucket(t)
  BY <1>0, <1>2 DEF FreeCount, NewBucket, Goto, At, Links, Takes, FreeLink, BucketCas
<1>3. CASE Links(t)
  BY <1>0, <1>3 DEF Links, FreeLink, Goto, At, pool
<1>4. CASE Takes(t)
  BY <1>0, <1>4 DEF Takes, BucketCas, Goto, At
<1>5. ASSUME NEW o \in held, Free(t, o) PROVE Calm
  BY <1>0, <1>5 DEF Free, Goto, At, Links, Takes, FreeLink, BucketCas, Accounted, pool
<1>6. CASE Alloc(t) \/ InitDequeued(t)
  BY <1>0, <1>6 DEF Alloc, InitDequeued, Goto, At, Links, Takes, FreeLink, BucketCas, Accounted, pool
<1>7. ASSUME ~Links(t), FreeGetCnt(t) \/ FreeSetNext(t) \/ FreeTail(t) \/ FreeNext(t) \/ FreeSwing(t) \/ FreeLink(t)
      PROVE  Calm
  BY <1>0, <1>7 DEF FreeGetCnt, FreeSetNext, FreeTail, FreeNext, FreeSwing, FreeLink, Links, Takes,
                    BucketCas, Goto, At, Accounted, pool
<1>8. CASE FreeAdvance(t)
  BY <1>0, <1>8 DEF FreeAdvance, Links, Takes, FreeLink, BucketCas, Goto, At, Accounted
<1>9. ASSUME ~Takes(t), BucketTail(t) \/ BucketHead(t) \/ BucketNext(t) \/ BucketSwing(t) \/ BucketCas(t)
      PROVE  Calm
  <2>1. size' = size /\ pc[t] \in Claimed /\ pc'[t] \in Claimed /\ ~Links(t)
    BY <1>0, <1>9 DEF BucketTail, BucketHead, BucketNext, BucketSwing, BucketCas, Links, Takes,
                      FreeLink, Claimed, Goto, At, pool
  <2> QED BY <1>9, <2>1 DEF Claimed, Accounted
<1> QED BY <1>1, <1>2, <1>3, <1>4, <1>5, <1>6, <1>7, <1>8, <1>9 DEF Step

\* size_ is exact after every step.
LEMMA SizeExactKept == ASSUME PoolInv, NEW t \in Threads, Step(t) PROVE SizeExact'
<1> DEFINE n == Cardinality(Among(Accounted))
           m == Cardinality(AmongAfter(Accounted))
<1>0. TypeOK /\ size \in Int /\ size = End - 1 - n
  BY DEF PoolInv, TypeOK, SizeExact, Among, End
<1>1. SUFFICES size' = EndAfter - 1 - m
  BY DEF SizeExact, AmongAfter, EndAfter, Accounted
<1>2. End \in Nat /\ n \in Nat
  BY <1>0, Places, CountAfter
<1>3. /\ Links(t) => EndAfter = End + 1
      /\ Takes(t) => EndAfter = End - 1
      /\ ~Links(t) /\ ~Takes(t) => EndAfter = End
  BY <1>0, StepKinds, Kinds
<1>4. /\ (pc'[t] \in Accounted <=> pc[t] \in Accounted) => m = n
      /\ pc'[t] \in Accounted /\ pc[t] \notin Accounted => m = n + 1
      /\ pc'[t] \notin Accounted /\ pc[t] \in Accounted => m = n - 1
  BY CountAfter
<1> HIDE DEF n, m
<1>5. CASE /\ size' = size - 1 /\ pc[t] = "idle" /\ ~Links(t) /\ ~Takes(t)
           /\ pc'[t] = IF size - 1 < 0 THEN "restore" ELSE "bucketTail"
  <2>1. pc'[t] \in Accounted /\ pc[t] \notin Accounted
    BY <1>5 DEF Accounted
  <2> QED BY <1>0, <1>2, <1>3, <1>4, <1>5, <2>1
<1>6. CASE /\ size' = size + 1 /\ pc[t] \in {"count", "restore"} /\ pc'[t] = "idle"
           /\ ~Links(t) /\ ~Takes(t)
  <2>1. pc'[t] \notin Accounted /\ pc[t] \in Accounted
    BY <1>6 DEF Accounted
  <2> QED BY <1>0, <1>2, <1>3, <1>4, <1>6, <2>1
<1>7. CASE Links(t) /\ size' = size /\ pc[t] = "link" /\ pc'[t] = "advance"
  <2>1. pc'[t] \in Accounted /\ pc[t] \notin Accounted
    BY <1>7 DEF Accounted
  <2> QED BY <1>0, <1>2, <1>3, <1>4, <1>7, <2>1
<1>8. CASE Takes(t) /\ size' = size /\ pc[t] = "bucketCas" /\ pc'[t] = "init"
  <2>1. pc'[t] \notin Accounted /\ pc[t] \in Accounted
    BY <1>8 DEF Accounted
  <2> QED BY <1>0, <1>2, <1>3, <1>4, <1>8, <2>1
<1>9. CASE /\ size' = size /\ ~Links(t) /\ ~Takes(t)
           /\ pc[t] \in Accounted <=> pc'[t] \in Accounted
  BY <1>0, <1>2, <1>3, <1>4, <1>9
<1> QED BY <1>5, <1>6, <1>7, <1>8, <1>9, SizeMoves

\* What is below zero in size_ is owed by calls that have yet to give it back.
LEMMA GivenKept == ASSUME PoolInv, NEW t \in Threads, Step(t) PROVE Given'
<1> DEFINE L == {"restore"}
           n == Cardinality(Among(L))
           m == Cardinality(AmongAfter(L))
<1>0. size \in Int /\ size + n >= 0
  <2>1. Among(L) = {v \in Threads : pc[v] = "restore"}
    BY DEF Among
  <2> QED BY <2>1 DEF PoolInv, TypeOK, Given
<1>1. SUFFICES size' + m >= 0
  <2>1. AmongAfter(L) = {v \in Threads : pc'[v] = "restore"}
    BY DEF AmongAfter
  <2> QED BY <2>1 DEF Given
<1>2. n \in Nat
  BY CountAfter
<1>3. /\ (pc'[t] = "restore" <=> pc[t] = "restore") => m = n
      /\ pc'[t] = "restore" /\ pc[t] # "restore" => m = n + 1
      /\ pc'[t] # "restore" /\ pc[t] = "restore" => m = n - 1
  <2>1. \A x : x \in L <=> x = "restore"
    OBVIOUS
  <2> QED BY <2>1, CountAfter
<1> HIDE DEF n, m
<1>5. CASE /\ size' = size - 1 /\ pc[t] = "idle" /\ ~Links(t) /\ ~Takes(t)
           /\ pc'[t] = IF size - 1 < 0 THEN "restore" ELSE "bucketTail"
  <2>1. CASE size - 1 < 0
    <3>1. m = n + 1
      BY <1>3, <1>5, <2>1
    <3> QED BY <1>0, <1>2, <1>5, <3>1
  <2>2. CASE ~(size - 1 < 0)
    <3>1. m = n
      BY <1>3, <1>5, <2>2
    <3> QED BY <1>0, <1>2, <1>5, <2>2, <3>1
  <2> QED BY <2>1, <2>2
<1>6. CASE size' = size + 1 /\ pc[t] \in {"count", "restore"} /\ pc'[t] = "idle"
  BY <1>0, <1>2, <1>3, <1>6
<1>7. CASE Links(t) /\ size' = size /\ pc[t] = "link" /\ pc'[t] = "advance"
  BY <1>0, <1>2, <1>3, <1>7
<1>8. CASE Takes(t) /\ size' = size /\ pc[t] = "bucketCas" /\ pc'[t] = "init"
  BY <1>0, <1>2, <1>3, <1>8
<1>9. CASE size' = size /\ pc[t] # "restore" /\ pc'[t] # "restore"
  BY <1>0, <1>2, <1>3, <1>9
<1> QED BY <1>5, <1>6, <1>7, <1>8, <1>9, SizeMoves

-----------------------------------------------------------------------------
(* The invariant holds *)

LEMMA PoolInvInit == Init => PoolInv
<1> SUFFICES ASSUME Init PROVE PoolInv
  OBVIOUS
<1>1. PICK dummy \in Buckets :
        /\ metaHead = GetMetaAddr(0, dummy) /\ metaTail = metaHead
        /\ metaCnt = AfterGetCnt(0) /\ size = 0
        /\ metaNext = [b \in Buckets |-> ZeroWord]
        /\ allocCnt = [b \in Buckets |-> 0] /\ freeCnt = [b \in Buckets |-> 0]
        /\ malloced = {dummy} /\ chain = <<dummy>>
        /\ tls = [t \in Threads |-> NULL] /\ held = {}
        /\ pc = [t \in Threads |-> "idle"] /\ own = [t \in Threads |-> NULL]
        /\ new = [t \in Threads |-> ZeroWord] /\ tail = [t \in Threads |-> ZeroWord]
        /\ head = [t \in Threads |-> ZeroWord] /\ seen = [t \in Threads |-> ZeroWord]
  BY DEF Init
<1>2. BucketSize \in Nat /\ BucketSize > 0
  BY SizeAssumption
<1>3. /\ ZeroWord \in Words /\ GetRealAddr(ZeroWord) = NULL /\ 0 \in Counts /\ AfterGetCnt(0) \in Counts
      /\ dummy # NULL
  BY ZeroIsWord, CountsStay, BucketAssumption
<1>4. /\ chain \in Seq(Buckets) /\ chain # <<>> /\ End = 1 /\ chain[1] = dummy /\ DOMAIN chain = 1 .. 1
  BY <1>1 DEF End
<1>5. Word(1) = metaHead /\ Word(2) = ZeroWord
  BY <1>1, <1>4 DEF Word
<1>6. \A b : InQueue(b) <=> b = dummy
  <2>1. Len(chain) = 1 /\ \A i \in 1 .. 1 : i = 1
    BY <1>4 DEF End
  <2>2. \A b : InQueue(b) <=> \E i \in 1 .. Len(chain) : chain[i] = b
    BY DEF InQueue, Contains
  <2> QED BY <1>4, <2>1, <2>2
<1>7. TypeOK
  <2>1. metaHead \in Counts \X Buckets /\ metaTail \in Counts \X Buckets
    BY <1>1, <1>3 DEF GetMetaAddr
  <2>2. allocCnt \in [Buckets -> 0 .. BucketSize] /\ freeCnt \in [Buckets -> 0 .. BucketSize]
    BY <1>1, <1>2
  <2>3. /\ metaCnt \in Counts /\ size \in Int
        /\ metaNext \in [Buckets -> Words] /\ malloced \subseteq Buckets
        /\ tls \in [Threads -> Buckets \cup {NULL}] /\ held \subseteq Objects
        /\ pc \in [Threads -> Labels] /\ own \in [Threads -> Buckets \cup {NULL}]
        /\ new \in [Threads -> Words] /\ tail \in [Threads -> Words]
        /\ head \in [Threads -> Words] /\ seen \in [Threads -> Words]
    BY <1>1, <1>3 DEF Labels
  <2> QED BY <1>4, <2>1, <2>2, <2>3 DEF TypeOK
<1>8. Spelled
  <2>1. GetRealAddr(Word(1)) = chain[1]
    BY <1>1, <1>4, <1>5 DEF GetRealAddr, GetMetaAddr
  <2>2. Word(2) = GetMetaAddr(ExtractMetaCnt(Word(1)), NULL)
    BY <1>1, <1>5 DEF ZeroWord, GetMetaAddr, ExtractMetaCnt
  <2>3. \A i \in 1 .. End : i = 1
    BY <1>4
  <2>4. End + 1 = 2 /\ End = 1
    BY <1>4
  <2> QED BY <2>1, <2>2, <2>3, <2>4 DEF Spelled
<1>9. TailNear
  BY <1>1, <1>4, <1>5 DEF TailNear
<1>10. PlaceOnce
  <2>1. \A i \in DOMAIN chain : i = 1 /\ chain[i] \in malloced
    BY <1>1, <1>4
  <2> QED BY <1>1, <2>1 DEF PlaceOnce
<1>11. CountsFit
  <2>1. ASSUME NEW b \in Buckets PROVE Fits(b)
    <3>1. Of(b) = {} /\ Cardinality(Of(b)) = 0
      BY <1>1, FS_EmptySet DEF Of
    <3>2. allocCnt[b] = 0 /\ freeCnt[b] = 0 /\ ~Local(b)
      BY <1>1, BucketAssumption DEF Local
    <3>3. b \in malloced => InQueue(b)
      BY <1>1, <1>6
    <3> QED BY <3>1, <3>2, <3>3 DEF Fits
  <2> QED BY <2>1 DEF CountsFit
<1>12. PerThread
  <2>1. ASSUME NEW t \in Threads
        PROVE  pc[t] = "idle" /\ tls[t] = NULL /\ own[t] = NULL /\ tail[t] = ZeroWord /\ head[t] = ZeroWord
    BY <1>1
  <2>2. ASSUME NEW t \in Threads PROVE InCall(t) /\ Owning(t) /\ Built(t) /\ Taken(t) /\ ZeroKept(t)
    BY <2>1 DEF InCall, Claimed, Owning, Built, Building, Taken, ZeroKept
  <2>3. ASSUME NEW t \in Threads PROVE Reading(t) /\ Fresh(t)
    BY <2>1 DEF Reading, HasTail, HasHead, HasNext, Fresh
  <2>4. ASSUME NEW t \in Threads PROVE Reached(t)
    <3>1. GetRealAddr(Word(End)) = dummy
      BY <1>1, <1>4, <1>5 DEF GetRealAddr, GetMetaAddr
    <3> QED BY <1>3, <2>1, <3>1 DEF Reached
  <2> QED BY <2>2, <2>3, <2>4 DEF PerThread
<1>13. NeverBack
  BY <1>1 DEF NeverBack, Building
<1>14. Reset
  BY <1>1 DEF Reset
<1>15. SizeExact /\ Given
  <2>1. {t \in Threads : pc[t] \in Accounted} = {} /\ {t \in Threads : pc[t] = "restore"} = {}
    BY <1>1 DEF Accounted
  <2>2. size = 0 /\ Len(chain) = 1
    BY <1>1, <1>4 DEF End
  <2> QED BY <2>1, <2>2, FS_EmptySet DEF SizeExact, Given
<1> QED BY <1>7, <1>8, <1>9, <1>10, <1>11, <1>12, <1>13, <1>14, <1>15 DEF PoolInv

LEMMA PoolInvNext ==
  ASSUME Recurs = FALSE, ZeroRecycled = FALSE, PoolInv, [Next]_vars
  PROVE  PoolInv'
<1>1. CASE UNCHANGED vars
  <2>1. /\ metaHead' = metaHead /\ metaTail' = metaTail /\ metaCnt' = metaCnt /\ size' = size
        /\ metaNext' = metaNext /\ allocCnt' = allocCnt /\ freeCnt' = freeCnt /\ malloced' = malloced
        /\ tls' = tls /\ held' = held /\ pc' = pc /\ own' = own
        /\ new' = new /\ tail' = tail /\ head' = head /\ seen' = seen /\ chain' = chain
    BY <1>1 DEF vars, pool, buckets, locals
  <2>2. TypeOK'
    BY <2>1 DEF PoolInv, TypeOK
  <2>3. Spelled'
    BY <2>1 DEF PoolInv, Spelled, Word, End
  <2>4. TailNear'
    BY <2>1 DEF PoolInv, TailNear, Advancing, Word, End
  <2>5. PlaceOnce'
    BY <2>1 DEF PoolInv, PlaceOnce, InQueue
  <2>6. CountsFit'
    BY <2>1 DEF PoolInv, CountsFit, Fits, Owned, Local, Of, InQueue
  <2>7. PerThread'
    <3>1. ASSUME NEW t \in Threads
          PROVE  InCall(t)' /\ Owning(t)' /\ Built(t)' /\ Reading(t)' /\ Taken(t)'
      BY <2>1 DEF PoolInv, PerThread, InCall, Owning, Built, Reading, Taken
    <3>2. ASSUME NEW t \in Threads PROVE Fresh(t)' /\ Reached(t)' /\ ZeroKept(t)'
      BY <2>1, SMTT(30) DEF PoolInv, PerThread, Fresh, Behind, Reached, ZeroKept, InQueue, Word, End
    <3> QED BY <3>1, <3>2 DEF PerThread
  <2>8. NeverBack' /\ Reset'
    BY <2>1 DEF PoolInv, NeverBack, Reset, InQueue
  <2>9. SizeExact' /\ Given'
    BY <2>1 DEF PoolInv, SizeExact, Given
  <2> QED BY <2>2, <2>3, <2>4, <2>5, <2>6, <2>7, <2>8, <2>9 DEF PoolInv
<1>2. ASSUME NEW t \in Threads, Step(t) PROVE PoolInv'
  <2>1. PerThread'
    BY <1>2, InCallKept, OwningKept, BuiltKept, ReadingKept, FreshKept, ReachedKept, ZeroKeptKept, TakenKept
    DEF PerThread
  <2> QED BY <1>2, <2>1, TypeKept, SpelledKept, TailNearKept, PlaceOnceKept, CountsFitKept, NeverBackKept,
             ResetKept, SizeExactKept, GivenKept DEF PoolInv
<1> QED BY <1>1, <1>2 DEF Next

LEMMA PoolInvAlways == ASSUME Recurs = FALSE, ZeroRecycled = FALSE PROVE Spec => []PoolInv
BY PoolInvInit, PoolInvNext, PTL DEF Spec

\* What the invariant says of the words is what WellFormed says of the buckets.
LEMMA InvLinked == ASSUME PoolInv PROVE Linked
<1>1. TypeOK /\ Spelled /\ PlaceOnce /\ TailNear
  BY DEF PoolInv
<1>2. End = Len(chain) /\ End \in Nat /\ End > 0 /\ 1 \in 1 .. End /\ End \in 1 .. End
  BY <1>1, Places DEF End
<1>3. /\ \A i \in 1 .. End : GetRealAddr(Word(i)) = chain[i]
      /\ \A i \in 1 .. End : Word(i + 1) = metaNext[chain[i]]
      /\ Word(1) = metaHead /\ GetRealAddr(Word(End + 1)) = NULL
  BY <1>1, Places, WordsApart DEF Spelled
<1>4. \A i \in 1 .. End - 1 : i \in 1 .. End /\ i + 1 \in 1 .. End
  BY <1>2
<1>5. GetRealAddr(metaTail) \in {chain[End], IF End > 1 THEN chain[End - 1] ELSE chain[End]}
  <2>1. CASE metaTail = Word(End)
    BY <1>2, <1>3, <2>1
  <2>2. CASE End > 1 /\ metaTail = Word(End - 1)
    <3>1. End - 1 \in 1 .. End
      BY <1>2, <2>2
    <3> QED BY <1>3, <2>2, <3>1
  <2> QED BY <1>1, <2>1, <2>2 DEF TailNear
<1>6. \A i \in 1 .. End - 1 : GetRealAddr(metaNext[chain[i]]) = chain[i + 1]
  BY <1>3, <1>4
<1>7. GetRealAddr(metaHead) = chain[1] /\ GetRealAddr(metaNext[chain[End]]) = NULL
  BY <1>2, <1>3
<1> QED BY <1>2, <1>5, <1>6, <1>7 DEF Linked

-----------------------------------------------------------------------------
(* The theorems *)

\* The pool's queue is one at every step (CTlsObjectPool.h:231-238, 315-337), for any number
\* of threads and buckets, as long as no count comes again under a call that waits for it
\* and no bucket is reset under a Free that holds its word 0.
THEOREM PoolWhole == ASSUME Recurs = FALSE, ZeroRecycled = FALSE PROVE Spec => []WellFormed
<1>1. PoolInv => WellFormed
  BY InvLinked DEF PoolInv, WellFormed
<1> QED BY <1>1, PoolInvAlways, PTL

\* No object is handed out twice, and none is with the program and in the pool at once
\* (RETURN_NODE_TO_BUCKET_AND_CHECK_BUCKET_HAVETO_FREE and AllocNode, CTlsObjectPool.h:43-69):
\* as many objects of a bucket are out as its counters tell, and none of one in the queue.
THEOREM ObjectsOnce == ASSUME Recurs = FALSE, ZeroRecycled = FALSE PROVE Spec => []BucketExact
<1>1. ASSUME PoolInv PROVE BucketExact
  <2>1. TypeOK /\ CountsFit
    BY <1>1 DEF PoolInv
  <2>2. ASSUME NEW b \in Buckets
        PROVE  IF InQueue(b) \/ \E t \in Threads : own[t] = b
               THEN Of(b) = {}
               ELSE Cardinality(Of(b)) = allocCnt[b] - freeCnt[b]
    <3>1. /\ Cardinality(Of(b)) = allocCnt[b] - freeCnt[b]
          /\ InQueue(b) \/ Owned(b) => allocCnt[b] = freeCnt[b]
          /\ IsFiniteSet(Of(b)) /\ allocCnt[b] \in 0 .. BucketSize /\ freeCnt[b] \in 0 .. BucketSize
      BY <2>1, OfFinite DEF CountsFit, Fits, TypeOK
    <3>2. CASE InQueue(b) \/ Owned(b)
      <4>1. BucketSize \in Nat
        BY SizeAssumption
      <4>2. Cardinality(Of(b)) = 0
        BY <3>1, <3>2, <4>1
      <4> QED BY <3>1, <3>2, <4>2, FS_EmptySet DEF Owned
    <3>3. CASE ~(InQueue(b) \/ Owned(b))
      BY <3>1, <3>3 DEF Owned
    <3> QED BY <3>2, <3>3
  <2> QED BY <2>2 DEF BucketExact
<1> QED BY <1>1, PoolInvAlways, PTL

\* No bucket is lost and none is in two places (the hand-overs at CTlsObjectPool.h:229-239
\* and 297-337): in the queue, a thread's own, in a thread's hands, or out with objects.
THEOREM BucketsKept == ASSUME Recurs = FALSE, ZeroRecycled = FALSE PROVE Spec => []NoneLost
<1>1. ASSUME PoolInv PROVE NoneLost
  <2>1. TypeOK /\ PlaceOnce /\ CountsFit /\ malloced \subseteq Buckets
    BY <1>1, Typed DEF PoolInv
  <2>2. BucketSize \in Nat /\ BucketSize > 0
    BY SizeAssumption
  <2>3. SUFFICES ASSUME NEW b \in malloced
        PROVE  Cardinality({i \in DOMAIN chain : chain[i] = b})
               + Cardinality({t \in Threads : tls[t] = b})
               + Cardinality({t \in Threads : own[t] = b})
               = IF (allocCnt[b] = BucketSize /\ freeCnt[b] < BucketSize) /\ ~InQueue(b) THEN 0 ELSE 1
    BY DEF NoneLost
  <2> DEFINE A == {i \in DOMAIN chain : chain[i] = b}
             B == {t \in Threads : tls[t] = b}
             C == {t \in Threads : own[t] = b}
  <2>4. b \in Buckets /\ b # NULL /\ Fits(b)
    BY <2>1, BucketAssumption DEF CountsFit
  <2>5. \A S : (S = {} => Cardinality(S) = 0) /\ \A x : S = {x} => Cardinality(S) = 1
    BY FS_EmptySet, FS_Singleton
  <2>6. CASE InQueue(b)
    <3>1. PICK i \in DOMAIN chain : chain[i] = b
      BY <2>1, <2>6, Places
    <3>2. A = {i} /\ B = {} /\ C = {}
      BY <2>1, <2>4, <2>6, <3>1 DEF PlaceOnce
    <3>3. Cardinality(A) = 1 /\ Cardinality(B) = 0 /\ Cardinality(C) = 0
      BY <2>5, <3>2
    <3> HIDE DEF A, B, C
    <3>4. Cardinality(A) + Cardinality(B) + Cardinality(C) = 1
      BY <3>3
    <3> QED BY <2>6, <3>4 DEF A, B, C
  <2>7. CASE ~InQueue(b)
    <3>1. A = {}
      BY <2>1, <2>7, Places
    <3>2. CASE Owned(b)
      <4>1. PICK t \in Threads : own[t] = b
        BY <3>2 DEF Owned
      <4>2. B = {} /\ C = {t}
        BY <2>1, <2>4, <4>1 DEF PlaceOnce
      <4>3. Cardinality(A) = 0 /\ Cardinality(B) = 0 /\ Cardinality(C) = 1
        BY <2>5, <3>1, <4>2
      <4>4. ~(allocCnt[b] = BucketSize /\ freeCnt[b] < BucketSize)
        BY <2>2, <2>4, <3>2 DEF Fits
      <4> HIDE DEF A, B, C
      <4>5. Cardinality(A) + Cardinality(B) + Cardinality(C) = 1
        BY <4>3
      <4> QED BY <4>4, <4>5 DEF A, B, C
    <3>3. CASE Local(b)
      <4>1. PICK t \in Threads : tls[t] = b
        BY <3>3 DEF Local
      <4>2. B = {t} /\ C = {}
        BY <2>1, <2>4, <4>1 DEF PlaceOnce
      <4>3. Cardinality(A) = 0 /\ Cardinality(B) = 1 /\ Cardinality(C) = 0
        BY <2>5, <3>1, <4>2
      <4>4. ~(allocCnt[b] = BucketSize /\ freeCnt[b] < BucketSize)
        BY <2>2, <2>4, <3>3 DEF Fits
      <4> HIDE DEF A, B, C
      <4>5. Cardinality(A) + Cardinality(B) + Cardinality(C) = 1
        BY <4>3
      <4> QED BY <4>4, <4>5 DEF A, B, C
    <3>4. CASE ~Owned(b) /\ ~Local(b)
      <4>1. B = {} /\ C = {}
        BY <3>4 DEF Owned, Local
      <4>2. Cardinality(A) = 0 /\ Cardinality(B) = 0 /\ Cardinality(C) = 0
        BY <2>5, <3>1, <4>1
      <4>3. allocCnt[b] = BucketSize /\ freeCnt[b] < BucketSize
        BY <2>4, <2>7, <3>4 DEF Fits
      <4> HIDE DEF A, B, C
      <4>4. Cardinality(A) + Cardinality(B) + Cardinality(C) = 0
        BY <4>2
      <4> QED BY <2>7, <4>3, <4>4 DEF A, B, C
    <3> QED BY <3>2, <3>3, <3>4
  <2> QED BY <2>6, <2>7
<1> QED BY <1>1, PoolInvAlways, PTL

\* size_ is exact, so that an AllocBucket that got past its check finds a bucket
\* (CTlsObjectPool.h:206-241).
THEOREM SizeCounts == ASSUME Recurs = FALSE, ZeroRecycled = FALSE PROVE Spec => []SizeExact
<1>1. PoolInv => SizeExact
  BY DEF PoolInv
<1> QED BY <1>1, PoolInvAlways, PTL

\* What the comment at CTlsObjectPool.h:324-331 says holds as long as no bucket is reset
\* under a Free that holds its word 0 (and no count comes again): no bucket is linked
\* behind one that is allocated.
THEOREM NothingIsLinkedToAllocated ==
  ASSUME Recurs = FALSE, ZeroRecycled = FALSE
  PROVE  Spec => []NothingBehindAllocated
<1>1. ASSUME PoolInv PROVE NothingBehindAllocated
  <2>1. SUFFICES ASSUME NEW t \in Threads, tls[t] # NULL PROVE GetRealAddr(metaNext[tls[t]]) = NULL
    BY DEF NothingBehindAllocated
  <2>2. PlaceOnce /\ Reset /\ tls[t] \in Buckets
    BY <1>1, <2>1, Typed DEF PoolInv
  <2>3. ~InQueue(tls[t]) /\ \A u \in Threads : own[u] # tls[t]
    BY <2>1, <2>2 DEF PlaceOnce
  <2> QED BY <2>2, <2>3, ZeroIsWord DEF Reset
<1> QED BY <1>1, PoolInvAlways, PTL
=============================================================================
