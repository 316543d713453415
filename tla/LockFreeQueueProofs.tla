------------------------ MODULE LockFreeQueueProofs ------------------------
(***************************************************************************)
(* Proofs about LockFreeQueue, for any threads, queues, nodes and number   *)
(* of counts: while no count comes again under a call that waits for it    *)
(* (Recurs = FALSE), the queues stay whole and apart, num_ is exact, and   *)
(* every call is atomic.                                                   *)
(***************************************************************************)
EXTENDS LockFreeQueue, FiniteSetTheorems, TLAPS

-----------------------------------------------------------------------------
(* Words and sequences *)

\* A word is its count and its address.
LEMMA SameWord ==
  ASSUME NEW w \in Words, NEW v \in Words,
         ExtractMetaCnt(w) = ExtractMetaCnt(v), GetRealAddr(w) = GetRealAddr(v)
  PROVE  w = v
BY DEF Words, ExtractMetaCnt, GetRealAddr

\* The parts of a word
LEMMA WordParts ==
  ASSUME NEW c \in Counts, NEW a \in Nodes \cup {NULL}
  PROVE  /\ GetMetaAddr(c, a) \in Words
         /\ ExtractMetaCnt(GetMetaAddr(c, a)) = c /\ GetRealAddr(GetMetaAddr(c, a)) = a
BY DEF Words, ExtractMetaCnt, GetRealAddr, GetMetaAddr

\* A word that leads to a node
LEMMA NodeWord ==
  ASSUME NEW w \in Words
  PROVE  /\ ExtractMetaCnt(w) \in Counts /\ GetRealAddr(w) \in Nodes \cup {NULL}
         /\ w \in Counts \X Nodes <=> GetRealAddr(w) \in Nodes
BY NodeAssumption DEF Words, ExtractMetaCnt, GetRealAddr

\* The word 0 leads nowhere.
LEMMA ZeroIsWord == ZeroWord \in Words /\ GetRealAddr(ZeroWord) = NULL
BY CounterAssumption DEF ZeroWord, Words, Counts, GetMetaAddr, GetRealAddr

\* GetCnt stays among the counts.
LEMMA CountsStay == 0 \in Counts /\ \A c \in Counts : AfterGetCnt(c) \in Counts
BY CounterAssumption DEF Counts, AfterGetCnt

\* A node put at the end
LEMMA PutLast ==
  ASSUME NEW S, NEW s \in Seq(S), NEW x \in S
  PROVE  LET r == Append(s, x)
         IN /\ r \in Seq(S) /\ r # <<>> /\ Len(r) = Len(s) + 1 /\ r[Len(s) + 1] = x
            /\ \A i \in 1 .. Len(s) : r[i] = s[i]
OBVIOUS

\* The front taken off
LEMMA TakeFront ==
  ASSUME NEW S, NEW s \in Seq(S), s # <<>>
  PROVE  LET r == SubSeq(s, 2, Len(s))
         IN /\ r \in Seq(S) /\ Len(r) = Len(s) - 1
            /\ \A i \in 1 .. Len(s) - 1 : r[i] = s[i + 1]
BY SMTT(60)

\* Sequences that agree everywhere
LEMMA SameSequence ==
  ASSUME NEW S, NEW s \in Seq(S), NEW r \in Seq(S), Len(s) = Len(r),
         \A i \in 1 .. Len(s) : s[i] = r[i]
  PROVE  s = r
OBVIOUS

-----------------------------------------------------------------------------
(* The invariant *)

\* The word that leads to the i-th node of queue q
Word(q, i) == IF i = 1 THEN metaHead[q] ELSE next[chain[q][i - 1]].metaAddr
Last(q) == Len(chain[q])

\* The words spell the queues; the last one is the null address under the last node's
\* count; and every node in a queue but the dummy holds the value linked with it.
Spelled ==
    \A q \in Queues :
        /\ \A i \in 1 .. Last(q) :
              /\ GetRealAddr(Word(q, i)) = chain[q][i]
              /\ next[chain[q][i]].identifier = q
              /\ i > 1 => data[chain[q][i]] = Word(q, i)
        /\ Word(q, Last(q) + 1) = GetMetaAddr(ExtractMetaCnt(Word(q, Last(q))), NULL)

\* metaTail_ lags behind the last node only while its Enqueue has yet to move it.
Advancing(t, q) ==
    pc[t] = "enqAdvance" /\ queue[t] = q /\ tail[t] = Word(q, Last(q) - 1)
TailNear ==
    \A q \in Queues :
        \/ metaTail[q] = Word(q, Last(q))
        \/ /\ Last(q) > 1 /\ metaTail[q] = Word(q, Last(q) - 1)
           /\ \E t \in Threads : Advancing(t, q)

\* Where a call has read nothing yet, or no longer needs what it has read
Calling == {"idle", "enqAlloc", "enqNode", "enqTail", "enqCount", "deqRestore", "deqTail", "deqFree"}
\* A thread is in a call on a queue, or has read nothing.
InCall(t) ==
    /\ pc[t] # "idle" => queue[t] \in Queues
    /\ pc[t] \in Calling => tail[t] = ZeroWord /\ head[t] = ZeroWord

\* Who owns a node
Building == {"enqNode", "enqTail", "enqNext", "enqAddr", "enqIdentifier", "enqSwing", "enqLink"}
Owning(t) == node[t] # NULL <=> pc[t] \in Building \cup {"deqFree"}

\* What an Enqueue has built
Built(t) ==
    pc[t] \in Building =>
        /\ GetRealAddr(new[t]) = node[t]
        /\ data[node[t]] = new[t] /\ next[node[t]].identifier = queue[t]
        /\ pc[t] # "enqNode" => next[node[t]].metaAddr = GetMetaAddr(ExtractMetaCnt(new[t]), NULL)

\* What a call has read leads to nodes.
HasTail == {"enqNext", "enqAddr", "enqIdentifier", "enqSwing", "enqLink", "enqAdvance"}
HasHead == {"deqNext", "deqSwing", "deqData", "deqCas"}
HasNext == {"enqSwing", "deqSwing", "deqData", "deqCas"}
Reading(t) ==
    /\ pc[t] \in HasTail => GetRealAddr(tail[t]) \in Nodes
    /\ pc[t] \in HasHead => GetRealAddr(head[t]) \in Nodes
    /\ pc[t] \in HasNext => GetRealAddr(seen[t].metaAddr) \in Nodes
    /\ pc[t] = "deqSwing" => tail[t] = head[t]
    /\ pc[t] = "enqLink" =>
          seen[t] = QNodePtr(queue[t], GetMetaAddr(ExtractMetaCnt(tail[t]), NULL))
    /\ pc[t] = "enqAdvance" => GetRealAddr(new[t]) \in Nodes

\* No Enqueue is about to put a word into the queue that another call on it waits for.
NeverBack ==
    \A t, u \in Threads :
        pc[u] \in Building /\ queue[u] = queue[t] => new[u] # tail[t] /\ new[u] # head[t]

\* Wherever in the queue the word is, the one behind it is this.
Behind(q, word, ahead) ==
    \A i \in 1 .. Last(q) : word = Word(q, i) => i < Last(q) /\ ahead = Word(q, i + 1)
Fresh(t) ==
    /\ pc[t] = "enqIdentifier" /\ GetRealAddr(seen[t].metaAddr) # NULL =>
          Behind(queue[t], tail[t], seen[t].metaAddr)
    /\ pc[t] = "enqSwing" => Behind(queue[t], tail[t], seen[t].metaAddr)
    /\ pc[t] = "enqAdvance" => Behind(queue[t], tail[t], new[t])
    /\ pc[t] \in {"deqSwing", "deqData", "deqCas"} => Behind(queue[t], head[t], seen[t].metaAddr)
    /\ pc[t] = "deqCas" => Behind(queue[t], head[t], value[t])

\* Who has the last word of a queue had it from metaTail_, which is still there.
Reached(t) ==
    \A q \in Queues : queue[t] = q /\ tail[t] = Word(q, Last(q)) => metaTail[q] = tail[t]

\* A node that is not in a queue, nor about to be, is linked to another, or nobody has
\* read it as a tail.
Spent ==
    \A n \in Nodes :
        \/ InQueue(n)
        \/ \E t \in Threads : node[t] = n /\ pc[t] \in Building \ {"enqNode"}
        \/ GetRealAddr(next[n].metaAddr) # NULL
        \/ \A t \in Threads : GetRealAddr(tail[t]) # n

\* num_ is below zero only as far as calls have yet to give back what they took.
Given == \A q \in Queues : num[q] + Cardinality(On(q, {"deqRestore"})) >= 0

PerThread == \A t \in Threads :
   InCall(t) /\ Owning(t) /\ Built(t) /\ Reading(t) /\ Fresh(t) /\ Reached(t)

QueueInv == TypeOK /\ Spelled /\ TailNear /\ NodeOnce /\ PerThread /\ NeverBack /\ Spent /\ NumExact /\ Given

-----------------------------------------------------------------------------
(* What a step does to the words *)

\* The types the lemmas below use
LEMMA Typed ==
  ASSUME TypeOK
  PROVE  /\ metaHead \in [Queues -> Counts \X Nodes] /\ metaTail \in [Queues -> Counts \X Nodes]
         /\ next \in [Nodes -> [identifier : Queues \cup {NULL}, metaAddr : Words]]
         /\ data \in [Nodes -> Words \cup {Nothing}] /\ free \subseteq Nodes
         /\ pc \in [Threads -> Labels] /\ queue \in [Threads -> Queues \cup {NULL}]
         /\ node \in [Threads -> Nodes \cup {NULL}] /\ new \in [Threads -> Words]
         /\ tail \in [Threads -> Words] /\ head \in [Threads -> Words]
         /\ seen \in [Threads -> [identifier : Queues \cup {NULL}, metaAddr : Words]]
         /\ value \in [Threads -> Words \cup {Nothing}]
         /\ chain \in [Queues -> Seq(Nodes)]
BY DEF TypeOK

\* Places of a queue
LEMMA Places ==
  ASSUME TypeOK, NEW q \in Queues
  PROVE  /\ chain[q] \in Seq(Nodes) /\ Last(q) \in Nat /\ Last(q) > 0
         /\ DOMAIN chain[q] = 1 .. Last(q)
         /\ \A i \in 1 .. Last(q) : chain[q][i] \in Nodes
         /\ \A i \in 1 .. Last(q) + 1 : Word(q, i) \in Words
         /\ Word(q, 1) = metaHead[q]
         /\ \A i \in 1 .. Last(q) : Word(q, i + 1) = next[chain[q][i]].metaAddr
<1>1. chain[q] \in Seq(Nodes) /\ chain[q] # <<>>
  BY DEF TypeOK
<1>2. /\ Last(q) \in Nat /\ Last(q) > 0
      /\ DOMAIN chain[q] = 1 .. Last(q)
      /\ \A i \in 1 .. Last(q) : chain[q][i] \in Nodes
  BY <1>1 DEF Last
<1>3. /\ next \in [Nodes -> [identifier : Queues \cup {NULL}, metaAddr : Words]]
      /\ metaHead[q] \in Words
  BY DEF TypeOK, Words
<1>4. \A i \in 1 .. Last(q) : Word(q, i + 1) = next[chain[q][i]].metaAddr
  <2> SUFFICES ASSUME NEW i \in 1 .. Last(q) PROVE Word(q, i + 1) = next[chain[q][i]].metaAddr
    OBVIOUS
  <2>1. i + 1 # 1 /\ (i + 1) - 1 = i
    BY <1>2
  <2> QED BY <2>1 DEF Word
<1>5. Word(q, 1) = metaHead[q]
  BY DEF Word
<1>6. ASSUME NEW i \in 1 .. Last(q) + 1 PROVE Word(q, i) \in Words
  <2>1. CASE i = 1
    BY <2>1, <1>3, <1>5
  <2>2. CASE i # 1
    <3>1. i - 1 \in 1 .. Last(q) /\ (i - 1) + 1 = i
      BY <1>2, <2>2
    <3>2. Word(q, i) = next[chain[q][i - 1]].metaAddr
      BY <1>4, <3>1
    <3> QED BY <1>2, <1>3, <3>1, <3>2
  <2> QED BY <2>1, <2>2
<1> QED BY <1>1, <1>2, <1>4, <1>5, <1>6

\* The words of a queue differ, and lead to nodes except the last.
LEMMA WordsApart ==
  ASSUME TypeOK, Spelled, NodeOnce, NEW q \in Queues
  PROVE  /\ \A i \in 1 .. Last(q) : GetRealAddr(Word(q, i)) = chain[q][i] /\ chain[q][i] \in Nodes
         /\ \A i, j \in 1 .. Last(q) : Word(q, i) = Word(q, j) => i = j
         /\ GetRealAddr(Word(q, Last(q) + 1)) = NULL
         /\ \A i \in 1 .. Last(q) : GetRealAddr(Word(q, i + 1)) # NULL <=> i < Last(q)
<1>1. /\ \A i \in 1 .. Last(q) : GetRealAddr(Word(q, i)) = chain[q][i] /\ chain[q][i] \in Nodes
      /\ Last(q) \in Nat /\ DOMAIN chain[q] = 1 .. Last(q)
  BY Places DEF Spelled
<1>2. \A i, j \in 1 .. Last(q) : Word(q, i) = Word(q, j) => i = j
  BY <1>1 DEF NodeOnce
<1>3. GetRealAddr(Word(q, Last(q) + 1)) = NULL
  BY DEF Spelled, GetMetaAddr, GetRealAddr
<1>4. ASSUME NEW i \in 1 .. Last(q) PROVE GetRealAddr(Word(q, i + 1)) # NULL <=> i < Last(q)
  <2>1. CASE i = Last(q)
    BY <1>1, <1>3, <2>1
  <2>2. CASE i # Last(q)
    <3>1. i + 1 \in 1 .. Last(q) /\ i < Last(q)
      BY <1>1, <2>2
    <3> QED BY <1>1, <3>1, NodeAssumption
  <2> QED BY <2>1, <2>2
<1> QED BY <1>1, <1>2, <1>3, <1>4

\* The compare-exchange of Enqueue, and that of Dequeue, that succeed
Links(t) == EnqLink(t) /\ TailNext(t) = seen[t]
Takes(t) == DeqCas(t) /\ metaHead[queue[t]] = head[t]

\* A compare-exchange that succeeds links to the last node of its own queue, whatever
\* became of the node since it was read (CLockFreeQueue.h:82-91).
LEMMA LinksLast ==
  ASSUME QueueInv, NEW t \in Threads, Links(t)
  PROVE  /\ queue[t] \in Queues /\ node[t] \in Nodes /\ ~InQueue(node[t])
         /\ GetRealAddr(new[t]) = node[t]
         /\ tail[t] = Word(queue[t], Last(queue[t]))
         /\ GetRealAddr(tail[t]) = chain[queue[t]][Last(queue[t])]
         /\ metaTail[queue[t]] = tail[t]
<1> DEFINE q == queue[t]
           a == GetRealAddr(tail[t])
<1>1. /\ TypeOK /\ Spelled /\ NodeOnce /\ NeverBack /\ Spent
      /\ InCall(t) /\ Owning(t) /\ Built(t) /\ Reading(t) /\ Reached(t)
  BY DEF QueueInv, PerThread
<1>2. pc[t] = "enqLink" /\ next[a] = seen[t]
  BY DEF Links, EnqLink, At, TailNext
<1>3. /\ q \in Queues /\ node[t] \in Nodes /\ ~InQueue(node[t])
      /\ GetRealAddr(new[t]) = node[t]
  BY <1>1, <1>2, Typed DEF InCall, Owning, Built, Building, NodeOnce
<1>4. a \in Nodes /\ next[a] = QNodePtr(q, GetMetaAddr(ExtractMetaCnt(tail[t]), NULL))
  BY <1>1, <1>2 DEF Reading, HasTail
<1>5. /\ next[a].identifier = q /\ GetRealAddr(next[a].metaAddr) = NULL
      /\ ExtractMetaCnt(next[a].metaAddr) = ExtractMetaCnt(tail[t])
      /\ tail[t] \in Words
  BY <1>1, <1>4, Typed DEF QNodePtr, GetMetaAddr, GetRealAddr, ExtractMetaCnt
<1>6. ASSUME NEW u \in Threads, node[u] = a, pc[u] \in Building \ {"enqNode"} PROVE FALSE
  <2>1. /\ GetRealAddr(new[u]) = a /\ next[a].identifier = queue[u]
        /\ next[a].metaAddr = GetMetaAddr(ExtractMetaCnt(new[u]), NULL)
    BY <1>6 DEF QueueInv, PerThread, Built
  <2>2. new[u] \in Words /\ ExtractMetaCnt(new[u]) = ExtractMetaCnt(tail[t])
    BY <1>1, <1>5, <2>1, Typed DEF GetMetaAddr, ExtractMetaCnt
  <2>3. new[u] = tail[t]
    BY <1>5, <2>1, <2>2, SameWord
  <2> QED BY <1>1, <1>5, <1>6, <2>1, <2>3 DEF NeverBack
<1>7. InQueue(a)
  BY <1>1, <1>4, <1>5, <1>6 DEF Spent
<1>8. PICK r \in Queues : \E i \in DOMAIN chain[r] : chain[r][i] = a
  BY <1>7 DEF InQueue
<1>9. PICK i \in 1 .. Last(r) : chain[r][i] = a
  BY <1>1, <1>8, Places
<1>10. r = q
  BY <1>1, <1>5, <1>9 DEF Spelled
<1>11. i = Last(q)
  <2>1. GetRealAddr(Word(q, i + 1)) = NULL /\ i \in 1 .. Last(q)
    BY <1>1, <1>5, <1>9, <1>10, Places
  <2>2. Last(q) \in Nat
    BY <1>1, <1>3, Places
  <2> QED BY <1>1, <1>3, <2>1, <2>2, WordsApart
<1>12. tail[t] = Word(q, Last(q))
  <2>1. Last(q) \in 1 .. Last(q) /\ Last(q) \in 1 .. Last(q) + 1
    BY <1>1, <1>3, Places
  <2>2. Word(q, Last(q)) \in Words /\ GetRealAddr(Word(q, Last(q))) = a
    BY <1>1, <1>3, <1>9, <1>10, <1>11, <2>1, Places, WordsApart
  <2>3. next[a].metaAddr = GetMetaAddr(ExtractMetaCnt(Word(q, Last(q))), NULL)
    BY <1>1, <1>3, <1>9, <1>10, <1>11, <2>1, Places DEF Spelled
  <2>4. ExtractMetaCnt(tail[t]) = ExtractMetaCnt(Word(q, Last(q)))
    BY <1>5, <2>3 DEF ExtractMetaCnt, GetMetaAddr
  <2> QED BY <1>5, <2>2, <2>4, SameWord
<1>13. metaTail[q] = tail[t]
  BY <1>1, <1>3, <1>12 DEF Reached
<1>14. a = chain[q][Last(q)]
  BY <1>9, <1>10, <1>11
<1> QED BY <1>3, <1>12, <1>13, <1>14

\* The word that leads to the i-th node after the step
WordAfter(q, i) == IF i = 1 THEN metaHead'[q] ELSE next'[chain'[q][i - 1]].metaAddr

\* A queue stays as it is.
Stays(q) ==
    /\ chain'[q] = chain[q]
    /\ \A i \in 1 .. Last(q) + 1 : WordAfter(q, i) = Word(q, i)
    /\ \A i \in 1 .. Last(q) : next'[chain[q][i]].identifier = next[chain[q][i]].identifier
                               /\ data'[chain[q][i]] = data[chain[q][i]]

\* A queue gets node n under the word w.
Grows(q, w, n) ==
    /\ chain'[q] = Append(chain[q], n)
    /\ \A i \in 1 .. Last(q) : WordAfter(q, i) = Word(q, i)
    /\ WordAfter(q, Last(q) + 1) = w
    /\ WordAfter(q, Last(q) + 2) = GetMetaAddr(ExtractMetaCnt(w), NULL)
    /\ GetRealAddr(w) = n /\ data'[n] = w /\ next'[n].identifier = q
    /\ \A i \in 1 .. Last(q) : next'[chain[q][i]].identifier = q
                               /\ data'[chain[q][i]] = data[chain[q][i]]

\* A queue loses its first node.
Shrinks(q) ==
    /\ Last(q) > 1
    /\ chain'[q] = SubSeq(chain[q], 2, Last(q))
    /\ \A i \in 1 .. Last(q) : WordAfter(q, i) = Word(q, i + 1)
    /\ next' = next /\ data' = data

\* Where the nodes of a queue are, a step that leaves them and its head alone changes
\* nothing.
LEMMA StaysIf ==
  ASSUME TypeOK, NEW q \in Queues, chain'[q] = chain[q], metaHead'[q] = metaHead[q],
         \A n \in Nodes : InQueue(n) => next'[n] = next[n] /\ data'[n] = data[n]
  PROVE  Stays(q)
<1>1. \A i \in 1 .. Last(q) : chain[q][i] \in Nodes /\ InQueue(chain[q][i])
  BY Places DEF InQueue
<1>2. ASSUME NEW i \in 1 .. Last(q) + 1 PROVE WordAfter(q, i) = Word(q, i)
  <2>1. CASE i = 1
    BY <2>1 DEF Word, WordAfter
  <2>2. CASE i # 1
    <3>1. i - 1 \in 1 .. Last(q)
      BY <2>2, Places
    <3> QED BY <1>1, <2>2, <3>1 DEF Word, WordAfter
  <2> QED BY <2>1, <2>2
<1> QED BY <1>1, <1>2 DEF Stays

\* What the compare-exchange of Enqueue does to its queue and to the others
LEMMA LinksWords ==
  ASSUME QueueInv, NEW t \in Threads, Links(t), NEW q \in Queues, queue[t] = q
  PROVE  /\ Grows(q, new[t], node[t])
         /\ \A r \in Queues \ {q} : Stays(r)
<1> DEFINE n == Last(q)
<1>1. /\ TypeOK /\ Spelled /\ NodeOnce /\ Built(t)
  BY DEF QueueInv, PerThread
<1>2. /\ q \in Queues /\ node[t] \in Nodes /\ ~InQueue(node[t])
      /\ GetRealAddr(new[t]) = node[t] /\ GetRealAddr(tail[t]) = chain[q][n]
  BY LinksLast
<1>3. /\ data[node[t]] = new[t] /\ next[node[t]].identifier = q
      /\ next[node[t]].metaAddr = GetMetaAddr(ExtractMetaCnt(new[t]), NULL)
  BY <1>1 DEF Built, Building, Links, EnqLink, At
<1>4. /\ next' = [next EXCEPT ![chain[q][n]] = QNodePtr(q, new[t])]
      /\ chain' = [chain EXCEPT ![q] = Append(@, node[t])]
      /\ data' = data /\ metaHead' = metaHead
  BY <1>2 DEF Links, EnqLink
<1>5. /\ chain[q] \in Seq(Nodes) /\ n \in Nat /\ n > 0 /\ DOMAIN chain[q] = 1 .. n
      /\ \A i \in 1 .. n : chain[q][i] \in Nodes /\ InQueue(chain[q][i])
      /\ n \in 1 .. n
  BY <1>1, <1>2, Places DEF InQueue
<1>6. /\ chain'[q] = Append(chain[q], node[t])
      /\ chain'[q][n + 1] = node[t] /\ \A i \in 1 .. n : chain'[q][i] = chain[q][i]
  <2>1. chain'[q] = Append(chain[q], node[t])
    BY <1>1, <1>2, <1>4, Typed
  <2> QED BY <1>2, <1>5, <2>1, PutLast DEF Last
<1>7. \A i, j \in 1 .. n : chain[q][i] = chain[q][j] => i = j
  BY <1>1, <1>2, <1>5 DEF NodeOnce
<1>8. next \in [Nodes -> [identifier : Queues \cup {NULL}, metaAddr : Words]]
  BY <1>1, Typed
<1>9. ASSUME NEW i \in 1 .. n PROVE WordAfter(q, i) = Word(q, i)
  <2>1. CASE i = 1
    BY <1>4, <2>1 DEF Word, WordAfter
  <2>2. CASE i # 1
    <3>1. i - 1 \in 1 .. n /\ i - 1 # n
      BY <1>5, <2>2
    <3>2. chain'[q][i - 1] = chain[q][i - 1] /\ chain[q][i - 1] # chain[q][n]
      BY <1>5, <1>6, <1>7, <3>1
    <3> QED BY <1>4, <1>5, <1>8, <2>2, <3>1, <3>2 DEF Word, WordAfter
  <2> QED BY <2>1, <2>2
<1>10. WordAfter(q, n + 1) = new[t]
  <2>1. n + 1 # 1 /\ (n + 1) - 1 = n
    BY <1>5
  <2>2. WordAfter(q, n + 1) = next'[chain[q][n]].metaAddr
    BY <1>5, <1>6, <2>1 DEF Word, WordAfter
  <2> QED BY <1>4, <1>5, <1>8, <2>2 DEF QNodePtr
<1>11. WordAfter(q, n + 2) = GetMetaAddr(ExtractMetaCnt(new[t]), NULL)
  <2>1. n + 2 # 1 /\ (n + 2) - 1 = n + 1
    BY <1>5
  <2>2. WordAfter(q, n + 2) = next'[node[t]].metaAddr
    BY <1>6, <2>1 DEF Word, WordAfter
  <2>3. node[t] # chain[q][n]
    BY <1>2, <1>5
  <2> QED BY <1>2, <1>3, <1>4, <1>8, <2>2, <2>3
<1>12. /\ data'[node[t]] = new[t] /\ next'[node[t]].identifier = q
  <2>1. node[t] # chain[q][n]
    BY <1>2, <1>5
  <2> QED BY <1>2, <1>3, <1>4, <1>8, <2>1
<1>13. ASSUME NEW i \in 1 .. n
       PROVE  /\ next'[chain[q][i]].identifier = q /\ data'[chain[q][i]] = data[chain[q][i]]
  BY <1>1, <1>2, <1>4, <1>5, <1>8, <1>13 DEF Spelled, QNodePtr
<1>14. Grows(q, new[t], node[t])
  <2>1. /\ chain'[q] = Append(chain[q], node[t])
        /\ \A i \in 1 .. Last(q) : WordAfter(q, i) = Word(q, i)
    BY <1>6, <1>9
  <2>2. /\ WordAfter(q, Last(q) + 1) = new[t]
        /\ WordAfter(q, Last(q) + 2) = GetMetaAddr(ExtractMetaCnt(new[t]), NULL)
    BY <1>10, <1>11
  <2>3. \A i \in 1 .. Last(q) : next'[chain[q][i]].identifier = q
                               /\ data'[chain[q][i]] = data[chain[q][i]]
    BY <1>13
  <2> QED BY ONLY <1>2, <1>12, <2>1, <2>2, <2>3 DEF Grows
<1>15. ASSUME NEW r \in Queues \ {q} PROVE Stays(r)
  <2>1. /\ chain'[r] = chain[r] /\ metaHead'[r] = metaHead[r]
    BY <1>1, <1>2, <1>4, <1>15, Typed
  <2>2. /\ DOMAIN chain[r] = 1 .. Last(r) /\ Last(r) \in Nat
        /\ \A i \in 1 .. Last(r) : chain[r][i] \in Nodes
    BY <1>1, Places
  <2>3. \A i \in 1 .. Last(r) : chain[r][i] # chain[q][n]
    BY <1>1, <1>2, <1>5, <1>15, <2>2 DEF NodeOnce
  <2>4. \A i \in 1 .. Last(r) : next'[chain[r][i]] = next[chain[r][i]]
    BY <1>4, <1>5, <1>8, <2>2, <2>3
  <2>5. ASSUME NEW i \in 1 .. Last(r) + 1 PROVE WordAfter(r, i) = Word(r, i)
    <3>1. CASE i = 1
      BY <2>1, <3>1 DEF Word, WordAfter
    <3>2. CASE i # 1
      <4>1. i - 1 \in 1 .. Last(r)
        BY <2>2, <3>2
      <4> QED BY <2>1, <2>4, <3>2, <4>1 DEF Word, WordAfter
    <3> QED BY <3>1, <3>2
  <2> QED BY <1>4, <2>1, <2>4, <2>5 DEF Stays
<1> QED BY <1>14, <1>15

\* What the compare-exchange of Dequeue does to its queue and to the others: the word it
\* read behind the head is the one behind the head.
LEMMA TakesWords ==
  ASSUME QueueInv, NEW t \in Threads, Takes(t), NEW q \in Queues, queue[t] = q
  PROVE  /\ Shrinks(q)
         /\ GetRealAddr(head[t]) = chain[q][1] /\ head[t] = Word(q, 1)
         /\ seen[t].metaAddr = Word(q, 2) /\ value[t] = Word(q, 2)
         /\ \A r \in Queues \ {q} : Stays(r)
<1> DEFINE n == Last(q)
<1>1. /\ TypeOK /\ Spelled /\ NodeOnce /\ InCall(t) /\ Fresh(t)
  BY DEF QueueInv, PerThread
<1>2. pc[t] = "deqCas" /\ metaHead[q] = head[t]
  BY DEF Takes, DeqCas, At
<1>3. q \in Queues
  OBVIOUS
<1>4. /\ chain[q] \in Seq(Nodes) /\ n \in Nat /\ n > 0 /\ 1 \in 1 .. n /\ head[t] = Word(q, 1)
      /\ \A i \in 1 .. n : chain[q][i] \in Nodes
  BY <1>1, <1>2, <1>3, Places
<1>5. GetRealAddr(head[t]) = chain[q][1]
  BY <1>1, <1>3, <1>4 DEF Spelled
<1>6. 1 < n /\ seen[t].metaAddr = Word(q, 1 + 1) /\ value[t] = Word(q, 1 + 1)
  BY <1>1, <1>2, <1>4 DEF Fresh, Behind
<1>7. /\ chain' = [chain EXCEPT ![q] = SubSeq(@, 2, Len(@))]
      /\ metaHead' = [metaHead EXCEPT ![q] = seen[t].metaAddr]
      /\ next' = next /\ data' = data
  BY <1>2 DEF Takes, DeqCas
<1>8. /\ chain'[q] = SubSeq(chain[q], 2, n) /\ metaHead'[q] = Word(q, 2)
  BY <1>1, <1>3, <1>6, <1>7, Typed DEF Last
<1>9. \A i \in 1 .. n - 1 : chain'[q][i] = chain[q][i + 1]
  BY <1>4, <1>6, <1>8, TakeFront DEF Last
<1>10. ASSUME NEW i \in 1 .. n PROVE WordAfter(q, i) = Word(q, i + 1)
  <2>1. CASE i = 1
    BY <1>8, <2>1 DEF Word, WordAfter
  <2>2. CASE i # 1
    <3>1. i - 1 \in 1 .. n - 1 /\ (i - 1) + 1 = i /\ i + 1 # 1 /\ (i + 1) - 1 = i
      BY <1>4, <2>2
    <3>2. chain'[q][i - 1] = chain[q][i]
      BY <1>9, <3>1
    <3>3. Word(q, i + 1) = next[chain[q][i]].metaAddr
      BY <1>1, Places
    <3> QED BY <1>7, <2>2, <3>2, <3>3 DEF WordAfter
  <2> QED BY <2>1, <2>2
<1>11. Shrinks(q)
  BY <1>6, <1>7, <1>8, <1>10 DEF Shrinks
<1>12. ASSUME NEW r \in Queues \ {q} PROVE Stays(r)
  <2>1. chain'[r] = chain[r] /\ metaHead'[r] = metaHead[r]
    BY <1>1, <1>3, <1>7, <1>12, Typed
  <2> QED BY <1>1, <1>7, <2>1, StaysIf
<1> QED BY <1>3, <1>4, <1>5, <1>6, <1>11, <1>12

\* All other steps leave every queue as it is: only nodes outside are written.
LEMMA QuietWords ==
  ASSUME QueueInv, NEW t \in Threads, Step(t), ~Links(t), ~Takes(t)
  PROVE  /\ chain' = chain /\ metaHead' = metaHead
         /\ \A q \in Queues : Stays(q)
<1>1. /\ TypeOK /\ NodeOnce /\ Owning(t)
  BY DEF QueueInv, PerThread
<1>2. /\ next \in [Nodes -> [identifier : Queues \cup {NULL}, metaAddr : Words]]
      /\ data \in [Nodes -> Words \cup {Nothing}] /\ node[t] \in Nodes \cup {NULL}
  BY <1>1, Typed
<1>3. /\ chain' = chain /\ metaHead' = metaHead
      /\ \A n \in Nodes : InQueue(n) => next'[n] = next[n] /\ data'[n] = data[n]
  <2>1. CASE EnqAlloc(t)
    <3>1. PICK n \in free : /\ next' = [next EXCEPT ![n].identifier = queue[t]]
                            /\ \E w : data' = [data EXCEPT ![n] = w]
      BY <2>1 DEF EnqAlloc
    <3>2. ~InQueue(n)
      BY <1>1 DEF NodeOnce
    <3>3. \A m \in Nodes : m # n => next'[m] = next[m] /\ data'[m] = data[m]
      BY <1>2, <3>1
    <3> QED BY <2>1, <3>2, <3>3 DEF EnqAlloc
  <2>2. CASE EnqNode(t)
    <3>1. node[t] # NULL /\ ~InQueue(node[t])
      BY <1>1, <2>2 DEF Owning, Building, NodeOnce, EnqNode, At
    <3>2. \A m \in Nodes : m # node[t] => next'[m] = next[m]
      BY <1>2, <2>2 DEF EnqNode
    <3> QED BY <2>2, <3>1, <3>2 DEF EnqNode
  <2>3. CASE DeqFree(t)
    <3>1. node[t] # NULL /\ ~InQueue(node[t])
      BY <1>1, <2>3 DEF Owning, Building, NodeOnce, DeqFree, At
    <3>2. \A m \in Nodes : m # node[t] => data'[m] = data[m]
      BY <1>2, <2>3 DEF DeqFree
    <3> QED BY <2>3, <3>1, <3>2 DEF DeqFree
  <2>4. ASSUME NEW q \in Queues, Enqueue(t, q) \/ Dequeue(t, q)
        PROVE  chain' = chain /\ metaHead' = metaHead /\ next' = next /\ data' = data
    BY <2>4 DEF Enqueue, Dequeue
  <2>5. CASE EnqTail(t) \/ EnqReadFirst(t) \/ EnqReadSecond(t) \/ DeqTail(t) \/ DeqHead(t)
             \/ DeqNext(t) \/ DeqData(t)
    BY <2>5 DEF EnqTail, EnqReadFirst, EnqReadSecond, DeqTail, DeqHead, DeqNext, DeqData, shared
  <2>6. CASE EnqSwing(t) \/ EnqAdvance(t) \/ EnqCount(t) \/ DeqRestore(t) \/ DeqSwing(t)
    BY <2>6 DEF EnqSwing, EnqAdvance, EnqCount, DeqRestore, DeqSwing
  <2>7. CASE EnqLink(t)
    BY <2>7 DEF EnqLink, Links
  <2>8. CASE DeqCas(t)
    BY <2>8 DEF DeqCas, Takes
  <2> QED BY <2>1, <2>2, <2>3, <2>4, <2>5, <2>6, <2>7, <2>8 DEF Step
<1> QED BY <1>1, <1>3, StaysIf

LastAfter(q) == Len(chain'[q])

\* Lengths and places after the step
LEMMA Kinds ==
  ASSUME TypeOK, NEW q \in Queues
  PROVE  /\ Stays(q) => chain'[q] = chain[q] /\ LastAfter(q) = Last(q)
         /\ \A w : \A n \in Nodes : Grows(q, w, n) =>
               /\ chain'[q] \in Seq(Nodes) /\ chain'[q] # <<>>
               /\ LastAfter(q) = Last(q) + 1 /\ chain'[q][Last(q) + 1] = n
               /\ \A i \in 1 .. Last(q) : chain'[q][i] = chain[q][i]
               /\ DOMAIN chain'[q] = 1 .. Last(q) + 1
         /\ Shrinks(q) =>
               /\ chain'[q] \in Seq(Nodes) /\ chain'[q] # <<>>
               /\ LastAfter(q) = Last(q) - 1 /\ Last(q) > 1
               /\ \A i \in 1 .. Last(q) - 1 : chain'[q][i] = chain[q][i + 1]
               /\ DOMAIN chain'[q] = 1 .. Last(q) - 1
<1>1. chain[q] \in Seq(Nodes) /\ chain[q] # <<>> /\ Last(q) = Len(chain[q]) /\ Last(q) \in Nat
  BY DEF TypeOK, Last
<1>2. Stays(q) => chain'[q] = chain[q] /\ LastAfter(q) = Last(q)
  BY DEF Stays, LastAfter, Last
<1>3. ASSUME NEW w, NEW n \in Nodes, Grows(q, w, n)
      PROVE  /\ chain'[q] \in Seq(Nodes) /\ chain'[q] # <<>>
             /\ LastAfter(q) = Last(q) + 1 /\ chain'[q][Last(q) + 1] = n
             /\ \A i \in 1 .. Last(q) : chain'[q][i] = chain[q][i]
             /\ DOMAIN chain'[q] = 1 .. Last(q) + 1
  <2>1. chain'[q] = Append(chain[q], n)
    BY <1>3 DEF Grows
  <2>2. /\ chain'[q] \in Seq(Nodes) /\ chain'[q] # <<>>
        /\ LastAfter(q) = Last(q) + 1 /\ chain'[q][Last(q) + 1] = n
        /\ \A i \in 1 .. Last(q) : chain'[q][i] = chain[q][i]
    BY <1>1, <2>1, PutLast DEF LastAfter
  <2> QED BY <1>1, <2>2 DEF LastAfter
<1>4. ASSUME Shrinks(q)
      PROVE  /\ chain'[q] \in Seq(Nodes) /\ chain'[q] # <<>>
             /\ LastAfter(q) = Last(q) - 1 /\ Last(q) > 1
             /\ \A i \in 1 .. Last(q) - 1 : chain'[q][i] = chain[q][i + 1]
             /\ DOMAIN chain'[q] = 1 .. Last(q) - 1
  <2>1. chain'[q] = SubSeq(chain[q], 2, Len(chain[q])) /\ Last(q) > 1
    BY <1>1, <1>4 DEF Shrinks
  <2>2. /\ chain'[q] \in Seq(Nodes)
        /\ LastAfter(q) = Last(q) - 1
        /\ \A i \in 1 .. Last(q) - 1 : chain'[q][i] = chain[q][i + 1]
    BY <1>1, <2>1, TakeFront DEF LastAfter
  <2>3. DOMAIN chain'[q] = 1 .. Last(q) - 1 /\ chain'[q] # <<>>
    <3>1. Last(q) > 1 /\ Last(q) \in Nat
      BY <1>1, <2>1
    <3> QED BY <2>2, <3>1 DEF LastAfter
  <2> QED BY <2>1, <2>2, <2>3
<1> QED BY <1>2, <1>3, <1>4

\* What every step does to every queue
LEMMA StepKinds ==
  ASSUME QueueInv, NEW t \in Threads, Step(t), NEW q \in Queues
  PROVE  /\ Links(t) /\ queue[t] = q => Grows(q, new[t], node[t]) /\ node[t] \in Nodes
         /\ Takes(t) /\ queue[t] = q => Shrinks(q)
         /\ ~(Links(t) /\ queue[t] = q) /\ ~(Takes(t) /\ queue[t] = q) => Stays(q)
<1>1. ASSUME Links(t) PROVE queue[t] \in Queues /\ node[t] \in Nodes
  BY <1>1, LinksLast
<1>2. ASSUME Takes(t) PROVE queue[t] \in Queues
  BY <1>2 DEF QueueInv, PerThread, InCall, Takes, DeqCas, At
<1>3. ASSUME Links(t), queue[t] = q PROVE Grows(q, new[t], node[t]) /\ node[t] \in Nodes
  BY <1>1, <1>3, LinksWords
<1>4. ASSUME Takes(t), queue[t] = q PROVE Shrinks(q)
  BY <1>4, TakesWords
<1>5. ASSUME Links(t), queue[t] # q PROVE Stays(q)
  <2> DEFINE r == queue[t]
  <2>1. r \in Queues
    BY <1>1, <1>5
  <2> HIDE DEF r
  <2>2. \A x \in Queues \ {r} : Stays(x)
    BY <1>5, <2>1, LinksWords DEF r
  <2> QED BY <1>5, <2>2 DEF r
<1>6. ASSUME Takes(t), queue[t] # q PROVE Stays(q)
  <2> DEFINE r == queue[t]
  <2>1. r \in Queues
    BY <1>2, <1>6
  <2> HIDE DEF r
  <2>2. \A x \in Queues \ {r} : Stays(x)
    BY <1>6, <2>1, TakesWords DEF r
  <2> QED BY <1>6, <2>2 DEF r
<1>7. ASSUME ~Links(t), ~Takes(t) PROVE Stays(q)
  BY <1>7, QuietWords
<1> QED BY <1>3, <1>4, <1>5, <1>6, <1>7

\* Which nodes are in a queue after the step
LEMMA InQueueAfter ==
  ASSUME QueueInv, NEW t \in Threads, Step(t), NEW n
  PROVE  /\ Links(t) => (InQueue(n)' <=> InQueue(n) \/ n = node[t])
         /\ Takes(t) => (InQueue(n)' <=> InQueue(n) /\ n # GetRealAddr(head[t]))
         /\ ~Links(t) /\ ~Takes(t) => (InQueue(n)' <=> InQueue(n))
<1>1. TypeOK /\ NodeOnce
  BY DEF QueueInv
<1>2. ASSUME ~Links(t), ~Takes(t) PROVE InQueue(n)' <=> InQueue(n)
  BY <1>2, QuietWords DEF InQueue
<1>3. ASSUME Links(t) PROVE InQueue(n)' <=> InQueue(n) \/ n = node[t]
  <2>1. PICK q \in Queues : queue[t] = q
    BY <1>3, LinksLast
  <2>2. Grows(q, new[t], node[t]) /\ node[t] \in Nodes
    BY <1>3, <2>1, StepKinds
  <2>3. \A r \in Queues : r # q => chain'[r] = chain[r]
    BY <1>3, <2>1, LinksWords DEF Stays
  <2>4. /\ chain'[q][Last(q) + 1] = node[t]
        /\ \A i \in 1 .. Last(q) : chain'[q][i] = chain[q][i]
        /\ DOMAIN chain'[q] = 1 .. Last(q) + 1
        /\ DOMAIN chain[q] = 1 .. Last(q) /\ Last(q) \in Nat
    BY <1>1, <2>2, Kinds, Places
  <2>5. (\E i \in DOMAIN chain'[q] : chain'[q][i] = n)
        <=> (\E i \in DOMAIN chain[q] : chain[q][i] = n) \/ n = node[t]
    <3>1. \A i \in 1 .. Last(q) + 1 : i \in 1 .. Last(q) \/ i = Last(q) + 1
      BY <2>4
    <3>2. Last(q) + 1 \in 1 .. Last(q) + 1 /\ \A i \in 1 .. Last(q) : i \in 1 .. Last(q) + 1
      BY <2>4
    <3> QED BY <2>4, <3>1, <3>2
  <2> QED BY <2>3, <2>5 DEF InQueue
<1>4. ASSUME Takes(t) PROVE InQueue(n)' <=> InQueue(n) /\ n # GetRealAddr(head[t])
  <2>1. PICK q \in Queues : queue[t] = q
    BY <1>4 DEF QueueInv, PerThread, InCall, Takes, DeqCas, At
  <2>2. Shrinks(q) /\ GetRealAddr(head[t]) = chain[q][1]
    BY <1>4, <2>1, TakesWords
  <2>3. \A r \in Queues : r # q => chain'[r] = chain[r]
    BY <1>4, <2>1, TakesWords DEF Stays
  <2>4. /\ \A i \in 1 .. Last(q) - 1 : chain'[q][i] = chain[q][i + 1]
        /\ DOMAIN chain'[q] = 1 .. Last(q) - 1 /\ Last(q) > 1
        /\ DOMAIN chain[q] = 1 .. Last(q) /\ Last(q) \in Nat
    BY <1>1, <2>2, Kinds, Places
  <2>5. \A r \in Queues : r # q => \A i \in DOMAIN chain[r] : chain[r][i] # chain[q][1]
    <3>1. 1 \in DOMAIN chain[q]
      BY <2>4
    <3> QED BY <1>1, <3>1 DEF NodeOnce
  <2>6. (\E i \in DOMAIN chain'[q] : chain'[q][i] = n)
        <=> (\E i \in DOMAIN chain[q] : chain[q][i] = n) /\ n # chain[q][1]
    <3>1. ASSUME NEW i \in 1 .. Last(q) - 1, chain'[q][i] = n
          PROVE  (\E j \in DOMAIN chain[q] : chain[q][j] = n) /\ n # chain[q][1]
      <4>1. i + 1 \in 1 .. Last(q) /\ i + 1 # 1 /\ 1 \in 1 .. Last(q) /\ chain[q][i + 1] = n
        BY <2>4, <3>1
      <4> QED BY <1>1, <2>4, <4>1 DEF NodeOnce
    <3>2. ASSUME NEW j \in 1 .. Last(q), chain[q][j] = n, n # chain[q][1]
          PROVE  \E i \in DOMAIN chain'[q] : chain'[q][i] = n
      <4>1. j - 1 \in 1 .. Last(q) - 1 /\ (j - 1) + 1 = j
        BY <2>4, <3>2
      <4>2. chain'[q][j - 1] = n
        BY <2>4, <3>2, <4>1
      <4> QED BY <2>4, <4>1, <4>2
    <3> QED BY <2>4, <3>1, <3>2
  <2> QED BY <2>2, <2>3, <2>5, <2>6 DEF InQueue
<1> QED BY <1>2, <1>3, <1>4

-----------------------------------------------------------------------------
(* Each part of the invariant is kept *)

\* The words spell the queues after every step.
LEMMA SpelledKept == ASSUME QueueInv, NEW t \in Threads, Step(t) PROVE Spelled'
<1>1. TypeOK /\ Spelled /\ NodeOnce
  BY DEF QueueInv
<1>2. ASSUME NEW q \in Queues
      PROVE  /\ \A i \in 1 .. LastAfter(q) :
                   /\ GetRealAddr(WordAfter(q, i)) = chain'[q][i]
                   /\ next'[chain'[q][i]].identifier = q
                   /\ i > 1 => data'[chain'[q][i]] = WordAfter(q, i)
             /\ WordAfter(q, LastAfter(q) + 1)
                = GetMetaAddr(ExtractMetaCnt(WordAfter(q, LastAfter(q))), NULL)
  <2>0. /\ \A i \in 1 .. Last(q) :
              /\ GetRealAddr(Word(q, i)) = chain[q][i] /\ next[chain[q][i]].identifier = q
              /\ i > 1 => data[chain[q][i]] = Word(q, i)
        /\ Word(q, Last(q) + 1) = GetMetaAddr(ExtractMetaCnt(Word(q, Last(q))), NULL)
        /\ Last(q) \in Nat /\ Last(q) > 0
    BY <1>1, Places DEF Spelled
  <2>1. CASE Stays(q)
    <3>1. chain'[q] = chain[q] /\ LastAfter(q) = Last(q)
      BY <1>1, <2>1, Kinds
    <3>2. \A i \in 1 .. Last(q) : i \in 1 .. Last(q) + 1
      BY <2>0
    <3>3. Last(q) \in 1 .. Last(q) /\ Last(q) + 1 \in 1 .. Last(q) + 1
      BY <2>0
    <3> QED BY <2>0, <2>1, <3>1, <3>2, <3>3 DEF Stays
  <2>2. CASE Links(t) /\ queue[t] = q
    <3>1. Grows(q, new[t], node[t]) /\ node[t] \in Nodes
      BY <2>2, StepKinds
    <3>2. /\ LastAfter(q) = Last(q) + 1 /\ chain'[q][Last(q) + 1] = node[t]
          /\ \A i \in 1 .. Last(q) : chain'[q][i] = chain[q][i]
      BY <1>1, <3>1, Kinds
    <3>3. ASSUME NEW i \in 1 .. Last(q) + 1
          PROVE  /\ GetRealAddr(WordAfter(q, i)) = chain'[q][i]
                 /\ next'[chain'[q][i]].identifier = q
                 /\ i > 1 => data'[chain'[q][i]] = WordAfter(q, i)
      <4>1. CASE i = Last(q) + 1
        BY <3>1, <3>2, <4>1 DEF Grows
      <4>2. CASE i # Last(q) + 1
        <5>1. i \in 1 .. Last(q)
          BY <2>0, <4>2
        <5>2. /\ WordAfter(q, i) = Word(q, i) /\ chain'[q][i] = chain[q][i]
              /\ next'[chain[q][i]].identifier = q /\ data'[chain[q][i]] = data[chain[q][i]]
          BY <3>1, <3>2, <5>1 DEF Grows
        <5> QED BY <2>0, <5>1, <5>2
      <4> QED BY <4>1, <4>2
    <3>4. LastAfter(q) + 1 = Last(q) + 2
      BY <2>0, <3>2
    <3>5. WordAfter(q, LastAfter(q) + 1)
          = GetMetaAddr(ExtractMetaCnt(WordAfter(q, LastAfter(q))), NULL)
      BY <3>1, <3>2, <3>4 DEF Grows
    <3> QED BY <3>2, <3>3, <3>5
  <2>3. CASE Takes(t) /\ queue[t] = q
    <3>1. Shrinks(q)
      BY <2>3, StepKinds
    <3>2. /\ LastAfter(q) = Last(q) - 1 /\ Last(q) > 1
          /\ \A i \in 1 .. Last(q) - 1 : chain'[q][i] = chain[q][i + 1]
      BY <1>1, <3>1, Kinds
    <3>3. /\ \A i \in 1 .. Last(q) : WordAfter(q, i) = Word(q, i + 1)
          /\ next' = next /\ data' = data
      BY <3>1 DEF Shrinks
    <3>4. ASSUME NEW i \in 1 .. Last(q) - 1
          PROVE  /\ GetRealAddr(WordAfter(q, i)) = chain'[q][i]
                 /\ next'[chain'[q][i]].identifier = q
                 /\ i > 1 => data'[chain'[q][i]] = WordAfter(q, i)
      <4>1. i \in 1 .. Last(q) /\ i + 1 \in 1 .. Last(q) /\ i + 1 > 1
        BY <2>0
      <4> QED BY <2>0, <3>2, <3>3, <4>1
    <3>5. WordAfter(q, LastAfter(q) + 1)
          = GetMetaAddr(ExtractMetaCnt(WordAfter(q, LastAfter(q))), NULL)
      <4>1. /\ LastAfter(q) + 1 = Last(q) /\ LastAfter(q) \in 1 .. Last(q)
            /\ Last(q) \in 1 .. Last(q)
        BY <2>0, <3>2
      <4> QED BY <2>0, <3>3, <4>1
    <3> QED BY <3>2, <3>4, <3>5
  <2> QED BY <2>1, <2>2, <2>3, StepKinds
<1> QED BY <1>2 DEF Spelled, Word, WordAfter, Last, LastAfter, GetRealAddr, ExtractMetaCnt,
                    GetMetaAddr

\* The types of what a thread has read
ReadTyped ==
    /\ tail \in [Threads -> Words] /\ head \in [Threads -> Words]
    /\ seen \in [Threads -> [identifier : Queues \cup {NULL}, metaAddr : Words]]

LEMMA ForgetTyped == ASSUME ReadTyped, NEW t \in Threads, Forget(t) PROVE ReadTyped'
<1>1. QNodePtr(NULL, ZeroWord) \in [identifier : Queues \cup {NULL}, metaAddr : Words]
  BY ZeroIsWord DEF QNodePtr
<1>2. tail' \in [Threads -> Words] /\ head' \in [Threads -> Words]
  BY ZeroIsWord DEF ReadTyped, Forget
<1>3. seen' \in [Threads -> [identifier : Queues \cup {NULL}, metaAddr : Words]]
  BY <1>1 DEF ReadTyped, Forget
<1> QED BY <1>2, <1>3 DEF ReadTyped

\* Half of what is read
LEMMA HalfTyped ==
  ASSUME ReadTyped, NEW t \in Threads, UNCHANGED <<tail, head>>,
         \/ \E w \in Words : seen' = [seen EXCEPT ![t].metaAddr = w]
         \/ \E i \in Queues \cup {NULL} : seen' = [seen EXCEPT ![t].identifier = i]
         \/ \E w \in Words : seen' = [seen EXCEPT ![t] = [seen[t] EXCEPT !.metaAddr = w]]
         \/ \E i \in Queues \cup {NULL} :
               seen' = [seen EXCEPT ![t] = [seen[t] EXCEPT !.identifier = i]]
  PROVE  ReadTyped'
<1>1. CASE \E w \in Words : seen' = [seen EXCEPT ![t].metaAddr = w]
  BY <1>1 DEF ReadTyped
<1>2. CASE \E i \in Queues \cup {NULL} : seen' = [seen EXCEPT ![t].identifier = i]
  BY <1>2 DEF ReadTyped
<1>3. CASE \E w \in Words : seen' = [seen EXCEPT ![t] = [seen[t] EXCEPT !.metaAddr = w]]
  BY <1>3 DEF ReadTyped
<1>4. CASE \E i \in Queues \cup {NULL} :
              seen' = [seen EXCEPT ![t] = [seen[t] EXCEPT !.identifier = i]]
  BY <1>4 DEF ReadTyped
<1> QED BY <1>1, <1>2, <1>3, <1>4

\* Every variable keeps its type.
LEMMA TypeKept == ASSUME QueueInv, NEW t \in Threads, Step(t) PROVE TypeOK'
<1>1. /\ TypeOK /\ InCall(t) /\ Owning(t) /\ Built(t) /\ Reading(t)
  BY DEF QueueInv, PerThread
<1>2. ReadTyped /\ (Forget(t) => ReadTyped')
  BY <1>1, Typed, ForgetTyped DEF ReadTyped
<1>3. CASE Links(t)
  <2>1. PICK q \in Queues : queue[t] = q
    BY <1>3, LinksLast
  <2>2. /\ node[t] \in Nodes /\ GetRealAddr(tail[t]) \in Nodes
    BY <1>1, <1>3, LinksLast DEF Reading, HasTail, Links, EnqLink, At
  <2>3. Append(chain[q], node[t]) \in Seq(Nodes) /\ Append(chain[q], node[t]) # <<>>
    <3>1. chain[q] \in Seq(Nodes)
      BY <1>1, Typed
    <3> QED BY <2>2, <3>1, PutLast
  <2>4. /\ chain' = [chain EXCEPT ![q] = Append(@, node[t])]
        /\ next' = [next EXCEPT ![GetRealAddr(tail[t])] = QNodePtr(q, new[t])]
        /\ node' = [node EXCEPT ![t] = NULL] /\ Goto(t, "enqAdvance")
        /\ UNCHANGED <<metaHead, metaTail, metaCnt, num, data, free, queue, new, value>>
        /\ UNCHANGED <<tail, head, seen>>
    BY <1>3, <2>1 DEF Links, EnqLink
  <2>5. QNodePtr(q, new[t]) \in [identifier : Queues \cup {NULL}, metaAddr : Words]
    BY <1>1, Typed DEF QNodePtr
  <2>6. chain' \in [Queues -> Seq(Nodes)] /\ \A r \in Queues : chain'[r] # <<>>
    BY <1>1, <2>3, <2>4 DEF TypeOK
  <2>7. next' \in [Nodes -> [identifier : Queues \cup {NULL}, metaAddr : Words]]
    BY <1>1, <2>2, <2>4, <2>5, Typed
  <2>8. node' \in [Threads -> Nodes \cup {NULL}] /\ pc' \in [Threads -> Labels]
    BY <1>1, <2>4, Typed DEF Goto, Labels
  <2> QED BY <1>1, <2>4, <2>6, <2>7, <2>8 DEF TypeOK
<1>4. CASE Takes(t)
  <2>1. PICK q \in Queues : queue[t] = q
    BY <1>1, <1>4 DEF InCall, Takes, DeqCas, At
  <2>2. Shrinks(q) /\ seen[t].metaAddr = Word(q, 2) /\ GetRealAddr(head[t]) \in Nodes
    BY <1>1, <1>4, <2>1, TakesWords DEF Reading, HasHead, Takes, DeqCas, At
  <2>3. GetRealAddr(seen[t].metaAddr) \in Nodes /\ seen[t].metaAddr \in Words
    BY <1>1, <1>4, Typed DEF Reading, HasNext, Takes, DeqCas, At
  <2>4. seen[t].metaAddr \in Counts \X Nodes
    BY <2>3, NodeWord
  <2>5. SubSeq(chain[q], 2, Len(chain[q])) \in Seq(Nodes) /\ SubSeq(chain[q], 2, Len(chain[q])) # <<>>
    <3>1. chain'[q] = SubSeq(chain[q], 2, Len(chain[q]))
      BY <2>2 DEF Shrinks, Last
    <3> QED BY <1>1, <2>2, <3>1, Kinds
  <2>6. /\ chain' = [chain EXCEPT ![q] = SubSeq(@, 2, Len(@))]
        /\ metaHead' = [metaHead EXCEPT ![q] = seen[t].metaAddr]
        /\ node' = [node EXCEPT ![t] = GetRealAddr(head[t])] /\ Goto(t, "deqFree") /\ Forget(t)
        /\ UNCHANGED <<metaTail, metaCnt, num, next, data, free, queue, new, value>>
    BY <1>4, <2>1 DEF Takes, DeqCas
  <2>7. chain' \in [Queues -> Seq(Nodes)] /\ \A r \in Queues : chain'[r] # <<>>
    BY <1>1, <2>5, <2>6 DEF TypeOK
  <2>8. metaHead' \in [Queues -> Counts \X Nodes]
    BY <1>1, <2>4, <2>6, Typed
  <2>9. node' \in [Threads -> Nodes \cup {NULL}] /\ pc' \in [Threads -> Labels]
    BY <1>1, <2>2, <2>6, Typed DEF Goto, Labels
  <2>10. ReadTyped'
    BY <1>2, <2>6
  <2> QED BY <1>1, <2>6, <2>7, <2>8, <2>9, <2>10 DEF TypeOK, ReadTyped
<1>5. ASSUME ~Links(t), ~Takes(t) PROVE TypeOK'
  <2>0. /\ metaHead' = metaHead /\ chain' = chain
    BY <1>5, QuietWords
  <2>1. ASSUME NEW q \in Queues, Enqueue(t, q) PROVE TypeOK'
    <3>1. GetMetaAddr(metaCnt[q], NULL) \in Words /\ AfterGetCnt(metaCnt[q]) \in Counts
      BY <1>1, WordParts, CountsStay DEF TypeOK
    <3> QED BY <1>1, <2>0, <2>1, <3>1 DEF TypeOK, Enqueue, Goto, Labels
  <2>2. CASE EnqAlloc(t)
    <3>1. PICK n \in free :
             /\ free' = free \ {n} /\ node' = [node EXCEPT ![t] = n]
             /\ new' = [new EXCEPT ![t] = GetMetaAddr(ExtractMetaCnt(new[t]), n)]
             /\ data' = [data EXCEPT ![n] = GetMetaAddr(ExtractMetaCnt(new[t]), n)]
             /\ next' = [next EXCEPT ![n].identifier = queue[t]]
      BY <2>2 DEF EnqAlloc
    <3>2. n \in Nodes /\ GetMetaAddr(ExtractMetaCnt(new[t]), n) \in Words /\ queue[t] \in Queues
      <4>1. new[t] \in Words /\ n \in Nodes
        BY <1>1, Typed
      <4>2. ExtractMetaCnt(new[t]) \in Counts
        BY <4>1, NodeWord
      <4> QED BY <1>1, <2>2, <4>1, <4>2, WordParts DEF InCall, EnqAlloc, At
    <3>3. next' \in [Nodes -> [identifier : Queues \cup {NULL}, metaAddr : Words]]
      BY <1>1, <3>1, <3>2, Typed, ZenonT(30)
    <3> QED BY <1>1, <2>0, <2>2, <3>1, <3>2, <3>3 DEF TypeOK, EnqAlloc, Goto, Labels
  <2>3. CASE EnqNode(t)
    <3>1. node[t] \in Nodes
      BY <1>1, <2>3, Typed DEF Owning, Building, EnqNode, At
    <3>2. GetMetaAddr(ExtractMetaCnt(new[t]), NULL) \in Words
      <4>1. new[t] \in Words
        BY <1>1, Typed
      <4> QED BY <4>1, NodeWord, WordParts
    <3>3. next' \in [Nodes -> [identifier : Queues \cup {NULL}, metaAddr : Words]]
      BY <1>1, <2>3, <3>1, <3>2, Typed, ZenonT(30) DEF EnqNode
    <3> QED BY <1>1, <2>0, <2>3, <3>3 DEF TypeOK, EnqNode, Goto, Labels, locals
  <2>4. CASE EnqTail(t) \/ DeqTail(t) \/ DeqHead(t)
    <3>1. queue[t] \in Queues
      BY <1>1, <2>4 DEF InCall, EnqTail, DeqTail, DeqHead, At
    <3>2. metaTail[queue[t]] \in Words /\ metaHead[queue[t]] \in Words
      BY <1>1, <3>1, Typed DEF Words
    <3> QED BY <1>1, <2>0, <2>4, <3>2 DEF TypeOK, EnqTail, DeqTail, DeqHead, Goto, Labels, shared
  <2>5. CASE EnqReadFirst(t)
    <3>1. TailNext(t) \in [identifier : Queues \cup {NULL}, metaAddr : Words]
      BY <1>1, <2>5, Typed DEF TailNext, Reading, HasTail, EnqReadFirst, At
    <3>2. TailNext(t).metaAddr \in Words /\ TailNext(t).identifier \in Queues \cup {NULL}
      BY <3>1
    <3>3. ReadTyped'
      BY <1>2, <2>5, <3>2, HalfTyped DEF EnqReadFirst
    <3>4. pc' \in [Threads -> Labels]
      BY <1>1, <2>5, Typed DEF EnqReadFirst, Goto, Labels
    <3> QED BY <1>1, <2>0, <2>5, <3>3, <3>4 DEF TypeOK, ReadTyped, EnqReadFirst, shared
  <2>6. CASE EnqReadSecond(t)
    <3>1. TailNext(t) \in [identifier : Queues \cup {NULL}, metaAddr : Words]
      BY <1>1, <2>6, Typed DEF TailNext, Reading, HasTail, EnqReadSecond
    <3>2. TailNext(t).metaAddr \in Words /\ TailNext(t).identifier \in Queues \cup {NULL}
      BY <3>1
    <3>3. ReadTyped'
      <4>1. CASE UNCHANGED <<tail, head>>
        BY <1>2, <2>6, <3>2, <4>1, HalfTyped DEF EnqReadSecond
      <4>2. CASE ~UNCHANGED <<tail, head>>
        BY <1>2, <2>6, <4>2 DEF EnqReadSecond
      <4> QED BY <4>1, <4>2
    <3>4. pc' \in [Threads -> Labels]
      <4>1. \E l \in Labels : pc' = [pc EXCEPT ![t] = l]
        BY <2>6 DEF EnqReadSecond, Goto, Labels
      <4> QED BY <1>1, <4>1, Typed
    <3> QED BY <1>1, <2>0, <2>6, <3>3, <3>4 DEF TypeOK, ReadTyped, EnqReadSecond, shared
  <2>7. CASE EnqSwing(t) \/ DeqSwing(t)
    <3>1. queue[t] \in Queues /\ GetRealAddr(seen[t].metaAddr) \in Nodes
      BY <1>1, <2>7 DEF InCall, Reading, HasNext, EnqSwing, DeqSwing, At
    <3>2. seen[t].metaAddr \in Counts \X Nodes
      <4>1. seen[t].metaAddr \in Words
        BY <1>1, Typed
      <4> QED BY <3>1, <4>1, NodeWord
    <3>3. metaTail' \in [Queues -> Counts \X Nodes]
      BY <1>1, <2>7, <3>2, Typed DEF EnqSwing, DeqSwing, SwingTail
    <3>4. ReadTyped'
      BY <1>2, <2>7 DEF EnqSwing, DeqSwing
    <3>5. pc' \in [Threads -> Labels]
      BY <1>1, <2>7, Typed DEF EnqSwing, DeqSwing, Goto, Labels
    <3> QED BY <1>1, <2>0, <2>7, <3>3, <3>4, <3>5 DEF TypeOK, ReadTyped, EnqSwing, DeqSwing
  <2>8. CASE EnqAdvance(t)
    <3>1. new[t] \in Counts \X Nodes
      <4>1. new[t] \in Words /\ GetRealAddr(new[t]) \in Nodes
        BY <1>1, <2>8, Typed DEF Reading, EnqAdvance, At
      <4> QED BY <4>1, NodeWord
    <3>3. metaTail' \in [Queues -> Counts \X Nodes]
      BY <1>1, <2>8, <3>1, Typed DEF EnqAdvance, SwingTail
    <3>4. ReadTyped' /\ new' \in [Threads -> Words]
      BY <1>1, <1>2, <2>8, Typed, ZeroIsWord DEF EnqAdvance
    <3>5. pc' \in [Threads -> Labels]
      BY <1>1, <2>8, Typed DEF EnqAdvance, Goto, Labels
    <3> QED BY <1>1, <2>0, <2>8, <3>3, <3>4, <3>5 DEF TypeOK, ReadTyped, EnqAdvance
  <2>9. CASE EnqCount(t) \/ DeqRestore(t)
    <3>1. queue[t] \in Queues
      BY <1>1, <2>9 DEF InCall, EnqCount, DeqRestore, At
    <3>2. num' = [num EXCEPT ![queue[t]] = @ + 1] /\ queue' = [queue EXCEPT ![t] = NULL]
          /\ pc' = [pc EXCEPT ![t] = "idle"]
          /\ UNCHANGED <<metaTail, metaCnt, next, data, free, node, new, tail, head, seen, value>>
      BY <2>9 DEF EnqCount, DeqRestore, Goto
    <3>3. num' \in [Queues -> Int]
      BY <1>1, <3>1, <3>2 DEF TypeOK
    <3> QED BY <1>1, <2>0, <3>2, <3>3 DEF TypeOK, Labels
  <2>10. ASSUME NEW q \in Queues, Dequeue(t, q) PROVE TypeOK'
    BY <1>1, <2>0, <2>10 DEF TypeOK, Dequeue, Goto, Labels
  <2>11. CASE DeqNext(t)
    <3>1. next[GetRealAddr(head[t])].metaAddr \in Words
      BY <1>1, <2>11, Typed DEF Reading, HasHead, DeqNext, At
    <3>2. ReadTyped'
      <4>1. CASE UNCHANGED <<tail, head>>
        BY <1>2, <2>11, <3>1, <4>1, HalfTyped DEF DeqNext
      <4>2. CASE ~UNCHANGED <<tail, head>>
        BY <1>2, <2>11, <4>2 DEF DeqNext
      <4> QED BY <4>1, <4>2
    <3>3. pc' \in [Threads -> Labels]
      BY <1>1, <2>11, Typed DEF DeqNext, Goto, Labels
    <3> QED BY <1>1, <2>0, <2>11, <3>2, <3>3 DEF TypeOK, ReadTyped, DeqNext, shared
  <2>12. CASE DeqData(t)
    <3>1. data[GetRealAddr(seen[t].metaAddr)] \in Words \cup {Nothing}
      BY <1>1, <2>12, Typed DEF Reading, HasNext, DeqData, At
    <3> QED BY <1>1, <2>0, <2>12, <3>1 DEF TypeOK, DeqData, Goto, Labels, shared
  <2>13. CASE DeqCas(t)
    <3>1. ReadTyped'
      BY <1>2, <2>13 DEF DeqCas
    <3> QED BY <1>1, <1>5, <2>0, <2>13, <3>1 DEF TypeOK, ReadTyped, DeqCas, Takes, Goto, Labels
  <2>14. CASE EnqLink(t)
    <3>1. ReadTyped'
      BY <1>2, <1>5, <2>14 DEF EnqLink, Links
    <3> QED BY <1>1, <1>5, <2>0, <2>14, <3>1 DEF TypeOK, ReadTyped, EnqLink, Links, Goto, Labels
  <2>15. CASE DeqFree(t)
    <3>1. node[t] \in Nodes
      BY <1>1, <2>15, Typed DEF Owning, DeqFree, At
    <3> QED BY <1>1, <2>0, <2>15, <3>1 DEF TypeOK, DeqFree, Goto, Labels
  <2> QED BY <2>1, <2>2, <2>3, <2>4, <2>5, <2>6, <2>7, <2>8, <2>9, <2>10, <2>11, <2>12, <2>13,
             <2>14, <2>15 DEF Step
<1> QED BY <1>3, <1>4, <1>5

\* A step changes nothing that belongs to another thread.
LEMMA OthersStay ==
  ASSUME TypeOK, NEW t \in Threads, Step(t), NEW u \in Threads, u # t
  PROVE  /\ pc'[u] = pc[u] /\ queue'[u] = queue[u] /\ node'[u] = node[u] /\ new'[u] = new[u]
         /\ tail'[u] = tail[u] /\ head'[u] = head[u] /\ seen'[u] = seen[u] /\ value'[u] = value[u]
<1> DEFINE Same == /\ pc'[u] = pc[u] /\ queue'[u] = queue[u] /\ node'[u] = node[u] /\ new'[u] = new[u]
                   /\ tail'[u] = tail[u] /\ head'[u] = head[u] /\ seen'[u] = seen[u] /\ value'[u] = value[u]
<1>0. /\ pc \in [Threads -> Labels] /\ queue \in [Threads -> Queues \cup {NULL}]
      /\ node \in [Threads -> Nodes \cup {NULL}] /\ new \in [Threads -> Words]
      /\ tail \in [Threads -> Words] /\ head \in [Threads -> Words]
      /\ seen \in [Threads -> [identifier : Queues \cup {NULL}, metaAddr : Words]]
      /\ value \in [Threads -> Words \cup {Nothing}]
  BY Typed
<1>1. ASSUME NEW q \in Queues, Enqueue(t, q) \/ Dequeue(t, q) PROVE Same
  BY <1>0, <1>1 DEF Enqueue, Dequeue, Goto
<1>2. CASE EnqAlloc(t) \/ EnqNode(t) \/ EnqTail(t)
  BY <1>0, <1>2 DEF EnqAlloc, EnqNode, EnqTail, Goto, locals, shared
<1>3. CASE EnqReadFirst(t)
  BY <1>0, <1>3 DEF EnqReadFirst, Goto, shared
<1>4. CASE EnqReadSecond(t)
  BY <1>0, <1>4 DEF EnqReadSecond, Goto, Forget, shared
<1>5. CASE EnqSwing(t) \/ EnqAdvance(t) \/ EnqCount(t) \/ DeqRestore(t)
  BY <1>0, <1>5 DEF EnqSwing, EnqAdvance, EnqCount, DeqRestore, Goto, Forget
<1>6. CASE EnqLink(t)
  BY <1>0, <1>6 DEF EnqLink, Goto, Forget
<1>7. CASE DeqTail(t) \/ DeqHead(t) \/ DeqSwing(t) \/ DeqData(t)
  BY <1>0, <1>7 DEF DeqTail, DeqHead, DeqSwing, DeqData, Goto, Forget, shared
<1>8. CASE DeqNext(t)
  BY <1>0, <1>8 DEF DeqNext, Goto, Forget, shared
<1>9. CASE DeqCas(t)
  BY <1>0, <1>9 DEF DeqCas, Goto, Forget
<1>10. CASE DeqFree(t)
  BY <1>0, <1>10 DEF DeqFree, Goto
<1> QED BY <1>1, <1>2, <1>3, <1>4, <1>5, <1>6, <1>7, <1>8, <1>9, <1>10 DEF Step

\* Only the pool, Alloc and Free and the two compare-exchanges move a node.
LEMMA NodeMoves ==
  ASSUME QueueInv, NEW t \in Threads, Step(t)
  PROVE  \/ UNCHANGED <<free, node>> /\ ~Links(t) /\ ~Takes(t)
         \/ EnqAlloc(t) /\ \E n \in free : free' = free \ {n} /\ node' = [node EXCEPT ![t] = n]
         \/ Links(t) /\ free' = free /\ node' = [node EXCEPT ![t] = NULL]
         \/ Takes(t) /\ free' = free /\ node' = [node EXCEPT ![t] = GetRealAddr(head[t])]
         \/ DeqFree(t) /\ free' = free \cup {node[t]} /\ node' = [node EXCEPT ![t] = NULL]
<1>1. ASSUME NEW q \in Queues, Enqueue(t, q) \/ Dequeue(t, q) PROVE UNCHANGED <<free, node>> /\ ~Links(t) /\ ~Takes(t)
  BY <1>1 DEF Enqueue, Dequeue, Links, Takes, EnqLink, DeqCas, At
<1>2. CASE EnqNode(t) \/ EnqTail(t) \/ EnqReadFirst(t) \/ EnqReadSecond(t) \/ EnqSwing(t)
           \/ EnqAdvance(t) \/ EnqCount(t)
  BY <1>2 DEF EnqNode, EnqTail, EnqReadFirst, EnqReadSecond, EnqSwing, EnqAdvance, EnqCount,
              Links, Takes, EnqLink, DeqCas, At, shared, locals
<1>3. CASE DeqRestore(t) \/ DeqTail(t) \/ DeqHead(t) \/ DeqNext(t) \/ DeqSwing(t) \/ DeqData(t)
  BY <1>3 DEF DeqRestore, DeqTail, DeqHead, DeqNext, DeqSwing, DeqData,
              Links, Takes, EnqLink, DeqCas, At, shared
<1>4. CASE EnqAlloc(t)
  BY <1>4 DEF EnqAlloc
<1>5. CASE EnqLink(t)
  BY <1>5 DEF EnqLink, Links, Takes, DeqCas, At
<1>6. CASE DeqCas(t)
  BY <1>6 DEF DeqCas, Links, Takes, EnqLink, At
<1>7. CASE DeqFree(t)
  BY <1>7 DEF DeqFree
<1> QED BY <1>1, <1>2, <1>3, <1>4, <1>5, <1>6, <1>7 DEF Step

\* A node is twice in no queue, and in no two of them.
ChainsApart ==
    \A q, r \in Queues : \A i \in DOMAIN chain[q], j \in DOMAIN chain[r] :
        chain[q][i] = chain[r][j] => q = r /\ i = j

LEMMA ChainsApartKept == ASSUME QueueInv, NEW t \in Threads, Step(t) PROVE ChainsApart'
<1>1. /\ TypeOK /\ NodeOnce /\ ChainsApart
  BY DEF QueueInv, NodeOnce, ChainsApart
<1>2. CASE ~Links(t) /\ ~Takes(t)
  BY <1>1, <1>2, QuietWords DEF ChainsApart
<1>3. CASE Links(t)
  <2>1. PICK q \in Queues : queue[t] = q
    BY <1>3, LinksLast
  <2>2. Grows(q, new[t], node[t]) /\ node[t] \in Nodes /\ ~InQueue(node[t])
    BY <1>3, <2>1, StepKinds, LinksLast
  <2>3. \A r \in Queues : r # q => chain'[r] = chain[r]
    BY <1>3, <2>1, LinksWords DEF Stays
  <2>4. /\ chain'[q][Last(q) + 1] = node[t]
        /\ \A i \in 1 .. Last(q) : chain'[q][i] = chain[q][i]
        /\ DOMAIN chain'[q] = 1 .. Last(q) + 1
        /\ DOMAIN chain[q] = 1 .. Last(q) /\ Last(q) \in Nat
    BY <1>1, <2>2, Kinds, Places
  <2>5. \A i \in DOMAIN chain'[q] : \/ /\ i \in DOMAIN chain[q]
                                       /\ chain'[q][i] = chain[q][i]
                                    \/ /\ i = Last(q) + 1
                                       /\ chain'[q][i] = node[t]
    <3>1. \A i \in 1 .. Last(q) + 1 : i \in 1 .. Last(q) \/ i = Last(q) + 1
      BY <2>4
    <3> QED BY <2>4, <3>1
  <2>6. \A r \in Queues : \A i \in DOMAIN chain[r] : chain[r][i] # node[t]
    BY <2>2 DEF InQueue
  <2>7. SUFFICES ASSUME NEW a \in Queues, NEW r \in Queues,
                        NEW i \in DOMAIN chain'[a], NEW j \in DOMAIN chain'[r],
                        chain'[a][i] = chain'[r][j]
                 PROVE  a = r /\ i = j
    BY DEF ChainsApart
  <2>8. CASE a # q /\ r # q
    BY <1>1, <2>3, <2>7, <2>8 DEF ChainsApart
  <2>9. CASE a = q /\ r = q
    BY <1>1, <2>5, <2>6, <2>7, <2>9 DEF ChainsApart
  <2>10. CASE a = q /\ r # q
    BY <1>1, <2>3, <2>5, <2>6, <2>7, <2>10 DEF ChainsApart
  <2>11. CASE a # q /\ r = q
    BY <1>1, <2>3, <2>5, <2>6, <2>7, <2>11 DEF ChainsApart
  <2> QED BY <2>8, <2>9, <2>10, <2>11
<1>4. CASE Takes(t)
  <2>1. PICK q \in Queues : queue[t] = q
    BY <1>4 DEF QueueInv, PerThread, InCall, Takes, DeqCas, At
  <2>2. Shrinks(q)
    BY <1>4, <2>1, TakesWords
  <2>3. \A r \in Queues : r # q => chain'[r] = chain[r]
    BY <1>4, <2>1, TakesWords DEF Stays
  <2>4. /\ \A i \in 1 .. Last(q) - 1 : chain'[q][i] = chain[q][i + 1]
        /\ DOMAIN chain'[q] = 1 .. Last(q) - 1
        /\ DOMAIN chain[q] = 1 .. Last(q) /\ Last(q) \in Nat
    BY <1>1, <2>2, Kinds, Places
  <2>5. \A i \in DOMAIN chain'[q] : i \in Int /\ i + 1 \in DOMAIN chain[q] /\ chain'[q][i] = chain[q][i + 1]
    BY <2>4
  <2>7. SUFFICES ASSUME NEW a \in Queues, NEW r \in Queues,
                        NEW i \in DOMAIN chain'[a], NEW j \in DOMAIN chain'[r],
                        chain'[a][i] = chain'[r][j]
                 PROVE  a = r /\ i = j
    BY DEF ChainsApart
  <2>8. CASE a # q /\ r # q
    BY <1>1, <2>3, <2>7, <2>8 DEF ChainsApart
  <2>9. CASE a = q /\ r = q
    <3>1. i + 1 = j + 1 /\ i \in Int /\ j \in Int
      BY <1>1, <2>5, <2>7, <2>9 DEF ChainsApart
    <3> QED BY <2>9, <3>1
  <2>10. CASE a = q /\ r # q
    BY <1>1, <2>3, <2>5, <2>7, <2>10 DEF ChainsApart
  <2>11. CASE a # q /\ r = q
    BY <1>1, <2>3, <2>5, <2>7, <2>11 DEF ChainsApart
  <2> QED BY <2>8, <2>9, <2>10, <2>11
<1> QED BY <1>2, <1>3, <1>4

\* A node stays in one place at a time.
LEMMA NodeOnceKept == ASSUME QueueInv, NEW t \in Threads, Step(t) PROVE NodeOnce'
<1>1. /\ TypeOK /\ NodeOnce /\ Owning(t) /\ node \in [Threads -> Nodes \cup {NULL}] /\ free \subseteq Nodes
  BY Typed DEF QueueInv, PerThread
<1>2. ChainsApart'
  BY ChainsApartKept
<1>3. SUFFICES /\ \A n \in free' : ~InQueue(n)'
               /\ \A u \in Threads : node'[u] # NULL =>
                     \A n : n = node'[u] => n \notin free' /\ ~InQueue(n)'
               /\ \A u, v \in Threads : node'[u] # NULL /\ node'[u] = node'[v] => u = v
  BY <1>2 DEF NodeOnce, ChainsApart, InQueue
<1>4. /\ \A n \in free : ~InQueue(n)
      /\ \A u \in Threads : node[u] # NULL => node[u] \notin free /\ ~InQueue(node[u])
      /\ \A u, v \in Threads : node[u] # NULL /\ node[u] = node[v] => u = v
  BY <1>1 DEF NodeOnce
<1>5. CASE UNCHANGED <<free, node>> /\ ~Links(t) /\ ~Takes(t)
  <2>1. \A n : InQueue(n)' <=> InQueue(n)
    BY <1>5, InQueueAfter
  <2> QED BY <1>4, <1>5, <2>1
<1>6. CASE EnqAlloc(t) /\ \E n \in free : free' = free \ {n} /\ node' = [node EXCEPT ![t] = n]
  <2>1. \A n : InQueue(n)' <=> InQueue(n)
    BY <1>6, InQueueAfter DEF EnqAlloc, Links, Takes, EnqLink, DeqCas, At
  <2>2. PICK n \in free : free' = free \ {n} /\ node' = [node EXCEPT ![t] = n]
    BY <1>6
  <2> QED BY <1>1, <1>4, <2>1, <2>2
<1>7. CASE Links(t) /\ free' = free /\ node' = [node EXCEPT ![t] = NULL]
  <2>1. \A n : InQueue(n)' <=> InQueue(n) \/ n = node[t]
    BY <1>7, InQueueAfter
  <2>2. node[t] \in Nodes /\ node[t] # NULL
    BY <1>7, LinksLast, NodeAssumption
  <2> QED BY <1>1, <1>4, <1>7, <2>1, <2>2
<1>8. CASE Takes(t) /\ free' = free /\ node' = [node EXCEPT ![t] = GetRealAddr(head[t])]
  <2>1. \A n : InQueue(n)' <=> InQueue(n) /\ n # GetRealAddr(head[t])
    BY <1>8, InQueueAfter
  <2>2. PICK q \in Queues : queue[t] = q
    BY <1>8 DEF QueueInv, PerThread, InCall, Takes, DeqCas, At
  <2>3. GetRealAddr(head[t]) = chain[q][1]
    BY <1>8, <2>2, TakesWords
  <2>4. InQueue(GetRealAddr(head[t]))
    <3>1. 1 \in DOMAIN chain[q]
      BY <1>1, Places
    <3> QED BY <2>3, <3>1 DEF InQueue
  <2> QED BY <1>1, <1>4, <1>8, <2>1, <2>4
<1>9. CASE DeqFree(t) /\ free' = free \cup {node[t]} /\ node' = [node EXCEPT ![t] = NULL]
  <2>1. \A n : InQueue(n)' <=> InQueue(n)
    BY <1>9, InQueueAfter DEF DeqFree, Links, Takes, EnqLink, DeqCas, At
  <2>2. node[t] # NULL
    BY <1>1, <1>9 DEF Owning, DeqFree, At
  <2> QED BY <1>1, <1>4, <1>9, <2>1, <2>2
<1> QED BY <1>5, <1>6, <1>7, <1>8, <1>9, NodeMoves

\* Who is in a call has a queue, and who is not has read nothing.
LEMMA InCallKept ==
  ASSUME QueueInv, NEW t \in Threads, Step(t), NEW u \in Threads
  PROVE  InCall(u)'
<1>0. /\ TypeOK /\ InCall(t) /\ InCall(u)
      /\ pc \in [Threads -> Labels] /\ queue \in [Threads -> Queues \cup {NULL}]
      /\ tail \in [Threads -> Words] /\ head \in [Threads -> Words]
  BY Typed DEF QueueInv, PerThread
<1>1. CASE u # t
  BY <1>0, <1>1, OthersStay DEF InCall
<1>2. InCall(t)'
  <2>1. ASSUME NEW q \in Queues, Enqueue(t, q) \/ Dequeue(t, q) PROVE InCall(t)'
    <3>1. pc[t] = "idle" /\ UNCHANGED <<tail, head>> /\ queue'[t] = q
      BY <1>0, <2>1 DEF Enqueue, Dequeue, At
    <3> QED BY <1>0, <3>1 DEF InCall, Calling
  <2>2. CASE EnqAlloc(t) \/ EnqNode(t)
    <3>1. UNCHANGED <<tail, head, queue>> /\ pc[t] \in {"enqAlloc", "enqNode"}
      BY <1>0, <2>2 DEF EnqAlloc, EnqNode, At, locals
    <3> QED BY <1>0, <3>1 DEF InCall, Calling
  <2>3. CASE EnqTail(t) \/ EnqReadFirst(t) \/ DeqTail(t) \/ DeqHead(t) \/ DeqData(t)
    <3>1. /\ queue' = queue /\ pc[t] # "idle"
          /\ pc'[t] \in {"enqNext", "enqIdentifier", "enqAddr", "deqHead", "deqNext", "deqCas"}
      BY <1>0, <2>3 DEF EnqTail, EnqReadFirst, DeqTail, DeqHead, DeqData, Goto, At
    <3> QED BY <1>0, <3>1 DEF InCall, Calling
  <2>4. CASE \/ EnqReadSecond(t) \/ EnqSwing(t) \/ EnqLink(t) \/ EnqAdvance(t) \/ DeqNext(t)
             \/ DeqSwing(t) \/ DeqCas(t)
    <3>1. queue' = queue /\ pc[t] # "idle"
      BY <1>0, <2>4 DEF EnqReadSecond, EnqSwing, EnqLink, EnqAdvance, DeqNext, DeqSwing, DeqCas, At
    <3>2. \/ pc'[t] \in {"enqSwing", "enqLink", "enqAdvance", "deqSwing", "deqData"}
          \/ tail'[t] = ZeroWord /\ head'[t] = ZeroWord
      BY <1>0, <2>4 DEF EnqReadSecond, EnqSwing, EnqLink, EnqAdvance, DeqNext, DeqSwing, DeqCas, Goto, Forget
    <3> QED BY <1>0, <3>1, <3>2 DEF InCall, Calling
  <2>5. CASE EnqCount(t) \/ DeqRestore(t) \/ DeqFree(t)
    <3>1. /\ tail' = tail /\ head' = head
          /\ pc[t] \in {"enqCount", "deqRestore", "deqFree"} /\ pc'[t] = "idle"
      BY <1>0, <2>5 DEF EnqCount, DeqRestore, DeqFree, Goto, At
    <3>2. tail'[t] = ZeroWord /\ head'[t] = ZeroWord
      BY <1>0, <3>1 DEF InCall, Calling
    <3> QED BY <3>1, <3>2 DEF InCall
  <2> QED BY <2>1, <2>2, <2>3, <2>4, <2>5 DEF Step
<1> QED BY <1>1, <1>2

\* Exactly the threads between Alloc and the compare-exchange of Enqueue, or between that
\* of Dequeue and Free, own a node.
LEMMA OwningKept ==
  ASSUME QueueInv, NEW t \in Threads, Step(t), NEW u \in Threads
  PROVE  Owning(u)'
<1>0. /\ TypeOK /\ Owning(t) /\ Owning(u) /\ Reading(t)
      /\ pc \in [Threads -> Labels] /\ node \in [Threads -> Nodes \cup {NULL}] /\ free \subseteq Nodes
  BY Typed DEF QueueInv, PerThread
<1>1. CASE u # t
  BY <1>0, <1>1, OthersStay DEF Owning
<1>2. Owning(t)'
  <2>1. ASSUME NEW q \in Queues, Enqueue(t, q) \/ Dequeue(t, q) PROVE Owning(t)'
    BY <1>0, <2>1 DEF Owning, Building, Enqueue, Dequeue, Goto, At
  <2>2. CASE EnqAlloc(t)
    BY <1>0, <2>2, NodeAssumption DEF Owning, Building, EnqAlloc, Goto, At
  <2>3. CASE EnqNode(t) \/ EnqTail(t) \/ EnqReadFirst(t) \/ EnqReadSecond(t) \/ EnqSwing(t)
    <3>1. node' = node /\ pc[t] \in Building /\ pc'[t] \in Building
      BY <1>0, <2>3 DEF Building, EnqNode, EnqTail, EnqReadFirst, EnqReadSecond, EnqSwing, Goto, At, locals
    <3> QED BY <1>0, <3>1 DEF Owning
  <2>4. CASE EnqAdvance(t) \/ EnqCount(t) \/ DeqRestore(t) \/ DeqTail(t) \/ DeqHead(t) \/ DeqNext(t)
             \/ DeqSwing(t) \/ DeqData(t)
    <3>1. /\ node' = node /\ pc[t] \notin Building \cup {"deqFree"}
          /\ pc'[t] \notin Building \cup {"deqFree"}
      BY <1>0, <2>4 DEF Building, EnqAdvance, EnqCount, DeqRestore, DeqTail, DeqHead, DeqNext,
                        DeqSwing, DeqData, Goto, At
    <3> QED BY <1>0, <3>1 DEF Owning
  <2>5. CASE EnqLink(t)
    BY <1>0, <2>5 DEF Owning, Building, EnqLink, Goto, At
  <2>6. CASE DeqCas(t)
    <3>1. GetRealAddr(head[t]) # NULL
      BY <1>0, <2>6, NodeAssumption DEF Reading, HasHead, DeqCas, At
    <3> QED BY <1>0, <2>6, <3>1 DEF Owning, Building, DeqCas, Goto, At
  <2>7. CASE DeqFree(t)
    BY <1>0, <2>7 DEF Owning, Building, DeqFree, Goto, At
  <2> QED BY <2>1, <2>2, <2>3, <2>4, <2>5, <2>6, <2>7 DEF Step
<1> QED BY <1>1, <1>2

\* Nobody writes into a node that another thread owns.
LEMMA OwnedStays ==
  ASSUME QueueInv, NEW t \in Threads, Step(t), NEW u \in Threads, u # t, node[u] # NULL
  PROVE  next'[node[u]] = next[node[u]] /\ data'[node[u]] = data[node[u]]
<1>0. /\ TypeOK /\ NodeOnce /\ Owning(t)
      /\ next \in [Nodes -> [identifier : Queues \cup {NULL}, metaAddr : Words]]
      /\ data \in [Nodes -> Words \cup {Nothing}]
      /\ node \in [Threads -> Nodes \cup {NULL}] /\ free \subseteq Nodes
  BY Typed DEF QueueInv, PerThread
<1>1. /\ node[u] \in Nodes /\ node[u] \notin free /\ ~InQueue(node[u])
      /\ node[t] # NULL => node[t] # node[u]
  BY <1>0 DEF NodeOnce
<1>2. ASSUME NEW q \in Queues, Enqueue(t, q) \/ Dequeue(t, q)
      PROVE next' = next /\ data' = data
  BY <1>2 DEF Enqueue, Dequeue
<1>3. CASE EnqAlloc(t)
  <2>1. PICK n \in free : /\ next' = [next EXCEPT ![n].identifier = queue[t]]
                          /\ \E w : data' = [data EXCEPT ![n] = w]
    BY <1>3 DEF EnqAlloc
  <2> QED BY <1>0, <1>1, <2>1
<1>4. CASE EnqNode(t)
  <2>1. node[t] # NULL
    BY <1>0, <1>4 DEF Owning, Building, EnqNode, At
  <2> QED BY <1>0, <1>1, <1>4, <2>1 DEF EnqNode
<1>5. CASE DeqFree(t)
  <2>1. node[t] # NULL
    BY <1>0, <1>5 DEF Owning, Building, DeqFree, At
  <2> QED BY <1>0, <1>1, <1>5, <2>1 DEF DeqFree
<1>6. CASE Links(t)
  <2>1. PICK q \in Queues : queue[t] = q
    BY <1>6, LinksLast
  <2>2. GetRealAddr(tail[t]) = chain[q][Last(q)] /\ Last(q) \in DOMAIN chain[q]
    BY <1>0, <1>6, <2>1, LinksLast, Places
  <2>3. GetRealAddr(tail[t]) # node[u]
    BY <1>1, <2>2 DEF InQueue
  <2> QED BY <1>0, <1>1, <1>6, <2>3 DEF Links, EnqLink
<1>7. CASE ~Links(t) /\ EnqLink(t)
  BY <1>7 DEF Links, EnqLink
<1>8. CASE EnqTail(t) \/ EnqReadFirst(t) \/ EnqReadSecond(t) \/ EnqSwing(t) \/ EnqAdvance(t) \/ EnqCount(t)
  BY <1>8 DEF EnqTail, EnqReadFirst, EnqReadSecond, EnqSwing, EnqAdvance, EnqCount, shared
<1>9. CASE DeqRestore(t) \/ DeqTail(t) \/ DeqHead(t) \/ DeqNext(t) \/ DeqSwing(t) \/ DeqData(t) \/ DeqCas(t)
  BY <1>9 DEF DeqRestore, DeqTail, DeqHead, DeqNext, DeqSwing, DeqData, DeqCas, shared
<1> QED BY <1>2, <1>3, <1>4, <1>5, <1>6, <1>7, <1>8, <1>9 DEF Step

\* What an Enqueue has built fits its node until it is linked.
LEMMA BuiltKept ==
  ASSUME QueueInv, NEW t \in Threads, Step(t), NEW u \in Threads
  PROVE  Built(u)'
<1>0. /\ TypeOK /\ Owning(t) /\ Owning(u) /\ Built(t) /\ Built(u)
      /\ next \in [Nodes -> [identifier : Queues \cup {NULL}, metaAddr : Words]]
      /\ data \in [Nodes -> Words \cup {Nothing}] /\ new \in [Threads -> Words]
      /\ queue \in [Threads -> Queues \cup {NULL}]
      /\ node \in [Threads -> Nodes \cup {NULL}] /\ free \subseteq Nodes /\ pc \in [Threads -> Labels]
  BY Typed DEF QueueInv, PerThread
<1>1. CASE u # t
  <2>1. /\ pc'[u] = pc[u] /\ queue'[u] = queue[u] /\ node'[u] = node[u] /\ new'[u] = new[u]
    BY <1>0, <1>1, OthersStay
  <2>2. pc[u] \in Building => next'[node[u]] = next[node[u]] /\ data'[node[u]] = data[node[u]]
    BY <1>0, <1>1, OwnedStays DEF Owning
  <2> QED BY <1>0, <2>1, <2>2 DEF Built, GetRealAddr, GetMetaAddr, ExtractMetaCnt
<1>2. Built(t)'
  <2>1. CASE EnqAlloc(t)
    <3>1. PICK n \in free :
             /\ node' = [node EXCEPT ![t] = n]
             /\ new' = [new EXCEPT ![t] = GetMetaAddr(ExtractMetaCnt(new[t]), n)]
             /\ data' = [data EXCEPT ![n] = GetMetaAddr(ExtractMetaCnt(new[t]), n)]
             /\ next' = [next EXCEPT ![n].identifier = queue[t]]
      BY <2>1 DEF EnqAlloc
    <3>2. n \in Nodes /\ queue' = queue /\ pc'[t] = "enqNode"
      BY <1>0, <2>1 DEF EnqAlloc, Goto
    <3>3. /\ node'[t] = n /\ new'[t] = GetMetaAddr(ExtractMetaCnt(new[t]), n)
          /\ data'[n] = GetMetaAddr(ExtractMetaCnt(new[t]), n) /\ next'[n].identifier = queue[t]
      BY <1>0, <3>1, <3>2
    <3>4. GetRealAddr(new'[t]) = n
      BY <3>3 DEF GetRealAddr, GetMetaAddr
    <3> QED BY <3>2, <3>3, <3>4 DEF Built, GetRealAddr, GetMetaAddr, ExtractMetaCnt
  <2>2. CASE EnqNode(t)
    <3>1. /\ node[t] \in Nodes /\ pc[t] = "enqNode" /\ pc[t] \in Building
      BY <1>0, <2>2 DEF Owning, Building, EnqNode, At
    <3>2. /\ next'[node[t]].metaAddr = GetMetaAddr(ExtractMetaCnt(new[t]), NULL)
          /\ next'[node[t]].identifier = next[node[t]].identifier
          /\ UNCHANGED <<data, node, new, queue>>
      BY <1>0, <2>2, <3>1 DEF EnqNode, locals
    <3> QED BY <1>0, <3>1, <3>2 DEF Built, GetRealAddr, GetMetaAddr, ExtractMetaCnt
  <2>3. CASE EnqTail(t) \/ EnqReadFirst(t) \/ EnqReadSecond(t) \/ EnqSwing(t)
             \/ (EnqLink(t) /\ ~Links(t))
    <3>1. /\ UNCHANGED <<next, data, node, new, queue>>
          /\ pc[t] \in Building /\ pc[t] # "enqNode"
      BY <1>0, <2>3 DEF EnqTail, EnqReadFirst, EnqReadSecond, EnqSwing, EnqLink, Links, Building, At, shared
    <3> QED BY <1>0, <3>1 DEF Built, GetRealAddr, GetMetaAddr, ExtractMetaCnt
  <2>4. CASE Links(t) \/ EnqAdvance(t) \/ EnqCount(t)
    <3>1. pc'[t] \notin Building
      BY <1>0, <2>4 DEF Links, EnqLink, EnqAdvance, EnqCount, Building, Goto
    <3> QED BY <3>1 DEF Built
  <2>5. ASSUME NEW q \in Queues, Enqueue(t, q) \/ Dequeue(t, q) PROVE Built(t)'
    BY <1>0, <2>5 DEF Built, Building, Enqueue, Dequeue, Goto
  <2>6. CASE DeqRestore(t) \/ DeqTail(t) \/ DeqHead(t) \/ DeqNext(t)
             \/ DeqSwing(t) \/ DeqData(t) \/ DeqCas(t) \/ DeqFree(t)
    <3>1. pc'[t] \notin Building
      BY <1>0, <2>6 DEF DeqRestore, DeqTail, DeqHead, DeqNext, DeqSwing, DeqData, DeqCas, DeqFree,
                        Building, Goto
    <3> QED BY <3>1 DEF Built
  <2> QED BY <2>1, <2>2, <2>3, <2>4, <2>5, <2>6 DEF Step
<1> QED BY <1>1, <1>2

\* What a call has read leads to nodes.
LEMMA ReadingKept ==
  ASSUME QueueInv, NEW t \in Threads, Step(t), NEW u \in Threads
  PROVE  Reading(u)'
<1>0. /\ TypeOK /\ InCall(t) /\ Reading(t) /\ Reading(u) /\ Built(t) /\ Owning(t)
      /\ pc \in [Threads -> Labels] /\ new \in [Threads -> Words]
      /\ tail \in [Threads -> Words] /\ head \in [Threads -> Words]
      /\ seen \in [Threads -> [identifier : Queues \cup {NULL}, metaAddr : Words]]
      /\ next \in [Nodes -> [identifier : Queues \cup {NULL}, metaAddr : Words]]
      /\ metaHead \in [Queues -> Counts \X Nodes] /\ metaTail \in [Queues -> Counts \X Nodes]
      /\ node \in [Threads -> Nodes \cup {NULL}]
  BY Typed DEF QueueInv, PerThread
<1>1. CASE u # t
  BY <1>0, <1>1, OthersStay DEF Reading, HasTail, HasHead, HasNext, GetRealAddr, GetMetaAddr,
                                ExtractMetaCnt, QNodePtr
<1>2. Reading(t)'
  <2>1. CASE EnqTail(t)
    <3>1. queue[t] \in Queues
      BY <1>0, <2>1 DEF InCall, EnqTail, At
    <3>2. tail'[t] = metaTail[queue[t]] /\ pc'[t] = "enqNext" /\ GetRealAddr(metaTail[queue[t]]) \in Nodes
      BY <1>0, <2>1, <3>1 DEF EnqTail, Goto, GetRealAddr
    <3> QED BY <3>2 DEF Reading, HasTail, HasHead, HasNext, GetRealAddr
  <2>2. CASE EnqReadFirst(t)
    <3>1. tail' = tail /\ pc'[t] \in {"enqAddr", "enqIdentifier"} /\ pc[t] = "enqNext"
      BY <1>0, <2>2 DEF EnqReadFirst, Goto, At
    <3> QED BY <1>0, <3>1 DEF Reading, HasTail, HasHead, HasNext, GetRealAddr
  <2>3. CASE EnqReadSecond(t)
    <3>1. PICK n : /\ n = IF At(t, "enqAddr") THEN [seen[t] EXCEPT !.metaAddr = TailNext(t).metaAddr]
                                              ELSE [seen[t] EXCEPT !.identifier = TailNext(t).identifier]
                   /\ \/ /\ SwingFirst(t, n) \/ StillTail(t, n)
                         /\ Goto(t, IF SwingFirst(t, n) THEN "enqSwing" ELSE "enqLink")
                         /\ seen' = [seen EXCEPT ![t] = n]
                         /\ UNCHANGED <<tail, head>>
                      \/ Goto(t, "enqTail")
      BY <2>3 DEF EnqReadSecond
    <3>2. GetRealAddr(tail[t]) \in Nodes
      BY <1>0, <2>3 DEF Reading, HasTail, EnqReadSecond
    <3>3. n \in [identifier : Queues \cup {NULL}, metaAddr : Words]
      BY <1>0, <3>1, <3>2 DEF TailNext
    <3>4. CASE Goto(t, "enqTail")
      <4>1. pc'[t] = "enqTail"
        BY <1>0, <3>4 DEF Goto
      <4> QED BY <4>1 DEF Reading, HasTail, HasHead, HasNext
    <3>5. CASE /\ SwingFirst(t, n) /\ pc'[t] = "enqSwing"
               /\ seen' = [seen EXCEPT ![t] = n] /\ UNCHANGED <<tail, head>>
      <4>1. seen'[t] = n /\ GetRealAddr(n.metaAddr) \in Nodes
        <5>1. n.metaAddr \in Words
          BY <3>3
        <5> QED BY <1>0, <3>5, <5>1, NodeWord DEF SwingFirst
      <4> QED BY <3>2, <3>5, <4>1 DEF Reading, HasTail, HasHead, HasNext, GetRealAddr
    <3>6. CASE /\ ~SwingFirst(t, n) /\ StillTail(t, n) /\ pc'[t] = "enqLink"
               /\ seen' = [seen EXCEPT ![t] = n] /\ UNCHANGED <<tail, head>>
      <4>1. /\ GetRealAddr(n.metaAddr) = NULL /\ ExtractMetaCnt(n.metaAddr) = ExtractMetaCnt(tail[t])
            /\ n.identifier = queue[t]
        BY <3>6 DEF SwingFirst, StillTail
      <4>2. n.metaAddr = GetMetaAddr(ExtractMetaCnt(tail[t]), NULL)
        <5>1. n.metaAddr \in Words /\ tail[t] \in Words
          BY <1>0, <3>3
        <5>2. /\ GetMetaAddr(ExtractMetaCnt(tail[t]), NULL) \in Words
              /\ ExtractMetaCnt(GetMetaAddr(ExtractMetaCnt(tail[t]), NULL)) = ExtractMetaCnt(tail[t])
              /\ GetRealAddr(GetMetaAddr(ExtractMetaCnt(tail[t]), NULL)) = NULL
          BY <5>1, NodeWord, WordParts
        <5> QED BY <4>1, <5>1, <5>2, SameWord
      <4>3. n = QNodePtr(queue[t], GetMetaAddr(ExtractMetaCnt(tail[t]), NULL))
        BY <3>3, <4>1, <4>2 DEF QNodePtr
      <4>4. seen'[t] = n /\ queue' = queue /\ tail' = tail
        BY <1>0, <2>3, <3>6 DEF EnqReadSecond
      <4> QED BY <3>2, <3>6, <4>3, <4>4 DEF Reading, HasTail, HasHead, HasNext, GetRealAddr, GetMetaAddr,
                                            ExtractMetaCnt, QNodePtr
    <3> QED BY <1>0, <3>1, <3>4, <3>5, <3>6 DEF Goto
  <2>4. CASE Links(t)
    <3>1. /\ tail' = tail /\ new' = new /\ pc'[t] = "enqAdvance" /\ pc[t] = "enqLink"
          /\ GetRealAddr(new[t]) \in Nodes
      BY <1>0, <2>4, LinksLast DEF Links, EnqLink, Goto, At
    <3> QED BY <1>0, <3>1 DEF Reading, HasTail, HasHead, HasNext, GetRealAddr
  <2>5. CASE DeqHead(t)
    <3>1. queue[t] \in Queues
      BY <1>0, <2>5 DEF InCall, DeqHead, At
    <3>2. head'[t] = metaHead[queue[t]] /\ pc'[t] = "deqNext" /\ GetRealAddr(metaHead[queue[t]]) \in Nodes
      BY <1>0, <2>5, <3>1 DEF DeqHead, Goto, GetRealAddr
    <3> QED BY <3>2 DEF Reading, HasTail, HasHead, HasNext, GetRealAddr
  <2>6. CASE DeqNext(t)
    <3> DEFINE w == next[GetRealAddr(head[t])].metaAddr
    <3>1. GetRealAddr(head[t]) \in Nodes /\ w \in Words
      BY <1>0, <2>6 DEF Reading, HasHead, DeqNext, At
    <3>2. CASE GetRealAddr(w) = NULL
      <4>1. pc'[t] = "deqTail"
        BY <1>0, <2>6, <3>2 DEF DeqNext, Goto
      <4> QED BY <4>1 DEF Reading, HasTail, HasHead, HasNext
    <3>3. CASE GetRealAddr(w) # NULL
      <4>1. /\ UNCHANGED <<tail, head>> /\ seen'[t].metaAddr = w
            /\ pc'[t] = IF tail[t] = head[t] THEN "deqSwing" ELSE "deqData"
        BY <1>0, <2>6, <3>1, <3>3 DEF DeqNext, Goto
      <4>2. GetRealAddr(w) \in Nodes
        BY <3>1, <3>3, NodeWord
      <4> QED BY <3>1, <4>1, <4>2 DEF Reading, HasTail, HasHead, HasNext, GetRealAddr
    <3> QED BY <3>2, <3>3
  <2>7. CASE DeqData(t)
    <3>1. UNCHANGED <<tail, head, seen>> /\ pc[t] = "deqData" /\ pc'[t] = "deqCas"
      BY <1>0, <2>7 DEF DeqData, Goto, At
    <3> QED BY <1>0, <3>1 DEF Reading, HasTail, HasHead, HasNext, GetRealAddr
  <2>8. ASSUME NEW q \in Queues, Enqueue(t, q) \/ Dequeue(t, q) PROVE Reading(t)'
    BY <1>0, <2>8 DEF Reading, HasTail, HasHead, HasNext, Enqueue, Dequeue, Goto
  <2>9. CASE EnqAlloc(t) \/ EnqNode(t) \/ EnqSwing(t) \/ EnqAdvance(t) \/ EnqCount(t)
             \/ (EnqLink(t) /\ ~Links(t))
    <3>1. pc'[t] \in {"enqNode", "enqTail", "enqCount", "idle"}
      BY <1>0, <2>9 DEF EnqAlloc, EnqNode, EnqSwing, EnqAdvance, EnqCount, EnqLink, Links, Goto
    <3> QED BY <3>1 DEF Reading, HasTail, HasHead, HasNext
  <2>10. CASE DeqRestore(t) \/ DeqTail(t) \/ DeqSwing(t) \/ DeqCas(t) \/ DeqFree(t)
    <3>1. pc'[t] \in {"idle", "deqHead", "deqTail", "deqFree"}
      BY <1>0, <2>10 DEF DeqRestore, DeqTail, DeqSwing, DeqCas, DeqFree, Goto
    <3> QED BY <3>1 DEF Reading, HasTail, HasHead, HasNext
  <2> QED BY <2>1, <2>2, <2>3, <2>4, <2>5, <2>6, <2>7, <2>8, <2>9, <2>10 DEF Step
<1> QED BY <1>1, <1>2

-----------------------------------------------------------------------------
(* What a call has read in its queue *)

\* The same after the step
BehindAfter(q, word, ahead) ==
    \A i \in 1 .. LastAfter(q) :
        word = WordAfter(q, i) => i < LastAfter(q) /\ ahead = WordAfter(q, i + 1)

\* What lies behind a word in a queue stays there until the word itself comes back.
LEMMA BehindStays ==
  ASSUME QueueInv, NEW t \in Threads, Step(t), NEW q \in Queues, NEW w, NEW a,
         Behind(q, w, a), Links(t) /\ queue[t] = q => new[t] # w
  PROVE  BehindAfter(q, w, a)
<1>1. /\ TypeOK /\ Last(q) \in Nat
  BY Places DEF QueueInv
<1>2. CASE Stays(q)
  <2>1. LastAfter(q) = Last(q)
    BY <1>1, <1>2, Kinds
  <2>2. \A i \in 1 .. Last(q) + 1 : WordAfter(q, i) = Word(q, i)
    BY <1>2 DEF Stays
  <2>3. \A i \in 1 .. Last(q) : i \in 1 .. Last(q) + 1 /\ i + 1 \in 1 .. Last(q) + 1
    BY <1>1
  <2> QED BY <2>1, <2>2, <2>3 DEF Behind, BehindAfter
<1>3. CASE Links(t) /\ queue[t] = q
  <2>1. Grows(q, new[t], node[t]) /\ node[t] \in Nodes /\ new[t] # w
    BY <1>3, StepKinds
  <2>2. LastAfter(q) = Last(q) + 1
    BY <1>1, <2>1, Kinds
  <2>3. \A i \in 1 .. Last(q) : WordAfter(q, i) = Word(q, i)
    BY <2>1 DEF Grows
  <2>4. WordAfter(q, Last(q) + 1) = new[t]
    BY <2>1 DEF Grows
  <2>5. ASSUME NEW i \in 1 .. Last(q) + 1, w = WordAfter(q, i)
        PROVE  i < Last(q) + 1 /\ a = WordAfter(q, i + 1)
    <3>1. i \in 1 .. Last(q)
      <4>1. i # Last(q) + 1
        BY <2>1, <2>4, <2>5
      <4> QED BY <1>1, <4>1
    <3>2. i < Last(q) /\ a = Word(q, i + 1)
      BY <2>3, <2>5, <3>1 DEF Behind
    <3>3. i + 1 \in 1 .. Last(q)
      BY <1>1, <3>1, <3>2
    <3> QED BY <1>1, <2>3, <3>1, <3>2, <3>3
  <2> QED BY <2>2, <2>5 DEF BehindAfter
<1>4. CASE Takes(t) /\ queue[t] = q
  <2>1. Shrinks(q)
    BY <1>4, StepKinds
  <2>2. LastAfter(q) = Last(q) - 1 /\ Last(q) > 1
    BY <1>1, <2>1, Kinds
  <2>3. \A i \in 1 .. Last(q) : WordAfter(q, i) = Word(q, i + 1)
    BY <2>1 DEF Shrinks
  <2>4. ASSUME NEW i \in 1 .. Last(q) - 1, w = WordAfter(q, i)
        PROVE  i < Last(q) - 1 /\ a = WordAfter(q, i + 1)
    <3>1. i \in 1 .. Last(q) /\ i + 1 \in 1 .. Last(q)
      BY <1>1
    <3>2. i + 1 < Last(q) /\ a = Word(q, (i + 1) + 1)
      BY <2>3, <2>4, <3>1 DEF Behind
    <3>3. i < Last(q) - 1
      BY <1>1, <3>2
    <3> QED BY <2>3, <3>1, <3>2, <3>3
  <2> QED BY <2>2, <2>4 DEF BehindAfter
<1> QED BY <1>2, <1>3, <1>4, StepKinds

\* A word in next_ that leads on is behind the word under which its node was read.
LEMMA ReadNext ==
  ASSUME QueueInv, NEW q \in Queues, NEW w \in Words, GetRealAddr(w) \in Nodes,
         GetRealAddr(next[GetRealAddr(w)].metaAddr) # NULL
  PROVE  Behind(q, w, next[GetRealAddr(w)].metaAddr)
<1>1. TypeOK /\ Spelled /\ NodeOnce
  BY DEF QueueInv
<1>2. ASSUME NEW i \in 1 .. Last(q), w = Word(q, i)
      PROVE  i < Last(q) /\ next[GetRealAddr(w)].metaAddr = Word(q, i + 1)
  <2>1. GetRealAddr(w) = chain[q][i]
    BY <1>1, <1>2 DEF Spelled
  <2>2. next[GetRealAddr(w)].metaAddr = Word(q, i + 1)
    BY <1>1, <2>1, Places
  <2> QED BY <1>1, <2>2, WordsApart
<1> QED BY <1>2 DEF Behind

\* What a call has read behind a word of its queue stays true.
LEMMA FreshKept ==
  ASSUME QueueInv, NEW t \in Threads, Step(t), NEW u \in Threads
  PROVE  Fresh(u)'
<1>0. /\ TypeOK /\ Spelled /\ NodeOnce /\ NeverBack
      /\ InCall(t) /\ InCall(u) /\ Reading(t) /\ Fresh(t) /\ Fresh(u)
      /\ pc \in [Threads -> Labels] /\ new \in [Threads -> Words] /\ queue \in [Threads -> Queues \cup {NULL}]
      /\ tail \in [Threads -> Words] /\ head \in [Threads -> Words]
      /\ seen \in [Threads -> [identifier : Queues \cup {NULL}, metaAddr : Words]]
      /\ next \in [Nodes -> [identifier : Queues \cup {NULL}, metaAddr : Words]]
      /\ data \in [Nodes -> Words \cup {Nothing}] /\ value \in [Threads -> Words \cup {Nothing}]
  BY Typed DEF QueueInv, PerThread
<1> DEFINE FreshAfter(q, v) ==
       /\ pc'[v] = "enqIdentifier" /\ GetRealAddr(seen'[v].metaAddr) # NULL =>
             BehindAfter(q, tail'[v], seen'[v].metaAddr)
       /\ pc'[v] = "enqSwing" => BehindAfter(q, tail'[v], seen'[v].metaAddr)
       /\ pc'[v] = "enqAdvance" => BehindAfter(q, tail'[v], new'[v])
       /\ pc'[v] \in {"deqSwing", "deqData", "deqCas"} => BehindAfter(q, head'[v], seen'[v].metaAddr)
       /\ pc'[v] = "deqCas" => BehindAfter(q, head'[v], value'[v])
<1>1. SUFFICES FreshAfter(queue'[u], u)
  BY DEF Fresh, Behind, BehindAfter, Word, WordAfter, Last, LastAfter, GetRealAddr
<1>2. CASE u # t
  <2>1. /\ pc'[u] = pc[u] /\ queue'[u] = queue[u] /\ new'[u] = new[u] /\ tail'[u] = tail[u]
        /\ head'[u] = head[u] /\ seen'[u] = seen[u] /\ value'[u] = value[u]
    BY <1>0, <1>2, OthersStay
  <2>2. CASE pc[u] = "idle"
    BY <2>1, <2>2
  <2>3. CASE pc[u] # "idle"
    <3>1. PICK q \in Queues : queue[u] = q
      BY <1>0, <2>3 DEF InCall
    <3>2. Links(t) /\ queue[t] = q => new[t] # tail[u] /\ new[t] # head[u]
      <4>1. Links(t) => pc[t] \in Building
        BY DEF Links, EnqLink, At, Building
      <4> QED BY <1>0, <3>1, <4>1 DEF NeverBack
    <3>3. \A a : Behind(q, tail[u], a) => BehindAfter(q, tail[u], a)
      BY <3>2, BehindStays
    <3>4. \A a : Behind(q, head[u], a) => BehindAfter(q, head[u], a)
      BY <3>2, BehindStays
    <3>5. FreshAfter(q, u)
      BY <1>0, <2>1, <3>1, <3>3, <3>4 DEF Fresh
    <3> QED BY <2>1, <3>1, <3>5
  <2> QED BY <2>2, <2>3
<1>3. FreshAfter(queue'[t], t)
  <2>1. CASE EnqReadFirst(t)
    <3>1. PICK q \in Queues : queue[t] = q
      BY <1>0, <2>1 DEF InCall, EnqReadFirst, At
    <3>2. /\ GetRealAddr(tail[t]) \in Nodes /\ tail[t] \in Words
      BY <1>0, <2>1 DEF Reading, HasTail, EnqReadFirst, At
    <3>3. /\ tail' = tail /\ queue' = queue /\ ~Links(t)
          /\ \/ pc'[t] = "enqIdentifier" /\ seen'[t].metaAddr = next[GetRealAddr(tail[t])].metaAddr
             \/ pc'[t] = "enqAddr"
      BY <1>0, <2>1 DEF EnqReadFirst, Goto, TailNext, Links, EnqLink, At
    <3>4. GetRealAddr(next[GetRealAddr(tail[t])].metaAddr) # NULL =>
             BehindAfter(q, tail[t], next[GetRealAddr(tail[t])].metaAddr)
      BY <3>1, <3>2, <3>3, ReadNext, BehindStays
    <3> QED BY <3>1, <3>3, <3>4
  <2>2. CASE EnqReadSecond(t)
    <3>1. PICK q \in Queues : queue[t] = q
      BY <1>0, <2>2 DEF InCall, EnqReadSecond
    <3>2. /\ GetRealAddr(tail[t]) \in Nodes /\ tail[t] \in Words
      BY <1>0, <2>2 DEF Reading, HasTail, EnqReadSecond
    <3>3. PICK n : /\ n = IF At(t, "enqAddr") THEN [seen[t] EXCEPT !.metaAddr = TailNext(t).metaAddr]
                                              ELSE [seen[t] EXCEPT !.identifier = TailNext(t).identifier]
                   /\ \/ /\ SwingFirst(t, n) \/ StillTail(t, n)
                         /\ Goto(t, IF SwingFirst(t, n) THEN "enqSwing" ELSE "enqLink")
                         /\ seen' = [seen EXCEPT ![t] = n]
                         /\ UNCHANGED <<tail, head>>
                      \/ Goto(t, "enqTail")
      BY <2>2 DEF EnqReadSecond
    <3>4. queue' = queue /\ ~Links(t) /\ pc[t] \in {"enqAddr", "enqIdentifier"}
      BY <2>2 DEF EnqReadSecond, Links, EnqLink, At
    <3>5. CASE pc'[t] \in {"enqTail", "enqLink"}
      BY <3>5
    <3>6. CASE /\ SwingFirst(t, n) /\ pc'[t] = "enqSwing"
               /\ seen' = [seen EXCEPT ![t] = n] /\ UNCHANGED <<tail, head>>
      <4>1. seen'[t] = n /\ GetRealAddr(n.metaAddr) # NULL
        BY <1>0, <3>6 DEF SwingFirst
      <4>2. Behind(q, tail[t], n.metaAddr)
        <5>1. CASE pc[t] = "enqAddr"
          <6>1. n.metaAddr = next[GetRealAddr(tail[t])].metaAddr
            BY <1>0, <3>3, <5>1 DEF At, TailNext
          <6> QED BY <3>2, <4>1, <6>1, ReadNext
        <5>2. CASE pc[t] = "enqIdentifier"
          <6>1. n.metaAddr = seen[t].metaAddr
            BY <1>0, <3>3, <5>2 DEF At
          <6> QED BY <1>0, <3>1, <4>1, <5>2, <6>1 DEF Fresh
        <5> QED BY <3>4, <5>1, <5>2
      <4>3. BehindAfter(q, tail[t], n.metaAddr)
        BY <3>4, <4>2, BehindStays
      <4> QED BY <3>1, <3>4, <3>6, <4>1, <4>3
    <3>7. pc' = [pc EXCEPT ![t] = "enqTail"] \/ pc' = [pc EXCEPT ![t] = IF SwingFirst(t, n) THEN "enqSwing" ELSE "enqLink"]
      BY <3>3 DEF Goto
    <3> QED BY <1>0, <3>3, <3>5, <3>6, <3>7 DEF Goto
  <2>3. CASE Links(t)
    <3>1. PICK q \in Queues : queue[t] = q
      BY <2>3, LinksLast
    <3>2. /\ tail[t] = Word(q, Last(q)) /\ Grows(q, new[t], node[t]) /\ node[t] \in Nodes
      BY <2>3, <3>1, LinksLast, StepKinds
    <3>3. /\ tail' = tail /\ queue' = queue /\ new' = new /\ pc'[t] = "enqAdvance"
      BY <1>0, <2>3 DEF Links, EnqLink, Goto
    <3>4. new[t] # tail[t]
      BY <1>0, <2>3 DEF NeverBack, Building, Links, EnqLink, At
    <3>5. LastAfter(q) = Last(q) + 1 /\ Last(q) \in Nat /\ Last(q) \in 1 .. Last(q)
      BY <1>0, <3>2, Kinds, Places
    <3>6. /\ \A i \in 1 .. Last(q) : WordAfter(q, i) = Word(q, i)
          /\ WordAfter(q, Last(q) + 1) = new[t]
      BY <3>2 DEF Grows
    <3>7. ASSUME NEW i \in 1 .. Last(q) + 1, tail[t] = WordAfter(q, i)
          PROVE  i < Last(q) + 1 /\ new[t] = WordAfter(q, i + 1)
      <4>1. i # Last(q) + 1
        BY <3>4, <3>6, <3>7
      <4>2. i \in 1 .. Last(q) /\ i < Last(q) + 1
        BY <3>5, <4>1
      <4>3. i = Last(q)
        <5>1. Word(q, i) = Word(q, Last(q))
          BY <3>2, <3>6, <3>7, <4>2
        <5>2. \A j, k \in 1 .. Last(q) : Word(q, j) = Word(q, k) => j = k
          BY <1>0, WordsApart
        <5> QED BY <3>5, <4>2, <5>1, <5>2
      <4> QED BY <3>6, <4>2, <4>3
    <3>8. BehindAfter(q, tail[t], new[t])
      BY <3>5, <3>7 DEF BehindAfter
    <3> QED BY <3>1, <3>3, <3>8
  <2>4. CASE DeqNext(t)
    <3> DEFINE w == next[GetRealAddr(head[t])].metaAddr
    <3>1. PICK q \in Queues : queue[t] = q
      BY <1>0, <2>4 DEF InCall, DeqNext, At
    <3>2. GetRealAddr(head[t]) \in Nodes /\ head[t] \in Words
      BY <1>0, <2>4 DEF Reading, HasHead, DeqNext, At
    <3>3. queue' = queue /\ ~Links(t)
      BY <2>4 DEF DeqNext, Links, EnqLink, At
    <3>4. CASE GetRealAddr(w) = NULL
      <4>1. pc'[t] = "deqTail"
        BY <1>0, <2>4, <3>4 DEF DeqNext, Goto
      <4> QED BY <4>1
    <3>5. CASE GetRealAddr(w) # NULL
      <4>1. /\ head' = head /\ seen'[t].metaAddr = w /\ pc'[t] \in {"deqSwing", "deqData"}
        BY <1>0, <2>4, <3>5 DEF DeqNext, Goto
      <4>2. BehindAfter(q, head[t], w)
        BY <3>2, <3>3, <3>5, ReadNext, BehindStays
      <4> QED BY <3>1, <3>3, <4>1, <4>2
    <3> QED BY <3>4, <3>5
  <2>5. CASE DeqData(t)
    <3>1. PICK q \in Queues : queue[t] = q
      BY <1>0, <2>5 DEF InCall, DeqData, At
    <3>2. /\ UNCHANGED <<head, seen, queue>> /\ pc[t] = "deqData" /\ pc'[t] = "deqCas" /\ ~Links(t)
          /\ value'[t] = data[GetRealAddr(seen[t].metaAddr)]
      BY <1>0, <2>5 DEF DeqData, Goto, At, Links, EnqLink
    <3>3. Behind(q, head[t], seen[t].metaAddr)
      BY <1>0, <3>1, <3>2 DEF Fresh
    <3>4. Behind(q, head[t], data[GetRealAddr(seen[t].metaAddr)])
      <4>1. ASSUME NEW i \in 1 .. Last(q), head[t] = Word(q, i)
            PROVE  i < Last(q) /\ data[GetRealAddr(seen[t].metaAddr)] = Word(q, i + 1)
        <5>1. i < Last(q) /\ seen[t].metaAddr = Word(q, i + 1)
          BY <3>3, <4>1 DEF Behind
        <5>2. i + 1 \in 1 .. Last(q) /\ i + 1 > 1
          BY <1>0, <5>1, Places
        <5> QED BY <1>0, <5>1, <5>2 DEF Spelled
      <4> QED BY <4>1 DEF Behind
    <3>5. /\ BehindAfter(q, head[t], seen[t].metaAddr)
          /\ BehindAfter(q, head[t], data[GetRealAddr(seen[t].metaAddr)])
      BY <3>2, <3>3, <3>4, BehindStays
    <3> QED BY <3>1, <3>2, <3>5
  <2>6. ASSUME NEW q \in Queues, Enqueue(t, q) \/ Dequeue(t, q) PROVE FreshAfter(queue'[t], t)
    <3>1. pc'[t] \in {"enqAlloc", "deqRestore", "deqTail"}
      BY <1>0, <2>6 DEF Enqueue, Dequeue, Goto
    <3> QED BY <3>1
  <2>7. CASE \/ EnqAlloc(t) \/ EnqNode(t) \/ EnqTail(t) \/ EnqSwing(t) \/ EnqAdvance(t) \/ EnqCount(t)
             \/ (EnqLink(t) /\ ~Links(t))
    <3>1. pc'[t] \in {"enqNode", "enqTail", "enqNext", "enqCount", "idle"}
      BY <1>0, <2>7 DEF EnqAlloc, EnqNode, EnqTail, EnqSwing, EnqAdvance, EnqCount, EnqLink, Links, Goto
    <3> QED BY <3>1
  <2>8. CASE DeqRestore(t) \/ DeqTail(t) \/ DeqHead(t) \/ DeqSwing(t) \/ DeqCas(t) \/ DeqFree(t)
    <3>1. pc'[t] \in {"idle", "deqHead", "deqNext", "deqTail", "deqFree"}
      BY <1>0, <2>8 DEF DeqRestore, DeqTail, DeqHead, DeqSwing, DeqCas, DeqFree, Goto
    <3> QED BY <3>1
  <2> QED BY <2>1, <2>2, <2>3, <2>4, <2>5, <2>6, <2>7, <2>8 DEF Step
<1> QED BY <1>2, <1>3

-----------------------------------------------------------------------------
(* The tail *)

\* metaTail_ moves by one word, in the queue of the call; and an Enqueue that ends leaves
\* behind no word it had linked its node to.
LEMMA TailMoves ==
  ASSUME QueueInv, NEW t \in Threads, Step(t), NEW q \in Queues
  PROVE  /\ \/ metaTail'[q] = metaTail[q]
            \/ /\ ~Links(t) /\ ~Takes(t)
               /\ Behind(q, metaTail[q], metaTail'[q])
         /\ pc[t] = "enqAdvance" /\ queue[t] = q /\ metaTail[q] = tail[t] =>
               ~Links(t) /\ ~Takes(t) /\ metaTail'[q] # metaTail[q]
<1>0. /\ TypeOK /\ Fresh(t) /\ InCall(t) /\ Reading(t) /\ TailNear /\ Spelled /\ NodeOnce
      /\ metaTail \in [Queues -> Counts \X Nodes] /\ new \in [Threads -> Words]
      /\ pc \in [Threads -> Labels]
  BY Typed DEF QueueInv, PerThread
<1>1. CASE metaTail' = metaTail /\ pc[t] # "enqAdvance"
  BY <1>1
<1>2. CASE EnqSwing(t) \/ DeqSwing(t)
  <2>1. PICK r \in Queues : queue[t] = r
    BY <1>0, <1>2 DEF InCall, EnqSwing, DeqSwing, At
  <2>2. /\ ~Links(t) /\ ~Takes(t) /\ pc[t] # "enqAdvance"
        /\ metaTail' = IF metaTail[r] = tail[t] THEN [metaTail EXCEPT ![r] = seen[t].metaAddr] ELSE metaTail
    BY <1>2, <2>1 DEF EnqSwing, DeqSwing, SwingTail, Links, Takes, EnqLink, DeqCas, At
  <2>3. Behind(r, tail[t], seen[t].metaAddr)
    BY <1>0, <1>2, <2>1 DEF Fresh, Reading, EnqSwing, DeqSwing, At
  <2>4. CASE q = r /\ metaTail[r] = tail[t]
    BY <1>0, <2>2, <2>3, <2>4
  <2>5. CASE ~(q = r /\ metaTail[r] = tail[t])
    BY <1>0, <2>2, <2>5
  <2> QED BY <2>4, <2>5
<1>3. CASE EnqAdvance(t)
  <2>1. PICK r \in Queues : queue[t] = r
    BY <1>0, <1>3 DEF InCall, EnqAdvance, At
  <2>2. /\ ~Links(t) /\ ~Takes(t) /\ pc[t] = "enqAdvance"
        /\ metaTail' = IF metaTail[r] = tail[t] THEN [metaTail EXCEPT ![r] = new[t]] ELSE metaTail
    BY <1>3, <2>1 DEF EnqAdvance, SwingTail, Links, Takes, EnqLink, DeqCas, At
  <2>3. Behind(r, tail[t], new[t])
    BY <1>0, <2>1, <2>2 DEF Fresh
  <2>4. CASE q = r /\ metaTail[r] = tail[t]
    <3>1. metaTail'[q] = new[t] /\ Behind(q, metaTail[q], metaTail'[q])
      BY <1>0, <2>2, <2>3, <2>4
    <3>2. PICK i \in 1 .. Last(q) : metaTail[q] = Word(q, i)
      <4>1. Last(q) \in Nat /\ Last(q) > 0
        BY <1>0, Places
      <4>2. Last(q) \in 1 .. Last(q) /\ (Last(q) > 1 => Last(q) - 1 \in 1 .. Last(q))
        BY <4>1
      <4> QED BY <1>0, <4>2 DEF TailNear
    <3>3. i < Last(q) /\ metaTail'[q] = Word(q, i + 1) /\ i + 1 \in 1 .. Last(q) /\ i # i + 1
      <4>1. i < Last(q) /\ metaTail'[q] = Word(q, i + 1)
        BY <3>1, <3>2 DEF Behind
      <4>2. Last(q) \in Nat
        BY <1>0, Places
      <4> QED BY <4>1, <4>2
    <3>4. metaTail'[q] # metaTail[q]
      BY <1>0, <3>2, <3>3, WordsApart
    <3> QED BY <2>2, <3>1, <3>4
  <2>5. CASE ~(q = r /\ metaTail[r] = tail[t])
    BY <1>0, <2>1, <2>2, <2>5
  <2> QED BY <2>4, <2>5
<1>4. ASSUME NEW r \in Queues, Enqueue(t, r) \/ Dequeue(t, r)
      PROVE  metaTail' = metaTail /\ pc[t] # "enqAdvance"
  BY <1>4 DEF Enqueue, Dequeue, At
<1>5. CASE \/ EnqAlloc(t) \/ EnqNode(t) \/ EnqTail(t) \/ EnqReadFirst(t) \/ EnqReadSecond(t)
           \/ EnqLink(t) \/ EnqCount(t)
  <2>1. metaTail' = metaTail /\ pc[t] # "enqAdvance"
    BY <1>5 DEF EnqAlloc, EnqNode, EnqTail, EnqReadFirst, EnqReadSecond, EnqLink, EnqCount, At, shared
  <2> QED BY <1>1, <2>1
<1>6. CASE DeqRestore(t) \/ DeqTail(t) \/ DeqHead(t) \/ DeqNext(t) \/ DeqData(t) \/ DeqCas(t) \/ DeqFree(t)
  <2>1. metaTail' = metaTail /\ pc[t] # "enqAdvance"
    BY <1>6 DEF DeqRestore, DeqTail, DeqHead, DeqNext, DeqData, DeqCas, DeqFree, At, shared
  <2> QED BY <1>1, <2>1
<1> QED BY <1>1, <1>2, <1>3, <1>4, <1>5, <1>6 DEF Step

\* How a call comes by a tail and a head, and loses them
LEMMA ReadMoves ==
  ASSUME QueueInv, NEW t \in Threads, Step(t), NEW u \in Threads
  PROVE  /\ \/ tail'[u] = tail[u]
            \/ tail'[u] = ZeroWord
            \/ /\ queue[u] \in Queues /\ tail'[u] = metaTail[queue[u]] /\ metaTail' = metaTail
               /\ ~Links(t) /\ ~Takes(t)
         /\ \/ head'[u] = head[u]
            \/ head'[u] = ZeroWord
            \/ queue[u] \in Queues /\ head'[u] = metaHead[queue[u]] /\ ~Links(t) /\ ~Takes(t)
         /\ queue'[u] # queue[u] => tail'[u] = ZeroWord /\ head'[u] = ZeroWord
<1>0. /\ TypeOK /\ InCall(t)
      /\ tail \in [Threads -> Words] /\ head \in [Threads -> Words] /\ pc \in [Threads -> Labels]
  BY Typed DEF QueueInv, PerThread
<1> DEFINE Moves(v) ==
       /\ \/ tail'[v] = tail[v]
          \/ tail'[v] = ZeroWord
          \/ /\ queue[v] \in Queues /\ tail'[v] = metaTail[queue[v]] /\ metaTail' = metaTail
             /\ ~Links(t) /\ ~Takes(t)
       /\ \/ head'[v] = head[v]
          \/ head'[v] = ZeroWord
          \/ queue[v] \in Queues /\ head'[v] = metaHead[queue[v]] /\ ~Links(t) /\ ~Takes(t)
       /\ queue'[v] # queue[v] => tail'[v] = ZeroWord /\ head'[v] = ZeroWord
<1>1. CASE u # t
  BY <1>0, <1>1, OthersStay
<1>2. Moves(t)
  <2>1. ASSUME NEW q \in Queues, Enqueue(t, q) \/ Dequeue(t, q) PROVE Moves(t)
    <3>1. UNCHANGED <<tail, head>> /\ pc[t] = "idle"
      BY <2>1 DEF Enqueue, Dequeue, At
    <3> QED BY <1>0, <3>1 DEF InCall, Calling
  <2>2. CASE \/ EnqAlloc(t) \/ EnqNode(t) \/ EnqReadFirst(t) \/ DeqData(t)
    <3>1. UNCHANGED <<tail, head, queue>>
      BY <2>2 DEF EnqAlloc, EnqNode, EnqReadFirst, DeqData, locals
    <3> QED BY <3>1
  <2>3. CASE EnqTail(t) \/ DeqTail(t)
    <3>1. queue[t] \in Queues /\ ~Links(t) /\ ~Takes(t) /\ tail'[t] = metaTail[queue[t]]
          /\ UNCHANGED <<head, queue, metaTail>>
      BY <1>0, <2>3 DEF InCall, EnqTail, DeqTail, Links, Takes, EnqLink, DeqCas, At, shared
    <3> QED BY <3>1
  <2>4. CASE DeqHead(t)
    <3>1. queue[t] \in Queues /\ ~Links(t) /\ ~Takes(t) /\ head'[t] = metaHead[queue[t]]
          /\ UNCHANGED <<tail, queue>>
      BY <1>0, <2>4 DEF InCall, DeqHead, Links, Takes, EnqLink, DeqCas, At
    <3> QED BY <3>1
  <2>5. CASE \/ EnqReadSecond(t) \/ EnqSwing(t) \/ EnqLink(t) \/ EnqAdvance(t) \/ DeqNext(t)
             \/ DeqSwing(t) \/ DeqCas(t)
    <3>1. /\ queue' = queue
          /\ UNCHANGED <<tail, head>> \/ Forget(t)
      BY <2>5 DEF EnqReadSecond, EnqSwing, EnqLink, EnqAdvance, DeqNext, DeqSwing, DeqCas
    <3> QED BY <1>0, <3>1 DEF Forget
  <2>6. CASE EnqCount(t) \/ DeqRestore(t) \/ DeqFree(t)
    <3>1. UNCHANGED <<tail, head>> /\ pc[t] \in {"enqCount", "deqRestore", "deqFree"}
      BY <2>6 DEF EnqCount, DeqRestore, DeqFree, At
    <3> QED BY <1>0, <3>1 DEF InCall, Calling
  <2> QED BY <2>1, <2>2, <2>3, <2>4, <2>5, <2>6 DEF Step
<1> QED BY <1>1, <1>2

\* Who has the last word of a queue had it from metaTail_.
LEMMA ReachedKept ==
  ASSUME QueueInv, NEW t \in Threads, Step(t), NEW u \in Threads
  PROVE  Reached(u)'
<1>0. /\ TypeOK /\ Spelled /\ NodeOnce /\ NeverBack /\ Reached(u)
      /\ queue \in [Threads -> Queues \cup {NULL}]
  BY Typed DEF QueueInv, PerThread
<1>1. SUFFICES ASSUME NEW q \in Queues, queue'[u] = q, tail'[u] = WordAfter(q, LastAfter(q))
               PROVE  metaTail'[q] = tail'[u]
  BY DEF Reached, Word, WordAfter, Last, LastAfter
<1>2. /\ Last(q) \in Nat /\ Last(q) > 0 /\ Last(q) \in 1 .. Last(q) /\ Last(q) \in 1 .. Last(q) + 1
  BY <1>0, Places
<1>3. tail'[u] # ZeroWord
  <2>1. /\ LastAfter(q) \in 1 .. LastAfter(q) /\ Spelled' /\ TypeOK'
    <3>1. Spelled' /\ TypeOK'
      BY SpelledKept, TypeKept
    <3>2. chain'[q] \in Seq(Nodes) /\ chain'[q] # <<>>
      BY <3>1 DEF TypeOK
    <3> QED BY <3>1, <3>2 DEF LastAfter
  <2>2. GetRealAddr(WordAfter(q, LastAfter(q))) = chain'[q][LastAfter(q)] /\ chain'[q][LastAfter(q)] \in Nodes
    <3>1. chain'[q] \in Seq(Nodes)
      BY <2>1 DEF TypeOK
    <3>2. chain'[q][LastAfter(q)] \in Nodes
      BY <2>1, <3>1 DEF LastAfter
    <3>3. GetRealAddr(WordAfter(q, LastAfter(q))) = chain'[q][LastAfter(q)]
      BY <2>1 DEF Spelled, Word, WordAfter, Last, LastAfter, GetRealAddr
    <3> QED BY <3>2, <3>3
  <2> QED BY <1>1, <2>2, ZeroIsWord, NodeAssumption
<1>4. queue[u] = q
  BY <1>1, <1>3, ReadMoves
<1>5. CASE /\ queue[u] \in Queues /\ tail'[u] = metaTail[queue[u]] /\ metaTail' = metaTail
  BY <1>4, <1>5
<1>6. CASE tail'[u] = tail[u]
  <2>1. WordAfter(q, LastAfter(q)) = Word(q, Last(q))
    <3>1. CASE Stays(q)
      BY <1>0, <1>2, <3>1, Kinds DEF Stays
    <3>2. CASE Links(t) /\ queue[t] = q
      <4>1. Grows(q, new[t], node[t]) /\ node[t] \in Nodes
        BY <3>2, StepKinds
      <4>2. WordAfter(q, LastAfter(q)) = new[t]
        BY <1>0, <4>1, Kinds DEF Grows
      <4>3. new[t] # tail[u]
        BY <1>0, <1>4, <3>2 DEF NeverBack, Links, EnqLink, At, Building
      <4> QED BY <1>1, <1>6, <4>2, <4>3
    <3>3. CASE Takes(t) /\ queue[t] = q
      <4>1. Shrinks(q)
        BY <3>3, StepKinds
      <4>2. LastAfter(q) = Last(q) - 1 /\ Last(q) > 1
        BY <1>0, <4>1, Kinds
      <4>3. Last(q) - 1 \in 1 .. Last(q) /\ (Last(q) - 1) + 1 = Last(q)
        BY <1>2, <4>2
      <4> QED BY <4>1, <4>2, <4>3 DEF Shrinks
    <3> QED BY <3>1, <3>2, <3>3, StepKinds
  <2>2. metaTail[q] = tail[u] /\ metaTail[q] = Word(q, Last(q))
    BY <1>0, <1>1, <1>4, <1>6, <2>1 DEF Reached
  <2>3. ~Behind(q, metaTail[q], metaTail'[q])
    BY <1>2, <2>2 DEF Behind
  <2>4. metaTail'[q] = metaTail[q]
    BY <2>3, TailMoves
  <2> QED BY <1>6, <2>2, <2>4
<1> QED BY <1>3, <1>5, <1>6, ReadMoves

\* While an Enqueue has linked its node and a Dequeue has claimed one, or two calls of
\* either kind are under way, the queue has more than its dummy and one node: num_ admits
\* no more Dequeues than there are nodes.
LEMMA Room ==
  ASSUME QueueInv, NEW q \in Queues, NEW t \in Threads, NEW u \in Threads, t # u,
         pc[t] \in Linking \cup Claimed, queue[t] = q,
         pc[u] \in Linking \cup Claimed, queue[u] = q
  PROVE  Last(q) > 2
<1> DEFINE A == On(q, Linking \cup Claimed \cup {"deqRestore"})
           R == On(q, {"deqRestore"})
<1>1. /\ num[q] = Last(q) - 1 - Cardinality(A) /\ num[q] + Cardinality(R) >= 0
      /\ Last(q) \in Nat /\ num[q] \in Int
  BY Places DEF QueueInv, NumExact, Given, Last, TypeOK
<1>2. IsFiniteSet(A) /\ IsFiniteSet(R) /\ R \cup {t} \cup {u} \subseteq A
      /\ t \notin R /\ u \notin R \cup {t}
  <2>1. A \subseteq Threads /\ R \subseteq Threads
    BY DEF On
  <2> QED BY <2>1, ThreadAssumption, FS_Subset DEF On, Linking, Claimed
<1>3. Cardinality(R \cup {t} \cup {u}) = Cardinality(R) + 2 /\ Cardinality(R) \in Nat /\ Cardinality(A) \in Nat
  <2>1. Cardinality(R \cup {t}) = Cardinality(R) + 1 /\ IsFiniteSet(R \cup {t})
    BY <1>2, FS_AddElement
  <2>2. Cardinality(R \cup {t} \cup {u}) = Cardinality(R \cup {t}) + 1
    BY <1>2, <2>1, FS_AddElement
  <2>3. Cardinality(R) \in Nat /\ Cardinality(A) \in Nat
    BY <1>2, FS_CardinalityType
  <2> QED BY <2>1, <2>2, <2>3
<1>4. Cardinality(R \cup {t} \cup {u}) <= Cardinality(A)
  BY <1>2, FS_Subset
<1> QED BY <1>1, <1>3, <1>4

\* The tail never falls behind the head.
LEMMA TailNearKept == ASSUME QueueInv, NEW t \in Threads, Step(t) PROVE TailNear'
<1>0. /\ TypeOK /\ Spelled /\ NodeOnce /\ TailNear /\ NeverBack
      /\ pc \in [Threads -> Labels]
  BY Typed DEF QueueInv
<1> DEFINE AdvancingAfter(u, q) ==
      pc'[u] = "enqAdvance" /\ queue'[u] = q /\ tail'[u] = WordAfter(q, LastAfter(q) - 1)
<1>1. SUFFICES ASSUME NEW q \in Queues
               PROVE  \/ metaTail'[q] = WordAfter(q, LastAfter(q))
                      \/ /\ LastAfter(q) > 1 /\ metaTail'[q] = WordAfter(q, LastAfter(q) - 1)
                         /\ \E u \in Threads : AdvancingAfter(u, q)
  BY DEF TailNear, Advancing, Word, WordAfter, Last, LastAfter
<1>2. /\ Last(q) \in Nat /\ Last(q) > 0 /\ Last(q) \in 1 .. Last(q) /\ Last(q) \in 1 .. Last(q) + 1
      /\ \A i \in 1 .. Last(q) + 1 : Word(q, i) \in Words
  BY <1>0, Places
<1>3. \A u \in Threads : u # t =>
         pc'[u] = pc[u] /\ queue'[u] = queue[u] /\ tail'[u] = tail[u]
  BY <1>0, OthersStay
<1>4. ASSUME metaTail'[q] # metaTail[q]
      PROVE  metaTail'[q] = WordAfter(q, LastAfter(q))
  <2>1. ~Links(t) /\ ~Takes(t) /\ Behind(q, metaTail[q], metaTail'[q])
    BY <1>4, TailMoves
  <2>2. /\ LastAfter(q) = Last(q) /\ WordAfter(q, Last(q)) = Word(q, Last(q))
    <3>1. Stays(q)
      BY <2>1, StepKinds
    <3> QED BY <1>0, <1>2, <3>1, Kinds DEF Stays
  <2>3. metaTail[q] # Word(q, Last(q))
    BY <1>2, <2>1 DEF Behind
  <2>4. Last(q) > 1 /\ metaTail[q] = Word(q, Last(q) - 1)
    BY <1>0, <2>3 DEF TailNear
  <2>5. Last(q) - 1 \in 1 .. Last(q) /\ (Last(q) - 1) + 1 = Last(q)
    BY <1>2, <2>4
  <2>6. metaTail'[q] = Word(q, Last(q))
    BY <2>1, <2>4, <2>5 DEF Behind
  <2> QED BY <2>2, <2>6
<1>5. ASSUME metaTail'[q] = metaTail[q], Stays(q)
      PROVE  \/ metaTail'[q] = WordAfter(q, LastAfter(q))
             \/ /\ LastAfter(q) > 1 /\ metaTail'[q] = WordAfter(q, LastAfter(q) - 1)
                /\ \E u \in Threads : AdvancingAfter(u, q)
  <2>1. /\ LastAfter(q) = Last(q) /\ WordAfter(q, Last(q)) = Word(q, Last(q))
    BY <1>0, <1>2, <1>5, Kinds DEF Stays
  <2>2. CASE metaTail[q] = Word(q, Last(q))
    BY <1>5, <2>1, <2>2
  <2>3. CASE metaTail[q] # Word(q, Last(q))
    <3>1. Last(q) > 1 /\ metaTail[q] = Word(q, Last(q) - 1) /\ \E u \in Threads : Advancing(u, q)
      BY <1>0, <2>3 DEF TailNear
    <3>2. PICK u \in Threads : Advancing(u, q)
      BY <3>1
    <3>3. WordAfter(q, Last(q) - 1) = Word(q, Last(q) - 1)
      <4>1. Last(q) - 1 \in 1 .. Last(q) + 1
        BY <1>2, <3>1
      <4> QED BY <1>5, <4>1 DEF Stays
    <3>4. u # t
      BY <1>5, <3>1, <3>2, TailMoves DEF Advancing
    <3>5. AdvancingAfter(u, q)
      BY <1>3, <2>1, <3>2, <3>3, <3>4 DEF Advancing
    <3> QED BY <1>5, <2>1, <3>1, <3>3, <3>5
  <2> QED BY <2>2, <2>3
<1>6. ASSUME metaTail'[q] = metaTail[q], Links(t), queue[t] = q
      PROVE  /\ LastAfter(q) > 1 /\ metaTail'[q] = WordAfter(q, LastAfter(q) - 1)
             /\ \E u \in Threads : AdvancingAfter(u, q)
  <2>1. metaTail[q] = tail[t] /\ tail[t] = Word(q, Last(q)) /\ Grows(q, new[t], node[t]) /\ node[t] \in Nodes
    BY <1>6, LinksLast, StepKinds
  <2>2. LastAfter(q) = Last(q) + 1 /\ LastAfter(q) - 1 = Last(q) /\ LastAfter(q) > 1
    <3>1. LastAfter(q) = Last(q) + 1
      BY <1>0, <2>1, Kinds
    <3> QED BY <1>2, <3>1
  <2>3. WordAfter(q, Last(q)) = Word(q, Last(q))
    BY <1>2, <2>1 DEF Grows
  <2>4. pc'[t] = "enqAdvance" /\ queue'[t] = q /\ tail'[t] = tail[t]
    BY <1>0, <1>6 DEF Links, EnqLink, Goto
  <2>5. AdvancingAfter(t, q)
    BY <2>1, <2>2, <2>3, <2>4
  <2> QED BY <1>6, <2>1, <2>2, <2>3, <2>5
<1>7. ASSUME metaTail'[q] = metaTail[q], Takes(t), queue[t] = q
      PROVE  \/ metaTail'[q] = WordAfter(q, LastAfter(q))
             \/ /\ LastAfter(q) > 1 /\ metaTail'[q] = WordAfter(q, LastAfter(q) - 1)
                /\ \E u \in Threads : AdvancingAfter(u, q)
  <2>1. Shrinks(q)
    BY <1>7, StepKinds
  <2>2. LastAfter(q) = Last(q) - 1 /\ Last(q) > 1
    BY <1>0, <2>1, Kinds
  <2>3. \A i \in 1 .. Last(q) : WordAfter(q, i) = Word(q, i + 1)
    BY <2>1 DEF Shrinks
  <2>4. WordAfter(q, LastAfter(q)) = Word(q, Last(q))
    <3>1. Last(q) - 1 \in 1 .. Last(q) /\ (Last(q) - 1) + 1 = Last(q)
      BY <1>2, <2>2
    <3> QED BY <2>2, <2>3, <3>1
  <2>5. CASE metaTail[q] = Word(q, Last(q))
    BY <1>7, <2>4, <2>5
  <2>6. CASE metaTail[q] # Word(q, Last(q))
    <3>1. metaTail[q] = Word(q, Last(q) - 1) /\ \E u \in Threads : Advancing(u, q)
      BY <1>0, <2>6 DEF TailNear
    <3>2. PICK u \in Threads : Advancing(u, q)
      BY <3>1
    <3>3. pc[t] = "deqCas" /\ pc[u] = "enqAdvance" /\ queue[u] = q
      BY <1>7, <3>2 DEF Takes, DeqCas, At, Advancing
    <3>4. u # t /\ Last(q) > 2
      <4>1. u # t
        BY <3>3
      <4> QED BY <1>7, <3>3, <4>1, Room DEF Linking, Claimed
    <3>5. WordAfter(q, LastAfter(q) - 1) = Word(q, Last(q) - 1) /\ LastAfter(q) > 1
      <4>1. /\ Last(q) - 2 \in 1 .. Last(q) /\ (Last(q) - 2) + 1 = Last(q) - 1
            /\ LastAfter(q) - 1 = Last(q) - 2 /\ LastAfter(q) > 1
        BY <1>2, <2>2, <3>4
      <4> QED BY <2>3, <4>1
    <3>6. AdvancingAfter(u, q)
      BY <1>3, <3>2, <3>4, <3>5 DEF Advancing
    <3> QED BY <1>7, <3>1, <3>5, <3>6
  <2> QED BY <2>5, <2>6
<1> QED BY <1>4, <1>5, <1>6, <1>7, StepKinds

\* Only Alloc begins to build a node.
LEMMA BuildMoves ==
  ASSUME QueueInv, NEW t \in Threads, Step(t), NEW u \in Threads, pc'[u] \in Building
  PROVE  /\ queue'[u] = queue[u] /\ queue[u] \in Queues
         /\ \/ pc[u] \in Building /\ new'[u] = new[u]
            \/ EnqAlloc(t) /\ u = t
<1>0. TypeOK /\ InCall(u) /\ pc \in [Threads -> Labels]
  BY Typed DEF QueueInv, PerThread
<1>1. CASE u # t
  <2>1. pc'[u] = pc[u] /\ queue'[u] = queue[u] /\ new'[u] = new[u]
    BY <1>0, <1>1, OthersStay
  <2> QED BY <1>0, <2>1 DEF InCall, Building
<1>2. ASSUME u = t, pc'[t] \in Building
      PROVE  /\ queue'[t] = queue[t] /\ pc[t] # "idle"
             /\ \/ pc[t] \in Building /\ new'[t] = new[t]
                \/ EnqAlloc(t)
  <2>1. ASSUME NEW q \in Queues, Enqueue(t, q) \/ Dequeue(t, q) PROVE FALSE
    BY <1>0, <1>2, <2>1 DEF Building, Enqueue, Dequeue, Goto
  <2>2. CASE EnqAlloc(t)
    BY <2>2 DEF EnqAlloc, At
  <2>3. CASE EnqNode(t) \/ EnqTail(t) \/ EnqReadFirst(t) \/ EnqReadSecond(t) \/ EnqSwing(t) \/ EnqLink(t)
    BY <2>3 DEF EnqNode, EnqTail, EnqReadFirst, EnqReadSecond, EnqSwing, EnqLink, Building, At, locals
  <2>4. CASE EnqAdvance(t) \/ EnqCount(t)
    BY <1>0, <1>2, <2>4 DEF EnqAdvance, EnqCount, Building, Goto
  <2>5. CASE \/ DeqRestore(t) \/ DeqTail(t) \/ DeqHead(t) \/ DeqNext(t) \/ DeqSwing(t)
             \/ DeqData(t) \/ DeqCas(t) \/ DeqFree(t)
    BY <1>0, <1>2, <2>5 DEF DeqRestore, DeqTail, DeqHead, DeqNext, DeqSwing, DeqData, DeqCas, DeqFree,
                            Building, Goto
  <2> QED BY <2>1, <2>2, <2>3, <2>4, <2>5 DEF Step
<1> QED BY <1>0, <1>1, <1>2 DEF InCall

\* No Enqueue is about to link a word another call on its queue waits for.
LEMMA NeverBackKept == ASSUME Recurs = FALSE, QueueInv, NEW t \in Threads, Step(t) PROVE NeverBack'
<1>0. /\ TypeOK /\ Spelled /\ NodeOnce /\ TailNear /\ NeverBack /\ InCall(t)
      /\ pc \in [Threads -> Labels] /\ new \in [Threads -> Words] /\ node \in [Threads -> Nodes \cup {NULL}]
      /\ queue \in [Threads -> Queues \cup {NULL}]
  BY Typed DEF QueueInv, PerThread
<1>1. SUFFICES ASSUME NEW u \in Threads, NEW v \in Threads, pc'[v] \in Building, queue'[v] = queue'[u]
               PROVE  new'[v] # tail'[u] /\ new'[v] # head'[u]
  BY DEF NeverBack
<1>2. GetRealAddr(new'[v]) \in Nodes
  <2>1. Built(v)' /\ Owning(v)' /\ TypeOK'
    BY BuiltKept, OwningKept, TypeKept
  <2>2. GetRealAddr(new'[v]) = node'[v] /\ node'[v] # NULL
    BY <1>1, <2>1 DEF Built, Owning, GetRealAddr
  <2>3. node' \in [Threads -> Nodes \cup {NULL}]
    BY <2>1 DEF TypeOK
  <2> QED BY <2>2, <2>3
<1>3. new'[v] # ZeroWord
  BY <1>2, ZeroIsWord, NodeAssumption
<1>4. queue'[v] = queue[v] /\ queue[v] \in Queues
  BY <1>1, BuildMoves
<1>5. CASE queue'[u] # queue[u]
  BY <1>3, <1>5, ReadMoves
<1>6. CASE queue'[u] = queue[u] /\ pc[v] \in Building /\ new'[v] = new[v]
  <2>1. PICK q \in Queues : q = queue[u] /\ q = queue[v]
    BY <1>1, <1>4, <1>6
  <2>2. new[v] # tail[u] /\ new[v] # head[u]
    BY <1>0, <1>6, <2>1 DEF NeverBack
  <2>3. /\ GetRealAddr(new[v]) = node[v] /\ node[v] # NULL /\ ~InQueue(node[v])
    BY <1>0, <1>6 DEF QueueInv, PerThread, Built, Owning, NodeOnce
  <2>4. \A i \in 1 .. Last(q) : new[v] # Word(q, i)
    <3>1. \A i \in 1 .. Last(q) : GetRealAddr(Word(q, i)) = chain[q][i] /\ i \in DOMAIN chain[q]
      BY <1>0, Places DEF Spelled
    <3> QED BY <2>3, <3>1 DEF InQueue
  <2>5. new[v] # metaTail[q] /\ new[v] # metaHead[q]
    <3>1. /\ Last(q) \in 1 .. Last(q) /\ 1 \in 1 .. Last(q) /\ (Last(q) > 1 => Last(q) - 1 \in 1 .. Last(q))
          /\ Word(q, 1) = metaHead[q]
      BY <1>0, Places
    <3> QED BY <1>0, <2>4, <3>1 DEF TailNear
  <2> QED BY <1>3, <1>6, <2>1, <2>2, <2>5, ReadMoves
<1>7. CASE queue'[u] = queue[u] /\ EnqAlloc(t) /\ v = t
  <2>1. PICK n \in free :
          /\ NoRecurrence(queue[t], GetMetaAddr(ExtractMetaCnt(new[t]), n))
          /\ new' = [new EXCEPT ![t] = GetMetaAddr(ExtractMetaCnt(new[t]), n)]
    BY <1>7 DEF EnqAlloc
  <2>2. tail' = tail /\ head' = head
    BY <1>7 DEF EnqAlloc
  <2>3. new'[v] = GetMetaAddr(ExtractMetaCnt(new[t]), n)
    BY <1>0, <1>7, <2>1
  <2>4. queue[u] = queue[t]
    BY <1>1, <1>4, <1>7
  <2> QED BY <2>1, <2>2, <2>3, <2>4, RecursAssumption DEF NoRecurrence
<1> QED BY <1>1, <1>5, <1>6, <1>7, BuildMoves

\* A node nobody can link to any more is linked on, or nobody has read it as a tail.
LEMMA SpentKept == ASSUME QueueInv, NEW t \in Threads, Step(t) PROVE Spent'
<1>0. /\ TypeOK /\ Spelled /\ NodeOnce /\ TailNear /\ Spent /\ Owning(t) /\ free \subseteq Nodes
      /\ pc \in [Threads -> Labels] /\ node \in [Threads -> Nodes \cup {NULL}]
      /\ next \in [Nodes -> [identifier : Queues \cup {NULL}, metaAddr : Words]]
  BY Typed DEF QueueInv, PerThread
<1>1. SUFFICES ASSUME NEW n \in Nodes
               PROVE  \/ InQueue(n)'
                      \/ \E u \in Threads : node'[u] = n /\ pc'[u] \in Building \ {"enqNode"}
                      \/ GetRealAddr(next'[n].metaAddr) # NULL
                      \/ \A u \in Threads : GetRealAddr(tail'[u]) # n
  BY DEF Spent, GetRealAddr, InQueue
<1>2. CASE InQueue(n)
  <2>1. CASE Takes(t) /\ n = GetRealAddr(head[t])
    <3>1. PICK q \in Queues : queue[t] = q
      BY <2>1 DEF QueueInv, PerThread, InCall, Takes, DeqCas, At
    <3>2. Shrinks(q) /\ n = chain[q][1]
      BY <2>1, <3>1, TakesWords
    <3>3. Last(q) > 1 /\ next' = next
      BY <3>2 DEF Shrinks
    <3>4. 1 \in 1 .. Last(q) /\ 1 < Last(q)
      BY <1>0, <3>3, Places
    <3>5. next[n].metaAddr = Word(q, 1 + 1)
      BY <1>0, <3>2, <3>4, Places
    <3>6. GetRealAddr(next[n].metaAddr) # NULL
      BY <1>0, <3>4, <3>5, WordsApart
    <3> QED BY <3>3, <3>6
  <2>2. CASE ~(Takes(t) /\ n = GetRealAddr(head[t]))
    BY <1>2, <2>2, InQueueAfter
  <2> QED BY <2>1, <2>2
<1>3. CASE ~InQueue(n) /\ \E u \in Threads : node[u] = n /\ pc[u] \in Building \ {"enqNode"}
  <2>1. PICK u \in Threads : node[u] = n /\ pc[u] \in Building \ {"enqNode"}
    BY <1>3
  <2>2. CASE u # t
    BY <1>0, <2>1, <2>2, OthersStay
  <2>3. CASE u = t /\ Links(t)
    <3>1. InQueue(n)' <=> InQueue(n) \/ n = node[t]
      BY <2>3, InQueueAfter
    <3> QED BY <2>1, <2>3, <3>1
  <2>4. CASE u = t /\ ~Links(t)
    <3>1. \/ EnqTail(t) \/ EnqReadFirst(t) \/ EnqReadSecond(t) \/ EnqSwing(t) \/ EnqLink(t)
      BY <2>1, <2>4 DEF Step, Building, At, Enqueue, Dequeue, EnqAlloc, EnqNode, EnqAdvance, EnqCount,
         DeqRestore, DeqTail, DeqHead, DeqNext, DeqSwing, DeqData, DeqCas, DeqFree
    <3>2. /\ node' = node
          /\ pc'[t] \in {"enqTail", "enqNext", "enqAddr", "enqIdentifier", "enqSwing", "enqLink"}
      BY <1>0, <2>4, <3>1 DEF EnqTail, EnqReadFirst, EnqReadSecond, EnqSwing, EnqLink, Links, Goto
    <3> QED BY <2>1, <2>4, <3>2 DEF Building
  <2> QED BY <2>2, <2>3, <2>4
<1>4. CASE /\ ~InQueue(n) /\ ~\E u \in Threads : node[u] = n /\ pc[u] \in Building \ {"enqNode"}
           /\ GetRealAddr(next[n].metaAddr) # NULL
  <2>1. CASE next'[n].metaAddr = next[n].metaAddr
    BY <1>4, <2>1
  <2>2. CASE EnqNode(t) /\ n = node[t]
    <3>1. pc'[t] = "enqTail" /\ node' = node
      BY <1>0, <2>2 DEF EnqNode, Goto, locals
    <3> QED BY <2>2, <3>1 DEF Building
  <2>3. CASE Links(t)
    <3>1. PICK q \in Queues : queue[t] = q
      BY <2>3, LinksLast
    <3>2. GetRealAddr(tail[t]) = chain[q][Last(q)] /\ Last(q) \in DOMAIN chain[q]
      BY <1>0, <2>3, <3>1, LinksLast, Places
    <3>3. GetRealAddr(tail[t]) # n
      BY <1>4, <3>2 DEF InQueue
    <3>4. next'[n] = next[n]
      BY <1>0, <2>3, <3>3 DEF Links, EnqLink
    <3> QED BY <1>4, <3>4
  <2>4. ASSUME NEW q \in Queues, Enqueue(t, q) \/ Dequeue(t, q) PROVE next' = next
    BY <2>4 DEF Enqueue, Dequeue
  <2>5. CASE EnqAlloc(t)
    <3>1. PICK m \in free : next' = [next EXCEPT ![m].identifier = queue[t]]
      BY <2>5 DEF EnqAlloc
    <3>2. next'[n].metaAddr = next[n].metaAddr
      BY <1>0, <3>1
    <3> QED BY <2>1, <3>2
  <2>6. CASE EnqNode(t) /\ n # node[t]
    <3>1. next'[n] = next[n]
      BY <1>0, <2>6 DEF EnqNode
    <3> QED BY <2>1, <3>1
  <2>7. CASE ~Links(t) /\ EnqLink(t)
    BY <2>1, <2>7 DEF Links, EnqLink
  <2>8. CASE EnqTail(t) \/ EnqReadFirst(t) \/ EnqReadSecond(t) \/ EnqSwing(t) \/ EnqAdvance(t) \/ EnqCount(t)
    <3>1. next' = next
      BY <2>8 DEF EnqTail, EnqReadFirst, EnqReadSecond, EnqSwing, EnqAdvance, EnqCount, shared
    <3> QED BY <2>1, <3>1
  <2>9. CASE \/ DeqRestore(t) \/ DeqTail(t) \/ DeqHead(t) \/ DeqNext(t) \/ DeqSwing(t)
             \/ DeqData(t) \/ DeqCas(t) \/ DeqFree(t)
    <3>1. next' = next
      BY <2>9 DEF DeqRestore, DeqTail, DeqHead, DeqNext, DeqSwing, DeqData, DeqCas, DeqFree, shared
    <3> QED BY <2>1, <3>1
  <2> QED BY <2>1, <2>2, <2>3, <2>4, <2>5, <2>6, <2>7, <2>8, <2>9 DEF Step
<1>5. CASE /\ ~InQueue(n) /\ \A u \in Threads : GetRealAddr(tail[u]) # n
  <2>1. ASSUME NEW u \in Threads PROVE GetRealAddr(tail'[u]) # n
    <3>1. CASE tail'[u] = tail[u]
      BY <1>5, <3>1
    <3>2. CASE tail'[u] = ZeroWord
      BY <3>2, ZeroIsWord, NodeAssumption
    <3>3. CASE queue[u] \in Queues /\ tail'[u] = metaTail[queue[u]]
      <4>1. PICK q \in Queues : queue[u] = q
        BY <3>3
      <4>2. PICK i \in DOMAIN chain[q] : GetRealAddr(metaTail[q]) = chain[q][i]
        <5>1. /\ Last(q) \in 1 .. Last(q) /\ (Last(q) > 1 => Last(q) - 1 \in 1 .. Last(q))
              /\ DOMAIN chain[q] = 1 .. Last(q)
          BY <1>0, Places
        <5>2. \A i \in 1 .. Last(q) : GetRealAddr(Word(q, i)) = chain[q][i]
          BY <1>0 DEF Spelled
        <5> QED BY <1>0, <5>1, <5>2 DEF TailNear
      <4> QED BY <1>5, <3>3, <4>1, <4>2 DEF InQueue
    <3> QED BY <3>1, <3>2, <3>3, ReadMoves
  <2> QED BY <2>1
<1> QED BY <1>0, <1>2, <1>3, <1>4, <1>5 DEF Spent

-----------------------------------------------------------------------------
(* The count *)

\* Counted calls on a queue after the step
OnAfter(q, labels) == {u \in Threads : pc'[u] \in labels /\ queue'[u] = q}

LEMMA CountAfter ==
  ASSUME QueueInv, NEW t \in Threads, Step(t), NEW q \in Queues, NEW L
  PROVE  /\ (pc'[t] \in L /\ queue'[t] = q <=> pc[t] \in L /\ queue[t] = q)
              => OnAfter(q, L) = On(q, L)
         /\ pc'[t] \in L /\ queue'[t] = q /\ ~(pc[t] \in L /\ queue[t] = q)
              => Cardinality(OnAfter(q, L)) = Cardinality(On(q, L)) + 1
         /\ ~(pc'[t] \in L /\ queue'[t] = q) /\ pc[t] \in L /\ queue[t] = q
              => Cardinality(OnAfter(q, L)) = Cardinality(On(q, L)) - 1
         /\ Cardinality(On(q, L)) \in Nat
<1>1. \A u \in Threads : u # t => pc'[u] = pc[u] /\ queue'[u] = queue[u]
  BY OthersStay DEF QueueInv
<1>2. IsFiniteSet(On(q, L)) /\ Cardinality(On(q, L)) \in Nat
  <2>1. On(q, L) \subseteq Threads
    BY DEF On
  <2> QED BY <2>1, ThreadAssumption, FS_Subset, FS_CardinalityType
<1>3. ASSUME pc'[t] \in L /\ queue'[t] = q <=> pc[t] \in L /\ queue[t] = q
      PROVE  OnAfter(q, L) = On(q, L)
  BY <1>1, <1>3 DEF On, OnAfter
<1>4. ASSUME pc'[t] \in L, queue'[t] = q, ~(pc[t] \in L /\ queue[t] = q)
      PROVE  Cardinality(OnAfter(q, L)) = Cardinality(On(q, L)) + 1
  <2>1. OnAfter(q, L) = On(q, L) \cup {t} /\ t \notin On(q, L)
    BY <1>1, <1>4 DEF On, OnAfter
  <2> QED BY <1>2, <2>1, FS_AddElement
<1>5. ASSUME ~(pc'[t] \in L /\ queue'[t] = q), pc[t] \in L, queue[t] = q
      PROVE  Cardinality(OnAfter(q, L)) = Cardinality(On(q, L)) - 1
  <2>1. OnAfter(q, L) = On(q, L) \ {t} /\ t \in On(q, L)
    BY <1>1, <1>5 DEF On, OnAfter
  <2> QED BY <1>2, <2>1, FS_RemoveElement
<1> QED BY <1>2, <1>3, <1>4, <1>5

Counted == Linking \cup Claimed \cup {"deqRestore"}

\* How num_ and the two kinds of counted calls change together
LEMMA NumMoves ==
  ASSUME QueueInv, NEW t \in Threads, Step(t), NEW q \in Queues
  PROVE  \/ \* a call on the queue begins to count, and num_ is lowered for it
            /\ Dequeue(t, q) /\ num'[q] = num[q] - 1 /\ queue'[t] = q /\ pc[t] = "idle"
            /\ pc'[t] = IF num[q] - 1 < 0 THEN "deqRestore" ELSE "deqTail"
            /\ ~Links(t) /\ ~Takes(t)
         \/ \* it gives back what it took, or counts what it linked
            /\ queue[t] = q /\ queue'[t] = NULL /\ num'[q] = num[q] + 1
            /\ pc[t] \in {"enqCount", "deqRestore"} /\ pc'[t] = "idle"
            /\ ~Links(t) /\ ~Takes(t)
         \/ \* it links
            /\ Links(t) /\ num' = num /\ queue[t] = q /\ queue'[t] = q
            /\ pc[t] = "enqLink" /\ pc'[t] = "enqAdvance"
         \/ \* it takes
            /\ Takes(t) /\ num' = num /\ queue[t] = q /\ queue'[t] = q
            /\ pc[t] = "deqCas" /\ pc'[t] = "deqFree"
         \/ \* or nothing changes for this queue
            /\ num'[q] = num[q] /\ ~(Links(t) /\ queue[t] = q) /\ ~(Takes(t) /\ queue[t] = q)
            /\ pc[t] \in Counted /\ queue[t] = q <=> pc'[t] \in Counted /\ queue'[t] = q
            /\ ~(pc[t] = "deqRestore" /\ queue[t] = q) /\ ~(pc'[t] = "deqRestore" /\ queue'[t] = q)
<1>0. /\ TypeOK /\ InCall(t) /\ pc \in [Threads -> Labels] /\ queue \in [Threads -> Queues \cup {NULL}]
      /\ num \in [Queues -> Int]
  BY DEF QueueInv, PerThread, TypeOK
<1> DEFINE Calm ==
            /\ num'[q] = num[q] /\ ~(Links(t) /\ queue[t] = q) /\ ~(Takes(t) /\ queue[t] = q)
            /\ pc[t] \in Counted /\ queue[t] = q <=> pc'[t] \in Counted /\ queue'[t] = q
            /\ ~(pc[t] = "deqRestore" /\ queue[t] = q) /\ ~(pc'[t] = "deqRestore" /\ queue'[t] = q)
<1>1. CASE Dequeue(t, q)
  BY <1>0, <1>1 DEF Dequeue, Goto, At, Links, Takes, EnqLink, DeqCas
<1>2. ASSUME NEW r \in Queues, Dequeue(t, r), r # q PROVE Calm
  BY <1>0, <1>2 DEF Dequeue, Goto, At, Links, Takes, EnqLink, DeqCas, Counted, Linking, Claimed
<1>3. ASSUME NEW r \in Queues, Enqueue(t, r) PROVE Calm
  BY <1>0, <1>3 DEF Enqueue, Goto, At, Links, Takes, EnqLink, DeqCas, Counted, Linking, Claimed
<1>4. CASE (EnqCount(t) \/ DeqRestore(t)) /\ queue[t] = q
  BY <1>0, <1>4 DEF EnqCount, DeqRestore, Goto, At, Links, Takes, EnqLink, DeqCas
<1>5. CASE (EnqCount(t) \/ DeqRestore(t)) /\ queue[t] # q
  <2>1. queue[t] \in Queues /\ pc'[t] = "idle" /\ num'[q] = num[q]
    BY <1>0, <1>5 DEF InCall, EnqCount, DeqRestore, Goto, At
  <2> QED BY <1>5, <2>1 DEF Counted, Linking, Claimed
<1>6. CASE Links(t) /\ queue[t] = q
  BY <1>0, <1>6 DEF Links, EnqLink, Goto, At
<1>7. CASE Takes(t) /\ queue[t] = q
  BY <1>0, <1>7 DEF Takes, DeqCas, Goto, At
<1>8. CASE (Links(t) \/ Takes(t)) /\ queue[t] # q
  <2>1. num' = num /\ queue' = queue
    BY <1>8 DEF Links, Takes, EnqLink, DeqCas
  <2> QED BY <1>8, <2>1
<1>9. CASE /\ ~Links(t) /\ ~Takes(t)
           /\ \/ EnqAlloc(t) \/ EnqNode(t) \/ EnqTail(t) \/ EnqReadFirst(t) \/ EnqReadSecond(t)
              \/ EnqSwing(t) \/ EnqLink(t)
  <2>1. /\ num' = num /\ pc[t] \notin Counted /\ pc'[t] \notin Counted
    BY <1>0, <1>9 DEF EnqAlloc, EnqNode, EnqTail, EnqReadFirst, EnqReadSecond, EnqSwing, EnqLink, Links,
                      Counted, Linking, Claimed, Goto, At, shared
  <2> QED BY <1>9, <2>1 DEF Counted
<1>10. CASE EnqAdvance(t)
  <2>1. /\ num' = num /\ queue' = queue /\ pc[t] = "enqAdvance" /\ pc'[t] = "enqCount" /\ ~Links(t) /\ ~Takes(t)
    BY <1>0, <1>10 DEF EnqAdvance, Links, Takes, EnqLink, DeqCas, Goto, At
  <2> QED BY <2>1 DEF Counted, Linking, Claimed
<1>11. CASE /\ ~Links(t) /\ ~Takes(t)
            /\ \/ DeqTail(t) \/ DeqHead(t) \/ DeqNext(t) \/ DeqSwing(t) \/ DeqData(t) \/ DeqCas(t)
  <2>1. /\ num' = num /\ queue' = queue /\ pc[t] \in Claimed /\ pc'[t] \in Claimed
    BY <1>0, <1>11 DEF DeqTail, DeqHead, DeqNext, DeqSwing, DeqData, DeqCas, Takes, Claimed, Goto, At, shared
  <2> QED BY <1>11, <2>1 DEF Counted, Linking, Claimed
<1>12. CASE DeqFree(t)
  <2>1. /\ num' = num /\ pc[t] = "deqFree" /\ pc'[t] = "idle" /\ ~Links(t) /\ ~Takes(t)
    BY <1>0, <1>12 DEF DeqFree, Links, Takes, EnqLink, DeqCas, Goto, At
  <2> QED BY <2>1 DEF Counted, Linking, Claimed
<1>13. \/ ~Links(t) /\ ~Takes(t)
       \/ (Links(t) \/ Takes(t)) /\ queue[t] = q
       \/ (Links(t) \/ Takes(t)) /\ queue[t] # q
  OBVIOUS
<1>14. ASSUME NEW r \in Queues, Dequeue(t, r), ~Dequeue(t, q) PROVE Calm
  BY <1>2, <1>14
<1>15. CASE \E r \in Queues : Enqueue(t, r) \/ Dequeue(t, r)
  BY <1>1, <1>3, <1>14, <1>15
<1>16. CASE EnqCount(t) \/ DeqRestore(t)
  BY <1>4, <1>5, <1>16
<1>17. CASE ~Links(t) /\ ~Takes(t) /\ ~\E r \in Queues : Enqueue(t, r) \/ Dequeue(t, r)
  BY <1>9, <1>10, <1>11, <1>12, <1>16, <1>17 DEF Step
<1> QED BY <1>6, <1>7, <1>8, <1>13, <1>15, <1>17

\* num_ is exact after every step.
LEMMA NumExactKept == ASSUME QueueInv, NEW t \in Threads, Step(t) PROVE NumExact'
<1>0. /\ TypeOK /\ NumExact /\ InCall(t) /\ num \in [Queues -> Int]
  BY DEF QueueInv, PerThread, TypeOK
<1>1. SUFFICES ASSUME NEW q \in Queues
               PROVE  num'[q] = LastAfter(q) - 1 - Cardinality(OnAfter(q, Counted))
  BY DEF NumExact, On, OnAfter, LastAfter, Counted, Linking, Claimed
<1> DEFINE n == Cardinality(On(q, Counted))
           m == Cardinality(OnAfter(q, Counted))
<1>2. num[q] = Last(q) - 1 - n /\ num[q] \in Int /\ Last(q) \in Nat /\ n \in Nat
  <2>1. num[q] = Last(q) - 1 - n
    BY <1>0 DEF NumExact, Last, Counted
  <2> QED BY <1>0, <2>1, Places, CountAfter
<1>3. /\ Links(t) /\ queue[t] = q => LastAfter(q) = Last(q) + 1
      /\ Takes(t) /\ queue[t] = q => LastAfter(q) = Last(q) - 1
      /\ ~(Links(t) /\ queue[t] = q) /\ ~(Takes(t) /\ queue[t] = q) => LastAfter(q) = Last(q)
  BY <1>0, StepKinds, Kinds
<1>5. CASE /\ Dequeue(t, q) /\ num'[q] = num[q] - 1 /\ queue'[t] = q /\ pc[t] = "idle"
           /\ pc'[t] = IF num[q] - 1 < 0 THEN "deqRestore" ELSE "deqTail"
           /\ ~Links(t) /\ ~Takes(t)
  <2>1. pc'[t] \in Counted /\ pc[t] \notin Counted
    BY <1>5 DEF Counted, Linking, Claimed
  <2>2. m = n + 1
    BY <1>5, <2>1, CountAfter
  <2> QED BY <1>2, <1>3, <1>5, <2>2
<1>6. CASE /\ queue[t] = q /\ queue'[t] = NULL /\ num'[q] = num[q] + 1
           /\ pc[t] \in {"enqCount", "deqRestore"} /\ pc'[t] = "idle"
           /\ ~Links(t) /\ ~Takes(t)
  <2>1. pc'[t] \notin Counted /\ pc[t] \in Counted
    BY <1>6 DEF Counted, Linking, Claimed
  <2>2. m = n - 1
    BY <1>6, <2>1, CountAfter
  <2> QED BY <1>2, <1>3, <1>6, <2>2
<1>7. CASE /\ Links(t) /\ num' = num /\ queue[t] = q /\ queue'[t] = q
           /\ pc[t] = "enqLink" /\ pc'[t] = "enqAdvance"
  <2>1. pc'[t] \in Counted /\ pc[t] \notin Counted
    BY <1>7 DEF Counted, Linking, Claimed
  <2>2. m = n + 1
    BY <1>7, <2>1, CountAfter
  <2> QED BY <1>2, <1>3, <1>7, <2>2
<1>8. CASE /\ Takes(t) /\ num' = num /\ queue[t] = q /\ queue'[t] = q
           /\ pc[t] = "deqCas" /\ pc'[t] = "deqFree"
  <2>1. pc'[t] \notin Counted /\ pc[t] \in Counted
    BY <1>8 DEF Counted, Linking, Claimed
  <2>2. m = n - 1
    BY <1>8, <2>1, CountAfter
  <2> QED BY <1>2, <1>3, <1>8, <2>2
<1>9. CASE /\ num'[q] = num[q] /\ ~(Links(t) /\ queue[t] = q) /\ ~(Takes(t) /\ queue[t] = q)
           /\ pc[t] \in Counted /\ queue[t] = q <=> pc'[t] \in Counted /\ queue'[t] = q
           /\ ~(pc[t] = "deqRestore" /\ queue[t] = q) /\ ~(pc'[t] = "deqRestore" /\ queue'[t] = q)
  <2>1. m = n
    BY <1>9, CountAfter
  <2> QED BY <1>2, <1>3, <1>9, <2>1
<1> QED BY <1>5, <1>6, <1>7, <1>8, <1>9, NumMoves

\* What is below zero in num_ is owed by calls that have yet to give it back.
LEMMA GivenKept == ASSUME QueueInv, NEW t \in Threads, Step(t) PROVE Given'
<1>0. /\ TypeOK /\ Given /\ InCall(t) /\ num \in [Queues -> Int]
  BY DEF QueueInv, PerThread, TypeOK
<1> DEFINE L == {"deqRestore"}
<1>1. SUFFICES ASSUME NEW q \in Queues
               PROVE  num'[q] + Cardinality(OnAfter(q, L)) >= 0
  BY DEF Given, On, OnAfter
<1> DEFINE n == Cardinality(On(q, L))
           m == Cardinality(OnAfter(q, L))
<1>2. num[q] + n >= 0 /\ num[q] \in Int /\ n \in Nat
  BY <1>0, CountAfter DEF Given
<1>3. \/ m = n
      \/ pc'[t] = "deqRestore" /\ queue'[t] = q /\ m = n + 1
      \/ pc[t] = "deqRestore" /\ queue[t] = q /\ m = n - 1
  <2>1. \A x : x \in L <=> x = "deqRestore"
    OBVIOUS
  <2> QED BY <2>1, CountAfter
<1>5. CASE /\ Dequeue(t, q) /\ num'[q] = num[q] - 1 /\ queue'[t] = q /\ pc[t] = "idle"
           /\ pc'[t] = IF num[q] - 1 < 0 THEN "deqRestore" ELSE "deqTail"
           /\ ~Links(t) /\ ~Takes(t)
  <2>1. CASE num[q] - 1 < 0
    <3>1. pc'[t] \in L /\ pc[t] \notin L
      BY <1>5, <2>1
    <3>2. m = n + 1
      BY <1>5, <3>1, CountAfter
    <3> QED BY <1>2, <1>5, <3>2
  <2>2. CASE ~(num[q] - 1 < 0)
    <3>1. m = n
      BY <1>3, <1>5, <2>2
    <3> QED BY <1>2, <1>5, <2>2, <3>1
  <2> QED BY <2>1, <2>2
<1>6. CASE /\ queue[t] = q /\ queue'[t] = NULL /\ num'[q] = num[q] + 1
           /\ pc[t] \in {"enqCount", "deqRestore"} /\ pc'[t] = "idle"
           /\ ~Links(t) /\ ~Takes(t)
  BY <1>2, <1>3, <1>6
<1>7. CASE /\ Links(t) /\ num' = num /\ queue[t] = q /\ queue'[t] = q
           /\ pc[t] = "enqLink" /\ pc'[t] = "enqAdvance"
  BY <1>2, <1>3, <1>7
<1>8. CASE /\ Takes(t) /\ num' = num /\ queue[t] = q /\ queue'[t] = q
           /\ pc[t] = "deqCas" /\ pc'[t] = "deqFree"
  BY <1>2, <1>3, <1>8
<1>9. CASE /\ num'[q] = num[q] /\ ~(Links(t) /\ queue[t] = q) /\ ~(Takes(t) /\ queue[t] = q)
           /\ pc[t] \in Counted /\ queue[t] = q <=> pc'[t] \in Counted /\ queue'[t] = q
           /\ ~(pc[t] = "deqRestore" /\ queue[t] = q) /\ ~(pc'[t] = "deqRestore" /\ queue'[t] = q)
  BY <1>2, <1>3, <1>9
<1> QED BY <1>5, <1>6, <1>7, <1>8, <1>9, NumMoves

-----------------------------------------------------------------------------
(* The invariant holds *)

LEMMA QueueInvInit == Init => QueueInv
<1> SUFFICES ASSUME Init PROVE QueueInv
  OBVIOUS
<1>1. PICK dummy \in Injection(Queues, Nodes) :
         /\ metaHead = [q \in Queues |-> GetMetaAddr(0, dummy[q])]
         /\ metaTail = metaHead
         /\ metaCnt = [q \in Queues |-> AfterGetCnt(0)] /\ num = [q \in Queues |-> 0]
         /\ free = Nodes \ Range(dummy)
         /\ next = [n \in Nodes |-> QNodePtr(
              IF n \in free THEN NULL ELSE CHOOSE q \in Queues : dummy[q] = n, ZeroWord)]
         /\ data = [n \in Nodes |-> Nothing]
         /\ chain = [q \in Queues |-> <<dummy[q]>>]
         /\ pc = [t \in Threads |-> "idle"]
         /\ queue = [t \in Threads |-> NULL] /\ node = [t \in Threads |-> NULL]
         /\ new = [t \in Threads |-> ZeroWord]
         /\ tail = [t \in Threads |-> ZeroWord] /\ head = [t \in Threads |-> ZeroWord]
         /\ seen = [t \in Threads |-> QNodePtr(NULL, ZeroWord)]
         /\ value = [t \in Threads |-> Nothing]
  BY DEF Init
<1>2. /\ dummy \in [Queues -> Nodes]
      /\ \A q, r \in Queues : dummy[q] = dummy[r] => q = r
  BY DEF Injection, IsInjective
<1>3. \A q \in Queues : dummy[q] \in Range(dummy) /\ dummy[q] \notin free
  BY <1>1, <1>2 DEF Range
<1>4. \A n \in Nodes : n \notin free => \E q \in Queues : dummy[q] = n
  BY <1>1, <1>2 DEF Range
<1>5. ASSUME NEW q \in Queues PROVE (CHOOSE r \in Queues : dummy[r] = dummy[q]) = q
  <2> DEFINE h == CHOOSE r \in Queues : dummy[r] = dummy[q]
  <2>1. h \in Queues /\ dummy[h] = dummy[q]
    OBVIOUS
  <2> QED BY <1>2, <2>1
<1>6. \A q \in Queues : next[dummy[q]] = QNodePtr(q, ZeroWord)
  BY <1>1, <1>2, <1>3, <1>5
<1>7. ZeroWord \in Words /\ GetRealAddr(ZeroWord) = NULL /\ 0 \in Counts /\ AfterGetCnt(0) \in Counts
  BY ZeroIsWord, CountsStay
<1>8. next \in [Nodes -> [identifier : Queues \cup {NULL}, metaAddr : Words]]
  <2>1. ASSUME NEW n \in Nodes
        PROVE  QNodePtr(IF n \in free THEN NULL ELSE CHOOSE q \in Queues : dummy[q] = n, ZeroWord)
                 \in [identifier : Queues \cup {NULL}, metaAddr : Words]
    <3>1. CASE n \in free
      BY <1>7, <3>1 DEF QNodePtr
    <3>2. CASE n \notin free
      <4>1. (CHOOSE q \in Queues : dummy[q] = n) \in Queues
        BY <1>4, <3>2
      <4> QED BY <1>7, <3>2, <4>1 DEF QNodePtr
    <3> QED BY <3>1, <3>2
  <2> QED BY <1>1, <2>1
<1>9. \A q \in Queues : /\ chain[q] = <<dummy[q]>> /\ chain[q] \in Seq(Nodes) /\ chain[q] # <<>>
                        /\ Last(q) = 1 /\ chain[q][1] = dummy[q] /\ DOMAIN chain[q] = 1 .. 1
                        /\ metaHead[q] = GetMetaAddr(0, dummy[q]) /\ metaTail[q] = metaHead[q]
                        /\ Word(q, 1) = metaHead[q] /\ Word(q, 2) = ZeroWord
  <2> SUFFICES ASSUME NEW q \in Queues
               PROVE  /\ chain[q] = <<dummy[q]>> /\ chain[q] \in Seq(Nodes) /\ chain[q] # <<>>
                      /\ Last(q) = 1 /\ chain[q][1] = dummy[q] /\ DOMAIN chain[q] = 1 .. 1
                      /\ metaHead[q] = GetMetaAddr(0, dummy[q]) /\ metaTail[q] = metaHead[q]
                      /\ Word(q, 1) = metaHead[q] /\ Word(q, 2) = ZeroWord
    OBVIOUS
  <2>1. /\ chain[q] = <<dummy[q]>> /\ dummy[q] \in Nodes
        /\ metaHead[q] = GetMetaAddr(0, dummy[q]) /\ metaTail[q] = metaHead[q]
    BY <1>1, <1>2
  <2>2. /\ chain[q] \in Seq(Nodes) /\ chain[q] # <<>>
        /\ Last(q) = 1 /\ chain[q][1] = dummy[q] /\ DOMAIN chain[q] = 1 .. 1
    BY <2>1 DEF Last
  <2>3. Word(q, 1) = metaHead[q]
    BY DEF Word
  <2>4. Word(q, 2) = ZeroWord
    <3>1. Word(q, 2) = next[chain[q][1]].metaAddr
      BY DEF Word
    <3>2. next[chain[q][1]] = QNodePtr(q, ZeroWord)
      BY <1>6, <2>2
    <3> QED BY <3>1, <3>2 DEF QNodePtr
  <2> QED BY <2>1, <2>2, <2>3, <2>4
<1>10. TypeOK
  <2>1. metaHead \in [Queues -> Counts \X Nodes] /\ metaTail \in [Queues -> Counts \X Nodes]
    BY <1>1, <1>2, <1>7 DEF GetMetaAddr
  <2>2. seen \in [Threads -> [identifier : Queues \cup {NULL}, metaAddr : Words]]
    BY <1>1, <1>7 DEF QNodePtr
  <2>3. chain \in [Queues -> Seq(Nodes)] /\ \A q \in Queues : chain[q] # <<>>
    BY <1>1, <1>9
  <2>4. /\ metaCnt \in [Queues -> Counts] /\ num \in [Queues -> Int]
        /\ data \in [Nodes -> Words \cup {Nothing}] /\ free \subseteq Nodes
        /\ pc \in [Threads -> Labels] /\ queue \in [Threads -> Queues \cup {NULL}]
        /\ node \in [Threads -> Nodes \cup {NULL}] /\ new \in [Threads -> Words]
        /\ tail \in [Threads -> Words] /\ head \in [Threads -> Words]
        /\ value \in [Threads -> Words \cup {Nothing}]
    BY <1>1, <1>7 DEF Labels
  <2> QED BY <1>8, <2>1, <2>2, <2>3, <2>4 DEF TypeOK
<1>11. Spelled
  <2>1. ASSUME NEW q \in Queues
        PROVE  /\ \A i \in 1 .. Last(q) :
                     /\ GetRealAddr(Word(q, i)) = chain[q][i]
                     /\ next[chain[q][i]].identifier = q
                     /\ i > 1 => data[chain[q][i]] = Word(q, i)
               /\ Word(q, Last(q) + 1) = GetMetaAddr(ExtractMetaCnt(Word(q, Last(q))), NULL)
    <3>1. \A i \in 1 .. Last(q) : i = 1 /\ ~(i > 1)
      BY <1>9
    <3>2. GetRealAddr(Word(q, 1)) = chain[q][1] /\ next[chain[q][1]].identifier = q
      <4>1. chain[q][1] = dummy[q] /\ Word(q, 1) = GetMetaAddr(0, dummy[q])
        BY <1>9
      <4>2. next[dummy[q]].identifier = q
        <5>1. next[dummy[q]] = QNodePtr(q, ZeroWord)
          BY <1>6
        <5> QED BY <5>1 DEF QNodePtr
      <4> QED BY <4>1, <4>2 DEF GetRealAddr, GetMetaAddr
    <3>3. Last(q) + 1 = 2 /\ Last(q) = 1
      BY <1>9
    <3>4. Word(q, 2) = GetMetaAddr(ExtractMetaCnt(Word(q, 1)), NULL)
      BY <1>9 DEF ZeroWord, GetMetaAddr, ExtractMetaCnt
    <3> QED BY <3>1, <3>2, <3>3, <3>4
  <2> QED BY <2>1 DEF Spelled
<1>12. TailNear
  BY <1>9 DEF TailNear
<1>13. \A n : InQueue(n) <=> \E q \in Queues : n = dummy[q]
  BY <1>9 DEF InQueue
<1>14. NodeOnce
  <2>1. \A t \in Threads : node[t] = NULL
    BY <1>1
  <2>2. \A n \in free : ~InQueue(n)
    BY <1>3, <1>13
  <2>3. \A q, r \in Queues : \A i \in DOMAIN chain[q], j \in DOMAIN chain[r] :
           chain[q][i] = chain[r][j] => q = r /\ i = j
    <3>1. \A q \in Queues : \A i \in DOMAIN chain[q] : i = 1 /\ chain[q][i] = dummy[q]
      BY <1>9
    <3> QED BY <1>2, <3>1
  <2> QED BY <2>1, <2>2, <2>3 DEF NodeOnce
<1>15. PerThread
  <2>1. ASSUME NEW t \in Threads
        PROVE  /\ pc[t] = "idle" /\ queue[t] = NULL /\ node[t] = NULL
               /\ tail[t] = ZeroWord /\ head[t] = ZeroWord
    BY <1>1
  <2>2. ASSUME NEW t \in Threads PROVE InCall(t) /\ Owning(t) /\ Built(t)
    BY <2>1 DEF InCall, Owning, Built, Building
  <2>3. ASSUME NEW t \in Threads PROVE Reading(t) /\ Fresh(t)
    BY <2>1 DEF Reading, HasTail, HasHead, HasNext, Fresh
  <2>4. ASSUME NEW t \in Threads PROVE Reached(t)
    <3>1. ASSUME NEW q \in Queues PROVE ZeroWord # Word(q, Last(q))
      <4>1. GetRealAddr(Word(q, Last(q))) = dummy[q] /\ dummy[q] \in Nodes
        BY <1>2, <1>9 DEF GetRealAddr, GetMetaAddr
      <4> QED BY <1>7, <4>1, NodeAssumption
    <3> QED BY <2>1, <3>1 DEF Reached
  <2> QED BY <2>2, <2>3, <2>4 DEF PerThread
<1>16. NeverBack
  BY <1>1 DEF NeverBack, Building
<1>17. Spent
  <2>1. \A t \in Threads : GetRealAddr(tail[t]) \notin Nodes
    BY <1>1, <1>7, NodeAssumption
  <2> QED BY <2>1 DEF Spent
<1>18. \A q \in Queues : \A L \in SUBSET (Labels \ {"idle"}) : On(q, L) = {}
  BY <1>1 DEF On
<1>19. NumExact /\ Given
  <2>1. ASSUME NEW q \in Queues
        PROVE  /\ num[q] = Len(chain[q]) - 1 - Cardinality(On(q, Linking \cup Claimed \cup {"deqRestore"}))
               /\ num[q] + Cardinality(On(q, {"deqRestore"})) >= 0
    <3>1. On(q, Linking \cup Claimed \cup {"deqRestore"}) = {} /\ On(q, {"deqRestore"}) = {}
      BY <1>18 DEF Labels, Linking, Claimed
    <3>2. num[q] = 0 /\ Len(chain[q]) = 1
      BY <1>1, <1>9 DEF Last
    <3> QED BY <3>1, <3>2, FS_EmptySet
  <2> QED BY <2>1 DEF NumExact, Given
<1> QED BY <1>10, <1>11, <1>12, <1>14, <1>15, <1>16, <1>17, <1>19 DEF QueueInv

LEMMA QueueInvNext == ASSUME Recurs = FALSE, QueueInv, [Next]_vars PROVE QueueInv'
<1>1. CASE UNCHANGED vars
  <2>1. /\ metaHead' = metaHead /\ metaTail' = metaTail /\ metaCnt' = metaCnt /\ num' = num
        /\ next' = next /\ data' = data /\ free' = free /\ pc' = pc /\ chain' = chain
        /\ queue' = queue /\ node' = node /\ new' = new /\ tail' = tail /\ head' = head
        /\ seen' = seen /\ value' = value
    BY <1>1 DEF vars, shared, locals
  <2>2. TypeOK'
    BY <2>1 DEF QueueInv, TypeOK
  <2>3. Spelled'
    BY <2>1 DEF QueueInv, Spelled, Word, Last
  <2>4. TailNear'
    BY <2>1 DEF QueueInv, TailNear, Advancing, Word, Last
  <2>5. NodeOnce'
    BY <2>1 DEF QueueInv, NodeOnce, InQueue
  <2>6. PerThread'
    <3>1. ASSUME NEW t \in Threads PROVE InCall(t)' /\ Owning(t)' /\ Built(t)' /\ Reading(t)'
      BY <2>1 DEF QueueInv, PerThread, InCall, Owning, Built, Reading
    <3>2. ASSUME NEW t \in Threads PROVE Fresh(t)'
      <4>1. Fresh(t)
        BY DEF QueueInv, PerThread
      <4> QED BY <2>1, <4>1, ZenonT(30) DEF Fresh, Behind, Word, Last
    <3>3. ASSUME NEW t \in Threads PROVE Reached(t)'
      BY <2>1 DEF QueueInv, PerThread, Reached, Word, Last
    <3> QED BY <3>1, <3>2, <3>3 DEF PerThread
  <2>7. NeverBack'
    BY <2>1 DEF QueueInv, NeverBack
  <2>8. Spent'
    BY <2>1 DEF QueueInv, Spent, InQueue
  <2>9. NumExact' /\ Given'
    BY <2>1 DEF QueueInv, NumExact, Given, On
  <2> QED BY <2>2, <2>3, <2>4, <2>5, <2>6, <2>7, <2>8, <2>9 DEF QueueInv
<1>2. ASSUME NEW t \in Threads, Step(t) PROVE QueueInv'
  <2>1. PerThread'
    BY <1>2, InCallKept, OwningKept, BuiltKept, ReadingKept, FreshKept, ReachedKept DEF PerThread
  <2> QED BY <1>2, <2>1, TypeKept, SpelledKept, TailNearKept, NodeOnceKept, NeverBackKept, SpentKept,
             NumExactKept, GivenKept DEF QueueInv
<1> QED BY <1>1, <1>2 DEF Next

LEMMA QueueInvAlways == ASSUME Recurs = FALSE PROVE Spec => []QueueInv
BY QueueInvInit, QueueInvNext, PTL DEF Spec

\* What the invariant says of the words is what WellFormed says of the nodes.
LEMMA InvLinked == ASSUME QueueInv PROVE Linked
<1>1. TypeOK /\ Spelled /\ NodeOnce /\ TailNear
  BY DEF QueueInv
<1>2. SUFFICES ASSUME NEW q \in Queues
               PROVE  /\ GetRealAddr(metaHead[q]) = chain[q][1]
                      /\ \A i \in 1 .. Len(chain[q]) : next[chain[q][i]].identifier = q
                      /\ \A i \in 1 .. Len(chain[q]) - 1 : GetRealAddr(next[chain[q][i]].metaAddr) = chain[q][i + 1]
                      /\ GetRealAddr(next[chain[q][Len(chain[q])]].metaAddr) = NULL
                      /\ GetRealAddr(metaTail[q]) \in
                           {chain[q][Len(chain[q])],
                            IF Len(chain[q]) > 1 THEN chain[q][Len(chain[q]) - 1] ELSE chain[q][Len(chain[q])]}
  BY DEF Linked
<1> DEFINE n == Last(q)
<1>3. n = Len(chain[q]) /\ n \in Nat /\ n > 0 /\ 1 \in 1 .. n /\ n \in 1 .. n
  BY <1>1, Places DEF Last
<1>4. /\ \A i \in 1 .. n : GetRealAddr(Word(q, i)) = chain[q][i] /\ next[chain[q][i]].identifier = q
      /\ \A i \in 1 .. n : Word(q, i + 1) = next[chain[q][i]].metaAddr
      /\ Word(q, 1) = metaHead[q]
      /\ GetRealAddr(Word(q, n + 1)) = NULL
  BY <1>1, Places, WordsApart DEF Spelled
<1>5. \A i \in 1 .. n - 1 : i \in 1 .. n /\ i + 1 \in 1 .. n
  BY <1>3
<1>6. GetRealAddr(metaTail[q]) \in {chain[q][n], IF n > 1 THEN chain[q][n - 1] ELSE chain[q][n]}
  <2>1. CASE metaTail[q] = Word(q, n)
    BY <1>3, <1>4, <2>1
  <2>2. CASE n > 1 /\ metaTail[q] = Word(q, n - 1)
    <3>1. n - 1 \in 1 .. n
      BY <1>3, <2>2
    <3> QED BY <1>4, <2>2, <3>1
  <2> QED BY <1>1, <2>1, <2>2 DEF TailNear
<1>7. \A i \in 1 .. n - 1 : GetRealAddr(next[chain[q][i]].metaAddr) = chain[q][i + 1]
  BY <1>4, <1>5
<1>8. GetRealAddr(metaHead[q]) = chain[q][1] /\ GetRealAddr(next[chain[q][n]].metaAddr) = NULL
  BY <1>3, <1>4
<1> QED BY <1>3, <1>4, <1>6, <1>7, <1>8

\* The queues are queues at every step, and apart (CLockFreeQueue.h:78-95): however the calls
\* of any number of threads meet, the words of each spell its nodes, its tail is at one of
\* the last two of them, and a node is in the pool, in one queue or with one thread, as long
\* as no count comes again under a call that waits for it.
THEOREM QueuesWhole == ASSUME Recurs = FALSE PROVE Spec => []WellFormed
<1>1. QueueInv => WellFormed
  BY InvLinked DEF QueueInv, WellFormed
<1> QED BY <1>1, QueueInvAlways, PTL

\* No Enqueue retries in vain: whenever nothing is behind the tail, the tail carries the
\* count and the identifier by which the next attempt links to it (CLockFreeQueue.h:93).
THEOREM QueuesNeverSpin == ASSUME Recurs = FALSE PROVE Spec => []NeverSpins
<1>1. ASSUME QueueInv PROVE NeverSpins
  <2>1. TypeOK /\ Spelled /\ NodeOnce /\ TailNear
    BY <1>1 DEF QueueInv
  <2>2. SUFFICES ASSUME NEW q \in Queues, GetRealAddr(next[GetRealAddr(metaTail[q])].metaAddr) = NULL
                 PROVE  /\ next[GetRealAddr(metaTail[q])].identifier = q
                        /\ ExtractMetaCnt(next[GetRealAddr(metaTail[q])].metaAddr) = ExtractMetaCnt(metaTail[q])
    BY DEF NeverSpins
  <2> DEFINE n == Last(q)
  <2>3. n \in Nat /\ n > 0 /\ n \in 1 .. n
    BY <2>1, Places
  <2>4. PICK i \in 1 .. n : metaTail[q] = Word(q, i)
    <3>1. n > 1 => n - 1 \in 1 .. n
      BY <2>3
    <3> QED BY <2>1, <2>3, <3>1 DEF TailNear
  <2>5. /\ GetRealAddr(metaTail[q]) = chain[q][i] /\ next[chain[q][i]].identifier = q
        /\ next[chain[q][i]].metaAddr = Word(q, i + 1)
    BY <2>1, <2>4, Places DEF Spelled
  <2>6. i = n
    <3>1. ~(i < n)
      BY <2>1, <2>2, <2>5, WordsApart
    <3> QED BY <2>3, <3>1
  <2>7. Word(q, n + 1) = GetMetaAddr(ExtractMetaCnt(Word(q, n)), NULL)
    BY <2>1 DEF Spelled
  <2>8. ExtractMetaCnt(Word(q, n + 1)) = ExtractMetaCnt(metaTail[q])
    BY <2>4, <2>6, <2>7 DEF ExtractMetaCnt, GetMetaAddr
  <2> QED BY <2>5, <2>6, <2>8
<1> QED BY <1>1, QueueInvAlways, PTL

\* num_ counts the linked nodes less those that calls under way account for, so that a
\* Dequeue that got past it finds one (CLockFreeQueue.h:104-118).
THEOREM QueuesCount == ASSUME Recurs = FALSE PROVE Spec => []NumExact
<1>1. QueueInv => NumExact
  BY DEF QueueInv
<1> QED BY <1>1, QueueInvAlways, PTL

-----------------------------------------------------------------------------
(* The queues are atomic *)

\* The items of a queue are the words behind its dummy's.
ItemsSpelled ==
    \A q \in Queues :
        /\ Items[q] \in Seq(Words) /\ Len(Items[q]) = Last(q) - 1
        /\ \A i \in 1 .. Last(q) - 1 : Items[q][i] = Word(q, i + 1)

LEMMA ItemsAreWords == TypeOK /\ Spelled => ItemsSpelled
<1> SUFFICES ASSUME TypeOK, Spelled, NEW q \in Queues
             PROVE  /\ Items[q] \in Seq(Words) /\ Len(Items[q]) = Last(q) - 1
                    /\ \A i \in 1 .. Last(q) - 1 : Items[q][i] = Word(q, i + 1)
  BY DEF ItemsSpelled
<1>1. Last(q) \in Nat /\ Last(q) > 0
  BY Places
<1>2. Items[q] = [i \in 1 .. Last(q) - 1 |-> data[chain[q][i + 1]]]
  BY DEF Items, Last
<1>3. ASSUME NEW i \in 1 .. Last(q) - 1
      PROVE  data[chain[q][i + 1]] = Word(q, i + 1) /\ Word(q, i + 1) \in Words
  <2>1. i + 1 \in 1 .. Last(q) /\ i + 1 > 1 /\ i + 1 \in 1 .. Last(q) + 1
    BY <1>1
  <2> QED BY <2>1, Places DEF Spelled
<1>4. Last(q) - 1 \in Nat
  BY <1>1
<1> QED BY <1>2, <1>3, <1>4

\* The items after the step
LEMMA ItemsAfter ==
  ASSUME QueueInv, NEW t \in Threads, Step(t), NEW q \in Queues
  PROVE  /\ Items[q] \in Seq(Words) /\ Len(Items[q]) = Last(q) - 1
         /\ \A i \in 1 .. Last(q) - 1 : Items[q][i] = Word(q, i + 1)
         /\ Items'[q] \in Seq(Words) /\ Len(Items'[q]) = LastAfter(q) - 1
         /\ \A i \in 1 .. LastAfter(q) - 1 : Items'[q][i] = WordAfter(q, i + 1)
<1>1. TypeOK /\ Spelled /\ TypeOK' /\ Spelled'
  BY TypeKept, SpelledKept DEF QueueInv
<1>2. ItemsSpelled /\ ItemsSpelled'
  BY <1>1, ItemsAreWords, PTL
<1>3. Words' = Words
  BY DEF Words, Counts
<1>4. ASSUME ItemsSpelled'
      PROVE  /\ Items'[q] \in Seq(Words) /\ Len(Items'[q]) = LastAfter(q) - 1
             /\ \A i \in 1 .. LastAfter(q) - 1 : Items'[q][i] = WordAfter(q, i + 1)
  BY <1>4 DEF ItemsSpelled, Last, LastAfter, Word, WordAfter
<1> QED BY <1>2, <1>4 DEF ItemsSpelled

\* A queue that stays keeps its items.
LEMMA ItemsStay ==
  ASSUME QueueInv, NEW t \in Threads, Step(t), NEW q \in Queues, Stays(q)
  PROVE  Items'[q] = Items[q]
<1>1. TypeOK /\ Last(q) \in Nat
  BY Places DEF QueueInv
<1>2. LastAfter(q) = Last(q) /\ \A i \in 1 .. Last(q) + 1 : WordAfter(q, i) = Word(q, i)
  BY <1>1, Kinds DEF Stays
<1>3. \A i \in 1 .. Last(q) - 1 : i + 1 \in 1 .. Last(q) + 1
  BY <1>1
<1> DEFINE s == Items[q]
           r == Items'[q]
<1>4. /\ s \in Seq(Words) /\ r \in Seq(Words) /\ Len(s) = Len(r)
      /\ Len(s) = Last(q) - 1 /\ \A i \in 1 .. Last(q) - 1 : s[i] = r[i]
  BY <1>2, <1>3, ItemsAfter
<1> HIDE DEF s, r
<1>5. s = r
  BY <1>4, SameSequence
<1> QED BY <1>5 DEF s, r

\* A queue that grows gets one item at its end.
LEMMA ItemsGrow ==
  ASSUME QueueInv, NEW t \in Threads, Step(t), NEW q \in Queues, NEW w \in Words, NEW n \in Nodes,
         Grows(q, w, n)
  PROVE  Items'[q] = Append(Items[q], w)
<1>1. TypeOK /\ Last(q) \in Nat /\ Last(q) > 0
  BY Places DEF QueueInv
<1>2. LastAfter(q) = Last(q) + 1
  BY <1>1, Kinds
<1>3. /\ \A i \in 1 .. Last(q) : WordAfter(q, i) = Word(q, i)
      /\ WordAfter(q, Last(q) + 1) = w
  BY DEF Grows
<1> DEFINE s == Items[q]
           r == Items'[q]
           a == Append(s, w)
<1>4. /\ s \in Seq(Words) /\ r \in Seq(Words) /\ Len(s) = Last(q) - 1 /\ Len(r) = LastAfter(q) - 1
      /\ \A i \in 1 .. Last(q) - 1 : s[i] = Word(q, i + 1)
      /\ \A i \in 1 .. LastAfter(q) - 1 : r[i] = WordAfter(q, i + 1)
  BY ItemsAfter
<1> HIDE DEF s, r
<1>5. /\ a \in Seq(Words) /\ Len(a) = Len(s) + 1 /\ a[Len(s) + 1] = w
      /\ \A i \in 1 .. Len(s) : a[i] = s[i]
  BY <1>4, PutLast
<1> HIDE DEF a
<1>6. Len(a) = Last(q) /\ Len(r) = Last(q) /\ Len(s) + 1 = Last(q)
  BY <1>1, <1>2, <1>4, <1>5
<1>7. ASSUME NEW i \in 1 .. Last(q) PROVE a[i] = r[i]
  <2>1. CASE i = Last(q)
    <3>1. i \in 1 .. LastAfter(q) - 1
      BY <1>1, <1>2
    <3> QED BY <1>3, <1>4, <1>5, <1>6, <2>1, <3>1
  <2>2. CASE i # Last(q)
    <3>1. i \in 1 .. Last(q) - 1 /\ i + 1 \in 1 .. Last(q) /\ i \in 1 .. LastAfter(q) - 1 /\ i \in 1 .. Len(s)
      BY <1>1, <1>2, <1>4, <2>2
    <3>2. a[i] = Word(q, i + 1)
      BY <1>4, <1>5, <3>1
    <3>3. r[i] = Word(q, i + 1)
      BY <1>3, <1>4, <3>1
    <3> QED BY <3>2, <3>3
  <2> QED BY <2>1, <2>2
<1>8. a = r
  BY <1>4, <1>5, <1>6, <1>7, SameSequence
<1> QED BY <1>8 DEF a, s, r

\* A queue that shrinks loses its first item.
LEMMA ItemsShrink ==
  ASSUME QueueInv, NEW t \in Threads, Step(t), NEW q \in Queues, Shrinks(q)
  PROVE  Items[q] # <<>> /\ Head(Items[q]) = Word(q, 2) /\ Items'[q] = Tail(Items[q])
<1>1. TypeOK /\ Last(q) \in Nat
  BY Places DEF QueueInv
<1>2. LastAfter(q) = Last(q) - 1 /\ Last(q) > 1
  BY <1>1, Kinds
<1>3. \A i \in 1 .. Last(q) : WordAfter(q, i) = Word(q, i + 1)
  BY DEF Shrinks
<1> DEFINE s == Items[q]
           r == Items'[q]
           a == Tail(s)
<1>4. /\ s \in Seq(Words) /\ r \in Seq(Words) /\ Len(s) = Last(q) - 1 /\ Len(r) = LastAfter(q) - 1
      /\ \A i \in 1 .. Last(q) - 1 : s[i] = Word(q, i + 1)
      /\ \A i \in 1 .. LastAfter(q) - 1 : r[i] = WordAfter(q, i + 1)
  BY ItemsAfter
<1> HIDE DEF s, r
<1>5. s # <<>> /\ Head(s) = s[1] /\ 1 \in 1 .. Last(q) - 1 /\ 1 + 1 = 2
  BY <1>1, <1>2, <1>4
<1>6. /\ a \in Seq(Words) /\ Len(a) = Len(s) - 1 /\ \A i \in 1 .. Len(s) - 1 : a[i] = s[i + 1]
  BY <1>4, <1>5
<1> HIDE DEF a
<1>7. Len(a) = Last(q) - 2 /\ Len(r) = Last(q) - 2 /\ Len(s) - 1 = Last(q) - 2
  BY <1>1, <1>2, <1>4, <1>6
<1>8. ASSUME NEW i \in 1 .. Last(q) - 2 PROVE a[i] = r[i]
  <2>1. /\ i \in 1 .. Len(s) - 1 /\ i + 1 \in 1 .. Last(q) - 1 /\ i \in 1 .. LastAfter(q) - 1
        /\ i + 1 \in 1 .. Last(q)
    BY <1>1, <1>2, <1>7
  <2> QED BY <1>3, <1>4, <1>6, <2>1
<1>9. a = r
  BY <1>4, <1>6, <1>7, <1>8, SameSequence
<1> QED BY <1>4, <1>5, <1>9 DEF a, s, r

\* The call and the answer of a thread, from its label
CallOf(l, q) ==
    CASE l \in Linking -> <<"enqueued", q>>
      [] l \in Claimed -> <<"claimed", q>>
      [] l = "deqRestore" -> <<"missed", q>>
      [] OTHER -> <<>>
AnswerOf(l, v) ==
    CASE l = "deqFree" -> <<v>>
      [] l = "deqRestore" -> <<Nothing>>
      [] OTHER -> <<>>

LEMMA ViewMoves ==
  ASSUME QueueInv, NEW t \in Threads, Step(t)
  PROVE  /\ Calls[t] = CallOf(pc[t], queue[t]) /\ Answers[t] = AnswerOf(pc[t], value[t])
         /\ Calls' = [Calls EXCEPT ![t] = CallOf(pc'[t], queue'[t])]
         /\ Answers' = [Answers EXCEPT ![t] = AnswerOf(pc'[t], value'[t])]
<1>1. /\ Calls = [u \in Threads |-> CallOf(pc[u], queue[u])]
      /\ Answers = [u \in Threads |-> AnswerOf(pc[u], value[u])]
      /\ Calls' = [u \in Threads |-> CallOf(pc'[u], queue'[u])]
      /\ Answers' = [u \in Threads |-> AnswerOf(pc'[u], value'[u])]
  BY DEF Calls, Answers, CallOf, AnswerOf, Linking, Claimed
<1>2. \A u \in Threads : u # t => pc'[u] = pc[u] /\ queue'[u] = queue[u] /\ value'[u] = value[u]
  BY OthersStay DEF QueueInv
<1> QED BY <1>1, <1>2

\* The calls the abstract queues count are those num_ accounts for.
LEMMA UnderwayCounted ==
  ASSUME NEW q \in Queues PROVE Atomic!Underway(q) = Cardinality(On(q, Counted))
<1>1. ASSUME NEW t \in Threads
      PROVE  (Calls[t] # <<>> /\ Calls[t][2] = q) <=> (pc[t] \in Counted /\ queue[t] = q)
  <2>1. Calls[t] = CallOf(pc[t], queue[t])
    BY DEF Calls, CallOf
  <2>2. CASE pc[t] \in Linking
    BY <2>1, <2>2 DEF CallOf, Counted
  <2>3. CASE pc[t] \in Claimed
    BY <2>1, <2>3 DEF CallOf, Counted, Linking, Claimed
  <2>4. CASE pc[t] = "deqRestore"
    BY <2>1, <2>4 DEF CallOf, Counted, Linking, Claimed
  <2>5. CASE pc[t] \notin Counted
    BY <2>1, <2>5 DEF CallOf, Counted
  <2> QED BY <2>2, <2>3, <2>4, <2>5 DEF Counted
<1>2. {t \in Threads : Calls[t] # <<>> /\ Calls[t][2] = q} = On(q, Counted)
  BY <1>1 DEF On
<1> QED BY <1>2 DEF Atomic!Underway, Atomic!Cardinality, Cardinality

\* Every step of a thread is one step of the atomic queues, or none that they can see.
LEMMA StepSimulates ==
  ASSUME QueueInv, NEW t \in Threads, Step(t)
  PROVE  Atomic!Next \/ UNCHANGED <<Items, Calls, Answers>>
<1>0. /\ TypeOK /\ NumExact /\ InCall(t)
      /\ pc \in [Threads -> Labels] /\ new \in [Threads -> Words]
      /\ num \in [Queues -> Int] /\ value \in [Threads -> Words \cup {Nothing}]
      /\ queue \in [Threads -> Queues \cup {NULL}]
  BY DEF QueueInv, PerThread, TypeOK
<1>1. /\ Calls[t] = CallOf(pc[t], queue[t]) /\ Answers[t] = AnswerOf(pc[t], value[t])
      /\ Calls' = [Calls EXCEPT ![t] = CallOf(pc'[t], queue'[t])]
      /\ Answers' = [Answers EXCEPT ![t] = AnswerOf(pc'[t], value'[t])]
      /\ (CallOf(pc'[t], queue'[t]) = Calls[t] => Calls' = Calls)
      /\ (AnswerOf(pc'[t], value'[t]) = Answers[t] => Answers' = Answers)
  <2>1. Calls \in [Threads -> Range(Calls)] /\ Answers \in [Threads -> Range(Answers)]
    BY DEF Calls, Answers, Range
  <2> QED BY <2>1, ViewMoves
<1>2. ~Links(t) /\ ~Takes(t) => Items' = Items
  <2>1. ASSUME ~Links(t), ~Takes(t) PROVE \A q \in Queues : Items'[q] = Items[q]
    BY <2>1, StepKinds, ItemsStay
  <2>2. /\ Items = [q \in Queues |-> Items[q]] /\ Items' = [q \in Queues |-> Items'[q]]
    BY DEF Items
  <2> QED BY <2>1, <2>2
<1>3. CASE Links(t)
  <2>1. PICK q \in Queues : queue[t] = q
    BY <1>3, LinksLast
  <2>2. Items' = [Items EXCEPT ![q] = Append(@, new[t])]
    <3>1. Grows(q, new[t], node[t]) /\ node[t] \in Nodes /\ new[t] \in Words
      BY <1>0, <1>3, <2>1, StepKinds
    <3>2. Items'[q] = Append(Items[q], new[t])
      BY <3>1, ItemsGrow
    <3>3. \A r \in Queues : r # q => Items'[r] = Items[r]
      BY <1>3, <2>1, LinksWords, ItemsStay
    <3>4. /\ Items = [r \in Queues |-> Items[r]] /\ Items' = [r \in Queues |-> Items'[r]]
      BY DEF Items
    <3> QED BY <3>2, <3>3, <3>4
  <2>3. /\ pc[t] = "enqLink" /\ pc'[t] = "enqAdvance" /\ queue'[t] = q
    BY <1>0, <1>3, <2>1 DEF Links, EnqLink, Goto, At
  <2>4. Calls[t] = <<>> /\ CallOf(pc'[t], queue'[t]) = <<"enqueued", q>>
    BY <1>1, <2>3 DEF CallOf, Linking, Claimed
  <2>5. Answers[t] = <<>> /\ AnswerOf(pc'[t], value'[t]) = <<>>
    BY <1>1, <2>3 DEF AnswerOf
  <2>6. Atomic!Enqueue(t, q, new[t])
    BY <1>1, <2>2, <2>4, <2>5 DEF Atomic!Enqueue
  <2>7. new[t] \in Words
    BY <1>0
  <2> QED BY <2>6, <2>7 DEF Atomic!Next
<1>4. CASE Takes(t)
  <2>1. PICK q \in Queues : queue[t] = q
    BY <1>0, <1>4 DEF InCall, Takes, DeqCas, At
  <2>2. Shrinks(q) /\ value[t] = Word(q, 2)
    BY <1>4, <2>1, TakesWords
  <2>3. Items[q] # <<>> /\ Head(Items[q]) = Word(q, 2) /\ Items'[q] = Tail(Items[q])
    BY <2>2, ItemsShrink
  <2>4. Items' = [Items EXCEPT ![q] = Tail(@)]
    <3>1. \A r \in Queues : r # q => Items'[r] = Items[r]
      BY <1>4, <2>1, TakesWords, ItemsStay
    <3>2. /\ Items = [r \in Queues |-> Items[r]] /\ Items' = [r \in Queues |-> Items'[r]]
      BY DEF Items
    <3> QED BY <2>3, <3>1, <3>2
  <2>5. /\ pc[t] = "deqCas" /\ pc'[t] = "deqFree" /\ value' = value
    BY <1>0, <1>4 DEF Takes, DeqCas, Goto, At
  <2>6. Calls[t] = <<"claimed", q>> /\ CallOf(pc'[t], queue'[t]) = <<>>
    BY <1>1, <2>1, <2>5 DEF CallOf, Linking, Claimed
  <2>7. AnswerOf(pc'[t], value'[t]) = <<Head(Items[q])>>
    BY <2>2, <2>3, <2>5 DEF AnswerOf
  <2>8. Atomic!Take(t, q)
    BY <1>1, <2>3, <2>4, <2>6, <2>7 DEF Atomic!Take
  <2> QED BY <2>8 DEF Atomic!Next
<1>5. ASSUME NEW q \in Queues, Dequeue(t, q) PROVE Atomic!Next
  <2>1. /\ pc[t] = "idle" /\ queue'[t] = q
        /\ pc'[t] = IF num[q] - 1 < 0 THEN "deqRestore" ELSE "deqTail"
        /\ ~Links(t) /\ ~Takes(t)
    BY <1>0, <1>5 DEF Dequeue, Goto, At, Links, Takes, EnqLink, DeqCas
  <2>2. Items' = Items
    BY <1>2, <2>1
  <2>3. Calls[t] = <<>> /\ Answers[t] = <<>>
    BY <1>1, <2>1 DEF CallOf, AnswerOf, Linking, Claimed
  <2>4. num[q] = Len(Items[q]) - Atomic!Underway(q) /\ num[q] \in Int
    <3>1. num[q] = Last(q) - 1 - Cardinality(On(q, Counted))
      BY <1>0 DEF NumExact, Last, Counted
    <3>2. Len(Items[q]) = Last(q) - 1
      BY <1>5, ItemsAfter DEF Step
    <3> QED BY <1>0, <3>1, <3>2, UnderwayCounted
  <2>5. Atomic!Underway(q) \in Nat /\ Len(Items[q]) \in Int
    <3>1. Cardinality(On(q, Counted)) \in Nat
      BY <1>5, CountAfter DEF Step
    <3>2. Len(Items[q]) = Last(q) - 1 /\ Last(q) \in Nat
      BY <1>0, <1>5, ItemsAfter, Places DEF Step
    <3> QED BY <3>1, <3>2, UnderwayCounted
  <2>6. CASE num[q] - 1 < 0
    <3>1. pc'[t] = "deqRestore"
      BY <2>1, <2>6
    <3>2. /\ CallOf(pc'[t], queue'[t]) = <<"missed", q>>
          /\ AnswerOf(pc'[t], value'[t]) = <<Nothing>>
      BY <2>1, <3>1 DEF CallOf, AnswerOf, Linking, Claimed
    <3>3. Len(Items[q]) <= Atomic!Underway(q)
      BY <2>4, <2>5, <2>6
    <3>4. Atomic!Miss(t, q)
      BY <1>1, <2>2, <2>3, <3>2, <3>3 DEF Atomic!Miss
    <3> QED BY <3>4 DEF Atomic!Next
  <2>7. CASE ~(num[q] - 1 < 0)
    <3>1. pc'[t] = "deqTail"
      BY <2>1, <2>7
    <3>2. /\ CallOf(pc'[t], queue'[t]) = <<"claimed", q>>
          /\ AnswerOf(pc'[t], value'[t]) = <<>>
      BY <2>1, <3>1 DEF CallOf, AnswerOf, Linking, Claimed
    <3>3. Len(Items[q]) > Atomic!Underway(q)
      BY <2>4, <2>5, <2>7
    <3>4. Atomic!Claim(t, q)
      BY <1>1, <2>2, <2>3, <3>2, <3>3 DEF Atomic!Claim
    <3> QED BY <3>4 DEF Atomic!Next
  <2> QED BY <2>6, <2>7
<1>6. CASE EnqCount(t) \/ DeqRestore(t) \/ DeqFree(t)
  <2>1. /\ pc[t] \in {"enqCount", "deqRestore", "deqFree"} /\ pc'[t] = "idle" /\ ~Links(t) /\ ~Takes(t)
    BY <1>0, <1>6 DEF EnqCount, DeqRestore, DeqFree, Goto, At, Links, Takes, EnqLink, DeqCas
  <2>2. CallOf(pc'[t], queue'[t]) = <<>> /\ AnswerOf(pc'[t], value'[t]) = <<>>
    BY <2>1 DEF CallOf, AnswerOf, Linking, Claimed
  <2>3. Calls[t] # <<>> => Calls[t][1] # "claimed"
    BY <1>1, <2>1 DEF CallOf, Linking, Claimed
  <2>4. Atomic!Return(t)
    BY <1>1, <1>2, <2>1, <2>2, <2>3 DEF Atomic!Return
  <2> QED BY <2>4 DEF Atomic!Next
<1>7. ASSUME /\ ~Links(t) /\ ~Takes(t)
             /\ \/ \E q \in Queues : Enqueue(t, q)
                \/ EnqAlloc(t) \/ EnqNode(t) \/ EnqTail(t) \/ EnqReadFirst(t) \/ EnqReadSecond(t)
                \/ EnqSwing(t) \/ EnqLink(t) \/ EnqAdvance(t)
                \/ DeqTail(t) \/ DeqHead(t) \/ DeqNext(t) \/ DeqSwing(t) \/ DeqData(t) \/ DeqCas(t)
      PROVE  UNCHANGED <<Items, Calls, Answers>>
  <2>1. Items' = Items
    BY <1>2, <1>7
  <2>2. /\ pc[t] \notin {"deqFree", "deqRestore"} /\ pc'[t] \notin {"deqFree", "deqRestore"}
        /\ \/ pc[t] \notin Counted /\ pc'[t] \notin Counted
           \/ pc[t] \in Linking /\ pc'[t] \in Linking /\ queue'[t] = queue[t]
           \/ pc[t] \in Claimed /\ pc'[t] \in Claimed /\ queue'[t] = queue[t]
    <3>1. ASSUME NEW q \in Queues, Enqueue(t, q)
          PROVE  pc[t] = "idle" /\ pc'[t] = "enqAlloc"
      BY <1>0, <3>1 DEF Enqueue, Goto, At
    <3>2. CASE EnqAlloc(t) \/ EnqNode(t) \/ EnqTail(t) \/ EnqReadFirst(t) \/ EnqReadSecond(t)
               \/ EnqSwing(t) \/ EnqLink(t)
      <4>1. /\ pc[t] \in {"enqAlloc"} \cup Building /\ pc'[t] \in Building
        BY <1>0, <1>7, <3>2 DEF EnqAlloc, EnqNode, EnqTail, EnqReadFirst, EnqReadSecond, EnqSwing, EnqLink,
                                Links, Building, Goto, At
      <4> QED BY <4>1 DEF Building, Counted, Linking, Claimed
    <3>3. CASE EnqAdvance(t)
      BY <1>0, <3>3 DEF EnqAdvance, Goto, At, Counted, Linking, Claimed
    <3>4. CASE DeqTail(t) \/ DeqHead(t) \/ DeqNext(t) \/ DeqSwing(t) \/ DeqData(t) \/ DeqCas(t)
      <4>1. queue' = queue /\ pc[t] \in Claimed /\ pc'[t] \in Claimed
        BY <1>0, <1>7, <3>4 DEF DeqTail, DeqHead, DeqNext, DeqSwing, DeqData, DeqCas, Takes, Goto, At, Claimed
      <4> QED BY <4>1 DEF Claimed
    <3> QED BY <1>7, <3>1, <3>2, <3>3, <3>4 DEF Counted, Linking, Claimed
  <2>3. AnswerOf(pc'[t], value'[t]) = Answers[t]
    BY <1>1, <2>2 DEF AnswerOf
  <2>4. CallOf(pc'[t], queue'[t]) = Calls[t]
    BY <1>1, <2>2 DEF CallOf, Counted, Linking, Claimed
  <2> QED BY <1>1, <2>1, <2>3, <2>4
<1> QED BY <1>3, <1>4, <1>5, <1>6, <1>7 DEF Step

\* Enqueue and Dequeue each happen at one instant, between call and return, first in first
\* out, and Dequeue answers nullopt only while calls under way account for every item:
\* CLockFreeQueue is the queue that sendPacketQ_, ReconnectQ_ and g_msgQ are taken for
\* (CLockFreeQueue.h:61-133).
THEOREM QueueImplements == ASSUME Recurs = FALSE PROVE Spec => QueueAtomic
<1>1. Init => Atomic!Init
  <2>1. ASSUME Init PROVE Calls = [t \in Threads |-> <<>>] /\ Answers = [t \in Threads |-> <<>>]
    BY <2>1 DEF Init, Calls, Answers, Linking, Claimed
  <2>2. ASSUME Init PROVE Items = [q \in Queues |-> <<>>]
    <3>1. QueueInv /\ ItemsSpelled
      BY <2>2, QueueInvInit, ItemsAreWords DEF QueueInv
    <3>2. ASSUME NEW q \in Queues PROVE Items[q] = <<>>
      <4>1. Last(q) = 1
        <5>1. PICK dummy : chain = [r \in Queues |-> <<dummy[r]>>]
          BY <2>2 DEF Init
        <5> QED BY <5>1 DEF Last
      <4>2. Items[q] \in Seq(Words) /\ Len(Items[q]) = 0
        BY <3>1, <4>1 DEF ItemsSpelled
      <4> QED BY <4>2
    <3> QED BY <3>2 DEF Items
  <2> QED BY <2>1, <2>2 DEF Atomic!Init
<1>2. ASSUME QueueInv, [Next]_vars
      PROVE  Atomic!Next \/ UNCHANGED <<Items, Calls, Answers>>
  <2>1. CASE UNCHANGED vars
    BY <2>1 DEF vars, shared, locals, Items, Calls, Answers
  <2> QED BY <1>2, <2>1, StepSimulates DEF Next
<1> QED BY <1>1, <1>2, QueueInvAlways, PTL DEF Spec, QueueAtomic, Atomic!Spec, Atomic!vars
=============================================================================
