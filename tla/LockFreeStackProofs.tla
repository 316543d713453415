------------------------ MODULE LockFreeStackProofs ------------------------
(***************************************************************************)
(* Proofs about LockFreeStack, for any threads, nodes, values and number   *)
(* of counts: while no count comes again under a Pop that waits for it     *)
(* (Recurs = FALSE), the stack stays whole and every call is atomic.       *)
(***************************************************************************)
EXTENDS LockFreeStack, TLAPS

-----------------------------------------------------------------------------
(* Sequences *)

\* A node put in front
LEMMA PutFront ==
  ASSUME NEW S, NEW s \in Seq(S), NEW x \in S
  PROVE  LET r == <<x>> \o s
         IN /\ r \in Seq(S) /\ Len(r) = Len(s) + 1 /\ r[1] = x
            /\ \A i \in 1 .. Len(s) : r[i + 1] = s[i]
OBVIOUS

\* The front taken off
LEMMA TakeFront ==
  ASSUME NEW S, NEW s \in Seq(S), s # <<>>
  PROVE  LET r == SubSeq(s, 2, Len(s))
         IN /\ r \in Seq(S) /\ Len(r) = Len(s) - 1
            /\ \A i \in 1 .. Len(s) - 1 : r[i] = s[i + 1]
BY SMTT(30)

\* Sequences that agree everywhere
LEMMA SameSequence ==
  ASSUME NEW S, NEW s \in Seq(S), NEW r \in Seq(S), Len(s) = Len(r),
         \A i \in 1 .. Len(s) : s[i] = r[i]
  PROVE  s = r
OBVIOUS

\* What the nodes of a sequence hold
LEMMA HeldBy ==
  ASSUME NEW s \in Seq(Nodes), NEW d \in [Nodes -> Values]
  PROVE  LET r == [i \in DOMAIN s |-> d[s[i]]]
         IN /\ r \in Seq(Values) /\ Len(r) = Len(s)
            /\ \A i \in 1 .. Len(s) : r[i] = d[s[i]]
OBVIOUS

\* GetCnt stays among the counts.
LEMMA CountsStay == \A c \in Counts : AfterGetCnt(c) \in Counts
BY CounterAssumption DEF Counts, AfterGetCnt

-----------------------------------------------------------------------------
(* The invariant *)

\* The word that leads to the i-th node of the stack
Word(i) == IF i = 1 THEN metaTop ELSE metaNext[list[i - 1]]

\* The words spell the stack, and the last one is 0.
Spelled ==
    /\ \A i \in 1 .. Len(list) : GetRealAddr(Word(i)) = list[i]
    /\ Word(Len(list) + 1) = ZeroWord

\* Who owns a node
Owns == {"pushTag", "pushRead", "pushLink", "pushCas", "popFree"}
Owning == \A t \in Threads : node[t] # NULL <=> pc[t] \in Owns

\* What a Push has built: a word for its node, and the link to what it took for
\* the top
Built(t) == pc[t] \in {"pushRead", "pushLink", "pushCas"}
Pushing ==
    \A t \in Threads :
        /\ Built(t) => GetRealAddr(new[t]) = node[t]
        /\ pc[t] = "pushCas" => metaNext[node[t]] = old[t]

\* What a Pop has read
Waits(t) == pc[t] \in {"popNext", "popCas"}
Popping == \A t \in Threads : Waits(t) => GetRealAddr(old[t]) \in Nodes

\* No Push is about to put back a word that a Pop waits for: this is what the count
\* in the word is there for.
NeverBack == \A t, u \in Threads : Built(u) /\ Waits(t) => new[u] # old[t]

\* The next word a Pop has read is still right wherever in the stack the word it
\* waits for is: then its compare-exchange may succeed.
Fresh ==
    \A t \in Threads : pc[t] = "popCas" =>
        \A i \in 1 .. Len(list) : old[t] = Word(i) => new[t] = Word(i + 1)

StackInv ==
    /\ TypeOK /\ Spelled /\ NodeOnce
    /\ Owning /\ Pushing /\ Popping /\ NeverBack /\ Fresh

\* The words spell the stack exactly if it is Linked.
LEMMA SpelledLinked == ASSUME TypeOK PROVE Spelled <=> Linked
<1>1. list \in Seq(Nodes) /\ Len(list) \in Nat /\ \A i \in 1 .. Len(list) : list[i] \in Nodes
  BY DEF TypeOK
<1>2. \A n \in Nodes : GetRealAddr(ZeroWord) # n
  BY NodeAssumption DEF GetRealAddr, GetMetaAddr, ZeroWord
<1>3. ASSUME Spelled PROVE Linked
  <2>1. metaTop = ZeroWord <=> list = <<>>
    BY <1>1, <1>2, <1>3 DEF Spelled, Word
  <2>2. list # <<>> => GetRealAddr(metaTop) = list[1]
    BY <1>1, <1>3 DEF Spelled, Word
  <2>3. ASSUME NEW i \in 1 .. Len(list)
        PROVE  IF i = Len(list) THEN metaNext[list[i]] = ZeroWord
               ELSE GetRealAddr(metaNext[list[i]]) = list[i + 1]
    <3>1. Word(i + 1) = metaNext[list[i]]
      BY <1>1 DEF Word
    <3>2. i # Len(list) => i + 1 \in 1 .. Len(list)
      BY <1>1
    <3> QED BY <1>3, <3>1, <3>2 DEF Spelled
  <2> QED BY <2>1, <2>2, <2>3 DEF Linked
<1>4. ASSUME Linked PROVE Spelled
  <2>1. ASSUME NEW i \in 1 .. Len(list) PROVE GetRealAddr(Word(i)) = list[i]
    <3>1. CASE i = 1
      BY <1>1, <1>4, <3>1 DEF Linked, Word
    <3>2. CASE i # 1
      <4>1. i - 1 \in 1 .. Len(list) /\ i - 1 # Len(list) /\ (i - 1) + 1 = i
        BY <1>1, <3>2
      <4> QED BY <1>4, <3>2, <4>1 DEF Linked, Word
    <3> QED BY <3>1, <3>2
  <2>2. Word(Len(list) + 1) = ZeroWord
    BY <1>1, <1>4 DEF Linked, Word
  <2> QED BY <2>1, <2>2 DEF Spelled
<1> QED BY <1>3, <1>4

-----------------------------------------------------------------------------
(* What a step does to the words *)

\* Numbers and places of the stack
LEMMA Places ==
  ASSUME TypeOK
  PROVE  /\ list \in Seq(Nodes) /\ Len(list) \in Nat /\ DOMAIN list = 1 .. Len(list)
         /\ \A i \in 1 .. Len(list) : list[i] \in Nodes
BY DEF TypeOK

\* The word 0 leads nowhere.
LEMMA ZeroIsNoNode == \A n \in Nodes : GetRealAddr(ZeroWord) # n
BY NodeAssumption DEF GetRealAddr, GetMetaAddr, ZeroWord

\* A step that leaves the stack and the links of its nodes alone leaves the words alone.
LEMMA WordsStay ==
  ASSUME StackInv, list' = list, metaTop' = metaTop,
         \A n \in Nodes : InStack(n) => metaNext'[n] = metaNext[n]
  PROVE  Spelled' /\ \A i \in 1 .. Len(list) + 1 : Word(i)' = Word(i)
<1>1. \A i \in 1 .. Len(list) + 1 : Word(i)' = Word(i)
  <2>1. SUFFICES ASSUME NEW i \in 1 .. Len(list) + 1, i # 1
                 PROVE  metaNext'[list[i - 1]] = metaNext[list[i - 1]]
    BY DEF Word
  <2>2. i - 1 \in 1 .. Len(list)
    BY <2>1, Places DEF StackInv
  <2>3. InStack(list[i - 1]) /\ list[i - 1] \in Nodes
    BY <2>2, Places DEF StackInv, InStack
  <2> QED BY <2>3
<1>2. Spelled'
  BY <1>1, Places DEF StackInv, Spelled
<1> QED BY <1>1, <1>2

\* Push puts its word in front of the others.
LEMMA PushShifts ==
  ASSUME StackInv, NEW t \in Threads, PushCas(t)
  PROVE  /\ node[t] \in Nodes /\ Len(list') = Len(list) + 1 /\ list' \in Seq(Nodes)
         /\ list'[1] = node[t] /\ \A i \in 1 .. Len(list) : list'[i + 1] = list[i]
         /\ Word(1)' = new[t]
         /\ \A i \in 1 .. Len(list) + 1 : Word(i + 1)' = Word(i)
<1>1. node[t] \in Nodes
  BY DEF StackInv, TypeOK, Owning, Owns, PushCas, At
<1>2. /\ Len(list') = Len(list) + 1 /\ list' \in Seq(Nodes)
      /\ list'[1] = node[t] /\ \A i \in 1 .. Len(list) : list'[i + 1] = list[i]
  BY <1>1, PutFront, Places DEF PushCas, StackInv
<1>3. Word(1)' = new[t]
  BY DEF Word, PushCas
<1>4. metaNext' = metaNext /\ metaNext[node[t]] = metaTop
  BY DEF PushCas, StackInv, Pushing, At
<1>5. ASSUME NEW i \in 1 .. Len(list) + 1 PROVE Word(i + 1)' = Word(i)
  <2>1. i \in Nat /\ Len(list) \in Nat /\ i + 1 # 1 /\ (i + 1) - 1 = i
    BY Places DEF StackInv
  <2>2. Word(i + 1)' = metaNext[list'[i]]
    BY <2>1, <1>4 DEF Word
  <2>3. CASE i = 1
    BY <2>2, <2>3, <1>2, <1>4 DEF Word
  <2>4. CASE i # 1
    <3>1. i - 1 \in 1 .. Len(list) /\ (i - 1) + 1 = i
      BY <2>1, <2>4
    <3>2. list'[i] = list[i - 1]
      BY <3>1, <1>2
    <3> QED BY <2>2, <2>4, <3>2 DEF Word
  <2> QED BY <2>3, <2>4
<1> QED BY <1>1, <1>2, <1>3, <1>5

\* Pop takes the first node, and the words behind it move up.
LEMMA PopShifts ==
  ASSUME StackInv, NEW t \in Threads, PopCas(t)
  PROVE  /\ list # <<>> /\ GetRealAddr(old[t]) = list[1]
         /\ Len(list') = Len(list) - 1 /\ list' \in Seq(Nodes)
         /\ \A i \in 1 .. Len(list) - 1 : list'[i] = list[i + 1]
         /\ \A i \in 1 .. Len(list) : Word(i)' = Word(i + 1)
<1>0. /\ list \in Seq(Nodes) /\ Len(list) \in Nat
      /\ \A i \in 1 .. Len(list) : list[i] \in Nodes
  BY Places DEF StackInv
<1>1. GetRealAddr(metaTop) \in Nodes /\ metaTop = old[t] /\ pc[t] = "popCas"
  BY DEF StackInv, Popping, Waits, PopCas, At
<1>2. Len(list) # 0
  BY <1>1, ZeroIsNoNode DEF StackInv, Spelled, Word
<1>3. 1 \in 1 .. Len(list) /\ list # <<>>
  BY <1>0, <1>2
<1>4. GetRealAddr(old[t]) = list[1] /\ new[t] = Word(2)
  BY <1>1, <1>3 DEF StackInv, Spelled, Fresh, Word
<1>5. /\ Len(list') = Len(list) - 1 /\ list' \in Seq(Nodes)
      /\ \A i \in 1 .. Len(list) - 1 : list'[i] = list[i + 1]
  BY <1>0, <1>3, TakeFront DEF PopCas
<1>6. ASSUME NEW i \in 1 .. Len(list) PROVE Word(i)' = Word(i + 1)
  <2>1. CASE i = 1
    BY <2>1, <1>4 DEF Word, PopCas
  <2>2. CASE i # 1
    <3>1. /\ i - 1 \in 1 .. Len(list) - 1 /\ (i - 1) + 1 = i
          /\ i + 1 # 1 /\ (i + 1) - 1 = i
      BY <1>0, <2>2
    <3>2. list'[i - 1] = list[i]
      BY <1>5, <3>1
    <3> QED BY <2>2, <3>1, <3>2 DEF Word, PopCas
  <2> QED BY <2>1, <2>2
<1> QED BY <1>3, <1>4, <1>5, <1>6

-----------------------------------------------------------------------------
(* Each part of the invariant is kept *)

\* Every variable keeps its type.
LEMMA TypeKept == ASSUME StackInv, NEW t \in Threads, Step(t) PROVE TypeOK'
<1>1. TypeOK
  BY DEF StackInv
<1>2. ASSUME NEW v \in Values, Push(t, v) PROVE TypeOK'
  <2>1. PICK n \in free : /\ free' = free \ {n} /\ node' = [node EXCEPT ![t] = n]
                          /\ data' = [data EXCEPT ![n] = v]
                          /\ metaNext' = [metaNext EXCEPT ![n] = ZeroWord]
    BY <1>2 DEF Push
  <2>2. ZeroWord \in Words
    BY CounterAssumption DEF ZeroWord, Words, Counts, GetMetaAddr
  <2> QED BY <1>1, <1>2, <2>1, <2>2 DEF TypeOK, Push, Goto, Labels
<1>3. CASE PushTag(t)
  <2>1. node[t] \in Nodes /\ metaCnt \in Counts
    BY <1>3 DEF StackInv, TypeOK, Owning, Owns, PushTag, At
  <2>2. GetMetaAddr(metaCnt, node[t]) \in Words
    BY <2>1 DEF GetMetaAddr, Words
  <2> QED BY <1>1, <1>3, <2>1, <2>2, CountsStay DEF TypeOK, PushTag, Goto, Labels
<1>4. CASE PushRead(t)
  BY <1>1, <1>4 DEF TypeOK, PushRead, Goto, Labels, memory
<1>5. CASE PushLink(t)
  BY <1>1, <1>5 DEF TypeOK, PushLink, Goto, Labels
<1>6. CASE PushCas(t)
  <2>1. ZeroWord \in Words
    BY CounterAssumption DEF ZeroWord, Words, Counts, GetMetaAddr
  <2> QED BY <1>1, <1>6, <2>1, PushShifts DEF TypeOK, PushCas, Goto, Labels, Forget
<1>7. CASE PushRetry(t)
  BY <1>1, <1>7 DEF TypeOK, PushRetry, Goto, Labels, memory
<1>8. CASE PopRead(t)
  BY <1>1, <1>8 DEF TypeOK, PopRead, Goto, Labels, memory
<1>9. CASE PopNext(t)
  <2>1. GetRealAddr(old[t]) \in Nodes
    BY <1>9 DEF StackInv, Popping, Waits, PopNext, At
  <2> QED BY <1>1, <1>9, <2>1 DEF TypeOK, PopNext, Goto, Labels, memory
<1>10. CASE PopCas(t)
  <2>1. GetRealAddr(old[t]) \in Nodes
    BY <1>10 DEF StackInv, Popping, Waits, PopCas, At
  <2>2. ZeroWord \in Words
    BY CounterAssumption DEF ZeroWord, Words, Counts, GetMetaAddr
  <2> QED BY <1>1, <1>10, <2>1, <2>2, PopShifts DEF TypeOK, PopCas, Goto, Labels, Forget
<1>11. CASE PopRetry(t)
  <2>1. ZeroWord \in Words
    BY CounterAssumption DEF ZeroWord, Words, Counts, GetMetaAddr
  <2> QED BY <1>1, <1>11, <2>1 DEF TypeOK, PopRetry, Goto, Labels, Forget, memory
<1>12. CASE PopFree(t)
  <2>1. node[t] \in Nodes
    BY <1>12 DEF StackInv, TypeOK, Owning, Owns, PopFree, At
  <2> QED BY <1>1, <1>12, <2>1 DEF TypeOK, PopFree, Goto, Labels
<1>13. CASE PopDone(t)
  BY <1>1, <1>13 DEF TypeOK, PopDone, Goto, Labels, memory
<1> QED
  BY <1>2, <1>3, <1>4, <1>5, <1>6, <1>7, <1>8, <1>9, <1>10, <1>11, <1>12, <1>13
  DEF Step

\* All but the two successful compare-exchanges leave the words alone: only the link
\* of a node outside the stack is written.
LEMMA Quiet ==
  ASSUME StackInv, NEW t \in Threads, Step(t), ~PushCas(t), ~PopCas(t)
  PROVE  /\ list' = list /\ metaTop' = metaTop
         /\ \A n \in Nodes : InStack(n) => metaNext'[n] = metaNext[n]
<1>1. TypeOK /\ NodeOnce /\ Owning
  BY DEF StackInv
<1>2. ASSUME NEW v \in Values, Push(t, v)
      PROVE  /\ list' = list /\ metaTop' = metaTop
             /\ \A n \in Nodes : InStack(n) => metaNext'[n] = metaNext[n]
  BY <1>1, <1>2 DEF Push, NodeOnce, TypeOK
<1>3. CASE PushLink(t)
  <2>1. node[t] # NULL
    BY <1>1, <1>3 DEF Owning, Owns, PushLink, At
  <2> QED BY <1>1, <1>3, <2>1 DEF PushLink, NodeOnce, TypeOK
<1>4. CASE PushTag(t) \/ PushRead(t) \/ PushRetry(t) \/ PopRead(t) \/ PopNext(t)
           \/ PopRetry(t) \/ PopFree(t) \/ PopDone(t)
  BY <1>4
  DEF PushTag, PushRead, PushRetry, PopRead, PopNext, PopRetry, PopFree, PopDone, memory
<1> QED BY <1>2, <1>3, <1>4 DEF Step

\* The words spell the stack after every step.
LEMMA SpelledKept == ASSUME StackInv, NEW t \in Threads, Step(t) PROVE Spelled'
<1>0. /\ Spelled /\ Len(list) \in Nat
      /\ list \in Seq(Nodes)
  BY Places DEF StackInv
<1>1. CASE PushCas(t)
  <2>1. /\ Len(list') = Len(list) + 1 /\ list'[1] = node[t]
        /\ \A i \in 1 .. Len(list) : list'[i + 1] = list[i]
        /\ Word(1)' = new[t]
        /\ \A i \in 1 .. Len(list) + 1 : Word(i + 1)' = Word(i)
    BY <1>1, PushShifts
  <2>2. GetRealAddr(new[t]) = node[t]
    BY <1>1 DEF StackInv, Pushing, Built, PushCas, At
  <2>3. ASSUME NEW i \in 1 .. Len(list) + 1 PROVE GetRealAddr(Word(i)') = list'[i]
    <3>1. CASE i = 1
      BY <2>1, <2>2, <3>1
    <3>2. CASE i # 1
      <4>1. i - 1 \in 1 .. Len(list) /\ (i - 1) + 1 = i
        BY <1>0, <3>2
      <4>2. Word(i)' = Word(i - 1) /\ list'[i] = list[i - 1]
        BY <2>1, <4>1
      <4> QED BY <1>0, <4>1, <4>2 DEF Spelled
    <3> QED BY <3>1, <3>2
  <2>4. ASSUME NEW k \in Nat, k = Len(list') + 1 PROVE Word(k)' = ZeroWord
    <3>1. Len(list) + 1 \in 1 .. Len(list) + 1 /\ k = (Len(list) + 1) + 1
      BY <1>0, <2>1, <2>4
    <3> QED BY <1>0, <2>1, <3>1 DEF Spelled
  <2>5. Len(list') \in Nat /\ Len(list') + 1 \in Nat
    BY <1>0, <2>1
  <2>6. (Word(Len(list) + 1) = ZeroWord)'
    BY <2>4, <2>5 DEF Word
  <2> QED BY <2>1, <2>3, <2>6 DEF Spelled, GetRealAddr
<1>2. CASE PopCas(t)
  <2>1. /\ Len(list) # 0 /\ Len(list') = Len(list) - 1
        /\ \A i \in 1 .. Len(list) - 1 : list'[i] = list[i + 1]
        /\ \A i \in 1 .. Len(list) : Word(i)' = Word(i + 1)
    BY <1>0, <1>2, PopShifts
  <2>2. ASSUME NEW i \in 1 .. Len(list) - 1 PROVE GetRealAddr(Word(i)') = list'[i]
    <3>1. i \in 1 .. Len(list) /\ i + 1 \in 1 .. Len(list)
      BY <1>0
    <3> QED BY <1>0, <2>1, <3>1 DEF Spelled
  <2>3. ASSUME NEW k \in Nat, k = Len(list') + 1 PROVE Word(k)' = ZeroWord
    <3>1. k \in 1 .. Len(list) /\ k = Len(list)
      BY <1>0, <2>1, <2>3
    <3> QED BY <1>0, <2>1, <3>1 DEF Spelled
  <2>4. Len(list') \in Nat /\ Len(list') + 1 \in Nat
    BY <1>0, <2>1
  <2>5. (Word(Len(list) + 1) = ZeroWord)'
    BY <2>3, <2>4 DEF Word
  <2> QED BY <2>1, <2>2, <2>5 DEF Spelled, GetRealAddr
<1>3. CASE ~PushCas(t) /\ ~PopCas(t)
  BY <1>3, Quiet, WordsStay
<1> QED BY <1>1, <1>2, <1>3

\* Exactly the threads between Alloc and the compare-exchange of Push, or between that
\* of Pop and Free, own a node.
LEMMA OwningKept == ASSUME StackInv, NEW t \in Threads, Step(t) PROVE Owning'
<1>1. TypeOK /\ Owning
  BY DEF StackInv
<1>2. ASSUME NEW v \in Values, Push(t, v) PROVE Owning'
  BY <1>1, <1>2, NodeAssumption DEF TypeOK, Owning, Owns, Push, Goto, At
<1>3. CASE PushTag(t) \/ PushRead(t) \/ PushLink(t) \/ PushRetry(t)
           \/ PopRead(t) \/ PopNext(t) \/ PopRetry(t) \/ PopDone(t)
  BY <1>1, <1>3
  DEF TypeOK, Owning, Owns, PushTag, PushRead, PushLink, PushRetry, PopRead, PopNext,
      PopRetry, PopDone, Goto, At
<1>4. CASE PushCas(t) \/ PopFree(t)
  BY <1>1, <1>4 DEF TypeOK, Owning, Owns, PushCas, PopFree, Goto, At
<1>5. CASE PopCas(t)
  <2>1. GetRealAddr(old[t]) \in Nodes
    BY <1>5 DEF StackInv, Popping, Waits, PopCas, At
  <2> QED BY <1>1, <1>5, <2>1, NodeAssumption DEF TypeOK, Owning, Owns, PopCas, Goto, At
<1> QED BY <1>2, <1>3, <1>4, <1>5 DEF Step

\* A node stays in one place at a time.
LEMMA NodeOnceKept == ASSUME StackInv, NEW t \in Threads, Step(t) PROVE NodeOnce'
<1>1. TypeOK /\ NodeOnce /\ Owning
  BY DEF StackInv
<1>2. /\ list \in Seq(Nodes) /\ Len(list) \in Nat /\ DOMAIN list = 1 .. Len(list)
      /\ \A i \in 1 .. Len(list) : list[i] \in Nodes
  BY <1>1, Places
<1>3. ASSUME NEW v \in Values, Push(t, v) PROVE NodeOnce'
  <2>1. PICK n \in free : free' = free \ {n} /\ node' = [node EXCEPT ![t] = n]
    BY <1>3 DEF Push
  <2>2. list' = list
    BY <1>3 DEF Push
  <2> QED BY <1>1, <2>1, <2>2 DEF TypeOK, NodeOnce, InStack
<1>4. CASE PushTag(t) \/ PushRead(t) \/ PushLink(t) \/ PushRetry(t)
           \/ PopRead(t) \/ PopNext(t) \/ PopRetry(t) \/ PopDone(t)
  <2>1. list' = list /\ free' = free /\ node' = node
    BY <1>4
    DEF PushTag, PushRead, PushLink, PushRetry, PopRead, PopNext, PopRetry, PopDone, memory
  <2> QED BY <1>1, <2>1 DEF NodeOnce, InStack
<1>5. CASE PushCas(t)
  <2>1. /\ node[t] \in Nodes /\ node[t] # NULL
        /\ Len(list') = Len(list) + 1 /\ list' \in Seq(Nodes)
        /\ list'[1] = node[t] /\ \A i \in 1 .. Len(list) : list'[i + 1] = list[i]
    BY <1>5, PushShifts, NodeAssumption
  <2>2. DOMAIN list' = 1 .. Len(list) + 1
    BY <2>1
  <2>3. \A i \in 2 .. Len(list) + 1 : i - 1 \in 1 .. Len(list) /\ list'[i] = list[i - 1]
    <3>1. SUFFICES ASSUME NEW i \in 2 .. Len(list) + 1
                   PROVE  i - 1 \in 1 .. Len(list) /\ list'[i] = list[i - 1]
      OBVIOUS
    <3>2. i - 1 \in 1 .. Len(list) /\ (i - 1) + 1 = i
      BY <1>2
    <3> QED BY <2>1, <3>2
  <2>4. free' = free /\ node' = [node EXCEPT ![t] = NULL]
    BY <1>5 DEF PushCas
  <2>5. \A n : InStack(n)' <=> n = node[t] \/ InStack(n)
    <3>1. ASSUME NEW n, InStack(n)' PROVE n = node[t] \/ InStack(n)
      <4>1. PICK i \in 1 .. Len(list) + 1 : list'[i] = n
        BY <2>2, <3>1 DEF InStack
      <4>2. i = 1 \/ i \in 2 .. Len(list) + 1
        BY <1>2
      <4> QED BY <1>2, <2>1, <2>3, <4>1, <4>2 DEF InStack
    <3>2. ASSUME NEW n, n = node[t] \/ InStack(n) PROVE InStack(n)'
      <4>1. \A i \in 1 .. Len(list) : i + 1 \in 1 .. Len(list) + 1
        BY <1>2
      <4>2. 1 \in 1 .. Len(list) + 1
        BY <1>2
      <4> QED BY <1>2, <2>1, <2>2, <3>2, <4>1, <4>2 DEF InStack
    <3> QED BY <3>1, <3>2
  <2>6. \A i, j \in 1 .. Len(list) + 1 : list'[i] = list'[j] => i = j
    <3>1. ASSUME NEW i \in 2 .. Len(list) + 1 PROVE list'[i] # list'[1]
      <4>1. \A j \in 1 .. Len(list) : list[j] # node[t]
        BY <1>1, <1>2, <2>1 DEF NodeOnce, InStack
      <4> QED BY <2>1, <2>3, <4>1
    <3>2. \A i, j \in 2 .. Len(list) + 1 : list'[i] = list'[j] => i = j
      BY <1>1, <1>2, <2>3 DEF NodeOnce
    <3>3. \A i \in 1 .. Len(list) + 1 : i = 1 \/ i \in 2 .. Len(list) + 1
      BY <1>2
    <3> QED BY <3>1, <3>2, <3>3
  <2> QED BY <1>1, <2>1, <2>2, <2>4, <2>5, <2>6 DEF NodeOnce, TypeOK
<1>6. CASE PopCas(t)
  <2>1. /\ list # <<>> /\ GetRealAddr(old[t]) = list[1] /\ Len(list') = Len(list) - 1
        /\ list' \in Seq(Nodes) /\ \A i \in 1 .. Len(list) - 1 : list'[i] = list[i + 1]
    BY <1>6, PopShifts
  <2>2. /\ DOMAIN list' = 1 .. Len(list) - 1 /\ 1 \in 1 .. Len(list)
        /\ \A i \in 1 .. Len(list) - 1 : i + 1 \in 1 .. Len(list) /\ i + 1 # 1
    BY <1>2, <2>1
  <2>3. free' = free /\ node' = [node EXCEPT ![t] = list[1]]
    BY <1>6, <2>1 DEF PopCas
  <2>4. \A n : InStack(n)' => InStack(n) /\ n # list[1]
    BY <1>1, <1>2, <2>1, <2>2 DEF InStack, NodeOnce
  <2>5. \A i, j \in 1 .. Len(list) - 1 : list'[i] = list'[j] => i = j
    BY <1>1, <1>2, <2>1, <2>2 DEF NodeOnce
  <2>6. InStack(list[1])
    BY <1>2, <2>2 DEF InStack
  <2> QED BY <1>1, <2>2, <2>3, <2>4, <2>5, <2>6 DEF NodeOnce, TypeOK
<1>7. CASE PopFree(t)
  <2>1. node[t] # NULL
    BY <1>1, <1>7 DEF Owning, Owns, PopFree, At
  <2>2. list' = list /\ free' = free \cup {node[t]} /\ node' = [node EXCEPT ![t] = NULL]
    BY <1>7 DEF PopFree
  <2> QED BY <1>1, <2>1, <2>2 DEF NodeOnce, TypeOK, InStack
<1> QED BY <1>3, <1>4, <1>5, <1>6, <1>7 DEF Step

\* What a Push has built fits its node until the compare-exchange.
LEMMA PushingKept == ASSUME StackInv, NEW t \in Threads, Step(t) PROVE Pushing'
<1>1. TypeOK /\ NodeOnce /\ Owning /\ Pushing
  BY DEF StackInv
<1>2. ASSUME NEW v \in Values, Push(t, v) PROVE Pushing'
  <2>1. PICK n \in free : /\ free' = free \ {n} /\ node' = [node EXCEPT ![t] = n]
                          /\ metaNext' = [metaNext EXCEPT ![n] = ZeroWord]
    BY <1>2 DEF Push
  <2>2. \A u \in Threads : pc[u] = "pushCas" => node[u] \in Nodes /\ node[u] # n
    BY <1>1, <2>1 DEF TypeOK, NodeOnce, Owning, Owns
  <2>3. new' = new /\ old' = old /\ pc' = [pc EXCEPT ![t] = "pushTag"]
    BY <1>2 DEF Push, Goto
  <2> QED BY <1>1, <2>1, <2>2, <2>3 DEF TypeOK, Pushing, Built, GetRealAddr
<1>3. CASE PushTag(t)
  BY <1>1, <1>3
  DEF TypeOK, Pushing, Built, PushTag, At, Goto, GetRealAddr, GetMetaAddr
<1>4. CASE PushRead(t) \/ PushRetry(t) \/ PopRead(t) \/ PopNext(t) \/ PopRetry(t) \/ PopDone(t)
  BY <1>1, <1>4
  DEF TypeOK, Pushing, Built, PushRead, PushRetry, PopRead, PopNext, PopRetry, PopDone,
      At, Goto, Forget, memory, GetRealAddr
<1>5. CASE PushLink(t)
  <2>1. node[t] \in Nodes
    BY <1>1, <1>5 DEF TypeOK, Owning, Owns, PushLink, At
  <2>2. \A u \in Threads : u # t /\ pc[u] = "pushCas" => node[u] \in Nodes /\ node[u] # node[t]
    BY <1>1, <2>1, NodeAssumption DEF TypeOK, NodeOnce, Owning, Owns
  <2> QED BY <1>1, <1>5, <2>1, <2>2
          DEF TypeOK, Pushing, Built, PushLink, At, Goto, GetRealAddr
<1>6. CASE PushCas(t) \/ PopCas(t) \/ PopFree(t)
  BY <1>1, <1>6, SMTT(30)
  DEF TypeOK, Pushing, Built, PushCas, PopCas, PopFree, At, Goto, Forget, GetRealAddr
<1> QED BY <1>2, <1>3, <1>4, <1>5, <1>6 DEF Step

\* A Pop that goes on has read the word of a node.
LEMMA PoppingKept == ASSUME StackInv, NEW t \in Threads, Step(t) PROVE Popping'
<1>1. TypeOK /\ Popping
  BY DEF StackInv
<1>2. CASE PopRead(t)
  <2>1. metaTop # ZeroWord => GetRealAddr(metaTop) \in Nodes
    <3>1. Len(list) # 0 => 1 \in 1 .. Len(list)
      BY Places DEF StackInv
    <3> QED BY <3>1, Places DEF StackInv, Spelled, Word
  <2> QED BY <1>1, <1>2, <2>1 DEF TypeOK, Popping, Waits, PopRead, Goto, GetRealAddr
<1>3. CASE \E v \in Values : Push(t, v)
  BY <1>1, <1>3 DEF TypeOK, Popping, Waits, Push, Goto, GetRealAddr
<1>4. CASE PushTag(t) \/ PushRead(t) \/ PushLink(t) \/ PushCas(t) \/ PushRetry(t)
  BY <1>1, <1>4
  DEF TypeOK, Popping, Waits, PushTag, PushRead, PushLink, PushCas, PushRetry,
      Goto, Forget, At, GetRealAddr
<1>5. CASE PopNext(t) \/ PopCas(t) \/ PopRetry(t) \/ PopFree(t) \/ PopDone(t)
  BY <1>1, <1>5
  DEF TypeOK, Popping, Waits, PopNext, PopCas, PopRetry, PopFree, PopDone,
      Goto, Forget, At, GetRealAddr
<1> QED BY <1>2, <1>3, <1>4, <1>5 DEF Step

\* No Push builds the word a Pop waits for, unless counts recur under it; and what a
\* Pop reads on top no Push is about to put there.
LEMMA NeverBackKept ==
  ASSUME StackInv, Recurs = FALSE, NEW t \in Threads, Step(t)
  PROVE  NeverBack'
<1>1. TypeOK /\ NeverBack /\ Owning /\ Pushing
  BY DEF StackInv
<1>2. CASE PushTag(t)
  <2>1. \A u \in Threads : Waits(u) => old[u] # GetMetaAddr(metaCnt, node[t])
    BY <1>2 DEF PushTag, NoRecurrence, Expects, Waits
  <2> QED BY <1>1, <1>2, <2>1 DEF TypeOK, NeverBack, Built, Waits, PushTag, Goto, At
<1>3. CASE PopRead(t)
  <2>1. ASSUME NEW u \in Threads, Built(u), metaTop # ZeroWord PROVE new[u] # metaTop
    <3>1. GetRealAddr(new[u]) = node[u] /\ node[u] # NULL
      BY <1>1, <2>1 DEF Pushing, Owning, Owns, Built
    <3>2. ~InStack(node[u])
      BY <3>1 DEF StackInv, NodeOnce
    <3>3. 1 \in 1 .. Len(list)
      BY <2>1, Places DEF StackInv, Spelled, Word
    <3>4. InStack(GetRealAddr(metaTop))
      BY <3>3, Places DEF StackInv, Spelled, Word, InStack
    <3> QED BY <3>1, <3>2, <3>4
  <2>2. \A u \in Threads : u # t => (Built(u)' <=> Built(u)) /\ (Waits(u)' <=> Waits(u))
    BY <1>1, <1>3 DEF TypeOK, Built, Waits, PopRead, Goto
  <2>3. ~Built(t)' /\ new' = new /\ old' = [old EXCEPT ![t] = metaTop]
        /\ (Waits(t)' => metaTop # ZeroWord)
    BY <1>1, <1>3 DEF TypeOK, Built, Waits, PopRead, Goto
  <2> QED BY <1>1, <2>1, <2>2, <2>3 DEF TypeOK, NeverBack
<1>4. CASE \E v \in Values : Push(t, v)
  BY <1>1, <1>4 DEF TypeOK, NeverBack, Built, Waits, Push, Goto
<1>5. CASE PushRead(t) \/ PushLink(t) \/ PushCas(t) \/ PushRetry(t)
  <2>1. \A u \in Threads : (Built(u)' => Built(u)) /\ (Waits(u)' <=> u # t /\ Waits(u))
    BY <1>1, <1>5
    DEF TypeOK, Built, Waits, PushRead, PushLink, PushCas, PushRetry, Goto, At
  <2>2. \A u \in Threads : u # t => old'[u] = old[u] /\ new'[u] = new[u]
    BY <1>1, <1>5 DEF TypeOK, PushRead, PushLink, PushCas, PushRetry, Forget
  <2>3. Built(t)' => new'[t] = new[t]
    BY <1>1, <1>5 DEF TypeOK, Built, PushRead, PushLink, PushCas, PushRetry, Goto
  <2> QED BY <1>1, <2>1, <2>2, <2>3 DEF NeverBack
<1>6. CASE PopNext(t) \/ PopCas(t) \/ PopRetry(t) \/ PopFree(t) \/ PopDone(t)
  BY <1>1, <1>6
  DEF TypeOK, NeverBack, Built, Waits, PopNext, PopCas, PopRetry, PopFree, PopDone,
      Goto, Forget, At
<1> QED BY <1>2, <1>3, <1>4, <1>5, <1>6 DEF Step

\* What a Pop has read behind its word stays right as long as its word is in the stack.
LEMMA FreshKept == ASSUME StackInv, NEW t \in Threads, Step(t) PROVE Fresh'
<1>1. TypeOK /\ Fresh /\ NeverBack /\ Len(list) \in Nat
  BY Places DEF StackInv
<1>2. CASE PushCas(t)
  <2>1. /\ Len(list') = Len(list) + 1 /\ Word(1)' = new[t]
        /\ \A i \in 1 .. Len(list) + 1 : Word(i + 1)' = Word(i)
    BY <1>2, PushShifts
  <2>2. \A u \in Threads :
           pc'[u] = "popCas" => pc[u] = "popCas" /\ old'[u] = old[u] /\ new'[u] = new[u]
    BY <1>1, <1>2 DEF TypeOK, PushCas, Goto, Forget
  <2>3. ASSUME NEW u \in Threads, pc[u] = "popCas",
               NEW i \in 1 .. Len(list) + 1, old[u] = Word(i)'
        PROVE  new[u] = Word(i + 1)'
    <3>1. i # 1
      BY <1>1, <1>2, <2>1, <2>3 DEF NeverBack, Built, Waits, PushCas, At
    <3>2. i - 1 \in 1 .. Len(list) /\ i - 1 \in 1 .. Len(list) + 1
          /\ i \in 1 .. Len(list) + 1 /\ (i - 1) + 1 = i
      BY <1>1, <3>1
    <3>3. Word(i)' = Word(i - 1) /\ Word(i + 1)' = Word(i)
      BY <2>1, <3>2
    <3> QED BY <1>1, <2>3, <3>2, <3>3 DEF Fresh
  <2> QED BY <2>1, <2>2, <2>3 DEF Fresh
<1>3. CASE PopCas(t)
  <2>1. /\ Len(list') = Len(list) - 1
        /\ \A i \in 1 .. Len(list) : Word(i)' = Word(i + 1)
    BY <1>3, PopShifts
  <2>2. \A u \in Threads :
           pc'[u] = "popCas" => pc[u] = "popCas" /\ old'[u] = old[u] /\ new'[u] = new[u]
    BY <1>1, <1>3 DEF TypeOK, PopCas, Goto, Forget
  <2>3. ASSUME NEW u \in Threads, pc[u] = "popCas",
               NEW i \in 1 .. Len(list) - 1, old[u] = Word(i)'
        PROVE  new[u] = Word(i + 1)'
    <3>1. i \in 1 .. Len(list) /\ i + 1 \in 1 .. Len(list)
      BY <1>1
    <3> QED BY <1>1, <2>1, <2>3, <3>1 DEF Fresh
  <2> QED BY <2>1, <2>2, <2>3 DEF Fresh
<1>4. ASSUME ~PushCas(t), ~PopCas(t) PROVE Fresh'
  <2>1. list' = list /\ \A i \in 1 .. Len(list) + 1 : Word(i)' = Word(i)
    BY <1>4, Quiet, WordsStay
  <2>2. \A i \in 1 .. Len(list) : i \in 1 .. Len(list) + 1 /\ i + 1 \in 1 .. Len(list) + 1
    BY <1>1
  <2>3. CASE PopNext(t)
    <3>1. ASSUME NEW i \in 1 .. Len(list), old[t] = Word(i)
          PROVE  metaNext[GetRealAddr(old[t])] = Word(i + 1)
      <4>1. i + 1 # 1 /\ (i + 1) - 1 = i
        BY <3>1
      <4> QED BY <3>1, <4>1 DEF StackInv, Spelled, Word
    <3>2. /\ old' = old /\ new' = [new EXCEPT ![t] = metaNext[GetRealAddr(old[t])]]
          /\ \A u \in Threads : u # t => pc'[u] = pc[u]
      BY <1>1, <2>3 DEF TypeOK, PopNext, Goto
    <3> QED BY <1>1, <2>1, <2>2, <3>1, <3>2 DEF TypeOK, Fresh
  <2>4. CASE ~PopNext(t)
    <3>1. \A u \in Threads :
             pc'[u] = "popCas" => pc[u] = "popCas" /\ old'[u] = old[u] /\ new'[u] = new[u]
      <4>1. ASSUME NEW v \in Values, Push(t, v)
            PROVE  /\ old' = old /\ new' = new
                   /\ \A u \in Threads : pc'[u] = "popCas" => pc[u] = "popCas"
        BY <1>1, <4>1 DEF TypeOK, Push, Goto
      <4>2. CASE PushTag(t) \/ PushRead(t) \/ PushLink(t) \/ PushRetry(t) \/ PopRead(t)
        BY <1>1, <4>2
        DEF TypeOK, PushTag, PushRead, PushLink, PushRetry, PopRead, Goto, At
      <4>3. CASE PopRetry(t) \/ PopFree(t) \/ PopDone(t)
        BY <1>1, <4>3 DEF TypeOK, PopRetry, PopFree, PopDone, Goto, Forget
      <4> QED BY <1>4, <2>4, <4>1, <4>2, <4>3 DEF Step
    <3> QED BY <1>1, <2>1, <2>2, <3>1 DEF Fresh
  <2> QED BY <2>3, <2>4
<1> QED BY <1>2, <1>3, <1>4

-----------------------------------------------------------------------------
(* The invariant holds *)

\* An empty stack, all nodes in the pool, no thread under way
LEMMA StackInvInit == Init => StackInv
<1> SUFFICES ASSUME Init PROVE StackInv
  OBVIOUS
<1>1. list = <<>> /\ Len(list) = 0 /\ list \in Seq(Nodes)
  BY DEF Init
<1>2. ZeroWord \in Words /\ 0 \in Counts
  BY CounterAssumption DEF ZeroWord, Words, Counts, GetMetaAddr
<1>3. TypeOK
  BY <1>1, <1>2 DEF Init, TypeOK, Labels
<1>4. Spelled
  BY <1>1 DEF Init, Spelled, Word
<1>5. NodeOnce
  BY <1>1 DEF Init, NodeOnce, InStack
<1>6. Owning /\ Pushing /\ Popping /\ NeverBack /\ Fresh
  BY DEF Init, Owning, Owns, Pushing, Built, Popping, Waits, NeverBack, Fresh
<1> QED BY <1>3, <1>4, <1>5, <1>6 DEF StackInv

\* Every step keeps it.
LEMMA StackInvNext == ASSUME Recurs = FALSE, StackInv, [Next]_vars PROVE StackInv'
<1>1. CASE UNCHANGED vars
  BY <1>1
  DEF vars, memory, thread, StackInv, TypeOK, Spelled, Word, NodeOnce, InStack,
      Owning, Pushing, Built, Popping, Waits, NeverBack, Fresh
<1>2. ASSUME NEW t \in Threads, Step(t) PROVE StackInv'
  BY <1>2, TypeKept, SpelledKept, NodeOnceKept, OwningKept, PushingKept, PoppingKept,
     NeverBackKept, FreshKept DEF StackInv
<1> QED BY <1>1, <1>2 DEF Next

\* The stack is whole at every moment (CLockFreeStack.h:70): its words spell it, and a
\* node is in the pool, in the stack or with one thread, however the calls of any
\* number of threads meet, as long as no count recurs under a waiting Pop.
THEOREM StackWhole == ASSUME Recurs = FALSE PROVE Spec => []WellFormed
<1>1. StackInv => WellFormed
  BY SpelledLinked DEF StackInv, WellFormed
<1>2. Spec => []StackInv
  BY StackInvInit, StackInvNext, PTL DEF Spec
<1> QED BY <1>1, <1>2, PTL

-----------------------------------------------------------------------------
(* The stack is atomic *)

\* Values already in the stack stay what they are while the list stays.
LEMMA ItemsStay ==
  ASSUME StackInv, NEW t \in Threads, Step(t), ~PushCas(t), ~PopCas(t)
  PROVE  Items' = Items
<1>1. list' = list
  BY Quiet
<1>2. /\ list \in Seq(Nodes) /\ DOMAIN list = 1 .. Len(list)
      /\ \A i \in DOMAIN list : list[i] \in Nodes
  BY Places DEF StackInv
<1>3. \A i \in DOMAIN list : data'[list[i]] = data[list[i]]
  <2>1. ASSUME NEW v \in Values, Push(t, v)
        PROVE  \A i \in DOMAIN list : data'[list[i]] = data[list[i]]
    <3>1. PICK n \in free : data' = [data EXCEPT ![n] = v]
      BY <2>1 DEF Push
    <3>2. \A i \in DOMAIN list : list[i] # n
      BY <3>1 DEF StackInv, NodeOnce, InStack
    <3> QED BY <1>2, <3>1, <3>2 DEF StackInv, TypeOK
  <2>2. CASE ~\E v \in Values : Push(t, v)
    BY <2>2
    DEF Step, PushTag, PushRead, PushLink, PushRetry, PopRead, PopNext, PopRetry,
        PopFree, PopDone, memory, PushCas, PopCas
  <2> QED BY <2>1, <2>2
<1> QED BY <1>1, <1>3 DEF Items

\* The compare-exchange of Push puts the value of its node in front.
LEMMA ItemsPushed ==
  ASSUME StackInv, NEW t \in Threads, PushCas(t)
  PROVE  \E v \in Values : Items' = <<v>> \o Items
<1>1. TypeOK /\ TypeOK' /\ data' = data
  BY TypeKept DEF StackInv, Step, PushCas
<1>2. /\ node[t] \in Nodes /\ Len(list') = Len(list) + 1
      /\ list'[1] = node[t] /\ \A i \in 1 .. Len(list) : list'[i + 1] = list[i]
  BY PushShifts
<1>3. Items \in Seq(Values) /\ Len(Items) = Len(list) /\ Len(list) \in Nat
      /\ \A i \in 1 .. Len(list) : Items[i] = data[list[i]]
  BY <1>1, HeldBy, Places DEF Items, TypeOK
<1>4. Items' \in Seq(Values) /\ Len(Items') = Len(list) + 1
      /\ \A i \in 1 .. Len(list) + 1 : Items'[i] = data[list'[i]]
  BY <1>1, <1>2, HeldBy DEF Items, TypeOK
<1>5. data[node[t]] \in Values
  BY <1>1, <1>2 DEF TypeOK
<1> DEFINE r == <<data[node[t]]>> \o Items
<1>6. /\ r \in Seq(Values) /\ Len(r) = Len(list) + 1 /\ r[1] = data[node[t]]
      /\ \A i \in 1 .. Len(list) : r[i + 1] = data[list[i]]
  BY <1>3, <1>5, PutFront
<1>7. \A i \in 1 .. Len(list) + 1 : Items'[i] = r[i]
  <2>1. SUFFICES ASSUME NEW i \in 1 .. Len(list) + 1 PROVE Items'[i] = r[i]
    OBVIOUS
  <2>2. CASE i = 1
    BY <1>2, <1>3, <1>4, <1>6, <2>2
  <2>3. CASE i # 1
    <3>1. i - 1 \in 1 .. Len(list) /\ (i - 1) + 1 = i
      BY <1>3, <2>3
    <3>2. list'[i] = list[i - 1] /\ r[i] = data[list[i - 1]]
      BY <1>2, <1>6, <3>1
    <3> QED BY <1>4, <3>2
  <2> QED BY <2>2, <2>3
<1>8. Items' = r
  BY <1>4, <1>6, <1>7, SameSequence
<1> QED BY <1>5, <1>8

\* The compare-exchange of Pop takes the front value.
LEMMA ItemsPopped ==
  ASSUME StackInv, NEW t \in Threads, PopCas(t)
  PROVE  Items # <<>> /\ Items' = Tail(Items) /\ Head(Items) = data[GetRealAddr(old[t])]
<1>1. TypeOK /\ TypeOK' /\ data' = data
  BY TypeKept DEF StackInv, Step, PopCas
<1>2. /\ list # <<>> /\ GetRealAddr(old[t]) = list[1] /\ Len(list') = Len(list) - 1
      /\ \A i \in 1 .. Len(list) - 1 : list'[i] = list[i + 1]
  BY PopShifts
<1>3. /\ Items \in Seq(Values) /\ Len(Items) = Len(list) /\ Len(list) \in Nat
      /\ list \in Seq(Nodes) /\ \A i \in 1 .. Len(list) : Items[i] = data[list[i]]
  BY <1>1, HeldBy, Places DEF Items, TypeOK
<1>4. Len(list) # 0 /\ 1 \in 1 .. Len(list) /\ Items # <<>>
  BY <1>2, <1>3
<1>5. Items' \in Seq(Values) /\ Len(Items') = Len(list) - 1
      /\ \A i \in 1 .. Len(list) - 1 : Items'[i] = data[list'[i]]
  <2>1. Items' \in Seq(Values) /\ Len(Items') = Len(list')
        /\ \A i \in 1 .. Len(list') : Items'[i] = data[list'[i]]
    <3>1. list' \in Seq(Nodes) /\ data \in [Nodes -> Values]
      BY <1>1 DEF TypeOK
    <3>2. Items' = [i \in DOMAIN list' |-> data[list'[i]]]
      BY <1>1 DEF Items
    <3> QED BY <3>1, <3>2, HeldBy
  <2> QED BY <1>2, <2>1
<1>6. Tail(Items) \in Seq(Values) /\ Len(Tail(Items)) = Len(list) - 1
      /\ \A i \in 1 .. Len(list) - 1 : Tail(Items)[i] = Items[i + 1]
  BY <1>3, <1>4
<1>7. \A i \in 1 .. Len(list) - 1 : Items'[i] = Tail(Items)[i]
  <2>1. \A i \in 1 .. Len(list) - 1 : i + 1 \in 1 .. Len(list)
    BY <1>3
  <2> QED BY <1>2, <1>3, <1>5, <1>6, <2>1, SMTT(30)
<1>8. Items' = Tail(Items)
  BY <1>5, <1>6, <1>7, SameSequence
<1> QED BY <1>2, <1>3, <1>4, <1>8

\* Every step of a thread is one step of the atomic stack, or none that it can see.
LEMMA StepSimulates ==
  ASSUME StackInv, NEW t \in Threads, Step(t)
  PROVE  Atomic!Next \/ UNCHANGED <<Items, Answers>>
<1>1. TypeOK
  BY DEF StackInv
<1>2. ASSUME NEW v \in Values, Push(t, v) PROVE UNCHANGED <<Items, Answers>>
  <2>1. Items' = Items
    BY <1>2, ItemsStay DEF Step, Push, At, PushCas, PopCas
  <2>2. Answers' = Answers
    BY <1>1, <1>2 DEF Answers, Taken, Push, At, Goto, TypeOK
  <2> QED BY <2>1, <2>2
<1>3. CASE PushTag(t) \/ PushRead(t) \/ PushLink(t) \/ PushRetry(t)
  <2>1. Items' = Items
    BY <1>3, ItemsStay
    DEF Step, PushTag, PushRead, PushLink, PushRetry, At, PushCas, PopCas
  <2>2. Answers' = Answers
    BY <1>1, <1>3
    DEF Answers, Taken, PushTag, PushRead, PushLink, PushRetry, At, Goto, TypeOK
  <2> QED BY <2>1, <2>2
<1>4. CASE PushCas(t)
  <2>1. Answers' = Answers
    BY <1>1, <1>4 DEF Answers, Taken, PushCas, At, Goto, TypeOK
  <2> QED BY <1>4, <2>1, ItemsPushed DEF Atomic!Next, Atomic!Push
<1>5. CASE PopRead(t) /\ metaTop = ZeroWord
  <2>1. Items' = Items
    BY <1>5, ItemsStay DEF Step, PopRead, At, PushCas, PopCas
  <2>2. Items = <<>>
    <3>1. list = <<>>
      BY <1>1, <1>5, SpelledLinked DEF StackInv, Linked
    <3> QED BY <3>1 DEF Items
  <2>3. Answers[t] = <<>> /\ Answers' = [Answers EXCEPT ![t] = <<Nothing>>]
    BY <1>1, <1>5 DEF Answers, Taken, PopRead, Goto, TypeOK
  <2> QED BY <2>1, <2>2, <2>3 DEF Atomic!Next, Atomic!Pop
<1>6. CASE PopRead(t) /\ metaTop # ZeroWord
  <2>1. Items' = Items
    BY <1>6, ItemsStay DEF Step, PopRead, At, PushCas, PopCas
  <2>2. Answers' = Answers
    BY <1>1, <1>6 DEF Answers, Taken, PopRead, Goto, TypeOK
  <2> QED BY <2>1, <2>2
<1>7. CASE PopNext(t) \/ PopRetry(t) \/ PopFree(t)
  <2>1. Items' = Items
    BY <1>7, ItemsStay DEF Step, PopNext, PopRetry, PopFree, At, PushCas, PopCas
  <2>2. Answers' = Answers
    BY <1>1, <1>7 DEF Answers, Taken, PopNext, PopRetry, PopFree, At, Goto, TypeOK
  <2> QED BY <2>1, <2>2
<1>8. CASE PopCas(t)
  <2>1. /\ Items # <<>> /\ Items' = Tail(Items)
        /\ Head(Items) = data[GetRealAddr(old[t])]
    BY <1>8, ItemsPopped
  <2>2. /\ Answers[t] = <<>>
        /\ Answers' = [Answers EXCEPT ![t] = <<data[GetRealAddr(old[t])]>>]
    BY <1>1, <1>8 DEF Answers, Taken, PopCas, At, Goto, TypeOK
  <2> QED BY <2>1, <2>2 DEF Atomic!Next, Atomic!Pop
<1>9. CASE PopDone(t)
  <2>1. Items' = Items
    BY <1>9, ItemsStay DEF Step, PopDone, At, PushCas, PopCas
  <2>2. Answers' = [Answers EXCEPT ![t] = <<>>]
    BY <1>1, <1>9 DEF Answers, Taken, PopDone, At, Goto, TypeOK
  <2> QED BY <2>1, <2>2 DEF Atomic!Next, Atomic!Return
<1> QED BY <1>2, <1>3, <1>4, <1>5, <1>6, <1>7, <1>8, <1>9 DEF Step

\* Push and Pop each happen at one instant, between call and return: CLockFreeStack is
\* the stack that NetClient takes DisconnectStack_ for, as long as no count recurs under
\* a waiting Pop.
THEOREM StackImplements == ASSUME Recurs = FALSE PROVE Spec => StackAtomic
<1>1. Init => Atomic!Init
  BY DEF Init, Atomic!Init, Items, Answers, Taken
<1>2. ASSUME StackInv, [Next]_vars
      PROVE  Atomic!Next \/ UNCHANGED <<Items, Answers>>
  <2>1. CASE UNCHANGED vars
    BY <2>1 DEF vars, memory, thread, Items, Answers, Taken
  <2> QED BY <1>2, <2>1, StepSimulates DEF Next
<1>3. Spec => []StackInv
  BY StackInvInit, StackInvNext, PTL DEF Spec
<1> QED BY <1>1, <1>2, <1>3, PTL DEF Spec, StackAtomic, Atomic!Spec
=============================================================================
