--------------------------- MODULE LockFreeStack ---------------------------
(***************************************************************************)
(* CLockFreeStack.h: Push and Pop of any number of threads, one step for   *)
(* each access to memory they share.  Nodes come from a pool and go back   *)
(* to it, so a thread may look at a node that is no longer, or again, in   *)
(* the stack; the count in the upper bits of metaTop_ tells the two apart. *)
(*                                                                         *)
(* num_ is left out: it is counted and never read.                         *)
(***************************************************************************)
EXTENDS AddressTranslator, Sequences

CONSTANTS
    Threads, Values,
    Nodes,        \* what the pool may hand out
    Nothing,      \* std::nullopt
    Recurs        \* may a count come again for a node while a Pop expects it?

ASSUME NodeAssumption == NULL \notin Nodes
ASSUME ValueAssumption == Nothing \notin Values
ASSUME RecursAssumption == Recurs \in BOOLEAN

VARIABLES
    metaTop, metaCnt,      \* metaTop_, metaCnt_
    metaNext, data,        \* per node: metaNext_, data_
    free,                  \* pool_: nodes not handed out
    pc, node,              \* per thread: label; the node it owns, or NULL
    old, new,              \* per thread: its variables metaTop and newMetaTop
    value,                 \* per thread: what Pop returns
    list                   \* history: the nodes of the stack, top first

memory == <<metaTop, metaCnt, metaNext, data, free>>
thread == <<pc, node, old, new, value>>
vars == <<memory, thread, list>>

Labels == {"idle", "pushTag", "pushRead", "pushLink", "pushCas",
           "popRead", "popNext", "popCas", "popFree", "popDone"}
Words == Counts \X (Nodes \cup {NULL})

Init ==
    /\ metaTop = ZeroWord /\ metaCnt = 0
    /\ metaNext = [n \in Nodes |-> ZeroWord]
    /\ data \in [Nodes -> Values]
    /\ free = Nodes
    /\ pc = [t \in Threads |-> "idle"] /\ node = [t \in Threads |-> NULL]
    /\ old = [t \in Threads |-> ZeroWord] /\ new = [t \in Threads |-> ZeroWord]
    /\ value = [t \in Threads |-> Nothing]
    /\ list = <<>>

Goto(t, label) == pc' = [pc EXCEPT ![t] = label]
At(t, label) == pc[t] = label

\* What thread t last read and built is dead
Forget(t) == old' = [old EXCEPT ![t] = ZeroWord] /\ new' = [new EXCEPT ![t] = ZeroWord]

-----------------------------------------------------------------------------
(* Push *)

\* pool_.Alloc and the constructor of Node, which clears metaNext_
Push(t, v) ==
    /\ At(t, "idle")
    /\ \E n \in free :
        /\ free' = free \ {n}
        /\ node' = [node EXCEPT ![t] = n]
        /\ data' = [data EXCEPT ![n] = v]
        /\ metaNext' = [metaNext EXCEPT ![n] = ZeroWord]
    /\ Goto(t, "pushTag")
    /\ UNCHANGED <<metaTop, metaCnt, old, new, value, list>>

\* A Pop that has read the top and has not yet compared
Expects(u, cnt, n) ==
    pc[u] \in {"popNext", "popCas"} /\ old[u] = GetMetaAddr(cnt, n)

\* The counts are distinct until COUNTER_MAX of them are used up.  Unless Recurs,
\* a node does not get the very count under which a Pop still waits for it.
NoRecurrence(n) == Recurs \/ \A u \in Threads : ~Expects(u, metaCnt, n)

\* newMetaTop = GetMetaAddr(GetCnt(&metaCnt_), pNewNode)
PushTagUntagged(t) ==                                           \* mutant
    /\ At(t, "pushTag")
    /\ NoRecurrence(node[t])
    /\ new' = [new EXCEPT ![t] = GetMetaAddr(0, node[t])]
    /\ metaCnt' = AfterGetCnt(metaCnt)
    /\ Goto(t, "pushRead")
    /\ UNCHANGED <<metaTop, metaNext, data, free, node, old, value, list>>
PushTag(t) ==
    /\ At(t, "pushTag")
    /\ NoRecurrence(node[t])
    /\ new' = [new EXCEPT ![t] = GetMetaAddr(metaCnt, node[t])]
    /\ metaCnt' = AfterGetCnt(metaCnt)
    /\ Goto(t, "pushRead")
    /\ UNCHANGED <<metaTop, metaNext, data, free, node, old, value, list>>

PushRead(t) ==
    /\ At(t, "pushRead")
    /\ old' = [old EXCEPT ![t] = metaTop]
    /\ Goto(t, "pushLink")
    /\ UNCHANGED <<memory, node, new, value, list>>

PushLink(t) ==
    /\ At(t, "pushLink")
    /\ metaNext' = [metaNext EXCEPT ![node[t]] = old[t]]
    /\ Goto(t, "pushCas")
    /\ UNCHANGED <<metaTop, metaCnt, data, free, node, old, new, value, list>>

\* The compare-exchange of Push
PushCas(t) ==
    /\ At(t, "pushCas")
    /\ metaTop = old[t]
    /\ metaTop' = new[t]
    /\ list' = <<node[t]>> \o list
    /\ node' = [node EXCEPT ![t] = NULL]
    /\ Goto(t, "idle")
    /\ Forget(t)
    /\ UNCHANGED <<metaCnt, metaNext, data, free, value>>

PushRetry(t) ==
    /\ At(t, "pushCas")
    /\ metaTop # old[t]
    /\ Goto(t, "pushRead")
    /\ UNCHANGED <<memory, node, old, new, value, list>>

-----------------------------------------------------------------------------
(* Pop *)

\* metaTop = metaTop_, and nullopt if it is 0
PopRead(t) ==
    /\ pc[t] \in {"idle", "popRead"}
    /\ old' = [old EXCEPT ![t] = metaTop]
    /\ IF metaTop = ZeroWord
       THEN /\ value' = [value EXCEPT ![t] = Nothing]
            /\ Goto(t, "popDone")
       ELSE /\ Goto(t, "popNext")
            /\ UNCHANGED value
    /\ UNCHANGED <<memory, node, new, list>>

\* newMetaTop = realTop->metaNext_, of a node that may have left the stack
PopNext(t) ==
    /\ At(t, "popNext")
    /\ new' = [new EXCEPT ![t] = metaNext[GetRealAddr(old[t])]]
    /\ Goto(t, "popCas")
    /\ UNCHANGED <<memory, node, old, value, list>>

\* The compare-exchange of Pop, and the move of data_ out of the node, which is
\* now this thread's
PopCasBlind(t) ==                                               \* mutant
    /\ At(t, "popCas")
    /\ metaTop' = new[t]
    /\ node' = [node EXCEPT ![t] = GetRealAddr(old[t])]
    /\ value' = [value EXCEPT ![t] = data[GetRealAddr(old[t])]]
    /\ list' = SubSeq(list, 2, Len(list))
    /\ Goto(t, "popFree")
    /\ Forget(t)
    /\ UNCHANGED <<metaCnt, metaNext, data, free>>
PopCas(t) ==
    /\ At(t, "popCas")
    /\ metaTop = old[t]
    /\ metaTop' = new[t]
    /\ node' = [node EXCEPT ![t] = GetRealAddr(old[t])]
    /\ value' = [value EXCEPT ![t] = data[GetRealAddr(old[t])]]
    /\ list' = SubSeq(list, 2, Len(list))
    /\ Goto(t, "popFree")
    /\ Forget(t)
    /\ UNCHANGED <<metaCnt, metaNext, data, free>>

PopRetry(t) ==
    /\ At(t, "popCas")
    /\ metaTop # old[t]
    /\ Goto(t, "popRead")
    /\ Forget(t)
    /\ UNCHANGED <<memory, node, value, list>>

PopFree(t) ==
    /\ At(t, "popFree")
    /\ free' = free \cup {node[t]}
    /\ node' = [node EXCEPT ![t] = NULL]
    /\ Goto(t, "popDone")
    /\ UNCHANGED <<metaTop, metaCnt, metaNext, data, old, new, value, list>>

PopDone(t) ==
    /\ At(t, "popDone")
    /\ Goto(t, "idle")
    /\ value' = [value EXCEPT ![t] = Nothing]
    /\ UNCHANGED <<memory, node, old, new, list>>

Step(t) ==
    \/ \E v \in Values : Push(t, v)
    \/ PushTag(t) \/ PushRead(t) \/ PushLink(t) \/ PushCas(t) \/ PushRetry(t)
    \/ PopRead(t) \/ PopNext(t) \/ PopCas(t) \/ PopRetry(t) \/ PopFree(t) \/ PopDone(t)

Next == \E t \in Threads : Step(t)

Spec == Init /\ [][Next]_vars

-----------------------------------------------------------------------------
(* Properties *)

TypeOK ==
    /\ metaTop \in Words /\ metaCnt \in Counts
    /\ metaNext \in [Nodes -> Words] /\ data \in [Nodes -> Values]
    /\ free \subseteq Nodes
    /\ pc \in [Threads -> Labels] /\ node \in [Threads -> Nodes \cup {NULL}]
    /\ old \in [Threads -> Words] /\ new \in [Threads -> Words]
    /\ value \in [Threads -> Values \cup {Nothing}]
    /\ list \in Seq(Nodes)

\* metaTop_ and the metaNext_ of its nodes spell the stack, down to the word 0:
\* no compare-exchange ever succeeds on a top that has changed in between and
\* come back (CLockFreeStack.h:70).
Linked ==
    /\ metaTop = ZeroWord <=> list = <<>>
    /\ list # <<>> => GetRealAddr(metaTop) = list[1]
    /\ \A i \in 1 .. Len(list) :
        IF i = Len(list)
        THEN metaNext[list[i]] = ZeroWord
        ELSE GetRealAddr(metaNext[list[i]]) = list[i + 1]

\* A node is in one place at a time: in the pool, in the stack, or with the one
\* thread that pushes or has popped it.
InStack(n) == \E i \in DOMAIN list : list[i] = n
NodeOnce ==
    /\ \A i, j \in DOMAIN list : list[i] = list[j] => i = j
    /\ \A n \in free : ~InStack(n)
    /\ \A t \in Threads : node[t] # NULL => node[t] \notin free /\ ~InStack(node[t])
    /\ \A t, u \in Threads : node[t] # NULL /\ node[t] = node[u] => t = u

\* The stack is a stack at every step: CLockFreeStack.h is built on all three.
WellFormed == TypeOK /\ Linked /\ NodeOnce

\* The stack's values, and the results of the Pops that have taken theirs
Items == [i \in DOMAIN list |-> data[list[i]]]
Taken(t) == pc[t] \in {"popFree", "popDone"}
Answers == [t \in Threads |-> IF Taken(t) THEN <<value[t]>> ELSE <<>>]

Atomic == INSTANCE AtomicStack WITH items <- Items, answer <- Answers

\* CLockFreeStack implements the atomic stack that NetClient takes it for.
StackAtomic == Atomic!Spec
=============================================================================
