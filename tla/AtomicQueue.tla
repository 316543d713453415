---------------------------- MODULE AtomicQueue ----------------------------
(***************************************************************************)
(* What the users of CLockFreeQueue rely on (sendPacketQ_, ReconnectQ_,    *)
(* g_msgQ).  Enqueue and Dequeue each take effect at one instant between   *)
(* call and return, first in, first out.  Dequeue may answer nullopt while *)
(* the queue has items, but only as many as calls on it are under way: the *)
(* calls themselves account for every item it did not find.                *)
(***************************************************************************)
EXTENDS Sequences, FiniteSets, Integers

CONSTANTS Threads, Queues, Values, Nothing

VARIABLES
    items,    \* per queue: its values, first to leave first
    call,     \* per thread: <<>>, or <<kind, queue>> of the call under way
    answer    \* per thread: <<>>, or <<r>> with the result r of its Dequeue

vars == <<items, call, answer>>

Init ==
    /\ items = [q \in Queues |-> <<>>]
    /\ call = [t \in Threads |-> <<>>]
    /\ answer = [t \in Threads |-> <<>>]

\* Calls on q that took an item into account which is still there
Underway(q) == Cardinality({t \in Threads : call[t] # <<>> /\ call[t][2] = q})

Enqueue(t, q, v) ==
    /\ call[t] = <<>> /\ answer[t] = <<>>
    /\ items' = [items EXCEPT ![q] = Append(@, v)]
    /\ call' = [call EXCEPT ![t] = <<"enqueued", q>>]
    /\ UNCHANGED answer

\* Dequeue claims an item that no other call accounts for, and then takes the first
Claim(t, q) ==
    /\ call[t] = <<>> /\ answer[t] = <<>>
    /\ Len(items[q]) > Underway(q)
    /\ call' = [call EXCEPT ![t] = <<"claimed", q>>]
    /\ UNCHANGED <<items, answer>>

Take(t, q) ==
    /\ call[t] = <<"claimed", q>>
    /\ items[q] # <<>>
    /\ items' = [items EXCEPT ![q] = Tail(@)]
    /\ call' = [call EXCEPT ![t] = <<>>]
    /\ answer' = [answer EXCEPT ![t] = <<Head(items[q])>>]

\* Dequeue finds nothing that no other call accounts for
Miss(t, q) ==
    /\ call[t] = <<>> /\ answer[t] = <<>>
    /\ Len(items[q]) <= Underway(q)
    /\ call' = [call EXCEPT ![t] = <<"missed", q>>]
    /\ answer' = [answer EXCEPT ![t] = <<Nothing>>]
    /\ UNCHANGED items

Return(t) ==
    /\ call[t] # <<>> => call[t][1] # "claimed"
    /\ call' = [call EXCEPT ![t] = <<>>]
    /\ answer' = [answer EXCEPT ![t] = <<>>]
    /\ UNCHANGED items

Next ==
    \E t \in Threads :
        \/ \E q \in Queues :
            \/ \E v \in Values : Enqueue(t, q, v)
            \/ Claim(t, q) \/ Take(t, q) \/ Miss(t, q)
        \/ Return(t)

Spec == Init /\ [][Next]_vars
=============================================================================
