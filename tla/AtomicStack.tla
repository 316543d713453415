---------------------------- MODULE AtomicStack ----------------------------
(***************************************************************************)
(* What the users of CLockFreeStack rely on, NetClient's DisconnectStack_  *)
(* first of all: Push and Pop each happen at one instant between call and  *)
(* return, and Pop answers nullopt only when the stack was empty.          *)
(***************************************************************************)
EXTENDS Sequences

CONSTANTS Threads, Values, Nothing

VARIABLES
    items,    \* head = top
    answer    \* per thread: <<>>, or <<r>> with the result r of its Pop

Init ==
    /\ items = <<>>
    /\ answer = [t \in Threads |-> <<>>]

Push(v) == items' = <<v>> \o items /\ UNCHANGED answer

Pop(t) ==
    /\ answer[t] = <<>>
    /\ \/ /\ items # <<>>
          /\ items' = Tail(items)
          /\ answer' = [answer EXCEPT ![t] = <<Head(items)>>]
       \/ /\ items = <<>>
          /\ answer' = [answer EXCEPT ![t] = <<Nothing>>]
          /\ UNCHANGED items

Return(t) == answer' = [answer EXCEPT ![t] = <<>>] /\ UNCHANGED items

Next ==
    \/ \E v \in Values : Push(v)
    \/ \E t \in Threads : Pop(t) \/ Return(t)

Spec == Init /\ [][Next]_<<items, answer>>
=============================================================================
