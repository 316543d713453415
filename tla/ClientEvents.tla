---------------------------- MODULE ClientEvents ----------------------------
(***************************************************************************)
(* What a NetClient promises the thread that uses it, as that thread sees  *)
(* it in g_msgQ: every Connect is answered once, by CONNECT_SUCCESS with a *)
(* fresh id or by ALL_RECONNECT_FAIL, and the jobs of one id are           *)
(*       CONNECT_SUCCESS (RECV_MESSAGE)* ON_RELEASE                        *)
(* in this order, with ON_RELEASE the last one.  Update.cpp depends on it: *)
(* it looks a player up by id and dereferences the result unchecked.       *)
(***************************************************************************)
EXTENDS Integers, Sequences

CONSTANT Ids       \* values of ullIdCounter_ that are given out

VARIABLES
    phase,         \* per id: "new", "up" or "gone"
    pending,       \* Connect calls without an answer
    queue          \* this client's part of g_msgQ

Event(type, i) == [type |-> type, id |-> i]
NoOne == -1     \* the id of an event about no connection

Init ==
    /\ phase = [i \in Ids |-> "new"]
    /\ pending = 0
    /\ queue = <<>>

Tell(type, i) == queue' = Append(queue, Event(type, i))

Ask ==
    /\ pending' = pending + 1
    /\ UNCHANGED <<phase, queue>>

Connected(i) ==
    /\ Tell("CONNECT_SUCCESS", i)
    /\ pending > 0 /\ phase[i] = "new"
    /\ pending' = pending - 1
    /\ phase' = [phase EXCEPT ![i] = "up"]

Attempt ==
    /\ Tell("CONNECT_FAIL", NoOne)
    /\ pending > 0
    /\ UNCHANGED <<phase, pending>>

GivenUp ==
    /\ Tell("ALL_RECONNECT_FAIL", NoOne)
    /\ pending > 0
    /\ pending' = pending - 1
    /\ UNCHANGED phase

Message(i) ==
    /\ Tell("RECV_MESSAGE", i)
    /\ phase[i] = "up"
    /\ UNCHANGED <<phase, pending>>

Released(i) ==
    /\ Tell("ON_RELEASE", i)
    /\ phase[i] = "up"
    /\ phase' = [phase EXCEPT ![i] = "gone"]
    /\ UNCHANGED pending

TakeEvent ==
    /\ queue # <<>>
    /\ queue' = Tail(queue)
    /\ UNCHANGED <<phase, pending>>

\* Every step but a Connect shows in the queue.
Next ==
    \/ Ask
    \/ /\ queue' # queue
       /\ \/ Attempt \/ GivenUp \/ TakeEvent
          \/ \E i \in Ids : Connected(i) \/ Message(i) \/ Released(i)

Spec == Init /\ [][Next]_<<phase, pending, queue>>
=============================================================================
