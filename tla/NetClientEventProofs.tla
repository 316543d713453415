------------------------ MODULE NetClientEventProofs ------------------------
(***************************************************************************)
(* NetClient implements ClientEvents, for any number of slots, workers,    *)
(* calls and late calls.  The proof names for every step what it does to   *)
(* the event stream (StepEffect) and shows that this is what the abstract  *)
(* specification allows.                                                   *)
(***************************************************************************)
EXTENDS NetClientSendProofs

-----------------------------------------------------------------------------
(* Connects that wait for their answer *)

AskedSet == {s \in Sessions : Asked(s)}
Notifying == {t \in Threads : pc[t] = "cfNotify"}

Member(x, q) == \E i \in DOMAIN q : q[i] = x

\* Of a slot's places one is taken only, the answer to its Connect being in that one.
LEMMA PlaceOnly ==
  ASSUME TypeOK, SlotOnce, NEW s \in Sessions
  PROVE  /\ Count(s, stack) # 0 => ~Asked(s)
         /\ con[s] # "none" => /\ s \notin posted /\ ~Someone(s, Attempting)
                               /\ ~Member(s, reconQ)
         /\ Someone(s, Attempting) => /\ con[s] = "none" /\ s \notin posted
                                      /\ ~Member(s, reconQ)
<1>1. /\ PlacesOf(s) = 1
      /\ Count(s, stack) \in Nat /\ Count(s, reconQ) \in Nat
      /\ NumAt(s, Attempting) \in Nat /\ NumAt(s, Releasing) \in Nat
  BY SlotPlaces DEF SlotFacts
<1>2. Count(s, reconQ) = 0 <=> ~Member(s, reconQ)
  <2>1. reconQ \in Seq(Sessions) /\ DOMAIN reconQ = 1 .. Len(reconQ)
    BY DEF TypeOK, TypeKernel
  <2> QED BY <2>1, CountPlaces DEF Member
<1>3. NumAt(s, Attempting) = 0 <=> ~Someone(s, Attempting)
  BY NumAtNat
<1>4. Count(s, stack) # 0 => /\ con[s] = "none" /\ s \notin posted
                             /\ Count(s, reconQ) = 0 /\ NumAt(s, Attempting) = 0
  BY <1>1 DEF PlacesOf, One
<1>5. con[s] # "none" => s \notin posted /\ Count(s, reconQ) = 0 /\ NumAt(s, Attempting) = 0
  BY <1>1 DEF PlacesOf, One
<1>6. NumAt(s, Attempting) # 0 => con[s] = "none" /\ s \notin posted /\ Count(s, reconQ) = 0
  BY <1>1 DEF PlacesOf, One
<1> QED BY <1>2, <1>3, <1>4, <1>5, <1>6 DEF Asked, Member, Attempting

\* A slot whose places stay the same stays asked or not.
LEMMA AskedKept ==
  ASSUME NEW t \in Threads, Moves(t), NEW x \in Sessions,
         con'[x] = "none" <=> con[x] = "none", x \in posted' <=> x \in posted,
         Member(x, reconQ') <=> Member(x, reconQ),
         OnSlot(t, x, Attempting)' <=> OnSlot(t, x, Attempting)
  PROVE  Asked(x)' <=> Asked(x)
<1>1. Someone(x, Attempting)' <=> Someone(x, Attempting)
  BY OthersStay DEF OnSlot
<1> QED BY <1>1 DEF Asked, Member, Attempting

\* What is pending changes by one slot and one thread.
LEMMA PendingMoves ==
  ASSUME NEW t \in Threads, Moves(t), NEW x \in Sessions,
         \A y \in Sessions \ {x} : Asked(y)' <=> Asked(y)
  PROVE  /\ Pending \in Nat /\ Pending' \in Nat
         /\ Pending' = Pending + One(Asked(x)') - One(Asked(x))
                       + One(pc'[t] = "cfNotify") - One(pc[t] = "cfNotify")
         /\ Asked(x) \/ pc[t] = "cfNotify" => Pending > 0
<1> DEFINE A == AskedSet  B == {s \in Sessions : Asked(s)'}
           M == Notifying  N == {u \in Threads : pc'[u] = "cfNotify"}
<1>0. IsFiniteSet(Sessions)
  BY SessionAssumption, FS_Interval DEF Sessions
<1>1. /\ IsFiniteSet(A) /\ IsFiniteSet(B) /\ IsFiniteSet(M) /\ IsFiniteSet(N)
  BY <1>0, ThreadsFinite, FS_Subset DEF AskedSet, Notifying
<1>2. Pending = Cardinality(A) + Cardinality(M) /\ Pending' = Cardinality(B) + Cardinality(N)
  BY DEF Pending, AskedSet, Notifying
<1>3. A \ {x} = B \ {x} /\ (x \in A <=> Asked(x)) /\ (x \in B <=> Asked(x)')
  BY DEF AskedSet
<1>4. M \ {t} = N \ {t} /\ (t \in M <=> pc[t] = "cfNotify") /\ (t \in N <=> pc'[t] = "cfNotify")
  BY DEF Notifying, Moves
<1>5. /\ Cardinality(A) \in Nat /\ Cardinality(B) \in Nat
      /\ Cardinality(B) = Cardinality(A) + One(x \in B) - One(x \in A)
  BY <1>1, <1>3, SetMoves
<1>6. /\ Cardinality(M) \in Nat /\ Cardinality(N) \in Nat
      /\ Cardinality(N) = Cardinality(M) + One(t \in N) - One(t \in M)
  BY <1>1, <1>4, SetMoves
<1>7. (x \in A => Cardinality(A) # 0) /\ (t \in M => Cardinality(M) # 0)
  BY <1>1, FS_EmptySet
<1> HIDE DEF A, B, M, N
<1>8. One(x \in A) = One(Asked(x)) /\ One(x \in B) = One(Asked(x)')
      /\ One(t \in M) = One(pc[t] = "cfNotify") /\ One(t \in N) = One(pc'[t] = "cfNotify")
  BY <1>3, <1>4 DEF One
<1>9. /\ One(Asked(x)) \in Nat /\ One(Asked(x)') \in Nat
      /\ One(pc[t] = "cfNotify") \in Nat /\ One(pc'[t] = "cfNotify") \in Nat
  BY DEF One
<1> QED BY <1>2, <1>3, <1>4, <1>5, <1>6, <1>7, <1>8, <1>9
-----------------------------------------------------------------------------
(* What a step does to the event stream *)

SamePhase == UNCHANGED <<ids, id>> /\ \A x \in Sessions : Owned(x)' <=> Owned(x)
SamePending == Pending \in Nat /\ Pending' = Pending

Quiet == SamePhase /\ SamePending /\ UNCHANGED <<jobs, conns>>
Takes == SamePhase /\ SamePending /\ jobs # <<>> /\ jobs' = Tail(jobs) /\ UNCHANGED conns
Asks ==
    /\ SamePhase /\ Pending \in Nat /\ Pending' = Pending + One(stack # <<>>)
    /\ UNCHANGED jobs /\ conns' = conns + 1 /\ conns < MaxConnects
Fails(s) ==
    /\ SamePhase /\ SamePending /\ Pending > 0 /\ Post("CONNECT_FAIL", id[s])
    /\ UNCHANGED conns
GivesUp ==
    /\ SamePhase /\ Pending \in Nat /\ Pending > 0 /\ Pending' = Pending - 1
    /\ Post("ALL_RECONNECT_FAIL", NoId) /\ UNCHANGED conns
Receives(s) ==
    /\ SamePhase /\ SamePending /\ Owned(s) /\ Post("RECV_MESSAGE", id[s]) /\ UNCHANGED conns
Connects(s) ==
    /\ Pending \in Nat /\ Pending > 0 /\ Pending' = Pending - 1
    /\ ~Owned(s) /\ Owned(s)' /\ \A x \in Sessions \ {s} : Owned(x)' <=> Owned(x)
    /\ ids' = ids + 1 /\ id' = [id EXCEPT ![s] = <<ids, s>>]
    /\ Post("CONNECT_SUCCESS", <<ids, s>>) /\ UNCHANGED conns
Releases(s) ==
    /\ SamePending /\ UNCHANGED <<ids, id>>
    /\ Owned(s) /\ ~Owned(s)' /\ \A x \in Sessions \ {s} : Owned(x)' <=> Owned(x)
    /\ Post("ON_RELEASE", id[s]) /\ UNCHANGED conns

Effect ==
    \/ Quiet \/ Takes \/ Asks \/ GivesUp
    \/ \E s \in Sessions : Fails(s) \/ Receives(s) \/ Connects(s) \/ Releases(s)

\* The labels of a thread that brings a connection about or to an end
Asking == {"cnClear", "cnInit", "cfNotify"}
Telling == Asking \cup {"relNotify"}

\* No slot comes to be asked or answered.
LEMMA QuietPending ==
  ASSUME NEW t \in Threads, Moves(t), UNCHANGED <<posted, reconQ>>,
         \A x \in Sessions : con'[x] = "none" <=> con[x] = "none",
         \/ pc[t] \notin Asking /\ pc'[t] \notin Asking
         \/ pc'[t] = pc[t] /\ at'[t] = at[t]
  PROVE  SamePending
<1>1. ASSUME NEW x \in Sessions PROVE Asked(x)' <=> Asked(x)
  <2>1. OnSlot(t, x, Attempting)' <=> OnSlot(t, x, Attempting)
    BY DEF OnSlot, Asking, Attempting
  <2>2. con'[x] = "none" <=> con[x] = "none"
    OBVIOUS
  <2> QED BY <2>1, <2>2, AskedKept
<1>2. 0 \in Sessions
  BY SessionAssumption DEF Sessions
<1>3. /\ Pending \in Nat /\ Pending' \in Nat
      /\ Pending' = Pending + One(Asked(0)') - One(Asked(0))
                    + One(pc'[t] = "cfNotify") - One(pc[t] = "cfNotify")
  BY <1>1, <1>2, PendingMoves
<1>4. (Asked(0)' <=> Asked(0)) /\ (pc'[t] = "cfNotify" <=> pc[t] = "cfNotify")
  BY <1>1, <1>2 DEF Asking
<1>5. Pending' = Pending
  BY <1>3, <1>4 DEF One
<1> QED BY <1>3, <1>5 DEF SamePending

\* And no owner changes.
LEMMA QuietThread ==
  ASSUME NEW t \in Threads, Moves(t), UNCHANGED <<ids, id, released, posted, reconQ>>,
         \A x \in Sessions : con'[x] = "none" <=> con[x] = "none",
         \/ pc[t] \notin Telling /\ pc'[t] \notin Telling
         \/ pc'[t] = pc[t] /\ at'[t] = at[t]
  PROVE  SamePhase /\ SamePending
<1>1. ASSUME NEW x \in Sessions PROVE Owned(x)' <=> Owned(x)
  <2>1. \A l \in {"cnInit", "relNotify"} : OnSlot(t, x, {l})' <=> OnSlot(t, x, {l})
    BY DEF OnSlot, Telling, Asking
  <2>2. released'[x] = released[x]
    OBVIOUS
  <2> QED BY <2>1, <2>2, OwnedKept
<1>2. SamePending
  BY QuietPending DEF Telling
<1> QED BY <1>1, <1>2 DEF SamePhase

\* A step of a thread that keeps the owners and moves one slot, or itself to or from
\* its last notification
LEMMA SlotMoves ==
  ASSUME NEW t \in Threads, Moves(t), NEW s \in Sessions, TypeOK,
         \A x \in Sessions \ {s} : /\ con'[x] = "none" <=> con[x] = "none"
                                   /\ x \in posted' <=> x \in posted
                                   /\ Member(x, reconQ') <=> Member(x, reconQ),
         at[t] = s \/ pc[t] \notin Attempting, at'[t] = s \/ pc'[t] \notin Attempting
  PROVE  /\ Pending \in Nat /\ Pending' \in Nat
         /\ Pending' = Pending + One(Asked(s)') - One(Asked(s))
                       + One(pc'[t] = "cfNotify") - One(pc[t] = "cfNotify")
         /\ Asked(s) \/ pc[t] = "cfNotify" => Pending > 0
<1>1. ASSUME NEW x \in Sessions \ {s} PROVE Asked(x)' <=> Asked(x)
  <2>1. OnSlot(t, x, Attempting)' <=> OnSlot(t, x, Attempting)
    BY DEF OnSlot
  <2>2. /\ x \in Sessions /\ (con'[x] = "none" <=> con[x] = "none")
        /\ x \in posted' <=> x \in posted
        /\ Member(x, reconQ') <=> Member(x, reconQ)
    OBVIOUS
  <2> QED BY <2>1, <2>2, AskedKept
<1> QED BY <1>1, PendingMoves

\* What is in a queue after an Append and after a Tail
LEMMA MembersMove ==
  ASSUME NEW S, NEW q \in Seq(S), NEW y \in S, NEW x
  PROVE  /\ Member(x, Append(q, y)) <=> x = y \/ Member(x, q)
         /\ q # <<>> => (Member(x, q) <=> x = Head(q) \/ Member(x, Tail(q)))
<1>1. Count(x, Append(q, y)) = Count(x, q) + One(y = x)
  BY CountAppend
<1>2. q # <<>> => Count(x, q) = Count(x, Tail(q)) + One(Head(q) = x)
  BY CountTail
<1>3. ASSUME NEW r \in Seq(S) PROVE Count(x, r) \in Nat /\ (Count(x, r) = 0 <=> ~Member(x, r))
  <2>1. DOMAIN r = 1 .. Len(r)
    OBVIOUS
  <2> QED BY <2>1, CountPlaces DEF Member
<1>4. Append(q, y) \in Seq(S) /\ (q # <<>> => Tail(q) \in Seq(S))
  OBVIOUS
<1>5. /\ Count(x, q) \in Nat /\ (Count(x, q) = 0 <=> ~Member(x, q))
      /\ Count(x, Append(q, y)) = 0 <=> ~Member(x, Append(q, y))
      /\ q # <<>> => /\ Count(x, Tail(q)) \in Nat
                     /\ Count(x, Tail(q)) = 0 <=> ~Member(x, Tail(q))
  BY <1>3, <1>4
<1> QED BY <1>1, <1>2, <1>5 DEF One

\* Update takes the first job.
LEMMA JobTaken == TypeOK /\ TakeJob => Takes
<1> SUFFICES ASSUME TypeOK, TakeJob PROVE Takes
  OBVIOUS
<1>1. /\ Owner \in Threads /\ Moves(Owner)
      /\ UNCHANGED <<pc, at, ids, id, released, con, posted, reconQ, conns>>
      /\ jobs # <<>> /\ jobs' = Tail(jobs)
  BY DEF TakeJob, Moves, Threads, refs, session, kernel, slots, thread
<1>2. SamePhase /\ SamePending
  BY <1>1, QuietThread
<1> QED BY <1>1, <1>2 DEF Takes

\* Connect asks.
LEMMA ConnectAsks == TypeOK /\ SlotOnce /\ Connect => Asks
<1> SUFFICES ASSUME TypeOK, SlotOnce, Connect PROVE Asks
  OBVIOUS
<1>0. /\ UNCHANGED <<pc, at, nest, ids, id, released, posted, reconQ, jobs>> /\ Owner \in Threads
      /\ conns' = conns + 1 /\ conns < MaxConnects /\ con \in [Sessions -> {"none", "posted", "done", "failed"}]
      /\ conns \in Nat /\ MaxConnects \in Nat /\ stack \in Seq(Sessions)
  BY BoundAssumption DEF Connect, thread, refs, Threads, TypeOK, TypeKernel, TypeOwner
<1>1. Moves(Owner)
  BY <1>0 DEF Moves
<1>2. SamePhase
  <2>1. ASSUME NEW x \in Sessions PROVE Owned(x)' <=> Owned(x)
    <3>1. released'[x] = released[x]
          /\ \A l \in {"cnInit", "relNotify"} : OnSlot(Owner, x, {l})' <=> OnSlot(Owner, x, {l})
      BY <1>0 DEF OnSlot
    <3> QED BY <1>0, <1>1, <3>1, OwnedKept
  <2> QED BY <1>0, <2>1 DEF SamePhase
<1>3. CASE stack = <<>>
  <2>1. UNCHANGED con
    BY <1>3 DEF Connect
  <2>2. SamePending
    BY <1>0, <1>1, <2>1, QuietPending
  <2> QED BY <1>0, <1>2, <1>3, <2>2 DEF Asks, SamePending, One
<1>4. CASE stack # <<>>
  <2> PICK s \in Sessions : s = Head(stack)
    BY <1>0, <1>4
  <2>1. s \in Sessions /\ con' = [con EXCEPT ![s] = "posted"]
    BY <1>0, <1>4 DEF Connect
  <2>2. Asked(s)'
    <3>1. con'[s] = "posted"
      BY <1>0, <2>1
    <3> QED BY <3>1 DEF Asked
  <2>3. ~Asked(s)
    <3>1. Count(s, stack) = Count(s, Tail(stack)) + One(s = s)
      BY <1>0, <1>4, CountTail
    <3>2. Tail(stack) \in Seq(Sessions)
      BY <1>0, <1>4
    <3>3. Count(s, Tail(stack)) \in Nat
      BY <3>2, CountPlaces
    <3> QED BY <2>1, <3>1, <3>3, PlaceOnly DEF One
  <2>4. \A x \in Sessions \ {s} : con'[x] = con[x]
    BY <1>0, <2>1
  <2>5. /\ Pending \in Nat /\ Pending' \in Nat
        /\ Pending' = Pending + One(Asked(s)') - One(Asked(s))
                      + One(pc'[Owner] = "cfNotify") - One(pc[Owner] = "cfNotify")
    <3>1. pc'[Owner] \notin Attempting /\ pc[Owner] \notin Attempting
      BY <1>0 DEF Connect, Ready, At, Attempting
    <3>2. \A x \in Sessions \ {s} : /\ con'[x] = "none" <=> con[x] = "none"
                                    /\ x \in posted' <=> x \in posted
                                    /\ Member(x, reconQ') <=> Member(x, reconQ)
      BY <1>0, <2>4
    <3> QED BY <1>0, <1>1, <2>1, <3>1, <3>2, SlotMoves
  <2>6. Pending' = Pending + 1
    BY <1>0, <2>2, <2>3, <2>5 DEF One
  <2> QED BY <1>0, <1>2, <1>4, <2>5, <2>6 DEF Asks, One
<1> QED BY <1>3, <1>4

\* Init answers.
LEMMA InitAnswers ==
  ASSUME SlotInv, TypeOK', NEW t \in Workers, NEW s \in Sessions, CnInit(t, s)
  PROVE  Connects(s)
<1>0. /\ t \in Threads /\ TypeOK /\ SlotOnce /\ UseSafe /\ pc \in [Threads -> Labels]
      /\ at \in [Threads -> Sessions]
  BY DEF SlotInv, RefInv, Threads, TypeOK, TypeThread
<1>1. /\ Moves(t) /\ at[t] = s /\ at'[t] = s /\ pc[t] = "cnInit" /\ pc'[t] = "rpost"
      /\ UNCHANGED <<released, con, posted, reconQ, conns>>
      /\ ids' = ids + 1 /\ id' = [id EXCEPT ![s] = <<ids, s>>]
      /\ Post("CONNECT_SUCCESS", <<ids, s>>)
  BY <1>0 DEF CnInit, At, Goto, Stay, Moves, refs, kernel, calls
<1>2. OnSlot(t, s, Attempting)
  BY <1>1 DEF OnSlot, Attempting
<1>3. /\ ~Live(s) /\ ~Someone(s, Releasing) /\ \A u \in Threads : OnSlot(u, s, Attempting) => u = t
      /\ con[s] = "none" /\ s \notin posted /\ ~Member(s, reconQ)
  <2>1. Someone(s, Attempting)
    BY <1>0, <1>2 DEF Someone
  <2> QED BY <1>0, <1>2, <2>1, AttemptAlone, PlaceOnly
<1>4. ~Someone(s, Attempting)'
  <2>1. pc'[t] \notin Attempting /\ \A u \in Threads \ {t} : ~OnSlot(u, s, Attempting)
    BY <1>1, <1>3 DEF Attempting
  <2> QED BY <1>0, <1>1, <2>1, OthersStay
<1>5. Asked(s) /\ ~Asked(s)'
  <2>1. Asked(s)
    BY <1>0, <1>2 DEF Asked, Someone, Member, Attempting
  <2> QED BY <1>1, <1>3, <1>4, <2>1 DEF Asked, Member, Attempting
<1>6. Pending \in Nat /\ Pending > 0 /\ Pending' = Pending - 1
  <2>1. /\ Pending \in Nat
        /\ Pending' = Pending + One(Asked(s)') - One(Asked(s))
                      + One(pc'[t] = "cfNotify") - One(pc[t] = "cfNotify")
        /\ Asked(s) => Pending > 0
    BY <1>0, <1>1, SlotMoves
  <2> QED BY <1>1, <1>5, <2>1 DEF One
<1>7. ~Owned(s)
  BY <1>0, ConnectNotOwned
<1>8. Owned(s)'
  <2>1. ~released[s]
    <3>1. Using(t)
      BY <1>1 DEF Using, Working, Holding, Labels
    <3> QED BY <1>0, <1>1, <3>1 DEF UseSafe
  <2>2. ~Someone(s, {"cnInit"})'
    BY <1>4 DEF Someone, OnSlot, Attempting
  <2> QED BY <1>1, <2>1, <2>2 DEF Owned, Live
<1>9. ASSUME NEW x \in Sessions \ {s} PROVE Owned(x)' <=> Owned(x)
  <2>1. \A l \in {"cnInit", "relNotify"} : ~OnSlot(t, x, {l})' /\ ~OnSlot(t, x, {l})
    BY <1>1 DEF OnSlot
  <2>2. x \in Sessions /\ released'[x] = released[x]
    BY <1>1
  <2> QED BY <1>0, <1>1, <2>1, <2>2, OwnedKept
<1> QED BY <1>1, <1>6, <1>7, <1>8, <1>9 DEF Connects

\* A failed connect is told, and the Connect stays pending until the last attempt has
\* been told as well.
LEMMA FailureTold ==
  ASSUME SlotInv, NEW t \in Workers, NEW s \in Sessions, GetConnectFail(t, s)
  PROVE  Fails(s)
<1>0. /\ t \in Threads /\ TypeOK /\ SlotOnce /\ pc \in [Threads -> Labels]
      /\ at \in [Threads -> Sessions] /\ con \in [Sessions -> {"none", "posted", "done", "failed"}]
      /\ reconQ \in Seq(Sessions)
  BY DEF SlotInv, RefInv, Threads, TypeOK, TypeThread, TypeKernel
<1>1. /\ Moves(t) /\ at'[t] = s /\ pc[t] = "idle" /\ UNCHANGED <<released, posted, ids, id, conns>>
      /\ con[s] = "failed" /\ con' = [con EXCEPT ![s] = "none"]
      /\ Post("CONNECT_FAIL", id[s])
      /\ \/ pc'[t] = "cfTimer" /\ reconQ' = Append(reconQ, s)
         \/ pc'[t] = "cfNotify" /\ UNCHANGED reconQ
  BY <1>0 DEF GetConnectFail, Requeue, GiveUp, Take, At, Goto, Moves, refs, calls
<1>2. SamePhase
  <2>1. ASSUME NEW x \in Sessions PROVE Owned(x)' <=> Owned(x)
    <3>1. \A l \in {"cnInit", "relNotify"} : ~OnSlot(t, x, {l})' /\ ~OnSlot(t, x, {l})
      BY <1>1 DEF OnSlot
    <3>2. released'[x] = released[x]
      BY <1>1
    <3> QED BY <1>0, <1>1, <3>1, <3>2, OwnedKept
  <2> QED BY <1>1, <2>1 DEF SamePhase
<1>3. Asked(s) /\ s \notin posted /\ ~Someone(s, Attempting) /\ ~Member(s, reconQ)
  <2>1. con[s] # "none"
    BY <1>1
  <2> QED BY <1>0, <2>1, PlaceOnly DEF Asked, Member
<1>4. \A x \in Sessions :
         Member(x, reconQ')
           <=> (x = s /\ pc'[t] = "cfTimer") \/ Member(x, reconQ)
  <2>1. CASE pc'[t] = "cfTimer"
    <3>1. reconQ' = Append(reconQ, s)
      BY <1>1, <2>1
    <3>2. reconQ \in Seq(Sessions) /\ s \in Sessions
      BY <1>0
    <3>3. ASSUME NEW x
          PROVE  Member(x, Append(reconQ, s))
                   <=> x = s \/ Member(x, reconQ)
      BY <3>2, MembersMove
    <3> QED BY <2>1, <3>1, <3>3
  <2>2. CASE pc'[t] # "cfTimer"
    BY <1>1, <2>2
  <2> QED BY <2>1, <2>2
<1>5. Asked(s)' <=> pc'[t] = "cfTimer"
  <2>1. ~Someone(s, Attempting)'
    BY <1>0, <1>1, <1>3, OthersStay DEF Someone, Attempting
  <2>2. con'[s] = "none" /\ s \notin posted'
    BY <1>0, <1>1, <1>3
  <2>3. Member(s, reconQ') <=> pc'[t] = "cfTimer"
    BY <1>3, <1>4
  <2> QED BY <2>1, <2>2, <2>3 DEF Asked, Member, Attempting
<1>6. /\ Pending \in Nat
      /\ Pending' = Pending + One(Asked(s)') - One(Asked(s))
                    + One(pc'[t] = "cfNotify") - One(pc[t] = "cfNotify")
      /\ Asked(s) => Pending > 0
  <2>1. \A x \in Sessions \ {s} : /\ con'[x] = "none" <=> con[x] = "none"
                                  /\ x \in posted' <=> x \in posted
                                  /\ Member(x, reconQ') <=> Member(x, reconQ)
    BY <1>0, <1>1, <1>4
  <2>2. pc[t] \notin Attempting
    BY <1>1 DEF Attempting
  <2> QED BY <1>0, <1>1, <2>1, <2>2, SlotMoves
<1>7. Pending' = Pending
  BY <1>1, <1>3, <1>5, <1>6 DEF One
<1> QED BY <1>1, <1>2, <1>3, <1>6, <1>7 DEF Fails, SamePending

\* Whatever the connect attempts of a slot do, a thread that stays away from Init and
\* release changes no owner.
LEMMA PhaseKept ==
  ASSUME NEW t \in Threads, Moves(t), UNCHANGED <<ids, id, released>>,
         pc[t] \notin {"cnInit", "relNotify"}, pc'[t] \notin {"cnInit", "relNotify"}
  PROVE  SamePhase
<1>1. ASSUME NEW x \in Sessions PROVE Owned(x)' <=> Owned(x)
  <2>1. released'[x] = released[x]
        /\ \A l \in {"cnInit", "relNotify"} : ~OnSlot(t, x, {l})' /\ ~OnSlot(t, x, {l})
    BY DEF OnSlot
  <2> QED BY <2>1, OwnedKept
<1> QED BY <1>1 DEF SamePhase

\* A slot whose connect goes on stays asked.
LEMMA StaysAsked ==
  ASSUME NEW t \in Threads, Moves(t), NEW s \in Sessions, TypeOK,
         \A x \in Sessions \ {s} : /\ con'[x] = "none" <=> con[x] = "none"
                                   /\ x \in posted' <=> x \in posted
                                   /\ Member(x, reconQ') <=> Member(x, reconQ),
         at[t] = s \/ pc[t] \notin Attempting, at'[t] = s \/ pc'[t] \notin Attempting,
         pc[t] # "cfNotify", pc'[t] # "cfNotify", Asked(s), Asked(s)'
  PROVE  SamePending
<1>1. /\ Pending \in Nat
      /\ Pending' = Pending + One(Asked(s)') - One(Asked(s))
                    + One(pc'[t] = "cfNotify") - One(pc[t] = "cfNotify")
  BY SlotMoves
<1> QED BY <1>1 DEF One, SamePending

\* The steps of a connect attempt between the Connect and its answer
LEMMA AttemptGoesOn ==
  ASSUME SlotInv, NEW t \in Workers, NEW s \in Sessions,
         GetConnect(t, s) \/ GetReconnect(t, s) \/ CnClear(t, s)
  PROVE  Quiet
<1>0. /\ t \in Threads /\ TypeOK /\ SlotOnce /\ pc \in [Threads -> Labels]
      /\ at \in [Threads -> Sessions] /\ con \in [Sessions -> {"none", "posted", "done", "failed"}]
      /\ released \in [Sessions -> BOOLEAN] /\ posted \subseteq Sessions
  BY DEF SlotInv, RefInv, Threads, TypeOK, TypeThread, TypeKernel, TypeSession
<1>1. /\ Moves(t) /\ at'[t] = s /\ UNCHANGED <<ids, id, reconQ, jobs, conns>>
      /\ pc[t] \in {"idle", "cnClear"} /\ pc'[t] \in {"idle", "cnClear", "cnInit"}
      /\ pc[t] = "cnClear" => at[t] = s
  BY <1>0 DEF GetConnect, GetReconnect, CnClear, Take, At, Goto, Stay, Moves, slots, session, calls
<1>2. /\ Asked(s) /\ Asked(s)'
      /\ \A x \in Sessions \ {s} : con'[x] = con[x] /\ (x \in posted' <=> x \in posted)
  <2>1. CASE GetConnect(t, s)
    <3>1. con[s] = "done" /\ pc'[t] = "cnClear" /\ con' = [con EXCEPT ![s] = "none"]
          /\ UNCHANGED posted
      BY <1>0, <2>1 DEF GetConnect, Goto
    <3> QED BY <1>0, <1>1, <3>1 DEF Asked, Someone, OnSlot
  <2>2. CASE GetReconnect(t, s)
    <3>1. s \in posted /\ posted' = posted \ {s} /\ con' = [con EXCEPT ![s] = "posted"]
      BY <2>2 DEF GetReconnect
    <3> QED BY <1>0, <3>1 DEF Asked
  <2>3. CASE CnClear(t, s)
    <3>1. pc[t] = "cnClear" /\ at[t] = s /\ pc'[t] = "cnInit" /\ UNCHANGED <<con, posted>>
      BY <1>0, <2>3 DEF CnClear, Goto, At, kernel
    <3> QED BY <1>0, <1>1, <3>1 DEF Asked, Someone, OnSlot
  <2> QED BY <2>1, <2>2, <2>3
<1>3. SamePending
  <2>1. \A x \in Sessions \ {s} : /\ con'[x] = "none" <=> con[x] = "none"
                                  /\ x \in posted' <=> x \in posted
                                  /\ Member(x, reconQ') <=> Member(x, reconQ)
    BY <1>1, <1>2
  <2>2. /\ at[t] = s \/ pc[t] \notin Attempting
        /\ pc[t] # "cfNotify" /\ pc'[t] # "cfNotify"
    BY <1>1 DEF Attempting
  <2> QED BY <1>0, <1>1, <1>2, <2>1, <2>2, StaysAsked
<1>4. SamePhase
  <2>1. CASE ~CnClear(t, s)
    <3>1. UNCHANGED released /\ pc[t] = "idle" /\ pc'[t] \in {"idle", "cnClear"}
      BY <1>0, <2>1 DEF GetConnect, GetReconnect, Take, At, Goto, refs
    <3> QED BY <1>0, <1>1, <3>1, PhaseKept
  <2>2. CASE CnClear(t, s)
    <3>1. ~Owned(s) /\ ~Owned(s)'
      BY <1>0, <2>2, ConnectNotOwned
    <3>2. ASSUME NEW x \in Sessions \ {s} PROVE Owned(x)' <=> Owned(x)
      <4>1. released'[x] = released[x] /\ at[t] = s
        BY <1>0, <2>2 DEF CnClear
      <4>2. \A l \in {"cnInit", "relNotify"} : ~OnSlot(t, x, {l})' /\ ~OnSlot(t, x, {l})
        BY <1>1, <4>1 DEF OnSlot
      <4> QED BY <1>0, <1>1, <4>1, <4>2, OwnedKept
    <3>3. \A x \in Sessions : Owned(x)' <=> Owned(x)
      BY <3>1, <3>2
    <3> QED BY <1>1, <3>3 DEF SamePhase
  <2> QED BY <2>1, <2>2
<1> QED BY <1>1, <1>3, <1>4 DEF Quiet

\* The last failed attempt answers, too.
LEMMA GivingUpAnswers ==
  ASSUME TypeOK, NEW t \in Workers, CfNotify(t)
  PROVE  GivesUp
<1>0. t \in Threads /\ pc \in [Threads -> Labels] /\ at \in [Threads -> Sessions] /\ 0 \in Sessions
  BY SessionAssumption DEF Threads, TypeOK, TypeThread, Sessions
<1>1. /\ Moves(t) /\ UNCHANGED <<ids, id, released, con, posted, reconQ, conns>>
      /\ pc[t] = "cfNotify" /\ pc'[t] = "idle" /\ Post("ALL_RECONNECT_FAIL", NoId)
  BY <1>0 DEF CfNotify, At, Goto, Stay, Moves, refs, session, slots, kernel, calls
<1>2. SamePhase
  BY <1>0, <1>1, PhaseKept
<1>3. ASSUME NEW x \in Sessions PROVE Asked(x)' <=> Asked(x)
  <2>1. ~OnSlot(t, x, Attempting)' /\ ~OnSlot(t, x, Attempting)
    BY <1>1 DEF OnSlot, Attempting
  <2> QED BY <1>0, <1>1, <2>1, AskedKept
<1>4. /\ Pending \in Nat /\ Pending' \in Nat
      /\ Pending' = Pending + One(Asked(0)') - One(Asked(0))
                    + One(pc'[t] = "cfNotify") - One(pc[t] = "cfNotify")
      /\ pc[t] = "cfNotify" => Pending > 0
  BY <1>0, <1>1, <1>3, PendingMoves
<1>5. Pending' = Pending - 1
  BY <1>0, <1>1, <1>3, <1>4 DEF One
<1> QED BY <1>1, <1>2, <1>4, <1>5 DEF GivesUp

\* ReleaseSession leaves the slot to the thread that announces the release ...
LEMMA ReleaseIsQuiet ==
  ASSUME SlotInv, NEW t \in Threads, NEW s \in Sessions, ReleaseSession(t, s)
  PROVE  Quiet
<1>0. TypeOK /\ RefExact /\ pc \in [Threads -> Labels] /\ at \in [Threads -> Sessions]
      /\ nest \in [Threads -> BOOLEAN]
  BY DEF SlotInv, RefInv, TypeOK, TypeThread
<1>1. /\ Moves(t) /\ UNCHANGED <<ids, id, con, posted, reconQ, jobs, conns>>
      /\ pc[t] = "rel" /\ pc'[t] \in {"relNotify", "dec", "spFree", "idle"}
  BY <1>0 DEF ReleaseSession, Return, At, Goto, Moves, session, slots, kernel, calls
<1>2. SamePending
  BY <1>1, QuietPending DEF Asking
<1>3. \A x \in Sessions : Owned(x)' <=> Owned(x)
  BY <1>0, ReleaseKeepsOwned
<1> QED BY <1>1, <1>2, <1>3 DEF Quiet, SamePhase

\* ... once.
LEMMA ReleaseTold ==
  ASSUME SlotInv, NEW t \in Threads, NEW s \in Sessions, RelNotify(t, s)
  PROVE  Releases(s)
<1>0. TypeOK /\ SlotOnce /\ pc \in [Threads -> Labels] /\ at \in [Threads -> Sessions]
  BY DEF SlotInv, RefInv, TypeOK, TypeThread
<1>1. /\ Moves(t) /\ UNCHANGED <<ids, id, released, con, posted, reconQ, conns>>
      /\ pc[t] = "relNotify" /\ pc'[t] = "relPush" /\ at[t] = s /\ at'[t] = s
      /\ Post("ON_RELEASE", id[s])
  BY <1>0 DEF RelNotify, Stay, At, Goto, Moves, refs, session, slots, calls
<1>2. SamePending
  BY <1>1, QuietPending DEF Asking
<1>3. Owned(s) /\ ~Owned(s)'
  BY <1>0, NotifyEndsOwned
<1>4. ASSUME NEW x \in Sessions \ {s} PROVE Owned(x)' <=> Owned(x)
  <2>1. \A l \in {"cnInit", "relNotify"} : ~OnSlot(t, x, {l})' /\ ~OnSlot(t, x, {l})
    BY <1>1 DEF OnSlot
  <2> QED BY <1>1, <2>1, OwnedKept
<1> QED BY <1>1, <1>2, <1>3, <1>4 DEF Releases

\* A message is that of a connection which is announced and not yet released.
LEMMA MessageTold ==
  ASSUME SlotInv, RecvOnce, NEW t \in Workers, NEW s \in Sessions, RecvMessage(t, s)
  PROVE  Receives(s)
<1>0. /\ t \in Threads /\ TypeOK /\ UseSafe /\ pc \in [Threads -> Labels]
      /\ at \in [Threads -> Sessions] /\ io \in IoType
  BY DEF SlotInv, RefInv, Threads, TypeOK, TypeThread, TypeKernel, IoType
<1>1. /\ Moves(t) /\ UNCHANGED <<ids, id, released, con, posted, reconQ, conns>>
      /\ pc[t] = "recv" /\ at[t] = s /\ pc'[t] = pc[t] /\ at'[t] = at[t]
      /\ Post("RECV_MESSAGE", id[s])
  BY <1>0 DEF RecvMessage, Stay, At, Goto, Moves, refs, session, slots, kernel, calls
<1>2. SamePhase /\ SamePending
  BY <1>0, <1>1, QuietThread
<1>3. ~released[s]
  BY <1>0, <1>1 DEF UseSafe, Using, Working, Holding, Labels
<1>4. ASSUME NEW u \in Threads, OnSlot(u, s, {"cnInit"}) PROVE FALSE
  <2>1. u # t /\ u \in Receivers(s) /\ t \in Receivers(s)
    BY <1>0, <1>1, <1>4 DEF OnSlot, Receivers, HasRecv, RecvLabels
  <2>2. IsFiniteSet(Receivers(s)) /\ {u, t} \subseteq Receivers(s)
    BY <2>1, ThreadsFinite, FS_Subset DEF Receivers
  <2>3. Cardinality({u, t}) = 2 /\ IsFiniteSet({u, t})
    <3>1. IsFiniteSet({u}) /\ Cardinality({u}) = 1 /\ t \notin {u}
      BY <2>1, FS_Singleton
    <3>2. {u} \cup {t} = {u, t} /\ IsFiniteSet({u} \cup {t})
          /\ Cardinality({u} \cup {t}) = Cardinality({u}) + 1
      BY <3>1, FS_AddElement
    <3> QED BY <3>1, <3>2
  <2>4. Cardinality({u, t}) <= Cardinality(Receivers(s)) /\ Cardinality(Receivers(s)) \in Nat
    BY <2>2, <2>3, FS_Subset, FS_CardinalityType
  <2>5. Recvs(s) \in Nat /\ Recvs(s) + Cardinality(Receivers(s)) <= 1
    BY <1>0, IoSums DEF RecvOnce
  <2> QED BY <2>3, <2>4, <2>5
<1>5. Owned(s)
  BY <1>3, <1>4 DEF Owned, Live, Someone
<1> QED BY <1>1, <1>2, <1>5 DEF Receives

\* A timer moves its slot from ReconnectQ_ to the completion port.
LEMMA TimerIsQuiet ==
  ASSUME TypeOK, TimerFire
  PROVE  Quiet
<1>0. /\ Owner \in Threads /\ reconQ \in Seq(Sessions) /\ posted \subseteq Sessions
      /\ UNCHANGED <<pc, at, nest, ids, id, released, con, jobs, conns>>
  BY DEF TimerFire, Outside, refs, session, thread, calls, Threads, TypeOK, TypeKernel
<1>1. Moves(Owner)
  BY <1>0 DEF Moves
<1>2. SamePhase
  <2>1. ASSUME NEW x \in Sessions PROVE Owned(x)' <=> Owned(x)
    <3>1. released'[x] = released[x]
          /\ \A l \in {"cnInit", "relNotify"} : OnSlot(Owner, x, {l})' <=> OnSlot(Owner, x, {l})
      BY <1>0 DEF OnSlot
    <3> QED BY <1>0, <1>1, <3>1, OwnedKept
  <2> QED BY <1>0, <2>1 DEF SamePhase
<1>3. CASE reconQ = <<>>
  <2>1. UNCHANGED <<posted, reconQ>>
    BY <1>3 DEF TimerFire
  <2>2. SamePending
    BY <1>0, <1>1, <2>1, QuietPending
  <2> QED BY <1>0, <1>2, <2>2 DEF Quiet
<1>4. CASE reconQ # <<>>
  <2> PICK s \in Sessions : s = Head(reconQ)
    BY <1>0, <1>4
  <2>1. posted' = posted \cup {s} /\ reconQ' = Tail(reconQ)
    BY <1>4 DEF TimerFire
  <2>2. ASSUME NEW x PROVE Member(x, reconQ) <=> x = s \/ Member(x, reconQ')
    BY <1>0, <1>4, <2>1, MembersMove
  <2>3. Asked(s) /\ Asked(s)'
    BY <2>1, <2>2 DEF Asked, Member
  <2>4. ASSUME NEW x \in Sessions PROVE Asked(x)' <=> Asked(x)
    <3>1. CASE x = s
      BY <2>3, <3>1
    <3>2. CASE x # s
      <4>1. /\ x \in posted' <=> x \in posted
            /\ Member(x, reconQ') <=> Member(x, reconQ)
            /\ con'[x] = "none" <=> con[x] = "none"
            /\ OnSlot(Owner, x, Attempting)' <=> OnSlot(Owner, x, Attempting)
        BY <1>0, <2>1, <2>2, <3>2 DEF OnSlot
      <4> QED BY <1>0, <1>1, <4>1, AskedKept
    <3> QED BY <3>1, <3>2
  <2>5. /\ Pending \in Nat
        /\ Pending' = Pending + One(Asked(s)') - One(Asked(s))
                      + One(pc'[Owner] = "cfNotify") - One(pc[Owner] = "cfNotify")
    BY <1>0, <1>1, <2>4, PendingMoves
  <2>6. SamePending
    BY <1>0, <2>3, <2>5 DEF One, SamePending
  <2> QED BY <1>0, <1>2, <2>6 DEF Quiet
<1> QED BY <1>3, <1>4

\* Every step has one of these effects.
LEMMA StepEffect == SlotInv /\ RecvOnce /\ TypeOK' /\ [Next]_vars => Effect
<1> SUFFICES ASSUME SlotInv, RecvOnce, TypeOK', [Next]_vars PROVE Effect
  OBVIOUS
<1>0. /\ Owner \in Threads /\ Workers \subseteq Threads /\ TypeOK /\ SlotOnce
      /\ pc \in [Threads -> Labels] /\ at \in [Threads -> Sessions]
      /\ nest \in [Threads -> BOOLEAN]
      /\ con \in [Sessions -> {"none", "posted", "done", "failed"}]
  BY DEF SlotInv, RefInv, TypeOK, TypeThread, TypeKernel, Threads
<1>a. ASSUME NEW t \in Threads, Moves(t),
             UNCHANGED <<ids, id, released, posted, reconQ, jobs, conns>>,
             \A x \in Sessions : con'[x] = "none" <=> con[x] = "none",
             \/ pc[t] \notin Telling /\ pc'[t] \notin Telling
             \/ pc'[t] = pc[t] /\ at'[t] = at[t]
      PROVE  Effect
  <2>1. SamePhase /\ SamePending
    BY <1>a, QuietThread
  <2> QED BY <1>a, <2>1 DEF Effect, Quiet
<1>1. ASSUME OwnerStep PROVE Effect
  <2>1. CASE TakeJob
    BY <1>0, <2>1, JobTaken DEF Effect
  <2>2. CASE Connect
    BY <1>0, <2>2, ConnectAsks DEF Effect
  <2>3. CASE SendPacket \/ Disconnect \/ FreeSmart
    <3>1. /\ Moves(Owner) /\ pc[Owner] \notin Telling /\ pc'[Owner] \notin Telling
          /\ UNCHANGED <<ids, id, released, con, posted, reconQ, jobs, conns>>
      BY <1>0, <2>3 DEF SendPacket, Disconnect, FreeSmart, Ready, Enter, Stay, Goto, At, Moves,
                        Telling, Asking, refs, session, kernel, slots, calls
    <3> QED BY <1>0, <1>a, <3>1
  <2> QED BY <1>1, <2>1, <2>2, <2>3 DEF OwnerStep
<1>2. ASSUME NEW t \in Threads, NEW s \in Sessions, CallStep(t, s) PROVE Effect
  <2>1. CASE SpCheck(t, s) \/ SpEnq(t, s) \/ SendPost(t, s) \/ PostX(t, s) \/ PostN(t, s)
             \/ PostU(t, s) \/ DcCheck(t, s) \/ DcX(t, s)
    <3>1. /\ Moves(t) /\ pc[t] \notin Telling /\ pc'[t] \notin Telling
          /\ UNCHANGED <<ids, id, released, con, posted, reconQ, jobs, conns>>
      BY <1>0, <2>1 DEF SpCheck, SpEnq, SendPost, PostX, PostN, PostU, DcCheck, DcX, Stay, Goto,
                        At, Moves, Telling, Asking, refs, session, kernel, slots, calls
    <3> QED BY <1>0, <1>a, <3>1
  <2>2. CASE PostDisc(t, s) \/ DcCancelSend(t, s) \/ DcCancelRecv(t, s) \/ PostIo(t, s)
    <3>1. /\ Moves(t) /\ pc[t] \notin Telling /\ pc'[t] \notin Telling
          /\ UNCHANGED <<ids, id, released, con, posted, reconQ, jobs, conns>>
      BY <1>0, <2>2 DEF PostDisc, DcCancelSend, DcCancelRecv, PostIo, IoRefused, Stay, Goto, At,
                        Moves, Telling, Asking, refs, session, slots, calls
    <3> QED BY <1>0, <1>a, <3>1
  <2>3. CASE Decrement(t, s) \/ RelPush(t, s)
    <3>1. /\ Moves(t) /\ pc[t] \notin Asking \cup {"relNotify"}
          /\ pc'[t] \notin Asking \cup {"relNotify"}
          /\ UNCHANGED <<ids, id, released, con, posted, reconQ, jobs, conns>>
      BY <1>0, <2>3 DEF Decrement, RelPush, Return, Goto, At, Moves, Asking, refs, session,
                        kernel, slots, calls
    <3> QED BY <1>0, <1>a, <3>1 DEF Telling
  <2>4. CASE ReleaseSession(t, s)
    BY <2>4, ReleaseIsQuiet DEF Effect
  <2>5. CASE RelNotify(t, s)
    BY <2>5, ReleaseTold DEF Effect
  <2> QED BY <1>2, <2>1, <2>2, <2>3, <2>4, <2>5 DEF CallStep
<1>3. ASSUME NEW w \in Workers, NEW s \in Sessions, HandleStep(w, s) PROVE Effect
  <2>1. CASE CnClear(w, s)
    BY <2>1, AttemptGoesOn DEF Effect
  <2>2. CASE CnInit(w, s)
    BY <2>2, InitAnswers DEF Effect
  <2>3. CASE RecvMessage(w, s)
    BY <2>3, MessageTold DEF Effect
  <2>4. CASE SnClear(w, s) \/ RecvBad(w, s) \/ RecvEnd(w, s) \/ RecvPost(w, s) \/ RpDisc(w, s)
    <3>1. /\ Moves(w) /\ pc[w] \notin Telling /\ pc'[w] \notin Telling
          /\ UNCHANGED <<ids, id, released, con, posted, reconQ, jobs, conns>>
      BY <1>0, <2>4 DEF SnClear, RecvBad, RecvEnd, RecvPost, RpDisc, Enter, IoRefused, Stay, Goto,
                        At, Moves, Telling, Asking, refs, session, kernel, slots, calls
    <3> QED BY <1>0, <1>a, <3>1
  <2> QED BY <1>3, <2>1, <2>2, <2>3, <2>4 DEF HandleStep
<1>4. ASSUME NEW w \in Workers, NEW s \in Sessions, GetStep(w, s) PROVE Effect
  <2>1. CASE GetConnect(w, s) \/ GetReconnect(w, s)
    BY <2>1, AttemptGoesOn DEF Effect
  <2>2. CASE GetConnectFail(w, s)
    BY <2>2, FailureTold DEF Effect
  <2>3. CASE GetDead(w, s) \/ GetRecv(w, s) \/ GetSent(w, s)
    <3>1. /\ Moves(w) /\ pc[w] \notin Telling /\ pc'[w] \notin Telling
          /\ UNCHANGED <<ids, id, released, con, posted, reconQ, jobs, conns>>
      BY <1>0, <2>3 DEF GetDead, GetRecv, GetSent, Take, Goto, At, Moves, Telling, Asking, refs,
                        session, slots, calls
    <3> QED BY <1>0, <1>a, <3>1
  <2> QED BY <1>4, <2>1, <2>2, <2>3 DEF GetStep
<1>5. ASSUME NEW w \in Workers, CfTimer(w) \/ CfNotify(w) PROVE Effect
  <2>1. CASE CfTimer(w)
    <3>1. /\ Moves(w) /\ pc[w] \notin Telling /\ pc'[w] \notin Telling
          /\ UNCHANGED <<ids, id, released, con, posted, reconQ, jobs, conns>>
      BY <1>0, <2>1 DEF CfTimer, Stay, Goto, At, Moves, Telling, Asking, refs, session, slots, calls
    <3> QED BY <1>0, <1>a, <3>1
  <2>2. CASE CfNotify(w)
    BY <1>0, <2>2, GivingUpAnswers DEF Effect
  <2> QED BY <1>5, <2>1, <2>2
<1>6. ASSUME NEW s \in Sessions, KernelStep(s) PROVE Effect
  <2>1. /\ UNCHANGED <<pc, at, nest, ids, id, released, posted, reconQ, jobs, conns>>
        /\ \A x \in Sessions : con'[x] = "none" <=> con[x] = "none"
    BY <1>0, <1>6 DEF KernelStep, ConnectDone, PeerDown, RecvDone, SendDone, IoDead, Outside,
                      refs, session, thread, calls
  <2>2. Moves(Owner)
    BY <2>1 DEF Moves
  <2> QED BY <1>0, <1>a, <2>1, <2>2
<1>7. CASE TimerFire
  BY <1>0, <1>7, TimerIsQuiet DEF Effect
<1>8. CASE UNCHANGED vars
  <2>1. /\ Moves(Owner)
        /\ UNCHANGED <<pc, at, ids, id, released, con, posted, reconQ, jobs, conns>>
    BY <1>8 DEF vars, Moves, refs, session, kernel, slots, thread, calls
  <2> QED BY <1>0, <1>a, <2>1
<1> QED BY <1>1, <1>2, <1>3, <1>4, <1>5, <1>6, <1>7, <1>8 DEF Next
-----------------------------------------------------------------------------
(* The ids *)

\* Values of the counter that were given out are below it, no two slots have the same
\* one, and whoever has a connection has one.
IdInv ==
    /\ \A s \in Sessions : \A n \in Nat : id[s] = <<n, s>> => n < ids
    /\ \A s, x \in Sessions : \A n \in Nat : id[s] = <<n, s>> /\ id[x] = <<n, x>> => s = x
    /\ \A s \in Sessions : Owned(s) => \E n \in Nat : id[s] = <<n, s>>

\* Each id answers a Connect: there are no more of them than the bound on Connect allows.
Budget == ids \in Nat /\ Pending \in Nat /\ ids + Pending <= conns /\ conns <= MaxConnects

EventInv == SlotInv /\ RecvOnce /\ IdInv /\ Budget

LEMMA IdStep ==
  ASSUME TypeOK, IdInv, Effect
  PROVE  IdInv'
<1>0. ids \in Nat /\ id \in [Sessions -> Handles \cup {NoId}]
  BY DEF TypeOK, TypeOwner, TypeSession
<1>1. ASSUME UNCHANGED <<ids, id>>, \A x \in Sessions : Owned(x)' => Owned(x) PROVE IdInv'
  BY <1>1 DEF IdInv
<1>2. CASE Quiet \/ Takes \/ Asks \/ GivesUp
  BY <1>1, <1>2 DEF Quiet, Takes, Asks, GivesUp, SamePhase
<1>3. ASSUME NEW s \in Sessions, Fails(s) \/ Receives(s) \/ Releases(s) PROVE IdInv'
  BY <1>1, <1>3 DEF Fails, Receives, Releases, SamePhase
<1>4. ASSUME NEW s \in Sessions, Connects(s) PROVE IdInv'
  <2>1. /\ id'[s] = <<ids, s>> /\ ids' = ids + 1
        /\ \A x \in Sessions \ {s} : id'[x] = id[x] /\ (Owned(x)' <=> Owned(x))
    BY <1>0, <1>4 DEF Connects
  <2>2. \A n \in Nat : id'[s] = <<n, s>> => n = ids
    BY <2>1
  <2>3. ASSUME NEW x \in Sessions, NEW n \in Nat, id'[x] = <<n, x>> PROVE n < ids'
    BY <1>0, <2>1, <2>2, <2>3 DEF IdInv
  <2>4. ASSUME NEW x \in Sessions, NEW y \in Sessions, NEW n \in Nat,
               id'[x] = <<n, x>>, id'[y] = <<n, y>>
        PROVE  x = y
    <3>1. x # s => n < ids
      BY <2>1, <2>4 DEF IdInv
    <3>2. y # s => n < ids
      BY <2>1, <2>4 DEF IdInv
    <3>3. (x = s => n = ids) /\ (y = s => n = ids)
      BY <2>2, <2>4
    <3>4. x # s /\ y # s => x = y
      BY <2>1, <2>4 DEF IdInv
    <3> QED BY <1>0, <3>1, <3>2, <3>3, <3>4
  <2>5. ASSUME NEW x \in Sessions, Owned(x)' PROVE \E n \in Nat : id'[x] = <<n, x>>
    BY <1>0, <2>1, <2>5 DEF IdInv
  <2> QED BY <2>3, <2>4, <2>5 DEF IdInv
<1> QED BY <1>2, <1>3, <1>4 DEF Effect

LEMMA BudgetStep ==
  ASSUME TypeOK, Budget, Effect
  PROVE  Budget'
<1>0. ids \in Nat /\ conns \in Nat /\ Pending \in Nat /\ MaxConnects \in Nat
      /\ ids + Pending <= conns /\ conns <= MaxConnects
  BY BoundAssumption DEF TypeOK, TypeOwner, Budget
<1>1. CASE Quiet \/ Takes \/ \E s \in Sessions : Fails(s) \/ Receives(s) \/ Releases(s)
  BY <1>0, <1>1 DEF Quiet, Takes, Fails, Receives, Releases, SamePhase, SamePending, Budget
<1>2. CASE Asks
  <2>1. ids' = ids /\ conns' = conns + 1 /\ conns < MaxConnects
        /\ (Pending' = Pending \/ Pending' = Pending + 1)
    BY <1>0, <1>2 DEF Asks, SamePhase, One
  <2>2. ids' \in Nat /\ Pending' \in Nat /\ ids' + Pending' <= conns' /\ conns' <= MaxConnects
    BY <1>0, <2>1
  <2> QED BY <2>2 DEF Budget
<1>3. CASE GivesUp
  BY <1>0, <1>3 DEF GivesUp, SamePhase, Budget
<1>4. CASE \E s \in Sessions : Connects(s)
  BY <1>0, <1>4 DEF Connects, Budget
<1> QED BY <1>1, <1>2, <1>3, <1>4 DEF Effect
-----------------------------------------------------------------------------
(* The simulation *)

Entry(type, h) == [type |-> type, id |-> Number(Job(type, h))]
Entries == {Entry(j.type, j.id) : j \in Jobs}

\* What a Post and a Tail do to the queue of the abstract specification
LEMMA QueueMoves ==
  ASSUME jobs \in Seq(Jobs)
  PROVE  /\ \A type, h : Post(type, h) =>
               Queue' = Append(Queue, Entry(type, h)) /\ Queue' # Queue
         /\ jobs # <<>> /\ jobs' = Tail(jobs) =>
               Queue # <<>> /\ Queue' = Tail(Queue) /\ Queue' # Queue
         /\ UNCHANGED jobs => UNCHANGED Queue
<1>1. /\ Len(jobs) \in Nat /\ DOMAIN jobs = 1 .. Len(jobs)
      /\ \A i \in 1 .. Len(jobs) : jobs[i] \in Jobs
  OBVIOUS
<1>2. ASSUME NEW i \in 1 .. Len(jobs)
      PROVE  [type |-> jobs[i].type, id |-> Number(jobs[i])] \in Entries
  <2>1. jobs[i] \in Jobs /\ Job(jobs[i].type, jobs[i].id) = jobs[i]
    BY <1>1 DEF Jobs, Job
  <2> QED BY <2>1 DEF Entries, Entry
<1>3. Queue = [i \in 1 .. Len(jobs) |-> [type |-> jobs[i].type, id |-> Number(jobs[i])]]
  BY <1>1 DEF Queue
<1>4. Queue \in Seq(Entries) /\ Len(Queue) = Len(jobs)
  BY <1>1, <1>2, <1>3
<1>5. ASSUME NEW type, NEW h, Post(type, h)
      PROVE  Queue' = Append(Queue, Entry(type, h)) /\ Queue' # Queue
  <2>1. /\ DOMAIN jobs' = 1 .. Len(jobs) + 1
        /\ \A i \in 1 .. Len(jobs) : jobs'[i] = jobs[i]
        /\ jobs'[Len(jobs) + 1] = Job(type, h)
    BY <1>1, <1>5 DEF Post
  <2>2. Queue' = [i \in 1 .. Len(jobs) + 1 |-> [type |-> jobs'[i].type, id |-> Number(jobs'[i])]]
    BY <2>1 DEF Queue, Number
  <2>3. [type |-> jobs'[Len(jobs) + 1].type, id |-> Number(jobs'[Len(jobs) + 1])]
          = Entry(type, h)
    BY <2>1 DEF Entry, Job
  <2>4. PICK E : E = Entries \cup {Entry(type, h)}
    OBVIOUS
  <2>5. Queue' = Append(Queue, Entry(type, h))
    <3>1. \A i \in 1 .. Len(jobs) + 1 :
             Queue'[i] = IF i = Len(jobs) + 1 THEN Entry(type, h) ELSE Queue[i]
      BY <1>1, <1>3, <2>1, <2>2, <2>3
    <3>2. Queue \in Seq(E) /\ Entry(type, h) \in E
      BY <1>1, <1>2, <1>3, <2>4
    <3>3. Queue' \in Seq(E) /\ Len(Queue') = Len(Queue) + 1
      <4>1. \A i \in 1 .. Len(jobs) + 1 : Queue'[i] \in E
        BY <1>1, <1>4, <2>4, <3>1
      <4> QED BY <1>1, <1>4, <2>2, <4>1
    <3>4. /\ Append(Queue, Entry(type, h)) \in Seq(E)
          /\ Len(Append(Queue, Entry(type, h))) = Len(Queue) + 1
          /\ \A i \in 1 .. Len(Queue) : Append(Queue, Entry(type, h))[i] = Queue[i]
          /\ Append(Queue, Entry(type, h))[Len(Queue) + 1] = Entry(type, h)
      BY <3>2, AppendProperties
    <3>5. \A i \in 1 .. Len(Queue') : Queue'[i] = Append(Queue, Entry(type, h))[i]
      BY <1>1, <1>4, <3>1, <3>3, <3>4
    <3> QED BY <3>3, <3>4, <3>5, SeqEqual
  <2>6. Len(Append(Queue, Entry(type, h))) = Len(Queue) + 1 /\ Len(Queue) \in Nat
    BY <1>1, <1>4
  <2> QED BY <2>5, <2>6
<1>6. ASSUME jobs # <<>>, jobs' = Tail(jobs)
      PROVE  Queue # <<>> /\ Queue' = Tail(Queue) /\ Queue' # Queue
  <2>1. Len(jobs) > 0 /\ Queue # <<>>
    BY <1>1, <1>4, <1>6
  <2>2. /\ DOMAIN jobs' = 1 .. Len(jobs) - 1
        /\ \A i \in 1 .. Len(jobs) - 1 : jobs'[i] = jobs[i + 1]
    BY <1>1, <1>6, <2>1
  <2>3. Queue' = [i \in 1 .. Len(jobs) - 1 |-> [type |-> jobs'[i].type, id |-> Number(jobs'[i])]]
    BY <2>2 DEF Queue, Number
  <2>4. /\ Tail(Queue) \in Seq(Entries) /\ Len(Tail(Queue)) = Len(Queue) - 1
        /\ \A i \in 1 .. Len(Queue) - 1 : Tail(Queue)[i] = Queue[i + 1]
    BY <1>4, <2>1, HeadTailProperties
  <2>5. \A i \in 1 .. Len(jobs) - 1 : Queue'[i] = Queue[i + 1]
    BY <1>1, <1>3, <2>2, <2>3
  <2>6. Queue' = Tail(Queue)
    <3>1. Queue' \in Seq(Entries) /\ Len(Queue') = Len(Queue) - 1
      <4>1. \A i \in 1 .. Len(jobs) - 1 : Queue'[i] \in Entries
        BY <1>1, <1>4, <2>5
      <4> QED BY <1>1, <1>4, <2>1, <2>3, <4>1
    <3> QED BY <1>1, <1>4, <2>4, <2>5, <3>1, SeqEqual
  <2>7. Len(Tail(Queue)) # Len(Queue)
    BY <1>1, <1>4, <2>4
  <2> QED BY <2>1, <2>6, <2>7
<1>7. UNCHANGED jobs => UNCHANGED Queue
  BY DEF Queue, Number
<1> QED BY <1>5, <1>6, <1>7

Upped(n) == \E s \in Sessions : id[s] = <<n, s>> /\ Owned(s)

\* The phase of an id changes with whose its slot is.
LEMMA PhaseOf ==
  ASSUME ids \in Nat, MaxConnects \in Nat
  PROVE  /\ DOMAIN Phase = 0 .. MaxConnects - 1
         /\ \A n \in 0 .. MaxConnects - 1 :
               Phase[n] = IF n >= ids THEN "new" ELSE IF Upped(n) THEN "up" ELSE "gone"
BY DEF Phase, Upped

LEMMA PhaseStays ==
  ASSUME SamePhase, ids \in Nat, MaxConnects \in Nat
  PROVE  UNCHANGED Phase
<1>1. ids' \in Nat /\ ids' = ids
  BY DEF SamePhase
<1>2. /\ DOMAIN Phase' = 0 .. MaxConnects - 1
      /\ \A n \in 0 .. MaxConnects - 1 :
            Phase'[n] = IF n >= ids THEN "new" ELSE IF Upped(n)' THEN "up" ELSE "gone"
  BY <1>1 DEF Phase, Upped
<1>3. \A n : Upped(n)' <=> Upped(n)
  BY DEF Upped, SamePhase
<1> QED BY <1>1, <1>2, <1>3, PhaseOf DEF Phase

LEMMA PhaseConnects ==
  ASSUME EventInv, TypeOK, NEW s \in Sessions, Connects(s)
  PROVE  /\ ids \in 0 .. MaxConnects - 1 /\ Phase[ids] = "new"
         /\ Phase' = [Phase EXCEPT ![ids] = "up"]
<1>0. ids \in Nat /\ Pending \in Nat /\ conns \in Nat /\ MaxConnects \in Nat /\ Pending > 0
      /\ ids + Pending <= conns /\ conns <= MaxConnects
      /\ id \in [Sessions -> Handles \cup {NoId}]
  BY BoundAssumption DEF EventInv, Budget, Connects, TypeOK, TypeOwner, TypeSession
<1>1. ids \in 0 .. MaxConnects - 1 /\ Phase[ids] = "new"
  <2>1. ids \in 0 .. MaxConnects - 1 /\ ids >= ids
    BY <1>0
  <2> QED BY <1>0, <2>1, PhaseOf
<1>2. /\ ids' = ids + 1 /\ id'[s] = <<ids, s>> /\ Owned(s)' /\ ~Owned(s)
      /\ \A x \in Sessions \ {s} : id'[x] = id[x] /\ (Owned(x)' <=> Owned(x))
  BY <1>0 DEF Connects
<1>3. /\ DOMAIN Phase' = 0 .. MaxConnects - 1
      /\ \A n \in 0 .. MaxConnects - 1 :
            Phase'[n] = IF n >= ids + 1 THEN "new" ELSE IF Upped(n)' THEN "up" ELSE "gone"
  BY <1>0, <1>2 DEF Phase, Upped
<1> PICK i \in Nat : i = ids
  BY <1>0
<1>4. Upped(i)'
  BY <1>2 DEF Upped
<1>5. ASSUME NEW n \in 0 .. MaxConnects - 1, n # ids PROVE Upped(n)' <=> Upped(n)
  <2>1. id'[s] # <<n, s>>
    BY <1>2, <1>5
  <2> QED BY <1>2, <2>1 DEF Upped
<1>6. ASSUME NEW n \in 0 .. MaxConnects - 1
      PROVE  Phase'[n] = IF n = ids THEN "up" ELSE Phase[n]
  <2>1. CASE n = ids
    <3>1. ~(n >= ids + 1) /\ n = i
      BY <1>0, <2>1
    <3> QED BY <1>3, <1>4, <2>1, <3>1
  <2>2. CASE n # ids
    <3>1. n >= ids + 1 <=> n >= ids
      BY <1>0, <2>2
    <3>2. Phase[n] = IF n >= ids THEN "new" ELSE IF Upped(n) THEN "up" ELSE "gone"
      BY <1>0, PhaseOf
    <3> QED BY <1>3, <1>5, <2>2, <3>1, <3>2
  <2> QED BY <2>1, <2>2
<1>7. /\ Phase = [n \in 0 .. MaxConnects - 1 |-> Phase[n]]
      /\ Phase' = [n \in 0 .. MaxConnects - 1 |-> Phase'[n]]
  BY DEF Phase
<1> QED BY <1>1, <1>6, <1>7

LEMMA PhaseReleases ==
  ASSUME EventInv, TypeOK, NEW s \in Sessions, Releases(s)
  PROVE  \E n \in 0 .. MaxConnects - 1 :
            id[s] = <<n, s>> /\ Phase[n] = "up" /\ Phase' = [Phase EXCEPT ![n] = "gone"]
<1>0. ids \in Nat /\ Pending \in Nat /\ conns \in Nat /\ MaxConnects \in Nat
      /\ ids + Pending <= conns /\ conns <= MaxConnects
  BY BoundAssumption DEF EventInv, Budget, TypeOK, TypeOwner
<1>1. /\ ids' = ids /\ id' = id /\ Owned(s) /\ ~Owned(s)'
      /\ \A x \in Sessions \ {s} : Owned(x)' <=> Owned(x)
  BY DEF Releases
<1>2. PICK n \in Nat : id[s] = <<n, s>>
  BY <1>1 DEF EventInv, IdInv
<1>3. n < ids /\ n \in 0 .. MaxConnects - 1
  <2>1. n < ids
    BY <1>2 DEF EventInv, IdInv
  <2> QED BY <1>0, <2>1
<1>4. Upped(n) /\ ~Upped(n)'
  <2>1. ASSUME NEW x \in Sessions, id[x] = <<n, x>> PROVE x = s
    BY <1>2, <2>1 DEF EventInv, IdInv
  <2> QED BY <1>1, <1>2, <2>1 DEF Upped
<1>5. ASSUME NEW m \in 0 .. MaxConnects - 1, m # n PROVE Upped(m)' <=> Upped(m)
  <2>1. id[s] # <<m, s>>
    BY <1>2, <1>5
  <2> QED BY <1>1, <2>1 DEF Upped
<1>6. \A m \in 0 .. MaxConnects - 1 :
         /\ Phase[m] = IF m >= ids THEN "new" ELSE IF Upped(m) THEN "up" ELSE "gone"
         /\ Phase'[m] = IF m >= ids THEN "new" ELSE IF Upped(m)' THEN "up" ELSE "gone"
  BY <1>0, <1>1 DEF Phase, Upped
<1>7. Phase[n] = "up" /\ Phase'[n] = "gone"
  <2>1. ~(n >= ids)
    BY <1>0, <1>3
  <2> QED BY <1>3, <1>4, <1>6, <2>1
<1>8. \A m \in 0 .. MaxConnects - 1 : Phase'[m] = IF m = n THEN "gone" ELSE Phase[m]
  BY <1>5, <1>6, <1>7
<1>9. /\ Phase = [m \in 0 .. MaxConnects - 1 |-> Phase[m]]
      /\ Phase' = [m \in 0 .. MaxConnects - 1 |-> Phase'[m]]
  BY DEF Phase
<1> QED BY <1>2, <1>3, <1>7, <1>8, <1>9

\* Who receives is the connection of its id.
LEMMA ReceiverUp ==
  ASSUME EventInv, TypeOK, NEW s \in Sessions, Owned(s)
  PROVE  \E n \in 0 .. MaxConnects - 1 : id[s] = <<n, s>> /\ Phase[n] = "up"
<1>0. ids \in Nat /\ Pending \in Nat /\ conns \in Nat /\ MaxConnects \in Nat
      /\ ids + Pending <= conns /\ conns <= MaxConnects
  BY BoundAssumption DEF EventInv, Budget, TypeOK, TypeOwner
<1>1. PICK n \in Nat : id[s] = <<n, s>>
  BY DEF EventInv, IdInv
<1>2. n < ids
  BY <1>1 DEF EventInv, IdInv
<1>3. n \in 0 .. MaxConnects - 1 /\ ~(n >= ids)
  BY <1>0, <1>2
<1>4. Upped(n)
  BY <1>1 DEF Upped
<1> QED BY <1>0, <1>1, <1>3, <1>4, PhaseOf

\* Every step is one of the abstract specification, or none.
LEMMA EventStep ==
  EventInv /\ TypeOK /\ Effect => Events!Next \/ UNCHANGED <<Phase, Pending, Queue>>
<1> SUFFICES ASSUME EventInv, TypeOK, Effect
             PROVE  Events!Next \/ UNCHANGED <<Phase, Pending, Queue>>
  OBVIOUS
<1>0. jobs \in Seq(Jobs) /\ ids \in Nat /\ MaxConnects \in Nat
  BY BoundAssumption DEF TypeOK, TypeOwner
<1>a. /\ \A type, h : Post(type, h) => Queue' = Append(Queue, Entry(type, h)) /\ Queue' # Queue
      /\ jobs # <<>> /\ jobs' = Tail(jobs) =>
            Queue # <<>> /\ Queue' = Tail(Queue) /\ Queue' # Queue
      /\ UNCHANGED jobs => UNCHANGED Queue
  BY <1>0, QueueMoves
<1>b. SamePhase => UNCHANGED Phase
  BY <1>0, PhaseStays
<1>1. CASE Quiet
  BY <1>1, <1>a, <1>b DEF Quiet, SamePending
<1>2. CASE Takes
  <2>1. Events!TakeEvent
    BY <1>2, <1>a, <1>b DEF Takes, SamePending, Events!TakeEvent
  <2> QED BY <1>2, <1>a, <2>1 DEF Takes, Events!Next
<1>3. CASE Asks
  <2>1. UNCHANGED <<Phase, Queue>> /\ (Pending' = Pending + 1 \/ Pending' = Pending)
    BY <1>3, <1>a, <1>b DEF Asks, One
  <2> QED BY <2>1 DEF Events!Next, Events!Ask
<1>4. CASE GivesUp
  <2>1. Entry("ALL_RECONNECT_FAIL", NoId) = Events!Event("ALL_RECONNECT_FAIL", Events!NoOne)
    BY DEF Entry, Number, Job, Events!Event, Events!NoOne
  <2>2. Events!GivenUp /\ Queue' # Queue
    BY <1>4, <1>a, <1>b, <2>1 DEF GivesUp, Events!GivenUp, Events!Tell
  <2> QED BY <2>2 DEF Events!Next
<1>5. ASSUME NEW s \in Sessions, Fails(s) PROVE Events!Next
  <2>1. Entry("CONNECT_FAIL", id[s]) = Events!Event("CONNECT_FAIL", Events!NoOne)
    BY DEF Entry, Number, Job, Events!Event, Events!NoOne
  <2>2. Events!Attempt /\ Queue' # Queue
    BY <1>5, <1>a, <1>b, <2>1 DEF Fails, SamePending, Events!Attempt, Events!Tell
  <2> QED BY <2>2 DEF Events!Next
<1>6. ASSUME NEW s \in Sessions, Receives(s) PROVE Events!Next
  <2>1. PICK n \in 0 .. MaxConnects - 1 : id[s] = <<n, s>> /\ Phase[n] = "up"
    BY <1>6, ReceiverUp DEF Receives
  <2>2. Entry("RECV_MESSAGE", id[s]) = Events!Event("RECV_MESSAGE", n)
    BY <2>1 DEF Entry, Number, Job, Events!Event
  <2>3. Events!Message(n) /\ Queue' # Queue
    BY <1>6, <1>a, <1>b, <2>1, <2>2 DEF Receives, SamePending, Events!Message, Events!Tell
  <2> QED BY <2>3 DEF Events!Next
<1>7. ASSUME NEW s \in Sessions, Connects(s) PROVE Events!Next
  <2>1. /\ ids \in 0 .. MaxConnects - 1 /\ Phase[ids] = "new"
        /\ Phase' = [Phase EXCEPT ![ids] = "up"]
    BY <1>7, PhaseConnects
  <2>2. Entry("CONNECT_SUCCESS", <<ids, s>>) = Events!Event("CONNECT_SUCCESS", ids)
    BY DEF Entry, Number, Job, Events!Event
  <2>3. Events!Connected(ids) /\ Queue' # Queue
    BY <1>7, <1>a, <2>1, <2>2 DEF Connects, Events!Connected, Events!Tell
  <2> QED BY <2>1, <2>3 DEF Events!Next
<1>8. ASSUME NEW s \in Sessions, Releases(s) PROVE Events!Next
  <2>1. PICK n \in 0 .. MaxConnects - 1 :
           id[s] = <<n, s>> /\ Phase[n] = "up" /\ Phase' = [Phase EXCEPT ![n] = "gone"]
    BY <1>8, PhaseReleases
  <2>2. Entry("ON_RELEASE", id[s]) = Events!Event("ON_RELEASE", n)
    BY <2>1 DEF Entry, Number, Job, Events!Event
  <2>3. Events!Released(n) /\ Queue' # Queue
    BY <1>8, <1>a, <2>1, <2>2 DEF Releases, SamePending, Events!Released, Events!Tell
  <2> QED BY <2>3 DEF Events!Next
<1> QED BY <1>1, <1>2, <1>3, <1>4, <1>5, <1>6, <1>7, <1>8 DEF Effect

LEMMA EventInit == Init => EventInv /\ Events!Init
<1> SUFFICES ASSUME Init PROVE EventInv /\ Events!Init
  OBVIOUS
<1>1. SlotInv /\ RecvOnce
  <2>1. Init => SlotInv /\ RecvOnce
    <3>1. \A s \in Sessions : Recvs(s) = 0 /\ Receivers(s) = {}
      BY DEF Init, Recvs, IoKinds, Receivers, HasRecv, RecvLabels
    <3> QED BY <3>1, RefInvInit, SlotInit, FS_EmptySet DEF SlotInv, RecvOnce
  <2> QED BY <2>1
<1>2. ASSUME NEW s \in Sessions PROVE ~Owned(s) /\ ~Asked(s) /\ id[s] = NoId
  BY DEF Init, Owned, Live, Someone, OnSlot, Asked
<1>3. IdInv
  <2>1. \A s \in Sessions : \A n \in Nat : id[s] # <<n, s>>
    <3>1. ASSUME NEW n, NEW s PROVE <<>> # <<n, s>>
      <4>1. Len(<<>>) = 0 /\ Len(<<n, s>>) = 2
        OBVIOUS
      <4> QED BY <4>1
    <3> QED BY <1>2, <3>1 DEF NoId
  <2> QED BY <1>2, <2>1 DEF IdInv
<1>4. Pending = 0
  <2>1. {s \in Sessions : Asked(s)} = {} /\ {t \in Threads : pc[t] = "cfNotify"} = {}
    BY <1>2 DEF Init
  <2> QED BY <2>1, FS_EmptySet DEF Pending
<1>5. Budget
  BY <1>4, BoundAssumption DEF Init, Budget
<1>6. Phase = [n \in 0 .. MaxConnects - 1 |-> "new"]
  BY DEF Init, Phase
<1>7. Queue = <<>>
  BY DEF Init, Queue
<1> QED BY <1>1, <1>3, <1>4, <1>5, <1>6, <1>7 DEF EventInv, Events!Init

\* The jobs of one connection reach g_msgQ in order, CONNECT_SUCCESS first and
\* ON_RELEASE last, and every Connect is answered at most once, whatever the workers'
\* interleaving and whatever handles the update thread uses (EventStream).
THEOREM EventsInOrder == Spec => EventStream
<1>1. EventInv /\ [Next]_vars => EventInv'
  <2> SUFFICES ASSUME EventInv, [Next]_vars PROVE EventInv'
    OBVIOUS
  <2>1. (SlotInv /\ RecvOnce)'
    BY RefInvStep, SlotStep, RecvStep DEF EventInv, SlotInv, RefInv
  <2>2. TypeOK /\ TypeOK'
    BY <2>1 DEF EventInv, SlotInv, RefInv
  <2>3. Effect
    BY <2>2, StepEffect DEF EventInv
  <2>4. IdInv' /\ Budget'
    BY <2>2, <2>3, IdStep, BudgetStep DEF EventInv
  <2> QED BY <2>1, <2>4 DEF EventInv
<1>2. EventInv /\ EventInv' /\ [Next]_vars => [Events!Next]_<<Phase, Pending, Queue>>
  <2> SUFFICES ASSUME EventInv, EventInv', [Next]_vars
               PROVE  Events!Next \/ UNCHANGED <<Phase, Pending, Queue>>
    OBVIOUS
  <2>1. TypeOK /\ TypeOK'
    BY DEF EventInv, SlotInv, RefInv
  <2>2. Effect
    BY <2>1, StepEffect DEF EventInv
  <2> QED BY <2>1, <2>2, EventStep
<1> QED BY <1>1, <1>2, EventInit, PTL DEF Spec, EventStream, Events!Spec
=============================================================================
