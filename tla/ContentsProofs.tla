--------------------------- MODULE ContentsProofs ---------------------------
(***************************************************************************)
(* What Contents and ContentsProps state of the players, proved for every  *)
(* number of sessions, players and messages, with and without duplicate    *)
(* logins and timeout tests.                                               *)
(***************************************************************************)
EXTENDS ContentsProps, FiniteSetTheorems, SequenceTheorems, TLAPS

-----------------------------------------------------------------------------
(* Counting *)

One(b) == IF b THEN 1 ELSE 0

\* A set with and without one of its elements
LEMMA CardSplit ==
  ASSUME NEW A, IsFiniteSet(A), NEW x
  PROVE  /\ Cardinality(A) \in Nat /\ Cardinality(A \ {x}) \in Nat
         /\ Cardinality(A) = Cardinality(A \ {x}) + One(x \in A)
<1>1. /\ IsFiniteSet(A \ {x})
      /\ Cardinality(A \ {x}) = IF x \in A THEN Cardinality(A) - 1 ELSE Cardinality(A)
  BY FS_RemoveElement
<1>2. Cardinality(A) \in Nat /\ Cardinality(A \ {x}) \in Nat
  BY <1>1, FS_CardinalityType
<1> QED BY <1>1, <1>2 DEF One

\* Two sets that agree but on x
LEMMA SetMoves ==
  ASSUME NEW A, NEW B, IsFiniteSet(A), IsFiniteSet(B), NEW x, A \ {x} = B \ {x}
  PROVE  /\ Cardinality(A) \in Nat /\ Cardinality(B) \in Nat
         /\ Cardinality(B) = Cardinality(A) + One(x \in B) - One(x \in A)
<1>1. /\ Cardinality(A) \in Nat /\ Cardinality(A \ {x}) \in Nat
      /\ Cardinality(A) = Cardinality(A \ {x}) + One(x \in A)
  BY CardSplit
<1>2. /\ Cardinality(B) \in Nat /\ Cardinality(B) = Cardinality(B \ {x}) + One(x \in B)
  BY CardSplit
<1> QED BY <1>1, <1>2, SMTT(30) DEF One

\* The places of a sequence where it has a member of V
Places(V, q) == {n \in 1 .. Len(q) : q[n] \in V}

\* The places are finitely many, and there are none when V is not in q.
LEMMA PlacesFinite ==
  ASSUME NEW S, NEW q \in Seq(S), NEW V
  PROVE  /\ IsFiniteSet(Places(V, q)) /\ Cardinality(Places(V, q)) \in Nat
         /\ Cardinality(Places(V, q)) = 0 <=> \A n \in 1 .. Len(q) : q[n] \notin V
         /\ DOMAIN q = 1 .. Len(q)
<1>1. DOMAIN q = 1 .. Len(q) /\ Len(q) \in Nat
  OBVIOUS
<1>2. IsFiniteSet(1 .. Len(q))
  BY <1>1, FS_Interval
<1>3. IsFiniteSet(Places(V, q))
  BY <1>2, FS_Subset DEF Places
<1>4. Cardinality(Places(V, q)) = 0 <=> Places(V, q) = {}
  BY <1>3, FS_EmptySet
<1> QED BY <1>1, <1>3, <1>4, FS_CardinalityType DEF Places

\* Places moved by one along the sequence are as many.
LEMMA ShiftedPlaces ==
  ASSUME NEW A, NEW B, IsFiniteSet(A), A \subseteq Int, B \subseteq Int,
         \A i \in A : i + 1 \in B, \A j \in B : j - 1 \in A
  PROVE  IsFiniteSet(B) /\ Cardinality(B) = Cardinality(A)
<1> DEFINE f == [i \in A |-> i + 1]
<1>1. f \in Bijection(A, B)
  <2>1. f \in [A -> B]
    OBVIOUS
  <2>2. \A x, y \in A : f[x] = f[y] => x = y
    OBVIOUS
  <2>3. \A y \in B : f[y - 1] = y
    OBVIOUS
  <2> QED BY <2>1, <2>2, <2>3 DEF Bijection, Injection, Surjection, IsInjective
<1>2. ExistsBijection(A, B)
  BY <1>1 DEF ExistsBijection
<1> QED BY <1>2, FS_Bijection

\* Append: one more of what is added
LEMMA PlacesAppend ==
  ASSUME NEW S, NEW q \in Seq(S), NEW x \in S, NEW V
  PROVE  Cardinality(Places(V, Append(q, x))) = Cardinality(Places(V, q)) + One(x \in V)
<1> DEFINE r == Append(q, x)  n == Len(q) + 1
<1>1. r \in Seq(S) /\ Len(r) = n /\ Len(q) \in Nat /\ r[n] = x
      /\ \A i \in 1 .. Len(q) : r[i] = q[i]
  OBVIOUS
<1>2. IsFiniteSet(Places(V, q)) /\ IsFiniteSet(Places(V, r))
  BY <1>1, PlacesFinite
<1>3. Places(V, r) \ {n} = Places(V, q)
  BY <1>1 DEF Places
<1>4. n \in Places(V, r) <=> x \in V
  BY <1>1 DEF Places
<1>5. Cardinality(Places(V, r)) = Cardinality(Places(V, r) \ {n}) + One(n \in Places(V, r))
  BY <1>2, CardSplit
<1> QED BY <1>2, <1>3, <1>4, <1>5 DEF One

\* Push: one more of what is put in front
LEMMA PlacesPush ==
  ASSUME NEW S, NEW q \in Seq(S), NEW x \in S, NEW V
  PROVE  Cardinality(Places(V, <<x>> \o q)) = Cardinality(Places(V, q)) + One(x \in V)
<1> DEFINE r == <<x>> \o q
<1>1. r \in Seq(S) /\ Len(r) = Len(q) + 1 /\ Len(q) \in Nat /\ r[1] = x
      /\ \A i \in 1 .. Len(q) : r[i + 1] = q[i]
  OBVIOUS
<1>2. IsFiniteSet(Places(V, q)) /\ IsFiniteSet(Places(V, r))
  BY <1>1, PlacesFinite
<1>4. 1 \in Places(V, r) <=> x \in V
  BY <1>1 DEF Places
<1>5. Cardinality(Places(V, r)) = Cardinality(Places(V, r) \ {1}) + One(1 \in Places(V, r))
  BY <1>2, CardSplit
<1>6. Cardinality(Places(V, r) \ {1}) = Cardinality(Places(V, q))
  <2>1. /\ Places(V, q) \subseteq Int /\ Places(V, r) \ {1} \subseteq Int
        /\ \A i \in Places(V, q) : i + 1 \in Places(V, r) \ {1}
    BY <1>1 DEF Places
  <2>2. ASSUME NEW j \in Places(V, r) \ {1} PROVE j - 1 \in Places(V, q)
    <3>1. j - 1 \in 1 .. Len(q) /\ r[(j - 1) + 1] \in V
      BY <1>1 DEF Places
    <3> QED BY <1>1, <3>1 DEF Places
  <2> QED BY <1>2, <2>1, <2>2, ShiftedPlaces
<1> QED BY <1>2, <1>4, <1>5, <1>6 DEF One

\* Tail: one less of what was in front
LEMMA PlacesTail ==
  ASSUME NEW S, NEW q \in Seq(S), q # <<>>, NEW V
  PROVE  Cardinality(Places(V, q)) = Cardinality(Places(V, Tail(q))) + One(Head(q) \in V)
<1>1. Tail(q) \in Seq(S) /\ Head(q) \in S /\ q = <<Head(q)>> \o Tail(q)
  OBVIOUS
<1>2. Cardinality(Places(V, <<Head(q)>> \o Tail(q)))
      = Cardinality(Places(V, Tail(q))) + One(Head(q) \in V)
  BY <1>1, PlacesPush
<1> QED BY <1>1, <1>2
-----------------------------------------------------------------------------
(* A client's jobs in g_msgQ *)

Phases == {"new", "up", "gone"}
OfOne == {"CONNECT_SUCCESS", "RECV_MESSAGE", "ON_RELEASE"}
Answers == {"CONNECT_SUCCESS", "ALL_RECONNECT_FAIL"}
Jobs == [type : OfOne \cup Answers \cup {"CONNECT_FAIL"}, id : Ids \cup {NoPlayer}]

\* A job of this type and id is in the queue.
Has(q, type, i) == \E n \in 1 .. Len(q) : q[n].type = type /\ q[n].id = i

\* The jobs of one id are CONNECT_SUCCESS, messages and ON_RELEASE in this order,
\* as far as its phase has got and Update has not taken them.
QueueOk(phase, q) ==
    /\ phase \in [Ids -> Phases] /\ q \in Seq(Jobs)
    /\ \A n \in 1 .. Len(q) : q[n].type \in OfOne =>
          /\ q[n].id \in Ids /\ phase[q[n].id] # "new"
          /\ q[n].type = "ON_RELEASE" => phase[q[n].id] = "gone"
          /\ phase[q[n].id] = "gone" => Has(q, "ON_RELEASE", q[n].id)
    /\ \A m, n \in 1 .. Len(q) :
          q[m].type \in OfOne /\ q[m].id = q[n].id =>
             /\ q[n].type = "CONNECT_SUCCESS" => n <= m
             /\ q[n].type = "ON_RELEASE" => m <= n

\* Update has seen this id's CONNECT_SUCCESS, and not its ON_RELEASE.
Arrived(phase, q, i) == phase[i] # "new" /\ ~Has(q, "CONNECT_SUCCESS", i)
Known(phase, q, i) ==
    Arrived(phase, q, i) /\ (phase[i] = "up" \/ Has(q, "ON_RELEASE", i))

\* What the first job says of its id
LEMMA FirstJob ==
  ASSUME NEW phase, NEW q, QueueOk(phase, q), q # <<>>, Head(q).type \in OfOne
  PROVE  /\ Head(q).id \in Ids /\ phase[Head(q).id] # "new"
         /\ Head(q).type = "CONNECT_SUCCESS" => ~Arrived(phase, q, Head(q).id)
         /\ Head(q).type # "CONNECT_SUCCESS" => Known(phase, q, Head(q).id)
         /\ Head(q).type = "ON_RELEASE" =>
               /\ phase[Head(q).id] = "gone"
               /\ \A n \in 1 .. Len(q) :
                     q[n].type \in OfOne /\ q[n].id = Head(q).id => n = 1
<1>1. q \in Seq(Jobs) /\ Len(q) \in Nat /\ Len(q) >= 1 /\ Head(q) = q[1] /\ 1 \in 1 .. Len(q)
  BY DEF QueueOk
<1>2. q[1].id \in Ids /\ phase[q[1].id] # "new" /\ phase[q[1].id] \in Phases
  BY <1>1 DEF QueueOk
<1>3. q[1].type = "CONNECT_SUCCESS" => Has(q, "CONNECT_SUCCESS", q[1].id)
  BY <1>1 DEF Has
<1>4. ASSUME q[1].type # "CONNECT_SUCCESS" PROVE ~Has(q, "CONNECT_SUCCESS", q[1].id)
  <2> SUFFICES ASSUME NEW n \in 1 .. Len(q),
                      q[n].type = "CONNECT_SUCCESS", q[n].id = q[1].id
               PROVE  FALSE
    BY DEF Has
  <2>1. n <= 1
    BY <1>1 DEF QueueOk
  <2>2. n = 1
    BY <1>1, <2>1
  <2> QED BY <1>4, <2>2
<1>5. phase[q[1].id] = "gone" => Has(q, "ON_RELEASE", q[1].id)
  BY <1>1 DEF QueueOk
<1>6. q[1].type = "ON_RELEASE" => phase[q[1].id] = "gone"
  BY <1>1 DEF QueueOk, OfOne
<1>7. ASSUME q[1].type = "ON_RELEASE", NEW n \in 1 .. Len(q),
             q[n].type \in OfOne, q[n].id = q[1].id
      PROVE  n = 1
  <2>1. n <= 1
    BY <1>1, <1>7 DEF QueueOk
  <2> QED BY <1>1, <2>1
<1> QED BY <1>1, <1>2, <1>3, <1>4, <1>5, <1>6, <1>7 DEF Arrived, Known, Phases

\* What Tail leaves
LEMMA HasInTail ==
  ASSUME NEW q, q \in Seq(Jobs), q # <<>>, NEW type, NEW i
  PROVE  /\ Has(Tail(q), type, i) => Has(q, type, i)
         /\ Has(q, type, i) => \/ Has(Tail(q), type, i)
                               \/ Head(q).type = type /\ Head(q).id = i
<1>1. /\ Len(q) \in Nat /\ Head(q) = q[1] /\ Len(Tail(q)) = Len(q) - 1
      /\ \A n \in 1 .. Len(q) - 1 : Tail(q)[n] = q[n + 1]
  BY HeadTailProperties
<1>2. ASSUME NEW n \in 1 .. Len(Tail(q)), Tail(q)[n].type = type, Tail(q)[n].id = i
      PROVE  Has(q, type, i)
  <2>1. n + 1 \in 1 .. Len(q) /\ Tail(q)[n] = q[n + 1]
    BY <1>1
  <2> QED BY <1>2, <2>1 DEF Has
<1>3. ASSUME NEW n \in 1 .. Len(q), n # 1, q[n].type = type, q[n].id = i
      PROVE  Has(Tail(q), type, i)
  <2>1. n - 1 \in 1 .. Len(Tail(q)) /\ Tail(q)[n - 1] = q[(n - 1) + 1]
    BY <1>1, <1>3
  <2>2. (n - 1) + 1 = n
    BY <1>1
  <2> QED BY <1>3, <2>1, <2>2 DEF Has
<1> QED BY <1>1, <1>2, <1>3 DEF Has

\* Update takes a job.
LEMMA TakeJob ==
  ASSUME NEW phase, NEW q, QueueOk(phase, q), q # <<>>
  PROVE  /\ QueueOk(phase, Tail(q))
         /\ \A i \in Ids : Arrived(phase, Tail(q), i)
              <=> \/ Arrived(phase, q, i)
                  \/ Head(q).type = "CONNECT_SUCCESS" /\ Head(q).id = i
         /\ \A i \in Ids : Known(phase, Tail(q), i)
              <=> \/ Known(phase, q, i) /\ ~(Head(q).type = "ON_RELEASE" /\ Head(q).id = i)
                  \/ Head(q).type = "CONNECT_SUCCESS" /\ Head(q).id = i
<1> DEFINE r == Tail(q)
<1>1. /\ q \in Seq(Jobs) /\ r \in Seq(Jobs) /\ Len(q) \in Nat /\ Len(q) >= 1 /\ Head(q) = q[1]
      /\ Len(r) = Len(q) - 1 /\ \A n \in 1 .. Len(r) : r[n] = q[n + 1] /\ n + 1 \in 1 .. Len(q)
  <2>1. q \in Seq(Jobs)
    BY DEF QueueOk
  <2> QED BY <2>1, HeadTailProperties
<1>2. ASSUME NEW type, NEW i
      PROVE  /\ Has(r, type, i) => Has(q, type, i)
             /\ Has(q, type, i) => \/ Has(r, type, i)
                                   \/ Head(q).type = type /\ Head(q).id = i
  BY <1>1, HasInTail
<1>3. ASSUME NEW type \in {"CONNECT_SUCCESS", "ON_RELEASE"}, NEW i,
             Head(q).type = type, Head(q).id = i
      PROVE  ~Has(r, type, i)
  <2> SUFFICES ASSUME NEW n \in 1 .. Len(r), r[n].type = type, r[n].id = i
               PROVE  FALSE
    BY DEF Has
  <2>1. n + 1 \in 1 .. Len(q) /\ r[n] = q[n + 1]
    BY <1>1
  <2>2. q[n + 1].type = type /\ q[n + 1].id = q[1].id /\ q[1].type = type /\ type \in OfOne
    BY <1>1, <1>3, <2>1 DEF OfOne
  <2>3. n + 1 <= 1
    BY <1>1, <2>1, <2>2 DEF QueueOk
  <2> QED BY <1>1, <2>3
<1>4. QueueOk(phase, r)
  <2>1. phase \in [Ids -> Phases] /\ r \in Seq(Jobs)
    BY <1>1 DEF QueueOk
  <2>2. ASSUME NEW n \in 1 .. Len(r), r[n].type \in OfOne
        PROVE  /\ r[n].id \in Ids /\ phase[r[n].id] # "new"
               /\ r[n].type = "ON_RELEASE" => phase[r[n].id] = "gone"
               /\ phase[r[n].id] = "gone" => Has(r, "ON_RELEASE", r[n].id)
    <3> DEFINE k == n + 1
    <3>1. k \in 1 .. Len(q) /\ k # 1 /\ r[n] = q[k]
      BY <1>1
    <3> HIDE DEF k
    <3>2. /\ q[k].id \in Ids /\ phase[q[k].id] # "new"
          /\ q[k].type = "ON_RELEASE" => phase[q[k].id] = "gone"
          /\ phase[q[k].id] = "gone" => Has(q, "ON_RELEASE", q[k].id)
      BY <2>2, <3>1 DEF QueueOk
    <3>3. ~(q[1].type = "ON_RELEASE" /\ q[1].id = q[k].id)
      <4>1. SUFFICES ASSUME q[1].type = "ON_RELEASE", q[1].id = q[k].id PROVE FALSE
        OBVIOUS
      <4>2. k <= 1
        BY <1>1, <2>2, <3>1, <4>1 DEF QueueOk
      <4> QED BY <3>1, <4>2
    <3> QED BY <1>1, <1>2, <3>1, <3>2, <3>3
  <2>3. ASSUME NEW m \in 1 .. Len(r), NEW n \in 1 .. Len(r),
               r[m].type \in OfOne, r[m].id = r[n].id
        PROVE  /\ r[n].type = "CONNECT_SUCCESS" => n <= m
               /\ r[n].type = "ON_RELEASE" => m <= n
    <3> DEFINE k == m + 1  l == n + 1
    <3>1. k \in 1 .. Len(q) /\ r[m] = q[k] /\ l \in 1 .. Len(q) /\ r[n] = q[l]
      BY <1>1
    <3>2. (l <= k <=> n <= m) /\ (k <= l <=> m <= n)
      OBVIOUS
    <3> HIDE DEF k, l
    <3>3. /\ q[l].type = "CONNECT_SUCCESS" => l <= k
          /\ q[l].type = "ON_RELEASE" => k <= l
      BY <2>3, <3>1 DEF QueueOk
    <3> QED BY <3>1, <3>2, <3>3
  <2> QED BY <2>1, <2>2, <2>3 DEF QueueOk
<1> HIDE DEF r
<1>5. Head(q).type = "CONNECT_SUCCESS" =>
          /\ Head(q).id \in Ids /\ phase[Head(q).id] # "new"
          /\ Head(q).id \in Ids => (phase[Head(q).id] = "up" \/ phase[Head(q).id] = "gone")
          /\ phase[Head(q).id] = "gone" => Has(q, "ON_RELEASE", Head(q).id)
  <2>1. 1 \in 1 .. Len(q)
    BY <1>1
  <2> QED BY <1>1, <2>1 DEF QueueOk, OfOne, Phases
<1>6. ASSUME NEW i \in Ids
      PROVE  Arrived(phase, r, i) <=> \/ Arrived(phase, q, i)
                                      \/ Head(q).type = "CONNECT_SUCCESS" /\ Head(q).id = i
  BY <1>2, <1>3, <1>5 DEF Arrived
<1>7. ASSUME NEW i \in Ids
      PROVE  Known(phase, r, i)
              <=> \/ Known(phase, q, i) /\ ~(Head(q).type = "ON_RELEASE" /\ Head(q).id = i)
                  \/ Head(q).type = "CONNECT_SUCCESS" /\ Head(q).id = i
  <2>1. Has(r, "ON_RELEASE", i) <=> /\ Has(q, "ON_RELEASE", i)
                                    /\ ~(Head(q).type = "ON_RELEASE" /\ Head(q).id = i)
    BY <1>2, <1>3
  <2>2. Head(q).type = "ON_RELEASE" /\ Head(q).id = i => phase[i] = "gone"
    BY FirstJob DEF OfOne
  <2> QED BY <1>5, <1>6, <2>1, <2>2 DEF Known
<1> QED BY <1>4, <1>6, <1>7 DEF r

\* What Append adds
LEMMA HasAfterAppend ==
  ASSUME NEW q \in Seq(Jobs), NEW e \in Jobs, NEW type, NEW i
  PROVE  Has(Append(q, e), type, i) <=> Has(q, type, i) \/ (e.type = type /\ e.id = i)
<1> DEFINE r == Append(q, e)
<1>1. /\ Len(q) \in Nat /\ Len(r) = Len(q) + 1 /\ r[Len(q) + 1] = e
      /\ \A n \in 1 .. Len(q) : r[n] = q[n]
  BY AppendProperties
<1>2. ASSUME NEW n \in 1 .. Len(r), r[n].type = type, r[n].id = i
      PROVE  Has(q, type, i) \/ (e.type = type /\ e.id = i)
  <2>1. CASE n = Len(q) + 1
    BY <1>1, <1>2, <2>1
  <2>2. CASE n # Len(q) + 1
    <3>1. n \in 1 .. Len(q) /\ r[n] = q[n]
      BY <1>1, <2>2
    <3>2. q[n].type = type /\ q[n].id = i
      BY <1>2, <3>1
    <3>3. Has(q, type, i)
      BY <3>1, <3>2 DEF Has
    <3> QED BY <3>3
  <2> QED BY <2>1, <2>2
<1>3. ASSUME NEW n \in 1 .. Len(q), q[n].type = type, q[n].id = i
      PROVE  Has(r, type, i)
  <2>1. n \in 1 .. Len(r) /\ r[n] = q[n]
    BY <1>1
  <2> QED BY <1>3, <2>1 DEF Has
<1>4. e.type = type /\ e.id = i => Has(r, type, i)
  <2>1. Len(q) + 1 \in 1 .. Len(r)
    BY <1>1
  <2> QED BY <1>1, <2>1 DEF Has
<1> QED BY <1>2, <1>3, <1>4 DEF Has

\* A job that a client in this phase may post, and the phase after it
Posts(phase, after, e) ==
    \/ e.type \notin OfOne /\ after = phase
    \/ e.type = "RECV_MESSAGE" /\ e.id \in Ids /\ phase[e.id] = "up" /\ after = phase
    \/ /\ e.type = "CONNECT_SUCCESS" /\ e.id \in Ids /\ phase[e.id] = "new"
       /\ after = [phase EXCEPT ![e.id] = "up"]
    \/ /\ e.type = "ON_RELEASE" /\ e.id \in Ids /\ phase[e.id] = "up"
       /\ after = [phase EXCEPT ![e.id] = "gone"]

\* A worker posts a job: Update knows no more and no fewer ids.
LEMMA PostJob ==
  ASSUME NEW phase, NEW after, NEW q, NEW e \in Jobs, QueueOk(phase, q), Posts(phase, after, e)
  PROVE  /\ QueueOk(after, Append(q, e))
         /\ \A i \in Ids : Arrived(after, Append(q, e), i) <=> Arrived(phase, q, i)
         /\ \A i \in Ids : Known(after, Append(q, e), i) <=> Known(phase, q, i)
<1> DEFINE r == Append(q, e)  l == Len(q) + 1
<1>1. /\ q \in Seq(Jobs) /\ r \in Seq(Jobs) /\ Len(q) \in Nat /\ Len(r) = l /\ r[l] = e
      /\ \A n \in 1 .. Len(q) : r[n] = q[n]
      /\ \A n \in 1 .. Len(r) : n = l \/ n \in 1 .. Len(q)
  <2>1. q \in Seq(Jobs)
    BY DEF QueueOk
  <2> QED BY <2>1, AppendProperties
<1>2. ASSUME NEW type, NEW i
      PROVE  Has(r, type, i) <=> Has(q, type, i) \/ (e.type = type /\ e.id = i)
  BY <1>1, HasAfterAppend
<1>3. /\ phase \in [Ids -> Phases] /\ after \in [Ids -> Phases]
      /\ \A i \in Ids : i # e.id => after[i] = phase[i]
      /\ e.type \notin OfOne => after = phase
      /\ e.type \in OfOne => e.id \in Ids /\ after[e.id] # "new"
      /\ e.type = "ON_RELEASE" => phase[e.id] = "up" /\ after[e.id] = "gone"
      /\ e.type = "CONNECT_SUCCESS" => phase[e.id] = "new" /\ after[e.id] = "up"
      /\ e.type = "RECV_MESSAGE" => phase[e.id] = "up" /\ after[e.id] = "up"
  <2>1. phase \in [Ids -> Phases]
    BY DEF QueueOk
  <2> QED BY <2>1 DEF Posts, OfOne, Phases
<1>4. \A n \in 1 .. Len(q) : q[n].type \in OfOne =>
          /\ q[n].id \in Ids /\ phase[q[n].id] # "new" /\ after[q[n].id] # "new"
          /\ q[n].type = "ON_RELEASE" => phase[q[n].id] = "gone"
          /\ phase[q[n].id] = "gone" => Has(q, "ON_RELEASE", q[n].id)
  <2> SUFFICES ASSUME NEW n \in 1 .. Len(q), q[n].type \in OfOne
               PROVE  /\ q[n].id \in Ids /\ phase[q[n].id] # "new" /\ after[q[n].id] # "new"
                      /\ q[n].type = "ON_RELEASE" => phase[q[n].id] = "gone"
                      /\ phase[q[n].id] = "gone" => Has(q, "ON_RELEASE", q[n].id)
    OBVIOUS
  <2>1. /\ q[n].id \in Ids /\ phase[q[n].id] # "new"
        /\ q[n].type = "ON_RELEASE" => phase[q[n].id] = "gone"
        /\ phase[q[n].id] = "gone" => Has(q, "ON_RELEASE", q[n].id)
    BY DEF QueueOk
  <2> QED BY <1>3, <2>1 DEF OfOne
<1>5. ASSUME NEW n \in 1 .. Len(r), r[n].type \in OfOne
      PROVE  /\ r[n].id \in Ids /\ after[r[n].id] # "new"
             /\ r[n].type = "ON_RELEASE" => after[r[n].id] = "gone"
             /\ after[r[n].id] = "gone" => Has(r, "ON_RELEASE", r[n].id)
  <2>1. CASE n = l
    <3>1. r[n] = e /\ e.type \in OfOne
      BY <1>1, <1>5, <2>1
    <3> QED BY <1>2, <1>3, <3>1 DEF OfOne
  <2>2. CASE n # l
    <3>1. n \in 1 .. Len(q) /\ r[n] = q[n]
      BY <1>1, <2>2
    <3>2. /\ q[n].id \in Ids /\ phase[q[n].id] # "new" /\ after[q[n].id] # "new"
          /\ q[n].type = "ON_RELEASE" => phase[q[n].id] = "gone"
          /\ phase[q[n].id] = "gone" => Has(q, "ON_RELEASE", q[n].id)
      BY <1>4, <1>5, <3>1
    <3>3. \/ after[q[n].id] = phase[q[n].id]
          \/ q[n].id = e.id /\ e.type = "ON_RELEASE" /\ after[e.id] = "gone"
          \/ q[n].id = e.id /\ phase[e.id] = "new"
      BY <1>3, <3>2 DEF OfOne
    <3>4. Has(r, "ON_RELEASE", q[n].id)
              <=> Has(q, "ON_RELEASE", q[n].id) \/ (e.type = "ON_RELEASE" /\ e.id = q[n].id)
      BY <1>2
    <3>5. q[n].type = "ON_RELEASE" => after[q[n].id] = "gone"
      BY <3>2, <3>3
    <3>6. after[q[n].id] = "gone" => Has(r, "ON_RELEASE", q[n].id)
      BY <3>2, <3>3, <3>4
    <3> QED BY <3>1, <3>2, <3>5, <3>6
  <2> QED BY <2>1, <2>2
<1>6. ASSUME NEW m \in 1 .. Len(r), NEW n \in 1 .. Len(r),
             r[m].type \in OfOne, r[m].id = r[n].id
      PROVE  /\ r[n].type = "CONNECT_SUCCESS" => n <= m
             /\ r[n].type = "ON_RELEASE" => m <= n
  <2>1. CASE m # l /\ n # l
    <3>1. m \in 1 .. Len(q) /\ r[m] = q[m] /\ n \in 1 .. Len(q) /\ r[n] = q[n]
      BY <1>1, <2>1
    <3> QED BY <1>6, <3>1 DEF QueueOk
  <2>2. CASE m = l /\ n # l
    <3>1. n \in 1 .. Len(q) /\ r[n] = q[n] /\ n <= m /\ r[m] = e
      BY <1>1, <2>2
    <3>2. r[n].type = "ON_RELEASE" => phase[e.id] = "gone" /\ phase[e.id] # "new"
      BY <1>4, <1>6, <3>1 DEF OfOne
    <3>3. phase[e.id] # "gone"
      BY <1>3, <1>6, <3>1 DEF OfOne
    <3> QED BY <3>1, <3>2, <3>3
  <2>3. CASE m # l /\ n = l
    <3>1. m \in 1 .. Len(q) /\ r[m] = q[m] /\ m <= n /\ r[n] = e
      BY <1>1, <2>3
    <3>2. phase[e.id] # "new"
      BY <1>4, <1>6, <3>1
    <3> QED BY <1>3, <3>1, <3>2
  <2>4. CASE m = l /\ n = l
    BY <1>1, <2>4
  <2> QED BY <2>1, <2>2, <2>3, <2>4
<1>7. QueueOk(after, r)
  BY <1>1, <1>3, <1>5, <1>6 DEF QueueOk
<1> HIDE DEF r, l
<1>8. ASSUME NEW i \in Ids
      PROVE  /\ Arrived(after, r, i) <=> Arrived(phase, q, i)
             /\ Known(after, r, i) <=> Known(phase, q, i)
  <2>1. i # e.id => after[i] = phase[i]
    BY <1>3
  <2>2. /\ Has(r, "CONNECT_SUCCESS", i)
             <=> Has(q, "CONNECT_SUCCESS", i) \/ (e.type = "CONNECT_SUCCESS" /\ e.id = i)
        /\ Has(r, "ON_RELEASE", i)
             <=> Has(q, "ON_RELEASE", i) \/ (e.type = "ON_RELEASE" /\ e.id = i)
    BY <1>2
  <2>3. CASE i # e.id
    BY <2>1, <2>2, <2>3 DEF Arrived, Known
  <2>6. CASE e.type \notin OfOne
    BY <1>3, <2>2, <2>6 DEF Arrived, Known, OfOne
  <2>4. CASE i = e.id /\ e.type = "CONNECT_SUCCESS"
    BY <1>3, <2>2, <2>4 DEF Arrived, Known, OfOne
  <2>5. CASE i = e.id /\ e.type \in {"RECV_MESSAGE", "ON_RELEASE"}
    BY <1>3, <2>2, <2>5 DEF Arrived, Known, OfOne
  <2> QED BY <2>3, <2>4, <2>5, <2>6 DEF OfOne
<1> QED BY <1>7, <1>8 DEF r
-----------------------------------------------------------------------------
(* The inductive invariant *)

ClientsOk ==
    /\ QueueOk(loginPhase, loginQ) /\ loginPending \in Nat
    /\ QueueOk(chatPhase, chatQ) /\ chatPending \in Nat

LoginArrived(p) == Arrived(loginPhase, loginQ, p)
LoginKnown(p) == Known(loginPhase, loginQ, p)
ChatKnown(c) == Known(chatPhase, chatQ, c)

\* The maps have who is known, under its session.
MapsOk ==
    /\ \A p \in Ids : p \in loginMap <=> LoginKnown(p)
    /\ \A c \in Ids : Holder(c) # NoPlayer <=> ChatKnown(c)
    /\ \A c \in Ids : chatConnect[c] = NoPlayer \/ chatLogin[c] = NoPlayer

Member(p, q) == \E n \in 1 .. Len(q) : q[n] = p
InMap(p, m) == \E c \in Ids : m[c] = p
OneEach(m) == \A c, d \in Ids : m[c] = m[d] /\ m[c] # NoPlayer => c = d
PlayStates == RecvStates \cup SentStates \cup {"CHAT_TRY_DISCONNECT"}

\* A player's state says in which map it is, or in g_moveQ, and it is there once.
PlaceOk(p) ==
    /\ player[p].state \in LoginStates <=> p \in loginMap
    /\ player[p].state = "CHAT_CONNECT_TRY" <=> Member(p, moveQ)
    /\ player[p].state \in ChatConnectStates <=> InMap(p, chatConnect)
    /\ player[p].state \in PlayStates <=> InMap(p, chatLogin)
    /\ p \in Alive => LoginArrived(p) /\ player[p].pInfo \in Accounts
PlacesOk ==
    /\ \A p \in Ids : PlaceOk(p)
    /\ \A m, n \in 1 .. Len(moveQ) : moveQ[m] = moveQ[n] => m = n
    /\ OneEach(chatConnect) /\ OneEach(chatLogin)

\* What a player may be the target of in each state
FieldOk(s, f) ==
    /\ s = "none" => f = {}
    /\ s \in LoginStates \cup {"CHAT_CONNECT_TRY"} => f \subseteq {"DISCONNECT_TARGET"}
    /\ s \in ChatConnectStates =>
          f \in {{}, {"SESSION_TIMEOUT_TARGET"}, {"LOGIN_TIMOUT_TARGET"}}
    /\ s = "CS_CHAT_REQ_LOGIN_SENT" => "SESSION_TIMEOUT_TARGET" \notin f
    /\ s \in PlayStates =>
          /\ f \cap Tests \in {{}, {"DUPLICATE_TARGET"}, {"LOGIN_TIMOUT_TARGET"},
                               {"DISCONNECT_TARGET"}}
          /\ "LOGIN_TIMOUT_TARGET" \in f =>
                s = "CS_CHAT_RES_LOGIN_RECV" /\ f = {"LOGIN_TIMOUT_TARGET"}
FieldsOk == \A p \in Ids : FieldOk(player[p].state, player[p].field)

\* The RECV_MESSAGE jobs of a session, and the state that waits for a reply
Other == "RES_MESSAGE of another"
Message(c) == [type |-> "RECV_MESSAGE", id |-> c]
Heard(c) == Cardinality(Places({Message(c)}, chatQ))
Waiting ==
    [RES_LOGIN |-> "CS_CHAT_REQ_LOGIN_SENT", RES_SECTOR_MOVE |-> "CS_CHAT_REQ_SECTOR_MOVE_SENT",
     RES_MESSAGE |-> "CS_CHAT_REQ_MESSAGE_SENT"]

\* The player of session c waits for this reply.
Awaits(c, reply) ==
    /\ Holder(c) # NoPlayer /\ player[Holder(c)].state = Waiting[reply]
    /\ reply = "RES_MESSAGE" => Registered(c)

\* A reply is owed or in the inbox only while its player waits for it, once, and
\* messages of others come only to who is registered.
ReplyOk(c) ==
    /\ chatOwes[c] # "none" => chatPhase[c] = "up" /\ Awaits(c, chatOwes[c])
    /\ c \in sector => chatPhase[c] = "up" /\ Registered(c)
    /\ \A n \in 1 .. Len(inbox[c]) :
          /\ inbox[c][n] = Other => Registered(c)
          /\ inbox[c][n] # Other => Awaits(c, inbox[c][n]) /\ chatOwes[c] = "none"
    /\ \A m, n \in 1 .. Len(inbox[c]) :
          inbox[c][m] # Other /\ inbox[c][n] # Other => m = n
    /\ Len(inbox[c]) = Heard(c)
RepliesOk == \A c \in Ids : ReplyOk(c)

ContentsInv ==
    /\ TypeOK /\ ClientsOk /\ MapsOk /\ PlacesOk /\ FieldsOk /\ RepliesOk
    /\ SlotsConserved /\ MoveQMatches /\ AccountOnce /\ GaugesExact
-----------------------------------------------------------------------------
(* Maps and g_moveQ *)

\* A map gets a player under a free session.
LEMMA MapPut ==
  ASSUME NEW m \in [Ids -> Ids \cup {NoPlayer}], OneEach(m),
         NEW c \in Ids, m[c] = NoPlayer, NEW p \in Ids, ~InMap(p, m)
  PROVE  /\ OneEach([m EXCEPT ![c] = p])
         /\ \A x \in Ids : InMap(x, [m EXCEPT ![c] = p]) <=> InMap(x, m) \/ x = p
<1> DEFINE k == [m EXCEPT ![c] = p]
<1>1. /\ \A d \in Ids : m[d] # p
      /\ k[c] = p /\ \A d \in Ids \ {c} : k[d] = m[d]
      /\ NoPlayer \notin Ids
  BY DEF InMap, Ids, NoPlayer
<1>2. OneEach(k)
  BY <1>1 DEF OneEach
<1> HIDE DEF k
<1>3. ASSUME NEW x \in Ids PROVE InMap(x, k) <=> (InMap(x, m) \/ x = p)
  <2>1. ASSUME NEW d \in Ids, m[d] = x PROVE InMap(x, k)
    <3>1. d # c
      BY <1>1, <2>1
    <3> QED BY <1>1, <2>1, <3>1 DEF InMap
  <2>2. ASSUME NEW d \in Ids, k[d] = x PROVE InMap(x, m) \/ x = p
    BY <1>1, <2>2 DEF InMap
  <2>3. InMap(p, k)
    BY <1>1 DEF InMap
  <2> QED BY <2>1, <2>2, <2>3 DEF InMap
<1> QED BY <1>2, <1>3 DEF k

\* A session's player leaves a map.
LEMMA MapDrop ==
  ASSUME NEW m \in [Ids -> Ids \cup {NoPlayer}], OneEach(m), NEW c \in Ids, m[c] # NoPlayer
  PROVE  /\ OneEach([m EXCEPT ![c] = NoPlayer])
         /\ \A x \in Ids : InMap(x, [m EXCEPT ![c] = NoPlayer]) <=> InMap(x, m) /\ x # m[c]
<1> DEFINE k == [m EXCEPT ![c] = NoPlayer]
<1>1. /\ k[c] = NoPlayer /\ \A d \in Ids \ {c} : k[d] = m[d]
      /\ \A d \in Ids \ {c} : m[d] # m[c]
      /\ NoPlayer \notin Ids
  BY DEF OneEach, Ids, NoPlayer
<1>2. OneEach(k)
  BY <1>1 DEF OneEach
<1> HIDE DEF k
<1>3. ASSUME NEW x \in Ids PROVE InMap(x, k) <=> (InMap(x, m) /\ x # m[c])
  <2>1. ASSUME NEW d \in Ids, m[d] = x, x # m[c] PROVE InMap(x, k)
    <3>1. d # c
      BY <2>1
    <3> QED BY <1>1, <2>1, <3>1 DEF InMap
  <2>2. ASSUME NEW d \in Ids, k[d] = x PROVE InMap(x, m) /\ x # m[c]
    <3>1. d # c
      BY <1>1, <2>2
    <3> QED BY <1>1, <2>2, <3>1 DEF InMap
  <2> QED BY <2>1, <2>2 DEF InMap
<1> QED BY <1>2, <1>3 DEF k

\* A player joins the end of g_moveQ.
LEMMA MoveIn ==
  ASSUME NEW q \in Seq(Ids), \A m, n \in 1 .. Len(q) : q[m] = q[n] => m = n,
         NEW p \in Ids, ~Member(p, q)
  PROVE  /\ \A m, n \in 1 .. Len(Append(q, p)) : Append(q, p)[m] = Append(q, p)[n] => m = n
         /\ \A x \in Ids : Member(x, Append(q, p)) <=> Member(x, q) \/ x = p
<1> DEFINE r == Append(q, p)  l == Len(q) + 1
<1>1. /\ Len(q) \in Nat /\ Len(r) = l /\ r[l] = p /\ \A n \in 1 .. Len(q) : r[n] = q[n]
      /\ \A n \in 1 .. Len(r) : n = l \/ n \in 1 .. Len(q)
      /\ l \in 1 .. Len(r) /\ \A n \in 1 .. Len(q) : n \in 1 .. Len(r) /\ q[n] # p
  BY AppendProperties DEF Member
<1> HIDE DEF r, l
<1>2. ASSUME NEW m \in 1 .. Len(r), NEW n \in 1 .. Len(r), r[m] = r[n] PROVE m = n
  BY <1>1, <1>2
<1>3. ASSUME NEW x \in Ids PROVE Member(x, r) <=> (Member(x, q) \/ x = p)
  <2>1. ASSUME NEW n \in 1 .. Len(q), q[n] = x PROVE Member(x, r)
    <3>1. n \in 1 .. Len(r) /\ r[n] = x
      BY <1>1, <2>1
    <3> QED BY <3>1 DEF Member
  <2>2. ASSUME NEW n \in 1 .. Len(r), r[n] = x PROVE Member(x, q) \/ x = p
    BY <1>1, <2>2 DEF Member
  <2>3. Member(p, r)
    BY <1>1 DEF Member
  <2> QED BY <2>1, <2>2, <2>3 DEF Member
<1> QED BY <1>2, <1>3 DEF r

\* The player in front leaves g_moveQ.
LEMMA MoveOut ==
  ASSUME NEW q \in Seq(Ids), \A m, n \in 1 .. Len(q) : q[m] = q[n] => m = n, q # <<>>
  PROVE  /\ \A m, n \in 1 .. Len(Tail(q)) : Tail(q)[m] = Tail(q)[n] => m = n
         /\ \A x \in Ids : Member(x, Tail(q)) <=> Member(x, q) /\ x # Head(q)
         /\ Head(q) \in Ids /\ Member(Head(q), q)
<1> DEFINE r == Tail(q)
<1>1. /\ Len(q) \in Nat /\ Len(q) >= 1 /\ Head(q) = q[1] /\ Head(q) \in Ids
      /\ r \in Seq(Ids) /\ Len(r) = Len(q) - 1 /\ \A n \in 1 .. Len(r) : r[n] = q[n + 1]
  BY HeadTailProperties
<1> HIDE DEF r
<1>2. ASSUME NEW m \in 1 .. Len(r), NEW n \in 1 .. Len(r), r[m] = r[n] PROVE m = n
  <2>1. m + 1 \in 1 .. Len(q) /\ n + 1 \in 1 .. Len(q) /\ q[m + 1] = q[n + 1]
    BY <1>1, <1>2
  <2>2. m + 1 = n + 1
    BY <2>1
  <2> QED BY <2>2
<1>3. ASSUME NEW x \in Ids PROVE Member(x, r) <=> (Member(x, q) /\ x # Head(q))
  <2>1. ASSUME NEW n \in 1 .. Len(r), r[n] = x PROVE Member(x, q) /\ x # Head(q)
    <3>1. n + 1 \in 1 .. Len(q) /\ q[n + 1] = x /\ n + 1 # 1 /\ 1 \in 1 .. Len(q)
      BY <1>1, <2>1
    <3>2. q[n + 1] # q[1]
      BY <3>1
    <3> QED BY <1>1, <3>1, <3>2 DEF Member
  <2>2. ASSUME NEW n \in 1 .. Len(q), q[n] = x, x # Head(q) PROVE Member(x, r)
    <3>1. n # 1
      BY <1>1, <2>2
    <3>2. n - 1 \in 1 .. Len(r) /\ (n - 1) + 1 = n
      BY <1>1, <3>1
    <3>3. r[n - 1] = q[n]
      BY <1>1, <3>2
    <3> QED BY <2>2, <3>2, <3>3 DEF Member
  <2> QED BY <2>1, <2>2 DEF Member
<1>4. 1 \in 1 .. Len(q)
  BY <1>1
<1> QED BY <1>1, <1>2, <1>3, <1>4 DEF r, Member
-----------------------------------------------------------------------------
(* Counts of the model *)

\* Jobs and repetitions as places in a sequence
LEMMA JobsCounted ==
  ASSUME NEW q \in Seq(Jobs), NEW types
  PROVE  /\ JobsIn(q, types) \in Nat
         /\ \A e \in Jobs : JobsIn(Append(q, e), types) = JobsIn(q, types) + One(e.type \in types)
         /\ q # <<>> => /\ JobsIn(Tail(q), types) \in Nat
                        /\ JobsIn(q, types)
                           = JobsIn(Tail(q), types) + One(Head(q).type \in types)
<1> DEFINE V == {e \in Jobs : e.type \in types}
<1>1. ASSUME NEW r \in Seq(Jobs)
      PROVE  JobsIn(r, types) = Cardinality(Places(V, r)) /\ JobsIn(r, types) \in Nat
  <2>1. DOMAIN r = 1 .. Len(r) /\ Cardinality(Places(V, r)) \in Nat
    BY PlacesFinite
  <2>2. \A n \in 1 .. Len(r) : r[n] \in Jobs
    BY ElementOfSeq
  <2>3. {n \in DOMAIN r : r[n].type \in types} = Places(V, r)
    BY <2>1, <2>2 DEF Places
  <2> QED BY <2>1, <2>3 DEF JobsIn
<1>2. ASSUME NEW e \in Jobs
      PROVE  JobsIn(Append(q, e), types) = JobsIn(q, types) + One(e.type \in types)
  <2>1. Append(q, e) \in Seq(Jobs)
    BY AppendProperties
  <2>2. Cardinality(Places(V, Append(q, e))) = Cardinality(Places(V, q)) + One(e \in V)
    <3> HIDE DEF V
    <3> QED BY PlacesAppend
  <2>3. e \in V <=> e.type \in types
    OBVIOUS
  <2> QED BY <1>1, <2>1, <2>2, <2>3 DEF One
<1>3. ASSUME q # <<>>
      PROVE  /\ JobsIn(Tail(q), types) \in Nat
             /\ JobsIn(q, types) = JobsIn(Tail(q), types) + One(Head(q).type \in types)
  <2>1. Tail(q) \in Seq(Jobs) /\ Head(q) \in Jobs
    BY <1>3, HeadTailProperties
  <2>2. Cardinality(Places(V, q)) = Cardinality(Places(V, Tail(q))) + One(Head(q) \in V)
    <3> HIDE DEF V
    <3> QED BY <1>3, PlacesTail
  <2>3. Head(q) \in V <=> Head(q).type \in types
    BY <2>1
  <2> QED BY <1>1, <2>1, <2>2, <2>3 DEF One
<1> QED BY <1>1, <1>2, <1>3

\* r has y once more than q, and all else as often.
TimesMore(x, q, r, y) == Times(x, r) = Times(x, q) + One(y = x)

\* How often an account or a player is in a sequence, as it grows and shrinks
LEMMA TimesCounted ==
  ASSUME NEW S, NEW q \in Seq(S), NEW x
  PROVE  /\ Times(x, q) = Cardinality(Places({x}, q)) /\ Times(x, q) \in Nat
         /\ Times(x, q) = 0 <=> ~Member(x, q)
         /\ \A y \in S : TimesMore(x, q, <<y>> \o q, y)
         /\ q # <<>> => Times(x, Tail(q)) \in Nat /\ TimesMore(x, Tail(q), q, Head(q))
<1>1. ASSUME NEW r \in Seq(S)
      PROVE  Times(x, r) = Cardinality(Places({x}, r)) /\ Times(x, r) \in Nat
  <2>1. DOMAIN r = 1 .. Len(r) /\ Cardinality(Places({x}, r)) \in Nat
    BY PlacesFinite
  <2>2. {n \in DOMAIN r : r[n] = x} = Places({x}, r)
    BY <2>1 DEF Places
  <2> QED BY <2>1, <2>2 DEF Times
<1>2. Times(x, q) = 0 <=> ~Member(x, q)
  BY <1>1, PlacesFinite DEF Member
<1>3. ASSUME NEW y \in S PROVE TimesMore(x, q, <<y>> \o q, y)
  <2>1. <<y>> \o q \in Seq(S)
    BY ConcatProperties
  <2>2. Cardinality(Places({x}, <<y>> \o q)) = Cardinality(Places({x}, q)) + One(y \in {x})
    BY PlacesPush
  <2> QED BY <1>1, <2>1, <2>2 DEF One, TimesMore
<1>4. ASSUME q # <<>>
      PROVE  Times(x, Tail(q)) \in Nat /\ TimesMore(x, Tail(q), q, Head(q))
  <2>1. Tail(q) \in Seq(S)
    BY <1>4, HeadTailProperties
  <2>2. Cardinality(Places({x}, q)) = Cardinality(Places({x}, Tail(q))) + One(Head(q) \in {x})
    BY <1>4, PlacesTail
  <2> QED BY <1>1, <2>1, <2>2 DEF One, TimesMore
<1> QED BY <1>1, <1>2, <1>3, <1>4

\* Nothing is in an empty sequence.
LEMMA EmptyTimes == \A x : Times(x, <<>>) = 0
<1> SUFFICES ASSUME NEW x PROVE Times(x, <<>>) = 0
  OBVIOUS
<1>1. <<>> \in Seq({x}) /\ Len(<<>>) = 0
  OBVIOUS
<1>2. Times(x, <<>>) = 0 <=> ~Member(x, <<>>)
  BY <1>1, TimesCounted
<1> QED BY <1>1, <1>2 DEF Member

\* Sets of players are finite.
LEMMA PlayersFinite ==
  /\ IsFiniteSet(Ids) /\ \A A \in SUBSET Ids : IsFiniteSet(A) /\ Cardinality(A) \in Nat
<1>1. IsFiniteSet(Ids)
  BY BoundAssumption, FS_Interval DEF Ids
<1>2. ASSUME NEW A \in SUBSET Ids PROVE IsFiniteSet(A)
  BY <1>1, FS_Subset
<1> QED BY <1>1, <1>2, FS_CardinalityType

\* An account that nobody holds is in g_NonConnectedStack: an id that connects
\* finds it not empty.
LEMMA AccountForLogin ==
  ASSUME TypeOK, ClientsOk, SlotsConserved, AccountOnce,
         loginQ # <<>>, Head(loginQ).type = "CONNECT_SUCCESS"
  PROVE  nonConnected # <<>>
<1> SUFFICES ASSUME nonConnected = <<>> PROVE FALSE
  OBVIOUS
<1> DEFINE holds(a) == {p \in Alive \ Flagged("DUPLICATE_TARGET") : player[p].pInfo = a}
           f == [a \in Accounts |-> CHOOSE p \in holds(a) : TRUE]
<1>1. \A a : holds(a) \in SUBSET Ids /\ Alive \in SUBSET Ids
  BY DEF Alive
<1>2. ASSUME NEW a \in Accounts PROVE \E p : p \in holds(a)
  <2>2. Times(a, nonConnected) = 0
    BY EmptyTimes
  <2>3. Times(a, nonConnected) + Cardinality(holds(a)) = 1
    BY DEF AccountOnce
  <2>4. Cardinality(holds(a)) = 1
    <3> HIDE DEF holds
    <3>1. Cardinality(holds(a)) \in Nat
      BY <1>1, PlayersFinite
    <3> QED BY <2>2, <2>3, <3>1
  <2>5. IsFiniteSet(holds(a))
    BY <1>1, PlayersFinite
  <2> HIDE DEF holds
  <2> QED BY <2>4, <2>5, FS_EmptySet
<1>3. f \in Injection(Accounts, Alive)
  <2>1. \A a \in Accounts : f[a] \in holds(a)
    BY <1>2
  <2>2. \A a \in Accounts : f[a] \in Alive /\ player[f[a]].pInfo = a
    BY <2>1
  <2> QED BY <2>2 DEF Injection, IsInjective
<1> HIDE DEF f, holds
<1>4. Cardinality(Accounts) <= Cardinality(Alive)
  <2>1. IsFiniteSet(Alive)
    BY <1>1, PlayersFinite
  <2> QED BY <1>3, <2>1, FS_Injection
<1>5. Cardinality(Accounts) = MaxSession
  BY SessionAssumption, FS_Interval DEF Accounts
<1>6. /\ JobsIn(loginQ, Answers) \in Nat /\ JobsIn(loginQ, Answers) >= 1
      /\ Cardinality(Alive) \in Nat /\ loginPending \in Nat /\ disconnectedNum \in Nat
  <2>1. loginQ \in Seq(Jobs) /\ loginPending \in Nat
    BY DEF ClientsOk, QueueOk
  <2>2. JobsIn(Tail(loginQ), Answers) \in Nat /\ JobsIn(loginQ, Answers) \in Nat
        /\ JobsIn(loginQ, Answers) = JobsIn(Tail(loginQ), Answers)
                                     + One(Head(loginQ).type \in Answers)
    BY <2>1, JobsCounted
  <2>3. One(Head(loginQ).type \in Answers) = 1
    BY DEF One, Answers
  <2>4. Cardinality(Alive) \in Nat
    BY <1>1, PlayersFinite
  <2>5. disconnectedNum \in Nat
    <3>1. disconnectedNum \in 0 .. MaxSession
      BY DEF TypeOK
    <3> QED BY <3>1, SessionAssumption
  <2> QED BY <2>1, <2>2, <2>3, <2>4, <2>5
<1>7. disconnectedNum + loginPending + JobsIn(loginQ, Answers) + Cardinality(Alive) = MaxSession
  BY DEF SlotsConserved, Answers
<1> QED BY <1>4, <1>5, <1>6, <1>7, SessionAssumption
-----------------------------------------------------------------------------
(* What the steps do, none of them through a __debugbreak *)

Joins(p) ==
    /\ LoginJob("CONNECT_SUCCESS") /\ p = Head(loginQ).id
    /\ p \notin loginMap /\ player[p].state = "none"
    /\ loginMap' = loginMap \cup {p}
    /\ UNCHANGED <<disconnectedNum, moveQ, chatConnect, chatLogin, cut, chatNet, broken>>

TakesAccount(p) ==
    /\ Joins(p) /\ nonConnected # <<>>
    /\ player' = [player EXCEPT
            ![p] = NewPlayer("LOGIN_CONNECT_SUCCESS", Head(nonConnected), FALSE)]
    /\ nonConnected' = Tail(nonConnected)
    /\ UNCHANGED gauge

TakesOver(p, v) ==
    /\ Joins(p)
    /\ player[v].state \in PlayStates /\ player[v].field \cap Tests = {}
    /\ player' = [player EXCEPT
            ![v].field = @ \cup {"DUPLICATE_TARGET"},
            ![p] = NewPlayer("LOGIN_CONNECT_SUCCESS", player[v].pInfo, TRUE)]
    /\ Bump("duplicate", 1)
    /\ UNCHANGED nonConnected

LoggedIn(p) ==
    /\ LoginJob("RECV_MESSAGE") /\ p \in loginMap
    /\ player' = [player EXCEPT ![p].state = "LOGIN_TRY_DISCONNECT",
                                ![p].field = @ \cup {"DISCONNECT_TARGET"}]
    /\ cut' = cut \cup {<<"login", p>>}
    /\ UNCHANGED <<slots, gauge, maps, chatNet, broken>>

MovesOn(p) ==
    /\ LoginJob("ON_RELEASE") /\ p = Head(loginQ).id /\ p \in loginMap
    /\ player' = [player EXCEPT ![p].state = "CHAT_CONNECT_TRY"]
    /\ moveQ' = Append(moveQ, p) /\ loginMap' = loginMap \ {p}
    /\ Chat!Ask
    /\ UNCHANGED <<slots, gauge, chatConnect, chatLogin, cut, broken>>

FailsLogin(p) ==
    /\ LoginJob("ON_RELEASE") /\ p = Head(loginQ).id /\ p \in loginMap
    /\ LoginDown(p) /\ loginMap' = loginMap \ {p}
    /\ UNCHANGED <<chatConnect, chatLogin, cut, broken>>

JoinsChat(c, p, tests) ==
    /\ ChatJob("CONNECT_SUCCESS") /\ c = Head(chatQ).id
    /\ moveQ # <<>> /\ p = Head(moveQ) /\ player[p].state = "CHAT_CONNECT_TRY"
    /\ Holder(c) = NoPlayer
    /\ tests \in {{}, {"SESSION_TIMEOUT_TARGET"}, {"LOGIN_TIMOUT_TARGET"}}
    /\ StartChat(p, tests)
    /\ gauge' = [gauge EXCEPT
            !.session = @ + One("SESSION_TIMEOUT_TARGET" \in tests),
            !.login = @ + One("LOGIN_TIMOUT_TARGET" \in tests)]
    /\ chatConnect' = [chatConnect EXCEPT ![c] = p]
    /\ moveQ' = Tail(moveQ)
    /\ UNCHANGED <<slots, loginMap, chatLogin, cut, inbox, broken>>

GivesUp(p) ==
    /\ ChatJob("ALL_RECONNECT_FAIL")
    /\ moveQ # <<>> /\ p = Head(moveQ) /\ player[p].state = "CHAT_CONNECT_TRY"
    /\ GiveUp(p) /\ Free(p) /\ moveQ' = Tail(moveQ)
    /\ UNCHANGED <<gauge, loginMap, chatConnect, chatLogin, cut, inbox, broken>>

LogsIn(c, p) ==
    /\ ChatMessage(c, "RES_LOGIN") /\ inbox[c] # <<>>
    /\ chatConnect[c] = p /\ chatLogin[c] = NoPlayer
    /\ player[p].state = "CS_CHAT_REQ_LOGIN_SENT"
    /\ Answered(p, c, "CS_CHAT_RES_LOGIN_RECV")
    /\ chatConnect' = [chatConnect EXCEPT ![c] = NoPlayer]
    /\ chatLogin' = [chatLogin EXCEPT ![c] = p]
    /\ UNCHANGED <<slots, gauge, loginMap, moveQ, broken>>

PlaysOn(c, p, type) ==
    /\ ChatMessage(c, type) /\ inbox[c] # <<>>
    /\ chatConnect[c] = NoPlayer /\ chatLogin[c] = p
    /\ type \in {"RES_SECTOR_MOVE", "RES_MESSAGE"} /\ player[p].state = ReplyTo[type]
    /\ Answered(p, c, After[type])
    /\ UNCHANGED <<slots, gauge, maps, broken>>

Overhears(c) ==
    /\ ChatMessage(c, Other) /\ inbox[c] # <<>>
    /\ UNCHANGED <<slots, players, maps, cut, broken>>

LeavesUnknown(c, p) ==
    /\ ChatJob("ON_RELEASE") /\ c = Head(chatQ).id
    /\ chatConnect[c] = p /\ chatLogin[c] = NoPlayer
    /\ disconnectedNum' = disconnectedNum + 1 /\ LeaveConnect(c)
    /\ UNCHANGED <<loginMap, moveQ, cut, inbox>>

LeavesChat(c, p) ==
    /\ ChatJob("ON_RELEASE") /\ c = Head(chatQ).id
    /\ chatConnect[c] = NoPlayer /\ chatLogin[c] = p
    /\ disconnectedNum' = disconnectedNum + 1 /\ LeaveLogin(c)
    /\ UNCHANGED <<loginMap, moveQ, cut, inbox, broken>>

AsksLogin(p) ==
    /\ Acting /\ p \in loginMap /\ player[p].field = {}
    /\ player[p].state = "LOGIN_CONNECT_SUCCESS"
    /\ player' = [player EXCEPT ![p].state = "CS_LOGIN_REQ_LOGIN_SENT"]
    /\ loginOwes' \subseteq loginOwes \cup {p}
    /\ UNCHANGED <<loginNet, chatNet, chatOwes, sector, slots, gauge, broken>>

AsksChat(c, p) ==
    /\ Acting /\ chatConnect[c] = p /\ chatLogin[c] = NoPlayer
    /\ player[p].state = "CHAT_CONNECT_SUCCESS" /\ ~Silent(p)
    /\ player' = [player EXCEPT ![p].state = "CS_CHAT_REQ_LOGIN_SENT"]
    /\ Send(c, "RES_LOGIN")
    /\ UNCHANGED <<loginNet, chatNet, loginOwes, sector, slots, gauge, broken>>

Plays(c, p) ==
    /\ Acting /\ chatConnect[c] = NoPlayer /\ chatLogin[c] = p
    /\ player[p].state \in RecvStates /\ player[p].field \cap Tests = {}
    /\ IF "RESERVE_SEND_MESSAGE" \in player[p].field
       THEN SendRandomChatMessage(p, c) ELSE ReserveSend(p)
    /\ UNCHANGED <<loginNet, chatNet, loginOwes, slots, gauge, broken>>

\* A step that changes a player, or g_moveQ
PlayerStep ==
    \/ \E p \in Ids : \/ TakesAccount(p) \/ LoggedIn(p) \/ MovesOn(p) \/ FailsLogin(p)
                      \/ GivesUp(p) \/ AsksLogin(p)
    \/ \E p, v \in Ids : TakesOver(p, v)
    \/ \E c, p \in Ids : \/ \E tests \in SUBSET Tests : JoinsChat(c, p, tests)
                         \/ LogsIn(c, p) \/ LeavesUnknown(c, p) \/ LeavesChat(c, p)
                         \/ AsksChat(c, p) \/ Plays(c, p)
                         \/ \E type \in Replies : PlaysOn(c, p, type)

\* One that leaves them and g_NonConnectedStack alone
OtherStep ==
    \/ LoginConnectFail \/ LoginAllReconnectFail \/ ChatConnectFail
    \/ \E c \in Ids : Overhears(c)
    \/ Drained \/ Return \/ Connect \/ Network \/ UNCHANGED vars

Step == PlayerStep \/ OtherStep

\* Who holds a session, and in what state
LEMMA HolderFacts ==
  ASSUME TypeOK, MapsOk, PlacesOk, NEW c \in Ids
  PROVE  /\ Holder(c) \in Ids \cup {NoPlayer} /\ NoPlayer \notin Ids
         /\ chatConnect[c] # NoPlayer =>
               /\ chatConnect[c] \in Ids /\ chatLogin[c] = NoPlayer
               /\ Holder(c) = chatConnect[c]
               /\ player[chatConnect[c]].state \in ChatConnectStates
         /\ chatLogin[c] # NoPlayer =>
               /\ chatLogin[c] \in Ids /\ chatConnect[c] = NoPlayer
               /\ Holder(c) = chatLogin[c]
               /\ player[chatLogin[c]].state \in PlayStates
<1>1. /\ chatConnect[c] \in Ids \cup {NoPlayer} /\ chatLogin[c] \in Ids \cup {NoPlayer}
      /\ chatConnect[c] = NoPlayer \/ chatLogin[c] = NoPlayer
      /\ NoPlayer \notin Ids
  <2>1. NoPlayer \notin Ids
    BY DEF Ids, NoPlayer
  <2>2. /\ chatConnect \in [Ids -> Ids \cup {NoPlayer}]
        /\ chatLogin \in [Ids -> Ids \cup {NoPlayer}]
    BY DEF TypeOK
  <2>3. chatConnect[c] = NoPlayer \/ chatLogin[c] = NoPlayer
    BY DEF MapsOk
  <2> QED BY <2>1, <2>2, <2>3
<1>2. chatConnect[c] \in Ids => player[chatConnect[c]].state \in ChatConnectStates
  <2>1. chatConnect[c] \in Ids => InMap(chatConnect[c], chatConnect)
    BY DEF InMap
  <2> QED BY <2>1 DEF PlacesOk, PlaceOk
<1>3. chatLogin[c] \in Ids => player[chatLogin[c]].state \in PlayStates
  <2>1. chatLogin[c] \in Ids => InMap(chatLogin[c], chatLogin)
    BY DEF InMap
  <2> QED BY <2>1 DEF PlacesOk, PlaceOk
<1> QED BY <1>1, <1>2, <1>3 DEF Holder

\* A session has a player of its own.
LEMMA HolderAlone ==
  ASSUME TypeOK, MapsOk, PlacesOk, NEW c \in Ids, NEW d \in Ids,
         Holder(c) # NoPlayer, Holder(c) = Holder(d)
  PROVE  c = d
<1>1. \A s \in ChatConnectStates : s \notin PlayStates
  BY DEF ChatConnectStates, PlayStates, RecvStates, SentStates
<1>2. /\ chatConnect[c] # NoPlayer => Holder(c) = chatConnect[c]
      /\ chatConnect[c] # NoPlayer => player[Holder(c)].state \in ChatConnectStates
      /\ chatConnect[c] = NoPlayer => chatLogin[c] = Holder(c)
      /\ chatConnect[c] = NoPlayer => player[Holder(c)].state \in PlayStates
  BY HolderFacts DEF Holder
<1>3. /\ chatConnect[d] # NoPlayer => Holder(d) = chatConnect[d]
      /\ chatConnect[d] # NoPlayer => player[Holder(d)].state \in ChatConnectStates
      /\ chatConnect[d] = NoPlayer => chatLogin[d] = Holder(d)
      /\ chatConnect[d] = NoPlayer => player[Holder(d)].state \in PlayStates
  BY HolderFacts DEF Holder
<1>4. OneEach(chatConnect) /\ OneEach(chatLogin)
  BY DEF PlacesOk
<1> QED BY <1>1, <1>2, <1>3, <1>4 DEF OneEach

\* A client's first job of an id finds its player, or makes it.
LEMMA LoginJobFacts ==
  ASSUME ContentsInv, NEW type \in OfOne, LoginJob(type)
  PROVE  /\ Head(loginQ).id \in Ids
         /\ type = "CONNECT_SUCCESS" => /\ Head(loginQ).id \notin loginMap
                                        /\ player[Head(loginQ).id].state = "none"
                                        /\ nonConnected # <<>>
         /\ type # "CONNECT_SUCCESS" => Head(loginQ).id \in loginMap
<1> DEFINE p == Head(loginQ).id
<1>1. QueueOk(loginPhase, loginQ) /\ loginQ # <<>> /\ Head(loginQ).type = type
  BY DEF ContentsInv, ClientsOk, LoginJob
<1>2. /\ p \in Ids
      /\ type = "CONNECT_SUCCESS" => ~LoginArrived(p)
      /\ type # "CONNECT_SUCCESS" => LoginKnown(p)
  BY <1>1, FirstJob DEF LoginArrived, LoginKnown
<1>3. p \in loginMap <=> LoginKnown(p)
  BY <1>2 DEF ContentsInv, MapsOk
<1>4. p \in Alive => LoginArrived(p)
  BY <1>2 DEF ContentsInv, PlacesOk, PlaceOk
<1>5. LoginKnown(p) => LoginArrived(p)
  BY DEF LoginKnown, LoginArrived, Known
<1>6. type = "CONNECT_SUCCESS" => nonConnected # <<>>
  BY <1>1, AccountForLogin DEF ContentsInv
<1> QED BY <1>2, <1>3, <1>4, <1>5, <1>6 DEF Alive

\* The same of the chat client: its first job of a session finds the holder, or makes it.
LEMMA ChatJobFacts ==
  ASSUME ContentsInv, NEW type \in OfOne, ChatJob(type)
  PROVE  /\ Head(chatQ).id \in Ids
         /\ type = "CONNECT_SUCCESS" => Holder(Head(chatQ).id) = NoPlayer
         /\ type # "CONNECT_SUCCESS" => Holder(Head(chatQ).id) # NoPlayer
<1> DEFINE c == Head(chatQ).id
<1>1. QueueOk(chatPhase, chatQ) /\ chatQ # <<>> /\ Head(chatQ).type = type
  BY DEF ContentsInv, ClientsOk, ChatJob
<1>2. /\ c \in Ids
      /\ type = "CONNECT_SUCCESS" => ~Arrived(chatPhase, chatQ, c)
      /\ type # "CONNECT_SUCCESS" => ChatKnown(c)
  BY <1>1, FirstJob DEF ChatKnown
<1>3. Holder(c) # NoPlayer <=> ChatKnown(c)
  BY <1>2 DEF ContentsInv, MapsOk
<1> QED BY <1>2, <1>3 DEF ChatKnown, Known

\* The answer to a Connect finds the player that asked in front of g_moveQ.
LEMMA AnswerFacts ==
  ASSUME ContentsInv, NEW type \in Answers, ChatJob(type)
  PROVE  /\ moveQ # <<>> /\ Head(moveQ) \in Ids
         /\ player[Head(moveQ)].state = "CHAT_CONNECT_TRY"
<1>1. chatQ \in Seq(Jobs) /\ chatQ # <<>> /\ Head(chatQ).type = type /\ chatPending \in Nat
  BY DEF ContentsInv, ClientsOk, QueueOk, ChatJob
<1>2. /\ JobsIn(Tail(chatQ), Answers) \in Nat
      /\ JobsIn(chatQ, Answers) = JobsIn(Tail(chatQ), Answers) + One(Head(chatQ).type \in Answers)
  BY <1>1, JobsCounted
<1>3. Len(moveQ) = chatPending + JobsIn(chatQ, Answers)
  BY DEF ContentsInv, MoveQMatches, Answers
<1>4. moveQ \in Seq(Ids) /\ \A m, n \in 1 .. Len(moveQ) : moveQ[m] = moveQ[n] => m = n
  BY DEF ContentsInv, TypeOK, PlacesOk
<1>5. moveQ # <<>>
  <2>1. Len(moveQ) > 0
    BY <1>1, <1>2, <1>3, SMTT(30) DEF One
  <2> QED BY <2>1
<1>6. Head(moveQ) \in Ids /\ Member(Head(moveQ), moveQ)
  BY <1>4, <1>5, MoveOut
<1> QED BY <1>5, <1>6 DEF ContentsInv, PlacesOk, PlaceOk

\* The steps of Update do what the code expects: no player, account or place in
\* g_moveQ is missing.
LEMMA LoginConnectedIs == ContentsInv /\ LoginConnected => PlayerStep
<1> SUFFICES ASSUME ContentsInv, LoginConnected PROVE PlayerStep
  OBVIOUS
<1> DEFINE p == Head(loginQ).id
<1>1. /\ LoginJob("CONNECT_SUCCESS") /\ p \in Ids /\ p \notin loginMap
      /\ player[p].state = "none" /\ nonConnected # <<>>
  BY LoginJobFacts DEF LoginConnected, OfOne
<1>2. CASE TakeAccount(p)
  <2>1. TakesAccount(p)
    BY <1>1, <1>2 DEF TakesAccount, Joins, TakeAccount, Fine
  <2> QED BY <1>1, <2>1 DEF PlayerStep
<1>3. ASSUME NEW v \in Victims, TakeOver(p, v) PROVE PlayerStep
  <2>1. v \in Ids /\ player[v].state \in PlayStates /\ player[v].field \cap Tests = {}
    <3>1. v \in Ids /\ InMap(v, chatLogin) /\ player[v].field \cap Tests = {}
      BY DEF Victims, InMap
    <3> QED BY <3>1 DEF ContentsInv, PlacesOk, PlaceOk
  <2>2. TakesOver(p, v)
    BY <1>1, <1>3, <2>1 DEF TakesOver, Joins, TakeOver, Fine, slots
  <2> QED BY <1>1, <2>1, <2>2 DEF PlayerStep
<1> QED BY <1>2, <1>3 DEF LoginConnected

\* The login reply finds its player (RecvLoginJob, RECV_MESSAGE).
LEMMA LoginRecvIs == ContentsInv /\ LoginRecv => PlayerStep
<1> SUFFICES ASSUME ContentsInv, LoginRecv PROVE PlayerStep
  OBVIOUS
<1> DEFINE p == Head(loginQ).id
<1>1. LoginJob("RECV_MESSAGE") /\ p \in Ids /\ p \in loginMap
  BY LoginJobFacts DEF LoginRecv, OfOne
<1>2. LoggedIn(p)
  BY <1>1 DEF LoggedIn, LoginRecv, Fine
<1> QED BY <1>1, <1>2 DEF PlayerStep

\* So does the release of a login session.
LEMMA LoginReleasedIs == ContentsInv /\ LoginReleased => PlayerStep
<1> SUFFICES ASSUME ContentsInv, LoginReleased PROVE PlayerStep
  OBVIOUS
<1> DEFINE p == Head(loginQ).id
<1>1. LoginJob("ON_RELEASE") /\ p \in Ids /\ p \in loginMap
  BY LoginJobFacts DEF LoginReleased, OfOne
<1>2. MovesOn(p) \/ FailsLogin(p)
  BY <1>1 DEF MovesOn, FailsLogin, LoginReleased, ToChat, Fine
<1> QED BY <1>1, <1>2 DEF PlayerStep

\* A chat session that came up takes the player in front of g_moveQ.
LEMMA ChatConnectedIs == ContentsInv /\ ChatConnected => PlayerStep
<1> SUFFICES ASSUME ContentsInv, ChatConnected PROVE PlayerStep
  OBVIOUS
<1> DEFINE c == Head(chatQ).id  p == Head(moveQ)
<1>1. /\ ChatJob("CONNECT_SUCCESS") /\ c \in Ids /\ Holder(c) = NoPlayer
      /\ moveQ # <<>> /\ p \in Ids /\ player[p].state = "CHAT_CONNECT_TRY"
  BY ChatJobFacts, AnswerFacts DEF ChatConnected, OfOne, Answers
<1>2. PICK tests \in TestsFor(p) :
        /\ StartChat(p, tests)
        /\ gauge' = [gauge EXCEPT
                !.session = @ + (IF "SESSION_TIMEOUT_TARGET" \in tests THEN 1 ELSE 0),
                !.login = @ + (IF "LOGIN_TIMOUT_TARGET" \in tests THEN 1 ELSE 0)]
        /\ chatConnect' = [chatConnect EXCEPT ![c] = p]
        /\ moveQ' = Tail(moveQ)
        /\ Fine
        /\ UNCHANGED <<slots, loginMap, chatLogin, cut>>
  BY <1>1 DEF ChatConnected
<1>3. tests \in {{}, {"SESSION_TIMEOUT_TARGET"}, {"LOGIN_TIMOUT_TARGET"}}
      /\ tests \in SUBSET Tests
  BY DEF TestsFor, Tests
<1>4. UNCHANGED inbox
  BY DEF ChatConnected
<1>5. JoinsChat(c, p, tests)
  BY <1>1, <1>2, <1>3, <1>4 DEF JoinsChat, Fine, One
<1> QED BY <1>1, <1>3, <1>5 DEF PlayerStep

\* A Connect that failed for good makes the player in front give up.
LEMMA ChatAllReconnectFailIs == ContentsInv /\ ChatAllReconnectFail => PlayerStep
<1> SUFFICES ASSUME ContentsInv, ChatAllReconnectFail PROVE PlayerStep
  OBVIOUS
<1> DEFINE p == Head(moveQ)
<1>1. /\ ChatJob("ALL_RECONNECT_FAIL")
      /\ moveQ # <<>> /\ p \in Ids /\ player[p].state = "CHAT_CONNECT_TRY"
  BY AnswerFacts DEF ChatAllReconnectFail, Answers
<1>2. GivesUp(p)
  BY <1>1 DEF GivesUp, ChatAllReconnectFail, Fine
<1> QED BY <1>1, <1>2 DEF PlayerStep

\* A released chat session finds the player that held it.
LEMMA ChatReleasedIs == ContentsInv /\ ChatReleased => PlayerStep
<1> SUFFICES ASSUME ContentsInv, ChatReleased PROVE PlayerStep
  OBVIOUS
<1> DEFINE c == Head(chatQ).id
<1>1. ChatJob("ON_RELEASE") /\ c \in Ids /\ Holder(c) # NoPlayer
  BY ChatJobFacts DEF ChatReleased, OfOne
<1>2. /\ chatConnect[c] # NoPlayer => chatConnect[c] \in Ids /\ chatLogin[c] = NoPlayer
      /\ chatConnect[c] = NoPlayer => chatLogin[c] \in Ids
  BY <1>1, HolderFacts DEF ContentsInv, Holder
<1>3. CASE chatConnect[c] # NoPlayer
  <2>1. LeavesUnknown(c, chatConnect[c])
    BY <1>1, <1>2, <1>3 DEF LeavesUnknown, ChatReleased
  <2> QED BY <1>1, <1>2, <1>3, <2>1 DEF PlayerStep
<1>4. CASE chatConnect[c] = NoPlayer
  <2>1. chatLogin[c] # NoPlayer
    BY <1>1, <1>4 DEF Holder
  <2>2. LeavesChat(c, chatLogin[c])
    BY <1>1, <1>4, <2>1 DEF LeavesChat, ChatReleased, LeaveLogin, Fine
  <2> QED BY <1>1, <1>2, <1>4, <2>2 DEF PlayerStep
<1> QED BY <1>3, <1>4

\* A message in front of the inbox is one that the session's player waits for.
LEMMA ChatMessageFacts ==
  ASSUME ContentsInv, NEW c \in Ids, NEW type \in Replies \cup {Other}, ChatMessage(c, type)
  PROVE  /\ inbox[c] # <<>> /\ inbox[c] \in Seq(Replies \cup {Other})
         /\ type = Other => Registered(c)
         /\ type # Other => Awaits(c, type)
<1>1. inbox[c] \in Seq(Replies \cup {Other})
  BY DEF ContentsInv, TypeOK, Other
<1>2. /\ chatQ \in Seq(Jobs) /\ chatQ # <<>> /\ Head(chatQ) \in Jobs
      /\ Head(chatQ).type = "RECV_MESSAGE" /\ Head(chatQ).id = c /\ Head(inbox[c]) = type
  <2>1. chatQ \in Seq(Jobs)
    BY DEF ContentsInv, ClientsOk, QueueOk
  <2> QED BY <2>1, HeadTailProperties DEF ChatMessage, ChatJob
<1>3. Len(inbox[c]) >= 1
  <2>1. Head(chatQ) = Message(c)
    BY <1>2 DEF Jobs, Message
  <2>2. /\ Cardinality(Places({Message(c)}, Tail(chatQ))) \in Nat
        /\ Heard(c) = Cardinality(Places({Message(c)}, Tail(chatQ)))
                      + One(Head(chatQ) \in {Message(c)})
    <3>1. Tail(chatQ) \in Seq(Jobs)
      BY <1>2, HeadTailProperties
    <3> QED BY <1>2, <3>1, PlacesTail, PlacesFinite DEF Heard
  <2>3. Len(inbox[c]) = Heard(c)
    BY DEF ContentsInv, RepliesOk, ReplyOk
  <2> QED BY <2>1, <2>2, <2>3 DEF One
<1>4. inbox[c] # <<>> /\ 1 \in 1 .. Len(inbox[c]) /\ inbox[c][1] = type
  BY <1>1, <1>2, <1>3
<1>5. /\ inbox[c][1] = Other => Registered(c)
      /\ inbox[c][1] # Other => Awaits(c, inbox[c][1])
  BY <1>4 DEF ContentsInv, RepliesOk, ReplyOk
<1> QED BY <1>1, <1>4, <1>5

\* A message finds a player in the state that waits for it (RecvChatMessage).
LEMMA ChatMessageIs ==
  ASSUME ContentsInv, NEW c \in Ids,
         \/ ResLogin(c) \/ ResOther(c)
         \/ \E type \in {"RES_SECTOR_MOVE", "RES_MESSAGE"} : ResPlay(c, type)
  PROVE  Step
<1>1. CASE ResOther(c)
  <2>1. ChatMessage(c, Other)
    BY <1>1 DEF ResOther, Other
  <2>2. inbox[c] # <<>> /\ Registered(c)
    BY <2>1, ChatMessageFacts
  <2>3. broken = FALSE
    BY <2>1 DEF ChatMessage, ChatJob, ContentsInv, TypeOK
  <2>4. Overhears(c)
    BY <1>1, <2>1, <2>2, <2>3 DEF Overhears, ResOther
  <2> QED BY <2>4 DEF Step, OtherStep
<1> DEFINE p == Holder(c)
<1>2. CASE ResLogin(c)
  <2>1. ChatMessage(c, "RES_LOGIN")
    BY <1>2 DEF ResLogin
  <2>2. inbox[c] # <<>> /\ Awaits(c, "RES_LOGIN")
    <3>1. "RES_LOGIN" \in Replies \cup {Other} /\ "RES_LOGIN" # Other
      BY DEF Replies, Other
    <3> QED BY <2>1, <3>1, ChatMessageFacts
  <2>3. p # NoPlayer /\ player[p].state = "CS_CHAT_REQ_LOGIN_SENT"
    BY <2>2 DEF Awaits, Waiting
  <2>4. p \in Ids /\ chatConnect[c] = p /\ chatLogin[c] = NoPlayer
    <3>1. "CS_CHAT_REQ_LOGIN_SENT" \notin PlayStates
      BY DEF PlayStates, RecvStates, SentStates
    <3> QED BY <2>3, <3>1, HolderFacts DEF ContentsInv, Holder
  <2> HIDE DEF p
  <2>5. LogsIn(c, p)
    BY <1>2, <2>1, <2>2, <2>3, <2>4 DEF LogsIn, ResLogin, Fine, p
  <2> QED BY <2>4, <2>5 DEF Step, PlayerStep
<1>3. ASSUME NEW type \in {"RES_SECTOR_MOVE", "RES_MESSAGE"}, ResPlay(c, type) PROVE Step
  <2>1. ChatMessage(c, type) /\ type \in Replies
    BY <1>3 DEF ResPlay, Replies
  <2>2. inbox[c] # <<>> /\ Awaits(c, type)
    BY <2>1, ChatMessageFacts DEF Replies, Other
  <2>3. /\ p # NoPlayer /\ player[p].state = ReplyTo[type] /\ player[p].state \notin ChatConnectStates
        /\ type = "RES_MESSAGE" => Registered(c)
    BY <2>2 DEF Awaits, Waiting, ReplyTo, ChatConnectStates
  <2>4. p \in Ids /\ chatConnect[c] = NoPlayer /\ chatLogin[c] = p
    BY <2>3, HolderFacts DEF ContentsInv, Holder
  <2> HIDE DEF p
  <2>5. PlaysOn(c, p, type)
    BY <1>3, <2>1, <2>2, <2>3, <2>4 DEF PlaysOn, ResPlay, Fine, p
  <2> QED BY <2>1, <2>4, <2>5 DEF Step, PlayerStep
<1> QED BY <1>1, <1>2, <1>3

\* Update finds the players in g_loginPlayerMap in a state it knows.
LEMMA LoginUpdateIs ==
  ASSUME ContentsInv, NEW p \in Ids, LoginUpdate(p) PROVE PlayerStep
<1>1. player[p].state \in LoginStates /\ player[p].field \subseteq {"DISCONNECT_TARGET"}
  BY DEF LoginUpdate, ContentsInv, PlacesOk, PlaceOk, FieldsOk, FieldOk
<1>2. player[p].field = {} /\ player[p].state = "LOGIN_CONNECT_SUCCESS"
  BY <1>1 DEF LoginUpdate, LoginStates
<1>3. broken' = broken
  BY <1>2 DEF LoginUpdate, Acting, ContentsInv, TypeOK
<1>4. AsksLogin(p)
  BY <1>2, <1>3 DEF LoginUpdate, AsksLogin
<1> QED BY <1>4 DEF PlayerStep

\* So it does those of g_chatConnectPlayerMap ...
LEMMA ChatConnectUpdateIs ==
  ASSUME ContentsInv, NEW c \in Ids, ChatConnectUpdate(c) PROVE PlayerStep
<1> DEFINE p == chatConnect[c]
<1>1. p # NoPlayer
  BY DEF ChatConnectUpdate
<1>2. p \in Ids /\ chatLogin[c] = NoPlayer /\ player[p].state \in ChatConnectStates
  BY <1>1, HolderFacts DEF ContentsInv
<1>3. AsksChat(c, p)
  BY <1>2 DEF ChatConnectUpdate, AsksChat, Fine
<1> QED BY <1>2, <1>3 DEF PlayerStep

\* ... and those of g_chatLoginPlayerMap.
LEMMA ChatLoginUpdateIs ==
  ASSUME ContentsInv, NEW c \in Ids, ChatLoginUpdate(c) PROVE PlayerStep
<1> DEFINE p == chatLogin[c]
<1>1. p # NoPlayer
  BY DEF ChatLoginUpdate
<1>2. p \in Ids /\ chatConnect[c] = NoPlayer /\ player[p].state \in PlayStates
  BY <1>1, HolderFacts DEF ContentsInv
<1>3. player[p].state \in RecvStates /\ MayPlay(p)
  BY <1>2 DEF ChatLoginUpdate, PlayStates
<1>4. player[p].field \cap Tests = {}
  <2>1. player[p].field \cap Tests \in {{}, {"DUPLICATE_TARGET"}, {"LOGIN_TIMOUT_TARGET"},
                                        {"DISCONNECT_TARGET"}}
    BY <1>2 DEF ContentsInv, FieldsOk, FieldOk
  <2> QED BY <1>3, <2>1 DEF MayPlay
<1>5. broken' = broken
  BY <1>3 DEF ChatLoginUpdate, Acting, ContentsInv, TypeOK
<1>6. Plays(c, p)
  BY <1>2, <1>3, <1>4, <1>5 DEF ChatLoginUpdate, Plays
<1> QED BY <1>2, <1>6 DEF PlayerStep

\* From a state of the invariant every step is one of these.
LEMMA StepIs == ContentsInv /\ [Next]_vars => Step
<1> SUFFICES ASSUME ContentsInv, [Next]_vars PROVE Step
  OBVIOUS
<1>1. CASE RecvLoginJob
  BY <1>1, LoginConnectedIs, LoginRecvIs, LoginReleasedIs
     DEF RecvLoginJob, Step, OtherStep
<1>2. CASE RecvChatJob
  BY <1>2, ChatConnectedIs, ChatMessageIs, ChatReleasedIs, ChatAllReconnectFailIs
     DEF RecvChatJob, RecvChatMessage, Step, OtherStep
<1>3. CASE Act
  BY <1>3, LoginUpdateIs, ChatConnectUpdateIs, ChatLoginUpdateIs DEF Act, Step, OtherStep
<1>4. CASE Drained \/ Return \/ Network \/ UNCHANGED vars
  BY <1>4 DEF Step, OtherStep
<1> QED BY <1>1, <1>2, <1>3, <1>4 DEF Next
-----------------------------------------------------------------------------
(* What the steps do to the clients' jobs *)

\* The Connects that Update has not seen answered
WaitsOf(pend, q) == pend + JobsIn(q, Answers)
SameWaits(pend, q, left, r) == WaitsOf(left, r) = WaitsOf(pend, q)
LoginWaits == WaitsOf(loginPending, loginQ)
ChatWaits == WaitsOf(chatPending, chatQ)

SameLogin ==
    \A p \in Ids : (LoginArrived(p)' <=> LoginArrived(p)) /\ (LoginKnown(p)' <=> LoginKnown(p))
SameChat == \A c \in Ids : ChatKnown(c)' <=> ChatKnown(c)

LoginOk == QueueOk(loginPhase, loginQ) /\ loginPending \in Nat
ChatOk == QueueOk(chatPhase, chatQ) /\ chatPending \in Nat

\* A worker's step: one job posted, and with an answer one Connect less under way
PostStep(phase, after, pend, left, q, r) ==
    \E e \in Jobs :
        /\ Posts(phase, after, e) /\ r = Append(q, e)
        /\ left = pend - One(e.type \in Answers) /\ (e.type \in Answers => pend > 0)
LoginPosts == PostStep(loginPhase, loginPhase', loginPending, loginPending', loginQ, loginQ')
ChatPosts == PostStep(chatPhase, chatPhase', chatPending, chatPending', chatQ, chatQ')

\* Posting loses no job and no Connect, and Update knows as much as before.
LEMMA PostStepKeeps ==
  ASSUME NEW phase, NEW after, NEW pend \in Nat, NEW left, NEW q, NEW r, QueueOk(phase, q),
         PostStep(phase, after, pend, left, q, r)
  PROVE  /\ QueueOk(after, r) /\ left \in Nat
         /\ \A i \in Ids : Arrived(after, r, i) <=> Arrived(phase, q, i)
         /\ \A i \in Ids : Known(after, r, i) <=> Known(phase, q, i)
         /\ SameWaits(pend, q, left, r)
<1>1. PICK e \in Jobs :
        /\ Posts(phase, after, e) /\ r = Append(q, e)
        /\ left = pend - One(e.type \in Answers) /\ (e.type \in Answers => pend > 0)
  BY DEF PostStep
<1>2. q \in Seq(Jobs)
  BY DEF QueueOk
<1>3. JobsIn(q, Answers) \in Nat
      /\ JobsIn(r, Answers) = JobsIn(q, Answers) + One(e.type \in Answers)
  BY <1>1, <1>2, JobsCounted
<1>4. left \in Nat /\ One(e.type \in Answers) \in Nat
  BY <1>1 DEF One
<1>5. /\ QueueOk(after, r)
      /\ \A i \in Ids : Arrived(after, r, i) <=> Arrived(phase, q, i)
      /\ \A i \in Ids : Known(after, r, i) <=> Known(phase, q, i)
  BY <1>1, PostJob
<1> QED BY <1>1, <1>3, <1>4, <1>5 DEF SameWaits, WaitsOf

\* The five steps of the login client post one job each.
LEMMA LoginPost ==
  ASSUME ClientsOk
  PROVE  /\ \A i \in Ids : Login!Connected(i) \/ Login!Message(i) \/ Login!Released(i) => LoginPosts
         /\ Login!GivenUp \/ Login!Attempt => LoginPosts
<1>0. /\ \A i \in Ids : /\ Login!Event("CONNECT_SUCCESS", i) \in Jobs
                        /\ Login!Event("RECV_MESSAGE", i) \in Jobs
                        /\ Login!Event("ON_RELEASE", i) \in Jobs
      /\ Login!Event("CONNECT_FAIL", Login!NoOne) \in Jobs
      /\ Login!Event("ALL_RECONNECT_FAIL", Login!NoOne) \in Jobs
      /\ loginPending - 0 = loginPending
  BY DEF Login!Event, Jobs, OfOne, Answers, Login!NoOne, NoPlayer, ClientsOk
<1>1. ASSUME NEW i \in Ids, Login!Connected(i) PROVE LoginPosts
  BY <1>0, <1>1 DEF Login!Connected, Login!Tell, Login!Event, LoginPosts, PostStep, Posts,
                    Answers, One
<1>2. ASSUME Login!GivenUp PROVE LoginPosts
  BY <1>0, <1>2 DEF Login!GivenUp, Login!Tell, Login!Event, LoginPosts, PostStep, Posts,
                    Answers, OfOne, One
<1>3. ASSUME Login!Attempt PROVE LoginPosts
  BY <1>0, <1>3 DEF Login!Attempt, Login!Tell, Login!Event, LoginPosts, PostStep, Posts,
                    Answers, OfOne, One
<1>4. ASSUME NEW i \in Ids, Login!Message(i) PROVE LoginPosts
  BY <1>0, <1>4 DEF Login!Message, Login!Tell, Login!Event, LoginPosts, PostStep, Posts,
                    Answers, One
<1>5. ASSUME NEW i \in Ids, Login!Released(i) PROVE LoginPosts
  BY <1>0, <1>5 DEF Login!Released, Login!Tell, Login!Event, LoginPosts, PostStep, Posts,
                    Answers, One
<1> QED BY <1>1, <1>2, <1>3, <1>4, <1>5

\* The same of the chat client.
LEMMA ChatPost ==
  ASSUME ClientsOk
  PROVE  /\ \A i \in Ids : Chat!Connected(i) \/ Chat!Message(i) \/ Chat!Released(i) => ChatPosts
         /\ Chat!GivenUp \/ Chat!Attempt => ChatPosts
<1>0. /\ \A i \in Ids : /\ Chat!Event("CONNECT_SUCCESS", i) \in Jobs
                        /\ Chat!Event("RECV_MESSAGE", i) \in Jobs
                        /\ Chat!Event("ON_RELEASE", i) \in Jobs
      /\ Chat!Event("CONNECT_FAIL", Chat!NoOne) \in Jobs
      /\ Chat!Event("ALL_RECONNECT_FAIL", Chat!NoOne) \in Jobs
      /\ chatPending - 0 = chatPending
  BY DEF Chat!Event, Jobs, OfOne, Answers, Chat!NoOne, NoPlayer, ClientsOk
<1>1. ASSUME NEW i \in Ids, Chat!Connected(i) PROVE ChatPosts
  BY <1>0, <1>1 DEF Chat!Connected, Chat!Tell, Chat!Event, ChatPosts, PostStep, Posts,
                    Answers, One
<1>2. ASSUME Chat!GivenUp PROVE ChatPosts
  BY <1>0, <1>2 DEF Chat!GivenUp, Chat!Tell, Chat!Event, ChatPosts, PostStep, Posts,
                    Answers, OfOne, One
<1>3. ASSUME Chat!Attempt PROVE ChatPosts
  BY <1>0, <1>3 DEF Chat!Attempt, Chat!Tell, Chat!Event, ChatPosts, PostStep, Posts,
                    Answers, OfOne, One
<1>4. ASSUME NEW i \in Ids, Chat!Message(i) PROVE ChatPosts
  BY <1>0, <1>4 DEF Chat!Message, Chat!Tell, Chat!Event, ChatPosts, PostStep, Posts,
                    Answers, One
<1>5. ASSUME NEW i \in Ids, Chat!Released(i) PROVE ChatPosts
  BY <1>0, <1>5 DEF Chat!Released, Chat!Tell, Chat!Event, ChatPosts, PostStep, Posts,
                    Answers, One
<1> QED BY <1>1, <1>2, <1>3, <1>4, <1>5

\* What the network may do to the clients' queues
LEMMA NetworkPosts ==
  ClientsOk /\ Network => \/ LoginPosts /\ UNCHANGED <<chatNet, chatOwes, sector, inbox>>
                          \/ ChatPosts /\ UNCHANGED loginNet
<1> SUFFICES ASSUME ClientsOk, Network
             PROVE  \/ LoginPosts /\ UNCHANGED <<chatNet, chatOwes, sector, inbox>>
                    \/ ChatPosts /\ UNCHANGED loginNet
  OBVIOUS
<1>1. CASE LoginAnswers
  BY <1>1, LoginPost DEF LoginAnswers, LoginSide
<1>2. CASE LoginAttempt
  BY <1>2, LoginPost DEF LoginAttempt, LoginSide
<1>3. CASE ChatAnswers
  BY <1>3, ChatPost DEF ChatAnswers, ChatSide
<1>4. CASE ChatAttempt
  BY <1>4, ChatPost DEF ChatAttempt, ChatSide
<1>5. ASSUME NEW i \in Ids, LoginReplies(i) \/ LoginGone(i)
      PROVE  LoginPosts /\ UNCHANGED <<chatNet, chatOwes, sector, inbox>>
  BY <1>5, LoginPost DEF LoginReplies, LoginGone, LoginSide
<1>6. ASSUME NEW i \in Ids, ChatReplies(i) \/ ChatOther(i) \/ ChatGone(i)
      PROVE  ChatPosts /\ UNCHANGED loginNet
  BY <1>6, ChatPost DEF ChatReplies, ChatOther, ChatGone, ChatSide
<1> QED BY <1>1, <1>2, <1>3, <1>4, <1>5, <1>6 DEF Network


\* What is left when Update takes a job of the login client
LEMMA LoginJobTaken ==
  ASSUME ClientsOk, NEW type, LoginJob(type)
  PROVE  /\ LoginOk' /\ LoginWaits \in Nat /\ LoginWaits' \in Nat
         /\ LoginWaits = LoginWaits' + One(type \in Answers)
         /\ \A i \in Ids : LoginArrived(i)'
                <=> \/ LoginArrived(i)
                    \/ type = "CONNECT_SUCCESS" /\ Head(loginQ).id = i
         /\ \A i \in Ids : LoginKnown(i)'
                <=> \/ LoginKnown(i) /\ ~(type = "ON_RELEASE" /\ Head(loginQ).id = i)
                    \/ type = "CONNECT_SUCCESS" /\ Head(loginQ).id = i
<1>1. /\ QueueOk(loginPhase, loginQ) /\ loginQ \in Seq(Jobs) /\ loginPending \in Nat
      /\ loginQ # <<>> /\ Head(loginQ).type = type
      /\ loginQ' = Tail(loginQ) /\ UNCHANGED <<loginPhase, loginPending>>
  BY DEF ClientsOk, QueueOk, LoginJob, Login!TakeEvent
<1>2. /\ QueueOk(loginPhase, Tail(loginQ))
      /\ \A i \in Ids : Arrived(loginPhase, Tail(loginQ), i)
           <=> \/ Arrived(loginPhase, loginQ, i)
               \/ Head(loginQ).type = "CONNECT_SUCCESS" /\ Head(loginQ).id = i
      /\ \A i \in Ids : Known(loginPhase, Tail(loginQ), i)
           <=> \/ Known(loginPhase, loginQ, i)
                  /\ ~(Head(loginQ).type = "ON_RELEASE" /\ Head(loginQ).id = i)
               \/ Head(loginQ).type = "CONNECT_SUCCESS" /\ Head(loginQ).id = i
  BY <1>1, TakeJob
<1>3. /\ JobsIn(loginQ, Answers) \in Nat /\ JobsIn(Tail(loginQ), Answers) \in Nat
      /\ JobsIn(loginQ, Answers) = JobsIn(Tail(loginQ), Answers) + One(type \in Answers)
  BY <1>1, JobsCounted
<1>4. LoginOk'
  BY <1>1, <1>2 DEF LoginOk
<1>5. /\ LoginWaits \in Nat /\ LoginWaits' \in Nat
      /\ LoginWaits = LoginWaits' + One(type \in Answers)
  <2>1. LoginWaits' = loginPending + JobsIn(Tail(loginQ), Answers)
    BY <1>1 DEF LoginWaits, WaitsOf
  <2>2. One(type \in Answers) \in Nat
    BY DEF One
  <2> QED BY <1>1, <1>3, <2>1, <2>2 DEF LoginWaits, WaitsOf
<1>6. /\ \A i \in Ids : Known(loginPhase', loginQ', i) = Known(loginPhase, Tail(loginQ), i)
      /\ \A i \in Ids : Arrived(loginPhase', loginQ', i) = Arrived(loginPhase, Tail(loginQ), i)
  BY <1>1
<1> QED BY <1>1, <1>2, <1>4, <1>5, <1>6 DEF LoginKnown, LoginArrived

\* A worker's step, a Connect, or none
LEMMA LoginKept ==
  ASSUME ClientsOk, LoginPosts \/ Login!Ask \/ UNCHANGED loginNet
  PROVE  /\ LoginOk' /\ SameLogin /\ LoginWaits \in Nat /\ LoginWaits' \in Nat
         /\ Login!Ask => LoginWaits' = LoginWaits + 1
         /\ LoginPosts \/ UNCHANGED loginNet => LoginWaits' = LoginWaits
<1>1. /\ QueueOk(loginPhase, loginQ) /\ loginQ \in Seq(Jobs) /\ loginPending \in Nat
      /\ JobsIn(loginQ, Answers) \in Nat
  <2>1. QueueOk(loginPhase, loginQ) /\ loginQ \in Seq(Jobs) /\ loginPending \in Nat
    BY DEF ClientsOk, QueueOk
  <2> QED BY <2>1, JobsCounted
<1>2. ASSUME LoginPosts
      PROVE  /\ LoginOk' /\ SameLogin /\ LoginWaits' = LoginWaits
  <2>1. PostStep(loginPhase, loginPhase', loginPending, loginPending', loginQ, loginQ')
    BY <1>2 DEF LoginPosts
  <2>3. QueueOk(loginPhase', loginQ') /\ loginPending' \in Nat
    BY <1>1, <2>1, PostStepKeeps
  <2>4. \A i \in Ids : Arrived(loginPhase', loginQ', i) <=> Arrived(loginPhase, loginQ, i)
    BY <1>1, <2>1, PostStepKeeps
  <2>5. \A i \in Ids : Known(loginPhase', loginQ', i) <=> Known(loginPhase, loginQ, i)
    BY <1>1, <2>1, PostStepKeeps
  <2>6. SameWaits(loginPending, loginQ, loginPending', loginQ')
    BY <1>1, <2>1, PostStepKeeps
  <2> QED BY <2>3, <2>4, <2>5, <2>6
      DEF LoginOk, SameLogin, LoginKnown, LoginArrived, LoginWaits, SameWaits
<1>3. ASSUME UNCHANGED loginNet
      PROVE  /\ LoginOk' /\ SameLogin /\ LoginWaits' = LoginWaits
  BY <1>1, <1>3 DEF loginNet, LoginOk, SameLogin, LoginKnown, LoginArrived, LoginWaits, WaitsOf
<1>4. ASSUME Login!Ask
      PROVE  /\ LoginOk' /\ SameLogin /\ LoginWaits' = LoginWaits + 1
  BY <1>1, <1>4 DEF Login!Ask, LoginOk, SameLogin, LoginKnown, LoginArrived, LoginWaits, WaitsOf
<1>5. LoginWaits \in Nat
  BY <1>1 DEF LoginWaits, WaitsOf
<1>6. Login!Ask => ~LoginPosts /\ ~UNCHANGED loginNet
  <2>1. Login!Ask => loginPending' # loginPending /\ loginQ' = loginQ
    BY <1>1 DEF Login!Ask
  <2>2. LoginPosts => loginQ' # loginQ
    <3>1. \A e \in Jobs : Append(loginQ, e) # loginQ
      <4>1. \A e \in Jobs : Len(Append(loginQ, e)) = Len(loginQ) + 1 /\ Len(loginQ) \in Nat
        BY <1>1, AppendProperties
      <4>2. \A e \in Jobs : Len(Append(loginQ, e)) # Len(loginQ)
        BY <4>1
      <4> QED BY <4>2
    <3> QED BY <3>1 DEF LoginPosts, PostStep
  <2> QED BY <2>1, <2>2 DEF loginNet
<1> QED BY <1>2, <1>3, <1>4, <1>5, <1>6

\* What is left when Update takes a job of the chat client
LEMMA ChatJobTaken ==
  ASSUME ClientsOk, NEW type, ChatJob(type)
  PROVE  /\ ChatOk' /\ ChatWaits \in Nat /\ ChatWaits' \in Nat
         /\ ChatWaits = ChatWaits' + One(type \in Answers)
         /\ \A i \in Ids : ChatKnown(i)'
                <=> \/ ChatKnown(i) /\ ~(type = "ON_RELEASE" /\ Head(chatQ).id = i)
                    \/ type = "CONNECT_SUCCESS" /\ Head(chatQ).id = i
<1>1. /\ QueueOk(chatPhase, chatQ) /\ chatQ \in Seq(Jobs) /\ chatPending \in Nat
      /\ chatQ # <<>> /\ Head(chatQ).type = type
      /\ chatQ' = Tail(chatQ) /\ UNCHANGED <<chatPhase, chatPending>>
  BY DEF ClientsOk, QueueOk, ChatJob, Chat!TakeEvent
<1>2. /\ QueueOk(chatPhase, Tail(chatQ))
      /\ \A i \in Ids : Arrived(chatPhase, Tail(chatQ), i)
           <=> \/ Arrived(chatPhase, chatQ, i)
               \/ Head(chatQ).type = "CONNECT_SUCCESS" /\ Head(chatQ).id = i
      /\ \A i \in Ids : Known(chatPhase, Tail(chatQ), i)
           <=> \/ Known(chatPhase, chatQ, i)
                  /\ ~(Head(chatQ).type = "ON_RELEASE" /\ Head(chatQ).id = i)
               \/ Head(chatQ).type = "CONNECT_SUCCESS" /\ Head(chatQ).id = i
  BY <1>1, TakeJob
<1>3. /\ JobsIn(chatQ, Answers) \in Nat /\ JobsIn(Tail(chatQ), Answers) \in Nat
      /\ JobsIn(chatQ, Answers) = JobsIn(Tail(chatQ), Answers) + One(type \in Answers)
  BY <1>1, JobsCounted
<1>4. ChatOk'
  BY <1>1, <1>2 DEF ChatOk
<1>5. /\ ChatWaits \in Nat /\ ChatWaits' \in Nat
      /\ ChatWaits = ChatWaits' + One(type \in Answers)
  <2>1. ChatWaits' = chatPending + JobsIn(Tail(chatQ), Answers)
    BY <1>1 DEF ChatWaits, WaitsOf
  <2>2. One(type \in Answers) \in Nat
    BY DEF One
  <2> QED BY <1>1, <1>3, <2>1, <2>2 DEF ChatWaits, WaitsOf
<1>6. /\ \A i \in Ids : Known(chatPhase', chatQ', i) = Known(chatPhase, Tail(chatQ), i)
      /\ \A i \in Ids : Arrived(chatPhase', chatQ', i) = Arrived(chatPhase, Tail(chatQ), i)
  BY <1>1
<1> QED BY <1>1, <1>2, <1>4, <1>5, <1>6 DEF ChatKnown, LoginArrived

\* A worker's step, a Connect, or none
LEMMA ChatKept ==
  ASSUME ClientsOk, ChatPosts \/ Chat!Ask \/ UNCHANGED chatNet
  PROVE  /\ ChatOk' /\ SameChat /\ ChatWaits \in Nat /\ ChatWaits' \in Nat
         /\ Chat!Ask => ChatWaits' = ChatWaits + 1
         /\ ChatPosts \/ UNCHANGED chatNet => ChatWaits' = ChatWaits
<1>1. /\ QueueOk(chatPhase, chatQ) /\ chatQ \in Seq(Jobs) /\ chatPending \in Nat
      /\ JobsIn(chatQ, Answers) \in Nat
  <2>1. QueueOk(chatPhase, chatQ) /\ chatQ \in Seq(Jobs) /\ chatPending \in Nat
    BY DEF ClientsOk, QueueOk
  <2> QED BY <2>1, JobsCounted
<1>2. ASSUME ChatPosts
      PROVE  /\ ChatOk' /\ SameChat /\ ChatWaits' = ChatWaits
  <2>1. PostStep(chatPhase, chatPhase', chatPending, chatPending', chatQ, chatQ')
    BY <1>2 DEF ChatPosts
  <2>3. QueueOk(chatPhase', chatQ') /\ chatPending' \in Nat
    BY <1>1, <2>1, PostStepKeeps
  <2>4. \A i \in Ids : Arrived(chatPhase', chatQ', i) <=> Arrived(chatPhase, chatQ, i)
    BY <1>1, <2>1, PostStepKeeps
  <2>5. \A i \in Ids : Known(chatPhase', chatQ', i) <=> Known(chatPhase, chatQ, i)
    BY <1>1, <2>1, PostStepKeeps
  <2>6. SameWaits(chatPending, chatQ, chatPending', chatQ')
    BY <1>1, <2>1, PostStepKeeps
  <2> QED BY <2>3, <2>4, <2>5, <2>6 DEF ChatOk, SameChat, ChatKnown, ChatWaits, SameWaits
<1>3. ASSUME UNCHANGED chatNet
      PROVE  /\ ChatOk' /\ SameChat /\ ChatWaits' = ChatWaits
  BY <1>1, <1>3 DEF chatNet, ChatOk, SameChat, ChatKnown, LoginArrived, ChatWaits, WaitsOf
<1>4. ASSUME Chat!Ask
      PROVE  /\ ChatOk' /\ SameChat /\ ChatWaits' = ChatWaits + 1
  BY <1>1, <1>4 DEF Chat!Ask, ChatOk, SameChat, ChatKnown, LoginArrived, ChatWaits, WaitsOf
<1>5. ChatWaits \in Nat
  BY <1>1 DEF ChatWaits, WaitsOf
<1>6. Chat!Ask => ~ChatPosts /\ ~UNCHANGED chatNet
  <2>1. Chat!Ask => chatPending' # chatPending /\ chatQ' = chatQ
    BY <1>1 DEF Chat!Ask
  <2>2. ChatPosts => chatQ' # chatQ
    <3>1. \A e \in Jobs : Append(chatQ, e) # chatQ
      <4>1. \A e \in Jobs : Len(Append(chatQ, e)) = Len(chatQ) + 1 /\ Len(chatQ) \in Nat
        BY <1>1, AppendProperties
      <4>2. \A e \in Jobs : Len(Append(chatQ, e)) # Len(chatQ)
        BY <4>1
      <4> QED BY <4>2
    <3> QED BY <3>1 DEF ChatPosts, PostStep
  <2> QED BY <2>1, <2>2 DEF chatNet
<1> QED BY <1>2, <1>3, <1>4, <1>5, <1>6

-----------------------------------------------------------------------------
(* The jobs stay in order, the maps have who is known *)

\* What a step does to the jobs of each client
LEMMA StepJobs ==
  ASSUME ClientsOk, Step
  PROVE  /\ (\E type \in {"CONNECT_SUCCESS", "RECV_MESSAGE", "ON_RELEASE", "CONNECT_FAIL",
                          "ALL_RECONNECT_FAIL"} : LoginJob(type))
            \/ LoginPosts \/ Login!Ask \/ UNCHANGED loginNet
         /\ (\E type \in {"CONNECT_SUCCESS", "RECV_MESSAGE", "ON_RELEASE", "CONNECT_FAIL",
                          "ALL_RECONNECT_FAIL"} : ChatJob(type))
            \/ ChatPosts \/ Chat!Ask \/ UNCHANGED chatNet
<1>1. ASSUME NEW p \in Ids, \/ TakesAccount(p) \/ LoggedIn(p) \/ MovesOn(p) \/ FailsLogin(p)
                            \/ GivesUp(p) \/ AsksLogin(p) \/ \E v \in Ids : TakesOver(p, v)
      PROVE  /\ (\E type \in {"CONNECT_SUCCESS", "RECV_MESSAGE", "ON_RELEASE"} : LoginJob(type))
                \/ UNCHANGED loginNet
             /\ ChatJob("ALL_RECONNECT_FAIL") \/ Chat!Ask \/ UNCHANGED chatNet
  BY <1>1 DEF TakesAccount, Joins, TakesOver, LoggedIn, MovesOn, FailsLogin, LoginDown,
              GivesUp, AsksLogin, ChatJob
<1>2. ASSUME NEW c \in Ids, NEW p \in Ids,
             \/ \E tests \in SUBSET Tests : JoinsChat(c, p, tests)
             \/ LogsIn(c, p) \/ LeavesUnknown(c, p) \/ LeavesChat(c, p)
             \/ AsksChat(c, p) \/ Plays(c, p)
             \/ \E type \in Replies : PlaysOn(c, p, type)
      PROVE  /\ UNCHANGED loginNet
             /\ (\E type \in {"CONNECT_SUCCESS", "RECV_MESSAGE", "ON_RELEASE"} : ChatJob(type))
                \/ UNCHANGED chatNet
  BY <1>2 DEF JoinsChat, LogsIn, LeavesUnknown, LeavesChat, AsksChat, Plays, PlaysOn,
              ChatMessage, ChatJob
<1>3. CASE LoginConnectFail \/ LoginAllReconnectFail
  BY <1>3 DEF LoginConnectFail, LoginAllReconnectFail
<1>4. CASE ChatConnectFail \/ \E c \in Ids : Overhears(c)
  BY <1>4 DEF ChatConnectFail, Overhears, ChatMessage, ChatJob
<1>5. CASE Connect \/ Drained \/ Return \/ UNCHANGED vars
  BY <1>5 DEF Connect, Drained, Return, vars
<1>6. CASE Network
  BY <1>6, NetworkPosts
<1>7. CASE PlayerStep
  BY <1>1, <1>2, <1>7 DEF PlayerStep
<1> QED BY <1>3, <1>4, <1>5, <1>6, <1>7 DEF Step, OtherStep

\* The jobs of the two clients stay in order.
LEMMA ClientsStep == ClientsOk /\ Step => ClientsOk'
<1> SUFFICES ASSUME ClientsOk, Step PROVE ClientsOk'
  OBVIOUS
<1>1. LoginOk'
  BY StepJobs, LoginJobTaken, LoginKept
<1>2. ChatOk'
  BY StepJobs, ChatJobTaken, ChatKept
<1> QED BY <1>1, <1>2 DEF ClientsOk, LoginOk, ChatOk

MapsHold ==
    /\ \A c \in Ids : Holder(c) # NoPlayer <=> ChatKnown(c)
    /\ \A c \in Ids : chatConnect[c] = NoPlayer \/ chatLogin[c] = NoPlayer
LoginMapOk == \A p \in Ids : p \in loginMap <=> LoginKnown(p)

\* g_loginPlayerMap keeps who is known.
LEMMA LoginMapStep == ContentsInv /\ Step => LoginMapOk'
<1> SUFFICES ASSUME ContentsInv, Step PROVE LoginMapOk'
  OBVIOUS
<1>0. ClientsOk /\ LoginMapOk
  BY DEF ContentsInv, MapsOk, LoginMapOk
<1>1. ASSUME UNCHANGED loginMap, SameLogin PROVE LoginMapOk'
  BY <1>0, <1>1 DEF LoginMapOk, SameLogin
<1>2. ASSUME UNCHANGED loginMap, NEW type \in {"RECV_MESSAGE", "CONNECT_FAIL",
                                              "ALL_RECONNECT_FAIL"}, LoginJob(type)
      PROVE  LoginMapOk'
  <2>1. \A i \in Ids : LoginKnown(i)' <=> LoginKnown(i)
    BY <1>0, <1>2, LoginJobTaken
  <2> QED BY <1>0, <1>2, <2>1 DEF LoginMapOk
<1>3. ASSUME NEW p \in Ids, Joins(p) PROVE LoginMapOk'
  <2>1. LoginJob("CONNECT_SUCCESS") /\ p = Head(loginQ).id /\ loginMap' = loginMap \cup {p}
    BY <1>3 DEF Joins
  <2>2. \A i \in Ids : LoginKnown(i)' <=> LoginKnown(i) \/ i = p
    BY <1>0, <2>1, LoginJobTaken
  <2> QED BY <1>0, <2>1, <2>2 DEF LoginMapOk
<1>4. ASSUME NEW p \in Ids, MovesOn(p) \/ FailsLogin(p) PROVE LoginMapOk'
  <2>1. LoginJob("ON_RELEASE") /\ p = Head(loginQ).id /\ loginMap' = loginMap \ {p}
    BY <1>4 DEF MovesOn, FailsLogin
  <2>2. \A i \in Ids : LoginKnown(i)' <=> LoginKnown(i) /\ i # p
    BY <1>0, <2>1, LoginJobTaken
  <2> QED BY <1>0, <2>1, <2>2 DEF LoginMapOk
<1>5. ASSUME NEW p \in Ids, GivesUp(p) \/ AsksLogin(p) PROVE LoginMapOk'
  <2>1. UNCHANGED loginNet /\ UNCHANGED loginMap
    BY <1>5 DEF GivesUp, AsksLogin, ChatJob, Acting, maps
  <2>2. SameLogin
    BY <1>0, <2>1, LoginKept
  <2> QED BY <1>1, <2>1, <2>2
<1>6. ASSUME NEW c \in Ids, NEW p \in Ids,
             \/ \E tests \in SUBSET Tests : JoinsChat(c, p, tests)
             \/ LogsIn(c, p) \/ LeavesUnknown(c, p) \/ LeavesChat(c, p)
             \/ AsksChat(c, p) \/ Plays(c, p)
             \/ \E type \in Replies : PlaysOn(c, p, type)
      PROVE  LoginMapOk'
  <2>1. UNCHANGED loginNet /\ UNCHANGED loginMap
    BY <1>6 DEF JoinsChat, LogsIn, LeavesUnknown, LeavesChat, AsksChat, Plays, PlaysOn,
                ChatMessage, ChatJob, Acting, maps
  <2>2. SameLogin
    BY <1>0, <2>1, LoginKept
  <2> QED BY <1>1, <2>1, <2>2
<1>7. CASE LoginConnectFail \/ LoginAllReconnectFail \/ \E p \in Ids : LoggedIn(p)
  <2>1. /\ UNCHANGED loginMap
        /\ \E type \in {"RECV_MESSAGE", "CONNECT_FAIL", "ALL_RECONNECT_FAIL"} : LoginJob(type)
    BY <1>7 DEF LoginConnectFail, LoginAllReconnectFail, LoggedIn, maps
  <2> QED BY <1>2, <2>1
<1>8. CASE \/ ChatConnectFail \/ (\E c \in Ids : Overhears(c)) \/ Drained \/ Return \/ Connect
           \/ Network \/ UNCHANGED vars
  <2>1. UNCHANGED loginMap
    BY <1>8 DEF ChatConnectFail, Overhears, Drained, Return, Connect, Acting, Network,
                LoginAnswers, LoginAttempt, ChatAnswers, ChatAttempt, LoginReplies, LoginGone,
                ChatReplies, ChatOther, ChatGone, LoginSide, ChatSide, Outside, vars, maps
  <2>2. LoginPosts \/ Login!Ask \/ UNCHANGED loginNet
    BY <1>0, <1>8, NetworkPosts DEF ChatConnectFail, Overhears, ChatMessage, ChatJob,
                Drained, Return, Connect, vars
  <2>3. SameLogin
    BY <1>0, <2>2, LoginKept
  <2> QED BY <1>1, <2>1, <2>3
<1>9. CASE PlayerStep
  BY <1>3, <1>4, <1>5, <1>6, <1>7, <1>9 DEF PlayerStep, TakesAccount, TakesOver
<1> QED BY <1>7, <1>8, <1>9 DEF Step, OtherStep

\* What the other steps leave alone
LEMMA OtherKeeps ==
  OtherStep => UNCHANGED <<player, gauge, loginMap, moveQ, chatConnect, chatLogin, nonConnected>>
BY DEF OtherStep, LoginConnectFail, LoginAllReconnectFail, ChatConnectFail, Overhears, Drained,
       Return, Connect, Acting, Network, LoginAnswers, LoginAttempt, ChatAnswers, ChatAttempt,
       LoginReplies, LoginGone, ChatReplies, ChatOther, ChatGone, LoginSide, ChatSide, Outside,
       vars, maps, players, slots

\* How the chat maps change
LEMMA ChatMapMoves ==
  ASSUME TypeOK, NEW c \in Ids, NEW p \in Ids,
         chatConnect[c] = NoPlayer \/ chatLogin[c] = NoPlayer
  PROVE  /\ \A tests : JoinsChat(c, p, tests) =>
                   /\ Holder(c)' = p /\ chatConnect'[c] = p /\ chatLogin'[c] = chatLogin[c]
                   /\ \A d \in Ids \ {c} : /\ Holder(d)' = Holder(d)
                                           /\ chatConnect'[d] = chatConnect[d]
                                           /\ chatLogin'[d] = chatLogin[d]
         /\ LogsIn(c, p) =>
                   /\ Holder(c) = p /\ Holder(c)' = p
                   /\ chatConnect'[c] = NoPlayer /\ chatLogin'[c] = p
                   /\ \A d \in Ids \ {c} : /\ Holder(d)' = Holder(d)
                                           /\ chatConnect'[d] = chatConnect[d]
                                           /\ chatLogin'[d] = chatLogin[d]
         /\ LeavesUnknown(c, p) \/ LeavesChat(c, p) =>
                   /\ Holder(c) = p /\ Holder(c)' = NoPlayer
                   /\ chatConnect'[c] = NoPlayer /\ chatLogin'[c] = NoPlayer
                   /\ \A d \in Ids \ {c} : /\ Holder(d)' = Holder(d)
                                           /\ chatConnect'[d] = chatConnect[d]
                                           /\ chatLogin'[d] = chatLogin[d]
<1>1. /\ chatConnect \in [Ids -> Ids \cup {NoPlayer}] /\ chatLogin \in [Ids -> Ids \cup {NoPlayer}]
  BY DEF TypeOK
<1>2. p # NoPlayer
  BY DEF Ids, NoPlayer
<1>3. ASSUME NEW tests, JoinsChat(c, p, tests)
      PROVE  /\ Holder(c)' = p /\ chatConnect'[c] = p /\ chatLogin'[c] = chatLogin[c]
             /\ \A d \in Ids \ {c} : /\ Holder(d)' = Holder(d)
                                     /\ chatConnect'[d] = chatConnect[d]
                                     /\ chatLogin'[d] = chatLogin[d]
  BY <1>1, <1>2, <1>3 DEF JoinsChat, Holder
<1>4. LogsIn(c, p) =>
             /\ Holder(c) = p /\ Holder(c)' = p
             /\ chatConnect'[c] = NoPlayer /\ chatLogin'[c] = p
             /\ \A d \in Ids \ {c} : /\ Holder(d)' = Holder(d)
                                     /\ chatConnect'[d] = chatConnect[d]
                                     /\ chatLogin'[d] = chatLogin[d]
  BY <1>1, <1>2 DEF LogsIn, Holder
<1>5. LeavesUnknown(c, p) \/ LeavesChat(c, p) =>
             /\ Holder(c) = p /\ Holder(c)' = NoPlayer
             /\ chatConnect'[c] = NoPlayer /\ chatLogin'[c] = NoPlayer
             /\ \A d \in Ids \ {c} : /\ Holder(d)' = Holder(d)
                                     /\ chatConnect'[d] = chatConnect[d]
                                     /\ chatLogin'[d] = chatLogin[d]
  BY <1>1, <1>2 DEF LeavesUnknown, LeavesChat, LeaveConnect, LeaveLogin, Holder
<1> QED BY <1>3, <1>4, <1>5

\* The chat maps keep who is known.
LEMMA ChatMapsStep == ContentsInv /\ Step => MapsHold'
<1> SUFFICES ASSUME ContentsInv, Step PROVE MapsHold'
  OBVIOUS
<1>0. ClientsOk /\ MapsHold /\ TypeOK
  BY DEF ContentsInv, MapsOk, MapsHold
<1>1. ASSUME UNCHANGED <<chatConnect, chatLogin>>, SameChat PROVE MapsHold'
  BY <1>0, <1>1 DEF MapsHold, SameChat, Holder
<1>2. ASSUME UNCHANGED <<chatConnect, chatLogin>>,
             NEW type \in {"RECV_MESSAGE", "CONNECT_FAIL", "ALL_RECONNECT_FAIL"}, ChatJob(type)
      PROVE  MapsHold'
  <2>1. \A i \in Ids : ChatKnown(i)' <=> ChatKnown(i)
    BY <1>0, <1>2, ChatJobTaken
  <2> QED BY <1>1, <1>2, <2>1 DEF SameChat
<1>3. ASSUME NEW p \in Ids, \/ TakesAccount(p) \/ LoggedIn(p) \/ MovesOn(p) \/ FailsLogin(p)
                            \/ AsksLogin(p) \/ \E v \in Ids : TakesOver(p, v)
      PROVE  MapsHold'
  <2>1. /\ UNCHANGED <<chatConnect, chatLogin>>
        /\ Chat!Ask \/ UNCHANGED chatNet
    BY <1>3 DEF TakesAccount, TakesOver, Joins, LoggedIn, MovesOn, FailsLogin, LoginDown,
                AsksLogin, Acting, maps
  <2>2. SameChat
    BY <1>0, <2>1, ChatKept
  <2> QED BY <1>1, <2>1, <2>2
<1>4. ASSUME NEW p \in Ids, GivesUp(p) PROVE MapsHold'
  BY <1>2, <1>4 DEF GivesUp
<1>5. ASSUME NEW c \in Ids, NEW p \in Ids, AsksChat(c, p) \/ Plays(c, p) PROVE MapsHold'
  <2>1. UNCHANGED <<chatConnect, chatLogin>> /\ UNCHANGED chatNet
    BY <1>5 DEF AsksChat, Plays, Acting, maps
  <2>2. SameChat
    BY <1>0, <2>1, ChatKept
  <2> QED BY <1>1, <2>1, <2>2
<1>6. ASSUME NEW c \in Ids, NEW p \in Ids, NEW type \in Replies, PlaysOn(c, p, type)
      PROVE  MapsHold'
  <2>1. ChatJob("RECV_MESSAGE") /\ UNCHANGED <<chatConnect, chatLogin>>
    BY <1>6 DEF PlaysOn, ChatMessage, maps
  <2> QED BY <1>2, <2>1
<1>7. ASSUME NEW c \in Ids, NEW p \in Ids, NEW tests, JoinsChat(c, p, tests) PROVE MapsHold'
  <2>1. /\ ChatJob("CONNECT_SUCCESS") /\ c = Head(chatQ).id /\ p # NoPlayer
        /\ Holder(c) = NoPlayer
    BY <1>7 DEF JoinsChat, Ids, NoPlayer
  <2>2. \A i \in Ids : ChatKnown(i)' <=> ChatKnown(i) \/ i = c
    BY <1>0, <2>1, ChatJobTaken
  <2>3. chatLogin[c] = NoPlayer
    BY <2>1 DEF Holder
  <2>4. /\ Holder(c)' = p /\ chatLogin'[c] = chatLogin[c]
        /\ \A d \in Ids \ {c} : /\ Holder(d)' = Holder(d) /\ chatConnect'[d] = chatConnect[d]
                                /\ chatLogin'[d] = chatLogin[d]
    BY <1>0, <1>7, <2>3, ChatMapMoves
  <2> QED BY <1>0, <2>1, <2>2, <2>3, <2>4 DEF MapsHold
<1>8. ASSUME NEW c \in Ids, NEW p \in Ids, LogsIn(c, p) PROVE MapsHold'
  <2>1. ChatJob("RECV_MESSAGE") /\ chatLogin[c] = NoPlayer
    BY <1>8 DEF LogsIn, ChatMessage
  <2>2. \A i \in Ids : ChatKnown(i)' <=> ChatKnown(i)
    BY <1>0, <2>1, ChatJobTaken
  <2>4. /\ Holder(c)' = Holder(c) /\ chatConnect'[c] = NoPlayer
        /\ \A d \in Ids \ {c} : /\ Holder(d)' = Holder(d) /\ chatConnect'[d] = chatConnect[d]
                                /\ chatLogin'[d] = chatLogin[d]
    BY <1>0, <1>8, <2>1, ChatMapMoves
  <2> QED BY <1>0, <2>2, <2>4 DEF MapsHold
<1>9. ASSUME NEW c \in Ids, NEW p \in Ids, LeavesUnknown(c, p) \/ LeavesChat(c, p) PROVE MapsHold'
  <2>1. /\ ChatJob("ON_RELEASE") /\ c = Head(chatQ).id
        /\ chatConnect[c] = NoPlayer \/ chatLogin[c] = NoPlayer
    BY <1>9 DEF LeavesUnknown, LeavesChat
  <2>2. \A i \in Ids : ChatKnown(i)' <=> ChatKnown(i) /\ i # c
    BY <1>0, <2>1, ChatJobTaken
  <2>4. /\ Holder(c)' = NoPlayer /\ chatConnect'[c] = NoPlayer
        /\ \A d \in Ids \ {c} : /\ Holder(d)' = Holder(d) /\ chatConnect'[d] = chatConnect[d]
                                /\ chatLogin'[d] = chatLogin[d]
    BY <1>0, <1>9, <2>1, ChatMapMoves
  <2> QED BY <1>0, <2>2, <2>4 DEF MapsHold
<1>10. CASE OtherStep
  <2>1. UNCHANGED <<chatConnect, chatLogin>>
    BY <1>10, OtherKeeps
  <2>2. CASE ChatConnectFail \/ \E c \in Ids : Overhears(c)
    <3>1. \E type \in {"RECV_MESSAGE", "CONNECT_FAIL"} : ChatJob(type)
      BY <2>2 DEF ChatConnectFail, Overhears, ChatMessage
    <3> QED BY <1>2, <2>1, <3>1
  <2>3. CASE LoginConnectFail \/ LoginAllReconnectFail \/ Drained \/ Return \/ Connect
             \/ Network \/ UNCHANGED vars
    <3>1. ChatPosts \/ UNCHANGED chatNet
      BY <1>0, <2>3, NetworkPosts DEF LoginConnectFail, LoginAllReconnectFail, Drained, Return,
                                      Connect, vars
    <3>2. SameChat
      BY <1>0, <3>1, ChatKept
    <3> QED BY <1>1, <2>1, <3>2
  <2> QED BY <1>10, <2>2, <2>3 DEF OtherStep
<1>11. CASE PlayerStep
  BY <1>3, <1>4, <1>5, <1>6, <1>7, <1>8, <1>9, <1>11 DEF PlayerStep
<1> QED BY <1>10, <1>11 DEF Step

\* All three maps do.
LEMMA MapsStep == ContentsInv /\ Step => MapsOk'
BY LoginMapStep, ChatMapsStep DEF MapsOk, LoginMapOk, MapsHold
-----------------------------------------------------------------------------
(* A player is where its state says *)

\* p gets this state, field and account, nobody else changes.
Becomes(p, s, f, a) ==
    /\ player'[p].state = s /\ player'[p].field = f /\ player'[p].pInfo = a
    /\ \A x \in Ids \ {p} : player'[x] = player[x]

\* p goes on to state s, or is chosen to disconnect.
GoesOn(p, s) ==
    \/ Becomes(p, s, player[p].field, player[p].pInfo)
    \/ /\ player[p].field \cap Tests = {}
       /\ Becomes(p, "CHAT_TRY_DISCONNECT", player[p].field \cup {"DISCONNECT_TARGET"},
                  player[p].pInfo)

\* p starts to send, or sends what it had reserved.
Sends(p) ==
    \/ Becomes(p, player[p].state, player[p].field \cup {"RESERVE_SEND_MESSAGE"}, player[p].pInfo)
    \/ Becomes(p, "CS_CHAT_REQ_SECTOR_MOVE_SENT", Register(player[p].field), player[p].pInfo)
    \/ /\ "REGISTER_AT_SECTOR" \in player[p].field
       /\ Becomes(p, "CS_CHAT_REQ_MESSAGE_SENT", player[p].field \ {"RESERVE_SEND_MESSAGE"},
                  player[p].pInfo)

\* What the steps at the login server, and giving up, make of the player
LEMMA LoginChanges ==
  ASSUME TypeOK, NEW p \in Ids
  PROVE  /\ TakesAccount(p) => Becomes(p, "LOGIN_CONNECT_SUCCESS", {}, Head(nonConnected))
         /\ LoggedIn(p) => Becomes(p, "LOGIN_TRY_DISCONNECT",
                                   player[p].field \cup {"DISCONNECT_TARGET"}, player[p].pInfo)
         /\ MovesOn(p) => Becomes(p, "CHAT_CONNECT_TRY", player[p].field, player[p].pInfo)
         /\ FailsLogin(p) \/ GivesUp(p) => Becomes(p, "none", {}, NoAccount)
         /\ AsksLogin(p) => Becomes(p, "CS_LOGIN_REQ_LOGIN_SENT", player[p].field, player[p].pInfo)
         /\ \A v \in Ids : TakesOver(p, v) =>
               /\ v # p
               /\ player'[p].state = "LOGIN_CONNECT_SUCCESS" /\ player'[p].field = {}
               /\ player'[p].pInfo = player[v].pInfo
               /\ player'[v].state = player[v].state /\ player'[v].pInfo = player[v].pInfo
               /\ player'[v].field = player[v].field \cup {"DUPLICATE_TARGET"}
               /\ \A x \in Ids \ {p, v} : player'[x] = player[x]
<1>1. player \in [Ids -> PlayerRecords]
  BY DEF TypeOK
<1>2. TakesAccount(p) => Becomes(p, "LOGIN_CONNECT_SUCCESS", {}, Head(nonConnected))
  BY <1>1 DEF TakesAccount, NewPlayer, Becomes
<1>3. LoggedIn(p) => Becomes(p, "LOGIN_TRY_DISCONNECT",
                             player[p].field \cup {"DISCONNECT_TARGET"}, player[p].pInfo)
  BY <1>1 DEF LoggedIn, PlayerRecords, Becomes
<1>4. MovesOn(p) => Becomes(p, "CHAT_CONNECT_TRY", player[p].field, player[p].pInfo)
  BY <1>1 DEF MovesOn, PlayerRecords, Becomes
<1>5. FailsLogin(p) \/ GivesUp(p) => Becomes(p, "none", {}, NoAccount)
  BY <1>1 DEF FailsLogin, LoginDown, GivesUp, Free, Unused, NewPlayer, Becomes
<1>6. AsksLogin(p) => Becomes(p, "CS_LOGIN_REQ_LOGIN_SENT", player[p].field, player[p].pInfo)
  BY <1>1 DEF AsksLogin, PlayerRecords, Becomes
<1>7. ASSUME NEW v \in Ids, TakesOver(p, v)
      PROVE  /\ v # p
             /\ player'[p].state = "LOGIN_CONNECT_SUCCESS" /\ player'[p].field = {}
             /\ player'[p].pInfo = player[v].pInfo
             /\ player'[v].state = player[v].state /\ player'[v].pInfo = player[v].pInfo
             /\ player'[v].field = player[v].field \cup {"DUPLICATE_TARGET"}
             /\ \A x \in Ids \ {p, v} : player'[x] = player[x]
  <2>1. v # p
    BY <1>7 DEF TakesOver, Joins, PlayStates, RecvStates, SentStates
  <2>2. player' = [player EXCEPT
            ![v].field = @ \cup {"DUPLICATE_TARGET"},
            ![p] = NewPlayer("LOGIN_CONNECT_SUCCESS", player[v].pInfo, TRUE)]
    BY <1>7 DEF TakesOver
  <2> QED BY <1>1, <2>1, <2>2 DEF NewPlayer, PlayerRecords
<1> QED BY <1>2, <1>3, <1>4, <1>5, <1>6, <1>7

\* What the steps at the chat server make of it
LEMMA ChatChanges ==
  ASSUME TypeOK, NEW c \in Ids, NEW p \in Ids
  PROVE  /\ \A tests : JoinsChat(c, p, tests) =>
               Becomes(p, "CHAT_CONNECT_SUCCESS",
                       (player[p].field \ {"DISCONNECT_TARGET"}) \cup tests, player[p].pInfo)
         /\ LogsIn(c, p) => GoesOn(p, "CS_CHAT_RES_LOGIN_RECV")
         /\ \A type : PlaysOn(c, p, type) => GoesOn(p, After[type])
         /\ LeavesUnknown(c, p) \/ LeavesChat(c, p) => Becomes(p, "none", {}, NoAccount)
         /\ AsksChat(c, p) => Becomes(p, "CS_CHAT_REQ_LOGIN_SENT", player[p].field, player[p].pInfo)
         /\ Plays(c, p) => Sends(p)
<1>1. player \in [Ids -> PlayerRecords]
  BY DEF TypeOK
<1>2. ASSUME NEW tests, JoinsChat(c, p, tests)
      PROVE  Becomes(p, "CHAT_CONNECT_SUCCESS",
                     (player[p].field \ {"DISCONNECT_TARGET"}) \cup tests, player[p].pInfo)
  BY <1>1, <1>2 DEF JoinsChat, StartChat, PlayerRecords, Becomes
<1>3. ASSUME NEW s, Answered(p, c, s) PROVE GoesOn(p, s)
  BY <1>1, <1>3 DEF Answered, GoesOn, PlayerRecords, Becomes
<1>4. LeavesUnknown(c, p) \/ LeavesChat(c, p) => Becomes(p, "none", {}, NoAccount)
  BY <1>1 DEF LeavesUnknown, LeavesChat, LeaveConnect, LeaveLogin, Free, Unused, NewPlayer, Becomes
<1>5. AsksChat(c, p) => Becomes(p, "CS_CHAT_REQ_LOGIN_SENT", player[p].field, player[p].pInfo)
  BY <1>1 DEF AsksChat, PlayerRecords, Becomes
<1>6. Plays(c, p) => Sends(p)
  <2>1. ASSUME ReserveSend(p) PROVE Sends(p)
    BY <1>1, <2>1 DEF ReserveSend, PlayerRecords, Becomes, Sends
  <2>2. ASSUME SendRandomChatMessage(p, c) PROVE Sends(p)
    BY <1>1, <2>2 DEF SendRandomChatMessage, PlayerRecords, Becomes, Sends
  <2> QED BY <2>1, <2>2 DEF Plays
<1> QED BY <1>2, <1>3, <1>4, <1>5, <1>6 DEF LogsIn, PlaysOn

\* Who has arrived stays so.
LEMMA ArrivedKept ==
  ASSUME ClientsOk, Step
  PROVE  \A p \in Ids : LoginArrived(p) => LoginArrived(p)'
<1>1. ASSUME NEW type, LoginJob(type) PROVE \A p \in Ids : LoginArrived(p) => LoginArrived(p)'
  BY <1>1, LoginJobTaken
<1>2. ASSUME LoginPosts \/ Login!Ask \/ UNCHANGED loginNet
      PROVE  \A p \in Ids : LoginArrived(p) => LoginArrived(p)'
  BY <1>2, LoginKept DEF SameLogin
<1> QED BY <1>1, <1>2, StepJobs

\* A player that does not move
LEMMA PlaceKept ==
  ASSUME NEW x \in Ids, PlaceOk(x), LoginArrived(x) => LoginArrived(x)',
         player'[x].state = player[x].state, player'[x].pInfo = player[x].pInfo,
         x \in loginMap' <=> x \in loginMap, Member(x, moveQ') <=> Member(x, moveQ),
         InMap(x, chatConnect') <=> InMap(x, chatConnect),
         InMap(x, chatLogin') <=> InMap(x, chatLogin)
  PROVE  PlaceOk(x)'
BY DEF PlaceOk, Alive

\* A player that is there, in one place by its state
LEMMA PlaceFound ==
  ASSUME NEW x \in Ids, PlaceOk(x)
  PROVE  /\ x \in loginMap => /\ player[x].state \in LoginStates /\ ~Member(x, moveQ)
                              /\ ~InMap(x, chatConnect) /\ ~InMap(x, chatLogin)
         /\ player[x].state = "CHAT_CONNECT_TRY" =>
               /\ x \notin loginMap /\ Member(x, moveQ)
               /\ ~InMap(x, chatConnect) /\ ~InMap(x, chatLogin)
         /\ player[x].state \in ChatConnectStates =>
               /\ x \notin loginMap /\ ~Member(x, moveQ)
               /\ InMap(x, chatConnect) /\ ~InMap(x, chatLogin)
         /\ player[x].state \in PlayStates =>
               /\ x \notin loginMap /\ ~Member(x, moveQ)
               /\ ~InMap(x, chatConnect) /\ InMap(x, chatLogin)
         /\ player[x].state = "none" => /\ x \notin loginMap /\ ~Member(x, moveQ)
                                        /\ ~InMap(x, chatConnect) /\ ~InMap(x, chatLogin)
         /\ player[x].state # "none" => LoginArrived(x) /\ player[x].pInfo \in Accounts
BY DEF PlaceOk, Alive, LoginStates, ChatConnectStates, PlayStates, RecvStates, SentStates

\* A player put where its new state belongs
LEMMA PlaceNew ==
  ASSUME NEW x \in Ids, NEW s, player'[x].state = s,
         s # "none" => LoginArrived(x)' /\ player'[x].pInfo \in Accounts,
         \/ s \in LoginStates /\ x \in loginMap' /\ ~Member(x, moveQ')
            /\ ~InMap(x, chatConnect') /\ ~InMap(x, chatLogin')
         \/ s = "CHAT_CONNECT_TRY" /\ x \notin loginMap' /\ Member(x, moveQ')
            /\ ~InMap(x, chatConnect') /\ ~InMap(x, chatLogin')
         \/ s \in ChatConnectStates /\ x \notin loginMap' /\ ~Member(x, moveQ')
            /\ InMap(x, chatConnect') /\ ~InMap(x, chatLogin')
         \/ s \in PlayStates /\ x \notin loginMap' /\ ~Member(x, moveQ')
            /\ ~InMap(x, chatConnect') /\ InMap(x, chatLogin')
         \/ s = "none" /\ x \notin loginMap' /\ ~Member(x, moveQ')
            /\ ~InMap(x, chatConnect') /\ ~InMap(x, chatLogin')
  PROVE  PlaceOk(x)'
<1>1. /\ \A t \in LoginStates : t \notin ChatConnectStates /\ t \notin PlayStates /\ t # "none"
                                /\ t # "CHAT_CONNECT_TRY"
      /\ \A t \in ChatConnectStates : t \notin PlayStates /\ t # "none" /\ t # "CHAT_CONNECT_TRY"
      /\ \A t \in PlayStates : t # "none" /\ t # "CHAT_CONNECT_TRY"
      /\ "none" # "CHAT_CONNECT_TRY"
  BY DEF LoginStates, ChatConnectStates, PlayStates, RecvStates, SentStates
<1> QED BY <1>1 DEF PlaceOk, Alive

Distinct(q) == \A m, n \in 1 .. Len(q) : q[m] = q[n] => m = n

\* What PlacesOk and TypeOK say of a state's maps
LEMMA PlacesFacts ==
  ASSUME TypeOK, PlacesOk
  PROVE  /\ \A x \in Ids : PlaceOk(x)
         /\ Distinct(moveQ) /\ moveQ \in Seq(Ids)
         /\ OneEach(chatConnect) /\ chatConnect \in [Ids -> Ids \cup {NoPlayer}]
         /\ OneEach(chatLogin) /\ chatLogin \in [Ids -> Ids \cup {NoPlayer}]
         /\ NoPlayer \notin Ids
<1>1. NoPlayer \notin Ids
  BY DEF Ids, NoPlayer
<1> QED BY <1>1 DEF PlacesOk, TypeOK, Distinct

\* PlacesOk of the next state, from its parts
LEMMA PlacesAre ==
  ASSUME \A x \in Ids : PlaceOk(x)', Distinct(moveQ'), OneEach(chatConnect'), OneEach(chatLogin')
  PROVE  PlacesOk'
BY DEF PlacesOk, Distinct

\* Steps at the login server
LEMMA LoginPlaces ==
  ASSUME ContentsInv, Step, NEW p \in Ids,
         TakesAccount(p) \/ LoggedIn(p) \/ MovesOn(p) \/ FailsLogin(p) \/ AsksLogin(p)
  PROVE  PlacesOk'
<1>0. /\ \A x \in Ids : PlaceOk(x)
      /\ Distinct(moveQ) /\ moveQ \in Seq(Ids) /\ OneEach(chatConnect) /\ OneEach(chatLogin)
      /\ TypeOK /\ ClientsOk
  BY PlacesFacts DEF ContentsInv
<1>1. \A x \in Ids : LoginArrived(x) => LoginArrived(x)'
  BY <1>0, ArrivedKept
<1>2. UNCHANGED <<chatConnect, chatLogin>>
  BY DEF TakesAccount, Joins, LoggedIn, MovesOn, FailsLogin, AsksLogin, Acting, maps
<1>3. CASE LoggedIn(p) \/ AsksLogin(p)
  <2>1. p \in loginMap /\ UNCHANGED <<loginMap, moveQ>>
    BY <1>3 DEF LoggedIn, AsksLogin, Acting, maps
  <2>0. PICK s \in LoginStates : \E f : Becomes(p, s, f, player[p].pInfo)
    BY <1>0, <1>3, LoginChanges DEF LoginStates
  <2>2. PICK f : Becomes(p, s, f, player[p].pInfo)
    BY <2>0
  <2>3. PlaceOk(p)'
    <3>1. /\ player'[p].state = s /\ player'[p].pInfo = player[p].pInfo
      BY <2>2 DEF Becomes
    <3>2. /\ ~Member(p, moveQ) /\ ~InMap(p, chatConnect) /\ ~InMap(p, chatLogin)
          /\ LoginArrived(p) /\ player[p].pInfo \in Accounts
      BY <1>0, <2>1, PlaceFound DEF LoginStates
    <3> QED BY <1>1, <1>2, <2>1, <3>1, <3>2, PlaceNew
  <2>4. ASSUME NEW x \in Ids, x # p PROVE PlaceOk(x)'
    BY <1>0, <1>1, <1>2, <2>1, <2>2, <2>4, PlaceKept DEF Becomes
  <2> QED BY <1>0, <1>2, <2>1, <2>3, <2>4, PlacesAre
<1>4. CASE TakesAccount(p)
  <2>1. /\ LoginJob("CONNECT_SUCCESS") /\ p = Head(loginQ).id /\ player[p].state = "none"
        /\ loginMap' = loginMap \cup {p} /\ UNCHANGED moveQ /\ nonConnected # <<>>
    BY <1>4 DEF TakesAccount, Joins
  <2>2. Becomes(p, "LOGIN_CONNECT_SUCCESS", {}, Head(nonConnected))
    BY <1>0, <1>4, LoginChanges
  <2>3. PlaceOk(p)'
    <3>1. LoginArrived(p)'
      BY <1>0, <2>1, LoginJobTaken
    <3>2. Head(nonConnected) \in Accounts
      <4>1. nonConnected \in Seq(Accounts)
        BY <1>0 DEF TypeOK
      <4> QED BY <2>1, <4>1, HeadTailProperties
    <3>3. /\ ~Member(p, moveQ) /\ ~InMap(p, chatConnect) /\ ~InMap(p, chatLogin)
      BY <1>0, <2>1, PlaceFound
    <3>4. player'[p].state = "LOGIN_CONNECT_SUCCESS" /\ player'[p].pInfo = Head(nonConnected)
          /\ "LOGIN_CONNECT_SUCCESS" \in LoginStates
      BY <2>2 DEF Becomes, LoginStates
    <3> QED BY <1>2, <2>1, <3>1, <3>2, <3>3, <3>4, PlaceNew
  <2>4. ASSUME NEW x \in Ids, x # p PROVE PlaceOk(x)'
    BY <1>0, <1>1, <1>2, <2>1, <2>2, <2>4, PlaceKept DEF Becomes
  <2> QED BY <1>0, <1>2, <2>1, <2>3, <2>4, PlacesAre
<1>5. CASE MovesOn(p)
  <2>1. /\ p \in loginMap /\ loginMap' = loginMap \ {p} /\ moveQ' = Append(moveQ, p)
    BY <1>5 DEF MovesOn
  <2>2. Becomes(p, "CHAT_CONNECT_TRY", player[p].field, player[p].pInfo)
    BY <1>0, <1>5, LoginChanges
  <2>3. /\ ~Member(p, moveQ) /\ ~InMap(p, chatConnect) /\ ~InMap(p, chatLogin)
        /\ LoginArrived(p) /\ player[p].pInfo \in Accounts
    BY <1>0, <2>1, PlaceFound DEF LoginStates
  <2>4. /\ Distinct(moveQ') /\ \A x \in Ids : Member(x, moveQ') <=> Member(x, moveQ) \/ x = p
    BY <1>0, <2>1, <2>3, MoveIn DEF Distinct
  <2>5. PlaceOk(p)'
    <3>1. player'[p].state = "CHAT_CONNECT_TRY" /\ player'[p].pInfo = player[p].pInfo
      BY <2>2 DEF Becomes
    <3> QED BY <1>1, <1>2, <2>1, <2>3, <2>4, <3>1, PlaceNew
  <2>6. ASSUME NEW x \in Ids, x # p PROVE PlaceOk(x)'
    BY <1>0, <1>1, <1>2, <2>1, <2>2, <2>4, <2>6, PlaceKept DEF Becomes
  <2> QED BY <1>0, <1>2, <2>4, <2>5, <2>6, PlacesAre
<1>6. CASE FailsLogin(p)
  <2>1. p \in loginMap /\ loginMap' = loginMap \ {p} /\ UNCHANGED moveQ
    BY <1>6 DEF FailsLogin, LoginDown
  <2>2. Becomes(p, "none", {}, NoAccount)
    BY <1>0, <1>6, LoginChanges
  <2>3. /\ ~Member(p, moveQ) /\ ~InMap(p, chatConnect) /\ ~InMap(p, chatLogin)
    BY <1>0, <2>1, PlaceFound
  <2>4. PlaceOk(p)'
    <3>1. player'[p].state = "none"
      BY <2>2 DEF Becomes
    <3> QED BY <1>2, <2>1, <2>3, <3>1, PlaceNew
  <2>5. ASSUME NEW x \in Ids, x # p PROVE PlaceOk(x)'
    BY <1>0, <1>1, <1>2, <2>1, <2>2, <2>5, PlaceKept DEF Becomes
  <2> QED BY <1>0, <1>2, <2>1, <2>4, <2>5, PlacesAre
<1> QED BY <1>3, <1>4, <1>5, <1>6

\* A duplicate login leaves its target where it is.
LEMMA TakesOverPlaces ==
  ASSUME ContentsInv, Step, NEW p \in Ids, NEW v \in Ids, TakesOver(p, v)
  PROVE  PlacesOk'
<1>0. /\ \A x \in Ids : PlaceOk(x)
      /\ Distinct(moveQ) /\ OneEach(chatConnect) /\ OneEach(chatLogin)
      /\ TypeOK /\ ClientsOk
  BY PlacesFacts DEF ContentsInv
<1>1. \A x \in Ids : LoginArrived(x) => LoginArrived(x)'
  BY <1>0, ArrivedKept
<1>2. /\ UNCHANGED <<moveQ, chatConnect, chatLogin>> /\ loginMap' = loginMap \cup {p}
      /\ LoginJob("CONNECT_SUCCESS") /\ p = Head(loginQ).id
      /\ player[p].state = "none" /\ player[v].state \in PlayStates
  BY DEF TakesOver, Joins
<1>3. /\ v # p
      /\ player'[p].state = "LOGIN_CONNECT_SUCCESS" /\ player'[p].pInfo = player[v].pInfo
      /\ player'[v].state = player[v].state /\ player'[v].pInfo = player[v].pInfo
      /\ \A x \in Ids \ {p, v} : player'[x] = player[x]
  BY <1>0, LoginChanges
<1>4. PlaceOk(p)'
  <2>1. LoginArrived(p)'
    BY <1>0, <1>2, LoginJobTaken
  <2>2. /\ ~Member(p, moveQ) /\ ~InMap(p, chatConnect) /\ ~InMap(p, chatLogin)
    BY <1>0, <1>2, PlaceFound
  <2>3. player[v].state # "none"
    BY <1>2 DEF PlayStates, RecvStates, SentStates
  <2>4. player[v].pInfo \in Accounts
    BY <1>0, <2>3, PlaceFound
  <2>5. "LOGIN_CONNECT_SUCCESS" \in LoginStates
    BY DEF LoginStates
  <2> QED BY <1>2, <1>3, <2>1, <2>2, <2>4, <2>5, PlaceNew
<1>5. ASSUME NEW x \in Ids, x # p PROVE PlaceOk(x)'
  <2>1. player'[x].state = player[x].state /\ player'[x].pInfo = player[x].pInfo
    BY <1>3, <1>5
  <2> QED BY <1>0, <1>1, <1>2, <1>5, <2>1, PlaceKept
<1> QED BY <1>0, <1>2, <1>4, <1>5, PlacesAre

\* Steps at the chat server that change a map or g_moveQ
LEMMA ChatPlaces ==
  ASSUME ContentsInv, Step, NEW c \in Ids, NEW p \in Ids,
         \/ \E tests \in SUBSET Tests : JoinsChat(c, p, tests)
         \/ GivesUp(p) \/ LogsIn(c, p) \/ LeavesUnknown(c, p) \/ LeavesChat(c, p)
  PROVE  PlacesOk'
<1>0. /\ \A x \in Ids : PlaceOk(x)
      /\ Distinct(moveQ) /\ moveQ \in Seq(Ids)
      /\ OneEach(chatConnect) /\ chatConnect \in [Ids -> Ids \cup {NoPlayer}]
      /\ OneEach(chatLogin) /\ chatLogin \in [Ids -> Ids \cup {NoPlayer}]
      /\ TypeOK /\ ClientsOk /\ MapsOk /\ PlacesOk /\ NoPlayer \notin Ids
  BY PlacesFacts DEF ContentsInv
<1>1. \A x \in Ids : LoginArrived(x) => LoginArrived(x)'
  BY <1>0, ArrivedKept
<1>2. UNCHANGED loginMap
  BY DEF JoinsChat, GivesUp, LogsIn, LeavesUnknown, LeavesChat
<1>3. ASSUME NEW tests, JoinsChat(c, p, tests) PROVE PlacesOk'
  <2>1. /\ moveQ # <<>> /\ p = Head(moveQ) /\ moveQ' = Tail(moveQ)
        /\ player[p].state = "CHAT_CONNECT_TRY" /\ Holder(c) = NoPlayer
        /\ chatConnect' = [chatConnect EXCEPT ![c] = p] /\ UNCHANGED chatLogin
    BY <1>3 DEF JoinsChat
  <2>2. /\ p \notin loginMap /\ ~InMap(p, chatConnect) /\ ~InMap(p, chatLogin)
        /\ LoginArrived(p) /\ player[p].pInfo \in Accounts
    BY <1>0, <2>1, PlaceFound
  <2>3. chatConnect[c] = NoPlayer
    BY <2>1 DEF Holder
  <2>4. /\ OneEach(chatConnect')
        /\ \A x \in Ids : InMap(x, chatConnect') <=> InMap(x, chatConnect) \/ x = p
    BY <1>0, <2>1, <2>2, <2>3, MapPut
  <2>5. /\ Distinct(moveQ') /\ \A x \in Ids : Member(x, moveQ') <=> Member(x, moveQ) /\ x # p
    BY <1>0, <2>1, MoveOut DEF Distinct
  <2>6. /\ player'[p].state = "CHAT_CONNECT_SUCCESS" /\ player'[p].pInfo = player[p].pInfo
        /\ \A x \in Ids \ {p} : player'[x] = player[x]
        /\ "CHAT_CONNECT_SUCCESS" \in ChatConnectStates
    BY <1>0, <1>3, ChatChanges DEF Becomes, ChatConnectStates
  <2>7. PlaceOk(p)'
    BY <1>1, <1>2, <2>1, <2>2, <2>4, <2>5, <2>6, PlaceNew
  <2>8. ASSUME NEW x \in Ids, x # p PROVE PlaceOk(x)'
    BY <1>0, <1>1, <1>2, <2>1, <2>4, <2>5, <2>6, <2>8, PlaceKept
  <2> QED BY <1>0, <2>1, <2>4, <2>5, <2>7, <2>8, PlacesAre
<1>4. CASE GivesUp(p)
  <2>1. /\ moveQ # <<>> /\ p = Head(moveQ) /\ moveQ' = Tail(moveQ)
        /\ player[p].state = "CHAT_CONNECT_TRY" /\ UNCHANGED <<chatConnect, chatLogin>>
    BY <1>4 DEF GivesUp
  <2>2. /\ p \notin loginMap /\ ~InMap(p, chatConnect) /\ ~InMap(p, chatLogin)
    BY <1>0, <2>1, PlaceFound
  <2>5. /\ Distinct(moveQ') /\ \A x \in Ids : Member(x, moveQ') <=> Member(x, moveQ) /\ x # p
    BY <1>0, <2>1, MoveOut DEF Distinct
  <2>6. player'[p].state = "none" /\ \A x \in Ids \ {p} : player'[x] = player[x]
    BY <1>0, <1>4, LoginChanges DEF Becomes
  <2>7. PlaceOk(p)'
    BY <1>2, <2>1, <2>2, <2>5, <2>6, PlaceNew
  <2>8. ASSUME NEW x \in Ids, x # p PROVE PlaceOk(x)'
    BY <1>0, <1>1, <1>2, <2>1, <2>5, <2>6, <2>8, PlaceKept
  <2> QED BY <1>0, <2>1, <2>5, <2>7, <2>8, PlacesAre
<1>5. CASE LogsIn(c, p)
  <2>1. /\ chatConnect[c] = p /\ chatLogin[c] = NoPlayer
        /\ player[p].state = "CS_CHAT_REQ_LOGIN_SENT" /\ UNCHANGED moveQ
        /\ chatConnect' = [chatConnect EXCEPT ![c] = NoPlayer]
        /\ chatLogin' = [chatLogin EXCEPT ![c] = p]
    BY <1>5 DEF LogsIn
  <2>2. player[p].state \in ChatConnectStates /\ player[p].state # "none"
    BY <2>1 DEF ChatConnectStates
  <2>3. /\ p \notin loginMap /\ ~Member(p, moveQ) /\ ~InMap(p, chatLogin)
        /\ LoginArrived(p) /\ player[p].pInfo \in Accounts
    BY <1>0, <2>2, PlaceFound
  <2>4. /\ OneEach(chatConnect')
        /\ \A x \in Ids : InMap(x, chatConnect') <=> InMap(x, chatConnect) /\ x # p
    BY <1>0, <2>1, MapDrop
  <2>5. /\ OneEach(chatLogin')
        /\ \A x \in Ids : InMap(x, chatLogin') <=> InMap(x, chatLogin) \/ x = p
    BY <1>0, <2>1, <2>3, MapPut
  <2>6. GoesOn(p, "CS_CHAT_RES_LOGIN_RECV")
    BY <1>0, <1>5, ChatChanges
  <2>7. /\ player'[p].state \in PlayStates /\ player'[p].pInfo = player[p].pInfo
        /\ \A x \in Ids \ {p} : player'[x] = player[x]
    BY <2>6 DEF GoesOn, Becomes, PlayStates, RecvStates
  <2>8. PlaceOk(p)'
    BY <1>1, <1>2, <2>1, <2>3, <2>4, <2>5, <2>7, PlaceNew
  <2>9. ASSUME NEW x \in Ids, x # p PROVE PlaceOk(x)'
    BY <1>0, <1>1, <1>2, <2>1, <2>4, <2>5, <2>7, <2>9, PlaceKept
  <2> QED BY <1>0, <2>1, <2>4, <2>5, <2>8, <2>9, PlacesAre
<1>6. CASE LeavesUnknown(c, p)
  <2>1. /\ chatConnect[c] = p /\ UNCHANGED <<moveQ, chatLogin>>
        /\ chatConnect' = [chatConnect EXCEPT ![c] = NoPlayer]
    BY <1>6 DEF LeavesUnknown, LeaveConnect
  <2>2. player[p].state \in ChatConnectStates
    BY <1>0, <2>1, HolderFacts
  <2>3. /\ p \notin loginMap /\ ~Member(p, moveQ) /\ ~InMap(p, chatLogin)
    BY <1>0, <2>2, PlaceFound
  <2>4. /\ OneEach(chatConnect')
        /\ \A x \in Ids : InMap(x, chatConnect') <=> InMap(x, chatConnect) /\ x # p
    BY <1>0, <2>1, MapDrop
  <2>6. player'[p].state = "none" /\ \A x \in Ids \ {p} : player'[x] = player[x]
    BY <1>0, <1>6, ChatChanges DEF Becomes
  <2>7. PlaceOk(p)'
    BY <1>2, <2>1, <2>3, <2>4, <2>6, PlaceNew
  <2>8. ASSUME NEW x \in Ids, x # p PROVE PlaceOk(x)'
    BY <1>0, <1>1, <1>2, <2>1, <2>4, <2>6, <2>8, PlaceKept
  <2> QED BY <1>0, <2>1, <2>4, <2>7, <2>8, PlacesAre
<1>7. CASE LeavesChat(c, p)
  <2>1. /\ chatLogin[c] = p /\ UNCHANGED <<moveQ, chatConnect>>
        /\ chatLogin' = [chatLogin EXCEPT ![c] = NoPlayer]
    BY <1>7 DEF LeavesChat, LeaveLogin
  <2>2. player[p].state \in PlayStates
    BY <1>0, <2>1, HolderFacts
  <2>3. /\ p \notin loginMap /\ ~Member(p, moveQ) /\ ~InMap(p, chatConnect)
    BY <1>0, <2>2, PlaceFound
  <2>4. /\ OneEach(chatLogin')
        /\ \A x \in Ids : InMap(x, chatLogin') <=> InMap(x, chatLogin) /\ x # p
    BY <1>0, <2>1, MapDrop
  <2>6. player'[p].state = "none" /\ \A x \in Ids \ {p} : player'[x] = player[x]
    BY <1>0, <1>7, ChatChanges DEF Becomes
  <2>7. PlaceOk(p)'
    BY <1>2, <2>1, <2>3, <2>4, <2>6, PlaceNew
  <2>8. ASSUME NEW x \in Ids, x # p PROVE PlaceOk(x)'
    BY <1>0, <1>1, <1>2, <2>1, <2>4, <2>6, <2>8, PlaceKept
  <2> QED BY <1>0, <2>1, <2>4, <2>7, <2>8, PlacesAre
<1> QED BY <1>3, <1>4, <1>5, <1>6, <1>7

\* Those that leave everybody where he is
LEMMA StaysInPlace ==
  ASSUME ContentsInv, Step, NEW c \in Ids, NEW p \in Ids,
         \/ AsksChat(c, p) \/ Plays(c, p) \/ \E type \in Replies : PlaysOn(c, p, type)
  PROVE  PlacesOk'
<1>0. /\ \A x \in Ids : PlaceOk(x)
      /\ Distinct(moveQ) /\ OneEach(chatConnect) /\ OneEach(chatLogin)
      /\ TypeOK /\ ClientsOk /\ MapsOk /\ PlacesOk /\ NoPlayer \notin Ids
  BY PlacesFacts DEF ContentsInv
<1>1. \A x \in Ids : LoginArrived(x) => LoginArrived(x)'
  BY <1>0, ArrivedKept
<1>2. UNCHANGED <<loginMap, moveQ, chatConnect, chatLogin>>
  BY DEF AsksChat, Plays, PlaysOn, Acting, maps
<1>3. /\ \A x \in Ids \ {p} : player'[x] = player[x]
      /\ player'[p].pInfo = player[p].pInfo
      /\ \/ player[p].state \in ChatConnectStates /\ player'[p].state \in ChatConnectStates
         \/ player[p].state \in PlayStates /\ player'[p].state \in PlayStates
  <2>1. CASE AsksChat(c, p)
    <3>1. Becomes(p, "CS_CHAT_REQ_LOGIN_SENT", player[p].field, player[p].pInfo)
      BY <1>0, <2>1, ChatChanges
    <3>2. player[p].state = "CHAT_CONNECT_SUCCESS"
      BY <2>1 DEF AsksChat
    <3> QED BY <3>1, <3>2 DEF Becomes, ChatConnectStates
  <2>2. CASE Plays(c, p)
    <3>1. Sends(p)
      BY <1>0, <2>2, ChatChanges
    <3>2. player[p].state \in RecvStates
      BY <2>2 DEF Plays
    <3> QED BY <3>1, <3>2 DEF Sends, Becomes, PlayStates, SentStates
  <2>3. ASSUME NEW type \in Replies, PlaysOn(c, p, type)
        PROVE  /\ \A x \in Ids \ {p} : player'[x] = player[x]
               /\ player'[p].pInfo = player[p].pInfo
               /\ player[p].state \in PlayStates /\ player'[p].state \in PlayStates
    <3>1. GoesOn(p, After[type])
      BY <1>0, <2>3, ChatChanges
    <3>2. chatLogin[c] = p /\ type \in {"RES_SECTOR_MOVE", "RES_MESSAGE"}
      BY <2>3 DEF PlaysOn
    <3>3. player[p].state \in PlayStates
      BY <1>0, <3>2, HolderFacts
    <3>4. After[type] \in RecvStates
      BY <3>2 DEF After, RecvStates
    <3> QED BY <3>1, <3>3, <3>4 DEF GoesOn, Becomes, PlayStates
  <2> QED BY <2>1, <2>2, <2>3
<1>4. PlaceOk(p)'
  <2>1. /\ player[p].state # "none" /\ p \notin loginMap /\ ~Member(p, moveQ)
        /\ LoginArrived(p) /\ player[p].pInfo \in Accounts
        /\ player[p].state \in ChatConnectStates => InMap(p, chatConnect) /\ ~InMap(p, chatLogin)
        /\ player[p].state \in PlayStates => ~InMap(p, chatConnect) /\ InMap(p, chatLogin)
    <3>1. player[p].state # "none"
      BY <1>3 DEF ChatConnectStates, PlayStates, RecvStates, SentStates
    <3> QED BY <1>0, <1>3, <3>1, PlaceFound
  <2> QED BY <1>1, <1>2, <1>3, <2>1, PlaceNew
<1>5. ASSUME NEW x \in Ids, x # p PROVE PlaceOk(x)'
  BY <1>0, <1>1, <1>2, <1>3, <1>5, PlaceKept
<1> QED BY <1>0, <1>2, <1>4, <1>5, PlacesAre

\* Every step leaves each player where its state says.
LEMMA PlacesStep == ContentsInv /\ Step => PlacesOk'
<1> SUFFICES ASSUME ContentsInv, Step PROVE PlacesOk'
  OBVIOUS
<1>1. CASE PlayerStep
  <2>1. ASSUME NEW p \in Ids, GivesUp(p) PROVE PlacesOk'
    BY <2>1, ChatPlaces
  <2> QED BY <1>1, <2>1, LoginPlaces, TakesOverPlaces, ChatPlaces, StaysInPlace DEF PlayerStep
<1>2. CASE OtherStep
  <2>0. /\ \A x \in Ids : PlaceOk(x)
        /\ Distinct(moveQ) /\ OneEach(chatConnect) /\ OneEach(chatLogin) /\ ClientsOk
    BY PlacesFacts DEF ContentsInv
  <2>1. UNCHANGED <<player, loginMap, moveQ, chatConnect, chatLogin>>
    BY <1>2, OtherKeeps
  <2>2. \A x \in Ids : PlaceOk(x)'
    BY <2>0, <2>1, ArrivedKept, PlaceKept
  <2> QED BY <2>0, <2>1, <2>2, PlacesAre
<1> QED BY <1>1, <1>2 DEF Step
-----------------------------------------------------------------------------
(* Who is the target of which test *)

\* One player changes.
LEMMA FieldsAre ==
  ASSUME FieldsOk, NEW p \in Ids, NEW s, NEW f, NEW a, Becomes(p, s, f, a), FieldOk(s, f)
  PROVE  FieldsOk'
BY DEF FieldsOk, Becomes

\* A reply may add DISCONNECT_TARGET, to a player without a test only.
LEMMA FieldGoesOn ==
  ASSUME FieldsOk, NEW p \in Ids, NEW s \in RecvStates, GoesOn(p, s),
         \/ player[p].state = "CS_CHAT_REQ_LOGIN_SENT" /\ s = "CS_CHAT_RES_LOGIN_RECV"
         \/ player[p].state \in SentStates
  PROVE  FieldsOk'
<1> DEFINE f == player[p].field
<1>1. FieldOk(player[p].state, f)
  BY DEF FieldsOk
<1>2. /\ f \cap Tests \in {{}, {"DUPLICATE_TARGET"}, {"LOGIN_TIMOUT_TARGET"}, {"DISCONNECT_TARGET"}}
      /\ "LOGIN_TIMOUT_TARGET" \in f => s = "CS_CHAT_RES_LOGIN_RECV" /\ f = {"LOGIN_TIMOUT_TARGET"}
  <2>1. CASE player[p].state = "CS_CHAT_REQ_LOGIN_SENT" /\ s = "CS_CHAT_RES_LOGIN_RECV"
    <3>1. f \in {{}, {"LOGIN_TIMOUT_TARGET"}}
      BY <1>1, <2>1 DEF FieldOk, ChatConnectStates
    <3> QED BY <2>1, <3>1 DEF Tests
  <2>2. CASE player[p].state \in SentStates
    BY <1>1, <2>2 DEF FieldOk, SentStates, PlayStates
  <2> QED BY <2>1, <2>2
<1>3. s \notin LoginStates \cup {"none", "CHAT_CONNECT_TRY"} \cup ChatConnectStates
  BY DEF LoginStates, ChatConnectStates, RecvStates
<1>4. FieldOk(s, f)
  BY <1>2, <1>3 DEF FieldOk, ChatConnectStates
<1>5. ASSUME f \cap Tests = {}
      PROVE  FieldOk("CHAT_TRY_DISCONNECT", f \cup {"DISCONNECT_TARGET"})
  <2>1. (f \cup {"DISCONNECT_TARGET"}) \cap Tests = {"DISCONNECT_TARGET"}
    BY <1>5 DEF Tests
  <2>2. "LOGIN_TIMOUT_TARGET" \notin f \cup {"DISCONNECT_TARGET"}
    BY <1>5 DEF Tests
  <2> QED BY <2>1, <2>2 DEF FieldOk, LoginStates, ChatConnectStates
<1> QED BY <1>4, <1>5, FieldsAre DEF GoesOn

\* Every step leaves each player with what its state allows.
LEMMA FieldsStep == ContentsInv /\ Step => FieldsOk'
<1> SUFFICES ASSUME ContentsInv, Step PROVE FieldsOk'
  OBVIOUS
<1>0. /\ FieldsOk /\ TypeOK /\ \A x \in Ids : PlaceOk(x) /\ FieldOk(player[x].state, player[x].field)
  BY PlacesFacts DEF ContentsInv, FieldsOk
<1>1. ASSUME NEW p \in Ids, TakesAccount(p) PROVE FieldsOk'
  <2>1. Becomes(p, "LOGIN_CONNECT_SUCCESS", {}, Head(nonConnected))
    BY <1>0, <1>1, LoginChanges
  <2>2. FieldOk("LOGIN_CONNECT_SUCCESS", {})
    BY DEF FieldOk, PlayStates, RecvStates, SentStates
  <2> QED BY <1>0, <2>1, <2>2, FieldsAre
<1>2. ASSUME NEW p \in Ids, NEW v \in Ids, TakesOver(p, v) PROVE FieldsOk'
  <2>1. /\ player'[p].state = "LOGIN_CONNECT_SUCCESS" /\ player'[p].field = {}
        /\ player'[v].state = player[v].state
        /\ player'[v].field = player[v].field \cup {"DUPLICATE_TARGET"}
        /\ \A x \in Ids \ {p, v} : player'[x] = player[x]
    BY <1>0, <1>2, LoginChanges
  <2>2. player[v].state \in PlayStates /\ player[v].field \cap Tests = {}
    BY <1>2 DEF TakesOver
  <2>3. FieldOk("LOGIN_CONNECT_SUCCESS", {})
    BY DEF FieldOk, PlayStates, RecvStates, SentStates
  <2>4. FieldOk(player[v].state, player[v].field \cup {"DUPLICATE_TARGET"})
    <3>1. /\ (player[v].field \cup {"DUPLICATE_TARGET"}) \cap Tests = {"DUPLICATE_TARGET"}
          /\ "LOGIN_TIMOUT_TARGET" \notin player[v].field \cup {"DUPLICATE_TARGET"}
      BY <2>2 DEF Tests
    <3>2. player[v].state \notin LoginStates \cup {"none", "CHAT_CONNECT_TRY"} \cup ChatConnectStates
      BY <2>2 DEF LoginStates, ChatConnectStates, PlayStates, RecvStates, SentStates
    <3> QED BY <3>1, <3>2 DEF FieldOk, ChatConnectStates
  <2> QED BY <1>0, <2>1, <2>3, <2>4 DEF FieldsOk
<1>3. ASSUME NEW p \in Ids, LoggedIn(p) \/ MovesOn(p) PROVE FieldsOk'
  <2>1. player[p].state \in LoginStates
    BY <1>0, <1>3, PlaceFound DEF LoggedIn, MovesOn
  <2>2. player[p].field \subseteq {"DISCONNECT_TARGET"}
    BY <1>0, <2>1 DEF FieldOk
  <2>3. \E a : \/ Becomes(p, "LOGIN_TRY_DISCONNECT",
                          player[p].field \cup {"DISCONNECT_TARGET"}, a)
               \/ Becomes(p, "CHAT_CONNECT_TRY", player[p].field, a)
    BY <1>0, <1>3, LoginChanges
  <2>4. /\ FieldOk("LOGIN_TRY_DISCONNECT", player[p].field \cup {"DISCONNECT_TARGET"})
        /\ FieldOk("CHAT_CONNECT_TRY", player[p].field)
    BY <2>2 DEF FieldOk, LoginStates, ChatConnectStates, PlayStates, RecvStates, SentStates
  <2> QED BY <1>0, <2>3, <2>4, FieldsAre
<1>4. ASSUME NEW p \in Ids, \/ FailsLogin(p) \/ GivesUp(p)
                            \/ \E c \in Ids : LeavesUnknown(c, p) \/ LeavesChat(c, p)
      PROVE  FieldsOk'
  <2>1. Becomes(p, "none", {}, NoAccount)
    BY <1>0, <1>4, LoginChanges, ChatChanges
  <2>2. FieldOk("none", {})
    BY DEF FieldOk, LoginStates, ChatConnectStates, PlayStates, RecvStates, SentStates
  <2> QED BY <1>0, <2>1, <2>2, FieldsAre
<1>5. ASSUME NEW p \in Ids, AsksLogin(p) PROVE FieldsOk'
  <2>1. Becomes(p, "CS_LOGIN_REQ_LOGIN_SENT", {}, player[p].pInfo)
    BY <1>0, <1>5, LoginChanges DEF AsksLogin
  <2>2. FieldOk("CS_LOGIN_REQ_LOGIN_SENT", {})
    BY DEF FieldOk, PlayStates, RecvStates, SentStates
  <2> QED BY <1>0, <2>1, <2>2, FieldsAre
<1>6. ASSUME NEW c \in Ids, NEW p \in Ids, NEW tests, JoinsChat(c, p, tests) PROVE FieldsOk'
  <2>1. Becomes(p, "CHAT_CONNECT_SUCCESS",
                (player[p].field \ {"DISCONNECT_TARGET"}) \cup tests, player[p].pInfo)
    BY <1>0, <1>6, ChatChanges
  <2>2. /\ player[p].state = "CHAT_CONNECT_TRY"
        /\ tests \in {{}, {"SESSION_TIMEOUT_TARGET"}, {"LOGIN_TIMOUT_TARGET"}}
    BY <1>6 DEF JoinsChat
  <2>3. (player[p].field \ {"DISCONNECT_TARGET"}) \cup tests = tests
    <3>1. player[p].field \subseteq {"DISCONNECT_TARGET"}
      BY <1>0, <2>2 DEF FieldOk
    <3> QED BY <3>1
  <2>4. FieldOk("CHAT_CONNECT_SUCCESS", tests)
    BY <2>2 DEF FieldOk, LoginStates, PlayStates, RecvStates, SentStates
  <2> QED BY <1>0, <2>1, <2>3, <2>4, FieldsAre
<1>7. ASSUME NEW c \in Ids, NEW p \in Ids, LogsIn(c, p) PROVE FieldsOk'
  <2>1. GoesOn(p, "CS_CHAT_RES_LOGIN_RECV") /\ player[p].state = "CS_CHAT_REQ_LOGIN_SENT"
    BY <1>0, <1>7, ChatChanges DEF LogsIn
  <2>2. "CS_CHAT_RES_LOGIN_RECV" \in RecvStates
    BY DEF RecvStates
  <2> QED BY <1>0, <2>1, <2>2, FieldGoesOn
<1>8. ASSUME NEW c \in Ids, NEW p \in Ids, NEW type, PlaysOn(c, p, type) PROVE FieldsOk'
  <2>1. GoesOn(p, After[type])
    BY <1>0, <1>8, ChatChanges
  <2>2. type \in {"RES_SECTOR_MOVE", "RES_MESSAGE"} /\ player[p].state = ReplyTo[type]
    BY <1>8 DEF PlaysOn
  <2>3. After[type] \in RecvStates /\ ReplyTo[type] \in SentStates
    BY <2>2 DEF After, ReplyTo, RecvStates, SentStates
  <2> QED BY <1>0, <2>1, <2>2, <2>3, FieldGoesOn
<1>9. ASSUME NEW c \in Ids, NEW p \in Ids, AsksChat(c, p) PROVE FieldsOk'
  <2>1. Becomes(p, "CS_CHAT_REQ_LOGIN_SENT", player[p].field, player[p].pInfo)
    BY <1>0, <1>9, ChatChanges
  <2>2. player[p].state = "CHAT_CONNECT_SUCCESS" /\ "SESSION_TIMEOUT_TARGET" \notin player[p].field
    BY <1>9 DEF AsksChat, Silent
  <2>3. player[p].field \in {{}, {"LOGIN_TIMOUT_TARGET"}}
    BY <1>0, <2>2 DEF FieldOk, ChatConnectStates
  <2>4. FieldOk("CS_CHAT_REQ_LOGIN_SENT", player[p].field)
    BY <2>3 DEF FieldOk, LoginStates, PlayStates, RecvStates, SentStates
  <2> QED BY <1>0, <2>1, <2>4, FieldsAre
<1>10. ASSUME NEW c \in Ids, NEW p \in Ids, Plays(c, p) PROVE FieldsOk'
  <2>1. Sends(p)
    BY <1>0, <1>10, ChatChanges
  <2>2. player[p].state \in RecvStates /\ player[p].field \cap Tests = {}
    BY <1>10 DEF Plays
  <2>3. ASSUME NEW s \in PlayStates, NEW f, f \cap Tests = {} PROVE FieldOk(s, f)
    <3>1. "LOGIN_TIMOUT_TARGET" \notin f
      BY <2>3 DEF Tests
    <3> QED BY <2>3, <3>1 DEF FieldOk, LoginStates, ChatConnectStates, PlayStates, RecvStates,
                              SentStates
  <2>4. /\ (player[p].field \cup {"RESERVE_SEND_MESSAGE"}) \cap Tests = {}
        /\ Register(player[p].field) \cap Tests = {}
        /\ (player[p].field \ {"RESERVE_SEND_MESSAGE"}) \cap Tests = {}
    BY <2>2 DEF Tests, Register
  <2>5. /\ player[p].state \in PlayStates /\ "CS_CHAT_REQ_SECTOR_MOVE_SENT" \in PlayStates
        /\ "CS_CHAT_REQ_MESSAGE_SENT" \in PlayStates
    BY <2>2 DEF PlayStates, SentStates
  <2> QED BY <1>0, <2>1, <2>3, <2>4, <2>5, FieldsAre DEF Sends
<1>11. CASE PlayerStep
  BY <1>1, <1>2, <1>3, <1>4, <1>5, <1>6, <1>7, <1>8, <1>9, <1>10, <1>11 DEF PlayerStep
<1>12. CASE OtherStep
  BY <1>0, <1>12, OtherKeeps DEF FieldsOk
<1> QED BY <1>11, <1>12 DEF Step
-----------------------------------------------------------------------------
(* Slots, accounts and the monitor's numbers *)

Starts(p) == TakesAccount(p) \/ \E v \in Ids : TakesOver(p, v)
Ends(p) == FailsLogin(p) \/ GivesUp(p) \/ \E c \in Ids : LeavesUnknown(c, p) \/ LeavesChat(c, p)
Stays(p) ==
    \/ LoggedIn(p) \/ MovesOn(p) \/ AsksLogin(p)
    \/ \E c \in Ids : \/ \E tests \in SUBSET Tests : JoinsChat(c, p, tests)
                      \/ LogsIn(c, p) \/ AsksChat(c, p) \/ Plays(c, p)
                      \/ \E type \in Replies : PlaysOn(c, p, type)

\* A player step starts a player, ends one, or goes on with one.
LEMMA PlayerSteps == PlayerStep => \E p \in Ids : Starts(p) \/ Ends(p) \/ Stays(p)
BY DEF PlayerStep, Starts, Ends, Stays

\* What stays of a player as long as it lives
LEMMA Lives ==
  ASSUME ContentsInv, NEW p \in Ids, Stays(p)
  PROVE  /\ player[p].state # "none" /\ player'[p].state # "none"
         /\ player'[p].pInfo = player[p].pInfo
         /\ "DUPLICATE_TARGET" \in player'[p].field <=> "DUPLICATE_TARGET" \in player[p].field
         /\ \A x \in Ids \ {p} : player'[x] = player[x]
         /\ UNCHANGED <<slots>>
         /\ \/ /\ UNCHANGED gauge
               /\ "SESSION_TIMEOUT_TARGET" \in player'[p].field
                  <=> "SESSION_TIMEOUT_TARGET" \in player[p].field
            \/ \E c \in Ids, tests \in SUBSET Tests : JoinsChat(c, p, tests)
<1>0. TypeOK /\ MapsOk /\ PlacesOk /\ \A x \in Ids : PlaceOk(x)
  BY PlacesFacts DEF ContentsInv
<1> DEFINE Same(flag) == flag \in player'[p].field <=> flag \in player[p].field
<1> DEFINE Kept == /\ player[p].state # "none" /\ player'[p].state # "none"
                   /\ player'[p].pInfo = player[p].pInfo
                   /\ Same("DUPLICATE_TARGET")
                   /\ \A x \in Ids \ {p} : player'[x] = player[x]
                   /\ UNCHANGED <<slots>>
<1>1. CASE LoggedIn(p) \/ MovesOn(p) \/ AsksLogin(p)
  <2>1. player[p].state # "none"
    <3>1. p \in loginMap
      BY <1>1 DEF LoggedIn, MovesOn, AsksLogin
    <3>2. player[p].state \in LoginStates
      BY <1>0, <3>1, PlaceFound
    <3> QED BY <3>2 DEF LoginStates
  <2>2. \E s \in {"LOGIN_TRY_DISCONNECT", "CHAT_CONNECT_TRY", "CS_LOGIN_REQ_LOGIN_SENT"} :
          \/ Becomes(p, s, player[p].field \cup {"DISCONNECT_TARGET"}, player[p].pInfo)
          \/ Becomes(p, s, player[p].field, player[p].pInfo)
    BY <1>0, <1>1, LoginChanges
  <2>3. UNCHANGED <<slots, gauge>>
    BY <1>1 DEF LoggedIn, MovesOn, AsksLogin
  <2>4. Kept /\ Same("SESSION_TIMEOUT_TARGET")
    BY <2>1, <2>2, <2>3 DEF Becomes
  <2> QED BY <2>3, <2>4
<1>2. ASSUME NEW c \in Ids, NEW tests \in SUBSET Tests, JoinsChat(c, p, tests) PROVE Kept
  <2>1. Becomes(p, "CHAT_CONNECT_SUCCESS",
                (player[p].field \ {"DISCONNECT_TARGET"}) \cup tests, player[p].pInfo)
    BY <1>0, <1>2, ChatChanges
  <2>2. /\ player[p].state = "CHAT_CONNECT_TRY" /\ UNCHANGED <<slots>>
        /\ tests \in {{}, {"SESSION_TIMEOUT_TARGET"}, {"LOGIN_TIMOUT_TARGET"}}
    BY <1>2 DEF JoinsChat
  <2> QED BY <2>1, <2>2 DEF Becomes
<1>3. ASSUME NEW c \in Ids, \/ LogsIn(c, p) \/ AsksChat(c, p) \/ Plays(c, p)
                            \/ \E type \in Replies : PlaysOn(c, p, type)
      PROVE  Kept /\ Same("SESSION_TIMEOUT_TARGET") /\ UNCHANGED gauge
  <2>1. UNCHANGED <<slots, gauge>>
    BY <1>3 DEF LogsIn, AsksChat, Plays, PlaysOn, players
  <2>2. CASE Plays(c, p)
    <3>1. Sends(p) /\ player[p].state \in RecvStates
      BY <1>0, <2>2, ChatChanges DEF Plays
    <3>2. player[p].state # "none"
      BY <3>1 DEF RecvStates
    <3> QED BY <2>1, <3>1, <3>2 DEF Sends, Becomes, Register
  <2>3. CASE AsksChat(c, p)
    <3>1. /\ Becomes(p, "CS_CHAT_REQ_LOGIN_SENT", player[p].field, player[p].pInfo)
          /\ player[p].state = "CHAT_CONNECT_SUCCESS"
      BY <1>0, <2>3, ChatChanges DEF AsksChat
    <3> QED BY <2>1, <3>1 DEF Becomes
  <2>4. ASSUME LogsIn(c, p) \/ \E type \in Replies : PlaysOn(c, p, type)
        PROVE  /\ player[p].state # "none" /\ \E s \in RecvStates : GoesOn(p, s)
    <3>1. CASE LogsIn(c, p)
      BY <1>0, <3>1, ChatChanges DEF LogsIn, RecvStates
    <3>2. ASSUME NEW type \in Replies, PlaysOn(c, p, type)
          PROVE  player[p].state # "none" /\ After[type] \in RecvStates /\ GoesOn(p, After[type])
      <4>1. type \in {"RES_SECTOR_MOVE", "RES_MESSAGE"} /\ player[p].state = ReplyTo[type]
        BY <3>2 DEF PlaysOn
      <4>2. After[type] \in RecvStates /\ ReplyTo[type] # "none"
        BY <4>1 DEF After, ReplyTo, RecvStates
      <4> QED BY <1>0, <3>2, <4>1, <4>2, ChatChanges
    <3> QED BY <2>4, <3>1, <3>2
  <2>5. CASE LogsIn(c, p) \/ \E type \in Replies : PlaysOn(c, p, type)
    <3>1. PICK s \in RecvStates : GoesOn(p, s)
      BY <2>4, <2>5
    <3>2. s # "none" /\ player[p].state # "none"
      BY <2>4, <2>5 DEF RecvStates
    <3> QED BY <2>1, <3>1, <3>2 DEF GoesOn, Becomes
  <2> QED BY <1>3, <2>1, <2>2, <2>3, <2>5
<1> QED BY <1>1, <1>2, <1>3 DEF Stays

\* A player that ends: it was there, and its account goes back to
\* g_NonConnectedStack unless another player has it.
LEMMA Dies ==
  ASSUME ContentsInv, NEW p \in Ids, Ends(p)
  PROVE  /\ player[p].state # "none" /\ Becomes(p, "none", {}, NoAccount)
         /\ disconnectedNum' = disconnectedNum + 1
         /\ IF "DUPLICATE_TARGET" \in player[p].field THEN UNCHANGED nonConnected
            ELSE Push(player[p].pInfo)
         /\ gauge'.duplicate = gauge.duplicate - One("DUPLICATE_TARGET" \in player[p].field)
         /\ gauge'.session = gauge.session - One("SESSION_TIMEOUT_TARGET" \in player[p].field)
<1>0. /\ TypeOK /\ MapsOk /\ PlacesOk /\ \A x \in Ids : PlaceOk(x)
      /\ \A x \in Ids : FieldOk(player[x].state, player[x].field)
  BY PlacesFacts DEF ContentsInv, FieldsOk
<1>1. /\ gauge \in [{"duplicate", "session", "login"} -> Int]
      /\ gauge.duplicate \in Int /\ gauge.session \in Int
  BY <1>0 DEF TypeOK
<1>2. Becomes(p, "none", {}, NoAccount)
  BY <1>0, LoginChanges, ChatChanges DEF Ends
<1>3. CASE FailsLogin(p) \/ GivesUp(p)
  <2>1. player[p].state \in LoginStates \cup {"CHAT_CONNECT_TRY"}
    BY <1>0, <1>3, PlaceFound DEF FailsLogin, GivesUp
  <2>2. player[p].field \subseteq {"DISCONNECT_TARGET"}
    BY <1>0, <2>1 DEF FieldOk
  <2>3. player[p].state # "none"
    BY <2>1 DEF LoginStates
  <2>4. disconnectedNum' = disconnectedNum + 1 /\ Push(player[p].pInfo) /\ UNCHANGED gauge
    BY <1>3 DEF FailsLogin, LoginDown, GivesUp, GiveUp
  <2> QED BY <1>1, <1>2, <2>2, <2>3, <2>4 DEF One
<1>4. ASSUME NEW c \in Ids, LeavesUnknown(c, p)
      PROVE  /\ player[p].state # "none"
             /\ "DUPLICATE_TARGET" \notin player[p].field
             /\ disconnectedNum' = disconnectedNum + 1 /\ Push(player[p].pInfo)
             /\ gauge'.duplicate = gauge.duplicate
             /\ gauge'.session = gauge.session - One("SESSION_TIMEOUT_TARGET" \in player[p].field)
  <2>1. chatConnect[c] = p /\ p # NoPlayer
    BY <1>4 DEF LeavesUnknown, Ids, NoPlayer
  <2>2. player[p].state \in ChatConnectStates
    BY <1>0, <2>1, HolderFacts
  <2>3. player[p].field \in {{}, {"SESSION_TIMEOUT_TARGET"}, {"LOGIN_TIMOUT_TARGET"}}
    BY <1>0, <2>2 DEF FieldOk
  <2>4. player[p].state # "none"
    BY <2>2 DEF ChatConnectStates
  <2>5. gauge' = [gauge EXCEPT !["session"] =
                      @ + (IF "SESSION_TIMEOUT_TARGET" \in player[p].field THEN -1 ELSE 0)]
    BY <1>4, <2>1 DEF LeavesUnknown, LeaveConnect, Bump
  <2>6. /\ gauge'.duplicate = gauge.duplicate
        /\ gauge'.session = gauge.session
                            + (IF "SESSION_TIMEOUT_TARGET" \in player[p].field THEN -1 ELSE 0)
    BY <1>1, <2>5
  <2>7. gauge'.session = gauge.session - One("SESSION_TIMEOUT_TARGET" \in player[p].field)
    BY <1>1, <2>6 DEF One
  <2> QED BY <1>4, <2>1, <2>3, <2>4, <2>6, <2>7 DEF LeavesUnknown, LeaveConnect
<1>5. ASSUME NEW c \in Ids, LeavesChat(c, p)
      PROVE  /\ player[p].state # "none"
             /\ "SESSION_TIMEOUT_TARGET" \notin player[p].field
             /\ disconnectedNum' = disconnectedNum + 1
             /\ IF "DUPLICATE_TARGET" \in player[p].field THEN UNCHANGED nonConnected
                ELSE Push(player[p].pInfo)
             /\ gauge'.duplicate = gauge.duplicate - One("DUPLICATE_TARGET" \in player[p].field)
             /\ gauge'.session = gauge.session
  <2>1. chatLogin[c] = p /\ p # NoPlayer
    BY <1>5 DEF LeavesChat, Ids, NoPlayer
  <2>2. player[p].state \in PlayStates
    BY <1>0, <2>1, HolderFacts
  <2>3. "SESSION_TIMEOUT_TARGET" \notin player[p].field
    BY <1>0, <2>2 DEF FieldOk, Tests
  <2>4. player[p].state # "none"
    BY <2>2 DEF PlayStates, RecvStates, SentStates
  <2>5. IF "DUPLICATE_TARGET" \in player[p].field
        THEN gauge' = [gauge EXCEPT !["duplicate"] = @ + (-1)] /\ UNCHANGED nonConnected
        ELSE /\ Push(player[p].pInfo)
             /\ gauge' = [gauge EXCEPT !["login"] =
                      @ + (IF "LOGIN_TIMOUT_TARGET" \in player[p].field THEN -1 ELSE 0)]
    BY <1>5, <2>1 DEF LeavesChat, LeaveLogin, Bump
  <2>6. /\ gauge'.session = gauge.session
        /\ gauge'.duplicate = IF "DUPLICATE_TARGET" \in player[p].field
                              THEN gauge.duplicate + (-1) ELSE gauge.duplicate
    BY <1>1, <2>5
  <2>7. gauge'.duplicate = gauge.duplicate - One("DUPLICATE_TARGET" \in player[p].field)
    BY <1>1, <2>6 DEF One
  <2>8. disconnectedNum' = disconnectedNum + 1
    BY <1>5 DEF LeavesChat
  <2> QED BY <2>3, <2>4, <2>5, <2>6, <2>7, <2>8
<1>6. CASE \E c \in Ids : LeavesUnknown(c, p)
  <2>1. PICK c \in Ids : LeavesUnknown(c, p)
    BY <1>6
  <2>2. /\ player[p].state # "none"
        /\ "DUPLICATE_TARGET" \notin player[p].field
        /\ disconnectedNum' = disconnectedNum + 1 /\ Push(player[p].pInfo)
        /\ gauge'.duplicate = gauge.duplicate
        /\ gauge'.session = gauge.session - One("SESSION_TIMEOUT_TARGET" \in player[p].field)
    BY <1>4, <2>1
  <2> QED BY <1>1, <1>2, <2>2 DEF One
<1>7. CASE \E c \in Ids : LeavesChat(c, p)
  <2>1. PICK c \in Ids : LeavesChat(c, p)
    BY <1>7
  <2>2. /\ player[p].state # "none"
        /\ "SESSION_TIMEOUT_TARGET" \notin player[p].field
        /\ disconnectedNum' = disconnectedNum + 1
        /\ IF "DUPLICATE_TARGET" \in player[p].field THEN UNCHANGED nonConnected
           ELSE Push(player[p].pInfo)
        /\ gauge'.duplicate = gauge.duplicate - One("DUPLICATE_TARGET" \in player[p].field)
        /\ gauge'.session = gauge.session
    BY <1>5, <2>1
  <2>3. One("SESSION_TIMEOUT_TARGET" \in player[p].field) = 0
    BY <2>2 DEF One
  <2>4. gauge'.session = gauge.session - One("SESSION_TIMEOUT_TARGET" \in player[p].field)
    BY <1>1, <2>2, <2>3
  <2> QED BY <1>2, <2>2, <2>4
<1> QED BY <1>3, <1>6, <1>7 DEF Ends

\* A player that starts, with an account of the stack or with that of another
LEMMA Begins ==
  ASSUME ContentsInv, NEW p \in Ids, Starts(p)
  PROVE  /\ player[p].state = "none" /\ player[p].field = {}
         /\ player'[p].state # "none" /\ player'[p].field = {}
         /\ LoginJob("CONNECT_SUCCESS") /\ UNCHANGED <<disconnectedNum, moveQ, chatNet>>
         /\ TakesAccount(p) =>
               /\ player'[p].pInfo = Head(nonConnected) /\ nonConnected # <<>>
               /\ nonConnected' = Tail(nonConnected) /\ UNCHANGED gauge
               /\ \A x \in Ids \ {p} : player'[x] = player[x]
         /\ \A v \in Ids : TakesOver(p, v) =>
               /\ v # p /\ player[v].state # "none" /\ "DUPLICATE_TARGET" \notin player[v].field
               /\ player'[v].state # "none"
               /\ player'[v].field = player[v].field \cup {"DUPLICATE_TARGET"}
               /\ player'[p].pInfo = player[v].pInfo
               /\ UNCHANGED nonConnected
               /\ gauge'.duplicate = gauge.duplicate + 1 /\ gauge'.session = gauge.session
               /\ \A x \in Ids \ {p, v} : player'[x] = player[x]
<1>0. TypeOK /\ FieldOk(player[p].state, player[p].field)
  BY DEF ContentsInv, FieldsOk
<1>1. gauge \in [{"duplicate", "session", "login"} -> Int]
  BY <1>0 DEF TypeOK
<1>2. /\ player[p].state = "none" /\ LoginJob("CONNECT_SUCCESS")
      /\ UNCHANGED <<disconnectedNum, moveQ, chatNet>>
  BY DEF Starts, TakesAccount, TakesOver, Joins
<1>3. player[p].field = {}
  BY <1>0, <1>2 DEF FieldOk
<1>4. player'[p].state # "none" /\ player'[p].field = {}
  BY <1>0, LoginChanges DEF Starts, Becomes
<1>5. TakesAccount(p) =>
         /\ player'[p].pInfo = Head(nonConnected) /\ nonConnected # <<>>
         /\ nonConnected' = Tail(nonConnected) /\ UNCHANGED gauge
         /\ \A x \in Ids \ {p} : player'[x] = player[x]
  BY <1>0, LoginChanges DEF TakesAccount, Becomes
<1>6. ASSUME NEW v \in Ids, TakesOver(p, v)
      PROVE  /\ v # p /\ player[v].state # "none" /\ "DUPLICATE_TARGET" \notin player[v].field
             /\ player'[v].state # "none"
             /\ player'[v].field = player[v].field \cup {"DUPLICATE_TARGET"}
             /\ player'[p].pInfo = player[v].pInfo
             /\ UNCHANGED nonConnected
             /\ gauge'.duplicate = gauge.duplicate + 1 /\ gauge'.session = gauge.session
             /\ \A x \in Ids \ {p, v} : player'[x] = player[x]
  <2>1. /\ v # p /\ player'[p].pInfo = player[v].pInfo /\ player'[v].state = player[v].state
        /\ player'[v].field = player[v].field \cup {"DUPLICATE_TARGET"}
        /\ \A x \in Ids \ {p, v} : player'[x] = player[x]
    BY <1>0, <1>6, LoginChanges
  <2>2. /\ player[v].state \in PlayStates /\ player[v].field \cap Tests = {}
        /\ gauge' = [gauge EXCEPT !["duplicate"] = @ + 1] /\ UNCHANGED nonConnected
    BY <1>6 DEF TakesOver, Bump
  <2>3. player[v].state # "none" /\ "DUPLICATE_TARGET" \notin player[v].field
    BY <2>2 DEF PlayStates, RecvStates, SentStates, Tests
  <2>4. gauge'.duplicate = gauge.duplicate + 1 /\ gauge'.session = gauge.session
    BY <1>1, <2>2
  <2> QED BY <2>1, <2>2, <2>3, <2>4
<1> QED BY <1>2, <1>3, <1>4, <1>5, <1>6

\* The number of players after each step
LEMMA AliveStep ==
  ASSUME ContentsInv, NEW p \in Ids
  PROVE  /\ Cardinality(Alive) \in Nat /\ Cardinality(Alive') \in Nat
         /\ Starts(p) => Cardinality(Alive') = Cardinality(Alive) + 1
         /\ Ends(p) => Cardinality(Alive) = Cardinality(Alive') + 1
         /\ Stays(p) => Cardinality(Alive') = Cardinality(Alive)
<1>1. /\ Alive \in SUBSET Ids /\ Alive' \in SUBSET Ids
      /\ p \in Alive <=> player[p].state # "none"
      /\ p \in Alive' <=> player'[p].state # "none"
      /\ (\A x \in Ids \ {p} : x \in Alive' <=> x \in Alive) => Alive' \ {p} = Alive \ {p}
      /\ \A x \in Ids : player'[x].state # "none" <=> x \in Alive'
      /\ \A x \in Ids : player[x].state # "none" <=> x \in Alive
  BY DEF Alive
<1>2. /\ IsFiniteSet(Alive) /\ IsFiniteSet(Alive')
      /\ Cardinality(Alive) \in Nat /\ Cardinality(Alive') \in Nat
  BY <1>1, PlayersFinite
<1>3. ASSUME Alive' \ {p} = Alive \ {p}
      PROVE  Cardinality(Alive') = Cardinality(Alive) + One(p \in Alive') - One(p \in Alive)
  BY <1>2, <1>3, SetMoves
<1>4. ASSUME Starts(p) PROVE Alive' \ {p} = Alive \ {p} /\ p \notin Alive /\ p \in Alive'
  <2>1. p \notin Alive /\ p \in Alive'
    BY <1>1, <1>4, Begins
  <2>2. ASSUME NEW x \in Ids \ {p} PROVE x \in Alive' <=> x \in Alive
    <3>1. (player'[x] = player[x]) \/ (player'[x].state # "none" /\ player[x].state # "none")
      BY <1>4, <2>2, Begins DEF Starts
    <3> QED BY <1>1, <3>1
  <2> QED BY <1>1, <2>1, <2>2
<1>5. ASSUME Ends(p) PROVE Alive' \ {p} = Alive \ {p} /\ p \in Alive /\ p \notin Alive'
  BY <1>1, <1>5, Dies DEF Becomes
<1>6. ASSUME Stays(p) PROVE Alive' \ {p} = Alive \ {p} /\ p \in Alive /\ p \in Alive'
  BY <1>1, <1>6, Lives
<1> QED BY <1>2, <1>3, <1>4, <1>5, <1>6 DEF One

\* Slots
SlotsHold ==
    /\ disconnectedNum \in Int /\ LoginWaits \in Nat /\ Cardinality(Alive) \in Nat
    /\ disconnectedNum + LoginWaits + Cardinality(Alive) = MaxSession

\* The sum that SlotsConserved states
LEMMA SlotsAre ==
  ClientsOk /\ disconnectedNum \in Int /\ Cardinality(Alive) \in Nat =>
      (SlotsConserved <=> disconnectedNum + LoginWaits + Cardinality(Alive) = MaxSession)
<1> SUFFICES ASSUME ClientsOk, disconnectedNum \in Int, Cardinality(Alive) \in Nat
             PROVE  SlotsConserved <=> disconnectedNum + LoginWaits + Cardinality(Alive) = MaxSession
  OBVIOUS
<1>1. loginQ \in Seq(Jobs) /\ loginPending \in Nat
  BY DEF ClientsOk, QueueOk
<1>2. JobsIn(loginQ, Answers) \in Nat
  BY <1>1, JobsCounted
<1>3. LoginWaits = loginPending + JobsIn(loginQ, Answers)
  BY DEF LoginWaits, WaitsOf
<1>4. SlotsConserved <=> disconnectedNum + loginPending + JobsIn(loginQ, Answers)
                         + Cardinality(Alive) = MaxSession
  BY DEF SlotsConserved, Answers
<1> QED BY <1>1, <1>2, <1>3, <1>4

\* Every step keeps the sum: what one part loses another gains.
LEMMA SlotsStep == ContentsInv /\ Step => SlotsHold'
<1> SUFFICES ASSUME ContentsInv, Step PROVE SlotsHold'
  OBVIOUS
<1>0. /\ ClientsOk /\ disconnectedNum \in Int /\ Cardinality(Alive) \in Nat /\ MaxSession \in Nat
      /\ LoginWaits \in Nat /\ LoginWaits' \in Nat
  <2>1. disconnectedNum \in 0 .. MaxSession /\ ClientsOk
    BY DEF ContentsInv, TypeOK
  <2>2. LoginWaits \in Nat /\ LoginWaits' \in Nat
    BY <2>1, StepJobs, LoginJobTaken, LoginKept
  <2>3. Cardinality(Alive) \in Nat
    BY PlayersFinite DEF Alive
  <2> QED BY <2>1, <2>2, <2>3, SessionAssumption
<1>1. disconnectedNum + LoginWaits + Cardinality(Alive) = MaxSession
  BY <1>0, SlotsAre DEF ContentsInv
<1>2. ASSUME NEW p \in Ids, Starts(p) PROVE SlotsHold'
  <2>1. /\ LoginJob("CONNECT_SUCCESS") /\ UNCHANGED disconnectedNum
    BY <1>2, Begins
  <2>2. LoginWaits = LoginWaits' + 1
    BY <1>0, <2>1, LoginJobTaken DEF One, Answers
  <2>3. Cardinality(Alive') \in Nat /\ Cardinality(Alive') = Cardinality(Alive) + 1
    BY <1>2, AliveStep
  <2> QED BY <1>0, <1>1, <2>1, <2>2, <2>3 DEF SlotsHold
<1>3. ASSUME NEW p \in Ids, Ends(p) \/ Stays(p) PROVE LoginWaits' = LoginWaits
  <2>1. (\E type \in {"RECV_MESSAGE", "ON_RELEASE"} : LoginJob(type)) \/ UNCHANGED loginNet
    BY <1>3 DEF Ends, Stays, FailsLogin, GivesUp, LeavesUnknown, LeavesChat, LoggedIn, MovesOn,
                AsksLogin, JoinsChat, LogsIn, AsksChat, Plays, PlaysOn, ChatMessage, ChatJob
  <2>2. ASSUME NEW type \in {"RECV_MESSAGE", "ON_RELEASE"}, LoginJob(type)
        PROVE  LoginWaits' = LoginWaits
    <3>1. LoginWaits = LoginWaits' + One(type \in Answers)
      BY <1>0, <2>2, LoginJobTaken
    <3>2. One(type \in Answers) = 0
      BY DEF One, Answers
    <3> QED BY <1>0, <3>1, <3>2
  <2> QED BY <1>0, <2>1, <2>2, LoginKept
<1>4. ASSUME NEW p \in Ids, Ends(p) PROVE SlotsHold'
  <2>1. disconnectedNum' = disconnectedNum + 1
    BY <1>4, Dies
  <2>2. Cardinality(Alive') \in Nat /\ Cardinality(Alive) = Cardinality(Alive') + 1
    BY <1>4, AliveStep
  <2>3. LoginWaits' = LoginWaits
    BY <1>3, <1>4
  <2> QED BY <1>0, <1>1, <2>1, <2>2, <2>3 DEF SlotsHold
<1>5. ASSUME NEW p \in Ids, Stays(p) PROVE SlotsHold'
  <2>1. UNCHANGED disconnectedNum
    BY <1>5, Lives DEF slots
  <2>2. Cardinality(Alive') \in Nat /\ Cardinality(Alive') = Cardinality(Alive)
    BY <1>5, AliveStep
  <2>3. LoginWaits' = LoginWaits
    BY <1>3, <1>5
  <2> QED BY <1>0, <1>1, <2>1, <2>2, <2>3 DEF SlotsHold
<1>6. CASE OtherStep
  <2>1. Alive' = Alive
    BY <1>6, OtherKeeps DEF Alive
  <2>2. CASE LoginAllReconnectFail
    <3>1. LoginJob("ALL_RECONNECT_FAIL") /\ disconnectedNum' = disconnectedNum + 1
      BY <2>2 DEF LoginAllReconnectFail
    <3>2. LoginWaits = LoginWaits' + 1
      BY <1>0, <3>1, LoginJobTaken DEF One, Answers
    <3> QED BY <1>0, <1>1, <2>1, <3>1, <3>2 DEF SlotsHold
  <2>3. CASE LoginConnectFail
    <3>1. LoginJob("CONNECT_FAIL") /\ UNCHANGED disconnectedNum
      BY <2>3 DEF LoginConnectFail, slots
    <3>2. LoginWaits = LoginWaits' + One("CONNECT_FAIL" \in Answers) /\ "CONNECT_FAIL" \notin Answers
      BY <1>0, <3>1, LoginJobTaken DEF Answers
    <3>3. One("CONNECT_FAIL" \in Answers) = 0
      BY <3>2 DEF One
    <3> QED BY <1>0, <1>1, <2>1, <3>1, <3>2, <3>3 DEF SlotsHold
  <2>4. CASE Connect
    <3>1. Login!Ask /\ disconnectedNum' = disconnectedNum - 1
      BY <2>4 DEF Connect
    <3>2. LoginWaits' = LoginWaits + 1
      BY <1>0, <3>1, LoginKept
    <3> QED BY <1>0, <1>1, <2>1, <3>1, <3>2 DEF SlotsHold
  <2>5. CASE \/ ChatConnectFail \/ (\E c \in Ids : Overhears(c)) \/ Drained \/ Return
             \/ Network \/ UNCHANGED vars
    <3>1. UNCHANGED disconnectedNum
      BY <2>5 DEF ChatConnectFail, Overhears, Drained, Return, Network,
                LoginAnswers, LoginAttempt, ChatAnswers, ChatAttempt, LoginReplies, LoginGone,
                ChatReplies, ChatOther, ChatGone, LoginSide, ChatSide, Outside, vars, slots
    <3>2. LoginPosts \/ UNCHANGED loginNet
      BY <1>0, <2>5, NetworkPosts DEF ChatConnectFail, Overhears, ChatMessage, ChatJob,
                Drained, Return, vars
    <3>3. LoginWaits' = LoginWaits
      BY <1>0, <3>2, LoginKept
    <3> QED BY <1>0, <1>1, <2>1, <3>1, <3>3 DEF SlotsHold
  <2> QED BY <1>6, <2>2, <2>3, <2>4, <2>5 DEF OtherStep
<1> QED BY <1>2, <1>4, <1>5, <1>6, PlayerSteps DEF Step

\* g_moveQ
MovesHold == ChatWaits \in Nat /\ Len(moveQ) = ChatWaits

\* What MoveQMatches states
LEMMA MovesAre == ClientsOk => (MoveQMatches <=> Len(moveQ) = ChatWaits)
<1> SUFFICES ASSUME ClientsOk PROVE MoveQMatches <=> Len(moveQ) = ChatWaits
  OBVIOUS
<1> QED BY DEF ChatWaits, WaitsOf, MoveQMatches, Answers

\* g_moveQ and the Connects under way grow and shrink together.
LEMMA MovesStep == ContentsInv /\ Step => MovesHold'
<1> SUFFICES ASSUME ContentsInv, Step PROVE MovesHold'
  OBVIOUS
<1>0. ClientsOk /\ TypeOK /\ ChatWaits \in Nat /\ ChatWaits' \in Nat /\ Len(moveQ) = ChatWaits
  <2>1. ClientsOk /\ TypeOK
    BY DEF ContentsInv
  <2>2. ChatWaits \in Nat /\ ChatWaits' \in Nat
    BY <2>1, StepJobs, ChatJobTaken, ChatKept
  <2> QED BY <2>1, <2>2, MovesAre DEF ContentsInv
<1>1. moveQ \in Seq(Ids) /\ Len(moveQ) \in Nat
  <2>1. moveQ \in Seq(Ids)
    BY <1>0 DEF TypeOK
  <2> QED BY <2>1
<1>2. ASSUME NEW p \in Ids, MovesOn(p) PROVE MovesHold'
  <2>1. moveQ' = Append(moveQ, p) /\ Chat!Ask
    BY <1>2 DEF MovesOn
  <2>2. Len(moveQ') = Len(moveQ) + 1
    BY <1>1, <2>1
  <2>3. ChatWaits' = ChatWaits + 1
    BY <1>0, <2>1, ChatKept
  <2> QED BY <1>0, <2>2, <2>3 DEF MovesHold
<1>3. ASSUME NEW p \in Ids, \/ GivesUp(p)
                            \/ \E c \in Ids, tests \in SUBSET Tests : JoinsChat(c, p, tests)
      PROVE  MovesHold'
  <2>1. /\ \E type \in Answers : ChatJob(type)
        /\ moveQ # <<>> /\ moveQ' = Tail(moveQ)
    BY <1>3 DEF GivesUp, JoinsChat, Answers
  <2>2. Len(moveQ') = Len(moveQ) - 1
    BY <1>1, <2>1
  <2>3. ChatWaits = ChatWaits' + 1
    <3>1. PICK type \in Answers : ChatJob(type)
      BY <2>1
    <3>2. ChatWaits = ChatWaits' + One(type \in Answers)
      BY <1>0, <3>1, ChatJobTaken
    <3>3. One(type \in Answers) = 1
      BY DEF One
    <3> QED BY <3>2, <3>3
  <2>4. PICK n \in Nat : n = ChatWaits'
    BY <1>0
  <2>5. Len(moveQ) = n + 1
    BY <1>0, <2>3, <2>4
  <2>6. Len(moveQ') = n
    BY <2>2, <2>5
  <2> QED BY <2>4, <2>6 DEF MovesHold
<1>4. ASSUME UNCHANGED moveQ,
             \/ \E type \in {"RECV_MESSAGE", "ON_RELEASE", "CONNECT_FAIL"} : ChatJob(type)
             \/ ChatPosts \/ UNCHANGED chatNet
      PROVE  MovesHold'
  <2>1. ASSUME NEW type \in {"RECV_MESSAGE", "ON_RELEASE", "CONNECT_FAIL"}, ChatJob(type)
        PROVE  ChatWaits' = ChatWaits
    <3>1. ChatWaits = ChatWaits' + One(type \in Answers)
      BY <1>0, <2>1, ChatJobTaken
    <3>2. One(type \in Answers) = 0
      BY DEF One, Answers
    <3> QED BY <1>0, <3>1, <3>2
  <2>2. ChatWaits' = ChatWaits
    BY <1>0, <1>4, <2>1, ChatKept
  <2> QED BY <1>0, <1>4, <2>2 DEF MovesHold
<1>5. ASSUME NEW p \in Ids, \/ Starts(p) \/ LoggedIn(p) \/ AsksLogin(p) \/ FailsLogin(p)
                            \/ \E c \in Ids : \/ LogsIn(c, p) \/ AsksChat(c, p) \/ Plays(c, p)
                                              \/ LeavesUnknown(c, p) \/ LeavesChat(c, p)
                                              \/ \E type \in Replies : PlaysOn(c, p, type)
      PROVE  MovesHold'
  <2>1. UNCHANGED moveQ
    BY <1>5 DEF Starts, TakesAccount, TakesOver, Joins, LoggedIn, AsksLogin, FailsLogin, LoginDown,
                LogsIn, AsksChat, Plays, LeavesUnknown, LeavesChat, PlaysOn, Acting, maps
  <2>2. (\E type \in {"RECV_MESSAGE", "ON_RELEASE"} : ChatJob(type)) \/ UNCHANGED chatNet
    BY <1>5 DEF Starts, TakesAccount, TakesOver, Joins, LoggedIn, AsksLogin, FailsLogin, LoginDown,
                LogsIn, AsksChat, Plays, LeavesUnknown, LeavesChat, PlaysOn, ChatMessage
  <2> QED BY <1>4, <2>1, <2>2
<1>6. CASE PlayerStep
  <2>1. PICK p \in Ids : Starts(p) \/ Ends(p) \/ Stays(p)
    BY <1>6, PlayerSteps
  <2> QED BY <1>2, <1>3, <1>5, <2>1 DEF Ends, Stays
<1>7. CASE OtherStep
  <2>1. UNCHANGED moveQ
    BY <1>7, OtherKeeps
  <2>2. \/ \E type \in {"RECV_MESSAGE", "ON_RELEASE", "CONNECT_FAIL"} : ChatJob(type)
        \/ ChatPosts \/ UNCHANGED chatNet
    BY <1>0, <1>7, NetworkPosts DEF OtherStep, ChatConnectFail, Overhears, ChatMessage,
                LoginConnectFail, LoginAllReconnectFail, Drained, Return, Connect, vars
  <2> QED BY <1>4, <2>1, <2>2
<1> QED BY <1>6, <1>7 DEF Step

\* Who holds an account
Holding(a) == {p \in Alive \ Flagged("DUPLICATE_TARGET") : player[p].pInfo = a}

HoldingAre ==
  /\ \A a : /\ Holding(a) \in SUBSET Ids /\ IsFiniteSet(Holding(a)) /\ Cardinality(Holding(a)) \in Nat
  /\ \A a : \A x \in Ids : x \in Holding(a) <=> /\ player[x].state # "none"
                                          /\ "DUPLICATE_TARGET" \notin player[x].field
                                          /\ player[x].pInfo = a
  /\ AccountOnce <=> \A a \in Accounts : Times(a, nonConnected) + Cardinality(Holding(a)) = 1

\* The players that hold an account are finitely many.
LEMMA HoldingFacts == HoldingAre
<1>1. \A a : Holding(a) \in SUBSET Ids
  BY DEF Holding, Alive
<1>2. \A a : IsFiniteSet(Holding(a)) /\ Cardinality(Holding(a)) \in Nat
  BY <1>1, PlayersFinite
<1> QED BY <1>1, <1>2 DEF HoldingAre, Holding, Alive, Flagged, AccountOnce

\* An account that one player, or the stack, gets or loses
LEMMA HoldingMoves ==
  ASSUME NEW a, NEW p \in Ids, NEW q \in Ids,
         Holding(a) \ {p} = Holding(a)' \ {q}
  PROVE  /\ Cardinality(Holding(a)) \in Nat /\ Cardinality(Holding(a)') \in Nat
         /\ Cardinality(Holding(a)') + One(p \in Holding(a))
            = Cardinality(Holding(a)) + One(q \in Holding(a)')
<1>1. HoldingAre /\ HoldingAre'
  BY HoldingFacts, PTL
<1> DEFINE A == Holding(a)  B == Holding(a)'
<1>2. IsFiniteSet(A) /\ IsFiniteSet(B)
  BY <1>1 DEF HoldingAre
<1>3. A \ {p} = B \ {q}
  OBVIOUS
<1> HIDE DEF A, B
<1>4. /\ Cardinality(A) \in Nat /\ Cardinality(A \ {p}) \in Nat
      /\ Cardinality(A) = Cardinality(A \ {p}) + One(p \in A)
  BY <1>2, CardSplit
<1>5. /\ Cardinality(B) \in Nat /\ Cardinality(B) = Cardinality(B \ {q}) + One(q \in B)
  BY <1>2, CardSplit
<1>6. Cardinality(B) + One(p \in A) = Cardinality(A) + One(q \in B)
  BY <1>3, <1>4, <1>5 DEF One
<1> QED BY <1>4, <1>5, <1>6 DEF A, B

AccountHeld(a) == Times(a, nonConnected) + Cardinality(Holding(a)) = 1

AccountsHeld == \A a \in Accounts : AccountHeld(a)

\* What AccountOnce states
LEMMA AccountsAre == AccountOnce <=> AccountsHeld
BY HoldingFacts DEF HoldingAre, AccountHeld, AccountsHeld

\* Every step leaves each account in one place.
LEMMA AccountsStep == ContentsInv /\ Step => AccountOnce'
<1> SUFFICES ASSUME ContentsInv, Step PROVE AccountOnce'
  OBVIOUS
<1>0. /\ nonConnected \in Seq(Accounts) /\ TypeOK /\ \A x \in Ids : PlaceOk(x)
      /\ HoldingAre /\ HoldingAre'
  BY PlacesFacts, HoldingFacts, PTL DEF ContentsInv, TypeOK
<1>1. SUFFICES ASSUME NEW a \in Accounts PROVE AccountHeld(a)'
  <2>1. AccountOnce' <=> AccountsHeld'
    BY AccountsAre, PTL
  <2> QED BY <2>1 DEF AccountsHeld
<1> DEFINE A == Holding(a)  B == Holding(a)'
<1>2. PICK t \in Nat, n \in Nat : t = Times(a, nonConnected) /\ n = Cardinality(A) /\ t + n = 1
  <2>1. Times(a, nonConnected) \in Nat /\ Cardinality(A) \in Nat
    BY <1>0, TimesCounted DEF HoldingAre
  <2>2. AccountHeld(a)
    BY AccountsAre DEF ContentsInv, AccountsHeld
  <2> QED BY <2>1, <2>2 DEF AccountHeld
<1>3. SUFFICES Times(a, nonConnected') + Cardinality(B) = 1
  BY DEF AccountHeld, B
<1>4. /\ A \subseteq Ids /\ B \subseteq Ids
      /\ \A x \in Ids : x \in A <=> /\ player[x].state # "none"
                                    /\ "DUPLICATE_TARGET" \notin player[x].field
                                    /\ player[x].pInfo = a
      /\ \A x \in Ids : x \in B <=> /\ player'[x].state # "none"
                                    /\ "DUPLICATE_TARGET" \notin player'[x].field
                                    /\ player'[x].pInfo = a
  BY <1>0 DEF HoldingAre
<1>5. ASSUME NEW p \in Ids, NEW q \in Ids, A \ {p} = B \ {q}
      PROVE  Cardinality(B) \in Nat /\ Cardinality(B) + One(p \in A) = n + One(q \in B)
  BY <1>2, <1>5, HoldingMoves
<1> HIDE DEF A, B
<1>6. ASSUME NEW p \in Ids, TakesAccount(p) PROVE Times(a, nonConnected') + Cardinality(B) = 1
  <2>1. /\ player[p].state = "none" /\ player'[p].state # "none" /\ player'[p].field = {}
        /\ player'[p].pInfo = Head(nonConnected) /\ nonConnected # <<>>
        /\ nonConnected' = Tail(nonConnected)
        /\ \A x \in Ids \ {p} : player'[x] = player[x]
    BY <1>6, Begins DEF Starts
  <2>2. A \ {p} = B \ {p} /\ p \notin A /\ (p \in B <=> Head(nonConnected) = a)
    BY <1>4, <2>1
  <2>3. Cardinality(B) \in Nat /\ Cardinality(B) = n + One(Head(nonConnected) = a)
    BY <1>5, <2>2 DEF One
  <2>4. /\ Times(a, nonConnected') \in Nat
        /\ t = Times(a, nonConnected') + One(Head(nonConnected) = a)
    <3>1. /\ Times(a, Tail(nonConnected)) \in Nat
          /\ TimesMore(a, Tail(nonConnected), nonConnected, Head(nonConnected))
      BY <1>0, <2>1, TimesCounted
    <3> QED BY <1>2, <2>1, <3>1 DEF TimesMore
  <2> QED BY <1>2, <2>3, <2>4 DEF One
<1>7. ASSUME NEW p \in Ids, NEW v \in Ids, TakesOver(p, v)
      PROVE  Times(a, nonConnected') + Cardinality(B) = 1
  <2>1. /\ player[p].state = "none" /\ player'[p].state # "none" /\ player'[p].field = {}
        /\ v # p /\ player[v].state # "none" /\ "DUPLICATE_TARGET" \notin player[v].field
        /\ player'[v].field = player[v].field \cup {"DUPLICATE_TARGET"}
        /\ player'[p].pInfo = player[v].pInfo
        /\ UNCHANGED nonConnected
        /\ \A x \in Ids \ {p, v} : player'[x] = player[x]
    BY <1>7, Begins DEF Starts
  <2>2. /\ p \notin A /\ v \notin B /\ (v \in A <=> player[v].pInfo = a)
        /\ (p \in B <=> player[v].pInfo = a)
    BY <1>4, <2>1
  <2>3. A \ {v} = B \ {p}
    <3>1. ASSUME NEW x \in Ids, x # p, x # v PROVE x \in A <=> x \in B
      BY <1>4, <2>1, <3>1
    <3> QED BY <1>4, <2>2, <3>1
  <2>4. Cardinality(B) \in Nat /\ Cardinality(B) = n
    BY <1>5, <2>2, <2>3 DEF One
  <2> QED BY <1>2, <2>1, <2>4
<1>8. ASSUME NEW p \in Ids, Ends(p) PROVE Times(a, nonConnected') + Cardinality(B) = 1
  <2>1. /\ player[p].state # "none" /\ Becomes(p, "none", {}, NoAccount)
        /\ IF "DUPLICATE_TARGET" \in player[p].field THEN UNCHANGED nonConnected
           ELSE nonConnected' = <<player[p].pInfo>> \o nonConnected
    BY <1>8, Dies DEF Push
  <2>2. A \ {p} = B \ {p} /\ p \notin B
    BY <1>4, <2>1 DEF Becomes
  <2>3. Cardinality(B) \in Nat /\ Cardinality(B) + One(p \in A) = n
    BY <1>2, <1>5, <2>2 DEF One
  <2>4. CASE "DUPLICATE_TARGET" \in player[p].field
    <3>1. p \notin A
      BY <1>4, <2>4
    <3>2. Cardinality(B) = n
      BY <2>3, <3>1 DEF One
    <3> QED BY <1>2, <2>1, <2>4, <3>2
  <2>5. CASE "DUPLICATE_TARGET" \notin player[p].field
    <3>1. p \in A <=> player[p].pInfo = a
      BY <1>4, <2>1, <2>5
    <3>2. player[p].pInfo \in Accounts
      BY <1>0, <2>1, PlaceFound
    <3>3. Times(a, nonConnected') = t + One(player[p].pInfo = a)
      <4>1. TimesMore(a, nonConnected, <<player[p].pInfo>> \o nonConnected, player[p].pInfo)
        BY <1>0, <3>2, TimesCounted
      <4> QED BY <1>2, <2>1, <2>5, <4>1 DEF TimesMore
    <3>4. One(player[p].pInfo = a) = One(p \in A) /\ One(p \in A) \in Nat
      BY <3>1 DEF One
    <3> QED BY <1>2, <2>3, <3>3, <3>4
  <2> QED BY <2>4, <2>5
<1>9. ASSUME UNCHANGED nonConnected, \A x \in Ids : x \in A <=> x \in B
      PROVE  Times(a, nonConnected') + Cardinality(B) = 1
  <2>1. A = B
    BY <1>4, <1>9
  <2> QED BY <1>2, <1>9, <2>1
<1>10. ASSUME NEW p \in Ids, Stays(p) PROVE Times(a, nonConnected') + Cardinality(B) = 1
  <2>1. \A x \in Ids : x \in A <=> x \in B
    BY <1>4, <1>10, Lives
  <2>2. UNCHANGED nonConnected
    BY <1>10, Lives DEF slots
  <2> QED BY <1>9, <2>1, <2>2
<1>11. CASE OtherStep
  BY <1>4, <1>9, <1>11, OtherKeeps
<1> QED BY <1>6, <1>7, <1>8, <1>10, <1>11, PlayerSteps DEF Step, Starts

\* The monitor's numbers
FlagsAre ==
  \A flag : /\ Flagged(flag) \in SUBSET Ids /\ IsFiniteSet(Flagged(flag))
            /\ Cardinality(Flagged(flag)) \in Nat
            /\ \A x \in Ids : x \in Flagged(flag) <=> flag \in player[x].field
\* The players with a flag are finitely many.
LEMMA FlagFacts == FlagsAre
<1>1. \A flag : Flagged(flag) \in SUBSET Ids
  BY DEF Flagged
<1>2. \A flag : IsFiniteSet(Flagged(flag)) /\ Cardinality(Flagged(flag)) \in Nat
  BY <1>1, PlayersFinite
<1> QED BY <1>1, <1>2 DEF FlagsAre, Flagged

\* A flag that only one player may get or lose
LEMMA FlagMoves ==
  ASSUME NEW flag, NEW p \in Ids,
         \A x \in Ids \ {p} : flag \in player'[x].field <=> flag \in player[x].field
  PROVE  /\ Cardinality(Flagged(flag)) \in Nat /\ Cardinality(Flagged(flag)') \in Nat
         /\ Cardinality(Flagged(flag)') = Cardinality(Flagged(flag))
                + One(flag \in player'[p].field) - One(flag \in player[p].field)
<1> DEFINE A == Flagged(flag)  B == Flagged(flag)'
<1>1. FlagsAre /\ FlagsAre'
  BY FlagFacts, PTL
<1>2. /\ A \in SUBSET Ids /\ IsFiniteSet(A) /\ B \in SUBSET Ids /\ IsFiniteSet(B)
      /\ \A x \in Ids : x \in A <=> flag \in player[x].field
      /\ \A x \in Ids : x \in B <=> flag \in player'[x].field
  BY <1>1 DEF FlagsAre
<1> HIDE DEF A, B
<1>3. A \ {p} = B \ {p}
  BY <1>2
<1>4. /\ Cardinality(A) \in Nat /\ Cardinality(B) \in Nat
      /\ Cardinality(B) = Cardinality(A) + One(p \in B) - One(p \in A)
  BY <1>2, <1>3, SetMoves
<1>5. One(p \in B) = One(flag \in player'[p].field) /\ One(p \in A) = One(flag \in player[p].field)
  BY <1>2 DEF One
<1> QED BY <1>4, <1>5 DEF A, B

\* The gauges move with the flags they count.
LEMMA GaugesStep == ContentsInv /\ Step => GaugesExact'
<1> SUFFICES ASSUME ContentsInv, Step PROVE GaugesExact'
  OBVIOUS
<1> DEFINE Dup == Cardinality(Flagged("DUPLICATE_TARGET"))
           Ses == Cardinality(Flagged("SESSION_TIMEOUT_TARGET"))
<1>0. /\ TypeOK /\ gauge.duplicate = Dup /\ gauge.session = Ses /\ Dup \in Nat /\ Ses \in Nat
      /\ gauge \in [{"duplicate", "session", "login"} -> Int]
      /\ \A x \in Ids : FieldOk(player[x].state, player[x].field)
  <2>1. FlagsAre
    BY FlagFacts
  <2> QED BY <2>1 DEF FlagsAre, ContentsInv, TypeOK, GaugesExact, FieldsOk
<1>1. SUFFICES gauge'.duplicate = Dup' /\ gauge'.session = Ses'
  BY DEF GaugesExact
<1>2. PICK d \in Nat, s \in Nat : d = Dup /\ s = Ses
  BY <1>0
<1>3. ASSUME NEW flag, NEW p \in Ids,
             \A x \in Ids \ {p} : flag \in player'[x].field <=> flag \in player[x].field
      PROVE  /\ Cardinality(Flagged(flag)') = Cardinality(Flagged(flag))
                + One(flag \in player'[p].field) - One(flag \in player[p].field)
  BY <1>3, FlagMoves
<1>4. ASSUME NEW flag, \A x \in Ids : flag \in player'[x].field <=> flag \in player[x].field
      PROVE  Cardinality(Flagged(flag)') = Cardinality(Flagged(flag))
  <2>1. Flagged(flag)' = Flagged(flag)
    BY <1>4 DEF Flagged
  <2> QED BY <2>1
<1>5. ASSUME NEW p \in Ids, TakesAccount(p) PROVE gauge'.duplicate = Dup' /\ gauge'.session = Ses'
  <2>1. /\ player[p].field = {} /\ player'[p].field = {} /\ UNCHANGED gauge
        /\ \A x \in Ids \ {p} : player'[x] = player[x]
    BY <1>5, Begins DEF Starts
  <2>2. Dup' = Dup /\ Ses' = Ses
    BY <1>4, <2>1
  <2> QED BY <1>0, <2>1, <2>2
<1>6. ASSUME NEW p \in Ids, NEW v \in Ids, TakesOver(p, v)
      PROVE  gauge'.duplicate = Dup' /\ gauge'.session = Ses'
  <2>1. /\ player[p].field = {} /\ player'[p].field = {} /\ v # p
        /\ "DUPLICATE_TARGET" \notin player[v].field
        /\ player'[v].field = player[v].field \cup {"DUPLICATE_TARGET"}
        /\ gauge'.duplicate = gauge.duplicate + 1 /\ gauge'.session = gauge.session
        /\ \A x \in Ids \ {p, v} : player'[x] = player[x]
    BY <1>6, Begins DEF Starts
  <2>2. /\ \A x \in Ids \ {v} : "DUPLICATE_TARGET" \in player'[x].field
                                <=> "DUPLICATE_TARGET" \in player[x].field
        /\ \A x \in Ids : "SESSION_TIMEOUT_TARGET" \in player'[x].field
                          <=> "SESSION_TIMEOUT_TARGET" \in player[x].field
    BY <2>1
  <2>3. Dup' = Dup + One("DUPLICATE_TARGET" \in player'[v].field)
                   - One("DUPLICATE_TARGET" \in player[v].field)
    BY <1>3, <2>2
  <2>4. /\ One("DUPLICATE_TARGET" \in player'[v].field) = 1
        /\ One("DUPLICATE_TARGET" \in player[v].field) = 0
    BY <2>1 DEF One
  <2>5. Ses' = Ses
    BY <1>4, <2>2
  <2>6. Dup' = d + 1 /\ gauge'.duplicate = d + 1
    BY <1>0, <1>2, <2>1, <2>3, <2>4
  <2> QED BY <1>0, <2>1, <2>5, <2>6
<1>7. ASSUME NEW p \in Ids, Ends(p) PROVE gauge'.duplicate = Dup' /\ gauge'.session = Ses'
  <2>1. /\ Becomes(p, "none", {}, NoAccount)
        /\ gauge'.duplicate = gauge.duplicate - One("DUPLICATE_TARGET" \in player[p].field)
        /\ gauge'.session = gauge.session - One("SESSION_TIMEOUT_TARGET" \in player[p].field)
    BY <1>7, Dies
  <2>2. /\ player'[p].field = {} /\ \A x \in Ids \ {p} : player'[x] = player[x]
        /\ \A flag : flag \notin player'[p].field
    BY <2>1 DEF Becomes
  <2>3. /\ Dup' = Dup + One("DUPLICATE_TARGET" \in player'[p].field)
                   - One("DUPLICATE_TARGET" \in player[p].field)
        /\ Ses' = Ses + One("SESSION_TIMEOUT_TARGET" \in player'[p].field)
                   - One("SESSION_TIMEOUT_TARGET" \in player[p].field)
    BY <1>3, <2>2
  <2>4. /\ One("DUPLICATE_TARGET" \in player'[p].field) = 0
        /\ One("SESSION_TIMEOUT_TARGET" \in player'[p].field) = 0
        /\ One("DUPLICATE_TARGET" \in player[p].field) \in Nat
        /\ One("SESSION_TIMEOUT_TARGET" \in player[p].field) \in Nat
    BY <2>2 DEF One
  <2> QED BY <1>0, <1>2, <2>1, <2>3, <2>4
<1>8. ASSUME NEW c \in Ids, NEW p \in Ids, NEW tests \in SUBSET Tests, JoinsChat(c, p, tests)
      PROVE  gauge'.duplicate = Dup' /\ gauge'.session = Ses'
  <2>1. /\ player[p].state = "CHAT_CONNECT_TRY"
        /\ tests \in {{}, {"SESSION_TIMEOUT_TARGET"}, {"LOGIN_TIMOUT_TARGET"}}
        /\ gauge' = [gauge EXCEPT
                  !.session = @ + One("SESSION_TIMEOUT_TARGET" \in tests),
                  !.login = @ + One("LOGIN_TIMOUT_TARGET" \in tests)]
    BY <1>8 DEF JoinsChat
  <2>2. /\ gauge'.duplicate = d /\ gauge'.session = s + One("SESSION_TIMEOUT_TARGET" \in tests)
    BY <1>0, <1>2, <2>1
  <2>3. Becomes(p, "CHAT_CONNECT_SUCCESS",
                (player[p].field \ {"DISCONNECT_TARGET"}) \cup tests, player[p].pInfo)
    BY <1>0, <1>8, ChatChanges
  <2>4. player[p].field \subseteq {"DISCONNECT_TARGET"}
    BY <1>0, <2>1 DEF FieldOk
  <2>5. player'[p].field = tests /\ \A x \in Ids \ {p} : player'[x] = player[x]
    BY <2>1, <2>3, <2>4 DEF Becomes
  <2>6. \A x \in Ids : "DUPLICATE_TARGET" \in player'[x].field
                       <=> "DUPLICATE_TARGET" \in player[x].field
    BY <2>1, <2>4, <2>5
  <2>7. Dup' = Dup
    BY <1>4, <2>6
  <2>8. Ses' = Ses + One("SESSION_TIMEOUT_TARGET" \in player'[p].field)
                   - One("SESSION_TIMEOUT_TARGET" \in player[p].field)
    BY <1>3, <2>5
  <2>9. /\ One("SESSION_TIMEOUT_TARGET" \in player[p].field) = 0
        /\ One("SESSION_TIMEOUT_TARGET" \in tests) \in Nat
    BY <2>4 DEF One
  <2> QED BY <1>2, <2>2, <2>5, <2>7, <2>8, <2>9
<1>9. ASSUME NEW p \in Ids, Stays(p) PROVE gauge'.duplicate = Dup' /\ gauge'.session = Ses'
  <2>1. CASE \E c \in Ids, tests \in SUBSET Tests : JoinsChat(c, p, tests)
    BY <1>8, <2>1
  <2>2. CASE /\ UNCHANGED gauge
             /\ "SESSION_TIMEOUT_TARGET" \in player'[p].field
                <=> "SESSION_TIMEOUT_TARGET" \in player[p].field
    <3>1. /\ \A x \in Ids : "DUPLICATE_TARGET" \in player'[x].field
                            <=> "DUPLICATE_TARGET" \in player[x].field
          /\ \A x \in Ids : "SESSION_TIMEOUT_TARGET" \in player'[x].field
                            <=> "SESSION_TIMEOUT_TARGET" \in player[x].field
      BY <1>9, <2>2, Lives
    <3>2. Dup' = Dup /\ Ses' = Ses
      BY <1>4, <3>1
    <3> QED BY <1>0, <2>2, <3>2
  <2>3. \/ /\ UNCHANGED gauge
           /\ "SESSION_TIMEOUT_TARGET" \in player'[p].field
              <=> "SESSION_TIMEOUT_TARGET" \in player[p].field
        \/ \E c \in Ids, tests \in SUBSET Tests : JoinsChat(c, p, tests)
    BY <1>9, Lives
  <2> HIDE DEF Dup, Ses
  <2> QED BY <2>1, <2>2, <2>3
<1>10. CASE OtherStep
  <2>1. UNCHANGED <<player, gauge>>
    BY <1>10, OtherKeeps
  <2>2. Dup' = Dup /\ Ses' = Ses
    BY <1>4, <2>1
  <2> QED BY <1>0, <2>1, <2>2
<1> QED BY <1>5, <1>6, <1>7, <1>9, <1>10, PlayerSteps DEF Step, Starts
-----------------------------------------------------------------------------
(* Replies and messages *)

SameHeard(c) == Heard(c)' = Heard(c)
MoreHeard(c) == Heard(c)' = Heard(c) + 1
LessHeard(c) == Heard(c) = Heard(c)' + 1

\* A job that Update takes from the chat client, and the messages left
LEMMA HeardTaken ==
  ASSUME ClientsOk, NEW type, ChatJob(type), NEW c \in Ids
  PROVE  /\ Heard(c) \in Nat /\ Heard(c)' \in Nat
         /\ (type = "RECV_MESSAGE" /\ Head(chatQ).id = c) => LessHeard(c)
         /\ ~(type = "RECV_MESSAGE" /\ Head(chatQ).id = c) => SameHeard(c)
<1>1. /\ chatQ \in Seq(Jobs) /\ chatQ # <<>> /\ chatQ' = Tail(chatQ)
      /\ Head(chatQ).type = type
  BY DEF ClientsOk, QueueOk, ChatJob, Chat!TakeEvent
<1>2. Tail(chatQ) \in Seq(Jobs) /\ Head(chatQ) \in Jobs
  BY <1>1, HeadTailProperties
<1>3. Head(chatQ) \in {Message(c)} <=> (type = "RECV_MESSAGE" /\ Head(chatQ).id = c)
  BY <1>1, <1>2 DEF Jobs, Message
<1>4. PICK h, k \in Nat : /\ h = Cardinality(Places({Message(c)}, chatQ))
                          /\ k = Cardinality(Places({Message(c)}, Tail(chatQ)))
                          /\ h = k + One(Head(chatQ) \in {Message(c)})
  <2>1. /\ Cardinality(Places({Message(c)}, chatQ)) \in Nat
        /\ Cardinality(Places({Message(c)}, Tail(chatQ))) \in Nat
    BY <1>1, <1>2, PlacesFinite
  <2>2. Cardinality(Places({Message(c)}, chatQ))
        = Cardinality(Places({Message(c)}, Tail(chatQ))) + One(Head(chatQ) \in {Message(c)})
    BY <1>1, PlacesTail
  <2> QED BY <2>1, <2>2
<1>5. h = Heard(c) /\ k = Heard(c)'
  <2>1. Heard(c)' = Cardinality(Places({Message(c)}, Tail(chatQ)))
    BY <1>1 DEF Heard, Places, Message
  <2> QED BY <1>4, <2>1 DEF Heard
<1>6. CASE Head(chatQ) \in {Message(c)}
  <2>1. h = k + 1
    BY <1>4, <1>6 DEF One
  <2> QED BY <1>3, <1>5, <1>6, <2>1 DEF LessHeard
<1>7. CASE Head(chatQ) \notin {Message(c)}
  <2>1. h = k
    BY <1>4, <1>7 DEF One
  <2> QED BY <1>3, <1>5, <1>7, <2>1 DEF SameHeard
<1> QED BY <1>6, <1>7

\* A job that a worker posts, and the messages then
LEMMA HeardPosted ==
  ASSUME ClientsOk, NEW e \in Jobs, chatQ' = Append(chatQ, e), NEW c \in Ids
  PROVE  /\ Heard(c) \in Nat /\ Heard(c)' \in Nat
         /\ e = Message(c) => MoreHeard(c)
         /\ e # Message(c) => SameHeard(c)
<1>1. chatQ \in Seq(Jobs) /\ Append(chatQ, e) \in Seq(Jobs)
  <2>1. chatQ \in Seq(Jobs)
    BY DEF ClientsOk, QueueOk
  <2> QED BY <2>1, AppendProperties
<1>2. PICK h, k \in Nat : /\ h = Cardinality(Places({Message(c)}, chatQ))
                          /\ k = Cardinality(Places({Message(c)}, Append(chatQ, e)))
                          /\ k = h + One(e \in {Message(c)})
  <2>1. /\ Cardinality(Places({Message(c)}, chatQ)) \in Nat
        /\ Cardinality(Places({Message(c)}, Append(chatQ, e))) \in Nat
    BY <1>1, PlacesFinite
  <2>2. Cardinality(Places({Message(c)}, Append(chatQ, e)))
        = Cardinality(Places({Message(c)}, chatQ)) + One(e \in {Message(c)})
    BY <1>1, PlacesAppend
  <2> QED BY <2>1, <2>2
<1>3. h = Heard(c) /\ k = Heard(c)'
  <2>1. Heard(c)' = Cardinality(Places({Message(c)}, Append(chatQ, e)))
    BY DEF Heard, Places, Message
  <2> QED BY <1>2, <2>1 DEF Heard
<1>4. CASE e = Message(c)
  <2>1. k = h + 1
    BY <1>2, <1>4 DEF One
  <2> QED BY <1>3, <1>4, <2>1 DEF MoreHeard
<1>5. CASE e # Message(c)
  <2>1. h = k
    BY <1>2, <1>5 DEF One
  <2> QED BY <1>3, <1>5, <2>1 DEF SameHeard
<1> QED BY <1>4, <1>5

\* What a worker's step changes for a session
LEMMA WorkerTells ==
  ASSUME ClientsOk, NEW d \in Ids
  PROVE  /\ Chat!Message(d) => /\ chatPhase[d] = "up" /\ UNCHANGED chatPhase
                               /\ MoreHeard(d) /\ \A c \in Ids \ {d} : SameHeard(c)
         /\ Chat!Connected(d) => /\ \A c \in Ids : SameHeard(c)
                                 /\ \A c \in Ids : chatPhase[c] = "up" => chatPhase'[c] = "up"
         /\ Chat!Released(d) => /\ \A c \in Ids : SameHeard(c)
                                /\ \A c \in Ids \ {d} : chatPhase'[c] = chatPhase[c]
         /\ Chat!GivenUp \/ Chat!Attempt => UNCHANGED chatPhase /\ \A c \in Ids : SameHeard(c)
<1>1. /\ Chat!Event("CONNECT_SUCCESS", d) \in Jobs
      /\ Chat!Event("RECV_MESSAGE", d) \in Jobs
      /\ Chat!Event("ON_RELEASE", d) \in Jobs
      /\ Chat!Event("CONNECT_FAIL", Chat!NoOne) \in Jobs
      /\ Chat!Event("ALL_RECONNECT_FAIL", Chat!NoOne) \in Jobs
  BY DEF Chat!Event, Jobs, OfOne, Answers, Chat!NoOne, NoPlayer
<1>2. /\ Chat!Event("RECV_MESSAGE", d) = Message(d)
      /\ \A c \in Ids \ {d} : Chat!Event("RECV_MESSAGE", d) # Message(c)
      /\ \A c \in Ids : /\ Chat!Event("CONNECT_SUCCESS", d) # Message(c)
                        /\ Chat!Event("ON_RELEASE", d) # Message(c)
                        /\ Chat!Event("CONNECT_FAIL", Chat!NoOne) # Message(c)
                        /\ Chat!Event("ALL_RECONNECT_FAIL", Chat!NoOne) # Message(c)
  BY DEF Chat!Event, Message
<1>3. chatPhase \in [Ids -> Phases]
  BY DEF ClientsOk, QueueOk
<1>4. Chat!Message(d) => /\ chatPhase[d] = "up" /\ UNCHANGED chatPhase
                         /\ MoreHeard(d) /\ \A c \in Ids \ {d} : SameHeard(c)
  BY <1>1, <1>2, HeardPosted DEF Chat!Message, Chat!Tell
<1>5. Chat!Connected(d) => /\ \A c \in Ids : SameHeard(c)
                           /\ \A c \in Ids : chatPhase[c] = "up" => chatPhase'[c] = "up"
  BY <1>1, <1>2, <1>3, HeardPosted DEF Chat!Connected, Chat!Tell
<1>6. Chat!Released(d) => /\ \A c \in Ids : SameHeard(c)
                          /\ \A c \in Ids \ {d} : chatPhase'[c] = chatPhase[c]
  BY <1>1, <1>2, <1>3, HeardPosted DEF Chat!Released, Chat!Tell
<1>7. Chat!GivenUp => UNCHANGED chatPhase /\ \A c \in Ids : SameHeard(c)
  BY <1>1, <1>2, HeardPosted DEF Chat!GivenUp, Chat!Tell
<1>8. Chat!Attempt => UNCHANGED chatPhase /\ \A c \in Ids : SameHeard(c)
  BY <1>1, <1>2, HeardPosted DEF Chat!Attempt, Chat!Tell
<1> QED BY <1>4, <1>5, <1>6, <1>7, <1>8

\* A player that a session sees as before
Seen(p) ==
    /\ player'[p].state = player[p].state
    /\ "REGISTER_AT_SECTOR" \in player'[p].field <=> "REGISTER_AT_SECTOR" \in player[p].field

SameServer(c) ==
    /\ chatOwes'[c] = chatOwes[c] /\ inbox'[c] = inbox[c] /\ (c \in sector' => c \in sector)
    /\ chatPhase[c] = "up" => chatPhase'[c] = "up"
    /\ SameHeard(c)

\* A session that a step does not touch
LEMMA ReplyKept ==
  ASSUME NEW c \in Ids, ReplyOk(c), SameServer(c), Holder(c)' = Holder(c),
         Holder(c) # NoPlayer => Seen(Holder(c))
  PROVE  ReplyOk(c)'
<1>1. \A r : Awaits(c, r) => /\ Holder(c)' # NoPlayer /\ player'[Holder(c)'].state = Waiting[r]
                             /\ r = "RES_MESSAGE" => Registered(c)'
  BY DEF Awaits, Registered, Seen
<1>2. Registered(c) => Registered(c)'
  BY DEF Registered, Seen
<1>3. chatOwes'[c] # "none" => chatPhase'[c] = "up" /\ Awaits(c, chatOwes[c])'
  BY <1>1 DEF ReplyOk, SameServer, Awaits
<1>4. c \in sector' => chatPhase'[c] = "up" /\ Registered(c)'
  BY <1>2 DEF ReplyOk, SameServer
<1>5. \A n \in 1 .. Len(inbox'[c]) :
          /\ inbox'[c][n] = Other => Registered(c)'
          /\ inbox'[c][n] # Other => Awaits(c, inbox[c][n])' /\ chatOwes'[c] = "none"
  BY <1>1, <1>2 DEF ReplyOk, SameServer, Awaits
<1>6. Len(inbox'[c]) = Heard(c)'
  BY DEF ReplyOk, SameServer, SameHeard
<1>7. \A m, n \in 1 .. Len(inbox'[c]) :
          inbox'[c][m] # Other /\ inbox'[c][n] # Other => m = n
  BY DEF ReplyOk, SameServer
<1> QED BY <1>3, <1>4, <1>5, <1>6, <1>7 DEF ReplyOk, Other

\* Nothing is on its way to a session without a player.
Quiet(c) == chatOwes[c] = "none" /\ c \notin sector /\ Len(inbox[c]) = 0 /\ Heard(c) = 0

\* A session nobody holds is quiet.
LEMMA NobodyQuiet ==
  ASSUME TypeOK, NEW c \in Ids, ReplyOk(c), Holder(c) = NoPlayer
  PROVE  Quiet(c)
<1>1. inbox[c] \in Seq(Replies \cup {Other})
  BY DEF TypeOK, Other
<1>2. Len(inbox[c]) \in Nat /\ \A n \in 1 .. Len(inbox[c]) : FALSE
  BY <1>1 DEF ReplyOk, Awaits, Registered
<1>3. Len(inbox[c]) = 0
  BY <1>2
<1> QED BY <1>3 DEF Quiet, ReplyOk, Awaits, Registered

\* Who is not in a chat map holds no session.
LEMMA NotHolder ==
  ASSUME ContentsInv, NEW p \in Ids,
         player[p].state \notin ChatConnectStates \cup PlayStates, NEW c \in Ids
  PROVE  Holder(c) # p
<1>1. p # NoPlayer /\ TypeOK /\ MapsOk /\ PlacesOk
  BY DEF Ids, NoPlayer, ContentsInv
<1> QED BY <1>1, HolderFacts DEF Holder

\* Nothing at the chat server's side changes, nor who a session sees.
LEMMA AllKept ==
  ASSUME RepliesOk, UNCHANGED <<chatOwes, sector, inbox, chatPhase, chatQ, chatConnect, chatLogin>>,
         \A c \in Ids : Holder(c) # NoPlayer => Seen(Holder(c))
  PROVE  RepliesOk'
<1>1. ASSUME NEW c \in Ids PROVE ReplyOk(c)'
  <2>1. SameServer(c)
    BY DEF SameServer, SameHeard, Heard, Places, Message
  <2>2. Holder(c)' = Holder(c)
    BY DEF Holder
  <2> QED BY <2>1, <2>2, ReplyKept DEF RepliesOk
<1> QED BY <1>1 DEF RepliesOk

\* Steps at the login server change nothing at the chat server.
LEMMA LoginReplyOk ==
  ASSUME ContentsInv, NEW p \in Ids,
         \/ Starts(p) \/ LoggedIn(p) \/ MovesOn(p) \/ FailsLogin(p) \/ AsksLogin(p)
  PROVE  RepliesOk'
<1>0. TypeOK /\ MapsOk /\ PlacesOk /\ RepliesOk /\ \A x \in Ids : PlaceOk(x)
  BY PlacesFacts DEF ContentsInv
<1>1. UNCHANGED <<chatOwes, sector, inbox, chatPhase, chatQ, chatConnect, chatLogin>>
  BY DEF Starts, TakesAccount, TakesOver, Joins, LoggedIn, MovesOn, FailsLogin, LoginDown,
         AsksLogin, Acting, LoginJob, Chat!Ask, maps, chatNet, servers
<1>2. player[p].state \notin ChatConnectStates \cup PlayStates
  <2>1. CASE Starts(p)
    <3>1. player[p].state = "none"
      BY <2>1, Begins
    <3> QED BY <3>1 DEF ChatConnectStates, PlayStates, RecvStates, SentStates
  <2>2. CASE LoggedIn(p) \/ MovesOn(p) \/ FailsLogin(p) \/ AsksLogin(p)
    <3>1. player[p].state \in LoginStates
      BY <1>0, <2>2, PlaceFound DEF LoggedIn, MovesOn, FailsLogin, AsksLogin
    <3> QED BY <3>1 DEF LoginStates, ChatConnectStates, PlayStates, RecvStates, SentStates
  <2> QED BY <2>1, <2>2
<1>3. ASSUME NEW x \in Ids, x # p PROVE Seen(x)
  <2>1. CASE \E v \in Ids : TakesOver(p, v)
    <3>1. PICK v \in Ids : TakesOver(p, v)
      BY <2>1
    <3>2. /\ player'[v].state = player[v].state
          /\ player'[v].field = player[v].field \cup {"DUPLICATE_TARGET"}
          /\ \A y \in Ids \ {p, v} : player'[y] = player[y]
      BY <1>0, <3>1, LoginChanges
    <3> QED BY <1>3, <3>2 DEF Seen
  <2>2. CASE TakesAccount(p) \/ LoggedIn(p) \/ MovesOn(p) \/ FailsLogin(p) \/ AsksLogin(p)
    BY <1>0, <1>3, <2>2, LoginChanges DEF Becomes, Seen
  <2> QED BY <2>1, <2>2 DEF Starts
<1>4. \A c \in Ids : Holder(c) # NoPlayer => Seen(Holder(c))
  <2>1. \A c \in Ids : Holder(c) # p /\ Holder(c) \in Ids \cup {NoPlayer}
    BY <1>0, <1>2, NotHolder, HolderFacts
  <2> QED BY <1>3, <2>1
<1> QED BY <1>0, <1>1, <1>4, AllKept

\* One session changes.
LEMMA OneChanges ==
  ASSUME ContentsInv, NEW d \in Ids, ReplyOk(d)',
         \A c \in Ids \ {d} : /\ SameServer(c) /\ Holder(c)' = Holder(c)
                              /\ Holder(c) # NoPlayer => Seen(Holder(c))
  PROVE  RepliesOk'
<1>1. ASSUME NEW c \in Ids, c # d PROVE ReplyOk(c)'
  BY <1>1, ReplyKept DEF ContentsInv, RepliesOk
<1> QED BY <1>1 DEF RepliesOk

\* The player of one session changes.
LEMMA OthersSee ==
  ASSUME ContentsInv, NEW d \in Ids, NEW p \in Ids, Holder(d) = p,
         \A x \in Ids \ {p} : player'[x] = player[x]
  PROVE  \A c \in Ids \ {d} : Holder(c) # NoPlayer => Seen(Holder(c))
<1>0. TypeOK /\ MapsOk /\ PlacesOk /\ p # NoPlayer
  BY DEF Ids, NoPlayer, ContentsInv
<1>1. ASSUME NEW c \in Ids \ {d}, Holder(c) # NoPlayer PROVE Holder(c) \in Ids \ {p}
  BY <1>0, <1>1, HolderAlone, HolderFacts
<1> QED BY <1>1 DEF Seen

\* Who gives up never had a chat session.
LEMMA GivesUpReplyOk ==
  ASSUME ContentsInv, NEW p \in Ids, GivesUp(p)
  PROVE  RepliesOk'
<1>0. TypeOK /\ MapsOk /\ PlacesOk /\ RepliesOk /\ ClientsOk
  BY DEF ContentsInv
<1>1. /\ ChatJob("ALL_RECONNECT_FAIL") /\ player[p].state = "CHAT_CONNECT_TRY"
      /\ UNCHANGED <<chatOwes, sector, inbox, chatPhase, chatConnect, chatLogin>>
  BY DEF GivesUp, ChatJob, Chat!TakeEvent, servers
<1>2. \A x \in Ids \ {p} : player'[x] = player[x]
  BY <1>0, LoginChanges DEF Becomes
<1>3. \A c \in Ids : Holder(c) # p /\ Holder(c) \in Ids \cup {NoPlayer}
  <2>1. player[p].state \notin ChatConnectStates \cup PlayStates
    BY <1>1 DEF ChatConnectStates, PlayStates, RecvStates, SentStates
  <2> QED BY <1>0, <2>1, NotHolder, HolderFacts
<1>4. \A c \in Ids : SameHeard(c)
  BY <1>0, <1>1, HeardTaken
<1>5. ASSUME NEW c \in Ids PROVE ReplyOk(c)'
  <2>1. SameServer(c) /\ Holder(c)' = Holder(c)
    BY <1>1, <1>4 DEF SameServer, Holder
  <2>2. Holder(c) # NoPlayer => Seen(Holder(c))
    BY <1>2, <1>3 DEF Seen
  <2> QED BY <1>0, <2>1, <2>2, ReplyKept DEF RepliesOk
<1> QED BY <1>5 DEF RepliesOk

\* A new session starts with nothing on its way.
LEMMA JoinsReplyOk ==
  ASSUME ContentsInv, NEW d \in Ids, NEW p \in Ids, NEW tests, JoinsChat(d, p, tests)
  PROVE  RepliesOk'
<1>0. TypeOK /\ MapsOk /\ PlacesOk /\ RepliesOk /\ ClientsOk
  BY DEF ContentsInv
<1>1. /\ ChatJob("CONNECT_SUCCESS") /\ player[p].state = "CHAT_CONNECT_TRY"
      /\ UNCHANGED <<chatOwes, sector, inbox, chatPhase>> /\ Holder(d) = NoPlayer
  BY DEF JoinsChat, ChatJob, Chat!TakeEvent, servers
<1>2. \A x \in Ids \ {p} : player'[x] = player[x]
  BY <1>0, ChatChanges DEF Becomes
<1>3. \A c \in Ids : Holder(c) # p /\ Holder(c) \in Ids \cup {NoPlayer}
  <2>1. player[p].state \notin ChatConnectStates \cup PlayStates
    BY <1>1 DEF ChatConnectStates, PlayStates, RecvStates, SentStates
  <2> QED BY <1>0, <2>1, NotHolder, HolderFacts
<1>4. \A c \in Ids : SameHeard(c)
  BY <1>0, <1>1, HeardTaken
<1>5. ReplyOk(d)'
  <2>1. Quiet(d)
    BY <1>0, <1>1, NobodyQuiet DEF RepliesOk
  <2>2. Quiet(d)'
    BY <1>1, <1>4, <2>1 DEF Quiet, SameHeard
  <2> QED BY <2>2 DEF Quiet, ReplyOk
<1>6. ASSUME NEW c \in Ids, c # d
      PROVE  SameServer(c) /\ Holder(c)' = Holder(c) /\ (Holder(c) # NoPlayer => Seen(Holder(c)))
  <2>1. Holder(c)' = Holder(c)
    <3>1. chatConnect[d] = NoPlayer \/ chatLogin[d] = NoPlayer
      BY <1>0 DEF MapsOk
    <3> QED BY <1>0, <1>6, <3>1, ChatMapMoves
  <2>2. SameServer(c)
    BY <1>1, <1>4 DEF SameServer
  <2> QED BY <1>2, <1>3, <2>1, <2>2 DEF Seen
<1> QED BY <1>5, <1>6, OneChanges

\* The rest of a message queue
LEMMA RestOf ==
  ASSUME NEW S, NEW q \in Seq(S), q # <<>>
  PROVE  /\ 1 \in 1 .. Len(q) /\ q[1] = Head(q) /\ Len(q) \in Nat /\ Len(Tail(q)) = Len(q) - 1
         /\ \A n \in 1 .. Len(Tail(q)) : /\ n + 1 \in 1 .. Len(q) /\ n + 1 # 1
                                         /\ Tail(q)[n] = q[n + 1]
<1>1. Len(q) \in Nat /\ Len(q) >= 1 /\ Head(q) = q[1] /\ Len(Tail(q)) = Len(q) - 1
  OBVIOUS
<1>2. \A n \in 1 .. Len(q) - 1 : Tail(q)[n] = q[n + 1]
  BY HeadTailProperties
<1> QED BY <1>1, <1>2

\* The player of session c will wait for this reply.
WillAwait(c, reply) ==
    /\ Holder(c)' # NoPlayer /\ player'[Holder(c)'].state = Waiting[reply]
    /\ reply = "RES_MESSAGE" => Registered(c)'

\* ReplyOk of the next state, from its parts
LEMMA ReplyMade ==
  ASSUME NEW c \in Ids,
         chatOwes'[c] # "none" => chatPhase'[c] = "up" /\ WillAwait(c, chatOwes'[c]),
         c \in sector' => chatPhase'[c] = "up" /\ Registered(c)',
         \A n \in 1 .. Len(inbox'[c]) :
             /\ inbox'[c][n] = Other => Registered(c)'
             /\ inbox'[c][n] # Other => WillAwait(c, inbox'[c][n]) /\ chatOwes'[c] = "none",
         \A m, n \in 1 .. Len(inbox'[c]) :
             inbox'[c][m] # Other /\ inbox'[c][n] # Other => m = n,
         Len(inbox'[c]) = Heard(c)'
  PROVE  ReplyOk(c)'
BY DEF ReplyOk, Awaits, WillAwait, Other

\* Update takes a message out of a session's RECV_MESSAGE jobs.
LEMMA MessageTaken ==
  ASSUME ContentsInv, NEW c \in Ids, NEW type, ChatMessage(c, type), inbox[c] # <<>>
  PROVE  /\ inbox[c][1] = type /\ 1 \in 1 .. Len(inbox[c])
         /\ \A n \in 1 .. Len(inbox'[c]) : /\ n + 1 \in 1 .. Len(inbox[c]) /\ n + 1 # 1
                                           /\ inbox'[c][n] = inbox[c][n + 1]
         /\ Len(inbox'[c]) = Heard(c)'
         /\ UNCHANGED <<chatOwes, sector, chatPhase>>
         /\ \A x \in Ids \ {c} : SameServer(x)
<1>0. TypeOK /\ RepliesOk /\ ClientsOk
  BY DEF ContentsInv
<1>1. /\ ChatJob("RECV_MESSAGE") /\ c = Head(chatQ).id /\ Head(inbox[c]) = type
      /\ inbox' = [inbox EXCEPT ![c] = Tail(@)]
      /\ UNCHANGED <<chatOwes, sector, chatPhase>>
  BY DEF ChatMessage, ChatJob, Chat!TakeEvent, servers
<1>2. inbox \in [Ids -> Seq(Replies \cup {Other})]
  BY <1>0 DEF TypeOK, Other
<1>3. /\ inbox[c] \in Seq(Replies \cup {Other}) /\ inbox'[c] = Tail(inbox[c])
      /\ \A x \in Ids \ {c} : inbox'[x] = inbox[x]
  BY <1>1, <1>2
<1>4. /\ 1 \in 1 .. Len(inbox[c]) /\ inbox[c][1] = type /\ Len(inbox[c]) \in Nat
      /\ Len(inbox'[c]) = Len(inbox[c]) - 1
      /\ \A n \in 1 .. Len(inbox'[c]) : /\ n + 1 \in 1 .. Len(inbox[c]) /\ n + 1 # 1
                                        /\ inbox'[c][n] = inbox[c][n + 1]
  <2> DEFINE q == inbox[c]
  <2>1. q \in Seq(Replies \cup {Other}) /\ q # <<>>
    BY <1>3
  <2> HIDE DEF q
  <2>2. /\ 1 \in 1 .. Len(q) /\ q[1] = Head(q) /\ Len(q) \in Nat /\ Len(Tail(q)) = Len(q) - 1
        /\ \A n \in 1 .. Len(Tail(q)) : /\ n + 1 \in 1 .. Len(q) /\ n + 1 # 1
                                        /\ Tail(q)[n] = q[n + 1]
    BY <2>1, RestOf
  <2> QED BY <1>1, <1>3, <2>2 DEF q
<1>5. LessHeard(c) /\ \A x \in Ids \ {c} : SameHeard(x)
  BY <1>0, <1>1, HeardTaken
<1>6. Len(inbox'[c]) = Heard(c)'
  <2>1. Heard(c) \in Nat /\ Heard(c)' \in Nat
    BY <1>0, <1>1, HeardTaken
  <2>2. PICK k \in Nat : k = Heard(c)'
    BY <2>1
  <2>3. Len(inbox[c]) = k + 1
    BY <1>0, <1>5, <2>2 DEF RepliesOk, ReplyOk, LessHeard
  <2> QED BY <1>4, <2>2, <2>3
<1>8. \A x \in Ids \ {c} : SameServer(x)
  BY <1>1, <1>3, <1>5 DEF SameServer
<1> QED BY <1>1, <1>4, <1>6, <1>8

\* A reply is read by who waits for it.
LEMMA AnswerReplyOk ==
  ASSUME ContentsInv, NEW d \in Ids, NEW p \in Ids,
         LogsIn(d, p) \/ \E type : PlaysOn(d, p, type)
  PROVE  RepliesOk'
<1>0. TypeOK /\ MapsOk /\ PlacesOk /\ ReplyOk(d)
  BY DEF ContentsInv, RepliesOk
<1>1. PICK type : ChatMessage(d, type) /\ inbox[d] # <<>> /\ type # Other
  BY DEF LogsIn, PlaysOn, Other
<1>2. /\ inbox[d][1] = type /\ 1 \in 1 .. Len(inbox[d])
      /\ \A n \in 1 .. Len(inbox'[d]) : /\ n + 1 \in 1 .. Len(inbox[d]) /\ n + 1 # 1
                                        /\ inbox'[d][n] = inbox[d][n + 1]
      /\ Len(inbox'[d]) = Heard(d)'
      /\ UNCHANGED <<chatOwes, sector, chatPhase>>
      /\ \A x \in Ids \ {d} : SameServer(x)
  BY <1>1, MessageTaken
<1>3. \E s : GoesOn(p, s)
  BY <1>0, ChatChanges
<1>4. /\ \A x \in Ids \ {p} : player'[x] = player[x]
      /\ "REGISTER_AT_SECTOR" \in player'[p].field <=> "REGISTER_AT_SECTOR" \in player[p].field
  BY <1>3 DEF GoesOn, Becomes
<1>5. /\ Holder(d) = p /\ Holder(d)' = p
      /\ \A c \in Ids \ {d} : Holder(c)' = Holder(c)
  <2>1. CASE LogsIn(d, p)
    <3>1. chatLogin[d] = NoPlayer
      BY <2>1 DEF LogsIn
    <3> QED BY <1>0, <2>1, <3>1, ChatMapMoves
  <2>2. CASE \E t : PlaysOn(d, p, t)
    BY <2>2 DEF PlaysOn, Holder, maps
  <2> QED BY <2>1, <2>2
<1>6. Registered(d) => Registered(d)'
  BY <1>4, <1>5 DEF Registered
<1>7. chatOwes[d] = "none"
  BY <1>0, <1>1, <1>2 DEF ReplyOk
<1>8. \A n \in 1 .. Len(inbox'[d]) : inbox'[d][n] = Other /\ Registered(d)'
  <2>1. ASSUME NEW n \in 1 .. Len(inbox'[d]) PROVE inbox'[d][n] = Other /\ Registered(d)'
    <3>1. PICK m \in 1 .. Len(inbox[d]) : m # 1 /\ inbox'[d][n] = inbox[d][m]
      BY <1>2
    <3>2. inbox[d][m] = Other
      BY <1>0, <1>1, <1>2, <3>1 DEF ReplyOk
    <3> QED BY <1>0, <1>6, <3>1, <3>2 DEF ReplyOk
  <2> QED BY <2>1
<1>9. ReplyOk(d)'
  BY <1>0, <1>2, <1>6, <1>7, <1>8 DEF ReplyOk, Other
<1>10. \A c \in Ids \ {d} : Holder(c) # NoPlayer => Seen(Holder(c))
  BY <1>4, <1>5, OthersSee
<1> QED BY <1>2, <1>5, <1>9, <1>10, OneChanges

\* A message of somebody else goes by.
LEMMA OverhearsReplyOk ==
  ASSUME ContentsInv, NEW d \in Ids, Overhears(d)
  PROVE  RepliesOk'
<1>0. ReplyOk(d)
  BY DEF ContentsInv, RepliesOk
<1>1. /\ ChatMessage(d, Other) /\ inbox[d] # <<>>
      /\ UNCHANGED <<player, chatConnect, chatLogin>>
  BY DEF Overhears, players, maps
<1>2. /\ inbox[d][1] = Other /\ 1 \in 1 .. Len(inbox[d])
      /\ \A n \in 1 .. Len(inbox'[d]) : /\ n + 1 \in 1 .. Len(inbox[d]) /\ n + 1 # 1
                                        /\ inbox'[d][n] = inbox[d][n + 1]
      /\ Len(inbox'[d]) = Heard(d)'
      /\ UNCHANGED <<chatOwes, sector, chatPhase>>
      /\ \A x \in Ids \ {d} : SameServer(x)
  BY <1>1, MessageTaken
<1>3. \A c \in Ids : Holder(c)' = Holder(c) /\ (Holder(c) # NoPlayer => Seen(Holder(c)))
  BY <1>1 DEF Holder, Seen
<1>4. Registered(d) => Registered(d)'
  BY <1>1, <1>3 DEF Registered
<1>5. \A r : Awaits(d, r) => WillAwait(d, r)
  <2>1. Holder(d)' = Holder(d) /\ (Registered(d) => Registered(d)')
    BY <1>3, <1>4
  <2> QED BY <1>1, <2>1 DEF Awaits, WillAwait
<1>6. \A n \in 1 .. Len(inbox'[d]) :
          /\ inbox'[d][n] = Other => Registered(d)'
          /\ inbox'[d][n] # Other => WillAwait(d, inbox'[d][n]) /\ chatOwes'[d] = "none"
  BY <1>0, <1>2, <1>4, <1>5 DEF ReplyOk
<1>7. ASSUME NEW m \in 1 .. Len(inbox'[d]), NEW n \in 1 .. Len(inbox'[d]),
             inbox'[d][m] # Other, inbox'[d][n] # Other
      PROVE  m = n
  <2>1. m + 1 = n + 1
    BY <1>0, <1>2, <1>7 DEF ReplyOk
  <2> QED BY <2>1
<1>8. chatOwes'[d] # "none" => chatPhase'[d] = "up" /\ WillAwait(d, chatOwes'[d])
  BY <1>0, <1>2, <1>5 DEF ReplyOk
<1>9. d \in sector' => chatPhase'[d] = "up" /\ Registered(d)'
  BY <1>0, <1>2, <1>4 DEF ReplyOk
<1>10. ReplyOk(d)'
  BY <1>2, <1>6, <1>7, <1>8, <1>9, ReplyMade
<1> QED BY <1>2, <1>3, <1>10, OneChanges

\* Nothing changes for any session but what it may stand.
LEMMA AllSeen ==
  ASSUME RepliesOk, \A c \in Ids : /\ SameServer(c) /\ Holder(c)' = Holder(c)
                                   /\ Holder(c) # NoPlayer => Seen(Holder(c))
  PROVE  RepliesOk'
<1>1. ASSUME NEW c \in Ids PROVE ReplyOk(c)'
  BY ReplyKept DEF RepliesOk
<1> QED BY <1>1 DEF RepliesOk

\* A session's last job is its ON_RELEASE: no message is left.
LEMMA LeavesReplyOk ==
  ASSUME ContentsInv, NEW d \in Ids, NEW p \in Ids, LeavesUnknown(d, p) \/ LeavesChat(d, p)
  PROVE  RepliesOk'
<1>0. TypeOK /\ MapsOk /\ PlacesOk /\ RepliesOk /\ ClientsOk /\ ReplyOk(d)
  BY DEF ContentsInv, RepliesOk
<1>1. /\ ChatJob("ON_RELEASE") /\ d = Head(chatQ).id
      /\ UNCHANGED <<chatOwes, sector, inbox, chatPhase>>
  BY DEF LeavesUnknown, LeavesChat, ChatJob, Chat!TakeEvent, servers
<1>2. Becomes(p, "none", {}, NoAccount)
  BY <1>0, ChatChanges
<1>3. \A c \in Ids : SameHeard(c)
  BY <1>0, <1>1, HeardTaken
<1>4. Quiet(d)
  <2>1. QueueOk(chatPhase, chatQ) /\ chatQ # <<>> /\ Head(chatQ).type = "ON_RELEASE"
    BY <1>0, <1>1 DEF ClientsOk, ChatJob
  <2>2. /\ chatPhase[d] = "gone"
        /\ \A n \in 1 .. Len(chatQ) : chatQ[n].type \in OfOne /\ chatQ[n].id = d => n = 1
    BY <1>1, <2>1, FirstJob DEF OfOne
  <2>3. chatQ \in Seq(Jobs) /\ Head(chatQ) = chatQ[1]
    BY <2>1 DEF QueueOk
  <2>4. \A n \in 1 .. Len(chatQ) : chatQ[n] \notin {Message(d)}
    BY <2>1, <2>2, <2>3 DEF Message, OfOne
  <2>5. Heard(d) = 0
    BY <2>3, <2>4, PlacesFinite DEF Heard
  <2> QED BY <1>0, <2>2, <2>5 DEF Quiet, ReplyOk
<1>5. Quiet(d)'
  BY <1>1, <1>3, <1>4 DEF Quiet, SameHeard
<1>6. ReplyOk(d)'
  BY <1>5 DEF Quiet, ReplyOk
<1>7. Holder(d) = p /\ \A c \in Ids \ {d} : Holder(c)' = Holder(c)
  <2>1. chatConnect[d] = NoPlayer \/ chatLogin[d] = NoPlayer
    BY <1>0 DEF MapsOk
  <2> QED BY <1>0, <2>1, ChatMapMoves
<1>8. \A c \in Ids \ {d} : Holder(c) # NoPlayer => Seen(Holder(c))
  BY <1>2, <1>7, OthersSee DEF Becomes
<1>9. \A c \in Ids \ {d} : SameServer(c)
  BY <1>1, <1>3 DEF SameServer
<1> QED BY <1>6, <1>7, <1>8, <1>9, OneChanges

\* A player that waits for nothing: only messages of others may be there.
LEMMA Unasked ==
  ASSUME NEW d \in Ids, ReplyOk(d), chatOwes[d] \in Replies \cup {"none"},
         Len(inbox[d]) \in Nat, \A n \in 1 .. Len(inbox[d]) : inbox[d][n] \in Replies \cup {Other},
         \A r \in Replies : player[Holder(d)].state # Waiting[r]
  PROVE  chatOwes[d] = "none" /\ \A n \in 1 .. Len(inbox[d]) : inbox[d][n] = Other
BY DEF ReplyOk, Awaits

\* A player asks: it was owed nothing, and waits for what it is owed now.
LEMMA AsksReplyOk ==
  ASSUME ContentsInv, NEW d \in Ids, NEW p \in Ids, AsksChat(d, p) \/ Plays(d, p)
  PROVE  RepliesOk'
<1>0. TypeOK /\ MapsOk /\ PlacesOk /\ RepliesOk /\ ReplyOk(d) /\ p # NoPlayer
  BY DEF ContentsInv, RepliesOk, Ids, NoPlayer
<1>1. /\ UNCHANGED <<chatPhase, chatQ, inbox, chatConnect, chatLogin>>
      /\ Holder(d) = p /\ player[p].state \in RecvStates \cup {"CHAT_CONNECT_SUCCESS"}
  BY <1>0 DEF AsksChat, Plays, Acting, chatNet, maps, Holder
<1>2. \A c \in Ids : Holder(c)' = Holder(c) /\ SameHeard(c)
  BY <1>1 DEF Holder, SameHeard, Heard, Places, Message
<1>3. /\ chatOwes \in [Ids -> Replies \cup {"none"}]
      /\ inbox \in [Ids -> Seq(Replies \cup {Other})]
  BY <1>0 DEF TypeOK, Other
<1>4. Len(inbox[d]) \in Nat /\ \A n \in 1 .. Len(inbox[d]) : inbox[d][n] \in Replies \cup {Other}
  <2>1. inbox[d] \in Seq(Replies \cup {Other})
    BY <1>3
  <2> QED BY <2>1
<1>5. chatOwes[d] = "none" /\ \A n \in 1 .. Len(inbox[d]) : inbox[d][n] = Other
  <2>1. \A r \in Replies : player[Holder(d)].state # Waiting[r]
    BY <1>1 DEF Replies, Waiting, RecvStates
  <2>2. chatOwes[d] \in Replies \cup {"none"}
    BY <1>3
  <2> QED BY <1>0, <1>4, <2>1, <2>2, Unasked
<1>6. /\ \A x \in Ids \ {p} : player'[x] = player[x]
      /\ Registered(d) => Registered(d)'
      /\ \A c \in Ids \ {d} : chatOwes'[c] = chatOwes[c] /\ (c \in sector' => c \in sector)
      /\ d \in sector' => (d \in sector \/ chatPhase[d] = "up") /\ Registered(d)'
      /\ chatOwes'[d] # "none" => chatPhase[d] = "up" /\ WillAwait(d, chatOwes'[d])
  <2>0. /\ \A r : Send(d, r) =>
                     /\ \A c \in Ids \ {d} : chatOwes'[c] = chatOwes[c]
                     /\ chatOwes'[d] # "none" => chatPhase[d] = "up" /\ chatOwes'[d] = r
        /\ UNCHANGED chatOwes => /\ \A c \in Ids \ {d} : chatOwes'[c] = chatOwes[c]
                                 /\ chatOwes'[d] = "none"
    BY <1>3, <1>5 DEF Send
  <2>1. Holder(d)' = p
    BY <1>1, <1>2
  <2>2. d \in sector => Registered(d)
    BY <1>0 DEF ReplyOk
  <2>3. CASE AsksChat(d, p)
    <3>1. Becomes(p, "CS_CHAT_REQ_LOGIN_SENT", player[p].field, player[p].pInfo)
      BY <1>0, <2>3, ChatChanges
    <3>2. Send(d, "RES_LOGIN") /\ UNCHANGED sector
      BY <2>3 DEF AsksChat
    <3>3. Registered(d) => Registered(d)'
      BY <1>0, <1>1, <2>1, <3>1 DEF Registered, Becomes
    <3>4. WillAwait(d, "RES_LOGIN")
      BY <1>0, <2>1, <3>1 DEF WillAwait, Waiting, Becomes
    <3>5. \A x \in Ids \ {p} : player'[x] = player[x]
      BY <3>1 DEF Becomes
    <3> QED BY <2>0, <2>2, <3>2, <3>3, <3>4, <3>5
  <2>4. CASE Plays(d, p) /\ ReserveSend(p)
    <3>1. Becomes(p, player[p].state, player[p].field \cup {"RESERVE_SEND_MESSAGE"},
                  player[p].pInfo)
      <4>1. player \in [Ids -> PlayerRecords]
        BY <1>0 DEF TypeOK
      <4> QED BY <2>4, <4>1 DEF ReserveSend, PlayerRecords, Becomes
    <3>2. UNCHANGED <<chatOwes, sector>>
      BY <2>4 DEF ReserveSend
    <3>3. Registered(d) => Registered(d)'
      BY <1>0, <1>1, <2>1, <3>1 DEF Registered, Becomes
    <3>5. \A x \in Ids \ {p} : player'[x] = player[x]
      BY <3>1 DEF Becomes
    <3> QED BY <2>0, <2>2, <3>2, <3>3, <3>5
  <2>5. CASE Plays(d, p) /\ SendRandomChatMessage(p, d)
    <3>0. player \in [Ids -> PlayerRecords]
      BY <1>0 DEF TypeOK
    <3>1. CASE /\ player' = [player EXCEPT ![p].state = "CS_CHAT_REQ_SECTOR_MOVE_SENT",
                                           ![p].field = Register(@)]
               /\ Send(d, "RES_SECTOR_MOVE")
               /\ sector' = sector \cup {i \in {d} : chatPhase[i] = "up"}
      <4>1. Becomes(p, "CS_CHAT_REQ_SECTOR_MOVE_SENT", Register(player[p].field), player[p].pInfo)
        BY <3>0, <3>1 DEF PlayerRecords, Becomes
      <4>2. Registered(d)'
        BY <1>0, <2>1, <4>1 DEF Registered, Becomes, Register
      <4>3. WillAwait(d, "RES_SECTOR_MOVE")
        BY <1>0, <2>1, <4>1 DEF WillAwait, Waiting, Becomes
      <4>4. \A x \in Ids \ {p} : player'[x] = player[x]
        BY <4>1 DEF Becomes
      <4> QED BY <2>0, <3>1, <4>2, <4>3, <4>4
    <3>2. CASE /\ "REGISTER_AT_SECTOR" \in player[p].field
               /\ player' = [player EXCEPT ![p].state = "CS_CHAT_REQ_MESSAGE_SENT",
                                           ![p].field = @ \ {"RESERVE_SEND_MESSAGE"}]
               /\ Send(d, "RES_MESSAGE")
               /\ UNCHANGED sector
      <4>1. Becomes(p, "CS_CHAT_REQ_MESSAGE_SENT", player[p].field \ {"RESERVE_SEND_MESSAGE"},
                    player[p].pInfo)
        BY <3>0, <3>2 DEF PlayerRecords, Becomes
      <4>2. Registered(d)'
        BY <1>0, <2>1, <3>2, <4>1 DEF Registered, Becomes
      <4>3. WillAwait(d, "RES_MESSAGE")
        BY <1>0, <2>1, <4>1, <4>2 DEF WillAwait, Waiting, Becomes
      <4>4. \A x \in Ids \ {p} : player'[x] = player[x]
        BY <4>1 DEF Becomes
      <4> QED BY <2>0, <2>2, <3>2, <4>2, <4>3, <4>4
    <3> QED BY <2>5, <3>1, <3>2 DEF SendRandomChatMessage
  <2> QED BY <2>3, <2>4, <2>5 DEF Plays
<1>7. ReplyOk(d)'
  <2>1. chatPhase'[d] = chatPhase[d] /\ inbox'[d] = inbox[d]
    BY <1>1
  <2>2. Len(inbox'[d]) = Heard(d)'
    BY <1>0, <1>2, <2>1 DEF ReplyOk, SameHeard
  <2>3. \A n \in 1 .. Len(inbox'[d]) :
            inbox'[d][n] = Other /\ (inbox'[d][n] = Other => Registered(d)')
    BY <1>0, <1>5, <1>6, <2>1 DEF ReplyOk
  <2>4. d \in sector' => chatPhase'[d] = "up" /\ Registered(d)'
    BY <1>0, <1>6, <2>1 DEF ReplyOk
  <2> QED BY <1>6, <2>1, <2>2, <2>3, <2>4, ReplyMade
<1>8. \A c \in Ids \ {d} : Holder(c) # NoPlayer => Seen(Holder(c))
  BY <1>1, <1>6, OthersSee
<1>9. \A c \in Ids \ {d} : SameServer(c)
  BY <1>1, <1>2, <1>6 DEF SameServer
<1> QED BY <1>2, <1>7, <1>8, <1>9, OneChanges

\* The chat server's and the client's steps for a session
LEMMA ChatServerReplyOk ==
  ASSUME ContentsInv, NEW d \in Ids, ChatReplies(d) \/ ChatOther(d) \/ ChatGone(d)
  PROVE  RepliesOk'
<1>0. TypeOK /\ RepliesOk /\ ClientsOk /\ ReplyOk(d)
  BY DEF ContentsInv, RepliesOk
<1>1. UNCHANGED <<player, chatConnect, chatLogin>>
  BY DEF ChatReplies, ChatOther, ChatGone, ChatSide, Outside, players, maps
<1>2. /\ \A c \in Ids : Holder(c)' = Holder(c) /\ (Holder(c) # NoPlayer => Seen(Holder(c)))
      /\ Registered(d) => Registered(d)'
  BY <1>1 DEF Holder, Seen, Registered
<1>3. \A r : Awaits(d, r) => WillAwait(d, r)
  BY <1>1, <1>2 DEF Awaits, WillAwait
<1>4. /\ chatOwes \in [Ids -> Replies \cup {"none"}]
      /\ inbox \in [Ids -> Seq(Replies \cup {Other})]
      /\ Other \notin Replies
  BY <1>0 DEF TypeOK, Other, Replies
<1>5. PICK q \in Seq(Replies \cup {Other}) : q = inbox[d]
  BY <1>4
<1>6. ASSUME NEW m \in Replies \cup {Other}, Chat!Message(d),
             inbox' = [inbox EXCEPT ![d] = Append(@, m)]
      PROVE  /\ Len(q) \in Nat /\ Len(inbox'[d]) = Len(q) + 1 /\ inbox'[d][Len(q) + 1] = m
             /\ \A n \in 1 .. Len(q) : inbox'[d][n] = q[n]
             /\ \A n \in 1 .. Len(inbox'[d]) : n \in 1 .. Len(q) \/ n = Len(q) + 1
             /\ Len(inbox'[d]) = Heard(d)'
             /\ chatPhase[d] = "up" /\ UNCHANGED chatPhase
             /\ \A c \in Ids \ {d} : SameHeard(c) /\ inbox'[c] = inbox[c]
  <2>1. inbox'[d] = Append(q, m) /\ \A c \in Ids \ {d} : inbox'[c] = inbox[c]
    BY <1>4, <1>5, <1>6
  <2>2. /\ Len(q) \in Nat /\ Len(Append(q, m)) = Len(q) + 1 /\ Append(q, m)[Len(q) + 1] = m
        /\ \A n \in 1 .. Len(q) : Append(q, m)[n] = q[n]
    BY AppendProperties
  <2>3. /\ MoreHeard(d) /\ \A c \in Ids \ {d} : SameHeard(c)
        /\ chatPhase[d] = "up" /\ UNCHANGED chatPhase
    BY <1>0, <1>6, WorkerTells
  <2>4. Len(q) = Heard(d)
    BY <1>0, <1>5 DEF ReplyOk
  <2>5. Len(inbox'[d]) = Heard(d)'
    BY <2>1, <2>2, <2>3, <2>4 DEF MoreHeard
  <2> QED BY <2>1, <2>2, <2>3, <2>5
<1>7. CASE ChatReplies(d)
  <2>1. /\ chatOwes[d] # "none" /\ Chat!Message(d)
        /\ inbox' = [inbox EXCEPT ![d] = Append(@, chatOwes[d])]
        /\ chatOwes' = [chatOwes EXCEPT ![d] = "none"]
        /\ UNCHANGED sector
    BY <1>7 DEF ChatReplies
  <2>2. chatOwes[d] \in Replies /\ chatOwes[d] # Other
    BY <1>4, <2>1
  <2>3. /\ Len(q) \in Nat /\ Len(inbox'[d]) = Len(q) + 1 /\ inbox'[d][Len(q) + 1] = chatOwes[d]
        /\ \A n \in 1 .. Len(q) : inbox'[d][n] = q[n]
        /\ \A n \in 1 .. Len(inbox'[d]) : n \in 1 .. Len(q) \/ n = Len(q) + 1
        /\ Len(inbox'[d]) = Heard(d)'
        /\ UNCHANGED chatPhase
        /\ \A c \in Ids \ {d} : SameHeard(c) /\ inbox'[c] = inbox[c]
    BY <1>6, <2>1, <2>2
  <2>4. chatOwes'[d] = "none" /\ \A c \in Ids \ {d} : chatOwes'[c] = chatOwes[c]
    BY <1>4, <2>1
  <2>5. WillAwait(d, chatOwes[d]) /\ \A n \in 1 .. Len(q) : q[n] = Other /\ Registered(d)'
    BY <1>0, <1>2, <1>3, <1>5, <2>1 DEF ReplyOk
  <2>6. \A n \in 1 .. Len(inbox'[d]) :
            /\ inbox'[d][n] = Other => Registered(d)'
            /\ inbox'[d][n] # Other => WillAwait(d, inbox'[d][n]) /\ chatOwes'[d] = "none"
    BY <2>2, <2>3, <2>4, <2>5
  <2>7. \A m, n \in 1 .. Len(inbox'[d]) :
            inbox'[d][m] # Other /\ inbox'[d][n] # Other => m = n
    BY <2>3, <2>5
  <2>8. d \in sector' => chatPhase'[d] = "up" /\ Registered(d)'
    BY <1>0, <1>2, <2>1, <2>3 DEF ReplyOk
  <2>9. ReplyOk(d)'
    BY <2>3, <2>4, <2>6, <2>7, <2>8, ReplyMade
  <2>10. \A c \in Ids \ {d} : SameServer(c)
    BY <2>1, <2>3, <2>4 DEF SameServer
  <2> QED BY <1>2, <2>9, <2>10, OneChanges
<1>8. CASE ChatOther(d)
  <2>1. /\ d \in sector /\ Chat!Message(d)
        /\ inbox' = [inbox EXCEPT ![d] = Append(@, Other)]
        /\ UNCHANGED <<chatOwes, sector>>
    BY <1>8 DEF ChatOther, Other
  <2>3. /\ Len(q) \in Nat /\ Len(inbox'[d]) = Len(q) + 1 /\ inbox'[d][Len(q) + 1] = Other
        /\ \A n \in 1 .. Len(q) : inbox'[d][n] = q[n]
        /\ \A n \in 1 .. Len(inbox'[d]) : n \in 1 .. Len(q) \/ n = Len(q) + 1
        /\ Len(inbox'[d]) = Heard(d)'
        /\ UNCHANGED chatPhase
        /\ \A c \in Ids \ {d} : SameHeard(c) /\ inbox'[c] = inbox[c]
    BY <1>6, <2>1
  <2>5. /\ Registered(d)'
        /\ \A n \in 1 .. Len(q) : q[n] # Other => WillAwait(d, q[n]) /\ chatOwes[d] = "none"
    BY <1>0, <1>2, <1>3, <1>5, <2>1 DEF ReplyOk
  <2>6. \A n \in 1 .. Len(inbox'[d]) :
            /\ inbox'[d][n] = Other => Registered(d)'
            /\ inbox'[d][n] # Other => WillAwait(d, inbox'[d][n]) /\ chatOwes'[d] = "none"
    BY <2>1, <2>3, <2>5
  <2>7. \A m, n \in 1 .. Len(inbox'[d]) :
            inbox'[d][m] # Other /\ inbox'[d][n] # Other => m = n
    BY <1>0, <1>5, <2>3 DEF ReplyOk
  <2>8. /\ d \in sector' => chatPhase'[d] = "up" /\ Registered(d)'
        /\ chatOwes'[d] # "none" => chatPhase'[d] = "up" /\ WillAwait(d, chatOwes'[d])
    BY <1>0, <1>2, <1>3, <2>1, <2>3 DEF ReplyOk
  <2>9. ReplyOk(d)'
    BY <2>3, <2>6, <2>7, <2>8, ReplyMade
  <2>10. \A c \in Ids \ {d} : SameServer(c)
    BY <2>1, <2>3 DEF SameServer
  <2> QED BY <1>2, <2>9, <2>10, OneChanges
<1>9. CASE ChatGone(d)
  <2>1. /\ Chat!Released(d) /\ chatOwes' = [chatOwes EXCEPT ![d] = "none"]
        /\ sector' = sector \ {d} /\ UNCHANGED inbox
    BY <1>9 DEF ChatGone
  <2>2. /\ \A c \in Ids : SameHeard(c)
        /\ \A c \in Ids \ {d} : chatPhase'[c] = chatPhase[c]
    BY <1>0, <2>1, WorkerTells
  <2>3. chatOwes'[d] = "none" /\ \A c \in Ids \ {d} : chatOwes'[c] = chatOwes[c]
    BY <1>4, <2>1
  <2>4. \A n \in 1 .. Len(inbox'[d]) :
            /\ inbox'[d][n] = Other => Registered(d)'
            /\ inbox'[d][n] # Other => WillAwait(d, inbox'[d][n]) /\ chatOwes'[d] = "none"
    BY <1>0, <1>2, <1>3, <2>1, <2>3 DEF ReplyOk
  <2>5. /\ \A m, n \in 1 .. Len(inbox'[d]) :
            inbox'[d][m] # Other /\ inbox'[d][n] # Other => m = n
        /\ Len(inbox'[d]) = Heard(d)'
    BY <1>0, <2>1, <2>2 DEF ReplyOk, SameHeard
  <2>6. ReplyOk(d)'
    BY <2>1, <2>3, <2>4, <2>5, ReplyMade
  <2>7. \A c \in Ids \ {d} : SameServer(c)
    BY <2>1, <2>2, <2>3 DEF SameServer
  <2> QED BY <1>2, <2>6, <2>7, OneChanges
<1> QED BY <1>7, <1>8, <1>9

\* The steps that a session's player does not see
LEMMA OtherReplyOk == ContentsInv /\ OtherStep => RepliesOk'
<1> SUFFICES ASSUME ContentsInv, OtherStep PROVE RepliesOk'
  OBVIOUS
<1>0. RepliesOk /\ ClientsOk
  BY DEF ContentsInv
<1>1. UNCHANGED <<player, chatConnect, chatLogin>>
  BY OtherKeeps
<1>2. \A c \in Ids : Holder(c)' = Holder(c) /\ Seen(Holder(c))
  BY <1>1 DEF Holder, Seen
<1>3. ASSUME UNCHANGED <<chatOwes, sector, inbox, chatPhase, chatQ>> PROVE RepliesOk'
  BY <1>0, <1>1, <1>2, <1>3, AllKept
<1>4. ASSUME UNCHANGED <<chatOwes, sector, inbox>>, \A c \in Ids : SameHeard(c),
             \A c \in Ids : chatPhase[c] = "up" => chatPhase'[c] = "up"
      PROVE  RepliesOk'
  <2>1. \A c \in Ids : SameServer(c)
    BY <1>4 DEF SameServer
  <2> QED BY <1>0, <1>2, <2>1, AllSeen
<1>5. CASE ChatConnectFail
  <2>1. ChatJob("CONNECT_FAIL") /\ UNCHANGED <<chatOwes, sector, inbox, chatPhase>>
    BY <1>5 DEF ChatConnectFail, ChatJob, Chat!TakeEvent, servers
  <2>2. \A c \in Ids : SameHeard(c)
    BY <1>0, <2>1, HeardTaken
  <2> QED BY <1>4, <2>1, <2>2
<1>6. CASE LoginConnectFail \/ LoginAllReconnectFail \/ Drained \/ Return \/ Connect \/ UNCHANGED vars
  BY <1>3, <1>6 DEF LoginConnectFail, LoginAllReconnectFail, LoginJob, Drained, Return, Connect,
                    Acting, vars, servers, chatNet
<1>7. CASE LoginAnswers \/ LoginAttempt \/ \E i \in Ids : LoginReplies(i) \/ LoginGone(i)
  BY <1>3, <1>7 DEF LoginAnswers, LoginAttempt, LoginReplies, LoginGone, LoginSide, chatNet
<1>8. CASE ChatAnswers \/ ChatAttempt
  <2>1. /\ UNCHANGED <<chatOwes, sector, inbox>>
        /\ (\E c \in Ids : Chat!Connected(c)) \/ Chat!GivenUp \/ Chat!Attempt
    BY <1>8 DEF ChatAnswers, ChatAttempt
  <2>2. CASE \E c \in Ids : Chat!Connected(c)
    BY <1>0, <1>4, <2>1, <2>2, WorkerTells
  <2>3. CASE Chat!GivenUp \/ Chat!Attempt
    <3>1. \A d \in Ids : RepliesOk'
      BY <1>0, <1>4, <2>1, <2>3, WorkerTells
    <3>2. CASE Ids = {}
      BY <3>2 DEF RepliesOk
    <3> QED BY <3>1, <3>2
  <2> QED BY <2>1, <2>2, <2>3
<1>9. CASE \E c \in Ids : Overhears(c)
  BY <1>9, OverhearsReplyOk
<1>10. CASE \E c \in Ids : ChatReplies(c) \/ ChatOther(c) \/ ChatGone(c)
  BY <1>10, ChatServerReplyOk
<1> QED BY <1>5, <1>6, <1>7, <1>8, <1>9, <1>10 DEF OtherStep, Network

\* Every step keeps what is on its way to who waits for it.
LEMMA RepliesStep == ContentsInv /\ Step => RepliesOk'
<1> SUFFICES ASSUME ContentsInv, Step PROVE RepliesOk'
  OBVIOUS
<1>1. CASE \E p \in Ids : \/ Starts(p) \/ LoggedIn(p) \/ MovesOn(p) \/ FailsLogin(p)
                          \/ AsksLogin(p)
  BY <1>1, LoginReplyOk
<1>2. CASE \E p \in Ids : GivesUp(p)
  BY <1>2, GivesUpReplyOk
<1>3. CASE \E c, p \in Ids : \E tests \in SUBSET Tests : JoinsChat(c, p, tests)
  BY <1>3, JoinsReplyOk
<1>4. CASE \E c, p \in Ids : LogsIn(c, p) \/ \E type \in Replies : PlaysOn(c, p, type)
  BY <1>4, AnswerReplyOk
<1>5. CASE \E c, p \in Ids : LeavesUnknown(c, p) \/ LeavesChat(c, p)
  BY <1>5, LeavesReplyOk
<1>6. CASE \E c, p \in Ids : AsksChat(c, p) \/ Plays(c, p)
  BY <1>6, AsksReplyOk
<1>7. CASE OtherStep
  BY <1>7, OtherReplyOk
<1> QED BY <1>1, <1>2, <1>3, <1>4, <1>5, <1>6, <1>7 DEF Step, PlayerStep, Starts
-----------------------------------------------------------------------------
(* Types *)

PlayersTyped == player \in [Ids -> PlayerRecords]

\* A player that changes is a player.
LEMMA PlayerMade ==
  ASSUME PlayersTyped, NEW p \in Ids, NEW s \in States, NEW f \in SUBSET Fields,
         NEW r \in PlayerRecords
  PROVE  /\ [player EXCEPT ![p].state = s] \in [Ids -> PlayerRecords]
         /\ [player EXCEPT ![p].field = f] \in [Ids -> PlayerRecords]
         /\ [player EXCEPT ![p].state = s, ![p].field = f] \in [Ids -> PlayerRecords]
         /\ [player EXCEPT ![p] = r] \in [Ids -> PlayerRecords]
         /\ \A v \in Ids : [player EXCEPT ![v].field = f, ![p] = r] \in [Ids -> PlayerRecords]
<1>1. player \in [Ids -> PlayerRecords]
  BY DEF PlayersTyped
<1>2. /\ [player EXCEPT ![p].state = s] \in [Ids -> PlayerRecords]
      /\ [player EXCEPT ![p].field = f] \in [Ids -> PlayerRecords]
  BY <1>1 DEF PlayerRecords
<1>3. [player EXCEPT ![p].state = s, ![p].field = f] \in [Ids -> PlayerRecords]
  BY <1>1 DEF PlayerRecords
<1>4. [player EXCEPT ![p] = r] \in [Ids -> PlayerRecords]
  BY <1>1
<1>5. ASSUME NEW v \in Ids
      PROVE  [player EXCEPT ![v].field = f, ![p] = r] \in [Ids -> PlayerRecords]
  <2>1. [player EXCEPT ![v].field = f] \in [Ids -> PlayerRecords]
    BY <1>1 DEF PlayerRecords
  <2> QED BY <2>1
<1> QED BY <1>2, <1>3, <1>4, <1>5

\* Players stay of their type.
LEMMA PlayersTypedStep == ContentsInv /\ Step => PlayersTyped'
<1> SUFFICES ASSUME ContentsInv, Step PROVE PlayersTyped'
  OBVIOUS
<1>0. /\ PlayersTyped /\ nonConnected \in Seq(Accounts)
      /\ \A x \in Ids : /\ player[x].state \in States /\ player[x].field \in SUBSET Fields
                        /\ player[x].pInfo \in Accounts \cup {NoAccount}
  <2>1. PlayersTyped /\ nonConnected \in Seq(Accounts)
    BY DEF ContentsInv, TypeOK, PlayersTyped
  <2> QED BY <2>1 DEF PlayersTyped, PlayerRecords
<1>1. /\ \A a \in Accounts \cup {NoAccount}, b \in BOOLEAN :
            NewPlayer("LOGIN_CONNECT_SUCCESS", a, b) \in PlayerRecords
      /\ Unused \in PlayerRecords
  BY DEF Unused, NewPlayer, PlayerRecords, States, LoginStates
<1>2. /\ {"CHAT_CONNECT_TRY", "CHAT_TRY_DISCONNECT", "LOGIN_TRY_DISCONNECT",
          "CS_LOGIN_REQ_LOGIN_SENT", "CHAT_CONNECT_SUCCESS", "CS_CHAT_REQ_LOGIN_SENT",
          "CS_CHAT_RES_LOGIN_RECV", "CS_CHAT_REQ_SECTOR_MOVE_SENT",
          "CS_CHAT_REQ_MESSAGE_SENT"} \subseteq States
      /\ \A type \in {"RES_SECTOR_MOVE", "RES_MESSAGE"} : After[type] \in States
  BY DEF States, LoginStates, ChatConnectStates, SentStates, RecvStates, After
<1>3. \A f \in SUBSET Fields :
          /\ f \cup {"DUPLICATE_TARGET"} \in SUBSET Fields
          /\ f \cup {"DISCONNECT_TARGET"} \in SUBSET Fields
          /\ f \cup {"RESERVE_SEND_MESSAGE"} \in SUBSET Fields
          /\ f \ {"RESERVE_SEND_MESSAGE"} \in SUBSET Fields
          /\ Register(f) \in SUBSET Fields
          /\ \A tests \in {{}, {"SESSION_TIMEOUT_TARGET"}, {"LOGIN_TIMOUT_TARGET"}} :
                (f \ {"DISCONNECT_TARGET"}) \cup tests \in SUBSET Fields
  BY DEF Fields, Tests, Register
<1>4. ASSUME NEW p \in Ids, TakesAccount(p) PROVE PlayersTyped'
  <2>1. Head(nonConnected) \in Accounts
    BY <1>0, <1>4, HeadTailProperties DEF TakesAccount
  <2>2. NewPlayer("LOGIN_CONNECT_SUCCESS", Head(nonConnected), FALSE) \in PlayerRecords
    BY <1>1, <2>1
  <2> QED BY <1>0, <1>4, <2>2 DEF TakesAccount, PlayersTyped
<1>5. ASSUME NEW p \in Ids, NEW v \in Ids, TakesOver(p, v) PROVE PlayersTyped'
  <2>1. NewPlayer("LOGIN_CONNECT_SUCCESS", player[v].pInfo, TRUE) \in PlayerRecords
    BY <1>0, <1>1
  <2>2. player[v].field \cup {"DUPLICATE_TARGET"} \in SUBSET Fields
    BY <1>0, <1>3
  <2>3. player' = [player EXCEPT
            ![v].field = player[v].field \cup {"DUPLICATE_TARGET"},
            ![p] = NewPlayer("LOGIN_CONNECT_SUCCESS", player[v].pInfo, TRUE)]
    BY <1>5 DEF TakesOver
  <2>4. \A s \in States : PlayersTyped'
    BY <1>0, <2>1, <2>2, <2>3, PlayerMade DEF PlayersTyped
  <2> QED BY <1>2, <2>4
<1>6. ASSUME NEW p \in Ids, FailsLogin(p) \/ GivesUp(p)
                            \/ \E c \in Ids : LeavesUnknown(c, p) \/ LeavesChat(c, p)
      PROVE  PlayersTyped'
  <2>1. player' = [player EXCEPT ![p] = Unused]
    BY <1>6 DEF FailsLogin, LoginDown, GivesUp, LeavesUnknown, LeaveConnect, LeavesChat,
                LeaveLogin, Free
  <2> QED BY <1>0, <1>1, <2>1 DEF PlayersTyped
<1>7. ASSUME NEW p \in Ids, MovesOn(p) \/ AsksLogin(p) \/ \E c \in Ids : AsksChat(c, p)
      PROVE  PlayersTyped'
  <2>1. PICK s \in States : player' = [player EXCEPT ![p].state = s]
    BY <1>2, <1>7 DEF MovesOn, AsksLogin, AsksChat
  <2> QED BY <1>0, <1>1, <2>1, PlayerMade DEF PlayersTyped
<1>8. ASSUME NEW p \in Ids, LoggedIn(p) PROVE PlayersTyped'
  <2>1. player' = [player EXCEPT ![p].state = "LOGIN_TRY_DISCONNECT",
                                 ![p].field = player[p].field \cup {"DISCONNECT_TARGET"}]
    BY <1>8 DEF LoggedIn
  <2>2. player[p].field \cup {"DISCONNECT_TARGET"} \in SUBSET Fields
    BY <1>0, <1>3
  <2>3. "LOGIN_TRY_DISCONNECT" \in States
    BY <1>2
  <2> QED BY <1>0, <1>1, <2>1, <2>2, <2>3, PlayerMade DEF PlayersTyped
<1>9. ASSUME NEW p \in Ids, NEW c \in Ids, NEW tests, JoinsChat(c, p, tests) PROVE PlayersTyped'
  <2>1. /\ player' = [player EXCEPT ![p].state = "CHAT_CONNECT_SUCCESS",
                       ![p].field = (player[p].field \ {"DISCONNECT_TARGET"}) \cup tests]
        /\ tests \in {{}, {"SESSION_TIMEOUT_TARGET"}, {"LOGIN_TIMOUT_TARGET"}}
    BY <1>9 DEF JoinsChat, StartChat
  <2>2. (player[p].field \ {"DISCONNECT_TARGET"}) \cup tests \in SUBSET Fields
    BY <1>0, <1>3, <2>1
  <2>3. "CHAT_CONNECT_SUCCESS" \in States
    BY <1>2
  <2> QED BY <1>0, <1>1, <2>1, <2>2, <2>3, PlayerMade DEF PlayersTyped
<1>10. ASSUME NEW p \in Ids, NEW c \in Ids, NEW s \in States, Answered(p, c, s) PROVE PlayersTyped'
  <2>1. \/ player' = [player EXCEPT ![p].state = s]
        \/ player' = [player EXCEPT ![p].state = "CHAT_TRY_DISCONNECT",
                                    ![p].field = player[p].field \cup {"DISCONNECT_TARGET"}]
    BY <1>10 DEF Answered
  <2>2. player[p].field \cup {"DISCONNECT_TARGET"} \in SUBSET Fields
    BY <1>0, <1>3
  <2>3. "CHAT_TRY_DISCONNECT" \in States
    BY <1>2
  <2>4. CASE player' = [player EXCEPT ![p].state = s]
    BY <1>0, <1>1, <2>4, PlayerMade DEF PlayersTyped
  <2>5. CASE player' = [player EXCEPT ![p].state = "CHAT_TRY_DISCONNECT",
                            ![p].field = player[p].field \cup {"DISCONNECT_TARGET"}]
    BY <1>0, <1>1, <2>2, <2>3, <2>5, PlayerMade DEF PlayersTyped
  <2> QED BY <2>1, <2>4, <2>5
<1>11. ASSUME NEW p \in Ids, NEW c \in Ids, LogsIn(c, p) \/ \E type : PlaysOn(c, p, type)
       PROVE  PlayersTyped'
  <2>1. \E s \in States : Answered(p, c, s)
    BY <1>2, <1>11 DEF LogsIn, PlaysOn
  <2> QED BY <1>10, <2>1
<1>12. ASSUME NEW p \in Ids, NEW c \in Ids, Plays(c, p) PROVE PlayersTyped'
  <2>1. \/ player' = [player EXCEPT ![p].field = player[p].field \cup {"RESERVE_SEND_MESSAGE"}]
        \/ player' = [player EXCEPT ![p].state = "CS_CHAT_REQ_SECTOR_MOVE_SENT",
                                    ![p].field = Register(player[p].field)]
        \/ player' = [player EXCEPT ![p].state = "CS_CHAT_REQ_MESSAGE_SENT",
                                    ![p].field = player[p].field \ {"RESERVE_SEND_MESSAGE"}]
    BY <1>12 DEF Plays, SendRandomChatMessage, ReserveSend
  <2>2. /\ player[p].field \cup {"RESERVE_SEND_MESSAGE"} \in SUBSET Fields
        /\ player[p].field \ {"RESERVE_SEND_MESSAGE"} \in SUBSET Fields
        /\ Register(player[p].field) \in SUBSET Fields
    BY <1>0, <1>3
  <2>3. "CS_CHAT_REQ_SECTOR_MOVE_SENT" \in States /\ "CS_CHAT_REQ_MESSAGE_SENT" \in States
    BY <1>2
  <2>4. CASE player' = [player EXCEPT ![p].field = player[p].field \cup {"RESERVE_SEND_MESSAGE"}]
    BY <1>0, <1>1, <2>2, <2>3, <2>4, PlayerMade DEF PlayersTyped
  <2>5. CASE player' = [player EXCEPT ![p].state = "CS_CHAT_REQ_SECTOR_MOVE_SENT",
                                      ![p].field = Register(player[p].field)]
    BY <1>0, <1>1, <2>2, <2>3, <2>5, PlayerMade DEF PlayersTyped
  <2>6. CASE player' = [player EXCEPT ![p].state = "CS_CHAT_REQ_MESSAGE_SENT",
                            ![p].field = player[p].field \ {"RESERVE_SEND_MESSAGE"}]
    BY <1>0, <1>1, <2>2, <2>3, <2>6, PlayerMade DEF PlayersTyped
  <2> QED BY <2>1, <2>4, <2>5, <2>6
<1>13. CASE OtherStep
  BY <1>0, <1>13, OtherKeeps DEF PlayersTyped
<1> QED BY <1>4, <1>5, <1>6, <1>7, <1>8, <1>9, <1>11, <1>12, <1>13 DEF Step, PlayerStep

\* Only the node read after its erase can break.
LEMMA BrokenStep ==
  ASSUME Step
  PROVE  UNCHANGED broken \/ broken' = ~FreedNodeIntact
<1>1. ASSUME NEW p \in Ids, \/ TakesAccount(p) \/ LoggedIn(p) \/ MovesOn(p) \/ FailsLogin(p)
                            \/ GivesUp(p) \/ AsksLogin(p) \/ \E v \in Ids : TakesOver(p, v)
      PROVE  UNCHANGED broken
  BY <1>1 DEF TakesAccount, TakesOver, Joins, LoggedIn, MovesOn, FailsLogin, GivesUp, AsksLogin
<1>2. ASSUME NEW c \in Ids, NEW p \in Ids,
             \/ \E tests : JoinsChat(c, p, tests)
             \/ LogsIn(c, p) \/ LeavesChat(c, p) \/ AsksChat(c, p) \/ Plays(c, p)
             \/ \E type : PlaysOn(c, p, type)
      PROVE  UNCHANGED broken
  BY <1>2 DEF JoinsChat, LogsIn, LeavesChat, AsksChat, Plays, PlaysOn
<1>3. ASSUME NEW c \in Ids, NEW p \in Ids, LeavesUnknown(c, p) PROVE broken' = ~FreedNodeIntact
  BY <1>3 DEF LeavesUnknown, LeaveConnect
<1>4. CASE OtherStep
  BY <1>4 DEF OtherStep, LoginConnectFail, LoginAllReconnectFail, ChatConnectFail, Overhears,
              Drained, Return, Connect, Network, LoginAnswers, LoginAttempt, ChatAnswers,
              ChatAttempt, LoginReplies, LoginGone, ChatReplies, ChatOther, ChatGone, LoginSide,
              ChatSide, Outside, Fine, vars
<1> QED BY <1>1, <1>2, <1>3, <1>4 DEF Step, PlayerStep

PlacesTyped ==
    /\ loginMap \subseteq Ids /\ moveQ \in Seq(Ids)
    /\ chatConnect \in [Ids -> Ids \cup {NoPlayer}] /\ chatLogin \in [Ids -> Ids \cup {NoPlayer}]

\* So do the maps and g_moveQ,
LEMMA PlacesTypedStep == ContentsInv /\ Step => PlacesTyped'
<1> SUFFICES ASSUME ContentsInv, Step PROVE PlacesTyped'
  OBVIOUS
<1>0. PlacesTyped
  BY DEF ContentsInv, TypeOK, PlacesTyped
<1>1. ASSUME NEW p \in Ids, TakesAccount(p) \/ \E v \in Ids : TakesOver(p, v) PROVE PlacesTyped'
  BY <1>0, <1>1 DEF TakesAccount, TakesOver, Joins, PlacesTyped
<1>2. ASSUME NEW p \in Ids, MovesOn(p) PROVE PlacesTyped'
  <2>1. moveQ' = Append(moveQ, p) /\ loginMap' \subseteq loginMap
        /\ UNCHANGED <<chatConnect, chatLogin>>
    BY <1>2 DEF MovesOn
  <2>2. moveQ' \in Seq(Ids)
    BY <1>0, <2>1, AppendProperties DEF PlacesTyped
  <2> QED BY <1>0, <2>1, <2>2 DEF PlacesTyped
<1>3. ASSUME NEW p \in Ids, FailsLogin(p) PROVE PlacesTyped'
  BY <1>0, <1>3 DEF FailsLogin, LoginDown, PlacesTyped
<1>4. ASSUME NEW p \in Ids, LoggedIn(p) \/ AsksLogin(p) \/ (\E c \in Ids : AsksChat(c, p))
                            \/ (\E c \in Ids : Plays(c, p)) \/ (\E c \in Ids : \E t : PlaysOn(c, p, t))
      PROVE  PlacesTyped'
  BY <1>0, <1>4 DEF LoggedIn, AsksLogin, AsksChat, Plays, PlaysOn, Acting, maps, PlacesTyped
<1>5. ASSUME moveQ # <<>>, moveQ' = Tail(moveQ) PROVE moveQ' \in Seq(Ids)
  BY <1>0, <1>5, HeadTailProperties DEF PlacesTyped
<1>6. ASSUME NEW p \in Ids, NEW c \in Ids, NEW tests, JoinsChat(c, p, tests) PROVE PlacesTyped'
  BY <1>0, <1>5, <1>6 DEF JoinsChat, PlacesTyped
<1>7. ASSUME NEW p \in Ids, GivesUp(p) PROVE PlacesTyped'
  BY <1>0, <1>5, <1>7 DEF GivesUp, PlacesTyped
<1>8. ASSUME NEW p \in Ids, NEW c \in Ids, LogsIn(c, p) PROVE PlacesTyped'
  BY <1>0, <1>8 DEF LogsIn, PlacesTyped
<1>9. ASSUME NEW p \in Ids, NEW c \in Ids, LeavesUnknown(c, p) \/ LeavesChat(c, p)
      PROVE  PlacesTyped'
  BY <1>0, <1>9 DEF LeavesUnknown, LeavesChat, LeaveConnect, LeaveLogin, PlacesTyped
<1>10. CASE OtherStep
  BY <1>0, <1>10, OtherKeeps DEF PlacesTyped
<1> QED BY <1>1, <1>2, <1>3, <1>4, <1>6, <1>7, <1>8, <1>9, <1>10 DEF Step, PlayerStep

CountsTyped ==
    /\ disconnectedNum \in Int /\ disconnectedNum >= 0 /\ nonConnected \in Seq(Accounts)
    /\ gauge \in [{"duplicate", "session", "login"} -> Int]

\* the counters and g_NonConnectedStack,
LEMMA CountsTypedStep == ContentsInv /\ Step => CountsTyped'
<1> SUFFICES ASSUME ContentsInv, Step PROVE CountsTyped'
  OBVIOUS
<1>0. CountsTyped
  <2>1. MaxSession \in Int
    BY SessionAssumption
  <2>2. /\ disconnectedNum \in 0 .. MaxSession /\ nonConnected \in Seq(Accounts)
        /\ gauge \in [{"duplicate", "session", "login"} -> Int]
    BY DEF ContentsInv, TypeOK
  <2>3. disconnectedNum \in Int /\ disconnectedNum >= 0
    BY <2>1, <2>2
  <2> QED BY <2>2, <2>3 DEF CountsTyped
<1>a. \A p \in Ids : /\ player[p].pInfo \in Accounts => nonConnected \in Seq(Accounts)
                     /\ player[p].state # "none" => player[p].pInfo \in Accounts
  BY <1>0 DEF ContentsInv, PlacesOk, PlaceOk, Alive, CountsTyped
<1>b. ASSUME NEW p \in Ids, player[p].state # "none", Push(player[p].pInfo)
      PROVE  nonConnected' \in Seq(Accounts)
  <2>1. player[p].pInfo \in Accounts /\ nonConnected \in Seq(Accounts)
    BY <1>0, <1>a, <1>b DEF CountsTyped
  <2> QED BY <1>b, <2>1 DEF Push
<1>1. ASSUME NEW p \in Ids, TakesAccount(p) PROVE CountsTyped'
  <2>1. /\ nonConnected # <<>> /\ nonConnected' = Tail(nonConnected)
        /\ UNCHANGED <<disconnectedNum, gauge>>
    BY <1>1 DEF TakesAccount, Joins
  <2>2. nonConnected' \in Seq(Accounts)
    BY <1>0, <2>1, HeadTailProperties DEF CountsTyped
  <2> QED BY <1>0, <2>1, <2>2 DEF CountsTyped
<1>2. ASSUME NEW p \in Ids, NEW v \in Ids, TakesOver(p, v) PROVE CountsTyped'
  BY <1>0, <1>2 DEF TakesOver, Joins, Bump, CountsTyped
<1>3. ASSUME NEW p \in Ids, LoggedIn(p) \/ AsksLogin(p) \/ (\E c \in Ids : AsksChat(c, p))
                            \/ MovesOn(p) \/ (\E c \in Ids : LogsIn(c, p))
                            \/ (\E c \in Ids : Plays(c, p)) \/ (\E c \in Ids : \E t : PlaysOn(c, p, t))
      PROVE  CountsTyped'
  BY <1>0, <1>3 DEF LoggedIn, AsksLogin, AsksChat, MovesOn, LogsIn, Plays, PlaysOn, slots, CountsTyped
<1>4. ASSUME NEW p \in Ids, NEW c \in Ids, NEW tests, JoinsChat(c, p, tests) PROVE CountsTyped'
  <2>1. /\ gauge' = [gauge EXCEPT
               !.session = @ + One("SESSION_TIMEOUT_TARGET" \in tests),
               !.login = @ + One("LOGIN_TIMOUT_TARGET" \in tests)]
        /\ UNCHANGED <<disconnectedNum, nonConnected>>
    BY <1>4 DEF JoinsChat, slots
  <2>2. One("SESSION_TIMEOUT_TARGET" \in tests) \in Int /\ One("LOGIN_TIMOUT_TARGET" \in tests) \in Int
    BY DEF One
  <2>3. PICK m, n \in Int : gauge' = [gauge EXCEPT !.session = @ + m, !.login = @ + n]
    BY <2>1, <2>2
  <2>4. gauge' \in [{"duplicate", "session", "login"} -> Int]
    <3>1. gauge \in [{"duplicate", "session", "login"} -> Int]
      BY <1>0 DEF CountsTyped
    <3>2. gauge.session \in Int /\ gauge.login \in Int
      BY <3>1
    <3>3. gauge.session + m \in Int /\ gauge.login + n \in Int
      BY <3>2
    <3>4. gauge' = [gauge EXCEPT !.session = gauge.session + m, !.login = gauge.login + n]
      BY <2>3, <3>1
    <3> QED BY <3>1, <3>3, <3>4
  <2> QED BY <1>0, <2>1, <2>4 DEF CountsTyped
<1>5. ASSUME NEW p \in Ids, FailsLogin(p) \/ GivesUp(p) PROVE CountsTyped'
  <2>1. /\ Push(player[p].pInfo) /\ disconnectedNum' = disconnectedNum + 1 /\ UNCHANGED gauge
    BY <1>5 DEF FailsLogin, LoginDown, GivesUp, GiveUp
  <2>2. player[p].state # "none"
    <3>1. p \in loginMap => player[p].state \in LoginStates
      BY DEF ContentsInv, PlacesOk, PlaceOk
    <3> QED BY <1>5, <3>1 DEF FailsLogin, GivesUp, LoginStates
  <2> QED BY <1>0, <1>b, <2>1, <2>2 DEF CountsTyped
<1>6. ASSUME NEW p \in Ids, NEW c \in Ids, LeavesUnknown(c, p) \/ LeavesChat(c, p)
      PROVE  CountsTyped'
  <2>1. /\ Push(player[p].pInfo) \/ UNCHANGED nonConnected
        /\ disconnectedNum' = disconnectedNum + 1
        /\ UNCHANGED gauge \/ \E name \in {"duplicate", "session", "login"}, n \in Int : Bump(name, n)
    <3>1. LeavesUnknown(c, p) =>
             /\ Push(player[p].pInfo) /\ disconnectedNum' = disconnectedNum + 1
             /\ Bump("session", IF "SESSION_TIMEOUT_TARGET" \in player[p].field THEN -1 ELSE 0)
      BY DEF LeavesUnknown, LeaveConnect
    <3>2. LeavesChat(c, p) =>
             /\ Push(player[p].pInfo) \/ UNCHANGED nonConnected
             /\ disconnectedNum' = disconnectedNum + 1
             /\ \/ Bump("duplicate", -1)
                \/ Bump("login", IF "LOGIN_TIMOUT_TARGET" \in player[p].field THEN -1 ELSE 0)
      BY DEF LeavesChat, LeaveLogin
    <3>3. \A b : (IF b THEN -1 ELSE 0) \in Int
      OBVIOUS
    <3> QED BY <1>6, <3>1, <3>2, <3>3
  <2>2. player[p].state # "none"
    <3>1. TypeOK /\ MapsOk /\ PlacesOk /\ p # NoPlayer
      BY DEF ContentsInv, Ids, NoPlayer
    <3>2. player[p].state \in ChatConnectStates \cup PlayStates
      BY <1>6, <3>1, HolderFacts DEF LeavesUnknown, LeavesChat
    <3> QED BY <3>2 DEF ChatConnectStates, PlayStates, RecvStates, SentStates
  <2>3. nonConnected' \in Seq(Accounts)
    BY <1>0, <1>b, <2>1, <2>2 DEF CountsTyped
  <2>4. gauge' \in [{"duplicate", "session", "login"} -> Int]
    BY <1>0, <2>1 DEF CountsTyped, Bump
  <2> QED BY <1>0, <2>1, <2>3, <2>4 DEF CountsTyped
<1>7. CASE OtherStep
  <2>1. UNCHANGED <<nonConnected, gauge>>
    BY <1>7, OtherKeeps
  <2>2. \/ UNCHANGED disconnectedNum \/ disconnectedNum' = disconnectedNum + 1
        \/ disconnectedNum > 0 /\ disconnectedNum' = disconnectedNum - 1
    BY <1>7 DEF OtherStep, LoginConnectFail, LoginAllReconnectFail, ChatConnectFail, Overhears,
              Drained, Return, Connect, Network, LoginAnswers, LoginAttempt, ChatAnswers,
              ChatAttempt, LoginReplies, LoginGone, ChatReplies, ChatOther, ChatGone, LoginSide,
              ChatSide, Outside, vars, slots
  <2> QED BY <1>0, <2>1, <2>2 DEF CountsTyped
<1> QED BY <1>1, <1>2, <1>3, <1>4, <1>5, <1>6, <1>7 DEF Step, PlayerStep

ServersTyped ==
    /\ loginOwes \subseteq Ids /\ sector \subseteq Ids
    /\ chatOwes \in [Ids -> Replies \cup {"none"}]
    /\ inbox \in [Ids -> Seq(Replies \cup {Other})]
    /\ cut \subseteq {"login", "chat"} \X Ids /\ others \in 0 .. MaxOthers
    /\ acting \in BOOLEAN

\* and the servers' variables.
LEMMA ServersTypedStep == ContentsInv /\ Step => ServersTyped'
<1> SUFFICES ASSUME ContentsInv, Step PROVE ServersTyped'
  OBVIOUS
<1>0. ServersTyped
  BY DEF ContentsInv, TypeOK, ServersTyped, Other
<1>1. ASSUME UNCHANGED <<loginOwes, sector, chatOwes, inbox, cut, others, acting>>
      PROVE  ServersTyped'
  BY <1>0, <1>1 DEF ServersTyped
<1>2. ASSUME UNCHANGED <<loginOwes, sector, chatOwes, inbox, others, acting>>,
             \E i \in Ids : cut' = cut \cup {<<"login", i>>} \/ cut' = cut \cup {<<"chat", i>>}
      PROVE  ServersTyped'
  BY <1>0, <1>2 DEF ServersTyped
<1>3. ASSUME UNCHANGED <<loginOwes, sector, chatOwes, others, acting>>,
             NEW c \in Ids, inbox[c] # <<>>, inbox' = [inbox EXCEPT ![c] = Tail(@)],
             \/ UNCHANGED cut
             \/ \E i \in Ids : cut' = cut \cup {<<"chat", i>>}
      PROVE  ServersTyped'
  <2>1. PICK q \in Seq(Replies \cup {Other}) : q = inbox[c] /\ q # <<>>
    BY <1>0, <1>3 DEF ServersTyped
  <2>2. Tail(q) \in Seq(Replies \cup {Other})
    BY <2>1, HeadTailProperties
  <2>3. inbox' \in [Ids -> Seq(Replies \cup {Other})]
    BY <1>0, <1>3, <2>1, <2>2 DEF ServersTyped
  <2> QED BY <1>0, <1>3, <2>3 DEF ServersTyped
<1>4. ASSUME NEW p \in Ids, \/ TakesAccount(p) \/ MovesOn(p) \/ FailsLogin(p)
                            \/ GivesUp(p) \/ \E v \in Ids : TakesOver(p, v)
      PROVE  ServersTyped'
  BY <1>1, <1>4 DEF TakesAccount, TakesOver, Joins, MovesOn, FailsLogin, GivesUp, LoginJob,
                    ChatJob, servers
<1>5. ASSUME NEW p \in Ids, LoggedIn(p) PROVE ServersTyped'
  BY <1>2, <1>5 DEF LoggedIn, LoginJob, servers
<1>6. ASSUME NEW p \in Ids, AsksLogin(p) PROVE ServersTyped'
  BY <1>0, <1>6 DEF AsksLogin, Acting, ServersTyped
<1>7. ASSUME NEW c \in Ids, NEW p \in Ids,
             \/ \E tests : JoinsChat(c, p, tests)
             \/ LeavesUnknown(c, p) \/ LeavesChat(c, p)
      PROVE  ServersTyped'
  BY <1>1, <1>7 DEF JoinsChat, LeavesUnknown, LeavesChat, ChatJob, servers
<1>8. ASSUME NEW c \in Ids, NEW p \in Ids, LogsIn(c, p) \/ \E type : PlaysOn(c, p, type)
      PROVE  ServersTyped'
  BY <1>3, <1>8 DEF LogsIn, PlaysOn, Answered, ChatMessage, ChatJob, servers
<1>9. ASSUME NEW c \in Ids, NEW r \in Replies, Send(c, r)
      PROVE  chatOwes' \in [Ids -> Replies \cup {"none"}]
  BY <1>0, <1>9 DEF Send, ServersTyped
<1>10. ASSUME NEW c \in Ids, NEW p \in Ids, AsksChat(c, p) PROVE ServersTyped'
  <2>1. chatOwes' \in [Ids -> Replies \cup {"none"}]
    BY <1>9, <1>10 DEF AsksChat, Replies
  <2> QED BY <1>0, <1>10, <2>1 DEF AsksChat, Acting, ServersTyped
<1>11. ASSUME NEW c \in Ids, NEW p \in Ids, Plays(c, p) PROVE ServersTyped'
  <2>1. chatOwes' \in [Ids -> Replies \cup {"none"}]
    <3>1. "RES_SECTOR_MOVE" \in Replies /\ "RES_MESSAGE" \in Replies
      BY DEF Replies
    <3> QED BY <1>0, <1>9, <1>11, <3>1 DEF Plays, SendRandomChatMessage, ReserveSend, ServersTyped
  <2>2. sector' \subseteq Ids
    BY <1>0, <1>11 DEF Plays, SendRandomChatMessage, ReserveSend, ServersTyped
  <2> QED BY <1>0, <1>11, <2>1, <2>2 DEF Plays, Acting, ServersTyped
<1>12. ASSUME NEW c \in Ids, Overhears(c) PROVE ServersTyped'
  BY <1>3, <1>12 DEF Overhears, ChatMessage, ChatJob, servers
<1>13. CASE LoginConnectFail \/ LoginAllReconnectFail \/ ChatConnectFail \/ UNCHANGED vars
  BY <1>1, <1>13 DEF LoginConnectFail, LoginAllReconnectFail, ChatConnectFail, LoginJob, ChatJob,
                     servers, vars
<1>14. CASE Drained \/ Return \/ Connect
  BY <1>0, <1>14 DEF Drained, Return, Connect, Acting, servers, ServersTyped
<1>15. CASE LoginAnswers \/ LoginAttempt \/ ChatAnswers \/ ChatAttempt
  BY <1>1, <1>15 DEF LoginAnswers, LoginAttempt, ChatAnswers, ChatAttempt, LoginSide, ChatSide,
                     Outside
<1>16. CASE \E i \in Ids : LoginReplies(i) \/ LoginGone(i)
  BY <1>0, <1>16 DEF LoginReplies, LoginGone, LoginSide, Outside, ServersTyped
<1>17. ASSUME NEW c \in Ids, NEW m \in Replies \cup {Other},
              inbox' = [inbox EXCEPT ![c] = Append(@, m)]
       PROVE  inbox' \in [Ids -> Seq(Replies \cup {Other})]
  <2>1. PICK q \in Seq(Replies \cup {Other}) : q = inbox[c]
    BY <1>0 DEF ServersTyped
  <2>2. Append(q, m) \in Seq(Replies \cup {Other})
    BY AppendProperties
  <2> QED BY <1>0, <1>17, <2>1, <2>2 DEF ServersTyped
<1>18. ASSUME NEW c \in Ids, ChatReplies(c) PROVE ServersTyped'
  <2>1. chatOwes[c] \in Replies \cup {Other}
    BY <1>0, <1>18 DEF ChatReplies, ServersTyped
  <2>2. inbox' \in [Ids -> Seq(Replies \cup {Other})]
    BY <1>17, <1>18, <2>1 DEF ChatReplies
  <2> QED BY <1>0, <1>18, <2>2 DEF ChatReplies, ChatSide, Outside, ServersTyped
<1>19. ASSUME NEW c \in Ids, ChatOther(c) PROVE ServersTyped'
  <2>1. inbox' \in [Ids -> Seq(Replies \cup {Other})]
    BY <1>17, <1>19 DEF ChatOther, Other
  <2>2. others' \in 0 .. MaxOthers
    <3>1. others \in 0 .. MaxOthers /\ others < MaxOthers /\ others' = others + 1
      BY <1>0, <1>19 DEF ChatOther, ServersTyped
    <3> QED BY <3>1, BoundAssumption
  <2> QED BY <1>0, <1>19, <2>1, <2>2 DEF ChatOther, ChatSide, Outside, ServersTyped
<1>20. ASSUME NEW c \in Ids, ChatGone(c) PROVE ServersTyped'
  BY <1>0, <1>20 DEF ChatGone, ChatSide, Outside, ServersTyped
<1> QED BY <1>4, <1>5, <1>6, <1>7, <1>8, <1>10, <1>11, <1>12, <1>13, <1>14, <1>15, <1>16, <1>18,
           <1>19, <1>20 DEF Step, PlayerStep, OtherStep, Network

\* Every step keeps TypeOK: the free slots by the sum that SlotsStep keeps.
LEMMA TypeStep == ContentsInv /\ Step => TypeOK'
<1> SUFFICES ASSUME ContentsInv, Step PROVE TypeOK'
  OBVIOUS
<1>1. PlayersTyped' /\ PlacesTyped' /\ ServersTyped' /\ CountsTyped'
  BY PlayersTypedStep, PlacesTypedStep, ServersTypedStep, CountsTypedStep
<1>2. broken' \in BOOLEAN
  <2>1. broken \in BOOLEAN
    BY DEF ContentsInv, TypeOK
  <2> QED BY <2>1, BrokenStep
<1>3. disconnectedNum' \in 0 .. MaxSession
  <2>1. PICK d, w, n \in Nat : /\ d = disconnectedNum' /\ w = LoginWaits'
                               /\ n = Cardinality(Alive')
    BY <1>1, SlotsStep DEF SlotsHold, CountsTyped
  <2>2. d + w + n = MaxSession
    BY <2>1, SlotsStep DEF SlotsHold
  <2> QED BY <2>1, <2>2, SessionAssumption
<1> QED BY <1>1, <1>2, <1>3
    DEF TypeOK, PlayersTyped, PlacesTyped, ServersTyped, CountsTyped, Other
-----------------------------------------------------------------------------
(* The theorems *)

\* The invariant holds at the start,
LEMMA ContentsInit == Init => ContentsInv
<1> SUFFICES ASSUME Init PROVE ContentsInv
  OBVIOUS
<1>1. /\ loginPhase = [i \in Ids |-> "new"] /\ loginPending = 0 /\ loginQ = <<>>
      /\ chatPhase = [i \in Ids |-> "new"] /\ chatPending = 0 /\ chatQ = <<>>
  BY DEF Init, Login!Init, Chat!Init
<1>2. /\ \A c \in Ids : Holder(c) = NoPlayer
      /\ \A p \in Ids : /\ player[p].state = "none" /\ player[p].field = {}
                        /\ ~InMap(p, chatConnect) /\ ~InMap(p, chatLogin) /\ ~Member(p, moveQ)
      /\ NoPlayer \notin Ids
  <2>1. NoPlayer \notin Ids
    BY DEF Ids, NoPlayer
  <2> QED BY <2>1 DEF Init, Holder, Unused, NewPlayer, InMap, Member
<1>3. Alive = {} /\ \A flag : Flagged(flag) = {}
  BY <1>2 DEF Alive, Flagged
<1>4. Cardinality({}) = 0
  BY FS_EmptySet
<1>5. TypeOK
  <2>1. nonConnected \in Seq(Accounts)
    <3>1. nonConnected \in [1 .. MaxSession -> Accounts]
      BY SessionAssumption DEF Init, Accounts
    <3> QED BY <3>1, SessionAssumption, SeqDef
  <2>2. disconnectedNum \in 0 .. MaxSession /\ others \in 0 .. MaxOthers
    BY SessionAssumption, BoundAssumption DEF Init
  <2>3. player \in [Ids -> PlayerRecords]
    BY DEF Init, Unused, NewPlayer, PlayerRecords, States
  <2>4. gauge \in [{"duplicate", "session", "login"} -> Int]
    BY DEF Init
  <2>5. /\ chatOwes \in [Ids -> Replies \cup {"none"}]
        /\ inbox \in [Ids -> Seq(Replies \cup {"RES_MESSAGE of another"})]
    BY DEF Init
  <2>6. /\ chatConnect \in [Ids -> Ids \cup {NoPlayer}]
        /\ chatLogin \in [Ids -> Ids \cup {NoPlayer}]
    BY DEF Init
  <2>7. /\ loginOwes = {} /\ sector = {} /\ loginMap = {} /\ cut = {} /\ moveQ = <<>>
        /\ acting = FALSE /\ broken = FALSE
    BY DEF Init
  <2>8. moveQ \in Seq(Ids)
    BY <2>7
  <2> QED BY <2>1, <2>2, <2>3, <2>4, <2>5, <2>6, <2>7, <2>8 DEF TypeOK
<1>6. ClientsOk
  BY <1>1 DEF ClientsOk, QueueOk, Phases
<1>7. MapsOk
  <2>1. \A p \in Ids : ~LoginKnown(p) /\ ~ChatKnown(p)
    BY <1>1 DEF LoginKnown, ChatKnown, Known, Arrived
  <2> QED BY <1>2, <2>1 DEF MapsOk, Init
<1>8. PlacesOk
  <2>1. \A p \in Ids : PlaceOk(p)
    BY <1>2, <1>3 DEF PlaceOk, Init, LoginStates, ChatConnectStates, PlayStates, RecvStates,
                      SentStates
  <2> QED BY <2>1 DEF PlacesOk, OneEach, Init
<1>9. FieldsOk
  BY <1>2 DEF FieldsOk, FieldOk, LoginStates, ChatConnectStates, PlayStates, RecvStates, SentStates
<1>10. RepliesOk
  <2>1. ASSUME NEW c \in Ids PROVE ReplyOk(c)
    <3>1. Places({Message(c)}, chatQ) = {}
      BY <1>1 DEF Places
    <3>2. Heard(c) = 0
      BY <1>4, <3>1 DEF Heard
    <3> QED BY <3>2 DEF ReplyOk, Init
  <2> QED BY <2>1 DEF RepliesOk
<1>11. \A types : JobsIn(loginQ, types) = 0 /\ JobsIn(chatQ, types) = 0
  <2>1. \A types : /\ {n \in DOMAIN loginQ : loginQ[n].type \in types} = {}
                   /\ {n \in DOMAIN chatQ : chatQ[n].type \in types} = {}
    BY <1>1
  <2> QED BY <1>4, <2>1 DEF JobsIn
<1>12. SlotsConserved
  <2>1. disconnectedNum = MaxSession
    BY DEF Init
  <2> QED BY <1>1, <1>3, <1>4, <1>11, <2>1, SessionAssumption DEF SlotsConserved
<1>13. MoveQMatches
  BY <1>1, <1>11 DEF MoveQMatches, Init
<1>14. AccountOnce
  <2>1. ASSUME NEW a \in Accounts PROVE AccountHeld(a)
    <3>1. Holding(a) = {}
      BY <1>3 DEF Holding
    <3>2. {n \in DOMAIN nonConnected : nonConnected[n] = a} = {MaxSession + 1 - a}
      <4>1. nonConnected = [i \in 1 .. MaxSession |-> MaxSession + 1 - i]
        BY DEF Init
      <4>2. a \in Int /\ MaxSession \in Int /\ MaxSession + 1 - a \in 1 .. MaxSession
        BY SessionAssumption DEF Accounts
      <4>3. \A n \in 1 .. MaxSession : nonConnected[n] = a <=> n = MaxSession + 1 - a
        BY <4>1, <4>2
      <4>4. DOMAIN nonConnected = 1 .. MaxSession
        BY <4>1
      <4> QED BY <4>2, <4>3, <4>4
    <3>3. Times(a, nonConnected) = 1
      BY <3>2, FS_Singleton DEF Times
    <3> QED BY <1>4, <3>1, <3>3 DEF AccountHeld
  <2> QED BY <2>1, AccountsAre DEF AccountsHeld
<1>15. GaugesExact
  BY <1>3, <1>4 DEF GaugesExact, Init
<1> QED BY <1>5, <1>6, <1>7, <1>8, <1>9, <1>10, <1>12, <1>13, <1>14, <1>15 DEF ContentsInv

SlotsMean == ClientsOk /\ SlotsHold => SlotsConserved

\* The sum is what SlotsConserved states,
LEMMA SlotsHeld == SlotsMean
BY SlotsAre DEF SlotsMean, SlotsHold

MovesMean == ClientsOk /\ MovesHold => MoveQMatches

\* and that of g_moveQ what MoveQMatches states.
LEMMA MovesHeld == MovesMean
BY MovesAre DEF MovesMean, MovesHold

\* and every step keeps it.
LEMMA ContentsStep == ContentsInv /\ [Next]_vars => ContentsInv'
<1> SUFFICES ASSUME ContentsInv, Step PROVE ContentsInv'
  BY StepIs
<1>1. ClientsOk'
  BY ClientsStep DEF ContentsInv
<1>2. SlotsMean' /\ MovesMean'
  BY SlotsHeld, MovesHeld, PTL
<1>3. SlotsConserved'
  BY <1>1, <1>2, SlotsStep DEF SlotsMean
<1>4. MoveQMatches'
  BY <1>1, <1>2, MovesStep DEF MovesMean
<1> QED BY <1>1, <1>3, <1>4, TypeStep, MapsStep, PlacesStep, FieldsStep, RepliesStep,
           AccountsStep, GaugesStep DEF ContentsInv

\* So it always holds.
LEMMA ContentsAlways == Spec => []ContentsInv
BY ContentsInit, ContentsStep, PTL DEF Spec

\* TypeOK: every variable of Contents holds a value of its kind; the free slots are
\* never fewer than none nor more than g_maxSession.
THEOREM ContentsTyped == Spec => []TypeOK
<1>1. ContentsInv => TypeOK
  BY DEF ContentsInv
<1> QED BY <1>1, ContentsAlways, PTL

\* SlotsConserved: no slot of g_maxSession is lost or made on any way through
\* login, chat, retry and release.
THEOREM SlotsKept == Spec => []SlotsConserved
<1>1. ContentsInv => SlotsConserved
  BY DEF ContentsInv
<1> QED BY <1>1, ContentsAlways, PTL

\* AccountOnce: no account is lost, and none is used by two players but through a
\* duplicate login.
THEOREM AccountsKept == Spec => []AccountOnce
<1>1. ContentsInv => AccountOnce
  BY DEF ContentsInv
<1> QED BY <1>1, ContentsAlways, PTL

\* MoveQMatches: g_moveQ has one player for each Connect to the chat server that is
\* not answered.
THEOREM MoveQKept == Spec => []MoveQMatches
<1>1. ContentsInv => MoveQMatches
  BY DEF ContentsInv
<1> QED BY <1>1, ContentsAlways, PTL

\* GaugesExact: the monitor's numbers of duplicate logins and session timeouts are
\* the numbers of such players.
THEOREM GaugesKept == Spec => []GaugesExact
<1>1. ContentsInv => GaugesExact
  BY DEF ContentsInv
<1> QED BY <1>1, ContentsAlways, PTL

\* NoBreak: no __debugbreak, failed find() or empty queue is ever reached, in
\* whatever order the jobs of the two clients come, where the iterator read after
\* its erase (Update.cpp:558) still sees its node.
THEOREM NeverBreaks ==
  ASSUME FreedNodeIntact = TRUE
  PROVE  Spec => []NoBreak
<1>1. Init => NoBreak
  BY DEF Init, NoBreak
<1>2. ContentsInv /\ NoBreak /\ [Next]_vars => NoBreak'
  BY StepIs, BrokenStep DEF NoBreak
<1> QED BY <1>1, <1>2, ContentsAlways, PTL DEF Spec

\* How often a player is in a queue or a map where it is at most once
LEMMA TimesOnce ==
  ASSUME NEW S, NEW q \in Seq(S), Distinct(q), NEW x
  PROVE  Times(x, q) = One(Member(x, q))
<1>1. DOMAIN q = 1 .. Len(q)
  OBVIOUS
<1>2. CASE Member(x, q)
  <2>1. PICK m \in 1 .. Len(q) : q[m] = x
    BY <1>2 DEF Member
  <2>2. {n \in DOMAIN q : q[n] = x} = {m}
    BY <1>1, <2>1 DEF Distinct
  <2> QED BY <1>2, <2>2, FS_Singleton DEF Times, One
<1>3. CASE ~Member(x, q)
  <2>1. {n \in DOMAIN q : q[n] = x} = {}
    BY <1>1, <1>3 DEF Member
  <2> QED BY <1>3, <2>1, FS_EmptySet DEF Times, One
<1> QED BY <1>2, <1>3

\* A map that has a player once
LEMMA InMapOnce ==
  ASSUME NEW m, OneEach(m), NEW x, x # NoPlayer
  PROVE  Cardinality({c \in Ids : m[c] = x}) = One(InMap(x, m))
<1>1. CASE InMap(x, m)
  <2>1. PICK d \in Ids : m[d] = x
    BY <1>1 DEF InMap
  <2>2. {c \in Ids : m[c] = x} = {d}
    BY <2>1 DEF OneEach
  <2> QED BY <1>1, <2>2, FS_Singleton DEF One
<1>2. CASE ~InMap(x, m)
  <2>1. {c \in Ids : m[c] = x} = {}
    BY <1>2 DEF InMap
  <2> QED BY <1>2, <2>1, FS_EmptySet DEF One
<1> QED BY <1>1, <1>2

\* OnePlace: a player is in exactly one of the three maps and g_moveQ, once, and
\* in the one that its state belongs to.
THEOREM PlayersInPlace == Spec => []OnePlace
<1>1. ContentsInv => OnePlace
  <2> SUFFICES ASSUME ContentsInv, NEW p \in Ids
               PROVE
        LET inLogin == p \in loginMap
            inConnect == {c \in Ids : chatConnect[c] = p}
            inChat == {c \in Ids : chatLogin[c] = p}
        IN  /\ (IF inLogin THEN 1 ELSE 0) + Times(p, moveQ) + Cardinality(inConnect)
               + Cardinality(inChat) = (IF p \in Alive THEN 1 ELSE 0)
            /\ inLogin => player[p].state \in LoginStates
            /\ Times(p, moveQ) > 0 => player[p].state = "CHAT_CONNECT_TRY"
            /\ inConnect # {} => player[p].state \in ChatConnectStates
            /\ inChat # {} =>
                  player[p].state \in RecvStates \cup SentStates \cup {"CHAT_TRY_DISCONNECT"}
    BY DEF OnePlace
  <2>1. /\ PlaceOk(p) /\ p # NoPlayer /\ Distinct(moveQ) /\ moveQ \in Seq(Ids)
        /\ OneEach(chatConnect) /\ OneEach(chatLogin)
        /\ player[p].state \in States
    BY PlacesFacts DEF ContentsInv, TypeOK, PlayerRecords
  <2>2. /\ Times(p, moveQ) = One(Member(p, moveQ))
        /\ Cardinality({c \in Ids : chatConnect[c] = p}) = One(InMap(p, chatConnect))
        /\ Cardinality({c \in Ids : chatLogin[c] = p}) = One(InMap(p, chatLogin))
    BY <2>1, TimesOnce, InMapOnce
  <2>3. /\ {c \in Ids : chatConnect[c] = p} # {} => InMap(p, chatConnect)
        /\ {c \in Ids : chatLogin[c] = p} # {} => InMap(p, chatLogin)
        /\ One(Member(p, moveQ)) > 0 => Member(p, moveQ)
    BY DEF InMap, One
  <2>4. \/ player[p].state = "none" \/ player[p].state = "CHAT_CONNECT_TRY"
        \/ player[p].state \in LoginStates \/ player[p].state \in ChatConnectStates
        \/ player[p].state \in PlayStates
    BY <2>1 DEF States, PlayStates
  <2>5. One(p \in loginMap) + One(Member(p, moveQ)) + One(InMap(p, chatConnect))
        + One(InMap(p, chatLogin)) = One(p \in Alive)
    BY <2>1, <2>4, PlaceFound DEF Alive, One, LoginStates, ChatConnectStates, PlayStates, RecvStates,
                                  SentStates, PlaceOk
  <2>6. /\ One(p \in loginMap) = IF p \in loginMap THEN 1 ELSE 0
        /\ One(p \in Alive) = IF p \in Alive THEN 1 ELSE 0
    BY DEF One
  <2> QED BY <2>1, <2>2, <2>3, <2>5, <2>6 DEF PlaceOk, PlayStates
<1> QED BY <1>1, ContentsAlways, PTL

\* TestedStayQuiet: nothing comes for a target of the session timeout test, for one
\* of the login timeout test nothing but RES_LOGIN, and nobody is in two tests.
THEOREM TestedQuiet == Spec => []TestedStayQuiet
<1>1. ContentsInv => TestedStayQuiet
  <2> SUFFICES ASSUME ContentsInv, NEW c \in Ids, Holder(c) # NoPlayer
               PROVE
        LET p == Holder(c)
            expected == {chatOwes[c]} \cup {inbox[c][n] : n \in DOMAIN inbox[c]}
        IN  /\ "SESSION_TIMEOUT_TARGET" \in player[p].field => expected \subseteq {"none"}
            /\ "LOGIN_TIMOUT_TARGET" \in player[p].field =>
                  expected \subseteq {"none", "RES_LOGIN"}
            /\ Cardinality(player[p].field \cap Tests) <= 1
    BY DEF TestedStayQuiet
  <2> DEFINE p == Holder(c)  s == player[p].state  f == player[p].field
  <2>0. TypeOK /\ MapsOk /\ PlacesOk /\ ReplyOk(c) /\ FieldsOk
    BY DEF ContentsInv, RepliesOk
  <2>1. /\ p \in Ids /\ s \in ChatConnectStates \cup PlayStates /\ FieldOk(s, f)
        /\ "REGISTER_AT_SECTOR" \in f <=> Registered(c)
        /\ \A r : Awaits(c, r) => s = Waiting[r] /\ (r = "RES_MESSAGE" => Registered(c))
    BY <2>0, HolderFacts DEF FieldsOk, Registered, Awaits, Holder
  <2>2. /\ chatOwes[c] \in Replies \cup {"none"} /\ DOMAIN inbox[c] = 1 .. Len(inbox[c])
        /\ \A n \in 1 .. Len(inbox[c]) : inbox[c][n] \in Replies \cup {Other}
    <3>1. inbox[c] \in Seq(Replies \cup {Other}) /\ chatOwes[c] \in Replies \cup {"none"}
      BY <2>0 DEF TypeOK, Other
    <3> QED BY <3>1
  <2>3. /\ chatOwes[c] # "none" => Awaits(c, chatOwes[c])
        /\ \A n \in 1 .. Len(inbox[c]) :
              \/ inbox[c][n] = Other /\ Registered(c)
              \/ inbox[c][n] \in Replies /\ Awaits(c, inbox[c][n])
    BY <2>0, <2>2 DEF ReplyOk
  <2> HIDE DEF p, s, f
  <2>4. ASSUME "SESSION_TIMEOUT_TARGET" \in f
        PROVE  s = "CHAT_CONNECT_SUCCESS" /\ f = {"SESSION_TIMEOUT_TARGET"}
    BY <2>1, <2>4 DEF FieldOk, ChatConnectStates, PlayStates, Tests
  <2>5. ASSUME "LOGIN_TIMOUT_TARGET" \in f
        PROVE  /\ f = {"LOGIN_TIMOUT_TARGET"}
               /\ s \in ChatConnectStates \cup {"CS_CHAT_RES_LOGIN_RECV"}
    BY <2>1, <2>5 DEF FieldOk, ChatConnectStates, PlayStates, Tests
  <2>6. \A r \in Replies : /\ Waiting[r] # "CHAT_CONNECT_SUCCESS"
                           /\ Waiting[r] # "CS_CHAT_RES_LOGIN_RECV"
                           /\ Waiting[r] = "CS_CHAT_REQ_LOGIN_SENT" => r = "RES_LOGIN"
    BY DEF Replies, Waiting
  <2>7. "SESSION_TIMEOUT_TARGET" \in f =>
            {chatOwes[c]} \cup {inbox[c][n] : n \in DOMAIN inbox[c]} \subseteq {"none"}
    BY <2>1, <2>2, <2>3, <2>4, <2>6
  <2>8. "LOGIN_TIMOUT_TARGET" \in f =>
            {chatOwes[c]} \cup {inbox[c][n] : n \in DOMAIN inbox[c]} \subseteq {"none", "RES_LOGIN"}
    BY <2>1, <2>2, <2>3, <2>5, <2>6 DEF ChatConnectStates
  <2>9. Cardinality(f \cap Tests) <= 1
    <3>1. f \cap Tests = {} \/ \E t : f \cap Tests = {t}
      <4>1. CASE s \in ChatConnectStates
        <5>1. f \in {{}, {"SESSION_TIMEOUT_TARGET"}, {"LOGIN_TIMOUT_TARGET"}}
          BY <2>1, <4>1 DEF FieldOk
        <5>2. f \cap Tests = f
          BY <5>1 DEF Tests
        <5> QED BY <5>1, <5>2
      <4>2. CASE s \in PlayStates
        <5>1. f \cap Tests \in {{}, {"DUPLICATE_TARGET"}, {"LOGIN_TIMOUT_TARGET"},
                                {"DISCONNECT_TARGET"}}
          BY <2>1, <4>2 DEF FieldOk
        <5> QED BY <5>1
      <4> QED BY <2>1, <4>1, <4>2
    <3>2. CASE f \cap Tests = {}
      <4>1. Cardinality(f \cap Tests) = 0
        BY <3>2, FS_EmptySet
      <4> QED BY <4>1
    <3>3. CASE \E t : f \cap Tests = {t}
      <4>1. PICK t : f \cap Tests = {t}
        BY <3>3
      <4>2. Cardinality({t}) = 1
        BY FS_Singleton
      <4> QED BY <4>1, <4>2
    <3> QED BY <3>1, <3>2, <3>3
  <2> QED BY <2>7, <2>8, <2>9 DEF p, f
<1> QED BY <1>1, ContentsAlways, PTL

\* ChatFits: the players that wait in g_moveQ and those that hold a session of the
\* chat client are no more than g_maxSession: each has a slot of its own.
THEOREM ChatHasRoom == Spec => []ChatFits
<1>1. ContentsInv => ChatFits
  <2> SUFFICES ASSUME ContentsInv PROVE ChatFits
    OBVIOUS
  <2> DEFINE Waits == {p \in Ids : Member(p, moveQ)}
             Held == {c \in Ids : Holder(c) # NoPlayer}
             Holders == {Holder(c) : c \in Held}
  <2>0. /\ TypeOK /\ MapsOk /\ PlacesOk /\ ClientsOk
        /\ moveQ \in Seq(Ids) /\ Distinct(moveQ)
        /\ \A x \in Ids : PlaceOk(x)
    BY PlacesFacts DEF ContentsInv
  <2>1. IsFiniteSet(Waits) /\ Cardinality(Waits) = Len(moveQ) /\ Len(moveQ) \in Nat
    <3> DEFINE f == [n \in 1 .. Len(moveQ) |-> moveQ[n]]
    <3>1. f \in Bijection(1 .. Len(moveQ), Waits)
      <4>1. f \in [1 .. Len(moveQ) -> Waits]
        BY <2>0 DEF Member
      <4>2. \A m, n \in 1 .. Len(moveQ) : f[m] = f[n] => m = n
        BY <2>0 DEF Distinct
      <4>3. \A p \in Waits : \E n \in 1 .. Len(moveQ) : f[n] = p
        BY DEF Member
      <4> QED BY <4>1, <4>2, <4>3 DEF Bijection, Injection, Surjection, IsInjective
    <3>2. Len(moveQ) \in Nat
      BY <2>0
    <3>3. IsFiniteSet(1 .. Len(moveQ)) /\ Cardinality(1 .. Len(moveQ)) = Len(moveQ)
      <4>1. PICK n \in Nat : n = Len(moveQ)
        BY <3>2
      <4>2. IsFiniteSet(1 .. n) /\ Cardinality(1 .. n) = IF 1 > n THEN 0 ELSE n - 1 + 1
        BY FS_Interval
      <4>3. (IF 1 > n THEN 0 ELSE n - 1 + 1) = n
        OBVIOUS
      <4> QED BY <4>1, <4>2, <4>3
    <3> QED BY <3>1, <3>2, <3>3, FS_Bijection DEF ExistsBijection
  <2>2. IsFiniteSet(Held) /\ IsFiniteSet(Holders) /\ Cardinality(Held) = Cardinality(Holders)
    <3> DEFINE f == [c \in Held |-> Holder(c)]
    <3>1. f \in Bijection(Held, Holders)
      <4>1. f \in [Held -> Holders] /\ \A p \in Holders : \E c \in Held : f[c] = p
        OBVIOUS
      <4>2. \A c, d \in Held : f[c] = f[d] => c = d
        BY <2>0, HolderAlone
      <4> HIDE DEF f, Held, Holders
      <4> QED BY <4>1, <4>2 DEF Bijection, Injection, Surjection, IsInjective
    <3>2. Held \in SUBSET Ids
      OBVIOUS
    <3>3. IsFiniteSet(Held)
      BY <3>2, PlayersFinite
    <3> QED BY <3>1, <3>3, FS_Bijection DEF ExistsBijection
  <2>3. Waits \cap Holders = {}
    <3>1. ASSUME NEW p \in Waits, NEW c \in Held, p = Holder(c) PROVE FALSE
      <4>1. player[p].state = "CHAT_CONNECT_TRY"
        BY <2>0 DEF PlaceOk
      <4>2. player[p].state \notin ChatConnectStates \cup PlayStates
        BY <4>1 DEF ChatConnectStates, PlayStates, RecvStates, SentStates
      <4> QED BY <3>1, <4>2, NotHolder
    <3> QED BY <3>1
  <2>4. Waits \cup Holders \in SUBSET Alive
    <3>1. ASSUME NEW p \in Waits PROVE p \in Alive
      BY <2>0 DEF PlaceOk, Alive
    <3>2. ASSUME NEW c \in Held PROVE Holder(c) \in Alive
      BY <2>0, HolderFacts DEF Holder, Alive, ChatConnectStates, PlayStates, RecvStates, SentStates
    <3> QED BY <3>1, <3>2
  <2>5. Alive \in SUBSET Ids
    BY DEF Alive
  <2>6. IsFiniteSet(Alive) /\ Cardinality(Alive) \in Nat
    BY <2>5, PlayersFinite
  <2> HIDE DEF Waits, Held, Holders
  <2>7. PICK w, h \in Nat : w = Cardinality(Waits) /\ h = Cardinality(Holders)
    BY <2>1, <2>2, FS_CardinalityType
  <2>8. Cardinality(Waits \cup Holders) = w + h
    <3>1. Cardinality(Waits \cup Holders)
          = Cardinality(Waits) + Cardinality(Holders) - Cardinality(Waits \cap Holders)
      BY <2>1, <2>2, FS_Union
    <3> QED BY <2>3, <2>7, <3>1, FS_EmptySet
  <2>9. w + h <= Cardinality(Alive)
    BY <2>4, <2>6, <2>8, FS_Subset
  <2>10. Cardinality(Alive) <= MaxSession
    <3>1. /\ disconnectedNum \in 0 .. MaxSession /\ SlotsConserved
          /\ loginQ \in Seq(Jobs) /\ loginPending \in Nat
      BY DEF ContentsInv, TypeOK, ClientsOk, QueueOk
    <3>2. JobsIn(loginQ, Answers) \in Nat
      BY <3>1, JobsCounted
    <3>3. PICK a, j \in Nat : a = Cardinality(Alive) /\ j = JobsIn(loginQ, Answers)
      BY <2>6, <3>2
    <3>4. disconnectedNum + loginPending + j + a = MaxSession
      BY <3>1, <3>3 DEF SlotsConserved, Answers
    <3> QED BY <3>1, <3>3, <3>4, SessionAssumption
  <2>11. Len(moveQ) = chatPending + JobsIn(chatQ, {"CONNECT_SUCCESS", "ALL_RECONNECT_FAIL"})
    BY DEF ContentsInv, MoveQMatches
  <2>12. w + Cardinality(Held) <= MaxSession
    BY <2>2, <2>6, <2>7, <2>9, <2>10, SessionAssumption
  <2> QED BY <2>1, <2>7, <2>11, <2>12 DEF ChatFits, Held
<1> QED BY <1>1, ContentsAlways, PTL

\* ReplacedWaits: a player replaced by a duplicate login is neither disconnected
\* nor starts to send until its session is released.
THEOREM ReplacedIsLeft == Spec => ReplacedWaits
<1>1. ContentsInv /\ [Next]_vars => [ReplacedStays]_vars
  <2> SUFFICES ASSUME ContentsInv, Step, NEW c \in Ids, chatLogin[c] # NoPlayer,
                      "DUPLICATE_TARGET" \in player[chatLogin[c]].field,
                      chatLogin'[c] # NoPlayer
               PROVE  /\ player'[chatLogin[c]].field \cap Tests = {"DUPLICATE_TARGET"}
                      /\ player[chatLogin[c]].state \in RecvStates =>
                            player'[chatLogin[c]].state = player[chatLogin[c]].state
    BY StepIs DEF ReplacedStays
  <2> DEFINE p == chatLogin[c]
  <2>0. /\ TypeOK /\ MapsOk /\ PlacesOk /\ \A x \in Ids : PlaceOk(x)
    BY PlacesFacts DEF ContentsInv
  <2>1. /\ p \in Ids /\ player[p].state \in PlayStates /\ Holder(c) = p
        /\ chatConnect[c] = NoPlayer
    BY <2>0, HolderFacts
  <2>2. player[p].field \cap Tests = {"DUPLICATE_TARGET"}
    <3>1. FieldOk(player[p].state, player[p].field)
      BY <2>1 DEF ContentsInv, FieldsOk
    <3>2. player[p].field \cap Tests \in {{}, {"DUPLICATE_TARGET"}, {"LOGIN_TIMOUT_TARGET"},
                                          {"DISCONNECT_TARGET"}}
      BY <2>1, <3>1 DEF FieldOk
    <3>3. "DUPLICATE_TARGET" \in player[p].field \cap Tests
      BY DEF Tests
    <3> QED BY <3>2, <3>3
  <2> HIDE DEF p
  <2>3. /\ \A s \in PlayStates : /\ s \notin LoginStates /\ s \notin ChatConnectStates
                                 /\ s # "none" /\ s # "CHAT_CONNECT_TRY"
        /\ \A s \in SentStates : s \notin RecvStates
    BY DEF PlayStates, RecvStates, SentStates, LoginStates, ChatConnectStates
  <2>4. ASSUME player'[p] = player[p] PROVE /\ player'[p].field \cap Tests = {"DUPLICATE_TARGET"}
                                            /\ player'[p].state = player[p].state
    BY <2>2, <2>4
  <2>5. ASSUME NEW q \in Ids, Starts(q) PROVE player'[p] = player[p]
    <3>1. player[q].state = "none"
      BY <2>5, Begins
    <3>2. q # p
      BY <2>1, <2>3, <3>1
    <3>3. CASE TakesAccount(q)
      BY <2>0, <2>1, <3>2, <3>3, LoginChanges DEF Becomes
    <3>4. CASE \E v \in Ids : TakesOver(q, v)
      <4>1. PICK v \in Ids : TakesOver(q, v)
        BY <3>4
      <4>2. v # p
        BY <2>2, <4>1 DEF TakesOver
      <4>3. \A x \in Ids \ {q, v} : player'[x] = player[x]
        BY <2>0, <4>1, LoginChanges
      <4> QED BY <2>1, <3>2, <4>2, <4>3
    <3> QED BY <2>5, <3>3, <3>4 DEF Starts
  <2>6. ASSUME NEW q \in Ids, LoggedIn(q) \/ MovesOn(q) \/ FailsLogin(q) \/ AsksLogin(q) \/ GivesUp(q)
        PROVE  player'[p] = player[p]
    <3>1. player[q].state \in LoginStates \/ player[q].state = "CHAT_CONNECT_TRY"
      BY <2>0, <2>6, PlaceFound DEF LoggedIn, MovesOn, FailsLogin, AsksLogin, GivesUp
    <3>2. q # p
      BY <2>1, <2>3, <3>1
    <3> QED BY <2>0, <2>1, <2>6, <3>2, LoginChanges DEF Becomes
  <2>8. ASSUME NEW d \in Ids, NEW q \in Ids,
               LogsIn(d, q) \/ AsksChat(d, q) \/ \E tests : JoinsChat(d, q, tests)
        PROVE  player'[p] = player[p]
    <3>1. player[q].state \in ChatConnectStates \cup {"CHAT_CONNECT_TRY"}
      BY <2>8 DEF LogsIn, AsksChat, JoinsChat, ChatConnectStates
    <3>2. q # p
      BY <2>1, <2>3, <3>1
    <3> QED BY <2>0, <2>1, <2>8, <3>2, ChatChanges DEF Becomes, GoesOn
  <2>9. ASSUME NEW d \in Ids, NEW q \in Ids, LeavesUnknown(d, q) \/ LeavesChat(d, q)
        PROVE  player'[p] = player[p]
    <3>1. Holder(d) = q /\ chatLogin'[d] = NoPlayer
      <4>1. chatConnect[d] = NoPlayer \/ chatLogin[d] = NoPlayer
        BY <2>0 DEF MapsOk
      <4> QED BY <2>0, <2>9, <4>1, ChatMapMoves
    <3>2. q # p
      <4>1. ASSUME q = p PROVE FALSE
        <5>1. c = d
          BY <2>0, <2>1, <3>1, <4>1, HolderAlone DEF p
        <5> QED BY <3>1, <5>1
      <4> QED BY <4>1
    <3> QED BY <2>0, <2>1, <2>9, <3>2, ChatChanges DEF Becomes
  <2>10. ASSUME NEW d \in Ids, NEW q \in Ids, Plays(d, q) PROVE player'[p] = player[p]
    <3>1. q # p
      BY <2>2, <2>10 DEF Plays
    <3> QED BY <2>0, <2>1, <2>10, <3>1, ChatChanges DEF Becomes, Sends
  <2>11. ASSUME NEW d \in Ids, NEW q \in Ids, NEW type, PlaysOn(d, q, type)
         PROVE  /\ player'[p].field \cap Tests = {"DUPLICATE_TARGET"}
                /\ player[p].state \in RecvStates => player'[p].state = player[p].state
    <3>1. GoesOn(q, After[type]) /\ player[q].state \in SentStates
      BY <2>0, <2>11, ChatChanges DEF PlaysOn, ReplyTo, SentStates
    <3>2. CASE q # p
      BY <2>1, <2>4, <3>1, <3>2 DEF GoesOn, Becomes
    <3>3. CASE q = p
      BY <2>2, <2>3, <3>1, <3>3 DEF GoesOn, Becomes
    <3> QED BY <3>2, <3>3
  <2>12. ASSUME OtherStep PROVE player'[p] = player[p]
    BY <2>12, OtherKeeps
  <2> QED BY <2>4, <2>5, <2>6, <2>8, <2>9, <2>10, <2>11, <2>12 DEF Step, PlayerStep, Starts, p
<1> QED BY <1>1, ContentsAlways, PTL DEF Spec, ReplacedWaits
=============================================================================
